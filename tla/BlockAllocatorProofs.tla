------------------------ MODULE BlockAllocatorProofs ------------------------
(***************************************************************************)
(* Proofs about the block allocator, for every device size, every number   *)
(* of bits per bitmap block and every place of the bitmap.  The inductive  *)
(* invariant adds to TypeOK, which says that the held blocks are data      *)
(* blocks, and to BitmapAgrees what the constructor has written so far.    *)
(***************************************************************************)
EXTENDS BlockAllocator, Digits, FiniteSetTheorems, TLAPS

-----------------------------------------------------------------------------
(* Arithmetic of the (bitmap block, position) addresses. *)

(* The bitmap has as many bits as the device has blocks, the unused bits of *)
(* the last bitmap block left aside.                                        *)
LEMMA Geometry ==
  /\ bitmap_block_cnt \in Nat \ {0}
  /\ last_block_num \in 1 .. BitsPerBlock
  /\ (bitmap_block_cnt - 1) * BitsPerBlock + last_block_num = TotalBlocks
<1> DEFINE q == TotalBlocks \div BitsPerBlock
           r == TotalBlocks % BitsPerBlock
<1>1. /\ q \in Nat /\ r \in 0 .. BitsPerBlock - 1
      /\ TotalBlocks = q * BitsPerBlock + r
  BY DivMod, GeometryAssumption
<1>2. bitmap_block_cnt = q + IF r # 0 THEN 1 ELSE 0
  BY DEF bitmap_block_cnt
<1>3. last_block_num = IF bitmap_block_cnt * BitsPerBlock = TotalBlocks
                         THEN BitsPerBlock ELSE r
  BY DEF last_block_num
<1>4. bitmap_block_cnt > 0
  BY ConstructorVerifies
<1> HIDE DEF q, r
<1>5. CASE r = 0
  <2>1. bitmap_block_cnt = q /\ q * BitsPerBlock = TotalBlocks
    BY <1>1, <1>2, <1>5, GeometryAssumption
  <2>2. (q - 1) * BitsPerBlock + BitsPerBlock = q * BitsPerBlock
    BY <1>1, GeometryAssumption
  <2>3. QED
    BY <1>1, <1>3, <1>4, <2>1, <2>2, GeometryAssumption
<1>6. CASE r # 0
  <2>1. bitmap_block_cnt = q + 1
    BY <1>2, <1>6
  <2>2. (q + 1) * BitsPerBlock = q * BitsPerBlock + BitsPerBlock
    BY <1>1, GeometryAssumption
  <2>3. bitmap_block_cnt * BitsPerBlock # TotalBlocks
    BY <1>1, <2>1, <2>2, GeometryAssumption
  <2>4. QED
    BY <1>1, <1>3, <1>6, <2>1, <2>3, GeometryAssumption
<1>7. QED
  BY <1>5, <1>6

(* Every bit below its block's bound addresses a block of the device, and   *)
(* every block of the device has exactly the bit deallocate computes.       *)
LEMMA AddressInRange ==
  ASSUME NEW i \in BitmapBlocks, NEW pos \in Positions
  PROVE  /\ BlockAt(i, pos) \in Nat
         /\ pos < Bound(i) <=> BlockAt(i, pos) < TotalBlocks
<1>1. /\ i \in Nat /\ i <= bitmap_block_cnt - 1
      /\ pos \in 0 .. BitsPerBlock - 1
  BY Geometry DEF BitmapBlocks, Positions
<1>2. i * BitsPerBlock \in Nat
  BY <1>1, GeometryAssumption
<1>3. CASE i = bitmap_block_cnt - 1
  <2>1. i * BitsPerBlock + last_block_num = TotalBlocks
    BY <1>3, Geometry
  <2>2. QED
    BY <1>1, <1>2, <1>3, <2>1, Geometry, GeometryAssumption DEF Bound, BlockAt
<1>4. CASE i # bitmap_block_cnt - 1
  <2>1. i < bitmap_block_cnt - 1 /\ bitmap_block_cnt - 1 \in Nat
    BY <1>1, <1>4, Geometry
  <2>2. i * BitsPerBlock + pos
          < (bitmap_block_cnt - 1) * BitsPerBlock + last_block_num
    BY <1>1, <2>1, DigitOrder, Geometry, GeometryAssumption
  <2>3. QED
    BY <1>1, <1>2, <1>4, <2>2, Geometry, GeometryAssumption DEF Bound, BlockAt
<1>5. QED
  BY <1>3, <1>4

LEMMA AddressOfBlock ==
  ASSUME NEW b \in Nat, b < TotalBlocks
  PROVE  /\ BitmapBlockOf(b) \in BitmapBlocks
         /\ Position(b) \in Positions
         /\ BlockAt(BitmapBlockOf(b), Position(b)) = b
<1>1. /\ BitmapBlockOf(b) \in Nat
      /\ Position(b) \in 0 .. BitsPerBlock - 1
      /\ b = BitmapBlockOf(b) * BitsPerBlock + Position(b)
  BY DivMod, GeometryAssumption DEF BitmapBlockOf, Position
<1>2. BitmapBlockOf(b) < bitmap_block_cnt
  <2>1. SUFFICES ASSUME bitmap_block_cnt - 1 < BitmapBlockOf(b)
                 PROVE  FALSE
    BY <1>1, Geometry
  <2>2. (bitmap_block_cnt - 1) * BitsPerBlock + (last_block_num - 1)
          < BitmapBlockOf(b) * BitsPerBlock + Position(b)
    <3>1. last_block_num - 1 \in 0 .. BitsPerBlock - 1
      BY Geometry, GeometryAssumption
    <3>2. bitmap_block_cnt - 1 \in Nat /\ Position(b) \in Nat
      BY <1>1, Geometry, GeometryAssumption
    <3>3. QED
      BY <1>1, <2>1, <3>1, <3>2, DigitOrder, GeometryAssumption
  <2>3. (bitmap_block_cnt - 1) * BitsPerBlock \in Nat
    BY Geometry, GeometryAssumption
  <2>4. QED
    BY <1>1, <2>2, <2>3, Geometry, GeometryAssumption
<1>3. QED
  BY <1>1, <1>2, Geometry DEF BitmapBlocks, Positions, BlockAt

(* Distinct bits stand for distinct blocks. *)
LEMMA AddressUnique ==
  ASSUME NEW i \in BitmapBlocks, NEW k \in BitmapBlocks,
         NEW p \in Positions, NEW q \in Positions,
         BlockAt(i, p) = BlockAt(k, q)
  PROVE  i = k /\ p = q
  BY UniqueDigits, Geometry, GeometryAssumption
     DEF BitmapBlocks, Positions, BlockAt

-----------------------------------------------------------------------------
(* The constructor's loops, half way: no block is held, nothing is buffered *)
(* before the bitmap is zero, the next bit falls in the buffer's bitmap     *)
(* block or is the first one behind it, the buffer holds the bits already   *)
(* set of its bitmap block, and of the bitmap blocks already zeroed those   *)
(* before the buffer's are full and the others empty.                       *)
Filled ==
  \A k \in BitmapBlocks, pos \in Positions :
    k < ctor.zeroed => (pos \in bitmap[k] <=> k < ctor.cur)

Loop ==
  /\ ctor.done => ctor.zeroed = bitmap_block_cnt /\ ctor.i = ReservedCnt
  /\ ~ctor.done =>
       /\ owned = {}
       /\ ctor.zeroed < bitmap_block_cnt => ctor.i = 0 /\ ctor.cur = 0
       /\ ctor.cur * BitsPerBlock <= ctor.i
       /\ ctor.i <= ctor.cur * BitsPerBlock + BitsPerBlock
       /\ \A pos \in Positions :
            pos \in ctor.buffer <=> BlockAt(ctor.cur, pos) < ctor.i
       /\ Filled

(* The inductive invariant, and its form after the constructor. *)
IInv == TypeOK /\ Loop /\ BitmapAgrees
Running == TypeOK /\ ctor.done /\ Agrees

(* A clear bit below the bound of its bitmap block is a free data block. *)
LEMMA FreeBit ==
  ASSUME Running, NEW i \in BitmapBlocks, NEW pos \in Nat
  PROVE  pos \in FreeIn(i) <=>
           pos \in Positions /\ BlockAt(i, pos) \in DataBlocks \ owned
<1>1. FreeIn(i) \subseteq Positions
  BY Geometry, GeometryAssumption DEF FreeIn, Bound, Positions
<1>2. ASSUME pos \in Positions
      PROVE  pos \in FreeIn(i) <=> BlockAt(i, pos) \in DataBlocks \ owned
  <2>1. pos \in FreeIn(i) <=> pos < Bound(i) /\ pos \notin bitmap[i]
    BY <1>2, Geometry, GeometryAssumption DEF FreeIn, Bound, Positions
  <2>2. pos \in bitmap[i] <=> BlockAt(i, pos) \in Reserved \cup owned
    BY <1>2 DEF Running, Agrees
  <2>3. /\ BlockAt(i, pos) \in Nat
        /\ pos < Bound(i) <=> BlockAt(i, pos) < TotalBlocks
    BY <1>2, AddressInRange
  <2>4. BlockAt(i, pos) < TotalBlocks <=> BlockAt(i, pos) \in 0 .. TotalBlocks - 1
    BY <2>3, GeometryAssumption
  <2>5. QED
    BY <2>1, <2>2, <2>3, <2>4 DEF DataBlocks
<1>3. QED
  BY <1>1, <1>2

(* Every free data block has such a bit. *)
LEMMA FreeBlock ==
  ASSUME Running, NEW b \in DataBlocks \ owned
  PROVE  /\ BitmapBlockOf(b) \in BitmapBlocks
         /\ Position(b) \in FreeIn(BitmapBlockOf(b))
         /\ BlockAt(BitmapBlockOf(b), Position(b)) = b
<1>1. b \in Nat /\ b < TotalBlocks
  BY GeometryAssumption DEF DataBlocks
<1>2. /\ BitmapBlockOf(b) \in BitmapBlocks /\ Position(b) \in Positions
      /\ BlockAt(BitmapBlockOf(b), Position(b)) = b
  BY <1>1, AddressOfBlock
<1>3. Position(b) \in Nat
  BY <1>2, GeometryAssumption DEF Positions
<1>4. QED
  BY <1>2, <1>3, FreeBit

LEMMA InitIInv == Init => IInv
<1> SUFFICES ASSUME Init PROVE IInv
  OBVIOUS
<1>0. /\ bitmap_block_cnt \in Nat \ {0} /\ ReservedCnt \in Nat
      /\ 0 \in BitmapBlocks
  BY Geometry, GeometryAssumption DEF ReservedCnt, BitmapBlocks
<1>1. TypeOK
  <2>1. Result("none", 0, "OK", 0) \in
          [op : Ops, id : 0 .. TotalBlocks, code : Codes, val : 0 .. TotalBlocks]
    BY GeometryAssumption DEF Result, Ops, Codes
  <2>2. QED
    BY <1>0, <2>1 DEF Init, TypeOK
<1>2. BitmapAgrees
  BY DEF Init, BitmapAgrees
<1>3. Loop
  <2>1. 0 * BitsPerBlock = 0
    BY GeometryAssumption
  <2>2. \A pos \in Positions : ~(BlockAt(0, pos) < 0)
    BY <2>1, GeometryAssumption DEF Positions, BlockAt
  <2>3. Filled
    BY <1>0 DEF Init, Filled, BitmapBlocks
  <2>4. QED
    BY <1>0, <2>1, <2>2, <2>3, GeometryAssumption DEF Init, Loop
<1>4. QED
  BY <1>1, <1>2, <1>3 DEF IInv

(* The state of the constructor's loops, as numbers. *)
LEMMA CtorNumbers ==
  ASSUME TypeOK
  PROVE  /\ ctor.zeroed \in Nat /\ ctor.zeroed <= bitmap_block_cnt
         /\ ctor.i \in Nat /\ ctor.i <= ReservedCnt
         /\ ctor.cur \in Nat /\ ctor.cur \in BitmapBlocks
         /\ ctor.cur * BitsPerBlock \in Nat
         /\ bitmap_block_cnt \in Nat \ {0}
         /\ ReservedCnt \in Nat /\ ReservedCnt <= TotalBlocks
<1>1. /\ bitmap_block_cnt \in Nat \ {0}
      /\ ReservedCnt \in Nat /\ ReservedCnt <= TotalBlocks
  BY Geometry, ConstructorVerifies, GeometryAssumption DEF ReservedCnt
<1>2. /\ ctor.zeroed \in 0 .. bitmap_block_cnt
      /\ ctor.i \in 0 .. ReservedCnt /\ ctor.cur \in BitmapBlocks
  BY DEF TypeOK
<1>3. ctor.cur \in Nat
  BY <1>1, <1>2 DEF BitmapBlocks
<1>4. QED
  BY <1>1, <1>2, <1>3, GeometryAssumption

LEMMA ZeroBlockIInv == IInv /\ ZeroBlock /\ UNCHANGED <<ret, owned>> => IInv'
<1> SUFFICES ASSUME IInv, ZeroBlock, UNCHANGED <<ret, owned>> PROVE IInv'
  OBVIOUS
<1>0. TypeOK /\ Loop
  BY DEF IInv
<1>1. /\ ctor.zeroed < bitmap_block_cnt /\ ~ctor.done
      /\ ctor.i = 0 /\ ctor.cur = 0
  BY <1>0, CtorNumbers DEF ZeroBlock, Loop
<1>2. /\ ctor' = [ctor EXCEPT !.zeroed = @ + 1]
      /\ bitmap' = [bitmap EXCEPT ![ctor.zeroed] = {}]
  BY DEF ZeroBlock
<1>3. /\ ctor'.zeroed = ctor.zeroed + 1 /\ ctor'.i = ctor.i
      /\ ctor'.cur = ctor.cur /\ ctor'.buffer = ctor.buffer /\ ~ctor'.done
  BY <1>0, <1>1, <1>2 DEF TypeOK
<1>4. ctor.zeroed \in BitmapBlocks
  BY <1>0, <1>1, CtorNumbers DEF BitmapBlocks
<1>5. TypeOK'
  <2>1. ctor.zeroed + 1 \in 0 .. bitmap_block_cnt
    BY <1>0, <1>1, CtorNumbers
  <2>2. bitmap' \in [BitmapBlocks -> SUBSET Positions]
    BY <1>0, <1>2, <1>4 DEF TypeOK
  <2>3. QED
    BY <1>0, <1>2, <2>1, <2>2 DEF TypeOK
<1>6. Filled'
  <2> SUFFICES ASSUME NEW k \in BitmapBlocks, NEW pos \in Positions,
                      k < ctor'.zeroed
               PROVE  pos \in bitmap'[k] <=> k < ctor'.cur
    BY DEF Filled
  <2>1. k \in Nat /\ ~(k < ctor'.cur)
    BY <1>0, <1>1, <1>3, CtorNumbers DEF BitmapBlocks
  <2>2. CASE k = ctor.zeroed
    BY <1>0, <1>2, <1>4, <2>1, <2>2 DEF TypeOK
  <2>3. CASE k # ctor.zeroed
    <3>1. k < ctor.zeroed
      BY <1>0, <1>3, <2>1, <2>3, CtorNumbers
    <3>2. bitmap'[k] = bitmap[k]
      BY <1>0, <1>2, <2>3 DEF TypeOK
    <3>3. QED
      BY <1>0, <1>1, <1>3, <2>1, <3>1, <3>2 DEF Loop, Filled
  <2>4. QED
    BY <2>2, <2>3
<1>7. Loop'
  BY <1>0, <1>1, <1>3, <1>6, CtorNumbers DEF Loop
<1>8. QED
  BY <1>3, <1>5, <1>7 DEF IInv, BitmapAgrees

(* The bit set by a round is in the buffer's bitmap block, or the first one *)
(* of the next: then all bits of the buffer are one.                        *)
LEMMA NextBit ==
  ASSUME TypeOK, Loop, ~ctor.done, ctor.i < ReservedCnt
  PROVE  /\ BitmapBlockOf(ctor.i) \in BitmapBlocks
         /\ Position(ctor.i) \in Positions
         /\ BlockAt(BitmapBlockOf(ctor.i), Position(ctor.i)) = ctor.i
         /\ BitmapBlockOf(ctor.i) # ctor.cur =>
              /\ BitmapBlockOf(ctor.i) = ctor.cur + 1
              /\ Position(ctor.i) = 0
              /\ ctor.i = ctor.cur * BitsPerBlock + BitsPerBlock
<1> DEFINE k == BitmapBlockOf(ctor.i)
           p == Position(ctor.i)
<1>1. ctor.i \in Nat /\ ctor.i < TotalBlocks
  BY CtorNumbers, GeometryAssumption
<1>2. k \in BitmapBlocks /\ p \in Positions /\ BlockAt(k, p) = ctor.i
  BY <1>1, AddressOfBlock
<1>3. /\ k \in Nat /\ p \in 0 .. BitsPerBlock - 1
      /\ k * BitsPerBlock + p = ctor.i
  BY <1>2, Geometry DEF BitmapBlocks, Positions, BlockAt
<1> HIDE DEF k, p
<1>4. /\ ctor.cur * BitsPerBlock <= ctor.i
      /\ ctor.i <= ctor.cur * BitsPerBlock + BitsPerBlock
  BY DEF Loop
<1>5. ctor.cur \in Nat /\ ctor.cur * BitsPerBlock \in Nat
  BY CtorNumbers
<1>6. ASSUME k # ctor.cur
      PROVE  k = ctor.cur + 1 /\ p = 0
  <2>1. ~(k < ctor.cur)
    <3>1. SUFFICES ASSUME k < ctor.cur PROVE FALSE
      OBVIOUS
    <3>2. k * BitsPerBlock + p < ctor.cur * BitsPerBlock + 0
      BY <1>3, <1>5, <3>1, DigitOrder, GeometryAssumption
    <3>3. QED
      BY <1>1, <1>3, <1>4, <1>5, <3>2
  <2>2. (ctor.cur + 1) * BitsPerBlock = ctor.cur * BitsPerBlock + BitsPerBlock
    BY <1>5, GeometryAssumption
  <2>3. ~(ctor.cur + 1 < k)
    <3>1. SUFFICES ASSUME ctor.cur + 1 < k PROVE FALSE
      OBVIOUS
    <3>2. (ctor.cur + 1) * BitsPerBlock + 0 < k * BitsPerBlock + p
      BY <1>3, <1>5, <3>1, DigitOrder, GeometryAssumption
    <3>3. QED
      BY <1>1, <1>3, <1>4, <1>5, <2>2, <3>2, GeometryAssumption
  <2>4. k = ctor.cur + 1
    BY <1>3, <1>5, <1>6, <2>1, <2>3
  <2>5. p = 0
    BY <1>1, <1>3, <1>4, <1>5, <2>2, <2>4, GeometryAssumption
  <2>6. QED
    BY <2>4, <2>5
<1>7. ASSUME k # ctor.cur
      PROVE  ctor.i = ctor.cur * BitsPerBlock + BitsPerBlock
  <2>1. (ctor.cur + 1) * BitsPerBlock = ctor.cur * BitsPerBlock + BitsPerBlock
    BY <1>5, GeometryAssumption
  <2>2. k = ctor.cur + 1 /\ p = 0
    BY <1>6, <1>7
  <2>3. (ctor.cur + 1) * BitsPerBlock + 0 = ctor.i
    BY <1>3, <2>2
  <2>4. QED
    BY <1>5, <2>1, <2>3, GeometryAssumption
<1>8. QED
  BY <1>2, <1>6, <1>7 DEF k, p

(* Writing the buffer back fills or begins the bitmap block it belongs to.  *)
LEMMA BufferWritten ==
  ASSUME TypeOK, Loop, ~ctor.done, ctor.zeroed = bitmap_block_cnt,
         bitmap' = [bitmap EXCEPT ![ctor.cur] = ctor.buffer],
         NEW k \in BitmapBlocks, NEW pos \in Positions
  PROVE  /\ bitmap' \in [BitmapBlocks -> SUBSET Positions]
         /\ pos \in bitmap'[k] <=> BlockAt(k, pos) < ctor.i
<1>1. ctor.cur \in BitmapBlocks /\ ctor.buffer \in SUBSET Positions
  BY DEF TypeOK
<1>2. bitmap' \in [BitmapBlocks -> SUBSET Positions]
  BY <1>1 DEF TypeOK
<1>3. /\ k \in Nat /\ k < ctor.zeroed /\ ctor.cur \in Nat
      /\ pos \in 0 .. BitsPerBlock - 1
      /\ k * BitsPerBlock \in Nat /\ ctor.cur * BitsPerBlock \in Nat
      /\ ctor.i \in Nat
  BY CtorNumbers, GeometryAssumption DEF BitmapBlocks, Positions
<1>4. /\ ctor.cur * BitsPerBlock <= ctor.i
      /\ ctor.i <= ctor.cur * BitsPerBlock + BitsPerBlock
      /\ \A q \in Positions : q \in ctor.buffer <=> BlockAt(ctor.cur, q) < ctor.i
      /\ pos \in bitmap[k] <=> k < ctor.cur
  BY <1>3 DEF Loop, Filled
<1>5. CASE k = ctor.cur
  BY <1>1, <1>4, <1>5 DEF TypeOK
<1>6. CASE k # ctor.cur
  <2>1. pos \in bitmap'[k] <=> k < ctor.cur
    BY <1>4, <1>6 DEF TypeOK
  <2>2. ASSUME k < ctor.cur PROVE BlockAt(k, pos) < ctor.i
    <3>1. k * BitsPerBlock + pos < ctor.cur * BitsPerBlock + 0
      BY <1>3, <2>2, DigitOrder, GeometryAssumption
    <3>2. QED
      BY <1>3, <1>4, <3>1, GeometryAssumption DEF BlockAt
  <2>3. ASSUME ctor.cur < k PROVE ~(BlockAt(k, pos) < ctor.i)
    <3>1. ctor.cur * BitsPerBlock + (BitsPerBlock - 1) < k * BitsPerBlock + pos
      BY <1>3, <2>3, DigitOrder, GeometryAssumption
    <3>2. QED
      BY <1>3, <1>4, <3>1, GeometryAssumption DEF BlockAt
  <2>4. k < ctor.cur \/ ctor.cur < k
    BY <1>3, <1>6
  <2>5. pos \in bitmap'[k] <=> BlockAt(k, pos) < ctor.i
    BY <1>3, <2>1, <2>2, <2>3, <2>4
  <2>6. QED
    BY <1>2, <2>5
<1>7. QED
  BY <1>2, <1>5, <1>6

LEMMA SetReservedIInv == IInv /\ SetReserved /\ UNCHANGED <<ret, owned>> => IInv'
<1> SUFFICES ASSUME IInv, SetReserved, UNCHANGED <<ret, owned>> PROVE IInv'
  OBVIOUS
<1> DEFINE k == BitmapBlockOf(ctor.i)
           p == Position(ctor.i)
<1>0. TypeOK /\ Loop
  BY DEF IInv
<1>1. ctor.zeroed = bitmap_block_cnt /\ ctor.i < ReservedCnt /\ ~ctor.done
  BY <1>0, CtorNumbers DEF SetReserved, Loop
<1>2. /\ k \in BitmapBlocks /\ p \in Positions /\ BlockAt(k, p) = ctor.i
      /\ k # ctor.cur => /\ k = ctor.cur + 1 /\ p = 0
                         /\ ctor.i = ctor.cur * BitsPerBlock + BitsPerBlock
  BY <1>0, <1>1, NextBit
<1>3. /\ ctor' = [ctor EXCEPT !.i = @ + 1, !.cur = k,
                     !.buffer = (IF k # ctor.cur THEN {} ELSE @) \cup {p}]
      /\ bitmap' = IF k # ctor.cur
                     THEN [bitmap EXCEPT ![ctor.cur] = ctor.buffer] ELSE bitmap
  BY <1>0 DEF SetReserved, TypeOK
<1> HIDE DEF k, p
<1>4. /\ ctor'.zeroed = ctor.zeroed /\ ctor'.i = ctor.i + 1 /\ ctor'.cur = k
      /\ ctor'.buffer = (IF k # ctor.cur THEN {} ELSE ctor.buffer) \cup {p}
      /\ ~ctor'.done
  BY <1>0, <1>1, <1>3 DEF TypeOK
<1>5. bitmap' \in [BitmapBlocks -> SUBSET Positions]
  BY <1>0, <1>3 DEF TypeOK
<1>6. TypeOK'
  <2>1. ctor.i + 1 \in 0 .. ReservedCnt
    BY <1>0, <1>1, CtorNumbers
  <2>2. ctor'.buffer \in SUBSET Positions
    BY <1>0, <1>2, <1>4 DEF TypeOK
  <2>3. ctor' \in [zeroed : 0 .. bitmap_block_cnt, i : 0 .. ReservedCnt,
                   cur : BitmapBlocks, buffer : SUBSET Positions, done : BOOLEAN]
    BY <1>0, <1>2, <1>3, <1>4, <2>1, <2>2 DEF TypeOK
  <2>4. QED
    BY <1>0, <1>5, <2>3 DEF TypeOK
<1>7. /\ ctor.i \in Nat /\ ctor.cur \in Nat /\ ctor.cur * BitsPerBlock \in Nat
      /\ k \in Nat /\ k * BitsPerBlock \in Nat /\ p \in 0 .. BitsPerBlock - 1
      /\ k * BitsPerBlock + p = ctor.i
  BY <1>0, <1>2, CtorNumbers, GeometryAssumption
     DEF BitmapBlocks, Positions, BlockAt
<1>8. \A q \in Positions : q \in ctor'.buffer <=> BlockAt(k, q) < ctor.i + 1
  <2> SUFFICES ASSUME NEW q \in Positions
               PROVE  q \in ctor'.buffer <=> BlockAt(k, q) < ctor.i + 1
    OBVIOUS
  <2>1. q \in 0 .. BitsPerBlock - 1
    BY DEF Positions
  <2>2. BlockAt(k, q) < ctor.i + 1 <=> q < p \/ q = p
    BY <1>7, <2>1, GeometryAssumption DEF BlockAt
  <2>3. CASE k = ctor.cur
    <3>1. q \in ctor.buffer <=> BlockAt(k, q) < ctor.i
      BY <1>0, <1>1, <2>3 DEF Loop
    <3>2. BlockAt(k, q) < ctor.i <=> q < p
      BY <1>7, <2>1, GeometryAssumption DEF BlockAt
    <3>3. QED
      BY <1>4, <2>2, <2>3, <3>1, <3>2
  <2>4. CASE k # ctor.cur
    BY <1>2, <1>4, <2>1, <2>2, <2>4
  <2>5. QED
    BY <2>3, <2>4
<1>9. Filled'
  <2> SUFFICES ASSUME NEW m \in BitmapBlocks, NEW q \in Positions,
                      m < ctor'.zeroed
               PROVE  q \in bitmap'[m] <=> m < ctor'.cur
    BY DEF Filled
  <2>1. CASE k = ctor.cur
    BY <1>0, <1>1, <1>3, <1>4, <2>1 DEF Loop, Filled
  <2>2. CASE k # ctor.cur
    <3>1. q \in bitmap'[m] <=> BlockAt(m, q) < ctor.i
      BY <1>0, <1>1, <1>3, <2>2, BufferWritten
    <3>2. p = 0
      BY <1>2, <2>2
    <3>3. m \in Nat /\ q \in 0 .. BitsPerBlock - 1 /\ m * BitsPerBlock \in Nat
      BY Geometry, GeometryAssumption DEF BitmapBlocks, Positions
    <3>4. ASSUME m < k PROVE BlockAt(m, q) < ctor.i
      BY <1>7, <3>3, <3>4, DigitOrder, GeometryAssumption DEF BlockAt
    <3>5. ASSUME k < m PROVE ~(BlockAt(m, q) < ctor.i)
      <4>1. k * BitsPerBlock + p < m * BitsPerBlock + q
        BY <1>7, <3>3, <3>5, DigitOrder, GeometryAssumption
      <4>2. QED
        BY <1>7, <3>3, <4>1, GeometryAssumption DEF BlockAt
    <3>6. ASSUME m = k PROVE ~(BlockAt(m, q) < ctor.i)
      BY <1>7, <3>2, <3>3, <3>6, GeometryAssumption DEF BlockAt
    <3>7. QED
      BY <1>4, <1>7, <3>1, <3>3, <3>4, <3>5, <3>6
  <2>3. QED
    BY <2>1, <2>2
<1>10. Loop'
  <2>1. /\ k * BitsPerBlock <= ctor.i + 1
        /\ ctor.i + 1 <= k * BitsPerBlock + BitsPerBlock
    BY <1>7, GeometryAssumption
  <2>2. owned' = {} /\ ~(ctor'.zeroed < bitmap_block_cnt)
    BY <1>0, <1>1, <1>4, CtorNumbers DEF Loop
  <2>3. QED
    BY <1>4, <1>8, <1>9, <2>1, <2>2 DEF Loop
<1>11. QED
  BY <1>4, <1>6, <1>10 DEF IInv, BitmapAgrees

LEMMA FlushLastIInv == IInv /\ FlushLast /\ UNCHANGED <<ret, owned>> => IInv'
<1> SUFFICES ASSUME IInv, FlushLast, UNCHANGED <<ret, owned>> PROVE IInv'
  OBVIOUS
<1>0. TypeOK /\ Loop
  BY DEF IInv
<1>1. /\ ctor.zeroed = bitmap_block_cnt /\ ctor.i = ReservedCnt /\ ~ctor.done
      /\ bitmap' = [bitmap EXCEPT ![ctor.cur] = ctor.buffer]
      /\ ctor' = [ctor EXCEPT !.done = TRUE]
  BY DEF FlushLast
<1>2. TypeOK'
  <2>1. bitmap' \in [BitmapBlocks -> SUBSET Positions]
    BY <1>0, <1>1 DEF TypeOK
  <2>2. QED
    BY <1>0, <1>1, <2>1 DEF TypeOK
<1>3. /\ ctor'.done /\ ctor'.zeroed = bitmap_block_cnt
      /\ ctor'.i = ReservedCnt
  BY <1>0, <1>1 DEF TypeOK
<1>4. Agrees'
  <2> SUFFICES ASSUME NEW k \in BitmapBlocks, NEW pos \in Positions
               PROVE  pos \in bitmap'[k] <=> BlockAt(k, pos) \in Reserved \cup owned'
    BY DEF Agrees
  <2>1. pos \in bitmap'[k] <=> BlockAt(k, pos) < ReservedCnt
    BY <1>0, <1>1, BufferWritten
  <2>2. BlockAt(k, pos) \in Nat /\ ReservedCnt \in Nat
    BY <1>0, AddressInRange, CtorNumbers
  <2>3. owned' = {}
    BY <1>0, <1>1 DEF Loop
  <2>4. QED
    BY <2>1, <2>2, <2>3 DEF Reserved
<1>5. QED
  BY <1>2, <1>3, <1>4 DEF IInv, Loop, BitmapAgrees

(* The bit and the block that a successful allocate adds. *)
LEMMA AllocateRunning == Running /\ Allocate /\ UNCHANGED ctor => Running'
<1> SUFFICES ASSUME Running, Allocate, UNCHANGED ctor PROVE Running'
  OBVIOUS
<1>0. PICK i \in BitmapBlocks : \E pos \in FreeIn(i) :
        /\ bitmap' = [bitmap EXCEPT ![i] = @ \cup {pos}]
        /\ ret' = Result("allocate", 0, "OK", BlockAt(i, pos))
        /\ owned' = owned \cup {BlockAt(i, pos)}
  BY DEF Allocate
<1>1. PICK pos \in FreeIn(i) :
        /\ bitmap' = [bitmap EXCEPT ![i] = @ \cup {pos}]
        /\ ret' = Result("allocate", 0, "OK", BlockAt(i, pos))
        /\ owned' = owned \cup {BlockAt(i, pos)}
  BY <1>0
<1>2. pos \in Positions /\ BlockAt(i, pos) \in DataBlocks \ owned
  <2>1. pos \in Nat
    BY Geometry, GeometryAssumption DEF FreeIn, Bound
  <2>2. QED
    BY <2>1, FreeBit
<1>3. TypeOK'
  <2>1. BlockAt(i, pos) \in 0 .. TotalBlocks
    BY <1>2, GeometryAssumption DEF DataBlocks
  <2>2. ret' \in [op : Ops, id : 0 .. TotalBlocks, code : Codes, val : 0 .. TotalBlocks]
    BY <1>1, <2>1, GeometryAssumption DEF Result, Ops, Codes
  <2>3. QED
    BY <1>1, <1>2, <2>2 DEF Running, TypeOK
<1>4. Agrees'
  <2> SUFFICES ASSUME NEW k \in BitmapBlocks, NEW q \in Positions
               PROVE  q \in bitmap'[k] <=> BlockAt(k, q) \in Reserved \cup owned'
    BY DEF Agrees
  <2>1. q \in bitmap[k] <=> BlockAt(k, q) \in Reserved \cup owned
    BY DEF Running, Agrees
  <2>2. q \in bitmap'[k] <=> q \in bitmap[k] \/ (k = i /\ q = pos)
    BY <1>1 DEF Running, TypeOK
  <2>3. BlockAt(k, q) = BlockAt(i, pos) <=> k = i /\ q = pos
    BY <1>2, AddressUnique
  <2>4. QED
    BY <1>1, <2>1, <2>2, <2>3
<1>5. QED
  BY <1>3, <1>4 DEF Running

LEMMA DeallocateRunning ==
  ASSUME NEW b \in DataBlocks \cup {TotalBlocks}
  PROVE  Running /\ Deallocate(b) /\ UNCHANGED ctor => Running'
<1> SUFFICES ASSUME Running, Deallocate(b), UNCHANGED ctor PROVE Running'
  OBVIOUS
<1>1. /\ b \in DataBlocks /\ b \in Nat /\ b < TotalBlocks
      /\ bitmap' = [bitmap EXCEPT ![BitmapBlockOf(b)] = @ \ {Position(b)}]
      /\ ret' = Result("deallocate", b, "OK", 0)
      /\ owned' = owned \ {b}
  BY GeometryAssumption DEF Deallocate, DataBlocks
<1>2. /\ BitmapBlockOf(b) \in BitmapBlocks /\ Position(b) \in Positions
      /\ BlockAt(BitmapBlockOf(b), Position(b)) = b
  BY <1>1, AddressOfBlock
<1>3. TypeOK'
  <2>1. ret' \in [op : Ops, id : 0 .. TotalBlocks, code : Codes, val : 0 .. TotalBlocks]
    BY <1>1, GeometryAssumption DEF Result, Ops, Codes
  <2>2. QED
    BY <1>1, <2>1 DEF Running, TypeOK
<1>4. Agrees'
  <2> SUFFICES ASSUME NEW k \in BitmapBlocks, NEW q \in Positions
               PROVE  q \in bitmap'[k] <=> BlockAt(k, q) \in Reserved \cup owned'
    BY DEF Agrees
  <2>1. q \in bitmap[k] <=> BlockAt(k, q) \in Reserved \cup owned
    BY DEF Running, Agrees
  <2>2. q \in bitmap'[k] <=>
          q \in bitmap[k] /\ ~(k = BitmapBlockOf(b) /\ q = Position(b))
    BY <1>1, <1>2 DEF Running, TypeOK
  <2>3. BlockAt(k, q) = b <=> k = BitmapBlockOf(b) /\ q = Position(b)
    BY <1>2, AddressUnique
  <2>4. b \notin Reserved
    BY <1>1 DEF DataBlocks
  <2>5. QED
    BY <1>1, <2>1, <2>2, <2>3, <2>4
<1>5. QED
  BY <1>3, <1>4 DEF Running

(* The zero bits below the bounds are as many as the free data blocks. *)
LEMMA ZeroBitsCount ==
  ASSUME Running
  PROVE  /\ IsFiniteSet(DataBlocks \ owned)
         /\ Cardinality(ZeroBits) = Cardinality(DataBlocks \ owned)
         /\ Cardinality(ZeroBits) \in 0 .. TotalBlocks
<1> DEFINE F == DataBlocks \ owned
           f == [b \in F |-> <<BitmapBlockOf(b), Position(b)>>]
<1>1. /\ IsFiniteSet(F) /\ Cardinality(F) \in 0 .. TotalBlocks
  <2>1. /\ IsFiniteSet(0 .. TotalBlocks - 1)
        /\ Cardinality(0 .. TotalBlocks - 1) = TotalBlocks
    BY FS_Interval, GeometryAssumption
  <2>2. F \in SUBSET (0 .. TotalBlocks - 1)
    BY DEF DataBlocks
  <2> HIDE DEF F
  <2>3. IsFiniteSet(F) /\ Cardinality(F) <= TotalBlocks
    BY <2>1, <2>2, FS_Subset
  <2>4. QED
    BY <2>3, FS_CardinalityType, GeometryAssumption
<1>2. f \in [F -> ZeroBits]
  <2>1. \A b \in F : <<BitmapBlockOf(b), Position(b)>> \in ZeroBits
    <3> SUFFICES ASSUME NEW b \in F
                 PROVE  <<BitmapBlockOf(b), Position(b)>> \in ZeroBits
      OBVIOUS
    <3>1. /\ BitmapBlockOf(b) \in BitmapBlocks
          /\ Position(b) \in FreeIn(BitmapBlockOf(b))
      BY FreeBlock
    <3>2. Position(b) \in Positions
      BY <3>1, Geometry, GeometryAssumption DEF FreeIn, Bound, Positions
    <3>3. QED
      BY <3>1, <3>2 DEF ZeroBits
  <2>2. QED
    BY <2>1
<1>3. f \in Injection(F, ZeroBits)
  <2>1. \A a, b \in F : f[a] = f[b] => a = b
    <3> SUFFICES ASSUME NEW a \in F, NEW b \in F, f[a] = f[b] PROVE a = b
      OBVIOUS
    <3>1. BitmapBlockOf(a) = BitmapBlockOf(b) /\ Position(a) = Position(b)
      OBVIOUS
    <3>2. /\ BlockAt(BitmapBlockOf(a), Position(a)) = a
          /\ BlockAt(BitmapBlockOf(b), Position(b)) = b
      BY FreeBlock
    <3>3. QED
      BY <3>1, <3>2
  <2>2. QED
    BY <1>2, <2>1 DEF Injection, IsInjective
<1>4. f \in Surjection(F, ZeroBits)
  <2>1. \A bit \in ZeroBits : \E b \in F : f[b] = bit
    <3> SUFFICES ASSUME NEW bit \in ZeroBits PROVE \E b \in F : f[b] = bit
      OBVIOUS
    <3>1. /\ bit[1] \in BitmapBlocks /\ bit[2] \in Positions
          /\ bit[2] \in FreeIn(bit[1]) /\ bit = <<bit[1], bit[2]>>
      BY DEF ZeroBits
    <3> DEFINE b == BlockAt(bit[1], bit[2])
    <3>2. b \in F
      <4>1. bit[2] \in Nat
        BY <3>1, GeometryAssumption DEF Positions
      <4>2. QED
        BY <3>1, <4>1, FreeBit
    <3>3. /\ BitmapBlockOf(b) \in BitmapBlocks /\ Position(b) \in Positions
          /\ BlockAt(BitmapBlockOf(b), Position(b)) = b
      <4>1. b \in Nat /\ b < TotalBlocks
        BY <3>2, GeometryAssumption DEF DataBlocks
      <4>2. QED
        BY <4>1, AddressOfBlock
    <3>4. BitmapBlockOf(b) = bit[1] /\ Position(b) = bit[2]
      BY <3>1, <3>3, AddressUnique
    <3>5. QED
      BY <3>1, <3>2, <3>4
  <2>2. QED
    BY <1>2, <2>1 DEF Surjection
<1> HIDE DEF F, f
<1>5. Cardinality(ZeroBits) = Cardinality(F)
  BY <1>1, <1>3, <1>4, FS_Surjection
<1>6. QED
  BY <1>1, <1>5 DEF F

(* A call leaves the bitmap, the held blocks and the free count in order.   *)
LEMMA CallRunning == Running /\ Call /\ UNCHANGED ctor => Running'
<1> SUFFICES ASSUME Running, Call, UNCHANGED ctor PROVE Running'
  OBVIOUS
<1>1. CASE Allocate
  BY <1>1, AllocateRunning
<1>2. ASSUME NEW op \in Ops, NEW id \in 0 .. TotalBlocks,
             NEW code \in Codes, NEW val \in 0 .. TotalBlocks,
             ret' = Result(op, id, code, val), UNCHANGED <<bitmap, owned>>
      PROVE  Running'
  <2>1. TypeOK'
    BY <1>2 DEF Running, TypeOK, Result
  <2>2. Agrees'
    BY <1>2 DEF Running, Agrees
  <2>3. QED
    BY <2>1, <2>2 DEF Running
<1>3. 0 \in 0 .. TotalBlocks
  BY GeometryAssumption
<1>4. CASE AllocateFails
  BY <1>2, <1>3, <1>4 DEF AllocateFails, Ops, Codes
<1>5. ASSUME NEW b \in DataBlocks \cup {TotalBlocks}, Deallocate(b)
      PROVE  Running'
  BY <1>5, DeallocateRunning
<1>6. ASSUME NEW b \in DataBlocks \cup {TotalBlocks}, DeallocateFails(b)
      PROVE  Running'
  <2>1. b \in 0 .. TotalBlocks
    BY GeometryAssumption DEF DataBlocks
  <2>2. QED
    BY <1>2, <1>3, <1>6, <2>1 DEF DeallocateFails, Ops, Codes
<1>7. CASE FreeBlockCnt
  BY <1>2, <1>3, <1>7, ZeroBitsCount DEF FreeBlockCnt, Ops, Codes
<1>8. QED
  BY <1>1, <1>4, <1>5, <1>6, <1>7 DEF Call

LEMMA NextIInv == IInv /\ [Next]_vars => IInv'
<1> SUFFICES ASSUME IInv, [Next]_vars PROVE IInv'
  OBVIOUS
<1>1. CASE Construct
  BY <1>1, ZeroBlockIInv, SetReservedIInv, FlushLastIInv DEF Construct
<1>2. CASE ctor.done /\ Call /\ UNCHANGED ctor
  <2>1. Running'
    BY <1>2, CallRunning DEF IInv, Running, BitmapAgrees
  <2>2. Loop'
    BY <1>2 DEF IInv, Loop
  <2>3. QED
    BY <2>1, <2>2 DEF Running, IInv, BitmapAgrees
<1>3. CASE UNCHANGED vars
  BY <1>3 DEF vars, IInv, TypeOK, Loop, Filled, BitmapAgrees, Agrees
<1>4. QED
  BY <1>1, <1>2, <1>3 DEF Next

(* The allocator's state keeps its shape: bit positions stay within their   *)
(* bitmap block, the constructor writes no block beyond the bitmap, and     *)
(* only data blocks are ever held by callers.                               *)
THEOREM TypeCorrect == Spec => []TypeOK
<1>1. IInv => TypeOK
  BY DEF IInv
<1>2. QED
  BY <1>1, InitIInv, NextIInv, PTL DEF Spec

(* On every device, whatever it held before, the constructor's loop         *)
(* reserves exactly the blocks before and of the bitmap, and from then on   *)
(* the bitmap agrees with what the callers hold after any sequence of       *)
(* calls: no block is lost, none is held twice.                             *)
THEOREM Agreement == Spec => []BitmapAgrees
<1>1. IInv => BitmapAgrees
  BY DEF IInv
<1>2. QED
  BY <1>1, InitIInv, NextIInv, PTL DEF Spec

-----------------------------------------------------------------------------
(* The refinement of BlockPool. *)

LEMMA InitRefines == Init => Abstract!Init
  BY DEF Init, Abstract!Init, Abstract!Result, Result

(* The first clear bit of the first bitmap block that has one is the lowest *)
(* free block.                                                              *)
LEMMA AllocateRefines == Running /\ Allocate => Abstract!Take
<1> SUFFICES ASSUME Running, Allocate PROVE Abstract!Take
  OBVIOUS
<1>1. PICK i \in BitmapBlocks :
        /\ \A k \in BitmapBlocks : k < i => FreeIn(k) = {}
        /\ \E pos \in FreeIn(i) :
             /\ \A q \in FreeIn(i) : pos <= q
             /\ ret' = Result("allocate", 0, "OK", BlockAt(i, pos))
             /\ owned' = owned \cup {BlockAt(i, pos)}
  BY DEF Allocate
<1>2. PICK pos \in FreeIn(i) :
        /\ \A q \in FreeIn(i) : pos <= q
        /\ ret' = Result("allocate", 0, "OK", BlockAt(i, pos))
        /\ owned' = owned \cup {BlockAt(i, pos)}
  BY <1>1
<1>3. pos \in Positions /\ BlockAt(i, pos) \in DataBlocks \ owned
  <2>1. pos \in Nat
    BY Geometry, GeometryAssumption DEF FreeIn, Bound
  <2>2. QED
    BY <2>1, FreeBit
<1>4. ASSUME NEW c \in DataBlocks \ owned
      PROVE  BlockAt(i, pos) <= c
  <2> DEFINE k == BitmapBlockOf(c)
             q == Position(c)
  <2>1. k \in BitmapBlocks /\ q \in FreeIn(k) /\ BlockAt(k, q) = c
    BY FreeBlock
  <2>2. q \in Nat /\ i \in Nat /\ k \in Nat
    BY <2>1, Geometry, GeometryAssumption DEF FreeIn, Bound, BitmapBlocks
  <2>3. ~(k < i)
    BY <1>1, <2>1
  <2> HIDE DEF k, q
  <2>4. CASE k = i
    <3>1. pos <= q
      BY <1>2, <2>1, <2>4
    <3>2. i * BitsPerBlock \in Nat /\ pos \in Nat
      BY <1>3, <2>2, GeometryAssumption DEF Positions
    <3>3. i * BitsPerBlock + pos <= i * BitsPerBlock + q
      BY <2>2, <3>1, <3>2
    <3>4. QED
      BY <2>1, <2>4, <3>3 DEF BlockAt
  <2>5. CASE i < k
    <3>1. i * BitsPerBlock + pos < k * BitsPerBlock + q
      BY <1>3, <2>2, <2>5, DigitOrder, GeometryAssumption DEF Positions
    <3>2. i * BitsPerBlock + pos \in Nat /\ k * BitsPerBlock + q \in Nat
      BY <1>3, <2>2, GeometryAssumption DEF Positions
    <3>3. QED
      BY <2>1, <3>1, <3>2 DEF BlockAt
  <2>6. QED
    BY <2>2, <2>3, <2>4, <2>5
<1>5. QED
  BY <1>2, <1>3, <1>4 DEF Abstract!Take, Abstract!Free, Abstract!Result, Result

LEMMA AllocateFailsRefines == Running /\ AllocateFails => Abstract!Exhausted
<1> SUFFICES ASSUME Running, AllocateFails PROVE Abstract!Exhausted
  OBVIOUS
<1>1. DataBlocks \ owned = {}
  BY FreeBlock DEF AllocateFails
<1>2. QED
  BY <1>1 DEF AllocateFails, Abstract!Exhausted, Abstract!Free,
                   Abstract!Result, Result

LEMMA DeallocateRefines ==
  ASSUME NEW b \in DataBlocks \cup {TotalBlocks}
  PROVE  Running /\ Deallocate(b) => \E c \in DataBlocks : Abstract!GiveBack(c)
<1> SUFFICES ASSUME Running, Deallocate(b) PROVE Abstract!GiveBack(b) /\ b \in DataBlocks
  OBVIOUS
<1>1. b \in DataBlocks /\ b \in Nat /\ b < TotalBlocks
  BY GeometryAssumption DEF Deallocate, DataBlocks
<1>2. /\ BitmapBlockOf(b) \in BitmapBlocks /\ Position(b) \in Positions
      /\ BlockAt(BitmapBlockOf(b), Position(b)) = b
  BY <1>1, AddressOfBlock
<1>3. b \in owned
  BY <1>1, <1>2 DEF Deallocate, Running, Agrees, DataBlocks
<1>4. QED
  BY <1>1, <1>3 DEF Deallocate, Abstract!GiveBack, Abstract!Result, Result

LEMMA DeallocateFailsRefines ==
  ASSUME NEW b \in DataBlocks \cup {TotalBlocks}
  PROVE  Running /\ DeallocateFails(b) => Abstract!Refuse(b)
<1> SUFFICES ASSUME Running, DeallocateFails(b) PROVE Abstract!Refuse(b)
  OBVIOUS
<1>1. CASE b = TotalBlocks
  <2>1. b \notin owned
    BY <1>1, GeometryAssumption DEF Running, TypeOK, DataBlocks
  <2>2. QED
    BY <2>1 DEF DeallocateFails, Abstract!Refuse, Abstract!Result, Result
<1>2. CASE b \in DataBlocks
  <2>1. b \in Nat /\ b < TotalBlocks
    BY <1>2, GeometryAssumption DEF DataBlocks
  <2>2. /\ BitmapBlockOf(b) \in BitmapBlocks /\ Position(b) \in Positions
        /\ BlockAt(BitmapBlockOf(b), Position(b)) = b
    BY <2>1, AddressOfBlock
  <2>3. b \notin owned
    BY <2>1, <2>2 DEF DeallocateFails, Running, Agrees
  <2>4. QED
    BY <2>3 DEF DeallocateFails, Abstract!Refuse, Abstract!Result, Result
<1>3. QED
  BY <1>1, <1>2

(* The constructor's steps change nothing the pool knows of. *)
LEMMA NextRefines == IInv /\ [Next]_vars => [Abstract!Next]_(Abstract!vars)
<1> SUFFICES ASSUME IInv, [Next]_vars PROVE [Abstract!Next]_(Abstract!vars)
  OBVIOUS
<1>1. CASE Construct
  BY <1>1 DEF Construct, Abstract!vars
<1>2. ASSUME ctor.done, Call
      PROVE  Abstract!Next
  <2>0. Running
    BY <1>2 DEF IInv, Running, BitmapAgrees
  <2>1. CASE Allocate
    BY <2>0, <2>1, AllocateRefines DEF Abstract!Next
  <2>2. CASE AllocateFails
    BY <2>0, <2>2, AllocateFailsRefines DEF Abstract!Next
  <2>3. ASSUME NEW b \in DataBlocks \cup {TotalBlocks}, Deallocate(b)
        PROVE  Abstract!Next
    BY <2>0, <2>3, DeallocateRefines DEF Abstract!Next
  <2>4. ASSUME NEW b \in DataBlocks \cup {TotalBlocks}, DeallocateFails(b)
        PROVE  Abstract!Next
    BY <2>0, <2>4, DeallocateFailsRefines DEF Abstract!Next
  <2>5. CASE FreeBlockCnt
    <3>1. \A S : Abstract!Cardinality(S) = Cardinality(S)
      BY Zenon DEF Abstract!Cardinality, Cardinality
    <3>2. QED
      BY <2>0, <2>5, <3>1, ZeroBitsCount
         DEF FreeBlockCnt, Abstract!Next, Abstract!CountFree, Abstract!Free,
             Abstract!Result, Result
  <2>6. QED
    BY <1>2, <2>1, <2>2, <2>3, <2>4, <2>5 DEF Call
<1>3. CASE UNCHANGED vars
  BY <1>3 DEF vars, Abstract!vars
<1>4. QED
  BY <1>1, <1>2, <1>3 DEF Next

(* Every run of the allocator is a run of the pool: the file layer may rely *)
(* on BlockPool, whatever the size of the device.                           *)
THEOREM Refinement == Spec => ImplementsBlockPool
<1>1. Init => Abstract!Init
  BY InitRefines
<1>2. Spec => []IInv
  BY InitIInv, NextIInv, PTL DEF Spec
<1>3. QED
  BY <1>1, <1>2, NextRefines, PTL DEF Spec, ImplementsBlockPool, Abstract!Spec
=============================================================================
