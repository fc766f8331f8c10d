------------------------- MODULE InodeManagerProofs -------------------------
(***************************************************************************)
(* Proofs about the inode manager, for every number of inodes and every    *)
(* number of bits per bitmap block.  TableAgrees and TypeOK together are   *)
(* inductive.                                                              *)
(***************************************************************************)
EXTENDS InodeManager, Digits, FiniteSetTheorems, TLAPS

-----------------------------------------------------------------------------
(* The geometry of the bitmap. *)

LEMMA Geometry ==
  /\ n_bitmap_blocks \in Nat
  /\ max_inode_supported \in Nat
<1>1. (InodesRequested \div InodeBitsPerBlock) \in Nat
  BY DivMod, ArgumentsAssumption
<1>2. n_bitmap_blocks \in Nat
  BY <1>1 DEF n_bitmap_blocks
<1>3. QED
  BY <1>2, ArgumentsAssumption DEF max_inode_supported

(* Every bit of the bitmap is the bit of one raw number. *)
LEMMA RawInRange ==
  ASSUME NEW i \in BitmapBlocks, NEW pos \in Positions
  PROVE  RawAt(i, pos) \in RawNumbers
<1>1. i \in Nat /\ i < n_bitmap_blocks /\ pos \in 0 .. InodeBitsPerBlock - 1
  BY Geometry DEF BitmapBlocks, Positions
<1>2. i * InodeBitsPerBlock + pos < n_bitmap_blocks * InodeBitsPerBlock + 0
  BY <1>1, DigitOrder, Geometry, ArgumentsAssumption
<1>3. i * InodeBitsPerBlock \in Nat /\ n_bitmap_blocks * InodeBitsPerBlock \in Nat
  BY <1>1, Geometry, ArgumentsAssumption
<1>4. QED
  BY <1>1, <1>2, <1>3, ArgumentsAssumption
     DEF RawAt, RawNumbers, max_inode_supported

(* Every raw number has the bit that free_inode computes. *)
LEMMA BitOfRaw ==
  ASSUME NEW raw \in RawNumbers
  PROVE  /\ raw \div InodeBitsPerBlock \in BitmapBlocks
         /\ raw % InodeBitsPerBlock \in Positions
         /\ RawAt(raw \div InodeBitsPerBlock, raw % InodeBitsPerBlock) = raw
<1> DEFINE i == raw \div InodeBitsPerBlock
           pos == raw % InodeBitsPerBlock
<1>1. raw \in Nat /\ raw < n_bitmap_blocks * InodeBitsPerBlock
  BY Geometry DEF RawNumbers, max_inode_supported
<1>2. /\ i \in Nat /\ pos \in 0 .. InodeBitsPerBlock - 1
      /\ raw = i * InodeBitsPerBlock + pos
  BY <1>1, DivMod, ArgumentsAssumption
<1> HIDE DEF i, pos
<1>3. i < n_bitmap_blocks
  <2>1. SUFFICES ASSUME n_bitmap_blocks <= i PROVE FALSE
    BY <1>2, Geometry
  <2>2. n_bitmap_blocks * InodeBitsPerBlock <= i * InodeBitsPerBlock
    BY <1>2, <2>1, Geometry, ArgumentsAssumption
  <2>3. /\ n_bitmap_blocks * InodeBitsPerBlock \in Nat
        /\ i * InodeBitsPerBlock \in Nat
    BY <1>2, Geometry, ArgumentsAssumption
  <2>4. QED
    BY <1>1, <1>2, <2>2, <2>3, ArgumentsAssumption
<1>4. QED
  BY <1>2, <1>3, Geometry DEF BitmapBlocks, Positions, RawAt, i, pos

LEMMA RawUnique ==
  ASSUME NEW i \in BitmapBlocks, NEW k \in BitmapBlocks,
         NEW p \in Positions, NEW q \in Positions,
         RawAt(i, p) = RawAt(k, q)
  PROVE  i = k /\ p = q
  BY UniqueDigits, Geometry, ArgumentsAssumption
     DEF BitmapBlocks, Positions, RawAt

(* Logical ids are the raw numbers shifted by one. *)
LEMMA IdOfRaw ==
  /\ \A raw \in RawNumbers : /\ RAW_2_LOGIC(raw) \in InodeIds
                             /\ LOGIC_2_RAW(RAW_2_LOGIC(raw)) = raw
  /\ \A id \in InodeIds : /\ LOGIC_2_RAW(id) \in RawNumbers
                          /\ RAW_2_LOGIC(LOGIC_2_RAW(id)) = id
  BY Geometry DEF RawNumbers, InodeIds, RAW_2_LOGIC, LOGIC_2_RAW

-----------------------------------------------------------------------------
(* The inductive invariant. *)
IInv == TypeOK /\ TableAgrees

(* The table entry of an id is the block the id was given. *)
LEMMA TableIsHome ==
  ASSUME IInv, NEW id \in InodeIds
  PROVE  /\ table[LOGIC_2_RAW(id)] = home[id]
         /\ LOGIC_2_RAW(id) \in RawNumbers
<1> DEFINE raw == LOGIC_2_RAW(id)
<1>1. raw \in RawNumbers /\ RAW_2_LOGIC(raw) = id
  BY IdOfRaw
<1> HIDE DEF raw
<1>2. QED
  BY <1>1, BitOfRaw DEF IInv, TableAgrees, raw

LEMMA InitIInv == Init => IInv
<1> SUFFICES ASSUME Init PROVE IInv
  OBVIOUS
<1>1. TypeOK
  BY DEF Init, TypeOK, Result, Ops, Codes
<1>2. TableAgrees
  <2> SUFFICES ASSUME NEW i \in BitmapBlocks, NEW pos \in Positions
               PROVE  /\ pos \in bitmap[i] <=>
                           home[RAW_2_LOGIC(RawAt(i, pos))] # KInvalidBlockID
                      /\ table[RawAt(i, pos)] = home[RAW_2_LOGIC(RawAt(i, pos))]
    BY DEF TableAgrees
  <2>1. RawAt(i, pos) \in RawNumbers /\ RAW_2_LOGIC(RawAt(i, pos)) \in InodeIds
    BY RawInRange, IdOfRaw
  <2>2. QED
    BY <2>1 DEF Init
<1>3. QED
  BY <1>1, <1>2 DEF IInv

(* Both changes of the manager's state enter a block, or none, at one raw   *)
(* number, in the table, in the bitmap and in the history alike.            *)
LEMMA EntryIInv ==
  ASSUME IInv, NEW i \in BitmapBlocks, NEW pos \in Positions,
         NEW bid \in BlockIds \cup {KInvalidBlockID},
         table' = [table EXCEPT ![RawAt(i, pos)] = bid],
         home' = [home EXCEPT ![RAW_2_LOGIC(RawAt(i, pos))] = bid],
         bitmap' = [bitmap EXCEPT ![i] =
                      IF bid = KInvalidBlockID THEN @ \ {pos} ELSE @ \cup {pos}],
         ret' \in [op : Ops, arg : Nat, code : Codes, val : Nat]
  PROVE  IInv'
<1>1. RawAt(i, pos) \in RawNumbers /\ RAW_2_LOGIC(RawAt(i, pos)) \in InodeIds
  BY RawInRange, IdOfRaw
<1>2. TypeOK'
  BY <1>1 DEF IInv, TypeOK
<1>3. TableAgrees'
  <2> SUFFICES ASSUME NEW k \in BitmapBlocks, NEW q \in Positions
               PROVE  /\ q \in bitmap'[k] <=>
                           home'[RAW_2_LOGIC(RawAt(k, q))] # KInvalidBlockID
                      /\ table'[RawAt(k, q)] = home'[RAW_2_LOGIC(RawAt(k, q))]
    BY DEF TableAgrees
  <2>1. /\ q \in bitmap[k] <=>
             home[RAW_2_LOGIC(RawAt(k, q))] # KInvalidBlockID
        /\ table[RawAt(k, q)] = home[RAW_2_LOGIC(RawAt(k, q))]
    BY DEF IInv, TableAgrees
  <2>2. RawAt(k, q) \in RawNumbers /\ RAW_2_LOGIC(RawAt(k, q)) \in InodeIds
    BY RawInRange, IdOfRaw
  <2>3. CASE k = i /\ q = pos
    BY <1>1, <2>3 DEF IInv, TypeOK
  <2>4. CASE ~(k = i /\ q = pos)
    <3>1. RawAt(k, q) # RawAt(i, pos)
      BY <2>4, RawUnique
    <3>2. RAW_2_LOGIC(RawAt(k, q)) # RAW_2_LOGIC(RawAt(i, pos))
      BY <1>1, <2>2, <3>1, IdOfRaw
    <3>3. q \in bitmap'[k] <=> q \in bitmap[k]
      BY <2>4 DEF IInv, TypeOK
    <3>4. QED
      BY <1>1, <2>1, <2>2, <3>1, <3>2, <3>3 DEF IInv, TypeOK
  <2>5. QED
    BY <2>3, <2>4
<1>4. QED
  BY <1>2, <1>3 DEF IInv

LEMMA AllocateIInv ==
  ASSUME IInv, NEW bid \in BlockIds, allocate_inode(bid)
  PROVE  IInv'
<1>1. PICK i \in BitmapBlocks : \E pos \in FreeIn(i) :
        /\ bitmap' = [bitmap EXCEPT ![i] = @ \cup {pos}]
        /\ table' = [table EXCEPT ![RawAt(i, pos)] = bid]
        /\ home' = [home EXCEPT ![RAW_2_LOGIC(RawAt(i, pos))] = bid]
        /\ ret' = Result("allocate_inode", bid, "OK", RAW_2_LOGIC(RawAt(i, pos)))
  BY DEF allocate_inode
<1>2. PICK pos \in FreeIn(i) :
        /\ bitmap' = [bitmap EXCEPT ![i] = @ \cup {pos}]
        /\ table' = [table EXCEPT ![RawAt(i, pos)] = bid]
        /\ home' = [home EXCEPT ![RAW_2_LOGIC(RawAt(i, pos))] = bid]
        /\ ret' = Result("allocate_inode", bid, "OK", RAW_2_LOGIC(RawAt(i, pos)))
  BY <1>1
<1>3. pos \in Positions /\ bid # KInvalidBlockID
  BY ArgumentsAssumption DEF FreeIn
<1>4. RAW_2_LOGIC(RawAt(i, pos)) \in Nat
  BY <1>3, RawInRange, IdOfRaw DEF InodeIds
<1>5. ret' \in [op : Ops, arg : Nat, code : Codes, val : Nat]
  BY <1>2, <1>4, ArgumentsAssumption DEF Result, Ops, Codes
<1>6. QED
  BY <1>2, <1>3, <1>5, EntryIInv

LEMMA FreeInodeIInv ==
  ASSUME IInv, NEW id \in 1 .. max_inode_supported + 1, free_inode(id)
  PROVE  IInv'
<1> DEFINE raw == LOGIC_2_RAW(id)
<1>1. id \in InodeIds
  BY Geometry DEF free_inode, OutOfBound, InodeIds
<1>2. raw \in RawNumbers /\ RAW_2_LOGIC(raw) = id
  BY <1>1, IdOfRaw
<1>3. /\ table' = [table EXCEPT ![raw] = KInvalidBlockID]
      /\ bitmap' = [bitmap EXCEPT ![raw \div InodeBitsPerBlock] =
                      @ \ {raw % InodeBitsPerBlock}]
      /\ home' = [home EXCEPT ![id] = KInvalidBlockID]
      /\ ret' = Result("free_inode", id, "OK", 0)
  BY DEF free_inode
<1>4. ret' \in [op : Ops, arg : Nat, code : Codes, val : Nat]
  BY <1>3 DEF Result, Ops, Codes
<1> HIDE DEF raw
<1> DEFINE i == raw \div InodeBitsPerBlock
           pos == raw % InodeBitsPerBlock
<1>5. i \in BitmapBlocks /\ pos \in Positions /\ RawAt(i, pos) = raw
  BY <1>2, BitOfRaw
<1>6. /\ table' = [table EXCEPT ![RawAt(i, pos)] = KInvalidBlockID]
      /\ home' = [home EXCEPT ![RAW_2_LOGIC(RawAt(i, pos))] = KInvalidBlockID]
      /\ bitmap' = [bitmap EXCEPT ![i] = @ \ {pos}]
  BY <1>2, <1>3, <1>5
<1> HIDE DEF i, pos
<1>7. QED
  BY <1>4, <1>5, <1>6, EntryIInv

-----------------------------------------------------------------------------
(* The free ids. *)
FreeIds == {id \in InodeIds : home[id] = KInvalidBlockID}

(* A clear bit is the bit of a free id. *)
LEMMA FreeBit ==
  ASSUME IInv, NEW i \in BitmapBlocks, NEW pos \in Positions
  PROVE  pos \in FreeIn(i) <=> RAW_2_LOGIC(RawAt(i, pos)) \in FreeIds
<1>1. RAW_2_LOGIC(RawAt(i, pos)) \in InodeIds
  BY RawInRange, IdOfRaw
<1>2. QED
  BY <1>1 DEF FreeIn, FreeIds, IInv, TableAgrees

BlockOfId(id) == LOGIC_2_RAW(id) \div InodeBitsPerBlock
PositionOfId(id) == LOGIC_2_RAW(id) % InodeBitsPerBlock

LEMMA FreeId ==
  ASSUME IInv, NEW id \in FreeIds
  PROVE  /\ BlockOfId(id) \in BitmapBlocks /\ PositionOfId(id) \in Positions
         /\ PositionOfId(id) \in FreeIn(BlockOfId(id))
         /\ RAW_2_LOGIC(RawAt(BlockOfId(id), PositionOfId(id))) = id
<1>1. /\ LOGIC_2_RAW(id) \in RawNumbers /\ RAW_2_LOGIC(LOGIC_2_RAW(id)) = id
  BY IdOfRaw DEF FreeIds
<1>2. /\ BlockOfId(id) \in BitmapBlocks /\ PositionOfId(id) \in Positions
      /\ RawAt(BlockOfId(id), PositionOfId(id)) = LOGIC_2_RAW(id)
  BY <1>1, BitOfRaw DEF BlockOfId, PositionOfId
<1>3. QED
  BY <1>1, <1>2, FreeBit

(* There are as many zero bits as free ids. *)
LEMMA ZeroBitsCount ==
  ASSUME IInv
  PROVE  /\ Cardinality(ZeroBits) = Cardinality(FreeIds)
         /\ Cardinality(ZeroBits) \in Nat
<1> DEFINE f == [id \in FreeIds |-> <<BlockOfId(id), PositionOfId(id)>>]
<1>1. IsFiniteSet(FreeIds) /\ Cardinality(FreeIds) \in Nat
  <2>1. IsFiniteSet(InodeIds)
    BY FS_Interval, Geometry DEF InodeIds
  <2>2. FreeIds \in SUBSET InodeIds
    BY DEF FreeIds
  <2>3. QED
    BY <2>1, <2>2, FS_Subset, FS_CardinalityType
<1>2. f \in [FreeIds -> ZeroBits]
  <2>1. \A id \in FreeIds : <<BlockOfId(id), PositionOfId(id)>> \in ZeroBits
    BY FreeId DEF ZeroBits, FreeIn
  <2>2. QED
    BY <2>1
<1>3. f \in Injection(FreeIds, ZeroBits)
  <2>1. \A a, b \in FreeIds : f[a] = f[b] => a = b
    <3> SUFFICES ASSUME NEW a \in FreeIds, NEW b \in FreeIds, f[a] = f[b]
                 PROVE  a = b
      OBVIOUS
    <3>1. BlockOfId(a) = BlockOfId(b) /\ PositionOfId(a) = PositionOfId(b)
      OBVIOUS
    <3>2. QED
      BY <3>1, FreeId
  <2>2. QED
    BY <1>2, <2>1 DEF Injection, IsInjective
<1>4. f \in Surjection(FreeIds, ZeroBits)
  <2>1. \A bit \in ZeroBits : \E id \in FreeIds : f[id] = bit
    <3> SUFFICES ASSUME NEW bit \in ZeroBits PROVE \E id \in FreeIds : f[id] = bit
      OBVIOUS
    <3>1. /\ bit[1] \in BitmapBlocks /\ bit[2] \in Positions
          /\ bit[2] \in FreeIn(bit[1]) /\ bit = <<bit[1], bit[2]>>
      BY DEF ZeroBits, FreeIn
    <3> DEFINE id == RAW_2_LOGIC(RawAt(bit[1], bit[2]))
    <3>2. id \in FreeIds
      BY <3>1, FreeBit
    <3>3. /\ BlockOfId(id) \in BitmapBlocks /\ PositionOfId(id) \in Positions
          /\ RAW_2_LOGIC(RawAt(BlockOfId(id), PositionOfId(id))) = id
      BY <3>2, FreeId
    <3>4. RawAt(BlockOfId(id), PositionOfId(id)) = RawAt(bit[1], bit[2])
      BY <3>1, <3>3, RawInRange, IdOfRaw
    <3>5. BlockOfId(id) = bit[1] /\ PositionOfId(id) = bit[2]
      BY <3>1, <3>3, <3>4, RawUnique
    <3>6. QED
      BY <3>1, <3>2, <3>5
  <2>2. QED
    BY <1>2, <2>1 DEF Surjection
<1> HIDE DEF f
<1>5. QED
  BY <1>1, <1>3, <1>4, FS_Surjection

-----------------------------------------------------------------------------
LEMMA NextIInv == IInv /\ [Next]_vars => IInv'
<1> SUFFICES ASSUME IInv, [Next]_vars PROVE IInv'
  OBVIOUS
<1>1. ASSUME NEW bid \in BlockIds, allocate_inode(bid) PROVE IInv'
  BY <1>1, AllocateIInv
<1>2. ASSUME NEW op \in Ops, NEW arg \in Nat, NEW code \in Codes, NEW val \in Nat,
             ret' = Result(op, arg, code, val), UNCHANGED <<table, bitmap, home>>
      PROVE  IInv'
  <2>1. TypeOK'
    BY <1>2 DEF IInv, TypeOK, Result
  <2>2. TableAgrees'
    BY <1>2 DEF IInv, TableAgrees
  <2>3. QED
    BY <2>1, <2>2 DEF IInv
<1>3. CASE allocate_inode_fails
  BY <1>2, <1>3 DEF allocate_inode_fails, Ops, Codes
<1>4. ASSUME NEW id \in 0 .. max_inode_supported + 1, read_inode(id)
      PROVE  IInv'
  <2>1. get(id) \in Nat
    <3>1. CASE id = KInvalidInodeID
      BY <3>1 DEF get, KInvalidBlockID
    <3>2. CASE id # KInvalidInodeID
      <4>1. id \in InodeIds
        BY <1>4, <3>2, Geometry
           DEF read_inode, Readable, OutOfBound, InodeIds, KInvalidInodeID
      <4>2. get(id) = home[id]
        BY <3>2, <4>1, TableIsHome DEF get
      <4>3. home[id] \in BlockIds \cup {KInvalidBlockID}
        BY <4>1 DEF IInv, TypeOK
      <4>4. BlockIds \cup {KInvalidBlockID} \subseteq Nat
        BY ArgumentsAssumption DEF KInvalidBlockID
      <4>5. QED
        BY <4>2, <4>3, <4>4
    <3>3. QED
      BY <3>1, <3>2
  <2>2. QED
    BY <1>2, <1>4, <2>1 DEF read_inode, Ops, Codes
<1>5. ASSUME NEW id \in 0 .. max_inode_supported + 1, read_inode_fails(id)
      PROVE  IInv'
  BY <1>2, <1>5 DEF read_inode_fails, Ops, Codes
<1>6. ASSUME NEW id \in 1 .. max_inode_supported + 1, free_inode(id)
      PROVE  IInv'
  BY <1>6, FreeInodeIInv
<1>7. ASSUME NEW id \in 1 .. max_inode_supported + 1, free_inode_fails(id)
      PROVE  IInv'
  BY <1>2, <1>7 DEF free_inode_fails, Ops, Codes
<1>8. CASE free_inode_cnt
  BY <1>2, <1>8, ZeroBitsCount DEF free_inode_cnt, Ops, Codes
<1>9. CASE UNCHANGED vars
  BY <1>9 DEF vars, IInv, TypeOK, TableAgrees
<1>10. QED
  BY <1>1, <1>3, <1>4, <1>5, <1>6, <1>7, <1>8, <1>9 DEF Next

(* The manager's state keeps its shape. *)
THEOREM TypeCorrect == Spec => []TypeOK
<1>1. IInv => TypeOK
  BY DEF IInv
<1>2. QED
  BY <1>1, InitIInv, NextIInv, PTL DEF Spec

(* The inode table and the inode bitmap agree with each other and with what *)
(* the callers were given, after any sequence of calls.                     *)
THEOREM Agreement == Spec => []TableAgrees
<1>1. IInv => TableAgrees
  BY DEF IInv
<1>2. QED
  BY <1>1, InitIInv, NextIInv, PTL DEF Spec

-----------------------------------------------------------------------------
(* The refinement of InodePool. *)

LEMMA FreeIsFree == Abstract!Free = FreeIds
  BY DEF Abstract!Free, FreeIds

(* The first clear bit of the first bitmap block that has one belongs to    *)
(* the lowest free id.                                                      *)
LEMMA AllocateRefines ==
  ASSUME IInv, NEW bid \in BlockIds, allocate_inode(bid)
  PROVE  Abstract!Register(bid)
<1>1. PICK i \in BitmapBlocks :
        /\ \A k \in BitmapBlocks : k < i => FreeIn(k) = {}
        /\ \E pos \in FreeIn(i) :
             /\ \A q \in FreeIn(i) : pos <= q
             /\ home' = [home EXCEPT ![RAW_2_LOGIC(RawAt(i, pos))] = bid]
             /\ ret' = Result("allocate_inode", bid, "OK", RAW_2_LOGIC(RawAt(i, pos)))
  BY DEF allocate_inode
<1>2. PICK pos \in FreeIn(i) :
        /\ \A q \in FreeIn(i) : pos <= q
        /\ home' = [home EXCEPT ![RAW_2_LOGIC(RawAt(i, pos))] = bid]
        /\ ret' = Result("allocate_inode", bid, "OK", RAW_2_LOGIC(RawAt(i, pos)))
  BY <1>1
<1> DEFINE id == RAW_2_LOGIC(RawAt(i, pos))
<1>3. pos \in Positions /\ id \in FreeIds
  BY FreeBit DEF FreeIn
<1>4. ASSUME NEW j \in FreeIds PROVE id <= j
  <2> DEFINE k == BlockOfId(j)
             q == PositionOfId(j)
  <2>1. /\ k \in BitmapBlocks /\ q \in Positions /\ q \in FreeIn(k)
        /\ RAW_2_LOGIC(RawAt(k, q)) = j
    BY FreeId
  <2> HIDE DEF k, q
  <2>2. i \in Nat /\ k \in Nat /\ pos \in Nat /\ q \in Nat
    BY <1>3, <2>1, Geometry, ArgumentsAssumption DEF BitmapBlocks, Positions
  <2>3. ~(k < i)
    BY <1>1, <2>1
  <2>4. i * InodeBitsPerBlock \in Nat /\ k * InodeBitsPerBlock \in Nat
    BY <2>2, ArgumentsAssumption
  <2>5. i * InodeBitsPerBlock + pos <= k * InodeBitsPerBlock + q
    <3>1. CASE k = i
      BY <1>2, <2>1, <2>2, <2>4, <3>1
    <3>2. CASE i < k
      <4>1. i * InodeBitsPerBlock + pos < k * InodeBitsPerBlock + q
        BY <1>3, <2>2, <3>2, DigitOrder, ArgumentsAssumption DEF Positions
      <4>2. QED
        BY <2>2, <2>4, <4>1
    <3>3. QED
      BY <2>2, <2>3, <3>1, <3>2
  <2>6. QED
    BY <2>1, <2>2, <2>4, <2>5 DEF RAW_2_LOGIC, RawAt
<1> HIDE DEF id
<1>5. QED
  BY <1>2, <1>3, <1>4, FreeIsFree DEF Abstract!Register, Abstract!Result, Result, id

LEMMA AllocateFailsRefines ==
  ASSUME IInv, allocate_inode_fails
  PROVE  Abstract!Full
<1>1. FreeIds = {}
  BY FreeId DEF allocate_inode_fails
<1>2. QED
  BY <1>1, FreeIsFree DEF allocate_inode_fails, Abstract!Full, Abstract!Result, Result

(* An id within the bound is one the pool serves. *)
LEMMA ServedId ==
  ASSUME NEW id \in 1 .. max_inode_supported + 1, ~OutOfBound(id)
  PROVE  id \in {j \in InodeIds : ~OutOfBound(j)}
  BY Geometry DEF OutOfBound, InodeIds

LEMMA NextRefines == IInv /\ [Next]_vars => [Abstract!Next]_(Abstract!vars)
<1> SUFFICES ASSUME IInv, [Next]_vars PROVE [Abstract!Next]_(Abstract!vars)
  OBVIOUS
<1>1. ASSUME NEW bid \in BlockIds, allocate_inode(bid) PROVE Abstract!Next
  BY <1>1, AllocateRefines DEF Abstract!Next
<1>2. CASE allocate_inode_fails
  BY <1>2, AllocateFailsRefines DEF Abstract!Next
<1>3. ASSUME NEW id \in 0 .. max_inode_supported + 1, read_inode(id)
      PROVE  Abstract!Next
  <2>1. ~OutOfBound(id) /\ get(id) # KInvalidBlockID
    BY <1>3 DEF read_inode, Readable
  <2>2. id # KInvalidInodeID
    BY <2>1 DEF get
  <2>3. id \in 1 .. max_inode_supported + 1
    BY <2>2, Geometry DEF KInvalidInodeID
  <2>4. id \in InodeIds
    BY <2>1, <2>3, ServedId
  <2>5. get(id) = home[id]
    BY <2>2, <2>4, TableIsHome DEF get
  <2>6. Abstract!Locate(id)
    BY <1>3, <2>1, <2>5 DEF read_inode, Abstract!Locate, Abstract!Result, Result
  <2>7. QED
    BY <2>1, <2>3, <2>6, ServedId DEF Abstract!Next
<1>4. ASSUME NEW id \in 0 .. max_inode_supported + 1, read_inode_fails(id)
      PROVE  Abstract!Next
  <2>1. ASSUME id \in {j \in InodeIds : ~OutOfBound(j)}
        PROVE  home[id] = KInvalidBlockID
    <3>1. get(id) = KInvalidBlockID
      BY <1>4, <2>1 DEF read_inode_fails, Readable
    <3>2. id # KInvalidInodeID
      BY <2>1 DEF InodeIds, KInvalidInodeID
    <3>3. get(id) = home[id]
      BY <2>1, <3>2, TableIsHome DEF get
    <3>4. QED
      BY <3>1, <3>3
  <2>2. Abstract!Missing(id)
    BY <1>4, <2>1 DEF read_inode_fails, Abstract!Missing, Abstract!Result, Result
  <2>3. QED
    BY <2>2 DEF Abstract!Next
<1>5. ASSUME NEW id \in 1 .. max_inode_supported + 1, free_inode(id)
      PROVE  Abstract!Next
  <2>1. ~OutOfBound(id)
    BY <1>5 DEF free_inode
  <2>2. Abstract!Release(id)
    BY <1>5 DEF free_inode, Abstract!Release, Abstract!Result, Result
  <2>3. QED
    BY <2>1, <2>2, ServedId DEF Abstract!Next
<1>6. ASSUME NEW id \in 1 .. max_inode_supported + 1, free_inode_fails(id)
      PROVE  Abstract!Next
  <2>1. Abstract!NotServed(id)
    BY <1>6 DEF free_inode_fails, Abstract!NotServed, Abstract!Result, Result
  <2>2. id \in 0 .. max_inode_supported + 1
    BY Geometry
  <2>3. QED
    BY <2>1, <2>2 DEF Abstract!Next
<1>7. CASE free_inode_cnt
  <2>1. \A S : Abstract!Cardinality(S) = Cardinality(S)
    BY Zenon DEF Abstract!Cardinality, Cardinality
  <2>2. QED
    BY <1>7, <2>1, ZeroBitsCount, FreeIsFree
       DEF free_inode_cnt, Abstract!Next, Abstract!CountFree,
           Abstract!Result, Result
<1>8. CASE UNCHANGED vars
  BY <1>8 DEF vars, Abstract!vars
<1>9. QED
  BY <1>1, <1>2, <1>3, <1>4, <1>5, <1>6, <1>7, <1>8 DEF Next

(* Every run of the inode manager is a run of the map of ids that the file  *)
(* layer relies on, for every number of inodes.                             *)
THEOREM Refinement == Spec => ImplementsInodePool
<1>1. Init => Abstract!Init
  BY DEF Init, Abstract!Init, Abstract!Result, Result
<1>2. Spec => []IInv
  BY InitIInv, NextIInv, PTL DEF Spec
<1>3. QED
  BY <1>1, <1>2, NextRefines, PTL DEF Spec, ImplementsInodePool, Abstract!Spec
=============================================================================
