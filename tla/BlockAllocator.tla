--------------------------- MODULE BlockAllocator ---------------------------
(***************************************************************************)
(* The block allocator of src/src/block/allocator.cc.  One bit per block   *)
(* of the device is kept in a run of bitmap blocks that starts at          *)
(* BitmapBlockId; the bitmap's own blocks and all blocks before it are     *)
(* reserved.  A bitmap block is the set of its positions that are one (the *)
(* byte and word level is Bitmap.tla).                                     *)
(***************************************************************************)
EXTENDS Naturals, FiniteSets

CONSTANTS
  TotalBlocks,       (* bm->total_blocks() *)
  BitsPerBlock,      (* total_bits_per_block: block_size() * KBitsPerByte *)
  BitmapBlockId      (* bitmap_block_id: where the bitmap starts *)

ASSUME GeometryAssumption ==
  /\ TotalBlocks \in Nat
  /\ BitsPerBlock \in Nat \ {0}
  /\ BitmapBlockId \in Nat

(* The length of the bitmap in blocks, rounded up. *)
bitmap_block_cnt ==
  (TotalBlocks \div BitsPerBlock)
    + IF TotalBlocks % BitsPerBlock # 0 THEN 1 ELSE 0

(* What the constructor verifies before it touches the device. *)
ASSUME ConstructorVerifies ==
  /\ bitmap_block_cnt > 0
  /\ bitmap_block_cnt + BitmapBlockId <= TotalBlocks

VARIABLES
  bitmap,            (* bitmap block i, as the set of positions that are one *)
  ctor,              (* the constructor: its two loops, its buffer, and done *)
  ret,               (* the last call, its argument and its result *)
  owned              (* history: the ids the callers hold *)

vars == <<bitmap, ctor, ret, owned>>

BitmapBlocks == 0 .. bitmap_block_cnt - 1
Positions == 0 .. BitsPerBlock - 1

BlockAt(i, pos) == i * BitsPerBlock + pos

(* The blocks before and of the bitmap are never handed out. *)
ReservedCnt == BitmapBlockId + bitmap_block_cnt
Reserved == 0 .. ReservedCnt - 1
DataBlocks == (0 .. TotalBlocks - 1) \ Reserved

(* The number of bits used in the last bitmap block. *)
last_block_num ==
  IF bitmap_block_cnt * BitsPerBlock = TotalBlocks
    THEN BitsPerBlock
    ELSE TotalBlocks % BitsPerBlock

Bound_WholeBlock(i) ==   \* faulty variant: searches beyond the device's blocks
  BitsPerBlock

Bound(i) == IF i = bitmap_block_cnt - 1 THEN last_block_num ELSE BitsPerBlock

FreeIn(i) == {pos \in 0 .. Bound(i) - 1 : pos \notin bitmap[i]}

Result(op, id, code, val) == [op |-> op, id |-> id, code |-> code, val |-> val]

Ops == {"none", "allocate", "deallocate", "free_block_cnt"}
Codes == {"OK", "OUT_OF_RESOURCE", "INVALID_ARG"}

TypeOK ==
  /\ bitmap \in [BitmapBlocks -> SUBSET Positions]
  /\ ctor \in [zeroed : 0 .. bitmap_block_cnt, i : 0 .. ReservedCnt,
                cur : BitmapBlocks, buffer : SUBSET Positions, done : BOOLEAN]
  /\ owned \subseteq DataBlocks
  /\ ret \in [op : Ops, id : 0 .. TotalBlocks, code : Codes, val : 0 .. TotalBlocks]

-----------------------------------------------------------------------------
(* The constructor with will_initialize starts on a device with any         *)
(* contents.  cur is cur_block_id, counted from the start of the bitmap.    *)
Init ==
  /\ bitmap \in [BitmapBlocks -> SUBSET Positions]
  /\ ctor = [zeroed |-> 0, i |-> 0, cur |-> 0, buffer |-> {}, done |-> FALSE]
  /\ ret = Result("none", 0, "OK", 0)
  /\ owned = {}

(* A bit of a block: its bitmap block, from the start of the bitmap, and    *)
(* its position in it.                                                      *)
Position(b) == b % BitsPerBlock
BitmapBlockOf(b) == b \div BitsPerBlock

(* One round of the first loop: a bitmap block is zeroed on the device.     *)
ZeroBlock ==
  /\ ctor.zeroed < bitmap_block_cnt
  /\ bitmap' = [bitmap EXCEPT ![ctor.zeroed] = {}]
  /\ ctor' = [ctor EXCEPT !.zeroed = @ + 1]

(* One round of the second loop: the bit of block i is set in the buffer,   *)
(* which is first written back and zeroed when the bit is in another bitmap *)
(* block than the one before.                                               *)
SetReserved_KeepsBuffer ==   \* faulty variant: the buffer is not zeroed
  /\ ctor.zeroed = bitmap_block_cnt /\ ctor.i < ReservedCnt
  /\ ctor' = [ctor EXCEPT !.i = @ + 1, !.cur = BitmapBlockOf(ctor.i),
                          !.buffer = @ \cup {Position(ctor.i)}]
  /\ IF BitmapBlockOf(ctor.i) # ctor.cur
       THEN bitmap' = [bitmap EXCEPT ![ctor.cur] = ctor.buffer]
       ELSE UNCHANGED bitmap

SetReserved ==
  /\ ctor.zeroed = bitmap_block_cnt /\ ctor.i < ReservedCnt
  /\ LET moved == BitmapBlockOf(ctor.i) # ctor.cur
         buffer == IF moved THEN {} ELSE ctor.buffer
     IN  /\ ctor' = [ctor EXCEPT !.i = @ + 1, !.cur = BitmapBlockOf(ctor.i),
                                 !.buffer = buffer \cup {Position(ctor.i)}]
         /\ IF moved THEN bitmap' = [bitmap EXCEPT ![ctor.cur] = ctor.buffer]
                     ELSE UNCHANGED bitmap

(* After the loop: the last buffer is written back, and calls may come.     *)
FlushLast ==
  /\ ctor.zeroed = bitmap_block_cnt /\ ctor.i = ReservedCnt /\ ~ctor.done
  /\ bitmap' = [bitmap EXCEPT ![ctor.cur] = ctor.buffer]
  /\ ctor' = [ctor EXCEPT !.done = TRUE]

Construct == (ZeroBlock \/ SetReserved \/ FlushLast) /\ UNCHANGED <<ret, owned>>

(* allocate(): the bitmap blocks are scanned upwards and the first clear    *)
(* bit of the first one that has any is set and written back.               *)
Allocate ==
  \E i \in BitmapBlocks :
    /\ \A k \in BitmapBlocks : k < i => FreeIn(k) = {}
    /\ \E pos \in FreeIn(i) :
         /\ \A q \in FreeIn(i) : pos <= q
         /\ bitmap' = [bitmap EXCEPT ![i] = @ \cup {pos}]
         /\ ret' = Result("allocate", 0, "OK", BlockAt(i, pos))
         /\ owned' = owned \cup {BlockAt(i, pos)}

AllocateFails ==
  /\ \A i \in BitmapBlocks : FreeIn(i) = {}
  /\ ret' = Result("allocate", 0, "OUT_OF_RESOURCE", 0)
  /\ UNCHANGED <<bitmap, owned>>

(* deallocate(block_id): out of range or already clear is INVALID_ARG.      *)
Deallocate(b) ==
  /\ b < TotalBlocks
  /\ Position(b) \in bitmap[BitmapBlockOf(b)]
  /\ bitmap' = [bitmap EXCEPT ![BitmapBlockOf(b)] = @ \ {Position(b)}]
  /\ ret' = Result("deallocate", b, "OK", 0)
  /\ owned' = owned \ {b}

DeallocateFails(b) ==
  /\ ~(b < TotalBlocks /\ Position(b) \in bitmap[BitmapBlockOf(b)])
  /\ ret' = Result("deallocate", b, "INVALID_ARG", 0)
  /\ UNCHANGED <<bitmap, owned>>

(* free_block_cnt(): the zeros of each bitmap block up to its bound. *)
ZeroBits_WholeBlocks ==   \* faulty variant: counts bits beyond the device
  {bit \in BitmapBlocks \X Positions : bit[2] \notin bitmap[bit[1]]}

ZeroBits == {bit \in BitmapBlocks \X Positions : bit[2] \in FreeIn(bit[1])}

FreeBlockCnt ==
  /\ ret' = Result("free_block_cnt", 0, "OK", Cardinality(ZeroBits))
  /\ UNCHANGED <<bitmap, owned>>

(* The callers hand back data blocks, twice or never allocated included, and *)
(* ids beyond the device: that no caller hands back a reserved id, which     *)
(* deallocate would accept, is an invariant of the file layer.               *)
Call ==
  \/ Allocate
  \/ AllocateFails
  \/ \E b \in DataBlocks \cup {TotalBlocks} : Deallocate(b) \/ DeallocateFails(b)
  \/ FreeBlockCnt

Next == Construct \/ (ctor.done /\ Call /\ UNCHANGED ctor)

Spec == Init /\ [][Next]_vars

-----------------------------------------------------------------------------
(* From the end of the constructor on, the bits that are one are exactly    *)
(* those of the reserved blocks and of the blocks the callers hold: the     *)
(* loop of allocator.cc:43-66 reserves every block before and of the        *)
(* bitmap and no other, across bitmap blocks and whatever the device held   *)
(* before, no block is lost, none is handed out while held, no bit beyond   *)
(* the device is ever set, and giving back a block releases no other.       *)
Agrees ==
  \A i \in BitmapBlocks, pos \in Positions :
    pos \in bitmap[i] <=> BlockAt(i, pos) \in Reserved \cup owned

BitmapAgrees == ctor.done => Agrees

(* The allocator implements the pool of blocks the file layer relies on:    *)
(* the lowest free id first, whichever bitmap block holds it,               *)
(* OUT_OF_RESOURCE only when every block is held, INVALID_ARG for a block   *)
(* given back twice, and a free count that is the true one.                 *)
Abstract == INSTANCE BlockPool WITH Pool <- DataBlocks

ImplementsBlockPool == Abstract!Spec
=============================================================================
