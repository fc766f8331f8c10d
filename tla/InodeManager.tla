---------------------------- MODULE InodeManager ----------------------------
(***************************************************************************)
(* The inode manager of src/src/metadata/manager.cc: a table that maps the *)
(* raw inode number to the block of the inode, and an allocation bitmap    *)
(* over the raw numbers.  The ids the callers see are the raw numbers plus *)
(* one, so that zero can mean "no inode".                                  *)
(***************************************************************************)
EXTENDS Naturals, FiniteSets

CONSTANTS
  InodesRequested,   (* the constructor's argument max_inode_supported *)
  InodeBitsPerBlock, (* block_size() * KBitsPerByte *)
  BlockIds           (* the blocks callers store inodes in *)

KInvalidBlockID == 0
KInvalidInodeID == 0

ASSUME ArgumentsAssumption ==
  /\ InodesRequested \in Nat \ {0}
  /\ InodeBitsPerBlock \in Nat \ {0}
  /\ BlockIds \subseteq Nat \ {KInvalidBlockID}

VARIABLES
  table,             (* the inode table, indexed by raw number *)
  bitmap,            (* bitmap block i, as the set of positions that are one *)
  ret,               (* the last call, its argument and its result *)
  home               (* history: the block each id was given and still has *)

vars == <<table, bitmap, ret, home>>

RAW_2_LOGIC(i) == i + 1
LOGIC_2_RAW(i) == i - 1

(* The bitmap is aligned to whole blocks, which may enlarge the number of   *)
(* inodes.                                                                  *)
n_bitmap_blocks ==
  (InodesRequested \div InodeBitsPerBlock)
    + IF (InodesRequested \div InodeBitsPerBlock) * InodeBitsPerBlock
           < InodesRequested THEN 1 ELSE 0

max_inode_supported == n_bitmap_blocks * InodeBitsPerBlock

BitmapBlocks == 0 .. n_bitmap_blocks - 1
Positions == 0 .. InodeBitsPerBlock - 1
RawNumbers == 0 .. max_inode_supported - 1
InodeIds == 1 .. max_inode_supported

RawAt(i, pos) == i * InodeBitsPerBlock + pos

Result(op, arg, code, val) ==
  [op |-> op, arg |-> arg, code |-> code, val |-> val]
Ops == {"none", "allocate_inode", "read_inode", "free_inode", "free_inode_cnt"}
Codes == {"OK", "OUT_OF_RESOURCE", "INVALID_ARG"}

TypeOK ==
  /\ table \in [RawNumbers -> BlockIds \cup {KInvalidBlockID}]
  /\ bitmap \in [BitmapBlocks -> SUBSET Positions]
  /\ home \in [InodeIds -> BlockIds \cup {KInvalidBlockID}]
  /\ ret \in [op : Ops, arg : Nat, code : Codes, val : Nat]

-----------------------------------------------------------------------------
(* The constructor clears the table and the bitmap. *)
Init ==
  /\ table = [raw \in RawNumbers |-> KInvalidBlockID]
  /\ bitmap = [i \in BitmapBlocks |-> {}]
  /\ home = [id \in InodeIds |-> KInvalidBlockID]
  /\ ret = Result("none", 0, "OK", 0)

FreeIn(i) == Positions \ bitmap[i]

(* allocate_inode(type, bid): the first clear bit of the first bitmap block *)
(* that has one is set, then bid is entered in the table.                   *)
allocate_inode_Swapped(bid) ==   \* faulty variant: set_table's arguments swapped
  \E i \in BitmapBlocks :
    /\ \A k \in BitmapBlocks : k < i => FreeIn(k) = {}
    /\ \E pos \in FreeIn(i) :
         /\ \A q \in FreeIn(i) : pos <= q
         /\ bitmap' = [bitmap EXCEPT ![i] = @ \cup {pos}]
         /\ table' = [table EXCEPT ![RawAt(i, pos)] = RawAt(i, pos)]
         /\ home' = [home EXCEPT ![RAW_2_LOGIC(RawAt(i, pos))] = bid]
         /\ ret' = Result("allocate_inode", bid, "OK", RAW_2_LOGIC(RawAt(i, pos)))

allocate_inode(bid) ==
  \E i \in BitmapBlocks :
    /\ \A k \in BitmapBlocks : k < i => FreeIn(k) = {}
    /\ \E pos \in FreeIn(i) :
         /\ \A q \in FreeIn(i) : pos <= q
         /\ bitmap' = [bitmap EXCEPT ![i] = @ \cup {pos}]
         /\ table' = [table EXCEPT ![RawAt(i, pos)] = bid]
         /\ home' = [home EXCEPT ![RAW_2_LOGIC(RawAt(i, pos))] = bid]
         /\ ret' = Result("allocate_inode", bid, "OK", RAW_2_LOGIC(RawAt(i, pos)))

allocate_inode_fails ==
  /\ \A i \in BitmapBlocks : FreeIn(i) = {}
  /\ ret' = Result("allocate_inode", 0, "OUT_OF_RESOURCE", 0)
  /\ UNCHANGED <<table, bitmap, home>>

(* get(id) indexes the table without any check.  Id 0 wraps around to a raw *)
(* number whose block offset overflows to the last word of the superblock,  *)
(* which is never written and zero.                                         *)
get_Unshifted(id) ==   \* faulty variant: indexes the table with the logical id
  IF id \in RawNumbers THEN table[id] ELSE KInvalidBlockID

get(id) ==
  IF id = KInvalidInodeID THEN KInvalidBlockID ELSE table[LOGIC_2_RAW(id)]

(* The bound that read_inode and free_inode put on their argument. *)
OutOfBound(id) == id >= max_inode_supported - 1

(* read_inode(id), which get_attr, get_type and get_type_attr start with. *)
Readable(id) == ~OutOfBound(id) /\ get(id) # KInvalidBlockID

read_inode(id) ==
  /\ Readable(id)
  /\ ret' = Result("read_inode", id, "OK", get(id))
  /\ UNCHANGED <<table, bitmap, home>>

read_inode_fails(id) ==
  /\ ~Readable(id)
  /\ ret' = Result("read_inode", id, "INVALID_ARG", 0)
  /\ UNCHANGED <<table, bitmap, home>>

(* free_inode(id): the table entry and the bit are cleared, taken or not. *)
free_inode_KeepsEntry(id) ==   \* faulty variant: leaves the table entry
  /\ ~OutOfBound(id)
  /\ bitmap' = [bitmap EXCEPT ![LOGIC_2_RAW(id) \div InodeBitsPerBlock] =
                  @ \ {LOGIC_2_RAW(id) % InodeBitsPerBlock}]
  /\ home' = [home EXCEPT ![id] = KInvalidBlockID]
  /\ ret' = Result("free_inode", id, "OK", 0)
  /\ UNCHANGED table

free_inode(id) ==
  LET raw == LOGIC_2_RAW(id)
  IN /\ ~OutOfBound(id)
     /\ table' = [table EXCEPT ![raw] = KInvalidBlockID]
     /\ bitmap' = [bitmap EXCEPT ![raw \div InodeBitsPerBlock] =
                     @ \ {raw % InodeBitsPerBlock}]
     /\ home' = [home EXCEPT ![id] = KInvalidBlockID]
     /\ ret' = Result("free_inode", id, "OK", 0)

free_inode_fails(id) ==
  /\ OutOfBound(id)
  /\ ret' = Result("free_inode", id, "INVALID_ARG", 0)
  /\ UNCHANGED <<table, bitmap, home>>

(* free_inode_cnt(): the zeros of every bitmap block. *)
ZeroBits == {bit \in BitmapBlocks \X Positions : bit[2] \notin bitmap[bit[1]]}

free_inode_cnt ==
  /\ ret' = Result("free_inode_cnt", 0, "OK", Cardinality(ZeroBits))
  /\ UNCHANGED <<table, bitmap, home>>

(* read_inode is called with any id a caller may hold, 0 and ids beyond the *)
(* table included; free_inode only behind a successful read_inode, so never *)
(* with 0.                                                                  *)
Next ==
  \/ \E bid \in BlockIds : allocate_inode(bid)
  \/ allocate_inode_fails
  \/ \E id \in 0 .. max_inode_supported + 1 :
       read_inode(id) \/ read_inode_fails(id)
  \/ \E id \in 1 .. max_inode_supported + 1 :
       free_inode(id) \/ free_inode_fails(id)
  \/ free_inode_cnt

Spec == Init /\ [][Next]_vars

-----------------------------------------------------------------------------
(* The two on-disk structures never disagree: a bit is one exactly when its *)
(* id is taken, and the table holds the block the id was given.  An id that *)
(* is taken is therefore never given again, and a freed one leads nowhere.  *)
TableAgrees ==
  \A i \in BitmapBlocks, pos \in Positions :
    LET id == RAW_2_LOGIC(RawAt(i, pos))
    IN /\ pos \in bitmap[i] <=> home[id] # KInvalidBlockID
       /\ table[RawAt(i, pos)] = home[id]

(* The manager implements the map of ids the file layer relies on, for the  *)
(* ids its bound lets through: it gives out the lowest free id, runs out    *)
(* only when all are taken, and finds the block an id was given.            *)
Abstract == INSTANCE InodePool WITH
  Ids <- InodeIds, Asked <- 0 .. max_inode_supported + 1,
  Served <- {id \in InodeIds : ~OutOfBound(id)},
  Blocks <- BlockIds, NoBlock <- KInvalidBlockID

ImplementsInodePool == Abstract!Spec

(* What the tests expect of every id alloc_inode returns: its type can be   *)
(* read.  It fails for the two largest ids, which are given out but refused *)
(* by read_inode's bound.                                                   *)
EveryIdReadable ==
  \A id \in InodeIds : home[id] # KInvalidBlockID => Readable(id)
=============================================================================
