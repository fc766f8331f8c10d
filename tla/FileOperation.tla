--------------------------- MODULE FileOperation ---------------------------
(***************************************************************************)
(* The file layer, FileOperation of src/src/filesystem: files stored in    *)
(* blocks of the device.  A file is an inode block that holds the size and *)
(* the ids of the first NDirect data blocks and of one indirect block,     *)
(* which holds the ids of up to NIndirect more.                            *)
(*                                                                         *)
(* The block allocator and the inode manager are used through what         *)
(* BlockPool and InodePool promise (the lowest free id first).  The daemon *)
(* and the tests call this layer from one thread, so one call is one step; *)
(* the process may die in a call, after which the device is mounted again. *)
(***************************************************************************)
EXTENDS Naturals, Sequences, FiniteSets

CONSTANTS
  NBlocks,       (* blocks of the device *)
  NReserved,     (* superblock, inode table and the two bitmaps *)
  MaxInodes,     (* max_inode_supported *)
  NDirect,       (* get_direct_block_num() *)
  NIndirect,     (* block ids in an indirect block *)
  BlockSize,     (* cells (bytes) per block *)
  Types,         (* InodeType *)
  Cells,         (* the values of a cell *)
  Zero,          (* the value of a zeroed cell *)
  Contents,      (* the contents callers write *)
  Offsets,       (* the offsets and sizes they use *)
  Memory,        (* the cells a std::vector can be resized to *)
  Garbage        (* what a block read before it was written may hold *)

ASSUME LayoutAssumption ==
  /\ NBlocks \in Nat /\ NReserved \in Nat \ {0} /\ NReserved <= NBlocks
  /\ MaxInodes \in Nat \ {0}
  /\ NDirect \in Nat /\ NIndirect \in Nat \ {0} /\ BlockSize \in Nat \ {0}
  /\ Zero \in Cells
  /\ Contents \subseteq Seq(Cells) /\ Offsets \subseteq Nat

VARIABLES
  used,          (* the blocks whose allocation bit is one *)
  home,          (* the inode table: the block of each inode id, or 0 *)
  disk,          (* what each data block holds *)
  up,            (* the process is alive *)
  ret            (* the last call, its arguments and how it ended *)

vars == <<used, home, disk, up, ret>>

Blocks == 0 .. NBlocks - 1
Reserved == 0 .. NReserved - 1
DataBlocks == Blocks \ Reserved
InodeIds == 1 .. MaxInodes
KInvalidBlockID == 0

(* What a data block may hold: nothing of meaning (never written, or freed), *)
(* an inode, the entries of an indirect block, or file cells.               *)
Stale == [kind |-> "stale"]
InodeBlock(type, size, blocks) ==
  [kind |-> "inode", type |-> type, size |-> size, blocks |-> blocks]
IndirectBlock(entries) == [kind |-> "indirect", entries |-> entries]
DataBlock(cells) == [kind |-> "data", cells |-> cells]

MaxFileSize == NIndirect * BlockSize + NDirect * BlockSize

(* The largest file fits into memory; offsets may lie beyond both.          *)
ASSUME MemoryAssumption == Memory \in Nat /\ MaxFileSize <= Memory

Inodes ==
  [kind : {"inode"}, type : Types, size : 0 .. MaxFileSize,
   blocks : [0 .. NDirect -> {KInvalidBlockID} \cup DataBlocks]]

IndirectBlocks ==
  [kind : {"indirect"},
   entries : [0 .. NIndirect - 1 -> {KInvalidBlockID, Garbage} \cup DataBlocks]]

FileBlocks == [kind : {"data"}, cells : [0 .. BlockSize - 1 -> Cells]]

TypeOK ==
  /\ used \subseteq Blocks
  /\ home \in [InodeIds -> {KInvalidBlockID} \cup DataBlocks]
  /\ disk \in [DataBlocks -> {Stale} \cup Inodes \cup IndirectBlocks \cup FileBlocks]
  /\ up \in BOOLEAN

Call(op, id, at, data, code) ==
  [op |-> op, id |-> id, at |-> at, data |-> data, code |-> code]

-----------------------------------------------------------------------------
(* Allocating and freeing blocks. *)

Free == Blocks \ used

(* The n-th block that allocate() hands out from now on. *)
NthFree_Unmarked(n) ==   \* faulty variant: the bit of an earlier one was not set
  CHOOSE b \in Free : \A c \in Free : b <= c

NthFree(n) ==
  CHOOSE b \in Free : Cardinality({c \in Free : c < b}) = n - 1

(* Freeing the blocks of a list in order, up to the first one deallocate    *)
(* refuses because its bit is clear.                                        *)
Refused(list) ==
  {k \in 1 .. Len(list) :
     list[k] \notin used \/ \E j \in 1 .. k - 1 : list[j] = list[k]}

FreedOf(list) ==
  {list[k] : k \in {j \in 1 .. Len(list) : \A r \in Refused(list) : j < r}}

-----------------------------------------------------------------------------
(* Reading. *)

(* read_inode's success: within its bound, and the table has an entry. *)
Readable(id) ==
  /\ id \in InodeIds /\ id < MaxInodes - 1
  /\ home[id] # KInvalidBlockID

InodeOf(id) == disk[home[id]]

(* Indirect entries as read from block b: garbage if b was never one. *)
EntriesAt(b) ==
  IF b \in DataBlocks /\ disk[b].kind = "indirect"
    THEN disk[b].entries
    ELSE [k \in 0 .. NIndirect - 1 |-> Garbage]

(* The block of position idx of a file. *)
BlockOf(blocks, entries, idx) ==
  IF idx < NDirect THEN blocks[idx] ELSE entries[idx - NDirect]

CellAt(b, k) ==
  IF b \in DataBlocks /\ disk[b].kind = "data" THEN disk[b].cells[k] ELSE Garbage

read_file(id) ==
  LET inode == InodeOf(id)
      entries == EntriesAt(inode.blocks[NDirect])
  IN [k \in 1 .. inode.size |->
        CellAt(BlockOf(inode.blocks, entries, (k - 1) \div BlockSize),
               (k - 1) % BlockSize)]

-----------------------------------------------------------------------------
(* Writing.  A call's effect is a record of its result code and of the new  *)
(* bitmap and device.                                                       *)

Unwritten(code, bits) == [code |-> code, used |-> bits, disk |-> disk]

calculate_block_sz(file_sz) ==
  IF file_sz % BlockSize # 0 THEN file_sz \div BlockSize + 1
                             ELSE file_sz \div BlockSize

(* The cells of position idx of content, padded with zeros. *)
CellsOf(content, idx) ==
  [k \in 0 .. BlockSize - 1 |->
     IF idx * BlockSize + k < Len(content) THEN content[idx * BlockSize + k + 1]
                                           ELSE Zero]

(* Storing: the content is written block by block, then the inode, then the *)
(* indirect block if the file has one; freed blocks hold nothing of meaning *)
(* any more.                                                                *)
Store(id, content, blocks, entries, bits) ==
  LET n == calculate_block_sz(Len(content))
      positions(b) ==
        {idx \in 0 .. n - 1 : BlockOf(blocks, entries, idx) = b}
      last(S) == CHOOSE x \in S : \A y \in S : y <= x
  IN [code |-> "OK", used |-> bits,
      disk |-> [b \in DataBlocks |->
        CASE n > NDirect /\ b = blocks[NDirect] -> IndirectBlock(entries)
          [] ~(n > NDirect /\ b = blocks[NDirect]) /\ b = home[id] ->
               InodeBlock(InodeOf(id).type, Len(content), blocks)
          [] ~(n > NDirect /\ b = blocks[NDirect]) /\ b # home[id]
               /\ positions(b) # {} -> DataBlock(CellsOf(content, last(positions(b))))
          [] OTHER -> IF b \in used \ bits THEN Stale ELSE disk[b]]]

(* Growing: each new position takes the next free block, and the first one  *)
(* behind the direct ones is followed by the indirect block if the inode    *)
(* has none.  When the free blocks do not suffice they have all been taken  *)
(* by then, and the inode that would refer to them is not written.          *)
Grown(id, content) ==
  LET inode == InodeOf(id)
      old == calculate_block_sz(inode.size)
      new == calculate_block_sz(Len(content))
      addsIndirect == new > NDirect /\ inode.blocks[NDirect] = KInvalidBlockID
      first == IF old > NDirect THEN old ELSE NDirect
      taken == (new - old) + IF addsIndirect THEN 1 ELSE 0
      fresh(idx) ==
        NthFree((idx - old) + IF addsIndirect /\ idx > first THEN 2 ELSE 1)
      blocks == [idx \in 0 .. NDirect |->
                   CASE idx < NDirect /\ idx \in old .. new - 1 -> fresh(idx)
                     [] idx = NDirect /\ addsIndirect -> NthFree(first - old + 2)
                     [] OTHER -> inode.blocks[idx]]
      before == EntriesAt(inode.blocks[NDirect])
      entries == [k \in 0 .. NIndirect - 1 |->
                    IF k + NDirect \in old .. new - 1 THEN fresh(k + NDirect)
                                                      ELSE before[k]]
  IN IF taken > Cardinality(Free)
       THEN Unwritten("OUT_OF_RESOURCE", Blocks)
       ELSE Store(id, content, blocks, entries,
                  used \cup {NthFree(n) : n \in 1 .. taken})

(* Whether a shrinking file gives up its indirect block. *)
DropsIndirect_OffByOne(old, new) ==   \* faulty variant: keeps it one block too long
  old > NDirect /\ new < NDirect

DropsIndirect(old, new) == old > NDirect /\ new <= NDirect

(* The blocks a file gives back, in this order, when it shrinks to new blocks. *)
Surplus(id, new) ==
  LET inode == InodeOf(id)
      old == calculate_block_sz(inode.size)
      entries == EntriesAt(inode.blocks[NDirect])
  IN [k \in 1 .. old - new |-> BlockOf(inode.blocks, entries, new + k - 1)]
       \o IF DropsIndirect(old, new) THEN <<inode.blocks[NDirect]>> ELSE <<>>

(* Shrinking (or keeping the length): the blocks behind the new length are  *)
(* freed, and the indirect block when no position needs it any more.        *)
Shrunk(id, content) ==
  LET inode == InodeOf(id)
      old == calculate_block_sz(inode.size)
      new == calculate_block_sz(Len(content))
      dropsIndirect == DropsIndirect(old, new)
      before == EntriesAt(inode.blocks[NDirect])
      list == Surplus(id, new)
      blocks == [idx \in 0 .. NDirect |->
                   IF \/ idx < NDirect /\ idx \in new .. old - 1
                      \/ idx = NDirect /\ dropsIndirect
                     THEN KInvalidBlockID ELSE inode.blocks[idx]]
      entries == [k \in 0 .. NIndirect - 1 |->
                    IF k + NDirect \in new .. old - 1 THEN KInvalidBlockID
                                                      ELSE before[k]]
  IN IF Refused(list) # {}
       THEN Unwritten("INVALID_ARG", used \ FreedOf(list))
       ELSE Store(id, content, blocks, entries, used \ FreedOf(list))

write_file(id, content) ==
  CASE ~Readable(id) -> Unwritten("INVALID_ARG", used)
    [] Readable(id) /\ Len(content) > MaxFileSize ->
         Unwritten("OUT_OF_RESOURCE", used)
    [] OTHER ->
         IF calculate_block_sz(Len(content)) > calculate_block_sz(InodeOf(id).size)
           THEN Grown(id, content) ELSE Shrunk(id, content)

-----------------------------------------------------------------------------
(* The calls.  Ids are any a caller may hold, also of removed files.        *)

Init ==
  /\ used = Reserved
  /\ home = [id \in InodeIds |-> KInvalidBlockID]
  /\ disk = [b \in DataBlocks |-> Stale]
  /\ up = TRUE
  /\ ret = Call("none", 0, 0, <<>>, "OK")

(* An inode is given the next free block and the lowest free id. *)
FreeIds == {id \in InodeIds : home[id] = KInvalidBlockID}

EmptyInode_Unzeroed(type) ==   \* faulty variant: leaves the entries as found
  InodeBlock(type, 0, [idx \in 0 .. NDirect |-> Garbage])

EmptyInode(type) ==
  InodeBlock(type, 0, [idx \in 0 .. NDirect |-> KInvalidBlockID])

Allocated(type) ==
  LET id == CHOOSE i \in FreeIds : \A j \in FreeIds : i <= j
  IN [id |-> id, used |-> used \cup {NthFree(1)},
      home |-> [home EXCEPT ![id] = NthFree(1)],
      disk |-> [disk EXCEPT ![NthFree(1)] = EmptyInode(type)]]

alloc_inode(type) ==
  /\ up /\ Free # {} /\ FreeIds # {}
  /\ used' = Allocated(type).used
  /\ home' = Allocated(type).home
  /\ disk' = Allocated(type).disk
  /\ ret' = Call("create", Allocated(type).id, 0, <<>>, "OK")
  /\ UNCHANGED up

(* The block was taken before the inode table turned out to be full. *)
alloc_inode_table_full ==
  /\ up /\ Free # {} /\ FreeIds = {}
  /\ used' = used \cup {NthFree(1)}
  /\ ret' = Call("create", 0, 0, <<>>, "OUT_OF_RESOURCE")
  /\ UNCHANGED <<home, disk, up>>

(* Without a free block the error result is unwrapped, which throws. *)
alloc_inode_no_block ==
  /\ up /\ Free = {}
  /\ up' = FALSE
  /\ ret' = Call("create", 0, 0, <<>>, "EXCEPTION")
  /\ UNCHANGED <<used, home, disk>>

(* The write_file that ends each of the writing calls. *)
Written(id, content, op, at, data) ==
  LET effect == write_file(id, content)
  IN /\ used' = effect.used
     /\ disk' = effect.disk
     /\ ret' = Call(op, id, at, data, effect.code)
     /\ UNCHANGED <<home, up>>

WriteFile(id, content) ==
  up /\ Written(id, content, "write_file", 0, content)

Failed(op, id, at, data) ==
  /\ ret' = Call(op, id, at, data, "INVALID_ARG")
  /\ UNCHANGED <<used, home, disk, up>>

(* The content in memory is resized before write_file, and so before its    *)
(* check of the size.  A vector that cannot be resized throws, and nothing  *)
(* catches it.                                                              *)
Resizable(size) == size <= Memory

Throws(op, id, at, data) ==
  /\ up' = FALSE
  /\ ret' = Call(op, id, at, data, "EXCEPTION")
  /\ UNCHANGED <<used, home, disk>>

(* write_file_w_off: the old content, extended and overwritten, is written  *)
(* as a whole.                                                              *)
Patched_Truncating(content, data, offset) ==   \* faulty variant: cuts the tail
  [k \in 1 .. offset + Len(data) |->
     IF k > offset THEN data[k - offset]
     ELSE IF k <= Len(content) THEN content[k] ELSE Zero]

Patched(content, data, offset) ==
  LET size == IF offset + Len(data) > Len(content) THEN offset + Len(data)
                                                   ELSE Len(content)
  IN [k \in 1 .. size |->
        IF k \in offset + 1 .. offset + Len(data) THEN data[k - offset]
        ELSE IF k <= Len(content) THEN content[k] ELSE Zero]

write_file_w_off(id, data, offset) ==
  /\ up
  /\ \/ /\ ~Readable(id)
        /\ Failed("write_file_w_off", id, offset, data)
     \/ /\ Readable(id) /\ ~Resizable(offset + Len(data))
        /\ Throws("write_file_w_off", id, offset, data)
     \/ /\ Readable(id) /\ Resizable(offset + Len(data))
        /\ Written(id, Patched(read_file(id), data, offset),
                   "write_file_w_off", offset, data)

Resized(content, sz) ==
  [k \in 1 .. sz |-> IF k <= Len(content) THEN content[k] ELSE Zero]

(* resize: nothing is written when the size does not change. *)
resize(id, sz) ==
  /\ up
  /\ \/ ~Readable(id) /\ Failed("resize", id, sz, <<>>)
     \/ /\ Readable(id) /\ InodeOf(id).size = sz
        /\ ret' = Call("resize", id, sz, <<>>, "OK")
        /\ UNCHANGED <<used, home, disk, up>>
     \/ /\ Readable(id) /\ InodeOf(id).size # sz /\ ~Resizable(sz)
        /\ Throws("resize", id, sz, <<>>)
     \/ /\ Readable(id) /\ InodeOf(id).size # sz /\ Resizable(sz)
        /\ Written(id, Resized(read_file(id), sz), "resize", sz, <<>>)

(* remove_file: the direct blocks up to the first missing one, and last the *)
(* inode's own block, are freed after the inode.                            *)
FreeSet_NoInode(id) ==   \* faulty variant: forgets the inode's own block
  LET inode == InodeOf(id)
      direct == {i \in 0 .. NDirect - 1 :
                   \A j \in 0 .. i : inode.blocks[j] # KInvalidBlockID}
  IN [k \in 1 .. Cardinality(direct) |-> inode.blocks[k - 1]]

FreeSet(id) ==
  LET inode == InodeOf(id)
      direct == {i \in 0 .. NDirect - 1 :
                   \A j \in 0 .. i : inode.blocks[j] # KInvalidBlockID}
  IN [k \in 1 .. Cardinality(direct) |-> inode.blocks[k - 1]] \o <<home[id]>>

HasIndirect(id) == InodeOf(id).blocks[NDirect] # KInvalidBlockID

Removed(id) ==
  [code |-> IF Refused(FreeSet(id)) = {} THEN "OK" ELSE "INVALID_ARG",
   used |-> used \ FreedOf(FreeSet(id)),
   home |-> [home EXCEPT ![id] = KInvalidBlockID],
   disk |-> [b \in DataBlocks |->
               IF b \in FreedOf(FreeSet(id)) THEN Stale ELSE disk[b]]]

remove_file(id) ==
  /\ up /\ Readable(id) /\ ~HasIndirect(id)
  /\ home' = Removed(id).home
  /\ used' = Removed(id).used
  /\ disk' = Removed(id).disk
  /\ ret' = Call("remove", id, 0, <<>>, Removed(id).code)
  /\ UNCHANGED up

(* The buffer the indirect block is read into is empty: block_size bytes    *)
(* are copied to a null pointer.                                            *)
remove_file_indirect(id) ==
  /\ up /\ Readable(id) /\ HasIndirect(id)
  /\ up' = FALSE
  /\ ret' = Call("remove", id, 0, <<>>, "SEGV")
  /\ UNCHANGED <<used, home, disk>>

remove_file_fails(id) ==
  /\ up /\ ~Readable(id)
  /\ Failed("remove", id, 0, <<>>)

(* A new process opens the device file: create_from_raw keeps every block.  *)
create_from_raw ==
  /\ ~up
  /\ up' = TRUE
  /\ ret' = Call("mount", 0, 0, <<>>, "MOUNTED")
  /\ UNCHANGED <<used, home, disk>>

Next ==
  \/ \E type \in Types : alloc_inode(type)
  \/ alloc_inode_table_full
  \/ alloc_inode_no_block
  \/ \E id \in InodeIds :
       \/ \E content \in Contents : WriteFile(id, content)
       \/ \E data \in Contents, offset \in Offsets :
            write_file_w_off(id, data, offset)
       \/ \E sz \in Offsets : resize(id, sz)
       \/ remove_file(id) \/ remove_file_indirect(id) \/ remove_file_fails(id)
  \/ create_from_raw

Spec == Init /\ [][Next]_vars

-----------------------------------------------------------------------------
(* The places that refer to a block: the table for an inode's own block,    *)
(* and an inode's positions and indirect entry.                             *)
Live == {id \in InodeIds : home[id] # KInvalidBlockID}

Positions(id) == 0 .. calculate_block_sz(InodeOf(id).size) - 1

DataBlockAt(id, idx) ==
  BlockOf(InodeOf(id).blocks, EntriesAt(InodeOf(id).blocks[NDirect]), idx)

Places ==
  UNION {{<<id, "inode", 0>>} \cup {<<id, "data", idx>> : idx \in Positions(id)}
           \cup {<<id, "indirect", 0>> : x \in {y \in {id} : HasIndirect(y)}} :
         id \in Live}

Target(place) ==
  CASE place[2] = "inode" -> home[place[1]]
    [] place[2] = "indirect" -> InodeOf(place[1]).blocks[NDirect]
    [] place[2] = "data" -> DataBlockAt(place[1], place[3])

(* Every block a file refers to is allocated to it alone: it is a data      *)
(* block whose bit is one, it holds what the place expects, no other place  *)
(* of this or another file refers to it, and the reserved blocks stay       *)
(* allocated.  Hence deallocate never sees a reserved, a foreign or an      *)
(* already free block, and no write reaches another file.                   *)
BlockOwnership ==
  /\ Reserved \subseteq used
  /\ \A p \in Places : /\ Target(p) \in used \cap DataBlocks
                       /\ disk[Target(p)].kind = p[2]
  /\ \A p, q \in Places : Target(p) = Target(q) => p = q

(* The inode says where its blocks end in three ways that must agree, for   *)
(* growing, shrinking and removing each rely on another one: its size, the  *)
(* first empty direct entry, and whether it has an indirect block (the      *)
(* assertion of get_indirect_block_id).                                     *)
InodeShape ==
  \A id \in Live :
    LET n == calculate_block_sz(InodeOf(id).size)
    IN /\ \A idx \in 0 .. NDirect - 1 :
            InodeOf(id).blocks[idx] # KInvalidBlockID <=> idx < n
       /\ HasIndirect(id) <=> n > NDirect

(* Allocated blocks that nothing refers to are lost until the device is     *)
(* formatted: only a call that reports a failure may lose any.              *)
Orphans == (used \ Reserved) \ {Target(p) : p \in Places}

LosesBlocksOnlyOnFailure ==
  [][ret'.code \in {"OK", "MOUNTED"} => Orphans' \subseteq Orphans]_vars

(* The files that callers see, read through the table, the inodes and the   *)
(* indirect blocks, behave as FileStore says.  read_inode serves all ids    *)
(* but the last two.                                                        *)
VisibleFiles ==
  [id \in InodeIds |->
     IF Readable(id) THEN [type |-> InodeOf(id).type, content |-> read_file(id)]
                     ELSE Stale]

Abstract == INSTANCE FileStore WITH
  Ids <- InodeIds, Usable <- {id \in InodeIds : id < MaxInodes - 1},
  NoFile <- Stale, files <- VisibleFiles

ImplementsFileStore == Abstract!Spec

-----------------------------------------------------------------------------
(* What the tests and comments of the repository say, and the code does not *)
(* do.                                                                      *)

(* remove_test.cc removes every file it created and expects each remove_file *)
(* to succeed; the process must at least survive it.                        *)
RemoveSurvives == ret.op = "remove" => ret.code # "SEGV"

(* alloc_inode's callers check its result for an error, so a full device is *)
(* reported and not thrown.                                                 *)
CreateReportsErrors == ret.op = "create" => ret.code # "EXCEPTION"

(* remove_test.cc: when every file is removed, every block is free again.   *)
EmptyMeansFree == (up /\ Live = {}) => used = Reserved
=============================================================================
