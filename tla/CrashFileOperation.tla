------------------------- MODULE CrashFileOperation -------------------------
(***************************************************************************)
(* FileOperation on a device file, write by write: each call, and the      *)
(* formatting of the device, is the sequence of block writes it makes, and *)
(* the process may die between any two of them.  The mapping is shared, so *)
(* the file then holds the writes that were made, and create_from_raw      *)
(* mounts it as it is ("will consider the filesystem as not corrupted").   *)
(*                                                                         *)
(* used, home and disk are FileOperation's, now as they are in the file at *)
(* every moment.  A device that a crash left with a file that refers to    *)
(* blocks it does not own is not followed further: it is replaced.         *)
(***************************************************************************)
EXTENDS FileOperation, Layout, BlockDevice

CONSTANTS
  Counts,        (* the numbers of blocks processes expect *)
  Requested      (* the number of inodes the device is formatted for *)

ASSUME FormatAssumption ==
  /\ Requested \in Nat /\ Fits(Requested, NBlocks)
  /\ MaxInodes = max_inode_supported(Requested)
  /\ DataBlocks = Formatted(Requested, NBlocks).data

VARIABLES
  marked,        (* the inodes whose bit in the inode bitmap is one *)
  superblock,    (* ninodes of the superblock, 0 where none was written *)
  todo,          (* the writes the call in progress has still to make, or, *)
                 (* when the process died in it, those it did not make     *)
  crashed        (* the device survived such a death *)

imageVars == <<used, home, disk, marked, superblock>>
crashVars == <<imageVars, up, ret, todo, crashed, deviceVars>>

(* A file of zeros. *)
NoImage ==
  [used |-> {}, home |-> [id \in InodeIds |-> KInvalidBlockID],
   disk |-> [b \in DataBlocks |-> Stale], marked |-> {}, superblock |-> 0]

-----------------------------------------------------------------------------
(* Writes, each with the file it is made for.                               *)

Write(file, kind, at, value) ==
  [file |-> file, kind |-> kind, at |-> at, value |-> value]

region == Formatted(Requested, NBlocks)

(* What a block of the three metadata regions holds: table entries, bits of *)
(* inodes, bits of blocks.                                                  *)
InodesOf(b) == {id \in InodeIds : (id - 1) \div EntriesPerBlock + 1 = b}
MarksOf(b) ==
  {id \in InodeIds :
     (id - 1) \div BitsPerBlock + 1 + n_table_blocks(MaxInodes) = b}

bitmap_block_id == get_reserved_blocks(MaxInodes, n_bitmap_blocks(Requested))
BitmapBlockOf(x) == x \div BitsPerBlock + bitmap_block_id
BitsOf(b) == {x \in Blocks : BitmapBlockOf(x) = b}

set_bit_Unflushed(w) ==   \* faulty variant: the bit is not written back
  w.kind = "set" /\ UNCHANGED imageVars

set_bit(w) ==
  /\ w.kind = "set"
  /\ used' = used \cup {w.at}
  /\ UNCHANGED <<home, disk, marked, superblock>>

(* A freed block holds nothing of meaning any more. *)
clear_bit(w) ==
  /\ w.kind = "clear"
  /\ used' = used \ {w.at}
  /\ disk' = [b \in DataBlocks |-> IF b = w.at THEN Stale ELSE disk[b]]
  /\ UNCHANGED <<home, marked, superblock>>

set_mark(w) ==
  /\ w.kind = "mark"
  /\ marked' = marked \cup {w.at}
  /\ UNCHANGED <<used, home, disk, superblock>>

clear_mark(w) ==
  /\ w.kind = "unmark"
  /\ marked' = marked \ {w.at}
  /\ UNCHANGED <<used, home, disk, superblock>>

set_table(w) ==
  /\ w.kind = "entry"
  /\ home' = [home EXCEPT ![w.at] = w.value]
  /\ UNCHANGED <<used, disk, marked, superblock>>

write_block(w) ==
  /\ w.kind = "block"
  /\ disk' = [disk EXCEPT ![w.at] = w.value]
  /\ UNCHANGED <<used, home, marked, superblock>>

zero_block(w) ==
  /\ w.kind = "zero"
  /\ home' = [id \in InodeIds |-> IF id \in InodesOf(w.at) THEN KInvalidBlockID
                                                          ELSE home[id]]
  /\ marked' = marked \ MarksOf(w.at)
  /\ used' = used \ BitsOf(w.at)
  /\ UNCHANGED <<disk, superblock>>

(* The loop over the reserved blocks, whose bits are collected in a buffer  *)
(* that is written when the next bit is of another bitmap block: as long as *)
(* it runs it is one pending write, at the block whose turn it is.          *)
Collecting(i, cur_block_id, buffer) ==
  Write(0, "reserve", i, [block |-> cur_block_id, buffer |-> buffer])

Flushed(w) ==
  (used \ BitsOf(w.value.block))
    \cup {x \in BitsOf(w.value.block) : x % BitsPerBlock \in w.value.buffer}

(* Behind the last reserved block the loop ends with the last buffer. *)
flush_reserved(w) ==
  /\ w.kind = "reserve" /\ w.at = NReserved
  /\ used' = Flushed(w)
  /\ UNCHANGED <<home, disk, marked, superblock>>

write_superblock(w) ==
  /\ w.kind = "superblock"
  /\ superblock' = w.value
  /\ UNCHANGED <<used, home, disk, marked>>

Performed(w) ==
  \/ set_bit(w) \/ clear_bit(w) \/ set_mark(w) \/ clear_mark(w) \/ set_table(w)
  \/ write_block(w) \/ zero_block(w) \/ flush_reserved(w) \/ write_superblock(w)

-----------------------------------------------------------------------------
(* The writes of each call, in its order. *)

(* S in ascending order. *)
Ascending(S) ==
  [k \in 1 .. Cardinality(S) |->
     CHOOSE x \in S : Cardinality({y \in S : y < x}) = k - 1]

Bits(file, kind, blocks) ==
  [k \in DOMAIN blocks |-> Write(file, kind, blocks[k], 0)]

(* The inode's bit, then the inode, then its entry in the table. *)
alloc_writes_TableFirst(type, id) ==   \* faulty variant: the entry before the bit
  <<Write(id, "set", NthFree(1), 0), Write(id, "entry", id, NthFree(1)),
    Write(id, "mark", id, 0), Write(id, "block", NthFree(1), EmptyInode(type))>>

alloc_writes(type, id) ==
  <<Write(id, "set", NthFree(1), 0), Write(id, "mark", id, 0),
    Write(id, "block", NthFree(1), EmptyInode(type)), Write(id, "entry", id, NthFree(1))>>

(* The content, then the inode, then the indirect block: each as Store has  *)
(* it in the end.                                                           *)
store_writes_NoIndirect(id, n, stored) ==   \* faulty variant: forgets the last one
  LET inode == stored[home[id]]
      entries == IF n > NDirect THEN stored[inode.blocks[NDirect]].entries ELSE <<>>
  IN [k \in 1 .. n |-> LET b == BlockOf(inode.blocks, entries, k - 1)
                       IN Write(id, "block", b, stored[b])]
       \o <<Write(id, "block", home[id], inode)>>

store_writes(id, n, stored) ==
  LET inode == stored[home[id]]
      indirect == inode.blocks[NDirect]
      entries == IF n > NDirect THEN stored[indirect].entries ELSE <<>>
  IN [k \in 1 .. n |-> LET b == BlockOf(inode.blocks, entries, k - 1)
                       IN Write(id, "block", b, stored[b])]
       \o <<Write(id, "block", home[id], inode)>>
       \o IF n > NDirect THEN <<Write(id, "block", indirect, stored[indirect])>> ELSE <<>>

(* The bits come first: set one by one, or cleared.                         *)
write_file_writes(id, content) ==
  LET effect == write_file(id, content)
      n == calculate_block_sz(Len(content))
      bits == IF effect.used \subseteq used
                THEN Bits(id, "clear", IF used = effect.used THEN <<>> ELSE Surplus(id, n))
                ELSE Bits(id, "set", Ascending(effect.used \ used))
  IN bits \o IF effect.code = "OK" THEN store_writes(id, n, effect.disk) ELSE <<>>

(* The table entry and the inode's bit, then the bits of the blocks.        *)
remove_writes_BlocksFirst(id) ==   \* faulty variant: frees the blocks first
  Bits(id, "clear", FreeSet(id))
    \o <<Write(id, "entry", id, KInvalidBlockID), Write(id, "unmark", id, 0)>>

remove_writes(id) ==
  <<Write(id, "entry", id, KInvalidBlockID), Write(id, "unmark", id, 0)>>
    \o Bits(id, "clear", FreeSet(id))

(* The table, the inode bitmap and the block bitmap are zeroed, the bits of *)
(* the reserved blocks set, and last the superblock is written.             *)
On(kind, blocks) == [k \in 1 .. Cardinality(blocks) |->
                       Write(0, kind, Ascending(blocks)[k], 0)]

format_writes_SuperblockFirst ==   \* faulty variant
  <<Write(0, "superblock", 0, MaxInodes)>>
    \o On("zero", region.table \cup region.inodeBitmap \cup region.blockBitmap)
    \o <<Collecting(0, bitmap_block_id, {})>>

format_writes ==
  On("zero", region.table \cup region.inodeBitmap \cup region.blockBitmap)
    \o <<Collecting(0, bitmap_block_id, {}), Write(0, "superblock", 0, MaxInodes)>>

-----------------------------------------------------------------------------
(* The life of the device. *)

CrashInit ==
  /\ used = NoImage.used /\ home = NoImage.home /\ disk = NoImage.disk
  /\ marked = NoImage.marked /\ superblock = NoImage.superblock
  /\ up = FALSE /\ ret = Call("none", 0, 0, <<>>, "OK")
  /\ todo = <<>> /\ crashed = FALSE
  /\ DeviceInit

open_device(count) ==
  /\ open(count)
  /\ ret' = Call("open", 0, count, <<>>, "OK")
  /\ UNCHANGED <<imageVars, up, todo, crashed>>

(* The blocks of files belong to them, and ids in use are marked. *)
TakenIdsMarked == \A id \in Live : id \in marked

(* The table refers to inodes, and every block to its one owner. *)
Owned == (\A id \in Live : InodeOf(id).kind = "inode") /\ BlockOwnership

Sound == superblock # 0 /\ Owned /\ TakenIdsMarked

(* A device file that is of no use any more, because of a crash or because  *)
(* it has not the default size, is replaced by an empty one.                *)
replace_device ==
  /\ replace
  /\ todo' = <<>> /\ crashed' = FALSE
  /\ ret' = Call("replace", 0, 0, <<>>, "OK")
  /\ used' = NoImage.used /\ home' = NoImage.home /\ disk' = NoImage.disk
  /\ marked' = NoImage.marked /\ superblock' = NoImage.superblock
  /\ UNCHANGED up

(* The process formats a device that has no superblock; one that has is     *)
(* mounted, and never formatted again.                                      *)
format ==
  /\ mapped /\ ~up /\ block_cnt = NBlocks /\ superblock = 0
  /\ up' = TRUE /\ todo' = format_writes
  /\ ret' = Call("format", 0, 0, <<>>, "OK")
  /\ UNCHANGED <<imageVars, crashed, deviceVars>>

(* create_from_raw writes nothing. *)
mount ==
  /\ mapped /\ ~up /\ block_cnt = NBlocks /\ Sound
  /\ up' = TRUE /\ todo' = <<>>
  /\ ret' = Call("mount", 0, 0, <<>>, "MOUNTED")
  /\ UNCHANGED <<imageVars, crashed, deviceVars>>

(* The next write of the call in progress. *)
step ==
  /\ up /\ todo # <<>>
  /\ Performed(Head(todo))
  /\ todo' = Tail(todo)
  /\ UNCHANGED <<up, ret, crashed, deviceVars>>

(* One round of the loop over the reserved blocks. *)
set_reserved ==
  LET w == Head(todo)
      block_id == BitmapBlockOf(w.at)
      block_idx == w.at % BitsPerBlock
      goes_on(buffer) == <<Collecting(w.at + 1, block_id, buffer)>> \o Tail(todo)
  IN /\ up /\ todo # <<>> /\ w.kind = "reserve" /\ w.at < NReserved
     /\ \/ /\ block_id = w.value.block
           /\ todo' = goes_on(w.value.buffer \cup {block_idx})
           /\ UNCHANGED used
        \/ /\ block_id # w.value.block
           /\ todo' = goes_on({block_idx})
           /\ used' = Flushed(w)
     /\ UNCHANGED <<home, disk, marked, superblock, up, ret, crashed, deviceVars>>

(* The process ends, in a call or between two. *)
stop ==
  /\ close
  /\ up' = FALSE
  /\ crashed' = (crashed \/ todo # <<>>)
  /\ ret' = Call("stop", 0, 0, <<>>, "OK")
  /\ UNCHANGED <<imageVars, todo>>

-----------------------------------------------------------------------------
(* The calls.  Each begins when the one before it is done. *)

Begins(op, id, at, data, code, writes) ==
  /\ up /\ todo = <<>>
  /\ todo' = writes
  /\ ret' = Call(op, id, at, data, code)
  /\ UNCHANGED <<imageVars, up, crashed, deviceVars>>

(* The call ends the process, and had made no write before. *)
Kills(op, id, at, data, code) ==
  /\ up /\ todo = <<>>
  /\ up' = FALSE
  /\ close
  /\ ret' = Call(op, id, at, data, code)
  /\ UNCHANGED <<imageVars, todo, crashed>>

(* The lowest id whose bit is clear: an id that a crash left marked and     *)
(* without an entry is not given out.                                       *)
Unmarked == InodeIds \ marked
NextId == CHOOSE i \in Unmarked : \A j \in Unmarked : i <= j

create(type) ==
  CASE Free = {} -> Kills("create", 0, 0, <<>>, "EXCEPTION")
    [] Free # {} /\ Unmarked = {} ->
         Begins("create", 0, 0, <<>>, "OUT_OF_RESOURCE",
                <<Write(0, "set", NthFree(1), 0)>>)
    [] OTHER -> Begins("create", NextId, 0, <<>>, "OK", alloc_writes(type, NextId))

write(op, id, at, data, content) ==
  Begins(op, id, at, data, write_file(id, content).code, write_file_writes(id, content))

replace_content(id, content) == write("write_file", id, 0, content, content)

write_at(id, data, offset) ==
  /\ Readable(id)
  /\ IF Resizable(offset + Len(data))
       THEN write("write_file_w_off", id, offset, data,
                  Patched(read_file(id), data, offset))
       ELSE Kills("write_file_w_off", id, offset, data, "EXCEPTION")

truncate(id, sz) ==
  /\ Readable(id) /\ InodeOf(id).size # sz
  /\ IF Resizable(sz)
       THEN write("resize", id, sz, <<>>, Resized(read_file(id), sz))
       ELSE Kills("resize", id, sz, <<>>, "EXCEPTION")

remove(id) ==
  IF Readable(id) /\ HasIndirect(id) THEN Kills("remove", id, 0, <<>>, "SEGV")
  ELSE Readable(id) /\ Begins("remove", id, 0, <<>>, Removed(id).code, remove_writes(id))

CrashNext ==
  \/ \E count \in Counts : open_device(count)
  \/ replace_device \/ format \/ set_reserved \/ mount \/ step \/ stop
  \/ \E type \in Types : create(type)
  \/ \E id \in InodeIds :
       \/ \E content \in Contents : replace_content(id, content)
       \/ \E data \in Contents, offset \in Offsets : write_at(id, data, offset)
       \/ \E sz \in Offsets : truncate(id, sz)
       \/ remove(id)

CrashSpec == CrashInit /\ [][CrashNext]_crashVars

-----------------------------------------------------------------------------
CrashTypeOK ==
  /\ TypeOK
  /\ marked \subseteq InodeIds /\ superblock \in {0, MaxInodes}
  /\ \A k \in DOMAIN todo : todo[k].kind \in
       {"set", "clear", "mark", "unmark", "entry", "block", "zero", "reserve",
        "superblock"}
  /\ crashed \in BOOLEAN /\ mapped \in BOOLEAN /\ (up => mapped)

(* The writes that leave a file damaged when the process dies before them:  *)
(* the inode of a file that shrinks, whose blocks are free already, and an  *)
(* indirect block, which the inode already refers to.                       *)
ShrinksInode(w) ==
  /\ w.kind = "block" /\ w.value.kind = "inode" /\ home[w.file] = w.at
  /\ calculate_block_sz(w.value.size) < calculate_block_sz(InodeOf(w.file).size)

Exposes(w) ==
  w.kind = "block" /\ (w.value.kind = "indirect" \/ ShrinksInode(w))

(* A crash anywhere else leaves every block to its one owner, with what it  *)
(* is expected to hold, and every id in use marked: creating, removing,     *)
(* growing within the direct blocks and overwriting lose blocks and ids at  *)
(* worst, and never share one.                                              *)
InterruptedCallsAreSafe ==
  superblock # 0 => \/ Owned
                    \/ \E k \in DOMAIN todo : Exposes(todo[k])

(* At every moment the bit of an inode that the table knows is one, so no   *)
(* crash makes allocate_inode give out an id that is in use.                *)
IdsInUseAreMarked == superblock # 0 => TakenIdsMarked

(* What a caller of any other file sees never changes, not even between two *)
(* writes, nor on a device that lost blocks and ids to earlier crashes.     *)
FileAt(id) ==
  IF Readable(id) THEN [type |-> InodeOf(id).type, content |-> read_file(id)] ELSE Garbage

OnlyTheCalledFileChanges ==
  [][up /\ up' =>
       \A id \in InodeIds :
         (todo = <<>> \/ Head(todo).file # id) => FileAt(id)' = FileAt(id)]_crashVars

(* A superblock vouches for a device that is formatted completely: a mount  *)
(* finds the regions where they are and the metadata blocks allocated,      *)
(* whenever the process that formatted it died.                             *)
SuperblockVouches ==
  superblock # 0 =>
    /\ Reserved \subseteq used
    /\ Verified(superblock) /\ FromRaw(superblock, NBlocks) = region

(* The image once the pending writes are made.  No call makes two of them   *)
(* at one place, except that it sets the bit of a block before it writes it.*)
Pending(kind, at) == {k \in DOMAIN todo : todo[k].kind = kind /\ todo[k].at = at}

PendingValue(kind, at) == todo[CHOOSE k \in Pending(kind, at) : TRUE].value

SettledUsed ==
  {b \in Blocks : (b \in used \/ Pending("set", b) # {}) /\ Pending("clear", b) = {}}

SettledHome ==
  [id \in InodeIds |-> IF Pending("entry", id) # {} THEN PendingValue("entry", id)
                                                  ELSE home[id]]

SettledDisk ==
  [b \in DataBlocks |->
     IF Pending("block", b) # {} THEN PendingValue("block", b)
     ELSE IF Pending("clear", b) # {} THEN Stale ELSE disk[b]]

WholeCalls == INSTANCE FileOperation WITH
  used <- SettledUsed, home <- SettledHome, disk <- SettledDisk

(* Without a crash, the writes of a call amount to that call of             *)
(* FileOperation: where it leads is decided when it begins, and none of its *)
(* writes changes that.                                                     *)
UninterruptedCallsImplement ==
  [][up /\ superblock # 0 /\ ~crashed /\ ret'.op # "stop" =>
       IF todo = <<>> THEN WholeCalls!Next
                      ELSE UNCHANGED WholeCalls!vars]_crashVars
=============================================================================
