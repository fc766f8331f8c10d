# Verification of chfs

This directory holds TLA+ specifications of chfs, the single-node inode file
system of this repository, TLC configurations that check them on small
instances, and TLAPS proofs. Paths below are relative to the repository.

Contents: [inventory](#inventory), [modules](#modules),
[runs](#runs), [what the runs found](#what-the-runs-found),
[proofs](#proofs), [limits](#limits), [plan](#plan).

## Inventory

chfs is a library in layers plus a daemon. Every layer is called synchronously by
the one above it; the daemon serves the kernel's requests from one thread
(`fuse_session_loop`, `daemons/single_node_fs/main.cc:573`), and the tests are
single-threaded. So nothing inside the library interleaves. What is hard is
elsewhere: long sequences of legal calls, calls that fail half way, a device that
is full, the arithmetic between four ways to number the same thing, the death of
the process between two block writes of one call, and clients that keep an inode
id over calls of other clients.

| component | state | operations | uses | correct when |
|---|---|---|---|---|
| bitmap, `src/include/common/bitmap.h` | bytes of a buffer, also read as words | set, clear, check, counts, find first free below a bound | - | it behaves as a set of positions, whatever bound cuts a word |
| block device, `src/block/manager.cc` | an array of blocks, in memory or a mapped file | read, write, partial write, zero; an iterator over blocks | file, mmap | a block holds what was last written; a reopened file is the one that was closed |
| block allocator, `src/block/allocator.cc` | bitmap blocks on the device, bits used of the last one | allocate, deallocate, count | bitmap, device | no block has two owners, no block is lost, metadata is never handed out, exhaustion is reported exactly when it is true |
| inode manager, `src/metadata/manager.cc` | inode table and inode bitmap on the device | allocate, free, look up, count | bitmap, device | table and bitmap agree; an id leads to the block it was given |
| inode, `src/include/metadata/inode.h` | type, size, times, direct entries, one indirect entry | entry access, indirect block insertion and removal | allocator | size, entries and the indirect block agree |
| superblock and layout, `src/metadata/superblock.cc` | geometry in block 0 | flush, read back | device | the regions are disjoint, and found again on a mount |
| file operations, `src/filesystem/data_op.cc`, `control_op.cc` | none of its own | create, write, write at an offset, read, resize, remove, mount | allocator, inode manager, inode | a file holds what was written to it; a call touches one file; a failed call touches none; no block leaks |
| directory operations, `src/filesystem/directory_op.cc` | text `name:id/name:id` in a file's content | lookup, mknod, mkdir, unlink, parse | file operations | a directory names exactly the files created in it and not unlinked |
| daemon, `daemons/single_node_fs/main.cc` | the file system, the kernel's ids | a handler per FUSE request | directory and file operations | requests of several clients act on the files they mean; no request stops the daemon |
| results, error codes, logger | - | - | - | not modelled: no state |
| tests, scripts, build files, docs, libfuse | - | - | - | not part of the program; read for what they expect |

The hazards that follow from this, each at its line, are listed in `PROJECT.json`,
with the properties that are aimed at them, or the reason why none is.

## Modules

Each stateful component has an abstract specification of what it promises and a
detailed one, translated from the code, that implements it. A layer is modelled over
the *promises* of the layers below it, which those layers are shown to keep.

```
   Namespace     <-- FuseDaemon (MCFuseDaemon)    daemons/single_node_fs/main.cc
 (NamespaceProofs)        |   (FuseDaemonProofs)       + Directory     directory_op.cc
                          |  extends
   FileStore     <-- FileOperation (MCFileOperation)      data_op.cc, control_op.cc, inode.h
                          |    (FileOperationProofs)
                          ^  implemented, call by call, by
                     CrashFileOperation (MCCrash,         the same, write by write
                          |    CrashFileOperationProofs)
                          |  extends
                     Layout, BlockDevice
                                     superblock.cc, block/manager.cc, the constructors
   BlockPool     <-- BlockAllocator (BlockAllocatorProofs, Digits)   allocator.cc
   InodePool     <-- InodeManager   (InodeManagerProofs)             metadata/manager.cc
                          |  use the promise of
   BitSet        <-- Bitmap         (BitmapProofs)                   bitmap.h
```

FileOperation is written over the promises of BlockPool and InodePool.

**Bitmap** keeps the bytes (`data`). `set`, `clear` and `check` compute on a byte with
division and remainder; the search has the code's two parts, the words that do not
compare equal to all ones, then the bits behind the last whole word. The bound is cut to
the payload for the words (`refined_bits`), while the number of remaining bits is that of the
bound as it was given (`num_remaining_bits`): with a bound behind the payload the second part
may run behind it, where the assertion of `check` ends the program (`FindFirstFreeAborts`;
no caller gives such a bound). `Init` allows any
bytes, because the constructor does not touch the buffer. *BitSet* is a set of
positions, in which a search may abort only for a bound behind the payload and when no bit
is clear.

**BlockAllocator** keeps each bitmap block as its set of ones; `bitmap_block_cnt`,
`last_block_num` and the bound of each search are the code's formulas. The constructor runs
first, one round of its loops per step, on a device with any contents (`ctor` is its state):
`ZeroBlock`, then `SetReserved` with the buffer that is written back and zeroed when the next
bit is of another bitmap block, then `FlushLast`. Calls come when it is done. `owned` is a
history variable, what callers were given and have not given back; no guard reads it. *BlockPool* takes the lowest free id of a pool.
Callers here give back any data block, owned or not, and an id beyond the device; the
code would also accept a reserved id (`allocator.cc:150`), and that no caller passes one
is an invariant of the layer above (`BlockOwnership`).

**InodeManager** keeps the table by raw number and the bitmap by block and position, with
the rounding of the constructor, the one-based ids and the bound of `read_inode` and
`free_inode` as they are. `home` is history. *InodePool* maps ids to blocks, and serves
only the ids that bound lets through.

**FileOperation** keeps the allocated blocks (`used`), the table (`home`), what every data
block holds (`disk`: an inode, indirect entries, file cells, or nothing of meaning) and
whether the process lives (`up`). An action is a call with every block write it makes:
`write_file` grows (`Grown`: each new position takes the next free block, the indirect
block comes between the first position that needs it and the next), or shrinks
(`Shrunk`), then stores the content, the inode and the indirect block (`Store`). Its
failures are those of the code: an id without an inode, a content that is too large, no
free block (all free ones are taken by then and the inode is not written), a refused
deallocation. A block that was freed or never written reads as garbage: the entries of a
fresh indirect block are whatever they are. Calls may not return, for three reasons: the
unwrap of an allocation error; `remove_file`'s read into an empty buffer; and the content in
memory, which `write_file_w_off` and `resize` lengthen before `write_file` checks its size
(`data_op.cc:49`, `:382`): what a `std::vector` cannot be resized to (`Resizable`, of the
constant `Memory`) throws (`Throws`), and nothing on the way up catches it. The process dies and
`create_from_raw` mounts the device again. `ret` records the last call and its result
for the properties; no action reads it. *FileStore* is a set of files with contents, in
which a call changes the one file it names, or nothing when it fails. Files have `Usable` ids;
the two others are given out as well (`CreateUnusable`), and every call finds no file there.

**Directory** has the text of a directory: the pieces between the `/`, each a sequence of
the parts between its `:`. Names are such sequences too, so that a name that contains a
`:` is split by `parse_directory` as the code splits it. Appending, parsing, writing back
and removing by name are the functions of `directory_op.cc`.

**FuseDaemon** extends FileOperation with the directory operations and the handlers. A
directory's file holds a sequence of pieces, one cell each, so it grows and shrinks over
blocks as any file does. A handler that changes the device in one call of the file layer,
or in none, is one step, because `fuse_session_loop` serves one request after the other.
`mk_helper` and `unlink` make two calls that change it, and so are two steps with the
handler `running` between them: `mk_helper` allocates the inode, `mk_helper_names` writes
the directory with the new entry; `chfs_unlink` removes the file, `chfs_unlink_rewrites`
writes the directory without it. Every error return of each is there. In between the
clients may send (`Send`) and the process may be killed (`Killed`); no other request is
read (`Reads` needs `NoHandler`). The handler turns each result into the answer or the
death the code gives it; the device in memory dies with the process, and `bootstrap_fuse`
formats a new one and creates the root. Clients stand for processes and the kernel: a
client sends a request and waits; names are resolved by LOOKUP; an open file is the inode
id the client keeps (`held`), with a mark when that file was unlinked since, which only
the properties read. `queue` holds the requests in the order they came.

`Objects` is what clients see of all this: an inode that a create has in hand is no object
yet, and an entry whose file an unlink has removed is not seen any more (`Seen`), so a
create takes effect with its second call and an unlink with its first. *Namespace* has
objects named by ids: files with contents and directories that are sets of pairs of a name
and an id, with no text, no blocks and no order inside an operation. It says which answer
each call may have in which state. Two of its promises are as weak as the code: a create
that fails for lack of room may leave an object without a name (`CreateFails`), and the
two ids `read_inode` refuses get a name but never an object (`CreateUnusable`). `Astray`
is the third corner: an id kept over an unlink may have been given to a directory whose
mkdir failed, and a write there reaches nothing that has a name.

**Layout** has the regions of the device twice, as the constructors of `InodeManager` and
`BlockAllocator` compute them and as `create_from_raw` does from the number of inodes in
the superblock. **BlockDevice** is the life of the device file: opened with a number of
blocks the caller expects, sized when empty, otherwise checked against the default size;
closed by the destructor or the death of the process; replaced by its owner.

**CrashFileOperation** extends the three. Its state is FileOperation's, now as the file has
it at every moment, the inode bitmap apart from the table (`marked`), the superblock, and
the writes the call in progress has still to make (`todo`). A call begins by laying out
its writes in the code's order: `alloc_writes` (block bit, inode bit, inode, table entry),
`write_file_writes` (bits one by one, then the content, the inode, the indirect block),
`remove_writes` (entry, inode bit, block bits), `format_writes` (table, inode bitmap and
block bitmap zeroed block by block, reserved bits, superblock). Each kind of write is an
action of its own (`set_bit`, `clear_mark`, `set_table`, ...), and `step` makes the first
of those that are pending. The loop over the reserved bits is one pending write that turns into the
next round of itself (`set_reserved`: it collects a bit in the buffer, or first writes the
buffer to its bitmap block) and ends with the last buffer (`flush_reserved`), so that a
crash may come between two flushes. `SettledUsed`, `SettledHome` and `SettledDisk` are the
image that results once all pending writes are made. `stop` ends the process at any
moment, `open_device` and `mount` bring up the next one, which finds what was written: the mapping is shared, so the death of a process loses nothing
that it wrote (the loss of power, which may lose writes in any order, is not modelled; the
code never calls `msync`). A device whose superblock is missing is formatted; one with a
superblock is mounted and never formatted again. A device on which a crash left a file
with blocks it does not own is not followed further, it is replaced: what happens then is
what `InterruptedCallsAreSafe` names as the damage.

In every module `ret` names the call with its argument, so that an abstract action can
only stand for the call it describes: a refusal or an empty search is matched by the
abstract refusal of that same call, whose condition must hold.

The definitions marked as faulty variants stand next to the definitions they vary. They
are not used by any specification: put in the place of the original, each makes one
property fail, which shows that the property depends on that code.

## Runs

| run | instance | checks | shows |
|---|---|---|---|
| Bitmap | 2 words of 2 bytes of 2 bits, all 256 contents | TypeOK, ImplementsBitSet | no operation touches a neighbouring bit, and the search finds the lowest clear bit below every bound 0..12, whether it cuts a word, a byte or neither, or lies up to a word behind the payload |
| BlockAllocator | 11 blocks, 4 bits per bitmap block, bitmap at block 2 | TypeOK, BitmapAgrees, ImplementsBlockPool | from all 4096 former contents of the bitmap, the constructor reserves the blocks 0-4, which fill one bitmap block and reach into the next; the third is used up to 3 of 4 bits; a device that fills its last bitmap block exactly, the other case of `last_block_num`, is covered by the theorems, which hold for every geometry |
| InodeManager | 5 inodes requested, 3 bits per block, so 6 inodes; 2 blocks to store them | TypeOK, TableAgrees, ImplementsInodePool | ids of both bitmap blocks, exhaustion, ids 0 and beyond the table, freeing an id that is not taken |
| InodeManagerBound | the same | EveryIdReadable | violated, see below |
| FileOperation | 6 data blocks of one cell, 1 direct and 2 indirect entries, 4 ids | TypeOK, BlockOwnership, InodeShape, LosesBlocksOnlyOnFailure | every path of growing, shrinking and removing between lengths 0 and 3, the refusal of 4 and the death at 6 (memory holds 5), with the device full at each allocation and the inode table full |
| FileContents | 6 data blocks of two cells, 1 direct and 1 indirect entry, 4 ids of which 2 are usable | ImplementsFileStore | contents of 1 and 3 cells at offsets 0, 3 and 7 (memory holds 6): inside a block, across blocks, leaving a gap, too large for a file, too large for memory; failed and fatal calls change no file, and no call finds one under an unusable id |
| Crash | 4 data blocks of one cell, 4 ids, 1 direct and 1 indirect entry; 2 table blocks, 1 inode bitmap block, 3 block bitmap blocks of which the reserved bits use two; opened with 11, 14 and 17 blocks | CrashTypeOK, InterruptedCallsAreSafe, IdsInUseAreMarked, SuperblockVouches, MapsTheWholeFile, OnlyTheCalledFileChanges, UninterruptedCallsImplement | see below |
| FuseDaemon | 6 data blocks of two cells, 5 ids of which 3 are usable, 1 direct and 1 indirect entry; two clients, two names | DaemonTypeOK, HandlesResolve, ImplementsNamespace, KnownDeaths, EveryRequestAnswered | see below |
| FuseSetattr | that of FuseDaemon, with requests that set the mode | SetattrOnlySetsSize | violated, see below |
| FileRemoveIndirect, FileCreateFull, FileWriteLeak | 5 data blocks | RemoveSurvives, CreateReportsErrors, EmptyMeansFree | violated, see below |

**Crash** asks what a process finds that mounts a device on which others died.
`InterruptedCallsAreSafe`: every block has its one owner and holds what is expected of it
unless one of two writes was still to be made, the inode of a file that shrinks (its
blocks are free before the inode stops referring to them) or an indirect block (the inode
refers to it before it is written). Those two are damage the code really leaves; creating,
removing, overwriting and growing within the direct blocks lose blocks and ids at worst,
also on a device that lost some before. `IdsInUseAreMarked` is why an id is not given out
twice after a crash between the bit and the table entry. `OnlyTheCalledFileChanges` says
that another file's content is the same after every single write, not only after every
call. `SuperblockVouches`: the format writes the superblock last, so whatever moment it
dies at, a device with a superblock is completely formatted, and a mount computes its
regions. `UninterruptedCallsImplement` closes the gap to FileOperation: without a crash,
the writes of each call amount to that call: the settled image makes the call's step when
the call begins, and no write changes it.

**FuseDaemon** asks whether the parts an operation is made of ever show. A create
and an unlink are two steps there, with an inode without a name, or a name without an inode,
between them. The refinement of
Namespace says that nobody sees it: whatever fails on the way, the clients see a create, an unlink, a
failure that changes nothing with a name, or the daemon's death. `HandlesResolve`: as long
as an open file is not unlinked, its id is a file that exactly one name leads to, although
ids are given out again at once and without a generation. `KnownDeaths` lists what the
daemon dies of: a create on a full device, removing a file with an indirect block, a write
to an unlinked file, a write or a truncation that makes a content memory cannot hold, an
unimplemented handler, a signal. The unwrap in readdir and the abort in
write are reached in no other way.

**Bounds.** Bit, byte, word and block widths are constants. The instances take the
smallest widths for which each formula's cases differ: more than one unit at each level,
a last unit that is full and one that is not. `NDirect = 1` and `NIndirect = 2` give
files with no, one and several positions on each side of the boundary; a file of the
greatest length needs five blocks, so six leave room for a second inode or a block and
the device fills at every point of a growth. With `MaxInodes = 4` the bound of
`read_inode` leaves two usable ids and the table can fill. In FileOperation a cell has
one value, because that run is about where blocks go; in FileContents a cell has two.

In Crash a cell has one value, and files have up to two blocks, so an indirect block comes
and goes; with four data blocks one file with an indirect block or two without fill the
device, and blocks lost to crashes fill it sooner. The number of crashes is not bounded. Of the
numbers of blocks, 11 is the default, 14 gives a file that cannot be opened again, and 17 one
whose size overflows `usize` (64 here). The table of four ids does not fill there; it does
in FileOperation. In FuseDaemon only one client (`Openers`) keeps its file
open, the other one closes it at once; one offset behind the first block and one content
give files without, with one and with two blocks, and five ids leave three usable ones beside
the two that `read_inode` refuses: the root and two more objects exist together, and then the
unusable ids are given out. Names are taken without a `:`. No run has a state constraint.

`Memory` lies between the largest file and the largest size asked for, so that each run has sizes a file
holds, sizes it refuses, and sizes that memory cannot hold: in cells, 5 for files of 3 in
FileOperation, 6 for files of 4 in FileContents and FuseDaemon, 3 for files of 2 in Crash.

`MCView` leaves `ret` out of the fingerprint in the two passing FileOperation runs, in
Crash and in FuseDaemon. No action and no invariant of these runs reads the current `ret`, and the step properties look at
the next one, which belongs to the step that is being checked; states that differ in
`ret` alone have the same successors. (Of a step of FuseDaemon that changes nothing else, whether
it stutters for Namespace depends on the current `ret` too; the theorem of
FuseDaemonProofs covers every `ret`.) The runs that expect a violation of an invariant
about `ret` use no view.

**Deadlock** is checked in every run but Bitmap: there is always a call to make, or a mount.
In Bitmap the program ends when the assertion of `check` fails.

**Fairness and liveness.** The library has none to state: a call runs to its end in the
caller's thread, and no caller is obliged to make a further call. The daemon has:
`fuse_session_loop` (`main.cc:573`) takes the next request whenever there is one and runs
its handler to the end. `DaemonSpec` therefore assumes weak fairness of the step that takes
the head of the queue, and of nothing else: clients need not send, and the daemon need not
be started or killed. The fairness is stated of the queue, not of the handlers' actions. That
the code justifies it rests on the handlers: none waits for anything, and each
has a case for every state of the device, so a request that was read is dealt with. What is not
assumed is that a client whose request left the queue has an answer: an ending of a handler
without `fuse_reply` takes the request from the queue and leaves its client waiting.
(Fairness of the handlers' actions themselves is no stronger: `Unimplemented` makes them
enabled for some request in every state, and TLC evaluates `ENABLED` of the whole daemon
too slowly for it.) `EveryRequestAnswered` is what follows: no path through a handler
forgets its answer, and none leaves the loop with requests unanswered except by dying,
which the kernel reports to the clients.

## What the runs found

* `EveryIdReadable`: `read_inode` and `free_inode` refuse `id >= max_inode_supported - 1`
  (`src/metadata/manager.cc:207`, `:231`), while ids are one-based. The two largest ids
  are given out and can be neither read nor freed. `create_and_getattr_test.cc:29-33`
  expects every id that was given out to have a type.
* `RemoveSurvives`: `remove_file` reads the indirect block into an empty vector
  (`src/filesystem/control_op.cc:74`). Removing a file that has one kills the process.
  The files of `remove_test.cc` have none.
* `CreateReportsErrors`: `alloc_inode` unwraps the result of `allocate()` unchecked
  (`src/filesystem/data_op.cc:18`): a full device throws, where the callers look at the
  result for an error.
* `EmptyMeansFree`: a growing `write_file` that runs out of blocks keeps those it took
  (`src/filesystem/data_op.cc:115`); after every file is removed they are still
  allocated, where `remove_test.cc:59-60` expects the free count it started with.
* `SetattrOnlySetsSize`: `chfs_setattr` resizes to `attr->st_size` whatever `to_set` says
  (`daemons/single_node_fs/main.cc:326`). The kernel leaves the size zero in a request that
  sets something else, so a chmod of a file, or of a directory, empties it. The comment at
  `main.cc:312` asks for the bit `FUSE_SET_ATTR_SIZE`, "which indicates that the size of
  the file should be changed".

`LosesBlocksOnlyOnFailure` says how far `EmptyMeansFree` goes: only a call that reports a
failure loses blocks. This includes `alloc_inode` with a full inode table, which
allocates the block first.

## Proofs

Theorems hold for every value of the constants that the named assumptions allow:
`BitmapGeometry` in Bitmap; `GeometryAssumption` and `ConstructorVerifies` in BlockAllocator
(the second is the check the constructor makes before it touches the device);
`ArgumentsAssumption` in InodeManager; `BlockSizeAssumption` in Layout; `DeviceAssumption` in
BlockDevice (the width of `usize` is a multiple of the block size); `LayoutAssumption` in
FileOperation (sizes are numbers, and those that are divided by are not zero) and
`MemoryAssumption` (memory holds the largest file);
`FormatAssumption` in CrashFileOperation (the device has the regions the constructor computes
for it); `DaemonAssumption` and `TextAssumption` in FuseDaemon (the device has room for the root,
and a cell can hold what the daemon writes into a directory).

* **Digits** has the arithmetic these proofs rest on: a number is a block and a position in
  exactly one way (`DivMod`, `UniqueDigits`), and block-major order is the order of
  numbers (`DigitOrder`), so the first free position of the first bitmap block that has
  one is the lowest free id.
* **BlockAllocatorProofs**: `TypeCorrect`, `Agreement` and `Refinement`. `TypeOK` is not
  inductive: that `allocate` returns a data block needs the bits of the reserved blocks
  to be one, and giving back needs the address of a bit to be unique. The inductive
  invariant is `TypeOK /\ Loop /\ BitmapAgrees`. `Loop` is of the constructor: the buffer has
  the bits of the current bitmap block that come before `i`, and of the zeroed bitmap blocks
  those before the current one are full and the others empty (`Filled`). A round moves on only from a
  full bitmap block, and the last flush writes the reserved bits of the last one, so each bit is then
  equivalent to "reserved or owned", whatever the device held (`SetReservedIInv`, `FlushLastIInv`).
  From there on a bitmap block's clear bits below its bound are the free ids of
  that block. For the count, the clear bits and the free ids are shown to be in
  bijection. `Refinement` maps `Allocate` to `Take`, its failure to `Exhausted`, a
  deallocation to `GiveBack`, a refused one to `Refuse`.
* **InodeManagerProofs**: the same three for the table and the bitmap of inodes;
  `TypeOK /\ TableAgrees` is inductive. `Refinement` needs it to conclude that an id
  with a clear bit has no block, so that giving it out again takes it from nobody.
* **BitmapProofs**: `TypeCorrect` and `Refinement`, for every number of bytes and every width
  of a byte and of a word. Powers of two are taken as the numbers of subsets (`PowerSum`,
  from the library's fact on `SUBSET`), because a definition by recursion cannot be expanded
  for every exponent. A bit of a byte is a quotient's remainder; adding the weight of a clear
  bit, or taking away that of a set one, leaves every other bit and stays below the next
  power (`AddWeight`, `RemoveWeight`), so no operation carries into the next byte. A word
  that the search skips has no clear bit, the word it stops at has one, and the
  positions behind the last whole word of a bound that cuts one are looked at bit by
  bit: together the result is the lowest clear position below the bound. For a bound behind
  the payload the whole words are the payload, so the assertion fails only where the set
  has no clear position (`SearchedEnds`).
* **FileOperationProofs**: `TypeCorrect`, `Ownership`, `Shape` and `NoLeak`. None of the three
  invariants is inductive alone. That a new block has no owner needs only that owned blocks are
  allocated; but that a block given back is the file's, and is not given back twice, needs the
  inode's entries below its size to be distinct blocks (`BlockOwnership`) and the entries
  behind it to be empty (`InodeShape`); and that the entries of a file are entries at all needs
  its block to hold an inode and the indirect block to hold entries (`TypeOK`). `IInv` is their
  conjunction. The free blocks in ascending order are the numbering that a growing file
  draws from: `NthFree` is a bijection between `1 .. Cardinality(Free)` and `Free`
  (`Ranks`), so different positions get different blocks that nobody owns. A deallocation
  of a file's surplus is never refused (`Refused` is empty), which is where the ownership
  invariant comes from. Each call preserves `IInv` by way of one lemma on what `Store` leaves:
  the file it writes has its new entries, and any other file what it had.
* **FileOperationProofs**, of FileStore: `Refinement`, that every call is FileStore's call of the same arguments:
  reading after writing gives the content back, cell by cell, also of a partly filled last
  block; the read of any other file is unchanged; a call that fails, or that the process does
  not survive, changes no file. It holds for every device and table. The two ids `read_inode`
  refuses (see EveryIdReadable) are part of the promise: when one of them is the lowest free id it
  is given out, no file appears, and every call with it is told that there is none. The daemon's own
  device can get there: 16384 blocks of 1024 bytes, and 1024 inodes requested, which one
  bitmap block rounds up to 8192 ids (`consts.h:25-28`, `main.cc:552-554`), so there are more
  blocks for inodes than ids.

* **CrashFileOperationProofs**, of Layout: `FoundAgain`, that a mount accepts what a format wrote and computes the
  same regions; `RegionsPartitionDevice`, that on every device the constructors accept the
  regions cover it and share no block; `RegionsAreLargeEnough`, that every address
  `set_table`, `allocate_inode` and `deallocate` compute lies in its region;
  `IteratorStaysOnDevice`, that the block `BlockIterator` reads behind the inode bitmap is
  the first of the block bitmap. They rest on two facts about rounding up
  (`NeededIsEnough`, `BitmapIsEnough`) and one about quotients (`FirstDigitBelow`). These
  are what FileOperation and CrashFileOperation assume when they take the reserved blocks
  as an initial interval.
* **CrashFileOperationProofs**, of BlockDevice: `DeviceMapsTheWholeFile`. The invariant alone is not inductive: the
  division that counts the blocks of an existing file loses none only because the file
  consists of whole blocks, also when its size overflowed (`SizeOfWholeBlocks`), which
  `DeviceInv` adds.
* **CrashFileOperationProofs**: `CrashTypeCorrect`, `CrashesExposeOnly`, `TakenIdsAreMarked`,
  `SuperblockIsLast`, `OthersUntouched` and `WritesAmountToCalls`, after any number of calls,
  crashes, mounts and formats. The invariant
  `CrashInv` speaks of two images: the device as it is, and the device as the pending writes
  will leave it (the settled image). The settled image has `IInv` of FileOperationProofs, cited
  from there for the settled variables: a write of the call in progress does not change it
  (`StepSettles`), and where a call that begins leads to is what FileOperation makes of it,
  which that module shows to be sound. The image as it is has `IInv` too, up to the last
  pending write: each write before it is to a block no file has, or overwrites contents
  with contents, or frees a block the table has forgotten before (`Harmless`). Where that is not
  so, the last write is one that `Exposes` (`LastExposes`), so it stays pending as long as
  the call lasts, which is what `InterruptedCallsAreSafe` allows for. The bits of
  inodes need the order within a call as well: the entry is cleared before the bit, and set
  after it (`MarksKept`). On a device without a superblock every pending write is one of the
  format, in its order, and each reserved bit that the loop has passed is on the device or in the buffer of the bitmap
  block it collects (`Collected`), all zeroing being done before the first
  (`Formatting`); the superblock is the last write. A mount starts from `Sound`, which
  `OwnedIsSound` turns into `IInv`: that the shape of inodes holds then, though the mount
  does not check it, is because no write ever put a misshapen inode on the device
  (`InodesShaped`, said of all blocks). The regions rest on `FoundAgain` and the fact that they
  cover the device.

  `OthersUntouched` needs that the pending writes belong to one file, each block of them
  to that file's blocks in the settled image (`MadeForOne`): the settled image lets no two
  files share a block, and every other file has settled already (`OthersHaveSettled`), so
  its table entry, inode, entries and contents are what the settled image has.
  `WritesAmountToCalls` is the refinement of FileOperation under the settled variables. A
  write leaves them as they are (`StepSettles`), so it is a stutter; a call that begins
  moves them to the outcome FileOperation computes for it (`CreateWorks`, `WriteWorks`,
  `RemoveWorks`). The one thing to add is that `create` takes the lowest id whose *bit* is
  clear, and FileOperation the lowest without an *entry*. They agree as long as no crash has
  hit the device: the ids that will be marked are those that will be in use (`MarksExact`),
  and a process that ended has nothing pending (`Undisturbed`), which with `CrashInv` is
  inductive. After a crash it is false, for an id can be marked and have no entry; then
  only what the other theorems say holds. TLC has checked `CrashInv` and `Undisturbed` on
  the instance of the run Crash.

* **NamespaceProofs**: `NamesAreUnique` and `NamesAreKept`, of the promise of the mounted file
  system. An id is given out again as soon as its file is unlinked, and nothing
  in the code counts names: that unlinking one name cannot pull the file away from under another rests on
  two things Namespace promises of the handlers, that a new id is mentioned by no
  directory, and that an id and its entry go in one step. The
  inductive invariant `NameInv` is `OneNamePerId` and the shape of objects and entries.
  `NamesAreKept` assumes `NoObjectIsNone`, that the value for "no object" is no object's
  record; FuseDaemon's is `Stale`, of which it is shown.

* **FuseDaemonProofs**: `DaemonTypeCorrect`, `OpenFilesResolve`, `DeathsAreKnown` and
  `DaemonImplementsNamespace`, for every device, inode table, number of clients, set of names
  and contents; and, by way of the last and of NamespaceProofs, `DaemonNamesAreUnique` and
  `DaemonNamesAreKept`, the two promises of Namespace as properties of the daemon.

  The argument has three layers. (1) What the code does with text: a directory's entries are
  the pieces with a `:` (`EntriesOfText`); appending adds one entry (`Appended`); rewriting
  takes the entries of a name out and makes the text no longer (`RewrittenText`). (2) What
  each call does to what clients can read, `VisibleFiles` of FileOperationProofs, and to the ids in
  use (`DeviceCreated`, `DeviceWritten`, `DeviceRemoved`, cited from there), and from it what
  each handler does (`LookupEffect`, `CreateEffect`, `NameEffect`, `UnlinkEffect`, ...), with
  `ShorterFits`: a content that is no longer than the old one always has room, so the
  rewrite of a directory by unlink cannot fail. These hold for any names and contents, and give
  `DaemonTypeCorrect`. (3) The names. `NamesIInv` is inductive:
    - `FilesInv`: the root is a directory, and what is there is a file or a directory of an id in use;
    - `TreeInv`: entries have ids in use, no two share an id, a directory has a name once,
      nothing names the root, and a directory that nothing leads to has no entry;
    - `HandlerInv`: a handler between its calls has a directory that can be reached and does not
      have the name; what a create has in hand is empty and has no name, and the id an unlink has in hand is free;
    - `HeldInv`: an open file that is not unlinked is a file with a name, and an open id that came
      back as a directory's is not reached.

  None of the three invariants of the runs is inductive without it. The last part of `TreeInv`
  is needed because a failed mkdir leaves an empty directory, whose id a client may hold and
  write to: what it writes must not become entries. `HandlesResolve` follows from
  `TreeInv` and `HeldInv` (`NamesResolve`); `KnownDeaths` from the outcomes of the handlers and
  `HeldInv`. For the refinement each step is matched (`CreateAbstract`,
  `NamingAbstract`, ..., `DaemonNextAbstract`): the first call of a create and the second
  of an unlink are stutters, because `Objects` leaves out the new inode
  (`HiddenObject`) and the entry (`RewrittenObjects`).

  All of these but `DaemonTypeCorrect` assume `PlainUse`: names have no `:`, what clients write to
  files does not contain pieces that read like entries (`PlainText`, which TLC evaluates for the
  instance of the runs, `PlainInstance`), and no attribute but the size is set (`Masks`
  within `{"SIZE"}`, as in the run FuseDaemon). None can be dropped. With names that have a `:`, or
  with a chmod of a directory, the properties fail in the code (see Limits, and
  SetattrOnlySetsSize). What clients write matters because a stale id may come to
  be a directory's: text written there would be entries, of which Namespace knows nothing.
  TLC has checked the conjunction of `DaemonInv` on the instance of the run before it was proved.

Only model-checked: liveness (`EveryRequestAnswered`), because fairness is stated with
`ENABLED`, which is out of the provers' reach, and the behaviours that the five runs
with a violation show. Nothing is proved of `string_to_inode_id` and of the parsing of characters beyond what Directory has of them:
its texts are sequences of pieces, so the splitting itself is in the representation.

## Limits

* A call of FileOperation is one step, and a handler of FuseDaemon one or two; the process dies
  between two block writes in CrashFileOperation only, which has no directories. A crash
  inside mkdir or unlink matters only on a device file, and the daemon uses none.
* What a mount of an unsound or unformatted device does is not followed: `create_from_raw`
  checks nothing but that the number of inodes fills whole bitmap blocks, so it also
  accepts a device without a superblock, with zero inodes.
* Names that contain a `:` are outside the passing runs. `mknod` accepts them, and
  `parse_directory` lists such an entry under the part before the first `:`, with the number
  behind it as the id: with the names `x` and `x:2`, ImplementsNamespace and HandlesResolve
  fail. No document of the repository says that such names work (`directory_op.h:23` warns
  of `/` only), so this is no finding. The kernel allows no `/` in a name.
* `src/include/block/manager.h:51-53` says that the manager adjusts its number of blocks to
  those of the device file. It takes the number from the file, and then asserts the default
  size (`src/block/manager.cc:65`): a file made with another number of blocks, also by this
  constructor, cannot be opened again. BlockDevice has the assertion, and the run Crash meets it
  with 14 blocks; no run states the comment as a property.
* Each block write is one step, in CrashFileOperation too. `write_block` is a `memcpy` into
  the mapping, and a process that is killed within it leaves a block of which a part is new.
* `Memory` is one threshold. When the resizing of a vector really fails depends on the machine and on
  what else is in memory; the theorems hold for every threshold that the largest file fits under. The sum
  `offset + sz` is not reduced modulo 2^64: offsets of the kernel are below 2^63 and sizes of a
  write far smaller.
* `set`, `clear`, `check` and the counts of a bitmap are used within its payload. Their
  assertions are not reached by any caller; that of `check` is modelled where the search runs into it.
* The block device never returns an error, so the handling of its errors is left out. It
  does not check ids either; that none is out of range is part of `BlockOwnership`.
* The width of ids and sizes (32- and 64-bit words) is left out where the values are
  bounded by the number of blocks. The one product that can exceed its type is the
  device's total size, which BlockDevice takes modulo the width of `usize` (32 bits, so a device of
  4 GiB overflows it). A process that makes such a file counts more blocks than the file has;
  `MapsTheWholeFile` says nothing of it until the file is opened again, and writes behind
  the end of the file are undefined and not modelled.
  `get(0)`, which wraps around, is modelled by where the address it computes leads: a word of the
  superblock that is never written.
* Timestamps, access modes, logging and the printing of errors are left out.
* The memory of an in-memory device and of a deleted block is not zeroed by the code;
  the models let it hold garbage that is no valid block and no cell.

## Plan

1. Names that contain a `:`: what Namespace would have to promise of them, which is less than
   it does, as a second abstract specification.
2. BlockIterator as a module of its own, for the writes through it that
   `test/block/manager_test.cc:93` makes.
