---------------------- MODULE CrashFileOperationProofs ----------------------
(***************************************************************************)
(* What a crash between any two block writes leaves on the device, for     *)
(* every device, proved; and before it what the layout promises, for every *)
(* block size, number of inodes and size of the device, and that a device  *)
(* is the whole of its file, for every block size, default size and width  *)
(* of usize, and whatever numbers of blocks the processes expect.          *)
(*                                                                         *)
(* The invariant, CrashInv, speaks of the image as it is and of the image  *)
(* as the pending writes will leave it.  The latter, the settled image,    *)
(* has the invariant of FileOperationProofs at every moment (W!IInv): it   *)
(* changes when a call begins, and is then the outcome FileOperation has   *)
(* for the call, and no write of the call changes it.  The former has      *)
(* sound files too, until the last write of the call is reached            *)
(* (Harmless), unless that is one of the writes that a crash must not      *)
(* prevent (LastExposes).                                                  *)
(*                                                                         *)
(* All pending writes belong to one file (MadeForOne), so a caller of      *)
(* another one sees none of them.  As long as no crash has hit the device, *)
(* ids in use and marked ids are the same (Undisturbed), so a call begins  *)
(* as the call of FileOperation does that it amounts to.                   *)
(***************************************************************************)
EXTENDS CrashFileOperation, FileOperationProofs, Digits

-----------------------------------------------------------------------------
(* Rounding up leaves room for everything that is counted.                  *)

(* An index below a product has its first digit below the first factor. *)
LEMMA FirstDigitBelow ==
  ASSUME NEW per \in Nat \ {0}, NEW m \in Nat, NEW k \in Nat, k < m * per
  PROVE  k \div per \in 0 .. m - 1
<1> DEFINE q == k \div per
<1>1. q \in Nat /\ k % per \in 0 .. per - 1 /\ k = q * per + (k % per)
  BY DivMod
<1> HIDE DEF q
<1>2. SUFFICES ASSUME m <= q PROVE FALSE
  BY <1>1 DEF q
<1>3. m * per <= q * per
  BY <1>1, <1>2
<1>4. m * per \in Nat /\ q * per \in Nat
  BY <1>1
<1>5. m * per <= k
  BY <1>1, <1>3, <1>4
<1>6. QED
  BY <1>4, <1>5

(* The blocks that the inode manager counts for n entries hold them all. *)
LEMMA NeededIsEnough ==
  ASSUME NEW n \in Nat, NEW per \in Nat \ {0}
  PROVE  /\ Needed(n, per) \in Nat
         /\ n <= Needed(n, per) * per
<1> DEFINE q == n \div per
           r == n % per
<1>1. q \in Nat /\ r \in 0 .. per - 1 /\ n = q * per + r
  BY DivMod
<1>2. Needed(n, per) = IF q * per < n THEN q + 1 ELSE q
  BY DEF Needed
<1> HIDE DEF q, r
<1>3. (q + 1) * per = q * per + per /\ q * per \in Nat
  BY <1>1
<1>4. QED
  BY <1>1, <1>2, <1>3

(* So do the blocks the allocator counts for the bits of all blocks. *)
LEMMA BitmapIsEnough ==
  ASSUME NEW total \in Nat
  PROVE  /\ total_bitmap_block(total) \in Nat
         /\ total <= total_bitmap_block(total) * BitsPerBlock
<1> DEFINE q == total \div BitsPerBlock
           r == total % BitsPerBlock
<1>1. q \in Nat /\ r \in 0 .. BitsPerBlock - 1 /\ total = q * BitsPerBlock + r
  BY DivMod, BlockSizeAssumption
<1>2. total_bitmap_block(total) = IF r # 0 THEN q + 1 ELSE q
  BY DEF total_bitmap_block
<1> HIDE DEF q, r
<1>3. (q + 1) * BitsPerBlock = q * BitsPerBlock + BitsPerBlock
      /\ q * BitsPerBlock \in Nat
  BY <1>1, BlockSizeAssumption
<1>4. QED
  BY <1>1, <1>2, <1>3, BlockSizeAssumption

(* The sizes of the regions are numbers. *)
LEMMA Sizes ==
  ASSUME NEW requested \in Nat
  PROVE  /\ n_bitmap_blocks(requested) \in Nat
         /\ max_inode_supported(requested) \in Nat
         /\ n_table_blocks(max_inode_supported(requested)) \in Nat
<1>1. n_bitmap_blocks(requested) \in Nat
  BY NeededIsEnough, BlockSizeAssumption DEF n_bitmap_blocks
<1>2. max_inode_supported(requested) \in Nat
  BY <1>1, BlockSizeAssumption DEF max_inode_supported
<1>3. n_table_blocks(max_inode_supported(requested)) \in Nat
  BY <1>2, NeededIsEnough, BlockSizeAssumption DEF n_table_blocks
<1>4. QED
  BY <1>1, <1>2, <1>3

-----------------------------------------------------------------------------
(* create_from_raw, which knows of the layout only the number of inodes in  *)
(* the superblock and the size of the device, accepts every device that was *)
(* formatted, and computes the regions the format used.                     *)
THEOREM FoundAgain ==
  ASSUME NEW requested \in Nat, NEW total \in Nat
  PROVE  /\ Verified(max_inode_supported(requested))
         /\ FromRaw(max_inode_supported(requested), total)
              = Formatted(requested, total)
<1> DEFINE n == n_bitmap_blocks(requested)
           m == n * BitsPerBlock
<1>1. n \in Nat /\ m \in Nat /\ max_inode_supported(requested) = m
  BY Sizes DEF max_inode_supported
<1>2. m \div BitsPerBlock = n
  <2>1. /\ m \div BitsPerBlock \in Nat /\ m % BitsPerBlock \in 0 .. BitsPerBlock - 1
        /\ m = (m \div BitsPerBlock) * BitsPerBlock + (m % BitsPerBlock)
    BY <1>1, DivMod, BlockSizeAssumption
  <2>2. 0 \in 0 .. BitsPerBlock - 1 /\ m = n * BitsPerBlock + 0
    BY <1>1, BlockSizeAssumption
  <2> HIDE DEF m
  <2>3. QED
    BY <1>1, <2>1, <2>2, UniqueDigits, BlockSizeAssumption
<1>3. QED
  BY <1>1, <1>2 DEF Verified, FromRaw, Formatted

(* On a device that the constructors accept, the five regions cover every   *)
(* block and share none: the metadata blocks never reach one another, nor   *)
(* the data blocks.                                                         *)
THEOREM RegionsPartitionDevice ==
  ASSUME NEW requested \in Nat, NEW total \in Nat, Fits(requested, total)
  PROVE  /\ UNION {Formatted(requested, total)[name] : name \in RegionNames}
              = 0 .. total - 1
         /\ \A a, b \in RegionNames :
              a # b => Formatted(requested, total)[a]
                         \cap Formatted(requested, total)[b] = {}
<1> DEFINE t == n_table_blocks(max_inode_supported(requested))
           i == n_bitmap_blocks(requested)
           d == 1 + t + i + total_bitmap_block(total)
           R == Formatted(requested, total)
<1>1. /\ t \in Nat /\ i \in Nat /\ total_bitmap_block(total) \in Nat
      /\ d <= total
  BY Sizes, BitmapIsEnough DEF Fits, get_reserved_blocks
<1>2. /\ R.superblock = {0} /\ R.table = 1 .. t /\ R.inodeBitmap = 1 + t .. t + i
      /\ R.blockBitmap = 1 + t + i .. d - 1 /\ R.data = d .. total - 1
  BY <1>1 DEF Formatted, Regions, get_reserved_blocks
<1> HIDE DEF t, i, R
<1>3. \A x : (\E name \in RegionNames : x \in R[name]) <=> x \in 0 .. total - 1
  <2>1. \A x : (\E name \in RegionNames : x \in R[name])
                 <=> \/ x \in {0} \/ x \in 1 .. t \/ x \in 1 + t .. t + i
                     \/ x \in 1 + t + i .. d - 1 \/ x \in d .. total - 1
    BY <1>2 DEF RegionNames
  <2>2. QED
    BY <1>1, <2>1
<1>4. UNION {R[name] : name \in RegionNames} = 0 .. total - 1
  BY <1>3
<1>5. ASSUME NEW a \in RegionNames, NEW b \in RegionNames, a # b
      PROVE  R[a] \cap R[b] = {}
  <2> SUFFICES ASSUME NEW x \in R[a], x \in R[b] PROVE FALSE
    OBVIOUS
  <2>1. x \in Nat
    BY <1>3
  <2>2. \/ a = "superblock" /\ x = 0
        \/ a = "table" /\ 1 <= x /\ x <= t
        \/ a = "inodeBitmap" /\ 1 + t <= x /\ x <= t + i
        \/ a = "blockBitmap" /\ 1 + t + i <= x /\ x <= d - 1
        \/ a = "data" /\ d <= x
    BY <1>1, <1>2 DEF RegionNames
  <2>3. \/ b = "superblock" /\ x = 0
        \/ b = "table" /\ 1 <= x /\ x <= t
        \/ b = "inodeBitmap" /\ 1 + t <= x /\ x <= t + i
        \/ b = "blockBitmap" /\ 1 + t + i <= x /\ x <= d - 1
        \/ b = "data" /\ d <= x
    BY <1>1, <1>2 DEF RegionNames
  <2>4. d = 1 + t + i + total_bitmap_block(total)
    OBVIOUS
  <2> HIDE DEF d
  <2>5. QED
    BY <1>1, <1>5, <2>1, <2>2, <2>3, <2>4
<1>6. QED
  BY <1>4, <1>5 DEF R

(* Each region has room for what is looked up in it: set_table and get find *)
(* the entry of every inode in the table, allocate_inode and free_inode its *)
(* bit in the inode bitmap, allocate and deallocate the bit of every block  *)
(* in the block bitmap.                                                     *)
THEOREM RegionsAreLargeEnough ==
  ASSUME NEW requested \in Nat, NEW total \in Nat
  PROVE  /\ requested <= max_inode_supported(requested)
         /\ \A idx \in 0 .. max_inode_supported(requested) - 1 :
              /\ 1 + idx \div EntriesPerBlock \in Formatted(requested, total).table
              /\ 1 + n_table_blocks(max_inode_supported(requested))
                   + idx \div BitsPerBlock
                   \in Formatted(requested, total).inodeBitmap
         /\ \A b \in 0 .. total - 1 :
              get_reserved_blocks(max_inode_supported(requested),
                                  n_bitmap_blocks(requested))
                + b \div BitsPerBlock \in Formatted(requested, total).blockBitmap
<1> DEFINE m == max_inode_supported(requested)
           t == n_table_blocks(m)
           i == n_bitmap_blocks(requested)
           c == total_bitmap_block(total)
<1>1. /\ t \in Nat /\ i \in Nat /\ c \in Nat /\ m \in Nat
      /\ m = i * BitsPerBlock /\ m <= t * EntriesPerBlock
      /\ total <= c * BitsPerBlock
  BY Sizes, BitmapIsEnough, NeededIsEnough, BlockSizeAssumption
     DEF max_inode_supported, n_table_blocks
<1>2. requested <= m
  BY NeededIsEnough, BlockSizeAssumption DEF max_inode_supported, n_bitmap_blocks
<1>3. /\ Formatted(requested, total).table = 1 .. t
      /\ Formatted(requested, total).inodeBitmap = 1 + t .. t + i
      /\ Formatted(requested, total).blockBitmap = 1 + t + i .. t + i + c
  BY <1>1 DEF Formatted, Regions, get_reserved_blocks
<1>4. get_reserved_blocks(m, i) = 1 + t + i
  BY DEF get_reserved_blocks
<1> HIDE DEF m, t, i, c
<1>5. ASSUME NEW idx \in 0 .. m - 1
      PROVE  /\ idx \div EntriesPerBlock \in 0 .. t - 1
             /\ idx \div BitsPerBlock \in 0 .. i - 1
  <2>1. idx \in Nat /\ idx < m /\ t * EntriesPerBlock \in Nat
    BY <1>1, BlockSizeAssumption
  <2>2. idx < t * EntriesPerBlock /\ idx < i * BitsPerBlock
    BY <1>1, <2>1
  <2>3. QED
    BY <1>1, <2>1, <2>2, FirstDigitBelow, BlockSizeAssumption
<1>6. ASSUME NEW b \in 0 .. total - 1
      PROVE  b \div BitsPerBlock \in 0 .. c - 1
  <2>1. b \in Nat /\ b < c * BitsPerBlock /\ c * BitsPerBlock \in Nat
    BY <1>1, BlockSizeAssumption
  <2>2. QED
    BY <1>1, <2>1, FirstDigitBelow, BlockSizeAssumption
<1>7. \A idx \in 0 .. m - 1 :
        /\ 1 + idx \div EntriesPerBlock \in 1 .. t
        /\ 1 + t + idx \div BitsPerBlock \in 1 + t .. t + i
  BY <1>1, <1>5
<1>8. \A b \in 0 .. total - 1 : 1 + t + i + b \div BitsPerBlock \in 1 + t + i .. t + i + c
  BY <1>1, <1>6
<1>9. QED
  BY <1>2, <1>3, <1>4, <1>7, <1>8 DEF m, t, i

(* The iterator over the inode bitmap reads the block behind its last one   *)
(* as well when it comes to the end.  That block is the first one of the    *)
(* block bitmap, so it is on the device.                                    *)
THEOREM IteratorStaysOnDevice ==
  ASSUME NEW requested \in Nat, NEW total \in Nat, Fits(requested, total)
  PROVE  get_reserved_blocks(max_inode_supported(requested),
                             n_bitmap_blocks(requested))
           \in Formatted(requested, total).blockBitmap \cap 0 .. total - 1
<1> DEFINE t == n_table_blocks(max_inode_supported(requested))
           i == n_bitmap_blocks(requested)
           c == total_bitmap_block(total)
<1>1. t \in Nat /\ i \in Nat /\ c \in Nat
  BY Sizes, BitmapIsEnough
<1>2. c > 0 /\ c + (1 + t + i) <= total
  BY DEF Fits, get_reserved_blocks
<1>3. Formatted(requested, total).blockBitmap = 1 + t + i .. 1 + t + i + c - 1
  BY <1>1 DEF Formatted, Regions, get_reserved_blocks
<1>4. QED
  BY <1>1, <1>2, <1>3 DEF get_reserved_blocks

-----------------------------------------------------------------------------
(* The file behind the device.  MapsTheWholeFile is inductive once it is    *)
(* known that the file consists of whole blocks.                            *)


WholeBlocks == \E n \in Nat : file_sz = n * BlockSz

DeviceInv ==
  /\ block_cnt \in Nat /\ mapped \in BOOLEAN
  /\ WholeBlocks
  /\ MapsTheWholeFile

(* Also a size that overflowed is one of whole blocks. *)
LEMMA SizeOfWholeBlocks ==
  ASSUME NEW cnt \in Nat
  PROVE  \E n \in Nat : total_storage_sz(cnt) = n * BlockSz
<1> DEFINE a == cnt * BlockSz
           q == a \div Usize
           r == a % Usize
           w == Usize \div BlockSz
<1>1. a \in Nat
  BY DeviceAssumption
<1>2. q \in Nat /\ r \in 0 .. Usize - 1 /\ a = q * Usize + r
  BY <1>1, DivMod, DeviceAssumption
<1>3. w \in Nat /\ Usize = w * BlockSz
  <2>1. w \in Nat /\ Usize = w * BlockSz + (Usize % BlockSz)
    BY DivMod, DeviceAssumption
  <2> HIDE DEF w
  <2>2. w * BlockSz \in Nat /\ Usize % BlockSz = 0
    BY <2>1, DeviceAssumption
  <2>3. QED
    BY <2>1, <2>2
<1> HIDE DEF q, r, w
<1>4. r = (cnt - q * w) * BlockSz
  <2>1. q * Usize = (q * w) * BlockSz /\ q * w \in Nat
    BY <1>2, <1>3, DeviceAssumption
  <2>2. (cnt - q * w) * BlockSz = cnt * BlockSz - (q * w) * BlockSz
    BY <2>1, DeviceAssumption
  <2>3. cnt * BlockSz = (q * w) * BlockSz + r
    BY <1>2, <2>1
  <2>4. cnt * BlockSz \in Nat /\ (q * w) * BlockSz \in Nat
    BY <1>1, <2>1, DeviceAssumption
  <2> DEFINE x == cnt * BlockSz
             y == (q * w) * BlockSz
  <2>5. r = x - y
    <3> HIDE DEF x, y
    <3>1. x = y + r /\ x \in Nat /\ y \in Nat
      BY <2>3, <2>4 DEF x, y
    <3>2. QED
      BY <1>2, <3>1
  <2>6. QED
    BY <2>2, <2>5
<1>5. cnt - q * w \in Nat
  <2>1. q * w \in Nat
    BY <1>2, <1>3
  <2>2. SUFFICES ASSUME cnt - q * w < 0 PROVE FALSE
    BY <2>1
  <2>3. (cnt - q * w) * BlockSz < 0
    BY <2>1, <2>2, DeviceAssumption
  <2>4. QED
    BY <1>2, <1>4, <2>3, DeviceAssumption
<1>6. QED
  BY <1>4, <1>5 DEF total_storage_sz, r

(* The blocks a process counts in a file of whole blocks are all of them. *)
LEMMA CountsWholeFile ==
  ASSUME NEW n \in Nat, file_sz = n * BlockSz
  PROVE  file_sz \div BlockSz = n
<1> DEFINE q == file_sz \div BlockSz
           r == file_sz % BlockSz
<1>1. q \in Nat /\ r \in 0 .. BlockSz - 1 /\ file_sz = q * BlockSz + r
  <2>1. file_sz \in Nat
    BY DeviceAssumption
  <2>2. QED
    BY <2>1, DivMod, DeviceAssumption
<1> HIDE DEF q, r
<1>2. 0 \in 0 .. BlockSz - 1 /\ n * BlockSz + 0 = q * BlockSz + r
  BY <1>1, DeviceAssumption
<1>3. n = q
  BY <1>1, <1>2, UniqueDigits, DeviceAssumption
<1>4. QED
  BY <1>3 DEF q

LEMMA DeviceInvStep ==
  ASSUME DeviceInv, [DeviceNext]_deviceVars
  PROVE  DeviceInv'
<1> USE DEF DeviceInv, WholeBlocks, MapsTheWholeFile
<1>1. ASSUME NEW cnt \in Nat, open(cnt)
      PROVE  DeviceInv'
  <2>1. CASE file_sz = 0
    <3>1. file_sz' = total_storage_sz(cnt) /\ block_cnt' = cnt /\ mapped' \in BOOLEAN
      BY <1>1, <2>1 DEF open
    <3>2. WholeBlocks'
      BY <3>1, SizeOfWholeBlocks
    <3>3. cnt * BlockSz \in Nat /\ (cnt * BlockSz < Usize => total_storage_sz(cnt) = cnt * BlockSz)
      BY DeviceAssumption DEF total_storage_sz
    <3>4. QED
      BY <3>1, <3>2, <3>3
  <2>2. CASE file_sz # 0
    <3>1. file_sz' = file_sz /\ block_cnt' = file_sz \div BlockSz /\ mapped' \in BOOLEAN
      BY <1>1, <2>2 DEF open
    <3>2. PICK n \in Nat : file_sz = n * BlockSz
      OBVIOUS
    <3>3. block_cnt' = n
      BY <3>1, <3>2, CountsWholeFile
    <3>4. QED
      BY <3>1, <3>2, <3>3
  <2>3. QED
    BY <2>1, <2>2
<1>2. CASE close
  BY <1>2 DEF close
<1>3. CASE replace
  <2>1. 0 = 0 * BlockSz
    BY DeviceAssumption
  <2>2. QED
    BY <1>3, <2>1 DEF replace
<1>4. CASE UNCHANGED deviceVars
  BY <1>4 DEF deviceVars
<1>5. QED
  BY <1>1, <1>2, <1>3, <1>4 DEF DeviceNext

(* Whatever numbers of blocks processes expect, and however often the file  *)
(* is opened, closed by a crash and replaced, a device that is mapped has   *)
(* exactly the bytes of its file, up to the size at which they overflow.    *)
THEOREM DeviceMapsTheWholeFile == DeviceSpec => []MapsTheWholeFile
<1>1. DeviceInit => DeviceInv
  <2> SUFFICES ASSUME DeviceInit PROVE DeviceInv
    OBVIOUS
  <2>1. mapped \in BOOLEAN /\ MapsTheWholeFile
    BY ZenonT(10) DEF DeviceInit, MapsTheWholeFile
  <2>2. WholeBlocks
    <3>1. 0 \in Nat /\ 0 = 0 * BlockSz
      BY DeviceAssumption
    <3>2. QED
      BY <3>1 DEF DeviceInit, WholeBlocks
  <2>3. block_cnt \in Nat
    BY DEF DeviceInit
  <2>4. QED
    BY <2>1, <2>2, <2>3 DEF DeviceInv
<1>2. DeviceInv /\ [DeviceNext]_deviceVars => DeviceInv'
  BY DeviceInvStep
<1>3. DeviceInv => MapsTheWholeFile
  BY DEF DeviceInv
<1>4. QED
  BY <1>1, <1>2, <1>3, PTL DEF DeviceSpec

-----------------------------------------------------------------------------
(* The device with the writes of the call on it.                            *)
W == INSTANCE FileOperationProofs WITH
  used <- SettledUsed, home <- SettledHome, disk <- SettledDisk

-----------------------------------------------------------------------------
(* The settled image and the image. *)

Settled == SettledUsed = used /\ SettledHome = home /\ SettledDisk = disk

LEMMA NothingPending ==
  ASSUME TypeOK, todo = <<>>
  PROVE  Settled
<1>1. \A kind, at : Pending(kind, at) = {}
  BY DEF Pending
<1>2. SettledUsed = used
  BY <1>1 DEF SettledUsed, TypeOK
<1>3. SettledHome = home
  BY <1>1 DEF SettledHome, TypeOK
<1>4. SettledDisk = disk
  BY <1>1 DEF SettledDisk, TypeOK
<1>5. QED
  BY <1>2, <1>3, <1>4 DEF Settled

LEMMA SameConstants ==
  /\ W!Blocks = Blocks /\ W!Reserved = Reserved /\ W!DataBlocks = DataBlocks
  /\ W!InodeIds = InodeIds /\ W!KInvalidBlockID = KInvalidBlockID /\ W!Stale = Stale
  /\ W!Inodes = Inodes /\ W!IndirectBlocks = IndirectBlocks /\ W!FileBlocks = FileBlocks
  /\ \A sz : W!calculate_block_sz(sz) = calculate_block_sz(sz)
  /\ \A blocks, entries, idx : W!BlockOf(blocks, entries, idx) = BlockOf(blocks, entries, idx)
<1>1. /\ W!Blocks = Blocks /\ W!Reserved = Reserved /\ W!DataBlocks = DataBlocks
      /\ W!InodeIds = InodeIds /\ W!KInvalidBlockID = KInvalidBlockID /\ W!Stale = Stale
  BY DEF W!Blocks, W!Reserved, W!DataBlocks, W!InodeIds, W!KInvalidBlockID, W!Stale,
         Blocks, Reserved, DataBlocks, InodeIds, KInvalidBlockID, Stale
<1>2. /\ W!Inodes = Inodes /\ W!IndirectBlocks = IndirectBlocks /\ W!FileBlocks = FileBlocks
  BY <1>1 DEF W!Inodes, W!IndirectBlocks, W!FileBlocks, W!MaxFileSize,
              Inodes, IndirectBlocks, FileBlocks, MaxFileSize
<1>3. \A sz : W!calculate_block_sz(sz) = calculate_block_sz(sz)
  BY DEF W!calculate_block_sz, calculate_block_sz
<1>4. \A blocks, entries, idx : W!BlockOf(blocks, entries, idx) = BlockOf(blocks, entries, idx)
  BY DEF W!BlockOf, BlockOf
<1>5. QED
  BY <1>1, <1>2, <1>3, <1>4

LEMMA MemoryFits == Memory \in Nat /\ W!MaxFileSize <= Memory
  BY MemoryAssumption DEF MaxFileSize, W!MaxFileSize

(* A file whose entry and blocks have settled is the same in both. *)
LEMMA SameFile ==
  ASSUME Settled, NEW id
  PROVE  /\ W!InodeOf(id) = InodeOf(id) /\ W!Positions(id) = Positions(id)
         /\ W!HasIndirect(id) <=> HasIndirect(id)
         /\ W!Indirect(id) = Indirect(id)
         /\ \A idx : W!DataBlockAt(id, idx) = DataBlockAt(id, idx)
         /\ W!BlocksOf(id) = BlocksOf(id)
         /\ W!Live = Live
         /\ W!FileSound(id) <=> FileSound(id)
         /\ W!FileShaped(id) <=> FileShaped(id)
<1>1. SettledHome = home /\ SettledDisk = disk /\ SettledUsed = used
  BY DEF Settled
<1>2. W!InodeOf(id) = InodeOf(id)
  BY <1>1 DEF W!InodeOf, InodeOf
<1>3. W!Positions(id) = Positions(id)
  BY <1>2, SameConstants DEF W!Positions, Positions
<1>4. /\ W!HasIndirect(id) <=> HasIndirect(id)
      /\ W!Indirect(id) = Indirect(id)
  BY <1>2, SameConstants DEF W!HasIndirect, HasIndirect, W!Indirect, Indirect
<1>5. \A b : W!EntriesAt(b) = EntriesAt(b)
  BY <1>1, SameConstants DEF W!EntriesAt, EntriesAt
<1>6. \A idx : W!DataBlockAt(id, idx) = DataBlockAt(id, idx)
  BY <1>2, <1>5, SameConstants DEF W!DataBlockAt, DataBlockAt
<1>7. W!BlocksOf(id) = BlocksOf(id)
  BY <1>1, <1>3, <1>4, <1>6, SameConstants DEF W!BlocksOf, BlocksOf
<1>8. W!Live = Live
  BY <1>1, SameConstants DEF W!Live, Live
<1>9. \A b, kind : W!Holds(b, kind) <=> Holds(b, kind)
  BY <1>1, SameConstants DEF W!Holds, Holds
<1>10. W!FileSound(id) <=> FileSound(id)
  BY <1>1, <1>3, <1>4, <1>6, <1>9 DEF W!FileSound, FileSound
<1>11. W!FileShaped(id) <=> FileShaped(id)
  BY <1>2, <1>4, SameConstants DEF W!FileShaped, FileShaped
<1>12. QED
  BY <1>2, <1>3, <1>4, <1>6, <1>7, <1>8, <1>10, <1>11

LEMMA SameIInv == Settled => (W!IInv <=> IInv)
<1> SUFFICES ASSUME Settled PROVE W!IInv <=> IInv
  OBVIOUS
<1>1. SettledHome = home /\ SettledDisk = disk /\ SettledUsed = used
  BY DEF Settled
<1>2. W!TypeOK <=> TypeOK
  BY <1>1, SameConstants DEF W!TypeOK, TypeOK
<1>3. W!FilesApart <=> FilesApart
  BY SameFile DEF W!FilesApart, FilesApart
<1>4. QED
  BY <1>1, <1>2, <1>3, SameConstants, SameFile DEF W!IInv, IInv

LEMMA SameIInvNext == Settled' => (W!IInv' <=> IInv')
  BY SameIInv, PTL
-----------------------------------------------------------------------------
(* The inductive invariant.                                                 *)

Kinds ==
  {"set", "clear", "mark", "unmark", "entry", "block", "zero", "reserve", "superblock"}

Writes ==
  [file : {0} \cup InodeIds, kind : Kinds, at : Nat,
   value : Nat \cup Inodes \cup IndirectBlocks \cup FileBlocks
             \cup [block : Nat, buffer : SUBSET Nat]]

CrashTyped ==
  /\ TypeOK
  /\ marked \subseteq InodeIds /\ superblock \in {0, MaxInodes}
  /\ todo \in Seq(Writes)
  /\ crashed \in BOOLEAN /\ mapped \in BOOLEAN /\ (up => mapped)

(* A device without a superblock: no file, and, while a process formats it, *)
(* the blocks of the regions are zeroed first, then the loop runs over the  *)
(* reserved blocks, then the superblock is written.                         *)
Blank ==
  /\ home = [id \in InodeIds |-> KInvalidBlockID]
  /\ disk = [b \in DataBlocks |-> Stale]
  /\ marked = {}

(* The loop, at block i with a buffer for bitmap block cur: the reserved    *)
(* blocks it has passed have their bits in the buffer, or on the device if  *)
(* they belong to an earlier bitmap block; none ahead belongs to an earlier.*)
Collected(i, cur, buffer) ==
  /\ i \in 0 .. NReserved
  /\ \A r \in 0 .. i - 1 :
       /\ BitmapBlockOf(r) <= cur
       /\ BitmapBlockOf(r) = cur => r % BitsPerBlock \in buffer
       /\ BitmapBlockOf(r) # cur => r \in used
  /\ \A r \in i .. NReserved - 1 : cur <= BitmapBlockOf(r)

LoopState(w) ==
  /\ w.kind = "reserve"
  /\ w.value \in [block : Nat, buffer : SUBSET Nat]
  /\ Collected(w.at, w.value.block, w.value.buffer)

Formatting ==
  /\ Len(todo) > 0
  /\ todo[Len(todo)].kind = "superblock" /\ todo[Len(todo)].value = MaxInodes
  /\ Len(todo) = 1 => Reserved \subseteq used
  /\ Len(todo) > 1 => LoopState(todo[Len(todo) - 1])
  /\ Len(todo) > 2 => todo[Len(todo) - 1].at = 0
  /\ \A k \in 1 .. Len(todo) - 2 : todo[k].kind = "zero"

(* The three ways in which an inode says where its file ends. *)
InodeShaped(inode) ==
  /\ \A idx \in 0 .. NDirect - 1 :
       inode.blocks[idx] # KInvalidBlockID <=> idx < calculate_block_sz(inode.size)
  /\ inode.blocks[NDirect] # KInvalidBlockID
       <=> calculate_block_sz(inode.size) > NDirect

InodesShaped ==
  \A b \in DataBlocks : disk[b].kind = "inode" => InodeShaped(disk[b])

(* The writes of a call, and no two of them at one place. *)
WriteTyped(w) ==
  /\ w.kind \in {"set", "clear", "mark", "unmark", "entry", "block"}
  /\ w.kind = "set" => w.at \in Blocks
  /\ w.kind \in {"clear", "block"} => w.at \in DataBlocks
  /\ w.kind \in {"mark", "unmark", "entry"} => w.at \in InodeIds
  /\ w.kind = "entry" => w.value \in {KInvalidBlockID} \cup DataBlocks
  /\ w.kind = "block" => /\ w.value \in Inodes \cup IndirectBlocks \cup FileBlocks
                         /\ w.value.kind = "inode" => InodeShaped(w.value)

PendingApart ==
  \A j, k \in 1 .. Len(todo) :
    j # k /\ todo[j].at = todo[k].at =>
      /\ todo[j].kind = todo[k].kind => todo[j].kind \notin {"entry", "block"}
      /\ todo[j].kind = "clear" => todo[k].kind \notin {"set", "block"}
      /\ todo[j].kind = "unmark" => todo[k].kind # "mark"

PendingTyped == (\A k \in 1 .. Len(todo) : WriteTyped(todo[k])) /\ PendingApart

(* The inode of a file keeps its bit until the table forgets it, and has it *)
(* before the table knows it.                                               *)
MarksKept ==
  /\ \A id \in Live :
       /\ id \in marked
       /\ \A k \in 1 .. Len(todo) :
            todo[k].kind = "unmark" /\ todo[k].at = id =>
              \E j \in 1 .. k - 1 : /\ todo[j].kind = "entry" /\ todo[j].at = id
                                    /\ todo[j].value = KInvalidBlockID
  /\ \A k \in 1 .. Len(todo) :
       todo[k].kind = "entry" /\ todo[k].value # KInvalidBlockID =>
         /\ \A j \in 1 .. Len(todo) :
              ~(todo[j].kind = "unmark" /\ todo[j].at = todo[k].at)
         /\ \/ todo[k].at \in marked
            \/ \E j \in 1 .. k - 1 : todo[j].kind = "mark" /\ todo[j].at = todo[k].at

(* A write after which the files are as sound as before. *)
Harmless(k) ==
  /\ todo[k].kind = "entry" => todo[k].value = KInvalidBlockID
  /\ todo[k].kind = "block" =>
       \/ \A id \in Live : todo[k].at \notin BlocksOf(id)
       \/ todo[k].value.kind = "data" /\ disk[todo[k].at].kind = "data"
  /\ todo[k].kind = "clear" =>
       \A id \in Live :
         todo[k].at \in BlocksOf(id) =>
           \E j \in 1 .. k - 1 : /\ todo[j].kind = "entry" /\ todo[j].at = id
                                 /\ todo[j].value = KInvalidBlockID

(* Either the last pending write is one of those a crash must not prevent,  *)
(* or the files are sound, and stay so until the last write is reached.     *)
LastExposes ==
  /\ Len(todo) > 0
  /\ Exposes(todo[Len(todo)])
  /\ \A k \in 1 .. Len(todo) : todo[k].kind # "entry"

Exposed == LastExposes \/ (IInv /\ \A k \in 1 .. Len(todo) - 1 : Harmless(k))

(* The bits of inodes once the pending writes are made. *)
SettledMarked ==
  {id \in InodeIds : (id \in marked \/ Pending("mark", id) # {}) /\ Pending("unmark", id) = {}}

(* All pending writes are made for one file, and a block they write is that *)
(* file's in the settled image.                                             *)
MadeFor(f) ==
  \A k \in 1 .. Len(todo) :
    /\ todo[k].file = f
    /\ todo[k].kind = "entry" => todo[k].at = f
    /\ todo[k].kind = "block" => f \in W!Live /\ todo[k].at \in W!BlocksOf(f)

MadeForOne == \E f \in {0} \cup InodeIds : MadeFor(f)

Working ==
  /\ superblock = MaxInodes
  /\ Reserved \subseteq used
  /\ InodesShaped /\ PendingTyped /\ MarksKept
  /\ W!IInv
  /\ MadeForOne
  /\ Exposed

CrashInv ==
  /\ CrashTyped
  /\ superblock = 0 => Blank /\ (up => Formatting)
  /\ superblock # 0 => Working

-----------------------------------------------------------------------------
(* The pending writes. *)

LEMMA Todo ==
  ASSUME todo \in Seq(Writes)
  PROVE  /\ Len(todo) \in Nat /\ DOMAIN todo = 1 .. Len(todo)
         /\ \A k \in 1 .. Len(todo) : todo[k] \in Writes
         /\ Len(todo) = 0 <=> todo = <<>>
  OBVIOUS

LEMMA Tailed ==
  ASSUME todo \in Seq(Writes), todo # <<>>, todo' = Tail(todo)
  PROVE  /\ Len(todo) \in Nat \ {0} /\ todo' \in Seq(Writes)
         /\ Len(todo') = Len(todo) - 1
         /\ Head(todo) = todo[1]
         /\ \A k \in 1 .. Len(todo) - 1 : todo'[k] = todo[k + 1] /\ k + 1 \in 2 .. Len(todo)
         /\ \A k \in 2 .. Len(todo) : todo'[k - 1] = todo[k] /\ k - 1 \in 1 .. Len(todo) - 1
<1>1. Len(todo) \in Nat /\ Len(todo) # 0
  BY Todo
<1>2. todo' \in Seq(Writes) /\ Len(todo') = Len(todo) - 1 /\ Head(todo) = todo[1]
  BY <1>1, HeadTailProperties
<1>3. \A k \in 1 .. Len(todo) - 1 : todo'[k] = todo[k + 1]
  BY <1>1, HeadTailProperties
<1>4. ASSUME NEW k \in 2 .. Len(todo)
      PROVE  todo'[k - 1] = todo[k] /\ k - 1 \in 1 .. Len(todo) - 1
  <2>1. k - 1 \in 1 .. Len(todo) - 1 /\ (k - 1) + 1 = k
    BY <1>1
  <2>2. QED
    BY <1>3, <2>1
<1>5. \A k \in 1 .. Len(todo) - 1 : k + 1 \in 2 .. Len(todo)
  BY <1>1
<1>6. QED
  BY <1>1, <1>2, <1>3, <1>4, <1>5

(* The value that is pending at a place is that of the one write there. *)
OnePending ==
  \A kind \in {"entry", "block"} : \A at : \A k \in Pending(kind, at) :
    PendingValue(kind, at) = todo[k].value

TodoTyped == todo \in Seq(Writes)

LEMMA OnlyPending == TodoTyped /\ PendingApart => OnePending
<1> SUFFICES ASSUME todo \in Seq(Writes), PendingApart,
                    NEW kind \in {"entry", "block"}, NEW at, NEW k \in Pending(kind, at)
             PROVE  PendingValue(kind, at) = todo[k].value
  BY DEF OnePending, TodoTyped
<1> DEFINE j == CHOOSE i \in Pending(kind, at) : TRUE
<1>1. j \in Pending(kind, at) /\ PendingValue(kind, at) = todo[j].value
  BY DEF PendingValue
<1> HIDE DEF j
<1>2. j = k
  BY <1>1, Todo DEF Pending, PendingApart
<1>3. QED
  BY <1>1, <1>2

LEMMA OnlyPendingNext == TodoTyped' /\ PendingApart' => OnePending'
  BY OnlyPending, PTL

LEMMA ApartNext ==
  ASSUME \A j, k \in 1 .. Len(todo') :
           j # k /\ todo'[j].at = todo'[k].at =>
             /\ todo'[j].kind = todo'[k].kind => todo'[j].kind \notin {"entry", "block"}
             /\ todo'[j].kind = "clear" => todo'[k].kind \notin {"set", "block"}
             /\ todo'[j].kind = "unmark" => todo'[k].kind # "mark"
  PROVE  PendingApart'
  BY DEF PendingApart

LEMMA TailPending ==
  ASSUME todo \in Seq(Writes), todo # <<>>, todo' = Tail(todo), PendingTyped
  PROVE  /\ PendingTyped'
         /\ \A kind, at :
              Pending(kind, at) # {} <=>
                \/ todo[1].kind = kind /\ todo[1].at = at
                \/ Pending(kind, at)' # {}
         /\ \A kind \in {"entry", "block"} : \A at :
              IF Pending(kind, at)' # {}
                THEN PendingValue(kind, at)' = PendingValue(kind, at)
                ELSE todo[1].kind = kind /\ todo[1].at = at =>
                       PendingValue(kind, at) = todo[1].value
<1>1. PendingTyped'
  <2>1. \A k \in 1 .. Len(todo') : WriteTyped(todo'[k])
    BY Tailed DEF PendingTyped
  <2>2. PendingApart'
    <3> SUFFICES ASSUME NEW j \in 1 .. Len(todo'), NEW k \in 1 .. Len(todo'),
                        j # k, todo'[j].at = todo'[k].at
                 PROVE  /\ todo'[j].kind = todo'[k].kind => todo'[j].kind \notin {"entry", "block"}
                        /\ todo'[j].kind = "clear" => todo'[k].kind \notin {"set", "block"}
                        /\ todo'[j].kind = "unmark" => todo'[k].kind # "mark"
      BY ApartNext
    <3>1. /\ j + 1 \in 1 .. Len(todo) /\ k + 1 \in 1 .. Len(todo) /\ j + 1 # k + 1
          /\ todo'[j] = todo[j + 1] /\ todo'[k] = todo[k + 1]
      BY Tailed
    <3>2. QED
      BY <3>1 DEF PendingTyped, PendingApart
  <2>3. QED
    BY <2>1, <2>2 DEF PendingTyped, WriteTyped, Blocks, DataBlocks, Reserved, InodeIds,
                      InodeShaped
<1>2. \A kind, at, k : k \in Pending(kind, at)' => k + 1 \in Pending(kind, at)
  BY Tailed, Todo DEF Pending
<1>3. 1 \in 1 .. Len(todo) /\ DOMAIN todo = 1 .. Len(todo)
  BY Tailed, Todo
<1>4. \A kind, at : 1 \in Pending(kind, at) <=> todo[1].kind = kind /\ todo[1].at = at
  BY <1>3 DEF Pending
<1>5. \A kind, at, k : k \in Pending(kind, at) => k = 1 \/ k - 1 \in Pending(kind, at)'
  <2> SUFFICES ASSUME NEW kind, NEW at, NEW k \in Pending(kind, at), k # 1
               PROVE  k - 1 \in Pending(kind, at)'
    OBVIOUS
  <2>1. k \in 2 .. Len(todo) /\ todo[k].kind = kind /\ todo[k].at = at
    BY <1>3, Tailed DEF Pending
  <2>2. todo'[k - 1] = todo[k] /\ k - 1 \in 1 .. Len(todo')
    BY <2>1, Tailed
  <2>3. DOMAIN todo' = 1 .. Len(todo')
    BY Tailed
  <2>4. QED
    BY <2>1, <2>2, <2>3 DEF Pending
<1>6. ASSUME NEW kind, NEW at
      PROVE  Pending(kind, at) # {} <=> \/ todo[1].kind = kind /\ todo[1].at = at
                                        \/ Pending(kind, at)' # {}
  BY <1>2, <1>4, <1>5
<1>7. ASSUME NEW kind \in {"entry", "block"}, NEW at
      PROVE  IF Pending(kind, at)' # {}
               THEN PendingValue(kind, at)' = PendingValue(kind, at)
               ELSE todo[1].kind = kind /\ todo[1].at = at =>
                      PendingValue(kind, at) = todo[1].value
  <2>1. OnePending /\ OnePending'
    BY <1>1, Tailed, OnlyPending, OnlyPendingNext DEF PendingTyped, TodoTyped
  <2>2. ASSUME NEW k \in Pending(kind, at)'
        PROVE  PendingValue(kind, at)' = PendingValue(kind, at)
    <3>1. k + 1 \in Pending(kind, at)
      BY <1>2
    <3>2. PendingValue(kind, at) = todo[k + 1].value
      BY <2>1, <3>1 DEF OnePending
    <3>3. PendingValue(kind, at)' = todo'[k].value
      <4>1. \A x \in {"entry", "block"} : \A y : \A z \in Pending(x, y)' :
              PendingValue(x, y)' = todo'[z].value
        BY Zenon, <2>1 DEF OnePending
      <4>2. QED
        BY <4>1
    <3>4. k \in 1 .. Len(todo) - 1
      BY Tailed DEF Pending
    <3>5. todo'[k] = todo[k + 1]
      BY <3>4, Tailed
    <3>6. QED
      BY <3>2, <3>3, <3>5
  <2>3. ASSUME todo[1].kind = kind, todo[1].at = at
        PROVE  PendingValue(kind, at) = todo[1].value
    BY <1>4, <2>1, <2>3 DEF OnePending
  <2>4. QED
    BY <2>2, <2>3
<1>8. QED
  BY <1>1, <1>6, <1>7

(* What the first write excludes. *)
LEMMA HeadAlone ==
  ASSUME todo \in Seq(Writes), todo # <<>>, PendingTyped
  PROVE  /\ todo[1].kind = "clear" =>
              Pending("set", todo[1].at) = {} /\ Pending("block", todo[1].at) = {}
         /\ todo[1].kind = "block" => Pending("clear", todo[1].at) = {}
         /\ todo[1].kind = "unmark" => Pending("mark", todo[1].at) = {}
<1>1. 1 \in 1 .. Len(todo) /\ DOMAIN todo = 1 .. Len(todo)
  BY Todo
<1>2. \A kind, at, k : k \in Pending(kind, at) =>
        k \in 1 .. Len(todo) /\ todo[k].kind = kind /\ todo[k].at = at
  BY <1>1 DEF Pending
<1>3. PendingApart
  BY DEF PendingTyped
<1>4. QED
  BY <1>1, <1>2, <1>3 DEF PendingApart

(* What a write of a call changes. *)
LEMMA EffectOf ==
  ASSUME NEW w, Performed(w), WriteTyped(w)
  PROVE  /\ used' = IF w.kind = "set" THEN used \cup {w.at}
                    ELSE IF w.kind = "clear" THEN used \ {w.at} ELSE used
         /\ home' = IF w.kind = "entry" THEN [home EXCEPT ![w.at] = w.value] ELSE home
         /\ disk' = IF w.kind = "block" THEN [disk EXCEPT ![w.at] = w.value]
                    ELSE IF w.kind = "clear"
                      THEN [b \in DataBlocks |-> IF b = w.at THEN Stale ELSE disk[b]]
                      ELSE disk
         /\ marked' = IF w.kind = "mark" THEN marked \cup {w.at}
                      ELSE IF w.kind = "unmark" THEN marked \ {w.at} ELSE marked
         /\ superblock' = superblock
<1>1. w.kind \in {"set", "clear", "mark", "unmark", "entry", "block"}
  BY DEF WriteTyped
<1> USE DEF Performed, set_bit, clear_bit, set_mark, clear_mark, set_table, write_block,
            zero_block, flush_reserved, write_superblock
<1>2. CASE w.kind = "set"
  BY <1>2
<1>3. CASE w.kind = "clear"
  BY <1>3
<1>4. CASE w.kind = "mark"
  BY <1>4
<1>5. CASE w.kind = "unmark"
  BY <1>5
<1>6. CASE w.kind = "entry"
  BY <1>6
<1>7. CASE w.kind = "block"
  BY <1>7
<1>8. QED
  BY <1>1, <1>2, <1>3, <1>4, <1>5, <1>6, <1>7

(* The image the pending writes lead to is the same after each of them. *)
LEMMA StepSettles ==
  ASSUME CrashTyped, PendingTyped, step
  PROVE  /\ PendingTyped' /\ up' = up
         /\ SettledUsed' = SettledUsed /\ SettledHome' = SettledHome
         /\ SettledDisk' = SettledDisk /\ SettledMarked' = SettledMarked
<1> DEFINE w == todo[1]
           P(kind, at) == Pending(kind, at) # {}
           Q(kind, at) == Pending(kind, at)' # {}
<1>1. /\ todo \in Seq(Writes) /\ todo # <<>> /\ todo' = Tail(todo) /\ up' = up
      /\ Performed(w) /\ TypeOK
  BY Tailed DEF step, CrashTyped
<1>2. WriteTyped(w)
  BY <1>1, Tailed DEF PendingTyped
<1>3. /\ \A kind, at : P(kind, at) <=> (w.kind = kind /\ w.at = at) \/ Q(kind, at)
      /\ \A kind \in {"entry", "block"} : \A at :
           IF Q(kind, at) THEN PendingValue(kind, at)' = PendingValue(kind, at)
           ELSE w.kind = kind /\ w.at = at => PendingValue(kind, at) = w.value
  BY <1>1, TailPending, Zenon
<1>4. /\ w.kind = "clear" => ~P("set", w.at) /\ ~P("block", w.at)
      /\ w.kind = "block" => ~P("clear", w.at)
      /\ w.kind = "unmark" => ~P("mark", w.at)
  BY <1>1, HeadAlone, Zenon
<1>5. /\ SettledUsed = {b \in Blocks : (b \in used \/ P("set", b)) /\ ~P("clear", b)}
      /\ SettledUsed' = {b \in Blocks : (b \in used' \/ Q("set", b)) /\ ~Q("clear", b)}
  BY DEF SettledUsed, Blocks
<1>6. /\ SettledHome = [id \in InodeIds |-> IF P("entry", id) THEN PendingValue("entry", id)
                                            ELSE home[id]]
      /\ SettledHome' = [id \in InodeIds |-> IF Q("entry", id) THEN PendingValue("entry", id)'
                                             ELSE home'[id]]
  BY DEF SettledHome, InodeIds
<1>7. /\ SettledDisk = [b \in DataBlocks |->
                          IF P("block", b) THEN PendingValue("block", b)
                          ELSE IF P("clear", b) THEN Stale ELSE disk[b]]
      /\ SettledDisk' = [b \in DataBlocks |->
                          IF Q("block", b) THEN PendingValue("block", b)'
                          ELSE IF Q("clear", b) THEN Stale ELSE disk'[b]]
  BY DEF SettledDisk, DataBlocks, Blocks, Reserved, Stale
<1>8. /\ SettledMarked = {id \in InodeIds : (id \in marked \/ P("mark", id)) /\ ~P("unmark", id)}
      /\ SettledMarked' = {id \in InodeIds : (id \in marked' \/ Q("mark", id)) /\ ~Q("unmark", id)}
  BY DEF SettledMarked, InodeIds
<1> HIDE DEF P, Q, w
<1>9. SettledUsed' = SettledUsed
  <2>1. ASSUME NEW b \in Blocks
        PROVE  (b \in used' \/ Q("set", b)) /\ ~Q("clear", b)
                 <=> (b \in used \/ P("set", b)) /\ ~P("clear", b)
    <3>1. CASE w.kind = "set"
      BY <1>1, <1>2, <1>3, <3>1, EffectOf
    <3>2. CASE w.kind = "clear"
      <4>1. used' = used \ {w.at}
        BY <1>1, <1>2, <3>2, EffectOf
      <4>2. QED
        BY <1>3, <1>4, <3>2, <4>1
    <3>3. CASE w.kind \notin {"set", "clear"}
      <4>1. used' = used
        BY <1>1, <1>2, <3>3, EffectOf
      <4>2. QED
        BY <1>3, <3>3, <4>1
    <3>4. QED
      BY <3>1, <3>2, <3>3
  <2>2. QED
    BY <1>5, <2>1
<1>10. SettledHome' = SettledHome
  <2>1. ASSUME NEW id \in InodeIds
        PROVE  (IF Q("entry", id) THEN PendingValue("entry", id)' ELSE home'[id])
                 = IF P("entry", id) THEN PendingValue("entry", id) ELSE home[id]
    <3>1. CASE w.kind = "entry"
      <4>1. /\ home' = [home EXCEPT ![w.at] = w.value]
            /\ home \in [InodeIds -> {KInvalidBlockID} \cup DataBlocks]
        BY <1>1, <1>2, <3>1, EffectOf DEF TypeOK
      <4>2. home'[id] = IF id = w.at THEN w.value ELSE home[id]
        BY <4>1
      <4>3. QED
        BY <1>3, <3>1, <4>2
    <3>2. CASE w.kind # "entry"
      <4>1. home' = home
        BY <1>1, <1>2, <3>2, EffectOf
      <4>2. QED
        BY <1>3, <3>2, <4>1
    <3>3. QED
      BY <3>1, <3>2
  <2>2. QED
    BY <1>6, <2>1
<1>11. SettledDisk' = SettledDisk
  <2>1. ASSUME NEW b \in DataBlocks
        PROVE  (IF Q("block", b) THEN PendingValue("block", b)'
                ELSE IF Q("clear", b) THEN Stale ELSE disk'[b])
                 = IF P("block", b) THEN PendingValue("block", b)
                   ELSE IF P("clear", b) THEN Stale ELSE disk[b]
    <3>1. CASE w.kind = "block"
      <4>1. /\ disk' = [disk EXCEPT ![w.at] = w.value]
            /\ disk \in [DataBlocks -> {Stale} \cup Inodes \cup IndirectBlocks \cup FileBlocks]
        BY <1>1, <1>2, <3>1, EffectOf DEF TypeOK
      <4>2. disk'[b] = IF b = w.at THEN w.value ELSE disk[b]
        BY <4>1
      <4>3. QED
        BY <1>3, <1>4, <3>1, <4>2
    <3>2. CASE w.kind = "clear"
      <4>1. disk'[b] = IF b = w.at THEN Stale ELSE disk[b]
        BY <1>1, <1>2, <3>2, EffectOf
      <4>2. QED
        BY <1>3, <1>4, <3>2, <4>1
    <3>3. CASE w.kind \notin {"block", "clear"}
      <4>1. disk' = disk
        BY <1>1, <1>2, <3>3, EffectOf
      <4>2. QED
        BY <1>3, <3>3, <4>1
    <3>4. QED
      BY <3>1, <3>2, <3>3
  <2>2. QED
    BY <1>7, <2>1
<1>12. SettledMarked' = SettledMarked
  <2>1. ASSUME NEW id \in InodeIds
        PROVE  (id \in marked' \/ Q("mark", id)) /\ ~Q("unmark", id)
                 <=> (id \in marked \/ P("mark", id)) /\ ~P("unmark", id)
    <3>1. CASE w.kind = "mark"
      BY <1>1, <1>2, <1>3, <3>1, EffectOf
    <3>2. CASE w.kind = "unmark"
      <4>1. marked' = marked \ {w.at}
        BY <1>1, <1>2, <3>2, EffectOf
      <4>2. QED
        BY <1>3, <1>4, <3>2, <4>1
    <3>3. CASE w.kind \notin {"mark", "unmark"}
      <4>1. marked' = marked
        BY <1>1, <1>2, <3>3, EffectOf
      <4>2. QED
        BY <1>3, <3>3, <4>1
    <3>4. QED
      BY <3>1, <3>2, <3>3
  <2>2. QED
    BY <1>8, <2>1
<1>13. QED
  BY <1>1, <1>9, <1>10, <1>11, <1>12, TailPending

(* The first write, and what a step does. *)
LEMMA FirstWrite ==
  ASSUME CrashTyped, PendingTyped, step
  PROVE  /\ todo \in Seq(Writes) /\ todo # <<>> /\ todo' = Tail(todo)
         /\ 1 \in 1 .. Len(todo) /\ Len(todo) \in Nat
         /\ WriteTyped(todo[1]) /\ Performed(todo[1])
         /\ up' = up /\ crashed' = crashed /\ mapped' = mapped
<1>1. /\ todo \in Seq(Writes) /\ todo # <<>> /\ todo' = Tail(todo) /\ up' = up
      /\ crashed' = crashed /\ mapped' = mapped /\ Performed(Head(todo))
  BY DEF step, CrashTyped, deviceVars
<1>2. Head(todo) = todo[1] /\ Len(todo) \in Nat \ {0}
  BY <1>1, Tailed
<1>3. 1 \in 1 .. Len(todo)
  BY <1>2
<1>4. WriteTyped(todo[1])
  BY <1>3 DEF PendingTyped
<1>5. QED
  BY <1>1, <1>2, <1>3, <1>4

LEMMA StepTyped ==
  ASSUME CrashTyped, PendingTyped, step
  PROVE  CrashTyped' /\ superblock' = superblock
<1> DEFINE w == todo[1]
<1>1. /\ WriteTyped(w) /\ Performed(w) /\ todo' \in Seq(Writes)
      /\ up' = up /\ crashed' = crashed /\ mapped' = mapped
  BY FirstWrite, Tailed
<1> HIDE DEF w
<1>2. TypeOK
  BY DEF CrashTyped
<1>3. used' \subseteq Blocks
  BY <1>1, <1>2, EffectOf DEF TypeOK, WriteTyped
<1>4. home' \in [InodeIds -> {KInvalidBlockID} \cup DataBlocks]
  BY <1>1, <1>2, EffectOf DEF TypeOK, WriteTyped
<1>5. disk' \in [DataBlocks -> {Stale} \cup Inodes \cup IndirectBlocks \cup FileBlocks]
  <2>1. CASE w.kind = "block"
    BY <1>1, <1>2, <2>1, EffectOf DEF TypeOK, WriteTyped
  <2>2. CASE w.kind = "clear"
    BY <1>1, <1>2, <2>2, EffectOf DEF TypeOK, WriteTyped
  <2>3. CASE w.kind \notin {"block", "clear"}
    BY <1>1, <1>2, <2>3, EffectOf DEF TypeOK
  <2>4. QED
    BY <2>1, <2>2, <2>3
<1>6. TypeOK'
  BY <1>1, <1>2, <1>3, <1>4, <1>5 DEF TypeOK
<1>7. marked' \subseteq InodeIds /\ superblock' = superblock
  BY <1>1, EffectOf DEF CrashTyped, WriteTyped
<1>8. QED
  BY <1>1, <1>6, <1>7 DEF CrashTyped, Writes, Kinds

LEMMA StepKeeps ==
  ASSUME CrashTyped, PendingTyped, Reserved \subseteq used, InodesShaped, step
  PROVE  Reserved \subseteq used' /\ InodesShaped'
<1> DEFINE w == todo[1]
<1>1. WriteTyped(w) /\ Performed(w) /\ TypeOK
  BY FirstWrite DEF CrashTyped
<1> HIDE DEF w
<1>2. Reserved \subseteq used'
  BY <1>1, EffectOf DEF WriteTyped, DataBlocks
<1>3. ASSUME NEW b \in DataBlocks, disk'[b].kind = "inode"
      PROVE  InodeShaped(disk'[b])
  <2>1. CASE w.kind = "block"
    <3>1. disk'[b] = IF b = w.at THEN w.value ELSE disk[b]
      BY <1>1, <2>1, EffectOf DEF TypeOK
    <3>2. QED
      BY <1>1, <1>3, <2>1, <3>1 DEF WriteTyped, InodesShaped
  <2>2. CASE w.kind = "clear"
    <3>1. disk'[b] = IF b = w.at THEN Stale ELSE disk[b]
      BY <1>1, <2>2, EffectOf
    <3>2. QED
      BY <1>3, <3>1 DEF Stale, InodesShaped
  <2>3. CASE w.kind \notin {"block", "clear"}
    BY <1>1, <1>3, <2>3, EffectOf DEF InodesShaped
  <2>4. QED
    BY <2>1, <2>2, <2>3
<1>4. InodesShaped'
  BY <1>3 DEF InodesShaped, InodeShaped
<1>5. QED
  BY <1>2, <1>4

LEMMA StepMarks ==
  ASSUME CrashTyped, PendingTyped, MarksKept, step
  PROVE  MarksKept'
<1> DEFINE w == todo[1]
           Forgets(k, id) == /\ todo[k].kind = "entry" /\ todo[k].at = id
                             /\ todo[k].value = KInvalidBlockID
           Unmarks(k, id) == todo[k].kind = "unmark" /\ todo[k].at = id
           Marks(k, id) == todo[k].kind = "mark" /\ todo[k].at = id
<1>1. /\ WriteTyped(w) /\ Performed(w) /\ TypeOK /\ Len(todo) \in Nat \ {0}
      /\ todo' \in Seq(Writes) /\ Len(todo') = Len(todo) - 1
      /\ \A k \in 1 .. Len(todo) - 1 : todo'[k] = todo[k + 1] /\ k + 1 \in 2 .. Len(todo)
      /\ \A k \in 2 .. Len(todo) : todo'[k - 1] = todo[k] /\ k - 1 \in 1 .. Len(todo) - 1
  BY FirstWrite, Tailed DEF CrashTyped
<1>2. /\ home' = IF w.kind = "entry" THEN [home EXCEPT ![w.at] = w.value] ELSE home
      /\ marked' = IF w.kind = "mark" THEN marked \cup {w.at}
                   ELSE IF w.kind = "unmark" THEN marked \ {w.at} ELSE marked
  BY <1>1, EffectOf
<1>3. \A id \in Live : id \in marked /\ \A k \in 1 .. Len(todo) :
        Unmarks(k, id) => \E j \in 1 .. k - 1 : Forgets(j, id)
  BY DEF MarksKept
<1>4. \A k \in 1 .. Len(todo) :
        todo[k].kind = "entry" /\ todo[k].value # KInvalidBlockID =>
          /\ \A j \in 1 .. Len(todo) : ~Unmarks(j, todo[k].at)
          /\ todo[k].at \in marked \/ \E j \in 1 .. k - 1 : Marks(j, todo[k].at)
  BY DEF MarksKept
<1>5. ASSUME NEW id \in Live'
      PROVE  \/ id \in Live /\ ~Forgets(1, id)
             \/ /\ w.kind = "entry" /\ w.at = id /\ w.value # KInvalidBlockID
  BY <1>1, <1>2 DEF Live, TypeOK
<1>6. ASSUME NEW id \in Live'
      PROVE  id \in marked'
  <2>1. CASE id \in Live /\ ~Forgets(1, id)
    <3>1. id \in marked /\ (w.kind = "unmark" => w.at # id)
      BY <1>1, <1>3, <2>1
    <3>2. QED
      BY <1>2, <3>1
  <2>2. CASE w.kind = "entry" /\ w.at = id /\ w.value # KInvalidBlockID
    BY <1>1, <1>2, <1>4, <2>2
  <2>3. QED
    BY <1>5, <2>1, <2>2
<1>7. ASSUME NEW id \in Live', NEW k \in 1 .. Len(todo'),
             todo'[k].kind = "unmark", todo'[k].at = id
      PROVE  \E j \in 1 .. k - 1 : /\ todo'[j].kind = "entry" /\ todo'[j].at = id
                                   /\ todo'[j].value = KInvalidBlockID
  <2>1. k + 1 \in 2 .. Len(todo) /\ todo'[k] = todo[k + 1] /\ Unmarks(k + 1, id)
    BY <1>1, <1>7
  <2>2. id \in Live /\ ~Forgets(1, id)
    <3>1. 1 \in 1 .. Len(todo) /\ k + 1 \in 1 .. Len(todo)
      BY <1>1, <2>1
    <3>2. QED
      BY <1>4, <1>5, <2>1, <3>1
  <2>3. PICK j \in 1 .. (k + 1) - 1 : Forgets(j, id)
    <3>1. k + 1 \in 1 .. Len(todo)
      BY <1>1, <2>1
    <3>2. QED
      BY <1>3, <2>1, <2>2, <3>1
  <2>4. j # 1
    BY <2>2, <2>3
  <2>5. j \in 2 .. Len(todo) /\ j - 1 \in 1 .. k - 1
    BY <1>1, <2>1, <2>3, <2>4
  <2>6. todo'[j - 1] = todo[j]
    BY <1>1, <2>5
  <2>7. QED
    BY <2>3, <2>5, <2>6
<1>8. ASSUME NEW k \in 1 .. Len(todo'),
             todo'[k].kind = "entry", todo'[k].value # KInvalidBlockID
      PROVE  /\ \A j \in 1 .. Len(todo') : ~(todo'[j].kind = "unmark" /\ todo'[j].at = todo'[k].at)
             /\ \/ todo'[k].at \in marked'
                \/ \E j \in 1 .. k - 1 : todo'[j].kind = "mark" /\ todo'[j].at = todo'[k].at
  <2>1. k + 1 \in 1 .. Len(todo) /\ todo'[k] = todo[k + 1] /\ 1 \in 1 .. Len(todo)
    BY <1>1
  <2>2. /\ \A j \in 1 .. Len(todo) : ~Unmarks(j, todo[k + 1].at)
        /\ \/ todo[k + 1].at \in marked
           \/ \E j \in 1 .. (k + 1) - 1 : Marks(j, todo[k + 1].at)
    BY <1>4, <1>8, <2>1
  <2>3. ASSUME NEW j \in 1 .. Len(todo')
        PROVE  ~(todo'[j].kind = "unmark" /\ todo'[j].at = todo'[k].at)
    <3>1. j + 1 \in 1 .. Len(todo) /\ todo'[j] = todo[j + 1]
      BY <1>1
    <3>2. QED
      BY <2>1, <2>2, <3>1
  <2>4. CASE todo[k + 1].at \in marked
    <3>1. ~Unmarks(1, todo[k + 1].at)
      BY <2>1, <2>2
    <3>2. QED
      BY <1>2, <2>1, <2>3, <2>4, <3>1
  <2>5. ASSUME NEW j \in 1 .. (k + 1) - 1, Marks(j, todo[k + 1].at)
        PROVE  \/ todo'[k].at \in marked'
               \/ \E i \in 1 .. k - 1 : todo'[i].kind = "mark" /\ todo'[i].at = todo'[k].at
    <3>1. CASE j = 1
      BY <1>2, <2>1, <2>5, <3>1
    <3>2. CASE j # 1
      <4>1. j \in 2 .. Len(todo) /\ j - 1 \in 1 .. k - 1
        BY <1>1, <2>1, <3>2
      <4>2. todo'[j - 1] = todo[j]
        BY <1>1, <4>1
      <4>3. QED
        BY <2>1, <2>5, <4>1, <4>2
    <3>3. QED
      BY <3>1, <3>2
  <2>6. QED
    BY <2>2, <2>3, <2>4, <2>5
<1>9. QED
  BY <1>6, <1>7, <1>8 DEF MarksKept

-----------------------------------------------------------------------------
(* Writes after which the files are as sound as before. *)

(* A step that leaves the table and the blocks of every file alone. *)
LEMMA NoFileChanges ==
  ASSUME IInv, TypeOK', Reserved \subseteq used', home' = home,
         \A i \in Live : \A b \in BlocksOf(i) : b \in used' /\ disk'[b] = disk[b]
  PROVE  IInv' /\ Live' = Live /\ \A i \in Live : BlocksOf(i)' = BlocksOf(i)
<1>1. Live' = Live
  BY DEF Live, InodeIds
<1>2. ASSUME NEW i \in Live
      PROVE  FileSound(i)' /\ FileShaped(i)' /\ BlocksOf(i)' = BlocksOf(i)
  BY Untouched
<1>3. FilesApart'
  BY <1>1, <1>2 DEF IInv, FilesApart
<1>4. QED
  BY <1>1, <1>2, <1>3 DEF IInv, Reserved

(* A step that writes other cells to a block of cells. *)
LEMMA DataRewritten ==
  ASSUME IInv, NEW b \in DataBlocks, NEW v \in FileBlocks, disk[b].kind = "data",
         used' = used, home' = home, disk' = [disk EXCEPT ![b] = v], TypeOK'
  PROVE  IInv' /\ Live' = Live /\ \A i \in Live : BlocksOf(i)' = BlocksOf(i)
<1>1. TypeOK
  BY DEF IInv
<1>2. v.kind = "data" /\ \A c \in DataBlocks : disk'[c] = IF c = b THEN v ELSE disk[c]
  BY <1>1 DEF FileBlocks, TypeOK
<1>3. \A c \in DataBlocks : disk'[c].kind = disk[c].kind
  BY <1>2
<1>4. Live' = Live
  BY DEF Live, InodeIds
<1>5. ASSUME NEW i \in Live
      PROVE  FileSound(i)' /\ FileShaped(i)' /\ BlocksOf(i)' = BlocksOf(i)
  <2>1. home[i] \in DataBlocks /\ disk[home[i]].kind = "inode" /\ FileSound(i)
    BY DEF IInv, FileSound, Holds
  <2>2. InodeOf(i)' = InodeOf(i)
    BY <1>2, <2>1 DEF InodeOf
  <2>3. /\ HasIndirect(i)' <=> HasIndirect(i)
        /\ Indirect(i)' = Indirect(i) /\ Positions(i)' = Positions(i)
    BY <2>2 DEF HasIndirect, Indirect, Positions
  <2>4. EntriesAt(Indirect(i))' = EntriesAt(Indirect(i))
    BY <1>2, <2>3 DEF EntriesAt
  <2>5. \A idx : DataBlockAt(i, idx)' = DataBlockAt(i, idx)
    BY <2>2, <2>3, <2>4 DEF DataBlockAt, BlockOf, Indirect
  <2>6. BlocksOf(i)' = BlocksOf(i)
    BY <2>3, <2>5 DEF BlocksOf
  <2>7. FileShaped(i)'
    BY <2>2, <2>3 DEF IInv, FileShaped
  <2>8. \A c, kind : Holds(c, kind) => Holds(c, kind)'
    BY <1>3 DEF Holds
  <2>9. FileSound(i)'
    BY <2>1, <2>3, <2>5, <2>8 DEF FileSound
  <2>10. QED
    BY <2>6, <2>7, <2>9
<1>6. FilesApart'
  BY <1>4, <1>5 DEF IInv, FilesApart
<1>7. QED
  BY <1>4, <1>5, <1>6 DEF IInv, Reserved

(* A step after which the table knows one inode less. *)
LEMMA EntryForgotten ==
  ASSUME IInv, NEW id \in InodeIds, used' = used, disk' = disk, TypeOK',
         home' = [home EXCEPT ![id] = KInvalidBlockID]
  PROVE  IInv' /\ Live' \subseteq Live /\ \A i \in Live' : i # id /\ BlocksOf(i)' = BlocksOf(i)
<1>1. \A i \in InodeIds : home'[i] = IF i = id THEN KInvalidBlockID ELSE home[i]
  BY DEF IInv, TypeOK
<1>2. id \notin Live' /\ Live' \subseteq Live
  BY <1>1 DEF Live
<1>3. \A i \in Live \ {id} : \A b \in BlocksOf(i) : b \in used' /\ disk'[b] = disk[b]
  BY BlocksDiffer
<1>4. IInv'
  BY <1>1, <1>2, <1>3, OneFileChanges DEF IInv
<1>5. ASSUME NEW i \in Live' PROVE i # id /\ BlocksOf(i)' = BlocksOf(i)
  BY <1>1, <1>2, <1>3, Untouched DEF Live
<1>6. QED
  BY <1>2, <1>4, <1>5

LEMMA HarmlessWrite ==
  ASSUME CrashTyped, CrashTyped', PendingTyped, IInv, Harmless(1), step
  PROVE  /\ IInv' /\ Live' \subseteq Live
         /\ \A i \in Live' : BlocksOf(i)' = BlocksOf(i)
         /\ \A i \in Live' : ~(/\ todo[1].kind = "entry" /\ todo[1].at = i
                               /\ todo[1].value = KInvalidBlockID)
<1> DEFINE w == todo[1]
<1>1. /\ WriteTyped(w) /\ Performed(w) /\ TypeOK /\ TypeOK' /\ up' \in BOOLEAN
      /\ Reserved \subseteq used'
  <2>1. Reserved \subseteq used
    BY DEF IInv
  <2>2. WriteTyped(w) /\ Performed(w)
    BY FirstWrite
  <2> HIDE DEF w
  <2>3. Reserved \subseteq used'
    BY <2>1, <2>2, EffectOf DEF WriteTyped, DataBlocks
  <2>4. QED
    BY <2>2, <2>3 DEF CrashTyped, TypeOK
<1>2. /\ w.kind = "entry" => w.value = KInvalidBlockID
      /\ w.kind = "block" => \/ \A id \in Live : w.at \notin BlocksOf(id)
                             \/ w.value.kind = "data" /\ disk[w.at].kind = "data"
      /\ w.kind = "clear" => \A id \in Live : w.at \notin BlocksOf(id)
  BY DEF Harmless
<1>3. \A i \in Live : BlocksOf(i) \subseteq used \cap DataBlocks
  BY BlocksDiffer
<1> HIDE DEF w
<1>4. CASE w.kind = "entry"
  <2>1. /\ used' = used /\ disk' = disk /\ home' = [home EXCEPT ![w.at] = KInvalidBlockID]
        /\ w.at \in InodeIds
    BY <1>1, <1>2, <1>4, EffectOf DEF WriteTyped
  <2>2. QED
    BY <1>1, <2>1, EntryForgotten DEF w
<1>5. CASE w.kind = "block" /\ \E id \in Live : w.at \in BlocksOf(id)
  <2>1. /\ used' = used /\ home' = home /\ disk' = [disk EXCEPT ![w.at] = w.value]
        /\ disk[w.at].kind = "data" /\ w.at \in DataBlocks
    BY <1>1, <1>2, <1>5, EffectOf DEF WriteTyped
  <2>2. w.value \in FileBlocks
    BY <1>1, <1>2, <1>5 DEF WriteTyped, Inodes, IndirectBlocks
  <2>3. IInv' /\ Live' = Live /\ \A i \in Live : BlocksOf(i)' = BlocksOf(i)
    BY <1>1, <2>1, <2>2, DataRewritten
  <2>4. QED
    BY <1>5, <2>3 DEF w
<1>6. CASE w.kind # "entry" /\ ~(w.kind = "block" /\ \E id \in Live : w.at \in BlocksOf(id))
  <2>1. home' = home
    BY <1>1, <1>6, EffectOf
  <2>2. ASSUME NEW i \in Live, NEW b \in BlocksOf(i)
        PROVE  b \in used' /\ disk'[b] = disk[b]
    <3>1. b \in used /\ b \in DataBlocks
      BY <1>3
    <3>2. CASE w.kind = "block"
      <4>1. used' = used /\ disk' = [disk EXCEPT ![w.at] = w.value] /\ b # w.at
        BY <1>1, <1>6, <3>2, EffectOf
      <4>2. QED
        BY <1>1, <3>1, <4>1 DEF TypeOK
    <3>3. CASE w.kind = "clear"
      BY <1>1, <1>2, <3>1, <3>3, EffectOf
    <3>4. CASE w.kind \notin {"block", "clear"}
      BY <1>1, <3>1, <3>4, EffectOf
    <3>5. QED
      BY <3>2, <3>3, <3>4
  <2>3. IInv' /\ Live' = Live /\ \A i \in Live : BlocksOf(i)' = BlocksOf(i)
    BY <1>1, <2>1, <2>2, NoFileChanges
  <2>4. QED
    BY <1>6, <2>3 DEF w
<1>7. QED
  BY <1>4, <1>5, <1>6

NonePending == todo = <<>>

LEMMA NothingPendingNext == TypeOK' /\ NonePending' => Settled'
<1>1. TypeOK /\ NonePending => Settled
  BY NothingPending DEF NonePending
<1>2. QED
  BY <1>1, PTL

(* What the pending writes lead to stays sound. *)
LEMMA StepLeadsOn ==
  ASSUME CrashTyped, CrashTyped', PendingTyped, W!IInv, step
  PROVE  W!IInv'
<1>1. /\ SettledUsed' = SettledUsed /\ SettledHome' = SettledHome
      /\ SettledDisk' = SettledDisk
  BY StepSettles
<1>2. up' \in BOOLEAN
  BY DEF CrashTyped, TypeOK
<1>3. SettledUsed' \subseteq W!Blocks
  BY SameConstants DEF SettledUsed, Blocks
<1>4. SettledUsed \subseteq SettledUsed'
  BY <1>1
<1>5. QED
  BY <1>1, <1>2, <1>3, <1>4, W!OnlyMarks, MemoryFits, LayoutAssumption

(* A write of the last two kinds stays the last one until it is made. *)
LEMMA ExposesOn ==
  ASSUME CrashTyped, CrashTyped', PendingTyped, LastExposes, step, Len(todo) > 1
  PROVE  LastExposes'
<1> DEFINE w == todo[1]
           z == todo[Len(todo)]
<1>1. /\ WriteTyped(w) /\ Performed(w) /\ Len(todo) \in Nat /\ TypeOK
      /\ Len(todo') = Len(todo) - 1
      /\ \A k \in 1 .. Len(todo) - 1 : todo'[k] = todo[k + 1] /\ k + 1 \in 2 .. Len(todo)
  BY FirstWrite, Tailed DEF CrashTyped
<1>2. todo'[Len(todo')] = z /\ Len(todo') > 0 /\ 1 # Len(todo) /\ 1 \in 1 .. Len(todo)
  BY <1>1
<1>3. \A k \in 1 .. Len(todo') : todo'[k].kind # "entry"
  <2>1. ASSUME NEW k \in 1 .. Len(todo') PROVE todo'[k].kind # "entry"
    <3>1. todo'[k] = todo[k + 1] /\ k + 1 \in 1 .. Len(todo)
      BY <1>1
    <3>2. QED
      BY <3>1 DEF LastExposes
  <2>2. QED
    BY <2>1
<1>4. w.kind # "entry"
  BY <1>2 DEF LastExposes
<1>5. z.kind = "block" /\ (z.value.kind = "indirect" \/ ShrinksInode(z)) /\ WriteTyped(z)
  BY <1>1, <1>2 DEF LastExposes, Exposes, PendingTyped
<1>6. w.kind \in {"block", "clear"} => w.at # z.at
  <2>1. Len(todo) \in 1 .. Len(todo)
    BY <1>1, <1>2
  <2>2. QED
    BY <1>2, <1>5, <2>1 DEF PendingTyped, PendingApart
<1> HIDE DEF w
<1>7. home' = home
  BY <1>1, <1>4, EffectOf
<1>8. disk'[z.at] = disk[z.at]
  <2>1. z.at \in DataBlocks
    BY <1>5 DEF WriteTyped
  <2> HIDE DEF z
  <2>2. CASE w.kind = "block"
    <3>1. disk' = [disk EXCEPT ![w.at] = w.value] /\ w.at # z.at
      BY <1>1, <1>6, <2>2, EffectOf
    <3>2. QED
      BY <1>1, <2>1, <3>1 DEF TypeOK
  <2>3. CASE w.kind = "clear"
    BY <1>1, <1>6, <2>1, <2>3, EffectOf
  <2>4. CASE w.kind \notin {"block", "clear"}
    BY <1>1, <2>4, EffectOf
  <2>5. QED
    BY <2>2, <2>3, <2>4
<1>9. Exposes(todo[Len(todo)])'
  <2> HIDE DEF z
  <2>1. PICK y : y = z
    OBVIOUS
  <2>2. ShrinksInode(y) => ShrinksInode(y)'
    BY <1>7, <1>8, <2>1 DEF ShrinksInode, InodeOf, calculate_block_sz
  <2>3. Exposes(y)'
    BY <1>5, <2>1, <2>2 DEF Exposes
  <2>4. todo'[Len(todo')] = y
    BY <1>2, <2>1
  <2>5. QED
    BY <2>3, <2>4
<1>10. QED
  BY <1>2, <1>3, <1>9 DEF LastExposes

LEMMA HarmlessOn ==
  ASSUME CrashTyped, CrashTyped', PendingTyped, IInv, step, Len(todo) > 1,
         \A k \in 1 .. Len(todo) - 1 : Harmless(k)
  PROVE  IInv' /\ \A k \in 1 .. Len(todo') - 1 : Harmless(k)'
<1> DEFINE w == todo[1]
<1>1. /\ WriteTyped(w) /\ Performed(w) /\ Len(todo) \in Nat /\ TypeOK
      /\ Len(todo') = Len(todo) - 1
      /\ \A k \in 1 .. Len(todo) - 1 : todo'[k] = todo[k + 1] /\ k + 1 \in 2 .. Len(todo)
      /\ \A k \in 2 .. Len(todo) : todo'[k - 1] = todo[k] /\ k - 1 \in 1 .. Len(todo) - 1
  BY FirstWrite, Tailed DEF CrashTyped
<1>2. 1 \in 1 .. Len(todo) - 1 /\ 1 \in 1 .. Len(todo)
  BY <1>1
<1>3. /\ IInv' /\ Live' \subseteq Live
      /\ \A i \in Live' : BlocksOf(i)' = BlocksOf(i)
      /\ \A i \in Live' : ~(/\ w.kind = "entry" /\ w.at = i /\ w.value = KInvalidBlockID)
  BY <1>2, HarmlessWrite
<1>4. ASSUME NEW k \in 1 .. Len(todo') - 1 PROVE Harmless(k)'
  <2> DEFINE z == todo[k + 1]
  <2>1. /\ todo'[k] = z /\ k + 1 \in 1 .. Len(todo) - 1 /\ k + 1 # 1
        /\ k + 1 \in 1 .. Len(todo)
    BY <1>1
  <2>2. Harmless(k + 1) /\ WriteTyped(z)
    BY <2>1 DEF PendingTyped
  <2>3. z.kind = "entry" => z.value = KInvalidBlockID
    BY <2>2 DEF Harmless
  <2>4. ASSUME z.kind = "block"
        PROVE  \/ \A id \in Live' : z.at \notin BlocksOf(id)'
               \/ z.value.kind = "data" /\ disk'[z.at].kind = "data"
    <3>1. CASE \A id \in Live : z.at \notin BlocksOf(id)
      BY <1>3, <3>1
    <3>2. CASE z.value.kind = "data" /\ disk[z.at].kind = "data"
      <4>1. z.at \in DataBlocks
        BY <2>2, <2>4 DEF WriteTyped
      <4>2. w.kind \in {"block", "clear"} => w.at # z.at
        BY <1>2, <2>1, <2>4 DEF PendingTyped, PendingApart
      <4> HIDE DEF w, z
      <4>3. disk'[z.at] = disk[z.at]
        <5>1. CASE w.kind = "block"
          <6>1. disk' = [disk EXCEPT ![w.at] = w.value] /\ w.at # z.at
            BY <1>1, <4>2, <5>1, EffectOf
          <6>2. QED
            BY <1>1, <4>1, <6>1 DEF TypeOK
        <5>2. CASE w.kind = "clear"
          BY <1>1, <4>1, <4>2, <5>2, EffectOf
        <5>3. CASE w.kind \notin {"block", "clear"}
          BY <1>1, <5>3, EffectOf
        <5>4. QED
          BY <5>1, <5>2, <5>3
      <4>4. QED
        BY <3>2, <4>3
    <3>3. QED
      BY <2>2, <2>4, <3>1, <3>2 DEF Harmless
  <2>5. ASSUME z.kind = "clear", NEW id \in Live', z.at \in BlocksOf(id)'
        PROVE  \E j \in 1 .. k - 1 : /\ todo'[j].kind = "entry" /\ todo'[j].at = id
                                     /\ todo'[j].value = KInvalidBlockID
    <3>1. PICK j \in 1 .. (k + 1) - 1 : /\ todo[j].kind = "entry" /\ todo[j].at = id
                                        /\ todo[j].value = KInvalidBlockID
      BY <1>3, <2>2, <2>5 DEF Harmless
    <3>2. j # 1
      BY <1>3, <3>1
    <3>3. j \in 2 .. Len(todo) /\ j - 1 \in 1 .. k - 1
      BY <1>1, <2>1, <3>1, <3>2
    <3>4. todo'[j - 1] = todo[j]
      BY <1>1, <3>3
    <3>5. QED
      BY <3>1, <3>3, <3>4
  <2>6. QED
    BY <2>1, <2>3, <2>4, <2>5 DEF Harmless
<1>5. QED
  BY <1>3, <1>4

LEMMA StepExposed ==
  ASSUME CrashTyped, CrashTyped', PendingTyped, W!IInv, Exposed, step
  PROVE  Exposed'
<1>1. /\ Len(todo) \in Nat \ {0} /\ Len(todo') = Len(todo) - 1 /\ todo' \in Seq(Writes)
  BY FirstWrite, Tailed
<1>2. CASE Len(todo) = 1
  <2>1. Len(todo') = 0 /\ todo' = <<>>
    BY <1>1, <1>2
  <2>2. Settled'
    BY <2>1, NothingPendingNext DEF CrashTyped, NonePending
  <2>3. IInv'
    BY <2>2, StepLeadsOn, SameIInvNext
  <2>4. QED
    BY <2>1, <2>3 DEF Exposed
<1>3. CASE Len(todo) > 1
  BY <1>3, ExposesOn, HarmlessOn DEF Exposed
<1>4. QED
  BY <1>1, <1>2, <1>3

(* The files of the settled image stay the same as well. *)
LEMMA SameSettledFiles ==
  ASSUME W!IInv, SettledHome' = SettledHome, SettledDisk' = SettledDisk,
         todo' \in Seq(Writes),
         \A k \in 1 .. Len(todo') : \E j \in 1 .. Len(todo) : todo'[k] = todo[j]
  PROVE  /\ \A f : MadeFor(f) => MadeFor(f)'
         /\ MadeForOne => MadeForOne'
<1>1. ASSUME NEW f, MadeFor(f) PROVE MadeFor(f)'
  <2>1. f \in W!Live => f \in W!Live' /\ W!BlocksOf(f)' = W!BlocksOf(f)
    BY W!Untouched, MemoryFits, LayoutAssumption
  <2>2. ASSUME NEW k \in 1 .. Len(todo')
        PROVE  /\ todo'[k].file = f
               /\ todo'[k].kind = "entry" => todo'[k].at = f
               /\ todo'[k].kind = "block" => f \in W!Live' /\ todo'[k].at \in W!BlocksOf(f)'
    <3>1. PICK j \in 1 .. Len(todo) : todo'[k] = todo[j]
      OBVIOUS
    <3>2. QED
      BY <1>1, <2>1, <3>1 DEF MadeFor
  <2>3. QED
    BY <2>2 DEF MadeFor
<1>2. QED
  BY <1>1 DEF MadeForOne, InodeIds

LEMMA StepSameFiles ==
  ASSUME CrashTyped, Working, step
  PROVE  /\ \A f : MadeFor(f) => MadeFor(f)'
         /\ MadeForOne'
<1>1. todo \in Seq(Writes) /\ todo # <<>> /\ todo' = Tail(todo)
  BY DEF CrashTyped, step
<1>2. ASSUME NEW k \in 1 .. Len(todo')
      PROVE  \E j \in 1 .. Len(todo) : todo'[k] = todo[j]
  <2>1. k + 1 \in 1 .. Len(todo) /\ todo'[k] = todo[k + 1]
    BY <1>1, Tailed
  <2>2. QED
    BY <2>1
<1>3. SettledHome' = SettledHome /\ SettledDisk' = SettledDisk
  BY StepSettles DEF Working
<1>4. todo' \in Seq(Writes)
  BY <1>1, Tailed
<1>5. QED
  BY <1>2, <1>3, <1>4, SameSettledFiles DEF Working

LEMMA StepWorks ==
  ASSUME CrashTyped, Working, step
  PROVE  CrashTyped' /\ superblock' = superblock /\ Working'
<1>1. CrashTyped' /\ superblock' = superblock
  BY StepTyped DEF Working
<1>2. Reserved \subseteq used' /\ InodesShaped'
  BY StepKeeps DEF Working
<1>3. PendingTyped'
  BY StepSettles DEF Working
<1>4. MarksKept'
  BY StepMarks DEF Working
<1>5. W!IInv'
  BY <1>1, StepLeadsOn DEF Working
<1>6. MadeForOne'
  BY StepSameFiles
<1>7. Exposed'
  BY <1>1, StepExposed DEF Working
<1>8. QED
  BY <1>1, <1>2, <1>3, <1>4, <1>5, <1>6, <1>7 DEF Working, Reserved

-----------------------------------------------------------------------------
(* A device between two calls, and formatting one.                          *)

Resting ==
  /\ CrashTyped /\ NonePending /\ superblock = MaxInodes
  /\ InodesShaped /\ TakenIdsMarked /\ IInv

LEMMA RestingWorks == Resting => Working
<1> SUFFICES ASSUME Resting PROVE Working
  OBVIOUS
<1>1. Len(todo) = 0
  BY DEF Resting, NonePending
<1>2. PendingTyped
  BY <1>1 DEF PendingTyped, PendingApart
<1>3. MarksKept
  BY <1>1 DEF Resting, TakenIdsMarked, MarksKept
<1>4. W!IInv
  BY NothingPending, SameIInv DEF Resting, NonePending, CrashTyped
<1>5. Exposed
  BY <1>1 DEF Resting, Exposed
<1>6. MadeForOne
  <2>1. MadeFor(0)
    BY <1>1 DEF MadeFor
  <2>2. QED
    BY <2>1 DEF MadeForOne
<1>7. QED
  BY <1>2, <1>3, <1>4, <1>5, <1>6 DEF Resting, IInv, Working

LEMMA RestingWorksNext == Resting' => Working'
  BY RestingWorks, PTL

BlankResting ==
  CrashTyped /\ NonePending /\ superblock = MaxInodes /\ Blank /\ Reserved \subseteq used

LEMMA BlankRests == BlankResting => Resting
<1> SUFFICES ASSUME BlankResting PROVE Resting
  OBVIOUS
<1>1. Live = {}
  BY DEF BlankResting, Blank, Live
<1>2. InodesShaped
  BY DEF BlankResting, Blank, InodesShaped, Stale
<1>3. IInv
  BY <1>1 DEF BlankResting, CrashTyped, IInv, FilesApart
<1>4. QED
  BY <1>1, <1>2, <1>3 DEF BlankResting, Resting, TakenIdsMarked

LEMMA BlankRestsNext == BlankResting' => Working'
  BY BlankRests, RestingWorks, PTL

-----------------------------------------------------------------------------
(* Lists of writes. *)

LEMMA ListOf ==
  ASSUME NEW S, NEW n \in Nat, NEW s \in [1 .. n -> S]
  PROVE  s \in Seq(S) /\ Len(s) = n
  OBVIOUS

LEMMA Joined ==
  ASSUME NEW S, NEW s \in Seq(S), NEW t \in Seq(S)
  PROVE  /\ s \o t \in Seq(S) /\ Len(s) \in Nat /\ Len(t) \in Nat
         /\ Len(s \o t) = Len(s) + Len(t)
         /\ \A k \in 1 .. Len(s \o t) :
              \/ k \in 1 .. Len(s) /\ (s \o t)[k] = s[k]
              \/ k - Len(s) \in 1 .. Len(t) /\ (s \o t)[k] = t[k - Len(s)]
         /\ \A k \in 1 .. Len(s) : k \in 1 .. Len(s \o t) /\ (s \o t)[k] = s[k]
         /\ \A k \in 1 .. Len(t) :
              Len(s) + k \in 1 .. Len(s \o t) /\ (s \o t)[Len(s) + k] = t[k]
<1>1. /\ s \o t \in Seq(S) /\ Len(s) \in Nat /\ Len(t) \in Nat
      /\ Len(s \o t) = Len(s) + Len(t)
      /\ \A k \in 1 .. Len(s) + Len(t) :
           (s \o t)[k] = IF k <= Len(s) THEN s[k] ELSE t[k - Len(s)]
  BY ConcatProperties, LenProperties
<1>2. ASSUME NEW k \in 1 .. Len(s \o t)
      PROVE  \/ k \in 1 .. Len(s) /\ (s \o t)[k] = s[k]
             \/ k - Len(s) \in 1 .. Len(t) /\ (s \o t)[k] = t[k - Len(s)]
  <2>1. (s \o t)[k] = IF k <= Len(s) THEN s[k] ELSE t[k - Len(s)]
    BY <1>1
  <2>2. k \in 1 .. Len(s) \/ (~(k <= Len(s)) /\ k - Len(s) \in 1 .. Len(t))
    BY <1>1
  <2>3. QED
    BY <2>1, <2>2
<1>3. ASSUME NEW k \in 1 .. Len(s)
      PROVE  k \in 1 .. Len(s \o t) /\ (s \o t)[k] = s[k]
  BY <1>1
<1>4. ASSUME NEW k \in 1 .. Len(t)
      PROVE  Len(s) + k \in 1 .. Len(s \o t) /\ (s \o t)[Len(s) + k] = t[k]
  <2>1. /\ Len(s) + k \in 1 .. Len(s) + Len(t) /\ ~(Len(s) + k <= Len(s))
        /\ (Len(s) + k) - Len(s) = k
    BY <1>1
  <2>2. QED
    BY <1>1, <2>1
<1>5. QED
  BY <1>1, <1>2, <1>3, <1>4

-----------------------------------------------------------------------------
(* Formatting a device. *)

(* The bitmap block of a later block is not an earlier one. *)
LEMMA BitmapBlocksAscend ==
  ASSUME NEW x \in Nat, NEW y \in Nat, x <= y
  PROVE  /\ BitmapBlockOf(x) \in Nat /\ BitmapBlockOf(x) <= BitmapBlockOf(y)
         /\ bitmap_block_id \in Nat /\ bitmap_block_id <= BitmapBlockOf(x)
<1>1. bitmap_block_id \in Nat
  <2>1. Requested \in Nat
    BY FormatAssumption
  <2>2. n_table_blocks(MaxInodes) \in Nat /\ n_bitmap_blocks(Requested) \in Nat
    BY <2>1, FormatAssumption, Sizes
  <2>3. bitmap_block_id = 1 + n_table_blocks(MaxInodes) + n_bitmap_blocks(Requested)
    BY DEF bitmap_block_id, get_reserved_blocks
  <2>4. QED
    BY <2>2, <2>3
<1>2. /\ x \div BitsPerBlock \in Nat /\ y \div BitsPerBlock \in Nat
      /\ x % BitsPerBlock \in 0 .. BitsPerBlock - 1 /\ y % BitsPerBlock \in 0 .. BitsPerBlock - 1
      /\ x = (x \div BitsPerBlock) * BitsPerBlock + (x % BitsPerBlock)
      /\ y = (y \div BitsPerBlock) * BitsPerBlock + (y % BitsPerBlock)
  BY DivMod, BlockSizeAssumption
<1>3. x \div BitsPerBlock <= y \div BitsPerBlock
  <2>1. SUFFICES ASSUME y \div BitsPerBlock < x \div BitsPerBlock PROVE FALSE
    BY <1>2
  <2>2. (y \div BitsPerBlock) * BitsPerBlock + (y % BitsPerBlock)
          < (x \div BitsPerBlock) * BitsPerBlock + (x % BitsPerBlock)
    BY <1>2, <2>1, DigitOrder, BlockSizeAssumption
  <2>3. QED
    BY <1>2, <2>2
<1>4. QED
  BY <1>1, <1>2, <1>3 DEF BitmapBlockOf

(* A buffer that is written makes the bits of its block what it holds.      *)
LEMMA FlushedBits ==
  ASSUME NEW w, NEW r \in Reserved
  PROVE  r \in Flushed(w) <=>
           IF BitmapBlockOf(r) = w.value.block THEN r % BitsPerBlock \in w.value.buffer
                                               ELSE r \in used
<1>1. r \in Blocks
  BY LayoutAssumption DEF Reserved, Blocks
<1>2. QED
  BY <1>1 DEF Flushed, BitsOf

LEMMA FlushedTyped == \A w : used \subseteq Blocks => Flushed(w) \subseteq Blocks
  BY DEF Flushed, BitsOf

(* What one round of the loop makes of the buffer and the device. *)
NextBuffer(w) ==
  {w.at % BitsPerBlock} \cup
    IF BitmapBlockOf(w.at) = w.value.block THEN w.value.buffer ELSE {}

NextUsed(w) == IF BitmapBlockOf(w.at) = w.value.block THEN used ELSE Flushed(w)

LEMMA RoundCollects ==
  ASSUME NEW w, LoopState(w), w.at < NReserved
  PROVE  /\ w.at + 1 \in 0 .. NReserved /\ BitmapBlockOf(w.at) \in Nat
         /\ NextBuffer(w) \in SUBSET Nat
         /\ \A r \in 0 .. w.at :
              /\ BitmapBlockOf(r) <= BitmapBlockOf(w.at)
              /\ BitmapBlockOf(r) = BitmapBlockOf(w.at) => r % BitsPerBlock \in NextBuffer(w)
              /\ BitmapBlockOf(r) # BitmapBlockOf(w.at) => r \in NextUsed(w)
         /\ \A r \in w.at + 1 .. NReserved - 1 : BitmapBlockOf(w.at) <= BitmapBlockOf(r)
<1> DEFINE i == w.at
           cur == w.value.block
           block_id == BitmapBlockOf(w.at)
           buffer == NextBuffer(w)
<1>0. /\ buffer = {i % BitsPerBlock} \cup IF block_id = cur THEN w.value.buffer ELSE {}
      /\ NextUsed(w) = IF block_id = cur THEN used ELSE Flushed(w)
      /\ block_id = BitmapBlockOf(i)
  BY DEF NextBuffer, NextUsed
<1> HIDE DEF buffer
<1>1. /\ i \in Nat /\ i \in 0 .. NReserved - 1 /\ NReserved \in Nat
      /\ cur \in Nat /\ w.value.buffer \in SUBSET Nat
      /\ \A r \in 0 .. i - 1 :
           /\ BitmapBlockOf(r) <= cur
           /\ BitmapBlockOf(r) = cur => r % BitsPerBlock \in w.value.buffer
           /\ BitmapBlockOf(r) # cur => r \in used
      /\ \A r \in i .. NReserved - 1 : cur <= BitmapBlockOf(r)
  BY LayoutAssumption DEF LoopState, Collected
<1>2. block_id \in Nat /\ cur <= block_id /\ i % BitsPerBlock \in Nat
  <2> HIDE DEF i, cur
  <2>1. i <= i /\ i \in i .. NReserved - 1 /\ block_id = BitmapBlockOf(i)
    BY <1>1 DEF i
  <2>2. block_id \in Nat
    BY <1>1, <2>1, BitmapBlocksAscend
  <2>3. i % BitsPerBlock \in Nat
    BY <1>1, DivMod, BlockSizeAssumption
  <2>4. QED
    BY <1>1, <2>1, <2>2, <2>3
<1>3. \A r \in 0 .. i - 1 : r \in Reserved /\ BitmapBlockOf(r) \in Nat
  BY <1>1, BitmapBlocksAscend DEF Reserved
<1> HIDE DEF i, block_id
<1>4. ASSUME NEW r \in 0 .. i
      PROVE  /\ BitmapBlockOf(r) <= block_id
             /\ BitmapBlockOf(r) = block_id => r % BitsPerBlock \in buffer
             /\ BitmapBlockOf(r) # block_id => r \in NextUsed(w)
  <2>1. CASE r = i
    BY <1>0, <1>2, <2>1
  <2>2. CASE r \in 0 .. i - 1
    <3>1. /\ BitmapBlockOf(r) \in Nat /\ BitmapBlockOf(r) <= cur
          /\ BitmapBlockOf(r) = cur => r % BitsPerBlock \in w.value.buffer
          /\ BitmapBlockOf(r) # cur => r \in used
      BY <1>1, <1>3, <2>2
    <3>2. BitmapBlockOf(r) <= block_id
      BY <1>1, <1>2, <3>1
    <3>3. CASE block_id = cur
      BY <1>0, <3>1, <3>2, <3>3
    <3>4. CASE block_id # cur
      <4>1. BitmapBlockOf(r) # block_id
        BY <1>1, <1>2, <3>1, <3>4
      <4>2. r \in Flushed(w)
        BY <1>3, <2>2, <3>1, FlushedBits
      <4>3. QED
        BY <1>0, <3>2, <3>4, <4>1, <4>2
    <3>5. QED
      BY <3>3, <3>4
  <2>3. QED
    BY <1>1, <2>1, <2>2
<1>5. ASSUME NEW r \in i + 1 .. NReserved - 1 PROVE block_id <= BitmapBlockOf(r)
  <2>1. i \in Nat /\ r \in Nat /\ i <= r
    BY <1>1
  <2>2. QED
    BY <1>0, <2>1, BitmapBlocksAscend
<1>6. buffer \in SUBSET Nat /\ i + 1 \in 0 .. NReserved
  BY <1>0, <1>1, <1>2
<1>7. QED
  BY <1>2, <1>4, <1>5, <1>6 DEF i, block_id, buffer

(* Where the loop is when it has not begun. *)
LEMMA LoopBegins ==
  /\ Collecting(0, bitmap_block_id, {}) \in Writes
  /\ LoopState(Collecting(0, bitmap_block_id, {}))
<1> DEFINE w == Collecting(0, bitmap_block_id, {})
<1>1. bitmap_block_id \in Nat /\ NReserved \in Nat
      /\ \A r \in 0 .. NReserved - 1 : bitmap_block_id <= BitmapBlockOf(r)
  BY BitmapBlocksAscend, LayoutAssumption
<1>2. /\ w.kind = "reserve" /\ w.at = 0 /\ w.file = 0
      /\ w.value = [block |-> bitmap_block_id, buffer |-> {}]
  BY DEF Collecting, Write
<1>3. w \in Writes
  BY <1>1 DEF Collecting, Write, Writes, Kinds
<1>4. LoopState(w)
  BY <1>1, <1>2 DEF LoopState, Collected
<1>5. QED
  BY <1>3, <1>4

LEMMA FormattingKinds ==
  ASSUME CrashTyped, Formatting
  PROVE  /\ todo # <<>> /\ Len(todo) \in Nat \ {0}
         /\ todo[1].kind \in {"zero", "reserve", "superblock"}
         /\ todo[1].kind = "superblock" => Len(todo) = 1
<1>1. Len(todo) \in Nat \ {0} /\ todo # <<>>
  BY DEF CrashTyped, Formatting
<1>2. CASE Len(todo) = 1
  BY <1>1, <1>2 DEF Formatting
<1>3. CASE Len(todo) = 2
  BY <1>1, <1>3 DEF Formatting, LoopState
<1>4. CASE Len(todo) > 2
  <2>1. 1 \in 1 .. Len(todo) - 2
    BY <1>1, <1>4
  <2>2. QED
    BY <1>1, <2>1 DEF Formatting
<1>5. Len(todo) = 1 \/ Len(todo) = 2 \/ Len(todo) > 2
  <2>1. \A n \in Nat \ {0} : n = 1 \/ n = 2 \/ n > 2
    OBVIOUS
  <2>2. QED
    BY <1>1, <2>1
<1>6. QED
  BY <1>1, <1>2, <1>3, <1>4, <1>5

LEMMA StepFormats ==
  ASSUME CrashTyped, superblock = 0, Blank, Formatting, step
  PROVE  /\ CrashTyped'
         /\ superblock' = 0 => Blank' /\ Formatting'
         /\ superblock' # 0 => Working'
<1> DEFINE w == todo[1]
<1>1. /\ Performed(w) /\ Len(todo) \in Nat \ {0} /\ TypeOK
      /\ todo' \in Seq(Writes) /\ Len(todo') = Len(todo) - 1
      /\ \A k \in 1 .. Len(todo) - 1 : todo'[k] = todo[k + 1] /\ k + 1 \in 2 .. Len(todo)
      /\ up' = up /\ crashed' = crashed /\ mapped' = mapped
  <2>1. /\ todo \in Seq(Writes) /\ todo # <<>> /\ todo' = Tail(todo) /\ TypeOK
        /\ Performed(Head(todo)) /\ up' = up /\ crashed' = crashed /\ mapped' = mapped
    BY DEF CrashTyped, step, deviceVars
  <2>2. QED
    BY <2>1, Tailed
<1>2. /\ todo[Len(todo)].kind = "superblock" /\ todo[Len(todo)].value = MaxInodes
      /\ Len(todo) = 1 => Reserved \subseteq used
      /\ Len(todo) > 1 => LoopState(todo[Len(todo) - 1])
      /\ Len(todo) > 2 => todo[Len(todo) - 1].at = 0
      /\ \A k \in 1 .. Len(todo) - 2 : todo[k].kind = "zero"
  BY DEF Formatting
<1>3. MaxInodes # 0
  BY LayoutAssumption
<1> HIDE DEF w
<1>4. ASSUME Len(todo) = 1
      PROVE  CrashTyped' /\ superblock' = MaxInodes /\ Working'
  <2>1. w.kind = "superblock" /\ w.value = MaxInodes
    BY <1>2, <1>4 DEF w
  <2>2. /\ used' = used /\ home' = home /\ disk' = disk /\ marked' = marked
        /\ superblock' = MaxInodes
    BY <1>1, <2>1 DEF Performed, set_bit, clear_bit, set_mark, clear_mark, set_table,
                      write_block, zero_block, flush_reserved, write_superblock
  <2>3. CrashTyped'
    BY <1>1, <2>2 DEF CrashTyped, TypeOK, Writes, Kinds
  <2>4. NonePending'
    BY <1>1, <1>4 DEF NonePending
  <2>5. Reserved \subseteq used'
    BY <1>2, <1>4, <2>2
  <2>6. Blank'
    BY <2>2 DEF Blank, InodeIds, DataBlocks, Blocks, Reserved, Stale
  <2>7. BlankResting'
    BY <2>2, <2>3, <2>4, <2>5, <2>6 DEF BlankResting, Reserved
  <2>8. QED
    BY <2>2, <2>3, <2>7, BlankRestsNext
<1>5. ASSUME Len(todo) > 1
      PROVE  CrashTyped' /\ superblock' = 0 /\ Blank' /\ Formatting'
  <2>1. \/ Len(todo) = 2 /\ w.kind = "reserve" /\ LoopState(w)
        \/ Len(todo) > 2 /\ w.kind = "zero"
    <3>1. CASE Len(todo) = 2
      BY <1>2, <3>1 DEF w, LoopState
    <3>2. CASE Len(todo) > 2
      <4>1. 1 \in 1 .. Len(todo) - 2
        BY <1>1, <3>2
      <4>2. QED
        BY <1>2, <3>2, <4>1 DEF w
    <3>3. QED
      BY <1>1, <1>5, <3>1, <3>2
  <2>2. /\ disk' = disk /\ superblock' = 0
        /\ \/ /\ w.kind = "zero" /\ marked' = marked \ MarksOf(w.at)
              /\ home' = [id \in InodeIds |-> IF id \in InodesOf(w.at) THEN KInvalidBlockID
                                                                        ELSE home[id]]
              /\ used' = used \ BitsOf(w.at)
           \/ /\ w.kind = "reserve" /\ home' = home /\ marked' = marked
              /\ w.at = NReserved /\ used' = Flushed(w)
    BY <1>1, <2>1 DEF Performed, set_bit, clear_bit, set_mark, clear_mark, set_table,
                      write_block, zero_block, flush_reserved, write_superblock
  <2>3. home' = home
    BY <2>2 DEF Blank
  <2>4. used' \subseteq Blocks
    BY <1>1, <2>2, FlushedTyped DEF TypeOK
  <2>5. CrashTyped'
    BY <1>1, <2>2, <2>3, <2>4 DEF CrashTyped, TypeOK, Writes, Kinds
  <2>6. Blank'
    BY <2>2, <2>3 DEF Blank, InodeIds, DataBlocks, Blocks, Reserved, Stale
  <2>7. /\ Len(todo') > 0 /\ todo'[Len(todo')] = todo[Len(todo)]
        /\ Len(todo') > 1 => todo'[Len(todo') - 1] = todo[Len(todo) - 1]
        /\ \A k \in 1 .. Len(todo') - 2 : todo'[k].kind = "zero"
    <3>1. Len(todo') \in 1 .. Len(todo) - 1 /\ Len(todo') + 1 = Len(todo)
      BY <1>1, <1>5
    <3>2. Len(todo') > 1 => Len(todo') - 1 \in 1 .. Len(todo) - 1
                            /\ (Len(todo') - 1) + 1 = Len(todo) - 1
      BY <1>1, <3>1
    <3>3. \A k \in 1 .. Len(todo') - 2 :
            k \in 1 .. Len(todo) - 1 /\ k + 1 \in 1 .. Len(todo) - 2
      BY <1>1, <3>1
    <3>4. QED
      BY <1>1, <1>2, <3>1, <3>2, <3>3
  <2>8. CASE Len(todo) = 2
    <3>1. /\ w.at = NReserved /\ used' = Flushed(w) /\ LoopState(w) /\ Len(todo') = 1
      BY <1>1, <2>1, <2>2, <2>8
    <3>2. ASSUME NEW r \in Reserved PROVE r \in used'
      <4>1. r \in 0 .. w.at - 1
        BY <3>1 DEF Reserved
      <4>2. QED
        BY <3>1, <4>1, FlushedBits DEF LoopState, Collected
    <3>3. QED
      BY <1>2, <2>2, <2>5, <2>6, <2>7, <3>1, <3>2 DEF Formatting, Reserved
  <2>9. CASE Len(todo) > 2
    <3> DEFINE v == todo[Len(todo) - 1]
    <3>1. /\ Len(todo') > 1 /\ LoopState(v) /\ v.at = 0 /\ todo'[Len(todo') - 1] = v
      BY <1>1, <1>2, <2>7, <2>9
    <3> HIDE DEF v
    <3>2. LoopState(todo[Len(todo) - 1])'
      BY <1>1, <3>1 DEF LoopState, Collected, BitmapBlockOf, bitmap_block_id
    <3>3. QED
      BY <1>1, <1>2, <2>2, <2>5, <2>6, <2>7, <3>1, <3>2 DEF Formatting
  <2>10. QED
    BY <2>1, <2>8, <2>9
<1>6. QED
  BY <1>1, <1>3, <1>4, <1>5

(* A round of the loop leaves a device that is being formatted. *)
LEMMA RoundFormats ==
  ASSUME CrashTyped, superblock = 0, Blank, Formatting, set_reserved
  PROVE  CrashTyped' /\ superblock' = 0 /\ Blank' /\ Formatting' /\ up' = up
<1> DEFINE w == todo[1]
           block_id == BitmapBlockOf(w.at)
           buffer == NextBuffer(w)
           next == Collecting(w.at + 1, block_id, buffer)
<1>1. todo \in Seq(Writes) /\ todo # <<>> /\ TypeOK
  BY DEF set_reserved, CrashTyped
<1>2. /\ Len(todo) \in Nat \ {0} /\ Head(todo) = w /\ Tail(todo) \in Seq(Writes)
      /\ Len(Tail(todo)) = Len(todo) - 1
      /\ \A k \in 1 .. Len(todo) - 1 : Tail(todo)[k] = todo[k + 1]
  BY <1>1, HeadTailProperties, Todo
<1>3. /\ w.kind = "reserve" /\ w.at < NReserved
      /\ home' = home /\ disk' = disk /\ marked' = marked /\ superblock' = superblock
      /\ up' = up /\ crashed' = crashed /\ mapped' = mapped
      /\ used' = NextUsed(w)
      /\ todo' = <<next>> \o Tail(todo)
  <2>1. w.value.buffer \cup {w.at % BitsPerBlock} = {w.at % BitsPerBlock} \cup w.value.buffer
        /\ {w.at % BitsPerBlock} \cup {} = {w.at % BitsPerBlock}
    OBVIOUS
  <2>2. QED
    BY <1>2, <2>1 DEF set_reserved, deviceVars, NextBuffer, NextUsed
<1>4. Len(todo) = 2 /\ LoopState(w) /\ todo[2].kind = "superblock" /\ todo[2].value = MaxInodes
  <2>1. todo[Len(todo)].kind = "superblock" /\ todo[Len(todo)].value = MaxInodes
    BY DEF Formatting
  <2>2. Len(todo) # 1
    BY <1>3, <2>1
  <2>3. ~(Len(todo) > 2)
    <3>1. SUFFICES ASSUME Len(todo) > 2 PROVE FALSE
      OBVIOUS
    <3>2. 1 \in 1 .. Len(todo) - 2
      BY <1>2, <3>1
    <3>3. QED
      BY <1>3, <3>2 DEF Formatting
  <2>4. Len(todo) = 2
    BY <1>2, <2>2, <2>3
  <2>5. QED
    BY <2>1, <2>4 DEF Formatting
<1> HIDE DEF w
<1>5. /\ w.at + 1 \in 0 .. NReserved /\ block_id \in Nat /\ buffer \in SUBSET Nat
      /\ \A r \in 0 .. w.at :
           /\ BitmapBlockOf(r) <= block_id
           /\ BitmapBlockOf(r) = block_id => r % BitsPerBlock \in buffer
           /\ BitmapBlockOf(r) # block_id => r \in used'
      /\ \A r \in w.at + 1 .. NReserved - 1 : block_id <= BitmapBlockOf(r)
  BY <1>3, <1>4, RoundCollects
<1> HIDE DEF block_id, buffer
<1>6. /\ next.kind = "reserve" /\ next.at = w.at + 1
      /\ next.value = [block |-> block_id, buffer |-> buffer]
      /\ next \in Writes
  <2> PICK value : value = [block |-> block_id, buffer |-> buffer]
    OBVIOUS
  <2>1. value \in [block : Nat, buffer : SUBSET Nat] /\ w.at + 1 \in Nat
    BY <1>5, LayoutAssumption
  <2>2. next = [file |-> 0, kind |-> "reserve", at |-> w.at + 1, value |-> value]
    BY DEF Collecting, Write
  <2>3. next \in Writes
    BY <2>1, <2>2 DEF Writes, Kinds
  <2>4. QED
    BY <2>2, <2>3
<1> HIDE DEF next
<1>7. /\ todo' \in Seq(Writes) /\ Len(todo') = 2 /\ todo'[1] = next
      /\ todo'[2] = todo[2]
  <2> DEFINE s == <<next>>
             t == Tail(todo)
  <2>1. s \in Seq(Writes) /\ t \in Seq(Writes) /\ Len(s) = 1 /\ Len(t) = 1
        /\ s[1] = next /\ t[1] = todo[2] /\ 1 \in 1 .. Len(s) /\ 1 \in 1 .. Len(t)
    <3>1. s \in Seq(Writes) /\ Len(s) = 1 /\ s[1] = next
      BY <1>6
    <3>2. t \in Seq(Writes) /\ Len(t) = 1
      BY <1>2, <1>4
    <3>3. t[1] = todo[2]
      <4>1. 1 \in 1 .. Len(todo) - 1 /\ 1 + 1 = 2
        BY <1>4
      <4>2. QED
        BY <1>2, <4>1
    <3> HIDE DEF s, t
    <3>4. QED
      BY <3>1, <3>2, <3>3
  <2> HIDE DEF s, t
  <2>2. /\ s \o t \in Seq(Writes) /\ Len(s \o t) = Len(s) + Len(t)
        /\ \A k \in 1 .. Len(s) : (s \o t)[k] = s[k]
        /\ \A k \in 1 .. Len(t) : (s \o t)[Len(s) + k] = t[k]
    <3>1. s \in Seq(Writes) /\ t \in Seq(Writes)
      BY <2>1
    <3>2. QED
      BY <3>1, Joined
  <2>3. QED
    BY <1>3, <2>1, <2>2 DEF s, t
<1>8. used' \subseteq Blocks
  BY <1>1, <1>3, FlushedTyped DEF TypeOK, NextUsed
<1>9. CrashTyped'
  BY <1>1, <1>3, <1>7, <1>8 DEF CrashTyped, TypeOK, Writes, Kinds
<1>10. Blank'
  BY <1>3 DEF Blank, InodeIds, DataBlocks, Blocks, Reserved, Stale
<1>11. w.at \in Nat
  BY <1>4 DEF LoopState, Collected
<1>12. LoopState(todo[1])'
  <2>1. /\ next.kind = "reserve" /\ next.at = w.at + 1
        /\ next.value \in [block : Nat, buffer : SUBSET Nat]
        /\ next.value.block = block_id /\ next.value.buffer = buffer
    BY <1>5, <1>6
  <2>2. 0 .. (w.at + 1) - 1 = 0 .. w.at
    BY <1>11
  <2>3. /\ next.at \in 0 .. NReserved
        /\ \A r \in 0 .. next.at - 1 :
             /\ BitmapBlockOf(r) <= next.value.block
             /\ BitmapBlockOf(r) = next.value.block => r % BitsPerBlock \in next.value.buffer
             /\ BitmapBlockOf(r) # next.value.block => r \in used'
        /\ \A r \in next.at .. NReserved - 1 : next.value.block <= BitmapBlockOf(r)
    BY <1>5, <2>1, <2>2
  <2>4. QED
    BY <1>7, <2>1, <2>3 DEF LoopState, Collected, BitmapBlockOf, bitmap_block_id
<1>13. Formatting'
  BY <1>4, <1>7, <1>12 DEF Formatting
<1>14. QED
  BY <1>3, <1>9, <1>10, <1>13

(* A finite set of numbers, listed in ascending order. *)
LEMMA Ascends ==
  ASSUME NEW S \in SUBSET Nat, IsFiniteSet(S)
  PROVE  /\ Cardinality(S) \in Nat
         /\ Ascending(S) \in [1 .. Cardinality(S) -> S]
         /\ \A x \in S : \E k \in 1 .. Cardinality(S) : Ascending(S)[k] = x
<1> DEFINE n == Cardinality(S)
           f == Ascending(S)
<1>1. n \in Nat
  BY FS_CardinalityType
<1>2. ASSUME NEW k \in 1 .. n
      PROVE  f[k] \in S /\ Cardinality({y \in S : y < f[k]}) = k - 1
  <2>1. \E x \in S : Cardinality({y \in S : y < x}) = k - 1
    BY <1>2, Ranks
  <2>2. f[k] = CHOOSE x \in S : Cardinality({y \in S : y < x}) = k - 1
    BY DEF Ascending
  <2> HIDE DEF f
  <2>3. QED
    BY <2>1, <2>2
<1>3. f \in [1 .. n -> S]
  BY <1>2 DEF Ascending
<1>4. ASSUME NEW j \in 1 .. n, NEW k \in 1 .. n, f[j] = f[k]
      PROVE  j = k
  <2>1. j - 1 = k - 1
    BY <1>2, <1>4
  <2>2. QED
    BY <1>1, <2>1
<1>5. IsFiniteSet(1 .. n) /\ Cardinality(1 .. n) = n
  <2>1. 1 \in Int /\ n \in Int
    BY <1>1
  <2>2. IsFiniteSet(1 .. n) /\ Cardinality(1 .. n) = IF 1 > n THEN 0 ELSE n - 1 + 1
    BY <2>1, FS_Interval
  <2>3. QED
    BY <1>1, <2>2
<1> HIDE DEF f, n
<1>6. f \in Injection(1 .. n, S)
  BY <1>3, <1>4 DEF Injection, IsInjective
<1>7. f \in Surjection(1 .. n, S)
  BY <1>5, <1>6, FS_Injection DEF n
<1>8. QED
  BY <1>1, <1>3, <1>7 DEF Surjection, f, n

LEMMA OnEach ==
  ASSUME NEW S \in SUBSET Nat, IsFiniteSet(S), NEW kind \in Kinds
  PROVE  /\ On(kind, S) \in Seq(Writes)
         /\ \A k \in 1 .. Len(On(kind, S)) : On(kind, S)[k].kind = kind
         /\ \A x \in S : \E k \in 1 .. Len(On(kind, S)) : On(kind, S)[k].at = x
<1> DEFINE n == Cardinality(S)
<1>1. n \in Nat /\ Ascending(S) \in [1 .. n -> S]
  BY Ascends
<1>2. \A k \in 1 .. n : Ascending(S)[k] \in Nat
  BY <1>1
<1>3. On(kind, S) = [k \in 1 .. n |-> Write(0, kind, Ascending(S)[k], 0)]
  BY DEF On
<1> HIDE DEF n
<1>4. \A k \in 1 .. n : Write(0, kind, Ascending(S)[k], 0) \in Writes
  BY <1>2 DEF Write, Writes
<1>5. On(kind, S) \in [1 .. n -> Writes]
  BY <1>3, <1>4
<1>6. On(kind, S) \in Seq(Writes) /\ Len(On(kind, S)) = n
  BY <1>1, <1>5, ListOf
<1>7. \A k \in 1 .. n : On(kind, S)[k].kind = kind /\ On(kind, S)[k].at = Ascending(S)[k]
  BY <1>3 DEF Write
<1>8. QED
  BY <1>6, <1>7, Ascends DEF n

LEMMA RegionsFinite ==
  /\ region.table \cup region.inodeBitmap \cup region.blockBitmap \in SUBSET Nat
  /\ IsFiniteSet(region.table \cup region.inodeBitmap \cup region.blockBitmap)
<1> DEFINE t == 1 + n_table_blocks(max_inode_supported(Requested))
           b == get_reserved_blocks(max_inode_supported(Requested),
                                    n_bitmap_blocks(Requested))
           d == b + total_bitmap_block(NBlocks)
<1>1. t \in Nat /\ b \in Nat /\ d \in Nat
  <2>1. Requested \in Nat /\ NBlocks \in Nat
    BY FormatAssumption, LayoutAssumption
  <2>2. /\ n_table_blocks(max_inode_supported(Requested)) \in Nat
        /\ n_bitmap_blocks(Requested) \in Nat
        /\ total_bitmap_block(NBlocks) \in Nat
    BY <2>1, Sizes, BitmapIsEnough
  <2>3. b = 1 + n_table_blocks(max_inode_supported(Requested)) + n_bitmap_blocks(Requested)
    BY DEF get_reserved_blocks
  <2>4. QED
    BY <2>2, <2>3
<1>2. /\ region.table = 1 .. t - 1 /\ region.inodeBitmap = t .. b - 1
      /\ region.blockBitmap = b .. d - 1
  BY DEF region, Formatted, Regions
<1> HIDE DEF t, b, d
<1>3. t - 1 \in Int /\ b - 1 \in Int /\ d - 1 \in Int /\ 1 \in Int /\ t \in Int /\ b \in Int
  BY <1>1
<1>4. IsFiniteSet(1 .. t - 1) /\ IsFiniteSet(t .. b - 1) /\ IsFiniteSet(b .. d - 1)
  BY <1>3, FS_Interval
<1>5. IsFiniteSet(region.table \cup region.inodeBitmap)
  BY <1>2, <1>4, FS_Union
<1>6. IsFiniteSet(region.table \cup region.inodeBitmap \cup region.blockBitmap)
  BY <1>2, <1>4, <1>5, FS_Union
<1>7. region.table \cup region.inodeBitmap \cup region.blockBitmap \in SUBSET Nat
  BY <1>1, <1>2
<1>8. QED
  BY <1>6, <1>7

LEMMA FormatBegins ==
  ASSUME CrashTyped, Blank, format
  PROVE  CrashTyped' /\ superblock' = 0 /\ Blank' /\ Formatting'
<1> DEFINE Z == region.table \cup region.inodeBitmap \cup region.blockBitmap
           zeros == On("zero", Z)
           loop == Collecting(0, bitmap_block_id, {})
           last == Write(0, "superblock", 0, MaxInodes)
           rest == <<loop, last>>
<1>1. /\ todo' = zeros \o rest /\ superblock = 0 /\ up' = TRUE /\ mapped
      /\ used' = used /\ home' = home /\ disk' = disk /\ marked' = marked
      /\ superblock' = superblock /\ crashed' = crashed /\ mapped' = mapped
  BY DEF format, format_writes, imageVars, deviceVars
<1>2. Z \in SUBSET Nat /\ IsFiniteSet(Z)
  BY RegionsFinite
<1>3. /\ zeros \in Seq(Writes)
      /\ \A k \in 1 .. Len(zeros) : zeros[k].kind = "zero"
  <2> HIDE DEF Z
  <2>1. "zero" \in Kinds
    BY DEF Kinds
  <2>2. QED
    BY <1>2, <2>1, OnEach
<1> HIDE DEF zeros, Z
<1>4. last \in Writes /\ last.kind = "superblock" /\ last.value = MaxInodes
  BY LayoutAssumption DEF Write, Writes, Kinds
<1>5. loop \in Writes /\ LoopState(loop) /\ loop.at = 0
  BY LoopBegins DEF Collecting, Write
<1> HIDE DEF last, loop
<1>6. /\ rest \in Seq(Writes) /\ Len(rest) = 2 /\ rest[1] = loop /\ rest[2] = last
      /\ 1 \in 1 .. Len(rest) /\ 2 \in 1 .. Len(rest)
  BY <1>4, <1>5
<1> HIDE DEF rest
<1>7. /\ todo' \in Seq(Writes) /\ Len(zeros) \in Nat /\ Len(todo') = Len(zeros) + 2
      /\ \A k \in 1 .. Len(zeros) : todo'[k] = zeros[k]
      /\ todo'[Len(zeros) + 1] = loop /\ todo'[Len(zeros) + 2] = last
  <2>1. /\ zeros \o rest \in Seq(Writes) /\ Len(zeros) \in Nat
        /\ Len(zeros \o rest) = Len(zeros) + Len(rest)
        /\ \A k \in 1 .. Len(zeros) : (zeros \o rest)[k] = zeros[k]
        /\ \A k \in 1 .. Len(rest) : (zeros \o rest)[Len(zeros) + k] = rest[k]
    <3>1. zeros \in Seq(Writes) /\ rest \in Seq(Writes)
      BY <1>3, <1>6
    <3>2. QED
      BY <3>1, Joined
  <2>2. QED
    BY <1>1, <1>6, <2>1
<1>8. CrashTyped'
  BY <1>1, <1>7 DEF CrashTyped, TypeOK, Writes, Kinds
<1>9. Blank'
  BY <1>1 DEF Blank
<1>10. /\ Len(todo') > 1 /\ todo'[Len(todo')] = last /\ todo'[Len(todo') - 1] = loop
       /\ \A k \in 1 .. Len(todo') - 2 : todo'[k].kind = "zero"
  <2>1. /\ Len(todo') - 1 = Len(zeros) + 1 /\ Len(todo') - 2 = Len(zeros)
    BY <1>7
  <2>2. QED
    BY <1>3, <1>7, <2>1
<1>11. LoopState(todo[Len(todo) - 1])'
  BY <1>1, <1>5, <1>10 DEF LoopState, Collected, BitmapBlockOf, bitmap_block_id
<1>12. Formatting'
  <2>1. Len(todo') \in Nat
    BY <1>7
  <2>2. QED
    BY <1>4, <1>5, <1>10, <1>11, <2>1 DEF Formatting
<1>13. QED
  BY <1>1, <1>8, <1>9, <1>12

-----------------------------------------------------------------------------
(* Where a call that begins leads to.                                       *)

Has(kind, at) == \E k \in 1 .. Len(todo) : todo[k].kind = kind /\ todo[k].at = at

SettledImage ==
  /\ SettledUsed = {b \in Blocks : (b \in used \/ Has("set", b)) /\ ~Has("clear", b)}
  /\ SettledMarked =
       {id \in InodeIds : (id \in marked \/ Has("mark", id)) /\ ~Has("unmark", id)}
  /\ SettledHome = [id \in InodeIds |-> SettledHome[id]]
  /\ \A k \in 1 .. Len(todo) : todo[k].kind = "entry" /\ todo[k].at \in InodeIds =>
       SettledHome[todo[k].at] = todo[k].value
  /\ \A id \in InodeIds : ~Has("entry", id) => SettledHome[id] = home[id]
  /\ SettledDisk = [b \in DataBlocks |-> SettledDisk[b]]
  /\ \A k \in 1 .. Len(todo) : todo[k].kind = "block" /\ todo[k].at \in DataBlocks =>
       SettledDisk[todo[k].at] = todo[k].value
  /\ \A b \in DataBlocks : ~Has("block", b) =>
       SettledDisk[b] = IF Has("clear", b) THEN Stale ELSE disk[b]

LEMMA LeadsTo == TodoTyped /\ PendingApart => SettledImage
<1> SUFFICES ASSUME TodoTyped, PendingApart PROVE SettledImage
  OBVIOUS
<1>1. DOMAIN todo = 1 .. Len(todo) /\ OnePending
  BY Todo, OnlyPending DEF TodoTyped
<1>2. \A kind, at : Pending(kind, at) # {} <=> Has(kind, at)
  BY <1>1 DEF Pending, Has
<1>3. /\ SettledUsed = {b \in Blocks : (b \in used \/ Has("set", b)) /\ ~Has("clear", b)}
      /\ SettledMarked =
           {id \in InodeIds : (id \in marked \/ Has("mark", id)) /\ ~Has("unmark", id)}
  BY <1>2 DEF SettledUsed, SettledMarked
<1>4. \A k \in 1 .. Len(todo) : k \in Pending(todo[k].kind, todo[k].at)
  BY <1>1 DEF Pending
<1>5. \A k \in 1 .. Len(todo) : todo[k].kind \in {"entry", "block"} =>
        PendingValue(todo[k].kind, todo[k].at) = todo[k].value
  BY <1>1, <1>4 DEF OnePending
<1>6. SettledHome = [id \in InodeIds |-> IF Has("entry", id) THEN PendingValue("entry", id)
                                         ELSE home[id]]
  BY <1>2 DEF SettledHome
<1>7. SettledDisk = [b \in DataBlocks |->
                       IF Has("block", b) THEN PendingValue("block", b)
                       ELSE IF Has("clear", b) THEN Stale ELSE disk[b]]
  BY <1>2 DEF SettledDisk
<1>8. \A k \in 1 .. Len(todo) : Has(todo[k].kind, todo[k].at)
  BY DEF Has
<1> HIDE DEF Has
<1>9. /\ SettledHome = [id \in InodeIds |-> SettledHome[id]]
      /\ \A id \in InodeIds : ~Has("entry", id) => SettledHome[id] = home[id]
      /\ \A k \in 1 .. Len(todo) : todo[k].kind = "entry" /\ todo[k].at \in InodeIds =>
           SettledHome[todo[k].at] = todo[k].value
  BY <1>5, <1>6, <1>8
<1>10. /\ SettledDisk = [b \in DataBlocks |-> SettledDisk[b]]
       /\ \A k \in 1 .. Len(todo) : todo[k].kind = "block" /\ todo[k].at \in DataBlocks =>
            SettledDisk[todo[k].at] = todo[k].value
       /\ \A b \in DataBlocks : ~Has("block", b) =>
            SettledDisk[b] = IF Has("clear", b) THEN Stale ELSE disk[b]
  BY <1>5, <1>7, <1>8
<1>11. QED
  BY <1>3, <1>9, <1>10 DEF SettledImage

LEMMA LeadsToNext == TodoTyped' /\ PendingApart' => SettledImage'
  BY LeadsTo, PTL

LEMMA AtRest ==
  ASSUME CrashTyped, Working, todo = <<>>
  PROVE  Settled /\ IInv /\ \A id \in Live : id \in marked
<1>1. Len(todo) = 0
  OBVIOUS
<1>2. Settled
  BY NothingPending DEF CrashTyped
<1>3. IInv
  BY <1>1 DEF Working, Exposed, LastExposes
<1>4. QED
  BY <1>2, <1>3 DEF Working, MarksKept

(* Where a call that begins leads to. *)
Amounts(u, h, d, m) ==
  SettledUsed' = u /\ SettledHome' = h /\ SettledDisk' = d /\ SettledMarked' = m

(* A call begins: nothing is written yet. *)
Starts ==
  /\ todo = <<>> /\ UNCHANGED <<imageVars, up, crashed, mapped>>
  /\ todo' \in Seq(Writes) /\ PendingTyped'

LEMMA StartLeads ==
  ASSUME CrashTyped, Working, Starts
  PROVE  /\ SettledImage' /\ IInv' /\ Live' = Live /\ up' \in BOOLEAN
         /\ SettledUsed = used /\ SettledHome = home /\ SettledDisk = disk
         /\ Settled /\ IInv /\ \A id \in Live : id \in marked /\ BlocksOf(id)' = BlocksOf(id)
<1>1. /\ used' = used /\ home' = home /\ disk' = disk /\ up' = up
  BY DEF Starts, imageVars
<1>2. Settled /\ IInv /\ \A id \in Live : id \in marked
  BY AtRest DEF Starts
<1>3. up' \in BOOLEAN
  BY <1>1 DEF CrashTyped, TypeOK
<1>4. IInv' /\ Live' = Live /\ \A id \in Live : BlocksOf(id)' = BlocksOf(id)
  <2>1. TypeOK'
    BY <1>1 DEF CrashTyped, TypeOK
  <2>2. \A i \in Live : \A b \in BlocksOf(i) : b \in used' /\ disk'[b] = disk[b]
    BY <1>1, <1>2, BlocksDiffer
  <2>3. QED
    BY <1>1, <1>2, <2>1, <2>2, NoFileChanges DEF IInv
<1>5. SettledImage'
  BY LeadsToNext DEF Starts, TodoTyped, PendingTyped
<1>6. QED
  BY <1>2, <1>3, <1>4, <1>5 DEF Settled

LEMMA StartWorks ==
  ASSUME CrashTyped, Working, Starts, MarksKept', W!IInv', MadeForOne', Exposed'
  PROVE  CrashTyped' /\ superblock' = superblock /\ Working'
<1>1. /\ used' = used /\ home' = home /\ disk' = disk /\ up' = up
      /\ marked' = marked /\ superblock' = superblock
      /\ crashed' = crashed /\ mapped' = mapped /\ todo' \in Seq(Writes)
  BY DEF Starts, imageVars
<1>2. CrashTyped'
  BY <1>1 DEF CrashTyped, TypeOK, Writes, Kinds
<1>3. InodesShaped' /\ Reserved \subseteq used'
  BY <1>1 DEF Working, InodesShaped, InodeShaped
<1>4. QED
  BY <1>1, <1>2, <1>3 DEF Working, Starts, Reserved

-----------------------------------------------------------------------------
(* Each call begins with writes that lead to what FileOperation makes of    *)
(* it.                                                                      *)

LEMMA CreateWorks ==
  ASSUME CrashTyped, Working, NEW type \in Types, Free # {}, Unmarked # {},
         todo = <<>>, UNCHANGED <<imageVars, up, crashed, mapped>>,
         todo' = alloc_writes(type, NextId)
  PROVE  /\ CrashTyped' /\ superblock' = superblock /\ Working'
         /\ Amounts(used \cup {NthFree(1)}, [home EXCEPT ![NextId] = NthFree(1)],
                    [disk EXCEPT ![NthFree(1)] = EmptyInode(type)], marked \cup {NextId})
<1>1. /\ used' = used /\ home' = home /\ disk' = disk /\ marked' = marked
      /\ Settled /\ IInv /\ \A i \in Live : i \in marked
  BY AtRest DEF imageVars
<1>2. PICK id \in InodeIds :
        id = NextId /\ id \notin marked /\ todo' = alloc_writes(type, id)
  <2>1. NextId \in Unmarked
    <3>1. \E i \in Unmarked : \A j \in Unmarked : i <= j
      BY LowestOfIds DEF Unmarked
    <3>2. QED
      BY <3>1 DEF NextId
  <2>2. QED
    BY <2>1 DEF Unmarked
<1>3. id \notin Live /\ id \in FreeIds
  BY <1>1, <1>2 DEF Live, FreeIds
<1>4. PICK b \in DataBlocks :
        /\ b = NthFree(1) /\ b \notin used /\ b # KInvalidBlockID
        /\ todo' = <<Write(id, "set", b, 0), Write(id, "mark", id, 0),
                     Write(id, "block", b, EmptyInode(type)), Write(id, "entry", id, b)>>
  <2>1. 1 \in 1 .. Cardinality(Free)
    BY FreeIsFinite, FS_EmptySet
  <2>2. NthFree(1) \in DataBlocks /\ NthFree(1) \notin used /\ NthFree(1) # KInvalidBlockID
    BY <1>1, <2>1, FreeBlocksAreData
  <2>3. QED
    BY <1>2, <2>2 DEF alloc_writes
<1>5. /\ EmptyInode(type) \in Inodes /\ InodeShaped(EmptyInode(type))
      /\ EmptyInode(type).kind = "inode"
  <2>1. EmptyInode(type) \in Inodes
    BY EmptyInodeTyped
  <2>2. EmptyInode(type).size = 0 /\ EmptyInode(type).kind = "inode"
        /\ \A idx \in 0 .. NDirect : EmptyInode(type).blocks[idx] = KInvalidBlockID
    BY DEF EmptyInode, InodeBlock
  <2>3. calculate_block_sz(0) = 0
    BY BlockCount
  <2>4. InodeShaped(EmptyInode(type))
    BY <2>2, <2>3, LayoutAssumption DEF InodeShaped
  <2>5. QED
    BY <2>1, <2>2, <2>4
<1> DEFINE value == EmptyInode(type)
<1>6. /\ Len(todo') = 4
      /\ todo'[1] = Write(id, "set", b, 0) /\ todo'[2] = Write(id, "mark", id, 0)
      /\ todo'[3] = Write(id, "block", b, value) /\ todo'[4] = Write(id, "entry", id, b)
  BY <1>4
<1>7. b \in Nat /\ b \in Blocks /\ id \in Nat /\ b \notin Reserved
  BY LayoutAssumption DEF DataBlocks, Blocks, InodeIds
<1>8. todo' \in Seq(Writes)
  <2> HIDE DEF value
  <2>1. /\ Write(id, "set", b, 0) \in Writes /\ Write(id, "mark", id, 0) \in Writes
        /\ Write(id, "block", b, value) \in Writes /\ Write(id, "entry", id, b) \in Writes
    BY <1>5, <1>7 DEF Write, Writes, Kinds, value
  <2>2. QED
    BY <1>4, <2>1 DEF value
<1> HIDE DEF value
<1>9. /\ todo'[1].kind = "set" /\ todo'[1].at = b
      /\ todo'[2].kind = "mark" /\ todo'[2].at = id
      /\ todo'[3].kind = "block" /\ todo'[3].at = b /\ todo'[3].value = value
      /\ todo'[4].kind = "entry" /\ todo'[4].at = id /\ todo'[4].value = b
  BY <1>6 DEF Write
<1>10. \A k \in 1 .. Len(todo') : k = 1 \/ k = 2 \/ k = 3 \/ k = 4
  BY <1>6
<1>11. PendingTyped'
  <2>1. \A k \in 1 .. Len(todo') : WriteTyped(todo'[k])
    BY <1>5, <1>7, <1>9, <1>10 DEF WriteTyped, value
  <2>2. PendingApart'
    BY <1>9, <1>10 DEF PendingApart
  <2>3. QED
    BY <2>1, <2>2 DEF PendingTyped, WriteTyped, Blocks, DataBlocks, Reserved, InodeIds,
                      InodeShaped
<1>12. Starts
  BY <1>8, <1>11 DEF Starts
<1>13. /\ SettledImage' /\ up' \in BOOLEAN
       /\ SettledUsed = used /\ SettledHome = home /\ SettledDisk = disk
  BY <1>12, StartLeads
<1>14. /\ \A kind, at :
            Has(kind, at)' <=>
              \/ kind = "set" /\ at = b
              \/ kind = "mark" /\ at = id
              \/ kind = "block" /\ at = b
              \/ kind = "entry" /\ at = id
       /\ 3 \in 1 .. Len(todo') /\ 4 \in 1 .. Len(todo')
  BY <1>6, <1>9, <1>10 DEF Has
<1>15. SettledUsed' = used \cup {b}
  <2>1. SettledUsed' = {x \in Blocks : (x \in used' \/ Has("set", x)') /\ ~Has("clear", x)'}
    BY <1>13 DEF SettledImage, Blocks
  <2>2. used \subseteq Blocks
    BY DEF CrashTyped, TypeOK
  <2>3. \A x : (Has("set", x)' <=> x = b) /\ ~Has("clear", x)'
    BY <1>14
  <2>4. QED
    BY <1>1, <1>7, <2>1, <2>2, <2>3
<1>16. SettledHome' = [home EXCEPT ![id] = b]
  <2>1. /\ SettledHome' = [i \in InodeIds |-> SettledHome'[i]]
        /\ SettledHome'[id] = b
        /\ \A i \in InodeIds : ~Has("entry", i)' => SettledHome'[i] = home'[i]
    BY <1>9, <1>13, <1>14 DEF SettledImage, InodeIds
  <2>2. home \in [InodeIds -> {KInvalidBlockID} \cup DataBlocks]
    BY DEF CrashTyped, TypeOK
  <2>3. QED
    BY <1>1, <1>14, <2>1, <2>2
<1>17. SettledDisk' = [disk EXCEPT ![b] = value]
  <2>1. /\ SettledDisk' = [x \in DataBlocks |-> SettledDisk'[x]]
        /\ SettledDisk'[b] = value
        /\ \A x \in DataBlocks : ~Has("block", x)' =>
             SettledDisk'[x] = IF Has("clear", x)' THEN Stale ELSE disk'[x]
    BY <1>9, <1>13, <1>14 DEF SettledImage, DataBlocks, Blocks, Reserved, Stale
  <2>2. DOMAIN disk = DataBlocks /\ disk = [x \in DataBlocks |-> disk[x]]
    BY DEF CrashTyped, TypeOK
  <2>3. QED
    BY <1>1, <1>14, <2>1, <2>2
<1>18. SettledMarked' = marked \cup {id}
  <2>1. SettledMarked' = {i \in InodeIds : (i \in marked' \/ Has("mark", i)') /\ ~Has("unmark", i)'}
    BY <1>13 DEF SettledImage, InodeIds
  <2>2. marked \subseteq InodeIds
    BY DEF CrashTyped
  <2>3. QED
    BY <1>1, <1>14, <2>1, <2>2
<1>19. W!IInv'
  <2>1. /\ W!IInv /\ id \in W!FreeIds /\ b \in W!DataBlocks \ SettledUsed
        /\ value = W!EmptyInode(type)
    <3>1. W!IInv
      BY DEF Working
    <3>2. W!EmptyInode(type) = value
      BY SameConstants DEF value, EmptyInode, W!EmptyInode, InodeBlock, W!InodeBlock
    <3>3. id \in W!FreeIds
      BY <1>3, <1>13, SameConstants DEF FreeIds, W!FreeIds
    <3>4. QED
      BY <1>4, <1>13, <3>1, <3>2, <3>3, SameConstants
  <2>2. QED
    BY <1>13, <1>15, <1>16, <1>17, <2>1, W!FileMade, MemoryFits, LayoutAssumption
<1>20. MadeForOne'
  <2>1. SettledHome'[id] = b
    <3>1. home \in [InodeIds -> {KInvalidBlockID} \cup DataBlocks]
      BY DEF CrashTyped, TypeOK
    <3>2. QED
      BY <1>16, <3>1
  <2>2. id \in W!Live' /\ b \in W!BlocksOf(id)'
    BY <1>4, <2>1, SameConstants DEF W!Live, W!BlocksOf, W!InodeIds, InodeIds,
                                     KInvalidBlockID, W!KInvalidBlockID
  <2>3. \A k \in 1 .. Len(todo') : todo'[k].file = id
    BY <1>6, <1>10 DEF Write
  <2>4. MadeFor(id)'
    BY <1>9, <1>10, <2>2, <2>3 DEF MadeFor
  <2>5. QED
    BY <2>4 DEF MadeForOne, InodeIds
<1>21. MarksKept'
  <2>1. Live' = Live
    BY <1>1 DEF Live, InodeIds
  <2>2. 2 \in 1 .. 4 - 1
    OBVIOUS
  <2>3. QED
    BY <1>1, <1>9, <1>10, <2>1, <2>2 DEF MarksKept
<1>22. Exposed'
  <2>1. /\ IInv' /\ Live' = Live
        /\ \A i \in Live : BlocksOf(i)' = BlocksOf(i) /\ BlocksOf(i) \subseteq used
    BY <1>1, <1>12, StartLeads, BlocksDiffer
  <2>2. \A k \in 1 .. Len(todo') - 1 : k = 1 \/ k = 2 \/ k = 3
    BY <1>6
  <2>3. \A i \in Live' : b \notin BlocksOf(i)'
    BY <1>4, <2>1
  <2>4. Harmless(1)' /\ Harmless(2)' /\ Harmless(3)'
    BY <1>9, <2>3 DEF Harmless
  <2>5. QED
    BY <2>1, <2>2, <2>4 DEF Exposed
<1>23. Amounts(used \cup {NthFree(1)}, [home EXCEPT ![NextId] = NthFree(1)],
               [disk EXCEPT ![NthFree(1)] = EmptyInode(type)], marked \cup {NextId})
  BY <1>2, <1>4, <1>15, <1>16, <1>17, <1>18 DEF Amounts, value
<1>24. QED
  BY <1>12, <1>19, <1>20, <1>21, <1>22, <1>23, StartWorks

(* A call that fails after it took blocks: all it writes is their bits.     *)
TakesOnly(f, bits) ==
  /\ \A k \in 1 .. Len(todo') :
       todo'[k].kind = "set" /\ todo'[k].at \in bits /\ todo'[k].file = f
  /\ \A b \in bits \ used : \E k \in 1 .. Len(todo') : todo'[k].at = b

LEMMA TakingWorks ==
  ASSUME CrashTyped, Working,
         todo = <<>>, UNCHANGED <<imageVars, up, crashed, mapped>>,
         todo' \in Seq(Writes), NEW f \in {0} \cup InodeIds, NEW bits \in SUBSET Blocks,
         TakesOnly(f, bits)
  PROVE  /\ CrashTyped' /\ superblock' = superblock /\ Working'
         /\ Amounts(used \cup bits, home, disk, marked)
<1> USE DEF TakesOnly
<1>1. /\ used' = used /\ home' = home /\ disk' = disk /\ marked' = marked
      /\ IInv /\ \A i \in Live : i \in marked
  BY AtRest DEF imageVars
<1>2. PendingTyped'
  <2>1. \A k \in 1 .. Len(todo') : WriteTyped(todo'[k])
    BY DEF WriteTyped
  <2>2. PendingApart'
    BY DEF PendingApart
  <2>3. QED
    BY <2>1, <2>2 DEF PendingTyped, WriteTyped, Blocks, DataBlocks, Reserved, InodeIds,
                      InodeShaped
<1>3. Starts
  BY <1>2 DEF Starts
<1>4. W!IInv' /\ Amounts(used \cup bits, home, disk, marked)
  <2>1. /\ SettledImage' /\ up' \in BOOLEAN
        /\ SettledUsed = used /\ SettledHome = home /\ SettledDisk = disk
    BY <1>3, StartLeads
  <2>2. /\ \A kind, at : Has(kind, at)' => kind = "set" /\ at \in bits
        /\ \A b \in bits \ used : Has("set", b)'
    BY DEF Has
  <2>3. SettledUsed' = used \cup bits
    <3>1. SettledUsed' = {x \in Blocks : (x \in used' \/ Has("set", x)') /\ ~Has("clear", x)'}
      BY <2>1 DEF SettledImage, Blocks
    <3>2. used \subseteq Blocks
      BY DEF CrashTyped, TypeOK
    <3>3. QED
      BY <1>1, <2>2, <3>1, <3>2
  <2>4. SettledHome' = home
    <3>1. /\ SettledHome' = [i \in InodeIds |-> SettledHome'[i]]
          /\ \A i \in InodeIds : ~Has("entry", i)' => SettledHome'[i] = home'[i]
      BY <2>1 DEF SettledImage, InodeIds
    <3>2. home = [i \in InodeIds |-> home[i]]
      BY DEF CrashTyped, TypeOK
    <3>3. QED
      BY <1>1, <2>2, <3>1, <3>2
  <2>5. SettledDisk' = disk
    <3>1. /\ SettledDisk' = [x \in DataBlocks |-> SettledDisk'[x]]
          /\ \A x \in DataBlocks : ~Has("block", x)' =>
               SettledDisk'[x] = IF Has("clear", x)' THEN Stale ELSE disk'[x]
      BY <2>1 DEF SettledImage, DataBlocks, Blocks, Reserved, Stale
    <3>2. disk = [x \in DataBlocks |-> disk[x]]
      BY DEF CrashTyped, TypeOK
    <3>3. QED
      BY <1>1, <2>2, <3>1, <3>2
  <2>6. SettledMarked' = marked
    <3>1. SettledMarked' = {i \in InodeIds : (i \in marked' \/ Has("mark", i)') /\ ~Has("unmark", i)'}
      BY <2>1 DEF SettledImage, InodeIds
    <3>2. marked \subseteq InodeIds
      BY DEF CrashTyped
    <3>3. QED
      BY <1>1, <2>2, <3>1, <3>2
  <2>7. W!IInv /\ SettledUsed \subseteq SettledUsed' /\ SettledUsed' \subseteq W!Blocks
    <3>1. used \subseteq Blocks
      BY DEF CrashTyped, TypeOK
    <3>2. QED
      BY <2>1, <2>3, <3>1, SameConstants DEF Working
  <2>8. W!IInv'
    BY <2>1, <2>4, <2>5, <2>7, W!OnlyMarks, MemoryFits, LayoutAssumption
  <2>9. QED
    BY <2>3, <2>4, <2>5, <2>6, <2>8 DEF Amounts
<1>5. MarksKept'
  <2>1. Live' = Live
    BY <1>1 DEF Live, InodeIds
  <2>2. QED
    BY <1>1, <2>1 DEF MarksKept
<1>6. Exposed'
  <2>1. IInv' /\ Len(todo') \in Nat
    BY <1>3, StartLeads
  <2>2. \A k \in 1 .. Len(todo') - 1 : Harmless(k)'
    <3>1. ASSUME NEW k \in 1 .. Len(todo') - 1 PROVE Harmless(k)'
      <4>1. todo'[k].kind = "set"
        BY <2>1
      <4>2. QED
        BY <4>1 DEF Harmless
    <3>2. QED
      BY <3>1
  <2>3. QED
    BY <2>1, <2>2 DEF Exposed
<1>7. MadeForOne'
  BY DEF MadeForOne, MadeFor, InodeIds
<1>8. QED
  BY <1>3, <1>4, <1>5, <1>6, <1>7, StartWorks

LEMMA CreateFailsWorks ==
  ASSUME CrashTyped, Working, Free # {},
         todo = <<>>, UNCHANGED <<imageVars, up, crashed, mapped>>,
         todo' = <<Write(0, "set", NthFree(1), 0)>>
  PROVE  /\ CrashTyped' /\ superblock' = superblock /\ Working'
         /\ Amounts(used \cup {NthFree(1)}, home, disk, marked)
<1>1. PICK b \in Blocks :
        b = NthFree(1) /\ todo' = <<Write(0, "set", b, 0)>> /\ b \in Nat
  <2>1. 1 \in 1 .. Cardinality(Free)
    BY FreeIsFinite, FS_EmptySet
  <2>2. NthFree(1) \in Free
    BY <2>1, NthFreeIsFree
  <2>3. QED
    BY <2>2, LayoutAssumption DEF Free, Blocks
<1>2. Write(0, "set", b, 0) \in Writes /\ Write(0, "set", b, 0).kind = "set"
      /\ Write(0, "set", b, 0).at = b /\ Write(0, "set", b, 0).file = 0
  BY <1>1 DEF Write, Writes, Kinds
<1>3. /\ todo' \in Seq(Writes) /\ Len(todo') = 1 /\ todo'[1] = Write(0, "set", b, 0)
  BY <1>1, <1>2
<1> PICK bits : bits = {b}
  OBVIOUS
<1>4. /\ \A k \in 1 .. Len(todo') :
           todo'[k].kind = "set" /\ todo'[k].at \in bits /\ todo'[k].file = 0
      /\ \A x \in bits \ used : \E k \in 1 .. Len(todo') : todo'[k].at = x
      /\ bits \in SUBSET Blocks /\ 0 \in {0} \cup InodeIds
  <2>1. 1 \in 1 .. Len(todo') /\ \A k \in 1 .. Len(todo') : k = 1
    BY <1>3
  <2>2. QED
    BY <1>2, <1>3, <2>1
<1>5. todo' \in Seq(Writes)
  BY <1>3
<1>6. TakesOnly(0, bits)
  BY <1>4 DEF TakesOnly
<1>7. QED
  BY <1>1, <1>4, <1>5, <1>6, TakingWorks

(* The writes of the bits of listed blocks. *)
LEMMA BitsOfList ==
  ASSUME NEW file \in {0} \cup InodeIds, NEW kind \in Kinds, NEW list,
         Len(list) \in Nat, DOMAIN list = 1 .. Len(list),
         \A k \in 1 .. Len(list) : list[k] \in Nat
  PROVE  /\ Bits(file, kind, list) \in Seq(Writes)
         /\ Len(Bits(file, kind, list)) = Len(list)
         /\ \A k \in 1 .. Len(list) : /\ Bits(file, kind, list)[k].kind = kind
                                      /\ Bits(file, kind, list)[k].at = list[k]
                                      /\ Bits(file, kind, list)[k].file = file
<1> DEFINE n == Len(list)
<1>1. Bits(file, kind, list) = [k \in 1 .. n |-> Write(file, kind, list[k], 0)]
  BY DEF Bits
<1> HIDE DEF n
<1>2. \A k \in 1 .. n : Write(file, kind, list[k], 0) \in Writes
  BY DEF Write, Writes, n
<1>3. Bits(file, kind, list) \in [1 .. n -> Writes] /\ n \in Nat
  BY <1>1, <1>2 DEF n
<1>4. Bits(file, kind, list) \in Seq(Writes) /\ Len(Bits(file, kind, list)) = n
  BY <1>3, ListOf
<1>5. \A k \in 1 .. n : Bits(file, kind, list)[k] = Write(file, kind, list[k], 0)
  BY <1>1
<1>6. ASSUME NEW k \in 1 .. n
      PROVE  /\ Bits(file, kind, list)[k].kind = kind
             /\ Bits(file, kind, list)[k].at = list[k]
             /\ Bits(file, kind, list)[k].file = file
  <2>1. Bits(file, kind, list)[k]
          = [file |-> file, kind |-> kind, at |-> list[k], value |-> 0]
    BY <1>5 DEF Write
  <2>2. QED
    BY <2>1
<1>7. QED
  BY <1>4, <1>6 DEF n

LEMMA RemoveWorks ==
  ASSUME CrashTyped, Working, NEW id \in InodeIds, Readable(id), ~HasIndirect(id),
         todo = <<>>, UNCHANGED <<imageVars, up, crashed, mapped>>,
         todo' = remove_writes(id)
  PROVE  /\ CrashTyped' /\ superblock' = superblock /\ Working'
         /\ Amounts(Removed(id).used, Removed(id).home, Removed(id).disk, marked \ {id})
<1>1. /\ used' = used /\ home' = home /\ disk' = disk /\ marked' = marked
      /\ Settled /\ IInv /\ \A i \in Live : i \in marked
  BY AtRest DEF imageVars
<1>2. id \in Live
  BY ReadableIsLive
<1>3. /\ Distinct(FreeSet(id)) /\ BlocksOf(id) \subseteq used \cap DataBlocks
      /\ BlocksOf(id) = {FreeSet(id)[k] : k \in 1 .. Len(FreeSet(id))}
      /\ FreedOf(FreeSet(id)) = BlocksOf(id)
  BY <1>1, <1>2, RemoveFrees, BlocksDiffer
<1> PICK list : list = FreeSet(id)
  OBVIOUS
<1> PICK B : B = BlocksOf(id)
  OBVIOUS
<1> DEFINE n == Len(list)
           entry == Write(id, "entry", id, KInvalidBlockID)
           unmark == Write(id, "unmark", id, 0)
           first == <<entry, unmark>>
           rest == Bits(id, "clear", list)
<1>4. /\ n \in Nat /\ DOMAIN list = 1 .. n /\ \A k \in 1 .. n : list[k] \in B
      /\ \A j, k \in 1 .. n : list[j] = list[k] => j = k
      /\ \A b \in B : \E k \in 1 .. n : list[k] = b
      /\ B \subseteq used /\ B \subseteq DataBlocks
  BY <1>3 DEF Distinct
<1>5. \A b \in DataBlocks : b \in Nat /\ b \in Blocks
  BY LayoutAssumption DEF DataBlocks, Blocks
<1>6. /\ rest \in Seq(Writes) /\ Len(rest) = n
      /\ \A k \in 1 .. n :
           rest[k].kind = "clear" /\ rest[k].at = list[k] /\ rest[k].file = id
  <2>1. "clear" \in Kinds /\ \A k \in 1 .. n : list[k] \in Nat
    BY <1>4, <1>5 DEF Kinds
  <2>2. Len(list) \in Nat /\ DOMAIN list = 1 .. Len(list)
    BY <1>4
  <2>3. id \in {0} \cup InodeIds
    OBVIOUS
  <2>4. QED
    BY <2>1, <2>2, <2>3, BitsOfList
<1> HIDE DEF rest, n
<1>7. /\ entry \in Writes /\ unmark \in Writes /\ id \in Nat
      /\ entry.kind = "entry" /\ entry.at = id /\ entry.value = KInvalidBlockID
      /\ unmark.kind = "unmark" /\ unmark.at = id
      /\ entry.file = id /\ unmark.file = id
  <2>1. id \in Nat
    BY LayoutAssumption DEF InodeIds
  <2>2. QED
    BY <2>1 DEF Write, Writes, Kinds, KInvalidBlockID
<1> HIDE DEF entry, unmark
<1>8. first \in Seq(Writes) /\ Len(first) = 2 /\ first[1] = entry /\ first[2] = unmark
  BY <1>7
<1> HIDE DEF first
<1>9. todo' = first \o rest
  BY DEF remove_writes, first, rest, entry, unmark
<1>10. /\ todo' \in Seq(Writes) /\ Len(todo') = 2 + n
       /\ todo'[1] = entry /\ todo'[2] = unmark
       /\ \A k \in 1 .. Len(todo') :
            k = 1 \/ k = 2 \/ (k - 2 \in 1 .. n /\ todo'[k] = rest[k - 2])
       /\ \A k \in 1 .. n : 2 + k \in 1 .. Len(todo') /\ todo'[2 + k] = rest[k]
       /\ 1 \in 1 .. Len(todo') /\ 2 \in 1 .. Len(todo')
  <2>1. /\ first \o rest \in Seq(Writes) /\ Len(first \o rest) = Len(first) + Len(rest)
        /\ \A k \in 1 .. Len(first \o rest) :
             \/ k \in 1 .. Len(first) /\ (first \o rest)[k] = first[k]
             \/ k - Len(first) \in 1 .. Len(rest) /\ (first \o rest)[k] = rest[k - Len(first)]
        /\ \A k \in 1 .. Len(first) : /\ k \in 1 .. Len(first \o rest)
                                      /\ (first \o rest)[k] = first[k]
        /\ \A k \in 1 .. Len(rest) : /\ Len(first) + k \in 1 .. Len(first \o rest)
                                     /\ (first \o rest)[Len(first) + k] = rest[k]
    <3>1. first \in Seq(Writes) /\ rest \in Seq(Writes)
      BY <1>6, <1>8
    <3>2. QED
      BY <3>1, Joined
  <2>2. 1 \in 1 .. Len(first) /\ 2 \in 1 .. Len(first)
        /\ \A k \in 1 .. Len(first) : k = 1 \/ k = 2
    BY <1>8
  <2>3. QED
    BY <1>6, <1>8, <1>9, <2>1, <2>2
<1>11. /\ todo'[1].kind = "entry" /\ todo'[1].at = id /\ todo'[1].value = KInvalidBlockID
       /\ todo'[2].kind = "unmark" /\ todo'[2].at = id
       /\ \A k \in 1 .. Len(todo') :
            \/ k = 1 \/ k = 2
            \/ /\ k - 2 \in 1 .. n
               /\ todo'[k].kind = "clear" /\ todo'[k].at = list[k - 2]
       /\ \A k \in 1 .. n : /\ 2 + k \in 1 .. Len(todo')
                            /\ todo'[2 + k].kind = "clear" /\ todo'[2 + k].at = list[k]
  BY <1>6, <1>7, <1>10
<1>12. \A k \in 1 .. Len(todo') : todo'[k].file = id
  BY <1>6, <1>7, <1>10
<1>13. PendingTyped'
  <2>1. \A k \in 1 .. Len(todo') : WriteTyped(todo'[k])
    <3>1. ASSUME NEW k \in 1 .. Len(todo') PROVE WriteTyped(todo'[k])
      <4>1. CASE k = 1
        BY <1>11, <4>1 DEF WriteTyped
      <4>2. CASE k = 2
        BY <1>11, <4>2 DEF WriteTyped
      <4>3. CASE k # 1 /\ k # 2
        <5>1. todo'[k].kind = "clear" /\ todo'[k].at \in DataBlocks
          BY <1>4, <1>11, <4>3
        <5>2. QED
          BY <5>1 DEF WriteTyped
      <4>4. QED
        BY <4>1, <4>2, <4>3
    <3>2. QED
      BY <3>1
  <2>2. PendingApart'
    <3> SUFFICES ASSUME NEW j \in 1 .. Len(todo'), NEW k \in 1 .. Len(todo'),
                        j # k, todo'[j].at = todo'[k].at
                 PROVE  /\ todo'[j].kind = todo'[k].kind => todo'[j].kind \notin {"entry", "block"}
                        /\ todo'[j].kind = "clear" => todo'[k].kind \notin {"set", "block"}
                        /\ todo'[j].kind = "unmark" => todo'[k].kind # "mark"
      BY DEF PendingApart
    <3>1. QED
      BY <1>11
  <2>3. QED
    BY <2>1, <2>2 DEF PendingTyped, WriteTyped, Blocks, DataBlocks, Reserved, InodeIds,
                      InodeShaped
<1>14. Starts
  BY <1>10, <1>13 DEF Starts
<1>15. /\ W!IInv'
       /\ Amounts(Removed(id).used, Removed(id).home, Removed(id).disk, marked \ {id})
  <2>1. /\ SettledImage' /\ up' \in BOOLEAN
        /\ SettledUsed = used /\ SettledHome = home /\ SettledDisk = disk
    BY <1>14, StartLeads
  <2>2. \A kind, at : Has(kind, at)' <=> \/ kind = "entry" /\ at = id
                                         \/ kind = "unmark" /\ at = id
                                         \/ kind = "clear" /\ at \in B
    <3> SUFFICES ASSUME NEW kind, NEW at
                 PROVE  Has(kind, at)' <=> \/ kind = "entry" /\ at = id
                                           \/ kind = "unmark" /\ at = id
                                           \/ kind = "clear" /\ at \in B
      OBVIOUS
    <3>1. Has(kind, at)' <=> \E k \in 1 .. Len(todo') : todo'[k].kind = kind /\ todo'[k].at = at
      BY DEF Has
    <3>2. 1 \in 1 .. Len(todo') /\ 2 \in 1 .. Len(todo')
      BY <1>10, <1>11
    <3>3. ASSUME Has(kind, at)'
          PROVE  \/ kind = "entry" /\ at = id
                 \/ kind = "unmark" /\ at = id
                 \/ kind = "clear" /\ at \in B
      BY <1>4, <1>11, <3>1, <3>3
    <3>4. ASSUME \/ kind = "entry" /\ at = id
                 \/ kind = "unmark" /\ at = id
                 \/ kind = "clear" /\ at \in B
          PROVE  Has(kind, at)'
      <4>1. CASE kind = "entry" /\ at = id
        BY <1>11, <3>1, <3>2, <4>1
      <4>2. CASE kind = "unmark" /\ at = id
        BY <1>11, <3>1, <3>2, <4>2
      <4>3. CASE kind = "clear" /\ at \in B
        <5>1. PICK k \in 1 .. n : list[k] = at
          BY <1>4, <4>3
        <5>2. 2 + k \in 1 .. Len(todo') /\ todo'[2 + k].kind = kind /\ todo'[2 + k].at = at
          BY <1>11, <4>3, <5>1
        <5>3. QED
          BY <3>1, <5>2
      <4>4. QED
        BY <3>4, <4>1, <4>2, <4>3
    <3>5. QED
      BY <3>3, <3>4
  <2>3. SettledUsed' = SettledUsed \ B
    <3>1. SettledUsed' = {x \in Blocks : (x \in used' \/ Has("set", x)') /\ ~Has("clear", x)'}
      BY <2>1 DEF SettledImage, Blocks
    <3>2. used \subseteq Blocks
      BY DEF CrashTyped, TypeOK
    <3>3. QED
      BY <1>1, <2>1, <2>2, <3>1, <3>2
  <2>4. SettledHome' = [SettledHome EXCEPT ![id] = KInvalidBlockID]
    <3>1. /\ SettledHome' = [i \in InodeIds |-> SettledHome'[i]]
          /\ SettledHome'[id] = KInvalidBlockID
          /\ \A i \in InodeIds : ~Has("entry", i)' => SettledHome'[i] = home'[i]
      BY <1>10, <1>11, <2>1 DEF SettledImage, InodeIds
    <3>2. home \in [InodeIds -> {KInvalidBlockID} \cup DataBlocks]
      BY DEF CrashTyped, TypeOK
    <3>3. QED
      BY <1>1, <2>1, <2>2, <3>1, <3>2
  <2>5. SettledDisk' = [x \in DataBlocks |-> IF x \in B THEN Stale ELSE SettledDisk[x]]
    <3>1. /\ SettledDisk' = [x \in DataBlocks |-> SettledDisk'[x]]
          /\ \A x \in DataBlocks : ~Has("block", x)' =>
               SettledDisk'[x] = IF Has("clear", x)' THEN Stale ELSE disk'[x]
      BY <2>1 DEF SettledImage, DataBlocks, Blocks, Reserved, Stale
    <3>2. \A x \in DataBlocks : SettledDisk'[x] = IF x \in B THEN Stale ELSE SettledDisk[x]
      BY <1>1, <2>1, <2>2, <3>1
    <3>3. QED
      BY <3>1, <3>2
  <2>6. SettledMarked' = marked \ {id}
    <3>1. SettledMarked' = {i \in InodeIds : (i \in marked' \/ Has("mark", i)') /\ ~Has("unmark", i)'}
      BY <2>1 DEF SettledImage, InodeIds
    <3>2. marked \subseteq InodeIds
      BY DEF CrashTyped
    <3>3. QED
      BY <1>1, <2>2, <3>1, <3>2
  <2>7. W!IInv /\ id \in W!Live /\ B = W!BlocksOf(id)
    BY <1>1, <1>2, SameFile DEF Working
  <2>8. W!IInv'
    BY <2>1, <2>3, <2>4, <2>5, <2>7, W!FileGone, SameConstants, MemoryFits, LayoutAssumption
  <2>9. /\ Removed(id).used = used \ B
        /\ Removed(id).home = [home EXCEPT ![id] = KInvalidBlockID]
        /\ Removed(id).disk = [x \in DataBlocks |-> IF x \in B THEN Stale ELSE disk[x]]
    BY <1>3 DEF Removed
  <2>10. QED
    BY <2>1, <2>3, <2>4, <2>5, <2>6, <2>8, <2>9 DEF Amounts
<1>16. MarksKept'
  <2>1. Live' = Live
    BY <1>1 DEF Live, InodeIds
  <2>2. ASSUME NEW k \in 1 .. Len(todo'), NEW i, todo'[k].kind = "unmark", todo'[k].at = i
        PROVE  i = id /\ 1 \in 1 .. k - 1
    <3>1. k = 2
      BY <1>11, <2>2
    <3>2. QED
      BY <1>11, <2>2, <3>1
  <2>3. \A k \in 1 .. Len(todo') :
          todo'[k].kind = "entry" => todo'[k].value = KInvalidBlockID
    BY <1>11
  <2>4. QED
    BY <1>1, <1>11, <2>1, <2>2, <2>3 DEF MarksKept, KInvalidBlockID
<1>17. Exposed'
  <2>1. /\ IInv' /\ Live' = Live /\ \A i \in Live : BlocksOf(i)' = BlocksOf(i)
    BY <1>14, StartLeads
  <2>2. \A i \in Live' : \A b \in B : b \in BlocksOf(i)' => i = id
    BY <1>1, <1>2, <2>1 DEF IInv, FilesApart
  <2>3. ASSUME NEW k \in 1 .. Len(todo') - 1 PROVE Harmless(k)'
    <3>0. k \in 1 .. Len(todo')
      BY <1>4, <1>10
    <3>1. CASE k = 1
      BY <1>11, <3>1 DEF Harmless
    <3>2. CASE k = 2
      BY <1>11, <3>2 DEF Harmless
    <3>3. CASE k # 1 /\ k # 2
      <4>1. todo'[k].kind = "clear" /\ todo'[k].at \in B
        BY <1>4, <1>11, <3>0, <3>3
      <4>2. 1 \in 1 .. k - 1
        BY <3>3, <1>4, <1>10
      <4>3. QED
        BY <1>11, <2>2, <4>1, <4>2 DEF Harmless, KInvalidBlockID
    <3>4. QED
      BY <3>1, <3>2, <3>3
  <2>4. QED
    BY <2>1, <2>3 DEF Exposed
<1>18. MadeForOne'
  <2>1. \A k \in 1 .. Len(todo') :
          todo'[k].kind # "block" /\ (todo'[k].kind = "entry" => todo'[k].at = id)
    BY <1>11
  <2>2. MadeFor(id)'
    BY <1>12, <2>1 DEF MadeFor
  <2>3. QED
    BY <2>2 DEF MadeForOne, InodeIds
<1>19. QED
  BY <1>14, <1>15, <1>16, <1>17, <1>18, StartWorks

(* The bits that a write_file changes are those that differ in the end. *)
BitWrites(id, n, bits) ==
  IF bits \subseteq used
    THEN Bits(id, "clear", IF used = bits THEN <<>> ELSE Surplus(id, n))
    ELSE Bits(id, "set", Ascending(bits \ used))

BitsDiffer(id, s, bits) ==
  /\ s \in Seq(Writes)
  /\ \A k \in 1 .. Len(s) : s[k].file = id
  /\ \A k \in 1 .. Len(s) : \/ s[k].kind = "set" /\ s[k].at \in bits \ used
                            \/ s[k].kind = "clear" /\ s[k].at \in used \ bits
  /\ \A b \in bits \ used : \E k \in 1 .. Len(s) : s[k].kind = "set" /\ s[k].at = b
  /\ \A b \in used \ bits : \E k \in 1 .. Len(s) : s[k].kind = "clear" /\ s[k].at = b

LEMMA BitWritesDiffer ==
  ASSUME used \subseteq Blocks, NEW id \in InodeIds, NEW n \in Nat, NEW bits \in SUBSET Blocks,
         \/ used \subseteq bits
         \/ /\ bits \subseteq used /\ Distinct(Surplus(id, n))
            /\ used \ bits = {Surplus(id, n)[k] : k \in 1 .. Len(Surplus(id, n))}
  PROVE  BitsDiffer(id, BitWrites(id, n, bits), bits)
<1>1. \A b \in Blocks : b \in Nat
  BY LayoutAssumption DEF Blocks
<1>2. "set" \in Kinds /\ "clear" \in Kinds /\ id \in {0} \cup InodeIds
  BY DEF Kinds
<1>3. CASE used = bits
  <2> DEFINE none == <<>>
  <2>1. /\ Len(none) \in Nat /\ DOMAIN none = 1 .. Len(none)
        /\ \A k \in 1 .. Len(none) : none[k] \in Nat
    OBVIOUS
  <2>2. Len(none) = 0
    OBVIOUS
  <2>3. BitWrites(id, n, bits) = Bits(id, "clear", none)
    BY <1>3 DEF BitWrites
  <2> HIDE DEF none
  <2>4. /\ Bits(id, "clear", none) \in Seq(Writes)
        /\ Len(Bits(id, "clear", none)) = Len(none)
    BY <1>2, <2>1, BitsOfList
  <2>5. Bits(id, "clear", none) \in Seq(Writes) /\ Len(Bits(id, "clear", none)) = 0
    BY <2>2, <2>4
  <2>6. QED
    BY <1>3, <2>3, <2>5 DEF BitsDiffer
<1>4. CASE used # bits /\ bits \subseteq used
  <2> DEFINE list == Surplus(id, n)
  <2>1. /\ Len(list) \in Nat /\ DOMAIN list = 1 .. Len(list)
        /\ used \ bits = {list[k] : k \in 1 .. Len(list)}
    BY <1>4 DEF Distinct
  <2>2. BitWrites(id, n, bits) = Bits(id, "clear", list)
    BY <1>4 DEF BitWrites
  <2> HIDE DEF list
  <2>3. \A k \in 1 .. Len(list) : list[k] \in Nat /\ list[k] \in used \ bits
    BY <1>1, <2>1
  <2>4. /\ Bits(id, "clear", list) \in Seq(Writes) /\ Len(Bits(id, "clear", list)) = Len(list)
        /\ \A k \in 1 .. Len(list) : /\ Bits(id, "clear", list)[k].kind = "clear"
                                     /\ Bits(id, "clear", list)[k].at = list[k]
                                     /\ Bits(id, "clear", list)[k].file = id
    BY <1>2, <2>1, <2>3, BitsOfList
  <2>5. QED
    BY <1>4, <2>1, <2>2, <2>3, <2>4 DEF BitsDiffer
<1>5. CASE ~(bits \subseteq used)
  <2> DEFINE S == bits \ used
             list == Ascending(S)
  <2>1. S \in SUBSET Nat /\ IsFiniteSet(S)
    <3>1. 0 \in Int /\ NBlocks - 1 \in Int
      BY LayoutAssumption
    <3>2. IsFiniteSet(Blocks)
      BY <3>1, FS_Interval DEF Blocks
    <3>3. QED
      BY <1>1, <3>2, FS_Subset
  <2> HIDE DEF S
  <2>2. /\ Cardinality(S) \in Nat /\ list \in [1 .. Cardinality(S) -> S]
        /\ \A x \in S : \E k \in 1 .. Cardinality(S) : list[k] = x
    BY <2>1, Ascends
  <2>3. BitWrites(id, n, bits) = Bits(id, "set", list) /\ used \subseteq bits
    BY <1>5 DEF BitWrites, S
  <2> HIDE DEF list
  <2>4. Len(list) = Cardinality(S) /\ DOMAIN list = 1 .. Len(list) /\ Len(list) \in Nat
    <3>1. list \in Seq(S) /\ Len(list) = Cardinality(S)
      BY <2>2, ListOf
    <3>2. QED
      BY <2>2, <3>1
  <2>5. \A k \in 1 .. Len(list) : list[k] \in Nat /\ list[k] \in S
    BY <2>1, <2>2, <2>4
  <2>6. /\ Bits(id, "set", list) \in Seq(Writes) /\ Len(Bits(id, "set", list)) = Len(list)
        /\ \A k \in 1 .. Len(list) : /\ Bits(id, "set", list)[k].kind = "set"
                                     /\ Bits(id, "set", list)[k].at = list[k]
                                     /\ Bits(id, "set", list)[k].file = id
    BY <1>2, <2>4, <2>5, BitsOfList
  <2>7. \A b \in S : \E k \in 1 .. Len(list) : list[k] = b
    BY <2>2, <2>4
  <2>8. QED
    BY <2>3, <2>5, <2>6, <2>7 DEF BitsDiffer, S
<1>6. QED
  BY <1>3, <1>4, <1>5

(* The blocks of a Store, in the order of store_writes. *)
ListsStore(id, n, blocks, entries, d, contents, inode, indirect) ==
  /\ d[home[id]].blocks = blocks
  /\ n > NDirect => d[blocks[NDirect]].entries = entries /\ indirect \in Writes
  /\ contents \in [1 .. n -> Writes] /\ inode \in Writes
  /\ \A k \in 1 .. n :
       contents[k] = Write(id, "block", BlockOf(blocks, entries, k - 1),
                           d[BlockOf(blocks, entries, k - 1)])
  /\ inode = Write(id, "block", home[id], d[home[id]])
  /\ indirect = Write(id, "block", blocks[NDirect], d[blocks[NDirect]])

Listed(n, contents, inode, indirect, s) ==
  /\ s \in Seq(Writes)
  /\ Len(s) = n + 1 + IF n > NDirect THEN 1 ELSE 0
  /\ \A k \in 1 .. n : s[k] = contents[k]
  /\ s[n + 1] = inode
  /\ n > NDirect => s[n + 2] = indirect

LEMMA StoreWritesListed ==
  ASSUME NEW id, NEW n \in Nat, NEW blocks, NEW entries, NEW d, NEW W1, NEW w2, NEW w3,
         ListsStore(id, n, blocks, entries, d, W1, w2, w3)
  PROVE  Listed(n, W1, w2, w3, store_writes(id, n, d))
<1>0. /\ d[home[id]].blocks = blocks
      /\ n > NDirect => d[blocks[NDirect]].entries = entries /\ w3 \in Writes
      /\ W1 \in [1 .. n -> Writes] /\ w2 \in Writes
      /\ \A k \in 1 .. n :
           W1[k] = Write(id, "block", BlockOf(blocks, entries, k - 1),
                         d[BlockOf(blocks, entries, k - 1)])
      /\ w2 = Write(id, "block", home[id], d[home[id]])
      /\ w3 = Write(id, "block", blocks[NDirect], d[blocks[NDirect]])
  BY DEF ListsStore
<1> DEFINE e == IF n > NDirect THEN d[blocks[NDirect]].entries ELSE <<>>
           A == [k \in 1 .. n |-> Write(id, "block", BlockOf(blocks, e, k - 1),
                                        d[BlockOf(blocks, e, k - 1)])]
           M == <<w2>>
           C == IF n > NDirect THEN <<w3>> ELSE <<>>
           s == store_writes(id, n, d)
<1>1. s = (A \o M) \o C
  BY <1>0 DEF store_writes
<1>2. A = W1
  <2>1. \A k \in 1 .. n : BlockOf(blocks, e, k - 1) = BlockOf(blocks, entries, k - 1)
    BY <1>0, LayoutAssumption DEF BlockOf
  <2> HIDE DEF e
  <2>2. A = [k \in 1 .. n |-> W1[k]]
    BY <1>0, <2>1
  <2> HIDE DEF A
  <2>3. QED
    BY <1>0, <2>2
<1> HIDE DEF A
<1>3. A \in Seq(Writes) /\ Len(A) = n
  BY <1>0, <1>2, ListOf
<1>4. M \in Seq(Writes) /\ Len(M) = 1 /\ M[1] = w2
  BY <1>0
<1>5. /\ C \in Seq(Writes) /\ Len(C) = IF n > NDirect THEN 1 ELSE 0
      /\ n > NDirect => C[1] = w3
  BY <1>0
<1> HIDE DEF M, C, s
<1> DEFINE AM == A \o M
<1>6. /\ AM \in Seq(Writes) /\ Len(AM) = Len(A) + Len(M)
      /\ \A k \in 1 .. Len(A) : AM[k] = A[k]
      /\ \A k \in 1 .. Len(M) : AM[Len(A) + k] = M[k]
  <2>1. A \in Seq(Writes) /\ M \in Seq(Writes)
    BY <1>3, <1>4
  <2>2. QED
    BY <2>1, Joined
<1> HIDE DEF AM
<1>7. /\ AM \o C \in Seq(Writes) /\ Len(AM \o C) = Len(AM) + Len(C)
      /\ \A k \in 1 .. Len(AM) : (AM \o C)[k] = AM[k]
      /\ \A k \in 1 .. Len(C) : (AM \o C)[Len(AM) + k] = C[k]
  <2>1. AM \in Seq(Writes) /\ C \in Seq(Writes)
    BY <1>5, <1>6
  <2>2. QED
    BY <2>1, Joined
<1>8. s = AM \o C
  BY <1>1 DEF AM
<1> DEFINE z == AM \o C
<1> HIDE DEF z
<1>9. /\ z \in Seq(Writes) /\ Len(z) = (n + 1) + Len(C) /\ Len(AM) = n + 1
      /\ \A k \in 1 .. n + 1 : z[k] = AM[k]
      /\ \A k \in 1 .. Len(C) : z[(n + 1) + k] = C[k]
  BY <1>3, <1>4, <1>6, <1>7 DEF z
<1>10. Len(z) = n + 1 + IF n > NDirect THEN 1 ELSE 0
  BY <1>5, <1>9
<1>11. \A k \in 1 .. n : z[k] = W1[k]
  BY <1>2, <1>3, <1>6, <1>9
<1>12. z[n + 1] = w2
  <2>1. AM[n + 1] = M[1]
    BY <1>3, <1>4, <1>6
  <2>2. QED
    BY <1>4, <1>9, <2>1
<1>13. n > NDirect => z[n + 2] = w3
  <2> SUFFICES ASSUME n > NDirect PROVE z[n + 2] = w3
    OBVIOUS
  <2>1. 1 \in 1 .. Len(C) /\ C[1] = w3 /\ (n + 1) + 1 = n + 2
    BY <1>5
  <2>2. QED
    BY <1>9, <2>1
<1>14. s = z
  BY <1>8 DEF z
<1>15. QED
  BY <1>9, <1>10, <1>11, <1>12, <1>13, <1>14 DEF Listed, s

LEMMA RewrittenUsable ==
  ASSUME IInv, NEW id \in Live, NEW content, NEW blocks, NEW entries, NEW bits,
         StorePlan(id, content, blocks, entries, bits), NEW b,
         Rewritten(id, calculate_block_sz(Len(content)), blocks, entries, b)
  PROVE  b \in DataBlocks /\ b \in bits /\ (b \in used => b \in BlocksOf(id))
<1>1. home[id] \in DataBlocks /\ home[id] \in BlocksOf(id)
  BY LiveInode, BlocksDiffer
<1>2. QED
  BY <1>1 DEF Rewritten, StorePlan, Storable, Usable

(* The values that a Store writes. *)
LEMMA StoredValues ==
  ASSUME IInv, NEW id \in Live, NEW content, NEW blocks, NEW entries, NEW bits, NEW d,
         StorePlan(id, content, blocks, entries, bits),
         Left(id, content, blocks, entries, bits, d)
  PROVE  LET n == calculate_block_sz(Len(content))
         IN /\ n \in Nat
            /\ d[home[id]] \in Inodes /\ InodeShaped(d[home[id]])
            /\ d[home[id]].kind = "inode" /\ d[home[id]].blocks = blocks
            /\ calculate_block_sz(d[home[id]].size) = n
            /\ n > NDirect => /\ d[blocks[NDirect]] \in IndirectBlocks
                              /\ d[blocks[NDirect]].kind = "indirect"
                              /\ d[blocks[NDirect]].entries = entries
            /\ \A idx \in 0 .. n - 1 :
                 /\ d[BlockOf(blocks, entries, idx)] \in FileBlocks
                 /\ d[BlockOf(blocks, entries, idx)].kind = "data"
<1> DEFINE n == calculate_block_sz(Len(content))
<1>1. /\ content \in Seq(Cells) /\ Len(content) \in 0 .. MaxFileSize /\ Len(content) \in Nat
      /\ blocks \in [0 .. NDirect -> {KInvalidBlockID} \cup DataBlocks]
      /\ entries \in [0 .. NIndirect - 1 -> {KInvalidBlockID, Garbage} \cup DataBlocks]
      /\ \A idx \in 0 .. NDirect - 1 : blocks[idx] # KInvalidBlockID <=> idx < n
      /\ blocks[NDirect] # KInvalidBlockID <=> n > NDirect
  BY DEF StorePlan, Storable
<1>2. n \in Nat
  BY <1>1, BlockCount
<1>3. InodeOf(id).type \in Types
  BY LiveInode DEF Inodes
<1>4. /\ d[home[id]] = InodeBlock(InodeOf(id).type, Len(content), blocks)
      /\ n > NDirect => d[blocks[NDirect]] = IndirectBlock(entries)
      /\ \A idx \in 0 .. n - 1 :
           d[BlockOf(blocks, entries, idx)] = DataBlock(CellsOf(content, idx))
  BY DEF Left
<1>5. /\ d[home[id]].kind = "inode" /\ d[home[id]].blocks = blocks
      /\ d[home[id]].size = Len(content)
  BY <1>4 DEF InodeBlock
<1>6. d[home[id]] \in Inodes
  BY <1>1, <1>3, <1>4 DEF InodeBlock, Inodes
<1>7. calculate_block_sz(d[home[id]].size) = n
  BY <1>5
<1> HIDE DEF n
<1>8. InodeShaped(d[home[id]])
  BY <1>1, <1>5, <1>7 DEF InodeShaped
<1>9. n > NDirect => /\ d[blocks[NDirect]] \in IndirectBlocks
                     /\ d[blocks[NDirect]].kind = "indirect"
                     /\ d[blocks[NDirect]].entries = entries
  BY <1>1, <1>4 DEF IndirectBlock, IndirectBlocks
<1>10. ASSUME NEW idx \in 0 .. n - 1
       PROVE  /\ d[BlockOf(blocks, entries, idx)] \in FileBlocks
              /\ d[BlockOf(blocks, entries, idx)].kind = "data"
  <2>1. idx \in Nat
    BY <1>2
  <2>2. PICK cells \in [0 .. BlockSize - 1 -> Cells] : cells = CellsOf(content, idx)
    BY <1>1, <2>1, CellsOfTyped
  <2>3. d[BlockOf(blocks, entries, idx)] = [kind |-> "data", cells |-> cells]
    BY <1>4, <2>2 DEF DataBlock
  <2>4. QED
    BY <2>3 DEF FileBlocks
<1>11. QED
  BY <1>2, <1>5, <1>6, <1>7, <1>8, <1>9, <1>10 DEF n

(* Each block that is rewritten is written once, the one that a crash must  *)
(* not prevent last.                                                        *)
StoreListed(id, n, blocks, entries, d, s) ==
  /\ s \in Seq(Writes) /\ Len(s) \in Nat \ {0}
  /\ \A k \in 1 .. Len(s) :
       /\ WriteTyped(s[k]) /\ s[k].kind = "block" /\ s[k].file = id
       /\ s[k].value = d[s[k].at] /\ Rewritten(id, n, blocks, entries, s[k].at)
  /\ \A j, k \in 1 .. Len(s) : s[j].at = s[k].at => j = k
  /\ \A b : Rewritten(id, n, blocks, entries, b) => \E k \in 1 .. Len(s) : s[k].at = b
  /\ n > NDirect => s[Len(s)].value.kind = "indirect"
  /\ ~(n > NDirect) =>
       /\ s[Len(s)].at = home[id] /\ s[Len(s)].value.kind = "inode"
       /\ calculate_block_sz(s[Len(s)].value.size) = n
       /\ \A k \in 1 .. Len(s) - 1 : s[k].value.kind = "data" /\ s[k].at # home[id]

LEMMA StoreWritten ==
  ASSUME IInv, NEW id \in Live, NEW content, NEW blocks, NEW entries, NEW bits, NEW d,
         StorePlan(id, content, blocks, entries, bits),
         Left(id, content, blocks, entries, bits, d)
  PROVE  LET n == calculate_block_sz(Len(content))
         IN StoreListed(id, n, blocks, entries, d, store_writes(id, n, d))
<1> DEFINE n == calculate_block_sz(Len(content))
           B(idx) == BlockOf(blocks, entries, idx)
           ind == blocks[NDirect]
           s == store_writes(id, n, d)
<1>1. /\ n \in Nat /\ id \in InodeIds
      /\ home[id] \in DataBlocks
      /\ \A idx \in 0 .. n - 1 : B(idx) \in DataBlocks /\ B(idx) # home[id]
      /\ \A x, y \in 0 .. n - 1 : B(x) = B(y) => x = y
      /\ n > NDirect => /\ ind \in DataBlocks /\ ind # home[id]
                        /\ \A idx \in 0 .. n - 1 : B(idx) # ind
  <2>1. n \in Nat
    BY StoredValues
  <2>2. id \in InodeIds /\ home[id] \in DataBlocks
    BY LiveInode DEF Live
  <2>3. QED
    BY <2>1, <2>2 DEF StorePlan, Storable, Usable
<1>2. /\ d[home[id]] \in Inodes /\ InodeShaped(d[home[id]])
      /\ d[home[id]].kind = "inode" /\ d[home[id]].blocks = blocks
      /\ calculate_block_sz(d[home[id]].size) = n
      /\ n > NDirect => /\ d[ind] \in IndirectBlocks /\ d[ind].kind = "indirect"
                        /\ d[ind].entries = entries
      /\ \A idx \in 0 .. n - 1 : d[B(idx)] \in FileBlocks /\ d[B(idx)].kind = "data"
  BY StoredValues
<1>3. \A b : Rewritten(id, n, blocks, entries, b) <=>
        \/ b = home[id] \/ (n > NDirect /\ b = ind) \/ \E idx \in 0 .. n - 1 : b = B(idx)
  BY DEF Rewritten
<1>4. \A b \in DataBlocks : b \in Nat
  BY LayoutAssumption DEF DataBlocks, Blocks
<1> DEFINE W1 == [k \in 1 .. n |-> Write(id, "block", B(k - 1), d[B(k - 1)])]
           w2 == Write(id, "block", home[id], d[home[id]])
           w3 == Write(id, "block", ind, d[ind])
<1> HIDE DEF B, n, ind
<1>5. \A b, v : /\ Write(id, "block", b, v).kind = "block" /\ Write(id, "block", b, v).file = id
                /\ Write(id, "block", b, v).at = b /\ Write(id, "block", b, v).value = v
  BY DEF Write
<1>6. ASSUME NEW b \in DataBlocks, NEW v \in Inodes \cup IndirectBlocks \cup FileBlocks,
             v.kind = "inode" => InodeShaped(v)
      PROVE  Write(id, "block", b, v) \in Writes /\ WriteTyped(Write(id, "block", b, v))
  <2>1. Write(id, "block", b, v) \in Writes
    BY <1>1, <1>4, <1>6 DEF Write, Writes, Kinds
  <2>2. QED
    BY <1>5, <1>6, <2>1 DEF WriteTyped
<1>7. \A k \in 1 .. n : k - 1 \in 0 .. n - 1
  BY <1>1
<1>8. \A k \in 1 .. n : W1[k] = Write(id, "block", B(k - 1), d[B(k - 1)])
  OBVIOUS
<1>9. /\ \A k \in 1 .. n : W1[k] \in Writes /\ WriteTyped(W1[k])
      /\ w2 \in Writes /\ WriteTyped(w2)
      /\ n > NDirect => w3 \in Writes /\ WriteTyped(w3)
  <2>1. ASSUME NEW k \in 1 .. n PROVE W1[k] \in Writes /\ WriteTyped(W1[k])
    <3>1. B(k - 1) \in DataBlocks /\ d[B(k - 1)] \in FileBlocks /\ d[B(k - 1)].kind = "data"
      BY <1>1, <1>2, <1>7
    <3>2. QED
      BY <1>6, <1>8, <3>1
  <2>2. w2 \in Writes /\ WriteTyped(w2)
    BY <1>1, <1>2, <1>6
  <2>3. n > NDirect => w3 \in Writes /\ WriteTyped(w3)
    BY <1>1, <1>2, <1>6
  <2>4. QED
    BY <2>1, <2>2, <2>3
<1>10. W1 \in [1 .. n -> Writes]
  BY <1>9
<1> PICK v1 \in [1 .. n -> Writes] : v1 = W1
  BY <1>10
<1> PICK v2 \in Writes : v2 = w2
  BY <1>9
<1> PICK v3 : v3 = w3
  OBVIOUS
<1>11. /\ \A k \in 1 .. n : v1[k] = Write(id, "block", B(k - 1), d[B(k - 1)])
       /\ v2 = Write(id, "block", home[id], d[home[id]])
       /\ v3 = Write(id, "block", ind, d[ind])
       /\ \A k \in 1 .. n : WriteTyped(v1[k])
       /\ WriteTyped(v2) /\ (n > NDirect => v3 \in Writes /\ WriteTyped(v3))
  BY <1>8, <1>9
<1> HIDE DEF W1, w2, w3
<1>12. /\ s \in Seq(Writes) /\ Len(s) = n + 1 + IF n > NDirect THEN 1 ELSE 0
       /\ \A k \in 1 .. n : s[k] = v1[k]
       /\ s[n + 1] = v2
       /\ n > NDirect => s[n + 2] = v3
  <2>1. ListsStore(id, n, blocks, entries, d, v1, v2, v3)
    BY <1>2, <1>11 DEF ListsStore, B, ind
  <2>2. Listed(n, v1, v2, v3, s)
    BY <1>1, <2>1, StoreWritesListed
  <2>3. QED
    BY <2>2 DEF Listed
<1> HIDE DEF s
<1>13. /\ \A k \in 1 .. n : /\ s[k].kind = "block" /\ s[k].file = id /\ s[k].at = B(k - 1)
                            /\ s[k].value = d[B(k - 1)]
       /\ s[n + 1].kind = "block" /\ s[n + 1].file = id /\ s[n + 1].at = home[id]
       /\ s[n + 1].value = d[home[id]]
       /\ n > NDirect => /\ s[n + 2].kind = "block" /\ s[n + 2].file = id
                         /\ s[n + 2].at = ind /\ s[n + 2].value = d[ind]
  BY <1>5, <1>11, <1>12
<1>14. \A k \in 1 .. Len(s) : k \in 1 .. n \/ k = n + 1 \/ (n > NDirect /\ k = n + 2)
  BY <1>1, <1>12
<1>15. /\ Len(s) \in Nat \ {0} /\ n + 1 \in 1 .. Len(s)
       /\ n > NDirect => n + 2 \in 1 .. Len(s)
       /\ \A k \in 1 .. n : k \in 1 .. Len(s)
       /\ Len(s) = IF n > NDirect THEN n + 2 ELSE n + 1
  BY <1>1, <1>12
<1>16. ASSUME NEW k \in 1 .. Len(s)
       PROVE  /\ WriteTyped(s[k]) /\ s[k].kind = "block" /\ s[k].file = id
              /\ s[k].value = d[s[k].at] /\ Rewritten(id, n, blocks, entries, s[k].at)
  <2>1. CASE k \in 1 .. n
    BY <1>3, <1>7, <1>11, <1>12, <1>13, <2>1
  <2>2. CASE k = n + 1
    BY <1>3, <1>11, <1>12, <1>13, <2>2
  <2>3. CASE n > NDirect /\ k = n + 2
    BY <1>3, <1>11, <1>12, <1>13, <2>3
  <2>4. QED
    BY <1>14, <2>1, <2>2, <2>3
<1>17. ASSUME NEW j \in 1 .. Len(s), NEW k \in 1 .. Len(s), s[j].at = s[k].at
       PROVE  j = k
  <2>1. ASSUME NEW x \in 1 .. n, NEW y \in 1 .. n, s[x].at = s[y].at
        PROVE  x = y
    <3>1. x - 1 = y - 1
      BY <1>1, <1>7, <1>13, <2>1
    <3>2. QED
      BY <3>1, <1>1
  <2>2. \A x \in 1 .. n : /\ s[x].at # s[n + 1].at
                          /\ n > NDirect => s[x].at # s[n + 2].at
    BY <1>1, <1>7, <1>13
  <2>3. n > NDirect => s[n + 1].at # s[n + 2].at
    BY <1>1, <1>13
  <2>4. QED
    BY <1>14, <1>17, <2>1, <2>2, <2>3
<1>18. ASSUME NEW b, Rewritten(id, n, blocks, entries, b)
       PROVE  \E k \in 1 .. Len(s) : s[k].at = b
  <2>1. CASE b = home[id]
    BY <1>13, <1>15, <2>1
  <2>2. CASE n > NDirect /\ b = ind
    BY <1>13, <1>15, <2>2
  <2>3. ASSUME NEW idx \in 0 .. n - 1, b = B(idx)
        PROVE  \E k \in 1 .. Len(s) : s[k].at = b
    <3>1. idx + 1 \in 1 .. n /\ (idx + 1) - 1 = idx
      BY <1>1
    <3>2. s[idx + 1].at = B((idx + 1) - 1)
      BY <1>13, <3>1
    <3>3. QED
      BY <1>15, <2>3, <3>1, <3>2
  <2>4. QED
    BY <1>3, <1>18, <2>1, <2>2, <2>3
<1>19. n > NDirect => s[Len(s)].value.kind = "indirect"
  BY <1>2, <1>13, <1>15
<1>20. ASSUME ~(n > NDirect)
       PROVE  /\ s[Len(s)].at = home[id] /\ s[Len(s)].value.kind = "inode"
              /\ calculate_block_sz(s[Len(s)].value.size) = n
              /\ \A k \in 1 .. Len(s) - 1 : s[k].value.kind = "data" /\ s[k].at # home[id]
  <2>1. s[Len(s)].value = d[home[id]] /\ s[Len(s)].at = home[id] /\ Len(s) = n + 1
    BY <1>13, <1>15, <1>20
  <2>2. ASSUME NEW k \in 1 .. Len(s) - 1 PROVE s[k].value.kind = "data" /\ s[k].at # home[id]
    <3>1. k \in 1 .. n /\ k - 1 \in 0 .. n - 1
      BY <1>1, <2>1
    <3>2. QED
      BY <1>1, <1>2, <1>13, <3>1
  <2>3. QED
    BY <1>2, <2>1, <2>2
<1>21. StoreListed(id, n, blocks, entries, d, s)
  BY <1>12, <1>15, <1>16, <1>17, <1>18, <1>19, <1>20 DEF StoreListed
<1>22. QED
  BY <1>21 DEF s, n

LEMMA SamePlan ==
  ASSUME Settled, NEW id, NEW content, NEW blocks, NEW entries, NEW bits
  PROVE  /\ StorePlan(id, content, blocks, entries, bits) =>
              W!StorePlan(id, content, blocks, entries, bits)
         /\ \A d : Left(id, content, blocks, entries, bits, d) =>
                     W!Left(id, content, blocks, entries, bits, d)
<1>1. SettledHome = home /\ SettledDisk = disk /\ SettledUsed = used
  BY DEF Settled
<1>2. W!BlocksOf(id) = BlocksOf(id) /\ W!InodeOf(id) = InodeOf(id)
  BY SameFile
<1>3. \A b : W!Usable(id, b, bits) <=> Usable(id, b, bits)
  BY <1>1, <1>2, SameConstants DEF Usable, W!Usable
<1>4. \A n : Storable(id, n, blocks, entries, bits) =>
               W!Storable(id, n, blocks, entries, bits)
  BY <1>1, <1>2, <1>3, SameConstants DEF Storable, W!Storable
<1>5. W!MaxFileSize = MaxFileSize
  BY DEF W!MaxFileSize, MaxFileSize
<1>6. StorePlan(id, content, blocks, entries, bits) =>
        W!StorePlan(id, content, blocks, entries, bits)
  BY <1>4, <1>5, SameConstants DEF StorePlan, W!StorePlan
<1>7. \A n, b : W!Rewritten(id, n, blocks, entries, b) <=> Rewritten(id, n, blocks, entries, b)
  BY <1>1, SameConstants DEF Rewritten, W!Rewritten
<1>8. \A idx : W!CellsOf(content, idx) = CellsOf(content, idx)
  BY DEF W!CellsOf, CellsOf
<1>9. ASSUME NEW d, Left(id, content, blocks, entries, bits, d)
      PROVE  W!Left(id, content, blocks, entries, bits, d)
  BY <1>1, <1>2, <1>7, <1>8, <1>9, SameConstants
     DEF Left, W!Left, InodeBlock, W!InodeBlock, IndirectBlock, W!IndirectBlock,
         DataBlock, W!DataBlock
<1>10. QED
  BY <1>6, <1>9

(* The two parts of a write_file. *)
StoreBegins(id, n, blocks, entries, bits, d, t) ==
  /\ t \in Seq(Writes) /\ Len(t) \in Nat \ {0}
  /\ \A k \in 1 .. Len(t) : t[k].file = id
  /\ \A k \in 1 .. Len(t) :
       \/ t[k].kind = "set" /\ t[k].at \in bits \ used
       \/ t[k].kind = "clear" /\ t[k].at \in used \ bits
       \/ /\ t[k].kind = "block" /\ t[k].file = id /\ t[k].value = d[t[k].at]
          /\ WriteTyped(t[k]) /\ Rewritten(id, n, blocks, entries, t[k].at)
  /\ \A j, k \in 1 .. Len(t) :
       t[j].kind = "block" /\ t[k].kind = "block" /\ t[j].at = t[k].at => j = k
  /\ \A b \in bits \ used : \E k \in 1 .. Len(t) : t[k].kind = "set" /\ t[k].at = b
  /\ \A b \in used \ bits : \E k \in 1 .. Len(t) : t[k].kind = "clear" /\ t[k].at = b
  /\ \A b : Rewritten(id, n, blocks, entries, b) =>
              \E k \in 1 .. Len(t) : t[k].kind = "block" /\ t[k].at = b
  /\ t[Len(t)].kind = "block" /\ t[Len(t)].file = id
  /\ n > NDirect => t[Len(t)].value.kind = "indirect"
  /\ ~(n > NDirect) =>
       /\ t[Len(t)].at = home[id] /\ t[Len(t)].value.kind = "inode"
       /\ calculate_block_sz(t[Len(t)].value.size) = n
       /\ \A k \in 1 .. Len(t) - 1 :
            t[k].kind = "block" => t[k].value.kind = "data" /\ t[k].at # home[id]

LEMMA StoreBeginsSo ==
  ASSUME NEW id, NEW n, NEW blocks, NEW entries, NEW bits, NEW d, NEW s, NEW w,
         BitsDiffer(id, s, bits), StoreListed(id, n, blocks, entries, d, w)
  PROVE  StoreBegins(id, n, blocks, entries, bits, d, s \o w)
<1>1. s \in Seq(Writes) /\ w \in Seq(Writes) /\ Len(w) \in Nat \ {0}
  BY DEF BitsDiffer, StoreListed
<1> PICK t : t = s \o w
  OBVIOUS
<1>2. /\ t \in Seq(Writes) /\ Len(s) \in Nat /\ Len(t) = Len(s) + Len(w)
      /\ \A k \in 1 .. Len(t) : \/ k \in 1 .. Len(s) /\ t[k] = s[k]
                                \/ k - Len(s) \in 1 .. Len(w) /\ t[k] = w[k - Len(s)]
      /\ \A k \in 1 .. Len(s) : k \in 1 .. Len(t) /\ t[k] = s[k]
      /\ \A k \in 1 .. Len(w) : Len(s) + k \in 1 .. Len(t) /\ t[Len(s) + k] = w[k]
  <2>1. s \in Seq(Writes) /\ w \in Seq(Writes)
    BY <1>1
  <2>2. QED
    BY <2>1, Joined
<1>3. /\ \A k \in 1 .. Len(s) : \/ s[k].kind = "set" /\ s[k].at \in bits \ used
                                \/ s[k].kind = "clear" /\ s[k].at \in used \ bits
      /\ \A b \in bits \ used : \E k \in 1 .. Len(s) : s[k].kind = "set" /\ s[k].at = b
      /\ \A b \in used \ bits : \E k \in 1 .. Len(s) : s[k].kind = "clear" /\ s[k].at = b
  BY DEF BitsDiffer
<1>4. \A k \in 1 .. Len(w) :
        /\ WriteTyped(w[k]) /\ w[k].kind = "block" /\ w[k].file = id
        /\ w[k].value = d[w[k].at] /\ Rewritten(id, n, blocks, entries, w[k].at)
  BY DEF StoreListed
<1>5. \A j, k \in 1 .. Len(w) : w[j].at = w[k].at => j = k
  BY DEF StoreListed
<1>6. Len(t) \in Nat \ {0} /\ t[Len(t)] = w[Len(w)] /\ Len(w) \in 1 .. Len(w)
  BY <1>1, <1>2
<1>7. ASSUME NEW k \in 1 .. Len(t)
      PROVE  \/ t[k].kind = "set" /\ t[k].at \in bits \ used
             \/ t[k].kind = "clear" /\ t[k].at \in used \ bits
             \/ /\ t[k].kind = "block" /\ t[k].file = id /\ t[k].value = d[t[k].at]
                /\ WriteTyped(t[k]) /\ Rewritten(id, n, blocks, entries, t[k].at)
  <2>1. CASE k \in 1 .. Len(s) /\ t[k] = s[k]
    BY <1>3, <2>1
  <2>2. CASE k - Len(s) \in 1 .. Len(w) /\ t[k] = w[k - Len(s)]
    BY <1>4, <2>2
  <2>3. QED
    BY <1>2, <2>1, <2>2
<1>8. ASSUME NEW k \in 1 .. Len(t), t[k].kind = "block"
      PROVE  k - Len(s) \in 1 .. Len(w) /\ t[k] = w[k - Len(s)]
  <2>1. ASSUME k \in 1 .. Len(s), t[k] = s[k] PROVE FALSE
    BY <1>3, <1>8, <2>1
  <2>2. QED
    BY <1>2, <2>1
<1>9. ASSUME NEW j \in 1 .. Len(t), NEW k \in 1 .. Len(t),
             t[j].kind = "block", t[k].kind = "block", t[j].at = t[k].at
      PROVE  j = k
  <2>1. /\ j - Len(s) \in 1 .. Len(w) /\ t[j] = w[j - Len(s)]
        /\ k - Len(s) \in 1 .. Len(w) /\ t[k] = w[k - Len(s)]
    BY <1>8, <1>9
  <2>2. j - Len(s) = k - Len(s)
    BY <1>5, <1>9, <2>1
  <2>3. j \in Int /\ k \in Int
    BY <1>6
  <2>4. QED
    BY <1>2, <2>2, <2>3
<1>10. /\ \A b \in bits \ used : \E k \in 1 .. Len(t) : t[k].kind = "set" /\ t[k].at = b
       /\ \A b \in used \ bits : \E k \in 1 .. Len(t) : t[k].kind = "clear" /\ t[k].at = b
  BY <1>2, <1>3
<1>11. ASSUME NEW b, Rewritten(id, n, blocks, entries, b)
       PROVE  \E k \in 1 .. Len(t) : t[k].kind = "block" /\ t[k].at = b
  <2>1. PICK k \in 1 .. Len(w) : w[k].at = b
    BY <1>11 DEF StoreListed
  <2>2. Len(s) + k \in 1 .. Len(t) /\ t[Len(s) + k] = w[k] /\ w[k].kind = "block"
    BY <1>2, <1>4
  <2>3. QED
    BY <2>1, <2>2
<1>12. t[Len(t)].kind = "block" /\ t[Len(t)].file = id
       /\ \A k \in 1 .. Len(t) : t[k].file = id
  <2>1. \A k \in 1 .. Len(s) : s[k].file = id
    BY DEF BitsDiffer
  <2>2. QED
    BY <1>2, <1>4, <1>6, <2>1
<1>13. n > NDirect => t[Len(t)].value.kind = "indirect"
  BY <1>6 DEF StoreListed
<1>14. ASSUME ~(n > NDirect)
       PROVE  /\ t[Len(t)].at = home[id] /\ t[Len(t)].value.kind = "inode"
              /\ calculate_block_sz(t[Len(t)].value.size) = n
  BY <1>6, <1>14 DEF StoreListed
<1>15. ASSUME ~(n > NDirect), NEW k \in 1 .. Len(t) - 1, t[k].kind = "block"
       PROVE  t[k].value.kind = "data" /\ t[k].at # home[id]
  <2>1. k \in 1 .. Len(t)
    BY <1>6
  <2>2. k - Len(s) \in 1 .. Len(w) /\ t[k] = w[k - Len(s)]
    BY <1>8, <1>15, <2>1
  <2>3. k - Len(s) \in 1 .. Len(w) - 1
    BY <1>1, <1>2, <2>2
  <2>4. QED
    BY <1>15, <2>2, <2>3 DEF StoreListed
<1>16. StoreBegins(id, n, blocks, entries, bits, d, t)
  <2>1. t \in Seq(Writes) /\ Len(t) \in Nat \ {0}
    BY <1>2, <1>6
  <2>2. \A b : Rewritten(id, n, blocks, entries, b) =>
                 \E k \in 1 .. Len(t) : t[k].kind = "block" /\ t[k].at = b
    BY <1>11
  <2>3. QED
    BY <1>7, <1>9, <1>10, <1>12, <1>13, <1>14, <1>15, <2>1, <2>2, Zenon DEF StoreBegins
<1>17. QED
  BY <1>16

LEMMA StoreLeadsOn ==
  ASSUME CrashTyped, Working, NEW id \in Live, NEW content, NEW blocks, NEW entries,
         NEW bits, NEW d, Starts,
         StorePlan(id, content, blocks, entries, bits),
         Left(id, content, blocks, entries, bits, d),
         StoreBegins(id, calculate_block_sz(Len(content)), blocks, entries, bits, d, todo')
  PROVE  W!IInv' /\ MadeFor(id)' /\ Amounts(bits, home, d, marked)
<1> DEFINE n == calculate_block_sz(Len(content))
<1>1. /\ used' = used /\ home' = home /\ disk' = disk /\ SettledImage' /\ up' \in BOOLEAN
      /\ SettledUsed = used /\ SettledHome = home /\ SettledDisk = disk
      /\ Settled /\ IInv
  BY StartLeads DEF Starts, imageVars
<1>2. bits \in SUBSET Blocks
  BY DEF StorePlan, Storable
<1>3. \A b : Rewritten(id, n, blocks, entries, b) => b \in DataBlocks /\ b \in bits
  BY <1>1, RewrittenUsable
<1> PICK R : R = {b \in DataBlocks : Rewritten(id, n, blocks, entries, b)}
  OBVIOUS
<1>4. /\ \A k \in 1 .. Len(todo') :
           \/ todo'[k].kind = "set" /\ todo'[k].at \in bits \ used
           \/ todo'[k].kind = "clear" /\ todo'[k].at \in used \ bits
           \/ todo'[k].kind = "block" /\ todo'[k].at \in R /\ todo'[k].value = d[todo'[k].at]
      /\ \A b \in bits \ used : \E k \in 1 .. Len(todo') : todo'[k].kind = "set" /\ todo'[k].at = b
      /\ \A b \in used \ bits : \E k \in 1 .. Len(todo') : todo'[k].kind = "clear" /\ todo'[k].at = b
      /\ \A b \in R : \E k \in 1 .. Len(todo') : todo'[k].kind = "block" /\ todo'[k].at = b
      /\ R \subseteq DataBlocks
  BY <1>3 DEF StoreBegins
<1>5. \A kind, b : Has(kind, b)' <=> \/ kind = "set" /\ b \in bits \ used
                                     \/ kind = "clear" /\ b \in used \ bits
                                     \/ kind = "block" /\ b \in R
  BY <1>4 DEF Has
<1>6. SettledUsed' = bits
  <2>1. SettledUsed' = {x \in Blocks : (x \in used' \/ Has("set", x)') /\ ~Has("clear", x)'}
    BY <1>1 DEF SettledImage, Blocks
  <2>2. QED
    BY <1>1, <1>2, <1>5, <2>1
<1>7. SettledHome' = SettledHome
  <2>1. /\ SettledHome' = [i \in InodeIds |-> SettledHome'[i]]
        /\ \A i \in InodeIds : ~Has("entry", i)' => SettledHome'[i] = home'[i]
    BY <1>1 DEF SettledImage, InodeIds
  <2>2. home = [i \in InodeIds |-> home[i]]
    BY DEF CrashTyped, TypeOK
  <2>3. QED
    BY <1>1, <1>5, <2>1, <2>2
<1>8. SettledDisk' = d
  <2>1. /\ SettledDisk' = [x \in DataBlocks |-> SettledDisk'[x]]
        /\ \A k \in 1 .. Len(todo') : todo'[k].kind = "block" /\ todo'[k].at \in DataBlocks =>
             SettledDisk'[todo'[k].at] = todo'[k].value
        /\ \A x \in DataBlocks : ~Has("block", x)' =>
             SettledDisk'[x] = IF Has("clear", x)' THEN Stale ELSE disk'[x]
    BY <1>1 DEF SettledImage, DataBlocks, Blocks, Reserved, Stale
  <2>2. /\ d = [x \in DataBlocks |-> d[x]]
        /\ \A x \in DataBlocks :
             x \notin R => d[x] = IF x \in used \ bits THEN Stale ELSE disk[x]
    BY DEF Left
  <2>3. ASSUME NEW x \in DataBlocks PROVE SettledDisk'[x] = d[x]
    <3>1. CASE x \in R
      BY <1>4, <2>1, <3>1
    <3>2. CASE x \notin R
      BY <1>1, <1>5, <2>1, <2>2, <3>2
    <3>3. QED
      BY <3>1, <3>2
  <2>4. QED
    BY <2>1, <2>2, <2>3
<1>9. /\ W!StorePlan(id, content, blocks, entries, bits)
      /\ W!Left(id, content, blocks, entries, bits, SettledDisk')
  BY <1>1, <1>8, SamePlan
<1>10. W!Stores(id, content, blocks, entries, bits)
  BY <1>1, <1>6, <1>7, <1>9 DEF W!Stores
<1>11. W!IInv /\ id \in W!Live
  BY <1>1, SameFile DEF Working
<1>12. W!IInv'
  BY <1>10, <1>11, W!StoreIInv, MemoryFits, LayoutAssumption
<1>13. MadeFor(id)'
  <2>1. /\ id \in W!Live'
        /\ W!BlocksOf(id)' =
             {SettledHome[id]} \cup {BlockOf(blocks, entries, idx) : idx \in 0 .. n - 1}
               \cup {b \in DataBlocks : n > NDirect /\ b = blocks[NDirect]}
    BY <1>10, <1>11, W!StoredFile, SameConstants, MemoryFits, LayoutAssumption
  <2>2. \A b \in R : b \in W!BlocksOf(id)'
    <3>1. \A b \in R : \/ b = home[id] \/ (n > NDirect /\ b = blocks[NDirect])
                       \/ \E idx \in 0 .. n - 1 : b = BlockOf(blocks, entries, idx)
      BY <1>3 DEF Rewritten
    <3>2. QED
      BY <1>1, <1>4, <2>1, <3>1
  <2>3. \A k \in 1 .. Len(todo') : todo'[k].file = id
    BY DEF StoreBegins
  <2>4. \A k \in 1 .. Len(todo') :
          /\ todo'[k].kind # "entry"
          /\ todo'[k].kind = "block" => todo'[k].at \in R
    BY <1>4
  <2>5. QED
    BY <2>1, <2>2, <2>3, <2>4 DEF MadeFor
<1>14. SettledMarked' = marked
  <2>1. SettledMarked' = {i \in InodeIds : (i \in marked' \/ Has("mark", i)') /\ ~Has("unmark", i)'}
    BY <1>1 DEF SettledImage, InodeIds
  <2>2. marked \subseteq InodeIds /\ marked' = marked
    BY DEF CrashTyped, Starts, imageVars
  <2>3. QED
    BY <1>5, <2>1, <2>2
<1>15. QED
  BY <1>1, <1>6, <1>7, <1>8, <1>12, <1>13, <1>14 DEF Amounts

LEMMA StoringWorks ==
  ASSUME CrashTyped, Working, NEW id \in Live, NEW content, NEW blocks, NEW entries,
         NEW bits, NEW d,
         todo = <<>>, UNCHANGED <<imageVars, up, crashed, mapped>>,
         StorePlan(id, content, blocks, entries, bits),
         Left(id, content, blocks, entries, bits, d),
         StoreBegins(id, calculate_block_sz(Len(content)), blocks, entries, bits, d, todo'),
         \/ used \subseteq bits
         \/ calculate_block_sz(Len(content)) < calculate_block_sz(InodeOf(id).size)
  PROVE  /\ CrashTyped' /\ superblock' = superblock /\ Working'
         /\ Amounts(bits, home, d, marked)
<1> PICK n : n = calculate_block_sz(Len(content))
  OBVIOUS
<1> PICK old : old = calculate_block_sz(InodeOf(id).size)
  OBVIOUS
<1>1. /\ used' = used /\ home' = home /\ disk' = disk /\ marked' = marked
      /\ IInv /\ \A i \in Live : i \in marked
  BY AtRest DEF imageVars
<1>2. /\ n \in Nat /\ old \in Nat /\ NDirect \in Nat
      /\ bits \subseteq Blocks /\ used \ bits \subseteq BlocksOf(id)
      /\ BlocksOf(id) \subseteq DataBlocks /\ used \subseteq Blocks
  <2>1. n \in Nat
    BY <1>1, BlockCount DEF StorePlan
  <2>2. old \in Nat
    BY <1>1, LiveInode
  <2>3. BlocksOf(id) \subseteq DataBlocks
    BY <1>1, BlocksDiffer
  <2>4. bits \subseteq Blocks /\ used \ bits \subseteq BlocksOf(id)
    BY DEF StorePlan, Storable
  <2>5. QED
    BY <2>1, <2>2, <2>3, <2>4, LayoutAssumption DEF CrashTyped, TypeOK
<1>3. \A b : Rewritten(id, n, blocks, entries, b) =>
               b \in DataBlocks /\ b \in bits /\ (b \in used => b \in BlocksOf(id))
  BY <1>1, RewrittenUsable
<1> PICK t : t = todo'
  OBVIOUS
<1>4. /\ t \in Seq(Writes) /\ Len(t) \in Nat \ {0}
      /\ \A k \in 1 .. Len(t) :
           \/ t[k].kind = "set" /\ t[k].at \in bits \ used
           \/ t[k].kind = "clear" /\ t[k].at \in used \ bits
           \/ /\ t[k].kind = "block" /\ t[k].file = id /\ t[k].value = d[t[k].at]
              /\ WriteTyped(t[k]) /\ Rewritten(id, n, blocks, entries, t[k].at)
  BY DEF StoreBegins
<1>5. /\ t[Len(t)].kind = "block" /\ t[Len(t)].file = id
      /\ n > NDirect => t[Len(t)].value.kind = "indirect"
      /\ ~(n > NDirect) =>
           /\ t[Len(t)].at = home[id] /\ t[Len(t)].value.kind = "inode"
           /\ calculate_block_sz(t[Len(t)].value.size) = n
           /\ \A k \in 1 .. Len(t) - 1 :
                t[k].kind = "block" => t[k].value.kind = "data" /\ t[k].at # home[id]
  BY DEF StoreBegins
<1>6. \A k \in 1 .. Len(t) :
        /\ t[k].kind \in {"set", "clear", "block"}
        /\ t[k].kind = "set" => t[k].at \in bits \ used
        /\ t[k].kind = "clear" => t[k].at \in used \ bits
        /\ t[k].kind = "block" => /\ t[k].at \in bits /\ WriteTyped(t[k])
                                  /\ t[k].at \in used => t[k].at \in BlocksOf(id)
  BY <1>3, <1>4
<1>7. PendingTyped'
  <2>1. \A k \in 1 .. Len(t) : WriteTyped(t[k])
    <3>1. ASSUME NEW k \in 1 .. Len(t) PROVE WriteTyped(t[k])
      <4>1. CASE t[k].kind = "block"
        BY <1>6, <4>1
      <4>2. CASE t[k].kind = "set"
        <5>1. t[k].at \in Blocks
          BY <1>2, <1>6, <4>2
        <5>2. QED
          BY <4>2, <5>1 DEF WriteTyped
      <4>3. CASE t[k].kind = "clear"
        <5>1. t[k].at \in DataBlocks
          BY <1>2, <1>6, <4>3
        <5>2. QED
          BY <4>3, <5>1 DEF WriteTyped
      <4>4. QED
        BY <1>6, <4>1, <4>2, <4>3
    <3>2. QED
      BY <3>1
  <2>2. ASSUME NEW j \in 1 .. Len(t), NEW k \in 1 .. Len(t), j # k, t[j].at = t[k].at
        PROVE  /\ t[j].kind = t[k].kind => t[j].kind \notin {"entry", "block"}
               /\ t[j].kind = "clear" => t[k].kind \notin {"set", "block"}
               /\ t[j].kind = "unmark" => t[k].kind # "mark"
    <3>1. ~(t[j].kind = "block" /\ t[k].kind = "block")
      BY <2>2 DEF StoreBegins
    <3>2. t[j].kind = "clear" => t[j].at \notin bits
      BY <1>6
    <3>3. t[k].kind \in {"set", "block"} => t[k].at \in bits
      BY <1>6
    <3>4. t[j].kind # "entry" /\ t[j].kind # "unmark"
      BY <1>6
    <3>5. QED
      BY <2>2, <3>1, <3>2, <3>3, <3>4
  <2>3. PendingApart'
    BY <2>2 DEF PendingApart
  <2>4. QED
    BY <2>1, <2>3 DEF PendingTyped, WriteTyped, Blocks, DataBlocks, Reserved, InodeIds,
                      InodeShaped
<1>8. Starts
  BY <1>4, <1>7 DEF Starts
<1>9. W!IInv' /\ MadeForOne' /\ Amounts(bits, home, d, marked)
  <2>1. W!IInv' /\ MadeFor(id)' /\ Amounts(bits, home, d, marked)
    BY <1>8, StoreLeadsOn
  <2>2. QED
    BY <2>1 DEF MadeForOne, Live, InodeIds
<1>10. MarksKept'
  <2>1. Live' = Live
    BY <1>1 DEF Live, InodeIds
  <2>2. \A k \in 1 .. Len(t) : t[k].kind # "unmark" /\ t[k].kind # "entry"
    BY <1>6
  <2>3. QED
    BY <1>1, <2>1, <2>2 DEF MarksKept
<1>11. Exposed'
  <2>1. /\ IInv' /\ Live' = Live /\ \A i \in Live : BlocksOf(i)' = BlocksOf(i)
    BY <1>8, StartLeads
  <2>2. CASE n > NDirect
    <3>1. Exposes(t[Len(t)])'
      BY <1>5, <2>2 DEF Exposes
    <3>2. LastExposes'
      BY <1>4, <1>6, <3>1 DEF LastExposes
    <3>3. QED
      BY <3>2 DEF Exposed
  <2>3. CASE ~(n > NDirect) /\ n < old
    <3>1. InodeOf(id)' = InodeOf(id)
      BY <1>1 DEF InodeOf
    <3>2. PICK z : z = t[Len(t)]
      OBVIOUS
    <3>3. /\ z.kind = "block" /\ z.value.kind = "inode" /\ z.file = id /\ home'[id] = z.at
          /\ calculate_block_sz(z.value.size) < calculate_block_sz(InodeOf(id)'.size)
      BY <1>1, <1>5, <2>3, <3>1, <3>2
    <3>4. Exposes(z)'
      BY <3>3 DEF Exposes, ShrinksInode, calculate_block_sz
    <3>5. LastExposes'
      BY <1>4, <1>6, <3>2, <3>4 DEF LastExposes
    <3>6. QED
      BY <3>5 DEF Exposed
  <2>4. CASE ~(n > NDirect) /\ ~(n < old)
    <3>1. used \subseteq bits
      BY <2>4
    <3>2. ~HasIndirect(id)
      BY <1>1, <1>2, <2>4 DEF IInv, FileShaped
    <3>3. \A b \in BlocksOf(id) : b # home[id] => disk[b].kind = "data"
      BY <1>1, <3>2 DEF BlocksOf, IInv, FileSound, Holds
    <3>4. \A i \in Live : BlocksOf(i) \subseteq used
      BY <1>1, BlocksDiffer
    <3>5. ASSUME NEW k \in 1 .. Len(t) - 1 PROVE Harmless(k)'
      <4>1. k \in 1 .. Len(t)
        BY <1>4
      <4>2. t[k].kind \in {"set", "block"}
        BY <1>6, <3>1, <4>1
      <4>3. CASE t[k].kind = "set"
        BY <4>3 DEF Harmless
      <4>4. CASE t[k].kind = "block" /\ t[k].at \in used
        <5>1. t[k].value.kind = "data" /\ t[k].at # home[id] /\ t[k].at \in BlocksOf(id)
          BY <1>5, <1>6, <2>4, <4>1, <4>4
        <5>2. disk'[t[k].at].kind = "data"
          BY <1>1, <3>3, <5>1
        <5>3. QED
          BY <4>4, <5>1, <5>2 DEF Harmless
      <4>5. CASE t[k].kind = "block" /\ t[k].at \notin used
        <5>1. \A i \in Live' : t[k].at \notin BlocksOf(i)'
          BY <2>1, <3>4, <4>5
        <5>2. QED
          BY <4>5, <5>1 DEF Harmless
      <4>6. QED
        BY <4>2, <4>3, <4>4, <4>5
    <3>6. QED
      BY <2>1, <3>5 DEF Exposed
  <2>5. QED
    BY <1>2, <2>2, <2>3, <2>4
<1>12. QED
  BY <1>8, <1>9, <1>10, <1>11, StartWorks

LEMMA WriteWorks ==
  ASSUME CrashTyped, Working, NEW id \in InodeIds, NEW content \in Seq(Cells),
         todo = <<>>, UNCHANGED <<imageVars, up, crashed, mapped>>,
         todo' = write_file_writes(id, content)
  PROVE  /\ CrashTyped' /\ superblock' = superblock /\ Working'
         /\ Amounts(write_file(id, content).used, home, write_file(id, content).disk, marked)
<1> PICK n : n = calculate_block_sz(Len(content))
  OBVIOUS
<1> PICK effect : effect = write_file(id, content)
  OBVIOUS
<1>1. IInv /\ used \subseteq Blocks
  BY AtRest DEF CrashTyped, TypeOK
<1>2. n \in Nat
  BY BlockCount
<1>3. todo' = BitWrites(id, n, effect.used)
                \o IF effect.code = "OK" THEN store_writes(id, n, effect.disk) ELSE <<>>
  BY DEF write_file_writes, BitWrites
<1>4. ASSUME effect.code = "OK", Readable(id), NEW blocks, NEW entries, NEW bits,
             StorePlan(id, content, blocks, entries, bits),
             effect = Store(id, content, blocks, entries, bits),
             \/ used \subseteq bits
             \/ /\ ~(n > calculate_block_sz(InodeOf(id).size))
                /\ bits = used \ FreedOf(Surplus(id, n))
      PROVE  /\ CrashTyped' /\ superblock' = superblock /\ Working'
             /\ Amounts(effect.used, home, effect.disk, marked)
  <2> PICK old : old = calculate_block_sz(InodeOf(id).size)
    OBVIOUS
  <2> PICK d : d = effect.disk
    OBVIOUS
  <2>1. /\ id \in Live /\ effect.used = bits /\ bits \in SUBSET Blocks
        /\ Left(id, content, blocks, entries, bits, d) /\ old \in Nat
    <3>1. id \in Live
      BY <1>4, ReadableIsLive
    <3>2. effect.used = bits
      BY <1>4, StoreFields
    <3>3. Left(id, content, blocks, entries, bits, d)
      BY <1>1, <1>4, <3>1, StoreLeaves
    <3>4. bits \in SUBSET Blocks
      BY <1>4 DEF StorePlan, Storable
    <3>5. old \in Nat
      BY <1>1, <3>1, LiveInode
    <3>6. QED
      BY <3>1, <3>2, <3>3, <3>4, <3>5
  <2>2. CASE used \subseteq bits
    <3>1. BitsDiffer(id, BitWrites(id, n, bits), bits)
      BY <1>1, <1>2, <2>1, <2>2, BitWritesDiffer
    <3>2. StoreListed(id, n, blocks, entries, d, store_writes(id, n, d))
      BY <1>1, <1>4, <2>1, StoreWritten
    <3>3. StoreBegins(id, n, blocks, entries, bits, d,
                      BitWrites(id, n, bits) \o store_writes(id, n, d))
      BY <3>1, <3>2, StoreBeginsSo
    <3>4. StoreBegins(id, n, blocks, entries, bits, d, todo')
      BY <1>3, <1>4, <2>1, <3>3
    <3>5. QED
      BY <1>4, <2>1, <2>2, <3>4, StoringWorks
  <2>3. CASE ~(used \subseteq bits)
    <3>1. bits = used \ FreedOf(Surplus(id, n)) /\ n <= old
      BY <1>2, <1>4, <2>1, <2>3
    <3>2. /\ Refused(Surplus(id, n)) = {} /\ Distinct(Surplus(id, n))
          /\ FreedOf(Surplus(id, n)) = {Surplus(id, n)[k] : k \in 1 .. Len(Surplus(id, n))}
          /\ FreedOf(Surplus(id, n)) =
               {DataBlockAt(id, idx) : idx \in n .. old - 1}
                 \cup {b \in DataBlocks : DropsIndirect(old, n) /\ b = Indirect(id)}
      BY <1>1, <1>2, <2>1, <3>1, SurplusFreed
    <3>3. used \ bits = {Surplus(id, n)[k] : k \in 1 .. Len(Surplus(id, n))}
      <4>1. \A k \in 1 .. Len(Surplus(id, n)) : Surplus(id, n)[k] \in used
        BY <3>2 DEF Refused
      <4>2. FreedOf(Surplus(id, n)) \subseteq used
        BY <3>2, <4>1
      <4>3. used \ bits = FreedOf(Surplus(id, n))
        BY <3>1, <4>2
      <4>4. QED
        BY <3>2, <4>3
    <3>4. n < old
      <4>1. ASSUME n = old PROVE FALSE
        <5>1. n .. old - 1 = {} /\ ~DropsIndirect(old, n)
          BY <2>1, <4>1, LayoutAssumption DEF DropsIndirect
        <5>2. FreedOf(Surplus(id, n)) = {}
          BY <3>2, <5>1
        <5>3. QED
          BY <2>3, <3>1, <5>2
      <4>2. QED
        BY <1>2, <2>1, <3>1, <4>1
    <3>5. BitsDiffer(id, BitWrites(id, n, bits), bits)
      BY <1>1, <1>2, <2>1, <3>1, <3>2, <3>3, BitWritesDiffer
    <3>6. StoreListed(id, n, blocks, entries, d, store_writes(id, n, d))
      BY <1>1, <1>4, <2>1, StoreWritten
    <3>7. StoreBegins(id, n, blocks, entries, bits, d,
                      BitWrites(id, n, bits) \o store_writes(id, n, d))
      BY <3>5, <3>6, StoreBeginsSo
    <3>8. StoreBegins(id, n, blocks, entries, bits, d, todo')
      BY <1>3, <1>4, <2>1, <3>7
    <3>9. QED
      BY <1>4, <2>1, <3>4, <3>8, StoringWorks
  <2>4. QED
    BY <2>2, <2>3
<1>5. ASSUME effect.code # "OK", effect.disk = disk,
             used \subseteq effect.used, effect.used \subseteq Blocks
      PROVE  /\ CrashTyped' /\ superblock' = superblock /\ Working'
             /\ Amounts(effect.used, home, effect.disk, marked)
  <2> DEFINE s == BitWrites(id, n, effect.used)
  <2>1. BitsDiffer(id, s, effect.used)
    BY <1>1, <1>2, <1>5, BitWritesDiffer
  <2>2. todo' = s \o <<>>
    BY <1>3, <1>5
  <2> HIDE DEF s
  <2>3. s \in Seq(Writes)
    BY <2>1 DEF BitsDiffer
  <2>4. todo' = s
    BY <2>2, <2>3
  <2>5. /\ \A k \in 1 .. Len(s) :
             s[k].kind = "set" /\ s[k].at \in effect.used /\ s[k].file = id
        /\ \A b \in effect.used \ used : \E k \in 1 .. Len(s) : s[k].at = b
    BY <1>5, <2>1 DEF BitsDiffer
  <2>6. /\ todo' \in Seq(Writes) /\ effect.used \in SUBSET Blocks /\ id \in {0} \cup InodeIds
        /\ used \cup effect.used = effect.used
    BY <1>5, <2>3, <2>4
  <2> PICK bits \in SUBSET Blocks : bits = effect.used
    BY <2>6
  <2> PICK f \in {0} \cup InodeIds : f = id
    BY <2>6
  <2>7. TakesOnly(f, bits)
    BY <2>4, <2>5 DEF TakesOnly
  <2>8. /\ CrashTyped' /\ superblock' = superblock /\ Working'
        /\ Amounts(used \cup bits, home, disk, marked)
    BY <2>6, <2>7, TakingWorks
  <2>9. QED
    BY <1>5, <2>6, <2>8
<1>6. QED
  <2>1. \/ /\ effect.code = "OK" /\ Readable(id)
           /\ \E blocks, entries, bits :
                /\ StorePlan(id, content, blocks, entries, bits)
                /\ effect = Store(id, content, blocks, entries, bits)
                /\ \/ used \subseteq bits
                   \/ /\ ~(n > calculate_block_sz(InodeOf(id).size))
                      /\ bits = used \ FreedOf(Surplus(id, n))
        \/ /\ effect.code \in {"OUT_OF_RESOURCE", "INVALID_ARG"}
           /\ effect.disk = disk /\ used \subseteq effect.used /\ effect.used \subseteq Blocks
    BY <1>1, WritePlan
  <2>2. QED
    BY <1>4, <1>5, <2>1

-----------------------------------------------------------------------------
(* The life of the device. *)

(* The process ends or begins, and neither the image nor what a call had    *)
(* still to write changes.                                                  *)
LEMMA SameImageWorks ==
  ASSUME CrashTyped, Working, UNCHANGED <<imageVars, todo>>, up' \in BOOLEAN
  PROVE  superblock' = superblock /\ Working'
<1>1. /\ used' = used /\ home' = home /\ disk' = disk /\ marked' = marked
      /\ superblock' = superblock /\ todo' = todo
  BY DEF imageVars
<1>2. InodesShaped' /\ PendingTyped' /\ Reserved \subseteq used' /\ superblock' = MaxInodes
  BY <1>1 DEF Working, InodesShaped, InodeShaped, PendingTyped, WriteTyped, PendingApart,
              Blocks, DataBlocks, Reserved, InodeIds
<1>3. Live' = Live
  BY <1>1 DEF Live, InodeIds
<1>4. MarksKept'
  BY <1>1, <1>3 DEF Working, MarksKept
<1>5. W!IInv'
  <2>1. SettledUsed' = SettledUsed /\ SettledHome' = SettledHome /\ SettledDisk' = SettledDisk
    BY <1>1 DEF SettledUsed, SettledHome, SettledDisk, Pending, PendingValue
  <2>2. SettledUsed' \subseteq W!Blocks
    BY SameConstants DEF SettledUsed, Blocks
  <2>3. SettledUsed \subseteq SettledUsed'
    BY <2>1
  <2>4. QED
    BY <2>1, <2>2, <2>3, W!OnlyMarks, MemoryFits, LayoutAssumption DEF Working
<1>6. Exposed'
  <2>1. CASE LastExposes
    <3>1. PICK z : z = todo[Len(todo)]
      OBVIOUS
    <3>2. Exposes(z)'
      BY <1>1, <2>1, <3>1
         DEF LastExposes, Exposes, ShrinksInode, InodeOf, calculate_block_sz
    <3>3. LastExposes'
      BY <1>1, <2>1, <3>1, <3>2 DEF LastExposes
    <3>4. QED
      BY <3>3 DEF Exposed
  <2>2. CASE IInv /\ \A k \in 1 .. Len(todo) - 1 : Harmless(k)
    <3>1. TypeOK'
      BY <1>1 DEF CrashTyped, TypeOK
    <3>2. \A i \in Live : \A b \in BlocksOf(i) : b \in used' /\ disk'[b] = disk[b]
      BY <1>1, <2>2, BlocksDiffer
    <3>3. IInv' /\ \A i \in Live : BlocksOf(i)' = BlocksOf(i)
      BY <1>1, <1>2, <2>2, <3>1, <3>2, NoFileChanges
    <3>4. \A k \in 1 .. Len(todo) - 1 : Harmless(k)'
      BY <1>1, <1>3, <2>2, <3>3 DEF Harmless
    <3>5. QED
      BY <1>1, <3>3, <3>4 DEF Exposed
  <2>3. QED
    BY <2>1, <2>2 DEF Working, Exposed
<1>7. MadeForOne'
  <2>1. SettledHome' = SettledHome /\ SettledDisk' = SettledDisk
    BY <1>1 DEF SettledHome, SettledDisk, Pending, PendingValue
  <2>2. todo' \in Seq(Writes)
    BY <1>1 DEF CrashTyped
  <2>3. QED
    BY <1>1, <2>1, <2>2, SameSettledFiles DEF Working
<1>8. QED
  BY <1>1, <1>2, <1>4, <1>5, <1>6, <1>7 DEF Working

(* What a mount checks makes the files sound. *)
LEMMA OwnedIsSound ==
  ASSUME TypeOK, InodesShaped, Owned
  PROVE  IInv
<1>1. /\ \A id \in Live : InodeOf(id).kind = "inode"
      /\ Reserved \subseteq used
      /\ \A p \in Places : /\ Target(p) \in used \cap DataBlocks
                           /\ disk[Target(p)].kind = p[2]
      /\ \A p, q \in Places : Target(p) = Target(q) => p = q
  BY DEF Owned, BlockOwnership
<1>2. ASSUME NEW id \in Live
      PROVE  /\ \E p \in Places : /\ p[1] = id /\ p[2] = "inode"
                                  /\ Target(p) = home[id]
             /\ \A idx \in Positions(id) :
                  \E p \in Places : /\ p[1] = id /\ p[2] = "data" /\ p[3] = idx
                                    /\ Target(p) = DataBlockAt(id, idx)
             /\ HasIndirect(id) =>
                  \E p \in Places : /\ p[1] = id /\ p[2] = "indirect"
                                    /\ Target(p) = Indirect(id)
  <2>1. /\ <<id, "inode", 0>> \in Places /\ Target(<<id, "inode", 0>>) = home[id]
        /\ <<id, "inode", 0>>[1] = id /\ <<id, "inode", 0>>[2] = "inode"
    BY DEF Places, Target
  <2>2. ASSUME NEW idx \in Positions(id)
        PROVE  /\ <<id, "data", idx>> \in Places
               /\ Target(<<id, "data", idx>>) = DataBlockAt(id, idx)
               /\ <<id, "data", idx>>[1] = id /\ <<id, "data", idx>>[2] = "data"
               /\ <<id, "data", idx>>[3] = idx
    BY DEF Places, Target
  <2>3. ASSUME HasIndirect(id)
        PROVE  /\ <<id, "indirect", 0>> \in Places
               /\ Target(<<id, "indirect", 0>>) = Indirect(id)
               /\ <<id, "indirect", 0>>[1] = id /\ <<id, "indirect", 0>>[2] = "indirect"
    BY <2>3 DEF Places, Target, Indirect
  <2>4. QED
    BY <2>1, <2>2, <2>3
<1>3. ASSUME NEW id \in Live
      PROVE  FileSound(id)
  <2>1. Holds(home[id], "inode")
    <3>1. PICK p \in Places : p[2] = "inode" /\ Target(p) = home[id]
      BY <1>2
    <3>2. QED
      BY <1>1, <3>1 DEF Holds
  <2>2. ASSUME HasIndirect(id)
        PROVE  Holds(Indirect(id), "indirect")
    <3>1. PICK p \in Places : p[2] = "indirect" /\ Target(p) = Indirect(id)
      BY <1>2, <2>2
    <3>2. QED
      BY <1>1, <3>1 DEF Holds
  <2>3. ASSUME NEW idx \in Positions(id)
        PROVE  Holds(DataBlockAt(id, idx), "data")
    <3>1. PICK p \in Places : p[2] = "data" /\ Target(p) = DataBlockAt(id, idx)
      BY <1>2
    <3>2. QED
      BY <1>1, <3>1 DEF Holds
  <2>4. ASSUME NEW x \in Positions(id), NEW y \in Positions(id),
               DataBlockAt(id, x) = DataBlockAt(id, y)
        PROVE  x = y
    <3>1. PICK p \in Places : p[3] = x /\ Target(p) = DataBlockAt(id, x)
      BY <1>2
    <3>2. PICK q \in Places : q[3] = y /\ Target(q) = DataBlockAt(id, y)
      BY <1>2
    <3>3. p = q
      BY <1>1, <2>4, <3>1, <3>2
    <3>4. QED
      BY <3>1, <3>2, <3>3
  <2>5. QED
    BY <2>1, <2>2, <2>3, <2>4 DEF FileSound
<1>4. ASSUME NEW id \in Live
      PROVE  FileShaped(id)
  <2>1. home[id] \in DataBlocks /\ disk[home[id]].kind = "inode"
    BY <1>3 DEF FileSound, Holds
  <2>2. InodeShaped(InodeOf(id))
    BY <2>1 DEF InodesShaped, InodeOf
  <2>3. QED
    BY <2>2 DEF InodeShaped, FileShaped, HasIndirect
<1>5. ASSUME NEW i \in Live, NEW j \in Live, NEW b \in BlocksOf(i), b \in BlocksOf(j)
      PROVE  i = j
  <2>1. \A id \in Live : \A c \in BlocksOf(id) :
          \E p \in Places : Target(p) = c /\ p[1] = id
    BY <1>2 DEF BlocksOf
  <2>2. QED
    BY <1>1, <1>5, <2>1
<1>6. FilesApart
  BY <1>5 DEF FilesApart
<1>7. QED
  BY <1>1, <1>3, <1>4, <1>6 DEF IInv

LEMMA MountWorks ==
  ASSUME CrashTyped, Working, mount
  PROVE  CrashTyped' /\ superblock' = superblock /\ Working'
<1>1. /\ used' = used /\ home' = home /\ disk' = disk /\ marked' = marked
      /\ superblock' = superblock /\ todo' = <<>> /\ up' = TRUE /\ mapped
      /\ crashed' = crashed /\ mapped' = mapped /\ Sound
  BY DEF mount, imageVars, deviceVars
<1>2. TypeOK /\ IInv /\ TakenIdsMarked
  BY <1>1, OwnedIsSound DEF Sound, CrashTyped, Working
<1>3. CrashTyped'
  BY <1>1 DEF CrashTyped, TypeOK
<1>4. IInv'
  BY <1>1, <1>2, OnlyMarks DEF TypeOK
<1>5. InodesShaped' /\ TakenIdsMarked'
  BY <1>1, <1>2 DEF Working, InodesShaped, InodeShaped, TakenIdsMarked, Live, InodeIds,
                    DataBlocks, Blocks, Reserved
<1>6. Resting'
  BY <1>1, <1>3, <1>4, <1>5 DEF Resting, NonePending, Working
<1>7. QED
  BY <1>1, <1>3, <1>6, RestingWorksNext

LEMMA InitCrashInv == CrashInit => CrashInv
<1> SUFFICES ASSUME CrashInit PROVE CrashInv
  OBVIOUS
<1>1. /\ used = {} /\ home = [id \in InodeIds |-> KInvalidBlockID]
      /\ disk = [b \in DataBlocks |-> Stale] /\ marked = {} /\ superblock = 0
      /\ up = FALSE /\ todo = <<>> /\ crashed = FALSE /\ mapped = FALSE
  BY DEF CrashInit, NoImage, DeviceInit
<1>2. TypeOK
  <2>1. home \in [InodeIds -> {KInvalidBlockID} \cup DataBlocks]
    BY <1>1
  <2>2. disk \in [DataBlocks -> {Stale} \cup Inodes \cup IndirectBlocks \cup FileBlocks]
    BY <1>1
  <2>3. QED
    BY <1>1, <2>1, <2>2 DEF TypeOK
<1>3. CrashTyped
  <2>1. todo \in Seq(Writes)
    BY <1>1
  <2>2. QED
    BY <1>1, <1>2, <2>1 DEF CrashTyped
<1>4. QED
  BY <1>1, <1>3 DEF CrashInv, Blank

-----------------------------------------------------------------------------
(* Every action preserves the invariant.                                    *)

LEMMA FormatBeginsUp == format => up'
  BY DEF format

(* An empty file takes the place of the device. *)
LEMMA ReplaceWorks ==
  ASSUME CrashTyped, replace_device
  PROVE  CrashTyped' /\ superblock' = 0 /\ Blank' /\ ~up'
<1>1. /\ used' = {} /\ home' = [id \in InodeIds |-> KInvalidBlockID]
      /\ disk' = [b \in DataBlocks |-> Stale] /\ marked' = {} /\ superblock' = 0
      /\ up' = up /\ todo' = <<>> /\ crashed' = FALSE /\ mapped' = mapped /\ ~mapped
  BY DEF replace_device, replace, NoImage
<1>2. TypeOK'
  <2>1. home' \in [InodeIds -> {KInvalidBlockID} \cup DataBlocks]
    BY <1>1
  <2>2. disk' \in [DataBlocks -> {Stale} \cup Inodes \cup IndirectBlocks \cup FileBlocks]
    BY <1>1
  <2>3. QED
    BY <1>1, <2>1, <2>2 DEF CrashTyped, TypeOK, Inodes, IndirectBlocks, FileBlocks,
                            InodeIds, DataBlocks, Blocks, Reserved, Stale
<1>3. todo' \in Seq(Writes)
  BY <1>1
<1>4. CrashTyped'
  BY <1>1, <1>2, <1>3 DEF CrashTyped
<1>5. QED
  BY <1>1, <1>4 DEF Blank, CrashTyped

(* The loop over the reserved blocks is no part of a call. *)
LEMMA NoLoop == CrashTyped /\ Working => ~set_reserved
<1> SUFFICES ASSUME CrashTyped, Working, set_reserved PROVE FALSE
  OBVIOUS
<1>1. Head(todo).kind = "reserve" /\ todo \in Seq(Writes) /\ todo # <<>>
  BY DEF set_reserved, CrashTyped
<1>2. Head(todo) = todo[1] /\ 1 \in 1 .. Len(todo)
  BY <1>1, Todo
<1>3. WriteTyped(todo[1])
  BY <1>2 DEF Working, PendingTyped
<1>4. QED
  BY <1>1, <1>2, <1>3 DEF WriteTyped

(* Nothing is pending on a device without a superblock but its formatting. *)
LEMMA UnformattedNext ==
  ASSUME CrashInv, superblock = 0, CrashNext
  PROVE  CrashInv'
<1>1. CrashTyped /\ Blank /\ (up => Formatting) /\ MaxInodes # 0
  BY LayoutAssumption DEF CrashInv
<1>2. up => todo # <<>>
  BY <1>1 DEF Formatting
<1>3. ASSUME NEW count \in Counts, open_device(count)
      PROVE  CrashInv'
  <2>1. /\ used' = used /\ home' = home /\ disk' = disk /\ marked' = marked
        /\ superblock' = 0 /\ up' = up /\ todo' = todo /\ crashed' = crashed
        /\ mapped' \in BOOLEAN /\ ~mapped
    BY <1>3 DEF open_device, open, imageVars
  <2>2. CrashTyped' /\ Blank' /\ ~up'
    BY <1>1, <2>1 DEF CrashTyped, TypeOK, Blank
  <2>3. QED
    BY <2>1, <2>2 DEF CrashInv
<1>4. CASE replace_device
  BY <1>1, <1>4, ReplaceWorks DEF CrashInv
<1>5. CASE format
  BY <1>1, <1>5, FormatBegins, FormatBeginsUp DEF CrashInv
<1>6. CASE mount
  BY <1>6 DEF mount, Sound
<1>7. CASE step
  <2>1. up /\ Formatting
    BY <1>1, <1>7 DEF step
  <2>2. /\ CrashTyped'
        /\ superblock' = 0 => Blank' /\ Formatting'
        /\ superblock' # 0 => Working'
    BY <1>1, <1>7, <2>1, StepFormats
  <2>3. QED
    BY <2>2 DEF CrashInv
<1>8. CASE stop
  <2>1. /\ used' = used /\ home' = home /\ disk' = disk /\ marked' = marked
        /\ superblock' = 0 /\ up' = FALSE /\ todo' = todo /\ crashed' \in BOOLEAN
        /\ mapped' \in BOOLEAN
    BY <1>1, <1>8 DEF stop, close, imageVars, CrashTyped
  <2>2. CrashTyped' /\ Blank' /\ ~up'
    BY <1>1, <2>1 DEF CrashTyped, TypeOK, Blank
  <2>3. QED
    BY <2>1, <2>2 DEF CrashInv
<1>9. ASSUME NEW type \in Types, create(type)
      PROVE  FALSE
  BY <1>2, <1>9 DEF create, Kills, Begins
<1>10. ASSUME NEW op, NEW id, NEW at, NEW data, NEW content,
              write(op, id, at, data, content)
       PROVE  FALSE
  BY <1>2, <1>10 DEF write, Begins
<1>11. ASSUME NEW id \in InodeIds, remove(id)
       PROVE  FALSE
  BY <1>2, <1>11 DEF remove, Kills, Begins
<1>12. ASSUME NEW op, NEW id, NEW at, NEW data, NEW code, Kills(op, id, at, data, code)
       PROVE  FALSE
  BY <1>2, <1>12 DEF Kills
<1>13. CASE set_reserved
  <2>1. up /\ Formatting
    BY <1>1, <1>13 DEF set_reserved
  <2>2. CrashTyped' /\ superblock' = 0 /\ Blank' /\ Formatting'
    BY <1>1, <1>13, <2>1, RoundFormats
  <2>3. QED
    BY <2>2 DEF CrashInv
<1>14. ASSUME NEW id \in InodeIds,
              \/ \E content \in Contents : replace_content(id, content)
              \/ \E data \in Contents, offset \in Offsets : write_at(id, data, offset)
              \/ \E sz \in Offsets : truncate(id, sz)
       PROVE  FALSE
  BY <1>10, <1>12, <1>14 DEF replace_content, write_at, truncate
<1>15. QED
  BY <1>3, <1>4, <1>5, <1>6, <1>7, <1>8, <1>9, <1>11, <1>13, <1>14 DEF CrashNext

LEMMA SameImageTyped ==
  ASSUME CrashTyped, UNCHANGED <<imageVars, todo>>,
         up' \in BOOLEAN, crashed' \in BOOLEAN, mapped' \in BOOLEAN, up' => mapped'
  PROVE  CrashTyped'
<1>1. /\ used' = used /\ home' = home /\ disk' = disk /\ marked' = marked
      /\ superblock' = superblock /\ todo' = todo
  BY DEF imageVars
<1>2. TypeOK'
  BY <1>1 DEF CrashTyped, TypeOK
<1>3. QED
  BY <1>1, <1>2 DEF CrashTyped

(* A call that has begun leaves the image as it is. *)
LEMMA CallWorks ==
  ASSUME CrashTyped, Working,
         \/ \E type \in Types : create(type)
         \/ \E id \in InodeIds :
              \/ \E content \in Contents : replace_content(id, content)
              \/ \E data \in Contents, offset \in Offsets : write_at(id, data, offset)
              \/ \E sz \in Offsets : truncate(id, sz)
              \/ remove(id)
  PROVE  CrashTyped' /\ superblock' = superblock /\ Working'
<1>1. ASSUME NEW op, NEW id, NEW at, NEW data, NEW code,
         Kills(op, id, at, data, code)
      PROVE  CrashTyped' /\ superblock' = superblock /\ Working'
  <2>1. /\ UNCHANGED <<imageVars, todo>> /\ up' = FALSE /\ crashed' \in BOOLEAN
        /\ mapped' = FALSE
    BY <1>1 DEF Kills, close, CrashTyped
  <2>2. CrashTyped'
    BY <2>1, SameImageTyped
  <2>3. QED
    BY <2>1, <2>2, SameImageWorks
<1>2. ASSUME NEW op, NEW id, NEW at, NEW data, NEW code, NEW writes,
             Begins(op, id, at, data, code, writes)
      PROVE  /\ todo = <<>> /\ UNCHANGED <<imageVars, up, crashed, mapped>>
             /\ todo' = writes
  BY <1>2 DEF Begins, deviceVars
<1>3. ASSUME NEW type \in Types, create(type)
      PROVE  CrashTyped' /\ superblock' = superblock /\ Working'
  <2>1. CASE Free = {}
    BY <1>1, <1>3, <2>1 DEF create
  <2>2. CASE Free # {} /\ Unmarked = {}
    <3>1. Begins("create", 0, 0, <<>>, "OUT_OF_RESOURCE",
                 <<Write(0, "set", NthFree(1), 0)>>)
      BY <1>3, <2>2 DEF create
    <3>2. QED
      BY <1>2, <2>2, <3>1, CreateFailsWorks
  <2>3. CASE Free # {} /\ Unmarked # {}
    <3>1. Begins("create", NextId, 0, <<>>, "OK", alloc_writes(type, NextId))
      BY <1>3, <2>3 DEF create
    <3>2. /\ todo = <<>> /\ UNCHANGED <<imageVars, up, crashed, mapped>>
          /\ todo' = alloc_writes(type, NextId)
      BY <1>2, <3>1
    <3>3. QED
      BY <1>1, <2>3, <3>2, CreateWorks
  <2>4. QED
    BY <2>1, <2>2, <2>3
<1>4. ASSUME NEW id \in InodeIds, NEW op, NEW at, NEW data, NEW content \in Seq(Cells),
             write(op, id, at, data, content)
      PROVE  CrashTyped' /\ superblock' = superblock /\ Working'
  <2>1. Begins(op, id, at, data, write_file(id, content).code,
               write_file_writes(id, content))
    BY <1>4 DEF write
  <2>2. QED
    BY <1>2, <2>1, WriteWorks
<1>5. \A content \in Contents : content \in Seq(Cells)
  BY LayoutAssumption
<1>6. ASSUME NEW id \in InodeIds, NEW content \in Contents, replace_content(id, content)
      PROVE  CrashTyped' /\ superblock' = superblock /\ Working'
  BY <1>4, <1>5, <1>6 DEF replace_content
<1>7. ASSUME NEW id \in InodeIds, Readable(id), todo = <<>>
      PROVE  read_file(id) \in Seq(Cells)
  BY <1>7, AtRest, ReadableIsLive, ReadTyped
<1>8. ASSUME NEW id \in InodeIds, NEW data \in Contents, NEW offset \in Offsets,
             write_at(id, data, offset)
      PROVE  CrashTyped' /\ superblock' = superblock /\ Working'
  <2>1. Readable(id) /\ todo = <<>>
    BY <1>8 DEF write_at, write, Begins, Kills
  <2> DEFINE content == Patched(read_file(id), data, offset)
  <2>2. content \in Seq(Cells)
    BY <1>5, <1>7, <2>1, PatchedTyped, LayoutAssumption
  <2>3. \/ write("write_file_w_off", id, offset, data, content)
        \/ Kills("write_file_w_off", id, offset, data, "EXCEPTION")
    BY <1>8 DEF write_at
  <2> HIDE DEF content
  <2>4. QED
    BY <1>1, <1>4, <2>2, <2>3
<1>9. ASSUME NEW id \in InodeIds, NEW sz \in Offsets, truncate(id, sz)
      PROVE  CrashTyped' /\ superblock' = superblock /\ Working'
  <2>1. Readable(id) /\ todo = <<>>
    BY <1>9 DEF truncate, write, Begins, Kills
  <2> DEFINE content == Resized(read_file(id), sz)
  <2>2. content \in Seq(Cells)
    BY <1>7, <2>1, ResizedTyped, LayoutAssumption
  <2>3. \/ write("resize", id, sz, <<>>, content)
        \/ Kills("resize", id, sz, <<>>, "EXCEPTION")
    BY <1>9 DEF truncate
  <2> HIDE DEF content
  <2>4. QED
    BY <1>1, <1>4, <2>2, <2>3
<1>10. ASSUME NEW id \in InodeIds, remove(id)
       PROVE  CrashTyped' /\ superblock' = superblock /\ Working'
  <2>1. CASE Readable(id) /\ HasIndirect(id)
    BY <1>1, <1>10, <2>1 DEF remove
  <2>2. CASE Readable(id) /\ ~HasIndirect(id)
    <3>1. Begins("remove", id, 0, <<>>, Removed(id).code, remove_writes(id))
      BY <1>10, <2>2 DEF remove
    <3>2. QED
      BY <1>2, <2>2, <3>1, RemoveWorks
  <2>3. QED
    BY <1>10, <2>1, <2>2 DEF remove
<1>11. QED
  BY <1>3, <1>6, <1>8, <1>9, <1>10

LEMMA FormattedNext ==
  ASSUME CrashInv, superblock # 0, CrashNext
  PROVE  CrashInv'
<1>1. CrashTyped /\ Working /\ superblock = MaxInodes
  BY DEF CrashInv, Working
<1>2. CrashTyped' /\ superblock' = superblock /\ Working' => CrashInv'
  BY <1>1 DEF CrashInv
<1>3. ASSUME NEW count \in Counts, open_device(count)
      PROVE  CrashInv'
  <2>1. /\ UNCHANGED <<imageVars, todo>> /\ up' = up /\ crashed' \in BOOLEAN
        /\ mapped' \in BOOLEAN /\ ~mapped
    BY <1>1, <1>3 DEF open_device, open, CrashTyped
  <2>2. up' = FALSE
    BY <1>1, <2>1 DEF CrashTyped, TypeOK
  <2>3. CrashTyped'
    BY <1>1, <2>1, <2>2, SameImageTyped
  <2>4. QED
    BY <1>1, <1>2, <2>1, <2>2, <2>3, SameImageWorks
<1>4. CASE replace_device
  BY <1>1, <1>4, ReplaceWorks DEF CrashInv
<1>5. CASE format
  BY <1>5 DEF format
<1>6. CASE mount
  BY <1>1, <1>2, <1>6, MountWorks
<1>7. CASE step
  BY <1>1, <1>2, <1>7, StepWorks
<1>8. CASE stop
  <2>1. /\ UNCHANGED <<imageVars, todo>> /\ up' = FALSE /\ crashed' \in BOOLEAN
        /\ mapped' = FALSE
    BY <1>1, <1>8 DEF stop, close, CrashTyped
  <2>2. CrashTyped'
    BY <1>1, <2>1, SameImageTyped
  <2>3. QED
    BY <1>1, <1>2, <2>1, <2>2, SameImageWorks
<1>9. ~set_reserved
  BY <1>1, NoLoop
<1>10. QED
  BY <1>1, <1>2, <1>3, <1>4, <1>5, <1>6, <1>7, <1>8, <1>9, CallWorks DEF CrashNext

LEMMA CrashInvNext == CrashInv /\ [CrashNext]_crashVars => CrashInv'
<1> SUFFICES ASSUME CrashInv, [CrashNext]_crashVars PROVE CrashInv'
  OBVIOUS
<1>1. CASE CrashNext
  BY <1>1, UnformattedNext, FormattedNext
<1>2. CASE UNCHANGED crashVars
  <2>1. /\ UNCHANGED <<imageVars, todo>> /\ up' = up /\ crashed' = crashed
        /\ mapped' = mapped /\ used' = used /\ home' = home /\ disk' = disk
        /\ superblock' = superblock /\ todo' = todo /\ marked' = marked
    BY <1>2 DEF crashVars, imageVars, deviceVars
  <2>2. CrashTyped'
    BY <2>1, SameImageTyped DEF CrashInv, CrashTyped, TypeOK
  <2>3. CASE superblock = 0
    BY <2>1, <2>2, <2>3
       DEF CrashInv, Blank, Formatting, LoopState, Collected, BitmapBlockOf,
           bitmap_block_id, Reserved, Blocks, DataBlocks, InodeIds, Stale
  <2>4. CASE superblock # 0
    <3>1. CrashTyped /\ Working /\ up' \in BOOLEAN
      BY <2>1, <2>4 DEF CrashInv, CrashTyped, TypeOK
    <3>2. superblock' = superblock /\ Working'
      BY <2>1, <3>1, SameImageWorks
    <3>3. QED
      BY <2>2, <2>4, <3>2 DEF CrashInv
  <2>5. QED
    BY <2>3, <2>4
<1>3. QED
  BY <1>1, <1>2

LEMMA CrashSpecInv == CrashSpec => []CrashInv
<1>1. CrashInv /\ [CrashNext]_crashVars => CrashInv'
  BY CrashInvNext
<1>2. QED
  BY InitCrashInv, <1>1, PTL DEF CrashSpec

-----------------------------------------------------------------------------
(* What the invariant says of a device that may crash at any moment.        *)

(* A device, its table, its bitmaps and the writes that are still to be     *)
(* made have their types at every moment, and only a process that has the   *)
(* device mapped is up.                                                     *)
THEOREM CrashTypeCorrect == CrashSpec => []CrashTypeOK
<1>1. CrashInv => CrashTypeOK
  <2> SUFFICES ASSUME CrashInv PROVE CrashTypeOK
    OBVIOUS
  <2>1. CrashTyped
    BY DEF CrashInv
  <2>2. \A k \in DOMAIN todo : todo[k].kind \in Kinds
    BY <2>1, Todo DEF CrashTyped, Writes
  <2>3. QED
    BY <2>1, <2>2 DEF CrashTyped, CrashTypeOK, Kinds
<1>2. QED
  BY CrashSpecInv, <1>1, PTL

(* Whenever the process dies, the files are as the table, the bitmap and    *)
(* the inodes say and share no block, unless one of the writes that were    *)
(* not made is the inode of a file that shrinks, or an indirect block.      *)
THEOREM CrashesExposeOnly == CrashSpec => []InterruptedCallsAreSafe
<1>1. CrashInv => InterruptedCallsAreSafe
  <2> SUFFICES ASSUME CrashInv, superblock # 0
               PROVE  Owned \/ \E k \in DOMAIN todo : Exposes(todo[k])
    BY DEF InterruptedCallsAreSafe
  <2>1. CrashTyped /\ Exposed
    BY DEF CrashInv, Working
  <2>2. CASE LastExposes
    <3>1. Len(todo) \in DOMAIN todo /\ Exposes(todo[Len(todo)])
      BY <2>1, <2>2, Todo DEF CrashTyped, LastExposes
    <3>2. QED
      BY <3>1
  <2>3. CASE IInv
    <3>1. \A id \in Live : InodeOf(id).kind = "inode"
      BY <2>3 DEF IInv, FileSound, Holds, InodeOf
    <3>2. QED
      BY <2>3, <3>1, OwnershipOfPlaces DEF Owned
  <2>4. QED
    BY <2>1, <2>2, <2>3 DEF Exposed
<1>2. QED
  BY CrashSpecInv, <1>1, PTL

(* The bit of an id that the table knows is one, whenever the process dies  *)
(* and however often: allocate_inode gives no id out twice.                 *)
THEOREM TakenIdsAreMarked == CrashSpec => []IdsInUseAreMarked
<1>1. CrashInv => IdsInUseAreMarked
  BY DEF CrashInv, Working, MarksKept, IdsInUseAreMarked, TakenIdsMarked
<1>2. QED
  BY CrashSpecInv, <1>1, PTL

(* The constructors write the superblock last: a device that has one is     *)
(* formatted completely, its metadata blocks are allocated for good, and    *)
(* create_from_raw accepts it and finds every region.                       *)
THEOREM SuperblockIsLast == CrashSpec => []SuperblockVouches
<1>1. CrashInv => SuperblockVouches
  <2> SUFFICES ASSUME CrashInv, superblock # 0
               PROVE  /\ Reserved \subseteq used
                      /\ Verified(superblock) /\ FromRaw(superblock, NBlocks) = region
    BY DEF SuperblockVouches
  <2>1. superblock = max_inode_supported(Requested) /\ Reserved \subseteq used
    BY FormatAssumption DEF CrashInv, Working
  <2>2. QED
    BY <2>1, FoundAgain, FormatAssumption, LayoutAssumption DEF region
<1>2. QED
  BY CrashSpecInv, <1>1, PTL

-----------------------------------------------------------------------------
(* The files no write is pending for.                                       *)

SettledFileAt(id) ==
  IF W!Readable(id) THEN [type |-> W!InodeOf(id).type, content |-> W!read_file(id)]
                    ELSE Garbage

OthersSettled ==
  \A f : MadeFor(f) => \A id \in InodeIds : id # f => FileAt(id) = SettledFileAt(id)

(* They are what they are in the settled image, for no block of theirs is   *)
(* written or freed.                                                        *)
LEMMA OthersHaveSettled == CrashTyped /\ Working => OthersSettled
<1> SUFFICES ASSUME CrashTyped, Working, NEW f, MadeFor(f), NEW id \in InodeIds, id # f
             PROVE  FileAt(id) = SettledFileAt(id)
  BY DEF OthersSettled
<1>1. SettledImage /\ W!IInv
  BY LeadsTo DEF TodoTyped, CrashTyped, Working, PendingTyped
<1>2. SettledHome[id] = home[id]
  <2>1. ~Has("entry", id)
    BY DEF Has, MadeFor
  <2>2. QED
    BY <1>1, <2>1 DEF SettledImage
<1>3. W!Readable(id) <=> Readable(id)
  BY <1>2, SameConstants DEF W!Readable, Readable
<1>4. CASE ~Readable(id)
  BY <1>3, <1>4 DEF FileAt, SettledFileAt
<1>5. CASE Readable(id)
  <2>1. id \in W!Live
    BY <1>2, <1>5, SameConstants DEF Readable, W!Live
  <2>2. /\ W!BlocksOf(id) \subseteq SettledUsed \cap W!DataBlocks
        /\ \A idx \in W!Positions(id) : W!DataBlockAt(id, idx) \in W!BlocksOf(id)
        /\ SettledHome[id] \in W!BlocksOf(id)
        /\ W!HasIndirect(id) => W!Indirect(id) \in W!BlocksOf(id)
    BY <1>1, <2>1, W!BlocksDiffer, MemoryFits, LayoutAssumption
  <2>3. ASSUME NEW b \in W!BlocksOf(id)
        PROVE  b \in DataBlocks /\ SettledDisk[b] = disk[b]
    <3>1. b \in DataBlocks /\ b \in SettledUsed
      BY <2>2, SameConstants
    <3>2. ~Has("clear", b)
      BY <1>1, <3>1 DEF SettledImage
    <3>3. ~Has("block", b)
      <4>1. ASSUME Has("block", b) PROVE FALSE
        <5>1. f \in W!Live /\ b \in W!BlocksOf(f)
          BY <4>1 DEF Has, MadeFor
        <5>2. W!BlocksOf(id) \cap W!BlocksOf(f) = {}
          BY <1>1, <2>1, <5>1 DEF W!IInv, W!FilesApart
        <5>3. QED
          BY <5>1, <5>2
      <4>2. QED
        BY <4>1
    <3>4. QED
      BY <1>1, <3>1, <3>2, <3>3 DEF SettledImage
  <2>4. W!InodeOf(id) = InodeOf(id)
    BY <1>2, <2>2, <2>3 DEF W!InodeOf, InodeOf
  <2>5. W!EntriesAt(InodeOf(id).blocks[NDirect]) = EntriesAt(InodeOf(id).blocks[NDirect])
    <3>1. CASE W!HasIndirect(id)
      <4>1. /\ InodeOf(id).blocks[NDirect] \in DataBlocks
            /\ SettledDisk[InodeOf(id).blocks[NDirect]] = disk[InodeOf(id).blocks[NDirect]]
        BY <2>2, <2>3, <2>4, <3>1 DEF W!Indirect
      <4>2. QED
        BY <4>1, SameConstants DEF W!EntriesAt, EntriesAt
    <3>2. CASE ~W!HasIndirect(id)
      <4>1. InodeOf(id).blocks[NDirect] \notin DataBlocks
        BY <2>4, <3>2, NoDataBlockZero, SameConstants DEF W!HasIndirect
      <4>2. QED
        BY <4>1, SameConstants DEF W!EntriesAt, EntriesAt
    <3>3. QED
      BY <3>1, <3>2
  <2>6. \A idx : W!DataBlockAt(id, idx) = DataBlockAt(id, idx)
    BY <2>4, <2>5, SameConstants DEF W!DataBlockAt, DataBlockAt
  <2> PICK sz : sz = InodeOf(id).size
    OBVIOUS
  <2>7. sz \in Nat /\ W!Positions(id) = 0 .. calculate_block_sz(sz) - 1
    <3>1. W!InodeOf(id).size \in Nat
      BY <1>1, <2>1, W!LiveInode, MemoryFits, LayoutAssumption
    <3>2. QED
      BY <2>4, <3>1, SameConstants DEF W!Positions
  <2>8. ASSUME NEW k \in 1 .. sz
        PROVE  W!CellAt(DataBlockAt(id, (k - 1) \div BlockSize), (k - 1) % BlockSize)
                 = CellAt(DataBlockAt(id, (k - 1) \div BlockSize), (k - 1) % BlockSize)
    <3>1. (k - 1) \div BlockSize \in W!Positions(id)
      BY <2>7, PlaceOfCell
    <3> PICK b : b = DataBlockAt(id, (k - 1) \div BlockSize)
      OBVIOUS
    <3>2. b \in DataBlocks /\ SettledDisk[b] = disk[b]
      BY <2>2, <2>3, <2>6, <3>1
    <3>3. QED
      BY <3>2, SameConstants DEF W!CellAt, CellAt
  <2>9. /\ read_file(id) = [k \in 1 .. sz |->
             CellAt(DataBlockAt(id, (k - 1) \div BlockSize), (k - 1) % BlockSize)]
        /\ W!read_file(id) = [k \in 1 .. sz |->
             W!CellAt(W!DataBlockAt(id, (k - 1) \div BlockSize), (k - 1) % BlockSize)]
    BY <2>4 DEF read_file, W!read_file, DataBlockAt, W!DataBlockAt
  <2>10. W!read_file(id) = read_file(id)
    BY <2>6, <2>8, <2>9
  <2>11. QED
    BY <1>3, <1>5, <2>4, <2>10 DEF FileAt, SettledFileAt
<1>6. QED
  BY <1>4, <1>5

LEMMA OthersHaveSettledNext == CrashTyped' /\ Working' => OthersSettled'
  BY OthersHaveSettled, PTL

(* Nothing is read of a file but the table and the blocks of the device.    *)
LEMMA SameImageSameFile ==
  ASSUME home' = home, disk' = disk, NEW id
  PROVE  FileAt(id)' = FileAt(id)
<1>1. Readable(id)' <=> Readable(id)
  BY DEF Readable, InodeIds
<1>2. InodeOf(id)' = InodeOf(id)
  BY DEF InodeOf
<1>3. read_file(id)' = read_file(id)
  BY <1>2 DEF read_file, InodeOf, EntriesAt, CellAt, BlockOf, DataBlocks, Blocks, Reserved
<1>4. QED
  BY <1>1, <1>2, <1>3 DEF FileAt

LEMMA StepLeavesOthers ==
  ASSUME CrashTyped, Working, step, NEW id \in InodeIds, Head(todo).file # id
  PROVE  FileAt(id)' = FileAt(id)
<1>1. CrashTyped' /\ Working'
  BY StepWorks
<1>2. PICK f : MadeFor(f) /\ MadeFor(f)'
  BY StepSameFiles DEF Working, MadeForOne
<1>3. f # id
  BY <1>2, Tailed DEF MadeFor, CrashTyped, step
<1>4. FileAt(id) = SettledFileAt(id)
  BY <1>2, <1>3, OthersHaveSettled DEF OthersSettled
<1>5. FileAt(id)' = SettledFileAt(id)'
  BY <1>1, <1>2, <1>3, OthersHaveSettledNext DEF OthersSettled, InodeIds
<1>6. SettledFileAt(id)' = SettledFileAt(id)
  <2>1. SettledHome' = SettledHome /\ SettledDisk' = SettledDisk
    BY StepSettles DEF Working
  <2>2. W!Readable(id)' <=> W!Readable(id)
    BY <2>1 DEF W!Readable, W!InodeIds
  <2>3. W!InodeOf(id)' = W!InodeOf(id)
    BY <2>1 DEF W!InodeOf
  <2>4. W!read_file(id)' = W!read_file(id)
    BY <2>1, <2>3 DEF W!read_file, W!InodeOf, W!EntriesAt, W!CellAt, W!BlockOf, W!DataBlocks,
                      W!Blocks, W!Reserved
  <2>5. QED
    BY <2>2, <2>3, <2>4 DEF SettledFileAt
<1>7. QED
  BY <1>4, <1>5, <1>6

OthersKept ==
  up /\ up' =>
    \A id \in InodeIds :
      (todo = <<>> \/ Head(todo).file # id) => FileAt(id)' = FileAt(id)

LEMMA NextKeepsOthers == CrashInv /\ [CrashNext]_crashVars => OthersKept
<1> SUFFICES ASSUME CrashInv, [CrashNext]_crashVars, up, up', NEW id \in InodeIds,
                    todo = <<>> \/ Head(todo).file # id
             PROVE  FileAt(id)' = FileAt(id)
  BY DEF OthersKept
<1>1. CrashTyped
  BY DEF CrashInv
<1>2. CASE UNCHANGED imageVars
  BY <1>2, SameImageSameFile DEF imageVars
<1>3. CASE step /\ superblock # 0
  BY <1>1, <1>3, StepLeavesOthers DEF CrashInv, step
<1>4. CASE step /\ superblock = 0
  <2>1. Blank /\ Formatting
    BY <1>4 DEF CrashInv
  <2>2. home' = home
    <3>1. Performed(Head(todo)) /\ Len(todo) > 0 /\ Head(todo) = todo[1]
      BY <1>1, <1>4, Tailed DEF step, CrashTyped
    <3>2. todo[1].kind \in {"zero", "reserve", "superblock"}
      BY <1>1, <2>1, <3>1, FormattingKinds
    <3>3. QED
      BY <2>1, <3>1, <3>2 DEF Blank, Performed, set_bit, clear_bit, set_mark, clear_mark,
           set_table, write_block, zero_block, flush_reserved, write_superblock
  <2>3. home[id] = KInvalidBlockID /\ home'[id] = KInvalidBlockID
    BY <2>1, <2>2 DEF Blank
  <2>4. ~Readable(id) /\ ~Readable(id)'
    BY <2>3 DEF Readable, KInvalidBlockID
  <2>5. QED
    BY <2>4 DEF FileAt
<1>5. CASE set_reserved
  <2>1. superblock = 0
    BY <1>1, <1>5, NoLoop DEF CrashInv
  <2>2. Blank /\ Formatting
    BY <2>1 DEF CrashInv
  <2>3. Blank'
    BY <1>1, <1>5, <2>1, <2>2, RoundFormats
  <2>4. home[id] = KInvalidBlockID /\ home'[id] = KInvalidBlockID
    BY <2>2, <2>3 DEF Blank, InodeIds
  <2>5. ~Readable(id) /\ ~Readable(id)'
    BY <2>4 DEF Readable, KInvalidBlockID
  <2>6. QED
    BY <2>5 DEF FileAt
<1>6. CASE CrashNext /\ ~step /\ ~set_reserved
  <2>1. ~replace_device
    BY <1>1 DEF replace_device, replace, CrashTyped
  <2>2. UNCHANGED imageVars
    BY <1>6, <2>1
       DEF CrashNext, open_device, format, mount, stop, create, replace_content, write_at,
           truncate, write, remove, Begins, Kills
  <2>3. QED
    BY <1>2, <2>2
<1>7. QED
  BY <1>2, <1>3, <1>4, <1>5, <1>6 DEF crashVars

(* OnlyTheCalledFileChanges: no write of a call, on whatever device earlier *)
(* crashes left, is seen by a caller of another file.                       *)
THEOREM OthersUntouched == CrashSpec => OnlyTheCalledFileChanges
<1>1. CrashInv /\ [CrashNext]_crashVars =>
        [up /\ up' =>
           \A id \in InodeIds :
             (todo = <<>> \/ Head(todo).file # id) => FileAt(id)' = FileAt(id)]_crashVars
  BY NextKeepsOthers DEF OthersKept
<1>2. QED
  BY <1>1, CrashSpecInv, PTL DEF CrashSpec, OnlyTheCalledFileChanges

-----------------------------------------------------------------------------
(* Calls as a whole.                                                        *)

(* Between two calls the settled image is the image, for FileOperation too. *)
LEMMA SameWholeConstants ==
  /\ WholeCalls!Blocks = Blocks /\ WholeCalls!DataBlocks = DataBlocks
  /\ WholeCalls!InodeIds = InodeIds /\ WholeCalls!KInvalidBlockID = KInvalidBlockID
  /\ WholeCalls!Stale = Stale /\ WholeCalls!MaxFileSize = MaxFileSize
  /\ \A sz : WholeCalls!calculate_block_sz(sz) = calculate_block_sz(sz)
  /\ \A blocks, entries, idx :
       WholeCalls!BlockOf(blocks, entries, idx) = BlockOf(blocks, entries, idx)
  /\ \A content, idx : WholeCalls!CellsOf(content, idx) = CellsOf(content, idx)
  /\ \A old, new : WholeCalls!DropsIndirect(old, new) <=> DropsIndirect(old, new)
  /\ \A type : WholeCalls!EmptyInode(type) = EmptyInode(type)
  /\ \A op, id, at, data, code :
       WholeCalls!Call(op, id, at, data, code) = Call(op, id, at, data, code)
  /\ \A content, data, offset :
       WholeCalls!Patched(content, data, offset) = Patched(content, data, offset)
  /\ \A content, sz : WholeCalls!Resized(content, sz) = Resized(content, sz)
  BY DEF WholeCalls!Blocks, WholeCalls!DataBlocks, WholeCalls!InodeIds,
         WholeCalls!KInvalidBlockID, WholeCalls!Stale, WholeCalls!MaxFileSize,
         WholeCalls!calculate_block_sz, WholeCalls!BlockOf, WholeCalls!CellsOf,
         WholeCalls!DropsIndirect, WholeCalls!EmptyInode, WholeCalls!InodeBlock,
         WholeCalls!Call, WholeCalls!Patched, WholeCalls!Resized, WholeCalls!Reserved,
         Blocks, DataBlocks, InodeIds, KInvalidBlockID, Stale, MaxFileSize,
         calculate_block_sz, BlockOf, CellsOf, DropsIndirect, EmptyInode, InodeBlock,
         Call, Patched, Resized, Reserved

(* NthFree, FreeSet and Surplus as operators of what they read.             *)
RankIn(S, n) == CHOOSE b \in S : Cardinality({c \in S : c < b}) = n - 1

FirstOnes(blocks) ==
  LET direct == {i \in 0 .. NDirect - 1 : \A j \in 0 .. i : blocks[j] # KInvalidBlockID}
  IN [k \in 1 .. Cardinality(direct) |-> blocks[k - 1]]

LastOnes(blocks, entries, old, new) ==
  [k \in 1 .. old - new |-> BlockOf(blocks, entries, new + k - 1)]
    \o IF DropsIndirect(old, new) THEN <<blocks[NDirect]>> ELSE <<>>

(* The refinement counts the elements of a set as this module does. *)
LEMMA SameCardinality == \A S : WholeCalls!Cardinality(S) = Cardinality(S)
BY DEF WholeCalls!Cardinality, Cardinality

LEMMA SameReading ==
  ASSUME Settled
  PROVE  /\ WholeCalls!Free = Free /\ WholeCalls!FreeIds = FreeIds
         /\ \A id : WholeCalls!Readable(id) <=> Readable(id)
         /\ \A id : WholeCalls!InodeOf(id) = InodeOf(id)
         /\ \A b : WholeCalls!EntriesAt(b) = EntriesAt(b)
         /\ \A b, k : WholeCalls!CellAt(b, k) = CellAt(b, k)
         /\ \A id : WholeCalls!read_file(id) = read_file(id)
         /\ \A id : WholeCalls!HasIndirect(id) <=> HasIndirect(id)
         /\ \A list : WholeCalls!Refused(list) = Refused(list)
         /\ \A list : WholeCalls!FreedOf(list) = FreedOf(list)
         /\ \A id : WholeCalls!FreeSet(id) = FreeSet(id)
         /\ \A n : WholeCalls!NthFree(n) = NthFree(n)
<1>1. SettledUsed = used /\ SettledHome = home /\ SettledDisk = disk
  BY DEF Settled
<1>2. WholeCalls!Free = Free /\ WholeCalls!FreeIds = FreeIds
  BY <1>1, SameWholeConstants DEF WholeCalls!Free, WholeCalls!FreeIds, Free, FreeIds
<1>3. \A id : /\ WholeCalls!Readable(id) <=> Readable(id)
              /\ WholeCalls!InodeOf(id) = InodeOf(id)
  BY <1>1, SameWholeConstants DEF WholeCalls!Readable, Readable, WholeCalls!InodeOf, InodeOf
<1>4. \A b : WholeCalls!EntriesAt(b) = EntriesAt(b)
  BY <1>1, SameWholeConstants DEF WholeCalls!EntriesAt, EntriesAt
<1>5. \A b, k : WholeCalls!CellAt(b, k) = CellAt(b, k)
  BY <1>1, SameWholeConstants DEF WholeCalls!CellAt, CellAt
<1>6. \A id : WholeCalls!read_file(id) = read_file(id)
  BY <1>3, <1>4, <1>5, SameWholeConstants DEF WholeCalls!read_file, read_file
<1>7. \A id : WholeCalls!HasIndirect(id) <=> HasIndirect(id)
  BY <1>3, SameWholeConstants DEF WholeCalls!HasIndirect, HasIndirect
<1>8. \A list : WholeCalls!Refused(list) = Refused(list)
  BY <1>1 DEF WholeCalls!Refused, Refused
<1>9. \A list : WholeCalls!FreedOf(list) = FreedOf(list)
  BY <1>8 DEF WholeCalls!FreedOf, FreedOf
<1>10. \A id : WholeCalls!FreeSet(id) = FreeSet(id)
  <2>1. \A id : FreeSet(id) = FirstOnes(InodeOf(id).blocks) \o <<home[id]>>
    BY DEF FreeSet, FirstOnes
  <2>2. \A id : WholeCalls!FreeSet(id) = FirstOnes(WholeCalls!InodeOf(id).blocks)
                                          \o <<SettledHome[id]>>
    BY Zenon
       DEF WholeCalls!FreeSet, FirstOnes, WholeCalls!KInvalidBlockID, KInvalidBlockID,
           WholeCalls!Cardinality, Cardinality
  <2>3. QED
    BY <1>1, <1>3, <2>1, <2>2
<1>11. \A n : WholeCalls!NthFree(n) = NthFree(n)
  <2>1. \A n : NthFree(n) = RankIn(Free, n)
    BY DEF NthFree, RankIn
  <2>2. \A n : WholeCalls!NthFree(n) = RankIn(WholeCalls!Free, n)
    BY Zenon DEF WholeCalls!NthFree, RankIn, WholeCalls!Cardinality, Cardinality
  <2>3. QED
    BY <1>2, <2>1, <2>2
<1>12. QED
  BY <1>2, <1>3, <1>4, <1>5, <1>6, <1>7, <1>8, <1>9, <1>10, <1>11

LEMMA SameWriting ==
  ASSUME Settled
  PROVE  /\ \A type : WholeCalls!Allocated(type) = Allocated(type)
         /\ \A id : WholeCalls!Removed(id) = Removed(id)
         /\ \A id, content : WholeCalls!write_file(id, content) = write_file(id, content)
<1>1. SettledUsed = used /\ SettledHome = home /\ SettledDisk = disk
  BY DEF Settled
<1>2. \A type : WholeCalls!Allocated(type) = Allocated(type)
  BY <1>1, SameReading, SameWholeConstants DEF WholeCalls!Allocated, Allocated
<1>3. \A id : WholeCalls!Removed(id) = Removed(id)
  BY <1>1, SameReading, SameWholeConstants DEF WholeCalls!Removed, Removed
<1>4. \A id, content, blocks, entries, bits :
        WholeCalls!Store(id, content, blocks, entries, bits)
          = Store(id, content, blocks, entries, bits)
  BY <1>1, SameReading, SameWholeConstants
     DEF WholeCalls!Store, Store, WholeCalls!InodeBlock, InodeBlock,
         WholeCalls!IndirectBlock, IndirectBlock, WholeCalls!DataBlock, DataBlock
<1>5. \A code, bits : WholeCalls!Unwritten(code, bits) = Unwritten(code, bits)
  BY <1>1 DEF WholeCalls!Unwritten, Unwritten
<1>6. \A id, n : WholeCalls!Surplus(id, n) = Surplus(id, n)
  <2>1. \A id, n : Surplus(id, n) =
                     LastOnes(InodeOf(id).blocks, EntriesAt(InodeOf(id).blocks[NDirect]),
                              calculate_block_sz(InodeOf(id).size), n)
    BY DEF Surplus, LastOnes
  <2>2. \A id, n : WholeCalls!Surplus(id, n) =
                     LastOnes(WholeCalls!InodeOf(id).blocks,
                              WholeCalls!EntriesAt(WholeCalls!InodeOf(id).blocks[NDirect]),
                              WholeCalls!calculate_block_sz(WholeCalls!InodeOf(id).size), n)
    BY DEF WholeCalls!Surplus, LastOnes, WholeCalls!BlockOf, BlockOf,
           WholeCalls!DropsIndirect, DropsIndirect
  <2>3. QED
    BY <2>1, <2>2, SameReading, SameWholeConstants
<1>7. ASSUME NEW id, NEW content
      PROVE  WholeCalls!Grown(id, content) = Grown(id, content)
  <2> PICK inode, before, old, new, free :
        /\ inode = InodeOf(id) /\ before = EntriesAt(inode.blocks[NDirect])
        /\ old = calculate_block_sz(inode.size) /\ new = calculate_block_sz(Len(content))
        /\ free = Cardinality(Free)
    OBVIOUS
  <2> DEFINE adds == new > NDirect /\ inode.blocks[NDirect] = KInvalidBlockID
             first == IF old > NDirect THEN old ELSE NDirect
             taken == (new - old) + IF adds THEN 1 ELSE 0
             rank(idx) == (idx - old) + IF adds /\ idx > first THEN 2 ELSE 1
             blocks == [idx \in 0 .. NDirect |->
                          CASE idx < NDirect /\ idx \in old .. new - 1 -> NthFree(rank(idx))
                            [] idx = NDirect /\ adds -> NthFree(first - old + 2)
                            [] OTHER -> inode.blocks[idx]]
             entries == [k \in 0 .. NIndirect - 1 |->
                           IF k + NDirect \in old .. new - 1 THEN NthFree(rank(k + NDirect))
                                                             ELSE before[k]]
             bits == used \cup {NthFree(n) : n \in 1 .. taken}
             wblocks == [idx \in 0 .. NDirect |->
                          CASE idx < NDirect /\ idx \in old .. new - 1 ->
                                 WholeCalls!NthFree(rank(idx))
                            [] idx = NDirect /\ adds -> WholeCalls!NthFree(first - old + 2)
                            [] OTHER -> inode.blocks[idx]]
             wentries == [k \in 0 .. NIndirect - 1 |->
                           IF k + NDirect \in old .. new - 1
                             THEN WholeCalls!NthFree(rank(k + NDirect)) ELSE before[k]]
             wbits == SettledUsed \cup {WholeCalls!NthFree(n) : n \in 1 .. taken}
  <2>1. \A n : WholeCalls!NthFree(n) = NthFree(n)
    BY SameReading
  <2>2. wblocks = blocks
    BY <2>1
  <2>3. wentries = entries
    BY <2>1
  <2>4. wbits = bits
    BY <1>1, <2>1
  <2>5. Grown(id, content) =
          IF taken > free THEN Unwritten("OUT_OF_RESOURCE", Blocks)
                          ELSE Store(id, content, blocks, entries, bits)
    BY DEF Grown
  <2>6. /\ WholeCalls!InodeOf(id) = inode
        /\ WholeCalls!EntriesAt(inode.blocks[NDirect]) = before
        /\ WholeCalls!calculate_block_sz(inode.size) = old
        /\ WholeCalls!calculate_block_sz(Len(content)) = new
        /\ WholeCalls!Cardinality(WholeCalls!Free) = free
        /\ WholeCalls!Blocks = Blocks
    BY SameReading, SameWholeConstants, SameCardinality
  <2>7. WholeCalls!Grown(id, content) =
          IF taken > free THEN WholeCalls!Unwritten("OUT_OF_RESOURCE", Blocks)
                          ELSE WholeCalls!Store(id, content, wblocks, wentries, wbits)
    BY <2>6 DEF WholeCalls!Grown, WholeCalls!KInvalidBlockID, KInvalidBlockID
  <2> HIDE DEF blocks, entries, bits, wblocks, wentries, wbits, taken
  <2>8. QED
    BY <1>4, <1>5, <2>2, <2>3, <2>4, <2>5, <2>7
<1>8. ASSUME NEW id, NEW content
      PROVE  WholeCalls!Shrunk(id, content) = Shrunk(id, content)
  <2> PICK inode, before, old, new, list :
        /\ inode = InodeOf(id) /\ before = EntriesAt(inode.blocks[NDirect])
        /\ old = calculate_block_sz(inode.size) /\ new = calculate_block_sz(Len(content))
        /\ list = Surplus(id, new)
    OBVIOUS
  <2> DEFINE blocks == [idx \in 0 .. NDirect |->
                          IF \/ idx < NDirect /\ idx \in new .. old - 1
                             \/ idx = NDirect /\ DropsIndirect(old, new)
                            THEN KInvalidBlockID ELSE inode.blocks[idx]]
             entries == [k \in 0 .. NIndirect - 1 |->
                           IF k + NDirect \in new .. old - 1 THEN KInvalidBlockID
                                                             ELSE before[k]]
  <2>1. Shrunk(id, content) =
          IF Refused(list) # {} THEN Unwritten("INVALID_ARG", used \ FreedOf(list))
                                ELSE Store(id, content, blocks, entries, used \ FreedOf(list))
    BY DEF Shrunk
  <2>2. /\ WholeCalls!InodeOf(id) = inode
        /\ WholeCalls!EntriesAt(inode.blocks[NDirect]) = before
        /\ WholeCalls!calculate_block_sz(inode.size) = old
        /\ WholeCalls!calculate_block_sz(Len(content)) = new
        /\ WholeCalls!Surplus(id, new) = list
    BY <1>6, SameReading, SameWholeConstants
  <2>3. WholeCalls!Shrunk(id, content) =
          IF WholeCalls!Refused(list) # {}
            THEN WholeCalls!Unwritten("INVALID_ARG", SettledUsed \ WholeCalls!FreedOf(list))
            ELSE WholeCalls!Store(id, content, blocks, entries,
                                  SettledUsed \ WholeCalls!FreedOf(list))
    BY <2>2 DEF WholeCalls!Shrunk, WholeCalls!KInvalidBlockID, KInvalidBlockID,
                WholeCalls!DropsIndirect, DropsIndirect
  <2> HIDE DEF blocks, entries
  <2>4. WholeCalls!Refused(list) = Refused(list) /\ WholeCalls!FreedOf(list) = FreedOf(list)
    BY SameReading
  <2>5. QED
    BY <1>1, <1>4, <1>5, <2>1, <2>3, <2>4
<1>9. QED
  BY <1>1, <1>2, <1>3, <1>5, <1>7, <1>8, SameReading, SameWholeConstants
     DEF WholeCalls!write_file, write_file

(* While no crash has hit the device, an id is marked if and only if it is  *)
(* in use, once the pending writes are made; a process that ended has made  *)
(* all of them.                                                             *)
MarksExact == SettledMarked = W!Live

Undisturbed == (~up => todo = <<>>) /\ (superblock # 0 => MarksExact)

LEMMA RestingMarks ==
  ASSUME CrashTyped, Working, MarksExact, todo = <<>>
  PROVE  Settled /\ IInv /\ marked = Live /\ Unmarked = FreeIds
<1>1. Settled /\ IInv
  BY AtRest
<1>2. SettledMarked = marked
  BY DEF SettledMarked, Pending, CrashTyped
<1>3. W!Live = Live
  BY <1>1, SameConstants DEF Settled, W!Live, Live
<1>4. QED
  BY <1>1, <1>2, <1>3 DEF MarksExact, Unmarked, FreeIds, Live

(* What a call that begins amounts to keeps the ids in use marked exactly.  *)
LEMMA MarksExactNext ==
  ASSUME NEW u, NEW h, NEW d, NEW m, Amounts(u, h, d, m),
         m = {id \in InodeIds : h[id] # KInvalidBlockID}
  PROVE  MarksExact'
<1>1. SettledMarked' = m /\ SettledHome' = h
  BY DEF Amounts
<1>2. W!Live' = {id \in InodeIds : h[id] # KInvalidBlockID}
  BY <1>1 DEF W!Live, W!InodeIds, W!KInvalidBlockID, InodeIds, KInvalidBlockID
<1>3. QED
  BY <1>1, <1>2 DEF MarksExact

(* Nothing changes that the settled image is made from. *)
LEMMA SameMarks ==
  ASSUME MarksExact, UNCHANGED <<imageVars, todo>>
  PROVE  MarksExact'
<1>1. home' = home /\ marked' = marked /\ todo' = todo
  BY DEF imageVars
<1>2. SettledHome' = SettledHome /\ SettledMarked' = SettledMarked
  BY <1>1 DEF SettledHome, SettledMarked, Pending, PendingValue, InodeIds
<1>3. QED
  BY <1>2 DEF MarksExact, W!Live, W!InodeIds, W!KInvalidBlockID

(* The call ends the process: the image stays, with nothing pending.        *)
LEMMA KillsWhole ==
  ASSUME CrashTyped, MarksExact, NEW op, NEW id, NEW at, NEW data, NEW code,
         Kills(op, id, at, data, code)
  PROVE  /\ MarksExact' /\ todo' = <<>>
         /\ SettledUsed' = SettledUsed /\ SettledHome' = SettledHome
         /\ SettledDisk' = SettledDisk
<1>1. UNCHANGED <<imageVars, todo>> /\ todo = <<>>
  BY DEF Kills
<1>2. used' = used /\ home' = home /\ disk' = disk /\ todo' = todo
  BY <1>1 DEF imageVars
<1>3. /\ SettledUsed' = SettledUsed /\ SettledHome' = SettledHome
      /\ SettledDisk' = SettledDisk
  BY <1>2 DEF SettledUsed, SettledHome, SettledDisk, Pending, PendingValue,
              Blocks, DataBlocks, Reserved, InodeIds, Stale
<1>4. QED
  BY <1>1, <1>3, SameMarks

LEMMA KillsThrows ==
  ASSUME CrashTyped, MarksExact, NEW op, NEW id, NEW at, NEW data,
         Kills(op, id, at, data, "EXCEPTION")
  PROVE  MarksExact' /\ todo' = <<>> /\ WholeCalls!Throws(op, id, at, data)
<1>1. /\ MarksExact' /\ todo' = <<>>
      /\ SettledUsed' = SettledUsed /\ SettledHome' = SettledHome
      /\ SettledDisk' = SettledDisk
  BY KillsWhole
<1>2. up' = FALSE /\ ret' = WholeCalls!Call(op, id, at, data, "EXCEPTION")
  BY SameWholeConstants DEF Kills
<1>3. QED
  BY <1>1, <1>2 DEF WholeCalls!Throws

LowestOf(S) == CHOOSE i \in S : \A j \in S : i <= j

LEMMA CreateWhole ==
  ASSUME CrashTyped, Working, MarksExact, NEW type \in Types, create(type)
  PROVE  MarksExact' /\ WholeCalls!Next /\ (up' \/ todo' = <<>>)
<1>1. up /\ todo = <<>>
  BY DEF create, Begins, Kills
<1>2. Settled /\ IInv /\ marked = Live /\ Unmarked = FreeIds
  BY <1>1, RestingMarks
<1>3. WholeCalls!Free = Free /\ WholeCalls!FreeIds = FreeIds
      /\ WholeCalls!NthFree(1) = NthFree(1)
      /\ WholeCalls!Allocated(type) = Allocated(type)
      /\ SettledUsed = used /\ SettledHome = home /\ SettledDisk = disk
  BY <1>2, SameReading, SameWriting DEF Settled
<1>4. CASE Free = {}
  <2>1. Kills("create", 0, 0, <<>>, "EXCEPTION")
    BY <1>4 DEF create
  <2>2. /\ MarksExact' /\ todo' = <<>>
        /\ SettledUsed' = SettledUsed /\ SettledHome' = SettledHome
        /\ SettledDisk' = SettledDisk
    BY <2>1, KillsWhole
  <2>3. up' = FALSE /\ ret' = WholeCalls!Call("create", 0, 0, <<>>, "EXCEPTION")
    BY <2>1, SameWholeConstants DEF Kills
  <2>4. WholeCalls!alloc_inode_no_block
    BY <1>1, <1>3, <1>4, <2>2, <2>3 DEF WholeCalls!alloc_inode_no_block
  <2>5. QED
    BY <2>2, <2>4 DEF WholeCalls!Next
<1>5. CASE Free # {} /\ Unmarked = {}
  <2>1. Begins("create", 0, 0, <<>>, "OUT_OF_RESOURCE", <<Write(0, "set", NthFree(1), 0)>>)
    BY <1>5 DEF create
  <2>2. /\ UNCHANGED <<imageVars, up, crashed, mapped>>
        /\ todo' = <<Write(0, "set", NthFree(1), 0)>>
        /\ ret' = WholeCalls!Call("create", 0, 0, <<>>, "OUT_OF_RESOURCE")
    BY <2>1, SameWholeConstants DEF Begins, deviceVars
  <2>3. Amounts(used \cup {NthFree(1)}, home, disk, marked)
    BY <1>1, <1>5, <2>2, CreateFailsWorks
  <2>4. MarksExact'
    BY <1>2, <2>3, MarksExactNext DEF Live
  <2>5. WholeCalls!alloc_inode_table_full
    BY <1>1, <1>2, <1>3, <1>5, <2>2, <2>3
       DEF WholeCalls!alloc_inode_table_full, Amounts
  <2>6. QED
    BY <1>1, <2>2, <2>4, <2>5 DEF WholeCalls!Next
<1>6. CASE Free # {} /\ Unmarked # {}
  <2>1. Begins("create", NextId, 0, <<>>, "OK", alloc_writes(type, NextId))
    BY <1>6 DEF create
  <2>2. /\ UNCHANGED <<imageVars, up, crashed, mapped>>
        /\ todo' = alloc_writes(type, NextId)
        /\ ret' = WholeCalls!Call("create", NextId, 0, <<>>, "OK")
    BY <2>1, SameWholeConstants DEF Begins, deviceVars
  <2>3. Amounts(used \cup {NthFree(1)}, [home EXCEPT ![NextId] = NthFree(1)],
                [disk EXCEPT ![NthFree(1)] = EmptyInode(type)], marked \cup {NextId})
    BY <1>1, <1>6, <2>2, CreateWorks
  <2>4. NextId = LowestOf(FreeIds) /\ NextId \in InodeIds
    <3>1. NextId = LowestOf(Unmarked)
      BY Zenon DEF NextId, LowestOf
    <3>2. \E i \in Unmarked : \A j \in Unmarked : i <= j
      BY <1>6, LowestOfIds DEF Unmarked
    <3>3. NextId \in Unmarked
      BY <3>2 DEF NextId
    <3>4. QED
      BY <1>2, <3>1, <3>3 DEF Unmarked
  <2>5. NthFree(1) # KInvalidBlockID
    <3>1. 1 \in 1 .. Cardinality(Free)
      BY <1>6, FreeIsFinite, FS_EmptySet
    <3>2. QED
      BY <1>2, <3>1, FreeBlocksAreData
  <2>6. MarksExact'
    <3>1. home \in [InodeIds -> {KInvalidBlockID} \cup DataBlocks]
      BY <1>2 DEF IInv, TypeOK
    <3>2. marked \cup {NextId}
            = {i \in InodeIds : [home EXCEPT ![NextId] = NthFree(1)][i] # KInvalidBlockID}
      BY <1>2, <2>4, <2>5, <3>1 DEF Live
    <3>3. QED
      BY <2>3, <3>2, MarksExactNext
  <2>7. /\ Allocated(type).id = LowestOf(FreeIds)
        /\ Allocated(type).used = used \cup {NthFree(1)}
        /\ Allocated(type).home = [home EXCEPT ![LowestOf(FreeIds)] = NthFree(1)]
        /\ Allocated(type).disk = [disk EXCEPT ![NthFree(1)] = EmptyInode(type)]
    BY DEF Allocated, LowestOf
  <2>8. WholeCalls!alloc_inode(type)
    BY <1>1, <1>2, <1>3, <1>6, <2>2, <2>3, <2>4, <2>7 DEF WholeCalls!alloc_inode, Amounts
  <2>9. QED
    BY <1>1, <2>2, <2>6, <2>8 DEF WholeCalls!Next
<1>7. QED
  BY <1>4, <1>5, <1>6

LEMMA WriteWhole ==
  ASSUME CrashTyped, Working, MarksExact, NEW id \in InodeIds, NEW content \in Seq(Cells),
         NEW op, NEW at, NEW data, write(op, id, at, data, content)
  PROVE  MarksExact' /\ up' /\ WholeCalls!Written(id, content, op, at, data)
<1>1. Begins(op, id, at, data, write_file(id, content).code, write_file_writes(id, content))
  BY DEF write
<1>2. /\ up /\ todo = <<>> /\ UNCHANGED <<imageVars, up, crashed, mapped>>
      /\ todo' = write_file_writes(id, content)
      /\ ret' = Call(op, id, at, data, write_file(id, content).code)
  BY <1>1 DEF Begins, deviceVars
<1>3. Settled /\ IInv /\ marked = Live
  BY <1>2, RestingMarks
<1>4. Amounts(write_file(id, content).used, home, write_file(id, content).disk, marked)
  BY <1>2, WriteWorks
<1>5. MarksExact'
  BY <1>3, <1>4, MarksExactNext DEF Live
<1>6. PICK effect : /\ effect = write_file(id, content)
                    /\ effect = WholeCalls!write_file(id, content)
  BY <1>3, SameWriting
<1>7. WholeCalls!Call(op, id, at, data, effect.code) = Call(op, id, at, data, effect.code)
  BY SameWholeConstants
<1>8. /\ SettledUsed' = effect.used /\ SettledDisk' = effect.disk
      /\ SettledHome' = SettledHome /\ up' = up
      /\ ret' = WholeCalls!Call(op, id, at, data, effect.code)
  BY <1>2, <1>3, <1>4, <1>6, <1>7 DEF Amounts, Settled
<1>9. WholeCalls!Written(id, content, op, at, data)
  BY <1>6, <1>8 DEF WholeCalls!Written
<1>10. QED
  BY <1>2, <1>5, <1>8, <1>9

LEMMA WritesWhole ==
  ASSUME CrashTyped, Working, MarksExact, NEW id \in InodeIds,
         \/ \E content \in Contents : replace_content(id, content)
         \/ \E data \in Contents, offset \in Offsets : write_at(id, data, offset)
         \/ \E sz \in Offsets : truncate(id, sz)
  PROVE  MarksExact' /\ WholeCalls!Next /\ (up' \/ todo' = <<>>)
<1>1. up /\ todo = <<>>
  BY DEF replace_content, write_at, truncate, write, Begins, Kills
<1>2. Settled /\ IInv
  BY <1>1, RestingMarks
<1>3. /\ WholeCalls!Readable(id) <=> Readable(id)
      /\ WholeCalls!InodeOf(id) = InodeOf(id)
      /\ WholeCalls!read_file(id) = read_file(id)
      /\ WholeCalls!InodeIds = InodeIds
      /\ \A size : WholeCalls!Resizable(size) <=> Resizable(size)
  BY <1>2, SameReading, SameWholeConstants DEF WholeCalls!Resizable, Resizable
<1>4. \A content \in Contents : content \in Seq(Cells)
  BY LayoutAssumption
<1>5. Readable(id) => read_file(id) \in Seq(Cells)
  BY <1>2, ReadableIsLive, ReadTyped
<1>6. ASSUME NEW content \in Contents, replace_content(id, content)
      PROVE  MarksExact' /\ WholeCalls!Next /\ (up' \/ todo' = <<>>)
  <2>1. /\ MarksExact' /\ up'
        /\ WholeCalls!Written(id, content, "write_file", 0, content)
    BY <1>4, <1>6, WriteWhole DEF replace_content
  <2>2. WholeCalls!WriteFile(id, content)
    BY <1>1, <2>1 DEF WholeCalls!WriteFile
  <2>3. QED
    BY <1>3, <2>1, <2>2 DEF WholeCalls!Next
<1>7. ASSUME NEW data \in Contents, NEW offset \in Offsets, write_at(id, data, offset)
      PROVE  MarksExact' /\ WholeCalls!Next /\ (up' \/ todo' = <<>>)
  <2> DEFINE content == Patched(read_file(id), data, offset)
             size == offset + Len(data)
  <2>1. /\ Readable(id)
        /\ Resizable(size) => write("write_file_w_off", id, offset, data, content)
        /\ ~Resizable(size) => Kills("write_file_w_off", id, offset, data, "EXCEPTION")
    BY <1>7 DEF write_at
  <2>2. content \in Seq(Cells)
    BY <1>4, <1>5, <2>1, PatchedTyped, LayoutAssumption
  <2>3. content = WholeCalls!Patched(WholeCalls!read_file(id), data, offset)
    BY <1>3, SameWholeConstants
  <2> HIDE DEF content
  <2>4. CASE Resizable(size)
    <3>1. /\ MarksExact' /\ up'
          /\ WholeCalls!Written(id, content, "write_file_w_off", offset, data)
      BY <2>1, <2>2, <2>4, WriteWhole
    <3>2. WholeCalls!write_file_w_off(id, data, offset)
      BY <1>1, <1>3, <2>1, <2>3, <2>4, <3>1 DEF WholeCalls!write_file_w_off
    <3>3. QED
      BY <1>3, <3>1, <3>2 DEF WholeCalls!Next
  <2>5. CASE ~Resizable(size)
    <3>1. /\ MarksExact' /\ todo' = <<>>
          /\ WholeCalls!Throws("write_file_w_off", id, offset, data)
      BY <2>1, <2>5, KillsThrows
    <3>2. WholeCalls!write_file_w_off(id, data, offset)
      BY <1>1, <1>3, <2>1, <2>5, <3>1 DEF WholeCalls!write_file_w_off
    <3>3. QED
      BY <1>3, <3>1, <3>2 DEF WholeCalls!Next
  <2>6. QED
    BY <2>4, <2>5
<1>8. ASSUME NEW sz \in Offsets, truncate(id, sz)
      PROVE  MarksExact' /\ WholeCalls!Next /\ (up' \/ todo' = <<>>)
  <2> DEFINE content == Resized(read_file(id), sz)
  <2>1. /\ Readable(id) /\ InodeOf(id).size # sz
        /\ Resizable(sz) => write("resize", id, sz, <<>>, content)
        /\ ~Resizable(sz) => Kills("resize", id, sz, <<>>, "EXCEPTION")
    BY <1>8 DEF truncate
  <2>2. content \in Seq(Cells)
    BY <1>5, <2>1, ResizedTyped, LayoutAssumption
  <2>3. content = WholeCalls!Resized(WholeCalls!read_file(id), sz)
    BY <1>3, SameWholeConstants
  <2> HIDE DEF content
  <2>4. CASE Resizable(sz)
    <3>1. MarksExact' /\ up' /\ WholeCalls!Written(id, content, "resize", sz, <<>>)
      BY <2>1, <2>2, <2>4, WriteWhole
    <3>2. WholeCalls!resize(id, sz)
      BY <1>1, <1>3, <2>1, <2>3, <2>4, <3>1 DEF WholeCalls!resize
    <3>3. QED
      BY <1>3, <3>1, <3>2 DEF WholeCalls!Next
  <2>5. CASE ~Resizable(sz)
    <3>1. MarksExact' /\ todo' = <<>> /\ WholeCalls!Throws("resize", id, sz, <<>>)
      BY <2>1, <2>5, KillsThrows
    <3>2. WholeCalls!resize(id, sz)
      BY <1>1, <1>3, <2>1, <2>5, <3>1 DEF WholeCalls!resize
    <3>3. QED
      BY <1>3, <3>1, <3>2 DEF WholeCalls!Next
  <2>6. QED
    BY <2>4, <2>5
<1>9. QED
  BY <1>6, <1>7, <1>8

LEMMA RemoveWhole ==
  ASSUME CrashTyped, Working, MarksExact, NEW id \in InodeIds, remove(id)
  PROVE  MarksExact' /\ WholeCalls!Next /\ (up' \/ todo' = <<>>)
<1>1. up /\ todo = <<>> /\ Readable(id)
  BY DEF remove, Begins, Kills
<1>2. Settled /\ IInv /\ marked = Live
  BY <1>1, RestingMarks
<1>3. /\ WholeCalls!Readable(id) /\ (WholeCalls!HasIndirect(id) <=> HasIndirect(id))
      /\ WholeCalls!Removed(id) = Removed(id)
      /\ WholeCalls!InodeIds = InodeIds
  BY <1>1, <1>2, SameReading, SameWriting, SameWholeConstants
<1>4. CASE HasIndirect(id)
  <2>1. Kills("remove", id, 0, <<>>, "SEGV")
    BY <1>1, <1>4 DEF remove
  <2>2. /\ MarksExact' /\ todo' = <<>>
        /\ SettledUsed' = SettledUsed /\ SettledHome' = SettledHome
        /\ SettledDisk' = SettledDisk
    BY <2>1, KillsWhole
  <2>3. up' = FALSE /\ ret' = WholeCalls!Call("remove", id, 0, <<>>, "SEGV")
    BY <2>1, SameWholeConstants DEF Kills
  <2>4. WholeCalls!remove_file_indirect(id)
    BY <1>1, <1>3, <1>4, <2>2, <2>3 DEF WholeCalls!remove_file_indirect
  <2>5. QED
    BY <1>3, <2>2, <2>4 DEF WholeCalls!Next
<1>5. CASE ~HasIndirect(id)
  <2>1. Begins("remove", id, 0, <<>>, Removed(id).code, remove_writes(id))
    BY <1>5 DEF remove
  <2>2. /\ UNCHANGED <<imageVars, up, crashed, mapped>>
        /\ todo' = remove_writes(id)
        /\ ret' = WholeCalls!Call("remove", id, 0, <<>>, Removed(id).code)
    BY <2>1, SameWholeConstants DEF Begins, deviceVars
  <2>3. Amounts(Removed(id).used, Removed(id).home, Removed(id).disk, marked \ {id})
    BY <1>1, <1>5, <2>2, RemoveWorks
  <2>4. MarksExact'
    <3>1. home \in [InodeIds -> {KInvalidBlockID} \cup DataBlocks]
      BY <1>2 DEF IInv, TypeOK
    <3>2. Removed(id).home = [home EXCEPT ![id] = KInvalidBlockID]
      BY DEF Removed
    <3>3. marked \ {id} = {i \in InodeIds : Removed(id).home[i] # KInvalidBlockID}
      BY <1>2, <3>1, <3>2 DEF Live
    <3>4. QED
      BY <2>3, <3>3, MarksExactNext
  <2>5. WholeCalls!remove_file(id)
    BY <1>1, <1>3, <1>5, <2>2, <2>3 DEF WholeCalls!remove_file, Amounts
  <2>6. QED
    BY <1>1, <1>3, <2>2, <2>4, <2>5 DEF WholeCalls!Next
<1>6. QED
  BY <1>4, <1>5

(* The last write of a formatting leaves a device without files or marks.   *)
LEMMA FormattedMarks ==
  ASSUME CrashTyped, superblock = 0, Blank, Formatting, step, superblock' # 0
  PROVE  MarksExact'
<1> DEFINE w == todo[1]
<1>1. /\ Performed(w) /\ todo \in Seq(Writes) /\ todo # <<>> /\ todo' = Tail(todo)
      /\ Len(todo) \in Nat \ {0} /\ Len(todo') = Len(todo) - 1 /\ todo' \in Seq(Writes)
  BY Tailed DEF step, CrashTyped
<1>2. w.kind \in {"zero", "reserve", "superblock"}
  BY FormattingKinds
<1>3. w.kind = "superblock" /\ home' = home /\ marked' = marked
  BY <1>1, <1>2 DEF Performed, set_bit, clear_bit, set_mark, clear_mark, set_table,
                    write_block, zero_block, flush_reserved, write_superblock
<1>4. Len(todo) = 1
  BY <1>3, FormattingKinds
<1>5. todo' = <<>>
  BY <1>1, <1>4
<1>6. SettledMarked' = {}
  BY <1>3, <1>5 DEF SettledMarked, Pending, Blank
<1>7. W!Live' = {}
  BY <1>3, <1>5
     DEF W!Live, W!InodeIds, W!KInvalidBlockID, InodeIds, KInvalidBlockID, SettledHome,
         Pending, Blank
<1>8. QED
  BY <1>6, <1>7 DEF MarksExact

LEMMA StepMarksExact ==
  ASSUME CrashTyped, Working, MarksExact, step
  PROVE  MarksExact'
<1>1. SettledMarked' = SettledMarked /\ SettledHome' = SettledHome
  BY StepSettles DEF Working
<1>2. QED
  BY <1>1 DEF MarksExact, W!Live, W!InodeIds, W!KInvalidBlockID

UndisturbedInv == CrashInv /\ (~crashed => Undisturbed)

LEMMA InitUndisturbed == CrashInit => UndisturbedInv
  BY InitCrashInv DEF CrashInit, NoImage, UndisturbedInv, Undisturbed

LEMMA CallsWhole ==
  ASSUME UndisturbedInv, ~crashed, superblock # 0,
         \/ \E type \in Types : create(type)
         \/ \E id \in InodeIds :
              \/ \E content \in Contents : replace_content(id, content)
              \/ \E data \in Contents, offset \in Offsets : write_at(id, data, offset)
              \/ \E sz \in Offsets : truncate(id, sz)
              \/ remove(id)
  PROVE  MarksExact' /\ WholeCalls!Next /\ (up' \/ todo' = <<>>)
<1>1. CrashTyped /\ Working /\ MarksExact
  BY DEF UndisturbedInv, CrashInv, Undisturbed
<1>2. QED
  BY <1>1, CreateWhole, WritesWhole, RemoveWhole

LEMMA UndisturbedNext ==
  UndisturbedInv /\ [CrashNext]_crashVars => UndisturbedInv'
<1> SUFFICES ASSUME UndisturbedInv, [CrashNext]_crashVars, ~crashed'
             PROVE  Undisturbed'
  BY CrashInvNext DEF UndisturbedInv
<1>1. CrashInv /\ CrashTyped /\ (superblock # 0 => Working)
  BY DEF UndisturbedInv, CrashInv
<1>2. CASE ~crashed /\ UNCHANGED <<imageVars, todo>> /\ (~up' => todo' = <<>>)
  <2>1. superblock' = superblock
    BY <1>2 DEF imageVars
  <2>2. superblock # 0 => MarksExact'
    BY <1>2, SameMarks DEF UndisturbedInv, Undisturbed
  <2>3. QED
    BY <1>2, <2>1, <2>2 DEF Undisturbed
<1>3. ASSUME NEW count \in Counts, open_device(count)
      PROVE  Undisturbed'
  <2>1. ~crashed /\ UNCHANGED <<imageVars, todo>> /\ up' = up
    BY <1>3 DEF open_device
  <2>2. QED
    BY <1>2, <2>1 DEF UndisturbedInv, Undisturbed, imageVars
<1>4. CASE replace_device
  BY <1>4 DEF replace_device, NoImage, Undisturbed
<1>5. CASE format
  BY <1>5 DEF format, imageVars, Undisturbed
<1>6. CASE mount
  <2>1. ~crashed /\ UNCHANGED imageVars /\ ~up /\ todo' = <<>>
    BY <1>6 DEF mount
  <2>2. todo = <<>>
    BY <2>1 DEF UndisturbedInv, Undisturbed
  <2>3. QED
    BY <1>2, <2>1, <2>2
<1>7. CASE step
  <2>1. ~crashed /\ up' /\ up
    BY <1>7 DEF step
  <2>2. CASE superblock # 0
    <3>1. MarksExact'
      BY <1>1, <1>7, <2>1, <2>2, StepMarksExact DEF UndisturbedInv, Undisturbed
    <3>2. QED
      BY <2>1, <3>1 DEF Undisturbed
  <2>3. CASE superblock = 0
    <3>1. superblock' # 0 => MarksExact'
      BY <1>1, <1>7, <2>1, <2>3, FormattedMarks DEF CrashInv
    <3>2. QED
      BY <2>1, <3>1 DEF Undisturbed
  <2>4. QED
    BY <2>2, <2>3
<1>8. CASE stop
  BY <1>2, <1>8 DEF stop, imageVars
<1>9. CASE \/ \E type \in Types : create(type)
           \/ \E id \in InodeIds :
                \/ \E content \in Contents : replace_content(id, content)
                \/ \E data \in Contents, offset \in Offsets : write_at(id, data, offset)
                \/ \E sz \in Offsets : truncate(id, sz)
                \/ remove(id)
  <2>1. up /\ todo = <<>> /\ ~crashed
    BY <1>9 DEF create, replace_content, write_at, truncate, write, remove, Begins, Kills
  <2>2. superblock # 0
    BY <1>1, <2>1, FormattingKinds DEF CrashInv
  <2>3. MarksExact' /\ (up' \/ todo' = <<>>)
    BY <1>9, <2>1, <2>2, CallsWhole
  <2>4. QED
    BY <2>3 DEF Undisturbed
<1>10. CASE UNCHANGED crashVars
  BY <1>2, <1>10 DEF crashVars, UndisturbedInv, Undisturbed
<1>11. CASE set_reserved
  <2>1. superblock = 0 /\ up
    BY <1>1, <1>11, NoLoop DEF set_reserved
  <2>2. superblock' = 0 /\ up' = up
    BY <1>1, <1>11, <2>1, RoundFormats DEF CrashInv
  <2>3. QED
    BY <2>1, <2>2 DEF Undisturbed
<1>12. QED
  BY <1>3, <1>4, <1>5, <1>6, <1>7, <1>8, <1>9, <1>10, <1>11 DEF CrashNext

LEMMA UndisturbedSpec == CrashSpec => []UndisturbedInv
<1>1. UndisturbedInv /\ [CrashNext]_crashVars => UndisturbedInv'
  BY UndisturbedNext
<1>2. QED
  BY InitUndisturbed, <1>1, PTL DEF CrashSpec

(* UninterruptedCallsImplement: on a device that no crash has hit, the      *)
(* writes of a call amount to the call that FileOperation makes in one      *)
(* step, and each of them leaves that outcome as it is.                     *)
THEOREM WritesAmountToCalls == CrashSpec => UninterruptedCallsImplement
<1> DEFINE A == up /\ superblock # 0 /\ ~crashed /\ ret'.op # "stop" =>
                  IF todo = <<>> THEN WholeCalls!Next ELSE UNCHANGED WholeCalls!vars
<1>1. UndisturbedInv /\ [CrashNext]_crashVars => [A]_crashVars
  <2> SUFFICES ASSUME UndisturbedInv, CrashNext, up, superblock # 0, ~crashed,
                      ret'.op # "stop"
               PROVE  IF todo = <<>> THEN WholeCalls!Next ELSE UNCHANGED WholeCalls!vars
    OBVIOUS
  <2>1. CrashTyped /\ Working /\ mapped
    BY DEF UndisturbedInv, CrashInv, CrashTyped
  <2>2. /\ ~replace_device /\ ~format /\ ~mount
        /\ \A count \in Counts : ~open_device(count)
    BY <2>1 DEF replace_device, replace, format, mount, open_device, open
  <2>3. ~stop
    BY DEF stop, Call
  <2>4. CASE step
    <3>1. /\ up' = up /\ SettledUsed' = SettledUsed /\ SettledHome' = SettledHome
          /\ SettledDisk' = SettledDisk
      BY <2>1, <2>4, StepSettles DEF Working
    <3>2. ret' = ret /\ todo # <<>>
      BY <2>4 DEF step
    <3>3. QED
      BY <3>1, <3>2 DEF WholeCalls!vars
  <2>5. CASE \/ \E type \in Types : create(type)
             \/ \E id \in InodeIds :
                  \/ \E content \in Contents : replace_content(id, content)
                  \/ \E data \in Contents, offset \in Offsets : write_at(id, data, offset)
                  \/ \E sz \in Offsets : truncate(id, sz)
                  \/ remove(id)
    <3>1. todo = <<>>
      BY <2>5 DEF create, replace_content, write_at, truncate, write, remove, Begins, Kills
    <3>2. WholeCalls!Next
      BY <2>5, CallsWhole
    <3>3. QED
      BY <3>1, <3>2
  <2>6. ~set_reserved
    BY <2>1, NoLoop
  <2>7. QED
    BY <2>2, <2>3, <2>4, <2>5, <2>6 DEF CrashNext
<1>2. QED
  BY <1>1, UndisturbedSpec, PTL DEF CrashSpec, UninterruptedCallsImplement
=============================================================================
