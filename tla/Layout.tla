------------------------------- MODULE Layout -------------------------------
(***************************************************************************)
(* Where things are on the device: the superblock, the inode table, the    *)
(* inode bitmap, the block bitmap and the data blocks, as computed when a  *)
(* device is formatted (the constructors of InodeManager and               *)
(* BlockAllocator) and as computed again from the superblock when it is    *)
(* mounted (create_from_raw).  CrashFileOperationProofs proves that the    *)
(* regions cover the device without overlap and that a mount finds them    *)
(* again.                                                                  *)
(***************************************************************************)
EXTENDS Naturals

CONSTANTS
  BitsPerBlock,      (* block_size() * KBitsPerByte *)
  EntriesPerBlock    (* block_size() / sizeof(block_id_t) *)

ASSUME BlockSizeAssumption ==
  BitsPerBlock \in Nat \ {0} /\ EntriesPerBlock \in Nat \ {0}

(* Rounding up, as the inode manager and as the allocator write it.         *)
Needed(n, per) == IF (n \div per) * per < n THEN n \div per + 1 ELSE n \div per

total_bitmap_block(total) ==
  IF total % BitsPerBlock # 0 THEN total \div BitsPerBlock + 1
                              ELSE total \div BitsPerBlock

n_bitmap_blocks(requested) == Needed(requested, BitsPerBlock)

(* The number of inodes fills the inode bitmap; the superblock records it.  *)
max_inode_supported(requested) == n_bitmap_blocks(requested) * BitsPerBlock

n_table_blocks(ninodes) == Needed(ninodes, EntriesPerBlock)

(* get_reserved_blocks(): the block bitmap starts there. *)
get_reserved_blocks(ninodes, bitmapBlocks) ==
  1 + n_table_blocks(ninodes) + bitmapBlocks

Regions(ninodes, bitmapBlocks, total) ==
  LET inodeBitmap == 1 + n_table_blocks(ninodes)
      blockBitmap == get_reserved_blocks(ninodes, bitmapBlocks)
      data == blockBitmap + total_bitmap_block(total)
  IN [superblock |-> {0},
      table |-> 1 .. inodeBitmap - 1,
      inodeBitmap |-> inodeBitmap .. blockBitmap - 1,
      blockBitmap |-> blockBitmap .. data - 1,
      data |-> data .. total - 1]

RegionNames == {"superblock", "table", "inodeBitmap", "blockBitmap", "data"}

Formatted(requested, total) ==
  Regions(max_inode_supported(requested), n_bitmap_blocks(requested), total)

(* What the allocator's constructor verifies before it writes anything.     *)
Fits(requested, total) ==
  /\ total_bitmap_block(total) > 0
  /\ total_bitmap_block(total)
       + get_reserved_blocks(max_inode_supported(requested), n_bitmap_blocks(requested))
       <= total

(* create_from_raw, with the ninodes it reads from the superblock. *)
Verified(ninodes) == (ninodes \div BitsPerBlock) * BitsPerBlock = ninodes

FromRaw(ninodes, total) == Regions(ninodes, ninodes \div BitsPerBlock, total)
=============================================================================
