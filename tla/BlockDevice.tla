---------------------------- MODULE BlockDevice ----------------------------
(***************************************************************************)
(* The life of the file behind a block device, BlockManager of src/block:  *)
(* a process opens it with the number of blocks it expects and maps it; an *)
(* empty file is given that size, any other one must have the default      *)
(* size.  Blocks are written through the shared mapping, so what was       *)
(* written stays when the process ends, in whatever way.                   *)
(***************************************************************************)
EXTENDS Naturals

CONSTANTS
  BlockSz,           (* bytes per block *)
  KDefaultBlockCnt,  (* the default number of blocks *)
  Usize              (* 2^32: the values of usize are below it *)

ASSUME DeviceAssumption ==
  /\ BlockSz \in Nat \ {0} /\ KDefaultBlockCnt \in Nat
  /\ Usize \in Nat \ {0} /\ Usize % BlockSz = 0

VARIABLES
  file_sz,           (* bytes of the file; 0 when it was just created *)
  block_cnt,         (* blocks of the device as the process sees it *)
  mapped             (* a process has mapped the file *)

deviceVars == <<file_sz, block_cnt, mapped>>

total_storage_sz(cnt) == (cnt * BlockSz) % Usize

DeviceInit == file_sz = 0 /\ block_cnt = 0 /\ mapped = FALSE

(* An assertion that fails, and a mapping of no bytes, end the process.     *)
open_Unadjusted(cnt) ==   \* faulty variant: keeps the number it was asked for
  LET size == IF file_sz = 0 THEN total_storage_sz(cnt) ELSE file_sz
  IN /\ ~mapped
     /\ file_sz' = size /\ block_cnt' = cnt
     /\ mapped' = (size # 0 /\ (file_sz = 0
                     \/ total_storage_sz(cnt) = total_storage_sz(KDefaultBlockCnt)))

open(cnt) ==
  LET size == IF file_sz = 0 THEN total_storage_sz(cnt) ELSE file_sz
      blocks == IF file_sz = 0 THEN cnt ELSE file_sz \div BlockSz
  IN /\ ~mapped
     /\ file_sz' = size /\ block_cnt' = blocks
     /\ mapped' = (size # 0 /\ (file_sz = 0
                     \/ total_storage_sz(blocks) = total_storage_sz(KDefaultBlockCnt)))

(* munmap and close, or the death of the process. *)
close ==
  /\ mapped /\ mapped' = FALSE /\ block_cnt' = 0
  /\ UNCHANGED file_sz

(* The file is removed, and an empty one made in its place. *)
replace ==
  /\ ~mapped /\ file_sz' = 0 /\ block_cnt' = 0
  /\ UNCHANGED mapped

DeviceNext == (\E cnt \in Nat : open(cnt)) \/ close \/ replace

DeviceSpec == DeviceInit /\ [][DeviceNext]_deviceVars

(* The blocks of a device are the bytes of its file, unless their number of *)
(* bytes overflowed when the file was made: nothing that is written through *)
(* the mapping falls outside the file, and a file that is opened again has  *)
(* all of its blocks, whatever number the caller expects.                   *)
MapsTheWholeFile ==
  mapped /\ block_cnt * BlockSz < Usize => block_cnt * BlockSz = file_sz
=============================================================================
