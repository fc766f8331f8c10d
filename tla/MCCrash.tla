------------------------------ MODULE MCCrash ------------------------------
(* A small instance of CrashFileOperation: blocks of one cell whose value   *)
(* does not matter, on a device with two table blocks, one inode bitmap     *)
(* block and three block bitmap blocks of which the reserved blocks use two.*)
EXTENDS CrashFileOperation

MCContents == {[k \in 1 .. n |-> Zero] : n \in {1, 2}}

(* Nothing that is checked of a state reads ret. *)
MCView == <<imageVars, up, todo, crashed, deviceVars>>
=============================================================================
