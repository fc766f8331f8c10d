-------------------------- MODULE MCFileOperation --------------------------
(* Small instances of FileOperation. *)
EXTENDS FileOperation

Runs(values, lengths) == {[k \in 1 .. n |-> v] : n \in lengths, v \in values}

(* Where blocks go: blocks of one cell whose value does not matter, every   *)
(* length a file can have, and one more; offsets and sizes of files, of too *)
(* large ones, and of those that do not even fit into memory.               *)
LayoutContents == Runs({Zero}, {1, 2, 3, 4})
LayoutOffsets == {0, 1, 2, 4, 6}

(* What files hold: blocks of two cells, lengths and offsets within and     *)
(* across blocks, a value of its own for every cell that is not zero.       *)
PartialContents == Runs(Cells \ {Zero}, {1, 3})
PartialOffsets == {0, 3, 7}

(* No action reads ret: states that differ in it alone have the same future. *)
MCView == <<used, home, disk, up>>
=============================================================================
