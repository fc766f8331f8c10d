---------------------------- MODULE MCFuseDaemon ----------------------------
(* Small instances of FuseDaemon. *)
EXTENDS FuseDaemon

CONSTANTS Nul, One, x, y

MCNames == {<<x>>, <<y>>}

(* Cells are pieces of text: an entry of a directory, or one part with no   *)
(* ':' in a file.                                                           *)
MCZero == <<Nul>>
MCCells == {MCZero, <<One>>} \cup {name \o <<id>> : name \in MCNames, id \in InodeIds}
MCContents == {<< <<One>> >>}
(* The last two are behind the largest file; memory holds the first. *)
MCOffsets == {2, 5, 7}

(* The instance is one that the theorems about the daemon speak of. *)
ASSUME PlainInstance == PlainText

(* No action reads ret. *)
MCView == <<used, home, disk, up, queue, waiting, held, running>>
=============================================================================
