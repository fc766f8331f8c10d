----------------------------- MODULE BlockPool -----------------------------
(***************************************************************************)
(* What the block allocator promises the file layer: a pool of block ids   *)
(* out of which every id is handed to at most one owner at a time, the     *)
(* lowest free one first, and which reports OUT_OF_RESOURCE exactly when   *)
(* every id is owned.  BlockAllocator.tla implements it.                   *)
(***************************************************************************)
EXTENDS Naturals, FiniteSets

CONSTANTS
  Pool,        (* the ids that may be handed out *)
  TotalBlocks  (* ids from here on do not exist *)

VARIABLES
  owned,       (* the ids handed out and not given back *)
  ret          (* the last call, its argument and its result *)

vars == <<owned, ret>>

Result(op, id, code, val) == [op |-> op, id |-> id, code |-> code, val |-> val]

Free == Pool \ owned

TypeOK == owned \subseteq Pool

Init == owned = {} /\ ret = Result("none", 0, "OK", 0)

Take ==
  \E b \in Free :
    /\ \A c \in Free : b <= c
    /\ owned' = owned \cup {b}
    /\ ret' = Result("allocate", 0, "OK", b)

Exhausted ==
  /\ Free = {}
  /\ ret' = Result("allocate", 0, "OUT_OF_RESOURCE", 0)
  /\ UNCHANGED owned

GiveBack(b) ==
  /\ b \in owned
  /\ owned' = owned \ {b}
  /\ ret' = Result("deallocate", b, "OK", 0)

(* Giving back an id is refused only when nobody owns it. *)
Refuse(b) ==
  /\ b \notin owned
  /\ ret' = Result("deallocate", b, "INVALID_ARG", 0)
  /\ UNCHANGED owned

CountFree ==
  /\ ret' = Result("free_block_cnt", 0, "OK", Cardinality(Free))
  /\ UNCHANGED owned

Next ==
  \/ Take
  \/ Exhausted
  \/ \E b \in Pool : GiveBack(b)
  \/ \E b \in Pool \cup {TotalBlocks} : Refuse(b)
  \/ CountFree

Spec == Init /\ [][Next]_vars
=============================================================================
