----------------------------- MODULE InodePool -----------------------------
(***************************************************************************)
(* What the inode manager promises the file layer: a partial map from      *)
(* inode ids to the block that stores the inode.  An id is given to one    *)
(* inode at a time, keeps its block until it is freed, and the map runs    *)
(* out only when every id is taken.  InodeManager.tla implements it.       *)
(***************************************************************************)
EXTENDS Naturals, FiniteSets

CONSTANTS
  Ids,         (* the inode ids that may be given out *)
  Asked,       (* the ids callers ask for *)
  Served,      (* the ids a lookup or a free accepts *)
  Blocks,      (* the blocks an inode may be stored in *)
  NoBlock      (* the block of an id that is not taken *)

VARIABLES
  home,        (* home[id]: the block of inode id, or NoBlock *)
  ret          (* the last call, its argument and its result *)

vars == <<home, ret>>

Result(op, arg, code, val) ==
  [op |-> op, arg |-> arg, code |-> code, val |-> val]

Free == {id \in Ids : home[id] = NoBlock}

Init ==
  /\ home = [id \in Ids |-> NoBlock]
  /\ ret = Result("none", 0, "OK", 0)

Register(bid) ==
  \E id \in Free :
    /\ \A j \in Free : id <= j
    /\ home' = [home EXCEPT ![id] = bid]
    /\ ret' = Result("allocate_inode", bid, "OK", id)

Full ==
  /\ Free = {}
  /\ ret' = Result("allocate_inode", 0, "OUT_OF_RESOURCE", 0)
  /\ UNCHANGED home

Locate(id) ==
  /\ home[id] # NoBlock
  /\ ret' = Result("read_inode", id, "OK", home[id])
  /\ UNCHANGED home

(* A lookup is refused only for an id that is not served or not taken. *)
Missing(id) ==
  /\ id \in Served => home[id] = NoBlock
  /\ ret' = Result("read_inode", id, "INVALID_ARG", 0)
  /\ UNCHANGED home

Release(id) ==
  /\ home' = [home EXCEPT ![id] = NoBlock]
  /\ ret' = Result("free_inode", id, "OK", 0)

NotServed(id) ==
  /\ id \notin Served
  /\ ret' = Result("free_inode", id, "INVALID_ARG", 0)
  /\ UNCHANGED home

CountFree ==
  /\ ret' = Result("free_inode_cnt", 0, "OK", Cardinality(Free))
  /\ UNCHANGED home

Next ==
  \/ \E bid \in Blocks : Register(bid)
  \/ Full
  \/ \E id \in Served : Locate(id) \/ Release(id)
  \/ \E id \in Asked : Missing(id) \/ NotServed(id)
  \/ CountFree

Spec == Init /\ [][Next]_vars
=============================================================================
