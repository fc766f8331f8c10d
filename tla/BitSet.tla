------------------------------- MODULE BitSet -------------------------------
(***************************************************************************)
(* What a bitmap promises its users: a set of bit positions, ones, that is *)
(* changed one position at a time and searched for its lowest absent       *)
(* member.  Bitmap.tla, the byte array of src/src/include/common/bitmap.h, *)
(* implements this specification.                                          *)
(***************************************************************************)
EXTENDS Naturals, FiniteSets

CONSTANTS
  NBits,  (* the number of bits of the bitmap *)
  MaxBound,  (* the highest bound a search is given *)
  None    (* std::nullopt, and the result of an operation that returns void *)

VARIABLES
  ones,   (* the positions that are set *)
  ret     (* the last operation, its argument and its result *)

vars == <<ones, ret>>

Positions == 0 .. NBits - 1

Call(op, arg, val) == [op |-> op, arg |-> arg, val |-> val]

(* The clear positions among the first n. *)
Zeroes(n) == {i \in Positions : i < n /\ i \notin ones}

TypeOK ==
  /\ ones \subseteq Positions
  /\ ret.val \in 0 .. NBits \cup {None}

(* The constructor does not touch the bytes: any set may be found there. *)
Init == ones \in SUBSET Positions /\ ret = Call("none", 0, None)

Clean == ones' = {} /\ ret' = Call("zeroed", 0, None)

Add(i) == ones' = ones \cup {i} /\ ret' = Call("set", i, None)

Remove(i) == ones' = ones \ {i} /\ ret' = Call("clear", i, None)

Contains(i) ==
  /\ ret' = Call("check", i, IF i \in ones THEN 1 ELSE 0)
  /\ UNCHANGED ones

(* The lowest clear position below n, or None when the first n are all set. *)
Lowest(n) ==
  /\ \/ Zeroes(n) = {} /\ ret' = Call("find_first_free", n, None)
     \/ \E i \in Zeroes(n) : /\ \A j \in Zeroes(n) : i <= j
                             /\ ret' = Call("find_first_free", n, i)
  /\ UNCHANGED ones

(* A search that goes behind the last position ends the program. *)
Abort(n) ==
  /\ n > NBits /\ Zeroes(n) = {}
  /\ ret' = Call("abort", n, None)
  /\ UNCHANGED ones

CountSet == ret' = Call("count_ones", 0, Cardinality(ones)) /\ UNCHANGED ones

CountClear(n) ==
  ret' = Call("count_zeros", n, Cardinality(Zeroes(n))) /\ UNCHANGED ones

Operation ==
  \/ Clean
  \/ CountSet
  \/ \E i \in Positions : Add(i) \/ Remove(i) \/ Contains(i)
  \/ \E n \in 0 .. NBits : CountClear(n)
  \/ \E n \in 0 .. MaxBound : Lowest(n) \/ Abort(n)

Next == ret.op # "abort" /\ Operation

Spec == Init /\ [][Next]_vars
=============================================================================
