------------------------------- MODULE Digits -------------------------------
(***************************************************************************)
(* Arithmetic of two-digit addresses: bitmaps and tables that span several *)
(* blocks are addressed by (block, position), computed by \div and % as in *)
(* allocator.cc and metadata/manager.cc, and composed back by              *)
(* block * size + position.                                                *)
(***************************************************************************)
EXTENDS Naturals, TLAPS

(* Division with remainder, as used by deallocate. *)
LEMMA DivMod ==
  ASSUME NEW a \in Nat, NEW b \in Nat \ {0}
  PROVE  /\ a \div b \in Nat
         /\ a % b \in 0 .. b - 1
         /\ a = (a \div b) * b + (a % b)
  OBVIOUS

(* Two addresses are equal only when both digits are. *)
LEMMA UniqueDigits ==
  ASSUME NEW b \in Nat \ {0},
         NEW i \in Nat, NEW k \in Nat,
         NEW j \in 0 .. b - 1, NEW m \in 0 .. b - 1,
         i * b + j = k * b + m
  PROVE  i = k /\ j = m
  OBVIOUS

(* A lower first digit makes a lower address. *)
LEMMA DigitOrder ==
  ASSUME NEW b \in Nat \ {0},
         NEW i \in Nat, NEW k \in Nat, i < k,
         NEW j \in 0 .. b - 1, NEW m \in Nat
  PROVE  i * b + j < k * b + m
<1>1. (i + 1) * b <= k * b
  OBVIOUS
<1>2. (i + 1) * b = i * b + b
  OBVIOUS
<1>3. i * b \in Nat /\ k * b \in Nat
  OBVIOUS
<1>4. QED
  BY <1>1, <1>2, <1>3
=============================================================================
