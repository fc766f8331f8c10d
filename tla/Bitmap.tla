------------------------------- MODULE Bitmap -------------------------------
(***************************************************************************)
(* The Bitmap class of src/src/include/common/bitmap.h: an array of bytes  *)
(* that is also read as an array of machine words when a free bit is       *)
(* searched.  The byte and word widths are parameters so that TLC can      *)
(* visit every content of a small bitmap.                                  *)
(***************************************************************************)
EXTENDS Naturals, FiniteSets

CONSTANTS
  Payload,       (* bytes in the bitmap *)
  KBitsPerByte,
  KBytesPerWord,
  None           (* std::nullopt, and the result of a void operation *)

ASSUME BitmapGeometry ==
  /\ Payload \in Nat /\ KBitsPerByte \in Nat \ {0} /\ KBytesPerWord \in Nat \ {0}
  /\ Payload % KBytesPerWord = 0

VARIABLES
  data,          (* the bytes *)
  ret            (* the last operation, its argument and its result *)

vars == <<data, ret>>

NBits == Payload * KBitsPerByte
WordBits == KBytesPerWord * KBitsPerByte
Byte == 0 .. 2^KBitsPerByte - 1

TypeOK ==
  /\ data \in [0 .. Payload - 1 -> Byte]
  /\ ret.val \in 0 .. NBits \cup {None}

Call(op, arg, val) == [op |-> op, arg |-> arg, val |-> val]

(* check(index): the bit of the byte. *)
check(d, index) ==
  (d[index \div KBitsPerByte] \div 2^(index % KBitsPerByte)) % 2 = 1

(* set(index) and clear(index) return the changed bytes: |= of a mask adds  *)
(* the mask's weight only when the bit is clear, &= ~mask removes it only   *)
(* when the bit is set.                                                     *)
set_UnguardedAdd(d, index) ==   \* faulty variant: adds the mask to a set bit
  [d EXCEPT ![index \div KBitsPerByte] = @ + 2^(index % KBitsPerByte)]

set(d, index) ==
  IF check(d, index) THEN d
  ELSE [d EXCEPT ![index \div KBitsPerByte] = @ + 2^(index % KBitsPerByte)]

clear(d, index) ==
  IF check(d, index)
    THEN [d EXCEPT ![index \div KBitsPerByte] = @ - 2^(index % KBitsPerByte)]
    ELSE d

count_ones(d) == Cardinality({i \in 0 .. NBits - 1 : check(d, i)})

count_zeros_to_bound(d, upbound) ==
  Cardinality({i \in 0 .. upbound - 1 : ~check(d, i)})

(* A word is skipped when it compares equal to ~u64(0). *)
AllOnes(d, word) ==
  \A k \in 0 .. KBytesPerWord - 1 :
    d[word * KBytesPerWord + k] = 2^KBitsPerByte - 1

(* The bound is cut to the payload for the words, not for the bits behind   *)
(* them.                                                                    *)
refined_bits(bits) == IF bits < NBits THEN bits ELSE NBits
num_words(bits) == refined_bits(bits) \div WordBits
num_remaining_bits(bits) == bits % WordBits
FirstRemaining(bits) == num_words(bits) * WordBits
EndRemaining(bits) == FirstRemaining(bits) + num_remaining_bits(bits)

(* The clear bits the search may return: those of the whole words below the *)
(* bound that are not skipped, and, behind them, the remaining bits.        *)
FreeInWords(d, bits) ==
  UNION { {i \in word * WordBits .. (word + 1) * WordBits - 1 : ~check(d, i)} :
          word \in {w \in 0 .. num_words(bits) - 1 : ~AllOnes(d, w)} }

FreeInTail_FromZero(d, bits) ==   \* faulty variant: forgets the words' offset
  {i \in 0 .. num_remaining_bits(bits) - 1 : ~check(d, i)}

FreeInTail(d, bits) ==
  {i \in FirstRemaining(bits) .. EndRemaining(bits) - 1 : i < NBits /\ ~check(d, i)}

(* Behind the payload check's assertion fails: a search that gets there     *)
(* without having found a clear bit aborts.                                 *)
Asserts(d, bits) ==
  /\ FreeInWords(d, bits) = {} /\ FreeInTail(d, bits) = {}
  /\ EndRemaining(bits) > NBits

(* The words are searched before the remaining bits, upwards. *)
find_first_free_w_bound(d, bits) ==
  LET least(S) == CHOOSE i \in S : \A j \in S : i <= j
  IN CASE FreeInWords(d, bits) # {} -> least(FreeInWords(d, bits))
       [] FreeInWords(d, bits) = {} /\ FreeInTail(d, bits) # {} ->
            least(FreeInTail(d, bits))
       [] OTHER -> None

Init == data \in [0 .. Payload - 1 -> Byte] /\ ret = Call("none", 0, None)

Zeroed == data' = [b \in 0 .. Payload - 1 |-> 0] /\ ret' = Call("zeroed", 0, None)

Set(index) == data' = set(data, index) /\ ret' = Call("set", index, None)

Clear(index) == data' = clear(data, index) /\ ret' = Call("clear", index, None)

Check(index) ==
  /\ ret' = Call("check", index, IF check(data, index) THEN 1 ELSE 0)
  /\ UNCHANGED data

CountOnes ==
  ret' = Call("count_ones", 0, count_ones(data)) /\ UNCHANGED data

CountZerosToBound(upbound) ==
  /\ ret' = Call("count_zeros", upbound, count_zeros_to_bound(data, upbound))
  /\ UNCHANGED data

FindFirstFree(bits) ==
  /\ ~Asserts(data, bits)
  /\ ret' = Call("find_first_free", bits, find_first_free_w_bound(data, bits))
  /\ UNCHANGED data

FindFirstFreeAborts(bits) ==
  /\ Asserts(data, bits)
  /\ ret' = Call("abort", bits, None)
  /\ UNCHANGED data

(* No caller's bound exceeds the payload; the search, which cuts the bound, *)
(* is also given bounds up to a word behind it.                             *)
MaxBound == NBits + WordBits

Operation ==
  \/ Zeroed
  \/ CountOnes
  \/ \E index \in 0 .. NBits - 1 : Set(index) \/ Clear(index) \/ Check(index)
  \/ \E upbound \in 0 .. NBits : CountZerosToBound(upbound)
  \/ \E bits \in 0 .. MaxBound : FindFirstFree(bits) \/ FindFirstFreeAborts(bits)

Next == ret.op # "abort" /\ Operation

Spec == Init /\ [][Next]_vars

-----------------------------------------------------------------------------
(* Every operation on the bytes does to the set of positions that are set   *)
(* exactly what BitSet says, and returns the same result: set and clear     *)
(* touch no neighbouring bit, and the search by words finds the lowest      *)
(* clear bit below any bound, also when the bound cuts a word or byte, and  *)
(* aborts only for a bound behind the payload with no clear bit in it.      *)
Abstract == INSTANCE BitSet WITH
  ones <- {i \in 0 .. NBits - 1 : check(data, i)}

ImplementsBitSet == Abstract!Spec
=============================================================================
