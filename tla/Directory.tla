----------------------------- MODULE Directory -----------------------------
(***************************************************************************)
(* The format of a directory (directory_op.cc): its file holds the text    *)
(* "name:id/name:id/...".  A text is the sequence of the pieces between    *)
(* the '/', which names never contain.  A piece is the sequence of the     *)
(* parts between its ':', and so is a name, which may contain that         *)
(* character: "x" is <<x>>, "x:2" is <<x, 2>>.                             *)
(***************************************************************************)
EXTENDS Naturals, Sequences, FiniteSets

DirectoryEntry(name, id) == [name |-> name, id |-> id]

(* A part that is no number is read as zero. *)
string_to_inode_id(part, ids) == IF part \in ids THEN part ELSE 0

append_to_directory(text, name, id) == Append(text, name \o <<id>>)

(* The elements at the positions S, in their order. *)
Kept(list, S) ==
  [n \in 1 .. Cardinality(S) |->
     list[CHOOSE k \in S : Cardinality({j \in S : j < k}) = n - 1]]

(* Pieces without a ':' are skipped, the first ':' ends the name, and what  *)
(* follows is read up to the next character that is no digit.               *)
parse_directory(text, ids) ==
  LET pieces == Kept(text, {k \in DOMAIN text : Len(text[k]) > 1})
  IN [k \in DOMAIN pieces |->
        DirectoryEntry(<<pieces[k][1]>>, string_to_inode_id(pieces[k][2], ids))]

dir_list_to_string(list) == [k \in DOMAIN list |-> list[k].name \o <<list[k].id>>]

rm_from_directory_Tail(text, name, ids) ==   \* faulty variant: drops what follows, too
  LET list == parse_directory(text, ids)
  IN dir_list_to_string(
       Kept(list, {k \in DOMAIN list : \A j \in 1 .. k : list[j].name # name}))

rm_from_directory(text, name, ids) ==
  LET list == parse_directory(text, ids)
  IN dir_list_to_string(Kept(list, {k \in DOMAIN list : list[k].name # name}))

has_entry(list, name) == \E k \in DOMAIN list : list[k].name = name

(* The id of the first entry of that name. *)
find_entry(list, name) ==
  list[CHOOSE k \in DOMAIN list :
         list[k].name = name /\ \A j \in 1 .. k - 1 : list[j].name # name].id
=============================================================================
