-------------------------- MODULE FuseDaemonProofs --------------------------
(***************************************************************************)
(* Proofs about the daemon, for every device, inode table, number of       *)
(* clients, names and contents.                                            *)
(*                                                                         *)
(* First what the functions of Directory make of a text, and what each     *)
(* handler makes of the files that are there (VisibleFiles, from           *)
(* FileOperationProofs) and of the ids in use (Live).  From then on the    *)
(* device is not looked at: Consistent says of files, ids, the handler     *)
(* between its calls and the open files that the names in them are sound,  *)
(* and each handler is shown to keep it so.  The properties and the        *)
(* refinement of Namespace follow from it.                                 *)
(***************************************************************************)
EXTENDS FuseDaemon, FileOperationProofs

-----------------------------------------------------------------------------
(* The text of a directory: its entries are the pieces with a ':', each a   *)
(* name and an id.                                                          *)

EntryOf(piece) == << <<piece[1]>>, string_to_inode_id(piece[2], InodeIds) >>

EntriesIn(text) == {EntryOf(text[k]) : k \in Pieces(text)}

(* Keeping the elements at some positions keeps these and no others. *)
LEMMA KeptElements ==
  ASSUME NEW list, NEW n \in Nat, NEW S \in SUBSET (1 .. n)
  PROVE  /\ Cardinality(S) \in 0 .. n
         /\ DOMAIN Kept(list, S) = 1 .. Cardinality(S)
         /\ \A m \in 1 .. Cardinality(S) : \E k \in S : Kept(list, S)[m] = list[k]
         /\ \A k \in S : \E m \in 1 .. Cardinality(S) : Kept(list, S)[m] = list[k]
<1> DEFINE rank(k) == Cardinality({j \in S : j < k})
           chosen(m) == CHOOSE k \in S : rank(k) = m - 1
<1>1. /\ IsFiniteSet(S) /\ S \in SUBSET Nat
      /\ Cardinality(S) \in Nat /\ Cardinality(S) <= n
  <2>1. IsFiniteSet(1 .. n) /\ Cardinality(1 .. n) = n
    <3>1. /\ IsFiniteSet(1 .. n)
          /\ Cardinality(1 .. n) = IF 1 > n THEN 0 ELSE n - 1 + 1
      BY FS_Interval
    <3>2. QED
      BY <3>1
  <2>2. IsFiniteSet(S) /\ Cardinality(S) <= n
    BY <2>1, FS_Subset
  <2>3. QED
    BY <2>2, FS_CardinalityType
<1>2. Kept(list, S) = [m \in 1 .. Cardinality(S) |-> list[chosen(m)]]
  BY DEF Kept
<1>3. ASSUME NEW m \in 1 .. Cardinality(S)
      PROVE  chosen(m) \in S /\ rank(chosen(m)) = m - 1
  <2>1. \E k \in S : rank(k) = m - 1
    BY <1>1, Ranks
  <2> HIDE DEF rank
  <2>2. QED
    BY <2>1
<1>4. ASSUME NEW k \in S
      PROVE  rank(k) + 1 \in 1 .. Cardinality(S)
  <2>1. {j \in S : j < k} \in SUBSET (S \ {k})
    BY <1>1
  <2>2. IsFiniteSet(S \ {k}) /\ Cardinality(S \ {k}) = Cardinality(S) - 1
    BY <1>1, FS_RemoveElement
  <2>3. IsFiniteSet({j \in S : j < k}) /\ rank(k) <= Cardinality(S) - 1
    BY <2>1, <2>2, FS_Subset
  <2>4. rank(k) \in Nat
    BY <2>3, FS_CardinalityType
  <2> HIDE DEF rank
  <2>5. QED
    BY <1>1, <2>3, <2>4
<1>5. ASSUME NEW j \in S, NEW k \in S, rank(j) = rank(k)
      PROVE  j = k
  <2>1. j < k \/ k < j \/ j = k
    BY <1>1
  <2>2. ~(j < k)
    <3>1. SUFFICES ASSUME j < k PROVE FALSE
      OBVIOUS
    <3>2. rank(j) \in Nat /\ rank(j) < rank(k)
      BY <1>1, <3>1, RankGrows
    <3> HIDE DEF rank
    <3>3. QED
      BY <1>5, <3>2
  <2>3. ~(k < j)
    <3>1. SUFFICES ASSUME k < j PROVE FALSE
      OBVIOUS
    <3>2. rank(k) \in Nat /\ rank(k) < rank(j)
      BY <1>1, <3>1, RankGrows
    <3> HIDE DEF rank
    <3>3. QED
      BY <1>5, <3>2
  <2>4. QED
    BY <2>1, <2>2, <2>3
<1>6. ASSUME NEW k \in S
      PROVE  \E m \in 1 .. Cardinality(S) : chosen(m) = k
  <2> DEFINE m == rank(k) + 1
  <2>1. m \in 1 .. Cardinality(S) /\ m - 1 = rank(k)
    <3>1. m \in 1 .. Cardinality(S)
      BY <1>4
    <3>2. rank(k) \in Nat
      <4>1. {j \in S : j < k} \in SUBSET S
        OBVIOUS
      <4>2. IsFiniteSet({j \in S : j < k})
        BY <1>1, <4>1, FS_Subset
      <4>3. QED
        BY <4>2, FS_CardinalityType
    <3> HIDE DEF rank
    <3>3. QED
      BY <3>1, <3>2
  <2> HIDE DEF m, rank
  <2>2. rank(chosen(m)) = rank(k) /\ chosen(m) \in S
    BY <1>3, <2>1
  <2> HIDE DEF chosen
  <2>3. chosen(m) = k
    BY <1>5, <2>2
  <2>4. QED
    BY <2>1, <2>3
<1> HIDE DEF chosen, rank
<1>7. /\ DOMAIN Kept(list, S) = 1 .. Cardinality(S)
      /\ \A m \in 1 .. Cardinality(S) : Kept(list, S)[m] = list[chosen(m)]
  BY <1>2
<1>8. Cardinality(S) \in 0 .. n
  BY <1>1
<1>9. QED
  BY <1>3, <1>6, <1>7, <1>8

LEMMA PiecesOf ==
  ASSUME NEW text \in Seq(Cells)
  PROVE  /\ Len(text) \in Nat /\ DOMAIN text = 1 .. Len(text)
         /\ Pieces(text) \in SUBSET (1 .. Len(text))
         /\ \A k \in 1 .. Len(text) : text[k] \in Cells
  BY DEF Pieces

(* The list that parse_directory returns holds the entries of the text. *)
LEMMA ListOfText ==
  ASSUME NEW text \in Seq(Cells), NEW list, list = parse_directory(text, InodeIds)
  PROVE  /\ DOMAIN list = 1 .. Cardinality(Pieces(text))
         /\ Cardinality(Pieces(text)) \in 0 .. Len(text)
         /\ \A m \in DOMAIN list : \E k \in Pieces(text) :
              list[m] = DirectoryEntry(EntryOf(text[k])[1], EntryOf(text[k])[2])
         /\ \A k \in Pieces(text) : \E m \in DOMAIN list :
              list[m] = DirectoryEntry(EntryOf(text[k])[1], EntryOf(text[k])[2])
<1> DEFINE S == Pieces(text)
           pieces == Kept(text, S)
           entry(piece) ==
             DirectoryEntry(<<piece[1]>>, string_to_inode_id(piece[2], InodeIds))
<1>1. {k \in DOMAIN text : Len(text[k]) > 1} = S
  BY PiecesOf DEF Pieces
<1>2. Len(text) \in Nat /\ S \in SUBSET (1 .. Len(text))
  BY PiecesOf
<1>3. list = [k \in DOMAIN pieces |-> entry(pieces[k])]
  BY <1>1 DEF parse_directory
<1> HIDE DEF S
<1>4. /\ Cardinality(S) \in 0 .. Len(text)
      /\ DOMAIN pieces = 1 .. Cardinality(S)
      /\ \A m \in 1 .. Cardinality(S) : \E k \in S : pieces[m] = text[k]
      /\ \A k \in S : \E m \in 1 .. Cardinality(S) : pieces[m] = text[k]
  BY <1>2, KeptElements
<1> HIDE DEF pieces
<1>5. \A piece : entry(piece) = DirectoryEntry(EntryOf(piece)[1], EntryOf(piece)[2])
  BY DEF EntryOf
<1> HIDE DEF entry
<1>6. /\ DOMAIN list = 1 .. Cardinality(S)
      /\ \A m \in DOMAIN list : list[m] = entry(pieces[m])
  BY <1>3, <1>4
<1>7. \A m \in DOMAIN list : \E k \in S : list[m] = entry(text[k])
  BY <1>4, <1>6
<1>8. \A k \in S : \E m \in DOMAIN list : list[m] = entry(text[k])
  BY <1>4, <1>6
<1>9. QED
  BY <1>4, <1>5, <1>6, <1>7, <1>8 DEF S

LEMMA EntriesOfText ==
  ASSUME NEW text \in Seq(Cells), NEW list, list = parse_directory(text, InodeIds)
  PROVE  /\ {<<list[m].name, list[m].id>> : m \in DOMAIN list} = EntriesIn(text)
         /\ \A name : has_entry(list, name) <=> \E e \in EntriesIn(text) : e[1] = name
<1>1. /\ \A m \in DOMAIN list : \E k \in Pieces(text) :
           list[m] = DirectoryEntry(EntryOf(text[k])[1], EntryOf(text[k])[2])
      /\ \A k \in Pieces(text) : \E m \in DOMAIN list :
           list[m] = DirectoryEntry(EntryOf(text[k])[1], EntryOf(text[k])[2])
  BY ListOfText
<1>2. \A piece, entry :
        entry = DirectoryEntry(EntryOf(piece)[1], EntryOf(piece)[2]) =>
          <<entry.name, entry.id>> = EntryOf(piece) /\ entry.name = EntryOf(piece)[1]
  BY DEF DirectoryEntry, EntryOf
<1>3. \A m \in DOMAIN list : \E k \in Pieces(text) :
        <<list[m].name, list[m].id>> = EntryOf(text[k]) /\ list[m].name = EntryOf(text[k])[1]
  BY <1>1, <1>2
<1>4. \A k \in Pieces(text) : \E m \in DOMAIN list :
        <<list[m].name, list[m].id>> = EntryOf(text[k]) /\ list[m].name = EntryOf(text[k])[1]
  BY <1>1, <1>2
<1>5. {<<list[m].name, list[m].id>> : m \in DOMAIN list} = EntriesIn(text)
  BY <1>3, <1>4 DEF EntriesIn
<1>6. ASSUME NEW name
      PROVE  has_entry(list, name) <=> \E e \in EntriesIn(text) : e[1] = name
  BY <1>3, <1>4 DEF EntriesIn, has_entry
<1>7. QED
  BY <1>5, <1>6

(* What lookup returns for a name that is there is an id it has there. *)
LEMMA EntryFound ==
  ASSUME NEW text \in Seq(Cells), NEW list, list = parse_directory(text, InodeIds),
         NEW name, has_entry(list, name)
  PROVE  <<name, find_entry(list, name)>> \in EntriesIn(text)
<1> DEFINE S == {k \in DOMAIN list : list[k].name = name}
           first == CHOOSE k \in DOMAIN list :
                      list[k].name = name /\ \A j \in 1 .. k - 1 : list[j].name # name
<1>1. DOMAIN list = 1 .. Cardinality(Pieces(text)) /\ Cardinality(Pieces(text)) \in Nat
  <2>1. Len(text) \in Nat
    BY PiecesOf
  <2>2. QED
    BY <2>1, ListOfText
<1>2. S \in SUBSET Nat /\ S # {} /\ IsFiniteSet(S)
  <2>1. IsFiniteSet(1 .. Cardinality(Pieces(text)))
    BY <1>1, FS_Interval
  <2>2. S \in SUBSET (1 .. Cardinality(Pieces(text)))
    BY <1>1
  <2>3. IsFiniteSet(S)
    BY <2>1, <2>2, FS_Subset
  <2>4. QED
    BY <2>2, <2>3 DEF has_entry
<1>3. PICK k \in S : \A j \in S : k <= j
  BY <1>2, Lowest
<1>4. \A j \in 1 .. k - 1 : list[j].name # name
  <2>1. ASSUME NEW j \in 1 .. k - 1 PROVE j \in DOMAIN list /\ ~(k <= j)
    BY <1>1
  <2>2. QED
    BY <1>3, <2>1
<1>5. first \in DOMAIN list /\ list[first].name = name
  BY <1>4
<1>6. find_entry(list, name) = list[first].id
  BY DEF find_entry
<1> HIDE DEF first
<1>7. <<name, list[first].id>> \in {<<list[m].name, list[m].id>> : m \in DOMAIN list}
  BY <1>5
<1>8. QED
  BY <1>6, <1>7, EntriesOfText

-----------------------------------------------------------------------------
LEMMA TwoParts ==
  ASSUME NEW a, NEW b
  PROVE  /\ <<a>> \o <<b>> = <<a, b>>
         /\ Len(<<a, b>>) = 2 /\ <<a, b>>[1] = a /\ <<a, b>>[2] = b
<1> DEFINE S == {a, b}
           s == <<a>> \o <<b>>
<1>1. /\ <<a>> \in Seq(S) /\ <<b>> \in Seq(S) /\ <<a, b>> \in Seq(S)
      /\ Len(<<a>>) = 1 /\ Len(<<b>>) = 1 /\ Len(<<a, b>>) = 2
      /\ <<a, b>>[1] = a /\ <<a, b>>[2] = b /\ <<a>>[1] = a /\ <<b>>[1] = b
  OBVIOUS
<1> HIDE DEF S
<1>2. /\ s \in Seq(S) /\ Len(s) = 2
      /\ \A i \in 1 .. 1 + 1 : s[i] = IF i <= 1 THEN <<a>>[i] ELSE <<b>>[i - 1]
  BY <1>1, ConcatProperties
<1> HIDE DEF s
<1>3. s[1] = a /\ s[2] = b
  BY <1>1, <1>2
<1>4. \A i \in 1 .. Len(s) : s[i] = <<a, b>>[i]
  BY <1>1, <1>2, <1>3
<1>5. s = <<a, b>>
  BY <1>1, <1>2, <1>4, SeqEqual
<1>6. QED
  BY <1>1, <1>5 DEF s

LEMMA TwoIsMore == ASSUME NEW n, n = 2 PROVE n > 1
  OBVIOUS

LEMMA NoPieceNoEntry == \A text : Pieces(text) = {} <=> EntriesIn(text) = {}
  BY DEF EntriesIn

LEMMA EmptyText == Pieces(<<>>) = {} /\ <<>> \in Seq(Cells) /\ Len(<<>>) = 0
  BY DEF Pieces

(* Appending adds one entry. *)
LEMMA Appended ==
  ASSUME PlainText, NEW text \in Seq(Cells), NEW name \in Names, NEW id \in InodeIds
  PROVE  LET new == append_to_directory(text, name, id)
         IN /\ new \in Seq(Cells)
            /\ EntriesIn(new) = EntriesIn(text) \cup {<<name, id>>}
<1> DEFINE new == append_to_directory(text, name, id)
           cell == name \o <<id>>
<1>1. cell \in Cells
  BY TextAssumption
<1>2. name = <<name[1]>>
  BY DEF PlainText
<1>3. cell = <<name[1], id>>
  <2> DEFINE n == name[1]
  <2>1. <<n>> \o <<id>> = <<n, id>>
    BY TwoParts
  <2> HIDE DEF n
  <2>2. name \o <<id>> = <<n, id>>
    BY <1>2, <2>1 DEF n
  <2>3. QED
    BY <2>2 DEF n
<1>4. Len(cell) = 2 /\ EntryOf(cell) = <<name, id>>
  <2>1. Len(cell) = 2 /\ cell[1] = name[1] /\ cell[2] = id
    <3> HIDE DEF cell
    <3>1. QED
      BY <1>3, TwoParts
  <2>2. EntryOf(cell) = <<<<name[1]>>, id>>
    BY <2>1 DEF EntryOf, string_to_inode_id
  <2>3. QED
    BY <1>2, <2>1, <2>2
<1> HIDE DEF cell
<1>5. /\ new \in Seq(Cells) /\ Len(new) = Len(text) + 1 /\ Len(text) \in Nat
      /\ \A k \in 1 .. Len(text) : new[k] = text[k]
      /\ new[Len(text) + 1] = cell
  BY <1>1 DEF append_to_directory, cell
<1> HIDE DEF new
<1>6. Pieces(new) = Pieces(text) \cup {Len(text) + 1}
  <2>1. \A k \in 1 .. Len(new) : k \in 1 .. Len(text) \/ k = Len(text) + 1
    BY <1>5
  <2>2. Len(text) + 1 \in Pieces(new)
    <3>1. Len(cell) > 1
      BY <1>4, TwoIsMore
    <3>2. Len(text) + 1 \in 1 .. Len(new)
      BY <1>5
    <3>3. QED
      BY <1>5, <3>1, <3>2 DEF Pieces
  <2>3. \A k \in 1 .. Len(text) : k \in 1 .. Len(new)
    BY <1>5
  <2>4. \A k \in 1 .. Len(text) : k \in Pieces(new) <=> k \in Pieces(text)
    BY <1>5, <2>3 DEF Pieces
  <2>5. Pieces(new) \subseteq 1 .. Len(new) /\ Pieces(text) \subseteq 1 .. Len(text)
    BY DEF Pieces
  <2>6. QED
    BY <2>1, <2>2, <2>4, <2>5
<1>7. ASSUME NEW k \in Pieces(text) PROVE k \in Pieces(new) /\ new[k] = text[k]
  BY <1>5, <1>6 DEF Pieces
<1>8. EntriesIn(new) = EntriesIn(text) \cup {<<name, id>>}
  <2>1. \A e \in EntriesIn(new) : e \in EntriesIn(text) \/ e = <<name, id>>
    BY <1>4, <1>5, <1>6, <1>7 DEF EntriesIn
  <2>2. \A e \in EntriesIn(text) : e \in EntriesIn(new)
    BY <1>7 DEF EntriesIn
  <2>3. <<name, id>> \in EntriesIn(new)
    BY <1>4, <1>5, <1>6 DEF EntriesIn
  <2>4. QED
    BY <2>1, <2>2, <2>3
<1>9. QED
  BY <1>5, <1>8 DEF new

(* Rewriting takes the entries of the name out, and makes the text no       *)
(* longer.                                                                  *)
LEMMA RewrittenText ==
  ASSUME NEW text \in Seq(Cells), NEW name
  PROVE  LET new == rm_from_directory(text, name, InodeIds)
         IN /\ new \in Seq(Cells) /\ Len(new) \in 0 .. Len(text)
            /\ EntriesIn(new) = {e \in EntriesIn(text) : e[1] # name}
<1> DEFINE list == parse_directory(text, InodeIds)
           n == Cardinality(Pieces(text))
           S == {k \in DOMAIN list : list[k].name # name}
           kept == Kept(list, S)
           new == rm_from_directory(text, name, InodeIds)
           entry(k) == EntryOf(text[k])
           cell(e) == e[1] \o <<e[2]>>
<1>1. Len(text) \in Nat
  BY PiecesOf
<1>2. /\ DOMAIN list = 1 .. n /\ n \in 0 .. Len(text)
      /\ \A m \in DOMAIN list : \E k \in Pieces(text) :
           list[m] = DirectoryEntry(entry(k)[1], entry(k)[2])
      /\ \A k \in Pieces(text) : \E m \in DOMAIN list :
           list[m] = DirectoryEntry(entry(k)[1], entry(k)[2])
  BY ListOfText
<1>3. new = [m \in DOMAIN kept |-> kept[m].name \o <<kept[m].id>>]
  BY DEF rm_from_directory, dir_list_to_string
<1>4. S \in SUBSET (1 .. n) /\ n \in Nat
  BY <1>1, <1>2
<1> HIDE DEF list, n, S
<1>5. /\ Cardinality(S) \in 0 .. n
      /\ DOMAIN kept = 1 .. Cardinality(S)
      /\ \A m \in 1 .. Cardinality(S) : \E j \in S : kept[m] = list[j]
      /\ \A j \in S : \E m \in 1 .. Cardinality(S) : kept[m] = list[j]
  BY <1>4, KeptElements
<1> HIDE DEF kept, new
<1>6. ASSUME NEW k \in Pieces(text)
      PROVE  /\ DirectoryEntry(entry(k)[1], entry(k)[2]).name = entry(k)[1]
             /\ DirectoryEntry(entry(k)[1], entry(k)[2]).id = entry(k)[2]
             /\ cell(entry(k)) \in Cells /\ Len(cell(entry(k))) = 2
             /\ EntryOf(cell(entry(k))) = entry(k)
  <2> PICK a, b : a = text[k][1] /\ b = string_to_inode_id(text[k][2], InodeIds)
    OBVIOUS
  <2>1. entry(k) = <<<<a>>, b>>
    BY DEF EntryOf
  <2>2. <<a>> \o <<b>> = <<a, b>>
    BY TwoParts
  <2>3. cell(entry(k)) = <<a, b>>
    BY <2>1, <2>2
  <2>4. text[k] \in Cells /\ Len(text[k]) > 1
    BY PiecesOf DEF Pieces
  <2>5. <<a, b>> \in Cells
    BY <2>4, TextAssumption
  <2>6. string_to_inode_id(b, InodeIds) = b
    BY DEF string_to_inode_id
  <2>7. EntryOf(<<a, b>>) = <<<<a>>, b>> /\ Len(<<a, b>>) = 2
    BY <2>6 DEF EntryOf
  <2>8. QED
    BY <2>1, <2>3, <2>5, <2>7 DEF DirectoryEntry
<1> HIDE DEF entry, cell
<1>7. ASSUME NEW m \in 1 .. Cardinality(S)
      PROVE  \E k \in Pieces(text) : entry(k)[1] # name /\ new[m] = cell(entry(k))
  <2>1. PICK j \in S : kept[m] = list[j]
    BY <1>5
  <2>2. j \in DOMAIN list /\ list[j].name # name
    BY DEF S
  <2>3. PICK k \in Pieces(text) : list[j] = DirectoryEntry(entry(k)[1], entry(k)[2])
    BY <1>2, <2>2
  <2>4. list[j].name = entry(k)[1] /\ list[j].id = entry(k)[2]
    BY <1>6, <2>3
  <2>5. new[m] = entry(k)[1] \o <<entry(k)[2]>>
    BY <1>3, <1>5, <2>1, <2>4
  <2>6. QED
    BY <2>2, <2>4, <2>5 DEF cell
<1>8. ASSUME NEW k \in Pieces(text), entry(k)[1] # name
      PROVE  \E m \in 1 .. Cardinality(S) : new[m] = cell(entry(k))
  <2>1. PICK j \in DOMAIN list : list[j] = DirectoryEntry(entry(k)[1], entry(k)[2])
    BY <1>2
  <2>2. list[j].name = entry(k)[1] /\ list[j].id = entry(k)[2]
    BY <1>6, <2>1
  <2>3. j \in S
    BY <1>8, <2>2 DEF S
  <2>4. PICK m \in 1 .. Cardinality(S) : kept[m] = list[j]
    BY <1>5, <2>3
  <2>5. new[m] = entry(k)[1] \o <<entry(k)[2]>>
    BY <1>3, <1>5, <2>2, <2>4
  <2>6. QED
    BY <2>5 DEF cell
<1>9. /\ DOMAIN new = 1 .. Cardinality(S) /\ Cardinality(S) \in Nat
      /\ Cardinality(S) <= Len(text)
      /\ new = [m \in 1 .. Cardinality(S) |-> new[m]]
  BY <1>1, <1>2, <1>3, <1>5
<1>10. \A m \in 1 .. Cardinality(S) : new[m] \in Cells /\ Len(new[m]) = 2
  BY <1>6, <1>7
<1>11. new \in Seq(Cells) /\ Len(new) = Cardinality(S)
  <2>1. new \in [1 .. Cardinality(S) -> Cells]
    BY <1>9, <1>10
  <2>2. QED
    BY <1>9, <2>1
<1>12. Pieces(new) = 1 .. Cardinality(S)
  <2>1. \A m \in 1 .. Cardinality(S) : Len(new[m]) > 1
    BY <1>10, TwoIsMore
  <2>2. QED
    BY <1>11, <2>1 DEF Pieces
<1>13. EntriesIn(new) = {e \in EntriesIn(text) : e[1] # name}
  <2>1. ASSUME NEW m \in Pieces(new)
        PROVE  \E k \in Pieces(text) : entry(k)[1] # name /\ EntryOf(new[m]) = entry(k)
    BY <1>6, <1>7, <1>12
  <2>2. ASSUME NEW k \in Pieces(text), entry(k)[1] # name
        PROVE  \E m \in Pieces(new) : EntryOf(new[m]) = entry(k)
    BY <1>6, <1>8, <1>12, <2>2
  <2>3. QED
    BY <2>1, <2>2 DEF EntriesIn, entry
<1>14. QED
  BY <1>1, <1>9, <1>11, <1>13 DEF new

(* What write and setattr make of a plain content is plain. *)
LEMMA PatchedPlain ==
  ASSUME PlainText, NEW content \in Seq(Cells), Pieces(content) = {},
         NEW data \in Seq(Cells), Pieces(data) = {}, NEW offset \in Nat
  PROVE  Pieces(Patched(content, data, offset)) = {}
<1> DEFINE size == IF offset + Len(data) > Len(content) THEN offset + Len(data)
                                                        ELSE Len(content)
           cell(k) == IF k \in offset + 1 .. offset + Len(data) THEN data[k - offset]
                      ELSE IF k <= Len(content) THEN content[k] ELSE Zero
<1>1. size \in Nat /\ Len(content) \in Nat /\ Len(data) \in Nat
  OBVIOUS
<1>2. Patched(content, data, offset) = [k \in 1 .. size |-> cell(k)]
  BY DEF Patched
<1>3. ASSUME NEW k \in 1 .. size PROVE ~(Len(cell(k)) > 1)
  <2>1. CASE k \in offset + 1 .. offset + Len(data)
    <3>1. k - offset \in 1 .. Len(data)
      BY <1>1, <2>1
    <3>2. QED
      BY <2>1, <3>1 DEF Pieces
  <2>2. CASE k \notin offset + 1 .. offset + Len(data)
    <3>1. k <= Len(content) => k \in 1 .. Len(content)
      BY <1>1
    <3>2. QED
      BY <2>2, <3>1 DEF Pieces, PlainText
  <2>3. QED
    BY <2>1, <2>2
<1> HIDE DEF size, cell
<1>4. QED
  BY <1>1, <1>2, <1>3 DEF Pieces

LEMMA ResizedPlain ==
  ASSUME PlainText, NEW content \in Seq(Cells), Pieces(content) = {}, NEW sz \in Nat
  PROVE  Pieces(Resized(content, sz)) = {}
<1>1. ASSUME NEW k \in 1 .. sz
      PROVE  ~(Len(IF k <= Len(content) THEN content[k] ELSE Zero) > 1)
  <2>1. Len(content) \in Nat /\ (k <= Len(content) => k \in 1 .. Len(content))
    OBVIOUS
  <2>2. QED
    BY <2>1 DEF Pieces, PlainText
<1>2. QED
  BY <1>1 DEF Resized, Pieces
-----------------------------------------------------------------------------
(* What the calls of the file layer do, for the proofs about the handlers.  *)

LEMMA DeviceSame ==
  ASSUME IInv, home' = home, disk' = disk, up' \in BOOLEAN,
         used \subseteq used', used' \subseteq Blocks
  PROVE  IInv' /\ VisibleFiles' = VisibleFiles /\ Live' = Live
<1>1. IInv'
  BY OnlyMarks
<1>2. VisibleFiles' = VisibleFiles
  BY NoneVisible
<1>3. QED
  BY <1>1, <1>2 DEF Live

LEMMA DeviceWritten ==
  ASSUME IInv, NEW id \in InodeIds, NEW content, Readable(id) => content \in Seq(Cells),
         used' = write_file(id, content).used, disk' = write_file(id, content).disk,
         home' = home, up' \in BOOLEAN
  PROVE  /\ IInv' /\ Live' = Live
         /\ write_file(id, content).code \in {"OK", "OUT_OF_RESOURCE", "INVALID_ARG"}
         /\ IF write_file(id, content).code = "OK"
              THEN /\ Readable(id)
                   /\ VisibleFiles' = [VisibleFiles EXCEPT ![id].content = content]
              ELSE VisibleFiles' = VisibleFiles
         /\ write_file(id, content).code = "INVALID_ARG" => ~Readable(id)
<1>1. Live' = Live
  BY DEF Live
<1>2. CASE /\ write_file(id, content).code = "OK" /\ Readable(id)
           /\ \E blocks, entries, bits : Stores(id, content, blocks, entries, bits)
  <2>1. PICK blocks, entries, bits : Stores(id, content, blocks, entries, bits)
    BY <1>2
  <2>2. Readable(id) /\ id \in Live
    BY <1>2, ReadableIsLive
  <2>3. IInv' /\ VisibleFiles' = [VisibleFiles EXCEPT ![id].content = content]
    BY <2>1, <2>2, StoreIInv, StoredVisible
  <2>4. QED
    BY <1>1, <1>2, <2>3
<1>3. CASE /\ write_file(id, content).code \in {"OUT_OF_RESOURCE", "INVALID_ARG"}
           /\ write_file(id, content).code = "INVALID_ARG" => ~Readable(id)
           /\ disk' = disk /\ used \subseteq used' /\ used' \subseteq Blocks
  <2>1. disk' = disk /\ used \subseteq used' /\ used' \subseteq Blocks
    BY <1>3
  <2>2. IInv' /\ VisibleFiles' = VisibleFiles
    BY <2>1, DeviceSame
  <2>3. QED
    BY <1>1, <1>3, <2>2
<1>4. CASE Readable(id)
  BY <1>2, <1>3, <1>4, WriteOutcome
<1>5. CASE ~Readable(id)
  <2>1. write_file(id, content) = Unwritten("INVALID_ARG", used)
    BY <1>5 DEF write_file
  <2>2. write_file(id, content).code = "INVALID_ARG" /\ disk' = disk /\ used' = used
    BY <2>1 DEF Unwritten
  <2>3. used \subseteq Blocks
    BY DEF IInv, TypeOK
  <2>4. QED
    BY <1>3, <1>5, <2>2, <2>3
<1>6. QED
  BY <1>4, <1>5

(* A content that is no longer than the old one always has room. *)
LEMMA ShorterFits ==
  ASSUME IInv, NEW id \in InodeIds, Readable(id),
         NEW content \in Seq(Cells), Len(content) <= InodeOf(id).size
  PROVE  write_file(id, content).code = "OK"
<1> DEFINE a == Len(content)
           b == InodeOf(id).size
           m == calculate_block_sz(a)
           n == calculate_block_sz(b)
<1>1. id \in Live
  BY ReadableIsLive
<1>2. b \in 0 .. MaxFileSize /\ a \in 0 .. MaxFileSize /\ a \in Nat /\ b \in Nat
  <2>1. b \in 0 .. MaxFileSize /\ b \in Nat
    BY <1>1, LiveInode
  <2>2. a \in Nat /\ a <= b
    OBVIOUS
  <2>3. MaxFileSize \in Nat
    BY LayoutAssumption DEF MaxFileSize
  <2> HIDE DEF a, b
  <2>4. QED
    BY <2>1, <2>2, <2>3
<1>3. ~(m > n)
  <2>1. /\ m \in Nat /\ n \in Nat /\ b <= n * BlockSize
        /\ a > 0 => (m - 1) * BlockSize < a
        /\ a = 0 => m = 0
    BY <1>2, BlockCount
  <2>2. a <= b
    OBVIOUS
  <2> HIDE DEF a, b, m, n
  <2>3. SUFFICES ASSUME m > n PROVE FALSE
    OBVIOUS
  <2>4. a > 0 /\ m - 1 \in Nat /\ n <= m - 1
    BY <1>2, <2>1, <2>3
  <2>5. n * BlockSize <= (m - 1) * BlockSize
    <3> DEFINE d == m - 1 - n
    <3>1. d \in Nat /\ m - 1 = n + d
      BY <2>1, <2>4
    <3> HIDE DEF d
    <3>2. (m - 1) * BlockSize = n * BlockSize + d * BlockSize
      BY <2>1, <3>1, LayoutAssumption
    <3>3. d * BlockSize \in Nat /\ n * BlockSize \in Nat
      BY <2>1, <3>1, LayoutAssumption
    <3>4. QED
      BY <3>2, <3>3
  <2>6. n * BlockSize \in Nat /\ (m - 1) * BlockSize \in Nat
    BY <2>1, <2>4, LayoutAssumption
  <2>7. QED
    BY <1>2, <2>1, <2>2, <2>4, <2>5, <2>6
<1>4. PICK blocks, entries, bits :
        Shrunk(id, content) = Store(id, content, blocks, entries, bits)
  BY <1>1, <1>2, <1>3, ShrunkStores
<1>5. write_file(id, content) = Shrunk(id, content)
  <2>1. ~(Len(content) > MaxFileSize)
    <3>1. MaxFileSize \in Nat
      BY LayoutAssumption DEF MaxFileSize
    <3>2. QED
      BY <1>2, <3>1
  <2>2. QED
    BY <1>3, <2>1 DEF write_file
<1>6. QED
  BY <1>4, <1>5, StoreFields

(* The lowest free id. *)
LEMMA NewId ==
  ASSUME NEW type, FreeIds # {}
  PROVE  Allocated(type).id \in FreeIds
<1> DEFINE new == CHOOSE i \in FreeIds : \A j \in FreeIds : i <= j
<1>1. new \in FreeIds
  BY LowestFreeId
<1>2. Allocated(type).id = new
  BY DEF Allocated
<1>3. QED
  BY <1>1, <1>2

LEMMA DeviceCreated ==
  ASSUME IInv, NEW type \in Types, Free # {}, FreeIds # {}, up' \in BOOLEAN,
         used' = Allocated(type).used, home' = Allocated(type).home,
         disk' = Allocated(type).disk
  PROVE  /\ IInv'
         /\ Allocated(type).id \in InodeIds \ Live
         /\ Live' = Live \cup {Allocated(type).id}
         /\ VisibleFiles' = [VisibleFiles EXCEPT ![Allocated(type).id] =
                               IF Allocated(type).id < MaxInodes - 1
                                 THEN [type |-> type, content |-> <<>>] ELSE Stale]
<1> DEFINE new == Allocated(type).id
           block == NthFree(1)
<1>1. PICK id : id = new
  OBVIOUS
<1>2. PICK b : b = block
  OBVIOUS
<1>3. id \in FreeIds
  BY <1>1, NewId
<1>4. b \in DataBlocks \ used /\ b # KInvalidBlockID
  <2>1. 1 \in 1 .. Cardinality(Free)
    BY FreeIsFinite, FS_EmptySet
  <2>2. QED
    BY <1>2, <2>1, FreeBlocksAreData
<1>5. /\ used' = used \cup {b} /\ home' = [home EXCEPT ![id] = b]
      /\ disk' = [disk EXCEPT ![b] = EmptyInode(type)]
  BY <1>1, <1>2 DEF Allocated
<1> HIDE DEF new, block
<1>6. IInv'
  BY <1>3, <1>4, <1>5, FileMade
<1>7. /\ id \in InodeIds /\ id \notin Live
      /\ home'[id] = b
      /\ \A i \in InodeIds \ {id} : home'[i] = home[i]
  BY <1>3, <1>5 DEF FreeIds, Live, IInv, TypeOK
<1>8. Live' = Live \cup {id} /\ id \in Live'
  BY <1>4, <1>7 DEF Live
<1>9. Readable(id)' <=> id < MaxInodes - 1
  BY <1>4, <1>7 DEF Readable
<1>10. InodeOf(id)' = EmptyInode(type)
  BY <1>4, <1>5, <1>7 DEF InodeOf, IInv, TypeOK
<1>11. InodeOf(id)'.size = 0 /\ InodeOf(id)'.type = type
  BY <1>10 DEF EmptyInode, InodeBlock
<1>12. read_file(id)' = <<>>
  <2>1. read_file(id)' \in Seq(Cells) /\ Len(read_file(id)') = 0
    BY <1>6, <1>8, <1>11, ReadsCellsNext DEF ReadsCells
  <2>2. QED
    BY <2>1, EmptySeq
<1>13. VisibleFiles'[id] = IF id < MaxInodes - 1
                             THEN [type |-> type, content |-> <<>>] ELSE Stale
  BY <1>7, <1>9, <1>11, <1>12 DEF VisibleFiles
<1>14. \A i \in Live \ {id} : \A c \in BlocksOf(i) : disk'[c] = disk[c]
  BY <1>4, <1>5, BlocksDiffer DEF IInv, TypeOK
<1>15. VisibleFiles' = [VisibleFiles EXCEPT ![id] =
                          IF id < MaxInodes - 1
                            THEN [type |-> type, content |-> <<>>] ELSE Stale]
  BY <1>6, <1>7, <1>13, <1>14, OneVisible
<1>16. QED
  BY <1>1, <1>6, <1>7, <1>8, <1>15 DEF new

LEMMA DeviceRemoved ==
  ASSUME IInv, NEW id \in InodeIds, Readable(id), ~HasIndirect(id), up' \in BOOLEAN,
         used' = Removed(id).used, home' = Removed(id).home, disk' = Removed(id).disk
  PROVE  /\ IInv' /\ Removed(id).code = "OK" /\ Live' = Live \ {id}
         /\ VisibleFiles' = [VisibleFiles EXCEPT ![id] = Stale]
<1>1. id \in Live
  BY ReadableIsLive
<1>2. Refused(FreeSet(id)) = {} /\ FreedOf(FreeSet(id)) = BlocksOf(id)
  BY <1>1, RemoveFrees
<1>3. /\ used' = used \ BlocksOf(id)
      /\ home' = [home EXCEPT ![id] = KInvalidBlockID]
      /\ disk' = [b \in DataBlocks |-> IF b \in BlocksOf(id) THEN Stale ELSE disk[b]]
      /\ Removed(id).code = "OK"
  BY <1>2 DEF Removed
<1>4. IInv'
  BY <1>1, <1>3, FileGone
<1>5. /\ \A i \in InodeIds \ {id} : home'[i] = home[i]
      /\ home'[id] = KInvalidBlockID /\ ~Readable(id)'
  BY <1>3 DEF IInv, TypeOK, Readable
<1>6. \A i \in Live \ {id} : \A b \in BlocksOf(i) : disk'[b] = disk[b]
  <2> SUFFICES ASSUME NEW i \in Live \ {id}, NEW b \in BlocksOf(i)
               PROVE  disk'[b] = disk[b]
    OBVIOUS
  <2>1. b \in DataBlocks /\ b \notin BlocksOf(id)
    BY <1>1, BlocksDiffer DEF IInv, FilesApart
  <2>2. QED
    BY <1>3, <2>1
<1>7. VisibleFiles'[id] = Stale
  BY <1>5 DEF VisibleFiles
<1>8. VisibleFiles' = [VisibleFiles EXCEPT ![id] = Stale]
  BY <1>4, <1>5, <1>6, <1>7, OneVisible
<1>9. Live' = Live \ {id}
  BY <1>5 DEF Live
<1>10. QED
  BY <1>3, <1>4, <1>8, <1>9

(* A device that was just formatted has no file. *)
JustFormatted == used = Reserved /\ home = NoFiles /\ disk = Blank /\ up \in BOOLEAN

NoFileThere == IInv /\ Live = {} /\ VisibleFiles = [id \in InodeIds |-> Stale]

LEMMA FormattedDevice == JustFormatted => NoFileThere
<1> SUFFICES ASSUME JustFormatted PROVE NoFileThere
  OBVIOUS
<1>1. Live = {} /\ \A id \in InodeIds : ~Readable(id)
  BY DEF JustFormatted, Live, NoFiles, Readable
<1>2. TypeOK /\ Reserved \subseteq used
  BY LayoutAssumption DEF JustFormatted, NoFiles, Blank, TypeOK, Reserved, Blocks
<1>3. IInv
  BY <1>1, <1>2 DEF IInv, FilesApart
<1>4. QED
  BY <1>1, <1>3 DEF VisibleFiles, NoFileThere

LEMMA FormattedDeviceNext == JustFormatted' => NoFileThere'
  BY FormattedDevice, PTL

-----------------------------------------------------------------------------
(* What clients see of the device. *)

IsDir(file) == file # Stale /\ file.type = "Directory"

(* What is there after a create, and after the content of an inode changed. *)
WithNew(V, id, type) ==
  [V EXCEPT ![id] =
     IF id < MaxInodes - 1 THEN [type |-> type, content |-> <<>>] ELSE Stale]

WithContent(V, id, content) == [V EXCEPT ![id].content = content]

(* The open files of an inode, marked as unlinked. *)
Marked(h, id) ==
  [c \in Clients |-> IF h[c] = Handle(id, FALSE) THEN Handle(id, TRUE) ELSE h[c]]

LEMMA Visible ==
  ASSUME IInv, NEW id \in InodeIds
  PROVE  /\ Readable(id) <=> VisibleFiles[id] # Stale
         /\ IsDirectory(id) <=> IsDir(VisibleFiles[id])
         /\ Readable(id) =>
              /\ id \in Live
              /\ VisibleFiles[id].type = InodeOf(id).type
              /\ VisibleFiles[id].content = read_file(id)
              /\ VisibleFiles[id] = [type |-> VisibleFiles[id].type,
                                     content |-> VisibleFiles[id].content]
              /\ VisibleFiles[id].content \in Seq(Cells)
              /\ Len(VisibleFiles[id].content) = InodeOf(id).size
              /\ InodeOf(id).size \in Nat
<1>1. CASE Readable(id)
  <2>1. id \in Live
    BY <1>1, ReadableIsLive
  <2>2. read_file(id) \in Seq(Cells) /\ Len(read_file(id)) = InodeOf(id).size
    BY <2>1, ReadTyped
  <2>3. VisibleFiles[id] = [type |-> InodeOf(id).type, content |-> read_file(id)]
    BY <1>1, VisibleFile
  <2>4. InodeOf(id).size \in Nat
    BY <2>1, LiveInode
  <2>5. VisibleFiles[id] # Stale
    BY <1>1, VisibleFile
  <2>6. IsDirectory(id) <=> IsDir(VisibleFiles[id])
    BY <1>1, <2>3, <2>5 DEF IsDirectory, IsDir
  <2>7. QED
    BY <1>1, <2>1, <2>2, <2>3, <2>4, <2>5, <2>6
<1>2. CASE ~Readable(id)
  BY <1>2, VisibleFile DEF IsDirectory, IsDir
<1>3. QED
  BY <1>1, <1>2

(* The names of a directory, as the handlers look them up. *)
LEMMA VisibleEntries ==
  ASSUME IInv, NEW id \in InodeIds, Readable(id)
  PROVE  /\ EntriesOf(id) = EntriesIn(VisibleFiles[id].content)
         /\ \A name : finds(id, name) <=>
              \E e \in EntriesIn(VisibleFiles[id].content) : e[1] = name
         /\ \A name : finds(id, name) =>
              <<name, lookup(id, name)>> \in EntriesIn(VisibleFiles[id].content)
<1> DEFINE text == VisibleFiles[id].content
           list == parse_directory(text, InodeIds)
<1>1. text \in Seq(Cells) /\ text = read_file(id)
  BY Visible
<1>2. read_directory(id) = list
  BY <1>1 DEF read_directory
<1> HIDE DEF text
<1>3. /\ {<<list[m].name, list[m].id>> : m \in DOMAIN list} = EntriesIn(text)
      /\ \A name : has_entry(list, name) <=> \E e \in EntriesIn(text) : e[1] = name
  BY <1>1, EntriesOfText
<1>4. ASSUME NEW name, has_entry(list, name)
      PROVE  <<name, find_entry(list, name)>> \in EntriesIn(text)
  BY <1>1, <1>4, EntryFound
<1> HIDE DEF list
<1>5. EntriesOf(id) = {<<list[m].name, list[m].id>> : m \in DOMAIN list}
  BY <1>2 DEF EntriesOf
<1>6. QED
  BY <1>2, <1>3, <1>4, <1>5 DEF finds, lookup, text

-----------------------------------------------------------------------------
(* The invariant of the device and of the session, for any names and        *)
(* contents.                                                                *)

Handles == [Clients -> {NoHandle} \cup [ino : InodeIds, unlinked : BOOLEAN]]

(* A daemon that does not run has nothing in its memory. *)
ShutDown ==
  ~up => /\ JustFormatted
         /\ queue = <<>> /\ waiting = {} /\ held = [c \in Clients |-> NoHandle]
         /\ running = NoHandler

DaemonIInv ==
  /\ IInv /\ ShutDown
  /\ queue \in Seq(Clients) /\ waiting \subseteq Clients
  /\ held \in Handles
  /\ running \in {NoHandler} \cup
       [op : {"mknod", "mkdir", "unlink"}, parent : InodeIds, name : Names, id : InodeIds]

LEMMA DaemonTyped == DaemonIInv => DaemonTypeOK
<1> SUFFICES ASSUME DaemonIInv PROVE DaemonTypeOK
  OBVIOUS
<1>1. InodeIds \subseteq 0 .. MaxInodes /\ 0 \in 0 .. MaxInodes
  BY LayoutAssumption DEF InodeIds
<1>2. NoHandle \in [ino : 0 .. MaxInodes, unlinked : BOOLEAN]
  BY <1>1 DEF NoHandle, Handle
<1>3. [ino : InodeIds, unlinked : BOOLEAN] \subseteq [ino : 0 .. MaxInodes, unlinked : BOOLEAN]
  BY <1>1
<1>4. held \in [Clients -> [ino : 0 .. MaxInodes, unlinked : BOOLEAN]]
  BY <1>2, <1>3 DEF DaemonIInv, Handles
<1>5. QED
  BY <1>4 DEF DaemonIInv, DaemonTypeOK, IInv

LEMMA GivenUpTyped ==
  ASSUME held \in Handles, NEW ino
  PROVE  GivenUp(ino) \in Handles
BY DEF Handles, GivenUp

LEMMA OpenedTyped ==
  ASSUME held \in Handles, NEW c \in Clients, NEW ino \in InodeIds
  PROVE  Opened(c, ino) \in Handles
BY DEF Handles, Opened, Handle

LEMMA OneLess ==
  ASSUME NEW q \in Seq(Clients), q # <<>>
  PROVE  Tail(q) \in Seq(Clients) /\ Head(q) \in Clients
OBVIOUS

(* A handler that answers, goes on, or dies. *)
LEMMA Answered ==
  ASSUME DaemonIInv, IInv', NEW c \in Clients, up, queue # <<>>,
         NEW call, Reply(c, call), held' \in Handles
  PROVE  /\ DaemonIInv' /\ up'
         /\ running' = NoHandler /\ ret' = call
<1>1. queue' \in Seq(Clients)
  <2>1. queue \in Seq(Clients)
    BY DEF DaemonIInv
  <2>2. QED
    BY <2>1, OneLess DEF Reply
<1>2. waiting' \subseteq Clients
  BY DEF DaemonIInv, Reply
<1>3. up' /\ running' = NoHandler /\ ret' = call
  BY DEF Reply
<1>4. QED
  BY <1>1, <1>2, <1>3 DEF DaemonIInv, ShutDown

LEMMA WentOn ==
  ASSUME DaemonIInv, IInv', up, NEW op \in {"mknod", "mkdir", "unlink"},
         NEW parent \in InodeIds, NEW name \in Names, NEW id \in InodeIds,
         GoesOn(op, parent, name, id)
  PROVE  /\ DaemonIInv' /\ up'
         /\ running' = InHand(op, parent, name, id) /\ ret' = ret /\ held' = held
BY DEF DaemonIInv, ShutDown, GoesOn, InHand

LEMMA Died ==
  ASSUME NEW call, Dies(call)
  PROVE  /\ DaemonIInv' /\ NoFileThere' /\ ~up'
         /\ running' = NoHandler /\ held' = [c \in Clients |-> NoHandle] /\ ret' = call
<1>1. JustFormatted'
  BY DEF Dies, JustFormatted
<1>2. NoFileThere'
  BY <1>1, FormattedDeviceNext
<1>3. held' \in Handles
  BY DEF Dies, Handles
<1>4. queue' \in Seq(Clients) /\ waiting' \subseteq Clients /\ running' = NoHandler
  BY DEF Dies
<1>5. QED
  BY <1>1, <1>2, <1>3, <1>4 DEF Dies, DaemonIInv, ShutDown, NoFileThere

-----------------------------------------------------------------------------
(* What each handler does, in terms of the files clients see.               *)

SameFiles == VisibleFiles' = VisibleFiles /\ Live' = Live

LEMMA NothingDone ==
  ASSUME IInv, UNCHANGED <<used, home, disk>>, up' \in BOOLEAN
  PROVE  IInv' /\ SameFiles
<1>1. used \subseteq Blocks
  BY DEF IInv, TypeOK
<1>2. QED
  BY <1>1, DeviceSame DEF SameFiles

LEMMA DirectoriesAreIds ==
  ASSUME NEW dir \in Directories
  PROVE  /\ dir \in InodeIds /\ IsDirectory(dir) /\ Readable(dir)
         /\ \/ dir = Root
            \/ \E d \in InodeIds, name \in Names :
                 IsDirectory(d) /\ <<name, dir>> \in EntriesOf(d)
BY DEF Directories, IsDirectory

LEMMA HeldId ==
  ASSUME DaemonIInv, NEW c \in Clients, held[c] # NoHandle
  PROVE  held[c].ino \in InodeIds /\ held[c] = Handle(held[c].ino, held[c].unlinked)
BY DEF DaemonIInv, Handles, Handle

LEMMA RunningTyped ==
  ASSUME DaemonIInv, running.op \in {"mknod", "mkdir", "unlink"}
  PROVE  /\ running.parent \in InodeIds /\ running.id \in InodeIds /\ running.name \in Names
         /\ running = InHand(running.op, running.parent, running.name, running.id)
BY DEF DaemonIInv, NoHandler, InHand

LEMMA LookupEffect ==
  ASSUME DaemonIInv, NEW c \in Clients, Reads(c),
         NEW parent \in Directories, NEW name \in Names, chfs_lookup(c, parent, name)
  PROVE  /\ DaemonIInv' /\ up' /\ SameFiles /\ running' = NoHandler
         /\ \/ /\ ret' = Call("lookup", parent, 0, name, "ENOENT") /\ held' = held
               /\ \A e \in EntriesIn(VisibleFiles[parent].content) : e[1] # name
            \/ \E id :
                 /\ <<name, id>> \in EntriesIn(VisibleFiles[parent].content)
                 /\ \/ /\ ret' = Call("lookup", parent, id, name, "ERANGE") /\ held' = held
                       /\ id \in InodeIds => VisibleFiles[id] = Stale
                    \/ /\ ret' = Call("lookup", parent, id, name, "OK")
                       /\ id \in InodeIds /\ VisibleFiles[id] # Stale
                       /\ held' = IF IsDir(VisibleFiles[id]) THEN held ELSE Opened(c, id)
<1> DEFINE text == VisibleFiles[parent].content
           id == lookup(parent, name)
<1>1. IInv /\ held \in Handles /\ up /\ queue # <<>> /\ up \in BOOLEAN
  BY DEF DaemonIInv, Reads, IInv, TypeOK
<1>2. parent \in InodeIds /\ Readable(parent)
  BY DirectoriesAreIds
<1>3. /\ finds(parent, name) <=> \E e \in EntriesIn(text) : e[1] = name
      /\ finds(parent, name) => <<name, id>> \in EntriesIn(text)
  BY <1>1, <1>2, VisibleEntries
<1>4. Readable(id) => id \in InodeIds
  BY DEF Readable
<1>5. id \in InodeIds => /\ Readable(id) <=> VisibleFiles[id] # Stale
                         /\ IsDirectory(id) <=> IsDir(VisibleFiles[id])
  BY <1>1, Visible
<1>6. Readable(id) => Opened(c, id) \in Handles
  BY <1>1, <1>4, OpenedTyped
<1> HIDE DEF id, text
<1>7. \/ /\ Reply(c, Call("lookup", parent, 0, name, "ENOENT")) /\ held' = held
         /\ ~finds(parent, name)
      \/ /\ Reply(c, Call("lookup", parent, id, name, "ERANGE")) /\ held' = held
         /\ finds(parent, name) /\ ~Readable(id)
      \/ /\ Reply(c, Call("lookup", parent, id, name, "OK"))
         /\ finds(parent, name) /\ Readable(id)
         /\ held' = IF IsDirectory(id) THEN held ELSE Opened(c, id)
  BY DEF chfs_lookup, id
<1>8. IInv' /\ SameFiles
  <2>1. UNCHANGED <<used, home, disk>> /\ up' \in BOOLEAN
    BY <1>1, <1>7 DEF chfs_lookup, Reply
  <2>2. QED
    BY <1>1, <2>1, NothingDone
<1>9. held' \in Handles
  BY <1>1, <1>6, <1>7
<1>10. CASE /\ Reply(c, Call("lookup", parent, 0, name, "ENOENT")) /\ held' = held
            /\ ~finds(parent, name)
  <2>1. DaemonIInv' /\ up' /\ running' = NoHandler
        /\ ret' = Call("lookup", parent, 0, name, "ENOENT")
    BY <1>1, <1>8, <1>9, <1>10, Answered
  <2>2. QED
    BY <1>3, <1>8, <1>10, <2>1 DEF text
<1>11. CASE /\ Reply(c, Call("lookup", parent, id, name, "ERANGE")) /\ held' = held
            /\ finds(parent, name) /\ ~Readable(id)
  <2>1. DaemonIInv' /\ up' /\ running' = NoHandler
        /\ ret' = Call("lookup", parent, id, name, "ERANGE")
    BY <1>1, <1>8, <1>9, <1>11, Answered
  <2>2. QED
    BY <1>3, <1>5, <1>8, <1>11, <2>1 DEF text
<1>12. CASE /\ Reply(c, Call("lookup", parent, id, name, "OK"))
            /\ finds(parent, name) /\ Readable(id)
            /\ held' = IF IsDirectory(id) THEN held ELSE Opened(c, id)
  <2>1. DaemonIInv' /\ up' /\ running' = NoHandler
        /\ ret' = Call("lookup", parent, id, name, "OK")
    BY <1>1, <1>8, <1>9, <1>12, Answered
  <2>2. QED
    BY <1>3, <1>4, <1>5, <1>8, <1>12, <2>1 DEF text
<1>13. QED
  BY <1>7, <1>10, <1>11, <1>12

LEMMA GetattrEffect ==
  ASSUME DaemonIInv, NEW c \in Clients, Reads(c), held[c] # NoHandle, chfs_getattr(c)
  PROVE  LET ino == held[c].ino
         IN /\ DaemonIInv' /\ up' /\ SameFiles /\ running' = NoHandler /\ ino \in InodeIds
            /\ ret' = Call("getattr", ino, 0, <<>>,
                           IF VisibleFiles[ino] # Stale THEN "OK" ELSE "ENOENT")
            /\ held' = IF IsDir(VisibleFiles[ino]) THEN GivenUp(ino) ELSE held
<1> DEFINE ino == held[c].ino
<1>1. IInv /\ held \in Handles /\ up /\ queue # <<>> /\ up \in BOOLEAN
  BY DEF DaemonIInv, Reads, IInv, TypeOK
<1>2. ino \in InodeIds
  BY HeldId
<1> HIDE DEF ino
<1>3. /\ Readable(ino) <=> VisibleFiles[ino] # Stale
      /\ IsDirectory(ino) <=> IsDir(VisibleFiles[ino])
  BY <1>1, <1>2, Visible
<1>4. /\ Reply(c, Call("getattr", ino, 0, <<>>, IF Readable(ino) THEN "OK" ELSE "ENOENT"))
      /\ held' = IF IsDirectory(ino) THEN GivenUp(ino) ELSE held
      /\ UNCHANGED <<used, home, disk>>
  BY DEF chfs_getattr, ino
<1>5. up' \in BOOLEAN
  BY <1>1, <1>4 DEF Reply
<1>6. IInv' /\ SameFiles
  BY <1>1, <1>4, <1>5, NothingDone
<1>7. held' \in Handles
  BY <1>1, <1>4, GivenUpTyped
<1>8. /\ DaemonIInv' /\ up' /\ running' = NoHandler
      /\ ret' = Call("getattr", ino, 0, <<>>, IF Readable(ino) THEN "OK" ELSE "ENOENT")
  BY <1>1, <1>4, <1>6, <1>7, Answered
<1>9. QED
  BY <1>2, <1>3, <1>4, <1>6, <1>8 DEF ino

LEMMA ReaddirEffect ==
  ASSUME DaemonIInv, NEW c \in Clients, Reads(c), NEW dir \in Directories,
         chfs_readdir(c, dir)
  PROVE  /\ DaemonIInv' /\ up' /\ SameFiles /\ running' = NoHandler /\ held' = held
         /\ ret' = Call("readdir", dir, 0, EntriesIn(VisibleFiles[dir].content), "OK")
<1>1. IInv /\ held \in Handles /\ up /\ queue # <<>> /\ up \in BOOLEAN
  BY DEF DaemonIInv, Reads, IInv, TypeOK
<1>2. dir \in InodeIds /\ Readable(dir) /\ IsDirectory(dir)
  BY DirectoriesAreIds
<1>3. EntriesOf(dir) = EntriesIn(VisibleFiles[dir].content)
  BY <1>1, <1>2, VisibleEntries
<1>4. /\ Reply(c, Call("readdir", dir, 0, EntriesOf(dir), "OK"))
      /\ UNCHANGED <<used, home, disk>> /\ held' = held
  BY <1>2 DEF chfs_readdir, Unchanged
<1>5. up' \in BOOLEAN
  BY <1>1, <1>4 DEF Reply
<1>6. IInv' /\ SameFiles
  BY <1>1, <1>4, <1>5, NothingDone
<1>7. held' \in Handles
  BY <1>1, <1>4
<1>8. /\ DaemonIInv' /\ up' /\ running' = NoHandler
      /\ ret' = Call("readdir", dir, 0, EntriesOf(dir), "OK")
  BY <1>1, <1>4, <1>6, <1>7, Answered
<1>9. QED
  BY <1>3, <1>4, <1>6, <1>8

LEMMA OpenEffect ==
  ASSUME DaemonIInv, NEW c \in Clients, Reads(c), held[c] # NoHandle, chfs_open(c)
  PROVE  /\ DaemonIInv' /\ up' /\ SameFiles /\ running' = NoHandler /\ held' = held
         /\ ret' = Call("open", held[c].ino, 0, <<>>, "OK")
<1>1. IInv /\ held \in Handles /\ up /\ queue # <<>> /\ up \in BOOLEAN
  BY DEF DaemonIInv, Reads, IInv, TypeOK
<1>2. /\ Reply(c, Call("open", held[c].ino, 0, <<>>, "OK"))
      /\ UNCHANGED <<used, home, disk>> /\ held' = held
  BY DEF chfs_open, Unchanged
<1>3. up' \in BOOLEAN
  BY <1>1, <1>2 DEF Reply
<1>4. IInv' /\ SameFiles
  BY <1>1, <1>2, <1>3, NothingDone
<1>5. held' \in Handles
  BY <1>1, <1>2
<1>6. /\ DaemonIInv' /\ up' /\ running' = NoHandler
      /\ ret' = Call("open", held[c].ino, 0, <<>>, "OK")
  BY <1>1, <1>2, <1>4, <1>5, Answered
<1>7. QED
  BY <1>2, <1>4, <1>6

LEMMA ReadEffect ==
  ASSUME DaemonIInv, NEW c \in Clients, Reads(c), held[c] # NoHandle,
         NEW size, NEW off \in Nat, chfs_read(c, size, off)
  PROVE  LET ino == held[c].ino
         IN /\ DaemonIInv' /\ up' /\ SameFiles /\ running' = NoHandler /\ held' = held
            /\ ino \in InodeIds
            /\ IF VisibleFiles[ino] = Stale
                 THEN ret' = Call("read", ino, off, <<>>, "ERANGE")
                 ELSE ret' = Call("read", ino, off,
                                  IF off >= Len(VisibleFiles[ino].content) THEN <<>>
                                    ELSE Slice(VisibleFiles[ino].content, off, size), "OK")
<1> DEFINE ino == held[c].ino
           text == VisibleFiles[ino].content
           call == IF VisibleFiles[ino] = Stale THEN Call("read", ino, off, <<>>, "ERANGE")
                   ELSE Call("read", ino, off,
                             IF off >= Len(text) THEN <<>> ELSE Slice(text, off, size), "OK")
<1>1. IInv /\ held \in Handles /\ up /\ queue # <<>> /\ up \in BOOLEAN
  BY DEF DaemonIInv, Reads, IInv, TypeOK
<1>2. ino \in InodeIds
  BY HeldId
<1>3. /\ Readable(ino) <=> VisibleFiles[ino] # Stale
      /\ Readable(ino) => text = read_file(ino) /\ Len(text) = InodeOf(ino).size
  BY <1>1, <1>2, Visible
<1>4. Reply(c, call)
  <2>1. CASE ~Readable(ino)
    BY <1>3, <2>1 DEF chfs_read
  <2>2. CASE Readable(ino)
    <3> HIDE DEF text
    <3>1. CASE off >= InodeOf(ino).size
      BY <1>3, <2>2, <3>1 DEF chfs_read
    <3>2. CASE ~(off >= InodeOf(ino).size)
      BY <1>3, <2>2, <3>2 DEF chfs_read
    <3>3. QED
      BY <3>1, <3>2
  <2>3. QED
    BY <2>1, <2>2
<1>5. UNCHANGED <<used, home, disk>> /\ held' = held
  BY DEF chfs_read, Unchanged
<1> HIDE DEF call
<1>6. up' \in BOOLEAN
  BY <1>1, <1>4 DEF Reply
<1>7. IInv' /\ SameFiles
  BY <1>1, <1>5, <1>6, NothingDone
<1>8. held' \in Handles
  BY <1>1, <1>5
<1>9. DaemonIInv' /\ up' /\ running' = NoHandler /\ ret' = call
  BY <1>1, <1>4, <1>7, <1>8, Answered
<1>10. QED
  BY <1>2, <1>5, <1>7, <1>9 DEF call

(* A write, or a setattr, that keeps to the file: its outcomes.             *)
LEMMA WriteEffect ==
  ASSUME DaemonIInv, NEW c \in Clients, Reads(c), held[c] # NoHandle,
         NEW data \in Contents, NEW off \in Offsets, chfs_write(c, data, off)
  PROVE  LET ino == held[c].ino
             text == VisibleFiles[ino].content
         IN /\ DaemonIInv' /\ running' = NoHandler /\ ino \in InodeIds
            /\ \/ /\ up' /\ held' = held /\ Live' = Live
                  /\ ret' = Call("write", ino, off, data, "OK")
                  /\ VisibleFiles[ino] # Stale
                  /\ VisibleFiles' =
                       [VisibleFiles EXCEPT ![ino].content = Patched(text, data, off)]
               \/ /\ up' /\ held' = held /\ SameFiles
                  /\ ret' = Call("write", ino, off, data, "ENOSYS")
               \/ /\ ~up' /\ held' = [k \in Clients |-> NoHandle] /\ NoFileThere'
                  /\ ret' = Call("write", ino, off, data, "ABORT")
                  /\ VisibleFiles[ino] = Stale
               \/ /\ ~up' /\ held' = [k \in Clients |-> NoHandle] /\ NoFileThere'
                  /\ ret' = Call("write", ino, off, data, "EXCEPTION")
                  /\ ~Resizable(off + Len(data))
<1> DEFINE ino == held[c].ino
           text == VisibleFiles[ino].content
           new == Patched(read_file(ino), data, off)
           done == write_file(ino, new)
<1>1. IInv /\ held \in Handles /\ up /\ queue # <<>> /\ up \in BOOLEAN
  BY DEF DaemonIInv, Reads, IInv, TypeOK
<1>2. ino \in InodeIds
  BY HeldId
<1>3. /\ Readable(ino) <=> VisibleFiles[ino] # Stale
      /\ Readable(ino) => text = read_file(ino) /\ read_file(ino) \in Seq(Cells)
  BY <1>1, <1>2, Visible
<1>4. Readable(ino) => new \in Seq(Cells) /\ new = Patched(text, data, off)
  <2>1. data \in Seq(Cells) /\ off \in Nat
    BY LayoutAssumption
  <2>2. QED
    BY <1>3, <2>1, PatchedTyped
<1>5. \/ Dies(Call("write", ino, off, data, "ABORT")) /\ ~Readable(ino)
      \/ /\ Dies(Call("write", ino, off, data, "EXCEPTION")) /\ Readable(ino)
         /\ ~Resizable(off + Len(data))
      \/ /\ Readable(ino)
         /\ used' = done.used /\ disk' = done.disk /\ home' = home /\ held' = held
         /\ Reply(c, Call("write", ino, off, data, IF done.code = "OK" THEN "OK" ELSE "ENOSYS"))
  BY DEF chfs_write
<1>6. ASSUME NEW code, Dies(Call("write", ino, off, data, code))
      PROVE  /\ DaemonIInv' /\ NoFileThere' /\ ~up' /\ running' = NoHandler
             /\ held' = [k \in Clients |-> NoHandle]
             /\ ret' = Call("write", ino, off, data, code)
  <2> HIDE DEF done, new, text, ino
  <2>1. QED
    BY <1>6, Died
<1>7. CASE /\ Readable(ino)
           /\ used' = done.used /\ disk' = done.disk /\ home' = home /\ held' = held
           /\ Reply(c, Call("write", ino, off, data,
                            IF done.code = "OK" THEN "OK" ELSE "ENOSYS"))
  <2>1. PICK txt : txt = new
    OBVIOUS
  <2>2. done = write_file(ino, txt)
    BY <1>7, <2>1
  <2>3. txt \in Seq(Cells) /\ txt = Patched(text, data, off)
    BY <1>4, <1>7, <2>1
  <2> HIDE DEF done, new, text
  <2>5. /\ used' = done.used /\ disk' = done.disk /\ home' = home /\ held' = held
        /\ Reply(c, Call("write", ino, off, data, IF done.code = "OK" THEN "OK" ELSE "ENOSYS"))
    BY <1>7
  <2>6. QED
    <3>1. /\ used' = write_file(ino, txt).used /\ disk' = write_file(ino, txt).disk
          /\ home' = home /\ up' \in BOOLEAN
      BY <1>1, <2>2, <2>5 DEF Reply
    <3>2. /\ IInv' /\ Live' = Live
          /\ IF write_file(ino, txt).code = "OK"
               THEN VisibleFiles' = [VisibleFiles EXCEPT ![ino].content = txt]
               ELSE VisibleFiles' = VisibleFiles
      BY <1>1, <1>2, <2>3, <3>1, DeviceWritten
    <3>3. held' \in Handles
      BY <1>1, <2>5
    <3>4. Reply(c, Call("write", ino, off, data, IF done.code = "OK" THEN "OK" ELSE "ENOSYS"))
      BY <2>5
    <3>5. /\ DaemonIInv' /\ up' /\ running' = NoHandler
          /\ ret' = Call("write", ino, off, data, IF done.code = "OK" THEN "OK" ELSE "ENOSYS")
      BY <1>1, <3>2, <3>3, <3>4, Answered
    <3>6. CASE done.code = "OK"
      BY <1>2, <1>3, <1>7, <2>2, <2>3, <2>5, <3>2, <3>5, <3>6 DEF text
    <3>7. CASE done.code # "OK"
      <4>1. SameFiles
        BY <2>2, <3>2, <3>7 DEF SameFiles
      <4>2. QED
        BY <1>2, <2>5, <3>5, <3>7, <4>1
    <3>8. QED
      BY <3>6, <3>7
<1>8. CASE Dies(Call("write", ino, off, data, "ABORT")) /\ ~Readable(ino)
  <2> HIDE DEF done, new, text
  <2>1. QED
    BY <1>2, <1>3, <1>6, <1>8
<1>9. CASE /\ Dies(Call("write", ino, off, data, "EXCEPTION"))
           /\ ~Resizable(off + Len(data))
  <2> HIDE DEF done, new, text
  <2>1. QED
    BY <1>2, <1>6, <1>9
<1>10. QED
  BY <1>5, <1>7, <1>8, <1>9

LEMMA SetattrEffect ==
  ASSUME DaemonIInv, NEW c \in Clients, Reads(c), NEW ino \in InodeIds,
         NEW mask, NEW st_size \in Nat, chfs_setattr(c, ino, mask, st_size)
  PROVE  LET size == IF mask = "SIZE" THEN st_size ELSE 0
             text == VisibleFiles[ino].content
         IN /\ DaemonIInv' /\ running' = NoHandler
            /\ \/ /\ ret' = Call("setattr", ino, st_size, <<mask>>, "OK")
                  /\ up' /\ Live' = Live
                  /\ VisibleFiles[ino] # Stale
                  /\ held' = IF IsDir(VisibleFiles[ino]) THEN GivenUp(ino) ELSE held
                  /\ VisibleFiles' =
                       [VisibleFiles EXCEPT ![ino].content = Resized(text, size)]
               \/ /\ ret' = Call("setattr", ino, st_size, <<mask>>, "ENOSYS")
                  /\ up' /\ Live' = Live
                  /\ held' = held /\ SameFiles
               \/ /\ ret' = Call("setattr", ino, st_size, <<mask>>, "EXCEPTION")
                  /\ ~up' /\ held' = [k \in Clients |-> NoHandle] /\ NoFileThere'
                  /\ ~Resizable(size)
<1> DEFINE size == IF mask = "SIZE" THEN st_size ELSE 0
           text == VisibleFiles[ino].content
           new == Resized(read_file(ino), size)
           done == IF ~Readable(ino) THEN Unwritten("INVALID_ARG", used)
                   ELSE IF InodeOf(ino).size = size THEN Unwritten("OK", used)
                   ELSE write_file(ino, new)
           code == IF done.code = "OK" THEN "OK" ELSE "ENOSYS"
<1>1. IInv /\ held \in Handles /\ up /\ queue # <<>> /\ up \in BOOLEAN
  BY DEF DaemonIInv, Reads, IInv, TypeOK
<1>2. /\ Readable(ino) <=> VisibleFiles[ino] # Stale
      /\ IsDirectory(ino) <=> IsDir(VisibleFiles[ino])
      /\ Readable(ino) =>
           /\ text = read_file(ino) /\ text \in Seq(Cells) /\ Len(text) = InodeOf(ino).size
           /\ VisibleFiles[ino] = [type |-> VisibleFiles[ino].type, content |-> text]
  BY <1>1, Visible
<1>0. \/ Dies(Call("setattr", ino, st_size, <<mask>>, "EXCEPTION")) /\ ~Resizable(size)
      \/ /\ used' = done.used /\ disk' = done.disk /\ home' = home
         /\ held' = IF IsDirectory(ino) /\ done.code = "OK" THEN GivenUp(ino) ELSE held
         /\ Reply(c, Call("setattr", ino, st_size, <<mask>>, code))
  BY DEF chfs_setattr
<1>00. CASE Dies(Call("setattr", ino, st_size, <<mask>>, "EXCEPTION")) /\ ~Resizable(size)
  <2>1. Dies(Call("setattr", ino, st_size, <<mask>>, "EXCEPTION"))
    BY <1>00
  <2> HIDE DEF done, new, text, code
  <2>2. /\ DaemonIInv' /\ NoFileThere' /\ ~up' /\ running' = NoHandler
        /\ held' = [k \in Clients |-> NoHandle]
        /\ ret' = Call("setattr", ino, st_size, <<mask>>, "EXCEPTION")
    BY <2>1, Died
  <2>3. QED
    BY <1>00, <2>2
<1> SUFFICES ASSUME used' = done.used, disk' = done.disk, home' = home,
                    held' = IF IsDirectory(ino) /\ done.code = "OK" THEN GivenUp(ino) ELSE held,
                    Reply(c, Call("setattr", ino, st_size, <<mask>>, code))
             PROVE  /\ DaemonIInv' /\ up' /\ running' = NoHandler /\ Live' = Live
                    /\ \/ /\ ret' = Call("setattr", ino, st_size, <<mask>>, "OK")
                          /\ VisibleFiles[ino] # Stale
                          /\ held' = IF IsDir(VisibleFiles[ino]) THEN GivenUp(ino) ELSE held
                          /\ VisibleFiles' =
                               [VisibleFiles EXCEPT ![ino].content = Resized(text, size)]
                       \/ /\ ret' = Call("setattr", ino, st_size, <<mask>>, "ENOSYS")
                          /\ held' = held /\ SameFiles
  <2> HIDE DEF done, new, text, code, size
  <2>1. QED
    BY <1>0, <1>00 DEF text, size
<1>3. /\ used' = done.used /\ disk' = done.disk /\ home' = home
      /\ held' = IF IsDirectory(ino) /\ done.code = "OK" THEN GivenUp(ino) ELSE held
      /\ Reply(c, Call("setattr", ino, st_size, <<mask>>, code))
  OBVIOUS
<1>4. size \in Nat
  OBVIOUS
<1>5. held' \in Handles /\ up' \in BOOLEAN
  <2> HIDE DEF done
  <2>1. QED
    BY <1>1, <1>3, GivenUpTyped DEF Reply
<1>6. /\ IInv' /\ Live' = Live
      /\ done.code = "OK" => /\ Readable(ino)
                             /\ VisibleFiles' =
                                  [VisibleFiles EXCEPT ![ino].content = Resized(text, size)]
      /\ done.code # "OK" => VisibleFiles' = VisibleFiles
  <2>1. ASSUME done.used = used, done.disk = disk
        PROVE  IInv' /\ Live' = Live /\ VisibleFiles' = VisibleFiles
    <3>1. UNCHANGED <<used, home, disk>>
      BY <1>3, <2>1
    <3> HIDE DEF done, code
    <3>2. QED
      BY <1>1, <1>5, <3>1, NothingDone DEF SameFiles
  <2>2. CASE ~Readable(ino)
    <3>1. done.used = used /\ done.disk = disk /\ done.code = "INVALID_ARG"
      BY <2>2 DEF Unwritten
    <3> HIDE DEF done
    <3>2. QED
      BY <2>1, <3>1
  <2>3. CASE Readable(ino) /\ InodeOf(ino).size = size
    <3>1. done.used = used /\ done.disk = disk /\ done.code = "OK"
      BY <2>3 DEF Unwritten
    <3> HIDE DEF done, size
    <3>2. text \in Seq(Cells) /\ Len(text) = size
      BY <1>2, <2>3
    <3>3. Resized(text, size) = text
      BY <1>4, <3>2, ResizedSizes
    <3>4. VisibleFiles = [VisibleFiles EXCEPT ![ino].content = text]
      <4>1. VisibleFiles = [i \in InodeIds |-> VisibleFiles[i]]
        BY DEF VisibleFiles
      <4> HIDE DEF VisibleFiles
      <4>2. PICK ty : VisibleFiles[ino] = [type |-> ty, content |-> VisibleFiles[ino].content]
        BY <1>2, <2>3
      <4>3. QED
        BY <4>1, <4>2
    <3>5. QED
      BY <2>1, <2>3, <3>1, <3>3, <3>4
  <2>4. CASE Readable(ino) /\ InodeOf(ino).size # size
    <3>1. PICK txt : txt = new
      OBVIOUS
    <3>2. done = write_file(ino, txt)
      BY <2>4, <3>1
    <3>3. txt = Resized(text, size) /\ txt \in Seq(Cells)
      <4>1. txt = Resized(text, size) /\ text \in Seq(Cells)
        BY <1>2, <2>4, <3>1
      <4> HIDE DEF text, size
      <4>2. QED
        BY <1>4, <4>1, ResizedTyped
    <3> HIDE DEF done, new, text, size
    <3>4. used' = write_file(ino, txt).used /\ disk' = write_file(ino, txt).disk /\ home' = home
      BY <1>3, <3>2
    <3>5. /\ IInv' /\ Live' = Live
          /\ IF write_file(ino, txt).code = "OK"
               THEN VisibleFiles' = [VisibleFiles EXCEPT ![ino].content = txt]
               ELSE VisibleFiles' = VisibleFiles
      BY <1>1, <1>5, <3>3, <3>4, DeviceWritten
    <3>6. QED
      BY <2>4, <3>2, <3>3, <3>5
  <2>5. QED
    BY <2>2, <2>3, <2>4
<1> HIDE DEF done
<1>7. Reply(c, Call("setattr", ino, st_size, <<mask>>, code))
  BY <1>3
<1> HIDE DEF code
<1>8. /\ DaemonIInv' /\ up' /\ running' = NoHandler
      /\ ret' = Call("setattr", ino, st_size, <<mask>>, code)
  BY <1>1, <1>5, <1>6, <1>7, Answered
<1>9. CASE done.code = "OK"
  <2>1. code = "OK"
    BY <1>9 DEF code
  <2> HIDE DEF size, text
  <2>2. QED
    BY <1>2, <1>3, <1>6, <1>8, <1>9, <2>1 DEF size, text
<1>10. CASE done.code # "OK"
  <2>1. code = "ENOSYS" /\ held' = held /\ SameFiles
    BY <1>3, <1>6, <1>10 DEF code, SameFiles
  <2>2. QED
    BY <1>6, <1>8, <2>1
<1>11. QED
  BY <1>9, <1>10

(* A create finds the name, or no room, or it has the new inode in hand.    *)
CreateDone(op, parent, name, type, otherwise) ==
  LET text == VisibleFiles[parent].content
      called(code) == Call(op, parent, 0, name, code)
  IN \/ /\ up' /\ SameFiles /\ running' = NoHandler /\ held' = held
        /\ \/ /\ ret' = called("EEXIST")
              /\ \E e \in EntriesIn(text) : e[1] = name
           \/ ret' = called(otherwise)
     \/ /\ ~up' /\ held' = [k \in Clients |-> NoHandle] /\ NoFileThere'
        /\ running' = NoHandler
        /\ ret' = called("EXCEPTION") /\ Free = {}
     \/ \E id \in InodeIds \ Live :
          /\ up' /\ held' = held /\ ret' = ret
          /\ running' = InHand(op, parent, name, id)
          /\ \A e \in EntriesIn(text) : e[1] # name
          /\ Live' = Live \cup {id}
          /\ VisibleFiles' = WithNew(VisibleFiles, id, type)

LEMMA CreateEffect ==
  ASSUME DaemonIInv, NEW c \in Clients, Reads(c),
         NEW op \in {"mknod", "mkdir"}, NEW type \in Types, NEW otherwise,
         NEW parent \in Directories, NEW name \in Names,
         mk_helper(c, op, parent, name, type, otherwise)
  PROVE  DaemonIInv' /\ CreateDone(op, parent, name, type, otherwise)
<1> DEFINE text == VisibleFiles[parent].content
           called(code) == Call(op, parent, 0, name, code)
<1>1. IInv /\ held \in Handles /\ up /\ queue # <<>> /\ up \in BOOLEAN
  BY DEF DaemonIInv, Reads, IInv, TypeOK
<1>2. parent \in InodeIds /\ Readable(parent)
  BY DirectoriesAreIds
<1>3. finds(parent, name) <=> \E e \in EntriesIn(text) : e[1] = name
  BY <1>1, <1>2, VisibleEntries
<1>4. \/ finds(parent, name) /\ Reply(c, called("EEXIST")) /\ Unchanged
      \/ ~finds(parent, name) /\ Free = {} /\ Dies(called("EXCEPTION"))
      \/ /\ ~finds(parent, name) /\ Free # {} /\ FreeIds = {}
         /\ used' = used \cup {NthFree(1)}
         /\ Reply(c, called(otherwise)) /\ UNCHANGED <<home, disk, held>>
      \/ /\ ~finds(parent, name) /\ Free # {} /\ FreeIds # {}
         /\ used' = Allocated(type).used
         /\ home' = Allocated(type).home
         /\ disk' = Allocated(type).disk
         /\ GoesOn(op, parent, name, Allocated(type).id)
  BY DEF mk_helper
<1> HIDE DEF text, called
<1>5. ASSUME finds(parent, name), Reply(c, called("EEXIST")), Unchanged
      PROVE  /\ DaemonIInv' /\ up' /\ SameFiles /\ running' = NoHandler /\ held' = held
             /\ ret' = called("EEXIST") /\ \E e \in EntriesIn(text) : e[1] = name
  <2>1. UNCHANGED <<used, home, disk>> /\ held' = held /\ held' \in Handles
    BY <1>1, <1>5 DEF Unchanged
  <2>2. up' \in BOOLEAN
    BY <1>1, <1>5 DEF Reply
  <2>3. IInv' /\ SameFiles
    BY <1>1, <2>1, <2>2, NothingDone
  <2>4. DaemonIInv' /\ up' /\ running' = NoHandler /\ ret' = called("EEXIST")
    BY <1>1, <1>5, <2>1, <2>3, Answered
  <2>5. QED
    BY <1>3, <1>5, <2>1, <2>3, <2>4
<1>6. ASSUME Free = {}, Dies(called("EXCEPTION"))
      PROVE  /\ DaemonIInv' /\ NoFileThere' /\ ~up' /\ running' = NoHandler
             /\ held' = [k \in Clients |-> NoHandle] /\ ret' = called("EXCEPTION")
  BY <1>6, Died
<1>7. ASSUME Free # {}, used' = used \cup {NthFree(1)},
             Reply(c, called(otherwise)), UNCHANGED <<home, disk, held>>
      PROVE  /\ DaemonIInv' /\ up' /\ SameFiles /\ running' = NoHandler /\ held' = held
             /\ ret' = called(otherwise)
  <2>1. 1 \in 1 .. Cardinality(Free)
    BY <1>7, FreeIsFinite, FS_EmptySet
  <2>2. NthFree(1) \in Blocks
    BY <1>1, <2>1, FreeBlocksAreData, NoDataBlockZero
  <2>3. used \subseteq used' /\ used' \subseteq Blocks /\ home' = home /\ disk' = disk
    BY <1>1, <1>7, <2>2 DEF IInv, TypeOK
  <2>4. up' \in BOOLEAN /\ held' \in Handles /\ held' = held
    BY <1>1, <1>7 DEF Reply
  <2>5. IInv' /\ SameFiles
    BY <1>1, <2>3, <2>4, DeviceSame DEF SameFiles
  <2>6. DaemonIInv' /\ up' /\ running' = NoHandler /\ ret' = called(otherwise)
    BY <1>1, <1>7, <2>4, <2>5, Answered
  <2>7. QED
    BY <2>4, <2>5, <2>6
<1>8. ASSUME ~finds(parent, name), Free # {}, FreeIds # {},
             used' = Allocated(type).used, home' = Allocated(type).home,
             disk' = Allocated(type).disk, GoesOn(op, parent, name, Allocated(type).id)
      PROVE  /\ DaemonIInv'
             /\ \E id \in InodeIds \ Live :
                  /\ up' /\ held' = held /\ ret' = ret
                  /\ running' = InHand(op, parent, name, id)
                  /\ \A e \in EntriesIn(text) : e[1] # name
                  /\ Live' = Live \cup {id}
                  /\ VisibleFiles' = WithNew(VisibleFiles, id, type)
  <2>1. PICK id : id = Allocated(type).id
    OBVIOUS
  <2>2. up' \in BOOLEAN
    BY <1>1, <1>8 DEF GoesOn
  <2>3. /\ IInv'
        /\ Allocated(type).id \in InodeIds \ Live
        /\ Live' = Live \cup {Allocated(type).id}
        /\ VisibleFiles' = [VisibleFiles EXCEPT ![Allocated(type).id] =
                              IF Allocated(type).id < MaxInodes - 1
                                THEN [type |-> type, content |-> <<>>] ELSE Stale]
    BY <1>1, <1>8, <2>2, DeviceCreated
  <2>4. id \in InodeIds /\ GoesOn(op, parent, name, id) /\ op \in {"mknod", "mkdir", "unlink"}
    BY <1>8, <2>1, <2>3
  <2>5. /\ DaemonIInv' /\ up' /\ running' = InHand(op, parent, name, id)
        /\ ret' = ret /\ held' = held
    BY <1>1, <1>2, <2>3, <2>4, WentOn
  <2>6. \A e \in EntriesIn(text) : e[1] # name
    BY <1>3, <1>8
  <2>7. /\ id \in InodeIds \ Live /\ Live' = Live \cup {id}
        /\ VisibleFiles' = WithNew(VisibleFiles, id, type)
    BY <2>1, <2>3 DEF WithNew
  <2>8. QED
    BY <2>5, <2>6, <2>7
<1>9. CASE finds(parent, name) /\ Reply(c, called("EEXIST")) /\ Unchanged
  BY <1>5, <1>9 DEF text, called, CreateDone
<1>10. CASE ~finds(parent, name) /\ Free = {} /\ Dies(called("EXCEPTION"))
  BY <1>6, <1>10 DEF called, CreateDone
<1>11. CASE /\ ~finds(parent, name) /\ Free # {} /\ FreeIds = {}
            /\ used' = used \cup {NthFree(1)}
            /\ Reply(c, called(otherwise)) /\ UNCHANGED <<home, disk, held>>
  BY <1>7, <1>11 DEF called, CreateDone
<1>12. CASE /\ ~finds(parent, name) /\ Free # {} /\ FreeIds # {}
            /\ used' = Allocated(type).used
            /\ home' = Allocated(type).home
            /\ disk' = Allocated(type).disk
            /\ GoesOn(op, parent, name, Allocated(type).id)
  BY <1>8, <1>12 DEF text, CreateDone
<1>13. QED
  BY <1>4, <1>9, <1>10, <1>11, <1>12

(* Its second call: the entry is written, and the new inode read back.      *)
LEMMA NameEffect ==
  ASSUME DaemonIInv, NEW c \in Clients, NEW op \in {"mknod", "mkdir"}, NEW type,
         NEW otherwise, mk_helper_names(c, op, type, otherwise)
  PROVE  LET parent == running.parent
             text == VisibleFiles[parent].content
             called(code) == Call(op, parent, running.id, running.name, code)
         IN /\ DaemonIInv' /\ up' /\ running' = NoHandler /\ Live' = Live
            /\ running.op = op
            /\ \/ ret' = called(otherwise) /\ SameFiles /\ held' = held
               \/ /\ VisibleFiles[parent] # Stale
                  /\ VisibleFiles' =
                       [VisibleFiles EXCEPT ![parent].content =
                          append_to_directory(text, running.name, running.id)]
                  /\ \/ /\ ret' = called("OK") /\ VisibleFiles[running.id] # Stale
                        /\ held' = IF type = "Directory" THEN GivenUp(running.id)
                                                         ELSE Opened(c, running.id)
                     \/ /\ ret' = called("ERANGE") /\ VisibleFiles[running.id] = Stale
                        /\ held' = held
<1> DEFINE parent == running.parent
           text == VisibleFiles[parent].content
           called(code) == Call(op, parent, running.id, running.name, code)
<1>1. PICK new : new = append_to_directory(read_file(parent), running.name, running.id)
  OBVIOUS
<1>2. /\ IInv /\ held \in Handles /\ up /\ queue # <<>> /\ up \in BOOLEAN
      /\ running.op = op
  BY DEF DaemonIInv, mk_helper_names, Resumes, IInv, TypeOK
<1>3. parent \in InodeIds /\ running.id \in InodeIds /\ running.name \in Names
  <2>1. running.op \in {"mknod", "mkdir", "unlink"}
    BY <1>2
  <2>2. QED
    BY <2>1, RunningTyped
<1>4. /\ Readable(parent) <=> VisibleFiles[parent] # Stale
      /\ Readable(parent) => text = read_file(parent) /\ text \in Seq(Cells)
      /\ Readable(running.id) <=> VisibleFiles[running.id] # Stale
  <2> HIDE DEF parent
  <2>1. QED
    BY <1>2, <1>3, Visible
<1>5. Readable(parent) =>
        /\ new \in Seq(Cells)
        /\ new = append_to_directory(text, running.name, running.id)
  <2>1. running.name \o <<running.id>> \in Cells
    BY <1>3, TextAssumption
  <2>2. QED
    BY <1>1, <1>4, <2>1 DEF append_to_directory
<1>6. /\ used' = write_file(parent, new).used /\ disk' = write_file(parent, new).disk
      /\ home' = home
      /\ \/ /\ write_file(parent, new).code # "OK"
            /\ Reply(c, called(otherwise)) /\ held' = held
         \/ /\ write_file(parent, new).code = "OK" /\ Readable(running.id)
            /\ Reply(c, called("OK"))
            /\ held' = IF type = "Directory" THEN GivenUp(running.id)
                                             ELSE Opened(c, running.id)
         \/ /\ write_file(parent, new).code = "OK" /\ ~Readable(running.id)
            /\ Reply(c, called("ERANGE")) /\ held' = held
  BY <1>1 DEF mk_helper_names, Created
<1> HIDE DEF parent, text, called
<1>7. held' \in Handles /\ up' \in BOOLEAN
  <2>1. GivenUp(running.id) \in Handles /\ Opened(c, running.id) \in Handles
    BY <1>2, <1>3, GivenUpTyped, OpenedTyped
  <2>2. QED
    BY <1>2, <1>6, <2>1 DEF Reply
<1>8. /\ IInv' /\ Live' = Live
      /\ IF write_file(parent, new).code = "OK"
           THEN /\ Readable(parent)
                /\ VisibleFiles' = [VisibleFiles EXCEPT ![parent].content = new]
           ELSE VisibleFiles' = VisibleFiles
  <2>1. /\ used' = write_file(parent, new).used /\ disk' = write_file(parent, new).disk
        /\ home' = home
    BY <1>6
  <2>2. Readable(parent) => new \in Seq(Cells)
    BY <1>5
  <2>3. QED
    BY <1>2, <1>3, <1>7, <2>1, <2>2, DeviceWritten
<1>9. ASSUME NEW call, Reply(c, call)
      PROVE  DaemonIInv' /\ up' /\ running' = NoHandler /\ ret' = call
  BY <1>2, <1>7, <1>8, <1>9, Answered
<1>10. CASE /\ write_file(parent, new).code # "OK"
            /\ Reply(c, called(otherwise)) /\ held' = held
  <2>1. DaemonIInv' /\ up' /\ running' = NoHandler /\ ret' = called(otherwise)
    BY <1>9, <1>10
  <2>2. SameFiles
    BY <1>8, <1>10 DEF SameFiles
  <2>3. QED
    BY <1>2, <1>8, <1>10, <2>1, <2>2 DEF called, parent
<1>11. CASE /\ write_file(parent, new).code = "OK" /\ Readable(running.id)
            /\ Reply(c, called("OK"))
            /\ held' = IF type = "Directory" THEN GivenUp(running.id)
                                             ELSE Opened(c, running.id)
  <2>1. DaemonIInv' /\ up' /\ running' = NoHandler /\ ret' = called("OK")
    BY <1>9, <1>11
  <2>2. /\ VisibleFiles[parent] # Stale /\ VisibleFiles[running.id] # Stale
        /\ VisibleFiles' = [VisibleFiles EXCEPT ![parent].content =
                              append_to_directory(text, running.name, running.id)]
    BY <1>4, <1>5, <1>8, <1>11
  <2>3. QED
    BY <1>2, <1>8, <1>11, <2>1, <2>2 DEF called, parent, text
<1>12. CASE /\ write_file(parent, new).code = "OK" /\ ~Readable(running.id)
            /\ Reply(c, called("ERANGE")) /\ held' = held
  <2>1. DaemonIInv' /\ up' /\ running' = NoHandler /\ ret' = called("ERANGE")
    BY <1>9, <1>12
  <2>2. /\ VisibleFiles[parent] # Stale /\ VisibleFiles[running.id] = Stale
        /\ VisibleFiles' = [VisibleFiles EXCEPT ![parent].content =
                              append_to_directory(text, running.name, running.id)]
    BY <1>4, <1>5, <1>8, <1>12
  <2>3. QED
    BY <1>2, <1>8, <1>12, <2>1, <2>2 DEF called, parent, text
<1>13. QED
  BY <1>6, <1>10, <1>11, <1>12

(* An unlink finds no file, or dies, or it has removed the file.            *)
LEMMA UnlinkEffect ==
  ASSUME DaemonIInv, NEW c \in Clients, Reads(c),
         NEW parent \in Directories, NEW name \in Names, chfs_unlink(c, parent, name)
  PROVE  LET text == VisibleFiles[parent].content
             called(id, code) == Call("unlink", parent, id, name, code)
         IN /\ DaemonIInv'
            /\ \/ /\ up' /\ SameFiles /\ running' = NoHandler /\ held' = held
                  /\ ret' = called(0, "ENOENT")
                  /\ \A e \in EntriesIn(text) : e[1] # name
               \/ \E id :
                    /\ <<name, id>> \in EntriesIn(text)
                    /\ \/ /\ up' /\ SameFiles /\ running' = NoHandler /\ held' = held
                          /\ ret' = called(id, "ENOSYS")
                          /\ id \in InodeIds => VisibleFiles[id] = Stale
                       \/ /\ up' /\ SameFiles /\ running' = NoHandler /\ held' = held
                          /\ ret' = called(id, "ENOTEMPTY")
                          /\ id \in InodeIds /\ IsDir(VisibleFiles[id])
                       \/ /\ ~up' /\ held' = [k \in Clients |-> NoHandle] /\ NoFileThere'
                          /\ running' = NoHandler
                          /\ ret' = called(id, "SEGV")
                          /\ id = lookup(parent, name) /\ HasIndirect(id)
                       \/ /\ up' /\ held' = held /\ ret' = ret
                          /\ id \in InodeIds /\ VisibleFiles[id] # Stale
                          /\ ~IsDir(VisibleFiles[id])
                          /\ running' = InHand("unlink", parent, name, id)
                          /\ Live' = Live \ {id}
                          /\ VisibleFiles' = [VisibleFiles EXCEPT ![id] = Stale]
<1> DEFINE text == VisibleFiles[parent].content
           called(i, code) == Call("unlink", parent, i, name, code)
<1>1. PICK id : id = lookup(parent, name)
  OBVIOUS
<1>2. IInv /\ held \in Handles /\ up /\ queue # <<>> /\ up \in BOOLEAN
  BY DEF DaemonIInv, Reads, IInv, TypeOK
<1>3. parent \in InodeIds /\ Readable(parent)
  BY DirectoriesAreIds
<1>4. /\ finds(parent, name) <=> \E e \in EntriesIn(text) : e[1] = name
      /\ finds(parent, name) => <<name, id>> \in EntriesIn(text)
  BY <1>1, <1>2, <1>3, VisibleEntries
<1>5. Readable(id) => id \in InodeIds
  BY DEF Readable
<1>6. id \in InodeIds => /\ Readable(id) <=> VisibleFiles[id] # Stale
                         /\ IsDirectory(id) <=> IsDir(VisibleFiles[id])
  BY <1>2, Visible
<1>7. \/ ~finds(parent, name) /\ Reply(c, called(0, "ENOENT")) /\ Unchanged
      \/ /\ finds(parent, name) /\ ~Readable(id)
         /\ Reply(c, called(id, "ENOSYS")) /\ Unchanged
      \/ /\ finds(parent, name) /\ IsDirectory(id)
         /\ Reply(c, called(id, "ENOTEMPTY")) /\ Unchanged
      \/ /\ finds(parent, name) /\ Readable(id) /\ HasIndirect(id)
         /\ Dies(called(id, "SEGV"))
      \/ /\ finds(parent, name) /\ Readable(id) /\ ~IsDirectory(id) /\ ~HasIndirect(id)
         /\ used' = Removed(id).used
         /\ home' = Removed(id).home
         /\ disk' = Removed(id).disk
         /\ IF Removed(id).code = "OK" THEN GoesOn("unlink", parent, name, id)
              ELSE Reply(c, called(id, "ENOSYS"))
  <2>1. \/ ~finds(parent, name)
        \/ finds(parent, name) /\ ~Readable(id)
        \/ finds(parent, name) /\ IsDirectory(id)
        \/ finds(parent, name) /\ Readable(id) /\ ~IsDirectory(id) /\ HasIndirect(id)
        \/ finds(parent, name) /\ Readable(id) /\ ~IsDirectory(id) /\ ~HasIndirect(id)
    OBVIOUS
  <2>2. IsDirectory(id) => Readable(id)
    BY DEF IsDirectory
  <2> HIDE DEF text
  <2>3. QED
    BY <1>1, <2>1, <2>2 DEF chfs_unlink
<1> HIDE DEF text, called
<1>8. ASSUME NEW call, Reply(c, call), Unchanged
      PROVE  /\ DaemonIInv' /\ up' /\ SameFiles /\ running' = NoHandler /\ held' = held
             /\ ret' = call
  <2>1. UNCHANGED <<used, home, disk>> /\ held' = held /\ held' \in Handles
    BY <1>2, <1>8 DEF Unchanged
  <2>2. up' \in BOOLEAN
    BY <1>2, <1>8 DEF Reply
  <2>3. IInv' /\ SameFiles
    BY <1>2, <2>1, <2>2, NothingDone
  <2>4. DaemonIInv' /\ up' /\ running' = NoHandler /\ ret' = call
    BY <1>2, <1>8, <2>1, <2>3, Answered
  <2>5. QED
    BY <2>1, <2>3, <2>4
<1>9. CASE ~finds(parent, name) /\ Reply(c, called(0, "ENOENT")) /\ Unchanged
  <2>1. /\ DaemonIInv' /\ up' /\ SameFiles /\ running' = NoHandler /\ held' = held
        /\ ret' = called(0, "ENOENT")
    BY <1>8, <1>9
  <2>2. QED
    BY <1>4, <1>9, <2>1 DEF text, called
<1>10. CASE /\ finds(parent, name) /\ ~Readable(id)
            /\ Reply(c, called(id, "ENOSYS")) /\ Unchanged
  <2>1. /\ DaemonIInv' /\ up' /\ SameFiles /\ running' = NoHandler /\ held' = held
        /\ ret' = called(id, "ENOSYS")
    BY <1>8, <1>10
  <2>2. QED
    BY <1>4, <1>6, <1>10, <2>1 DEF text, called
<1>11. CASE /\ finds(parent, name) /\ IsDirectory(id)
            /\ Reply(c, called(id, "ENOTEMPTY")) /\ Unchanged
  <2>1. /\ DaemonIInv' /\ up' /\ SameFiles /\ running' = NoHandler /\ held' = held
        /\ ret' = called(id, "ENOTEMPTY")
    BY <1>8, <1>11
  <2>2. id \in InodeIds /\ IsDir(VisibleFiles[id])
    BY <1>5, <1>6, <1>11 DEF IsDirectory
  <2>3. QED
    BY <1>4, <1>11, <2>1, <2>2 DEF text, called
<1>12. CASE /\ finds(parent, name) /\ Readable(id) /\ HasIndirect(id)
            /\ Dies(called(id, "SEGV"))
  <2>1. /\ DaemonIInv' /\ NoFileThere' /\ ~up' /\ running' = NoHandler
        /\ held' = [k \in Clients |-> NoHandle] /\ ret' = called(id, "SEGV")
    BY <1>12, Died
  <2>2. QED
    BY <1>1, <1>4, <1>12, <2>1 DEF text, called
<1>13. CASE /\ finds(parent, name) /\ Readable(id) /\ ~IsDirectory(id) /\ ~HasIndirect(id)
            /\ used' = Removed(id).used
            /\ home' = Removed(id).home
            /\ disk' = Removed(id).disk
            /\ IF Removed(id).code = "OK" THEN GoesOn("unlink", parent, name, id)
                 ELSE Reply(c, called(id, "ENOSYS"))
  <2>1. id \in InodeIds
    BY <1>5, <1>13
  <2>2. up' \in BOOLEAN
    BY <1>2, <1>13 DEF GoesOn, Reply
  <2>3. /\ IInv' /\ Removed(id).code = "OK" /\ Live' = Live \ {id}
        /\ VisibleFiles' = [VisibleFiles EXCEPT ![id] = Stale]
    BY <1>2, <1>13, <2>1, <2>2, DeviceRemoved
  <2>4. GoesOn("unlink", parent, name, id)
    BY <1>13, <2>3
  <2>5. /\ DaemonIInv' /\ up' /\ running' = InHand("unlink", parent, name, id)
        /\ ret' = ret /\ held' = held
    BY <1>2, <1>3, <2>1, <2>3, <2>4, WentOn
  <2>6. VisibleFiles[id] # Stale /\ ~IsDir(VisibleFiles[id])
    BY <1>6, <1>13, <2>1
  <2>7. QED
    BY <1>4, <1>13, <2>1, <2>3, <2>5, <2>6 DEF text
<1>14. QED
  BY <1>7, <1>9, <1>10, <1>11, <1>12, <1>13

(* Its second call: the rest of the directory is no longer than the text,   *)
(* and is always written.                                                   *)
LEMMA RewriteEffect ==
  ASSUME DaemonIInv, NEW c \in Clients, chfs_unlink_rewrites(c)
  PROVE  LET parent == running.parent
             text == VisibleFiles[parent].content
             called(code) == Call("unlink", parent, running.id, running.name, code)
         IN /\ DaemonIInv' /\ up' /\ running' = NoHandler /\ Live' = Live
            /\ running.op = "unlink"
            /\ VisibleFiles[parent] # Stale =>
                 /\ ret' = called("OK") /\ held' = Marked(held, running.id)
                 /\ VisibleFiles' =
                      [VisibleFiles EXCEPT ![parent].content =
                         rm_from_directory(text, running.name, InodeIds)]
<1> DEFINE parent == running.parent
           text == VisibleFiles[parent].content
           called(code) == Call("unlink", parent, running.id, running.name, code)
<1>1. PICK new : new = rm_from_directory(read_file(parent), running.name, InodeIds)
  OBVIOUS
<1>2. /\ IInv /\ held \in Handles /\ up /\ queue # <<>> /\ up \in BOOLEAN
      /\ running.op = "unlink"
  BY DEF DaemonIInv, chfs_unlink_rewrites, Resumes, IInv, TypeOK
<1>3. parent \in InodeIds /\ running.id \in InodeIds
  <2>1. running.op \in {"mknod", "mkdir", "unlink"}
    BY <1>2
  <2>2. QED
    BY <2>1, RunningTyped
<1>4. /\ Readable(parent) <=> VisibleFiles[parent] # Stale
      /\ Readable(parent) => /\ text = read_file(parent) /\ text \in Seq(Cells)
                             /\ Len(text) = InodeOf(parent).size
                             /\ InodeOf(parent).size \in Nat
  <2> HIDE DEF parent
  <2>1. QED
    BY <1>2, <1>3, Visible
<1>5. Readable(parent) =>
        /\ new \in Seq(Cells) /\ Len(new) \in 0 .. Len(text)
        /\ new = rm_from_directory(text, running.name, InodeIds)
  <2> HIDE DEF text, parent
  <2>1. QED
    BY <1>1, <1>4, RewrittenText
<1>6. /\ used' = write_file(parent, new).used /\ disk' = write_file(parent, new).disk
      /\ home' = home
      /\ IF write_file(parent, new).code = "OK"
           THEN Reply(c, called("OK")) /\ held' = Marked(held, running.id)
           ELSE Reply(c, called("ENOSYS")) /\ held' = held
  BY <1>1 DEF chfs_unlink_rewrites, Marked
<1> HIDE DEF parent, text, called
<1>7. held' \in Handles /\ up' \in BOOLEAN
  <2>1. Marked(held, running.id) \in Handles
    BY <1>2, <1>3 DEF Marked, Handles, Handle
  <2>2. QED
    BY <1>2, <1>6, <2>1 DEF Reply
<1>8. /\ IInv' /\ Live' = Live
      /\ IF write_file(parent, new).code = "OK"
           THEN /\ Readable(parent)
                /\ VisibleFiles' = [VisibleFiles EXCEPT ![parent].content = new]
           ELSE VisibleFiles' = VisibleFiles
  <2>1. /\ used' = write_file(parent, new).used /\ disk' = write_file(parent, new).disk
        /\ home' = home
    BY <1>6
  <2>2. Readable(parent) => new \in Seq(Cells)
    BY <1>5
  <2>3. QED
    BY <1>2, <1>3, <1>7, <2>1, <2>2, DeviceWritten
<1>9. ASSUME NEW call, Reply(c, call)
      PROVE  DaemonIInv' /\ up' /\ running' = NoHandler /\ ret' = call
  BY <1>2, <1>7, <1>8, <1>9, Answered
<1>10. DaemonIInv' /\ up' /\ running' = NoHandler
  BY <1>6, <1>9
<1>11. ASSUME VisibleFiles[parent] # Stale
       PROVE  /\ ret' = called("OK") /\ held' = Marked(held, running.id)
              /\ VisibleFiles' =
                   [VisibleFiles EXCEPT ![parent].content =
                      rm_from_directory(text, running.name, InodeIds)]
  <2>1. Readable(parent)
    BY <1>4, <1>11
  <2>2. Len(new) <= InodeOf(parent).size /\ new \in Seq(Cells)
    BY <1>4, <1>5, <2>1
  <2>3. write_file(parent, new).code = "OK"
    BY <1>2, <1>3, <2>1, <2>2, ShorterFits
  <2>4. Reply(c, called("OK")) /\ held' = Marked(held, running.id)
    BY <1>6, <2>3
  <2>5. ret' = called("OK")
    BY <1>9, <2>4
  <2>6. QED
    BY <1>5, <1>8, <2>1, <2>3, <2>4, <2>5
<1>12. QED
  BY <1>2, <1>8, <1>10, <1>11 DEF parent, text, called

-----------------------------------------------------------------------------
(* The other steps. *)

LEMMA MountEffect ==
  ASSUME DaemonIInv, bootstrap_fuse
  PROVE  /\ DaemonIInv' /\ up' /\ running' = NoHandler
         /\ held' = [k \in Clients |-> NoHandle]
         /\ ret' = Call("mount", Root, 0, <<>>, "OK")
         /\ Live' = {Root} /\ NoFileThere
         /\ VisibleFiles' =
              [id \in InodeIds |-> IF id = Root THEN [type |-> "Directory", content |-> <<>>]
                                                ELSE Stale]
<1>1. /\ ~up /\ JustFormatted /\ IInv
      /\ queue = <<>> /\ waiting = {} /\ held = [c \in Clients |-> NoHandle]
      /\ running = NoHandler
  BY DEF DaemonIInv, ShutDown, bootstrap_fuse
<1>2. NoFileThere
  BY <1>1, FormattedDevice
<1>3. Live = {} /\ VisibleFiles = [id \in InodeIds |-> Stale]
  BY <1>2 DEF NoFileThere
<1>4. FreeIds # {}
  BY <1>3, LayoutAssumption DEF FreeIds, Live, InodeIds
<1>5. Free # {}
  <2>1. NReserved \in Blocks /\ NReserved \notin Reserved
    BY LayoutAssumption, DaemonAssumption DEF Blocks, Reserved
  <2>2. QED
    BY <1>1, <2>1 DEF JustFormatted, Free
<1>6. /\ used' = Allocated("Directory").used
      /\ home' = Allocated("Directory").home
      /\ disk' = Allocated("Directory").disk
      /\ Allocated("Directory").id = Root
      /\ up' = TRUE /\ ret' = Call("mount", Root, 0, <<>>, "OK")
      /\ queue' = queue /\ waiting' = waiting /\ held' = held /\ running' = running
  BY DEF bootstrap_fuse, daemonVars
<1>7. "Directory" \in Types /\ Root < MaxInodes - 1
  BY DaemonAssumption
<1>8. /\ IInv'
      /\ Live' = Live \cup {Allocated("Directory").id}
      /\ Allocated("Directory").id \in InodeIds
      /\ VisibleFiles' = [VisibleFiles EXCEPT ![Allocated("Directory").id] =
                            IF Allocated("Directory").id < MaxInodes - 1
                              THEN [type |-> "Directory", content |-> <<>>] ELSE Stale]
  <2>1. up' \in BOOLEAN
    BY <1>6
  <2>2. QED
    BY <1>1, <1>4, <1>5, <1>6, <1>7, <2>1, DeviceCreated
<1>9. /\ Live' = {Root}
      /\ VisibleFiles' = [VisibleFiles EXCEPT ![Root] = [type |-> "Directory", content |-> <<>>]]
  BY <1>3, <1>6, <1>7, <1>8
<1>10. DaemonIInv'
  BY <1>1, <1>6, <1>8 DEF DaemonIInv, ShutDown
<1>11. QED
  BY <1>1, <1>2, <1>3, <1>6, <1>9, <1>10

LEMMA SendEffect ==
  ASSUME DaemonIInv, NEW c \in Clients, Send(c)
  PROVE  /\ DaemonIInv' /\ up' /\ SameFiles /\ running' = running /\ held' = held
         /\ ret' = Call("none", 0, 0, <<>>, "OK")
<1>1. /\ IInv /\ up \in BOOLEAN /\ queue \in Seq(Clients) /\ waiting \subseteq Clients
  BY DEF DaemonIInv, IInv, TypeOK
<1>2. IInv' /\ SameFiles
  BY <1>1, NothingDone DEF Send
<1>3. queue' \in Seq(Clients) /\ waiting' \subseteq Clients
  BY <1>1 DEF Send
<1>4. QED
  BY <1>2, <1>3 DEF Send, DaemonIInv, ShutDown

LEMMA StutterEffect ==
  ASSUME DaemonIInv, UNCHANGED allVars
  PROVE  /\ DaemonIInv' /\ up' = up /\ SameFiles
         /\ running' = running /\ held' = held /\ ret' = ret
<1>1. IInv /\ up' \in BOOLEAN
  BY DEF DaemonIInv, IInv, TypeOK, allVars
<1>2. IInv' /\ SameFiles
  BY <1>1, NothingDone DEF allVars
<1>3. ShutDown' /\ Handles' = Handles
  <2>1. JustFormatted' <=> JustFormatted
    BY DEF JustFormatted, allVars
  <2>2. QED
    BY <2>1 DEF DaemonIInv, ShutDown, allVars, Handles
<1>4. QED
  BY <1>2, <1>3 DEF DaemonIInv, allVars

LEMMA InitialDaemon == DaemonInit => DaemonIInv /\ NoFileThere /\ ~up
<1> SUFFICES ASSUME DaemonInit PROVE DaemonIInv /\ NoFileThere /\ ~up
  OBVIOUS
<1>1. JustFormatted /\ ~up
  BY DEF DaemonInit, JustFormatted
<1>2. NoFileThere
  BY <1>1, FormattedDevice
<1>3. held \in Handles /\ queue \in Seq(Clients) /\ waiting \subseteq Clients
  BY DEF DaemonInit, Handles
<1>4. QED
  BY <1>1, <1>2, <1>3 DEF DaemonIInv, ShutDown, NoFileThere, DaemonInit

(* A step is one of these. *)
LEMMA StepCases ==
  ASSUME [DaemonNext]_allVars
  PROVE  \/ bootstrap_fuse \/ Dies(Call("killed", 0, 0, <<>>, "ABORT")) \/ UNCHANGED allVars
         \/ \E c \in Clients :
              \/ Send(c)
              \/ mk_helper_names(c, "mknod", "FILE", "ENOENT")
              \/ mk_helper_names(c, "mkdir", "Directory", "ENOSYS")
              \/ chfs_unlink_rewrites(c)
              \/ /\ Reads(c)
                 /\ \/ \E parent \in Directories, name \in Names :
                         \/ chfs_lookup(c, parent, name) \/ chfs_unlink(c, parent, name)
                         \/ mk_helper(c, "mknod", parent, name, "FILE", "ENOENT")
                         \/ mk_helper(c, "mkdir", parent, name, "Directory", "ENOSYS")
                    \/ \E dir \in Directories : chfs_readdir(c, dir)
                    \/ \E dir \in Directories :
                         "MODE" \in Masks /\ chfs_setattr(c, dir, "MODE", 0)
                    \/ held[c] # NoHandle /\ (chfs_getattr(c) \/ chfs_open(c))
                    \/ /\ held[c] # NoHandle
                       /\ \E off \in Offsets :
                            \/ \E data \in Contents : chfs_write(c, data, off)
                            \/ chfs_read(c, BlockSize, off)
                            \/ \E mask \in Masks : chfs_setattr(c, held[c].ino, mask, off)
                    \/ Dies(Call("unimplemented", 0, 0, <<>>, "ABORT"))
<1>1. CASE bootstrap_fuse \/ Killed \/ UNCHANGED allVars
  BY <1>1 DEF Killed
<1>2. CASE \E c \in Clients : Send(c) \/ Resume(c)
  BY <1>2 DEF Resume
<1>3. CASE \E c \in Clients : Serve(c)
  <2>1. PICK c \in Clients : Serve(c)
    BY <1>3
  <2>2. Reads(c)
    BY <2>1 DEF Serve
  <2>3. CASE \E parent \in Directories, name \in Names :
               \/ chfs_lookup(c, parent, name) \/ chfs_unlink(c, parent, name)
               \/ chfs_mknod(c, parent, name) \/ chfs_mkdir(c, parent, name)
    BY <2>2, <2>3 DEF chfs_mknod, chfs_mkdir
  <2>4. CASE \E dir \in Directories : chfs_readdir(c, dir)
    BY <2>2, <2>4
  <2>5. CASE \E dir \in Directories : "MODE" \in Masks /\ chfs_setattr(c, dir, "MODE", 0)
    BY <2>2, <2>5
  <2>6. CASE held[c] # NoHandle /\ (chfs_getattr(c) \/ chfs_open(c))
    BY <2>2, <2>6
  <2>7. CASE /\ held[c] # NoHandle
             /\ \E off \in Offsets :
                  \/ \E data \in Contents : chfs_write(c, data, off)
                  \/ chfs_read(c, BlockSize, off)
                  \/ \E mask \in Masks : chfs_setattr(c, held[c].ino, mask, off)
    BY <2>2, <2>7
  <2>8. CASE Unimplemented(c)
    BY <2>2, <2>8 DEF Unimplemented
  <2>9. QED
    BY <2>1, <2>3, <2>4, <2>5, <2>6, <2>7, <2>8 DEF Serve
<1>4. QED
  BY <1>1, <1>2, <1>3 DEF DaemonNext

LEMMA DaemonNextIInv == DaemonIInv /\ [DaemonNext]_allVars => DaemonIInv'
<1> SUFFICES ASSUME DaemonIInv, [DaemonNext]_allVars PROVE DaemonIInv'
  OBVIOUS
<1>1. CASE bootstrap_fuse
  BY <1>1, MountEffect
<1>2. CASE Dies(Call("killed", 0, 0, <<>>, "ABORT"))
  BY <1>2, Died
<1>3. CASE UNCHANGED allVars
  BY <1>3, StutterEffect
<1>4. ASSUME NEW c \in Clients, Send(c)
      PROVE  DaemonIInv'
  BY <1>4, SendEffect
<1>5. ASSUME NEW c \in Clients, \/ mk_helper_names(c, "mknod", "FILE", "ENOENT")
                                \/ mk_helper_names(c, "mkdir", "Directory", "ENOSYS")
      PROVE  DaemonIInv'
  <2>1. CASE mk_helper_names(c, "mknod", "FILE", "ENOENT")
    BY <2>1, NameEffect
  <2>2. CASE mk_helper_names(c, "mkdir", "Directory", "ENOSYS")
    BY <2>2, NameEffect
  <2>3. QED
    BY <1>5, <2>1, <2>2
<1>6. ASSUME NEW c \in Clients, chfs_unlink_rewrites(c)
      PROVE  DaemonIInv'
  BY <1>6, RewriteEffect
<1>7. ASSUME NEW c \in Clients, Reads(c), NEW parent \in Directories, NEW name \in Names,
             \/ chfs_lookup(c, parent, name) \/ chfs_unlink(c, parent, name)
             \/ mk_helper(c, "mknod", parent, name, "FILE", "ENOENT")
             \/ mk_helper(c, "mkdir", parent, name, "Directory", "ENOSYS")
      PROVE  DaemonIInv'
  <2>1. CASE chfs_lookup(c, parent, name)
    BY <1>7, <2>1, LookupEffect
  <2>2. CASE chfs_unlink(c, parent, name)
    BY <1>7, <2>2, UnlinkEffect
  <2>3. "FILE" \in Types /\ "Directory" \in Types
    BY DaemonAssumption
  <2>4. CASE mk_helper(c, "mknod", parent, name, "FILE", "ENOENT")
    BY <1>7, <2>3, <2>4, CreateEffect
  <2>5. CASE mk_helper(c, "mkdir", parent, name, "Directory", "ENOSYS")
    BY <1>7, <2>3, <2>5, CreateEffect
  <2>6. QED
    BY <1>7, <2>1, <2>2, <2>4, <2>5
<1>8. ASSUME NEW c \in Clients, Reads(c), NEW dir \in Directories,
             chfs_readdir(c, dir) \/ chfs_setattr(c, dir, "MODE", 0)
      PROVE  DaemonIInv'
  <2>1. CASE chfs_readdir(c, dir)
    BY <1>8, <2>1, ReaddirEffect
  <2>2. CASE chfs_setattr(c, dir, "MODE", 0)
    <3>1. dir \in InodeIds /\ 0 \in Nat
      BY DirectoriesAreIds
    <3>2. QED
      BY <1>8, <2>2, <3>1, SetattrEffect
  <2>3. QED
    BY <1>8, <2>1, <2>2
<1>9. ASSUME NEW c \in Clients, Reads(c), held[c] # NoHandle, chfs_getattr(c) \/ chfs_open(c)
      PROVE  DaemonIInv'
  BY <1>9, GetattrEffect, OpenEffect
<1>10. ASSUME NEW c \in Clients, Reads(c), held[c] # NoHandle, NEW off \in Offsets,
              \/ \E data \in Contents : chfs_write(c, data, off)
              \/ chfs_read(c, BlockSize, off)
              \/ \E mask \in Masks : chfs_setattr(c, held[c].ino, mask, off)
       PROVE  DaemonIInv'
  <2>1. off \in Nat /\ held[c].ino \in InodeIds
    BY <1>10, HeldId, LayoutAssumption
  <2>2. CASE \E data \in Contents : chfs_write(c, data, off)
    BY <1>10, <2>2, WriteEffect
  <2>3. CASE chfs_read(c, BlockSize, off)
    BY <1>10, <2>1, <2>3, ReadEffect
  <2>4. ASSUME NEW mask \in Masks, chfs_setattr(c, held[c].ino, mask, off)
        PROVE  DaemonIInv'
    BY <1>10, <2>1, <2>4, SetattrEffect
  <2>5. QED
    BY <1>10, <2>2, <2>3, <2>4
<1>11. ASSUME Dies(Call("unimplemented", 0, 0, <<>>, "ABORT"))
       PROVE  DaemonIInv'
  BY <1>11, Died
<1>12. QED
  BY <1>1, <1>2, <1>3, <1>4, <1>5, <1>6, <1>7, <1>8, <1>9, <1>10, <1>11, StepCases

(* The daemon's state keeps its type: no handler, in whatever order requests *)
(* come and however the device fills up, leaves an inode, an entry of the   *)
(* table or an open file that is none.                                      *)
THEOREM DaemonTypeCorrect == DaemonSpec => []DaemonTypeOK
<1>1. DaemonInit => DaemonIInv
  BY InitialDaemon
<1>2. DaemonIInv /\ [DaemonNext]_allVars => DaemonIInv'
  BY DaemonNextIInv
<1>3. DaemonIInv => DaemonTypeOK
  BY DaemonTyped
<1>4. QED
  BY <1>1, <1>2, <1>3, PTL DEF DaemonSpec

-----------------------------------------------------------------------------
(* The names.  V is what clients see of the inodes, L the ids in use, r the *)
(* handler between its calls and h the open files; none of them is a state. *)

(* The entries of a directory, without the one an unlink is about to take   *)
(* out; and those of all.                                                   *)
Entered(V, r, d) ==
  IF IsDir(V[d])
    THEN EntriesIn(V[d].content) \ {e \in {<<r.name, r.id>>} : r.op = "unlink" /\ d = r.parent}
    ELSE {}

Tree(V, r) == [d \in InodeIds |-> Entered(V, r, d)]

MentionedIn(T, id) == \E d \in InodeIds : \E e \in T[d] : e[2] = id

Reached(T, d) == d = Root \/ MentionedIn(T, d)

(* What is there is a file or a directory of an id in use. *)
FilesInv(V, L) ==
  /\ V = [id \in InodeIds |-> V[id]]
  /\ IsDir(V[Root])
  /\ \A id \in InodeIds : V[id] # Stale =>
       /\ id \in L /\ V[id] = [type |-> V[id].type, content |-> V[id].content]
       /\ V[id].type \in {"FILE", "Directory"}
       /\ V[id].content \in Seq(Cells)

(* Names are names of ids in use; no two entries share an id, and no two of *)
(* a directory a name; only directories that can be reached have any.       *)
TreeInv(T, L) ==
  /\ \A d \in InodeIds : \A e \in T[d] : e[2] \in L /\ e[1] \in Names /\ e = <<e[1], e[2]>>
  /\ \A d, f \in InodeIds : \A e \in T[d], g \in T[f] :
       e[2] = g[2] \/ (d = f /\ e[1] = g[1]) => d = f /\ e = g
  /\ \A d \in InodeIds : ~Reached(T, d) => T[d] = {}
  /\ ~MentionedIn(T, Root)

(* A handler in hand has a directory that can be reached and lacks the name;*)
(* what it created is empty and nothing leads to it, what it removed is     *)
(* free.                                                                    *)
HandlerInv(V, T, L, r) ==
  r # NoHandler =>
    /\ IsDir(V[r.parent]) /\ Reached(T, r.parent)
    /\ \A e \in T[r.parent] : e[1] # r.name
    /\ r.op \in {"mknod", "mkdir"} =>
         /\ r.id \in L /\ r.id # r.parent /\ ~Reached(T, r.id)
         /\ V[r.id] # Stale =>
              V[r.id] = [type |-> IF r.op = "mknod" THEN "FILE" ELSE "Directory",
                         content |-> <<>>]
    /\ r.op = "unlink" => r.id \notin L

(* An open file that was not unlinked, nor is about to be, is a file that a *)
(* name leads to; an id that came back as a directory's has no name.        *)
HandleInv(V, T, r, handle) ==
  /\ handle.ino # Root
  /\ IsDir(V[handle.ino]) => ~MentionedIn(T, handle.ino)
  /\ ~handle.unlinked /\ ~(r.op = "unlink" /\ handle.ino = r.id) =>
       /\ V[handle.ino] # Stale /\ V[handle.ino].type = "FILE"
       /\ \E d \in InodeIds : Reached(T, d) /\ \E e \in T[d] : e[2] = handle.ino

HeldInv(V, T, r, h) == \A c \in Clients : h[c] # NoHandle => HandleInv(V, T, r, h[c])

Consistent(V, L, r, h) ==
  /\ FilesInv(V, L) /\ TreeInv(Tree(V, r), L)
  /\ HandlerInv(V, Tree(V, r), L, r) /\ HeldInv(V, Tree(V, r), r, h)

(* Fewer open files. *)
LEMMA FewerHeld ==
  ASSUME NEW V, NEW L, NEW r, NEW h, NEW h2, Consistent(V, L, r, h),
         \A c \in Clients : h2[c] \in {h[c], NoHandle}
  PROVE  Consistent(V, L, r, h2)
BY DEF Consistent, HeldInv

(* One more. *)
LEMMA OneMoreHeld ==
  ASSUME NEW V, NEW L, NEW r, NEW h, NEW h2, Consistent(V, L, r, h),
         NEW handle, HandleInv(V, Tree(V, r), r, handle),
         \A c \in Clients : h2[c] \in {h[c], NoHandle, handle}
  PROVE  Consistent(V, L, r, h2)
BY DEF Consistent, HeldInv

(* One entry more in a directory, or one less. *)
Adds(T, T2, dir, name, id) ==
  \A d \in InodeIds : T2[d] = IF d = dir THEN T[d] \cup {<<name, id>>} ELSE T[d]

Drops(T, T2, dir, name, id) ==
  \A d \in InodeIds : T2[d] = IF d = dir THEN T[d] \ {<<name, id>>} ELSE T[d]

(* What the tree loses with an entry: nothing else. *)
LosesOne(T, T2, dir, name, id) ==
  /\ \A d \in InodeIds : T2[d] \subseteq T[d]
  /\ \A d \in InodeIds : Reached(T, d) /\ d # id => Reached(T2, d)
  /\ \A d \in InodeIds : \A e \in T[d] : e[2] # id => e \in T2[d] /\ d # id
  /\ \A e \in T2[dir] : e[1] # name

LEMMA TreeGrows ==
  ASSUME NEW T, NEW L, NEW L2, TreeInv(T, L), L \subseteq L2,
         NEW parent \in InodeIds, NEW name \in Names, NEW id \in L2,
         Reached(T, parent), ~Reached(T, id), \A e \in T[parent] : e[1] # name,
         NEW T2, Adds(T, T2, parent, name, id)
  PROVE  TreeInv(T2, L2)
<1> DEFINE new == <<name, id>>
<1>1. new[1] = name /\ new[2] = id /\ new = <<new[1], new[2]>>
  OBVIOUS
<1> HIDE DEF new
<1>2. \A d \in InodeIds : \A e \in T2[d] : e \in T[d] \/ (d = parent /\ e = new)
  BY DEF new, Adds
<1>3. \A d \in InodeIds : \A e \in T[d] : e \in T2[d] /\ e[2] # id
  BY DEF Reached, MentionedIn, Adds
<1>4. \A d \in InodeIds : Reached(T, d) => Reached(T2, d)
  BY <1>3 DEF Reached, MentionedIn
<1>5. \A d \in InodeIds : \A e \in T2[d] : e[2] \in L2 /\ e[1] \in Names /\ e = <<e[1], e[2]>>
  BY <1>1, <1>2 DEF TreeInv
<1>6. ASSUME NEW d \in InodeIds, NEW f \in InodeIds, NEW e \in T2[d], NEW g \in T2[f],
             e[2] = g[2] \/ (d = f /\ e[1] = g[1])
      PROVE  d = f /\ e = g
  <2>1. CASE e \in T[d] /\ g \in T[f]
    BY <1>6, <2>1 DEF TreeInv
  <2>2. CASE e \in T[d] /\ f = parent /\ g = new
    BY <1>1, <1>3, <1>6, <2>2
  <2>3. CASE d = parent /\ e = new /\ g \in T[f]
    BY <1>1, <1>3, <1>6, <2>3
  <2>4. CASE d = parent /\ e = new /\ f = parent /\ g = new
    BY <2>4
  <2>5. QED
    BY <1>2, <2>1, <2>2, <2>3, <2>4
<1>7. \A d \in InodeIds : ~Reached(T2, d) => T2[d] = {}
  BY <1>4 DEF TreeInv, Adds
<1>8. ~MentionedIn(T2, Root)
  BY <1>1, <1>2 DEF TreeInv, MentionedIn, Reached
<1>9. QED
  BY <1>5, <1>6, <1>7, <1>8 DEF TreeInv

LEMMA TreeShrinks ==
  ASSUME NEW T, NEW L, TreeInv(T, L),
         NEW parent \in InodeIds, NEW name, NEW id \in InodeIds,
         <<name, id>> \in T[parent], T[id] = {},
         NEW T2, Drops(T, T2, parent, name, id)
  PROVE  TreeInv(T2, L \ {id}) /\ LosesOne(T, T2, parent, name, id)
<1> DEFINE old == <<name, id>>
<1>1. old[1] = name /\ old[2] = id /\ old \in T[parent]
  OBVIOUS
<1>2. \A d \in InodeIds : T2[d] = IF d = parent THEN T[d] \ {old} ELSE T[d]
  BY DEF Drops
<1> HIDE DEF old
<1>3. \A d \in InodeIds : T2[d] \subseteq T[d]
  BY <1>2
<1>4. \A d \in InodeIds : \A e \in T[d] : e[2] # id => e \in T2[d] /\ d # id
  BY <1>1, <1>2
<1>5. \A d \in InodeIds : \A e \in T2[d] : e[2] # id
  <2> SUFFICES ASSUME NEW d \in InodeIds, NEW e \in T2[d], e[2] = id PROVE FALSE
    OBVIOUS
  <2>1. e \in T[d]
    BY <1>3
  <2>2. d = parent /\ e = old
    BY <1>1, <2>1 DEF TreeInv
  <2>3. QED
    BY <1>2, <2>2
<1>6. \A d \in InodeIds : Reached(T, d) /\ d # id => Reached(T2, d)
  BY <1>4 DEF Reached, MentionedIn
<1>7. \A e \in T2[parent] : e[1] # name
  <2> SUFFICES ASSUME NEW e \in T2[parent], e[1] = name PROVE FALSE
    OBVIOUS
  <2>1. e \in T[parent]
    BY <1>3
  <2>2. e = old
    BY <1>1, <2>1 DEF TreeInv
  <2>3. QED
    BY <1>2, <2>2
<1>8. \A d \in InodeIds : \A e \in T2[d] : e[2] \in L \ {id} /\ e[1] \in Names /\ e = <<e[1], e[2]>>
  BY <1>3, <1>5 DEF TreeInv
<1>9. \A d, f \in InodeIds : \A e \in T2[d], g \in T2[f] :
        e[2] = g[2] \/ (d = f /\ e[1] = g[1]) => d = f /\ e = g
  BY <1>3 DEF TreeInv
<1>10. \A d \in InodeIds : ~Reached(T2, d) => T2[d] = {}
  <2> SUFFICES ASSUME NEW d \in InodeIds, ~Reached(T2, d) PROVE T2[d] = {}
    OBVIOUS
  <2>1. CASE d = id
    BY <1>3, <2>1
  <2>2. CASE d # id
    BY <1>3, <1>6, <2>2 DEF TreeInv
  <2>3. QED
    BY <2>1, <2>2
<1>11. ~MentionedIn(T2, Root)
  BY <1>3 DEF TreeInv, MentionedIn
<1>12. QED
  BY <1>3, <1>4, <1>6, <1>7, <1>8, <1>9, <1>10, <1>11 DEF TreeInv, LosesOne

(* What is in a directory, when no unlink is rewriting it. *)
LEMMA AllEntered ==
  ASSUME NEW V, NEW r, NEW d, r.op # "unlink" \/ d # r.parent
  PROVE  Entered(V, r, d) = IF IsDir(V[d]) THEN EntriesIn(V[d].content) ELSE {}
BY DEF Entered

LEMMA AllInTree ==
  ASSUME NEW V, NEW r, NEW d \in InodeIds, r.op # "unlink" \/ d # r.parent
  PROVE  Tree(V, r)[d] = IF IsDir(V[d]) THEN EntriesIn(V[d].content) ELSE {}
BY AllEntered DEF Tree

OnlyContent(V, V2, id, content) ==
  /\ V2 = [i \in InodeIds |-> V2[i]]
  /\ V2[id] # Stale /\ V2[id].type = V[id].type /\ V2[id].content = content
  /\ V2[id] = [type |-> V2[id].type, content |-> V2[id].content]
  /\ \A i \in InodeIds \ {id} : V2[i] = V[i]
  /\ \A i \in InodeIds : IsDir(V2[i]) <=> IsDir(V[i])

LEMMA ContentChanged ==
  ASSUME NEW V, NEW L, FilesInv(V, L), NEW id \in InodeIds, V[id] # Stale, NEW new,
         NEW V2, V2 = WithContent(V, id, new)
  PROVE  /\ OnlyContent(V, V2, id, new)
         /\ new \in Seq(Cells) => FilesInv(V2, L)
<1>1. /\ V = [i \in InodeIds |-> V[i]]
      /\ V[id] = [type |-> V[id].type, content |-> V[id].content]
  BY DEF FilesInv
<1>2. PICK ty : V[id] = [type |-> ty, content |-> V[id].content]
  BY <1>1
<1>3. V2[id] = [type |-> ty, content |-> new]
  BY <1>1, <1>2 DEF WithContent
<1>4. V2[id] # Stale
  BY <1>3 DEF Stale
<1>5. V2 = [i \in InodeIds |-> V2[i]] /\ \A i \in InodeIds \ {id} : V2[i] = V[i]
  BY <1>1 DEF WithContent
<1>6. V[id].type = ty /\ V2[id].type = ty /\ V2[id].content = new
  BY <1>2, <1>3
<1>7. V2[id] = [type |-> V2[id].type, content |-> V2[id].content]
  BY <1>3, <1>6
<1>8. \A i \in InodeIds : IsDir(V2[i]) <=> IsDir(V[i])
  <2> SUFFICES ASSUME NEW i \in InodeIds PROVE IsDir(V2[i]) <=> IsDir(V[i])
    OBVIOUS
  <2>1. CASE i = id
    BY <1>4, <1>6, <2>1 DEF IsDir
  <2>2. CASE i # id
    BY <1>5, <2>2
  <2>3. QED
    BY <2>1, <2>2
<1>9. ASSUME new \in Seq(Cells) PROVE FilesInv(V2, L)
  <2>1. IsDir(V2[Root])
    <3>1. Root \in InodeIds
      BY DaemonAssumption, LayoutAssumption DEF InodeIds, Root
    <3>2. QED
      BY <1>8, <3>1 DEF FilesInv
  <2>2. ASSUME NEW i \in InodeIds, V2[i] # Stale
        PROVE  /\ i \in L /\ V2[i] = [type |-> V2[i].type, content |-> V2[i].content]
               /\ V2[i].type \in {"FILE", "Directory"}
               /\ V2[i].content \in Seq(Cells)
    <3>1. CASE i = id
      BY <1>6, <1>7, <1>9, <3>1 DEF FilesInv
    <3>2. CASE i # id
      <4>1. V2[i] = V[i]
        BY <1>5, <3>2
      <4>2. QED
        BY <2>2, <4>1 DEF FilesInv
    <3>3. QED
      BY <3>1, <3>2
  <2>3. QED
    BY <1>5, <2>1, <2>2 DEF FilesInv
<1>10. QED
  BY <1>4, <1>5, <1>6, <1>7, <1>8, <1>9 DEF OnlyContent

LEMMA RootIsId == Root \in InodeIds /\ Root < MaxInodes - 1
  BY DaemonAssumption, LayoutAssumption DEF InodeIds, Root

LEMMA MoreIds ==
  ASSUME NEW T, NEW L, TreeInv(T, L), NEW L2, L \subseteq L2
  PROVE  TreeInv(T, L2)
BY DEF TreeInv

(* A create has its inode: no name leads to it yet. *)
LEMMA CreatedConsistent ==
  ASSUME NEW V, NEW L, NEW h, h \in Handles, Consistent(V, L, NoHandler, h),
         NEW op \in {"mknod", "mkdir"},
         NEW type, type = IF op = "mknod" THEN "FILE" ELSE "Directory",
         NEW parent \in InodeIds, IsDir(V[parent]), Reached(Tree(V, NoHandler), parent),
         NEW name \in Names, \A e \in EntriesIn(V[parent].content) : e[1] # name,
         NEW id \in InodeIds \ L,
         NEW V2, V2 = WithNew(V, id, type)
  PROVE  /\ Consistent(V2, L \cup {id}, InHand(op, parent, name, id), h)
         /\ V[id] = Stale
<1> DEFINE r2 == InHand(op, parent, name, id)
           T == Tree(V, NoHandler)
           L2 == L \cup {id}
<1>1. r2.op = op /\ r2.parent = parent /\ r2.name = name /\ r2.id = id /\ NoHandler.op = "none"
  BY DEF InHand, NoHandler
<1> HIDE DEF r2
<1>2. FilesInv(V, L) /\ TreeInv(T, L) /\ HeldInv(V, T, NoHandler, h)
  BY DEF Consistent
<1>3. V[id] = Stale /\ parent # id /\ id # Root
  BY <1>2, RootIsId DEF FilesInv, IsDir
<1>4. /\ V2 = [i \in InodeIds |-> V2[i]]
      /\ \A i \in InodeIds \ {id} : V2[i] = V[i]
      /\ V2[id] # Stale => V2[id] = [type |-> type, content |-> <<>>]
  BY <1>2 DEF FilesInv, WithNew
<1> HIDE DEF T
<1>5. Tree(V2, r2) = T
  <2>1. ASSUME NEW d \in InodeIds PROVE Entered(V2, r2, d) = Entered(V, NoHandler, d)
    <3>1. /\ Entered(V2, r2, d) = IF IsDir(V2[d]) THEN EntriesIn(V2[d].content) ELSE {}
          /\ Entered(V, NoHandler, d) = IF IsDir(V[d]) THEN EntriesIn(V[d].content) ELSE {}
      BY <1>1, AllEntered
    <3>2. CASE d # id
      BY <1>4, <3>1, <3>2
    <3>3. CASE d = id
      <4>1. Entered(V, NoHandler, d) = {}
        BY <1>3, <3>1, <3>3 DEF IsDir
      <4>2. IsDir(V2[d]) => EntriesIn(V2[d].content) = {}
        BY <1>4, <3>3, EmptyText, NoPieceNoEntry DEF IsDir
      <4>3. QED
        BY <3>1, <4>1, <4>2
    <3>4. QED
      BY <3>2, <3>3
  <2>2. QED
    BY <2>1 DEF T, Tree
<1>6. TreeInv(T, L2)
  BY <1>2, MoreIds
<1>7. FilesInv(V2, L2)
  <2>1. IsDir(V2[Root])
    BY <1>2, <1>3, <1>4, RootIsId DEF FilesInv
  <2>2. ASSUME NEW i \in InodeIds, V2[i] # Stale
        PROVE  /\ i \in L2 /\ V2[i] = [type |-> V2[i].type, content |-> V2[i].content]
               /\ V2[i].type \in {"FILE", "Directory"}
               /\ V2[i].content \in Seq(Cells)
    <3>1. CASE i = id
      <4>1. V2[i] = [type |-> type, content |-> <<>>]
        BY <1>4, <2>2, <3>1
      <4>2. V2[i].type = type /\ V2[i].content = <<>>
        BY <4>1
      <4>3. QED
        BY <3>1, <4>1, <4>2, EmptyText
    <3>2. CASE i # id
      <4>1. V2[i] = V[i]
        BY <1>4, <3>2
      <4>2. QED
        BY <1>2, <2>2, <4>1 DEF FilesInv
    <3>3. QED
      BY <3>1, <3>2
  <2>3. QED
    BY <1>4, <2>1, <2>2 DEF FilesInv
<1>8. ~Reached(T, id)
  BY <1>2, <1>3 DEF TreeInv, Reached, MentionedIn
<1>9. HandlerInv(V2, T, L2, r2)
  <2>1. IsDir(V2[parent]) /\ Reached(T, parent)
    BY <1>3, <1>4 DEF T
  <2>2. \A e \in T[parent] : e[1] # name
    BY <1>1, AllInTree DEF T
  <2>3. QED
    BY <1>1, <1>3, <1>4, <1>8, <2>1, <2>2 DEF HandlerInv
<1>10. HeldInv(V2, T, r2, h)
  <2> SUFFICES ASSUME NEW c \in Clients, h[c] # NoHandle
               PROVE  HandleInv(V2, T, r2, h[c])
    BY DEF HeldInv
  <2>1. h[c].ino \in InodeIds
    BY DEF Handles
  <2>2. HandleInv(V, T, NoHandler, h[c])
    BY <1>2 DEF HeldInv
  <2>3. CASE h[c].ino = id
    <3>1. h[c].unlinked
      BY <1>1, <1>3, <2>2, <2>3 DEF HandleInv
    <3>2. QED
      BY <1>8, <2>2, <2>3, <3>1 DEF HandleInv, Reached
  <2>4. CASE h[c].ino # id
    BY <1>1, <1>4, <2>1, <2>2, <2>4 DEF HandleInv
  <2>5. QED
    BY <2>3, <2>4
<1>11. QED
  BY <1>3, <1>5, <1>6, <1>7, <1>9, <1>10 DEF Consistent, r2

LEMMA OperationsDiffer ==
  ASSUME NEW op \in {"mknod", "mkdir", "unlink"}, NEW parent, NEW name, NEW id
  PROVE  /\ InHand(op, parent, name, id).op = op
         /\ InHand(op, parent, name, id).parent = parent
         /\ InHand(op, parent, name, id).name = name
         /\ InHand(op, parent, name, id).id = id
         /\ InHand(op, parent, name, id) # NoHandler
         /\ NoHandler.op = "none"
BY DEF InHand, NoHandler

(* The create gives up before it writes the entry: nothing names its inode. *)
LEMMA GivenUpConsistent ==
  ASSUME NEW V, NEW L, NEW h, NEW r, Consistent(V, L, r, h), r.op # "unlink"
  PROVE  Consistent(V, L, NoHandler, h)
<1>1. NoHandler.op = "none"
  BY DEF NoHandler, InHand
<1>2. \A d \in InodeIds : Entered(V, NoHandler, d) = Entered(V, r, d)
  <2>1. ASSUME NEW d PROVE Entered(V, NoHandler, d) = Entered(V, r, d)
    BY <1>1, AllEntered
  <2>2. QED
    BY <2>1
<1>3. Tree(V, NoHandler) = Tree(V, r)
  BY <1>2 DEF Tree
<1>4. HeldInv(V, Tree(V, r), NoHandler, h)
  BY <1>1 DEF Consistent, HeldInv, HandleInv
<1>5. HandlerInv(V, Tree(V, r), L, NoHandler)
  BY DEF HandlerInv
<1>6. QED
  BY <1>3, <1>4, <1>5 DEF Consistent

(* The create has named its inode, and the client may have opened it.       *)
AfterNaming(V, op, id, h, h2) ==
  \A c \in Clients :
    IF V[id] = Stale THEN h2[c] = h[c]
    ELSE IF op = "mkdir"
      THEN h2[c] = IF h[c].ino = id THEN NoHandle ELSE h[c]
    ELSE h2[c] \in {h[c], Handle(id, FALSE)}

LEMMA NamedConsistent ==
  ASSUME PlainText, NEW V, NEW L, NEW h, h \in Handles,
         NEW op \in {"mknod", "mkdir"}, NEW parent \in InodeIds, NEW name \in Names,
         NEW id \in InodeIds, NEW r, r = InHand(op, parent, name, id),
         Consistent(V, L, r, h),
         NEW V2,
         V2 = WithContent(V, parent, append_to_directory(V[parent].content, name, id)),
         NEW h2, AfterNaming(V, op, id, h, h2)
  PROVE  /\ Consistent(V2, L, NoHandler, h2)
         /\ Adds(Tree(V, r), Tree(V2, NoHandler), parent, name, id)
<1> DEFINE T == Tree(V, r)
           T2 == Tree(V2, NoHandler)
           new == append_to_directory(V[parent].content, name, id)
<1>1. /\ r.op = op /\ r.parent = parent /\ r.name = name /\ r.id = id
      /\ r # NoHandler /\ NoHandler.op = "none" /\ op # "unlink"
  BY OperationsDiffer
<1>2. FilesInv(V, L) /\ TreeInv(T, L) /\ HeldInv(V, T, r, h) /\ HandlerInv(V, T, L, r)
  BY DEF Consistent
<1> HIDE DEF T
<1>3. /\ IsDir(V[parent]) /\ V[parent] # Stale
      /\ Reached(T, parent) /\ ~Reached(T, id) /\ id \in L
      /\ \A e \in T[parent] : e[1] # name
      /\ V[id] # Stale => V[id].type = IF op = "mknod" THEN "FILE" ELSE "Directory"
  BY <1>1, <1>2 DEF HandlerInv, IsDir
<1>4. /\ new \in Seq(Cells)
      /\ EntriesIn(new) = EntriesIn(V[parent].content) \cup {<<name, id>>}
  <2>1. V[parent].content \in Seq(Cells)
    BY <1>2, <1>3 DEF FilesInv
  <2>2. QED
    BY <2>1, Appended
<1> HIDE DEF new
<1>5. /\ V2[parent].content = new
      /\ \A i \in InodeIds \ {parent} : V2[i] = V[i]
      /\ \A i \in InodeIds : IsDir(V2[i]) <=> IsDir(V[i])
      /\ V2[parent] # Stale /\ V2[parent].type = V[parent].type
      /\ FilesInv(V2, L)
  <2>1. V2 = WithContent(V, parent, new)
    BY DEF new
  <2>2. FilesInv(V, L)
    BY <1>2
  <2>3. V[parent] # Stale
    BY <1>3
  <2>4. OnlyContent(V, V2, parent, new) /\ (new \in Seq(Cells) => FilesInv(V2, L))
    BY <2>1, <2>2, <2>3, ContentChanged
  <2>5. QED
    BY <1>4, <2>4 DEF OnlyContent
<1>6. \A d \in InodeIds :
        /\ T[d] = IF IsDir(V[d]) THEN EntriesIn(V[d].content) ELSE {}
        /\ T2[d] = IF IsDir(V2[d]) THEN EntriesIn(V2[d].content) ELSE {}
  BY <1>1, AllInTree DEF T
<1> HIDE DEF T2
<1>7. Adds(T, T2, parent, name, id)
  <2> SUFFICES ASSUME NEW d \in InodeIds
               PROVE  T2[d] = IF d = parent THEN T[d] \cup {<<name, id>>} ELSE T[d]
    BY DEF Adds
  <2>1. CASE d = parent
    <3>1. IsDir(V2[d]) /\ V2[d].content = new /\ IsDir(V[d])
      BY <1>3, <1>5, <2>1
    <3>2. T2[d] = EntriesIn(new) /\ T[d] = EntriesIn(V[parent].content)
      BY <1>6, <2>1, <3>1
    <3>3. QED
      BY <1>4, <2>1, <3>2
  <2>2. CASE d # parent
    <3>1. V2[d] = V[d]
      BY <1>5, <2>2
    <3>2. QED
      BY <1>6, <2>2, <3>1
  <2>3. QED
    BY <2>1, <2>2
<1>8. TreeInv(T2, L)
  <2>1. TreeInv(T, L)
    BY <1>2
  <2>2. L \subseteq L /\ id \in L
    BY <1>3
  <2>3. Reached(T, parent) /\ ~Reached(T, id)
    BY <1>3
  <2>4. \A e \in T[parent] : e[1] # name
    BY <1>3
  <2>5. QED
    BY <1>7, <2>1, <2>2, <2>3, <2>4, TreeGrows
<1>9. /\ \A d \in InodeIds : \A e \in T[d] : e \in T2[d]
      /\ \A d \in InodeIds : Reached(T, d) => Reached(T2, d)
      /\ <<name, id>> \in T2[parent]
      /\ \A i \in InodeIds : MentionedIn(T2, i) => MentionedIn(T, i) \/ i = id
  <2>1. \A d \in InodeIds : \A e \in T[d] : e \in T2[d]
    BY <1>7 DEF Adds
  <2>2. \A d \in InodeIds : \A e \in T2[d] : e \in T[d] \/ e = <<name, id>>
    BY <1>7 DEF Adds
  <2>3. \A d \in InodeIds : Reached(T, d) => Reached(T2, d)
    BY <2>1 DEF Reached, MentionedIn
  <2>4. <<name, id>> \in T2[parent]
    BY <1>7 DEF Adds
  <2>5. <<name, id>>[2] = id
    OBVIOUS
  <2>6. \A i \in InodeIds : MentionedIn(T2, i) => MentionedIn(T, i) \/ i = id
    BY <2>2, <2>5 DEF MentionedIn
  <2>7. QED
    BY <2>1, <2>3, <2>4, <2>6
<1>10. ASSUME NEW handle \in [ino : InodeIds, unlinked : BOOLEAN],
              HandleInv(V, T, r, handle),
              handle.ino = id => V[id] = Stale \/ op = "mknod"
       PROVE  HandleInv(V2, T2, NoHandler, handle)
  <2>1. IsDir(V2[handle.ino]) => ~MentionedIn(T2, handle.ino)
    <3>1. CASE handle.ino = id
      <4>1. ~IsDir(V[id])
        BY <1>3, <1>10, <3>1 DEF IsDir
      <4>2. QED
        BY <1>5, <3>1, <4>1
    <3>2. CASE handle.ino # id
      BY <1>5, <1>9, <1>10, <3>2 DEF HandleInv
    <3>3. QED
      BY <3>1, <3>2
  <2>2. ASSUME ~handle.unlinked
        PROVE  /\ V2[handle.ino] # Stale /\ V2[handle.ino].type = "FILE"
               /\ \E d \in InodeIds : Reached(T2, d) /\ \E e \in T2[d] : e[2] = handle.ino
    <3>1. /\ V[handle.ino] # Stale /\ V[handle.ino].type = "FILE"
          /\ \E d \in InodeIds : Reached(T, d) /\ \E e \in T[d] : e[2] = handle.ino
      BY <1>1, <1>10, <2>2 DEF HandleInv
    <3>2. V2[handle.ino] # Stale /\ V2[handle.ino].type = "FILE"
      BY <1>5, <3>1
    <3>3. QED
      BY <1>9, <3>1, <3>2
  <2>3. QED
    BY <1>1, <1>10, <2>1, <2>2 DEF HandleInv
<1>11. ASSUME V[id] # Stale, op = "mknod"
       PROVE  HandleInv(V2, T2, NoHandler, Handle(id, FALSE))
  <2>1. Handle(id, FALSE).ino = id
    BY DEF Handle
  <2>2. id # Root /\ id # parent
    BY <1>3 DEF Reached
  <2>3. V2[id] # Stale /\ V2[id].type = "FILE"
    BY <1>3, <1>5, <1>11, <2>2
  <2>4. ~IsDir(V2[id])
    BY <2>3 DEF IsDir
  <2>5. \E d \in InodeIds : Reached(T2, d) /\ \E e \in T2[d] : e[2] = id
    <3>1. <<name, id>>[2] = id
      OBVIOUS
    <3>2. QED
      BY <1>3, <1>9, <3>1
  <2>6. QED
    BY <2>1, <2>2, <2>3, <2>4, <2>5 DEF HandleInv
<1>12. HeldInv(V2, T2, NoHandler, h2)
  <2> SUFFICES ASSUME NEW c \in Clients, h2[c] # NoHandle
               PROVE  HandleInv(V2, T2, NoHandler, h2[c])
    BY DEF HeldInv
  <2>1. CASE h2[c] = Handle(id, FALSE) /\ V[id] # Stale /\ op = "mknod"
    BY <1>11, <2>1
  <2>2. CASE h2[c] = h[c] /\ (h[c].ino = id => V[id] = Stale \/ op = "mknod")
    <3>1. h[c] \in [ino : InodeIds, unlinked : BOOLEAN] /\ h[c] # NoHandle
      BY <2>2 DEF Handles
    <3>2. HandleInv(V, T, r, h[c])
      BY <1>2, <3>1 DEF HeldInv
    <3>3. QED
      BY <1>10, <2>2, <3>1, <3>2
  <2>3. QED
    BY <2>1, <2>2 DEF AfterNaming
<1>13. HandlerInv(V2, T2, L, NoHandler)
  BY DEF HandlerInv
<1>14. QED
  BY <1>5, <1>7, <1>8, <1>12, <1>13 DEF Consistent, T, T2

(* An unlink has removed the file: its id is free, and its entry is counted *)
(* out.                                                                     *)
LEMMA RemovedConsistent ==
  ASSUME NEW V, NEW L, NEW h, h \in Handles, Consistent(V, L, NoHandler, h),
         NEW parent \in InodeIds, IsDir(V[parent]), Reached(Tree(V, NoHandler), parent),
         NEW name, NEW id \in InodeIds, <<name, id>> \in EntriesIn(V[parent].content),
         V[id] # Stale, ~IsDir(V[id]),
         NEW V2, V2 = [V EXCEPT ![id] = Stale],
         NEW r2, r2 = InHand("unlink", parent, name, id)
  PROVE  /\ Consistent(V2, L \ {id}, r2, h)
         /\ Drops(Tree(V, NoHandler), Tree(V2, r2), parent, name, id)
<1> DEFINE T == Tree(V, NoHandler)
           T2 == Tree(V2, r2)
           old == <<name, id>>
<1>1. /\ r2.op = "unlink" /\ r2.parent = parent /\ r2.name = name /\ r2.id = id
      /\ NoHandler.op = "none"
  BY OperationsDiffer
<1>2. FilesInv(V, L) /\ TreeInv(T, L) /\ HeldInv(V, T, NoHandler, h)
  BY DEF Consistent
<1>3. id # parent /\ id # Root
  BY <1>2 DEF FilesInv
<1>4. /\ V2 = [i \in InodeIds |-> V2[i]] /\ V2[id] = Stale
      /\ \A i \in InodeIds \ {id} : V2[i] = V[i]
  BY <1>2 DEF FilesInv
<1>5. ~IsDir(V2[id]) /\ \A i \in InodeIds : IsDir(V2[i]) => IsDir(V[i])
  <2>1. ~IsDir(V2[id])
    BY <1>4 DEF IsDir
  <2>2. QED
    BY <1>4, <2>1
<1>6. \A d \in InodeIds : T[d] = IF IsDir(V[d]) THEN EntriesIn(V[d].content) ELSE {}
  BY <1>1, AllInTree
<1>7. Drops(T, T2, parent, name, id)
  <2> SUFFICES ASSUME NEW d \in InodeIds
               PROVE  T2[d] = IF d = parent THEN T[d] \ {old} ELSE T[d]
    BY DEF Drops
  <2>1. CASE d = parent
    <3>1. V2[d] = V[d] /\ IsDir(V2[d])
      BY <1>3, <1>4, <2>1
    <3>2. T2[d] = EntriesIn(V[d].content) \ {old}
      BY <1>1, <2>1, <3>1 DEF Tree, Entered
    <3>3. T[d] = EntriesIn(V[d].content)
      BY <1>6, <2>1
    <3> HIDE DEF T, T2, old
    <3>4. QED
      BY <2>1, <3>2, <3>3
  <2>2. CASE d # parent
    <3>1. T2[d] = IF IsDir(V2[d]) THEN EntriesIn(V2[d].content) ELSE {}
      BY <1>1, <2>2, AllInTree
    <3> HIDE DEF T, T2
    <3>2. CASE d = id
      BY <1>5, <1>6, <2>2, <3>1, <3>2
    <3>3. CASE d # id
      BY <1>4, <1>6, <2>2, <3>1, <3>3
    <3>4. QED
      BY <3>2, <3>3
  <2>3. QED
    BY <2>1, <2>2
<1>8. Reached(T, parent)
  OBVIOUS
<1> HIDE DEF T, T2
<1>9. old \in T[parent] /\ T[id] = {}
  BY <1>6
<1>10. /\ TreeInv(T2, L \ {id}) /\ LosesOne(T, T2, parent, name, id)
       /\ \A d \in InodeIds : T2[d] \subseteq T[d]
       /\ \A d \in InodeIds : Reached(T, d) /\ d # id => Reached(T2, d)
       /\ \A d \in InodeIds : \A e \in T[d] : e[2] # id => e \in T2[d] /\ d # id
       /\ \A e \in T2[parent] : e[1] # name
  <2>1. TreeInv(T, L)
    BY <1>2
  <2>2. <<name, id>> \in T[parent]
    BY <1>9
  <2>3. T[id] = {}
    BY <1>9
  <2>4. TreeInv(T2, L \ {id}) /\ LosesOne(T, T2, parent, name, id)
    BY <1>7, <2>1, <2>2, <2>3, TreeShrinks
  <2>5. QED
    BY <2>4 DEF LosesOne
<1>11. FilesInv(V2, L \ {id})
  <2>1. IsDir(V2[Root])
    BY <1>2, <1>3, <1>4, RootIsId DEF FilesInv
  <2>2. \A i \in InodeIds : V2[i] # Stale => i # id /\ V2[i] = V[i]
    BY <1>4
  <2>3. QED
    BY <1>2, <1>4, <2>1, <2>2 DEF FilesInv
<1>12. HandlerInv(V2, T2, L \ {id}, r2)
  BY <1>1, <1>3, <1>4, <1>8, <1>10 DEF HandlerInv
<1>13. HeldInv(V2, T2, r2, h)
  <2> SUFFICES ASSUME NEW c \in Clients, h[c] # NoHandle
               PROVE  HandleInv(V2, T2, r2, h[c])
    BY DEF HeldInv
  <2>1. h[c].ino \in InodeIds
    BY DEF Handles
  <2>2. HandleInv(V, T, NoHandler, h[c])
    BY <1>2 DEF HeldInv
  <2>3. IsDir(V2[h[c].ino]) => ~MentionedIn(T2, h[c].ino)
    <3>1. ~MentionedIn(T, h[c].ino) => ~MentionedIn(T2, h[c].ino)
      BY <1>10 DEF MentionedIn
    <3>2. QED
      BY <1>5, <2>1, <2>2, <3>1 DEF HandleInv
  <2>4. ASSUME ~h[c].unlinked, h[c].ino # id
        PROVE  /\ V2[h[c].ino] # Stale /\ V2[h[c].ino].type = "FILE"
               /\ \E d \in InodeIds : Reached(T2, d) /\ \E e \in T2[d] : e[2] = h[c].ino
    <3>1. /\ V[h[c].ino] # Stale /\ V[h[c].ino].type = "FILE"
          /\ \E d \in InodeIds : Reached(T, d) /\ \E e \in T[d] : e[2] = h[c].ino
      BY <1>1, <2>2, <2>4 DEF HandleInv
    <3>2. \E d \in InodeIds : Reached(T2, d) /\ \E e \in T2[d] : e[2] = h[c].ino
      BY <1>10, <2>4, <3>1
    <3>3. QED
      BY <1>4, <2>1, <2>4, <3>1, <3>2
  <2>5. QED
    BY <1>1, <2>2, <2>3, <2>4 DEF HandleInv
<1>14. QED
  BY <1>7, <1>10, <1>11, <1>12, <1>13 DEF Consistent, T, T2

(* The unlink has rewritten the directory without the entry: the name is    *)
(* gone, as it was counted, and the open files of the id are marked.        *)
LEMMA RewrittenConsistent ==
  ASSUME NEW V, NEW L, NEW h, h \in Handles,
         NEW parent \in InodeIds, NEW name \in Names, NEW id \in InodeIds,
         NEW r, r = InHand("unlink", parent, name, id), Consistent(V, L, r, h),
         NEW V2,
         V2 = WithContent(V, parent, rm_from_directory(V[parent].content, name, InodeIds)),
         NEW h2, h2 = Marked(h, id)
  PROVE  /\ Consistent(V2, L, NoHandler, h2)
         /\ Tree(V2, NoHandler) = Tree(V, r)
<1> DEFINE T == Tree(V, r)
           new == rm_from_directory(V[parent].content, name, InodeIds)
           old == <<name, id>>
<1>1. /\ r.op = "unlink" /\ r.parent = parent /\ r.name = name /\ r.id = id
      /\ r # NoHandler /\ NoHandler.op = "none"
  BY OperationsDiffer
<1>2. FilesInv(V, L) /\ TreeInv(T, L) /\ HeldInv(V, T, r, h) /\ HandlerInv(V, T, L, r)
  BY DEF Consistent
<1>3. /\ IsDir(V[parent]) /\ V[parent] # Stale /\ \A e \in T[parent] : e[1] # name
      /\ id \notin L
  BY <1>1, <1>2 DEF HandlerInv, IsDir
<1>4. /\ new \in Seq(Cells)
      /\ EntriesIn(new) = {e \in EntriesIn(V[parent].content) : e[1] # name}
  <2>1. V[parent].content \in Seq(Cells)
    BY <1>2, <1>3 DEF FilesInv
  <2>2. QED
    BY <2>1, RewrittenText
<1> HIDE DEF new
<1>5. /\ V2[parent].content = new
      /\ \A i \in InodeIds \ {parent} : V2[i] = V[i]
      /\ \A i \in InodeIds : IsDir(V2[i]) <=> IsDir(V[i])
      /\ V2[parent] # Stale /\ V2[parent].type = V[parent].type
      /\ FilesInv(V2, L)
  <2>1. V2 = WithContent(V, parent, new)
    BY DEF new
  <2>2. FilesInv(V, L)
    BY <1>2
  <2>3. V[parent] # Stale
    BY <1>3
  <2>4. OnlyContent(V, V2, parent, new) /\ (new \in Seq(Cells) => FilesInv(V2, L))
    BY <2>1, <2>2, <2>3, ContentChanged
  <2>5. QED
    BY <1>4, <2>4 DEF OnlyContent
<1>6. old[1] = name
  OBVIOUS
<1> HIDE DEF old
<1>7. \A d \in InodeIds : Entered(V2, NoHandler, d) = Entered(V, r, d)
  <2> SUFFICES ASSUME NEW d \in InodeIds
               PROVE  Entered(V2, NoHandler, d) = Entered(V, r, d)
    OBVIOUS
  <2>0. Entered(V2, NoHandler, d) = IF IsDir(V2[d]) THEN EntriesIn(V2[d].content) ELSE {}
    BY <1>1, AllEntered
  <2>1. CASE d = parent
    <3>1. Entered(V2, NoHandler, d) = {e \in EntriesIn(V[d].content) : e[1] # name}
      BY <1>3, <1>4, <1>5, <2>0, <2>1
    <3>2. Entered(V, r, d) = EntriesIn(V[d].content) \ {old}
      BY <1>1, <1>3, <2>1 DEF Entered, old
    <3>3. T[d] = Entered(V, r, d)
      BY DEF Tree
    <3>4. \A e \in EntriesIn(V[d].content) \ {old} : e[1] # name
      BY <1>3, <2>1, <3>2, <3>3
    <3>5. QED
      BY <1>6, <3>1, <3>2, <3>4
  <2>2. CASE d # parent
    <3>1. Entered(V, r, d) = IF IsDir(V[d]) THEN EntriesIn(V[d].content) ELSE {}
      BY <1>1, <2>2, AllEntered
    <3>2. V2[d] = V[d]
      BY <1>5, <2>2
    <3>3. QED
      BY <2>0, <3>1, <3>2
  <2>3. QED
    BY <2>1, <2>2
<1>8. Tree(V2, NoHandler) = T
  BY <1>7 DEF Tree
<1> HIDE DEF T
<1>9. HeldInv(V2, T, NoHandler, h2)
  <2> SUFFICES ASSUME NEW c \in Clients, h2[c] # NoHandle
               PROVE  HandleInv(V2, T, NoHandler, h2[c])
    BY DEF HeldInv
  <2>1. CASE h[c] = Handle(id, FALSE)
    <3>1. h2[c] = Handle(id, TRUE)
      BY <2>1 DEF Marked
    <3>2. h[c].ino = id /\ h2[c].ino = id /\ h2[c].unlinked /\ h[c] # NoHandle
      BY <2>1, <3>1 DEF Handle, NoHandle, InodeIds
    <3>3. HandleInv(V, T, r, h[c])
      BY <1>2, <3>2 DEF HeldInv
    <3>4. QED
      BY <1>5, <3>2, <3>3 DEF HandleInv
  <2>2. CASE h[c] # Handle(id, FALSE)
    <3>1. h2[c] = h[c] /\ h[c] # NoHandle
      BY <2>2 DEF Marked
    <3>2. HandleInv(V, T, r, h[c])
      BY <1>2, <3>1 DEF HeldInv
    <3>3. h[c].ino \in InodeIds /\ h[c] = Handle(h[c].ino, h[c].unlinked)
          /\ h[c].unlinked \in BOOLEAN
      BY <3>1 DEF Handles, Handle
    <3>4. ~h[c].unlinked => h[c].ino # id
      BY <2>2, <3>3
    <3>5. /\ IsDir(V2[h[c].ino]) => IsDir(V[h[c].ino])
          /\ V[h[c].ino] # Stale => V2[h[c].ino] # Stale /\ V2[h[c].ino].type = V[h[c].ino].type
      BY <1>5, <3>3
    <3>6. QED
      BY <1>1, <3>1, <3>2, <3>4, <3>5 DEF HandleInv
  <2>3. QED
    BY <2>1, <2>2
<1>10. HandlerInv(V2, T, L, NoHandler)
  BY DEF HandlerInv
<1>11. QED
  BY <1>2, <1>5, <1>8, <1>9, <1>10 DEF Consistent, T

(* A write or a truncation changes the content of one inode.  If the inode  *)
(* is a directory, it is one that nothing leads to and that has no entry,   *)
(* and it gets none.                                                        *)
LEMMA WrittenConsistent ==
  ASSUME NEW V, NEW L, NEW h, h \in Handles, Consistent(V, L, NoHandler, h),
         NEW ino \in InodeIds, V[ino] # Stale, NEW new \in Seq(Cells),
         IsDir(V[ino]) => ~Reached(Tree(V, NoHandler), ino),
         IsDir(V[ino]) /\ Pieces(V[ino].content) = {} => Pieces(new) = {},
         NEW V2, V2 = WithContent(V, ino, new)
  PROVE  /\ Consistent(V2, L, NoHandler, h)
         /\ Tree(V2, NoHandler) = Tree(V, NoHandler)
<1> DEFINE T == Tree(V, NoHandler)
<1>1. NoHandler.op # "unlink"
  BY DEF NoHandler, InHand
<1>2. FilesInv(V, L) /\ TreeInv(T, L) /\ HeldInv(V, T, NoHandler, h)
  BY DEF Consistent
<1>3. /\ V2[ino].content = new
      /\ \A i \in InodeIds \ {ino} : V2[i] = V[i]
      /\ \A i \in InodeIds : IsDir(V2[i]) <=> IsDir(V[i])
      /\ V2[ino] # Stale /\ V2[ino].type = V[ino].type
      /\ FilesInv(V2, L)
  <2>1. FilesInv(V, L)
    BY <1>2
  <2>2. OnlyContent(V, V2, ino, new) /\ (new \in Seq(Cells) => FilesInv(V2, L))
    BY <2>1, ContentChanged
  <2>3. QED
    BY <2>2 DEF OnlyContent
<1>4. \A d \in InodeIds : Entered(V2, NoHandler, d) = Entered(V, NoHandler, d)
  <2> SUFFICES ASSUME NEW d \in InodeIds
               PROVE  Entered(V2, NoHandler, d) = Entered(V, NoHandler, d)
    OBVIOUS
  <2>1. /\ Entered(V2, NoHandler, d) = IF IsDir(V2[d]) THEN EntriesIn(V2[d].content) ELSE {}
        /\ Entered(V, NoHandler, d) = IF IsDir(V[d]) THEN EntriesIn(V[d].content) ELSE {}
    BY <1>1, AllEntered
  <2>2. CASE d = ino /\ IsDir(V[ino])
    <3>1. T[d] = {}
      BY <1>2, <2>2 DEF TreeInv
    <3>2. T[d] = Entered(V, NoHandler, d)
      BY DEF Tree
    <3>3. EntriesIn(V[ino].content) = {}
      BY <2>1, <2>2, <3>1, <3>2
    <3>4. Pieces(new) = {}
      BY <2>2, <3>3, NoPieceNoEntry
    <3>5. EntriesIn(new) = {}
      BY <3>4, NoPieceNoEntry
    <3>6. QED
      BY <1>3, <2>1, <2>2, <3>1, <3>2, <3>5
  <2>3. CASE d = ino /\ ~IsDir(V[ino])
    BY <1>3, <2>1, <2>3
  <2>4. CASE d # ino
    BY <1>3, <2>1, <2>4
  <2>5. QED
    BY <2>2, <2>3, <2>4
<1>5. Tree(V2, NoHandler) = T
  BY <1>4 DEF Tree
<1> HIDE DEF T
<1>6. HeldInv(V2, T, NoHandler, h)
  <2> SUFFICES ASSUME NEW c \in Clients, h[c] # NoHandle
               PROVE  HandleInv(V2, T, NoHandler, h[c])
    BY DEF HeldInv
  <2>1. HandleInv(V, T, NoHandler, h[c])
    BY <1>2 DEF HeldInv
  <2>2. h[c].ino \in InodeIds
    BY DEF Handles
  <2>3. /\ IsDir(V2[h[c].ino]) => IsDir(V[h[c].ino])
        /\ V[h[c].ino] # Stale => V2[h[c].ino] # Stale /\ V2[h[c].ino].type = V[h[c].ino].type
    BY <1>3, <2>2
  <2>4. QED
    BY <2>1, <2>3 DEF HandleInv
<1>7. HandlerInv(V2, T, L, NoHandler)
  BY DEF HandlerInv
<1>8. QED
  BY <1>2, <1>3, <1>5, <1>6, <1>7 DEF Consistent, T

(* After a mount the root directory is all there is. *)
LEMMA MountedConsistent ==
  ASSUME NEW V, V = [id \in InodeIds |->
                       IF id = Root THEN [type |-> "Directory", content |-> <<>>] ELSE Stale],
         NEW h, \A c \in Clients : h[c] = NoHandle
  PROVE  Consistent(V, {Root}, NoHandler, h)
<1> DEFINE T == Tree(V, NoHandler)
<1>1. NoHandler.op # "unlink"
  BY DEF NoHandler, InHand
<1>2. V[Root] = [type |-> "Directory", content |-> <<>>]
  BY RootIsId
<1>3. V[Root] # Stale /\ IsDir(V[Root]) /\ V[Root].content = <<>> /\ V[Root].type = "Directory"
  BY <1>2 DEF Stale, IsDir
<1>4. \A id \in InodeIds : V[id] # Stale => id = Root
  OBVIOUS
<1>5. FilesInv(V, {Root})
  BY <1>2, <1>3, <1>4, EmptyText DEF FilesInv
<1>6. \A d \in InodeIds : T[d] = {}
  <2> SUFFICES ASSUME NEW d \in InodeIds PROVE T[d] = {}
    OBVIOUS
  <2>1. T[d] = IF IsDir(V[d]) THEN EntriesIn(V[d].content) ELSE {}
    BY <1>1, AllInTree
  <2>2. IsDir(V[d]) => d = Root
    BY <1>4 DEF IsDir
  <2> HIDE DEF T
  <2>3. EntriesIn(<<>>) = {}
    BY EmptyText, NoPieceNoEntry
  <2>4. QED
    BY <1>3, <2>1, <2>2, <2>3
<1> HIDE DEF T
<1>7. TreeInv(T, {Root})
  BY <1>6 DEF TreeInv, MentionedIn
<1>8. HandlerInv(V, T, {Root}, NoHandler) /\ HeldInv(V, T, NoHandler, h)
  BY DEF HandlerInv, HeldInv
<1>9. QED
  BY <1>5, <1>7, <1>8 DEF Consistent, T

(* A lookup or an open of a file that an entry names. *)
LEMMA OpenedConsistent ==
  ASSUME NEW V, NEW L, NEW h, Consistent(V, L, NoHandler, h),
         NEW parent \in InodeIds, IsDir(V[parent]), Reached(Tree(V, NoHandler), parent),
         NEW name, NEW id \in InodeIds, <<name, id>> \in EntriesIn(V[parent].content),
         V[id] # Stale, ~IsDir(V[id]),
         NEW h2, \A c \in Clients : h2[c] \in {h[c], NoHandle, Handle(id, FALSE)}
  PROVE  Consistent(V, L, NoHandler, h2)
<1> DEFINE T == Tree(V, NoHandler)
           old == <<name, id>>
<1>1. FilesInv(V, L) /\ TreeInv(T, L)
  BY DEF Consistent
<1>2. NoHandler.op # "unlink"
  BY DEF NoHandler, InHand
<1>3. T[parent] = EntriesIn(V[parent].content)
  BY <1>2, AllInTree
<1>4. Reached(T, parent)
  OBVIOUS
<1> HIDE DEF T
<1>5. old \in T[parent] /\ old[2] = id
  BY <1>3
<1>6. id # Root
  BY <1>1, <1>5 DEF TreeInv, MentionedIn
<1>7. V[id].type = "FILE"
  BY <1>1 DEF FilesInv, IsDir
<1>8. Handle(id, FALSE).ino = id
  BY DEF Handle
<1>9. HandleInv(V, T, NoHandler, Handle(id, FALSE))
  BY <1>4, <1>5, <1>6, <1>7, <1>8 DEF HandleInv
<1>10. HandleInv(V, Tree(V, NoHandler), NoHandler, Handle(id, FALSE))
  BY <1>9 DEF T
<1>11. QED
  BY <1>10, OneMoreHeld

-----------------------------------------------------------------------------
(* The names as the states have them. *)

NamesIInv == up => Consistent(VisibleFiles, Live, running, held)

PlainUse == PlainText /\ Masks \subseteq {"SIZE"}

LEMMA NamesNext ==
  ASSUME up' => Consistent(VisibleFiles', Live', running', held')
  PROVE  NamesIInv'
BY DEF NamesIInv

LEMMA NamesNow ==
  ASSUME NamesIInv, up
  PROVE  Consistent(VisibleFiles, Live, running, held)
BY DEF NamesIInv

LEMMA DirectoryThere ==
  ASSUME DaemonIInv, NamesIInv, up, running = NoHandler, NEW dir \in Directories
  PROVE  /\ dir \in InodeIds /\ IsDir(VisibleFiles[dir])
         /\ Reached(Tree(VisibleFiles, NoHandler), dir)
<1> DEFINE T == Tree(VisibleFiles, NoHandler)
<1>0. IInv
  BY DEF DaemonIInv
<1>1. dir \in InodeIds /\ IsDirectory(dir)
  BY DirectoriesAreIds
<1>2. IsDir(VisibleFiles[dir])
  BY <1>0, <1>1, Visible
<1>3. CASE dir = Root
  BY <1>1, <1>2, <1>3 DEF Reached
<1>4. CASE \E d \in InodeIds, name \in Names :
             IsDirectory(d) /\ <<name, dir>> \in EntriesOf(d)
  <2>1. PICK d \in InodeIds, name \in Names :
               IsDirectory(d) /\ <<name, dir>> \in EntriesOf(d)
    BY <1>4
  <2>2. IsDir(VisibleFiles[d]) /\ Readable(d)
    BY <1>0, <2>1, Visible DEF IsDirectory
  <2>3. EntriesOf(d) = EntriesIn(VisibleFiles[d].content)
    BY <1>0, <2>2, VisibleEntries
  <2>4. NoHandler.op # "unlink"
    BY DEF NoHandler, InHand
  <2>5. T[d] = EntriesOf(d)
    BY <2>2, <2>3, <2>4, AllInTree
  <2> HIDE DEF T
  <2>6. <<name, dir>> \in T[d] /\ <<name, dir>>[2] = dir
    BY <2>1, <2>5
  <2>7. Reached(T, dir)
    BY <2>6 DEF Reached, MentionedIn
  <2>8. QED
    BY <1>1, <1>2, <2>7 DEF T
<1>5. QED
  BY <1>3, <1>4, DirectoriesAreIds

(* What a handler was told about the files it has open. *)
LEMMA HeldConsistent ==
  ASSUME DaemonIInv, NamesIInv, up, running = NoHandler,
         NEW c \in Clients, held[c] # NoHandle
  PROVE  /\ held[c].ino \in InodeIds /\ held[c].ino # Root
         /\ IsDir(VisibleFiles[held[c].ino]) =>
              ~Reached(Tree(VisibleFiles, NoHandler), held[c].ino)
         /\ ~held[c].unlinked => VisibleFiles[held[c].ino] # Stale
<1>1. held[c].ino \in InodeIds
  BY HeldId
<1>2. HandleInv(VisibleFiles, Tree(VisibleFiles, NoHandler), NoHandler, held[c])
  BY DEF NamesIInv, Consistent, HeldInv
<1>3. NoHandler.op # "unlink"
  BY DEF NoHandler, InHand
<1>4. QED
  BY <1>1, <1>2, <1>3 DEF HandleInv, Reached

LEMMA GivenUpHeld ==
  ASSUME NEW ino
  PROVE  /\ \A c \in Clients : GivenUp(ino)[c] = IF held[c].ino = ino THEN NoHandle ELSE held[c]
         /\ \A c \in Clients : GivenUp(ino)[c] \in {held[c], NoHandle}
BY DEF GivenUp

LEMMA OpenedHeld ==
  ASSUME DaemonIInv, NEW c \in Clients, NEW ino
  PROVE  \A k \in Clients : Opened(c, ino)[k] \in {held[k], Handle(ino, FALSE)}
<1>1. held = [k \in Clients |-> held[k]]
  BY DEF DaemonIInv, Handles
<1>2. QED
  BY <1>1 DEF Opened

(* Nothing changes but, perhaps, that files are given up. *)
LEMMA NamesSame ==
  ASSUME NamesIInv, up, SameFiles, running' = running,
         \A c \in Clients : held'[c] \in {held[c], NoHandle}
  PROVE  NamesIInv'
<1>1. Consistent(VisibleFiles, Live, running, held)
  BY NamesNow
<1>2. Consistent(VisibleFiles, Live, running, held')
  BY <1>1, FewerHeld
<1>3. Consistent(VisibleFiles', Live', running', held')
  BY <1>2 DEF SameFiles
<1>4. QED
  BY <1>3, NamesNext

LEMMA NamesDead == ~up' => NamesIInv'
BY NamesNext

LEMMA LookupNames ==
  ASSUME PlainUse, DaemonIInv, NamesIInv, NEW c \in Clients, Reads(c),
         NEW parent \in Directories, NEW name \in Names, chfs_lookup(c, parent, name)
  PROVE  NamesIInv'
<1>1. up /\ running = NoHandler
  BY DEF Reads
<1>2. SameFiles /\ running' = NoHandler
  BY LookupEffect
<1>3. CASE held' = held
  BY <1>1, <1>2, <1>3, NamesSame
<1>4. CASE \E id \in InodeIds :
             /\ <<name, id>> \in EntriesIn(VisibleFiles[parent].content)
             /\ VisibleFiles[id] # Stale /\ ~IsDir(VisibleFiles[id])
             /\ held' = Opened(c, id)
  <2>1. PICK id \in InodeIds :
             /\ <<name, id>> \in EntriesIn(VisibleFiles[parent].content)
             /\ VisibleFiles[id] # Stale /\ ~IsDir(VisibleFiles[id])
             /\ held' = Opened(c, id)
    BY <1>4
  <2>2. \A k \in Clients : held'[k] \in {held[k], NoHandle, Handle(id, FALSE)}
    BY <2>1, OpenedHeld
  <2>3. Consistent(VisibleFiles, Live, NoHandler, held)
    BY <1>1, NamesNow
  <2>4. /\ parent \in InodeIds /\ IsDir(VisibleFiles[parent])
        /\ Reached(Tree(VisibleFiles, NoHandler), parent)
    BY <1>1, DirectoryThere
  <2>5. Consistent(VisibleFiles, Live, NoHandler, held')
    <3>1. <<name, id>> \in EntriesIn(VisibleFiles[parent].content)
      BY <2>1
    <3>2. VisibleFiles[id] # Stale /\ ~IsDir(VisibleFiles[id])
      BY <2>1
    <3>3. QED
      BY <2>2, <2>3, <2>4, <3>1, <3>2, OpenedConsistent
  <2>6. Consistent(VisibleFiles', Live', running', held')
    BY <1>2, <2>5 DEF SameFiles
  <2>7. QED
    BY <2>6, NamesNext
<1>5. QED
  BY <1>3, <1>4, LookupEffect

LEMMA GetattrNames ==
  ASSUME DaemonIInv, NamesIInv, NEW c \in Clients, Reads(c), held[c] # NoHandle,
         chfs_getattr(c)
  PROVE  NamesIInv'
<1>1. up /\ running = NoHandler
  BY DEF Reads
<1>2. SameFiles /\ running' = NoHandler /\ (held' = held \/ held' = GivenUp(held[c].ino))
  BY GetattrEffect
<1>3. \A k \in Clients : held'[k] \in {held[k], NoHandle}
  BY <1>2, GivenUpHeld
<1>4. QED
  BY <1>1, <1>2, <1>3, NamesSame

(* The content of an open file, or of a stray directory, changes. *)
LEMMA ContentNames ==
  ASSUME PlainUse, DaemonIInv, NamesIInv, NEW c \in Clients, Reads(c), held[c] # NoHandle,
         VisibleFiles[held[c].ino] # Stale,
         NEW new \in Seq(Cells),
         Pieces(VisibleFiles[held[c].ino].content) = {} => Pieces(new) = {},
         VisibleFiles' = WithContent(VisibleFiles, held[c].ino, new),
         Live' = Live, running' = NoHandler,
         \A k \in Clients : held'[k] \in {held[k], NoHandle}
  PROVE  /\ NamesIInv'
         /\ Consistent(VisibleFiles', Live', NoHandler, held')
         /\ Tree(VisibleFiles', NoHandler) = Tree(VisibleFiles, NoHandler)
<1>1. up /\ running = NoHandler
  BY DEF Reads
<1>2. /\ held[c].ino \in InodeIds
      /\ IsDir(VisibleFiles[held[c].ino]) =>
           ~Reached(Tree(VisibleFiles, NoHandler), held[c].ino)
  BY <1>1, HeldConsistent
<1>3. Consistent(VisibleFiles, Live, NoHandler, held) /\ held \in Handles
  BY <1>1, NamesNow DEF DaemonIInv
<1>4. IsDir(VisibleFiles[held[c].ino]) /\ Pieces(VisibleFiles[held[c].ino].content) = {}
        => Pieces(new) = {}
  OBVIOUS
<1>5. PICK V2 : V2 = VisibleFiles'
  OBVIOUS
<1>6. V2 = WithContent(VisibleFiles, held[c].ino, new)
  BY <1>5
<1>7. PICK ino : ino = held[c].ino
  OBVIOUS
<1>8. /\ Consistent(V2, Live, NoHandler, held)
      /\ Tree(V2, NoHandler) = Tree(VisibleFiles, NoHandler)
  <2>1. ino \in InodeIds /\ VisibleFiles[ino] # Stale
    BY <1>2, <1>7
  <2>2. IsDir(VisibleFiles[ino]) => ~Reached(Tree(VisibleFiles, NoHandler), ino)
    BY <1>2, <1>7
  <2>3. IsDir(VisibleFiles[ino]) /\ Pieces(VisibleFiles[ino].content) = {} => Pieces(new) = {}
    BY <1>4, <1>7
  <2>4. V2 = WithContent(VisibleFiles, ino, new)
    BY <1>6, <1>7
  <2>5. QED
    BY <1>3, <2>1, <2>2, <2>3, <2>4, WrittenConsistent
<1>9. Consistent(V2, Live, NoHandler, held')
  BY <1>8, FewerHeld
<1>10. Consistent(VisibleFiles', Live', NoHandler, held')
  BY <1>5, <1>9
<1>11. NamesIInv'
  BY <1>10, NamesNext
<1>12. QED
  BY <1>5, <1>8, <1>10, <1>11

LEMMA WriteNames ==
  ASSUME PlainUse, DaemonIInv, NamesIInv, NEW c \in Clients, Reads(c), held[c] # NoHandle,
         NEW data \in Contents, NEW off \in Offsets, chfs_write(c, data, off)
  PROVE  NamesIInv'
<1> DEFINE ino == held[c].ino
           new == Patched(VisibleFiles[ino].content, data, off)
<1>1. up /\ running = NoHandler /\ IInv
  BY DEF Reads, DaemonIInv
<1>2. running' = NoHandler /\ ino \in InodeIds
  BY WriteEffect
<1>3. CASE SameFiles /\ held' = held
  BY <1>1, <1>2, <1>3, NamesSame
<1>4. CASE ~up'
  BY <1>4, NamesDead
<1>5. CASE /\ held' = held /\ Live' = Live /\ VisibleFiles[ino] # Stale
           /\ VisibleFiles' = [VisibleFiles EXCEPT ![ino].content = new]
  <2>1. VisibleFiles[ino].content \in Seq(Cells)
    BY <1>1, <1>2, <1>5, Visible
  <2>2. /\ data \in Seq(Cells) /\ off \in Nat /\ Pieces(data) = {} /\ PlainText
    BY LayoutAssumption DEF PlainUse, PlainText
  <2>3. new \in Seq(Cells)
    BY <2>1, <2>2, PatchedTyped
  <2>4. Pieces(VisibleFiles[ino].content) = {} => Pieces(new) = {}
    BY <2>1, <2>2, PatchedPlain
  <2>5. VisibleFiles' = WithContent(VisibleFiles, ino, new)
    BY <1>5 DEF WithContent
  <2> HIDE DEF new
  <2>6. \A k \in Clients : held'[k] \in {held[k], NoHandle}
    BY <1>5
  <2>7. VisibleFiles[held[c].ino] # Stale
    BY <1>5
  <2>8. Live' = Live /\ running' = NoHandler
    BY <1>2, <1>5
  <2>9. QED
    BY <2>3, <2>4, <2>5, <2>6, <2>7, <2>8, ContentNames
<1>6. QED
  BY <1>3, <1>4, <1>5, WriteEffect

LEMMA SetattrNames ==
  ASSUME PlainUse, DaemonIInv, NamesIInv, NEW c \in Clients, Reads(c), held[c] # NoHandle,
         NEW mask \in Masks, NEW off \in Offsets, chfs_setattr(c, held[c].ino, mask, off)
  PROVE  NamesIInv'
<1> DEFINE ino == held[c].ino
           size == IF mask = "SIZE" THEN off ELSE 0
           new == Resized(VisibleFiles[ino].content, size)
<1>1. up /\ running = NoHandler /\ IInv /\ ino \in InodeIds
  BY HeldId DEF Reads, DaemonIInv
<1>2. off \in Nat /\ size \in Nat
  BY LayoutAssumption
<1> HIDE DEF size
<1>3. running' = NoHandler
  BY <1>1, <1>2, SetattrEffect
<1>4. CASE SameFiles /\ held' = held
  BY <1>1, <1>3, <1>4, NamesSame
<1>5. CASE /\ VisibleFiles[ino] # Stale /\ Live' = Live
           /\ held' = GivenUp(ino) \/ held' = held
           /\ VisibleFiles' = [VisibleFiles EXCEPT ![ino].content = new]
  <2>1. VisibleFiles[ino].content \in Seq(Cells)
    BY <1>1, <1>5, Visible
  <2>2. new \in Seq(Cells)
    BY <1>2, <2>1, ResizedTyped
  <2>3. Pieces(VisibleFiles[ino].content) = {} => Pieces(new) = {}
    BY <1>2, <2>1, ResizedPlain DEF PlainUse
  <2>4. VisibleFiles' = WithContent(VisibleFiles, ino, new)
    BY <1>5 DEF WithContent
  <2> HIDE DEF new
  <2>5. \A k \in Clients : held'[k] \in {held[k], NoHandle}
    BY <1>5, GivenUpHeld
  <2>6. VisibleFiles[held[c].ino] # Stale
    BY <1>5
  <2>7. QED
    BY <1>3, <1>5, <2>2, <2>3, <2>4, <2>5, <2>6, ContentNames
<1>6. \/ SameFiles /\ held' = held
      \/ ~up'
      \/ /\ VisibleFiles[ino] # Stale /\ Live' = Live
         /\ held' = GivenUp(ino) \/ held' = held
         /\ VisibleFiles' = [VisibleFiles EXCEPT ![ino].content = new]
  BY <1>1, <1>2, SetattrEffect DEF size
<1>7. QED
  BY <1>4, <1>5, <1>6, NamesDead

LEMMA CreateNames ==
  ASSUME PlainUse, DaemonIInv, NamesIInv, NEW c \in Clients, Reads(c),
         NEW op \in {"mknod", "mkdir"}, NEW otherwise,
         NEW type, type = IF op = "mknod" THEN "FILE" ELSE "Directory",
         NEW parent \in Directories, NEW name \in Names,
         mk_helper(c, op, parent, name, type, otherwise)
  PROVE  NamesIInv'
<1>1. up /\ running = NoHandler /\ IInv /\ held \in Handles
  BY DEF Reads, DaemonIInv
<1>2. type \in Types
  BY DaemonAssumption
<1>3. \/ up' /\ SameFiles /\ running' = NoHandler /\ held' = held
      \/ ~up'
      \/ \E id \in InodeIds \ Live :
           /\ held' = held
           /\ running' = InHand(op, parent, name, id)
           /\ \A e \in EntriesIn(VisibleFiles[parent].content) : e[1] # name
           /\ Live' = Live \cup {id}
           /\ VisibleFiles' = WithNew(VisibleFiles, id, type)
  <2>1. CreateDone(op, parent, name, type, otherwise)
    BY <1>2, CreateEffect
  <2>2. QED
    BY <2>1 DEF CreateDone
<1>4. CASE SameFiles /\ running' = NoHandler /\ held' = held
  BY <1>1, <1>4, NamesSame
<1>5. CASE ~up'
  BY <1>5, NamesDead
<1>6. ASSUME NEW id \in InodeIds \ Live,
             held' = held, running' = InHand(op, parent, name, id),
             \A e \in EntriesIn(VisibleFiles[parent].content) : e[1] # name,
             Live' = Live \cup {id},
             VisibleFiles' = WithNew(VisibleFiles, id, type)
      PROVE  NamesIInv'
  <2>1. Consistent(VisibleFiles, Live, NoHandler, held)
    BY <1>1, NamesNow
  <2>2. /\ parent \in InodeIds /\ IsDir(VisibleFiles[parent])
        /\ Reached(Tree(VisibleFiles, NoHandler), parent)
    BY <1>1, DirectoryThere
  <2>3. PICK V2 : V2 = VisibleFiles'
    OBVIOUS
  <2>4. V2 = WithNew(VisibleFiles, id, type)
    BY <1>6, <2>3
  <2>5. Consistent(V2, Live \cup {id}, InHand(op, parent, name, id), held)
    BY <1>1, <1>6, <2>1, <2>2, <2>4, CreatedConsistent
  <2>6. Consistent(VisibleFiles', Live', running', held')
    BY <1>6, <2>3, <2>5
  <2>7. QED
    BY <2>6, NamesNext
<1>7. QED
  BY <1>3, <1>4, <1>5, <1>6

LEMMA NamingNames ==
  ASSUME PlainUse, DaemonIInv, NamesIInv, NEW c \in Clients,
         NEW op \in {"mknod", "mkdir"}, NEW otherwise,
         NEW type, type = IF op = "mknod" THEN "FILE" ELSE "Directory",
         mk_helper_names(c, op, type, otherwise)
  PROVE  NamesIInv'
<1> DEFINE parent == running.parent
           name == running.name
           id == running.id
           text == VisibleFiles[parent].content
<1>1. up /\ running.op = op
  BY DEF mk_helper_names, Resumes
<1>2. /\ parent \in InodeIds /\ id \in InodeIds /\ name \in Names
      /\ running = InHand(op, parent, name, id)
  BY <1>1, RunningTyped
<1>3. Consistent(VisibleFiles, Live, running, held) /\ held \in Handles
  BY <1>1, NamesNow DEF DaemonIInv
<1>4. running' = NoHandler /\ Live' = Live
  BY NameEffect
<1>5. CASE SameFiles /\ held' = held
  <2>1. running.op # "unlink"
    BY <1>1
  <2>2. Consistent(VisibleFiles, Live, NoHandler, held)
    BY <1>3, <2>1, GivenUpConsistent
  <2>3. Consistent(VisibleFiles', Live', running', held')
    BY <1>4, <1>5, <2>2 DEF SameFiles
  <2>4. QED
    BY <2>3, NamesNext
<1>6. CASE /\ VisibleFiles' =
                [VisibleFiles EXCEPT ![parent].content =
                   append_to_directory(text, name, id)]
           /\ \/ /\ VisibleFiles[id] # Stale
                 /\ held' = IF type = "Directory" THEN GivenUp(id) ELSE Opened(c, id)
              \/ VisibleFiles[id] = Stale /\ held' = held
  <2>1. \A k \in Clients :
          IF VisibleFiles[id] = Stale THEN held'[k] = held[k]
          ELSE IF op = "mkdir"
            THEN held'[k] = IF held[k].ino = id THEN NoHandle ELSE held[k]
          ELSE held'[k] \in {held[k], Handle(id, FALSE)}
    <3>1. CASE VisibleFiles[id] = Stale
      BY <1>6, <3>1
    <3>2. CASE VisibleFiles[id] # Stale /\ op = "mkdir"
      <4>1. held' = GivenUp(id)
        BY <1>6, <3>2
      <4>2. QED
        BY <3>2, <4>1, GivenUpHeld
    <3>3. CASE VisibleFiles[id] # Stale /\ op # "mkdir"
      <4>1. held' = Opened(c, id)
        BY <1>6, <3>3
      <4>2. QED
        BY <3>3, <4>1, OpenedHeld
    <3>4. QED
      BY <3>1, <3>2, <3>3
  <2>2. PICK V2, h2 : V2 = VisibleFiles' /\ h2 = held'
    OBVIOUS
  <2>3. PICK p, i, n : p = parent /\ i = id /\ n = name
    OBVIOUS
  <2>4. V2 = WithContent(VisibleFiles, p, append_to_directory(VisibleFiles[p].content, n, i))
    BY <1>6, <2>2, <2>3 DEF WithContent
  <2>5. AfterNaming(VisibleFiles, op, i, held, h2)
    BY <2>1, <2>2, <2>3 DEF AfterNaming
  <2>6. /\ p \in InodeIds /\ i \in InodeIds /\ n \in Names
        /\ running = InHand(op, p, n, i)
    BY <1>2, <2>3
  <2>7. Consistent(V2, Live, NoHandler, h2)
    BY <1>3, <2>4, <2>5, <2>6, NamedConsistent DEF PlainUse
  <2>8. Consistent(VisibleFiles', Live', running', held')
    BY <1>4, <2>2, <2>7
  <2>9. QED
    BY <2>8, NamesNext
<1>7. QED
  BY <1>5, <1>6, NameEffect

LEMMA UnlinkNames ==
  ASSUME PlainUse, DaemonIInv, NamesIInv, NEW c \in Clients, Reads(c),
         NEW parent \in Directories, NEW name \in Names, chfs_unlink(c, parent, name)
  PROVE  NamesIInv'
<1>1. up /\ running = NoHandler /\ IInv /\ held \in Handles
  BY DEF Reads, DaemonIInv
<1>2. \/ up' /\ SameFiles /\ running' = NoHandler /\ held' = held
      \/ ~up'
      \/ \E id \in InodeIds :
           /\ <<name, id>> \in EntriesIn(VisibleFiles[parent].content)
           /\ held' = held /\ VisibleFiles[id] # Stale /\ ~IsDir(VisibleFiles[id])
           /\ running' = InHand("unlink", parent, name, id)
           /\ Live' = Live \ {id}
           /\ VisibleFiles' = [VisibleFiles EXCEPT ![id] = Stale]
  BY UnlinkEffect
<1>3. CASE SameFiles /\ running' = NoHandler /\ held' = held
  BY <1>1, <1>3, NamesSame
<1>4. CASE ~up'
  BY <1>4, NamesDead
<1>5. ASSUME NEW id \in InodeIds,
             <<name, id>> \in EntriesIn(VisibleFiles[parent].content),
             held' = held, VisibleFiles[id] # Stale, ~IsDir(VisibleFiles[id]),
             running' = InHand("unlink", parent, name, id),
             Live' = Live \ {id}, VisibleFiles' = [VisibleFiles EXCEPT ![id] = Stale]
      PROVE  NamesIInv'
  <2>1. Consistent(VisibleFiles, Live, NoHandler, held)
    BY <1>1, NamesNow
  <2>2. /\ parent \in InodeIds /\ IsDir(VisibleFiles[parent])
        /\ Reached(Tree(VisibleFiles, NoHandler), parent)
    BY <1>1, DirectoryThere
  <2>3. PICK V2, r2 : V2 = VisibleFiles' /\ r2 = running'
    OBVIOUS
  <2>4. V2 = [VisibleFiles EXCEPT ![id] = Stale] /\ r2 = InHand("unlink", parent, name, id)
    BY <1>5, <2>3
  <2>5. Consistent(V2, Live \ {id}, r2, held)
    BY <1>1, <1>5, <2>1, <2>2, <2>4, RemovedConsistent
  <2>6. Consistent(VisibleFiles', Live', running', held')
    BY <1>5, <2>3, <2>5
  <2>7. QED
    BY <2>6, NamesNext
<1>6. QED
  BY <1>2, <1>3, <1>4, <1>5

(* The rewriting cannot fail: the directory is there, and its text does not *)
(* grow.                                                                    *)
LEMMA RewriteNames ==
  ASSUME DaemonIInv, NamesIInv, NEW c \in Clients, chfs_unlink_rewrites(c)
  PROVE  /\ NamesIInv'
         /\ ret' = Call("unlink", running.parent, running.id, running.name, "OK")
         /\ Live' = Live
         /\ VisibleFiles' =
              WithContent(VisibleFiles, running.parent,
                rm_from_directory(VisibleFiles[running.parent].content,
                                  running.name, InodeIds))
         /\ Tree(VisibleFiles', NoHandler) = Tree(VisibleFiles, running)
<1> DEFINE parent == running.parent
           name == running.name
           id == running.id
           text == VisibleFiles[parent].content
<1>1. up /\ running.op = "unlink"
  BY DEF chfs_unlink_rewrites, Resumes
<1>2. /\ parent \in InodeIds /\ id \in InodeIds /\ name \in Names
      /\ running = InHand("unlink", parent, name, id)
  BY <1>1, RunningTyped
<1>3. Consistent(VisibleFiles, Live, running, held) /\ held \in Handles
  BY <1>1, NamesNow DEF DaemonIInv
<1>4. VisibleFiles[parent] # Stale
  <2>1. running # NoHandler
    BY <1>1 DEF NoHandler, InHand
  <2>2. QED
    BY <1>3, <2>1 DEF Consistent, HandlerInv, IsDir
<1>5. /\ running' = NoHandler /\ Live' = Live /\ held' = Marked(held, running.id)
      /\ ret' = Call("unlink", parent, id, name, "OK")
      /\ VisibleFiles' =
           [VisibleFiles EXCEPT ![parent].content = rm_from_directory(text, name, InodeIds)]
  BY <1>4, RewriteEffect
<1>6. PICK V2, h2 : V2 = VisibleFiles' /\ h2 = held'
  OBVIOUS
<1>7. PICK p, i, n : p = parent /\ i = id /\ n = name
  OBVIOUS
<1>8. V2 = WithContent(VisibleFiles, p, rm_from_directory(VisibleFiles[p].content, n, InodeIds))
  BY <1>5, <1>6, <1>7 DEF WithContent
<1>9. h2 = Marked(held, i)
  BY <1>5, <1>6, <1>7
<1>10. /\ p \in InodeIds /\ i \in InodeIds /\ n \in Names
       /\ running = InHand("unlink", p, n, i)
  BY <1>2, <1>7
<1>11. Consistent(V2, Live, NoHandler, h2) /\ Tree(V2, NoHandler) = Tree(VisibleFiles, running)
  BY <1>3, <1>8, <1>9, <1>10, RewrittenConsistent
<1>12. Consistent(VisibleFiles', Live', running', held')
  BY <1>5, <1>6, <1>11
<1>13. NamesIInv'
  BY <1>12, NamesNext
<1>14. QED
  BY <1>5, <1>6, <1>7, <1>8, <1>11, <1>13

LEMMA MountNames ==
  ASSUME DaemonIInv, bootstrap_fuse
  PROVE  NamesIInv'
<1>1. /\ running' = NoHandler /\ held' = [k \in Clients |-> NoHandle] /\ Live' = {Root}
      /\ VisibleFiles' =
           [id \in InodeIds |-> IF id = Root THEN [type |-> "Directory", content |-> <<>>]
                                             ELSE Stale]
  BY MountEffect
<1>2. PICK V2, h2 : V2 = VisibleFiles' /\ h2 = held'
  OBVIOUS
<1>3. V2 = [id \in InodeIds |->
              IF id = Root THEN [type |-> "Directory", content |-> <<>>] ELSE Stale]
  BY <1>1, <1>2
<1>4. \A c \in Clients : h2[c] = NoHandle
  BY <1>1, <1>2
<1>5. Consistent(V2, {Root}, NoHandler, h2)
  BY <1>3, <1>4, MountedConsistent
<1>6. Consistent(VisibleFiles', Live', running', held')
  BY <1>1, <1>2, <1>5
<1>7. QED
  BY <1>6, NamesNext

LEMMA QuietNames ==
  ASSUME NamesIInv, up, up', SameFiles, running' = running, held' = held
  PROVE  NamesIInv'
BY NamesSame

LEMMA DaemonNextNames ==
  ASSUME PlainUse, DaemonIInv, NamesIInv, [DaemonNext]_allVars
  PROVE  NamesIInv'
<1>1. CASE bootstrap_fuse
  BY <1>1, MountNames
<1>2. ASSUME NEW call, Dies(call)
      PROVE  NamesIInv'
  BY <1>2, NamesDead DEF Dies
<1>3. CASE UNCHANGED allVars
  <2>1. up' = up /\ SameFiles /\ running' = running /\ held' = held
    BY <1>3, StutterEffect
  <2>2. CASE up
    BY <2>1, <2>2, QuietNames
  <2>3. CASE ~up
    BY <2>1, <2>3, NamesDead
  <2>4. QED
    BY <2>2, <2>3
<1>4. ASSUME NEW c \in Clients, Send(c)
      PROVE  NamesIInv'
  <2>1. up
    BY <1>4 DEF Send
  <2>2. up' /\ SameFiles /\ running' = running /\ held' = held
    BY <1>4, SendEffect
  <2>3. QED
    BY <2>1, <2>2, QuietNames
<1>5. ASSUME NEW c \in Clients, \/ mk_helper_names(c, "mknod", "FILE", "ENOENT")
                                \/ mk_helper_names(c, "mkdir", "Directory", "ENOSYS")
      PROVE  NamesIInv'
  <2>1. CASE mk_helper_names(c, "mknod", "FILE", "ENOENT")
    BY <2>1, NamingNames
  <2>2. CASE mk_helper_names(c, "mkdir", "Directory", "ENOSYS")
    BY <2>2, NamingNames
  <2>3. QED
    BY <1>5, <2>1, <2>2
<1>6. ASSUME NEW c \in Clients, chfs_unlink_rewrites(c)
      PROVE  NamesIInv'
  BY <1>6, RewriteNames
<1>7. ASSUME NEW c \in Clients, Reads(c), NEW parent \in Directories, NEW name \in Names,
             \/ chfs_lookup(c, parent, name) \/ chfs_unlink(c, parent, name)
             \/ mk_helper(c, "mknod", parent, name, "FILE", "ENOENT")
             \/ mk_helper(c, "mkdir", parent, name, "Directory", "ENOSYS")
      PROVE  NamesIInv'
  <2>1. CASE chfs_lookup(c, parent, name)
    BY <1>7, <2>1, LookupNames
  <2>2. CASE chfs_unlink(c, parent, name)
    BY <1>7, <2>2, UnlinkNames
  <2>3. CASE mk_helper(c, "mknod", parent, name, "FILE", "ENOENT")
    BY <1>7, <2>3, CreateNames
  <2>4. CASE mk_helper(c, "mkdir", parent, name, "Directory", "ENOSYS")
    BY <1>7, <2>4, CreateNames
  <2>5. QED
    BY <1>7, <2>1, <2>2, <2>3, <2>4
<1>8. ASSUME NEW c \in Clients, Reads(c), NEW dir \in Directories, chfs_readdir(c, dir)
      PROVE  NamesIInv'
  <2>1. up /\ running = NoHandler
    BY <1>8 DEF Reads
  <2>2. up' /\ SameFiles /\ running' = NoHandler /\ held' = held
    BY <1>8, ReaddirEffect
  <2>3. QED
    BY <2>1, <2>2, QuietNames
<1>9. ASSUME NEW c \in Clients, Reads(c), held[c] # NoHandle, chfs_getattr(c) \/ chfs_open(c)
      PROVE  NamesIInv'
  <2>1. up /\ running = NoHandler
    BY <1>9 DEF Reads
  <2>2. CASE chfs_getattr(c)
    BY <1>9, <2>2, GetattrNames
  <2>3. CASE chfs_open(c)
    <3>1. up' /\ SameFiles /\ running' = NoHandler /\ held' = held
      BY <1>9, <2>3, OpenEffect
    <3>2. QED
      BY <2>1, <3>1, QuietNames
  <2>4. QED
    BY <1>9, <2>2, <2>3
<1>10. ASSUME NEW c \in Clients, Reads(c), held[c] # NoHandle, NEW off \in Offsets,
              \/ \E data \in Contents : chfs_write(c, data, off)
              \/ chfs_read(c, BlockSize, off)
              \/ \E mask \in Masks : chfs_setattr(c, held[c].ino, mask, off)
       PROVE  NamesIInv'
  <2>1. off \in Nat /\ up /\ running = NoHandler
    BY <1>10, LayoutAssumption DEF Reads
  <2>2. CASE \E data \in Contents : chfs_write(c, data, off)
    BY <1>10, <2>2, WriteNames
  <2>3. CASE chfs_read(c, BlockSize, off)
    <3>1. up' /\ SameFiles /\ running' = NoHandler /\ held' = held
      BY <1>10, <2>1, <2>3, ReadEffect
    <3>2. QED
      BY <2>1, <3>1, QuietNames
  <2>4. CASE \E mask \in Masks : chfs_setattr(c, held[c].ino, mask, off)
    BY <1>10, <2>4, SetattrNames
  <2>5. QED
    BY <1>10, <2>2, <2>3, <2>4
<1>11. "MODE" \notin Masks
  BY DEF PlainUse
<1>12. QED
  BY <1>1, <1>2, <1>3, <1>4, <1>5, <1>6, <1>7, <1>8, <1>9, <1>10, <1>11, StepCases

(* An open file that was not unlinked has its one name. *)
LEMMA NamesResolve == DaemonIInv /\ NamesIInv => HandlesResolve
<1> SUFFICES ASSUME DaemonIInv, NamesIInv, NEW c \in Clients,
                    held[c] # NoHandle, ~held[c].unlinked,
                    ~(Unlinking /\ held[c].ino = running.id)
             PROVE  /\ Readable(held[c].ino) /\ InodeOf(held[c].ino).type = "FILE"
                    /\ Cardinality(NamesOf(held[c].ino)) = 1
  BY DEF HandlesResolve
<1> DEFINE ino == held[c].ino
           V == VisibleFiles
           T == Tree(V, running)
<1>1. IInv /\ up /\ ino \in InodeIds
  <2>1. IInv /\ ino \in InodeIds
    BY HeldId DEF DaemonIInv
  <2>2. up
    BY DEF DaemonIInv, ShutDown
  <2>3. QED
    BY <2>1, <2>2
<1>2. TreeInv(T, Live) /\ HandleInv(V, T, running, held[c])
  BY <1>1 DEF NamesIInv, Consistent, HeldInv
<1>3. /\ V[ino] # Stale /\ V[ino].type = "FILE"
      /\ \E d \in InodeIds : Reached(T, d) /\ \E e \in T[d] : e[2] = ino
  BY <1>2 DEF HandleInv, Unlinking
<1>4. Readable(ino) /\ InodeOf(ino).type = "FILE"
  BY <1>1, <1>3, Visible
<1>5. \A d \in InodeIds : T[d] =
        IF IsDir(V[d]) THEN EntriesIn(V[d].content) \
             {e \in {<<running.name, running.id>>} : running.op = "unlink" /\ d = running.parent}
        ELSE {}
  BY DEF Tree, Entered
<1> HIDE DEF T, V
<1>6. ASSUME NEW d \in InodeIds
      PROVE  /\ IsDirectory(d) <=> IsDir(V[d])
             /\ IsDirectory(d) => EntriesOf(d) = EntriesIn(V[d].content)
             /\ T[d] # {} => IsDirectory(d) /\ T[d] \subseteq EntriesOf(d)
  <2>1. IsDirectory(d) <=> IsDir(V[d])
    BY <1>1, Visible DEF V
  <2>2. IsDirectory(d) => EntriesOf(d) = EntriesIn(V[d].content)
    BY <1>1, VisibleEntries DEF V, IsDirectory
  <2>3. IsDir(V[d]) => T[d] \subseteq EntriesIn(V[d].content)
    BY <1>5
  <2>4. T[d] # {} => IsDir(V[d])
    BY <1>5
  <2>5. QED
    BY <2>1, <2>2, <2>3, <2>4
<1>7. \A d \in InodeIds : \A e \in EntriesOf(d) :
        IsDirectory(d) /\ e[2] = ino => e \in T[d]
  <2>1. ASSUME NEW d \in InodeIds, NEW e \in EntriesOf(d), IsDirectory(d), e[2] = ino
        PROVE  e \in T[d]
    <3>1. e = <<running.name, running.id>> => e[2] = running.id
      OBVIOUS
    <3>2. running.op = "unlink" => e # <<running.name, running.id>>
      BY <2>1, <3>1 DEF Unlinking
    <3>3. e \in EntriesIn(V[d].content) /\ IsDir(V[d])
      BY <1>6, <2>1
    <3>4. QED
      BY <1>5, <3>2, <3>3
  <2>2. QED
    BY <2>1
<1>8. \A d \in InodeIds : Reached(T, d) /\ T[d] # {} => d \in Directories
  <2> SUFFICES ASSUME NEW d \in InodeIds, Reached(T, d), T[d] # {}
               PROVE  d \in Directories
    OBVIOUS
  <2>1. IsDirectory(d)
    BY <1>6
  <2>2. CASE d = Root
    BY <2>1, <2>2 DEF Directories
  <2>3. CASE MentionedIn(T, d)
    <3>0. PICK f \in InodeIds : \E e \in T[f] : e[2] = d
      BY <2>3 DEF MentionedIn
    <3>1. PICK e \in T[f] : e[2] = d
      BY <3>0
    <3>2. e[1] \in Names /\ e = <<e[1], e[2]>>
      BY <1>2 DEF TreeInv
    <3>3. IsDirectory(f) /\ <<e[1], d>> \in EntriesOf(f)
      BY <1>6, <3>1, <3>2
    <3>4. QED
      BY <2>1, <3>2, <3>3 DEF Directories
  <2>4. QED
    BY <2>2, <2>3 DEF Reached
<1>20. PICK d \in InodeIds : Reached(T, d) /\ \E e \in T[d] : e[2] = ino
  BY <1>3
<1>9. PICK e \in T[d] : Reached(T, d) /\ e[2] = ino
  BY <1>20
<1>10. d \in Directories /\ e \in EntriesOf(d)
  BY <1>6, <1>8, <1>9
<1>11. \A q : q \in NamesOf(ino) <=>
         \E f \in Directories : \E g \in EntriesOf(f) : q = <<f, g>> /\ g[2] = ino
  BY DEF NamesOf
<1>12. <<d, e>> \in NamesOf(ino)
  BY <1>9, <1>10, <1>11
<1>13. \A q \in NamesOf(ino) : q = <<d, e>>
  <2> SUFFICES ASSUME NEW q \in NamesOf(ino) PROVE q = <<d, e>>
    OBVIOUS
  <2>0. PICK f \in Directories : \E g \in EntriesOf(f) : q = <<f, g>> /\ g[2] = ino
    BY <1>11
  <2>1. PICK g \in EntriesOf(f) : q = <<f, g>> /\ g[2] = ino
    BY <2>0
  <2>2. f \in InodeIds /\ IsDirectory(f)
    BY <2>1, DirectoriesAreIds
  <2>3. g \in T[f]
    BY <1>7, <2>1, <2>2
  <2>4. f = d /\ g = e
    BY <1>2, <1>9, <2>1, <2>2, <2>3 DEF TreeInv
  <2>5. QED
    BY <2>1, <2>4
<1>14. NamesOf(ino) = {<<d, e>>}
  BY <1>12, <1>13
<1>15. Cardinality(NamesOf(ino)) = 1
  BY <1>14, FS_Singleton
<1>16. QED
  BY <1>4, <1>15

LEMMA InitialNames == DaemonInit => NamesIInv
BY InitialDaemon DEF NamesIInv

DaemonInv == DaemonIInv /\ NamesIInv

LEMMA DaemonInvAlways ==
  ASSUME PlainUse
  PROVE  DaemonSpec => []DaemonInv
<1>1. DaemonInit => DaemonInv
  BY InitialDaemon, InitialNames DEF DaemonInv
<1>2. DaemonInv /\ [DaemonNext]_allVars => DaemonInv'
  <2>1. DaemonInv /\ [DaemonNext]_allVars => DaemonIInv'
    BY DaemonNextIInv DEF DaemonInv
  <2>2. DaemonInv /\ [DaemonNext]_allVars => NamesIInv'
    BY DaemonNextNames DEF DaemonInv
  <2>3. QED
    BY <2>1, <2>2 DEF DaemonInv
<1>3. QED
  BY <1>1, <1>2, PTL DEF DaemonSpec

(* An open file stands for a file with one name, in a directory that can be *)
(* reached, until that name is unlinked: for any number of clients, inodes  *)
(* and blocks, and whatever ids are reused.  Clients' names have no ':',    *)
(* what they write does not read like the text of a directory, and they set *)
(* no attribute of a directory that they can reach.                         *)
THEOREM OpenFilesResolve ==
  ASSUME PlainUse
  PROVE  DaemonSpec => []HandlesResolve
<1>1. DaemonSpec => []DaemonInv
  BY DaemonInvAlways
<1>2. DaemonInv => HandlesResolve
  BY NamesResolve DEF DaemonInv
<1>3. QED
  BY <1>1, <1>2, PTL

LEMMA WriteDies ==
  ASSUME DaemonIInv, NamesIInv, NEW c \in Clients, Reads(c), held[c] # NoHandle,
         NEW data \in Contents, NEW off \in Offsets, chfs_write(c, data, off), ~up'
  PROVE  /\ ret'.op = "write"
         /\ held[Head(queue)].unlinked \/ ~Resizable(ret'.at + Len(ret'.data))
<1>1. up /\ running = NoHandler /\ Head(queue) = c
  BY DEF Reads
<1>2. /\ VisibleFiles[held[c].ino] = Stale \/ ~Resizable(off + Len(data))
      /\ \E ino, code : ret' = Call("write", ino, off, data, code)
  BY WriteEffect
<1>3. ret'.op = "write" /\ ret'.at = off /\ ret'.data = data
  BY <1>2 DEF Call
<1>4. VisibleFiles[held[c].ino] = Stale => held[c].unlinked
  BY <1>1, HeldConsistent
<1>5. QED
  BY <1>1, <1>2, <1>3, <1>4

(* What may be the end of the daemon. *)
DeathIsKnown ==
  CASE ret'.op \in {"mknod", "mkdir"} -> Free = {}
    [] ret'.op = "unlink" -> HasIndirect(lookup(ret'.id, ret'.data))
    [] ret'.op = "write" ->
         held[Head(queue)].unlinked \/ ~Resizable(ret'.at + Len(ret'.data))
    [] ret'.op = "setattr" -> ret'.data = <<"SIZE">> /\ ~Resizable(ret'.at)
    [] OTHER -> ret'.op \in {"unimplemented", "killed"}

LEMMA KnownDeath ==
  ASSUME PlainUse, DaemonIInv, NamesIInv, [DaemonNext]_allVars, up, ~up'
  PROVE  DeathIsKnown
<1>0. \A op, id, at, data, code :
        /\ Call(op, id, at, data, code).op = op /\ Call(op, id, at, data, code).id = id
        /\ Call(op, id, at, data, code).data = data
        /\ Call(op, id, at, data, code).at = at
  BY DEF Call
<1>1. CASE bootstrap_fuse
  BY <1>1, MountEffect
<1>2. ASSUME NEW op \in {"killed", "unimplemented"}, Dies(Call(op, 0, 0, <<>>, "ABORT"))
      PROVE  DeathIsKnown
  <2>1. ret'.op = op
    BY <1>2, <1>0 DEF Dies
  <2>2. QED
    BY <2>1 DEF DeathIsKnown
<1>3. CASE UNCHANGED allVars
  BY <1>3, StutterEffect
<1>4. ASSUME NEW c \in Clients, Send(c)
      PROVE  DeathIsKnown
  BY <1>4, SendEffect
<1>5. ASSUME NEW c \in Clients, \/ mk_helper_names(c, "mknod", "FILE", "ENOENT")
                                \/ mk_helper_names(c, "mkdir", "Directory", "ENOSYS")
      PROVE  DeathIsKnown
  <2>1. CASE mk_helper_names(c, "mknod", "FILE", "ENOENT")
    BY <2>1, NameEffect
  <2>2. CASE mk_helper_names(c, "mkdir", "Directory", "ENOSYS")
    BY <2>2, NameEffect
  <2>3. QED
    BY <1>5, <2>1, <2>2
<1>6. ASSUME NEW c \in Clients, chfs_unlink_rewrites(c)
      PROVE  DeathIsKnown
  BY <1>6, RewriteEffect
<1>7. ASSUME NEW c \in Clients, Reads(c), NEW parent \in Directories, NEW name \in Names,
             \/ chfs_lookup(c, parent, name) \/ chfs_unlink(c, parent, name)
             \/ mk_helper(c, "mknod", parent, name, "FILE", "ENOENT")
             \/ mk_helper(c, "mkdir", parent, name, "Directory", "ENOSYS")
      PROVE  DeathIsKnown
  <2>1. CASE chfs_lookup(c, parent, name)
    BY <1>7, <2>1, LookupEffect
  <2>2. CASE chfs_unlink(c, parent, name)
    <3>1. PICK id : /\ ret' = Call("unlink", parent, id, name, "SEGV")
                    /\ id = lookup(parent, name) /\ HasIndirect(id)
      BY <1>7, <2>2, UnlinkEffect
    <3>2. ret'.op = "unlink" /\ ret'.id = parent /\ ret'.data = name
      BY <1>0, <3>1
    <3>3. QED
      BY <3>1, <3>2 DEF DeathIsKnown
  <2>3. ASSUME NEW op \in {"mknod", "mkdir"}, NEW type \in Types, NEW otherwise,
               mk_helper(c, op, parent, name, type, otherwise)
        PROVE  DeathIsKnown
    <3>1. ret' = Call(op, parent, 0, name, "EXCEPTION") /\ Free = {}
      BY <1>7, <2>3, CreateEffect DEF CreateDone
    <3>2. ret'.op = op
      BY <1>0, <3>1
    <3>3. QED
      BY <3>1, <3>2 DEF DeathIsKnown
  <2>4. "FILE" \in Types /\ "Directory" \in Types
    BY DaemonAssumption
  <2>5. QED
    BY <1>7, <2>1, <2>2, <2>3, <2>4
<1>8. ASSUME NEW c \in Clients, Reads(c), NEW dir \in Directories, chfs_readdir(c, dir)
      PROVE  DeathIsKnown
  BY <1>8, ReaddirEffect
<1>9. ASSUME NEW c \in Clients, Reads(c), held[c] # NoHandle, chfs_getattr(c) \/ chfs_open(c)
      PROVE  DeathIsKnown
  BY <1>9, GetattrEffect, OpenEffect
<1>10. ASSUME NEW c \in Clients, Reads(c), held[c] # NoHandle, NEW off \in Offsets,
              \/ \E data \in Contents : chfs_write(c, data, off)
              \/ chfs_read(c, BlockSize, off)
              \/ \E mask \in Masks : chfs_setattr(c, held[c].ino, mask, off)
       PROVE  DeathIsKnown
  <2>1. off \in Nat /\ held[c].ino \in InodeIds
    BY <1>10, HeldId, LayoutAssumption
  <2>2. ASSUME NEW data \in Contents, chfs_write(c, data, off)
        PROVE  DeathIsKnown
    BY <1>10, <2>2, WriteDies DEF DeathIsKnown
  <2>3. CASE chfs_read(c, BlockSize, off)
    BY <1>10, <2>1, <2>3, ReadEffect
  <2>4. ASSUME NEW mask \in Masks, chfs_setattr(c, held[c].ino, mask, off)
        PROVE  DeathIsKnown
    <3>1. mask = "SIZE"
      BY DEF PlainUse
    <3>2. /\ \E ino : ret' = Call("setattr", ino, off, <<mask>>, "EXCEPTION")
          /\ ~Resizable(off)
      BY <1>10, <2>1, <2>4, <3>1, SetattrEffect
    <3>3. ret'.op = "setattr" /\ ret'.at = off /\ ret'.data = <<"SIZE">>
      BY <1>0, <3>1, <3>2
    <3>4. QED
      BY <3>2, <3>3 DEF DeathIsKnown
  <2>5. QED
    BY <1>10, <2>2, <2>3, <2>4
<1>11. "MODE" \notin Masks
  BY DEF PlainUse
<1>12. QED
  BY <1>1, <1>2, <1>3, <1>4, <1>5, <1>6, <1>7, <1>8, <1>9, <1>10, <1>11, StepCases

(* The daemon dies of the five known things and of a signal only: neither   *)
(* the unwrap in readdir nor the abort in write is reached for a directory, *)
(* nor for an open file that still has its name.                            *)
THEOREM DeathsAreKnown ==
  ASSUME PlainUse
  PROVE  DaemonSpec => KnownDeaths
<1>1. DaemonSpec => []DaemonInv
  BY DaemonInvAlways
<1>2. DaemonInv /\ [DaemonNext]_allVars => [up /\ ~up' => DeathIsKnown]_allVars
  BY KnownDeath DEF DaemonInv
<1>3. DaemonSpec => [][up /\ ~up' => DeathIsKnown]_allVars
  BY <1>1, <1>2, PTL DEF DaemonSpec
<1>4. QED
  BY <1>3 DEF KnownDeaths, DeathIsKnown

-----------------------------------------------------------------------------
(* The refinement: what clients see, in terms of V and of the tree.         *)

Creates(r) == r.op \in {"mknod", "mkdir"}

ObjectOf(V, r, id) ==
  IF V[id] # Stale /\ ~(Creates(r) /\ id = r.id)
    THEN IF IsDir(V[id]) THEN [type |-> "Directory", content |-> Entered(V, r, id)]
                         ELSE [type |-> V[id].type, content |-> V[id].content]
    ELSE Stale

ObjectsOf(V, r) == [id \in InodeIds |-> ObjectOf(V, r, id)]

ObjectsKnown == IInv => Objects = ObjectsOf(VisibleFiles, running)

LEMMA ObjectsSeen == ObjectsKnown
<1> SUFFICES ASSUME IInv, NEW id \in InodeIds
             PROVE  Objects[id] = ObjectOf(VisibleFiles, running, id)
  BY DEF ObjectsKnown, Objects, ObjectsOf
<1>1. /\ Readable(id) <=> VisibleFiles[id] # Stale
      /\ IsDirectory(id) <=> IsDir(VisibleFiles[id])
      /\ Readable(id) => /\ VisibleFiles[id].type = InodeOf(id).type
                         /\ VisibleFiles[id].content = read_file(id)
  BY Visible
<1>2. Readable(id) => EntriesOf(id) = EntriesIn(VisibleFiles[id].content)
  BY VisibleEntries
<1>3. CASE Readable(id) /\ ~(Creating /\ id = running.id) /\ IsDirectory(id)
  <2>1. Objects[id] = [type |-> "Directory", content |-> Seen(id)]
    BY <1>3 DEF Objects
  <2>2. Entered(VisibleFiles, running, id) = Seen(id)
    BY <1>1, <1>2, <1>3 DEF Entered, Seen, Unlinking
  <2>3. QED
    BY <1>1, <1>3, <2>1, <2>2 DEF ObjectOf, Creating, Creates
<1>4. CASE Readable(id) /\ ~(Creating /\ id = running.id) /\ ~IsDirectory(id)
  <2>1. Objects[id] = [type |-> InodeOf(id).type, content |-> read_file(id)]
    BY <1>4 DEF Objects
  <2>2. QED
    BY <1>1, <1>4, <2>1 DEF ObjectOf, Creating, Creates
<1>5. CASE ~Readable(id) \/ (Creating /\ id = running.id)
  BY <1>1, <1>5 DEF Objects, ObjectOf, Creating, Creates
<1>6. QED
  BY <1>3, <1>4, <1>5

LEMMA ObjectsSeenNext == ObjectsKnown'
BY ObjectsSeen, PTL

LEMMA ObjectsThen ==
  ASSUME IInv'
  PROVE  Objects' = ObjectsOf(VisibleFiles', running')
BY ObjectsSeenNext DEF ObjectsKnown

(* Nothing is seen to change. *)
LEMMA ObjectsSame ==
  ASSUME IInv, IInv', SameFiles, running' = running
  PROVE  Objects' = Objects
BY ObjectsSeen, ObjectsThen DEF ObjectsKnown, SameFiles

(* The predicates of Namespace. *)
LEMMA Abstracted ==
  ASSUME IInv, Consistent(VisibleFiles, Live, running, held)
  PROVE  LET V == VisibleFiles
             T == Tree(V, running)
         IN /\ \A id \in InodeIds : ~(Creates(running) /\ id = running.id) =>
                 /\ Abstraction!Exists(id) <=> V[id] # Stale
                 /\ Abstraction!IsDirectory(id) <=> IsDir(V[id])
                 /\ Abstraction!IsFile(id) <=> V[id] # Stale /\ ~IsDir(V[id])
                 /\ IsDir(V[id]) =>
                      Objects[id] = [type |-> "Directory", content |-> T[id]]
                 /\ V[id] # Stale /\ ~IsDir(V[id]) => Objects[id] = V[id]
            /\ \A id \in InodeIds :
                 Creates(running) /\ id = running.id => ~Abstraction!Exists(id)
            /\ \A id : Abstraction!Exists(id) => id \in InodeIds /\ V[id] # Stale
            /\ \A id : Abstraction!Mentioned(id) <=> MentionedIn(T, id)
<1> DEFINE V == VisibleFiles
           T == Tree(V, running)
<1>1. FilesInv(V, Live) /\ TreeInv(T, Live) /\ HandlerInv(V, T, Live, running)
  BY DEF Consistent
<1>2. Objects = ObjectsOf(V, running)
  BY ObjectsSeen DEF ObjectsKnown
<1>3. \A id \in InodeIds : T[id] = Entered(V, running, id)
  BY DEF Tree
<1>4. \A id \in InodeIds : T[id] # {} => IsDir(V[id])
  BY <1>3 DEF Entered
<1>5. Creates(running) => T[running.id] = {} \/ running.id \notin InodeIds
  <2> SUFFICES ASSUME Creates(running), running.id \in InodeIds PROVE T[running.id] = {}
    OBVIOUS
  <2>1. running # NoHandler
    BY DEF Creates, NoHandler, InHand
  <2>2. ~Reached(T, running.id)
    BY <1>1, <2>1 DEF HandlerInv, Creates
  <2>3. QED
    BY <1>1, <2>2 DEF TreeInv
<1> HIDE DEF V, T
<1>6. ASSUME NEW id \in InodeIds
      PROVE  Objects[id] = ObjectOf(V, running, id)
  BY <1>2 DEF ObjectsOf
<1>7. ASSUME NEW id \in InodeIds, ~(Creates(running) /\ id = running.id)
      PROVE  /\ Abstraction!Exists(id) <=> V[id] # Stale
             /\ Abstraction!IsDirectory(id) <=> IsDir(V[id])
             /\ Abstraction!IsFile(id) <=> V[id] # Stale /\ ~IsDir(V[id])
             /\ IsDir(V[id]) => Objects[id] = [type |-> "Directory", content |-> T[id]]
             /\ V[id] # Stale /\ ~IsDir(V[id]) => Objects[id] = V[id]
  <2>1. CASE V[id] = Stale
    <3>1. Objects[id] = Stale /\ ~IsDir(V[id])
      BY <1>6, <2>1 DEF ObjectOf, IsDir
    <3>2. QED
      BY <2>1, <3>1
         DEF Abstraction!Exists, Abstraction!IsDirectory, Abstraction!IsFile
  <2>2. CASE IsDir(V[id])
    <3>1. V[id] # Stale
      BY <2>2 DEF IsDir
    <3>2. Objects[id] = [type |-> "Directory", content |-> T[id]]
      BY <1>3, <1>6, <1>7, <2>2, <3>1 DEF ObjectOf
    <3>3. Objects[id].type = "Directory" /\ Objects[id] # Stale
      BY <3>2 DEF Stale
    <3>4. QED
      BY <2>2, <3>1, <3>2, <3>3
         DEF Abstraction!Exists, Abstraction!IsDirectory, Abstraction!IsFile
  <2>3. CASE V[id] # Stale /\ ~IsDir(V[id])
    <3>1. V[id].type = "FILE" /\ V[id] = [type |-> V[id].type, content |-> V[id].content]
      BY <1>1, <2>3 DEF FilesInv, IsDir
    <3>2. Objects[id] = V[id]
      BY <1>6, <1>7, <2>3, <3>1 DEF ObjectOf
    <3>3. QED
      BY <2>3, <3>1, <3>2
         DEF Abstraction!Exists, Abstraction!IsDirectory, Abstraction!IsFile
  <2>4. QED
    BY <2>1, <2>2, <2>3
<1>8. ASSUME NEW id \in InodeIds, Creates(running), id = running.id
      PROVE  ~Abstraction!Exists(id)
  BY <1>6, <1>8 DEF ObjectOf, Abstraction!Exists
<1>9. \A id : Abstraction!Exists(id) => id \in InodeIds /\ V[id] # Stale
  BY <1>7, <1>8 DEF Abstraction!Exists
<1>10. ASSUME NEW id
       PROVE  Abstraction!Mentioned(id) <=> MentionedIn(T, id)
  <2>1. ASSUME NEW d \in InodeIds, NEW e, Abstraction!IsDirectory(d), e \in Objects[d].content
        PROVE  e \in T[d]
    <3>1. ~(Creates(running) /\ d = running.id)
      BY <1>8, <2>1 DEF Abstraction!IsDirectory
    <3>2. IsDir(V[d])
      BY <1>7, <2>1, <3>1
    <3>3. Objects[d] = [type |-> "Directory", content |-> T[d]]
      BY <1>7, <3>1, <3>2
    <3>4. QED
      BY <2>1, <3>3
  <2>2. ASSUME NEW d \in InodeIds, NEW e \in T[d]
        PROVE  Abstraction!IsDirectory(d) /\ e \in Objects[d].content
    <3>1. IsDir(V[d]) /\ ~(Creates(running) /\ d = running.id)
      BY <1>4, <1>5
    <3>2. Abstraction!IsDirectory(d)
      BY <1>7, <3>1
    <3>3. Objects[d] = [type |-> "Directory", content |-> T[d]]
      BY <1>7, <3>1
    <3>4. QED
      BY <3>2, <3>3
  <2>3. QED
    BY <2>1, <2>2 DEF Abstraction!Mentioned, MentionedIn
<1>11. QED
  BY <1>7, <1>8, <1>9, <1>10 DEF V, T

LEMMA NamedIn ==
  ASSUME IInv, Consistent(VisibleFiles, Live, running, held),
         NEW parent \in InodeIds, IsDir(VisibleFiles[parent]),
         ~(Creates(running) /\ parent = running.id), NEW name
  PROVE  LET T == Tree(VisibleFiles, running)
         IN /\ (\A e \in T[parent] : e[1] # name) => Abstraction!Named(parent, name) = {}
            /\ (\E e \in T[parent] : e[1] = name) => Abstraction!Named(parent, name) # {}
            /\ \A id : <<name, id>> \in T[parent] => Abstraction!Named(parent, name) = {id}
<1> DEFINE T == Tree(VisibleFiles, running)
           named == {e[2] : e \in {f \in T[parent] : f[1] = name}}
<1>1. TreeInv(T, Live)
  BY DEF Consistent
<1>2. Objects[parent] = [type |-> "Directory", content |-> T[parent]]
  BY Abstracted
<1> HIDE DEF T
<1>3. Objects[parent].content = T[parent]
  BY <1>2
<1>4. Abstraction!Named(parent, name) = named
  BY <1>3 DEF Abstraction!Named
<1>5. (\A e \in T[parent] : e[1] # name) => named = {}
  OBVIOUS
<1>6. (\E e \in T[parent] : e[1] = name) => named # {}
  OBVIOUS
<1>7. ASSUME NEW id, <<name, id>> \in T[parent]
      PROVE  named = {id}
  <2>1. PICK e : e = <<name, id>>
    OBVIOUS
  <2>2. e \in T[parent] /\ e[1] = name /\ e[2] = id
    BY <1>7, <2>1
  <2>3. id \in named
    BY <2>2
  <2>4. \A f \in T[parent] : f[1] = name => f = e
    BY <1>1, <2>2 DEF TreeInv
  <2>5. QED
    BY <2>2, <2>3, <2>4
<1> HIDE DEF named
<1>8. QED
  BY <1>4, <1>5, <1>6, <1>7 DEF T

AbstractStep == [Abstraction!Next]_<<Objects, LastCall>>

LEMMA CallFields ==
  ASSUME NEW op, NEW id, NEW at, NEW data, NEW code, NEW call,
         call = Call(op, id, at, data, code)
  PROVE  /\ call.op = op /\ call.id = id /\ call.at = at
         /\ call.data = data /\ call.code = code
BY DEF Call

LEMMA LastAnswer ==
  /\ running.op # "unlink" => LastCall = ret
  /\ running' = NoHandler => LastCall' = ret'
  /\ NoHandler.op = "none" /\ ~Creates(NoHandler)
BY DEF LastCall, Unlinking, NoHandler, InHand, Creates

(* What a handler knows when it reads a request, in the words of Namespace. *)
LEMMA DirectoryAbstracted ==
  ASSUME DaemonIInv, NamesIInv, up, running = NoHandler,
         NEW parent \in Directories, NEW name
  PROVE  LET entries == EntriesIn(VisibleFiles[parent].content)
         IN /\ parent \in InodeIds /\ Abstraction!IsDirectory(parent)
            /\ Objects[parent].content = entries
            /\ (\A e \in entries : e[1] # name) => Abstraction!Named(parent, name) = {}
            /\ (\E e \in entries : e[1] = name) => Abstraction!Named(parent, name) # {}
            /\ \A id : <<name, id>> \in entries => Abstraction!Named(parent, name) = {id}
<1> DEFINE T == Tree(VisibleFiles, running)
           entries == EntriesIn(VisibleFiles[parent].content)
<1>1. IInv /\ Consistent(VisibleFiles, Live, running, held)
  BY NamesNow DEF DaemonIInv
<1>2. parent \in InodeIds /\ IsDir(VisibleFiles[parent])
  BY DirectoryThere
<1>3. ~(Creates(running) /\ parent = running.id) /\ NoHandler.op # "unlink"
  BY LastAnswer
<1>4. T[parent] = entries
  BY <1>2, <1>3, AllInTree
<1>5. /\ Abstraction!IsDirectory(parent)
      /\ Objects[parent] = [type |-> "Directory", content |-> T[parent]]
  BY <1>1, <1>2, <1>3, Abstracted
<1>6. /\ (\A e \in T[parent] : e[1] # name) => Abstraction!Named(parent, name) = {}
      /\ (\E e \in T[parent] : e[1] = name) => Abstraction!Named(parent, name) # {}
      /\ \A id : <<name, id>> \in T[parent] => Abstraction!Named(parent, name) = {id}
  BY <1>1, <1>2, <1>3, NamedIn
<1> HIDE DEF T
<1>7. QED
  BY <1>2, <1>4, <1>5, <1>6

LEMMA InodeAbstracted ==
  ASSUME DaemonIInv, NamesIInv, up, running = NoHandler, NEW id
  PROVE  /\ Abstraction!Exists(id) => id \in InodeIds /\ VisibleFiles[id] # Stale
         /\ id \in InodeIds =>
              /\ Abstraction!Exists(id) <=> VisibleFiles[id] # Stale
              /\ Abstraction!IsDirectory(id) <=> IsDir(VisibleFiles[id])
              /\ Abstraction!IsFile(id) <=> VisibleFiles[id] # Stale /\ ~IsDir(VisibleFiles[id])
              /\ Abstraction!IsFile(id) => Objects[id] = VisibleFiles[id]
         /\ Abstraction!Mentioned(id) <=> MentionedIn(Tree(VisibleFiles, NoHandler), id)
<1>1. IInv /\ Consistent(VisibleFiles, Live, running, held)
  BY NamesNow DEF DaemonIInv
<1>2. ~Creates(running)
  BY LastAnswer
<1>3. QED
  BY <1>1, <1>2, Abstracted

LEMMA LookupAbstract ==
  ASSUME DaemonIInv, NamesIInv, NEW c \in Clients, Reads(c),
         NEW parent \in Directories, NEW name \in Names, chfs_lookup(c, parent, name)
  PROVE  Abstraction!Lookup
<1> DEFINE entries == EntriesIn(VisibleFiles[parent].content)
<1>1. up /\ running = NoHandler /\ IInv
  BY DEF Reads, DaemonIInv
<1>2. IInv' /\ SameFiles /\ running' = NoHandler
  BY LookupEffect DEF DaemonIInv
<1>3. Objects' = Objects /\ LastCall' = ret'
  BY <1>1, <1>2, ObjectsSame, LastAnswer
<1>4. /\ (\A e \in entries : e[1] # name) => Abstraction!Named(parent, name) = {}
      /\ \A id : <<name, id>> \in entries => Abstraction!Named(parent, name) = {id}
  BY <1>1, DirectoryAbstracted
<1>5. CASE /\ ret' = Call("lookup", parent, 0, name, "ENOENT")
           /\ \A e \in entries : e[1] # name
  <2>1. ret'.op = "lookup" /\ ret'.id = parent /\ ret'.data = name /\ ret'.code = "ENOENT"
    BY <1>5, CallFields
  <2>2. QED
    BY <1>3, <1>4, <1>5, <2>1 DEF Abstraction!Lookup, Abstraction!Answers
<1>6. ASSUME NEW id, <<name, id>> \in entries,
             ret' = Call("lookup", parent, id, name, "ERANGE"),
             id \in InodeIds => VisibleFiles[id] = Stale
      PROVE  Abstraction!Lookup
  <2>1. ret'.op = "lookup" /\ ret'.id = parent /\ ret'.data = name /\ ret'.code = "ERANGE"
    BY <1>6, CallFields
  <2>2. Abstraction!Named(parent, name) = {id}
    BY <1>4, <1>6
  <2>3. ~Abstraction!Exists(id)
    BY <1>1, <1>6, InodeAbstracted
  <2>4. QED
    BY <1>3, <2>1, <2>2, <2>3 DEF Abstraction!Lookup, Abstraction!Answers
<1>7. ASSUME NEW id, <<name, id>> \in entries,
             ret' = Call("lookup", parent, id, name, "OK"),
             id \in InodeIds, VisibleFiles[id] # Stale
      PROVE  Abstraction!Lookup
  <2>1. /\ ret'.op = "lookup" /\ ret'.id = parent /\ ret'.data = name /\ ret'.code = "OK"
        /\ ret'.at = id
    BY <1>7, CallFields
  <2>2. Abstraction!Named(parent, name) = {id}
    BY <1>4, <1>7
  <2>3. Abstraction!Exists(id)
    BY <1>1, <1>7, InodeAbstracted
  <2>4. QED
    BY <1>3, <2>1, <2>2, <2>3 DEF Abstraction!Lookup, Abstraction!Answers
<1>8. QED
  BY <1>5, <1>6, <1>7, LookupEffect

LEMMA ReaddirAbstract ==
  ASSUME DaemonIInv, NamesIInv, NEW c \in Clients, Reads(c), NEW dir \in Directories,
         chfs_readdir(c, dir)
  PROVE  Abstraction!Readdir
<1>1. up /\ running = NoHandler /\ IInv
  BY DEF Reads, DaemonIInv
<1>2. /\ IInv' /\ SameFiles /\ running' = NoHandler
      /\ ret' = Call("readdir", dir, 0, EntriesIn(VisibleFiles[dir].content), "OK")
  BY ReaddirEffect DEF DaemonIInv
<1>3. Objects' = Objects /\ LastCall' = ret'
  BY <1>1, <1>2, ObjectsSame, LastAnswer
<1>4. /\ Abstraction!IsDirectory(dir)
      /\ Objects[dir].content = EntriesIn(VisibleFiles[dir].content)
  BY <1>1, DirectoryAbstracted
<1>5. /\ ret'.op = "readdir" /\ ret'.id = dir /\ ret'.code = "OK"
      /\ ret'.data = EntriesIn(VisibleFiles[dir].content)
  BY <1>2, CallFields
<1>6. QED
  BY <1>3, <1>4, <1>5 DEF Abstraction!Readdir, Abstraction!Answers

(* An open file is a file, or an id that came back as a directory's. *)
LEMMA HeldAbstracted ==
  ASSUME DaemonIInv, NamesIInv, NEW c \in Clients, Reads(c), held[c] # NoHandle
  PROVE  LET ino == held[c].ino
         IN /\ ino \in InodeIds
            /\ VisibleFiles[ino] = Stale <=> ~Abstraction!Exists(ino)
            /\ VisibleFiles[ino] # Stale /\ ~IsDir(VisibleFiles[ino]) =>
                 Abstraction!IsFile(ino) /\ Objects[ino] = VisibleFiles[ino]
            /\ IsDir(VisibleFiles[ino]) =>
                 ino # Root /\ Abstraction!IsDirectory(ino) /\ ~Abstraction!Mentioned(ino)
<1>1. up /\ running = NoHandler
  BY DEF Reads
<1>2. /\ held[c].ino \in InodeIds /\ held[c].ino # Root
      /\ IsDir(VisibleFiles[held[c].ino]) =>
           ~MentionedIn(Tree(VisibleFiles, NoHandler), held[c].ino)
  BY <1>1, HeldConsistent DEF Reached
<1>3. QED
  BY <1>1, <1>2, InodeAbstracted

LEMMA GetattrAbstract ==
  ASSUME DaemonIInv, NamesIInv, NEW c \in Clients, Reads(c), held[c] # NoHandle,
         chfs_getattr(c)
  PROVE  Abstraction!Getattr \/ Abstraction!Astray
<1> DEFINE ino == held[c].ino
<1>1. up /\ running = NoHandler /\ IInv
  BY DEF Reads, DaemonIInv
<1>2. /\ IInv' /\ SameFiles /\ running' = NoHandler
      /\ ret' = Call("getattr", ino, 0, <<>>,
                     IF VisibleFiles[ino] # Stale THEN "OK" ELSE "ENOENT")
  BY GetattrEffect DEF DaemonIInv
<1>3. Objects' = Objects /\ LastCall' = ret'
  BY <1>1, <1>2, ObjectsSame, LastAnswer
<1>4. /\ ret'.op = "getattr" /\ ret'.id = ino
      /\ ret'.code = IF VisibleFiles[ino] # Stale THEN "OK" ELSE "ENOENT"
  BY <1>2, CallFields
<1>5. /\ VisibleFiles[ino] = Stale <=> ~Abstraction!Exists(ino)
      /\ VisibleFiles[ino] # Stale /\ ~IsDir(VisibleFiles[ino]) => Abstraction!IsFile(ino)
      /\ IsDir(VisibleFiles[ino]) =>
           ino # Root /\ Abstraction!IsDirectory(ino) /\ ~Abstraction!Mentioned(ino)
  BY HeldAbstracted
<1> HIDE DEF ino
<1>6. QED
  BY <1>3, <1>4, <1>5 DEF Abstraction!Getattr, Abstraction!Astray, Abstraction!Answers, IsDir

LEMMA OpenAbstract ==
  ASSUME DaemonIInv, NamesIInv, NEW c \in Clients, Reads(c), held[c] # NoHandle,
         chfs_open(c)
  PROVE  Abstraction!Open
<1>1. up /\ running = NoHandler /\ IInv
  BY DEF Reads, DaemonIInv
<1>2. /\ IInv' /\ SameFiles /\ running' = NoHandler
      /\ ret' = Call("open", held[c].ino, 0, <<>>, "OK")
  BY OpenEffect DEF DaemonIInv
<1>3. Objects' = Objects /\ LastCall' = ret'
  BY <1>1, <1>2, ObjectsSame, LastAnswer
<1>4. ret'.op = "open" /\ ret'.code = "OK"
  BY <1>2, CallFields
<1>5. QED
  BY <1>3, <1>4 DEF Abstraction!Open, Abstraction!Answers

(* A read returns the cells that are there. *)
LEMMA SliceCells ==
  ASSUME NEW content \in Seq(Cells), NEW off \in Nat, off < Len(content)
  PROVE  LET s == Slice(content, off, BlockSize)
         IN /\ s # <<>>
            /\ \A k \in DOMAIN s : s[k] = content[off + k]
<1> DEFINE n == Len(content)
           end == IF off + BlockSize > n THEN n ELSE off + BlockSize
<1>1. n \in Nat /\ BlockSize \in Nat \ {0}
  BY LayoutAssumption
<1>2. off + 1 \in 1 .. n /\ end \in off + 1 .. n
  BY <1>1
<1>3. Slice(content, off, BlockSize) = SubSeq(content, off + 1, end)
  BY DEF Slice
<1> HIDE DEF end
<1>4. /\ SubSeq(content, off + 1, end) \in Seq(Cells)
      /\ Len(SubSeq(content, off + 1, end)) = end - off
      /\ \A k \in 1 .. end - off : SubSeq(content, off + 1, end)[k] = content[off + k]
  BY <1>1, <1>2
<1> DEFINE s == SubSeq(content, off + 1, end)
<1>5. s \in Seq(Cells) /\ Len(s) = end - off /\ DOMAIN s = 1 .. end - off
  BY <1>4
<1>6. s # <<>>
  <2>1. end - off > 0
    BY <1>1, <1>2
  <2> HIDE DEF s
  <2>2. QED
    BY <1>5, <2>1
<1>7. QED
  BY <1>3, <1>4, <1>5, <1>6

LEMMA ReadAbstract ==
  ASSUME DaemonIInv, NamesIInv, NEW c \in Clients, Reads(c), held[c] # NoHandle,
         NEW off \in Nat, chfs_read(c, BlockSize, off)
  PROVE  Abstraction!Read \/ Abstraction!Astray
<1> DEFINE ino == held[c].ino
           content == VisibleFiles[ino].content
           data == IF off >= Len(content) THEN <<>> ELSE Slice(content, off, BlockSize)
<1>1. up /\ running = NoHandler /\ IInv
  BY DEF Reads, DaemonIInv
<1>2. /\ IInv' /\ SameFiles /\ running' = NoHandler /\ ino \in InodeIds
      /\ IF VisibleFiles[ino] = Stale
           THEN ret' = Call("read", ino, off, <<>>, "ERANGE")
           ELSE ret' = Call("read", ino, off, data, "OK")
  BY ReadEffect DEF DaemonIInv
<1>3. Objects' = Objects /\ LastCall' = ret'
  BY <1>1, <1>2, ObjectsSame, LastAnswer
<1>4. /\ VisibleFiles[ino] = Stale <=> ~Abstraction!Exists(ino)
      /\ VisibleFiles[ino] # Stale /\ ~IsDir(VisibleFiles[ino]) =>
           Abstraction!IsFile(ino) /\ Objects[ino] = VisibleFiles[ino]
      /\ IsDir(VisibleFiles[ino]) =>
           ino # Root /\ Abstraction!IsDirectory(ino) /\ ~Abstraction!Mentioned(ino)
  BY HeldAbstracted
<1>5. CASE VisibleFiles[ino] = Stale
  <2>1. ret'.op = "read" /\ ret'.id = ino /\ ret'.code = "ERANGE"
    BY <1>2, <1>5, CallFields
  <2> HIDE DEF ino
  <2>2. QED
    BY <1>3, <1>4, <1>5, <2>1 DEF Abstraction!Read, Abstraction!Answers
<1>6. CASE VisibleFiles[ino] # Stale
  <2>1. /\ ret'.op = "read" /\ ret'.id = ino /\ ret'.code = "OK"
        /\ ret'.at = off /\ ret'.data = data
    BY <1>2, <1>6, CallFields
  <2>2. content \in Seq(Cells)
    BY <1>1, <1>2, <1>6, Visible
  <2>3. /\ data = <<>> <=> off >= Len(content)
        /\ \A k \in DOMAIN data : data[k] = content[off + k]
    <3> HIDE DEF content, ino
    <3>1. CASE off >= Len(content)
      BY <3>1
    <3>2. CASE ~(off >= Len(content))
      <4>1. off < Len(content)
        BY <2>2, <3>2
      <4>2. QED
        BY <2>2, <3>2, <4>1, SliceCells
    <3>3. QED
      BY <3>1, <3>2
  <2>4. CASE IsDir(VisibleFiles[ino])
    <3> HIDE DEF ino, data
    <3>1. QED
      BY <1>3, <1>4, <2>1, <2>4 DEF Abstraction!Astray
  <2>5. CASE ~IsDir(VisibleFiles[ino])
    <3>1. Abstraction!IsFile(ino) /\ Objects[ino].content = content
      BY <1>4, <1>6, <2>5
    <3> HIDE DEF ino, data, content
    <3>2. QED
      BY <1>3, <2>1, <2>3, <3>1 DEF Abstraction!Read, Abstraction!Answers
  <2>6. QED
    BY <2>4, <2>5
<1>7. QED
  BY <1>5, <1>6

LEMMA PatchedIsOverwritten ==
  ASSUME NEW content \in Seq(Cells), NEW data \in Seq(Cells), NEW offset \in Nat
  PROVE  Patched(content, data, offset) = Abstraction!Overwritten(content, offset, data)
<1>1. Len(content) \in Nat /\ Len(data) \in Nat
  OBVIOUS
<1>2. \A k \in Nat : k \in offset + 1 .. offset + Len(data)
                       <=> k > offset /\ k <= offset + Len(data)
  BY <1>1
<1>3. QED
  BY <1>1, <1>2 DEF Patched, Abstraction!Overwritten, Abstraction!Sized

(* The content of an open file changes: what clients see changes so. *)
LEMMA ContentAbstract ==
  ASSUME PlainUse, DaemonIInv, NamesIInv, NEW c \in Clients, Reads(c), held[c] # NoHandle,
         VisibleFiles[held[c].ino] # Stale,
         NEW new \in Seq(Cells),
         Pieces(VisibleFiles[held[c].ino].content) = {} => Pieces(new) = {},
         VisibleFiles' = WithContent(VisibleFiles, held[c].ino, new),
         Live' = Live, running' = NoHandler, IInv',
         \A k \in Clients : held'[k] \in {held[k], NoHandle}
  PROVE  IF IsDir(VisibleFiles[held[c].ino])
           THEN Objects' = Objects
           ELSE Objects' = [Objects EXCEPT ![held[c].ino].content = new]
<1> DEFINE ino == held[c].ino
           V == VisibleFiles
<1>1. running = NoHandler /\ IInv /\ up /\ ~Creates(NoHandler)
  BY LastAnswer DEF Reads, DaemonIInv
<1>2. Tree(VisibleFiles', NoHandler) = Tree(VisibleFiles, NoHandler)
  BY ContentNames
<1>3. FilesInv(V, Live) /\ ino \in InodeIds
  BY <1>1, NamesNow, HeldConsistent DEF Consistent
<1>4. PICK V2 : V2 = VisibleFiles'
  OBVIOUS
<1>5. OnlyContent(V, V2, ino, new)
  <2>1. V2 = WithContent(V, ino, new)
    BY <1>4
  <2>2. FilesInv(V, Live)
    BY <1>3
  <2> HIDE DEF V, ino
  <2>3. ino \in InodeIds
    BY <1>3
  <2>4. V[ino] # Stale
    BY DEF V, ino
  <2>5. QED
    BY <2>1, <2>2, <2>3, <2>4, ContentChanged
<1>6. Objects = ObjectsOf(V, NoHandler) /\ Objects' = ObjectsOf(V2, NoHandler)
  BY <1>1, <1>4, ObjectsSeen, ObjectsThen DEF ObjectsKnown
<1>7. \A i \in InodeIds : Entered(V2, NoHandler, i) = Entered(V, NoHandler, i)
  <2>1. Tree(V2, NoHandler) = Tree(V, NoHandler)
    BY <1>2, <1>4
  <2>2. ASSUME NEW i \in InodeIds
        PROVE  Entered(V2, NoHandler, i) = Entered(V, NoHandler, i)
    <3>1. Tree(V2, NoHandler)[i] = Tree(V, NoHandler)[i]
      BY <2>1
    <3>2. QED
      BY <3>1 DEF Tree
  <2>3. QED
    BY <2>2
<1> HIDE DEF V
<1>8. V[ino] # Stale
  BY DEF V
<1> HIDE DEF ino
<1>9. /\ V2[ino] # Stale /\ V2[ino].type = V[ino].type /\ V2[ino].content = new
      /\ \A i \in InodeIds \ {ino} : V2[i] = V[i]
      /\ \A i \in InodeIds : IsDir(V2[i]) <=> IsDir(V[i])
  BY <1>5 DEF OnlyContent
<1>10. \A i \in InodeIds \ {ino} : ObjectOf(V2, NoHandler, i) = ObjectOf(V, NoHandler, i)
  BY <1>7, <1>9 DEF ObjectOf
<1>11. CASE IsDir(V[ino])
  <2>1. ObjectOf(V2, NoHandler, ino) = ObjectOf(V, NoHandler, ino)
    BY <1>3, <1>7, <1>8, <1>9, <1>11 DEF ObjectOf
  <2>2. \A i \in InodeIds : ObjectOf(V2, NoHandler, i) = ObjectOf(V, NoHandler, i)
    BY <1>10, <2>1
  <2>3. Objects' = Objects
    BY <1>6, <2>2 DEF ObjectsOf
  <2>4. QED
    BY <1>11, <2>3 DEF V, ino
<1>12. CASE ~IsDir(V[ino])
  <2>1. /\ ObjectOf(V, NoHandler, ino) = [type |-> V[ino].type, content |-> V[ino].content]
        /\ ObjectOf(V2, NoHandler, ino) = [type |-> V[ino].type, content |-> new]
    BY <1>1, <1>3, <1>8, <1>9, <1>12 DEF ObjectOf
  <2>2. /\ Objects = [i \in InodeIds |-> Objects[i]]
        /\ Objects[ino] = [type |-> V[ino].type, content |-> V[ino].content]
        /\ Objects' = [i \in InodeIds |->
             IF i = ino THEN [type |-> V[ino].type, content |-> new] ELSE Objects[i]]
    BY <1>3, <1>6, <1>10, <2>1 DEF ObjectsOf
  <2>3. PICK ty, old : Objects[ino] = [type |-> ty, content |-> old] /\ ty = V[ino].type
    BY <2>2
  <2>4. Objects' = [Objects EXCEPT ![ino].content = new]
    BY <1>3, <2>2, <2>3
  <2>5. QED
    BY <1>12, <2>4 DEF V, ino
<1>13. QED
  BY <1>11, <1>12

LEMMA WriteAbstract ==
  ASSUME PlainUse, DaemonIInv, NamesIInv, NEW c \in Clients, Reads(c), held[c] # NoHandle,
         NEW data \in Contents, NEW off \in Offsets, chfs_write(c, data, off), up'
  PROVE  Abstraction!Write \/ Abstraction!Astray \/ Abstraction!ChangeFails
<1> DEFINE ino == held[c].ino
           text == VisibleFiles[ino].content
           new == Patched(text, data, off)
<1>1. up /\ running = NoHandler /\ IInv
  BY DEF Reads, DaemonIInv
<1>2. IInv' /\ running' = NoHandler /\ ino \in InodeIds /\ LastCall' = ret'
  BY WriteEffect, LastAnswer DEF DaemonIInv
<1>3. CASE /\ held' = held /\ Live' = Live
           /\ ret' = Call("write", ino, off, data, "OK")
           /\ VisibleFiles[ino] # Stale
           /\ VisibleFiles' = [VisibleFiles EXCEPT ![ino].content = new]
  <2>1. text \in Seq(Cells)
    BY <1>1, <1>2, <1>3, Visible
  <2>2. data \in Seq(Cells) /\ off \in Nat /\ Pieces(data) = {} /\ PlainText
    BY LayoutAssumption DEF PlainUse, PlainText
  <2>3. new \in Seq(Cells) /\ new = Abstraction!Overwritten(text, off, data)
    BY <2>1, <2>2, PatchedTyped, PatchedIsOverwritten
  <2>4. Pieces(VisibleFiles[held[c].ino].content) = {} => Pieces(new) = {}
    BY <2>1, <2>2, PatchedPlain
  <2>5. /\ ret'.op = "write" /\ ret'.id = ino /\ ret'.at = off
        /\ ret'.data = data /\ ret'.code = "OK"
    BY <1>3, CallFields
  <2>6. VisibleFiles' = WithContent(VisibleFiles, held[c].ino, new)
    BY <1>3 DEF WithContent
  <2> HIDE DEF new
  <2>7. \A k \in Clients : held'[k] \in {held[k], NoHandle}
    BY <1>3
  <2>8. VisibleFiles[held[c].ino] # Stale /\ Live' = Live
    BY <1>3
  <2>9. IF IsDir(VisibleFiles[held[c].ino])
          THEN Objects' = Objects
          ELSE Objects' = [Objects EXCEPT ![held[c].ino].content = new]
    BY <1>2, <2>3, <2>4, <2>6, <2>7, <2>8, ContentAbstract
  <2>10. /\ ~IsDir(VisibleFiles[ino]) =>
              Abstraction!IsFile(ino) /\ Objects[ino] = VisibleFiles[ino]
         /\ IsDir(VisibleFiles[ino]) =>
              ino # Root /\ Abstraction!IsDirectory(ino) /\ ~Abstraction!Mentioned(ino)
    BY <1>3, HeldAbstracted
  <2>11. CASE IsDir(VisibleFiles[ino])
    <3>1. Objects' = Objects
      BY <2>9, <2>11
    <3> HIDE DEF ino, text
    <3>2. QED
      BY <1>2, <2>5, <2>10, <2>11, <3>1 DEF Abstraction!Astray
  <2>12. CASE ~IsDir(VisibleFiles[ino])
    <3>1. Objects' = [Objects EXCEPT ![ino].content = new]
      BY <2>9, <2>12
    <3>2. Objects[ino].content = text
      BY <2>10, <2>12
    <3> HIDE DEF ino, text
    <3>3. Objects' = [Objects EXCEPT ![ino].content = Abstraction!Overwritten(@, off, data)]
      BY <2>3, <3>1, <3>2
    <3>4. QED
      BY <1>2, <2>5, <2>10, <2>12, <3>3 DEF Abstraction!Write, Abstraction!Answers
  <2>13. QED
    BY <2>11, <2>12
<1>4. CASE SameFiles /\ ret' = Call("write", ino, off, data, "ENOSYS")
  <2>1. Objects' = Objects
    BY <1>1, <1>2, <1>4, ObjectsSame
  <2>2. ret'.op = "write" /\ ret'.code = "ENOSYS"
    BY <1>4, CallFields
  <2>3. QED
    BY <1>2, <2>1, <2>2 DEF Abstraction!ChangeFails, Abstraction!Answers
<1>5. QED
  BY <1>3, <1>4, WriteEffect

LEMMA SetattrAbstract ==
  ASSUME PlainUse, DaemonIInv, NamesIInv, NEW c \in Clients, Reads(c), held[c] # NoHandle,
         NEW mask \in Masks, NEW off \in Offsets, chfs_setattr(c, held[c].ino, mask, off),
         up'
  PROVE  Abstraction!Truncate \/ Abstraction!Astray \/ Abstraction!ChangeFails
<1> DEFINE ino == held[c].ino
           text == VisibleFiles[ino].content
           new == Resized(text, off)
<1>1. up /\ running = NoHandler /\ IInv /\ ino \in InodeIds
  BY HeldId DEF Reads, DaemonIInv
<1>2. off \in Nat /\ mask = "SIZE"
  BY LayoutAssumption DEF PlainUse
<1>3. IInv' /\ running' = NoHandler /\ Live' = Live /\ LastCall' = ret'
  BY <1>1, <1>2, SetattrEffect, LastAnswer DEF DaemonIInv
<1>4. CASE /\ ret' = Call("setattr", ino, off, <<mask>>, "OK")
           /\ VisibleFiles[ino] # Stale
           /\ held' = GivenUp(ino) \/ held' = held
           /\ VisibleFiles' = [VisibleFiles EXCEPT ![ino].content = new]
  <2>1. text \in Seq(Cells)
    BY <1>1, <1>4, Visible
  <2>2. new \in Seq(Cells)
    BY <1>2, <2>1, ResizedTyped
  <2>3. new = Abstraction!Sized(text, off)
    BY DEF Resized, Abstraction!Sized
  <2>4. Pieces(VisibleFiles[held[c].ino].content) = {} => Pieces(new) = {}
    BY <1>2, <2>1, ResizedPlain DEF PlainUse
  <2>5. ret'.op = "setattr" /\ ret'.id = ino /\ ret'.at = off /\ ret'.code = "OK"
    BY <1>4, CallFields
  <2>6. VisibleFiles' = WithContent(VisibleFiles, held[c].ino, new)
    BY <1>4 DEF WithContent
  <2> HIDE DEF new
  <2>7. \A k \in Clients : held'[k] \in {held[k], NoHandle}
    BY <1>4, GivenUpHeld
  <2>8. VisibleFiles[held[c].ino] # Stale
    BY <1>4
  <2>9. IF IsDir(VisibleFiles[held[c].ino])
          THEN Objects' = Objects
          ELSE Objects' = [Objects EXCEPT ![held[c].ino].content = new]
    BY <1>3, <2>2, <2>4, <2>6, <2>7, <2>8, ContentAbstract
  <2>10. /\ ~IsDir(VisibleFiles[ino]) =>
              Abstraction!IsFile(ino) /\ Objects[ino] = VisibleFiles[ino]
         /\ IsDir(VisibleFiles[ino]) =>
              ino # Root /\ Abstraction!IsDirectory(ino) /\ ~Abstraction!Mentioned(ino)
    BY <1>4, HeldAbstracted
  <2>11. CASE IsDir(VisibleFiles[ino])
    <3>1. Objects' = Objects
      BY <2>9, <2>11
    <3> HIDE DEF ino, text
    <3>2. QED
      BY <1>3, <2>5, <2>10, <2>11, <3>1 DEF Abstraction!Astray
  <2>12. CASE ~IsDir(VisibleFiles[ino])
    <3>1. Objects' = [Objects EXCEPT ![ino].content = new]
      BY <2>9, <2>12
    <3>2. Objects[ino].content = text
      BY <2>10, <2>12
    <3> HIDE DEF ino, text
    <3>3. Objects' = [Objects EXCEPT ![ino].content = Abstraction!Sized(@, off)]
      BY <2>3, <3>1, <3>2
    <3>4. QED
      BY <1>3, <2>5, <2>10, <2>12, <3>3 DEF Abstraction!Truncate, Abstraction!Answers
  <2>13. QED
    BY <2>11, <2>12
<1>5. CASE SameFiles /\ ret' = Call("setattr", ino, off, <<mask>>, "ENOSYS")
  <2>1. Objects' = Objects
    BY <1>1, <1>3, <1>5, ObjectsSame
  <2>2. ret'.op = "setattr" /\ ret'.code = "ENOSYS"
    BY <1>5, CallFields
  <2>3. QED
    BY <1>3, <2>1, <2>2 DEF Abstraction!ChangeFails, Abstraction!Answers
<1>6. \/ SameFiles /\ ret' = Call("setattr", ino, off, <<mask>>, "ENOSYS")
      \/ /\ ret' = Call("setattr", ino, off, <<mask>>, "OK")
         /\ VisibleFiles[ino] # Stale
         /\ held' = GivenUp(ino) \/ held' = held
         /\ VisibleFiles' = [VisibleFiles EXCEPT ![ino].content = new]
  BY <1>1, <1>2, SetattrEffect
<1>7. QED
  BY <1>4, <1>5, <1>6

(* All is gone, or there is only an empty root. *)
LEMMA NothingSeen ==
  ASSUME NoFileThere', running' = NoHandler
  PROVE  Objects' = [id \in InodeIds |-> Stale]
<1>1. IInv' /\ VisibleFiles' = [id \in InodeIds |-> Stale]
  BY DEF NoFileThere
<1>2. Objects' = ObjectsOf(VisibleFiles', NoHandler)
  BY <1>1, ObjectsThen
<1>3. \A id \in InodeIds : ObjectOf(VisibleFiles', NoHandler, id) = Stale
  BY <1>1 DEF ObjectOf
<1>4. QED
  BY <1>2, <1>3 DEF ObjectsOf

LEMMA DeathAbstract ==
  ASSUME NEW op, NEW id, NEW at, NEW data, NEW code \in {"ABORT", "SEGV", "EXCEPTION"},
         ret' = Call(op, id, at, data, code), NoFileThere', running' = NoHandler
  PROVE  Abstraction!Death
<1>1. Objects' = [i \in InodeIds |-> Stale]
  BY NothingSeen
<1>2. LastCall' = ret' /\ ret'.code = code
  BY LastAnswer, CallFields
<1>3. QED
  BY <1>1, <1>2 DEF Abstraction!Death

LEMMA MountAbstract ==
  ASSUME DaemonIInv, bootstrap_fuse
  PROVE  Abstraction!Mount
<1>1. /\ IInv' /\ running' = NoHandler
      /\ ret' = Call("mount", Root, 0, <<>>, "OK")
      /\ VisibleFiles' =
           [id \in InodeIds |-> IF id = Root THEN [type |-> "Directory", content |-> <<>>]
                                             ELSE Stale]
  BY MountEffect DEF DaemonIInv
<1>2. Objects' = ObjectsOf(VisibleFiles', NoHandler)
  BY <1>1, ObjectsThen
<1>3. LastCall' = ret' /\ ret'.op = "mount" /\ ret'.code = "OK"
  BY <1>1, LastAnswer, CallFields
<1>4. PICK V2 : V2 = VisibleFiles'
  OBVIOUS
<1>5. \A id \in InodeIds :
        ObjectOf(V2, NoHandler, id) = IF id = Root THEN Abstraction!Empty("Directory")
                                                   ELSE Stale
  <2> SUFFICES ASSUME NEW id \in InodeIds
               PROVE  ObjectOf(V2, NoHandler, id) =
                        IF id = Root THEN Abstraction!Empty("Directory") ELSE Stale
    OBVIOUS
  <2>1. CASE id = Root
    <3>1. V2[id] = [type |-> "Directory", content |-> <<>>]
      BY <1>1, <1>4, <2>1
    <3>2. V2[id] # Stale /\ IsDir(V2[id]) /\ V2[id].content = <<>>
      BY <3>1 DEF Stale, IsDir
    <3>3. EntriesIn(<<>>) = {}
      BY EmptyText, NoPieceNoEntry
    <3>4. NoHandler.op # "unlink" /\ ~Creates(NoHandler)
      BY LastAnswer
    <3>5. Entered(V2, NoHandler, id) = {}
      BY <3>2, <3>3, <3>4, AllEntered
    <3>6. QED
      BY <2>1, <3>2, <3>4, <3>5 DEF ObjectOf, Abstraction!Empty
  <2>2. CASE id # Root
    BY <1>1, <1>4, <2>2 DEF ObjectOf
  <2>3. QED
    BY <2>1, <2>2
<1>6. Objects' = [id \in InodeIds |-> IF id = Root THEN Abstraction!Empty("Directory")
                                                   ELSE Stale]
  BY <1>2, <1>4, <1>5 DEF ObjectsOf
<1>7. QED
  BY <1>3, <1>6 DEF Abstraction!Mount, Abstraction!Answers

LEMMA SendAbstract ==
  ASSUME DaemonIInv, NEW c \in Clients, Send(c)
  PROVE  AbstractStep
<1>1. /\ IInv /\ IInv' /\ SameFiles /\ running' = running
      /\ ret' = Call("none", 0, 0, <<>>, "OK")
  BY SendEffect DEF DaemonIInv
<1>2. Objects' = Objects
  BY <1>1, ObjectsSame
<1>3. CASE running.op = "unlink"
  BY <1>1, <1>2, <1>3 DEF AbstractStep, LastCall, Unlinking
<1>4. CASE running.op # "unlink"
  <2>1. LastCall' = ret' /\ ret'.op = "none" /\ ret'.code = "OK"
    BY <1>1, <1>4, CallFields DEF LastCall, Unlinking
  <2>2. Abstraction!Idle
    BY <1>2, <2>1 DEF Abstraction!Idle, Abstraction!Answers
  <2>3. QED
    BY <2>2 DEF AbstractStep, Abstraction!Next
<1>5. QED
  BY <1>3, <1>4

LEMMA TreeAt ==
  ASSUME NEW V, NEW r, NEW id \in InodeIds
  PROVE  Tree(V, r)[id] = Entered(V, r, id)
BY DEF Tree

(* The first call of a create: nothing is seen of the new inode. *)
LEMMA HiddenObject ==
  ASSUME NEW V, NEW L, NEW h, Consistent(V, L, NoHandler, h),
         NEW op \in {"mknod", "mkdir"}, NEW type, NEW parent, NEW name,
         NEW id \in InodeIds \ L, NEW V2, V2 = WithNew(V, id, type)
  PROVE  ObjectsOf(V2, InHand(op, parent, name, id)) = ObjectsOf(V, NoHandler)
<1> DEFINE r2 == InHand(op, parent, name, id)
<1>1. /\ r2.op = op /\ r2.id = id /\ NoHandler.op = "none"
      /\ Creates(r2) /\ ~Creates(NoHandler)
  BY OperationsDiffer, LastAnswer DEF Creates
<1> HIDE DEF r2
<1>2. V[id] = Stale /\ \A i \in InodeIds \ {id} : V2[i] = V[i]
  BY DEF Consistent, FilesInv, WithNew
<1>3. ASSUME NEW i \in InodeIds
      PROVE  ObjectOf(V2, r2, i) = ObjectOf(V, NoHandler, i)
  <2>1. CASE i = id
    BY <1>1, <1>2, <2>1 DEF ObjectOf
  <2>2. CASE i # id
    <3>1. V2[i] = V[i]
      BY <1>2, <2>2
    <3>2. Entered(V2, r2, i) = Entered(V, NoHandler, i)
      BY <1>1, <3>1, AllEntered
    <3>3. QED
      BY <1>1, <2>2, <3>1, <3>2 DEF ObjectOf
  <2>3. QED
    BY <2>1, <2>2
<1>4. QED
  BY <1>3 DEF ObjectsOf, r2

LEMMA CreateAbstract ==
  ASSUME DaemonIInv, NamesIInv, NEW c \in Clients, Reads(c),
         NEW op \in {"mknod", "mkdir"},
         NEW type, type = IF op = "mknod" THEN "FILE" ELSE "Directory",
         NEW otherwise, otherwise = IF op = "mknod" THEN "ENOENT" ELSE "ENOSYS",
         NEW parent \in Directories, NEW name \in Names,
         mk_helper(c, op, parent, name, type, otherwise)
  PROVE  AbstractStep
<1>1. up /\ running = NoHandler /\ IInv
  BY DEF Reads, DaemonIInv
<1>2. type \in Types
  BY DaemonAssumption
<1>3. IInv' /\ CreateDone(op, parent, name, type, otherwise)
  BY <1>2, CreateEffect DEF DaemonIInv
<1>4. CASE /\ SameFiles /\ running' = NoHandler
           /\ ret' = Call(op, parent, 0, name, "EEXIST")
           /\ \E e \in EntriesIn(VisibleFiles[parent].content) : e[1] = name
  <2>1. Objects' = Objects /\ LastCall' = ret'
    BY <1>1, <1>3, <1>4, ObjectsSame, LastAnswer
  <2>2. ret'.op = op /\ ret'.id = parent /\ ret'.data = name /\ ret'.code = "EEXIST"
    BY <1>4, CallFields
  <2>3. Abstraction!Named(parent, name) # {}
    BY <1>1, <1>4, DirectoryAbstracted
  <2>4. Abstraction!CreateExists(op)
    BY <2>1, <2>2, <2>3 DEF Abstraction!CreateExists, Abstraction!Answers
  <2>5. QED
    BY <2>4 DEF AbstractStep, Abstraction!Next
<1>5. CASE /\ SameFiles /\ running' = NoHandler
           /\ ret' = Call(op, parent, 0, name, otherwise)
  <2>1. Objects' = Objects /\ LastCall' = ret'
    BY <1>1, <1>3, <1>5, ObjectsSame, LastAnswer
  <2>2. ret'.op = op /\ ret'.code = otherwise
    BY <1>5, CallFields
  <2>3. Abstraction!CreateFails(op, type, otherwise)
    BY <2>1, <2>2 DEF Abstraction!CreateFails, Abstraction!Answers
  <2>4. QED
    BY <2>3 DEF AbstractStep, Abstraction!Next
<1>6. CASE /\ NoFileThere' /\ running' = NoHandler
           /\ ret' = Call(op, parent, 0, name, "EXCEPTION")
  <2>1. Abstraction!Death
    BY <1>6, DeathAbstract
  <2>2. QED
    BY <2>1 DEF AbstractStep, Abstraction!Next
<1>7. ASSUME NEW id \in InodeIds \ Live, ret' = ret,
             running' = InHand(op, parent, name, id),
             VisibleFiles' = WithNew(VisibleFiles, id, type)
      PROVE  AbstractStep
  <2>1. Consistent(VisibleFiles, Live, NoHandler, held)
    BY <1>1, NamesNow
  <2>2. PICK V2 : V2 = VisibleFiles'
    OBVIOUS
  <2>3. V2 = WithNew(VisibleFiles, id, type)
    BY <1>7, <2>2
  <2>4. ObjectsOf(V2, InHand(op, parent, name, id)) = ObjectsOf(VisibleFiles, NoHandler)
    BY <2>1, <2>3, HiddenObject
  <2>5. Objects = ObjectsOf(VisibleFiles, NoHandler)
    BY <1>1, ObjectsSeen DEF ObjectsKnown
  <2>6. Objects' = ObjectsOf(V2, InHand(op, parent, name, id))
    BY <1>3, <1>7, <2>2, ObjectsThen
  <2>7. running.op # "unlink" /\ running'.op # "unlink"
    BY <1>1, <1>7, OperationsDiffer
  <2>8. LastCall' = ret' /\ LastCall = ret
    BY <2>7 DEF LastCall, Unlinking
  <2>9. QED
    BY <1>7, <2>4, <2>5, <2>6, <2>8 DEF AbstractStep
<1>8. QED
  BY <1>3, <1>4, <1>5, <1>6, <1>7 DEF CreateDone

(* After its second call the new object is seen, and its name. *)
LEMMA NewObject ==
  ASSUME NEW type \in {"FILE", "Directory"}, NEW id \in InodeIds, NEW V,
         V[id] # Stale => V[id] = [type |-> type, content |-> <<>>],
         Entered(V, NoHandler, id) = {}
  PROVE  ObjectOf(V, NoHandler, id) =
           IF V[id] = Stale THEN Stale ELSE Abstraction!Empty(type)
<1>1. CASE V[id] = Stale
  BY <1>1 DEF ObjectOf
<1>2. CASE V[id] # Stale
  <2>1. V[id].type = type /\ V[id].content = <<>> /\ V[id] # Stale
    BY <1>2
  <2>2. IsDir(V[id]) <=> type = "Directory"
    BY <2>1 DEF IsDir
  <2>3. ~Creates(NoHandler)
    BY LastAnswer
  <2>4. QED
    BY <1>2, <2>1, <2>2, <2>3 DEF ObjectOf, Abstraction!Empty
<1>3. QED
  BY <1>1, <1>2

OnInodes(O) == O = [i \in InodeIds |-> O[i]]

SameBut(O, O2, id) == \A i \in InodeIds \ {id} : O2[i] = O[i]

LEMMA ContentReplaced ==
  ASSUME NEW O, OnInodes(O), NEW id \in InodeIds,
         NEW type, NEW old, O[id] = [type |-> type, content |-> old],
         NEW new, NEW O2, OnInodes(O2), SameBut(O, O2, id),
         O2[id] = [type |-> type, content |-> new]
  PROVE  O2 = WithContent(O, id, new)
<1> DEFINE O3 == WithContent(O, id, new)
<1>1. /\ O3 = [i \in InodeIds |-> O3[i]]
      /\ O3[id] = [type |-> type, content |-> new]
      /\ \A i \in InodeIds \ {id} : O3[i] = O[i]
  BY DEF WithContent, OnInodes
<1> HIDE DEF O3
<1>2. \A i \in InodeIds : O2[i] = O3[i]
  BY <1>1 DEF SameBut
<1>3. O2 = O3
  BY <1>1, <1>2 DEF OnInodes
<1>4. QED
  BY <1>3 DEF O3

(* The new object is there, unless the id is one that cannot be read; and   *)
(* an entry.                                                                *)
WithMade(V, O, id, type) ==
  IF V[id] = Stale THEN O ELSE [O EXCEPT ![id] = Abstraction!Empty(type)]

WithEntry(O, dir, entry) == [O EXCEPT ![dir].content = @ \cup {entry}]

LEMMA NamedObjects ==
  ASSUME NEW V, NEW L, NEW h, NEW op \in {"mknod", "mkdir"},
         NEW parent \in InodeIds, NEW name, NEW id \in InodeIds,
         NEW r, r = InHand(op, parent, name, id), Consistent(V, L, r, h),
         NEW type, type = IF op = "mknod" THEN "FILE" ELSE "Directory",
         NEW V2, NEW new, OnlyContent(V, V2, parent, new),
         Adds(Tree(V, r), Tree(V2, NoHandler), parent, name, id),
         NEW O, O = ObjectsOf(V, r), NEW O2, O2 = ObjectsOf(V2, NoHandler)
  PROVE  O2 = WithEntry(WithMade(V, O, id, type), parent, <<name, id>>)
<1> DEFINE T == Tree(V, r)
           T2 == Tree(V2, NoHandler)
           E == {<<name, id>>}
<1>1. /\ r.op = op /\ r.id = id /\ r.parent = parent /\ r # NoHandler
      /\ NoHandler.op = "none" /\ Creates(r) /\ ~Creates(NoHandler)
  BY OperationsDiffer, LastAnswer DEF Creates
<1>2. IsDir(V[parent]) /\ parent # id /\ V[parent] # Stale
  BY <1>1 DEF Consistent, HandlerInv, IsDir
<1>3. /\ \A i \in InodeIds \ {parent} : V2[i] = V[i]
      /\ \A i \in InodeIds : IsDir(V2[i]) <=> IsDir(V[i])
      /\ V2[parent] # Stale
  BY DEF OnlyContent
<1>4. /\ \A i \in InodeIds \ {parent} : T2[i] = T[i]
      /\ T2[parent] = T[parent] \cup E
  BY DEF Adds
<1>5. /\ \A i \in InodeIds : T[i] = Entered(V, r, i)
      /\ \A i \in InodeIds : T2[i] = Entered(V2, NoHandler, i)
  BY TreeAt
<1>6. ObjectOf(V2, NoHandler, id) = IF V[id] = Stale THEN Stale ELSE Abstraction!Empty(type)
  <2>1. V2[id] = V[id]
    BY <1>2, <1>3
  <2>2. /\ ~Reached(T, id)
        /\ V[id] # Stale => V[id] = [type |-> type, content |-> <<>>]
    BY <1>1 DEF Consistent, HandlerInv
  <2>3. T[id] = {}
    BY <2>2 DEF Consistent, TreeInv
  <2>4. Entered(V2, NoHandler, id) = {}
    BY <1>2, <1>4, <1>5, <2>3
  <2>5. V2[id] # Stale => V2[id] = [type |-> type, content |-> <<>>]
    BY <2>1, <2>2
  <2>6. type \in {"FILE", "Directory"}
    OBVIOUS
  <2>7. ObjectOf(V2, NoHandler, id) =
          IF V2[id] = Stale THEN Stale ELSE Abstraction!Empty(type)
    BY <2>4, <2>5, <2>6, NewObject
  <2>8. QED
    BY <2>1, <2>7
<1> HIDE DEF T, T2, E
<1>7. ASSUME NEW i \in InodeIds, i # id, i # parent
      PROVE  ObjectOf(V2, NoHandler, i) = ObjectOf(V, r, i)
  <2>1. V2[i] = V[i]
    BY <1>3, <1>7
  <2>2. Entered(V2, NoHandler, i) = Entered(V, r, i)
    BY <1>4, <1>5, <1>7
  <2>3. QED
    BY <1>1, <1>7, <2>1, <2>2 DEF ObjectOf
<1>8. ObjectOf(V, r, parent) = [type |-> "Directory", content |-> T[parent]]
  BY <1>1, <1>2, <1>5 DEF ObjectOf
<1>9. ObjectOf(V2, NoHandler, parent) = [type |-> "Directory", content |-> T[parent] \cup E]
  <2>1. Entered(V2, NoHandler, parent) = T[parent] \cup E
    BY <1>4, <1>5
  <2>2. QED
    BY <1>1, <1>2, <1>3, <2>1 DEF ObjectOf
<1>10. ObjectOf(V, r, id) = Stale
  BY <1>1 DEF ObjectOf
<1>11. /\ O = [i \in InodeIds |-> O[i]] /\ O2 = [i \in InodeIds |-> O2[i]]
       /\ O[parent] = [type |-> "Directory", content |-> T[parent]]
       /\ O2[parent] = [type |-> "Directory", content |-> T[parent] \cup E]
       /\ O[id] = Stale
       /\ O2[id] = IF V[id] = Stale THEN Stale ELSE Abstraction!Empty(type)
       /\ \A i \in InodeIds : i # id /\ i # parent => O2[i] = O[i]
  BY <1>6, <1>7, <1>8, <1>9, <1>10 DEF ObjectsOf
<1>12. CASE V[id] = Stale
  <2>1. OnInodes(O) /\ OnInodes(O2) /\ SameBut(O, O2, parent)
    BY <1>11, <1>12 DEF OnInodes, SameBut
  <2>2. PICK a, b : a = T[parent] /\ b = T[parent] \cup E
    OBVIOUS
  <2>3. /\ O[parent] = [type |-> "Directory", content |-> a]
        /\ O2[parent] = [type |-> "Directory", content |-> b]
    BY <1>11, <2>2
  <2>4. O2 = WithContent(O, parent, b)
    BY <2>1, <2>3, ContentReplaced
  <2>5. O[parent].content = a
    BY <2>3
  <2>6. O2 = WithEntry(O, parent, <<name, id>>)
    BY <2>2, <2>4, <2>5 DEF E, WithContent, WithEntry
  <2>7. QED
    BY <1>12, <2>6 DEF WithMade
<1>13. CASE V[id] # Stale
  <2>1. PICK x, O3 : x = Abstraction!Empty(type) /\ O3 = [O EXCEPT ![id] = x]
    OBVIOUS
  <2>2. O3[parent] = O[parent] /\ OnInodes(O2) /\ OnInodes(O3) /\ SameBut(O3, O2, parent)
    BY <1>2, <1>11, <1>13, <2>1 DEF OnInodes, SameBut
  <2>3. PICK a, b : a = T[parent] /\ b = T[parent] \cup E
    OBVIOUS
  <2>4. /\ O3[parent] = [type |-> "Directory", content |-> a]
        /\ O2[parent] = [type |-> "Directory", content |-> b]
    BY <1>11, <2>2, <2>3
  <2>5. O2 = WithContent(O3, parent, b)
    BY <2>2, <2>4, ContentReplaced
  <2>6. O3[parent].content = a
    BY <2>4
  <2>7. O2 = WithEntry(O3, parent, <<name, id>>)
    BY <2>3, <2>5, <2>6 DEF E, WithContent, WithEntry
  <2>8. QED
    BY <1>13, <2>1, <2>7 DEF WithMade
<1>14. QED
  BY <1>12, <1>13

(* What a create that cannot write the entry leaves behind. *)
LEMMA LeftObjects ==
  ASSUME NEW V, NEW L, NEW h, NEW op \in {"mknod", "mkdir"},
         NEW parent \in InodeIds, NEW name, NEW id \in InodeIds,
         NEW r, r = InHand(op, parent, name, id), Consistent(V, L, r, h),
         NEW type, type = IF op = "mknod" THEN "FILE" ELSE "Directory",
         NEW O, O = ObjectsOf(V, r), NEW O2, O2 = ObjectsOf(V, NoHandler)
  PROVE  O2 = WithMade(V, O, id, type)
<1>1. /\ r.op = op /\ r.id = id /\ r # NoHandler
      /\ NoHandler.op = "none" /\ Creates(r) /\ ~Creates(NoHandler)
  BY OperationsDiffer, LastAnswer DEF Creates
<1>2. \A i \in InodeIds : Entered(V, NoHandler, i) = Entered(V, r, i)
  <2>1. ASSUME NEW i PROVE Entered(V, NoHandler, i) = Entered(V, r, i)
    BY <1>1, AllEntered
  <2>2. QED
    BY <2>1
<1>3. /\ ~Reached(Tree(V, r), id)
      /\ V[id] # Stale => V[id] = [type |-> type, content |-> <<>>]
  BY <1>1 DEF Consistent, HandlerInv
<1>4. Entered(V, NoHandler, id) = {}
  <2>1. Tree(V, r)[id] = {}
    BY <1>3 DEF Consistent, TreeInv
  <2>2. QED
    BY <1>2, <2>1, TreeAt
<1>5. ObjectOf(V, NoHandler, id) = IF V[id] = Stale THEN Stale ELSE Abstraction!Empty(type)
  <2>1. type \in {"FILE", "Directory"}
    OBVIOUS
  <2>2. QED
    BY <1>3, <1>4, <2>1, NewObject
<1>6. ObjectOf(V, r, id) = Stale
  BY <1>1 DEF ObjectOf
<1>7. ASSUME NEW i \in InodeIds, i # id
      PROVE  ObjectOf(V, NoHandler, i) = ObjectOf(V, r, i)
  BY <1>1, <1>2, <1>7 DEF ObjectOf
<1>8. /\ O = [i \in InodeIds |-> O[i]] /\ O2 = [i \in InodeIds |-> O2[i]]
      /\ O[id] = Stale /\ \A i \in InodeIds : i # id => O2[i] = O[i]
      /\ O2[id] = IF V[id] = Stale THEN Stale ELSE Abstraction!Empty(type)
  BY <1>5, <1>6, <1>7 DEF ObjectsOf
<1>9. PICK x : x = Abstraction!Empty(type)
  OBVIOUS
<1>10. O2[id] = IF V[id] = Stale THEN Stale ELSE x
  BY <1>8, <1>9
<1>11. O2 = IF V[id] = Stale THEN O ELSE [O EXCEPT ![id] = x]
  BY <1>8, <1>10
<1>12. QED
  BY <1>9, <1>11 DEF WithMade

LEMMA NamingAbstract ==
  ASSUME PlainUse, DaemonIInv, NamesIInv, NEW c \in Clients,
         NEW op \in {"mknod", "mkdir"},
         NEW type, type = IF op = "mknod" THEN "FILE" ELSE "Directory",
         NEW otherwise, otherwise = IF op = "mknod" THEN "ENOENT" ELSE "ENOSYS",
         mk_helper_names(c, op, type, otherwise)
  PROVE  AbstractStep
<1>1. up /\ running.op = op
  BY DEF mk_helper_names, Resumes
<1>2. PICK p, i, n, r : p = running.parent /\ i = running.id /\ n = running.name /\ r = running
  OBVIOUS
<1>3. /\ p \in InodeIds /\ i \in InodeIds /\ n \in Names
      /\ r = InHand(op, p, n, i) /\ running = r
  BY <1>1, <1>2, RunningTyped
<1>4. PICK V, L, h, V2, O, O2 :
        /\ V = VisibleFiles /\ L = Live /\ h = held /\ V2 = VisibleFiles'
        /\ O = Objects /\ O2 = Objects'
  OBVIOUS
<1>5. Consistent(V, L, r, h) /\ h \in Handles
  BY <1>1, <1>3, <1>4, NamesNow DEF DaemonIInv
<1>6. IInv /\ IInv' /\ running' = NoHandler /\ Live' = Live
  BY NameEffect DEF DaemonIInv
<1>7. LastCall' = ret'
  BY <1>6, LastAnswer
<1>8. O = ObjectsOf(V, r)
  BY <1>3, <1>4, <1>6, ObjectsSeen DEF ObjectsKnown
<1>9. O2 = ObjectsOf(V2, NoHandler)
  BY <1>4, <1>6, ObjectsThen
<1>10. Creates(r) /\ r.id = i /\ r # NoHandler /\ r.parent = p /\ r.op = op /\ r.name = n
  BY <1>3, OperationsDiffer DEF Creates
<1>11. /\ IsDir(V[p]) /\ p # i /\ ~Reached(Tree(V, r), i)
       /\ \A e \in Tree(V, r)[p] : e[1] # n
  BY <1>5, <1>10 DEF Consistent, HandlerInv
<1>12. ~Abstraction!Exists(i) /\ ~Abstraction!Mentioned(i)
  <2>1. ~Abstraction!Exists(i)
    BY <1>3, <1>4, <1>5, <1>6, <1>10, Abstracted
  <2>2. Abstraction!Mentioned(i) <=> MentionedIn(Tree(V, r), i)
    BY <1>3, <1>4, <1>5, <1>6, Abstracted
  <2>3. QED
    BY <1>11, <2>1, <2>2 DEF Reached
<1>13. Abstraction!IsDirectory(p) /\ Abstraction!Named(p, n) = {}
  <2>1. ~(Creates(running) /\ p = running.id)
    BY <1>3, <1>10, <1>11
  <2>2. Abstraction!IsDirectory(p)
    BY <1>3, <1>4, <1>5, <1>6, <1>11, <2>1, Abstracted
  <2>3. Abstraction!Named(p, n) = {}
    BY <1>3, <1>4, <1>5, <1>6, <1>11, <2>1, NamedIn
  <2>4. QED
    BY <2>2, <2>3
<1>14. CASE SameFiles /\ ret' = Call(op, p, i, n, otherwise)
  <2>1. V2 = V
    BY <1>4, <1>14 DEF SameFiles
  <2>2. O2 = WithMade(V, O, i, type)
    BY <1>3, <1>5, <1>8, <1>9, <2>1, LeftObjects
  <2>3. ret'.op = op /\ ret'.code = otherwise
    BY <1>14, CallFields
  <2>4. Abstraction!CreateFails(op, type, otherwise)
    BY <1>3, <1>4, <1>7, <1>12, <2>2, <2>3
       DEF WithMade, Abstraction!CreateFails, Abstraction!Answers
  <2>5. QED
    BY <2>4 DEF AbstractStep, Abstraction!Next
<1>15. CASE /\ VisibleFiles[p] # Stale
            /\ VisibleFiles' = [VisibleFiles EXCEPT ![p].content =
                                  append_to_directory(VisibleFiles[p].content, n, i)]
            /\ \/ ret' = Call(op, p, i, n, "OK") /\ VisibleFiles[i] # Stale
               \/ ret' = Call(op, p, i, n, "ERANGE") /\ VisibleFiles[i] = Stale
  <2>1. PICK new : new = append_to_directory(V[p].content, n, i)
    OBVIOUS
  <2>2. V2 = WithContent(V, p, new) /\ V[p] # Stale /\ FilesInv(V, L)
    BY <1>4, <1>5, <1>15, <2>1 DEF WithContent, Consistent
  <2>3. OnlyContent(V, V2, p, new)
    BY <1>3, <2>2, ContentChanged
  <2>4. Adds(Tree(V, r), Tree(V2, NoHandler), p, n, i)
    <3>1. PICK h2 : h2 = [k \in Clients |->
                            IF V[i] = Stale THEN h[k]
                            ELSE IF op = "mkdir"
                              THEN IF h[k].ino = i THEN NoHandle ELSE h[k]
                            ELSE h[k]]
      OBVIOUS
    <3>2. AfterNaming(V, op, i, h, h2)
      BY <3>1 DEF AfterNaming
    <3>3. V2 = WithContent(V, p, append_to_directory(V[p].content, n, i))
      BY <2>1, <2>2
    <3>4. QED
      BY <1>3, <1>5, <3>2, <3>3, NamedConsistent DEF PlainUse
  <2>5. O2 = WithEntry(WithMade(V, O, i, type), p, <<n, i>>)
    BY <1>3, <1>5, <1>8, <1>9, <2>3, <2>4, NamedObjects
  <2>6. CASE V[i] # Stale /\ ret' = Call(op, p, i, n, "OK")
    <3>1. ret'.op = op /\ ret'.id = p /\ ret'.at = i /\ ret'.data = n /\ ret'.code = "OK"
      BY <2>6, CallFields
    <3>2. Objects' = [Objects EXCEPT ![i] = Abstraction!Empty(type),
                                     ![p].content = @ \cup {<<n, i>>}]
      BY <1>4, <1>11, <2>5, <2>6 DEF WithMade, WithEntry
    <3>3. Abstraction!Create(op, type)
      BY <1>3, <1>7, <1>12, <1>13, <3>1, <3>2 DEF Abstraction!Create, Abstraction!Answers
    <3>4. QED
      BY <3>3 DEF AbstractStep, Abstraction!Next
  <2>7. CASE V[i] = Stale /\ ret' = Call(op, p, i, n, "ERANGE")
    <3>1. ret'.op = op /\ ret'.id = p /\ ret'.at = i /\ ret'.data = n /\ ret'.code = "ERANGE"
      BY <2>7, CallFields
    <3>2. Objects' = [Objects EXCEPT ![p].content = @ \cup {<<n, i>>}]
      BY <1>4, <2>5, <2>7 DEF WithMade, WithEntry
    <3>3. Abstraction!CreateUnusable(op)
      BY <1>7, <1>12, <1>13, <3>1, <3>2 DEF Abstraction!CreateUnusable, Abstraction!Answers
    <3>4. QED
      BY <3>3 DEF AbstractStep, Abstraction!Next
  <2>8. QED
    BY <1>4, <1>15, <2>6, <2>7
<1>16. QED
  BY <1>2, <1>14, <1>15, NameEffect

(* An unlink that has removed the file: it is gone, and its entry is not    *)
(* seen any more.                                                           *)
Without(V, id) == [V EXCEPT ![id] = Stale]

WithoutFile(O, id, dir, entry) ==
  [O EXCEPT ![id] = Stale, ![dir].content = @ \ {entry}]

LEMMA RemovedObjects ==
  ASSUME NEW V, NEW L, NEW h, Consistent(V, L, NoHandler, h),
         NEW parent \in InodeIds, IsDir(V[parent]), NEW name,
         NEW id \in InodeIds, V[id] # Stale, ~IsDir(V[id]),
         NEW V2, V2 = Without(V, id),
         NEW r2, r2 = InHand("unlink", parent, name, id),
         Drops(Tree(V, NoHandler), Tree(V2, r2), parent, name, id),
         NEW O, O = ObjectsOf(V, NoHandler), NEW O2, O2 = ObjectsOf(V2, r2)
  PROVE  O2 = WithoutFile(O, id, parent, <<name, id>>)
<1> DEFINE T == Tree(V, NoHandler)
           T2 == Tree(V2, r2)
           E == {<<name, id>>}
<1>1. NoHandler.op = "none" /\ ~Creates(NoHandler) /\ ~Creates(r2)
  BY OperationsDiffer, LastAnswer DEF Creates
<1>2. parent # id /\ V[parent] # Stale
  BY DEF IsDir
<1>3. /\ \A i \in InodeIds \ {id} : V2[i] = V[i]
      /\ V2[id] = Stale
  BY DEF Consistent, FilesInv, Without
<1>4. /\ \A i \in InodeIds \ {parent} : T2[i] = T[i]
      /\ T2[parent] = T[parent] \ E
  BY DEF Drops
<1>5. /\ \A i \in InodeIds : T[i] = Entered(V, NoHandler, i)
      /\ \A i \in InodeIds : T2[i] = Entered(V2, r2, i)
  BY TreeAt
<1> HIDE DEF T, T2, E
<1>6. ObjectOf(V2, r2, id) = Stale
  BY <1>3 DEF ObjectOf
<1>7. ASSUME NEW i \in InodeIds, i # id, i # parent
      PROVE  ObjectOf(V2, r2, i) = ObjectOf(V, NoHandler, i)
  <2>1. V2[i] = V[i]
    BY <1>3, <1>7
  <2>2. Entered(V2, r2, i) = Entered(V, NoHandler, i)
    BY <1>4, <1>5, <1>7
  <2>3. QED
    BY <1>1, <2>1, <2>2 DEF ObjectOf
<1>8. ObjectOf(V, NoHandler, parent) = [type |-> "Directory", content |-> T[parent]]
  BY <1>1, <1>2, <1>5 DEF ObjectOf
<1>9. ObjectOf(V2, r2, parent) = [type |-> "Directory", content |-> T[parent] \ E]
  <2>1. Entered(V2, r2, parent) = T[parent] \ E
    BY <1>4, <1>5
  <2>2. V2[parent] = V[parent]
    BY <1>2, <1>3
  <2>3. QED
    BY <1>1, <1>2, <2>1, <2>2 DEF ObjectOf
<1>10. /\ O = [i \in InodeIds |-> O[i]] /\ O2 = [i \in InodeIds |-> O2[i]]
       /\ O[parent] = [type |-> "Directory", content |-> T[parent]]
       /\ O2[parent] = [type |-> "Directory", content |-> T[parent] \ E]
       /\ O2[id] = Stale
       /\ \A i \in InodeIds : i # id /\ i # parent => O2[i] = O[i]
  BY <1>6, <1>7, <1>8, <1>9 DEF ObjectsOf
<1>11. PICK O3 : O3 = [O EXCEPT ![id] = Stale]
  OBVIOUS
<1>12. O3[parent] = O[parent] /\ OnInodes(O2) /\ OnInodes(O3) /\ SameBut(O3, O2, parent)
  BY <1>2, <1>10, <1>11 DEF OnInodes, SameBut
<1>13. PICK a, b : a = T[parent] /\ b = T[parent] \ E
  OBVIOUS
<1>14. /\ O3[parent] = [type |-> "Directory", content |-> a]
       /\ O2[parent] = [type |-> "Directory", content |-> b]
  BY <1>10, <1>12, <1>13
<1>15. O2 = WithContent(O3, parent, b)
  BY <1>12, <1>14, ContentReplaced
<1>16. O3[parent].content = a /\ O[parent].content = a
  BY <1>12, <1>14
<1>17. O2 = [O3 EXCEPT ![parent].content = b]
  BY <1>15 DEF WithContent
<1>18. O2 = [O EXCEPT ![id] = Stale, ![parent].content = b]
  BY <1>2, <1>11, <1>17
<1>19. QED
  BY <1>2, <1>13, <1>16, <1>18 DEF E, WithoutFile

(* It rewrites the directory: clients have seen the entry go already.       *)
LEMMA RewrittenObjects ==
  ASSUME NEW V, NEW L, NEW h, FilesInv(V, L),
         NEW parent \in InodeIds, IsDir(V[parent]), NEW new,
         NEW V2, V2 = WithContent(V, parent, new),
         NEW r, r.op = "unlink", Tree(V2, NoHandler) = Tree(V, r)
  PROVE  ObjectsOf(V2, NoHandler) = ObjectsOf(V, r)
<1>1. ~Creates(NoHandler) /\ ~Creates(r)
  BY LastAnswer DEF Creates
<1>2. V[parent] # Stale
  BY DEF IsDir
<1>3. OnlyContent(V, V2, parent, new)
  BY <1>2, ContentChanged
<1>4. /\ \A i \in InodeIds \ {parent} : V2[i] = V[i]
      /\ \A i \in InodeIds : IsDir(V2[i]) <=> IsDir(V[i])
      /\ V2[parent] # Stale
  BY <1>3 DEF OnlyContent
<1>5. ASSUME NEW i \in InodeIds
      PROVE  ObjectOf(V2, NoHandler, i) = ObjectOf(V, r, i)
  <2>1. Entered(V2, NoHandler, i) = Entered(V, r, i)
    BY TreeAt
  <2>2. CASE i = parent
    BY <1>1, <1>2, <1>4, <2>1, <2>2 DEF ObjectOf
  <2>3. CASE i # parent
    <3>1. V2[i] = V[i]
      BY <1>4, <2>3
    <3>2. QED
      BY <1>1, <2>1, <3>1 DEF ObjectOf
  <2>4. QED
    BY <2>2, <2>3
<1>6. QED
  BY <1>5 DEF ObjectsOf

LEMMA RewriteAbstract ==
  ASSUME DaemonIInv, NamesIInv, NEW c \in Clients, chfs_unlink_rewrites(c)
  PROVE  AbstractStep
<1>1. up /\ running.op = "unlink"
  BY DEF chfs_unlink_rewrites, Resumes
<1>2. IInv /\ IInv' /\ running' = NoHandler
  BY RewriteEffect DEF DaemonIInv
<1>3. running.parent \in InodeIds /\ running # NoHandler
  BY <1>1, RunningTyped, OperationsDiffer
<1>4. PICK V, V2, p, r, new :
        /\ V = VisibleFiles /\ V2 = VisibleFiles' /\ r = running /\ p = running.parent
        /\ new = rm_from_directory(VisibleFiles[running.parent].content,
                                   running.name, InodeIds)
  OBVIOUS
<1>5. Consistent(VisibleFiles, Live, running, held)
  BY <1>1, NamesNow
<1>6. FilesInv(V, Live) /\ IsDir(V[p])
  BY <1>3, <1>4, <1>5 DEF Consistent, HandlerInv
<1>7. V2 = WithContent(V, p, new) /\ Tree(V2, NoHandler) = Tree(V, r)
  BY <1>4, RewriteNames
<1>8. ObjectsOf(V2, NoHandler) = ObjectsOf(V, r)
  BY <1>1, <1>3, <1>4, <1>6, <1>7, RewrittenObjects
<1>9. Objects = ObjectsOf(V, r)
  BY <1>2, <1>4, ObjectsSeen DEF ObjectsKnown
<1>10. Objects' = ObjectsOf(V2, NoHandler)
  BY <1>2, <1>4, ObjectsThen
<1>11. LastCall' = LastCall
  <2>1. LastCall' = ret'
    BY <1>2, LastAnswer
  <2>2. ret' = Call("unlink", running.parent, running.id, running.name, "OK")
    BY RewriteNames
  <2>3. LastCall = Call("unlink", running.parent, running.id, running.name, "OK")
    BY <1>1 DEF LastCall, Unlinking
  <2>4. QED
    BY <2>1, <2>2, <2>3
<1>12. QED
  BY <1>8, <1>9, <1>10, <1>11 DEF AbstractStep

LEMMA UnlinkAbstract ==
  ASSUME DaemonIInv, NamesIInv, NEW c \in Clients, Reads(c),
         NEW parent \in Directories, NEW name \in Names, chfs_unlink(c, parent, name)
  PROVE  AbstractStep
<1> DEFINE text == VisibleFiles[parent].content
<1>1. up /\ running = NoHandler /\ IInv
  BY DEF Reads, DaemonIInv
<1>2. IInv'
  BY UnlinkEffect DEF DaemonIInv
<1>3. CASE /\ SameFiles /\ running' = NoHandler
           /\ ret' = Call("unlink", parent, 0, name, "ENOENT")
           /\ \A e \in EntriesIn(text) : e[1] # name
  <2>1. Objects' = Objects /\ LastCall' = ret'
    BY <1>1, <1>2, <1>3, ObjectsSame, LastAnswer
  <2>2. /\ ret'.op = "unlink" /\ ret'.id = parent /\ ret'.data = name
        /\ ret'.code = "ENOENT"
    BY <1>3, CallFields
  <2>3. Abstraction!Named(parent, name) = {}
    BY <1>1, <1>3, DirectoryAbstracted
  <2>4. Abstraction!UnlinkFails
    BY <2>1, <2>2, <2>3 DEF Abstraction!UnlinkFails, Abstraction!Answers
  <2>5. QED
    BY <2>4 DEF AbstractStep, Abstraction!Next
<1>4. ASSUME NEW id, <<name, id>> \in EntriesIn(text), SameFiles, running' = NoHandler,
             \/ /\ ret' = Call("unlink", parent, id, name, "ENOSYS")
                /\ id \in InodeIds => VisibleFiles[id] = Stale
             \/ /\ ret' = Call("unlink", parent, id, name, "ENOTEMPTY")
                /\ id \in InodeIds /\ IsDir(VisibleFiles[id])
      PROVE  AbstractStep
  <2>1. Objects' = Objects /\ LastCall' = ret'
    BY <1>1, <1>2, <1>4, ObjectsSame, LastAnswer
  <2>2. ret'.op = "unlink" /\ ret'.id = parent /\ ret'.data = name
    BY <1>4, CallFields
  <2>3. id \in Abstraction!Named(parent, name)
    BY <1>1, <1>4, DirectoryAbstracted
  <2>4. \/ ret'.code = "ENOSYS" /\ ~Abstraction!Exists(id)
        \/ ret'.code = "ENOTEMPTY" /\ Abstraction!IsDirectory(id)
    BY <1>1, <1>4, InodeAbstracted, CallFields
  <2>5. Abstraction!UnlinkFails
    BY <2>1, <2>2, <2>3, <2>4 DEF Abstraction!UnlinkFails, Abstraction!Answers
  <2>6. QED
    BY <2>5 DEF AbstractStep, Abstraction!Next
<1>5. ASSUME NEW id, NoFileThere', running' = NoHandler,
             ret' = Call("unlink", parent, id, name, "SEGV")
      PROVE  AbstractStep
  <2>1. Abstraction!Death
    BY <1>5, DeathAbstract
  <2>2. QED
    BY <2>1 DEF AbstractStep, Abstraction!Next
<1>6. ASSUME NEW id \in InodeIds, <<name, id>> \in EntriesIn(text),
             VisibleFiles[id] # Stale, ~IsDir(VisibleFiles[id]),
             running' = InHand("unlink", parent, name, id),
             VisibleFiles' = [VisibleFiles EXCEPT ![id] = Stale]
      PROVE  AbstractStep
  <2>1. Consistent(VisibleFiles, Live, NoHandler, held) /\ held \in Handles
    BY <1>1, NamesNow DEF DaemonIInv
  <2>2. /\ parent \in InodeIds /\ IsDir(VisibleFiles[parent])
        /\ Reached(Tree(VisibleFiles, NoHandler), parent)
    BY <1>1, DirectoryThere
  <2>3. PICK V2, r2, O, O2 :
          V2 = VisibleFiles' /\ r2 = running' /\ O = Objects /\ O2 = Objects'
    OBVIOUS
  <2>4. V2 = [VisibleFiles EXCEPT ![id] = Stale] /\ r2 = InHand("unlink", parent, name, id)
    BY <1>6, <2>3
  <2>5. Drops(Tree(VisibleFiles, NoHandler), Tree(V2, r2), parent, name, id)
    BY <1>6, <2>1, <2>2, <2>4, RemovedConsistent
  <2>6. O = ObjectsOf(VisibleFiles, NoHandler)
    BY <1>1, <2>3, ObjectsSeen DEF ObjectsKnown
  <2>7. O2 = ObjectsOf(V2, r2)
    BY <1>2, <2>3, ObjectsThen
  <2>8. O2 = WithoutFile(O, id, parent, <<name, id>>)
    <3>1. V2 = Without(VisibleFiles, id)
      BY <2>4 DEF Without
    <3>2. r2 = InHand("unlink", parent, name, id)
      BY <2>4
    <3>3. QED
      BY <1>6, <2>1, <2>2, <2>5, <2>6, <2>7, <3>1, <3>2, RemovedObjects
  <2>9. LastCall' = Call("unlink", parent, id, name, "OK")
    BY <1>6, OperationsDiffer DEF LastCall, Unlinking
  <2>10. PICK last : last = LastCall'
    OBVIOUS
  <2>11. /\ last.op = "unlink" /\ last.id = parent /\ last.at = id /\ last.data = name
         /\ last.code = "OK"
    BY <2>9, <2>10, CallFields
  <2>12. Abstraction!IsDirectory(parent) /\ Abstraction!Named(parent, name) = {id}
    BY <1>1, <1>6, DirectoryAbstracted
  <2>13. Abstraction!IsFile(id)
    BY <1>1, <1>6, InodeAbstracted
  <2>14. Objects' = [Objects EXCEPT ![id] = Stale,
                                    ![parent].content = @ \ {<<name, id>>}]
    BY <2>3, <2>8 DEF WithoutFile
  <2>15. Abstraction!Unlink
    BY <2>10, <2>11, <2>12, <2>13, <2>14 DEF Abstraction!Unlink, Abstraction!Answers
  <2>16. QED
    BY <2>15 DEF AbstractStep, Abstraction!Next
<1>7. QED
  BY <1>3, <1>4, <1>5, <1>6, UnlinkEffect

(* Every step of the daemon is a step of Namespace, or changes nothing that *)
(* clients see.                                                             *)
LEMMA DaemonNextAbstract ==
  ASSUME PlainUse, DaemonIInv, NamesIInv, [DaemonNext]_allVars
  PROVE  AbstractStep
<1>1. CASE bootstrap_fuse
  BY <1>1, MountAbstract DEF AbstractStep, Abstraction!Next
<1>2. ASSUME NEW op, Dies(Call(op, 0, 0, <<>>, "ABORT"))
      PROVE  AbstractStep
  <2>1. NoFileThere' /\ running' = NoHandler /\ ret' = Call(op, 0, 0, <<>>, "ABORT")
    BY <1>2, Died
  <2>2. Abstraction!Death
    BY <2>1, DeathAbstract
  <2>3. QED
    BY <2>2 DEF AbstractStep, Abstraction!Next
<1>3. CASE UNCHANGED allVars
  <2>1. /\ IInv /\ IInv' /\ SameFiles /\ running' = running /\ ret' = ret
    BY <1>3, StutterEffect DEF DaemonIInv
  <2>2. Objects' = Objects
    BY <2>1, ObjectsSame
  <2>3. LastCall' = LastCall
    BY <2>1 DEF LastCall, Unlinking
  <2>4. QED
    BY <2>2, <2>3 DEF AbstractStep
<1>4. ASSUME NEW c \in Clients, Send(c)
      PROVE  AbstractStep
  BY <1>4, SendAbstract
<1>5. ASSUME NEW c \in Clients, \/ mk_helper_names(c, "mknod", "FILE", "ENOENT")
                                \/ mk_helper_names(c, "mkdir", "Directory", "ENOSYS")
      PROVE  AbstractStep
  <2>1. CASE mk_helper_names(c, "mknod", "FILE", "ENOENT")
    BY <2>1, NamingAbstract
  <2>2. CASE mk_helper_names(c, "mkdir", "Directory", "ENOSYS")
    BY <2>2, NamingAbstract
  <2>3. QED
    BY <1>5, <2>1, <2>2
<1>6. ASSUME NEW c \in Clients, chfs_unlink_rewrites(c)
      PROVE  AbstractStep
  BY <1>6, RewriteAbstract
<1>7. ASSUME NEW c \in Clients, Reads(c), NEW parent \in Directories, NEW name \in Names,
             \/ chfs_lookup(c, parent, name) \/ chfs_unlink(c, parent, name)
             \/ mk_helper(c, "mknod", parent, name, "FILE", "ENOENT")
             \/ mk_helper(c, "mkdir", parent, name, "Directory", "ENOSYS")
      PROVE  AbstractStep
  <2>1. CASE chfs_lookup(c, parent, name)
    BY <1>7, <2>1, LookupAbstract DEF AbstractStep, Abstraction!Next
  <2>2. CASE chfs_unlink(c, parent, name)
    BY <1>7, <2>2, UnlinkAbstract
  <2>3. CASE mk_helper(c, "mknod", parent, name, "FILE", "ENOENT")
    BY <1>7, <2>3, CreateAbstract
  <2>4. CASE mk_helper(c, "mkdir", parent, name, "Directory", "ENOSYS")
    BY <1>7, <2>4, CreateAbstract
  <2>5. QED
    BY <1>7, <2>1, <2>2, <2>3, <2>4
<1>8. ASSUME NEW c \in Clients, Reads(c), NEW dir \in Directories, chfs_readdir(c, dir)
      PROVE  AbstractStep
  BY <1>8, ReaddirAbstract DEF AbstractStep, Abstraction!Next
<1>9. ASSUME NEW c \in Clients, Reads(c), held[c] # NoHandle, chfs_getattr(c) \/ chfs_open(c)
      PROVE  AbstractStep
  <2>1. CASE chfs_getattr(c)
    BY <1>9, <2>1, GetattrAbstract DEF AbstractStep, Abstraction!Next
  <2>2. CASE chfs_open(c)
    BY <1>9, <2>2, OpenAbstract DEF AbstractStep, Abstraction!Next
  <2>3. QED
    BY <1>9, <2>1, <2>2
<1>10. ASSUME NEW c \in Clients, Reads(c), held[c] # NoHandle, NEW off \in Offsets,
              NEW data \in Contents, chfs_write(c, data, off)
       PROVE  AbstractStep
  <2>1. CASE up'
    BY <1>10, <2>1, WriteAbstract DEF AbstractStep, Abstraction!Next
  <2>2. CASE ~up'
    <3>1. /\ NoFileThere' /\ running' = NoHandler
          /\ \E code \in {"ABORT", "EXCEPTION"} :
               ret' = Call("write", held[c].ino, off, data, code)
      BY <1>10, <2>2, WriteEffect
    <3>2. Abstraction!Death
      BY <3>1, DeathAbstract
    <3>3. QED
      BY <3>2 DEF AbstractStep, Abstraction!Next
  <2>3. QED
    BY <2>1, <2>2
<1>11. ASSUME NEW c \in Clients, Reads(c), held[c] # NoHandle, NEW off \in Offsets,
              \/ chfs_read(c, BlockSize, off)
              \/ \E mask \in Masks : chfs_setattr(c, held[c].ino, mask, off)
       PROVE  AbstractStep
  <2>1. off \in Nat
    BY <1>11, LayoutAssumption
  <2>2. CASE chfs_read(c, BlockSize, off)
    BY <1>11, <2>1, <2>2, ReadAbstract DEF AbstractStep, Abstraction!Next
  <2>3. CASE \E mask \in Masks : chfs_setattr(c, held[c].ino, mask, off)
    <3>1. PICK mask \in Masks : chfs_setattr(c, held[c].ino, mask, off)
      BY <2>3
    <3>2. CASE up'
      BY <1>11, <3>1, <3>2, SetattrAbstract DEF AbstractStep, Abstraction!Next
    <3>3. CASE ~up'
      <4>1. held[c].ino \in InodeIds
        BY <1>11, HeldId
      <4>2. /\ NoFileThere' /\ running' = NoHandler
            /\ ret' = Call("setattr", held[c].ino, off, <<mask>>, "EXCEPTION")
        BY <1>11, <2>1, <3>1, <3>3, <4>1, SetattrEffect
      <4>3. Abstraction!Death
        BY <4>2, DeathAbstract
      <4>4. QED
        BY <4>3 DEF AbstractStep, Abstraction!Next
    <3>4. QED
      BY <3>2, <3>3
  <2>4. QED
    BY <1>11, <2>2, <2>3
<1>12. "MODE" \notin Masks
  BY DEF PlainUse
<1>13. QED
  BY <1>1, <1>2, <1>3, <1>4, <1>5, <1>6, <1>7, <1>8, <1>9, <1>10, <1>11, <1>12, StepCases

LEMMA InitialAbstract == DaemonInit => Abstraction!Init
<1> SUFFICES ASSUME DaemonInit PROVE Abstraction!Init
  OBVIOUS
<1>1. IInv /\ VisibleFiles = [id \in InodeIds |-> Stale]
  BY InitialDaemon DEF NoFileThere
<1>2. Objects = ObjectsOf(VisibleFiles, running)
  BY <1>1, ObjectsSeen DEF ObjectsKnown
<1>3. Objects = [id \in InodeIds |-> Stale]
  BY <1>1, <1>2 DEF ObjectsOf, ObjectOf
<1>4. QED
  BY <1>3 DEF Abstraction!Init

(* What clients see of the device behaves as Namespace says: names, files   *)
(* and directories change as the answered requests say and in no other way, *)
(* for any number of clients, inodes, blocks and names, though ids are      *)
(* reused at once and a create or an unlink takes two calls of the file     *)
(* layer.  Clients' names have no ':', what they write does not read like   *)
(* the text of a directory, and they set no attribute of a directory that   *)
(* they can reach.                                                          *)
THEOREM DaemonImplementsNamespace ==
  ASSUME PlainUse
  PROVE  DaemonSpec => ImplementsNamespace
<1>1. DaemonSpec => []DaemonInv
  BY DaemonInvAlways
<1>2. DaemonInv /\ [DaemonNext]_allVars => AbstractStep
  BY DaemonNextAbstract DEF DaemonInv
<1>3. DaemonInv /\ [DaemonNext]_allVars => [Abstraction!Next]_(Abstraction!vars)
  BY <1>2 DEF AbstractStep, Abstraction!vars
<1>4. DaemonInit => Abstraction!Init
  BY InitialAbstract
<1>5. QED
  BY <1>1, <1>3, <1>4, PTL DEF DaemonSpec, ImplementsNamespace, Abstraction!Spec

-----------------------------------------------------------------------------
(* What Namespace promises about names is therefore promised by the daemon. *)
Promise == INSTANCE NamespaceProofs WITH
  Ids <- InodeIds, NoObject <- Stale, objects <- Objects, ret <- LastCall

LEMMA SamePromiseNext == Abstraction!Next <=> Promise!Next
BY ZenonT(60)
   DEF Abstraction!Next, Abstraction!Empty, Abstraction!Exists, Abstraction!IsFile,
       Abstraction!IsDirectory, Abstraction!Named, Abstraction!Mentioned,
       Abstraction!Sized, Abstraction!Overwritten, Abstraction!Answers,
       Abstraction!Mount, Abstraction!Death, Abstraction!Create,
       Abstraction!CreateUnusable, Abstraction!CreateFails, Abstraction!CreateExists,
       Abstraction!Unlink, Abstraction!UnlinkFails, Abstraction!Lookup,
       Abstraction!Readdir, Abstraction!Getattr, Abstraction!Open, Abstraction!Read,
       Abstraction!Write, Abstraction!Truncate, Abstraction!Astray,
       Abstraction!ChangeFails, Abstraction!Idle,
       Promise!Next, Promise!Empty, Promise!Exists, Promise!IsFile,
       Promise!IsDirectory, Promise!Named, Promise!Mentioned,
       Promise!Sized, Promise!Overwritten, Promise!Answers,
       Promise!Mount, Promise!Death, Promise!Create,
       Promise!CreateUnusable, Promise!CreateFails, Promise!CreateExists,
       Promise!Unlink, Promise!UnlinkFails, Promise!Lookup,
       Promise!Readdir, Promise!Getattr, Promise!Open, Promise!Read,
       Promise!Write, Promise!Truncate, Promise!Astray,
       Promise!ChangeFails, Promise!Idle

LEMMA SamePromiseVars ==
  /\ Abstraction!vars = Promise!vars
  /\ Abstraction!Init <=> Promise!Init
BY DEF Abstraction!vars, Promise!vars, Abstraction!Init, Promise!Init

LEMMA PromiseKept == Abstraction!Spec => Promise!Spec
<1>1. Abstraction!Init => Promise!Init
  BY SamePromiseVars
<1>2. [Abstraction!Next]_(Abstraction!vars) => [Promise!Next]_(Promise!vars)
  BY SamePromiseNext DEF Abstraction!vars, Promise!vars
<1>3. QED
  BY <1>1, <1>2, PTL DEF Abstraction!Spec, Promise!Spec

(* However files are made, named and unlinked by clients of the daemon, and *)
(* though their ids are given out again at once, no id is reached by two    *)
(* names and no directory has a name twice.                                 *)
THEOREM DaemonNamesAreUnique ==
  ASSUME PlainUse
  PROVE  DaemonSpec => []Abstraction!OneNamePerId
<1>1. Promise!OneNamePerId => Abstraction!OneNamePerId
  BY DEF Abstraction!OneNamePerId, Promise!OneNamePerId, Abstraction!IsDirectory,
         Promise!IsDirectory, Abstraction!Exists, Promise!Exists
<1>2. Promise!Spec => []Promise!OneNamePerId
  BY Promise!NamesAreUnique
<1>3. QED
  BY <1>1, <1>2, PromiseKept, DaemonImplementsNamespace, PTL DEF ImplementsNamespace

(* A file that has a name keeps it, and stays a file, until a client        *)
(* unlinks that very name or the daemon dies, whichever other requests come *)
(* between the two calls of a create or an unlink.                          *)
THEOREM DaemonNamesAreKept ==
  ASSUME PlainUse
  PROVE  DaemonSpec => Abstraction!FilesKeepTheirNames
<1>1. Promise!NoObjectIsNone
  BY DEF Promise!NoObjectIsNone, Stale
<1>2. Promise!Spec => Promise!FilesKeepTheirNames
  BY <1>1, Promise!NamesAreKept
<1>3. Promise!FilesKeepTheirNames => Abstraction!FilesKeepTheirNames
  BY DEF Abstraction!FilesKeepTheirNames, Promise!FilesKeepTheirNames,
         Abstraction!IsDirectory, Promise!IsDirectory, Abstraction!Exists, Promise!Exists,
         Abstraction!IsFile, Promise!IsFile, Abstraction!Answers, Promise!Answers,
         Abstraction!vars, Promise!vars
<1>4. QED
  BY <1>2, <1>3, PromiseKept, DaemonImplementsNamespace, PTL DEF ImplementsNamespace

=============================================================================
