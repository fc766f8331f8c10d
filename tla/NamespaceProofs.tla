--------------------------- MODULE NamespaceProofs ---------------------------
(***************************************************************************)
(* What Namespace promises about names, for any number of ids and objects: *)
(* no two names share an id, and a file keeps its name until that name is  *)
(* unlinked.                                                               *)
(***************************************************************************)
EXTENDS Namespace, TLAPS

(* Objects are records. *)
Recorded(o) == o # NoObject => o = [type |-> o.type, content |-> o.content]

Entries(o) == IF o # NoObject /\ o.type = "Directory" THEN o.content ELSE {}

(* OneNamePerId, and that entries are pairs. *)
NameInv ==
  /\ objects = [id \in Ids |-> objects[id]]
  /\ \A id \in Ids : Recorded(objects[id])
  /\ \A d \in Ids : \A e \in Entries(objects[d]) : e = <<e[1], e[2]>>
  /\ \A d, f \in Ids : \A e \in Entries(objects[d]), g \in Entries(objects[f]) :
       e[2] = g[2] \/ (d = f /\ e[1] = g[1]) => d = f /\ e = g

LEMMA DirectoryEntries ==
  ASSUME NEW d \in Ids
  PROVE  /\ IsDirectory(d) => Entries(objects[d]) = objects[d].content
         /\ \A e \in Entries(objects[d]) : IsDirectory(d)
  BY DEF Entries, IsDirectory, Exists

LEMMA OnlyNames == NameInv => OneNamePerId
  BY DirectoryEntries DEF NameInv, OneNamePerId

(* Names stay unique when no directory gets an entry but one, of a name and *)
(* an id that are new.                                                      *)
LEMMA EntryAdded ==
  ASSUME NameInv, NEW parent, NEW name, NEW id,
         Named(parent, name) = {}, ~Mentioned(id), IsDirectory(parent),
         objects' = [i \in Ids |-> objects'[i]],
         \A i \in Ids : Recorded(objects'[i]),
         \A d \in Ids : \A e \in Entries(objects'[d]) :
           e \in Entries(objects[d]) \/ (d = parent /\ e = <<name, id>>)
  PROVE  NameInv'
<1>1. \A e \in Entries(objects[parent]) : e[1] # name
  BY DirectoryEntries DEF Named, IsDirectory, Exists
<1>2. \A d \in Ids : \A e \in Entries(objects[d]) : e[2] # id
  BY DirectoryEntries DEF Mentioned
<1>3. \A d \in Ids : \A e \in Entries(objects'[d]) : e = <<e[1], e[2]>>
  BY DEF NameInv
<1>4. ASSUME NEW d \in Ids, NEW f \in Ids,
             NEW e \in Entries(objects'[d]), NEW g \in Entries(objects'[f]),
             e[2] = g[2] \/ (d = f /\ e[1] = g[1])
      PROVE  d = f /\ e = g
  <2>1. CASE e \in Entries(objects[d]) /\ g \in Entries(objects[f])
    BY <1>4, <2>1 DEF NameInv
  <2>2. CASE d = parent /\ e = <<name, id>>
    BY <1>1, <1>2, <1>4, <2>2
  <2>3. CASE f = parent /\ g = <<name, id>>
    BY <1>1, <1>2, <1>4, <2>3
  <2>4. QED
    BY <2>1, <2>2, <2>3
<1>5. QED
  BY <1>3, <1>4 DEF NameInv

(* They stay unique as well when no directory gets an entry at all. *)
LEMMA NoEntryAdded ==
  ASSUME NameInv,
         objects' = [i \in Ids |-> objects'[i]],
         \A i \in Ids : Recorded(objects'[i]),
         \A d \in Ids : Entries(objects'[d]) \subseteq Entries(objects[d])
  PROVE  NameInv'
  BY DEF NameInv

LEMMA SameObjects == NameInv /\ objects' = objects => NameInv'
  BY DEF NameInv

LEMMA EmptyObject ==
  ASSUME NEW type
  PROVE  Recorded(Empty(type)) /\ Entries(Empty(type)) = {}
  BY DEF Recorded, Empty, Entries

(* An object whose content is replaced. *)
LEMMA Changed ==
  ASSUME NEW o, Recorded(o), o # NoObject, NEW content
  PROVE  /\ [o EXCEPT !.content = content] = [type |-> o.type, content |-> content]
         /\ Recorded([o EXCEPT !.content = content])
         /\ o.type # "Directory" => Entries([o EXCEPT !.content = content]) = {}
         /\ Entries([o EXCEPT !.content = content]) \subseteq content
<1>1. [o EXCEPT !.content = content] = [type |-> o.type, content |-> content]
  BY DEF Recorded
<1>2. QED
  BY <1>1 DEF Recorded, Entries

-----------------------------------------------------------------------------
(* Every action keeps names unique.                                         *)

LEMMA CreateNames ==
  ASSUME NameInv, NEW op, NEW type, Create(op, type)
  PROVE  NameInv'
<1> PICK parent, name, id : parent = ret'.id /\ name = ret'.data /\ id = ret'.at
  OBVIOUS
<1>1. /\ IsDirectory(parent) /\ Named(parent, name) = {}
      /\ id \in Ids /\ ~Exists(id) /\ ~Mentioned(id)
      /\ objects' = [objects EXCEPT ![id] = Empty(type),
                                    ![parent].content = @ \cup {<<name, id>>}]
  BY DEF Create
<1>2. parent \in Ids /\ parent # id /\ objects[parent] # NoObject
      /\ Entries(objects[parent]) = objects[parent].content
  BY <1>1, DirectoryEntries DEF IsDirectory, Exists
<1> PICK content : content = objects[parent].content \cup {<<name, id>>}
  OBVIOUS
<1>3. objects' = [i \in Ids |-> IF i = parent THEN [objects[parent] EXCEPT !.content = content]
                                ELSE IF i = id THEN Empty(type) ELSE objects[i]]
  BY <1>1, <1>2 DEF NameInv
<1>4. /\ Recorded([objects[parent] EXCEPT !.content = content])
      /\ Entries([objects[parent] EXCEPT !.content = content]) \subseteq content
  BY <1>2, Changed DEF NameInv
<1>5. \A i \in Ids : Recorded(objects'[i])
  BY <1>3, <1>4, EmptyObject DEF NameInv
<1>6. \A d \in Ids : \A e \in Entries(objects'[d]) :
        e \in Entries(objects[d]) \/ (d = parent /\ e = <<name, id>>)
  BY <1>2, <1>3, <1>4, EmptyObject
<1>7. objects' = [i \in Ids |-> objects'[i]]
  BY <1>3
<1>8. QED
  BY <1>1, <1>5, <1>6, <1>7, EntryAdded

LEMMA CreateUnusableNames ==
  ASSUME NameInv, NEW op, CreateUnusable(op)
  PROVE  NameInv'
<1> PICK parent, name, id : parent = ret'.id /\ name = ret'.data /\ id = ret'.at
  OBVIOUS
<1>1. /\ IsDirectory(parent) /\ Named(parent, name) = {} /\ ~Mentioned(id)
      /\ objects' = [objects EXCEPT ![parent].content = @ \cup {<<name, id>>}]
  BY DEF CreateUnusable
<1>2. parent \in Ids /\ objects[parent] # NoObject
      /\ Entries(objects[parent]) = objects[parent].content
  BY <1>1, DirectoryEntries DEF IsDirectory, Exists
<1> PICK content : content = objects[parent].content \cup {<<name, id>>}
  OBVIOUS
<1>3. objects' = [i \in Ids |-> IF i = parent THEN [objects[parent] EXCEPT !.content = content]
                                ELSE objects[i]]
  BY <1>1, <1>2 DEF NameInv
<1>4. /\ Recorded([objects[parent] EXCEPT !.content = content])
      /\ Entries([objects[parent] EXCEPT !.content = content]) \subseteq content
  BY <1>2, Changed DEF NameInv
<1>5. \A i \in Ids : Recorded(objects'[i])
  BY <1>3, <1>4 DEF NameInv
<1>6. \A d \in Ids : \A e \in Entries(objects'[d]) :
        e \in Entries(objects[d]) \/ (d = parent /\ e = <<name, id>>)
  BY <1>2, <1>3, <1>4
<1>7. objects' = [i \in Ids |-> objects'[i]]
  BY <1>3
<1>8. IsDirectory(parent) /\ Named(parent, name) = {} /\ ~Mentioned(id)
  BY <1>1
<1>9. QED
  BY <1>5, <1>6, <1>7, <1>8, EntryAdded

LEMMA CreateFailsNames ==
  ASSUME NameInv, NEW op, NEW type, NEW code, CreateFails(op, type, code)
  PROVE  NameInv'
<1>1. CASE UNCHANGED objects
  BY <1>1, SameObjects
<1>2. CASE \E id \in Ids : objects' = [objects EXCEPT ![id] = Empty(type)]
  <2>1. PICK id \in Ids : objects' = [objects EXCEPT ![id] = Empty(type)]
    BY <1>2
  <2>2. objects' = [i \in Ids |-> IF i = id THEN Empty(type) ELSE objects[i]]
    BY <2>1 DEF NameInv
  <2>3. \A i \in Ids : Recorded(objects'[i]) /\ Entries(objects'[i]) \subseteq Entries(objects[i])
    BY <2>2, EmptyObject DEF NameInv
  <2>4. objects' = [i \in Ids |-> objects'[i]]
    BY <2>2
  <2>5. QED
    BY <2>3, <2>4, NoEntryAdded
<1>3. QED
  BY <1>1, <1>2 DEF CreateFails

(* What the unlinking of a name leaves. *)
LEMMA Unlinked ==
  ASSUME NameInv, Unlink, NEW parent, NEW name, NEW id, NEW content,
         parent = ret'.id, name = ret'.data, id = ret'.at,
         content = objects[parent].content \ {<<name, id>>}
  PROVE  /\ IsDirectory(parent) /\ Named(parent, name) = {id} /\ IsFile(id)
         /\ parent \in Ids /\ id \in Ids /\ parent # id
         /\ objects' = [i \in Ids |->
               IF i = id THEN NoObject
               ELSE IF i = parent THEN [objects[parent] EXCEPT !.content = content]
               ELSE objects[i]]
<1>1. /\ IsDirectory(parent) /\ Named(parent, name) = {id} /\ IsFile(id)
      /\ objects' = [objects EXCEPT ![id] = NoObject,
                                    ![parent].content = @ \ {<<name, id>>}]
  BY DEF Unlink
<1>2. parent \in Ids /\ id \in Ids /\ parent # id
  BY <1>1 DEF IsDirectory, IsFile, Exists
<1>3. objects' = [i \in Ids |->
         IF i = id THEN NoObject
         ELSE IF i = parent THEN [objects[parent] EXCEPT !.content = content]
         ELSE objects[i]]
  BY <1>1, <1>2 DEF NameInv
<1>4. QED
  BY <1>1, <1>2, <1>3

LEMMA UnlinkNames ==
  ASSUME NameInv, Unlink
  PROVE  NameInv'
<1> PICK parent, name, id, content :
      /\ parent = ret'.id /\ name = ret'.data /\ id = ret'.at
      /\ content = objects[parent].content \ {<<name, id>>}
  OBVIOUS
<1>1. /\ IsDirectory(parent) /\ parent \in Ids /\ id \in Ids
      /\ objects' = [i \in Ids |->
            IF i = id THEN NoObject
            ELSE IF i = parent THEN [objects[parent] EXCEPT !.content = content]
            ELSE objects[i]]
  BY Unlinked
<1> PICK kept : kept = [objects[parent] EXCEPT !.content = content]
  OBVIOUS
<1>2. Recorded(kept) /\ Entries(kept) \subseteq content
  BY <1>1, Changed DEF NameInv, IsDirectory, Exists
<1>3. Recorded(NoObject) /\ Entries(NoObject) = {}
  BY DEF Recorded, Entries
<1>4. content \subseteq Entries(objects[parent])
  BY <1>1, DirectoryEntries
<1>5. \A i \in Ids : objects'[i] = IF i = id THEN NoObject
                                   ELSE IF i = parent THEN kept ELSE objects[i]
  BY <1>1
<1>6. \A i \in Ids : Recorded(objects'[i]) /\ Entries(objects'[i]) \subseteq Entries(objects[i])
  BY <1>2, <1>3, <1>4, <1>5 DEF NameInv
<1>7. objects' = [i \in Ids |-> objects'[i]]
  BY <1>1
<1>8. QED
  BY <1>6, <1>7, NoEntryAdded

(* The content of a file is replaced: no directory changes. *)
LEMMA FileChanges ==
  ASSUME NameInv, NEW id, IsFile(id), NEW content,
         objects' = [objects EXCEPT ![id].content = content]
  PROVE  /\ objects' = [i \in Ids |-> IF i = id THEN [objects[i] EXCEPT !.content = content]
                                                ELSE objects[i]]
         /\ NameInv'
<1>1. id \in Ids /\ objects[id] # NoObject /\ objects[id].type # "Directory"
  BY DEF IsFile, Exists
<1>2. objects' = [i \in Ids |-> IF i = id THEN [objects[i] EXCEPT !.content = content]
                                          ELSE objects[i]]
  BY <1>1 DEF NameInv
<1>3. /\ Recorded([objects[id] EXCEPT !.content = content])
      /\ Entries([objects[id] EXCEPT !.content = content]) = {}
  BY <1>1, Changed DEF NameInv
<1>4. \A i \in Ids : Recorded(objects'[i]) /\ Entries(objects'[i]) \subseteq Entries(objects[i])
  BY <1>2, <1>3 DEF NameInv
<1>5. objects' = [i \in Ids |-> objects'[i]]
  BY <1>2
<1>6. QED
  BY <1>2, <1>4, <1>5, NoEntryAdded

LEMMA WriteFilesOnly ==
  ASSUME Write \/ Truncate
  PROVE  \E id, content : IsFile(id) /\ objects' = [objects EXCEPT ![id].content = content]
  BY DEF Write, Truncate

LEMMA MountNames ==
  ASSUME Mount \/ Death
  PROVE  NameInv'
<1>1. PICK made \in {Empty("Directory"), NoObject} :
        objects' = [id \in Ids |-> IF id = Root THEN made ELSE NoObject]
  BY DEF Mount, Death
<1>2. Recorded(NoObject) /\ Entries(NoObject) = {}
  BY DEF Recorded, Entries
<1>3. \A i \in Ids : Recorded(objects'[i]) /\ Entries(objects'[i]) = {}
  BY <1>1, <1>2, EmptyObject
<1>4. objects' = [i \in Ids |-> objects'[i]]
  BY <1>1
<1>5. QED
  BY <1>3, <1>4 DEF NameInv

LEMMA InitNames == Init => NameInv
<1> SUFFICES ASSUME Init PROVE NameInv
  OBVIOUS
<1>1. objects = [id \in Ids |-> NoObject]
  BY DEF Init
<1>2. Recorded(NoObject) /\ Entries(NoObject) = {}
  BY DEF Recorded, Entries
<1>3. QED
  BY <1>1, <1>2 DEF NameInv

LEMMA OthersChangeNothing ==
  ASSUME \/ Idle \/ Lookup \/ Readdir \/ Getattr \/ Open \/ Read \/ UnlinkFails
         \/ CreateExists("mknod") \/ CreateExists("mkdir") \/ Astray \/ ChangeFails
  PROVE  objects' = objects
  BY DEF Idle, Lookup, Readdir, Getattr, Open, Read, UnlinkFails, CreateExists, Astray,
         ChangeFails

LEMMA NextNames == NameInv /\ [Next]_vars => NameInv'
<1> SUFFICES ASSUME NameInv, [Next]_vars PROVE NameInv'
  OBVIOUS
<1>1. CASE objects' = objects
  BY <1>1, SameObjects
<1>2. ASSUME NEW op, NEW type, NEW code,
             Create(op, type) \/ CreateUnusable(op) \/ CreateFails(op, type, code)
      PROVE  NameInv'
  BY <1>2, CreateNames, CreateUnusableNames, CreateFailsNames
<1>3. CASE Unlink
  BY <1>3, UnlinkNames
<1>4. CASE Write \/ Truncate
  BY <1>4, WriteFilesOnly, FileChanges
<1>5. CASE Mount \/ Death
  BY <1>5, MountNames
<1>6. CASE UNCHANGED vars
  BY <1>1, <1>6 DEF vars
<1>7. QED
  BY <1>1, <1>2, <1>3, <1>4, <1>5, <1>6, OthersChangeNothing DEF Next

LEMMA NamesSpec == Spec => []NameInv
<1>1. QED
  BY InitNames, NextNames, PTL DEF Spec

(* OneNamePerId: however names are made and unlinked, and though ids are    *)
(* given out again, no id is ever reached by two names.                     *)
THEOREM NamesAreUnique == Spec => []OneNamePerId
  BY NamesSpec, OnlyNames, PTL

-----------------------------------------------------------------------------
(* A file keeps its name.                                                   *)

(* No record is taken for the lack of one: NoObject is no object.           *)
NoObjectIsNone == \A type, content : NoObject # [type |-> type, content |-> content]

KeepsFile(d, e) == IsDirectory(d) /\ e \in objects[d].content /\ IsFile(e[2])

(* The directory gets an entry more at most, and the file stays one.        *)
LEMMA StaysNamed ==
  ASSUME NEW d, NEW e, KeepsFile(d, e), d \in Ids, e[2] \in Ids,
         objects'[d] # NoObject, objects'[d].type = "Directory",
         objects[d].content \subseteq objects'[d].content,
         objects'[e[2]] # NoObject, objects'[e[2]].type = "FILE"
  PROVE  KeepsFile(d, e)'
  BY DEF KeepsFile, IsDirectory, IsFile, Exists

(* One object at most changes its content, and a directory only grows.      *)
LEMMA OneChanged ==
  ASSUME NoObjectIsNone, NameInv, NEW d, NEW e, KeepsFile(d, e), NEW parent, NEW content,
         IsDirectory(parent), objects[parent].content \subseteq content,
         objects'[parent] = [objects[parent] EXCEPT !.content = content],
         \A i \in Ids : i # parent /\ objects[i] # NoObject => objects'[i] = objects[i]
  PROVE  KeepsFile(d, e)'
<1>1. /\ d \in Ids /\ objects[d] # NoObject /\ objects[d].type = "Directory"
      /\ e[2] \in Ids /\ objects[e[2]] # NoObject /\ objects[e[2]].type = "FILE"
      /\ parent \in Ids /\ objects[parent] # NoObject /\ objects[parent].type = "Directory"
  BY DEF KeepsFile, IsDirectory, IsFile, Exists
<1>2. objects'[parent] = [type |-> "Directory", content |-> content]
  BY <1>1, Changed DEF NameInv
<1>3. objects'[e[2]] = objects[e[2]]
  BY <1>1
<1>4. CASE d # parent
  <2>1. objects'[d] = objects[d]
    BY <1>1, <1>4
  <2>2. QED
    BY <1>1, <1>3, <2>1, StaysNamed
<1>5. CASE d = parent
  <2>1. objects'[d].type = "Directory" /\ objects'[d].content = content
    BY <1>2, <1>5
  <2>2. objects'[d] # NoObject
    BY <1>2, <1>5 DEF NoObjectIsNone
  <2>3. QED
    BY <1>1, <1>3, <1>5, <2>1, <2>2, StaysNamed
<1>6. QED
  BY <1>4, <1>5

LEMMA NothingChanged ==
  ASSUME NEW d, NEW e, KeepsFile(d, e), objects' = objects
  PROVE  KeepsFile(d, e)'
  BY DEF KeepsFile, IsDirectory, IsFile, Exists

LEMMA CreateKeeps ==
  ASSUME NoObjectIsNone, NameInv, NEW d, NEW e, KeepsFile(d, e),
         NEW op, NEW type, Create(op, type) \/ CreateUnusable(op)
  PROVE  KeepsFile(d, e)'
<1> PICK parent, name, id, content :
      /\ parent = ret'.id /\ name = ret'.data /\ id = ret'.at
      /\ content = objects[parent].content \cup {<<name, id>>}
  OBVIOUS
<1>1. IsDirectory(parent) /\ ~Exists(id)
      /\ \/ objects' = [objects EXCEPT ![id] = Empty(type),
                                       ![parent].content = @ \cup {<<name, id>>}]
         \/ objects' = [objects EXCEPT ![parent].content = @ \cup {<<name, id>>}]
  BY DEF Create, CreateUnusable
<1>2. parent \in Ids /\ parent # id /\ objects[parent] # NoObject
  BY <1>1 DEF IsDirectory, Exists
<1>3. /\ objects'[parent] = [objects[parent] EXCEPT !.content = content]
      /\ \A i \in Ids : i # parent /\ i # id => objects'[i] = objects[i]
  BY <1>1, <1>2 DEF NameInv
<1>4. \A i \in Ids : i # parent /\ objects[i] # NoObject => objects'[i] = objects[i]
  BY <1>1, <1>3 DEF Exists
<1>5. objects[parent].content \subseteq content
  OBVIOUS
<1>6. IsDirectory(parent)
  BY <1>1
<1>7. objects'[parent] = [objects[parent] EXCEPT !.content = content]
  BY <1>3
<1>8. QED
  BY <1>4, <1>5, <1>6, <1>7, OneChanged

LEMMA CreateFailsKeeps ==
  ASSUME NameInv, NEW d, NEW e, KeepsFile(d, e),
         NEW op, NEW type, NEW code, CreateFails(op, type, code)
  PROVE  KeepsFile(d, e)'
<1>1. CASE UNCHANGED objects
  BY <1>1, NothingChanged
<1>2. CASE \E id \in Ids : ~Exists(id) /\ objects' = [objects EXCEPT ![id] = Empty(type)]
  <2>1. PICK id \in Ids : ~Exists(id) /\ objects' = [objects EXCEPT ![id] = Empty(type)]
    BY <1>2
  <2>2. \A i \in Ids : objects[i] # NoObject => objects'[i] = objects[i]
    BY <2>1 DEF NameInv, Exists
  <2>3. QED
    BY <2>2 DEF KeepsFile, IsDirectory, IsFile, Exists
<1>3. QED
  BY <1>1, <1>2 DEF CreateFails

(* A write to a file changes the content of no directory. *)
LEMMA WriteKeeps ==
  ASSUME NoObjectIsNone, NameInv, NEW d, NEW e, KeepsFile(d, e), Write \/ Truncate
  PROVE  KeepsFile(d, e)'
<1>1. PICK id, content : IsFile(id) /\ objects' = [objects EXCEPT ![id].content = content]
  BY WriteFilesOnly
<1>2. /\ id \in Ids /\ objects[id] # NoObject /\ objects[id].type = "FILE"
      /\ objects'[id] = [objects[id] EXCEPT !.content = content]
      /\ \A i \in Ids : i # id => objects'[i] = objects[i]
  BY <1>1 DEF NameInv, IsFile, Exists
<1>3. objects'[id] = [type |-> "FILE", content |-> content]
  BY <1>2, Changed DEF NameInv
<1>4. objects'[id] # NoObject /\ objects'[id].type = "FILE"
  BY <1>3 DEF NoObjectIsNone
<1>5. /\ d \in Ids /\ objects[d] # NoObject /\ objects[d].type = "Directory"
      /\ e \in objects[d].content
      /\ e[2] \in Ids /\ objects[e[2]] # NoObject /\ objects[e[2]].type = "FILE"
  BY DEF KeepsFile, IsDirectory, IsFile, Exists
<1>6. objects'[d] = objects[d]
  BY <1>2, <1>5
<1>7. objects'[e[2]] # NoObject /\ objects'[e[2]].type = "FILE"
  BY <1>2, <1>4, <1>5
<1>8. QED
  BY <1>5, <1>6, <1>7, StaysNamed

(* The unlinking of another name takes neither this name nor this file: the *)
(* id it frees is the other name's alone.                                   *)
LEMMA UnlinkKeeps ==
  ASSUME NoObjectIsNone, NameInv, NEW d, NEW e, KeepsFile(d, e), Unlink,
         ~(ret'.id = d /\ ret'.data = e[1])
  PROVE  KeepsFile(d, e)'
<1> PICK parent, name, id, content :
      /\ parent = ret'.id /\ name = ret'.data /\ id = ret'.at
      /\ content = objects[parent].content \ {<<name, id>>}
  OBVIOUS
<1>1. /\ IsDirectory(parent) /\ Named(parent, name) = {id} /\ IsFile(id)
      /\ parent \in Ids /\ id \in Ids /\ parent # id
      /\ objects' = [i \in Ids |->
            IF i = id THEN NoObject
            ELSE IF i = parent THEN [objects[parent] EXCEPT !.content = content]
            ELSE objects[i]]
  BY Unlinked
<1>2. /\ d \in Ids /\ objects[d] # NoObject /\ objects[d].type = "Directory"
      /\ e \in objects[d].content /\ e \in Entries(objects[d])
      /\ e[2] \in Ids /\ objects[e[2]] # NoObject /\ objects[e[2]].type = "FILE"
  BY DEF KeepsFile, IsDirectory, IsFile, Exists, Entries
<1>3. PICK g \in objects[parent].content : g[1] = name /\ g[2] = id
  BY <1>1 DEF Named
<1>4. g \in Entries(objects[parent])
  BY <1>1, <1>3, DirectoryEntries
<1>5. e[2] # id
  <2>1. SUFFICES ASSUME e[2] = id PROVE FALSE
    OBVIOUS
  <2>2. d = parent /\ e = g
    BY <1>1, <1>2, <1>3, <1>4, <2>1 DEF NameInv
  <2>3. QED
    BY <1>3, <2>2
<1>6. d # id
  BY <1>1, <1>2 DEF IsFile
<1>7. /\ objects[parent] # NoObject /\ objects[parent].type = "Directory"
      /\ Recorded(objects[parent])
  BY <1>1 DEF IsDirectory, Exists, NameInv
<1>8. objects'[e[2]] = objects[e[2]]
  BY <1>1, <1>2, <1>5, <1>7
<1>9. CASE d # parent
  <2>1. objects'[d] = objects[d]
    BY <1>1, <1>2, <1>6, <1>9
  <2>2. QED
    BY <1>2, <1>8, <2>1, StaysNamed
<1>10. CASE d = parent
  <2>1. objects'[d] = [objects[parent] EXCEPT !.content = content]
    BY <1>1, <1>6, <1>10
  <2>2. objects'[d] = [type |-> "Directory", content |-> content]
    BY <1>7, <2>1, Changed
  <2>3. objects'[d] # NoObject
    BY <2>2 DEF NoObjectIsNone
  <2>4. e # <<name, id>>
    BY <1>5
  <2>5. e \in objects'[d].content
    BY <1>2, <1>10, <2>2, <2>4
  <2>6. QED
    BY <1>2, <1>8, <2>2, <2>3, <2>5 DEF KeepsFile, IsDirectory, IsFile, Exists
<1>11. QED
  BY <1>9, <1>10

LEMMA StepKeeps ==
  ASSUME NoObjectIsNone, NameInv, NEW d, NEW e, KeepsFile(d, e), [Next]_vars
  PROVE  \/ KeepsFile(d, e)'
         \/ Answers("unlink", "OK") /\ ret'.id = d /\ ret'.data = e[1]
         \/ Answers("mount", "OK") \/ ret'.code \in {"ABORT", "SEGV", "EXCEPTION"}
<1>1. CASE objects' = objects
  BY <1>1, NothingChanged
<1>2. ASSUME NEW op, NEW type, NEW code,
             Create(op, type) \/ CreateUnusable(op) \/ CreateFails(op, type, code)
      PROVE  KeepsFile(d, e)'
  <2>1. CASE Create(op, type) \/ CreateUnusable(op)
    BY <2>1, CreateKeeps
  <2>2. CASE CreateFails(op, type, code)
    BY <2>2, CreateFailsKeeps
  <2>3. QED
    BY <1>2, <2>1, <2>2
<1>3. CASE Unlink
  <2>1. Answers("unlink", "OK")
    BY <1>3 DEF Unlink
  <2>2. CASE ~(ret'.id = d /\ ret'.data = e[1])
    BY <1>3, <2>2, UnlinkKeeps
  <2>3. QED
    BY <2>1, <2>2
<1>4. CASE Write \/ Truncate
  BY <1>4, WriteKeeps
<1>5. CASE Mount \/ Death
  BY <1>5 DEF Mount, Death
<1>6. CASE UNCHANGED vars
  BY <1>1, <1>6 DEF vars
<1>7. QED
  BY <1>1, <1>2, <1>3, <1>4, <1>5, <1>6, OthersChangeNothing DEF Next

KeepsFiles ==
  \A d \in Ids :
    IsDirectory(d) =>
      \A e \in objects[d].content :
        IsFile(e[2]) =>
          \/ IsDirectory(d)' /\ e \in objects'[d].content /\ IsFile(e[2])'
          \/ Answers("unlink", "OK") /\ ret'.id = d /\ ret'.data = e[1]
          \/ Answers("mount", "OK") \/ ret'.code \in {"ABORT", "SEGV", "EXCEPTION"}

LEMMA NextKeeps ==
  ASSUME NoObjectIsNone, NameInv, [Next]_vars
  PROVE  KeepsFiles
<1> SUFFICES ASSUME NEW d \in Ids, IsDirectory(d), NEW e \in objects[d].content, IsFile(e[2])
             PROVE  \/ IsDirectory(d)' /\ e \in objects'[d].content /\ IsFile(e[2])'
                    \/ Answers("unlink", "OK") /\ ret'.id = d /\ ret'.data = e[1]
                    \/ Answers("mount", "OK") \/ ret'.code \in {"ABORT", "SEGV", "EXCEPTION"}
  BY DEF KeepsFiles
<1>1. KeepsFile(d, e)
  BY DEF KeepsFile
<1>2. \/ KeepsFile(d, e)'
      \/ Answers("unlink", "OK") /\ ret'.id = d /\ ret'.data = e[1]
      \/ Answers("mount", "OK") \/ ret'.code \in {"ABORT", "SEGV", "EXCEPTION"}
  BY <1>1, StepKeeps
<1>3. QED
  BY <1>2 DEF KeepsFile

(* FilesKeepTheirNames: whatever is created, written and unlinked, and      *)
(* whichever ids are given out again, a file's name leads to a file until   *)
(* that very name is unlinked, or a mount or the daemon's death ends all.   *)
THEOREM NamesAreKept ==
  ASSUME NoObjectIsNone
  PROVE  Spec => FilesKeepTheirNames
<1>1. NameInv /\ [Next]_vars => [KeepsFiles]_vars
  BY NextKeeps
<1>2. QED
  BY <1>1, NamesSpec, PTL DEF Spec, FilesKeepTheirNames, KeepsFiles
==============================================================================
