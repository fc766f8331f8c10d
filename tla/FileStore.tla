----------------------------- MODULE FileStore -----------------------------
(***************************************************************************)
(* What the file layer promises its callers, with no mention of blocks: a  *)
(* set of files named by inode ids.  A successful call changes the one     *)
(* file it names, in the way it was asked to; a call that fails, or that   *)
(* the process does not survive, changes no file.  FileOperation.tla       *)
(* implements it.                                                          *)
(***************************************************************************)
EXTENDS Naturals, Sequences

CONSTANTS
  Ids,         (* the inode ids *)
  Usable,      (* those that can be read and written *)
  Types,       (* InodeType *)
  NoFile,      (* files[id] of an id that names no file *)
  Contents,    (* the contents a write may store *)
  Offsets,     (* the offsets and sizes calls are made with *)
  Zero         (* the byte that fills gaps *)

VARIABLES
  files,       (* files[id]: NoFile, or the type and content of the file *)
  ret          (* the last call, its arguments and how it ended *)

vars == <<files, ret>>

(* content, cut or extended by zeros to n cells. *)
Sized(content, n) ==
  [k \in 1 .. n |-> IF k <= Len(content) THEN content[k] ELSE Zero]

(* content with data written from cell offset on, gaps filled with zeros. *)
Overwritten(content, offset, data) ==
  [k \in 1 .. (IF offset + Len(data) > Len(content)
                 THEN offset + Len(data) ELSE Len(content)) |->
     IF k > offset /\ k <= offset + Len(data) THEN data[k - offset]
     ELSE IF k <= Len(content) THEN content[k] ELSE Zero]

Call(op, id, at, data, code) ==
  [op |-> op, id |-> id, at |-> at, data |-> data, code |-> code]

Exists(id) == files[id] # NoFile

Init ==
  /\ files = [id \in Ids |-> NoFile]
  /\ ret = Call("none", 0, 0, <<>>, "OK")

Create(type) ==
  \E id \in Usable :
    /\ ret' = Call("create", id, 0, <<>>, "OK")
    /\ ~Exists(id)
    /\ files' = [files EXCEPT ![id] = [type |-> type, content |-> <<>>]]

(* The other ids are given out as well, and no call ever finds a file there. *)
CreateUnusable ==
  /\ ret' \in {Call("create", id, 0, <<>>, "OK") : id \in Ids \ Usable}
  /\ UNCHANGED files

Replace(id, content) ==
  /\ ret' = Call("write_file", id, 0, content, "OK")
  /\ Exists(id)
  /\ files' = [files EXCEPT ![id].content = content]

WriteAt(id, offset, data) ==
  /\ ret' = Call("write_file_w_off", id, offset, data, "OK")
  /\ Exists(id)
  /\ files' = [files EXCEPT ![id].content = Overwritten(@, offset, data)]

Resize(id, size) ==
  /\ ret' = Call("resize", id, size, <<>>, "OK")
  /\ Exists(id)
  /\ files' = [files EXCEPT ![id].content = Sized(@, size)]

Remove(id) ==
  /\ ret' = Call("remove", id, 0, <<>>, "OK")
  /\ Exists(id)
  /\ files' = [files EXCEPT ![id] = NoFile]

(* The caller is told that the id names no file only when that is so. *)
Missing ==
  /\ ret'.code = "INVALID_ARG"
  /\ ret'.id \in Ids => ~Exists(ret'.id)
  /\ UNCHANGED files

(* No room, the death of the process, or a new mount: no file changes. *)
Harmless ==
  /\ ret'.code \in {"OUT_OF_RESOURCE", "SEGV", "EXCEPTION", "MOUNTED"}
  /\ UNCHANGED files

Next ==
  \/ \E type \in Types : Create(type)
  \/ CreateUnusable
  \/ \E id \in Ids :
       \/ \E content \in Contents : Replace(id, content)
       \/ \E offset \in Offsets, data \in Contents : WriteAt(id, offset, data)
       \/ \E size \in Offsets : Resize(id, size)
       \/ Remove(id)
  \/ Missing
  \/ Harmless

Spec == Init /\ [][Next]_vars
=============================================================================
