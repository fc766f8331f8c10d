----------------------------- MODULE Namespace -----------------------------
(***************************************************************************)
(* What the mounted file system promises its clients, with no mention of   *)
(* blocks, of the text of directories, or of the order in which an         *)
(* operation does its parts: objects named by inode ids, where a directory *)
(* is a set of pairs of a name and an id.  FuseDaemon implements it.       *)
(*                                                                         *)
(* Two promises are weaker than one would wish, as the code's are: a create*)
(* that fails for lack of room may leave an empty object that no directory *)
(* names, and the ids that read_inode refuses may be given a name but      *)
(* never an object.                                                        *)
(***************************************************************************)
EXTENDS Naturals, Sequences

CONSTANTS
  Ids,         (* the inode ids *)
  Root,        (* the id of the root directory *)
  NoObject,    (* objects[id] of an id without an object *)
  Zero         (* the byte that fills gaps *)

VARIABLES
  objects,     (* objects[id]: NoObject, or the object's type and content *)
  ret          (* the last call, its arguments and how it ended *)

vars == <<objects, ret>>

Empty(type) ==
  [type |-> type, content |-> IF type = "Directory" THEN {} ELSE <<>>]

Exists(id) == id \in Ids /\ objects[id] # NoObject
IsFile(id) == Exists(id) /\ objects[id].type = "FILE"
IsDirectory(id) == Exists(id) /\ objects[id].type = "Directory"

(* The ids a directory has under a name, and whether any directory has id.  *)
Named(parent, name) ==
  {entry[2] : entry \in {e \in objects[parent].content : e[1] = name}}
Mentioned(id) ==
  \E d \in Ids : IsDirectory(d) /\ \E entry \in objects[d].content : entry[2] = id

Sized(content, n) ==
  [k \in 1 .. n |-> IF k <= Len(content) THEN content[k] ELSE Zero]

Overwritten(content, offset, data) ==
  LET end == offset + Len(data)
      cells == IF end > Len(content) THEN Sized(content, end) ELSE content
  IN [k \in DOMAIN cells |-> IF k > offset /\ k <= end THEN data[k - offset] ELSE cells[k]]

(* The answered call. *)
Answers(op, code) == ret'.op = op /\ ret'.code = code

Init == objects = [id \in Ids |-> NoObject]

(* A mount starts with an empty root directory; when the daemon dies all is *)
(* gone, for the device is in its memory.                                   *)
Mount ==
  /\ Answers("mount", "OK")
  /\ objects' = [id \in Ids |-> IF id = Root THEN Empty("Directory") ELSE NoObject]

Death ==
  /\ ret'.code \in {"ABORT", "SEGV", "EXCEPTION"}
  /\ objects' = [id \in Ids |-> NoObject]

-----------------------------------------------------------------------------
(* Calls on names: ret.id is the parent, ret.data the name, ret.at the id.  *)

(* The id is new: no object has it, and no directory still mentions it.     *)
Create(op, type) ==
  LET parent == ret'.id  name == ret'.data  id == ret'.at
  IN /\ Answers(op, "OK")
     /\ IsDirectory(parent) /\ Named(parent, name) = {}
     /\ id \in Ids /\ ~Exists(id) /\ ~Mentioned(id)
     /\ objects' = [objects EXCEPT ![id] = Empty(type),
                                   ![parent].content = @ \cup {<<name, id>>}]

(* The name is made, but no object. *)
CreateUnusable(op) ==
  LET parent == ret'.id  name == ret'.data  id == ret'.at
  IN /\ Answers(op, "ERANGE")
     /\ IsDirectory(parent) /\ Named(parent, name) = {}
     /\ ~Exists(id) /\ ~Mentioned(id)
     /\ objects' = [objects EXCEPT ![parent].content = @ \cup {<<name, id>>}]

CreateFails(op, type, code) ==
  /\ Answers(op, code)
  /\ \/ UNCHANGED objects
     \/ \E id \in Ids : /\ ~Exists(id) /\ ~Mentioned(id)
                        /\ objects' = [objects EXCEPT ![id] = Empty(type)]

CreateExists(op) ==
  /\ Answers(op, "EEXIST")
  /\ Named(ret'.id, ret'.data) # {}
  /\ UNCHANGED objects

(* The file and its name go together, and nothing else does. *)
Unlink ==
  LET parent == ret'.id  name == ret'.data  id == ret'.at
  IN /\ Answers("unlink", "OK")
     /\ IsDirectory(parent) /\ Named(parent, name) = {id} /\ IsFile(id)
     /\ objects' = [objects EXCEPT ![id] = NoObject,
                                   ![parent].content = @ \ {<<name, id>>}]

UnlinkFails ==
  /\ \/ Answers("unlink", "ENOENT") /\ Named(ret'.id, ret'.data) = {}
     \/ Answers("unlink", "ENOTEMPTY") /\ \E id \in Named(ret'.id, ret'.data) : IsDirectory(id)
     \/ Answers("unlink", "ENOSYS") /\ \E id \in Named(ret'.id, ret'.data) : ~Exists(id)
  /\ UNCHANGED objects

Lookup ==
  LET found == Named(ret'.id, ret'.data)
  IN /\ \/ Answers("lookup", "OK") /\ found = {ret'.at} /\ Exists(ret'.at)
        \/ Answers("lookup", "ENOENT") /\ found = {}
        \/ Answers("lookup", "ERANGE") /\ \E id \in found : ~Exists(id)
     /\ UNCHANGED objects

Readdir ==
  /\ Answers("readdir", "OK")
  /\ IsDirectory(ret'.id) /\ ret'.data = objects[ret'.id].content
  /\ UNCHANGED objects

-----------------------------------------------------------------------------
(* Calls on an open file: ret.id is its id, ret.at an offset or a size.     *)

Getattr ==
  /\ \/ Answers("getattr", "OK") /\ IsFile(ret'.id)
     \/ Answers("getattr", "ENOENT") /\ ~Exists(ret'.id)
  /\ UNCHANGED objects

Open == Answers("open", "OK") /\ UNCHANGED objects

(* A read returns cells of the file from the offset on, none only behind    *)
(* its end.                                                                 *)
Read ==
  LET content == objects[ret'.id].content
  IN /\ \/ /\ Answers("read", "OK") /\ IsFile(ret'.id)
           /\ ret'.data = <<>> <=> ret'.at >= Len(content)
           /\ \A k \in DOMAIN ret'.data : ret'.data[k] = content[ret'.at + k]
        \/ Answers("read", "ERANGE") /\ ~Exists(ret'.id)
     /\ UNCHANGED objects

Write ==
  /\ Answers("write", "OK")
  /\ IsFile(ret'.id)
  /\ objects' = [objects EXCEPT ![ret'.id].content = Overwritten(@, ret'.at, ret'.data)]

Truncate ==
  /\ Answers("setattr", "OK")
  /\ IsFile(ret'.id)
  /\ objects' = [objects EXCEPT ![ret'.id].content = Sized(@, ret'.at)]

(* A file that is open while it is unlinked leaves an id that a create may  *)
(* give to a directory and then fail: what is written there is no entry, and*)
(* no directory leads to it.                                                *)
Astray ==
  /\ ret'.op \in {"getattr", "read", "write", "setattr"} /\ ret'.code = "OK"
  /\ ret'.id # Root /\ IsDirectory(ret'.id) /\ ~Mentioned(ret'.id)
  /\ UNCHANGED objects

(* No room, or no such file: the files are as they were.                    *)
ChangeFails ==
  /\ Answers("write", "ENOSYS") \/ Answers("setattr", "ENOSYS")
  /\ UNCHANGED objects

(* Clients send requests and close files. *)
Idle == Answers("none", "OK") /\ UNCHANGED objects

Next ==
  \/ Idle \/ Lookup \/ Readdir \/ Getattr \/ Open \/ Read
  \/ UnlinkFails \/ CreateExists("mknod") \/ CreateExists("mkdir")
  \/ Create("mknod", "FILE") \/ Create("mkdir", "Directory") \/ Unlink
  \/ CreateFails("mknod", "FILE", "ENOENT")
  \/ CreateFails("mkdir", "Directory", "ENOSYS")
  \/ CreateUnusable("mknod") \/ CreateUnusable("mkdir")
  \/ Write \/ Truncate \/ Astray \/ ChangeFails
  \/ Mount \/ Death

Spec == Init /\ [][Next]_vars

-----------------------------------------------------------------------------
(* A directory has a name once, and no two names, in one directory or in    *)
(* two, share an id: so only the unlinking of a file's own name frees its   *)
(* id, though ids are given out again at once.                              *)
OneNamePerId ==
  \A d, f \in Ids :
    IsDirectory(d) /\ IsDirectory(f) =>
      \A e \in objects[d].content, g \in objects[f].content :
        e[2] = g[2] \/ (d = f /\ e[1] = g[1]) => d = f /\ e = g

(* A file that has a name keeps it, and stays a file, until that name is    *)
(* unlinked or the daemon dies, whatever is created and unlinked meanwhile. *)
FilesKeepTheirNames ==
  [][\A d \in Ids :
       IsDirectory(d) =>
         \A e \in objects[d].content :
           IsFile(e[2]) =>
             \/ IsDirectory(d)' /\ e \in objects'[d].content /\ IsFile(e[2])'
             \/ Answers("unlink", "OK") /\ ret'.id = d /\ ret'.data = e[1]
             \/ Answers("mount", "OK") \/ ret'.code \in {"ABORT", "SEGV", "EXCEPTION"}]_vars
=============================================================================
