----------------------------- MODULE FuseDaemon -----------------------------
(***************************************************************************)
(* The daemon (daemons/single_node_fs/main.cc): the handlers of the        *)
(* kernel's requests, over the directory operations and FileOperation on a *)
(* device in memory.  The session loop is single-threaded: it takes one    *)
(* request, runs its handler to the end and takes the next.  A handler is  *)
(* one step, or two when it changes the device in two calls of the file    *)
(* layer: create and unlink write the parent directory in the second.      *)
(* Between the two the clients go on and the process may be killed, and    *)
(* nothing else happens.                                                   *)
(*                                                                         *)
(* The clients' side stands for the kernel: a client waits for the answer  *)
(* to its request; names are resolved by LOOKUP when they are used; an     *)
(* open file is an inode id the client keeps until it opens another, also  *)
(* when the file is unlinked meanwhile (flush and release are not          *)
(* registered, so closing does not reach the daemon).  What a request asks *)
(* is chosen when the daemon reads it: the client waits since it sent it,  *)
(* so it holds what it held then.                                          *)
(***************************************************************************)
EXTENDS FileOperation, Directory

CONSTANTS
  Clients,       (* processes that use the mounted file system *)
  Openers,       (* those that keep a file open; others close it at once *)
  Names,         (* file names they use *)
  Masks          (* to_set of setattr: "SIZE", or "MODE" for any other bits *)

Root == 1        (* FUSE_ROOT_ID *)

(* The device has room for the root directory, and what may stand in a cell *)
(* includes what append_to_directory and rm_from_directory write.           *)
ASSUME DaemonAssumption ==
  /\ Root < MaxInodes - 1 /\ NReserved < NBlocks
  /\ {"FILE", "Directory"} \subseteq Types
  /\ Openers \subseteq Clients /\ Masks \subseteq {"SIZE", "MODE"}

ASSUME TextAssumption ==
  /\ \A name \in Names, id \in InodeIds : name \o <<id>> \in Cells
  /\ \A cell \in Cells :
       Len(cell) > 1 => <<cell[1], string_to_inode_id(cell[2], InodeIds)>> \in Cells

(* What the theorems ask of the clients: no name has a ':', and nothing     *)
(* that is written to a file reads like the entry of a directory.           *)
Pieces(text) == {k \in 1 .. Len(text) : Len(text[k]) > 1}

PlainText ==
  /\ \A name \in Names : name = <<name[1]>>
  /\ \A content \in Contents : Pieces(content) = {}
  /\ ~(Len(Zero) > 1)

VARIABLES
  queue,         (* the requests the daemon has not read, oldest first *)
  waiting,       (* the clients that wait for an answer *)
  held,          (* the open file of each client *)
  running        (* the handler that is between its two calls, if there is one *)

daemonVars == <<queue, waiting, held, running>>
allVars == <<used, home, disk, up, ret, queue, waiting, held, running>>

(* An open file: its inode id (0: none) and whether it was unlinked since. *)
Handle(ino, unlinked) == [ino |-> ino, unlinked |-> unlinked]
NoHandle == Handle(0, FALSE)

(* A handler after its first call, which created or removed inode id.       *)
InHand(op, parent, name, id) ==
  [op |-> op, parent |-> parent, name |-> name, id |-> id]
NoHandler == InHand("none", 0, <<>>, 0)

DaemonTypeOK ==
  /\ TypeOK
  /\ queue \in Seq(Clients) /\ waiting \subseteq Clients
  /\ held \in [Clients -> [ino : 0 .. MaxInodes, unlinked : BOOLEAN]]
  /\ running \in {NoHandler} \cup
       [op : {"mknod", "mkdir", "unlink"}, parent : InodeIds, name : Names, id : InodeIds]

-----------------------------------------------------------------------------
(* What a lookup finds. *)

read_directory(dir) == parse_directory(read_file(dir), InodeIds)

(* lookup finds the name; the error of a parent that is no inode counts as *)
(* not found.                                                               *)
finds(parent, name) ==
  Readable(parent) /\ has_entry(read_directory(parent), name)

lookup(parent, name) == find_entry(read_directory(parent), name)

-----------------------------------------------------------------------------
(* The session loop and the answers. *)

NoFiles == [id \in InodeIds |-> KInvalidBlockID]
Blank == [b \in DataBlocks |-> Stale]

DaemonInit ==
  /\ used = Reserved /\ home = NoFiles /\ disk = Blank
  /\ up = FALSE
  /\ ret = Call("none", 0, 0, <<>>, "OK")
  /\ queue = <<>> /\ waiting = {} /\ held = [c \in Clients |-> NoHandle]
  /\ running = NoHandler

(* The first inode of the new device, formatted in memory, is the root      *)
(* directory; then the loop starts.                                         *)
bootstrap_fuse ==
  /\ ~up /\ Allocated("Directory").id = Root
  /\ up' = TRUE
  /\ used' = Allocated("Directory").used
  /\ home' = Allocated("Directory").home
  /\ disk' = Allocated("Directory").disk
  /\ ret' = Call("mount", Root, 0, <<>>, "OK")
  /\ UNCHANGED daemonVars

(* A client's system call needs an answer of the daemon. *)
Send(c) ==
  /\ up /\ c \notin waiting
  /\ queue' = Append(queue, c)
  /\ waiting' = waiting \cup {c}
  /\ ret' = Call("none", 0, 0, <<>>, "OK")
  /\ UNCHANGED <<used, home, disk, up, held, running>>

(* The loop hands c's request to its handler. *)
Reads(c) == up /\ running = NoHandler /\ queue # <<>> /\ Head(queue) = c

(* Its handler makes the second call. *)
Resumes(c, op) == up /\ running.op = op /\ queue # <<>> /\ Head(queue) = c

(* The first call is made and the handler goes on; it has not answered.     *)
GoesOn(op, parent, name, id) ==
  /\ running' = InHand(op, parent, name, id)
  /\ UNCHANGED <<up, ret, queue, waiting, held>>

(* fuse_reply_...: the request is answered, and the handler returns. *)
Reply(c, call) ==
  /\ ret' = call
  /\ queue' = Tail(queue)
  /\ waiting' = waiting \ {c}
  /\ running' = NoHandler
  /\ UNCHANGED up

(* The process dies: the device was in its memory, and the kernel fails     *)
(* every request.                                                           *)
Dies(call) ==
  /\ ret' = call
  /\ up' = FALSE
  /\ used' = Reserved /\ home' = NoFiles /\ disk' = Blank
  /\ queue' = <<>> /\ waiting' = {} /\ held' = [c \in Clients |-> NoHandle]
  /\ running' = NoHandler

Unchanged == UNCHANGED <<used, home, disk, held>>

-----------------------------------------------------------------------------
(* What a client can name: a directory that the root leads to, and its open *)
(* file.                                                                    *)
IsDirectory(id) == Readable(id) /\ InodeOf(id).type = "Directory"

EntriesOf(dir) ==
  LET list == read_directory(dir)
  IN {<<entry.name, entry.id>> : entry \in {list[k] : k \in DOMAIN list}}

Directories ==
  {id \in InodeIds : IsDirectory(id) /\
     (id = Root \/ \E d \in InodeIds, name \in Names :
                      IsDirectory(d) /\ <<name, id>> \in EntriesOf(d))}

(* An open file whose id comes back as a directory's is given up by the     *)
(* kernel.                                                                  *)
GivenUp(ino) == [k \in Clients |-> IF held[k].ino = ino THEN NoHandle ELSE held[k]]

Opened(c, ino) ==
  [held EXCEPT ![c] = IF c \in Openers THEN Handle(ino, FALSE) ELSE @]

chfs_lookup(c, parent, name) ==
  LET id == lookup(parent, name)
      called(code) == Call("lookup", parent, id, name, code)
  IN /\ UNCHANGED <<used, home, disk>>
     /\ IF ~finds(parent, name)
          THEN Reply(c, Call("lookup", parent, 0, name, "ENOENT")) /\ UNCHANGED held
        ELSE IF ~Readable(id)
          THEN Reply(c, called("ERANGE")) /\ UNCHANGED held
        ELSE /\ Reply(c, called("OK"))
             /\ held' = IF IsDirectory(id) THEN held ELSE Opened(c, id)

chfs_getattr(c) ==
  LET ino == held[c].ino
  IN /\ Reply(c, Call("getattr", ino, 0, <<>>, IF Readable(ino) THEN "OK" ELSE "ENOENT"))
     /\ held' = IF IsDirectory(ino) THEN GivenUp(ino) ELSE held
     /\ UNCHANGED <<used, home, disk>>

chfs_readdir(c, dir) ==
  /\ IF ~Readable(dir) THEN Dies(Call("readdir", dir, 0, <<>>, "EXCEPTION"))
     ELSE /\ Reply(c, IF IsDirectory(dir)
                        THEN Call("readdir", dir, 0, EntriesOf(dir), "OK")
                        ELSE Call("readdir", dir, 0, <<>>, "ENOTDIR"))
          /\ Unchanged

chfs_open(c) ==
  /\ Reply(c, Call("open", held[c].ino, 0, <<>>, "OK"))
  /\ Unchanged

(* The part of a file between off and off + size that exists. *)
Slice(content, off, size) ==
  SubSeq(content, off + 1, IF off + size > Len(content) THEN Len(content) ELSE off + size)

chfs_read_Silent(c, size, off) ==   \* faulty variant: no answer at the end of the file
  LET ino == held[c].ino
  IN /\ IF Readable(ino) /\ off >= InodeOf(ino).size
          THEN queue' = Tail(queue) /\ UNCHANGED <<waiting, up, ret, running>>
          ELSE Reply(c, Call("read", ino, off, <<>>,
                             IF Readable(ino) THEN "OK" ELSE "ERANGE"))
     /\ Unchanged

chfs_read(c, size, off) ==
  LET ino == held[c].ino
  IN /\ IF ~Readable(ino) THEN Reply(c, Call("read", ino, off, <<>>, "ERANGE"))
        ELSE IF off >= InodeOf(ino).size
          THEN Reply(c, Call("read", ino, off, <<>>, "OK"))
        ELSE Reply(c, Call("read", ino, off, Slice(read_file(ino), off, size), "OK"))
     /\ Unchanged

-----------------------------------------------------------------------------
(* The handlers that change files. *)

(* mk_helper creates the inode first.                                       *)
mk_helper_Unchecked(c, op, parent, name, type, otherwise) ==   \* faulty variant:
  /\ Free # {} /\ FreeIds # {}                                 \* no check of the name
  /\ used' = Allocated(type).used
  /\ home' = Allocated(type).home
  /\ disk' = Allocated(type).disk
  /\ GoesOn(op, parent, name, Allocated(type).id)

mk_helper(c, op, parent, name, type, otherwise) ==
  LET called(code) == Call(op, parent, 0, name, code)
  IN /\ CASE finds(parent, name) -> Reply(c, called("EEXIST")) /\ Unchanged
          [] ~finds(parent, name) /\ Free = {} -> Dies(called("EXCEPTION"))
          [] ~finds(parent, name) /\ Free # {} /\ FreeIds = {} ->
               /\ used' = used \cup {NthFree(1)}
               /\ Reply(c, called(otherwise)) /\ UNCHANGED <<home, disk, held>>
          [] OTHER ->
               /\ used' = Allocated(type).used
               /\ home' = Allocated(type).home
               /\ disk' = Allocated(type).disk
               /\ GoesOn(op, parent, name, Allocated(type).id)

(* A file that was created is answered with its attributes, and opened.     *)
Created(c, id, type) ==
  held' = IF type = "Directory" THEN GivenUp(id) ELSE Opened(c, id)

(* Then it writes the entry in the directory.  When that fails the inode    *)
(* stays, and no directory names it.                                        *)
mk_helper_names_Unverified(c, op, type, otherwise) ==   \* faulty variant: answers
  LET parent == running.parent                          \* without get_type_attr
      written == write_file(parent,
                   append_to_directory(read_file(parent), running.name, running.id))
  IN /\ Resumes(c, op) /\ written.code = "OK"
     /\ used' = written.used /\ disk' = written.disk /\ UNCHANGED home
     /\ Reply(c, Call(op, parent, running.id, running.name, "OK"))
     /\ Created(c, running.id, type)

mk_helper_names(c, op, type, otherwise) ==
  LET parent == running.parent
      written == write_file(parent,
                   append_to_directory(read_file(parent), running.name, running.id))
      called(code) == Call(op, parent, running.id, running.name, code)
  IN /\ Resumes(c, op)
     /\ used' = written.used /\ disk' = written.disk /\ UNCHANGED home
     /\ CASE written.code # "OK" -> Reply(c, called(otherwise)) /\ UNCHANGED held
          [] written.code = "OK" /\ Readable(running.id) ->
               Reply(c, called("OK")) /\ Created(c, running.id, type)
          [] written.code = "OK" /\ ~Readable(running.id) ->
               Reply(c, called("ERANGE")) /\ UNCHANGED held

chfs_mknod(c, parent, name) == mk_helper(c, "mknod", parent, name, "FILE", "ENOENT")

chfs_mkdir(c, parent, name) == mk_helper(c, "mkdir", parent, name, "Directory", "ENOSYS")

(* unlink removes the file first. *)
chfs_unlink(c, parent, name) ==
  LET id == lookup(parent, name)
      answer(code) ==
        Reply(c, Call("unlink", parent, IF code = "ENOENT" THEN 0 ELSE id, name, code))
  IN /\ CASE ~finds(parent, name) -> answer("ENOENT") /\ Unchanged
          [] finds(parent, name) /\ ~Readable(id) -> answer("ENOSYS") /\ Unchanged
          [] finds(parent, name) /\ IsDirectory(id) -> answer("ENOTEMPTY") /\ Unchanged
          [] finds(parent, name) /\ Readable(id) /\ ~IsDirectory(id) /\ HasIndirect(id) ->
               Dies(Call("unlink", parent, id, name, "SEGV"))
          [] OTHER ->
               /\ used' = Removed(id).used
               /\ home' = Removed(id).home
               /\ disk' = Removed(id).disk
               /\ IF Removed(id).code = "OK" THEN GoesOn("unlink", parent, name, id)
                                             ELSE answer("ENOSYS") /\ UNCHANGED held

(* Then it rewrites the directory without the entry. *)
chfs_unlink_rewrites(c) ==
  LET parent == running.parent
      written == write_file(parent,
                   rm_from_directory(read_file(parent), running.name, InodeIds))
      called(code) == Call("unlink", parent, running.id, running.name, code)
  IN /\ Resumes(c, "unlink")
     /\ used' = written.used /\ disk' = written.disk /\ UNCHANGED home
     /\ IF written.code = "OK"
          THEN /\ Reply(c, called("OK"))
               /\ held' = [k \in Clients |->
                             IF held[k] = Handle(running.id, FALSE)
                               THEN Handle(running.id, TRUE) ELSE held[k]]
          ELSE Reply(c, called("ENOSYS")) /\ UNCHANGED held

(* Every error but a lack of room is taken for impossible, and the          *)
(* exception of a content that memory cannot hold is caught nowhere.        *)
chfs_write(c, data, off) ==
  LET ino == held[c].ino
      done == write_file(ino, Patched(read_file(ino), data, off))
      called(code) == Call("write", ino, off, data, code)
  IN CASE ~Readable(ino) -> Dies(called("ABORT"))
       [] Readable(ino) /\ ~Resizable(off + Len(data)) -> Dies(called("EXCEPTION"))
       [] OTHER ->
            /\ used' = done.used /\ disk' = done.disk
            /\ UNCHANGED <<home, held>>
            /\ Reply(c, called(IF done.code = "OK" THEN "OK" ELSE "ENOSYS"))

(* The size of the attributes is set, whatever to_set says; it is zero when *)
(* the client did not give one.                                             *)
chfs_setattr(c, ino, mask, st_size) ==
  LET size == IF mask = "SIZE" THEN st_size ELSE 0
      resizes == Readable(ino) /\ InodeOf(ino).size # size
      done == IF ~Readable(ino) THEN Unwritten("INVALID_ARG", used)
              ELSE IF ~resizes THEN Unwritten("OK", used)
              ELSE write_file(ino, Resized(read_file(ino), size))
      called(code) == Call("setattr", ino, st_size, <<mask>>, code)
  IN \/ resizes /\ ~Resizable(size) /\ Dies(called("EXCEPTION"))
     \/ /\ resizes => Resizable(size)
        /\ used' = done.used /\ disk' = done.disk
        /\ held' = IF IsDirectory(ino) /\ done.code = "OK" THEN GivenUp(ino) ELSE held
        /\ UNCHANGED home
        /\ Reply(c, called(IF done.code = "OK" THEN "OK" ELSE "ENOSYS"))

(* rmdir, symlink, rename, link and statfs are registered and abort. *)
Unimplemented(c) ==
  Dies(Call("unimplemented", 0, 0, <<>>, "ABORT"))

(* A signal ends the process, between two requests or in one. *)
Killed == up /\ Dies(Call("killed", 0, 0, <<>>, "ABORT"))

Serve(c) ==
  /\ Reads(c)
  /\ \/ \E parent \in Directories :
          \/ \E name \in Names :
               \/ chfs_lookup(c, parent, name) \/ chfs_unlink(c, parent, name)
               \/ chfs_mknod(c, parent, name) \/ chfs_mkdir(c, parent, name)
          \/ chfs_readdir(c, parent)
          \/ "MODE" \in Masks /\ chfs_setattr(c, parent, "MODE", 0)
     \/ held[c] # NoHandle /\
          \/ chfs_getattr(c) \/ chfs_open(c)
          \/ \E off \in Offsets :
               \/ \E data \in Contents : chfs_write(c, data, off)
               \/ chfs_read(c, BlockSize, off)
               \/ \E mask \in Masks : chfs_setattr(c, held[c].ino, mask, off)
     \/ Unimplemented(c)

Resume(c) ==
  \/ mk_helper_names(c, "mknod", "FILE", "ENOENT")
  \/ mk_helper_names(c, "mkdir", "Directory", "ENOSYS")
  \/ chfs_unlink_rewrites(c)

DaemonNext ==
  \/ bootstrap_fuse \/ Killed
  \/ \E c \in Clients : Send(c) \/ Serve(c) \/ Resume(c)

(* fuse_session_loop takes the next request whenever there is one, until    *)
(* the daemon dies: no handler waits for anything, and each has a case for  *)
(* every state, so the request at the head is dealt with.  The fairness is  *)
(* said of the queue; that who leaves it has an answer is not assumed.      *)
DaemonSpec ==
  /\ DaemonInit /\ [][DaemonNext]_allVars
  /\ WF_queue(queue # <<>> /\ queue' \in {Tail(queue), <<>>})

-----------------------------------------------------------------------------
(* Properties. *)

(* What clients see of the device, through the table, the inodes and the    *)
(* text of the directories, behaves as Namespace says: this is about the    *)
(* order in which mk_helper and unlink create, name, free and rewrite, for  *)
(* clients whose requests come in any order, with a device and an inode     *)
(* table that fill up.  A create takes effect with its second call, before  *)
(* which nothing leads to the inode; an unlink with its first, after which  *)
(* only the entry is left.                                                  *)
Creating == running.op \in {"mknod", "mkdir"}
Unlinking == running.op = "unlink"

Seen(dir) ==
  EntriesOf(dir) \ {entry \in {<<running.name, running.id>>} :
                      Unlinking /\ dir = running.parent}

Objects ==
  [id \in InodeIds |->
     IF Readable(id) /\ ~(Creating /\ id = running.id)
       THEN IF IsDirectory(id)
              THEN [type |-> "Directory", content |-> Seen(id)]
              ELSE [type |-> InodeOf(id).type, content |-> read_file(id)]
       ELSE Stale]

LastCall ==
  IF Unlinking THEN Call("unlink", running.parent, running.id, running.name, "OK") ELSE ret

Abstraction == INSTANCE Namespace WITH
  Ids <- InodeIds, NoObject <- Stale, objects <- Objects, ret <- LastCall

ImplementsNamespace == Abstraction!Spec

(* As long as the file a client has open is not unlinked, nor about to be,  *)
(* its id stands for a file that exactly one name leads to: ids are reused  *)
(* at once and without a generation, so it takes the unlinking of a name to *)
(* free an id, and no two names may share one.                              *)
NamesOf(id) ==
  {entry \in UNION {{<<d, e>> : e \in EntriesOf(d)} : d \in Directories} :
     entry[2][2] = id}

HandlesResolve ==
  \A c \in Clients :
    /\ held[c] # NoHandle /\ ~held[c].unlinked
    /\ ~(Unlinking /\ held[c].ino = running.id)
    =>
    /\ Readable(held[c].ino) /\ InodeOf(held[c].ino).type = "FILE"
    /\ Cardinality(NamesOf(held[c].ino)) = 1

(* Unless it is killed, the daemon dies of five things only: a create on a  *)
(* full device, the removal of a file with an indirect block, a write to a  *)
(* file that was unlinked while it was open, a write or a truncation that   *)
(* makes a content too long for memory (the content is resized before its   *)
(* size is checked), and a handler that is not implemented.  Neither the    *)
(* unwrap in readdir nor the abort in write is reached for a directory, or  *)
(* for a file that still has its name.                                      *)
KnownDeaths ==
  [][up /\ ~up' =>
       CASE ret'.op \in {"mknod", "mkdir"} -> Free = {}
         [] ret'.op = "unlink" -> HasIndirect(lookup(ret'.id, ret'.data))
         [] ret'.op = "write" ->
              held[Head(queue)].unlinked \/ ~Resizable(ret'.at + Len(ret'.data))
         [] ret'.op = "setattr" -> ret'.data = <<"SIZE">> /\ ~Resizable(ret'.at)
         [] OTHER -> ret'.op \in {"unimplemented", "killed"}]_allVars

(* A client that waits gets an answer, or its error when the daemon dies:   *)
(* every way through a handler answers, and the loop goes on to the next.   *)
EveryRequestAnswered == \A c \in Clients : c \in waiting ~> c \notin waiting

-----------------------------------------------------------------------------
(* What a comment in the daemon says, and the code does not do.             *)

(* The comment at chfs_setattr: only the bit FUSE_SET_ATTR_SIZE has to be   *)
(* implemented, which indicates that the size should be changed.  A request *)
(* without that bit therefore changes no content.                           *)
SetattrOnlySetsSize ==
  [][ret'.op = "setattr" /\ ret'.data # <<"SIZE">> => Objects' = Objects]_allVars
=============================================================================
