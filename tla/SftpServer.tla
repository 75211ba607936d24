------------------------------ MODULE SftpServer ------------------------------
(***************************************************************************)
(* One session of the SFTP server (sftp/server, Serve) over the OS backend *)
(* (sftp/server/backend/osfs): the tables of handles and what each request *)
(* does to them.  What the operating system answers is left open.          *)
(*                                                                         *)
(* Serve is a sequential loop, so a request is one operator, from the      *)
(* session and the request to the possible outcomes: the session           *)
(* afterwards and the reply.  Paths, data and attributes are left out.     *)
(***************************************************************************)
EXTENDS Naturals, Sequences, FiniteSets, Functions

(* handles: the handles of the session, each with the backend's handle (0  *)
(* for the marker of a directory) and, for the record, the request that    *)
(* opened it; files: the open files of FS.handles.                         *)
NewSession ==
  [handles |-> <<>>, drained |-> {}, nextID |-> 0, files |-> {}, next |-> 0]

Reply(id, type, h) == [id |-> id, type |-> type, h |-> h, for |-> id]
Status(id, code) == Reply(id, code, 0)
Outcome(s, reply) == [s |-> s, reply |-> reply]

(* sendStatus with mapErr of a backend's error.                            *)
Fails(s, id) == Outcome(s, Status(id, "fail"))

newHandle(s, id, real) ==
  LET h == s.nextID + 1
      handles == [x \in DOMAIN s.handles \cup {h} |->
                    IF x = h THEN [real |-> real, by |-> id] ELSE s.handles[x]]
  IN  Outcome([s EXCEPT !.nextID = h, !.handles = handles], Reply(id, "handle", h))

(* The backend: Open with newHandle, getHandle, Close with drop.           *)
fsOpen(s) == [s EXCEPT !.next = @ + 1, !.files = @ \cup {s.next + 1}]
getHandle(s, h) == s.handles[h].real \in s.files
fsClose(s, real) == [s EXCEPT !.files = @ \ {real}]

Open(s, id) == {Fails(s, id), newHandle(fsOpen(s), id, s.next + 1)}

(* The directory is read once to see that it is one; no file stays open.   *)
Opendir(s, id) == {Fails(s, id), newHandle(s, id, 0)}

resolves(s, h) == h \in DOMAIN s.handles

(* FS.Close fails for the marker of a directory; the error is ignored.     *)
Close(s, id, h) ==
  IF ~resolves(s, h) THEN {Fails(s, id)}
  ELSE {Outcome([fsClose(s, s.handles[h].real) EXCEPT
                   !.handles = Restrict(@, DOMAIN @ \ {h}), !.drained = @ \ {h}],
                Status(id, "ok"))}

(* A seek and the transfer.                                                *)
Read(s, id, h) ==
  IF ~resolves(s, h) \/ ~getHandle(s, h) THEN {Fails(s, id)}
  ELSE {Fails(s, id), Outcome(s, Status(id, "eof")), Outcome(s, Reply(id, "data", 0))}

Write(s, id, h) ==
  IF ~resolves(s, h) \/ ~getHandle(s, h) THEN {Fails(s, id)}
  ELSE {Fails(s, id), Outcome(s, Status(id, "ok"))}

(* The whole directory in the first reply, the end of it afterwards.       *)
Readdir(s, id, h) ==
  IF h \in s.drained THEN {Outcome(s, Status(id, "eof"))}
  ELSE IF ~resolves(s, h) THEN {Fails(s, id)}
  ELSE {Fails(s, id), Outcome([s EXCEPT !.drained = @ \cup {h}], Reply(id, "name", 0))}

Stat(s, id) == {Fails(s, id), Outcome(s, Reply(id, "attrs", 0))}
Mkdir(s, id) == {Fails(s, id), Outcome(s, Status(id, "ok"))}

(* The switch of Serve.                                                    *)
Serve(s, q) ==
  CASE q.type = "OPEN" -> Open(s, q.id)
    [] q.type = "CLOSE" -> Close(s, q.id, q.h)
    [] q.type = "READ" -> Read(s, q.id, q.h)
    [] q.type = "WRITE" -> Write(s, q.id, q.h)
    [] q.type \in {"STAT", "LSTAT"} -> Stat(s, q.id)
    [] q.type = "OPENDIR" -> Opendir(s, q.id)
    [] q.type = "READDIR" -> Readdir(s, q.id, q.h)
    [] q.type \in {"MKDIR", "RMDIR", "REMOVE", "RENAME"} -> Mkdir(s, q.id)
    [] OTHER -> {Outcome(s, Status(q.id, "unsupported"))}
===============================================================================
