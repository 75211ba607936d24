--------------------------------- MODULE Sftp ---------------------------------
(***************************************************************************)
(* The SFTP client (sftp/client) used by several goroutines, connected to  *)
(* the server of module SftpServer.  A step of the client is one critical  *)
(* section of pendMu, one write to the channel, or one choice of the       *)
(* select; the read loop is a process of its own.                          *)
(*                                                                         *)
(* A packet is written in two writes, its length and its body, under no    *)
(* lock.  When another goroutine writes in between, the server takes the   *)
(* wrong bytes for a packet and never finds the border of one again: it    *)
(* may answer unsupported requests nobody made, and then it gives up or    *)
(* waits for the rest of a packet that does not come.                      *)
(***************************************************************************)
EXTENDS SftpServer

CONSTANTS
  Callers,        \* goroutines that use the client
  Calls,          \* the methods each of them calls
  MaxRequests,    \* bound on the requests sent
  MaxCancels      \* bound on the contexts cancelled

(* The methods of Client and File: a method of one request has its name.   *)
Methods == {"OPEN", "READ", "WRITE", "CLOSE", "ReadDir", "STAT", "LSTAT",
            "MKDIR", "RMDIR", "REMOVE", "RENAME"}

ASSUME SftpAssumption ==
  /\ MaxRequests \in Nat /\ MaxCancels \in Nat
  /\ \A g \in Callers : Calls[g] \subseteq Methods

VARIABLES
  k,          \* per caller: at, call, req (with its id), slot, ctx, file
  nextID,     \* the request id source
  pending,    \* Client.pending: <<id, caller>>
  loop,       \* the read loop: "run", or "ended" with pending = nil
  readDone,   \* closed by Close
  up,         \* the channel is open
  c2s, s2c,   \* what was written and not read yet
  srv,        \* the server: "run", "stuck", "ended"
  s,          \* its session
  cancels, lost, forsaken, crashed
              \* history: cancelled contexts; requests whose caller left do by ctx or
              \* readDone; handles whose close did not succeed; the client panicked

vars == <<k, nextID, pending, loop, readDone, up, c2s, s2c, srv, s, cancels, lost,
          forsaken, crashed>>

NoSlot == Status(0, "empty")
NoReq == [type |-> "", h |-> 0, id |-> 0]
Caller == [at |-> "idle", call |-> "", req |-> NoReq, slot |-> NoSlot, ctx |-> "live",
           file |-> 0]

Init ==
  /\ k = [g \in Callers |-> Caller]
  /\ nextID = 0
  /\ pending = {}
  /\ loop = "run"
  /\ readDone = FALSE
  /\ up = TRUE
  /\ c2s = <<>> /\ s2c = <<>>
  /\ srv = "run"
  /\ s = NewSession
  /\ cancels = 0 /\ lost = {} /\ forsaken = {} /\ crashed = FALSE
-----------------------------------------------------------------------------
(* The methods                                                             *)

Request(type, h) == [type |-> type, h |-> h, id |-> 0]

(* Read, Write and Close of a file need one.                               *)
FileCalls == {"READ", "WRITE", "CLOSE"}

(* The first request of a method.                                          *)
First(call, file) ==
  IF call = "ReadDir" THEN Request("OPENDIR", 0)
  ELSE Request(call, IF call \in FileCalls THEN file ELSE 0)

Idle(c) == [Caller EXCEPT !.file = c.file]
Again(c, type, h) == [c EXCEPT !.at = "begin", !.req = Request(type, h), !.slot = NoSlot]

(* Fault: ReadDir returns without its deferred CloseHandle.                *)
LeaveDir(c) == Idle(c)

EndDir(c) == Again(c, "CLOSE", c.req.h)

(* Open, Create, Append.                                                   *)
openFile(c, reply) ==
  IF reply.type = "handle" THEN [Idle(c) EXCEPT !.file = reply.h] ELSE Idle(c)

(* The user has done with the file, whatever the status.                   *)
CloseFile(c) == [Idle(c) EXCEPT !.file = 0]

(* ReadDir goes on until the end of the directory or an error, and then    *)
(* closes the handle.                                                      *)
ReadDir(c, reply) ==
  CASE c.req.type = "OPENDIR" /\ reply.type = "handle" -> Again(c, "READDIR", reply.h)
    [] c.req.type = "READDIR" /\ reply.type = "name" -> Again(c, "READDIR", c.req.h)
    [] c.req.type = "READDIR" /\ reply.type # "name" -> EndDir(c)
    [] OTHER -> Idle(c)

(* Read, Write, Stat and Lstat return what the one reply says; so do Mkdir,*)
(* Remove, Rmdir and Rename with their status.                             *)
ReadWriteStat(c) == Idle(c)
simpleStatus(c) == Idle(c)

(* What the caller does with the reply, or with the error of do.           *)
After(c, reply) ==
  CASE c.call = "OPEN" -> openFile(c, reply)
    [] c.call = "CLOSE" -> CloseFile(c)
    [] c.call = "ReadDir" -> ReadDir(c, reply)
    [] c.call \in {"READ", "WRITE", "STAT", "LSTAT"} -> ReadWriteStat(c)
    [] OTHER -> simpleStatus(c)

(* A close that fails leaves the handle to the server.                     *)
Forsakes(c, reply) ==
  IF c.req.type = "CLOSE" /\ reply.type # "ok" THEN {c.req.h} ELSE {}

Call(g) ==
  /\ k[g].at = "idle" /\ ~crashed
  /\ nextID < MaxRequests
  /\ \E call \in Calls[g] :
       /\ call \in FileCalls <=> k[g].file # 0
       /\ k' = [k EXCEPT ![g] = [@ EXCEPT !.at = "begin", !.call = call,
                                           !.req = First(call, k[g].file)]]
  /\ UNCHANGED <<nextID, pending, loop, readDone, up, c2s, s2c, srv, s, cancels, lost,
                 forsaken, crashed>>
-----------------------------------------------------------------------------
(* do                                                                      *)

(* A fresh id and its entry; writing to the nil map of an ended read loop  *)
(* panics.                                                                 *)
Begin(g) ==
  /\ k[g].at = "begin" /\ ~crashed
  /\ nextID' = nextID + 1
  /\ IF loop = "ended" THEN crashed' = TRUE /\ UNCHANGED <<k, pending>>
     ELSE /\ pending' = pending \cup {<<nextID', g>>}
          /\ k' = [k EXCEPT ![g] = [@ EXCEPT !.at = "len", !.req.id = nextID']]
          /\ UNCHANGED crashed
  /\ UNCHANGED <<loop, readDone, up, c2s, s2c, srv, s, cancels, lost, forsaken>>

(* WritePacket: the two writes.  On a closed channel a write fails, or is  *)
(* lost.                                                                   *)
WriteHalf(g) ==
  /\ k[g].at \in {"len", "body"} /\ ~crashed
  /\ c2s' = IF up /\ srv = "run" THEN Append(c2s, [half |-> k[g].at, req |-> k[g].req]) ELSE c2s
  /\ k' = [k EXCEPT ![g].at = IF @ = "len" THEN "body" ELSE "wait"]
  /\ UNCHANGED <<nextID, pending, loop, readDone, up, s2c, srv, s, cancels, lost, forsaken,
                 crashed>>

(* Fault: the entry of a request that could not be written stays.          *)
KeepEntry(g) == pending

Unpend(g) == pending \ {<<k[g].req.id, g>>}

WriteFails(g) ==
  /\ k[g].at \in {"len", "body"} /\ ~up /\ ~crashed
  /\ pending' = Unpend(g)
  /\ k' = [k EXCEPT ![g] = After(@, NoSlot)]
  /\ forsaken' = forsaken \cup Forsakes(k[g], NoSlot)
  /\ UNCHANGED <<nextID, loop, readDone, up, c2s, s2c, srv, s, cancels, lost, crashed>>

(* The select: the reply, or the closed reply channel.                     *)
Receive(g) ==
  /\ k[g].at = "wait" /\ k[g].slot # NoSlot /\ ~crashed
  /\ k' = [k EXCEPT ![g] = After(@, @.slot)]
  /\ forsaken' = forsaken \cup Forsakes(k[g], k[g].slot)
  /\ UNCHANGED <<nextID, pending, loop, readDone, up, c2s, s2c, srv, s, cancels, lost, crashed>>

(* The select: readDone, or the done context of a call that goes on; the   *)
(* entry in pending stays.                                                 *)
Leave(g) ==
  /\ lost' = lost \cup {k[g].req.id}
  /\ forsaken' = forsaken \cup Forsakes(k[g], NoSlot)
  /\ UNCHANGED <<nextID, pending, loop, readDone, up, c2s, s2c, srv, s, crashed>>

GiveUp(g) ==
  /\ k[g].at = "wait" /\ ~crashed
  /\ readDone \/ k[g].ctx = "done"
  /\ k' = [k EXCEPT ![g] = After(@, NoSlot)]
  /\ Leave(g)
  /\ UNCHANGED cancels

(* The select: the context is done by now.                                 *)
Cancel(g) ==
  /\ k[g].at = "wait" /\ k[g].ctx = "live" /\ cancels < MaxCancels /\ ~crashed
  /\ k' = [k EXCEPT ![g] = After([@ EXCEPT !.ctx = "done"], NoSlot)]
  /\ cancels' = cancels + 1
  /\ Leave(g)
-----------------------------------------------------------------------------
(* The read loop and Close                                                 *)

(* A packet for the table of callers; a channel of a caller that left do   *)
(* takes the packet and is garbage.                                        *)
Handed(entries, slot) ==
  [g \in Callers |-> IF <<k[g].req.id, g>> \in entries /\ k[g].at \in {"len", "body", "wait"}
                     THEN [k[g] EXCEPT !.slot = slot] ELSE k[g]]

(* Fault: the first entry of the table is taken, whatever the id.          *)
AnyEntry(id) ==
  {e \in pending : \A f \in pending : e[1] <= f[1]}

Entry(id) == {e \in pending : e[1] = id}

readPacket ==
  /\ loop = "run" /\ s2c # <<>> /\ ~crashed
  /\ LET r == Head(s2c)
     IN  /\ pending' = pending \ Entry(r.id)
         /\ k' = Handed(Entry(r.id), r)
  /\ s2c' = Tail(s2c)
  /\ UNCHANGED <<nextID, loop, readDone, up, c2s, srv, s, cancels, lost, forsaken, crashed>>

Closed == Status(0, "closed")

(* Fault: the loop ends and leaves the table as it is.                     *)
readErrorQuiet ==
  /\ loop = "run" /\ ~up /\ ~crashed
  /\ loop' = "ended"
  /\ s2c' = <<>>
  /\ UNCHANGED <<k, nextID, pending, readDone, up, c2s, srv, s, cancels, lost, forsaken, crashed>>

(* The reply channels are closed and the table is dropped.                 *)
readError ==
  /\ loop = "run" /\ ~up /\ ~crashed
  /\ loop' = "ended"
  /\ k' = Handed(pending, Closed)
  /\ pending' = {}
  /\ s2c' = <<>>
  /\ UNCHANGED <<nextID, readDone, up, c2s, srv, s, cancels, lost, forsaken, crashed>>

CloseClient ==
  /\ ~readDone /\ ~crashed
  /\ readDone' = TRUE
  /\ up' = FALSE
  /\ c2s' = <<>>
  /\ UNCHANGED <<k, nextID, pending, loop, s2c, srv, s, cancels, lost, forsaken, crashed>>

(* The connection below breaks.  What the server would still read has no   *)
(* effect that outlives its session.                                       *)
Break ==
  /\ up /\ up' = FALSE
  /\ c2s' = <<>>
  /\ UNCHANGED <<k, nextID, pending, loop, readDone, s2c, srv, s, cancels, lost,
                 forsaken, crashed>>
-----------------------------------------------------------------------------
(* The server                                                              *)

Whole == c2s[1].half = "len" /\ c2s[2] = [half |-> "body", req |-> c2s[1].req]

ServeRequest ==
  /\ srv = "run" /\ Len(c2s) >= 2 /\ Whole
  /\ \E o \in Serve(s, c2s[1].req) :
       /\ s' = o.s
       /\ s2c' = Append(s2c, o.reply)
  /\ c2s' = Tail(Tail(c2s))
  /\ UNCHANGED <<k, nextID, pending, loop, readDone, up, srv, cancels, lost, forsaken, crashed>>

(* Two packets got mixed up: the length of one is followed by that of      *)
(* another, whose first byte is taken for the type of a request that does  *)
(* not exist.  Its answer carries the id the wrong bytes spell: that of a  *)
(* pending request, or one nobody waits for (0).                           *)
ServeGarbled ==
  /\ srv = "run" /\ Len(c2s) >= 2 /\ ~Whole
  /\ \E id \in {0} \cup {e[1] : e \in pending} :
       s2c' = Append(s2c, [Status(id, "unsupported") EXCEPT !.for = 0])
  /\ \/ srv' = "stuck" /\ UNCHANGED <<s, up>>
     \/ srv' = "ended" /\ s' = NewSession /\ up' = FALSE
  /\ c2s' = <<>>
  /\ UNCHANGED <<k, nextID, pending, loop, readDone, cancels, lost, forsaken, crashed>>

(* End of file or an error: Serve returns, and the channel is closed.  The *)
(* files are not; the collector closes them with the backend.              *)
ServeEnds ==
  /\ srv # "ended" /\ ~up
  /\ srv' = "ended"
  /\ s' = NewSession
  /\ UNCHANGED <<k, nextID, pending, loop, readDone, up, c2s, s2c, cancels, lost, forsaken,
                 crashed>>

Do(g) == Begin(g) \/ WriteHalf(g) \/ WriteFails(g) \/ Receive(g) \/ GiveUp(g)
Loop == readPacket \/ readError
Server == ServeRequest \/ ServeGarbled \/ ServeEnds

Next ==
  \/ \E g \in Callers : Call(g) \/ Do(g) \/ Cancel(g)
  \/ Loop \/ CloseClient \/ Break \/ Server

(* Goroutines run when they can; users, contexts and the network owe       *)
(* nothing.                                                                *)
Fairness == WF_vars(Loop) /\ WF_vars(Server) /\ \A g \in Callers : WF_vars(Do(g))

Spec == Init /\ [][Next]_vars /\ Fairness
-----------------------------------------------------------------------------
InDo(g) == k[g].at \in {"len", "body", "wait"}
Garbled ==
  \/ srv # "run"
  \/ \E i \in 1..Len(c2s) : i % 2 = 1 /\ i < Len(c2s) /\ c2s[i].req # c2s[i + 1].req

(* While no two packets were mixed up on the wire, a caller is handed the  *)
(* answer to its own request: by its id, whatever was cancelled, and in    *)
(* whatever order the packets were written (client.go: do, readLoop).      *)
OwnReply ==
  \A g \in Callers : InDo(g) /\ k[g].slot \notin {NoSlot, Closed} /\ ~Garbled =>
    k[g].slot.for = k[g].req.id

(* An entry of pending belongs to a caller that waits for it or to a       *)
(* request that was given up and not answered yet; a caller without a      *)
(* reply has its entry; and the client panics only in a request made after *)
(* the read loop has ended (client.go: do, readLoop).                      *)
TableExact ==
  /\ \A e \in pending : e[1] \in lost \/ (InDo(e[2]) /\ k[e[2]].req.id = e[1])
  /\ \A g \in Callers : InDo(g) /\ k[g].slot = NoSlot => <<k[g].req.id, g>> \in pending
  /\ crashed => loop = "ended"

(* A handle of the session is held by a caller, or on its way to the       *)
(* caller that opened it, unless that caller gave the request up or the    *)
(* close of the handle failed: only then does the server keep a file open  *)
(* that nobody can close (client.go: open, ReadDir; server.go: Serve).     *)
HandlesAccounted ==
  \A h \in DOMAIN s.handles :
    \/ \E g \in Callers : k[g].file = h \/ k[g].req.h = h
    \/ \E g \in Callers : InDo(g) /\ k[g].req.id = s.handles[h].by
    \/ s.handles[h].by \in lost
    \/ h \in forsaken
    \/ Garbled \/ ~up

(* A call returns: answered by the server, or woken when the channel is    *)
(* closed or breaks, at whatever moment; unless the server got stuck in a  *)
(* mixed-up packet or the client panicked (client.go: do, readLoop).       *)
CallsReturn ==
  \A g \in Callers : k[g].at # "idle" ~> (k[g].at = "idle" \/ srv = "stuck" \/ crashed)
===============================================================================
