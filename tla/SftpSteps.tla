------------------------------- MODULE SftpSteps -------------------------------
(***************************************************************************)
(* The invariant of the SFTP client and server that SftpProofs proves      *)
(* inductive, what each step changes, and the part of the invariant that   *)
(* holds whatever happens to the connection: types, ids, table, replies.   *)
(*                                                                         *)
(* The invariant follows a request on its way.  It has an id that no other *)
(* request gets (Ids) and an entry until its reply is there (Table); its   *)
(* two halves are written once (Once, Due); while they are on the wire     *)
(* there is no reply, and when there is one they are gone (Unanswered); a  *)
(* handle comes with the reply to the request that opened it (Opened), and *)
(* is gone when the reply to its close is a success (Shut).  What concerns *)
(* the wire and the server holds while the channel is up and no packets    *)
(* were mixed up (Sound).                                                  *)
(***************************************************************************)
EXTENDS Sftp, TLAPS

(* The types.                                                               *)
Places == {"idle", "begin", "len", "body", "wait"}
Types == Methods \cup {"", "OPENDIR", "READDIR"}
Answers == {"handle", "fail", "ok", "eof", "data", "name", "attrs", "unsupported"}
ReqType == [type : Types, h : Nat, id : Nat]
ReplyType == [id : Nat, type : Answers, h : Nat, for : Nat]
SlotType == [id : Nat, type : Answers \cup {"empty", "closed"}, h : Nat, for : Nat]
CallerType == [at : Places, call : Methods \cup {""}, req : ReqType, slot : SlotType,
               ctx : {"live", "done"}, file : Nat]
HalfType == [half : {"len", "body"}, req : ReqType]
SessionOK(q) ==
  /\ q = [handles |-> q.handles, drained |-> q.drained, nextID |-> q.nextID,
          files |-> q.files, next |-> q.next]
  /\ q.nextID \in Nat /\ q.next \in Nat
  /\ q.handles = [h \in DOMAIN q.handles |-> q.handles[h]]
  /\ DOMAIN q.handles \subseteq 1..q.nextID
  /\ \A h \in DOMAIN q.handles : q.handles[h] \in [real : Nat, by : Nat]
TypeOK ==
  /\ k \in [Callers -> CallerType]
  /\ nextID \in Nat
  /\ pending \subseteq (1..nextID) \X Callers
  /\ loop \in {"run", "ended"}
  /\ up \in BOOLEAN /\ readDone \in BOOLEAN /\ crashed \in BOOLEAN
  /\ c2s \in Seq(HalfType) /\ s2c \in Seq(ReplyType)
  /\ srv \in {"run", "stuck", "ended"}
  /\ SessionOK(s)
  /\ lost \subseteq 1..nextID

(* A caller has the request that its method is at.                          *)
Fits(c) ==
  /\ c.file # 0 <=> c.call \in FileCalls
  /\ c.call \in FileCalls => c.req.h = c.file
  /\ c.call # "ReadDir" => c.req.type = c.call
  /\ c.call = "ReadDir" => c.req.type \in {"OPENDIR", "READDIR", "CLOSE"}
  /\ c.req.h # 0 => c.req.type \in {"READ", "WRITE", "CLOSE", "READDIR"}
CallerOK(c) ==
  /\ c.at = "idle" => c.req = NoReq
  /\ c.at \in {"idle", "begin"} => c.slot = NoSlot
  /\ c.at # "idle" => Fits(c)
CallersOK == \A g \in Callers : CallerOK(k[g])

(* A request in do has an id of its own.                                    *)
Ids ==
  /\ \A g \in Callers : InDo(g) => k[g].req.id \in 1..nextID \ lost
  /\ \A g, f \in Callers : InDo(g) /\ InDo(f) /\ k[g].req.id = k[f].req.id => g = f

(* pending has the requests in do that wait for a reply, and those given up *)
(* and not answered.                                                        *)
Table ==
  /\ \A e \in pending : e[1] \in lost \/ (InDo(e[2]) /\ k[e[2]].req.id = e[1])
  /\ \A g \in Callers : InDo(g) => (k[g].slot = NoSlot <=> <<k[g].req.id, g>> \in pending)
  /\ loop = "ended" => pending = {} /\ ~up
  /\ crashed => loop = "ended"

(* A reply that was handed to a caller has the id of its request, and while *)
(* the server sees the borders of the packets it is the answer to it.       *)
Answered(g) == InDo(g) /\ k[g].slot \notin {NoSlot, Closed}
Matched ==
  /\ srv = "run" => \A i \in 1..Len(s2c) : s2c[i].for = s2c[i].id
  /\ \A g \in Callers : k[g].slot = Closed => loop = "ended"
  /\ \A g \in Callers : Answered(g) =>
       /\ k[g].slot.id = k[g].req.id
       /\ srv = "run" => k[g].slot.for = k[g].slot.id

(* What is on the wire, while the channel is up and no packets got mixed    *)
(* up: a half belongs to a request in do or given up, it is written once,   *)
(* and its request is not answered yet.                                     *)
Sound == srv = "run" /\ up
On(w, id) == \E i \in 1..Len(w) : w[i].req.id = id
Sent ==
  \A i \in 1..Len(c2s) :
    /\ c2s[i].req.id \in 1..nextID
    /\ \/ c2s[i].req.id \in lost
       \/ \E g \in Callers : InDo(g) /\ k[g].req = c2s[i].req
Once ==
  \A i, j \in 1..Len(c2s) :
    c2s[i].half = c2s[j].half /\ c2s[i].req.id = c2s[j].req.id => i = j
Due ==
  \A g \in Callers, i \in 1..Len(c2s) : InDo(g) /\ c2s[i].req.id = k[g].req.id =>
    k[g].at # "len" /\ (k[g].at = "body" => c2s[i].half = "len")
Unanswered ==
  /\ \A i \in 1..Len(s2c) :
       /\ s2c[i].id \in 1..nextID /\ ~On(c2s, s2c[i].id)
       /\ \A g \in Callers : InDo(g) /\ k[g].req.id = s2c[i].id => k[g].at = "wait"
  /\ \A g \in Callers : Answered(g) => k[g].at = "wait" /\ ~On(c2s, k[g].req.id)

(* Handles are numbered in the order they are made, ...                     *)
Bounds ==
  /\ \A g \in Callers : {k[g].file, k[g].req.h, k[g].slot.h} \subseteq 0..s.nextID
  /\ \A i \in 1..Len(c2s) : c2s[i].req.h <= s.nextID
  /\ \A i \in 1..Len(s2c) : s2c[i].h <= s.nextID
(* ... a handle came with the answer to the request that opened it, ...     *)
OpenedBy(h, b) ==
  /\ ~On(c2s, b) /\ b \in 1..nextID
  /\ \A i \in 1..Len(s2c) : s2c[i].id = b => s2c[i].type = "handle" /\ s2c[i].h = h
  /\ \A g \in Callers : InDo(g) /\ k[g].req.id = b =>
       /\ k[g].at = "wait" /\ k[g].req.type \in {"OPEN", "OPENDIR"}
       /\ Answered(g) => k[g].slot.type = "handle" /\ k[g].slot.h = h
Opened == \A h \in DOMAIN s.handles : OpenedBy(h, s.handles[h].by)
(* ... and one that was closed with success is gone.                        *)
Shut ==
  \A g \in Callers : InDo(g) /\ k[g].req.type = "CLOSE" =>
    /\ k[g].slot.type = "ok" => k[g].req.h \notin DOMAIN s.handles
    /\ \A i \in 1..Len(s2c) : s2c[i].id = k[g].req.id /\ s2c[i].type = "ok" =>
         k[g].req.h \notin DOMAIN s.handles
Accounted ==
  \A h \in DOMAIN s.handles :
    \/ \E g \in Callers : k[g].file = h \/ k[g].req.h = h
    \/ \E g \in Callers : InDo(g) /\ k[g].req.id = s.handles[h].by
    \/ s.handles[h].by \in lost
    \/ h \in forsaken

IInv ==
  /\ TypeOK
  /\ CallersOK /\ Ids /\ Table /\ Matched
  /\ Sound => Sent /\ Once /\ Due /\ Unanswered /\ Bounds /\ Opened /\ Shut /\ Accounted
-----------------------------------------------------------------------------
(* What the server does with one request: it answers that request; it      *)
(* opens at most one handle, with the next number, and says so in its      *)
(* answer; and a handle it says it closed is gone.                         *)
Serves(a, q, b, r) ==
  /\ SessionOK(b) /\ r \in ReplyType
  /\ r.id = q.id /\ r.for = q.id
  /\ a.nextID <= b.nextID /\ r.h <= b.nextID
  /\ \A h \in DOMAIN b.handles :
       \/ h \in DOMAIN a.handles /\ b.handles[h] = a.handles[h]
       \/ /\ h = a.nextID + 1 /\ b.handles[h].by = q.id
          /\ q.type \in {"OPEN", "OPENDIR"} /\ r.type = "handle" /\ r.h = h
  /\ q.type = "CLOSE" /\ r.type = "ok" => q.h \notin DOMAIN b.handles

(* newHandle (server.go).                                                  *)
LEMMA NewHandleServes ==
  ASSUME NEW a, SessionOK(a), NEW q \in ReqType, q.type \in {"OPEN", "OPENDIR"},
         NEW real \in Nat, NEW o, o = newHandle(a, q.id, real)
  PROVE  Serves(a, q, o.s, o.reply)
<1>1. PICK h : h = a.nextID + 1
  OBVIOUS
<1> h \in Nat /\ h > a.nextID
  BY <1>1 DEF SessionOK
<1>2. /\ o.s = [handles |-> [x \in DOMAIN a.handles \cup {h} |->
                              IF x = h THEN [real |-> real, by |-> q.id] ELSE a.handles[x]],
                drained |-> a.drained, nextID |-> h, files |-> a.files, next |-> a.next]
      /\ o.reply = [id |-> q.id, type |-> "handle", h |-> h, for |-> q.id]
  BY Zenon, <1>1 DEF newHandle, Outcome, Reply, SessionOK
<1>3. PICK t : t = o.s.handles
  OBVIOUS
<1>4. /\ t = [x \in DOMAIN t |-> t[x]]
      /\ DOMAIN t = {h} \cup DOMAIN a.handles
      /\ t[h] = [real |-> real, by |-> q.id]
      /\ \A x \in DOMAIN a.handles : x # h => t[x] = a.handles[x]
  BY <1>2, <1>3
<1>5. DOMAIN a.handles \subseteq 1..a.nextID
      /\ a.nextID \in Nat /\ \A x \in DOMAIN a.handles : a.handles[x] \in [real : Nat, by : Nat]
  BY DEF SessionOK
<1>6. SessionOK(o.s)
  BY <1>2, <1>3, <1>4, <1>5 DEF SessionOK, ReqType
<1>7. QED
  BY <1>1, <1>2, <1>3, <1>4, <1>5, <1>6 DEF Serves, ReplyType, ReqType, Answers

(* Close.                                                                  *)
LEMMA CloseServes ==
  ASSUME NEW a, SessionOK(a), NEW q \in ReqType, NEW o \in Close(a, q.id, q.h),
         q.type = "CLOSE"
  PROVE  Serves(a, q, o.s, o.reply)
<1>1. CASE q.h \notin DOMAIN a.handles
  BY <1>1 DEF Close, resolves, Fails, Outcome, Status, Reply, Serves, SessionOK, ReqType,
              ReplyType, Answers
<1>2. CASE q.h \in DOMAIN a.handles
  <2>1. PICK t : t = [x \in DOMAIN a.handles \ {q.h} |-> a.handles[x]]
    BY Zenon
  <2>2. PICK d : d = a.drained \ {q.h}
    BY Zenon
  <2>3. PICK f : f = a.files \ {a.handles[q.h].real}
    BY Zenon
  <2>7. PICK b : b = fsClose(a, a.handles[q.h].real)
    OBVIOUS
  <2>8. b = [handles |-> a.handles, drained |-> a.drained, nextID |-> a.nextID, files |-> f,
             next |-> a.next]
    BY Zenon, <2>3, <2>7 DEF fsClose, SessionOK
  <2>9. o = Outcome([b EXCEPT !.handles = t, !.drained = d], Status(q.id, "ok"))
    BY <1>2, <2>1, <2>2, <2>7, <2>8 DEF Close, resolves, Restrict
  <2>4. /\ o.s = [handles |-> t, drained |-> d, nextID |-> a.nextID, files |-> f,
                  next |-> a.next]
        /\ o.reply = [id |-> q.id, type |-> "ok", h |-> 0, for |-> q.id]
    BY Zenon, <2>8, <2>9 DEF Outcome, Status, Reply
  <2>5. SessionOK(o.s)
    BY <2>1, <2>4 DEF SessionOK
  <2>6. QED
    BY <2>1, <2>4, <2>5 DEF Serves, SessionOK, ReqType, ReplyType, Answers
<1>3. QED
  BY <1>1, <1>2

(* An answer that leaves the handles as they are.                          *)
LEMMA StatusServes ==
  ASSUME NEW a, SessionOK(a), NEW q \in ReqType, NEW type \in Answers \ {"handle"},
         q.type # "CLOSE", NEW d, NEW o,
         o = Outcome([a EXCEPT !.drained = d], Reply(q.id, type, 0))
  PROVE  Serves(a, q, o.s, o.reply)
<1>1. /\ o.s = [handles |-> a.handles, drained |-> d, nextID |-> a.nextID,
                files |-> a.files, next |-> a.next]
      /\ o.reply = [id |-> q.id, type |-> type, h |-> 0, for |-> q.id]
  BY DEF Outcome, Reply, SessionOK
<1>2. SessionOK(o.s)
  BY <1>1 DEF SessionOK
<1>3. QED
  <2>1. o.reply \in ReplyType
    BY <1>1 DEF ReqType, ReplyType
  <2>2. a.nextID <= a.nextID /\ 0 <= a.nextID
    BY DEF SessionOK
  <2>3. QED
    BY <1>1, <1>2, <2>1, <2>2 DEF Serves

(* Serve (server.go).                                                      *)
LEMMA ServeServes ==
  ASSUME NEW a, SessionOK(a), NEW q \in ReqType, NEW o \in Serve(a, q)
  PROVE  Serves(a, q, o.s, o.reply)
<1>0. \/ \E type \in Answers \ {"handle"} : \E d :
           q.type # "CLOSE" /\ o = Outcome([a EXCEPT !.drained = d], Reply(q.id, type, 0))
      \/ q.type = "CLOSE" /\ o \in Close(a, q.id, q.h)
      \/ q.type = "OPEN" /\ o = newHandle(fsOpen(a), q.id, a.next + 1)
      \/ q.type = "OPENDIR" /\ o = newHandle(a, q.id, 0)
  <2>1. a = [a EXCEPT !.drained = a.drained]
    BY DEF SessionOK
  <2>2. CASE q.type = "CLOSE"
    BY <2>2 DEF Serve
  <2>3. CASE q.type = "OPEN"
    BY <2>1, <2>3 DEF Serve, Open, Fails, Status, Answers
  <2>4. CASE q.type = "OPENDIR"
    BY <2>1, <2>4 DEF Serve, Opendir, Fails, Status, Answers
  <2>5. CASE q.type = "READ"
    BY Zenon, <2>1, <2>5 DEF Serve, Read, Fails, Status, Answers
  <2>6. CASE q.type = "WRITE"
    BY Zenon, <2>1, <2>6 DEF Serve, Write, Fails, Status, Answers
  <2>7. CASE q.type = "READDIR"
    BY Zenon, <2>1, <2>7 DEF Serve, Readdir, Fails, Status, Answers
  <2>8. CASE q.type \in {"STAT", "LSTAT"}
    BY Zenon, <2>1, <2>8 DEF Serve, Stat, Fails, Status, Answers
  <2>9. CASE q.type \in {"MKDIR", "RMDIR", "REMOVE", "RENAME"}
    BY Zenon, <2>1, <2>9 DEF Serve, Mkdir, Fails, Status, Answers
  <2>10. CASE q.type \in {"", "ReadDir"}
    BY Zenon, <2>1, <2>10 DEF Serve, Status, Answers
  <2>11. QED
    BY Zenon, <2>2, <2>3, <2>4, <2>5, <2>6, <2>7, <2>8, <2>9, <2>10 DEF ReqType, Types, Methods
<1>1. CASE q.type = "OPEN" /\ o = newHandle(fsOpen(a), q.id, a.next + 1)
  <2>1. PICK b : b = fsOpen(a)
    OBVIOUS
  <2>2. PICK f : f = a.files \cup {a.next + 1}
    BY Zenon
  <2>3. b = [handles |-> a.handles, drained |-> a.drained, nextID |-> a.nextID,
             files |-> f, next |-> a.next + 1]
    BY Zenon, <2>1, <2>2 DEF fsOpen, SessionOK
  <2>4. SessionOK(b) /\ a.next + 1 \in Nat
    BY <2>3 DEF SessionOK
  <2>5. Serves(b, q, o.s, o.reply)
    BY <1>1, <2>1, <2>4, NewHandleServes
  <2>6. b.handles = a.handles /\ b.nextID = a.nextID
    BY <2>3
  <2>7. QED
    BY <2>5, <2>6 DEF Serves
<1>2. CASE q.type = "OPENDIR" /\ o = newHandle(a, q.id, 0)
  BY <1>2, NewHandleServes
<1>3. QED
  BY Zenon, <1>0, <1>1, <1>2, CloseServes, StatusServes
-----------------------------------------------------------------------------
(* What becomes of a caller that leaves do, with a reply or without: it     *)
(* keeps the handles it has, or its request was the one that closes them,   *)
(* and it takes the handle that an open returned.                           *)
Passes(c, r, d) ==
  /\ d \in CallerType /\ CallerOK(d)
  /\ d.at \in {"idle", "begin"}
  /\ {d.file, d.req.h} \subseteq {0, c.file, c.req.h, r.h}
  /\ \A h \in {c.file, c.req.h} :
       \/ h \in {0, d.file, d.req.h}
       \/ h = c.req.h /\ c.req.type = "CLOSE"
  /\ c.req.type \in {"OPEN", "OPENDIR"} /\ r.type = "handle" => r.h \in {d.file, d.req.h}

(* After (client.go: the methods).                                          *)
LEMMA AfterPasses ==
  ASSUME NEW c \in CallerType, NEW r \in SlotType, c.at \in {"len", "body", "wait"}, Fits(c)
  PROVE  Passes(c, r, After(c, r))
<1>0. PICK d : d = After(c, r)
  OBVIOUS
<1>1. ASSUME NEW f \in Nat, d = [Idle(c) EXCEPT !.file = f]
      PROVE  /\ d \in CallerType /\ CallerOK(d) /\ d.at = "idle"
             /\ d.file = f /\ d.req.h = 0
  <2>1. d = [at |-> "idle", call |-> "", req |-> NoReq, slot |-> NoSlot, ctx |-> "live",
             file |-> f]
    BY Zenon, <1>1 DEF Idle, Caller
  <2>2. NoReq \in ReqType /\ NoSlot \in SlotType
    BY DEF NoReq, NoSlot, Status, Reply, ReqType, SlotType, Types
  <2>3. QED
    BY Zenon, <2>1, <2>2 DEF CallerType, CallerOK, Places, NoReq
<1>2. Idle(c) = [Idle(c) EXCEPT !.file = c.file] /\ c.file \in Nat /\ r.h \in Nat
      /\ c.req.h \in Nat
  BY Zenon DEF Idle, Caller, CallerType, SlotType, ReqType
<1>3. ASSUME NEW type \in {"READDIR", "CLOSE"}, NEW h \in Nat, d = Again(c, type, h),
             c.call = "ReadDir"
      PROVE  /\ d \in CallerType /\ CallerOK(d) /\ d.at = "begin"
             /\ d.file = c.file /\ d.req.h = h
  <2>1. d = [at |-> "begin", call |-> c.call, req |-> Request(type, h), slot |-> NoSlot,
             ctx |-> c.ctx, file |-> c.file]
    BY Zenon, <1>3 DEF Again, CallerType
  <2>2. Request(type, h) \in ReqType /\ NoSlot \in SlotType
    BY Zenon DEF Request, NoSlot, Status, Reply, ReqType, SlotType, Types, Methods
  <2>3. Fits(d)
    BY <1>3, <2>1 DEF Fits, Request, FileCalls
  <2>4. QED
    BY Zenon, <2>1, <2>2, <2>3 DEF CallerType, CallerOK, Places, Request
<1>4. CASE c.call = "OPEN"
  <2>1. c.file = 0 /\ c.req.h = 0
    BY <1>4 DEF Fits, FileCalls
  <2>2. CASE r.type = "handle"
    <3>1. d = [Idle(c) EXCEPT !.file = r.h]
      BY <1>0, <1>4, <2>2 DEF After, openFile
    <3>2. QED
      BY <1>0, <1>1, <1>2, <2>1, <3>1 DEF Passes
  <2>3. CASE r.type # "handle"
    <3>1. d = [Idle(c) EXCEPT !.file = c.file]
      BY <1>0, <1>2, <1>4, <2>3 DEF After, openFile
    <3>2. QED
      BY <1>0, <1>1, <1>2, <2>1, <2>3, <3>1 DEF Passes
  <2>4. QED
    BY <2>2, <2>3
<1>5. CASE c.call = "CLOSE"
  <2>1. c.file = c.req.h /\ c.req.type = "CLOSE"
    BY <1>5 DEF Fits, FileCalls
  <2>2. d = [Idle(c) EXCEPT !.file = 0]
    BY <1>0, <1>5 DEF After, CloseFile
  <2>3. QED
    BY <1>0, <1>1, <1>2, <2>1, <2>2 DEF Passes
<1>6. CASE c.call = "ReadDir"
  <2>1. c.file = 0 /\ c.req.type \in {"OPENDIR", "READDIR", "CLOSE"}
        /\ (c.req.type = "OPENDIR" => c.req.h = 0)
    BY <1>6 DEF Fits, FileCalls
  <2>2. d = ReadDir(c, r)
    BY <1>0, <1>6 DEF After
  <2>3. CASE c.req.type = "OPENDIR" /\ r.type = "handle"
    <3>1. d = Again(c, "READDIR", r.h)
      BY <2>2, <2>3 DEF ReadDir
    <3>2. QED
      BY <1>0, <1>2, <1>3, <1>6, <2>1, <2>3, <3>1 DEF Passes
  <2>4. CASE c.req.type = "READDIR" /\ r.type = "name"
    <3>1. d = Again(c, "READDIR", c.req.h)
      BY <2>2, <2>4 DEF ReadDir
    <3>2. QED
      BY <1>0, <1>2, <1>3, <1>6, <2>1, <2>4, <3>1 DEF Passes
  <2>5. CASE c.req.type = "READDIR" /\ r.type # "name"
    <3>1. d = Again(c, "CLOSE", c.req.h)
      BY <2>2, <2>5 DEF ReadDir, EndDir
    <3>2. QED
      BY <1>0, <1>2, <1>3, <1>6, <2>1, <2>5, <3>1 DEF Passes
  <2>6. CASE (c.req.type = "OPENDIR" /\ r.type # "handle") \/ c.req.type = "CLOSE"
    <3>1. d = [Idle(c) EXCEPT !.file = c.file]
      BY <1>2, <2>2, <2>6 DEF ReadDir
    <3>2. QED
      BY <1>0, <1>1, <1>2, <2>1, <2>6, <3>1 DEF Passes
  <2>7. QED
    BY <2>1, <2>3, <2>4, <2>5, <2>6
<1>7. CASE c.call \notin {"OPEN", "CLOSE", "ReadDir"}
  <2>1. /\ c.req.h \in {0, c.file} /\ c.req.type = c.call /\ c.req.type # "OPENDIR"
    BY Zenon, <1>7 DEF Fits, FileCalls, CallerType, Methods
  <2>2. d = [Idle(c) EXCEPT !.file = c.file]
    BY <1>0, <1>2, <1>7 DEF After, ReadWriteStat, simpleStatus
  <2>3. QED
    BY <1>0, <1>1, <1>2, <1>7, <2>1, <2>2 DEF Passes
<1>8. QED
  BY <1>4, <1>5, <1>6, <1>7
-----------------------------------------------------------------------------
(* The steps of a caller c that becomes d: it calls a method, its request   *)
(* gets its id, half of it is written, and a reply is handed to it.         *)
Started(c, d) ==
  /\ c.at = "idle" /\ d.at = "begin" /\ CallerOK(d)
  /\ d.file = c.file /\ d.req.h \in {0, c.file}
Numbered(c, d, id) ==
  /\ c.at = "begin" /\ d.at = "len" /\ CallerOK(d) /\ d.slot = NoSlot
  /\ d.req.id = id /\ d.req.type = c.req.type /\ d.req.h = c.req.h /\ d.file = c.file
Written(c, d) ==
  /\ \/ c.at = "len" /\ d.at = "body"
     \/ c.at = "body" /\ d.at = "wait"
  /\ CallerOK(d) /\ d.req = c.req /\ d.slot = c.slot /\ d.file = c.file
Takes(c, d, r) ==
  /\ d.at = c.at /\ CallerOK(d) /\ d.req = c.req /\ d.slot = r /\ d.file = c.file

(* What the steps do.                                                       *)
Others(g) == \A f \in Callers \ {g} : k'[f] = k[f]
CallEffect(g) ==
  /\ Others(g) /\ Started(k[g], k'[g])
  /\ UNCHANGED <<nextID, pending, loop, up, c2s, s2c, srv, s, lost, forsaken, crashed>>
BeginEffect(g) ==
  /\ Others(g) /\ Numbered(k[g], k'[g], nextID + 1)
  /\ nextID' = nextID + 1 /\ pending' = pending \cup {<<nextID + 1, g>>}
  /\ loop = "run"
  /\ UNCHANGED <<loop, up, c2s, s2c, srv, s, lost, forsaken, crashed>>
PanicEffect ==
  /\ loop = "ended" /\ nextID' = nextID + 1
  /\ UNCHANGED <<k, pending, loop, up, c2s, s2c, srv, s, lost, forsaken>>
WriteEffect(g) ==
  /\ Others(g) /\ Written(k[g], k'[g])
  /\ Sound => c2s' = Append(c2s, [half |-> k[g].at, req |-> k[g].req])
  /\ UNCHANGED <<nextID, pending, loop, up, s2c, srv, s, lost, forsaken, crashed>>
LeaveEffect(g, r) ==
  /\ InDo(g) /\ Others(g) /\ Passes(k[g], r, k'[g])
  /\ forsaken' = forsaken \cup Forsakes(k[g], r)
  /\ \/ k[g].at = "wait" /\ r = k[g].slot /\ r # NoSlot /\ UNCHANGED <<pending, lost>>
     \/ r = NoSlot /\ ~up /\ pending' = Unpend(g) /\ lost' = lost
     \/ r = NoSlot /\ pending' = pending /\ lost' = lost \cup {k[g].req.id}
  /\ UNCHANGED <<nextID, loop, up, c2s, s2c, srv, s, crashed>>
Hands(entries, r) ==
  \A g \in Callers :
    IF InDo(g) /\ <<k[g].req.id, g>> \in entries THEN Takes(k[g], k'[g], r) ELSE k'[g] = k[g]
PacketEffect(r) ==
  /\ loop = "run" /\ Len(s2c) >= 1 /\ r = s2c[1] /\ s2c' = Tail(s2c)
  /\ pending' = pending \ Entry(r.id) /\ Hands(Entry(r.id), r)
  /\ UNCHANGED <<nextID, loop, up, c2s, srv, s, lost, forsaken, crashed>>
ErrorEffect ==
  /\ ~up /\ s2c' = <<>> /\ pending' = {} /\ loop' = "ended" /\ Hands(pending, Closed)
  /\ UNCHANGED <<nextID, up, c2s, srv, s, lost, forsaken, crashed>>
DownEffect ==
  /\ ~up'
  /\ UNCHANGED <<k, nextID, pending, loop, s2c, srv, s, lost, forsaken, crashed>>
ServeEffect(r) ==
  /\ Len(c2s) >= 2 /\ Whole /\ Serves(s, c2s[1].req, s', r)
  /\ s2c' = Append(s2c, r) /\ c2s' = Tail(Tail(c2s))
  /\ UNCHANGED <<k, nextID, pending, loop, up, srv, lost, forsaken, crashed>>
LostEffect ==
  /\ srv' # "run" /\ (up' => up)
  /\ UNCHANGED <<k, nextID, pending, loop, lost, forsaken, crashed>>

Step ==
  \/ \E g \in Callers : CallEffect(g) \/ BeginEffect(g) \/ WriteEffect(g)
  \/ \E g \in Callers, r \in SlotType : LeaveEffect(g, r)
  \/ \E r \in ReplyType : PacketEffect(r) \/ ServeEffect(r)
  \/ PanicEffect \/ ErrorEffect \/ DownEffect \/ LostEffect

(* The constants of the model have their types.                             *)
LEMMA ConstantTypes == NoReq \in ReqType /\ NoSlot \in SlotType /\ Closed \in SlotType
BY DEF NoReq, NoSlot, Closed, Status, Reply, ReqType, SlotType, Types

(* Call.                                                                    *)
LEMMA CallStep ==
  ASSUME TypeOK, CallersOK, NEW g \in Callers, Call(g)
  PROVE  TypeOK' /\ CallEffect(g)
<1>1. PICK call \in Calls[g] :
        /\ call \in FileCalls <=> k[g].file # 0
        /\ k' = [k EXCEPT ![g] = [@ EXCEPT !.at = "begin", !.call = call,
                                           !.req = First(call, k[g].file)]]
  BY Zenon DEF Call
<1>2. call \in Methods
  BY SftpAssumption
<1>3. k \in [Callers -> CallerType] /\ k[g] \in CallerType /\ k[g].slot = NoSlot /\ k[g].at = "idle"
  BY DEF TypeOK, CallersOK, CallerOK, Call
<1>4. PICK q : q = First(call, k[g].file)
  OBVIOUS
<1>5. q \in ReqType /\ q.h \in {0, k[g].file} /\ (call \in FileCalls => q.h = k[g].file)
      /\ (call \notin FileCalls => q.h = 0)
      /\ q.type = (IF call = "ReadDir" THEN "OPENDIR" ELSE call)
  BY Zenon, <1>2, <1>3, <1>4 DEF First, Request, ReqType, CallerType, Types, FileCalls
<1>6. PICK d : d = [k[g] EXCEPT !.at = "begin", !.call = call, !.req = q]
  OBVIOUS
<1>7. k' = [k EXCEPT ![g] = d]
  BY <1>1, <1>3, <1>4, <1>6
<1>8. /\ d \in CallerType
      /\ d.at = "begin" /\ d.call = call /\ d.req = q /\ d.slot = k[g].slot /\ d.file = k[g].file
  BY Zenon, <1>2, <1>3, <1>5, <1>6 DEF CallerType, Places
<1>9. CallerOK(d)
  BY <1>1, <1>2, <1>3, <1>5, <1>8 DEF CallerOK, Fits, FileCalls, Methods
<1>10. TypeOK'
  BY <1>3, <1>7, <1>8 DEF TypeOK, Call
<1>11. Started(k[g], k'[g])
  BY <1>3, <1>5, <1>7, <1>8, <1>9 DEF Started
<1>12. QED
  BY <1>3, <1>7, <1>10, <1>11 DEF CallEffect, Others, Call

(* Begin.                                                                   *)
LEMMA BeginStep ==
  ASSUME TypeOK, CallersOK, NEW g \in Callers, Begin(g)
  PROVE  TypeOK' /\ (BeginEffect(g) \/ PanicEffect)
<1>0. /\ k \in [Callers -> CallerType] /\ nextID \in Nat /\ nextID' = nextID + 1
      /\ pending \subseteq (1..nextID) \X Callers /\ lost \subseteq 1..nextID
  BY DEF TypeOK, Begin
<1>4. 1..nextID \subseteq 1..nextID' /\ nextID' \in Nat /\ nextID' \in 1..nextID'
  BY <1>0
<1>1. CASE loop = "ended"
  <2>1. TypeOK'
    BY <1>0, <1>4, <1>1 DEF TypeOK, Begin
  <2>2. QED
    BY <1>1, <2>1 DEF PanicEffect, Begin
<1>2. CASE loop # "ended"
  <2>1. k[g] \in CallerType /\ k[g].slot = NoSlot /\ k[g].at = "begin" /\ Fits(k[g])
    BY <1>0 DEF CallersOK, CallerOK, Begin
  <2>2. PICK q : q = [k[g].req EXCEPT !.id = nextID + 1]
    BY Zenon
  <2>3. PICK d : d = [k[g] EXCEPT !.at = "len", !.req = q]
    OBVIOUS
  <2>4. q \in ReqType /\ q.type = k[g].req.type /\ q.h = k[g].req.h /\ q.id = nextID + 1
    <3>1. k[g].req \in ReqType
      BY Zenon, <2>1 DEF CallerType
    <3>2. QED
      BY <1>0, <2>2, <3>1 DEF ReqType
  <2>10. k' = [k EXCEPT ![g] = d]
    <3>1. d = [k[g] EXCEPT !.at = "len", !.req.id = nextID + 1]
      BY Zenon, <2>1, <2>2, <2>3 DEF CallerType
    <3>2. QED
      BY <1>0, <1>2, <3>1 DEF Begin
  <2>5. /\ d \in CallerType
        /\ d.at = "len" /\ d.call = k[g].call /\ d.req = q /\ d.slot = k[g].slot
        /\ d.file = k[g].file
    BY Zenon, <2>1, <2>3, <2>4 DEF CallerType, Places
  <2>6. CallerOK(d)
    BY <2>1, <2>4, <2>5 DEF CallerOK, Fits
  <2>7. TypeOK'
    BY <1>0, <1>4, <1>2, <2>10, <2>5 DEF TypeOK, Begin
  <2>8. Numbered(k[g], k'[g], nextID + 1)
    BY <1>0, <2>1, <2>4, <2>10, <2>5, <2>6 DEF Numbered
  <2>9. QED
    BY <1>0, <1>2, <2>10, <2>7, <2>8 DEF BeginEffect, Others, Begin, TypeOK
<1>5. QED
  BY <1>1, <1>2

(* WriteHalf.                                                               *)
LEMMA WriteStep ==
  ASSUME TypeOK, CallersOK, NEW g \in Callers, WriteHalf(g)
  PROVE  TypeOK' /\ WriteEffect(g)
<1>1. k \in [Callers -> CallerType] /\ k[g] \in CallerType /\ CallerOK(k[g])
      /\ k[g].at \in {"len", "body"} /\ c2s \in Seq(HalfType)
  BY DEF TypeOK, CallersOK, WriteHalf
<1>2. PICK d : d = [k[g] EXCEPT !.at = IF @ = "len" THEN "body" ELSE "wait"]
  BY Zenon
<1>3. k' = [k EXCEPT ![g] = d]
  BY <1>1, <1>2 DEF WriteHalf
<1>4. d \in CallerType /\ Written(k[g], d)
  BY Zenon, <1>1, <1>2 DEF CallerType, Places, Written, CallerOK, Fits
<1>5. PICK x : x = [half |-> k[g].at, req |-> k[g].req]
  BY Zenon
<1>6. x \in HalfType
  BY Zenon, <1>1, <1>5 DEF HalfType, CallerType
<1>7. c2s' \in Seq(HalfType) /\ (Sound => c2s' = Append(c2s, x))
  BY <1>1, <1>5, <1>6 DEF WriteHalf, Sound
<1>8. TypeOK'
  BY <1>1, <1>3, <1>4, <1>7 DEF TypeOK, WriteHalf
<1>9. QED
  BY Zenon, <1>1, <1>3, <1>4, <1>5, <1>7, <1>8 DEF WriteEffect, Others, WriteHalf

(* WriteFails, Receive, GiveUp and Cancel.                                  *)
LEMMA LeaveStep ==
  ASSUME TypeOK, CallersOK, Ids, NEW g \in Callers,
         WriteFails(g) \/ Receive(g) \/ GiveUp(g) \/ Cancel(g)
  PROVE  TypeOK' /\ \E r \in SlotType : LeaveEffect(g, r)
<1>1. /\ k \in [Callers -> CallerType] /\ k[g] \in CallerType /\ InDo(g) /\ Fits(k[g])
      /\ k[g].req.id \in 1..nextID /\ lost \subseteq 1..nextID
      /\ pending \subseteq (1..nextID) \X Callers
  BY Zenon DEF TypeOK, CallersOK, CallerOK, Ids, InDo, WriteFails, Receive, GiveUp, Cancel
<1>2. ASSUME NEW c \in CallerType, NEW r \in SlotType, Passes(c, r, After(c, r)),
             c.file = k[g].file, c.req = k[g].req, k' = [k EXCEPT ![g] = After(c, r)]
      PROVE  Passes(k[g], r, k'[g]) /\ Others(g) /\ k' \in [Callers -> CallerType]
  BY <1>1, <1>2 DEF Passes, Others
<1>3. CASE Receive(g)
  <2>1. k[g].slot \in SlotType /\ Passes(k[g], k[g].slot, After(k[g], k[g].slot))
    BY Zenon, <1>1, AfterPasses DEF CallerType, InDo
  <2>2. k' = [k EXCEPT ![g] = After(k[g], k[g].slot)]
    BY <1>1, <1>3 DEF Receive
  <2>3. Passes(k[g], k[g].slot, k'[g]) /\ Others(g) /\ k' \in [Callers -> CallerType]
    BY Zenon, <1>1, <1>2, <2>1, <2>2
  <2>4. TypeOK'
    BY <1>3, <2>3 DEF TypeOK, Receive
  <2>5. LeaveEffect(g, k[g].slot)
    BY Zenon, <1>1, <1>3, <2>3 DEF LeaveEffect, Receive
  <2>6. QED
    BY <2>1, <2>4, <2>5
<1>4. CASE WriteFails(g) \/ GiveUp(g) \/ Cancel(g)
  <2>1. PICK c : c = IF Cancel(g) /\ ~GiveUp(g) /\ ~WriteFails(g)
                       THEN [k[g] EXCEPT !.ctx = "done"] ELSE k[g]
    BY Zenon
  <2>2. /\ c \in CallerType /\ c.file = k[g].file /\ c.req = k[g].req /\ c.at = k[g].at
        /\ c.call = k[g].call
    BY Zenon, <1>1, <2>1 DEF CallerType
  <2>3. Passes(c, NoSlot, After(c, NoSlot)) /\ NoSlot \in SlotType
    BY <1>1, <2>2, AfterPasses, ConstantTypes DEF InDo, Fits
  <2>4. k' = [k EXCEPT ![g] = After(c, NoSlot)]
    BY <1>1, <1>4, <2>1 DEF WriteFails, GiveUp, Cancel
  <2>5. Passes(k[g], NoSlot, k'[g]) /\ Others(g) /\ k' \in [Callers -> CallerType]
    BY Zenon, <1>2, <2>2, <2>3, <2>4
  <2>6. TypeOK'
    BY <1>1, <1>4, <2>5 DEF TypeOK, WriteFails, GiveUp, Cancel, Leave, Unpend
  <2>7. LeaveEffect(g, NoSlot)
    BY <1>1, <1>4, <2>5 DEF LeaveEffect, WriteFails, GiveUp, Cancel, Leave
  <2>8. QED
    BY <2>3, <2>6, <2>7
<1>5. QED
  BY <1>3, <1>4

(* Handed gives the slot to the callers in do that have one of the entries. *)
LEMMA HandedHands ==
  ASSUME TypeOK, CallersOK, NEW entries, NEW r \in SlotType, k' = Handed(entries, r)
  PROVE  k' \in [Callers -> CallerType] /\ Hands(entries, r)
<1>1. k \in [Callers -> CallerType]
  BY DEF TypeOK
<1>2. SUFFICES ASSUME NEW g \in Callers
               PROVE  /\ k'[g] \in CallerType
                      /\ IF InDo(g) /\ <<k[g].req.id, g>> \in entries
                           THEN Takes(k[g], k'[g], r) ELSE k'[g] = k[g]
  BY DEF Handed, Hands
<1>3. k[g] \in CallerType /\ CallerOK(k[g])
  BY <1>1 DEF CallersOK
<1>4. CASE InDo(g) /\ <<k[g].req.id, g>> \in entries
  <2>1. k'[g] = [k[g] EXCEPT !.slot = r]
    BY <1>4 DEF Handed, InDo
  <2>2. QED
    BY Zenon, <1>3, <1>4, <2>1 DEF Takes, CallerType, CallerOK, Fits, InDo
<1>5. CASE ~(InDo(g) /\ <<k[g].req.id, g>> \in entries)
  <2>1. k'[g] = k[g]
    BY <1>5 DEF Handed, InDo
  <2>2. QED
    BY <1>3, <1>5, <2>1
<1>6. QED
  BY <1>4, <1>5

(* readPacket.                                                              *)
LEMMA PacketStep ==
  ASSUME TypeOK, CallersOK, readPacket
  PROVE  TypeOK' /\ \E r \in ReplyType : PacketEffect(r)
<1>1. s2c \in Seq(ReplyType) /\ s2c # <<>> /\ loop = "run"
  BY DEF TypeOK, readPacket
<1>2. PICK r : r = s2c[1]
  OBVIOUS
<1>3. /\ r = Head(s2c) /\ r \in ReplyType /\ Len(s2c) >= 1
      /\ s2c' = Tail(s2c) /\ s2c' \in Seq(ReplyType)
  BY <1>1, <1>2 DEF readPacket
<1>4. r \in SlotType
  BY <1>3 DEF ReplyType, SlotType
<1>5. k' = Handed(Entry(r.id), r) /\ pending' = pending \ Entry(r.id)
  BY <1>3 DEF readPacket
<1>6. k' \in [Callers -> CallerType] /\ Hands(Entry(r.id), r)
  BY <1>4, <1>5, HandedHands
<1>7. TypeOK'
  BY <1>3, <1>5, <1>6 DEF TypeOK, readPacket
<1>8. PacketEffect(r)
  BY <1>1, <1>2, <1>3, <1>5, <1>6 DEF PacketEffect, readPacket
<1>9. QED
  BY <1>3, <1>7, <1>8

(* readError.                                                               *)
LEMMA ErrorStep ==
  ASSUME TypeOK, CallersOK, readError
  PROVE  TypeOK' /\ ErrorEffect
<1>1. k' \in [Callers -> CallerType] /\ Hands(pending, Closed)
  BY HandedHands, ConstantTypes DEF readError
<1>2. TypeOK'
  BY <1>1 DEF TypeOK, readError
<1>3. QED
  BY <1>1, <1>2 DEF ErrorEffect, readError

(* CloseClient and Break.                                                   *)
LEMMA DownStep ==
  ASSUME TypeOK, CloseClient \/ Break
  PROVE  TypeOK' /\ DownEffect
<1>1. SessionOK(s') /\ c2s' \in Seq(HalfType)
  <2>1. s' = s /\ c2s' = <<>>
    BY DEF CloseClient, Break
  <2>2. QED
    BY <2>1 DEF TypeOK
<1>2. TypeOK'
  BY Zenon, <1>1 DEF TypeOK, SessionOK, CloseClient, Break
<1>3. QED
  BY <1>2 DEF CloseClient, Break, DownEffect

(* ServeRequest.                                                            *)
LEMMA ServeStep ==
  ASSUME TypeOK, ServeRequest
  PROVE  TypeOK' /\ \E r \in ReplyType : ServeEffect(r)
<1>1. c2s \in Seq(HalfType) /\ s2c \in Seq(ReplyType) /\ SessionOK(s) /\ Len(c2s) >= 2
  BY DEF TypeOK, ServeRequest
<1>2. c2s[1].req \in ReqType /\ Tail(Tail(c2s)) \in Seq(HalfType)
  <2>1. c2s[1] \in HalfType
    BY <1>1
  <2>2. PICK t : t = Tail(c2s)
    BY Zenon
  <2>3. t \in Seq(HalfType) /\ Len(t) >= 1
    BY <1>1, <2>2
  <2>4. t # <<>>
    BY <2>3
  <2>5. Tail(t) \in Seq(HalfType)
    BY <2>3, <2>4
  <2>6. QED
    BY <2>1, <2>2, <2>5 DEF HalfType
<1>3. PICK o \in Serve(s, c2s[1].req) : s' = o.s /\ s2c' = Append(s2c, o.reply)
  BY DEF ServeRequest
<1>4. Serves(s, c2s[1].req, s', o.reply)
  BY <1>1, <1>2, <1>3, ServeServes
<1>5. o.reply \in ReplyType /\ SessionOK(s')
  BY <1>4 DEF Serves
<1>6. s2c' \in Seq(ReplyType)
  BY <1>1, <1>3, <1>5
<1>7. TypeOK'
  BY <1>2, <1>5, <1>6 DEF TypeOK, ServeRequest, SessionOK
<1>8. ServeEffect(o.reply)
  BY <1>3, <1>4 DEF ServeEffect, ServeRequest
<1>9. QED
  BY <1>5, <1>7, <1>8

(* ServeGarbled and ServeEnds.                                              *)
LEMMA LostStep ==
  ASSUME TypeOK, ServeGarbled \/ ServeEnds
  PROVE  TypeOK' /\ LostEffect
<1>1. SessionOK(NewSession)
  BY DEF SessionOK, NewSession
<1>2. CASE ServeEnds
  <2>1. TypeOK'
    BY <1>1, <1>2 DEF TypeOK, ServeEnds, SessionOK
  <2>2. QED
    BY <1>2, <2>1 DEF LostEffect, ServeEnds
<1>3. CASE ServeGarbled
  <2>1. PICK id \in {0} \cup {e[1] : e \in pending} :
          s2c' = Append(s2c, [Status(id, "unsupported") EXCEPT !.for = 0])
    BY <1>3 DEF ServeGarbled
  <2>2. id \in Nat /\ s2c \in Seq(ReplyType)
    BY DEF TypeOK
  <2>3. [Status(id, "unsupported") EXCEPT !.for = 0] \in ReplyType
    BY <2>2 DEF Status, Reply, ReplyType, Answers
  <2>4. s2c' \in Seq(ReplyType)
    BY <2>1, <2>2, <2>3
  <2>7. SessionOK(s')
    <3>1. s' = s \/ s' = NewSession
      BY <1>3 DEF ServeGarbled
    <3>2. QED
      BY <1>1, <3>1 DEF TypeOK
  <2>8. c2s' \in Seq(HalfType)
    BY <1>3 DEF ServeGarbled
  <2>5. TypeOK'
    BY Zenon, <1>3, <2>4, <2>7, <2>8 DEF TypeOK, ServeGarbled, SessionOK
  <2>6. QED
    BY <1>3, <2>5 DEF LostEffect, ServeGarbled, TypeOK
<1>4. QED
  BY <1>2, <1>3

(* Every step has one of the effects.                                       *)
LEMMA Steps ==
  ASSUME TypeOK, CallersOK, Ids, [Next]_vars
  PROVE  TypeOK' /\ (Step \/ UNCHANGED vars)
<1>1. CASE UNCHANGED vars
  BY <1>1 DEF vars, TypeOK, SessionOK
<1>2. ASSUME NEW g \in Callers, Call(g) \/ Do(g) \/ Cancel(g)
      PROVE  TypeOK' /\ Step
  BY <1>2, CallStep, BeginStep, WriteStep, LeaveStep DEF Do, Step
<1>3. CASE Loop \/ CloseClient \/ Break \/ Server
  BY <1>3, PacketStep, ErrorStep, DownStep, ServeStep, LostStep DEF Loop, Server, Step
<1>4. QED
  BY <1>1, <1>2, <1>3 DEF Next
-----------------------------------------------------------------------------
(* A step in which callers only take replies.                               *)
LEMMA HandsFacts ==
  ASSUME NEW entries, NEW r, Hands(entries, r), NEW g \in Callers
  PROVE  /\ k'[g].at = k[g].at /\ k'[g].req = k[g].req /\ k'[g].file = k[g].file
         /\ \/ k'[g] = k[g] /\ ~(InDo(g) /\ <<k[g].req.id, g>> \in entries)
            \/ k'[g].slot = r /\ InDo(g) /\ <<k[g].req.id, g>> \in entries
BY DEF Hands, Takes

(* Callers have the requests of their methods.                              *)
LEMMA CallersStep ==
  ASSUME CallersOK, Step
  PROVE  CallersOK'
<1>1. ASSUME NEW g \in Callers, CallEffect(g) \/ BeginEffect(g) \/ WriteEffect(g)
      PROVE  CallersOK'
  BY <1>1 DEF CallersOK, CallEffect, BeginEffect, WriteEffect, Others, Started, Numbered, Written
<1>2. ASSUME NEW g \in Callers, NEW r \in SlotType, LeaveEffect(g, r)
      PROVE  CallersOK'
  BY Zenon, <1>2 DEF CallersOK, LeaveEffect, Others, Passes
<1>3. ASSUME NEW r \in ReplyType, PacketEffect(r) PROVE CallersOK'
  BY Zenon, <1>3 DEF CallersOK, PacketEffect, Hands, Takes
<1>4. CASE ErrorEffect
  BY Zenon, <1>4 DEF CallersOK, ErrorEffect, Hands, Takes
<1>5. ASSUME k' = k PROVE CallersOK'
  BY <1>5 DEF CallersOK
<1>6. QED
  BY <1>1, <1>2, <1>3, <1>4, <1>5 DEF Step, ServeEffect, PanicEffect, DownEffect, LostEffect

(* Ids are not used again.                                                  *)
LEMMA IdsStep ==
  ASSUME TypeOK, Ids, Step
  PROVE  Ids'
<1>0. nextID \in Nat /\ lost \subseteq 1..nextID
  BY Zenon DEF TypeOK
<1>1. ASSUME NEW g \in Callers, CallEffect(g) PROVE Ids'
  <2>1. ~InDo(g)' /\ (\A f \in Callers \ {g} : k'[f] = k[f]) /\ nextID' = nextID /\ lost' = lost
    BY <1>1 DEF CallEffect, Others, Started, InDo
  <2>2. QED
    BY Zenon, <2>1 DEF Ids, InDo
<1>2. ASSUME NEW g \in Callers, BeginEffect(g) PROVE Ids'
  <2>1. /\ k'[g].req.id = nextID + 1 /\ (\A f \in Callers \ {g} : k'[f] = k[f])
        /\ nextID' = nextID + 1 /\ lost' = lost
    BY <1>2 DEF BeginEffect, Others, Numbered
  <2>2. QED
    BY <1>0, <2>1 DEF Ids, InDo
<1>3. ASSUME NEW g \in Callers, WriteEffect(g) PROVE Ids'
  <2>1. /\ InDo(g) /\ k'[g].req = k[g].req /\ (\A f \in Callers \ {g} : k'[f] = k[f])
        /\ nextID' = nextID /\ lost' = lost
    BY <1>3 DEF WriteEffect, Others, Written, InDo
  <2>2. QED
    BY <2>1 DEF Ids, InDo
<1>4. ASSUME NEW g \in Callers, NEW r \in SlotType, LeaveEffect(g, r) PROVE Ids'
  <2>1. /\ ~InDo(g)' /\ InDo(g) /\ (\A f \in Callers \ {g} : k'[f] = k[f])
        /\ nextID' = nextID /\ lost' \subseteq lost \cup {k[g].req.id}
    BY Zenon, <1>4 DEF LeaveEffect, Others, Passes, InDo
  <2>2. QED
    BY <2>1 DEF Ids, InDo
<1>5. ASSUME NEW entries, NEW r, Hands(entries, r), nextID' = nextID, lost' = lost PROVE Ids'
  <2>1. \A g \in Callers : k'[g].at = k[g].at /\ k'[g].req = k[g].req
    BY Zenon, <1>5, HandsFacts
  <2>2. QED
    BY <1>5, <2>1 DEF Ids, InDo
<1>6. ASSUME k' = k, nextID' \in {nextID, nextID + 1}, lost' = lost PROVE Ids'
  BY <1>0, <1>6 DEF Ids, InDo
<1>7. QED
  BY <1>1, <1>2, <1>3, <1>4, <1>5, <1>6
     DEF Step, PacketEffect, ErrorEffect, ServeEffect, PanicEffect, DownEffect, LostEffect

(* The table.                                                               *)
LEMMA TableStep ==
  ASSUME TypeOK, CallersOK, Ids, Table, Step
  PROVE  Table'
<1>0. nextID \in Nat /\ pending \subseteq (1..nextID) \X Callers /\ up \in BOOLEAN
  BY DEF TypeOK
<1>1. ASSUME NEW g \in Callers, CallEffect(g) PROVE Table'
  <2>1. /\ ~InDo(g) /\ ~InDo(g)' /\ \A f \in Callers \ {g} : k'[f] = k[f]
        /\ UNCHANGED <<pending, lost, loop, up, crashed>>
    BY <1>1 DEF CallEffect, Others, Started, InDo
  <2>2. QED
    BY <1>0, <2>1 DEF Table, InDo
<1>2. ASSUME NEW g \in Callers, BeginEffect(g) PROVE Table'
  <2>1. /\ ~InDo(g) /\ InDo(g)' /\ k'[g].slot = NoSlot /\ k'[g].req.id = nextID + 1
        /\ (\A f \in Callers \ {g} : k'[f] = k[f])
        /\ pending' = pending \cup {<<nextID + 1, g>>} /\ loop = "run"
        /\ UNCHANGED <<lost, loop, up, crashed>>
    BY <1>2 DEF BeginEffect, Others, Numbered, InDo
  <2>2. \A e \in pending' : e[1] \in lost' \/ (InDo(e[2])' /\ k'[e[2]].req.id = e[1])
    BY <1>0, <2>1 DEF Table, InDo
  <2>3. ASSUME NEW f \in Callers, InDo(f)'
        PROVE  k'[f].slot = NoSlot <=> <<k'[f].req.id, f>> \in pending'
    BY <1>0, <2>1, <2>3 DEF Table, InDo
  <2>4. QED
    BY <2>1, <2>2, <2>3 DEF Table
<1>3. ASSUME NEW g \in Callers, WriteEffect(g) PROVE Table'
  <2>1. /\ InDo(g) /\ InDo(g)' /\ k'[g].slot = k[g].slot /\ k'[g].req = k[g].req
        /\ (\A f \in Callers \ {g} : k'[f] = k[f])
        /\ UNCHANGED <<pending, lost, loop, up, crashed>>
    BY Zenon, <1>3 DEF WriteEffect, Others, Written, InDo
  <2>2. QED
    BY <1>0, <2>1 DEF Table, InDo
<1>4. ASSUME NEW g \in Callers, NEW r \in SlotType, LeaveEffect(g, r) PROVE Table'
  <2>1. /\ InDo(g) /\ ~InDo(g)' /\ (\A f \in Callers \ {g} : k'[f] = k[f])
        /\ pending' \in {pending, Unpend(g)} /\ lost \subseteq lost'
        /\ UNCHANGED <<loop, up, crashed>>
    BY Zenon, <1>4 DEF LeaveEffect, Others, Passes, InDo
  <2>2. <<k[g].req.id, g>> \in pending' => k[g].req.id \in lost'
    BY <1>4 DEF LeaveEffect, Table, Unpend
  <2>3. \A e \in pending' : e[1] \in lost' \/ (InDo(e[2])' /\ k'[e[2]].req.id = e[1])
    <3>1. SUFFICES ASSUME NEW e \in pending', e[1] \notin lost
                   PROVE  e[1] \in lost' \/ (InDo(e[2])' /\ k'[e[2]].req.id = e[1])
      BY <2>1
    <3>2. e \in pending /\ e = <<e[1], e[2]>> /\ e[2] \in Callers
      BY <1>0, <2>1 DEF Unpend
    <3>3. InDo(e[2]) /\ k[e[2]].req.id = e[1]
      BY <3>1, <3>2 DEF Table
    <3>4. CASE e[2] = g
      BY <2>2, <3>1, <3>2, <3>3, <3>4
    <3>5. CASE e[2] # g
      BY <2>1, <3>2, <3>3, <3>5 DEF InDo
    <3>6. QED
      BY <3>4, <3>5
  <2>4. ASSUME NEW f \in Callers, InDo(f)'
        PROVE  k'[f].slot = NoSlot <=> <<k'[f].req.id, f>> \in pending'
    BY <2>1, <2>4 DEF Table, InDo, Unpend
  <2>5. QED
    BY Zenon, <2>1, <2>3, <2>4 DEF Table, Unpend
<1>5. ASSUME NEW r \in ReplyType, PacketEffect(r) PROVE Table'
  <2>1. /\ pending' = pending \ Entry(r.id) /\ Hands(Entry(r.id), r)
        /\ UNCHANGED <<lost, loop, up, crashed>>
    BY <1>5 DEF PacketEffect
  <2>2. r # NoSlot
    BY DEF ReplyType, Answers, NoSlot, Status, Reply
  <2>3. \A e \in pending' : e[1] \in lost' \/ (InDo(e[2])' /\ k'[e[2]].req.id = e[1])
    BY <1>0, <2>1, HandsFacts DEF Table, InDo
  <2>4. ASSUME NEW f \in Callers, InDo(f)'
        PROVE  k'[f].slot = NoSlot <=> <<k'[f].req.id, f>> \in pending'
    <3>1. InDo(f) /\ k'[f].req = k[f].req
      BY Zenon, <2>1, <2>4, HandsFacts DEF InDo
    <3>2. CASE <<k[f].req.id, f>> \in Entry(r.id)
      <4>1. k'[f].slot = r
        BY <2>1, <3>1, <3>2, HandsFacts
      <4>2. QED
        BY Zenon, <2>1, <2>2, <3>1, <3>2, <4>1
    <3>3. CASE <<k[f].req.id, f>> \notin Entry(r.id)
      <4>1. k'[f] = k[f]
        BY <2>1, <3>3, HandsFacts
      <4>2. QED
        BY <2>1, <3>1, <3>3, <4>1 DEF Table
    <3>4. QED
      BY Zenon, <3>2, <3>3
  <2>5. QED
    BY <2>1, <2>3, <2>4 DEF Table
<1>6. CASE ErrorEffect
  <2>1. pending' = {} /\ Hands(pending, Closed) /\ loop' = "ended" /\ ~up'
    BY <1>6 DEF ErrorEffect
  <2>2. Closed # NoSlot
    BY DEF Closed, NoSlot, Status, Reply
  <2>3. ASSUME NEW f \in Callers, InDo(f)'
        PROVE  k'[f].slot # NoSlot
    <3>1. InDo(f)
      BY Zenon, <2>1, <2>3, HandsFacts DEF InDo
    <3>2. CASE <<k[f].req.id, f>> \in pending
      BY <2>1, <2>2, <3>1, <3>2, HandsFacts
    <3>3. CASE <<k[f].req.id, f>> \notin pending
      <4>1. k'[f] = k[f]
        BY <2>1, <3>3, HandsFacts
      <4>2. QED
        BY <3>1, <3>3, <4>1 DEF Table
    <3>4. QED
      BY Zenon, <3>2, <3>3
  <2>4. QED
    BY <2>1, <2>3 DEF Table
<1>7. ASSUME k' = k, pending' = pending, lost' = lost, loop' = loop, up' => up,
             crashed' => crashed \/ loop = "ended"
      PROVE  Table'
  BY <1>7 DEF Table, InDo
<1>8. QED
  BY <1>1, <1>2, <1>3, <1>4, <1>5, <1>6, <1>7
     DEF Step, ServeEffect, PanicEffect, DownEffect, LostEffect

(* The reply of a caller.                                                   *)
LEMMA MatchedStep ==
  ASSUME TypeOK, TypeOK', CallersOK', Table, Matched, Step
  PROVE  Matched'
<1>0. s2c \in Seq(ReplyType) /\ NoSlot # Closed
  BY Zenon DEF TypeOK, NoSlot, Closed, Status, Reply
<1>1. ASSUME NEW g \in Callers,
             CallEffect(g) \/ BeginEffect(g) \/ (\E r \in SlotType : LeaveEffect(g, r))
      PROVE  Matched'
  <2>1. /\ (\A f \in Callers \ {g} : k'[f] = k[f]) /\ k'[g].slot = NoSlot
        /\ UNCHANGED <<s2c, srv, loop>>
    BY Zenon, <1>1 DEF CallEffect, BeginEffect, LeaveEffect, Others, Started, Numbered,
                         Passes, CallerOK
  <2>2. QED
    BY <1>0, <2>1 DEF Matched, Answered, InDo
<1>2. ASSUME NEW g \in Callers, WriteEffect(g) PROVE Matched'
  <2>1. /\ (\A f \in Callers \ {g} : k'[f] = k[f]) /\ k'[g].slot = k[g].slot /\ InDo(g)
        /\ k'[g].req = k[g].req /\ UNCHANGED <<s2c, srv, loop>>
    BY Zenon, <1>2 DEF WriteEffect, Others, Written, InDo
  <2>2. QED
    BY <2>1 DEF Matched, Answered, InDo
<1>3. ASSUME NEW r \in ReplyType, PacketEffect(r) PROVE Matched'
  <2>1. /\ Hands(Entry(r.id), r) /\ UNCHANGED <<srv, loop>>
        /\ Len(s2c) >= 1 /\ r = s2c[1] /\ s2c' = Tail(s2c)
    BY <1>3 DEF PacketEffect
  <2>2. srv = "run" => r.for = r.id /\ \A i \in 1..Len(s2c') : s2c'[i].for = s2c'[i].id
    BY <1>0, <2>1 DEF Matched
  <2>3. r # Closed
    BY DEF ReplyType, Answers, Closed, Status, Reply
  <2>4. ASSUME NEW g \in Callers
        PROVE  /\ k'[g].slot = Closed => loop' = "ended"
               /\ Answered(g)' => /\ k'[g].slot.id = k'[g].req.id
                                  /\ srv' = "run" => k'[g].slot.for = k'[g].slot.id
    <3>1. CASE k'[g] = k[g]
      BY Zenon, <2>1, <3>1 DEF Matched, Answered, InDo
    <3>2. CASE k'[g].slot = r /\ k'[g].req = k[g].req /\ <<k[g].req.id, g>> \in Entry(r.id)
      BY <2>1, <2>2, <2>3, <3>2 DEF Entry
    <3>3. QED
      BY <2>1, <3>1, <3>2, HandsFacts
  <2>5. QED
    BY <2>1, <2>2, <2>4 DEF Matched
<1>4. CASE ErrorEffect
  <2>1. Hands(pending, Closed) /\ loop' = "ended" /\ s2c' = <<>> /\ srv' = srv
    BY Zenon, <1>4 DEF ErrorEffect
  <2>2. \A g \in Callers : k'[g] = k[g] \/ k'[g].slot = Closed
    BY Zenon, <2>1, HandsFacts
  <2>3. QED
    BY <2>1, <2>2 DEF Matched, Answered, InDo
<1>5. ASSUME NEW r \in ReplyType, ServeEffect(r) PROVE Matched'
  <2>1. k' = k /\ srv' = srv /\ loop' = loop /\ s2c' = Append(s2c, r) /\ r.for = r.id
    BY <1>5 DEF ServeEffect, Serves
  <2>2. srv = "run" => \A i \in 1..Len(s2c') : s2c'[i].for = s2c'[i].id
    BY <1>0, <2>1 DEF Matched
  <2>3. QED
    BY Zenon, <2>1, <2>2 DEF Matched, Answered, InDo
<1>6. CASE LostEffect
  BY <1>6 DEF LostEffect, Matched, Answered, InDo
<1>7. CASE DownEffect \/ PanicEffect
  BY <1>7 DEF DownEffect, PanicEffect, Matched, Answered, InDo
<1>8. QED
  BY <1>1, <1>2, <1>3, <1>4, <1>5, <1>6, <1>7 DEF Step
===============================================================================
