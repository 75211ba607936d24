------------------------------ MODULE SftpProofs ------------------------------
(***************************************************************************)
(* Proofs about the SFTP client and server: do hands each caller its own   *)
(* reply, the table of pending requests is exact, and every handle of the  *)
(* session is accounted for.  SftpSteps has the invariant; here are its    *)
(* part about the wire and the server's handles, and the theorems.         *)
(***************************************************************************)
EXTENDS SftpSteps

(* Append.                                                                  *)
LEMMA AppendFacts ==
  ASSUME NEW S, NEW q \in Seq(S), NEW x \in S
  PROVE  /\ Len(Append(q, x)) = Len(q) + 1 /\ Len(q) \in Nat
         /\ \A i \in 1..Len(q) + 1 :
              \/ i \in 1..Len(q) /\ Append(q, x)[i] = q[i]
              \/ i = Len(q) + 1 /\ Append(q, x)[i] = x
OBVIOUS

(* Tail.                                                                    *)
LEMMA TailFacts ==
  ASSUME NEW S, NEW q \in Seq(S), Len(q) >= 1
  PROVE  /\ Len(Tail(q)) = Len(q) - 1 /\ Len(q) \in Nat /\ Tail(q) \in Seq(S)
         /\ \A i \in 1..Len(q) - 1 : i + 1 \in 1..Len(q) /\ Tail(q)[i] = q[i + 1]
<1>1. q # <<>>
  OBVIOUS
<1>2. QED
  BY <1>1

(* While the channel is up and the server sees the borders of the packets,  *)
(* a caller leaves do with its own reply, or gives its request up.          *)
LeaveSound(g, r) ==
  /\ InDo(g) /\ Others(g) /\ Passes(k[g], r, k'[g])
  /\ forsaken' = forsaken \cup Forsakes(k[g], r)
  /\ \/ Answered(g) /\ r = k[g].slot /\ lost' = lost
     \/ r = NoSlot /\ lost' = lost \cup {k[g].req.id}
  /\ UNCHANGED <<nextID, c2s, s2c, s>>

SoundStep ==
  \/ \E g \in Callers : CallEffect(g) \/ BeginEffect(g) \/ WriteEffect(g)
  \/ \E g \in Callers, r \in SlotType : LeaveSound(g, r)
  \/ \E r \in ReplyType : PacketEffect(r) \/ ServeEffect(r)

(* The steps of a sound connection.                                         *)
LEMMA SoundSteps ==
  ASSUME Table, Matched, Step, Sound'
  PROVE  Sound /\ SoundStep
<1>1. ASSUME NEW g \in Callers, NEW r \in SlotType, LeaveEffect(g, r)
      PROVE  Sound /\ LeaveSound(g, r)
  <2>1. Sound
    BY <1>1 DEF LeaveEffect, Sound
  <2>2. k[g].slot # Closed
    BY <2>1 DEF Table, Matched, Sound
  <2>3. QED
    BY <1>1, <2>1, <2>2 DEF LeaveEffect, LeaveSound, Answered, Sound
<1>2. ASSUME NEW g \in Callers, CallEffect(g) \/ BeginEffect(g) \/ WriteEffect(g)
      PROVE  Sound
  BY Zenon, <1>2 DEF CallEffect, BeginEffect, WriteEffect, Sound
<1>3. ASSUME NEW r \in ReplyType, PacketEffect(r) \/ ServeEffect(r)
      PROVE  Sound
  BY Zenon, <1>3 DEF PacketEffect, ServeEffect, Sound
<1>4. ~PanicEffect
  BY Zenon DEF PanicEffect, Table, Sound
<1>5. ~ErrorEffect /\ ~DownEffect /\ ~LostEffect
  BY Zenon DEF ErrorEffect, DownEffect, LostEffect, Sound
<1>6. QED
  BY <1>1, <1>2, <1>3, <1>4, <1>5 DEF Step, SoundStep

(* What the server takes off the wire.                                      *)
LEMMA ServeTakes ==
  ASSUME TypeOK, NEW r, ServeEffect(r)
  PROVE  /\ Len(c2s) \in Nat /\ Len(c2s) >= 2 /\ Len(c2s') = Len(c2s) - 2
         /\ \A i \in 1..Len(c2s') : i + 2 \in 1..Len(c2s) /\ c2s'[i] = c2s[i + 2]
<1>1. PICK t : t = Tail(c2s)
  BY Zenon
<1>2. c2s \in Seq(HalfType) /\ Len(c2s) >= 2 /\ c2s' = Tail(t)
  BY <1>1 DEF TypeOK, ServeEffect
<1>3. /\ Len(t) = Len(c2s) - 1 /\ Len(c2s) \in Nat /\ t \in Seq(HalfType)
      /\ \A i \in 1..Len(c2s) - 1 : i + 1 \in 1..Len(c2s) /\ t[i] = c2s[i + 1]
  BY <1>1, <1>2, TailFacts
<1>4. /\ Len(Tail(t)) = Len(t) - 1
      /\ \A i \in 1..Len(t) - 1 : i + 1 \in 1..Len(t) /\ Tail(t)[i] = t[i + 1]
  BY <1>2, <1>3, TailFacts
<1>5. QED
  BY <1>2, <1>3, <1>4

(* What a caller puts on the wire.                                          *)
LEMMA WritePuts ==
  ASSUME TypeOK, Sound, NEW g \in Callers, WriteEffect(g)
  PROVE  /\ Len(c2s) \in Nat /\ Len(c2s') = Len(c2s) + 1
         /\ \A i \in 1..Len(c2s') :
              \/ i \in 1..Len(c2s) /\ c2s'[i] = c2s[i]
              \/ i = Len(c2s) + 1 /\ c2s'[i].half = k[g].at /\ c2s'[i].req = k[g].req
<1>1. PICK x : x = [half |-> k[g].at, req |-> k[g].req]
  BY Zenon
<1>2. c2s' = Append(c2s, x) /\ c2s \in Seq(HalfType)
  BY <1>1 DEF WriteEffect, TypeOK
<1>3. k[g] \in CallerType /\ k[g].at \in {"len", "body"}
  BY DEF TypeOK, WriteEffect, Written
<1>4. x \in HalfType
  BY Zenon, <1>1, <1>3 DEF HalfType, CallerType
<1>5. QED
  BY <1>1, <1>2, <1>4, AppendFacts

(* What is on the wire belongs to a request in do or given up.              *)
LEMMA SentStep ==
  ASSUME TypeOK, Ids, Sent, Unanswered, Sound, SoundStep
  PROVE  Sent'
<1>0. nextID \in Nat
  BY DEF TypeOK
<1>1. ASSUME NEW g \in Callers, CallEffect(g) \/ BeginEffect(g) PROVE Sent'
  <2>1. /\ ~InDo(g) /\ (\A f \in Callers \ {g} : k'[f] = k[f])
        /\ c2s' = c2s /\ lost' = lost /\ nextID' \in {nextID, nextID + 1}
    BY <1>1 DEF CallEffect, BeginEffect, Others, Started, Numbered, InDo
  <2>2. QED
    BY <1>0, <2>1 DEF Sent, InDo
<1>2. ASSUME NEW g \in Callers, WriteEffect(g) PROVE Sent'
  <2>1. /\ InDo(g) /\ InDo(g)' /\ k'[g].req = k[g].req /\ k[g].req.id \in 1..nextID
        /\ (\A f \in Callers \ {g} : k'[f] = k[f]) /\ lost' = lost /\ nextID' = nextID
    BY <1>2 DEF WriteEffect, Others, Written, InDo, Ids
  <2>2. SUFFICES ASSUME NEW i \in 1..Len(c2s')
                 PROVE  /\ c2s'[i].req.id \in 1..nextID
                        /\ \/ c2s'[i].req.id \in lost
                           \/ \E f \in Callers : InDo(f)' /\ k'[f].req = c2s'[i].req
    BY <2>1 DEF Sent
  <2>3. CASE i \in 1..Len(c2s) /\ c2s'[i] = c2s[i]
    BY <2>1, <2>3 DEF Sent, InDo
  <2>4. CASE c2s'[i].req = k[g].req
    BY <2>1, <2>4
  <2>5. QED
    BY <1>2, <2>3, <2>4, WritePuts
<1>3. ASSUME NEW g \in Callers, NEW r \in SlotType, LeaveSound(g, r) PROVE Sent'
  <2>1. /\ (\A f \in Callers \ {g} : k'[f] = k[f]) /\ c2s' = c2s /\ nextID' = nextID
        /\ lost \subseteq lost'
    BY <1>3 DEF LeaveSound, Others
  <2>2. \A i \in 1..Len(c2s) : c2s[i].req = k[g].req => c2s[i].req.id \in lost'
    BY <1>3 DEF LeaveSound, Unanswered, On
  <2>3. QED
    BY <2>1, <2>2 DEF Sent, InDo
<1>4. ASSUME NEW r \in ReplyType, PacketEffect(r) PROVE Sent'
  <2>1. /\ \A f \in Callers : k'[f].req = k[f].req /\ k'[f].at = k[f].at
        /\ c2s' = c2s /\ nextID' = nextID /\ lost' = lost
    BY Zenon, <1>4, HandsFacts DEF PacketEffect
  <2>2. QED
    BY <2>1 DEF Sent, InDo
<1>5. ASSUME NEW r \in ReplyType, ServeEffect(r) PROVE Sent'
  <2>1. k' = k /\ nextID' = nextID /\ lost' = lost
    BY <1>5 DEF ServeEffect
  <2>2. QED
    BY <1>5, <2>1, ServeTakes DEF Sent, InDo
<1>6. QED
  BY <1>1, <1>2, <1>3, <1>4, <1>5 DEF SoundStep

(* A half is written once.                                                  *)
LEMMA OnceStep ==
  ASSUME TypeOK, Once, Due, Sound, SoundStep
  PROVE  Once'
<1>1. ASSUME c2s' = c2s PROVE Once'
  BY <1>1 DEF Once
<1>2. ASSUME NEW g \in Callers, WriteEffect(g) PROVE Once'
  <2>1. k[g].at \in {"len", "body"} /\ InDo(g)
    BY <1>2 DEF WriteEffect, Written, InDo
  <2>2. \A i \in 1..Len(c2s) : c2s[i].req.id = k[g].req.id => c2s[i].half # k[g].at
    BY <2>1 DEF Due
  <2>3. QED
    BY <1>2, <2>2, WritePuts DEF Once
<1>3. ASSUME NEW r \in ReplyType, ServeEffect(r) PROVE Once'
  <2>1. /\ Len(c2s) \in Nat /\ Len(c2s') = Len(c2s) - 2
        /\ \A i \in 1..Len(c2s') : i + 2 \in 1..Len(c2s) /\ c2s'[i] = c2s[i + 2]
    BY <1>3, ServeTakes
  <2>2. SUFFICES ASSUME NEW i \in 1..Len(c2s'), NEW j \in 1..Len(c2s'),
                        c2s'[i].half = c2s'[j].half, c2s'[i].req.id = c2s'[j].req.id
                 PROVE  i = j
    BY DEF Once
  <2>3. PICK a, b \in 1..Len(c2s) : a = i + 2 /\ b = j + 2 /\ c2s'[i] = c2s[a] /\ c2s'[j] = c2s[b]
    BY <2>1
  <2>5. a = b
    BY <2>2, <2>3 DEF Once
  <2>4. QED
    BY <2>1, <2>3, <2>5
<1>4. QED
  BY <1>1, <1>2, <1>3 DEF SoundStep, CallEffect, BeginEffect, LeaveSound, PacketEffect

(* Nothing of a request is on the wire before its caller wrote it.          *)
LEMMA DueStep ==
  ASSUME TypeOK, Ids, Sent, Due, Sound, SoundStep
  PROVE  Due'
<1>0. nextID \in Nat
  BY DEF TypeOK
<1>1. ASSUME NEW g \in Callers, NEW r, CallEffect(g) \/ LeaveSound(g, r) PROVE Due'
  <2>1. ~InDo(g)' /\ (\A f \in Callers \ {g} : k'[f] = k[f]) /\ c2s' = c2s
    BY <1>1 DEF CallEffect, LeaveSound, Passes, Others, Started, InDo
  <2>2. QED
    BY Zenon, <2>1 DEF Due, InDo
<1>2. ASSUME NEW g \in Callers, BeginEffect(g) PROVE Due'
  <2>1. k'[g].req.id = nextID + 1 /\ (\A f \in Callers \ {g} : k'[f] = k[f]) /\ c2s' = c2s
    BY <1>2 DEF BeginEffect, Others, Numbered
  <2>2. \A i \in 1..Len(c2s) : c2s[i].req.id # nextID + 1
    BY <1>0 DEF Sent
  <2>3. QED
    BY <2>1, <2>2 DEF Due, InDo
<1>3. ASSUME NEW g \in Callers, WriteEffect(g) PROVE Due'
  <2>1. /\ InDo(g) /\ k'[g].req = k[g].req /\ (\A f \in Callers \ {g} : k'[f] = k[f])
        /\ \/ k[g].at = "len" /\ k'[g].at = "body"
           \/ k[g].at = "body" /\ k'[g].at = "wait"
    BY <1>3 DEF WriteEffect, Others, Written, InDo
  <2>2. SUFFICES ASSUME NEW f \in Callers, NEW i \in 1..Len(c2s'), InDo(f)',
                        c2s'[i].req.id = k'[f].req.id
                 PROVE  k'[f].at # "len" /\ (k'[f].at = "body" => c2s'[i].half = "len")
    BY DEF Due
  <2>3. CASE i \in 1..Len(c2s) /\ c2s'[i] = c2s[i]
    BY <2>1, <2>2, <2>3 DEF Due, InDo
  <2>4. CASE c2s'[i].half = k[g].at /\ c2s'[i].req = k[g].req
    <3>1. f = g
      BY <2>1, <2>2, <2>4 DEF Ids, InDo
    <3>2. QED
      BY <2>1, <2>4, <3>1
  <2>5. QED
    BY <1>3, <2>3, <2>4, WritePuts
<1>4. ASSUME NEW r \in ReplyType, PacketEffect(r) PROVE Due'
  <2>1. /\ \A f \in Callers : k'[f].req = k[f].req /\ k'[f].at = k[f].at
        /\ c2s' = c2s
    BY Zenon, <1>4, HandsFacts DEF PacketEffect
  <2>2. QED
    BY <2>1 DEF Due, InDo
<1>5. ASSUME NEW r \in ReplyType, ServeEffect(r) PROVE Due'
  <2>1. k' = k
    BY <1>5 DEF ServeEffect
  <2>2. QED
    BY <1>5, <2>1, ServeTakes DEF Due, InDo
<1>6. QED
  BY <1>1, <1>2, <1>3, <1>4, <1>5 DEF SoundStep

(* The request the server reads is in do, waiting, or was given up; it had  *)
(* no reply yet, and it leaves nothing on the wire.                         *)
LEMMA ServeFacts ==
  ASSUME TypeOK, Ids, Sent, Once, Due, Unanswered, NEW r, ServeEffect(r),
         NEW q, q = c2s[1].req
  PROVE  /\ ~On(c2s', q.id) /\ q.id \in 1..nextID
         /\ \A id : On(c2s', id) => On(c2s, id)
         /\ q.id \in lost \/ \E g \in Callers : InDo(g) /\ k[g].req.id = q.id
         /\ \A g \in Callers : InDo(g) /\ k[g].req.id = q.id =>
              k[g].at = "wait" /\ k[g].req = q /\ ~Answered(g)
         /\ \A i \in 1..Len(s2c) : s2c[i].id # q.id
<1>1. q = c2s[1].req
  OBVIOUS
<1>2. /\ 1 \in 1..Len(c2s) /\ 2 \in 1..Len(c2s)
      /\ c2s[1].half = "len" /\ c2s[2].half = "body" /\ c2s[2].req = q
  BY <1>1, ServeTakes DEF ServeEffect, Whole
<1>3. On(c2s, q.id) /\ q.id \in 1..nextID
  BY <1>1, <1>2 DEF On, Sent
<1>4. ~On(c2s', q.id)
  <2>1. SUFFICES ASSUME NEW i \in 1..Len(c2s'), c2s'[i].req.id = q.id
                 PROVE  FALSE
    BY DEF On
  <2>2. i + 2 \in 1..Len(c2s) /\ c2s'[i] = c2s[i + 2] /\ i + 2 \notin {1, 2}
    BY ServeTakes
  <2>3. c2s[i + 2].half \in {"len", "body"}
    <3>1. c2s[i + 2] \in HalfType
      BY <2>2 DEF TypeOK
    <3>2. QED
      BY <3>1 DEF HalfType
  <2>4. QED
    BY <1>1, <1>2, <2>1, <2>2, <2>3 DEF Once
<1>5. \A id : On(c2s', id) => On(c2s, id)
  BY ServeTakes DEF On
<1>6. q.id \in lost \/ \E g \in Callers : InDo(g) /\ k[g].req = q
  BY <1>1, <1>2 DEF Sent
<1>7. ASSUME NEW g \in Callers, InDo(g), k[g].req.id = q.id
      PROVE  k[g].at = "wait" /\ k[g].req = q /\ ~Answered(g)
  <2>1. k[g].at # "len" /\ k[g].at # "body"
    BY <1>1, <1>2, <1>7 DEF Due
  <2>2. k[g].req = q
    BY <1>6, <1>7 DEF Ids
  <2>3. QED
    BY <1>3, <1>7, <2>1, <2>2 DEF InDo, Unanswered
<1>8. \A i \in 1..Len(s2c) : s2c[i].id # q.id
  BY <1>3 DEF Unanswered
<1>9. QED
  BY <1>1, <1>3, <1>4, <1>5, <1>6, <1>7, <1>8

(* What the server adds to the replies.                                     *)
LEMMA ServeAdds ==
  ASSUME TypeOK, NEW r \in ReplyType, ServeEffect(r)
  PROVE  \A i \in 1..Len(s2c') : (i \in 1..Len(s2c) /\ s2c'[i] = s2c[i]) \/ s2c'[i] = r
<1>1. s2c \in Seq(ReplyType) /\ s2c' = Append(s2c, r)
  BY DEF TypeOK, ServeEffect
<1>2. QED
  BY <1>1, AppendFacts

(* What the client takes of them.                                           *)
LEMMA PacketTakes ==
  ASSUME TypeOK, NEW r \in ReplyType, PacketEffect(r)
  PROVE  /\ 1 \in 1..Len(s2c) /\ r = s2c[1]
         /\ \A i \in 1..Len(s2c') : \E j \in 1..Len(s2c) : s2c'[i] = s2c[j]
<1>1. s2c \in Seq(ReplyType) /\ s2c' = Tail(s2c) /\ Len(s2c) >= 1 /\ r = s2c[1]
  BY DEF TypeOK, PacketEffect
<1>2. /\ Len(s2c') = Len(s2c) - 1 /\ Len(s2c) \in Nat
      /\ \A i \in 1..Len(s2c) - 1 : i + 1 \in 1..Len(s2c) /\ s2c'[i] = s2c[i + 1]
  BY <1>1, TailFacts
<1>3. QED
  BY <1>1, <1>2

(* A caller that has a packet after a step had it before, or takes it now.  *)
LEMMA PacketGoes ==
  ASSUME NEW r, PacketEffect(r), NEW g \in Callers
  PROVE  /\ k'[g].at = k[g].at /\ k'[g].req = k[g].req /\ k'[g].file = k[g].file
         /\ k'[g] = k[g] \/ (InDo(g) /\ k'[g].slot = r /\ k[g].req.id = r.id)
<1>1. Hands(Entry(r.id), r)
  BY DEF PacketEffect
<1>2. QED
  BY Zenon, <1>1, HandsFacts DEF Entry

(* An answered request has left the wire.                                   *)
LEMMA UnansweredStep ==
  ASSUME TypeOK, Ids, Sent, Once, Due, Unanswered, Sound, SoundStep
  PROVE  Unanswered'
<1>0. nextID \in Nat
  BY DEF TypeOK
<1>1. ASSUME NEW g \in Callers, NEW r, CallEffect(g) \/ LeaveSound(g, r) PROVE Unanswered'
  <2>1. /\ ~InDo(g)' /\ (\A f \in Callers \ {g} : k'[f] = k[f])
        /\ c2s' = c2s /\ s2c' = s2c /\ nextID' = nextID
    BY Zenon, <1>1 DEF CallEffect, LeaveSound, Passes, Others, Started, InDo
  <2>2. QED
    BY <2>1 DEF Unanswered, Answered, On, InDo
<1>2. ASSUME NEW g \in Callers, BeginEffect(g) PROVE Unanswered'
  <2>1. /\ k'[g].req.id = nextID + 1 /\ k'[g].slot = NoSlot
        /\ (\A f \in Callers \ {g} : k'[f] = k[f])
        /\ c2s' = c2s /\ s2c' = s2c /\ nextID' = nextID + 1
    BY <1>2 DEF BeginEffect, Others, Numbered
  <2>2. ASSUME NEW i \in 1..Len(s2c)
        PROVE  /\ s2c[i].id \in 1..nextID + 1 /\ s2c[i].id # nextID + 1
               /\ ~On(c2s, s2c[i].id)
    BY <1>0 DEF Unanswered
  <2>3. ASSUME NEW i \in 1..Len(s2c), NEW f \in Callers, InDo(f)', k'[f].req.id = s2c[i].id
        PROVE  k'[f].at = "wait"
    <3>1. f # g
      BY <2>1, <2>2, <2>3
    <3>2. QED
      BY <2>1, <2>3, <3>1 DEF Unanswered, InDo
  <2>4. ASSUME NEW f \in Callers, Answered(f)'
        PROVE  k'[f].at = "wait" /\ ~On(c2s, k'[f].req.id)
    <3>1. f # g
      BY <2>1, <2>4 DEF Answered
    <3>2. QED
      BY <2>1, <2>4, <3>1 DEF Unanswered, Answered, InDo
  <2>5. QED
    BY <2>1, <2>2, <2>3, <2>4 DEF Unanswered
<1>3. ASSUME NEW g \in Callers, WriteEffect(g) PROVE Unanswered'
  <2>1. /\ InDo(g) /\ k'[g].req = k[g].req /\ (\A f \in Callers \ {g} : k'[f] = k[f])
        /\ k[g].at \in {"len", "body"} /\ k'[g].at \in {"body", "wait"} /\ k'[g].slot = k[g].slot
        /\ s2c' = s2c /\ nextID' = nextID
    BY <1>3 DEF WriteEffect, Others, Written, InDo
  <2>2. \A id : On(c2s', id) => On(c2s, id) \/ id = k[g].req.id
    BY <1>3, WritePuts DEF On
  <2>3. ASSUME NEW i \in 1..Len(s2c)
        PROVE  /\ s2c[i].id \in 1..nextID /\ ~On(c2s', s2c[i].id)
               /\ \A f \in Callers : InDo(f)' /\ k'[f].req.id = s2c[i].id => k'[f].at = "wait"
    <3>1. s2c[i].id # k[g].req.id
      BY <2>1 DEF Unanswered
    <3>2. QED
      BY <2>1, <2>2, <3>1 DEF Unanswered, InDo
  <2>4. ASSUME NEW f \in Callers, Answered(f)'
        PROVE  k'[f].at = "wait" /\ ~On(c2s', k'[f].req.id)
    <3>1. Answered(f) /\ k'[f].req = k[f].req
      BY <2>1, <2>4 DEF Answered, InDo
    <3>2. f # g
      BY <2>1, <3>1 DEF Unanswered
    <3>3. k[f].req.id # k[g].req.id
      BY Zenon, <2>1, <3>1, <3>2 DEF Ids, Answered
    <3>4. QED
      BY <2>1, <2>2, <3>1, <3>2, <3>3 DEF Unanswered
  <2>5. QED
    BY <2>1, <2>3, <2>4 DEF Unanswered
<1>4. ASSUME NEW r \in ReplyType, PacketEffect(r) PROVE Unanswered'
  <2>1. c2s' = c2s /\ nextID' = nextID
    BY Zenon, <1>4 DEF PacketEffect
  <2>2. ASSUME NEW i \in 1..Len(s2c')
        PROVE  /\ s2c'[i].id \in 1..nextID /\ ~On(c2s, s2c'[i].id)
               /\ \A f \in Callers : InDo(f)' /\ k'[f].req.id = s2c'[i].id => k'[f].at = "wait"
    <3>1. PICK j \in 1..Len(s2c) : s2c'[i] = s2c[j]
      BY Zenon, <1>4, PacketTakes
    <3>2. QED
      BY <1>4, <3>1, PacketGoes DEF Unanswered, InDo
  <2>3. ASSUME NEW f \in Callers, Answered(f)'
        PROVE  k'[f].at = "wait" /\ ~On(c2s, k'[f].req.id)
    <3>1. CASE k'[f] = k[f]
      BY <2>3, <3>1 DEF Unanswered, Answered, InDo
    <3>2. CASE k'[f].at = k[f].at /\ k'[f].req = k[f].req /\ InDo(f) /\ k[f].req.id = r.id
      BY <1>4, <3>2, PacketTakes DEF Unanswered
    <3>3. QED
      BY Zenon, <1>4, <3>1, <3>2, PacketGoes
  <2>4. QED
    BY <2>1, <2>2, <2>3 DEF Unanswered, On
<1>5. ASSUME NEW r \in ReplyType, ServeEffect(r) PROVE Unanswered'
  <2>1. k' = k /\ nextID' = nextID /\ r.id = c2s[1].req.id
    BY <1>5 DEF ServeEffect, Serves
  <2>2. ASSUME NEW i \in 1..Len(s2c')
        PROVE  /\ s2c'[i].id \in 1..nextID /\ ~On(c2s', s2c'[i].id)
               /\ \A f \in Callers : InDo(f) /\ k[f].req.id = s2c'[i].id => k[f].at = "wait"
    <3>1. CASE i \in 1..Len(s2c) /\ s2c'[i] = s2c[i]
      BY <1>5, <3>1, ServeFacts DEF Unanswered
    <3>2. CASE s2c'[i] = r
      BY <1>5, <2>1, <3>2, ServeFacts
    <3>3. QED
      BY Zenon, <1>5, <3>1, <3>2, ServeAdds
  <2>3. \A f \in Callers : Answered(f) => k[f].at = "wait" /\ ~On(c2s', k[f].req.id)
    BY <1>5, ServeFacts DEF Unanswered
  <2>4. QED
    BY Zenon, <2>1, <2>2, <2>3 DEF Unanswered, Answered, InDo
<1>6. QED
  BY <1>1, <1>2, <1>3, <1>4, <1>5 DEF SoundStep
-----------------------------------------------------------------------------
(* No handle has a number that the server has not given yet.                *)
LEMMA BoundsStep ==
  ASSUME TypeOK, CallersOK', Bounds, Sound, SoundStep
  PROVE  Bounds'
<1>0. s.nextID \in Nat /\ NoSlot.h = 0
  BY Zenon DEF TypeOK, SessionOK, NoSlot, Status, Reply
<1>1. ASSUME NEW g \in Callers, CallEffect(g) \/ BeginEffect(g) PROVE Bounds'
  <2>1. /\ (\A f \in Callers \ {g} : k'[f] = k[f]) /\ c2s' = c2s /\ s2c' = s2c /\ s' = s
        /\ k'[g].slot = NoSlot /\ k'[g].file = k[g].file
        /\ k'[g].req.h \in {0, k[g].file, k[g].req.h}
    BY Zenon, <1>1 DEF CallEffect, BeginEffect, Others, Started, Numbered, CallerOK
  <2>2. QED
    BY <1>0, <2>1 DEF Bounds
<1>2. ASSUME NEW g \in Callers, WriteEffect(g) PROVE Bounds'
  <2>1. /\ (\A f \in Callers \ {g} : k'[f] = k[f]) /\ s2c' = s2c /\ s' = s
        /\ k'[g].slot = k[g].slot /\ k'[g].file = k[g].file /\ k'[g].req = k[g].req
    BY <1>2 DEF WriteEffect, Others, Written
  <2>2. \A f \in Callers : {k'[f].file, k'[f].req.h, k'[f].slot.h} \subseteq 0..s.nextID
    BY <2>1 DEF Bounds
  <2>3. \A i \in 1..Len(c2s') : c2s'[i].req.h <= s.nextID
    BY <1>0, <1>2, WritePuts DEF Bounds
  <2>4. QED
    BY Zenon, <2>1, <2>2, <2>3 DEF Bounds
<1>3. ASSUME NEW g \in Callers, NEW r \in SlotType, LeaveSound(g, r) PROVE Bounds'
  <2>1. /\ (\A f \in Callers \ {g} : k'[f] = k[f]) /\ c2s' = c2s /\ s2c' = s2c /\ s' = s
        /\ k'[g].slot = NoSlot
        /\ {k'[g].file, k'[g].req.h} \subseteq {0, k[g].file, k[g].req.h, r.h}
        /\ r = NoSlot \/ r = k[g].slot
    BY Zenon, <1>3 DEF LeaveSound, Others, Passes, CallerOK
  <2>2. {0, k[g].file, k[g].req.h, r.h} \subseteq 0..s.nextID
    BY <1>0, <2>1 DEF Bounds
  <2>3. \A f \in Callers : {k'[f].file, k'[f].req.h, k'[f].slot.h} \subseteq 0..s.nextID
    BY <1>0, <2>1, <2>2 DEF Bounds
  <2>4. QED
    BY Zenon, <2>1, <2>3 DEF Bounds
<1>4. ASSUME NEW r \in ReplyType, PacketEffect(r) PROVE Bounds'
  <2>1. c2s' = c2s /\ s' = s
    BY <1>4 DEF PacketEffect
  <2>2. r.h \in 0..s.nextID /\ \A i \in 1..Len(s2c') : s2c'[i].h <= s.nextID
    BY <1>0, <1>4, PacketTakes DEF Bounds, ReplyType
  <2>3. \A f \in Callers : {k'[f].file, k'[f].req.h, k'[f].slot.h} \subseteq 0..s.nextID
    BY <1>4, <2>2, PacketGoes DEF Bounds
  <2>4. QED
    BY Zenon, <2>1, <2>2, <2>3 DEF Bounds
<1>5. ASSUME NEW r \in ReplyType, ServeEffect(r) PROVE Bounds'
  <2>1. k' = k /\ s'.nextID \in Nat /\ s.nextID <= s'.nextID /\ r.h <= s'.nextID
    BY <1>5 DEF ServeEffect, Serves, SessionOK
  <2>2. \A f \in Callers : {k[f].file, k[f].req.h, k[f].slot.h} \subseteq 0..s'.nextID
    BY <1>0, <2>1 DEF Bounds
  <2>3. \A i \in 1..Len(c2s') : c2s'[i].req.h <= s'.nextID
    <3>1. SUFFICES ASSUME NEW i \in 1..Len(c2s') PROVE c2s'[i].req.h <= s'.nextID
      OBVIOUS
    <3>2. PICK j \in 1..Len(c2s) : c2s'[i] = c2s[j]
      BY <1>5, ServeTakes
    <3>3. c2s[j].req.h \in Nat
      <4>1. c2s[j] \in HalfType
        BY DEF TypeOK
      <4>2. QED
        BY <4>1 DEF HalfType, ReqType
    <3>4. QED
      BY <1>0, <2>1, <3>2, <3>3 DEF Bounds
  <2>4. \A i \in 1..Len(s2c') : s2c'[i].h <= s'.nextID
    <3>1. SUFFICES ASSUME NEW i \in 1..Len(s2c), s2c'[i] = s2c[i] PROVE s2c[i].h <= s'.nextID
      BY <1>5, <2>1, ServeAdds
    <3>2. s2c[i].h \in Nat
      <4>1. s2c[i] \in ReplyType
        BY DEF TypeOK
      <4>2. QED
        BY <4>1 DEF ReplyType
    <3>3. QED
      BY <1>0, <2>1, <3>2 DEF Bounds
  <2>5. QED
    BY <2>1, <2>2, <2>3, <2>4 DEF Bounds
<1>6. QED
  BY <1>1, <1>2, <1>3, <1>4, <1>5 DEF SoundStep

(* A handle goes to the caller that opened it.                              *)
LEMMA OpenedStep ==
  ASSUME TypeOK, Ids, Sent, Once, Due, Unanswered, Unanswered', Opened, Sound, SoundStep
  PROVE  Opened'
<1>0. nextID \in Nat
  BY Zenon DEF TypeOK
<1>1. ASSUME NEW g \in Callers, NEW r, CallEffect(g) \/ LeaveSound(g, r) PROVE Opened'
  <2>1. /\ ~InDo(g)' /\ (\A f \in Callers \ {g} : k'[f] = k[f])
        /\ c2s' = c2s /\ s2c' = s2c /\ nextID' = nextID /\ s' = s
    BY Zenon, <1>1 DEF CallEffect, LeaveSound, Passes, Others, Started, InDo
  <2>2. QED
    BY <2>1 DEF Opened, OpenedBy, Answered, InDo
<1>2. ASSUME NEW g \in Callers, BeginEffect(g) PROVE Opened'
  <2>1. /\ k'[g].req.id = nextID + 1 /\ (\A f \in Callers \ {g} : k'[f] = k[f])
        /\ c2s' = c2s /\ s2c' = s2c /\ nextID' = nextID + 1 /\ s' = s
    BY Zenon, <1>2 DEF BeginEffect, Others, Numbered
  <2>2. QED
    BY <1>0, <2>1 DEF Opened, OpenedBy, Answered, InDo
<1>3. ASSUME NEW g \in Callers, WriteEffect(g) PROVE Opened'
  <2>1. /\ InDo(g) /\ (\A f \in Callers \ {g} : k'[f] = k[f])
        /\ k[g].at \in {"len", "body"} /\ k'[g].req = k[g].req
        /\ s2c' = s2c /\ nextID' = nextID /\ s' = s
    BY Zenon, <1>3 DEF WriteEffect, Others, Written, InDo
  <2>2. \A id : On(c2s', id) => On(c2s, id) \/ id = k[g].req.id
    BY <1>3, WritePuts DEF On
  <2>3. SUFFICES ASSUME NEW h \in DOMAIN s.handles, NEW b, b = s.handles[h].by
                 PROVE  /\ ~On(c2s', b) /\ b \in 1..nextID
                        /\ \A i \in 1..Len(s2c) :
                             s2c[i].id = b => s2c[i].type = "handle" /\ s2c[i].h = h
                        /\ \A f \in Callers : InDo(f)' /\ k'[f].req.id = b =>
                             /\ k'[f].at = "wait" /\ k'[f].req.type \in {"OPEN", "OPENDIR"}
                             /\ Answered(f)' => k'[f].slot.type = "handle" /\ k'[f].slot.h = h
    BY <2>1 DEF Opened, OpenedBy
  <2>4. OpenedBy(h, b)
    BY Zenon, <2>3 DEF Opened
  <2>5. b # k[g].req.id
    BY <2>1, <2>4 DEF OpenedBy
  <2>6. QED
    BY <2>1, <2>2, <2>4, <2>5 DEF OpenedBy, Answered, InDo
<1>4. ASSUME NEW r \in ReplyType, PacketEffect(r) PROVE Opened'
  <2>1. c2s' = c2s /\ nextID' = nextID /\ s' = s
    BY Zenon, <1>4 DEF PacketEffect
  <2>2. SUFFICES ASSUME NEW h \in DOMAIN s.handles, NEW b, b = s.handles[h].by
                 PROVE  /\ \A i \in 1..Len(s2c') :
                             s2c'[i].id = b => s2c'[i].type = "handle" /\ s2c'[i].h = h
                        /\ \A f \in Callers : InDo(f)' /\ k'[f].req.id = b =>
                             /\ k'[f].at = "wait" /\ k'[f].req.type \in {"OPEN", "OPENDIR"}
                             /\ Answered(f)' => k'[f].slot.type = "handle" /\ k'[f].slot.h = h
    BY <2>1 DEF Opened, OpenedBy
  <2>0. OpenedBy(h, b)
    BY Zenon, <2>2 DEF Opened
  <2>3. \A i \in 1..Len(s2c') : s2c'[i].id = b => s2c'[i].type = "handle" /\ s2c'[i].h = h
    <3>1. \A i \in 1..Len(s2c') : \E j \in 1..Len(s2c) : s2c'[i] = s2c[j]
      BY Zenon, <1>4, PacketTakes
    <3>2. QED
      BY Zenon, <2>0, <3>1 DEF OpenedBy
  <2>4. ASSUME NEW f \in Callers, InDo(f)', k'[f].req.id = b
        PROVE  /\ k'[f].at = "wait" /\ k'[f].req.type \in {"OPEN", "OPENDIR"}
               /\ Answered(f)' => k'[f].slot.type = "handle" /\ k'[f].slot.h = h
    <3>1. k'[f].at = k[f].at /\ k'[f].req = k[f].req /\ InDo(f)
      BY Zenon, <1>4, <2>4, PacketGoes DEF InDo
    <3>2. CASE k'[f] = k[f]
      BY Zenon, <2>0, <2>4, <3>1, <3>2 DEF OpenedBy, Answered, InDo
    <3>3. CASE k'[f].slot = r /\ k[f].req.id = r.id
      <4>1. 1 \in 1..Len(s2c) /\ r = s2c[1]
        BY Zenon, <1>4, PacketTakes
      <4>2. QED
        BY <2>0, <2>4, <3>1, <3>3, <4>1 DEF OpenedBy
    <3>4. QED
      BY <1>4, <3>2, <3>3, PacketGoes
  <2>5. QED
    BY <2>3, <2>4
<1>5. ASSUME NEW r \in ReplyType, ServeEffect(r) PROVE Opened'
  <2>1. PICK q : q = c2s[1].req
    BY Zenon
  <2>2. /\ k' = k /\ nextID' = nextID /\ Serves(s, q, s', r) /\ r.id = q.id
    BY <1>5, <2>1 DEF ServeEffect, Serves
  <2>3. /\ ~On(c2s', q.id) /\ q.id \in 1..nextID /\ \A id : On(c2s', id) => On(c2s, id)
        /\ \A g \in Callers : InDo(g) /\ k[g].req.id = q.id =>
             k[g].at = "wait" /\ k[g].req = q /\ ~Answered(g)
        /\ \A i \in 1..Len(s2c) : s2c[i].id # q.id
    BY <1>5, <2>1, ServeFacts
  <2>4. On(c2s, q.id)
    BY <1>5, <2>1, ServeTakes DEF On
  <2>5. SUFFICES ASSUME NEW h \in DOMAIN s'.handles, NEW b, b = s'.handles[h].by
                 PROVE  /\ ~On(c2s', b) /\ b \in 1..nextID
                        /\ \A i \in 1..Len(s2c') :
                             s2c'[i].id = b => s2c'[i].type = "handle" /\ s2c'[i].h = h
                        /\ \A f \in Callers : InDo(f) /\ k[f].req.id = b =>
                             /\ k[f].at = "wait" /\ k[f].req.type \in {"OPEN", "OPENDIR"}
                             /\ Answered(f) => k[f].slot.type = "handle" /\ k[f].slot.h = h
    <3>1. \A f : (InDo(f)' <=> InDo(f)) /\ (Answered(f)' <=> Answered(f))
      BY <2>2 DEF Answered, InDo
    <3>2. QED
      BY <2>2, <3>1 DEF Opened, OpenedBy
  <2>6. CASE h \in DOMAIN s.handles /\ s'.handles[h] = s.handles[h]
    <3>0. OpenedBy(h, b)
      BY Zenon, <2>5, <2>6 DEF Opened
    <3>1. b # q.id
      BY <2>4, <3>0 DEF OpenedBy
    <3>2. \A i \in 1..Len(s2c') :
            s2c'[i].id = b => s2c'[i].type = "handle" /\ s2c'[i].h = h
      <4>1. SUFFICES ASSUME NEW i \in 1..Len(s2c'), s2c'[i].id = b
                     PROVE  s2c'[i].type = "handle" /\ s2c'[i].h = h
        OBVIOUS
      <4>2. i \in 1..Len(s2c) /\ s2c'[i] = s2c[i]
        BY Zenon, <1>5, <2>2, <3>1, <4>1, ServeAdds
      <4>3. QED
        BY <3>0, <4>1, <4>2 DEF OpenedBy
    <3>3. QED
      BY <2>3, <3>0, <3>2 DEF OpenedBy
  <2>7. CASE /\ b = q.id /\ q.type \in {"OPEN", "OPENDIR"} /\ r.type = "handle" /\ r.h = h
    <3>1. \A i \in 1..Len(s2c') :
            s2c'[i].id = b => s2c'[i].type = "handle" /\ s2c'[i].h = h
      BY <1>5, <2>3, <2>7, ServeAdds
    <3>2. QED
      BY Zenon, <2>3, <2>7, <3>1
  <2>8. QED
    BY <2>2, <2>5, <2>6, <2>7 DEF Serves
<1>6. QED
  BY <1>1, <1>2, <1>3, <1>4, <1>5 DEF SoundStep

(* A closed handle is gone.                                                 *)
LEMMA ShutStep ==
  ASSUME TypeOK, Ids, Sent, Once, Due, Unanswered, Bounds, Shut, Sound, SoundStep
  PROVE  Shut'
<1>0. nextID \in Nat /\ s.nextID \in Nat /\ NoSlot.type = "empty"
  BY DEF TypeOK, SessionOK, NoSlot, Status, Reply
<1>1. ASSUME NEW g \in Callers, NEW r, CallEffect(g) \/ LeaveSound(g, r) PROVE Shut'
  <2>1. ~InDo(g)' /\ (\A f \in Callers \ {g} : k'[f] = k[f]) /\ s2c' = s2c /\ s' = s
    BY Zenon, <1>1 DEF CallEffect, LeaveSound, Passes, Others, Started, InDo
  <2>2. QED
    BY <2>1 DEF Shut, InDo
<1>2. ASSUME NEW g \in Callers, BeginEffect(g) PROVE Shut'
  <2>1. /\ k'[g].req.id = nextID + 1 /\ k'[g].slot = NoSlot
        /\ (\A f \in Callers \ {g} : k'[f] = k[f]) /\ s2c' = s2c /\ s' = s
    BY Zenon, <1>2 DEF BeginEffect, Others, Numbered
  <2>2. \A i \in 1..Len(s2c) : s2c[i].id # nextID + 1
    BY <1>0 DEF Unanswered
  <2>3. QED
    BY Zenon, <1>0, <2>1, <2>2 DEF Shut, InDo
<1>3. ASSUME NEW g \in Callers, WriteEffect(g) PROVE Shut'
  <2>1. /\ InDo(g) /\ (\A f \in Callers \ {g} : k'[f] = k[f])
        /\ k'[g].req = k[g].req /\ k'[g].slot = k[g].slot /\ s2c' = s2c /\ s' = s
    BY Zenon, <1>3 DEF WriteEffect, Others, Written, InDo
  <2>2. QED
    BY <2>1 DEF Shut, InDo
<1>4. ASSUME NEW r \in ReplyType, PacketEffect(r) PROVE Shut'
  <2>1. s' = s
    BY Zenon, <1>4 DEF PacketEffect
  <2>2. SUFFICES ASSUME NEW g \in Callers, InDo(g)', k'[g].req.type = "CLOSE"
                 PROVE  /\ k'[g].slot.type = "ok" => k'[g].req.h \notin DOMAIN s.handles
                        /\ \A i \in 1..Len(s2c') :
                             s2c'[i].id = k'[g].req.id /\ s2c'[i].type = "ok" =>
                               k'[g].req.h \notin DOMAIN s.handles
    BY <2>1 DEF Shut
  <2>3. InDo(g) /\ k'[g].req = k[g].req
        /\ (k'[g] = k[g] \/ (k'[g].slot = r /\ k[g].req.id = r.id))
    BY <1>4, <2>2, PacketGoes DEF InDo
  <2>4. QED
    BY <1>4, <2>2, <2>3, PacketTakes DEF Shut
<1>5. ASSUME NEW r \in ReplyType, ServeEffect(r) PROVE Shut'
  <2>1. PICK q : q = c2s[1].req
    BY Zenon
  <2>2. k' = k /\ Serves(s, q, s', r) /\ r.id = q.id
    BY Zenon, <1>5, <2>1 DEF ServeEffect, Serves
  <2>3. \A g \in Callers : InDo(g) /\ k[g].req.id = q.id => k[g].req = q
    BY <1>5, <2>1, ServeFacts
  <2>4. \A h \in DOMAIN s'.handles : h \in DOMAIN s.handles \/ h = s.nextID + 1
    BY Zenon, <2>2 DEF Serves
  <2>5. SUFFICES ASSUME NEW g \in Callers, InDo(g), k[g].req.type = "CLOSE",
                        NEW i \in 1..Len(s2c'), k[g].req.h \in DOMAIN s'.handles
                 PROVE  /\ k[g].slot.type # "ok"
                        /\ ~(s2c'[i].id = k[g].req.id /\ s2c'[i].type = "ok")
    <3>1. 1 \in 1..Len(s2c')
      BY <1>5, AppendFacts DEF ServeEffect, TypeOK
    <3>2. QED
      BY Zenon, <2>2, <3>1 DEF Shut, InDo
  <2>6. k[g].req.h \in DOMAIN s.handles
    BY <1>0, <2>4, <2>5 DEF Bounds
  <2>7. ~(r.id = k[g].req.id /\ r.type = "ok")
    BY <2>2, <2>3, <2>5 DEF Serves
  <2>8. QED
    BY <1>5, <2>5, <2>6, <2>7, ServeAdds DEF Shut
<1>6. QED
  BY <1>1, <1>2, <1>3, <1>4, <1>5 DEF SoundStep

(* Every handle is accounted for.                                           *)
LEMMA AccountedStep ==
  ASSUME TypeOK, CallersOK, Ids, Matched, Sent, Once, Due, Unanswered, Bounds, Opened, Shut,
         Accounted, Sound, SoundStep
  PROVE  Accounted'
<1>0. nextID \in Nat /\ SessionOK(s)
  BY DEF TypeOK
<1>5. DOMAIN s.handles \subseteq 1..s.nextID /\ s.nextID \in Nat
  BY <1>0 DEF SessionOK
<1>6. 0 \notin DOMAIN s.handles
  BY <1>5
<1>1. ASSUME NEW g \in Callers, CallEffect(g) \/ BeginEffect(g) \/ WriteEffect(g) PROVE Accounted'
  <2>1. /\ (\A f \in Callers \ {g} : k'[f] = k[f]) /\ s' = s /\ lost' = lost
        /\ forsaken' = forsaken /\ k'[g].file = k[g].file
    BY Zenon, <1>1 DEF CallEffect, BeginEffect, WriteEffect, Others, Started, Numbered, Written
  <2>2. k[g].req.h = 0 \/ k'[g].req.h = k[g].req.h
    <3>1. CASE CallEffect(g)
      <4>1. k[g].at = "idle"
        BY Zenon, <3>1 DEF CallEffect, Started
      <4>2. k[g].req = NoReq
        BY <4>1 DEF CallersOK, CallerOK
      <4>3. NoReq.h = 0
        BY Zenon DEF NoReq
      <4>4. QED
        BY Zenon, <4>2, <4>3
    <3>2. CASE BeginEffect(g)
      BY Zenon, <3>2 DEF BeginEffect, Numbered
    <3>3. CASE WriteEffect(g)
      BY Zenon, <3>3 DEF WriteEffect, Written
    <3>4. QED
      BY Zenon, <1>1, <3>1, <3>2, <3>3
  <2>3. InDo(g) => InDo(g)' /\ k'[g].req = k[g].req
    BY Zenon, <1>1 DEF CallEffect, BeginEffect, WriteEffect, Started, Numbered, Written, InDo
  <2>4. QED
    BY <1>6, <2>1, <2>2, <2>3 DEF Accounted, InDo
<1>2. ASSUME NEW g \in Callers, NEW r \in SlotType, LeaveSound(g, r) PROVE Accounted'
  <2>1. /\ (\A f \in Callers \ {g} : k'[f] = k[f]) /\ s' = s /\ InDo(g)
        /\ lost \subseteq lost' /\ forsaken' = forsaken \cup Forsakes(k[g], r)
        /\ Passes(k[g], r, k'[g])
    BY Zenon, <1>2 DEF LeaveSound, Others
  <2>2. SUFFICES ASSUME NEW h \in DOMAIN s.handles,
                        ~(\E f \in Callers : k'[f].file = h \/ k'[f].req.h = h),
                        h \notin forsaken'
                 PROVE  \/ \E f \in Callers : InDo(f)' /\ k'[f].req.id = s.handles[h].by
                        \/ s.handles[h].by \in lost'
    BY Zenon, <2>1 DEF Accounted
  <2>3. ASSUME h \in {k[g].file, k[g].req.h} PROVE FALSE
    <3>1. h # 0
      BY Zenon, <1>6, <2>2
    <3>2. h = k[g].req.h /\ k[g].req.type = "CLOSE"
      BY Zenon, <2>1, <2>2, <2>3, <3>1 DEF Passes
    <3>3. r.type = "ok"
      BY <2>1, <2>2, <3>2 DEF Forsakes
    <3>4. r # NoSlot
      BY <3>3 DEF NoSlot, Status, Reply
    <3>5. r = k[g].slot
      BY Zenon, <1>2, <3>4 DEF LeaveSound
    <3>6. QED
      BY <2>1, <2>2, <3>2, <3>3, <3>5 DEF Shut
  <2>4. ASSUME k[g].req.id = s.handles[h].by PROVE s.handles[h].by \in lost'
    <3>1. CASE Answered(g) /\ r = k[g].slot
      <4>1. r.type = "handle" /\ r.h = h /\ k[g].req.type \in {"OPEN", "OPENDIR"}
        <5>1. OpenedBy(h, s.handles[h].by)
          BY Zenon, <2>2 DEF Opened
        <5>2. QED
          BY Zenon, <2>4, <3>1, <5>1 DEF OpenedBy, Answered
      <4>2. h \in {k'[g].file, k'[g].req.h}
        BY Zenon, <2>1, <4>1 DEF Passes
      <4>3. QED
        BY Zenon, <2>2, <4>2
    <3>2. QED
      BY <1>2, <2>4, <3>1 DEF LeaveSound
  <2>5. CASE \E f \in Callers : k[f].file = h \/ k[f].req.h = h
    BY Zenon, <2>1, <2>2, <2>3, <2>5
  <2>6. CASE \E f \in Callers : InDo(f) /\ k[f].req.id = s.handles[h].by
    BY Zenon, <2>1, <2>4, <2>6 DEF InDo
  <2>7. QED
    BY Zenon, <2>1, <2>2, <2>5, <2>6 DEF Accounted
<1>3. ASSUME NEW r \in ReplyType, PacketEffect(r) PROVE Accounted'
  <2>1. s' = s /\ lost' = lost /\ forsaken' = forsaken
    BY Zenon, <1>3 DEF PacketEffect
  <2>2. \A f \in Callers : k'[f].at = k[f].at /\ k'[f].req = k[f].req /\ k'[f].file = k[f].file
    BY Zenon, <1>3, PacketGoes
  <2>3. QED
    BY <2>1, <2>2 DEF Accounted, InDo
<1>4. ASSUME NEW r \in ReplyType, ServeEffect(r) PROVE Accounted'
  <2>1. PICK q : q = c2s[1].req
    BY Zenon
  <2>2. /\ k' = k /\ lost' = lost /\ forsaken' = forsaken
        /\ \A h \in DOMAIN s'.handles :
             \/ h \in DOMAIN s.handles /\ s'.handles[h] = s.handles[h]
             \/ s'.handles[h].by = q.id
    BY Zenon, <1>4, <2>1 DEF ServeEffect, Serves
  <2>3. q.id \in lost \/ \E g \in Callers : InDo(g) /\ k[g].req.id = q.id
    BY <1>4, <2>1, ServeFacts
  <2>4. QED
    BY <2>2, <2>3 DEF Accounted, InDo
<1>7. QED
  BY <1>1, <1>2, <1>3, <1>4 DEF SoundStep
-----------------------------------------------------------------------------
(* The invariant holds in the initial state.                                *)
LEMMA InitInv == Init => IInv
<1>1. SUFFICES ASSUME Init PROVE IInv
  OBVIOUS
<1>2. /\ Caller \in CallerType /\ CallerOK(Caller) /\ Caller.at = "idle"
      /\ Caller.slot = NoSlot /\ Caller.file = 0 /\ Caller.req.h = 0 /\ Caller.slot.h = 0
  BY Zenon, ConstantTypes DEF Caller, CallerType, CallerOK, Places, NoReq, NoSlot, Status, Reply
<1>3. SessionOK(NewSession)
  <2>1. PICK q : q = NewSession
    OBVIOUS
  <2>2. /\ q = [handles |-> <<>>, drained |-> {}, nextID |-> 0, files |-> {}, next |-> 0]
        /\ q.handles = <<>> /\ q.nextID = 0 /\ q.next = 0 /\ q.drained = {} /\ q.files = {}
    BY <2>1 DEF NewSession
  <2>3. DOMAIN q.handles = {} /\ q.handles = [h \in DOMAIN q.handles |-> q.handles[h]]
    BY <2>2
  <2>4. SessionOK(q)
    BY <2>2, <2>3 DEF SessionOK
  <2>5. QED
    BY Zenon, <2>1, <2>4
<1>4. DOMAIN NewSession.handles = {} /\ NewSession.nextID = 0
  <2>1. NewSession.nextID = 0
    BY DEF NewSession
  <2>2. DOMAIN NewSession.handles \subseteq 1..0
    BY <1>3, <2>1 DEF SessionOK
  <2>3. QED
    BY <2>1, <2>2
<1>5. /\ k = [g \in Callers |-> Caller] /\ nextID = 0 /\ pending = {} /\ loop = "run"
      /\ c2s = <<>> /\ s2c = <<>> /\ s = NewSession /\ srv = "run" /\ lost = {}
  BY <1>1 DEF Init
<1>6. up /\ ~readDone /\ ~crashed /\ up \in BOOLEAN /\ readDone \in BOOLEAN /\ crashed \in BOOLEAN
  BY Zenon, <1>1 DEF Init
<1>7. \A g \in Callers : k[g] = Caller
  BY <1>5
<1>8. \A g \in Callers : ~InDo(g)
  BY <1>2, <1>7 DEF InDo
<1>9. TypeOK
  <2>1. k \in [Callers -> CallerType]
    BY <1>2, <1>5
  <2>2. c2s \in Seq(HalfType) /\ s2c \in Seq(ReplyType)
    BY <1>5
  <2>3. SessionOK(s)
    BY <1>3, <1>5
  <2>4. QED
    BY Zenon, <1>5, <1>6, <2>1, <2>2, <2>3 DEF TypeOK
<1>10. CallersOK /\ Ids
  BY <1>2, <1>7, <1>8 DEF CallersOK, Ids
<1>11. Len(c2s) = 0 /\ Len(s2c) = 0 /\ 1..0 = {}
  BY <1>5
<1>12. Table
  BY <1>5, <1>6, <1>8 DEF Table
<1>13. Matched
  <2>1. NoSlot # Closed
    BY Zenon DEF NoSlot, Closed, Status, Reply
  <2>2. QED
    BY <1>2, <1>7, <1>8, <1>11, <2>1 DEF Matched, Answered
<1>14. Sent /\ Once /\ Due /\ Unanswered
  BY Zenon, <1>8, <1>11 DEF Sent, Once, Due, Unanswered, Answered
<1>15. Bounds
  BY <1>2, <1>4, <1>5, <1>7, <1>11 DEF Bounds
<1>16. Opened /\ Shut /\ Accounted
  BY <1>4, <1>5, <1>8 DEF Opened, OpenedBy, Shut, Accounted
<1>17. QED
  BY <1>9, <1>10, <1>12, <1>13, <1>14, <1>15, <1>16 DEF IInv

(* The invariant is inductive (client.go: do, readLoop, Close, the methods; *)
(* server.go: Serve).                                                       *)
THEOREM Inductive == Spec => []IInv
<1>1. IInv /\ [Next]_vars => IInv'
  <2>1. SUFFICES ASSUME IInv, [Next]_vars PROVE IInv'
    OBVIOUS
  <2>2. CASE UNCHANGED vars
    <3>1. UNCHANGED <<k, nextID, pending, loop, up, c2s, s2c, srv, s, lost, forsaken, crashed>>
      BY <2>2 DEF vars
    <3>2. TypeOK' /\ (CallersOK /\ Ids /\ Table /\ Matched)'
      BY Zenon, <2>1, <3>1, Steps DEF IInv, CallersOK, Ids, Table, Matched, Answered, InDo
    <3>3. (Sound => Sent /\ Once /\ Due /\ Unanswered)'
      BY Zenon, <2>1, <3>1 DEF IInv, Sound, Sent, Once, Due, Unanswered, Answered, InDo
    <3>4. (Sound => Bounds /\ Opened)'
      <4>1. (Sound => Bounds)'
        BY <2>1, <3>1 DEF IInv, Sound, Bounds
      <4>2. (Sound => Opened)'
        <5>1. \A h, b : OpenedBy(h, b) => OpenedBy(h, b)'
          BY <3>1 DEF OpenedBy, On, Answered, InDo
        <5>2. QED
          BY Zenon, <2>1, <3>1, <5>1 DEF IInv, Sound, Opened
      <4>3. QED
        BY <4>1, <4>2
    <3>5. (Sound => Shut /\ Accounted)'
      BY <2>1, <3>1 DEF IInv, Sound, Shut, Accounted, Answered, InDo
    <3>6. QED
      BY <3>2, <3>3, <3>4, <3>5 DEF IInv
  <2>3. CASE Step
    <3>1. TypeOK /\ CallersOK /\ Ids /\ Table /\ Matched /\ TypeOK'
      BY <2>1, Steps DEF IInv
    <3>2. CallersOK' /\ Ids' /\ Table'
      BY <2>3, <3>1, CallersStep, IdsStep, TableStep
    <3>3. Matched'
      BY <2>3, <3>1, <3>2, MatchedStep
    <3>4. ASSUME Sound'
          PROVE  (Sent /\ Once /\ Due /\ Unanswered /\ Bounds /\ Opened /\ Shut /\ Accounted)'
      <4>1. Sound /\ SoundStep
        BY <2>3, <3>1, <3>4, SoundSteps
      <4>2. Sent /\ Once /\ Due /\ Unanswered /\ Bounds /\ Opened /\ Shut /\ Accounted
        BY <2>1, <4>1 DEF IInv
      <4>3. Sent' /\ Once' /\ Due' /\ Unanswered'
        BY <3>1, <4>1, <4>2, SentStep, OnceStep, DueStep, UnansweredStep
      <4>4. Bounds' /\ Opened' /\ Shut'
        BY <3>1, <3>2, <4>1, <4>2, <4>3, BoundsStep, OpenedStep, ShutStep
      <4>5. Accounted'
        BY <3>1, <4>1, <4>2, AccountedStep
      <4>6. QED
        BY <4>3, <4>4, <4>5
    <3>5. QED
      BY <3>1, <3>2, <3>3, <3>4 DEF IInv
  <2>4. QED
    BY <2>1, <2>2, <2>3, Steps DEF IInv
<1>2. QED
  BY <1>1, InitInv, PTL DEF Spec

(* Until two packets get mixed up on the wire, do returns to each caller    *)
(* the answer to its own request (client.go: do, readLoop).                 *)
THEOREM RepliesAreOwn == Spec => []OwnReply
<1>1. IInv => OwnReply
  BY Zenon DEF IInv, Matched, Answered, OwnReply, Garbled
<1>2. QED
  BY <1>1, Inductive, PTL

(* pending holds exactly the requests that wait for a reply and those given *)
(* up without one, and only a request made after the read loop has ended    *)
(* panics (client.go: do, readLoop).                                        *)
THEOREM TableIsExact == Spec => []TableExact
<1>1. IInv => TableExact
  BY Zenon DEF IInv, Table, TableExact
<1>2. QED
  BY <1>1, Inductive, PTL

(* The server keeps no file open that nobody can close, but for a request   *)
(* that was given up or a close that failed (client.go: open, ReadDir;      *)
(* server.go: Serve).                                                       *)
THEOREM HandlesAreAccounted == Spec => []HandlesAccounted
<1>1. IInv => HandlesAccounted
  <2>1. SUFFICES ASSUME IInv, ~Garbled, up PROVE HandlesAccounted
    BY DEF HandlesAccounted
  <2>2. Accounted
    BY <2>1 DEF IInv, Sound, Garbled
  <2>3. QED
    BY Zenon, <2>2 DEF Accounted, HandlesAccounted
<1>2. QED
  BY <1>1, Inductive, PTL
===============================================================================
