-------------------------- MODULE IrcChannelsSteps --------------------------
(* What each step of IrcChannels does to the state, entry by entry, and that *)
(* it keeps the types; the inductive invariant of the channels, and that     *)
(* these effects keep the names the handlers work with, the course of a      *)
(* removal, and the lock.                                                    *)
EXTENDS IrcChannels, TLAPS

(* The registry files an object under its name, and a handler knows the     *)
(* name of the object it works on.                                          *)
Named ==
  /\ \A n \in Names : channels[n] # 0 => called[channels[n]] = n
  /\ \A s \in Sessions : pc[s] \notin {"idle", "visit"} =>
       obj[s] # 0 /\ called[obj[s]] = name[s]
  /\ \A s \in Sessions : pc[s] \in {"kickop", "has", "take"} => victim[s] \in Sessions

-----------------------------------------------------------------------------
(* 0 is no object.                                                          *)
LEMMA NoZero == 0 \notin Objects /\ \A c \in Objects : c \in Nat
  BY DEF Objects

(* What a step of session s leaves of the handlers of the others.           *)
Others(s) ==
  \A t \in Sessions \ {s} :
    /\ pc'[t] = pc[t] /\ name'[t] = name[t] /\ obj'[t] = obj[t]
    /\ victim'[t] = victim[t] /\ prefix'[t] = prefix[t] /\ todo'[t] = todo[t]

(* The handler of s goes on at a label, or it returns.                      *)
Kept(s, l) ==
  /\ pc'[s] = l /\ obj'[s] = obj[s] /\ victim'[s] = victim[s]
  /\ prefix'[s] = prefix[s] /\ UNCHANGED lock
Ended(s) ==
  /\ pc'[s] = "idle" /\ obj'[s] = 0 /\ victim'[s] = None /\ prefix'[s] = ""
  /\ excl' = (IF excl = s THEN None ELSE excl) /\ shared' = shared \ {s}

(* Going on and returning, session by session, with their types.            *)
LEMMA ContinueFacts ==
  ASSUME TypeOK, NEW s \in Sessions, NEW l \in Labels, Continue(s, l),
         UNCHANGED <<name, todo>>
  PROVE  /\ Kept(s, l) /\ Others(s) /\ name'[s] = name[s] /\ todo'[s] = todo[s]
         /\ pc' \in [Sessions -> Labels]
<1>1. pc' \in [Sessions -> Labels] /\ pc'[s] = l
      /\ \A t \in Sessions \ {s} : pc'[t] = pc[t]
  BY DEF Continue, Goto, TypeOK
<1> QED
  BY <1>1 DEF Continue, Kept, Others

(* Returning, session by session, with its types.                           *)
LEMMA ReleaseFacts ==
  ASSUME TypeOK, NEW s \in Sessions, Release(s), UNCHANGED <<name, todo>>
  PROVE  /\ Ended(s) /\ Others(s) /\ name'[s] = name[s] /\ todo'[s] = todo[s]
         /\ pc' \in [Sessions -> Labels]
         /\ obj' \in [Sessions -> Objects \cup {0}]
         /\ victim' \in [Sessions -> Sessions \cup {None}]
         /\ prefix' \in [Sessions -> Prefixes]
         /\ excl' \in Sessions \cup {None} /\ shared' \subseteq Sessions
<1>1. /\ pc' \in [Sessions -> Labels] /\ pc'[s] = "idle"
      /\ \A t \in Sessions \ {s} : pc'[t] = pc[t]
  BY Zenon DEF Release, Goto, TypeOK, Labels
<1>2. /\ obj' \in [Sessions -> Objects \cup {0}] /\ obj'[s] = 0
      /\ \A t \in Sessions \ {s} : obj'[t] = obj[t]
  BY Zenon DEF Release, Set, TypeOK
<1>3. /\ victim' \in [Sessions -> Sessions \cup {None}] /\ victim'[s] = None
      /\ \A t \in Sessions \ {s} : victim'[t] = victim[t]
  BY Zenon DEF Release, Set, TypeOK
<1>4. /\ prefix' \in [Sessions -> Prefixes] /\ prefix'[s] = ""
      /\ \A t \in Sessions \ {s} : prefix'[t] = prefix[t]
  BY Zenon DEF Release, Set, TypeOK, Prefixes
<1>5. /\ excl' = (IF excl = s THEN None ELSE excl) /\ shared' = shared \ {s}
      /\ excl' \in Sessions \cup {None} /\ shared' \subseteq Sessions
  BY Zenon DEF Release, TypeOK
<1> QED
  BY Zenon, <1>1, <1>2, <1>3, <1>4, <1>5 DEF Ended, Others

(* The steps of a handler that only ask, and the end of MODE.               *)
Asks(s) ==
  \/ JoinKey(s) \/ JoinInvite(s) \/ JoinLimit(s) \/ JoinMember(s)
  \/ HasVictim(s) \/ KickOp(s) \/ ModeOp(s) \/ ModeEnds(s)
Follows(k, l) ==
  \/ k = "key" /\ l = "invite"
  \/ k = "invite" /\ l = "limit"
  \/ k = "limit" /\ l = "member"
  \/ k = "member" /\ l = "first"
  \/ k = "kickop" /\ l = "has"
  \/ k = "has" /\ l = "take"
  \/ k = "modeop" /\ l = "apply"
Asking == {"key", "invite", "limit", "member", "kickop", "has", "modeop", "apply"}

(* A step that only asks goes on with what it has or returns.               *)
AskEffect(s) ==
  /\ Others(s) /\ name'[s] = name[s] /\ todo'[s] = todo[s] /\ pc[s] \in Asking
  /\ UNCHANGED <<labels, channels, called, created, members, modes, limit, gone>>
  /\ \/ Ended(s)
     \/ \E l \in Labels : Kept(s, l) /\ Follows(pc[s], l)
(* The steps that only ask have this effect and keep the types.             *)
LEMMA AskFacts ==
  ASSUME TypeOK, NEW s \in Sessions, Asks(s)
  PROVE  AskEffect(s) /\ TypeOK'
<1>1. /\ UNCHANGED <<labels, chanVars, gone, commands, name, todo>>
      /\ pc[s] \in Asking
  BY DEF Asks, JoinKey, JoinInvite, JoinLimit, JoinMember, HasVictim, KickOp,
         ModeOp, ModeEnds, Asking
<1>2. Release(s) \/ \E l \in Labels : Continue(s, l) /\ Follows(pc[s], l)
  <2>1. {"invite", "limit", "member", "first", "has", "take", "apply"} \subseteq Labels
    BY DEF Labels, JoinLabels
  <2> HIDE DEF Labels
  <2>2. CASE JoinKey(s)
    <3>1. pc[s] = "key" /\ (Release(s) \/ Continue(s, "invite"))
      BY <2>2 DEF JoinKey
    <3>2. Follows("key", "invite")
      BY DEF Follows
    <3> QED
      BY <2>1, <3>1, <3>2
  <2>3. CASE JoinInvite(s)
    BY <2>1, <2>3 DEF JoinInvite, Follows
  <2>4. CASE JoinLimit(s)
    <3>1. pc[s] = "limit" /\ (Release(s) \/ Continue(s, "member"))
      BY <2>4 DEF JoinLimit
    <3>2. Follows("limit", "member")
      BY DEF Follows
    <3> QED
      BY <2>1, <3>1, <3>2
  <2>5. CASE JoinMember(s)
    BY <2>1, <2>5 DEF JoinMember, Follows
  <2>6. CASE HasVictim(s)
    BY <2>1, <2>6 DEF HasVictim, Follows
  <2>7. CASE KickOp(s)
    <3>1. pc[s] = "kickop" /\ (Release(s) \/ Continue(s, "has"))
      BY <2>7 DEF KickOp
    <3>2. Follows("kickop", "has")
      BY DEF Follows
    <3> QED
      BY <2>1, <3>1, <3>2
  <2>8. CASE ModeOp(s)
    BY <2>1, <2>8 DEF ModeOp, Follows
  <2>9. CASE ModeEnds(s)
    BY <2>9 DEF ModeEnds
  <2> QED
    BY <2>2, <2>3, <2>4, <2>5, <2>6, <2>7, <2>8, <2>9 DEF Asks
<1>3. CASE Release(s)
  <2>1. /\ Ended(s) /\ Others(s) /\ name'[s] = name[s] /\ todo'[s] = todo[s]
        /\ pc' \in [Sessions -> Labels]
        /\ obj' \in [Sessions -> Objects \cup {0}]
        /\ victim' \in [Sessions -> Sessions \cup {None}]
        /\ prefix' \in [Sessions -> Prefixes]
        /\ excl' \in Sessions \cup {None} /\ shared' \subseteq Sessions
    BY <1>1, <1>3, ReleaseFacts
  <2>2. TypeOK'
    BY <1>1, <2>1 DEF TypeOK, chanVars
  <2> QED
    BY <1>1, <2>1, <2>2 DEF AskEffect, chanVars
<1>4. CASE \E l \in Labels : Continue(s, l) /\ Follows(pc[s], l)
  <2> PICK l \in Labels : Continue(s, l) /\ Follows(pc[s], l)
    BY <1>4
  <2>1. /\ Kept(s, l) /\ Others(s) /\ name'[s] = name[s] /\ todo'[s] = todo[s]
        /\ pc' \in [Sessions -> Labels]
    BY <1>1, ContinueFacts
  <2>2. UNCHANGED <<excl, shared, obj, victim, prefix>>
    BY DEF Continue, lock
  <2>3. TypeOK'
    BY <1>1, <2>1, <2>2 DEF TypeOK, chanVars
  <2> QED
    BY <1>1, <2>1, <2>3 DEF AskEffect, chanVars
<1> QED
  BY <1>2, <1>3, <1>4

(* A command that begins: JOIN with the object it found or made, the others *)
(* with the object they found.                                              *)
Began(s, n, l) ==
  /\ pc[s] = "idle" /\ s \notin gone /\ excl = None
  /\ IF s \in labels
       THEN shared = {} /\ excl' = s /\ shared' = shared
       ELSE shared' = shared \cup {s} /\ excl' = excl
  /\ pc'[s] = l /\ name'[s] = n /\ prefix'[s] = prefix[s] /\ todo'[s] = todo[s]
  /\ UNCHANGED <<labels, members, modes, limit, gone, todo, prefix>>

(* Taking dispatchMu keeps the types of the lock.                           *)
LEMMA AcquireFacts ==
  ASSUME TypeOK, NEW s \in Sessions, Acquire(s)
  PROVE  /\ commands' \in 0..MaxCommands
         /\ excl' \in Sessions \cup {None} /\ shared' \subseteq Sessions
  BY ChannelsAssumption DEF Acquire, TypeOK

(* A command that looks its channel up begins with the object it found.     *)
LEMMA LookupFacts ==
  ASSUME TypeOK, NEW s \in Sessions, NEW n \in Names,
         NEW t \in Sessions \cup {None}, NEW l \in Labels, Lookup(s, n, t, l)
  PROVE  /\ Began(s, n, l) /\ Others(s) /\ channels[n] # 0
         /\ obj'[s] = channels[n] /\ victim'[s] = t
         /\ UNCHANGED chanVars /\ TypeOK'
<1>1. /\ pc' \in [Sessions -> Labels] /\ pc'[s] = l
      /\ \A u \in Sessions \ {s} : pc'[u] = pc[u]
  BY DEF Lookup, Goto, TypeOK
<1>2. /\ obj' \in [Sessions -> Objects \cup {0}] /\ obj'[s] = channels[n]
      /\ \A u \in Sessions \ {s} : obj'[u] = obj[u]
  BY DEF Lookup, Set, TypeOK
<1>3. /\ victim' \in [Sessions -> Sessions \cup {None}] /\ victim'[s] = t
      /\ \A u \in Sessions \ {s} : victim'[u] = victim[u]
  BY DEF Lookup, Set, TypeOK
<1>4. /\ name' \in [Sessions -> Names] /\ name'[s] = n
      /\ \A u \in Sessions \ {s} : name'[u] = name[u]
  BY DEF Lookup, Set, TypeOK
<1>5. /\ channels[n] # 0 /\ Acquire(s)
      /\ UNCHANGED <<labels, chanVars, gone, prefix, todo>>
  BY DEF Lookup
<1>6. Began(s, n, l) /\ Others(s)
  BY <1>1, <1>2, <1>3, <1>4, <1>5 DEF Acquire, Began, Others, chanVars
<1>7. TypeOK'
  BY <1>1, <1>2, <1>3, <1>4, <1>5, AcquireFacts DEF TypeOK, chanVars
<1> QED
  BY <1>2, <1>3, <1>5, <1>6, <1>7

(* PART, KICK and MODE begin.                                               *)
Finds(s, n, t, l) ==
  \/ l = "has" /\ t = s /\ Part(s, n)
  \/ l = "kickop" /\ t \in Sessions /\ Kick(s, n, t)
  \/ l = "modeop" /\ t = None /\ Mode(s, n)

FindEffect(s, n, t, l) ==
  /\ Began(s, n, l) /\ Others(s) /\ channels[n] # 0
  /\ obj'[s] = channels[n] /\ victim'[s] = t
  /\ UNCHANGED <<channels, called, created>>
  /\ \/ l = "has" /\ t = s
     \/ l = "kickop" /\ t \in Sessions
     \/ l = "modeop" /\ t = None
(* PART, KICK and MODE begin with this effect and keep the types.           *)
LEMMA FindFacts ==
  ASSUME TypeOK, NEW s \in Sessions, NEW n \in Names, NEW t, NEW l,
         Finds(s, n, t, l)
  PROVE  FindEffect(s, n, t, l) /\ TypeOK'
<1>1. t \in Sessions \cup {None} /\ l \in Labels /\ Lookup(s, n, t, l)
  BY DEF Finds, Part, Kick, Mode, Labels
<1>2. /\ Began(s, n, l) /\ Others(s) /\ channels[n] # 0
      /\ obj'[s] = channels[n] /\ victim'[s] = t
      /\ UNCHANGED chanVars /\ TypeOK'
  BY <1>1, LookupFacts
<1> QED
  BY Zenon, <1>2 DEF FindEffect, Finds, chanVars

(* JOIN finds an object or makes one.                                       *)
Makes(s, n) ==
  /\ channels[n] = 0 /\ created' = created + 1 /\ created + 1 \in Objects
  /\ channels'[n] = created + 1
  /\ \A m \in Names \ {n} : channels'[m] = channels[m]
  /\ called'[created + 1] = n
  /\ \A c \in Objects : c # created + 1 => called'[c] = called[c]
  /\ obj'[s] = created + 1
JoinEffect(s, n) ==
  /\ Began(s, n, "key") /\ Others(s) /\ victim'[s] = victim[s]
  /\ \/ /\ channels[n] # 0 /\ obj'[s] = channels[n]
        /\ UNCHANGED <<channels, called, created>>
     \/ Makes(s, n)
(* JOIN begins with this effect and keeps the types.                        *)
LEMMA JoinFacts ==
  ASSUME TypeOK, NEW s \in Sessions, NEW n \in Names, Join(s, n)
  PROVE  JoinEffect(s, n) /\ TypeOK'
<1>1. /\ pc' \in [Sessions -> Labels] /\ pc'[s] = "key"
      /\ \A u \in Sessions \ {s} : pc'[u] = pc[u]
  BY DEF Join, Goto, TypeOK, Labels, JoinLabels
<1>2. /\ name' \in [Sessions -> Names] /\ name'[s] = n
      /\ \A u \in Sessions \ {s} : name'[u] = name[u]
  BY DEF Join, Set, TypeOK
<1>3. /\ Acquire(s)
      /\ UNCHANGED <<labels, members, modes, limit, gone, victim, prefix, todo>>
  BY DEF Join
<1>4. /\ obj' \in [Sessions -> Objects \cup {0}]
      /\ \A u \in Sessions \ {s} : obj'[u] = obj[u]
      /\ channels' \in [Names -> Objects \cup {0}]
      /\ called' \in [Objects -> Names]
      /\ created' \in 0..MaxObjects
      /\ \/ /\ channels[n] # 0 /\ obj'[s] = channels[n]
            /\ UNCHANGED <<channels, called, created>>
         \/ Makes(s, n)
  <2>1. CASE channels[n] # 0
    BY <2>1 DEF Join, Set, TypeOK
  <2>2. CASE channels[n] = 0
    <3>1. /\ created' = created + 1 /\ created + 1 \in Objects
          /\ created' \in 0..MaxObjects
      BY <2>2, ChannelsAssumption DEF Join, TypeOK, Objects
    <3> DEFINE c == created + 1
    <3> HIDE DEF c
    <3>2. /\ channels' = [channels EXCEPT ![n] = c]
          /\ called' = [called EXCEPT ![c] = n] /\ obj' = [obj EXCEPT ![s] = c]
      BY <2>2 DEF Join, Set, c
    <3>3. c \in Objects
      BY <3>1 DEF c
    <3>4. /\ obj' \in [Sessions -> Objects \cup {0}] /\ obj'[s] = c
          /\ \A u \in Sessions \ {s} : obj'[u] = obj[u]
          /\ channels' \in [Names -> Objects \cup {0}]
          /\ called' \in [Objects -> Names]
          /\ channels'[n] = c
          /\ \A m \in Names \ {n} : channels'[m] = channels[m]
          /\ called'[c] = n
          /\ \A d \in Objects : d # c => called'[d] = called[d]
      BY <3>2, <3>3 DEF TypeOK
    <3> QED
      BY <2>2, <3>1, <3>4 DEF Makes, c
  <2> QED
    BY <2>1, <2>2
<1>5. Began(s, n, "key") /\ Others(s) /\ victim'[s] = victim[s]
  BY Zenon, <1>1, <1>2, <1>3, <1>4 DEF Acquire, Began, Others
<1>6. TypeOK'
  BY <1>1, <1>2, <1>3, <1>4, AcquireFacts DEF TypeOK
<1> QED
  BY <1>4, <1>5, <1>6 DEF JoinEffect

(* The steps that change members or modes, session by session.              *)
FirstEffect(s) ==
  /\ Others(s) /\ pc[s] = "first" /\ pc'[s] = "add"
  /\ UNCHANGED <<labels, excl, shared, channels, called, created, members, modes,
                 limit, gone, name, obj, victim, todo>>
  /\ prefix'[s] = (IF Empty(obj[s]) THEN "@" ELSE "")
(* JOIN decides on the prefix, with this effect, and keeps the types.       *)
LEMMA FirstFacts ==
  ASSUME TypeOK, NEW s \in Sessions, JoinFirst(s)
  PROVE  FirstEffect(s) /\ TypeOK'
<1>1. /\ pc' \in [Sessions -> Labels] /\ pc'[s] = "add"
      /\ \A u \in Sessions \ {s} : pc'[u] = pc[u]
  BY Zenon DEF JoinFirst, Goto, TypeOK, Labels, JoinLabels
<1>2. /\ prefix' \in [Sessions -> Prefixes]
      /\ prefix'[s] = (IF Empty(obj[s]) THEN "@" ELSE "")
      /\ \A u \in Sessions \ {s} : prefix'[u] = prefix[u]
  BY Zenon DEF JoinFirst, Set, TypeOK, Prefixes
<1>3. /\ pc[s] = "first"
      /\ UNCHANGED <<labels, lock, chanVars, gone, commands, name, obj, victim,
                     todo>>
  BY Zenon DEF JoinFirst
<1>4. Others(s)
  BY Zenon, <1>1, <1>2, <1>3 DEF Others
<1>5. TypeOK'
  BY Zenon, <1>1, <1>2, <1>3 DEF TypeOK, chanVars, lock
<1> QED
  BY Zenon, <1>1, <1>2, <1>3, <1>4, <1>5 DEF FirstEffect, lock, chanVars

(* The entry of one session at one object changes.                          *)
Marked(c, t, p) ==
  /\ members'[c][t] = p
  /\ \A d \in Objects, u \in Sessions :
       d # c \/ u # t => members'[d][u] = members[d][u]
(* One assignment in the member maps changes one entry.                     *)
LEMMA MarkFacts ==
  ASSUME TypeOK, NEW c \in Objects, NEW t \in Sessions,
         NEW p \in Prefixes \cup {"out"},
         members' = [members EXCEPT ![c][t] = p]
  PROVE  /\ members' \in [Objects -> [Sessions -> Prefixes \cup {"out"}]]
         /\ Marked(c, t, p)
<1> DEFINE P == Prefixes \cup {"out"}
<1> HIDE DEF P
<1>1. members \in [Objects -> [Sessions -> P]] /\ p \in P
  BY DEF TypeOK, P
<1>2. members[c] \in [Sessions -> P]
  BY <1>1
<1> DEFINE row == [members[c] EXCEPT ![t] = p]
<1>3. row \in [Sessions -> P] /\ row[t] = p
      /\ \A u \in Sessions \ {t} : row[u] = members[c][u]
  BY <1>1, <1>2
<1>4. members' = [members EXCEPT ![c] = row]
  BY <1>1
<1> HIDE DEF row
<1>5. members' \in [Objects -> [Sessions -> P]] /\ members'[c] = row
      /\ \A d \in Objects \ {c} : members'[d] = members[d]
  BY <1>1, <1>3, <1>4
<1> QED
  BY <1>3, <1>5 DEF Marked, P

AddEffect(s) ==
  /\ Ended(s) /\ Others(s) /\ pc[s] = "add"
  /\ obj[s] \in Objects /\ prefix[s] \in Prefixes
  /\ name'[s] = name[s] /\ todo'[s] = todo[s]
  /\ Marked(obj[s], s, prefix[s])
  /\ UNCHANGED <<labels, channels, called, created, modes, limit, gone,
                 name, todo>>
(* AddMember has this effect and keeps the types.                           *)
LEMMA AddFacts ==
  ASSUME TypeOK, Named, NEW s \in Sessions, AddMember(s)
  PROVE  AddEffect(s) /\ TypeOK'
<1>1. /\ pc[s] = "add" /\ Release(s)
      /\ members' = [members EXCEPT ![obj[s]][s] = prefix[s]]
      /\ UNCHANGED <<labels, channels, called, created, modes, limit, gone,
                     commands, name, todo>>
  BY DEF AddMember
<1>2. obj[s] \in Objects /\ prefix[s] \in Prefixes
  BY Zenon, <1>1, NoZero DEF TypeOK, Named
<1>3. /\ members' \in [Objects -> [Sessions -> Prefixes \cup {"out"}]]
      /\ Marked(obj[s], s, prefix[s])
  BY Zenon, <1>1, <1>2, MarkFacts
<1>4. /\ Ended(s) /\ Others(s) /\ name'[s] = name[s] /\ todo'[s] = todo[s]
      /\ pc' \in [Sessions -> Labels]
      /\ obj' \in [Sessions -> Objects \cup {0}]
      /\ victim' \in [Sessions -> Sessions \cup {None}]
      /\ prefix' \in [Sessions -> Prefixes]
      /\ excl' \in Sessions \cup {None} /\ shared' \subseteq Sessions
  BY <1>1, ReleaseFacts
<1>5. TypeOK'
  BY <1>1, <1>3, <1>4 DEF TypeOK
<1> QED
  BY <1>1, <1>2, <1>3, <1>4, <1>5 DEF AddEffect

(* handleChannelMode at work: a prefix, a mode or the limit of its object.  *)
Applies(s) ==
  \/ \E t \in Sessions, p \in Prefixes : ApplyOp(s, t, p)
  \/ \E m \in {"i", "k"} : ApplyMode(s, m)
  \/ \E l \in 0..MaxLimit : ApplyLimit(s, l)
ApplyEffect(s) ==
  /\ pc[s] = "apply" /\ obj[s] \in Objects
  /\ UNCHANGED <<labels, lock, channels, called, created, gone, commands,
                 pc, local>>
  /\ \A c \in Objects : c # obj[s] =>
       modes'[c] = modes[c] /\ limit'[c] = limit[c]
  /\ \/ UNCHANGED members
     \/ \E t \in Sessions, p \in Prefixes :
          Has(obj[s], t) /\ Marked(obj[s], t, p) /\ UNCHANGED <<modes, limit>>
(* Applying a mode change has this effect and keeps the types.              *)
LEMMA ApplyFacts ==
  ASSUME TypeOK, Named, NEW s \in Sessions, Applies(s)
  PROVE  ApplyEffect(s) /\ TypeOK'
<1>1. /\ pc[s] = "apply"
      /\ UNCHANGED <<labels, lock, channels, called, created, gone, commands,
                     pc, local>>
  BY Zenon DEF Applies, ApplyOp, ApplyMode, ApplyLimit
<1>2. obj[s] \in Objects
  BY Zenon, <1>1, NoZero DEF TypeOK, Named
<1>3. CASE \E t \in Sessions, p \in Prefixes : ApplyOp(s, t, p)
  <2>1. PICK t \in Sessions, p \in Prefixes : ApplyOp(s, t, p)
    BY <1>3
  <2>2. /\ Has(obj[s], t) /\ UNCHANGED <<modes, limit>>
        /\ members' = [members EXCEPT ![obj[s]][t] = p]
    BY <2>1 DEF ApplyOp
  <2>3. /\ members' \in [Objects -> [Sessions -> Prefixes \cup {"out"}]]
        /\ Marked(obj[s], t, p)
    BY Zenon, <1>2, <2>2, MarkFacts
  <2>4. TypeOK'
    BY <1>1, <2>2, <2>3 DEF TypeOK, lock, local
  <2> QED
    BY <1>1, <1>2, <2>2, <2>3, <2>4 DEF ApplyEffect
<1>4. CASE \E m \in {"i", "k"} : ApplyMode(s, m)
  <2>0. PICK m \in {"i", "k"} : ApplyMode(s, m)
    BY <1>4
  <2>1. PICK ms \in {modes[obj[s]] \cup {m}, modes[obj[s]] \ {m}} :
          modes' = [modes EXCEPT ![obj[s]] = ms] /\ UNCHANGED <<members, limit>>
    BY Zenon, <2>0 DEF ApplyMode
  <2>2. ms \in SUBSET {"i", "k"}
    <3>1. modes[obj[s]] \in SUBSET {"i", "k"}
      BY <1>2 DEF TypeOK
    <3> QED
      BY <3>1
  <2>3. /\ modes' \in [Objects -> SUBSET {"i", "k"}]
        /\ \A c \in Objects : c # obj[s] => modes'[c] = modes[c]
    BY <1>2, <2>1, <2>2 DEF TypeOK
  <2>4. TypeOK'
    BY <1>1, <2>1, <2>3 DEF TypeOK, lock, local
  <2> QED
    BY Zenon, <1>1, <1>2, <2>1, <2>3, <2>4 DEF ApplyEffect
<1>5. CASE \E l \in 0..MaxLimit : ApplyLimit(s, l)
  <2>1. PICK l \in 0..MaxLimit :
          limit' = [limit EXCEPT ![obj[s]] = l] /\ UNCHANGED <<members, modes>>
    BY Zenon, <1>5 DEF ApplyLimit
  <2>2. /\ limit' \in [Objects -> 0..MaxLimit]
        /\ \A c \in Objects : c # obj[s] => limit'[c] = limit[c]
    BY <1>2, <2>1 DEF TypeOK
  <2>3. TypeOK'
    BY <1>1, <2>1, <2>2 DEF TypeOK, lock, local
  <2> QED
    BY Zenon, <1>1, <1>2, <2>1, <2>2, <2>3 DEF ApplyEffect
<1> QED
  BY <1>3, <1>4, <1>5 DEF Applies

(* RemoveMember.                                                            *)
RemoveEffect(s) ==
  /\ Others(s) /\ pc[s] = "take"
  /\ obj[s] \in Objects /\ victim[s] \in Sessions
  /\ name'[s] = name[s] /\ todo'[s] = todo[s]
  /\ Marked(obj[s], victim[s], "out")
  /\ UNCHANGED <<labels, channels, called, created, modes, limit, gone,
                 name, todo>>
  /\ \/ Kept(s, "drop") /\ \A t \in Sessions \ {victim[s]} : ~Has(obj[s], t)
     \/ /\ \E t \in Sessions \ {victim[s]} : Has(obj[s], t)
        /\ \/ s \in gone /\ Kept(s, "visit")
           \/ s \notin gone /\ Ended(s)
(* RemoveMember has this effect and keeps the types.                        *)
LEMMA RemoveFacts ==
  ASSUME TypeOK, Named, NEW s \in Sessions, RemoveMember(s)
  PROVE  RemoveEffect(s) /\ TypeOK'
<1> DEFINE Last == \A t \in Sessions \ {victim[s]} : ~Has(obj[s], t)
<1> HIDE DEF Last
<1>1. /\ pc[s] = "take"
      /\ members' = [members EXCEPT ![obj[s]][victim[s]] = "out"]
      /\ UNCHANGED <<labels, channels, called, created, modes, limit, gone,
                     commands, name, todo>>
      /\ \/ Last /\ Continue(s, "drop")
         \/ ~Last /\ s \in gone /\ Continue(s, "visit")
         \/ ~Last /\ s \notin gone /\ Release(s)
  BY DEF RemoveMember, Last
<1>2. obj[s] \in Objects /\ victim[s] \in Sessions
  BY Zenon, <1>1, NoZero DEF TypeOK, Named
<1>3. /\ members' \in [Objects -> [Sessions -> Prefixes \cup {"out"}]]
      /\ Marked(obj[s], victim[s], "out")
  BY Zenon, <1>1, <1>2, MarkFacts
<1>4. {"drop", "visit"} \subseteq Labels
  BY DEF Labels
<1>5. ASSUME NEW l \in {"drop", "visit"}, Continue(s, l)
      PROVE  /\ Others(s) /\ Kept(s, l) /\ TypeOK'
             /\ name'[s] = name[s] /\ todo'[s] = todo[s]
  <2>1. /\ Kept(s, l) /\ Others(s) /\ pc' \in [Sessions -> Labels]
        /\ name'[s] = name[s] /\ todo'[s] = todo[s]
    BY <1>1, <1>4, <1>5, ContinueFacts
  <2>2. UNCHANGED <<excl, shared, obj, victim, prefix>>
    BY <1>5 DEF Continue, lock
  <2> QED
    BY <1>1, <1>3, <2>1, <2>2 DEF TypeOK
<1>6. ASSUME Release(s)
      PROVE  /\ Others(s) /\ Ended(s) /\ TypeOK'
             /\ name'[s] = name[s] /\ todo'[s] = todo[s]
  <2>1. /\ Ended(s) /\ Others(s) /\ name'[s] = name[s] /\ todo'[s] = todo[s]
        /\ pc' \in [Sessions -> Labels]
        /\ obj' \in [Sessions -> Objects \cup {0}]
        /\ victim' \in [Sessions -> Sessions \cup {None}]
        /\ prefix' \in [Sessions -> Prefixes]
        /\ excl' \in Sessions \cup {None} /\ shared' \subseteq Sessions
    BY <1>1, <1>6, ReleaseFacts
  <2> QED
    BY <1>1, <1>3, <2>1 DEF TypeOK
<1> QED
  BY Zenon, <1>1, <1>2, <1>3, <1>5, <1>6 DEF Last, RemoveEffect

(* ChannelRegistry.Remove.                                                  *)
DropEffect(s) ==
  /\ Others(s) /\ pc[s] = "drop"
  /\ name'[s] = name[s] /\ todo'[s] = todo[s]
  /\ channels'[name[s]] = 0
  /\ \A n \in Names : n # name[s] => channels'[n] = channels[n]
  /\ UNCHANGED <<labels, called, created, members, modes, limit, gone,
                 name, todo>>
  /\ \/ s \in gone /\ Kept(s, "visit")
     \/ s \notin gone /\ Ended(s)
(* Dropping a channel has this effect and keeps the types.                  *)
LEMMA DropFacts ==
  ASSUME TypeOK, NEW s \in Sessions, DropChannel(s)
  PROVE  DropEffect(s) /\ TypeOK'
<1>1. /\ pc[s] = "drop"
      /\ channels' = [channels EXCEPT ![name[s]] = 0]
      /\ UNCHANGED <<labels, called, created, members, modes, limit, gone,
                     commands, name, todo>>
      /\ \/ s \in gone /\ Continue(s, "visit")
         \/ s \notin gone /\ Release(s)
  BY Zenon DEF DropChannel
<1>2. /\ channels' \in [Names -> Objects \cup {0}]
      /\ channels'[name[s]] = 0
      /\ \A n \in Names : n # name[s] => channels'[n] = channels[n]
  BY <1>1 DEF TypeOK
<1>3. ASSUME Continue(s, "visit")
      PROVE  /\ Others(s) /\ Kept(s, "visit") /\ TypeOK'
             /\ name'[s] = name[s] /\ todo'[s] = todo[s]
  <2>1. /\ Kept(s, "visit") /\ Others(s) /\ pc' \in [Sessions -> Labels]
        /\ name'[s] = name[s] /\ todo'[s] = todo[s]
    <3>1. "visit" \in Labels
      BY DEF Labels
    <3> QED
      BY Zenon, <1>1, <1>3, <3>1, ContinueFacts
  <2>2. UNCHANGED <<excl, shared, obj, victim, prefix>>
    BY <1>3 DEF Continue, lock
  <2> QED
    BY <1>1, <1>2, <2>1, <2>2 DEF TypeOK
<1>4. ASSUME Release(s)
      PROVE  /\ Others(s) /\ Ended(s) /\ TypeOK'
             /\ name'[s] = name[s] /\ todo'[s] = todo[s]
  <2>1. /\ Ended(s) /\ Others(s) /\ name'[s] = name[s] /\ todo'[s] = todo[s]
        /\ pc' \in [Sessions -> Labels]
        /\ obj' \in [Sessions -> Objects \cup {0}]
        /\ victim' \in [Sessions -> Sessions \cup {None}]
        /\ prefix' \in [Sessions -> Prefixes]
        /\ excl' \in Sessions \cup {None} /\ shared' \subseteq Sessions
    BY Zenon, <1>1, <1>4, ReleaseFacts
  <2> QED
    BY <1>1, <1>2, <2>1 DEF TypeOK
<1> QED
  BY Zenon, <1>1, <1>2, <1>3, <1>4 DEF DropEffect

(* The removal of a session begins, visits a channel, and ends.             *)
LeaveEffect(s) ==
  /\ Others(s) /\ pc[s] = "idle" /\ pc'[s] = "visit"
  /\ s \notin gone /\ gone' = gone \cup {s} /\ excl = None
  /\ shared' = shared \cup {s} /\ todo'[s] = Mapped
  /\ UNCHANGED <<labels, excl, chanVars, name, obj, victim, prefix>>
(* The removal of a session begins with this effect.                        *)
LEMMA DisconnectFacts ==
  ASSUME TypeOK, NEW s \in Sessions, Disconnect(s)
  PROVE  LeaveEffect(s) /\ TypeOK'
<1>1. /\ pc' \in [Sessions -> Labels] /\ pc'[s] = "visit"
      /\ \A u \in Sessions \ {s} : pc'[u] = pc[u]
  BY DEF Disconnect, Goto, TypeOK, Labels
<1>2. Mapped \subseteq Objects
  BY DEF Mapped, TypeOK
<1>3. /\ todo' \in [Sessions -> SUBSET Objects] /\ todo'[s] = Mapped
      /\ \A u \in Sessions \ {s} : todo'[u] = todo[u]
  BY <1>2 DEF Disconnect, Set, TypeOK
<1>4. /\ pc[s] = "idle" /\ s \notin gone /\ gone' = gone \cup {s}
      /\ excl = None /\ shared' = shared \cup {s}
      /\ UNCHANGED <<labels, excl, chanVars, commands, name, obj, victim, prefix>>
  BY DEF Disconnect
<1>5. Others(s)
  BY <1>1, <1>3, <1>4 DEF Others
<1>6. TypeOK'
  BY <1>1, <1>3, <1>4 DEF TypeOK, chanVars
<1> QED
  BY Zenon, <1>1, <1>3, <1>4, <1>5, <1>6 DEF LeaveEffect

VisitEffect(s, c) ==
  /\ Others(s) /\ pc[s] = "visit" /\ c \in todo[s]
  /\ todo'[s] = todo[s] \ {c}
  /\ UNCHANGED <<labels, lock, chanVars, gone, prefix>>
  /\ \/ /\ Has(c, s) /\ obj'[s] = c /\ name'[s] = called[c]
        /\ victim'[s] = s /\ pc'[s] = "take"
     \/ ~Has(c, s) /\ UNCHANGED <<name, obj, victim, pc>>
(* The removal visits a channel with this effect.                           *)
LEMMA VisitFacts ==
  ASSUME TypeOK, NEW s \in Sessions, NEW c \in Objects, VisitChannel(s, c)
  PROVE  VisitEffect(s, c) /\ TypeOK'
<1>1. /\ pc[s] = "visit" /\ c \in todo[s]
      /\ UNCHANGED <<labels, lock, chanVars, gone, commands, prefix>>
  BY Zenon DEF VisitChannel
<1>2. /\ todo' \in [Sessions -> SUBSET Objects] /\ todo'[s] = todo[s] \ {c}
      /\ \A u \in Sessions \ {s} : todo'[u] = todo[u]
  <2>1. todo[s] \ {c} \in SUBSET Objects
    BY DEF TypeOK
  <2> QED
    BY <2>1 DEF VisitChannel, Set, TypeOK
<1>3. CASE Has(c, s)
  <2>1. /\ pc' \in [Sessions -> Labels] /\ pc'[s] = "take"
        /\ \A u \in Sessions \ {s} : pc'[u] = pc[u]
    BY Zenon, <1>3 DEF VisitChannel, Goto, TypeOK, Labels
  <2>2. /\ obj' \in [Sessions -> Objects \cup {0}] /\ obj'[s] = c
        /\ \A u \in Sessions \ {s} : obj'[u] = obj[u]
    BY <1>3 DEF VisitChannel, Set, TypeOK
  <2>3. /\ victim' \in [Sessions -> Sessions \cup {None}] /\ victim'[s] = s
        /\ \A u \in Sessions \ {s} : victim'[u] = victim[u]
    BY <1>3 DEF VisitChannel, Set, TypeOK
  <2>4. /\ name' \in [Sessions -> Names] /\ name'[s] = called[c]
        /\ \A u \in Sessions \ {s} : name'[u] = name[u]
    BY <1>3 DEF VisitChannel, Set, TypeOK
  <2>5. Others(s)
    BY <1>1, <1>2, <2>1, <2>2, <2>3, <2>4 DEF Others
  <2>6. TypeOK'
    BY <1>1, <1>2, <2>1, <2>2, <2>3, <2>4 DEF TypeOK, chanVars, lock
  <2> QED
    BY Zenon, <1>1, <1>2, <1>3, <2>1, <2>2, <2>3, <2>4, <2>5, <2>6 DEF VisitEffect
<1>4. CASE ~Has(c, s)
  <2>1. UNCHANGED <<name, obj, victim, pc>>
    BY <1>4 DEF VisitChannel
  <2>2. Others(s)
    BY <1>1, <1>2, <2>1 DEF Others
  <2>3. TypeOK'
    BY <1>1, <1>2, <2>1 DEF TypeOK, chanVars, lock
  <2> QED
    BY Zenon, <1>1, <1>2, <1>4, <2>1, <2>2, <2>3 DEF VisitEffect
<1> QED
  BY <1>3, <1>4

EndEffect(s) ==
  /\ Ended(s) /\ Others(s) /\ pc[s] = "visit" /\ todo[s] = {}
  /\ name'[s] = name[s] /\ todo'[s] = todo[s]
  /\ UNCHANGED <<labels, chanVars, gone, name, todo>>
(* The removal ends with this effect.                                       *)
LEMMA EndsFacts ==
  ASSUME TypeOK, NEW s \in Sessions, RemovalEnds(s)
  PROVE  EndEffect(s) /\ TypeOK'
<1>1. /\ pc[s] = "visit" /\ todo[s] = {} /\ Release(s)
      /\ UNCHANGED <<labels, chanVars, gone, commands, name, todo>>
  BY DEF RemovalEnds
<1>2. /\ Ended(s) /\ Others(s) /\ name'[s] = name[s] /\ todo'[s] = todo[s]
      /\ pc' \in [Sessions -> Labels]
      /\ obj' \in [Sessions -> Objects \cup {0}]
      /\ victim' \in [Sessions -> Sessions \cup {None}]
      /\ prefix' \in [Sessions -> Prefixes]
      /\ excl' \in Sessions \cup {None} /\ shared' \subseteq Sessions
  BY Zenon, <1>1, ReleaseFacts
<1>3. TypeOK'
  BY <1>1, <1>2 DEF TypeOK, chanVars
<1> QED
  BY Zenon, <1>1, <1>2, <1>3 DEF EndEffect

(* What JOIN asks about +l.                                                 *)
Full(c) == limit[c] > 0 /\ Count(c) >= limit[c]
(* What the handler learned by asking: why it goes on, or why it returns.   *)
Learned(s) ==
  /\ pc'[s] = "member" => ~Full(obj[s])
  /\ pc'[s] = "first" => ~Has(obj[s], s)
  /\ pc'[s] = "take" => Has(obj[s], victim[s])
  /\ pc'[s] = "has" => members[obj[s]][s] = "@"
  /\ pc'[s] = "apply" => Has(obj[s], s)
  /\ pc'[s] = "idle" /\ pc[s] \in JoinLabels =>
       modes[obj[s]] # {} \/ limit[obj[s]] # 0 \/ ~Empty(obj[s])

(* Every step that asks has learned that.                                   *)
LEMMA LearnedFacts ==
  ASSUME TypeOK, Named, NEW s \in Sessions, Asks(s)
  PROVE  Learned(s)
<1>1. ASSUME Release(s) PROVE pc'[s] = "idle"
  BY Zenon, <1>1 DEF Release, Goto, TypeOK
<1>2. ASSUME NEW l, Continue(s, l) PROVE pc'[s] = l
  BY <1>2 DEF Continue, Goto, TypeOK
<1>3. CASE JoinKey(s)
  <2>1. /\ pc'[s] \in {"invite", "idle"}
        /\ pc'[s] = "idle" => modes[obj[s]] # {}
    BY <1>1, <1>2, <1>3 DEF JoinKey
  <2> QED
    BY Zenon, <2>1 DEF Learned
<1>4. CASE JoinInvite(s)
  <2>1. /\ pc'[s] \in {"limit", "idle"}
        /\ pc'[s] = "idle" => modes[obj[s]] # {}
    BY Zenon, <1>1, <1>2, <1>4 DEF JoinInvite
  <2> QED
    BY <2>1 DEF Learned
<1>5. CASE JoinLimit(s)
  <2>1. /\ obj[s] \in Objects
        /\ \/ pc'[s] = "idle" /\ limit[obj[s]] > 0
           \/ pc'[s] = "member" /\ ~Full(obj[s])
    BY Zenon, <1>1, <1>2, <1>5, NoZero DEF JoinLimit, Full, TypeOK, Named
  <2>2. limit[obj[s]] \in 0..MaxLimit
    BY <2>1 DEF TypeOK
  <2> QED
    BY <2>1, <2>2, ChannelsAssumption DEF Learned
<1>6. CASE JoinMember(s)
  <2>1. \/ pc'[s] = "idle" /\ Has(obj[s], s)
        \/ pc'[s] = "first" /\ ~Has(obj[s], s)
    BY <1>1, <1>2, <1>6 DEF JoinMember
  <2> QED
    BY <2>1 DEF Learned, Empty
<1>7. CASE HasVictim(s)
  <2>1. /\ pc[s] = "has"
        /\ \/ pc'[s] = "idle"
           \/ pc'[s] = "take" /\ Has(obj[s], victim[s])
    BY <1>1, <1>2, <1>7 DEF HasVictim
  <2> QED
    BY <2>1 DEF Learned, JoinLabels
<1>8. CASE KickOp(s)
  <2>1. /\ pc[s] = "kickop"
        /\ \/ pc'[s] = "idle"
           \/ pc'[s] = "has" /\ members[obj[s]][s] = "@"
    BY <1>1, <1>2, <1>8 DEF KickOp
  <2> QED
    BY <2>1 DEF Learned, JoinLabels
<1>9. CASE ModeOp(s)
  <2>1. /\ pc[s] = "modeop"
        /\ \/ pc'[s] = "idle"
           \/ pc'[s] = "apply" /\ Has(obj[s], s)
    BY <1>1, <1>2, <1>9 DEF ModeOp, Has
  <2> QED
    BY <2>1 DEF Learned, JoinLabels
<1>10. CASE ModeEnds(s)
  <2>1. pc[s] = "apply" /\ pc'[s] = "idle"
    BY <1>1, <1>10 DEF ModeEnds
  <2> QED
    BY Zenon, <2>1 DEF Learned, JoinLabels
<1> QED
  BY <1>3, <1>4, <1>5, <1>6, <1>7, <1>8, <1>9, <1>10 DEF Asks

(* Every step, by what it does: the invariants are shown for these.         *)
Effect(s) ==
  \/ \E n \in Names : JoinEffect(s, n)
  \/ \E n \in Names : \E t, l : FindEffect(s, n, t, l)
  \/ AskEffect(s) /\ Learned(s)
  \/ FirstEffect(s) \/ AddEffect(s) \/ ApplyEffect(s)
  \/ RemoveEffect(s) \/ DropEffect(s) \/ LeaveEffect(s)
  \/ \E c \in Objects : VisitEffect(s, c)
  \/ EndEffect(s)
(* Every step has one of the effects and keeps the types.                   *)
LEMMA Effects ==
  ASSUME TypeOK, Named, Next
  PROVE  TypeOK' /\ \E s \in Sessions : Effect(s)
<1>1. ASSUME NEW s \in Sessions, NEW n \in Names, Join(s, n)
      PROVE  TypeOK' /\ Effect(s)
  BY <1>1, JoinFacts DEF Effect
<1>2. ASSUME NEW s \in Sessions, NEW n \in Names, NEW t, NEW l, Finds(s, n, t, l)
      PROVE  TypeOK' /\ Effect(s)
  BY <1>2, FindFacts DEF Effect
<1>3. ASSUME NEW s \in Sessions, NEW n \in Names, Part(s, n)
      PROVE  TypeOK' /\ Effect(s)
  <2>1. Finds(s, n, s, "has")
    BY <1>3 DEF Finds
  <2> QED
    BY <1>2, <2>1
<1>4. ASSUME NEW s \in Sessions, NEW n \in Names, NEW t \in Sessions, Kick(s, n, t)
      PROVE  TypeOK' /\ Effect(s)
  <2>1. Finds(s, n, t, "kickop")
    BY <1>4 DEF Finds
  <2> QED
    BY <1>2, <2>1
<1>5. ASSUME NEW s \in Sessions, NEW n \in Names, Mode(s, n)
      PROVE  TypeOK' /\ Effect(s)
  <2>1. Finds(s, n, None, "modeop")
    BY <1>5 DEF Finds
  <2> QED
    BY <1>2, <2>1
<1>6. ASSUME NEW s \in Sessions, Asks(s) PROVE TypeOK' /\ Effect(s)
  BY <1>6, AskFacts, LearnedFacts DEF Effect
<1>7. ASSUME NEW s \in Sessions, JoinFirst(s) PROVE TypeOK' /\ Effect(s)
  BY <1>7, FirstFacts DEF Effect
<1>8. ASSUME NEW s \in Sessions, AddMember(s) PROVE TypeOK' /\ Effect(s)
  BY <1>8, AddFacts DEF Effect
<1>9. ASSUME NEW s \in Sessions, Applies(s) PROVE TypeOK' /\ Effect(s)
  BY <1>9, ApplyFacts DEF Effect
<1>10. ASSUME NEW s \in Sessions, RemoveMember(s) PROVE TypeOK' /\ Effect(s)
  BY <1>10, RemoveFacts DEF Effect
<1>11. ASSUME NEW s \in Sessions, DropChannel(s) PROVE TypeOK' /\ Effect(s)
  BY <1>11, DropFacts DEF Effect
<1>12. ASSUME NEW s \in Sessions, Disconnect(s) PROVE TypeOK' /\ Effect(s)
  BY <1>12, DisconnectFacts DEF Effect
<1>13. ASSUME NEW s \in Sessions, NEW c \in Objects, VisitChannel(s, c)
       PROVE  TypeOK' /\ Effect(s)
  BY <1>13, VisitFacts DEF Effect
<1>14. ASSUME NEW s \in Sessions, RemovalEnds(s) PROVE TypeOK' /\ Effect(s)
  BY <1>14, EndsFacts DEF Effect
<1> QED
  BY Zenon, <1>1, <1>3, <1>4, <1>5, <1>6, <1>7, <1>8, <1>9, <1>10, <1>11, <1>12,
     <1>13, <1>14 DEF Next, Asks, Applies
-----------------------------------------------------------------------------
(* Objects are used in the order of their creation, and a new one is empty. *)
Made == 1..created
Unused ==
  /\ \A c \in Objects \ Made : Empty(c) /\ modes[c] = {} /\ limit[c] = 0
  /\ \A n \in Names : channels[n] \in Made \cup {0}
  /\ \A s \in Sessions : obj[s] \in Made \cup {0} /\ todo[s] \subseteq Made

(* What a session that ended still does, and where it may still be listed.  *)
Removal ==
  \A s \in Sessions :
    /\ s \in gone => pc[s] \in {"visit", "take", "drop", "idle"}
    /\ s \in gone /\ pc[s] = "idle" => todo[s] = {}
    /\ s \in gone /\ pc[s] = "take" => victim[s] = s
    /\ s \notin gone => pc[s] # "visit"
Listed ==
  \A s \in gone, c \in Mapped : Has(c, s) =>
    c \in todo[s] \/ (pc[s] = "take" /\ obj[s] = c)

(* An object nobody entered yet: its modes cannot have been set.            *)
Fresh(c) ==
  /\ modes[c] = {} /\ limit[c] = 0
  /\ \A s \in Sessions : obj[s] = c => pc[s] # "apply"
Joining(c) == \E s \in Sessions : obj[s] = c /\ pc[s] \in JoinLabels
Dropping(n) == \E s \in Sessions : name[s] = n /\ pc[s] = "drop"
EmptyIsFresh ==
  \A n \in Names : channels[n] # 0 /\ Empty(channels[n]) =>
    Dropping(n) \/ (Fresh(channels[n]) /\ Joining(channels[n]))

(* dispatchMu.                                                              *)
Locked ==
  /\ excl # None => shared = {}
  /\ \A s \in Sessions :
       IF pc[s] = "idle" THEN excl # s /\ s \notin shared
       ELSE IF s \in labels /\ s \notin gone THEN excl = s ELSE s \in shared

(* What holds when each command runs alone: the object a command works on   *)
(* is the one its name maps to, whom a handler is about to remove is there  *)
(* and was removed with authority, a channel about to be dropped is empty,  *)
(* and there is room for a session about to enter.                          *)
Attached ==
  \A s \in Sessions \ gone : pc[s] # "idle" => channels[name[s]] = obj[s]
Taking ==
  \A s \in Sessions : pc[s] = "take" => Has(obj[s], victim[s])
Authority ==
  \A s \in Sessions : pc[s] \in {"has", "take"} =>
    victim[s] = s \/ members[obj[s]][s] = "@"
DropsEmpty ==
  \A s \in Sessions, c \in Objects : pc[s] = "drop" /\ called[c] = name[s] => Empty(c)
Room ==
  \A s \in Sessions : pc[s] \in {"member", "first", "add"} => ~Full(obj[s])
Alone ==
  Serial => /\ NoOrphan /\ FounderIsFirst
            /\ Attached /\ Taking /\ Authority /\ DropsEmpty /\ Room

IInv ==
  /\ TypeOK
  /\ Unused
  /\ Named
  /\ Removal
  /\ Listed
  /\ EmptyIsFresh
  /\ Locked
  /\ Alone

-----------------------------------------------------------------------------
(* The types of single entries.                                             *)
Entries ==
  /\ \A t \in Sessions : /\ obj[t] \in Objects \cup {0} /\ name[t] \in Names
                         /\ victim[t] \in Sessions \cup {None}
                         /\ todo[t] \subseteq Objects /\ pc[t] \in Labels
  /\ \A n \in Names : channels[n] \in Objects \cup {0}
  /\ \A c \in Objects : called[c] \in Names /\ limit[c] \in 0..MaxLimit
(* They follow from the type invariant.                                     *)
LEMMA EntryTypes == TypeOK => Entries
  BY DEF TypeOK, Entries

(* The object made next is none of those made.                              *)
LEMMA NewObject == TypeOK => created + 1 \notin Made \cup {0}
  BY DEF TypeOK, Made

(* A handler knows the object it works on.                                  *)
Knows(t) ==
  /\ pc[t] \notin {"idle", "visit"} => obj[t] # 0 /\ called[obj[t]] = name[t]
  /\ pc[t] \in {"kickop", "has", "take"} => victim[t] \in Sessions

(* A quiet step changes neither the registry nor an object: a command       *)
(* begins with an object it found, or asks, or decides on a prefix; the     *)
(* removal of a session begins, visits a channel or ends.  What such a step *)
(* does to its own handler: where its objects come from,                    *)
Reaches(s) ==
  /\ obj'[s] \in {0, obj[s]} \cup Mapped \cup todo[s]
  /\ todo'[s] \subseteq todo[s] \cup Mapped
(* what a removal has still to do,                                          *)
ToDo(s, c) == c \in todo[s] \/ (pc[s] = "take" /\ obj[s] = c)
Retires(s) ==
  \/ s \notin gone /\ gone' = gone
  \/ s \notin gone /\ gone' = gone \cup {s} /\ todo'[s] = Mapped
  \/ /\ s \in gone /\ gone' = gone
     /\ \A c \in Objects : Has(c, s) /\ ToDo(s, c) => ToDo(s, c)'
(* that JOIN goes on unless the channel refuses, and MODE is for members,   *)
Enters(s) ==
  /\ pc[s] # "drop" /\ pc'[s] # "drop"
  /\ pc[s] \in JoinLabels =>
       \/ obj'[s] = obj[s] /\ pc'[s] \in JoinLabels
       \/ modes[obj[s]] # {} \/ limit[obj[s]] # 0 \/ ~Empty(obj[s])
  /\ pc'[s] = "apply" => obj'[s] = obj[s] /\ Has(obj[s], s)
(* and what a command that runs alone relies on.                            *)
Late == {"member", "first", "add"}
Relies(s) ==
  /\ s \notin gone' /\ pc'[s] # "idle" =>
       \/ channels[name'[s]] = obj'[s]
       \/ pc[s] # "idle" /\ obj'[s] = obj[s] /\ name'[s] = name[s]
  /\ pc'[s] = "take" => Has(obj'[s], victim'[s])
  /\ pc'[s] \in {"has", "take"} =>
       \/ victim'[s] = s \/ members[obj'[s]][s] = "@"
       \/ pc[s] = "has" /\ obj'[s] = obj[s] /\ victim'[s] = victim[s]
  /\ pc'[s] \in Late =>
       /\ obj'[s] = obj[s]
       /\ pc[s] \in Late \/ ~Full(obj[s])
  /\ pc'[s] = "add" /\ prefix'[s] = "@" => Empty(obj'[s])
Quiet(s) ==
  /\ Others(s) /\ UNCHANGED <<labels, chanVars>>
  /\ Reaches(s) /\ Knows(s)' /\ Retires(s) /\ Enters(s) /\ Relies(s)

(* The steps that are not quiet: JOIN makes an object, and those that       *)
(* change the members, the modes or the registry.                           *)
Creates(s) == \E n \in Names : JoinEffect(s, n) /\ Makes(s, n)
Step(s) ==
  \/ Quiet(s) \/ Creates(s) \/ AddEffect(s)
  \/ ApplyEffect(s) \/ RemoveEffect(s) \/ DropEffect(s)

(* Asking is quiet.                                                         *)
LEMMA AskQuiet ==
  ASSUME Entries, Named, Removal, NEW s \in Sessions, AskEffect(s), Learned(s)
  PROVE  Quiet(s)
<1>1. Knows(s)'
  BY Zenon DEF AskEffect, Ended, Kept, Follows, Asking, Entries, Knows, Named
<1>2. Reaches(s)
  BY Zenon DEF AskEffect, Ended, Kept, Reaches
<1>3. Retires(s)
  BY Zenon DEF AskEffect, Asking, Removal, Retires
<1>4. Enters(s)
  BY Zenon DEF AskEffect, Asking, Ended, Kept, Follows, Learned, JoinLabels, Enters
<1>5. Relies(s)
  BY Zenon DEF AskEffect, Ended, Kept, Follows, Asking, Learned, Late, Relies
<1> QED
  BY Zenon, <1>1, <1>2, <1>3, <1>4, <1>5 DEF AskEffect, Quiet, chanVars

(* A command that begins with an object it found is quiet.                  *)
LEMMA FindQuiet ==
  ASSUME Entries, Named, NEW s \in Sessions, NEW n \in Names, NEW l,
         Began(s, n, l), Others(s), channels[n] # 0, obj'[s] = channels[n],
         UNCHANGED <<channels, called, created>>,
         \/ l \in {"key", "modeop"}
         \/ l = "has" /\ victim'[s] = s
         \/ l = "kickop" /\ victim'[s] \in Sessions
  PROVE  Quiet(s)
<1>1. Knows(s)' /\ Reaches(s)
  BY Zenon DEF Began, Knows, Named, Reaches, Mapped
<1>2. Retires(s) /\ Enters(s)
  BY Zenon DEF Began, Retires, Enters, JoinLabels
<1>3. Relies(s)
  BY Zenon DEF Began, Relies, Late
<1> QED
  BY Zenon, <1>1, <1>2, <1>3 DEF Began, Quiet, chanVars

(* So is the decision on the prefix.                                        *)
LEMMA FirstQuiet ==
  ASSUME Entries, Named, Removal, NEW s \in Sessions, FirstEffect(s)
  PROVE  Quiet(s)
<1>1. Knows(s)' /\ Reaches(s) /\ Retires(s)
  BY Zenon DEF FirstEffect, Knows, Named, Reaches, Removal, Retires
<1>2. Enters(s) /\ Relies(s)
  BY Zenon DEF FirstEffect, Enters, Relies, JoinLabels, Late
<1> QED
  BY Zenon, <1>1, <1>2 DEF FirstEffect, Quiet, chanVars

(* So is the removal of a session between two channels.                     *)
LEMMA RemovalQuiet ==
  ASSUME Entries, Named, Removal, NEW s \in Sessions,
         LeaveEffect(s) \/ EndEffect(s) \/ \E c \in Objects : VisitEffect(s, c)
  PROVE  Quiet(s)
<1>1. CASE LeaveEffect(s)
  BY Zenon, <1>1 DEF LeaveEffect, Quiet, chanVars, Knows, Reaches, Retires, Enters, Relies,
     JoinLabels, Late
<1>2. CASE EndEffect(s)
  BY Zenon, <1>2 DEF EndEffect, Ended, Quiet, chanVars, Knows, Reaches, Removal, Retires,
     ToDo, Enters, Relies, JoinLabels, Late
<1>3. ASSUME NEW c \in Objects, VisitEffect(s, c) PROVE Quiet(s)
  <2>1. s \in gone
    BY Zenon, <1>3 DEF VisitEffect, Removal
  <2>2. Knows(s)' /\ Reaches(s)
    BY Zenon, <1>3, NoZero DEF VisitEffect, Knows, Reaches, chanVars
  <2>3. Retires(s) /\ Enters(s)
    BY Zenon, <1>3, <2>1 DEF VisitEffect, Retires, ToDo, Enters, JoinLabels, Has
  <2>4. Relies(s)
    BY Zenon, <1>3, <2>1 DEF VisitEffect, Relies, Late
  <2> QED
    BY Zenon, <1>3, <2>2, <2>3, <2>4 DEF VisitEffect, Quiet
<1> QED
  BY <1>1, <1>2, <1>3

(* Every step is quiet or one of the others.                                *)
LEMMA Steps ==
  ASSUME Entries, Named, Removal, NEW s \in Sessions, Effect(s)
  PROVE  Step(s)
<1>1. ASSUME NEW n \in Names, JoinEffect(s, n) PROVE Step(s)
  BY Zenon, <1>1, FindQuiet DEF JoinEffect, Step, Creates
<1>2. ASSUME NEW n \in Names, NEW t, NEW l, FindEffect(s, n, t, l) PROVE Step(s)
  BY Zenon, <1>2, FindQuiet DEF FindEffect, Step
<1> QED
  BY <1>1, <1>2, AskQuiet, FirstQuiet, RemovalQuiet DEF Effect, Step

(* The handlers of the others still know their objects after a step that    *)
(* names no object anew, and the registry still files what it did not lose. *)
LEMMA NamesKept ==
  ASSUME Entries, Named, NEW s \in Sessions, Others(s), UNCHANGED called,
         \A n \in Names : channels'[n] \in {channels[n], 0},
         Knows(s)'
  PROVE  Named'
<1>1. \A t \in Sessions : Knows(t)'
  BY DEF Named, Knows, Others
<1>2. \A n \in Names : channels'[n] # 0 => called'[channels'[n]] = n
  BY Zenon DEF Named
<1> QED
  BY <1>1, <1>2 DEF Named, Knows

(* A handler keeps the name of its object, and an object keeps its name.    *)
LEMMA NamedStep ==
  ASSUME TypeOK, Entries, Unused, Named, NEW s \in Sessions, Step(s)
  PROVE  Named'
<1>1. CASE Quiet(s)
  BY <1>1, NamesKept DEF Quiet, chanVars
<1>2. CASE Creates(s)
  <2>1. PICK n \in Names : JoinEffect(s, n) /\ Makes(s, n)
    BY <1>2 DEF Creates
  <2> PICK c : c = created + 1
    OBVIOUS
  <2>2. /\ c \in Objects /\ obj'[s] = c /\ channels'[n] = c /\ called'[c] = n
        /\ \A m \in Names \ {n} : channels'[m] = channels[m]
        /\ \A d \in Objects : d # c => called'[d] = called[d]
        /\ pc'[s] = "key" /\ name'[s] = n /\ Others(s)
    BY Zenon, <2>1 DEF Makes, JoinEffect, Began
  <2>3. /\ \A t \in Sessions : obj[t] # c
        /\ \A m \in Names : channels[m] # c
    BY NewObject DEF Unused
  <2>4. ASSUME NEW t \in Sessions PROVE Knows(t)'
    <3>1. Knows(t)
      BY Zenon DEF Knows, Named
    <3>2. CASE t = s
      BY Zenon, <2>2, <3>2, NoZero DEF Knows
    <3>3. CASE t # s
      <4>1. /\ obj[t] \in Objects \cup {0} /\ obj[t] # c
            /\ pc'[t] = pc[t] /\ name'[t] = name[t] /\ obj'[t] = obj[t] /\ victim'[t] = victim[t]
        BY Zenon, <2>2, <2>3, <3>3 DEF Others, Entries
      <4>2. QED
        BY Zenon, <2>2, <3>1, <4>1 DEF Knows
    <3> QED
      BY <3>2, <3>3
  <2>5. \A m \in Names : channels'[m] # 0 => called'[channels'[m]] = m
    <3>1. \A m \in Names : channels[m] \in Objects \cup {0}
      BY Zenon DEF Entries
    <3>2. \A m \in Names : channels[m] # 0 => called[channels[m]] = m
      BY Zenon DEF Named
    <3> QED
      BY <2>2, <2>3, <3>1, <3>2
  <2> QED
    BY Zenon, <2>4, <2>5 DEF Knows, Named
<1>3. CASE AddEffect(s)
  BY Zenon, <1>3, NamesKept DEF AddEffect, Ended, Knows
<1>4. CASE ApplyEffect(s)
  BY Zenon, <1>4 DEF ApplyEffect, local, Named
<1>5. CASE RemoveEffect(s)
  <2>1. Knows(s)'
    BY Zenon, <1>5 DEF RemoveEffect, Ended, Kept, Knows, Named
  <2> QED
    BY Zenon, <1>5, <2>1, NamesKept DEF RemoveEffect
<1>6. CASE DropEffect(s)
  <2>1. Knows(s)'
    BY Zenon, <1>6 DEF DropEffect, Ended, Kept, Knows
  <2> QED
    BY Zenon, <1>6, <2>1, NamesKept DEF DropEffect
<1> QED
  BY <1>1, <1>2, <1>3, <1>4, <1>5, <1>6 DEF Step

(* A session that ended only ever goes on with its removal, and ends it     *)
(* with nothing left to visit.                                              *)
LEMMA RemovalStep ==
  ASSUME Removal, NEW s \in Sessions, Effect(s)
  PROVE  Removal'
<1>1. CASE \E n \in Names : JoinEffect(s, n)
  BY Zenon, <1>1 DEF Others, JoinEffect, Began, Removal
<1>2. CASE \E n \in Names : \E t, l : FindEffect(s, n, t, l)
  BY Zenon, <1>2 DEF Others, FindEffect, Began, Removal
<1>3. CASE AskEffect(s) /\ Learned(s)
  BY Zenon, <1>3 DEF Others, AskEffect, Ended, Kept, Follows, Asking, Removal
<1>4. CASE FirstEffect(s) \/ AddEffect(s)
  BY Zenon, <1>4 DEF Others, FirstEffect, AddEffect, Ended, Removal
<1>5. CASE ApplyEffect(s)
  BY Zenon, <1>5 DEF ApplyEffect, local, Removal
<1>6. CASE RemoveEffect(s)
  BY Zenon, <1>6 DEF Others, RemoveEffect, Ended, Kept, Removal
<1>7. CASE DropEffect(s)
  BY Zenon, <1>7 DEF Others, DropEffect, Ended, Kept, Removal
<1>8. CASE LeaveEffect(s)
  BY Zenon, <1>8 DEF Others, LeaveEffect, Removal
<1>9. CASE EndEffect(s)
  BY Zenon, <1>9 DEF Others, EndEffect, Ended, Removal
<1>10. CASE \E c \in Objects : VisitEffect(s, c)
  BY Zenon, <1>10 DEF Others, VisitEffect, Removal
<1> QED
  BY <1>1, <1>2, <1>3, <1>4, <1>5, <1>6, <1>7, <1>8, <1>9, <1>10 DEF Effect

(* A handler that goes on keeps the lock, and one that returns gives it up. *)
LEMMA LockKept ==
  ASSUME TypeOK, Locked, NEW s \in Sessions, Others(s), UNCHANGED <<labels, gone>>,
         pc[s] # "idle", Ended(s) \/ (UNCHANGED lock /\ pc'[s] # "idle")
  PROVE  Locked'
<1>1. CASE Ended(s)
  BY Zenon, <1>1, ChannelsAssumption DEF Ended, Others, Locked
<1>2. CASE UNCHANGED lock /\ pc'[s] # "idle"
  BY Zenon, <1>2 DEF Others, Locked, lock
<1> QED
  BY Zenon, <1>1, <1>2

(* dispatchMu is held by the handlers that run, and by nobody beside a      *)
(* handler that holds it exclusively.                                       *)
LEMMA LockedStep ==
  ASSUME TypeOK, Removal, Locked, NEW s \in Sessions, Effect(s)
  PROVE  Locked'
<1>1. ASSUME NEW n, NEW l, Began(s, n, l), Others(s), l # "idle" PROVE Locked'
  <2>1. CASE s \in labels
    BY Zenon, <1>1, <2>1, ChannelsAssumption DEF Others, Began, Locked
  <2>2. CASE s \notin labels
    <3>1. /\ excl = None /\ excl' = None /\ shared' = shared \cup {s}
          /\ labels' = labels /\ gone' = gone /\ pc'[s] # "idle"
          /\ \A t \in Sessions \ {s} : pc'[t] = pc[t]
      BY Zenon, <1>1, <2>2 DEF Others, Began
    <3>2. ASSUME NEW t \in Sessions \ {s}
          PROVE  IF pc'[t] = "idle" THEN t \notin shared'
                 ELSE ~(t \in labels /\ t \notin gone) /\ t \in shared'
      BY <3>1, ChannelsAssumption DEF Locked
    <3> QED
      BY <2>2, <3>1, <3>2, ChannelsAssumption DEF Locked
  <2> QED
    BY <2>1, <2>2
<1>2. CASE \E n \in Names : JoinEffect(s, n)
  BY Zenon, <1>1, <1>2 DEF JoinEffect
<1>3. CASE \E n \in Names : \E t, l : FindEffect(s, n, t, l)
  BY Zenon, <1>1, <1>3 DEF FindEffect
<1>4. CASE AskEffect(s) /\ Learned(s)
  BY Zenon, <1>4, LockKept DEF AskEffect, Follows, Asking, Kept
<1>5. CASE AddEffect(s) \/ EndEffect(s)
  BY Zenon, <1>5, LockKept DEF AddEffect, EndEffect
<1>6. CASE FirstEffect(s)
  BY Zenon, <1>6, LockKept DEF FirstEffect, lock
<1>7. CASE ApplyEffect(s)
  BY Zenon, <1>7 DEF ApplyEffect, Locked, lock
<1>8. CASE RemoveEffect(s)
  BY Zenon, <1>8, LockKept DEF RemoveEffect, Kept
<1>9. CASE DropEffect(s)
  BY Zenon, <1>9, LockKept DEF DropEffect, Kept
<1>10. CASE LeaveEffect(s)
  BY Zenon, <1>10, ChannelsAssumption DEF Others, LeaveEffect, Locked
<1>11. CASE \E c \in Objects : VisitEffect(s, c)
  BY Zenon, <1>11, LockKept DEF VisitEffect
<1> QED
  BY Zenon, <1>2, <1>3, <1>4, <1>5, <1>6, <1>7, <1>8, <1>9, <1>10, <1>11 DEF Effect
=============================================================================
