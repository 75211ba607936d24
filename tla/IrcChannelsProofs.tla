-------------------------- MODULE IrcChannelsProofs --------------------------
(* Safety of the channels for any number of sessions, channels, objects and *)
(* commands: what the interleaved handlers leave of the registry of         *)
(* channels, and that commands which run alone act on what they read.       *)
EXTENDS IrcChannelsSteps, FiniteSetTheorems

(* An object nobody made is blank.                                          *)
Blank(c) == Empty(c) /\ modes[c] = {} /\ limit[c] = 0
(* A step that makes no object keeps the unmade ones blank.                 *)
LEMMA UnusedKept ==
  ASSUME Unused, NEW s \in Sessions, Others(s), UNCHANGED created,
         \A c \in Objects \ Made : Blank(c) => Blank(c)',
         \A n \in Names : channels'[n] \in {channels[n], 0},
         obj'[s] \in Made \cup {0}, todo'[s] \subseteq Made
  PROVE  Unused'
<1>1. Made' = Made
  BY DEF Made
<1>2. \A t \in Sessions : obj'[t] \in Made \cup {0} /\ todo'[t] \subseteq Made
  BY DEF Unused, Others
<1>3. \A c \in Objects \ Made : Blank(c)'
  BY DEF Unused, Blank
<1> QED
  BY <1>1, <1>2, <1>3 DEF Unused, Blank

(* No object is used before it is made.                                     *)
LEMMA UnusedStep ==
  ASSUME TypeOK, Entries, Unused, NEW s \in Sessions, Step(s)
  PROVE  Unused'
<1>1. ASSUME UNCHANGED <<members, modes, limit>>
      PROVE  \A c \in Objects : Blank(c) => Blank(c)'
  BY <1>1 DEF Blank, Empty, Has
<1>2. CASE Quiet(s)
  <2>1. obj'[s] \in Made \cup {0} /\ todo'[s] \subseteq Made
    BY <1>2 DEF Quiet, Reaches, Unused, Mapped
  <2> QED
    BY <1>1, <1>2, <2>1, UnusedKept DEF Quiet, chanVars
<1>3. CASE Creates(s)
  <2>1. PICK n \in Names : JoinEffect(s, n) /\ Makes(s, n)
    BY <1>3 DEF Creates
  <2>2. Others(s) /\ todo'[s] = todo[s] /\ UNCHANGED <<members, modes, limit>>
    BY <2>1 DEF JoinEffect, Began
  <2>3. Made' = Made \cup {created + 1}
    <3>1. created \in Nat /\ created' = created + 1
      BY SMTT(20), <2>1 DEF Makes, TypeOK
    <3> QED
      BY <3>1 DEF Made
  <2>4. \A c \in Objects \ Made' : Blank(c)'
    BY <1>1, <2>2, <2>3 DEF Unused, Blank
  <2>5. \A m \in Names : channels'[m] \in Made' \cup {0}
    BY <2>1, <2>3 DEF Makes, Unused
  <2>6. \A t \in Sessions : obj'[t] \in Made' \cup {0} /\ todo'[t] \subseteq Made'
    BY <2>1, <2>2, <2>3 DEF Makes, Unused, Others
  <2> QED
    BY <2>4, <2>5, <2>6 DEF Unused, Blank
<1>4. CASE AddEffect(s) \/ RemoveEffect(s)
  <2>1. obj[s] \in Made
    BY Zenon, <1>4, NoZero DEF AddEffect, RemoveEffect, Unused
  <2>2. \A c \in Objects \ Made : Blank(c) => Blank(c)'
    BY <1>4, <2>1 DEF AddEffect, RemoveEffect, Blank, Empty, Has, Marked
  <2>3. obj'[s] \in Made \cup {0} /\ todo'[s] \subseteq Made
    BY Zenon, <1>4 DEF AddEffect, RemoveEffect, Unused, Ended, Kept
  <2> QED
    BY <1>4, <2>2, <2>3, UnusedKept DEF AddEffect, RemoveEffect
<1>5. CASE ApplyEffect(s)
  <2>1. obj[s] \in Made /\ Others(s)
    BY Zenon, <1>5, NoZero DEF ApplyEffect, Unused, Others, local
  <2>2. \A c \in Objects \ Made : Blank(c) => Blank(c)'
    BY Zenon, <1>5, <2>1 DEF ApplyEffect, Blank, Empty, Has, Marked
  <2> QED
    BY Zenon, <1>5, <2>1, <2>2, UnusedKept DEF ApplyEffect, local, Unused
<1>6. CASE DropEffect(s)
  <2>1. obj'[s] \in Made \cup {0} /\ todo'[s] \subseteq Made
    BY Zenon, <1>6 DEF DropEffect, Unused, Ended, Kept
  <2> QED
    BY <1>1, <1>6, <2>1, UnusedKept DEF DropEffect
<1> QED
  BY <1>2, <1>3, <1>4, <1>5, <1>6 DEF Step

(* Whom the registry lists, name by name.                                   *)
Lists(t, n) ==
  channels[n] # 0 /\ Has(channels[n], t) => ToDo(t, channels[n])
(* Listed is the conjunction of those parts.                                *)
LEMMA ListedParts == Listed <=> \A t \in gone, n \in Names : Lists(t, n)
  BY DEF Listed, Lists, Mapped, ToDo

(* A session that ended stays listed only where its removal has still to    *)
(* go: nobody enters it anew, and its own step leaves nothing behind.       *)
LEMMA ListedKept ==
  ASSUME Listed, Entries, gone \subseteq Sessions, NEW s \in Sessions,
         Others(s), UNCHANGED gone,
         \A n \in Names : channels'[n] \in {channels[n], 0},
         \A t \in gone, c \in Objects : Has(c, t)' => Has(c, t),
         s \in gone => \A c \in Objects : Has(c, s)' /\ ToDo(s, c) => ToDo(s, c)'
  PROVE  Listed'
<1>1. ASSUME NEW t \in gone, NEW n \in Names PROVE Lists(t, n)'
  <2>1. Lists(t, n)
    BY ListedParts
  <2>2. CASE t # s
    BY <2>1, <2>2, <1>1 DEF Lists, ToDo, Others, Entries
  <2>3. CASE t = s
    BY <2>1, <2>3, <1>1 DEF Lists, Entries, ToDo
  <2> QED
    BY <2>2, <2>3
<1> QED
  BY SMTT(20), <1>1 DEF Listed, Lists, Mapped, ToDo

(* A session that ended is only listed where its removal has still to go.   *)
LEMMA ListedStep ==
  ASSUME TypeOK, Entries, Unused, Removal, Listed, NEW s \in Sessions, Step(s)
  PROVE  Listed'
<1>0. gone \subseteq Sessions
  BY DEF TypeOK
<1>1. CASE Quiet(s) /\ gone' = gone
  <2>1. Others(s) /\ UNCHANGED <<members, channels>>
    BY Zenon, <1>1 DEF Quiet, chanVars
  <2>2. s \in gone => \A c \in Objects : Has(c, s)' /\ ToDo(s, c) => ToDo(s, c)'
    BY <1>1, <2>1 DEF Quiet, Retires, Has
  <2> QED
    BY <1>0, <1>1, <2>1, <2>2, ListedKept DEF Has
<1>2. CASE Quiet(s) /\ gone' # gone
  <2>1. /\ Others(s) /\ gone' = gone \cup {s} /\ UNCHANGED <<members, channels>>
        /\ todo'[s] = Mapped
    BY <1>2 DEF Quiet, Retires, chanVars
  <2>2. ASSUME NEW t \in gone', NEW n \in Names PROVE Lists(t, n)'
    <3>1. CASE t = s
      BY <2>1, <3>1 DEF Lists, Mapped, ToDo
    <3>2. CASE t # s
      BY <2>1, <2>2, <1>0, <3>2, ListedParts DEF Lists, ToDo, Others, Has
    <3> QED
      BY <3>1, <3>2
  <2> QED
    BY <2>2 DEF Listed, Lists, Mapped, ToDo
<1>3. CASE Creates(s)
  <2>1. PICK n \in Names : JoinEffect(s, n) /\ Makes(s, n)
    BY <1>3 DEF Creates
  <2>2. /\ Others(s) /\ UNCHANGED <<gone, members>> /\ s \notin gone
    BY <2>1 DEF JoinEffect, Began
  <2>3. ASSUME NEW t \in gone, NEW m \in Names PROVE Lists(t, m)'
    <3>1. CASE m = n
      <4>1. created + 1 \in Objects \ Made /\ channels'[m] = created + 1
        BY <2>1, <3>1, NewObject DEF Makes
      <4>2. ~Has(channels[m], t)'
        BY <4>1, <1>0, <2>2, <2>3 DEF Unused, Empty, Has
      <4> QED
        BY <4>2 DEF Lists
    <3>2. CASE m # n
      <4>1. Lists(t, m) /\ channels'[m] = channels[m] /\ t \in Sessions \ {s}
        BY Zenon, <2>1, <2>2, <2>3, <1>0, <3>2, ListedParts DEF Makes
      <4> QED
        BY <2>2, <4>1 DEF Lists, ToDo, Has, Others
    <3> QED
      BY <3>1, <3>2
  <2> QED
    BY <2>2, <2>3 DEF Listed, Lists, Mapped, ToDo
<1>4. CASE AddEffect(s)
  <2>1. s \notin gone
    BY Zenon, <1>4 DEF AddEffect, Removal
  <2>2. \A t \in gone, c \in Objects : Has(c, t)' => Has(c, t)
    BY Zenon, <1>4, <1>0, <2>1 DEF AddEffect, Has, Marked
  <2> QED
    BY Zenon, <1>0, <1>4, <2>1, <2>2, ListedKept DEF AddEffect
<1>5. CASE ApplyEffect(s)
  <2>1. s \notin gone /\ Others(s)
    BY Zenon, <1>5 DEF ApplyEffect, Removal, Others, local
  <2>2. \A t \in gone, c \in Objects : Has(c, t)' => Has(c, t)
    BY Zenon, <1>5, <1>0 DEF ApplyEffect, Has, Marked
  <2> QED
    BY Zenon, <1>0, <1>5, <2>1, <2>2, ListedKept DEF ApplyEffect
<1>6. CASE RemoveEffect(s)
  <2>1. \A t \in gone, c \in Objects : Has(c, t)' => Has(c, t)
    BY Zenon, <1>6, <1>0 DEF RemoveEffect, Has, Marked
  <2>2. s \in gone => \A c \in Objects : Has(c, s)' /\ ToDo(s, c) => ToDo(s, c)'
    BY Zenon, <1>6 DEF RemoveEffect, Removal, Marked, Has, ToDo
  <2> QED
    BY Zenon, <1>0, <1>6, <2>1, <2>2, ListedKept DEF RemoveEffect
<1>7. CASE DropEffect(s)
  <2>1. s \in gone => \A c \in Objects : Has(c, s)' /\ ToDo(s, c) => ToDo(s, c)'
    BY Zenon, <1>7 DEF DropEffect, ToDo
  <2> QED
    BY <1>0, <1>7, <2>1, ListedKept DEF DropEffect, Has
<1> QED
  BY <1>1, <1>2, <1>3, <1>4, <1>5, <1>6, <1>7 DEF Step

(* What EmptyIsFresh says of a name.                                        *)
Excused(n, o) == Dropping(n) \/ (Fresh(o) /\ Joining(o))
(* An empty channel of the registry stays fresh and about to be entered, or *)
(* about to be dropped, while the step of s keeps its own part of that.     *)
LEMMA FreshKept ==
  ASSUME NEW s \in Sessions, Others(s), NEW n \in Names, NEW o, Excused(n, o),
         name[s] = n /\ pc[s] = "drop" => name'[s] = n /\ pc'[s] = "drop",
         Fresh(o) /\ obj[s] = o /\ pc[s] \in JoinLabels =>
           obj'[s] = o /\ pc'[s] \in JoinLabels,
         Fresh(o) => ~(obj'[s] = o /\ pc'[s] = "apply"),
         Fresh(o) => modes'[o] = modes[o] /\ limit'[o] = limit[o]
  PROVE  Excused(n, o)'
<1>1. CASE Dropping(n)
  BY Zenon, <1>1 DEF Dropping, Others, Excused
<1>2. CASE Fresh(o) /\ Joining(o)
  <2>1. Joining(o)'
    BY <1>2 DEF Joining, Others
  <2>2. Fresh(o)'
    BY <1>2 DEF Fresh, Others
  <2> QED
    BY Zenon, <2>1, <2>2 DEF Excused
<1> QED
  BY Zenon, <1>1, <1>2 DEF Excused

(* A channel without members is being entered for the first time, or it is  *)
(* about to be dropped: the handler that emptied it drops it next, and a    *)
(* fresh channel cannot refuse the one that made it.                        *)
LEMMA EmptyStep ==
  ASSUME TypeOK, Entries, Unused, Named, EmptyIsFresh, NEW s \in Sessions, Step(s)
  PROVE  EmptyIsFresh'
<1> SUFFICES ASSUME NEW m \in Names, NEW o \in Objects, channels'[m] = o, Empty(o)'
             PROVE  Excused(m, o)'
  <2>1. \A m \in Names : channels'[m] # 0 => channels'[m] \in Objects
    BY Zenon DEF Step, Quiet, chanVars, Creates, Makes, AddEffect, ApplyEffect,
       RemoveEffect, DropEffect, Entries
  <2>2. EmptyIsFresh' <=> \A m \in Names : channels'[m] # 0 /\ Empty(channels[m])' =>
          Excused(m, channels[m])'
    BY Zenon DEF EmptyIsFresh, Excused
  <2>3. ASSUME NEW m \in Names, NEW o, o = channels'[m]
        PROVE  /\ Empty(channels[m])' <=> Empty(o)'
               /\ Excused(m, channels[m])' <=> Excused(m, o)'
    BY Zenon, <2>3 DEF Empty, Has, Excused, Fresh, Joining
  <2> QED
    BY <2>1, <2>2, <2>3
<1>1. ASSUME Empty(o), channels[m] = o PROVE Excused(m, o)
  BY <1>1, NoZero DEF EmptyIsFresh, Excused
<1>2. ASSUME UNCHANGED members PROVE Empty(o)
  BY Zenon, <1>2 DEF Empty, Has
<1>3. CASE Quiet(s)
  <2>1. Empty(o) /\ Excused(m, o)
    BY <1>1, <1>2, <1>3 DEF Quiet, chanVars
  <2> QED
    BY Zenon, <1>3, <2>1, FreshKept DEF Quiet, Enters, chanVars, Fresh, Empty
<1>4. CASE Creates(s)
  <2>1. PICK n \in Names : JoinEffect(s, n) /\ Makes(s, n)
    BY Zenon, <1>4 DEF Creates
  <2>2. /\ Others(s) /\ UNCHANGED <<members, modes, limit>> /\ pc[s] = "idle"
        /\ pc'[s] = "key"
    BY <2>1 DEF JoinEffect, Began
  <2>3. CASE m # n
    <3>1. channels[m] = o
      BY Zenon, <2>1, <2>3 DEF Makes
    <3> QED
      BY <1>1, <1>2, <2>2, <3>1, FreshKept DEF JoinLabels
  <2>4. CASE m = n
    <3>1. obj'[s] = o /\ o \notin Made
      BY <2>1, <2>4, NewObject DEF Makes
    <3>2. modes'[o] = {} /\ limit'[o] = 0 /\ \A t \in Sessions : obj[t] # o
      BY Zenon, <2>2, <3>1, NoZero DEF Unused
    <3> QED
      BY <2>2, <3>1, <3>2 DEF Excused, Fresh, Joining, Others, JoinLabels
  <2> QED
    BY <2>3, <2>4
<1>5. CASE AddEffect(s)
  <2>1. members'[obj[s]][s] # "out"
    BY Zenon, <1>5 DEF AddEffect, Marked, Prefixes
  <2>2. o # obj[s] /\ Empty(o)
    BY Zenon, <1>5, <2>1 DEF AddEffect, Marked, Empty, Has
  <2> QED
    BY Zenon, <1>1, <1>5, <2>2, FreshKept DEF AddEffect, Ended
<1>6. CASE ApplyEffect(s)
  <2>1. /\ Others(s) /\ pc[s] = "apply" /\ obj[s] \in Objects
        /\ UNCHANGED <<channels, pc, obj, name>>
    BY Zenon, <1>6 DEF ApplyEffect, Others, local
  <2>2. Empty(o)
    <3>1. ASSUME NEW t \in Sessions, NEW p \in Prefixes, Marked(obj[s], t, p)
          PROVE  Empty(o)
      <4>1. members'[obj[s]][t] # "out"
        BY Zenon, <3>1 DEF Marked, Prefixes
      <4> QED
        BY <2>1, <3>1, <4>1 DEF Marked, Empty, Has
    <3> QED
      BY Zenon, <1>2, <1>6, <3>1 DEF ApplyEffect
  <2>3. Fresh(o) => o # obj[s]
    BY <2>1 DEF Fresh
  <2>4. Fresh(o) => modes'[o] = modes[o] /\ limit'[o] = limit[o]
    BY <1>6, <2>3 DEF ApplyEffect
  <2> QED
    BY <1>1, <2>1, <2>2, <2>3, <2>4, FreshKept DEF JoinLabels
<1>7. CASE RemoveEffect(s)
  <2>1. /\ Others(s) /\ pc[s] = "take" /\ UNCHANGED <<channels, modes, limit>>
        /\ name'[s] = name[s] /\ pc'[s] \in {"drop", "visit", "idle"}
    BY Zenon, <1>7 DEF RemoveEffect, Kept, Ended
  <2>2. CASE Empty(o)
    BY Zenon, <1>1, <2>1, <2>2, FreshKept DEF JoinLabels
  <2>3. CASE ~Empty(o)
    <3>1. o = obj[s]
      BY Zenon, <1>7, <2>3 DEF RemoveEffect, Marked, Empty, Has
    <3>2. pc'[s] = "drop"
      BY Zenon, <1>7, <3>1 DEF RemoveEffect, Marked, Empty, Has, Kept
    <3>3. called[o] = m /\ called[obj[s]] = name[s]
      BY Zenon, <2>1, NoZero DEF Named
    <3> QED
      BY Zenon, <2>1, <3>1, <3>2, <3>3 DEF Excused, Dropping
  <2> QED
    BY <2>2, <2>3
<1>8. CASE DropEffect(s)
  <2>1. /\ Others(s) /\ UNCHANGED <<members, modes, limit>> /\ pc[s] = "drop"
        /\ pc'[s] \in {"visit", "idle"} /\ m # name[s] /\ channels[m] = o
    BY Zenon, <1>8, NoZero DEF DropEffect, Kept, Ended
  <2> QED
    BY Zenon, <1>1, <1>2, <2>1, FreshKept DEF JoinLabels
<1> QED
  BY <1>3, <1>4, <1>5, <1>6, <1>7, <1>8 DEF Step

-----------------------------------------------------------------------------
(* When every command carries a label, a command that runs keeps all others *)
(* from running: a step beside another running handler belongs to the       *)
(* removal of a session, as does that handler.                              *)
LEMMA SoloStep ==
  ASSUME Locked, Serial, NEW s \in Sessions, Effect(s),
         NEW t \in Sessions \ {s}, pc[t] # "idle"
  PROVE  t \in gone /\ (LeaveEffect(s) \/ (s \in gone /\ pc[s] # "idle"))
<1>1. \A u \in Sessions : pc[u] # "idle" =>
        IF u \in gone THEN u \in shared ELSE excl = u /\ shared = {}
  BY ChannelsAssumption DEF Locked, Serial
<1>2. ASSUME NEW n, NEW l, Began(s, n, l) PROVE FALSE
  BY <1>1, <1>2, ChannelsAssumption DEF Began, Serial
<1>3. CASE LeaveEffect(s)
  BY <1>1, <1>3, ChannelsAssumption DEF LeaveEffect
<1>4. CASE pc[s] # "idle"
  BY <1>1, <1>4
<1>5. \A n, u, l : ~JoinEffect(s, n) /\ ~FindEffect(s, n, u, l)
  BY <1>2 DEF JoinEffect, FindEffect
<1>6. ASSUME AskEffect(s) \/ \E c \in Objects : VisitEffect(s, c)
      PROVE  pc[s] # "idle"
  BY Zenon, <1>6 DEF AskEffect, Asking, VisitEffect
<1>7. ASSUME FirstEffect(s) \/ AddEffect(s) \/ ApplyEffect(s) \/ RemoveEffect(s)
             \/ DropEffect(s) \/ EndEffect(s)
      PROVE  pc[s] # "idle"
  BY Zenon, <1>7 DEF FirstEffect, AddEffect, ApplyEffect, RemoveEffect, DropEffect, EndEffect
<1> QED
  BY <1>3, <1>4, <1>5, <1>6, <1>7 DEF Effect

(* What a step of s leaves of the handlers of the others, and of the        *)
(* labels.                                                                  *)
LEMMA StepFrame ==
  ASSUME NEW s \in Sessions, Step(s)
  PROVE  Others(s) /\ UNCHANGED labels /\ gone \subseteq gone'
<1>1. CASE Quiet(s)
  BY <1>1 DEF Quiet, Retires
<1>2. CASE Creates(s)
  BY <1>2 DEF Creates, JoinEffect, Began
<1>3. CASE ApplyEffect(s)
  BY <1>3 DEF ApplyEffect, Others, local
<1>4. CASE AddEffect(s) \/ RemoveEffect(s) \/ DropEffect(s)
  BY Zenon, <1>4 DEF AddEffect, RemoveEffect, DropEffect
<1> QED
  BY <1>1, <1>2, <1>3, <1>4 DEF Step

(* So only the session that steps can be running a command afterwards.      *)
LEMMA OnlyMover ==
  ASSUME Locked, Serial, NEW s \in Sessions, Effect(s), Step(s),
         NEW t \in Sessions, t \notin gone', pc'[t] # "idle"
  PROVE  t = s
  BY Zenon, StepFrame, SoloStep DEF Others

(* What a command that runs alone relies on, for the session that steps.    *)
Alright(s) ==
  /\ s \notin gone /\ pc[s] # "idle" => channels[name[s]] = obj[s]
  /\ pc[s] = "take" => Has(obj[s], victim[s])
  /\ pc[s] \in {"has", "take"} => victim[s] = s \/ members[obj[s]][s] = "@"
  /\ pc[s] \in Late => ~Full(obj[s])
  /\ pc[s] = "add" /\ prefix[s] = "@" => Empty(obj[s])
(* The step keeps that.                                                     *)
LEMMA OwnStep ==
  ASSUME Removal, Attached, Authority, Room, NEW s \in Sessions, Step(s)
  PROVE  Alright(s)'
<1>1. CASE Quiet(s)
  <2>1. UNCHANGED <<channels, members, limit>> /\ Relies(s) /\ gone \subseteq gone'
    BY <1>1 DEF Quiet, chanVars, Retires
  <2>2. /\ s \notin gone' /\ pc'[s] # "idle" => channels'[name'[s]] = obj'[s]
        /\ pc'[s] = "take" => members'[obj'[s]][victim'[s]] # "out"
        /\ pc'[s] \in {"has", "take"} => victim'[s] = s \/ members'[obj'[s]][s] = "@"
    BY Zenon, <2>1 DEF Relies, Attached, Authority, Has
  <2>3. pc'[s] = "add" /\ prefix'[s] = "@" => Empty(obj[s])'
    BY Zenon, <2>1 DEF Relies, Empty, Has
  <2>4. pc'[s] \in Late => ~Full(obj[s])'
    <3>1. pc'[s] \in Late => Full(obj[s])' = Full(obj[s])
      BY Zenon, <2>1 DEF Relies, Full, Count, Has
    <3> QED
      BY Zenon, <2>1, <3>1 DEF Relies, Room, Late
  <2> QED
    BY Zenon, <2>2, <2>3, <2>4 DEF Alright, Has
<1>2. CASE Creates(s)
  BY Zenon, <1>2 DEF Creates, JoinEffect, Began, Makes, Alright, Late
<1>3. CASE AddEffect(s)
  BY Zenon, <1>3 DEF AddEffect, Ended, Alright, Late
<1>4. CASE ApplyEffect(s)
  <2>1. /\ pc'[s] = "apply" /\ UNCHANGED <<gone, channels, name, obj>>
        /\ pc[s] = "apply"
    BY Zenon, <1>4 DEF ApplyEffect, local
  <2> QED
    BY Zenon, <2>1 DEF Alright, Late, Attached
<1>5. CASE RemoveEffect(s) \/ DropEffect(s)
  <2>1. /\ pc'[s] \in {"drop", "visit", "idle"}
        /\ \/ pc'[s] = "idle" \/ s \in gone'
           \/ pc[s] = "take" /\ s \notin gone /\ obj'[s] = obj[s]
              /\ name'[s] = name[s] /\ channels' = channels
    BY Zenon, <1>5 DEF RemoveEffect, DropEffect, Ended, Kept
  <2> QED
    BY Zenon, <2>1 DEF Alright, Late, Attached
<1> QED
  BY <1>1, <1>2, <1>3, <1>4, <1>5 DEF Step

(* Sessions in removal do not disturb each other: each takes out itself.    *)
LEMMA TakingStep ==
  ASSUME Entries, Named, Locked, Removal, Serial, Attached, Taking, Authority, Room,
         NEW s \in Sessions, Effect(s), Step(s)
  PROVE  Taking'
<1>1. ASSUME NEW t \in Sessions \ {s}, pc'[t] = "take" PROVE Has(obj[t], victim[t])'
  <2>1. /\ pc[t] = "take" /\ obj'[t] = obj[t] /\ victim'[t] = victim[t]
    BY <1>1, StepFrame DEF Others
  <2>2. t \in gone /\ (LeaveEffect(s) \/ (s \in gone /\ pc[s] # "idle"))
    BY <2>1, SoloStep
  <2>3. victim[t] = t /\ Has(obj[t], t) /\ obj[t] \in Objects
    BY Zenon, <2>1, <2>2 DEF Removal, Taking, Named, Entries
  <2>4. members'[obj[t]][t] = members[obj[t]][t]
    <3>1. CASE RemoveEffect(s)
      <4>1. victim[s] = s
        BY Zenon, <2>2, <3>1 DEF Removal, RemoveEffect, LeaveEffect
      <4> QED
        BY Zenon, <2>3, <3>1, <4>1 DEF RemoveEffect, Marked
    <3>2. CASE Quiet(s) \/ DropEffect(s)
      BY Zenon, <3>2 DEF Quiet, DropEffect, chanVars
    <3>3. CASE AddEffect(s) \/ ApplyEffect(s)
      BY Zenon, <2>2, <3>3 DEF Removal, AddEffect, ApplyEffect, LeaveEffect
    <3>4. CASE Creates(s)
      BY Zenon, <3>4 DEF Creates, JoinEffect, Began
    <3> QED
      BY Zenon, <3>1, <3>2, <3>3, <3>4 DEF Step
  <2> QED
    BY <2>1, <2>3, <2>4 DEF Has
<1> QED
  BY Zenon, <1>1, OwnStep DEF Taking, Alright, Has

(* The other facts are about the only session that can be running one.      *)
LEMMA CommandStep ==
  ASSUME Locked, Removal, Removal', Serial, Attached, Authority, Room,
         NEW s \in Sessions, Effect(s), Step(s)
  PROVE  (Attached /\ Authority /\ Room /\ FounderIsFirst)'
<1>1. \A t \in Sessions : t \notin gone' /\ pc'[t] # "idle" => t = s
  BY OnlyMover
<1>2. Alright(s)'
  BY OwnStep
<1>3. Attached' /\ Authority'
  BY Zenon, <1>1, <1>2 DEF Attached, Authority, Alright, Removal
<1>4. \A t \in Sessions : pc'[t] \in Late => t = s
  BY Zenon, <1>1 DEF Late, Removal
<1>5. Room' /\ FounderIsFirst'
  BY <1>2, <1>4 DEF Late, Alright, Room, FounderIsFirst
<1> QED
  BY <1>3, <1>5

(* Only AddMember puts a member into an empty object.                       *)
Shrinks == \A c \in Objects : Empty(c) => Empty(c)'
(* No other step does.                                                      *)
LEMMA ShrinkFacts ==
  ASSUME NEW s \in Sessions, Step(s)
  PROVE  AddEffect(s) \/ Shrinks
<1>1. ASSUME UNCHANGED members PROVE Shrinks
  BY Zenon, <1>1 DEF Shrinks, Empty, Has
<1>2. CASE Quiet(s) \/ Creates(s) \/ DropEffect(s)
  BY Zenon, <1>1, <1>2 DEF Quiet, chanVars, Creates, JoinEffect, Began, DropEffect
<1>3. CASE RemoveEffect(s)
  BY Zenon, <1>3 DEF RemoveEffect, Marked, Shrinks, Empty, Has
<1>4. CASE ApplyEffect(s)
  BY Zenon, <1>1, <1>4 DEF ApplyEffect, Marked, Shrinks, Empty, Has
<1> QED
  BY <1>2, <1>3, <1>4 DEF Step

(* A channel about to be dropped is empty, under whatever object.           *)
LEMMA DropsStep ==
  ASSUME Entries, Named, Locked, Removal, Serial,
         NoOrphan, Taking, DropsEmpty, NEW s \in Sessions, Effect(s), Step(s)
  PROVE  DropsEmpty'
<1>1. ASSUME NEW t \in Sessions \ {s}, NEW c \in Objects,
             pc'[t] = "drop", called'[c] = name'[t]
      PROVE  Empty(c)'
  <2>1. pc[t] = "drop" /\ name'[t] = name[t]
    BY Zenon, <1>1, StepFrame DEF Others
  <2>2. t \in gone /\ (LeaveEffect(s) \/ (s \in gone /\ pc[s] # "idle"))
    BY Zenon, <2>1, SoloStep
  <2>3. ~AddEffect(s) /\ ~Creates(s)
    BY Zenon, <2>2 DEF Removal, AddEffect, Creates, JoinEffect, Began, LeaveEffect
  <2>4. called'[c] = called[c]
    BY Zenon, <2>3 DEF Step, Quiet, chanVars, ApplyEffect, RemoveEffect, DropEffect
  <2> QED
    BY <1>1, <2>1, <2>3, <2>4, ShrinkFacts DEF Shrinks, DropsEmpty
<1>2. ASSUME NEW c \in Objects, pc'[s] = "drop", called'[c] = name'[s]
      PROVE  Empty(c)'
  <2>1. RemoveEffect(s)
    BY Zenon, <1>2 DEF Step, Quiet, Enters, Creates, JoinEffect, Began, AddEffect,
       ApplyEffect, DropEffect, Ended, Kept
  <2>2. /\ pc[s] = "take" /\ name'[s] = name[s] /\ UNCHANGED called
        /\ obj[s] \in Objects /\ Marked(obj[s], victim[s], "out")
        /\ \A t \in Sessions \ {victim[s]} : ~Has(obj[s], t)
        /\ victim[s] \in Sessions
    BY Zenon, <1>2, <2>1 DEF RemoveEffect, Kept, Ended
  <2>3. called[obj[s]] = name[s] /\ Has(obj[s], victim[s])
    BY Zenon, <2>2 DEF Named, Taking
  <2>4. channels[name[s]] = obj[s]
    BY Zenon, <2>2, <2>3 DEF NoOrphan, Empty
  <2>5. CASE c = obj[s]
    BY Zenon, <2>2, <2>5 DEF Marked, Empty, Has
  <2>6. CASE c # obj[s]
    <3>1. Empty(c)
      BY Zenon, <1>2, <2>2, <2>4, <2>6 DEF NoOrphan
    <3> QED
      BY <2>2, <2>6, <3>1 DEF Marked, Empty, Has
  <2> QED
    BY Zenon, <2>5, <2>6
<1> QED
  BY Zenon, <1>1, <1>2 DEF DropsEmpty

(* No member is left in an object that its name does not lead to.           *)
LEMMA OrphanStep ==
  ASSUME TypeOK, Entries, Unused, Named, Removal,
         NoOrphan, Attached, DropsEmpty, NEW s \in Sessions, Step(s)
  PROVE  NoOrphan'
<1> SUFFICES ASSUME NEW c \in Objects, ~Empty(c)' PROVE channels'[called'[c]] = c
  BY DEF NoOrphan
<1>1. CASE AddEffect(s)
  <2>1. /\ UNCHANGED <<channels, called>> /\ pc[s] = "add" /\ obj[s] \in Objects
        /\ Marked(obj[s], s, prefix[s])
    BY Zenon, <1>1 DEF AddEffect
  <2>2. channels[called[obj[s]]] = obj[s]
    BY Zenon, <2>1 DEF Attached, Named, Removal
  <2>3. CASE c # obj[s]
    BY Zenon, <2>1, <2>3 DEF Marked, Empty, Has, NoOrphan
  <2> QED
    BY <2>1, <2>2, <2>3
<1>2. CASE Shrinks
  <2>1. ~Empty(c) /\ channels[called[c]] = c
    BY <1>2 DEF Shrinks, NoOrphan
  <2>2. CASE UNCHANGED <<called, channels>>
    BY Zenon, <2>1, <2>2
  <2>3. CASE DropEffect(s)
    BY Zenon, <2>1, <2>3 DEF DropEffect, DropsEmpty, Entries
  <2>4. CASE Creates(s)
    <3>1. PICK n \in Names : Makes(s, n)
      BY <2>4 DEF Creates
    <3>2. c # created + 1
      BY Zenon, <2>1, <3>1, NewObject DEF Unused, Makes
    <3> QED
      BY <2>1, <3>1, <3>2, NoZero DEF Makes, Entries
  <2> QED
    BY Zenon, <2>2, <2>3, <2>4 DEF Step, Quiet, chanVars, AddEffect, ApplyEffect, RemoveEffect
<1> QED
  BY <1>1, <1>2, ShrinkFacts

(* Commands that run alone.                                                 *)
LEMMA AloneStep ==
  ASSUME TypeOK, Entries, Unused, Named, Locked, Removal, Removal', Alone,
         NEW s \in Sessions, Effect(s), Step(s)
  PROVE  Alone'
<1> SUFFICES ASSUME Serial'
             PROVE  (/\ NoOrphan /\ FounderIsFirst
                     /\ Attached /\ Taking /\ Authority /\ DropsEmpty /\ Room)'
  BY DEF Alone
<1>1. Serial
  BY StepFrame DEF Serial
<1>2. /\ NoOrphan /\ Attached /\ Taking /\ Authority /\ DropsEmpty /\ Room
  BY <1>1 DEF Alone
<1> QED
  BY Zenon, <1>1, <1>2, OrphanStep, TakingStep, CommandStep, DropsStep

(* Members are counted by a natural number.                                 *)
LEMMA CountType == \A c : Count(c) \in Nat
<1> TAKE c
<1>1. IsFiniteSet({s \in Sessions : Has(c, s)})
  BY ChannelsAssumption, FS_Subset
<1> QED
  BY <1>1, FS_CardinalityType DEF Count

-----------------------------------------------------------------------------
(* The invariant holds at the start.                                        *)
LEMMA InitInv == Init => IInv
<1> SUFFICES ASSUME Init PROVE IInv
  OBVIOUS
<1>1. TypeOK
  <2>1. (CHOOSE n \in Names : TRUE) \in Names
    BY ChannelsAssumption
  <2>2. "idle" \in Labels /\ "" \in Prefixes
    BY DEF Labels, Prefixes
  <2>0. 0 \in 0..MaxObjects /\ 0 \in 0..MaxCommands /\ 0 \in 0..MaxLimit
    BY ChannelsAssumption
  <2>3. /\ labels \subseteq Sessions /\ excl \in Sessions \cup {None}
        /\ shared \subseteq Sessions /\ gone \subseteq Sessions
        /\ created \in 0..MaxObjects /\ commands \in 0..MaxCommands
    BY Zenon, <2>0 DEF Init
  <2>4. /\ channels \in [Names -> Objects \cup {0}]
        /\ called \in [Objects -> Names]
        /\ members \in [Objects -> [Sessions -> Prefixes \cup {"out"}]]
    BY Zenon, <2>1 DEF Init
  <2>5. /\ modes \in [Objects -> SUBSET {"i", "k"}]
        /\ limit \in [Objects -> 0..MaxLimit]
    BY Zenon, <2>0 DEF Init
  <2>6. /\ pc \in [Sessions -> Labels]
        /\ name \in [Sessions -> Names]
        /\ obj \in [Sessions -> Objects \cup {0}]
        /\ victim \in [Sessions -> Sessions \cup {None}]
        /\ prefix \in [Sessions -> Prefixes]
        /\ todo \in [Sessions -> SUBSET Objects]
    BY Zenon, <2>1, <2>2 DEF Init
  <2> QED
    BY Zenon, <2>3, <2>4, <2>5, <2>6 DEF TypeOK
<1>2. \A c \in Objects : Empty(c)
  BY Zenon DEF Init, Empty, Has
<1>3. \A s \in Sessions : pc[s] = "idle" /\ obj[s] = 0 /\ todo[s] = {}
  BY Zenon DEF Init
<1>4. \A n \in Names : channels[n] = 0
  BY Zenon DEF Init
<1>5. Unused
  BY Zenon, <1>2, <1>3, <1>4 DEF Unused, Init
<1>6. Named /\ Removal
  BY Zenon, <1>3, <1>4 DEF Named, Removal
<1>7. Listed /\ EmptyIsFresh
  BY Zenon, <1>4 DEF Listed, EmptyIsFresh, Init
<1>8. Locked
  BY Zenon, <1>3, ChannelsAssumption DEF Locked, Init
<1>9. Alone
  BY Zenon, <1>2, <1>3 DEF Alone, NoOrphan, FounderIsFirst, Attached, Taking, Authority,
     DropsEmpty, Room
<1> QED
  BY <1>1, <1>5, <1>6, <1>7, <1>8, <1>9 DEF IInv

(* IInv is inductive: the handlers of IrcChannels preserve it, whatever     *)
(* their interleaving and however many sessions and channels there are.     *)
THEOREM Inductive == Spec => []IInv
<1>1. IInv /\ [Next]_vars => IInv'
  <2> SUFFICES ASSUME IInv, [Next]_vars PROVE IInv'
    OBVIOUS
  <2>1. CASE Next
    <3>1. PICK s \in Sessions : Effect(s) /\ TypeOK'
      BY <2>1, Effects DEF IInv
    <3>2. Entries /\ Step(s)
      BY <3>1, EntryTypes, Steps DEF IInv
    <3>3. Unused' /\ Named' /\ Removal' /\ Locked'
      BY <3>1, <3>2, UnusedStep, NamedStep, RemovalStep, LockedStep DEF IInv
    <3>4. Listed' /\ EmptyIsFresh'
      BY <3>1, <3>2, ListedStep, EmptyStep DEF IInv
    <3>5. Alone'
      BY <3>1, <3>2, <3>3, AloneStep DEF IInv
    <3> QED
      BY <3>1, <3>3, <3>4, <3>5 DEF IInv
  <2>2. CASE UNCHANGED vars
    <3> USE <2>2 DEF vars, chanVars, lock, local
    <3>1. TypeOK' /\ Removal' /\ Locked'
      BY Zenon DEF IInv, TypeOK, Removal, Locked
    <3>2. Unused' /\ Named' /\ Listed'
      BY DEF IInv, Unused, Made, Empty, Has, Named, Listed, Mapped
    <3>3. EmptyIsFresh'
      BY Zenon DEF IInv, EmptyIsFresh, Empty, Has, Dropping, Fresh, Joining
    <3>4. \A c \in Objects : Empty(c)' = Empty(c) /\ Count(c)' = Count(c)
      BY Zenon DEF Empty, Count, Has
    <3>5. NoOrphan' = NoOrphan /\ FounderIsFirst' = FounderIsFirst
      BY Zenon DEF NoOrphan, FounderIsFirst, Empty, Has
    <3>6. Attached' = Attached /\ Taking' = Taking /\ Authority' = Authority
      BY Zenon DEF Attached, Taking, Authority, Has
    <3>7. DropsEmpty' = DropsEmpty /\ Room' = Room
      BY Zenon DEF DropsEmpty, Room, Full, Count, Empty, Has
    <3>8. Alone'
      BY Zenon, <3>5, <3>6, <3>7 DEF IInv, Alone, Serial
    <3> QED
      BY Zenon, <3>1, <3>2, <3>3, <3>8 DEF IInv
  <2> QED
    BY <2>1, <2>2
<1> QED
  BY <1>1, InitInv, PTL DEF Spec

(* The state of IrcChannels keeps its types.                                *)
THEOREM TypeCorrect == Spec => []TypeOK
  BY Inductive, PTL DEF IInv

(* No channel without members stays in the registry, although the handlers  *)
(* empty it, drop it and enter it in separate critical sections.            *)
THEOREM EmptyTransient == Spec => []EmptyIsTransient
<1>1. IInv => EmptyIsTransient
  <2> SUFFICES ASSUME IInv, NEW n \in Names, channels[n] # 0, Empty(channels[n])
               PROVE  Dropping(n) \/ Joining(channels[n])
    BY Zenon DEF EmptyIsTransient, Dropping, Joining
  <2> QED
    BY DEF IInv, EmptyIsFresh
<1> QED
  BY <1>1, Inductive, PTL

(* When removeSession is over, no channel that can be looked up lists the   *)
(* session, whatever the other handlers did meanwhile.                      *)
THEOREM GoneAreOut == Spec => []GoneLeaveNoMember
<1>1. IInv => GoneLeaveNoMember
  BY Zenon DEF IInv, GoneLeaveNoMember, Listed, Removal, TypeOK
<1> QED
  BY <1>1, Inductive, PTL

(* When every command is labeled, and so holds dispatchMu alone, a member   *)
(* is only ever in the object its channel name maps to, and JOIN makes an   *)
(* operator only of a founder.                                              *)
THEOREM SerialIsSound == Spec => []SerialSound
<1>1. IInv => SerialSound
  BY DEF IInv, Alone, SerialSound
<1> QED
  BY <1>1, Inductive, PTL

(* And then JOIN never takes a channel over its limit, and one session is   *)
(* removed by another only while that one is operator.                      *)
THEOREM SerialIsAuthorised == Spec => SerialAuthority
<1>1. IInv /\ [Next]_vars => [Serial => WithinLimit /\ KickedByOp]_vars
  <2> SUFFICES ASSUME IInv, Next, Serial PROVE WithinLimit /\ KickedByOp
    OBVIOUS
  <2>1. TypeOK /\ Room /\ Authority /\ Entries
    BY EntryTypes DEF IInv, Alone
  <2>2. PICK s \in Sessions : Step(s)
    BY <2>1, Effects, Steps DEF IInv
  <2>3. CASE AddEffect(s)
    <3>1. /\ pc[s] = "add" /\ obj[s] \in Objects /\ prefix[s] # "out"
          /\ Marked(obj[s], s, prefix[s])
      BY Zenon, <2>3 DEF AddEffect, Prefixes
    <3>2. limit[obj[s]] > 0 => Count(obj[s]) < limit[obj[s]]
      BY <2>1, <3>1, CountType, ChannelsAssumption DEF Room, Full, Entries
    <3> QED
      BY Zenon, <3>1, <3>2 DEF Marked, WithinLimit, KickedByOp, Has
  <2>4. CASE RemoveEffect(s)
    <3>1. /\ pc[s] = "take" /\ obj[s] \in Objects /\ victim[s] \in Sessions
          /\ Marked(obj[s], victim[s], "out")
      BY Zenon, <2>4 DEF RemoveEffect
    <3>2. victim[s] = s \/ members[obj[s]][s] = "@"
      BY Zenon, <2>1, <3>1 DEF Authority
    <3> QED
      BY Zenon, <3>1, <3>2 DEF Marked, WithinLimit, KickedByOp, Has
  <2>5. CASE ApplyEffect(s)
    <3>1. CASE UNCHANGED members
      BY <3>1 DEF WithinLimit, KickedByOp, Has
    <3>2. CASE \E t \in Sessions, p \in Prefixes :
                 Has(obj[s], t) /\ Marked(obj[s], t, p)
      BY Zenon, <3>2 DEF Marked, WithinLimit, KickedByOp, Has, Prefixes
    <3> QED
      BY Zenon, <2>5, <3>1, <3>2 DEF ApplyEffect
  <2>6. ASSUME UNCHANGED members PROVE WithinLimit /\ KickedByOp
    BY <2>6 DEF WithinLimit, KickedByOp, Has
  <2>7. CASE Quiet(s) \/ Creates(s) \/ DropEffect(s)
    BY Zenon, <2>6, <2>7 DEF Quiet, chanVars, Creates, JoinEffect, Began, DropEffect
  <2> QED
    BY <2>2, <2>3, <2>4, <2>5, <2>7 DEF Step
<1> QED
  BY <1>1, Inductive, PTL DEF Spec, SerialAuthority
=============================================================================
