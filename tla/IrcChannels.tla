----------------------------- MODULE IrcChannels -----------------------------
(***************************************************************************)
(* Channels of the IRC server (irc/server/server.go and handlers.go): the  *)
(* map from names to Channel objects, the members and modes of an object,  *)
(* and the handlers that change them: JOIN, PART, KICK, MODE and the       *)
(* removal of a session that ended.                                        *)
(*                                                                         *)
(* ChannelRegistry.mu, Channel.mu and the lock of the mode set protect     *)
(* single calls, not a handler: a step is one such call, and a handler     *)
(* acts later on what it read earlier.  dispatchMu is read-locked by an    *)
(* ordinary command and by a removal and write-locked by a command with a  *)
(* label, which therefore runs alone.  A command on several channels is    *)
(* the sequence of its single-channel parts.  Sessions are registered and  *)
(* keep their nick, so that a session stands for the nick that keys the    *)
(* member map; what becomes of a changed nick is in IrcRegistry.           *)
(***************************************************************************)
EXTENDS Integers, FiniteSets

CONSTANTS
  Sessions,    \* registered sessions
  Opers,       \* the ones that are IRC operators
  Names,       \* valid channel names, in lower case
  MaxObjects,  \* bound: Channel objects created in a behaviour
  MaxLimit,    \* bound: largest argument of MODE +l
  MaxCommands, \* bound: commands in a behaviour
  None         \* no session

ASSUME ChannelsAssumption ==
  /\ IsFiniteSet(Sessions)
  /\ None \notin Sessions
  /\ Names # {}
  /\ Opers \subseteq Sessions
  /\ MaxObjects \in Nat
  /\ MaxLimit \in Nat
  /\ MaxCommands \in Nat

VARIABLES
  labels,      \* sessions whose clients put a label on every command
  excl,        \* the session whose handler holds dispatchMu exclusively
  shared,      \* the sessions that hold it shared
  channels,    \* ChannelRegistry.channels: name -> object, 0 = absent
  called,      \* Channel.name
  created,     \* number of Channel objects created
  members,     \* Channel.members: object -> session -> prefix, or "out"
  modes,       \* Channel.modes: which of +i and +k are set
  limit,       \* Channel.modes: the argument of +l, 0 = not set
  gone,        \* sessions that ended
  commands,    \* commands begun so far
  pc,          \* where each session's handler is
  name,        \* the channel name the handler is about
  obj,         \* the object it looked up
  victim,      \* whom it removes
  prefix,      \* JOIN: the prefix it will give
  todo         \* removal: objects still to be visited

lock == <<excl, shared>>
chanVars == <<channels, called, created, members, modes, limit>>
local == <<name, obj, victim, prefix, todo>>
vars == <<labels, lock, chanVars, gone, commands, pc, local>>

Objects == 1..MaxObjects
(* "@" stands for any of the prefixes @, & and ~, which the handlers treat *)
(* alike; % and + give no rights here.                                     *)
Prefixes == {"", "@"}

Has(c, s) == members[c][s] # "out"
Count(c) == Cardinality({s \in Sessions : Has(c, s)})
Empty(c) == \A s \in Sessions : ~Has(c, s)
Mapped == {channels[n] : n \in Names} \ {0}

Init ==
  /\ labels \in SUBSET Sessions
  /\ excl = None
  /\ shared = {}
  /\ channels = [n \in Names |-> 0]
  /\ called = [c \in Objects |-> CHOOSE n \in Names : TRUE]
  /\ created = 0
  /\ members = [c \in Objects |-> [s \in Sessions |-> "out"]]
  /\ modes = [c \in Objects |-> {}]
  /\ limit = [c \in Objects |-> 0]
  /\ gone = {}
  /\ commands = 0
  /\ pc = [s \in Sessions |-> "idle"]
  /\ name = [s \in Sessions |-> CHOOSE n \in Names : TRUE]
  /\ obj = [s \in Sessions |-> 0]
  /\ victim = [s \in Sessions |-> None]
  /\ prefix = [s \in Sessions |-> ""]
  /\ todo = [s \in Sessions |-> {}]

Goto(s, label) == pc' = [pc EXCEPT ![s] = label]
Set(f, s, v) == [f EXCEPT ![s] = v]

(* Fault: a labeled command takes the lock shared, like any other.         *)
AcquireShared(s) ==
  /\ pc[s] = "idle"
  /\ s \notin gone
  /\ commands < MaxCommands
  /\ commands' = commands + 1
  /\ shared' = shared \cup {s}
  /\ UNCHANGED excl

(* dispatchCommand takes dispatchMu, exclusively for a labeled command.    *)
Acquire(s) ==
  /\ pc[s] = "idle"
  /\ s \notin gone
  /\ commands < MaxCommands
  /\ commands' = commands + 1
  /\ excl = None
  /\ IF s \in labels
       THEN shared = {} /\ excl' = s /\ UNCHANGED shared
       ELSE shared' = shared \cup {s} /\ UNCHANGED excl

(* The handler returns: the lock is released and its variables die.        *)
Release(s) ==
  /\ excl' = IF excl = s THEN None ELSE excl
  /\ shared' = shared \ {s}
  /\ obj' = Set(obj, s, 0)
  /\ victim' = Set(victim, s, None)
  /\ prefix' = Set(prefix, s, "")
  /\ Goto(s, "idle")

Continue(s, label) ==
  /\ Goto(s, label)
  /\ UNCHANGED <<lock, obj, victim, prefix>>

-----------------------------------------------------------------------------
(* handleJoin.  GetOrCreate looks the name up or enters a new object.      *)
Join(s, n) ==
  /\ Acquire(s)
  /\ name' = Set(name, s, n)
  /\ Goto(s, "key")
  /\ IF channels[n] # 0
       THEN /\ obj' = Set(obj, s, channels[n])
            /\ UNCHANGED <<channels, called, created>>
       ELSE /\ created < MaxObjects
            /\ created' = created + 1
            /\ channels' = [channels EXCEPT ![n] = created + 1]
            /\ called' = [called EXCEPT ![created + 1] = n]
            /\ obj' = Set(obj, s, created + 1)
  /\ UNCHANGED <<labels, members, modes, limit, gone, victim, prefix, todo>>

(* +k: a wrong key is refused.  +i: a session that is not in the channel   *)
(* is refused.  +l: a full channel refuses.  The mode and the members that *)
(* a check compares are read in one step.                                  *)
JoinKey(s) ==
  /\ pc[s] = "key"
  /\ \/ Continue(s, "invite")
     \/ "k" \in modes[obj[s]] /\ Release(s)
  /\ UNCHANGED <<labels, chanVars, gone, commands, name, todo>>

JoinInvite(s) ==
  /\ pc[s] = "invite"
  /\ IF "i" \in modes[obj[s]] /\ ~Has(obj[s], s)
       THEN Release(s) ELSE Continue(s, "limit")
  /\ UNCHANGED <<labels, chanVars, gone, commands, name, todo>>

(* Fault: a full channel lets one more in.                                 *)
JoinLimitLate(s) ==
  /\ pc[s] = "limit"
  /\ IF limit[obj[s]] > 0 /\ Count(obj[s]) > limit[obj[s]]
       THEN Release(s) ELSE Continue(s, "member")
  /\ UNCHANGED <<labels, chanVars, gone, commands, name, todo>>

JoinLimit(s) ==
  /\ pc[s] = "limit"
  /\ IF limit[obj[s]] > 0 /\ Count(obj[s]) >= limit[obj[s]]
       THEN Release(s) ELSE Continue(s, "member")
  /\ UNCHANGED <<labels, chanVars, gone, commands, name, todo>>

JoinMember(s) ==
  /\ pc[s] = "member"
  /\ IF Has(obj[s], s) THEN Release(s) ELSE Continue(s, "first")
  /\ UNCHANGED <<labels, chanVars, gone, commands, name, todo>>

JoinFirst(s) ==
  /\ pc[s] = "first"
  /\ prefix' = Set(prefix, s, IF Empty(obj[s]) THEN "@" ELSE "")
  /\ Goto(s, "add")
  /\ UNCHANGED <<labels, lock, chanVars, gone, commands, name, obj, victim,
                 todo>>

(* AddMember.  The rest of handleJoin only sends.                          *)
AddMember(s) ==
  /\ pc[s] = "add"
  /\ members' = [members EXCEPT ![obj[s]][s] = prefix[s]]
  /\ Release(s)
  /\ UNCHANGED <<labels, channels, called, created, modes, limit, gone,
                 commands, name, todo>>

-----------------------------------------------------------------------------
(* handlePart, handleKick and handleChannelMode: Get.  An unknown name     *)
(* ends the handler.                                                       *)
Lookup(s, n, t, next) ==
  /\ channels[n] # 0
  /\ Acquire(s)
  /\ name' = Set(name, s, n)
  /\ obj' = Set(obj, s, channels[n])
  /\ victim' = Set(victim, s, t)
  /\ Goto(s, next)
  /\ UNCHANGED <<labels, chanVars, gone, prefix, todo>>

Part(s, n) == Lookup(s, n, s, "has")
Kick(s, n, t) == Lookup(s, n, t, "kickop")
Mode(s, n) == Lookup(s, n, None, "modeop")

(* HasMember of the session to be removed.                                 *)
HasVictim(s) ==
  /\ pc[s] = "has"
  /\ IF Has(obj[s], victim[s]) THEN Continue(s, "take") ELSE Release(s)
  /\ UNCHANGED <<labels, chanVars, gone, commands, name, todo>>

(* GetMembership of the caller, who must be channel operator; for MODE an  *)
(* IRC operator on the channel will do.                                    *)
KickOp(s) ==
  /\ pc[s] = "kickop"
  /\ IF members[obj[s]][s] = "@" THEN Continue(s, "has") ELSE Release(s)
  /\ UNCHANGED <<labels, chanVars, gone, commands, name, todo>>

ModeOp(s) ==
  /\ pc[s] = "modeop"
  /\ IF members[obj[s]][s] = "@" \/ (Has(obj[s], s) /\ s \in Opers)
       THEN Continue(s, "apply") ELSE Release(s)
  /\ UNCHANGED <<labels, chanVars, gone, commands, name, todo>>

(* handleChannelMode applies its changes one by one, each in a critical    *)
(* section of its own, and then only sends.  applyMembershipMode, +o and   *)
(* -o: nothing for a nick that is not there.                               *)
ApplyOp(s, t, p) ==
  /\ pc[s] = "apply"
  /\ Has(obj[s], t)
  /\ members' = [members EXCEPT ![obj[s]][t] = p]
  /\ UNCHANGED <<labels, lock, channels, called, created, modes, limit, gone,
                 commands, pc, local>>

(* Set.Apply, the modes that JOIN reads: +i and +k, and +l.                *)
ApplyMode(s, m) ==
  /\ pc[s] = "apply"
  /\ \E ms \in {modes[obj[s]] \cup {m}, modes[obj[s]] \ {m}} :
       modes' = [modes EXCEPT ![obj[s]] = ms]
  /\ UNCHANGED <<labels, lock, channels, called, created, members, limit,
                 gone, commands, pc, local>>

(* Fault: the limit is stored one too high.                                *)
ApplyLimitOver(s, l) ==
  /\ pc[s] = "apply"
  /\ limit' = [limit EXCEPT ![obj[s]] = l + 1]
  /\ UNCHANGED <<labels, lock, channels, called, created, members, modes,
                 gone, commands, pc, local>>

ApplyLimit(s, l) ==
  /\ pc[s] = "apply"
  /\ limit' = [limit EXCEPT ![obj[s]] = l]
  /\ UNCHANGED <<labels, lock, channels, called, created, members, modes,
                 gone, commands, pc, local>>

ModeEnds(s) ==
  /\ pc[s] = "apply"
  /\ Release(s)
  /\ UNCHANGED <<labels, chanVars, gone, commands, name, todo>>

(* Fault: a channel that became empty is kept.                             *)
RemoveMemberOnly(s) ==
  /\ pc[s] = "take"
  /\ members' = [members EXCEPT ![obj[s]][victim[s]] = "out"]
  /\ IF s \in gone THEN Continue(s, "visit") ELSE Release(s)
  /\ UNCHANGED <<labels, channels, called, created, modes, limit, gone,
                 commands, name, todo>>

(* RemoveMember: deletes and tells whether the channel is now empty.       *)
RemoveMember(s) ==
  /\ pc[s] = "take"
  /\ members' = [members EXCEPT ![obj[s]][victim[s]] = "out"]
  /\ IF \A t \in Sessions \ {victim[s]} : ~Has(obj[s], t)
       THEN Continue(s, "drop")
       ELSE IF s \in gone THEN Continue(s, "visit") ELSE Release(s)
  /\ UNCHANGED <<labels, channels, called, created, modes, limit, gone,
                 commands, name, todo>>

(* ChannelRegistry.Remove: by name, whatever object the name maps to.      *)
DropChannel(s) ==
  /\ pc[s] = "drop"
  /\ channels' = [channels EXCEPT ![name[s]] = 0]
  /\ IF s \in gone THEN Continue(s, "visit") ELSE Release(s)
  /\ UNCHANGED <<labels, called, created, members, modes, limit, gone, commands,
                 name, todo>>

-----------------------------------------------------------------------------
(* The end of handleSession: dispatchMu is read-locked and removeSession   *)
(* goes through a snapshot of the channels.                                *)
Disconnect(s) ==
  /\ pc[s] = "idle"
  /\ s \notin gone
  /\ excl = None
  /\ shared' = shared \cup {s}
  /\ gone' = gone \cup {s}
  /\ todo' = Set(todo, s, Mapped)
  /\ Goto(s, "visit")
  /\ UNCHANGED <<labels, excl, chanVars, commands, name, obj, victim, prefix>>

VisitChannel(s, c) ==
  /\ pc[s] = "visit"
  /\ c \in todo[s]
  /\ todo' = Set(todo, s, todo[s] \ {c})
  /\ IF Has(c, s)
       THEN /\ obj' = Set(obj, s, c)
            /\ name' = Set(name, s, called[c])
            /\ victim' = Set(victim, s, s)
            /\ Goto(s, "take")
       ELSE UNCHANGED <<name, obj, victim, pc>>
  /\ UNCHANGED <<labels, lock, chanVars, gone, commands, prefix>>

(* Fault: the removal stops early.                                         *)
RemovalEndsEarly(s) ==
  /\ pc[s] = "visit"
  /\ Release(s)
  /\ UNCHANGED <<labels, chanVars, gone, commands, name, todo>>

RemovalEnds(s) ==
  /\ pc[s] = "visit"
  /\ todo[s] = {}
  /\ Release(s)
  /\ UNCHANGED <<labels, chanVars, gone, commands, name, todo>>

Next ==
  \E s \in Sessions :
    \/ \E n \in Names : Join(s, n) \/ Part(s, n) \/ Mode(s, n)
    \/ \E n \in Names, t \in Sessions : Kick(s, n, t)
    \/ JoinKey(s) \/ JoinInvite(s) \/ JoinLimit(s) \/ JoinMember(s) \/ JoinFirst(s)
    \/ AddMember(s)
    \/ HasVictim(s) \/ KickOp(s) \/ ModeOp(s)
    \/ \E t \in Sessions, p \in Prefixes : ApplyOp(s, t, p)
    \/ \E m \in {"i", "k"} : ApplyMode(s, m)
    \/ \E l \in 0..MaxLimit : ApplyLimit(s, l)
    \/ ModeEnds(s)
    \/ RemoveMember(s) \/ DropChannel(s)
    \/ Disconnect(s)
    \/ \E c \in Objects : VisitChannel(s, c)
    \/ RemovalEnds(s)

Spec == Init /\ [][Next]_vars
-----------------------------------------------------------------------------
JoinLabels == {"key", "invite", "limit", "member", "first", "add"}
Labels == JoinLabels \cup
  {"idle", "has", "kickop", "modeop", "apply", "take", "drop", "visit"}

TypeOK ==
  /\ labels \subseteq Sessions
  /\ excl \in Sessions \cup {None}
  /\ shared \subseteq Sessions
  /\ channels \in [Names -> Objects \cup {0}]
  /\ called \in [Objects -> Names]
  /\ created \in 0..MaxObjects
  /\ members \in [Objects -> [Sessions -> Prefixes \cup {"out"}]]
  /\ modes \in [Objects -> SUBSET {"i", "k"}]
  /\ limit \in [Objects -> 0..MaxLimit]
  /\ gone \subseteq Sessions
  /\ commands \in 0..MaxCommands
  /\ pc \in [Sessions -> Labels]
  /\ name \in [Sessions -> Names]
  /\ obj \in [Sessions -> Objects \cup {0}]
  /\ victim \in [Sessions -> Sessions \cup {None}]
  /\ prefix \in [Sessions -> Prefixes]
  /\ todo \in [Sessions -> SUBSET Objects]

(* No channel without members stays in the registry: an empty one is being *)
(* joined, or the handler that emptied it is about to remove it.           *)
EmptyIsTransient ==
  \A n \in Names :
    channels[n] # 0 /\ Empty(channels[n]) =>
      \E s \in Sessions :
        \/ obj[s] = channels[n] /\ pc[s] \in JoinLabels
        \/ name[s] = n /\ pc[s] = "drop"

(* When the removal of a session is over, no channel that can be looked up *)
(* lists it, whatever joined, left or was created meanwhile.               *)
GoneLeaveNoMember ==
  \A s \in gone : pc[s] = "idle" => \A c \in Mapped : ~Has(c, s)

(* All commands carry labels, so that each runs alone.                     *)
Serial == labels = Sessions

(* JOIN makes an operator only of a session that enters an empty channel,  *)
(* as handleJoin's comment has it.  The handler asks whether the channel   *)
(* is empty in one critical section and enters it in another.              *)
FounderIsFirst ==
  \A s \in Sessions : pc[s] = "add" /\ prefix[s] = "@" => Empty(obj[s])

(* When each command runs alone, what a handler looked up stays true until *)
(* it acts: every member is in the channel object its name maps to, and    *)
(* only a founder becomes operator by JOIN.  Removals of sessions, which   *)
(* run beside each other, do not disturb this.                             *)
NoOrphan == \A c \in Objects : Empty(c) \/ channels[called[c]] = c
SerialSound == Serial => NoOrphan /\ FounderIsFirst

(* When each command runs alone, JOIN never takes a channel over its limit *)
(* and a member is removed by another only while that one is operator.     *)
WithinLimit ==
  \A c \in Objects, s \in Sessions :
    ~Has(c, s) /\ members'[c][s] # "out" /\ limit[c] > 0 => Count(c) < limit[c]
KickedByOp ==
  \A c \in Objects, s \in Sessions :
    Has(c, s) /\ members'[c][s] = "out" =>
      \E t \in Sessions : /\ pc[t] = "take" /\ victim[t] = s
                          /\ t = s \/ members[c][t] = "@"
SerialAuthority == [][Serial => WithinLimit /\ KickedByOp]_vars
=============================================================================
