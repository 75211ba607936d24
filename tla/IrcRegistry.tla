----------------------------- MODULE IrcRegistry -----------------------------
(***************************************************************************)
(* Sessions of the IRC server and the nick registry they share             *)
(* (irc/server/server.go and handlers.go): admission by the accept loops,  *)
(* registration by NICK, USER and CAP, a NICK sent after registration,     *)
(* MONITOR and its notifications, and the removal of a session that ended. *)
(*                                                                         *)
(* Each session is served by a goroutine of its own and handlers of        *)
(* different sessions run concurrently (dispatchMu is only read-locked), so*)
(* a step is one critical section of Registry.mu or monitorMu, or one      *)
(* assignment to the session's own fields.  Nicks stand for their          *)
(* lower-case form, the form in which every map uses them.                 *)
(***************************************************************************)
EXTENDS Integers, FiniteSets

CONSTANTS
  Sessions,      \* connections made in a behaviour, each used once
  Watchers,      \* bound: the ones whose clients use MONITOR
  Nicks,         \* valid nicknames, in lower case
  NoNick,        \* the empty nick
  None,          \* no session
  MaxClients,    \* Config.MaxClients, 0 = unlimited
  MonitorLimit   \* monitorLimit

ASSUME RegistryAssumption ==
  /\ None \notin Sessions
  /\ Watchers \subseteq Sessions
  /\ NoNick \notin Nicks
  /\ MaxClients \in Nat
  /\ MonitorLimit \in Nat

VARIABLES
  phase,      \* life of the connection
  clients,    \* clientsCurrent
  state,      \* Session.state
  nick,       \* Session.nick
  user,       \* Session.user is set
  pc,         \* where the session's goroutine is in a handler
  registry,   \* Registry.sessions: lower-case nick -> session
  monitor,    \* Session.monitor
  locked,     \* sessions whose monitorMu is held
  arg,        \* the nick a MONITOR command or a removal is about
  status,     \* what MONITOR + read from the registry
  todo,       \* watchers the running notification has still to look at
  news,       \* history: what a session was told of a nick since it last
              \* came or went
  key,        \* history: the nick under which a session registered
  renamed     \* history: sessions that changed nick after registration

connVars == <<phase, clients>>
sessVars == <<state, nick, user>>
monVars  == <<monitor, locked, arg, status, todo>>
hist     == <<key, renamed>>
vars == <<connVars, sessVars, pc, registry, monVars, news, hist>>

Registered(k) == registry[k] # None
All == {registry[k] : k \in Nicks} \ {None}

Init ==
  /\ phase = [s \in Sessions |-> "new"]
  /\ clients = 0
  /\ state = [s \in Sessions |-> "PreReg"]
  /\ nick = [s \in Sessions |-> NoNick]
  /\ user = [s \in Sessions |-> FALSE]
  /\ pc = [s \in Sessions |-> "idle"]
  /\ registry = [k \in Nicks |-> None]
  /\ monitor = [s \in Sessions |-> {}]
  /\ locked = {}
  /\ arg = [s \in Sessions |-> NoNick]
  /\ status = [s \in Sessions |-> "offline"]
  /\ todo = [s \in Sessions |-> {}]
  /\ news = [s \in Sessions |-> [k \in Nicks |-> {}]]
  /\ key = [s \in Sessions |-> NoNick]
  /\ renamed = {}

Goto(s, label) == pc' = [pc EXCEPT ![s] = label]
Ready(s) == phase[s] = "open" /\ pc[s] = "idle"

Tell(w, k, what) == news' = [news EXCEPT ![w][k] = @ \cup {what}]
Forget(k) == news' = [w \in Sessions |-> [news[w] EXCEPT ![k] = {}]]

-----------------------------------------------------------------------------
(* Fault: the limit is compared with the counter before it was raised.     *)
AcceptLate(s) ==
  /\ phase[s] = "new"
  /\ clients' = clients + 1
  /\ phase' = [phase EXCEPT ![s] =
       IF MaxClients > 0 /\ clients > MaxClients
         THEN "refused" ELSE "handshake"]
  /\ UNCHANGED <<sessVars, pc, registry, monVars, news, hist>>

(* acceptLoop: the counter is raised first and compared after; a           *)
(* connection over the limit is refused.  Plain and TLS listeners have an  *)
(* accept loop each, so that the lowering below may come later.            *)
Accept(s) ==
  /\ phase[s] = "new"
  /\ clients' = clients + 1
  /\ phase' = [phase EXCEPT ![s] =
       IF MaxClients > 0 /\ clients + 1 > MaxClients
         THEN "refused" ELSE "handshake"]
  /\ UNCHANGED <<sessVars, pc, registry, monVars, news, hist>>

Refuse(s) ==
  /\ phase[s] = "refused"
  /\ clients' = clients - 1
  /\ phase' = [phase EXCEPT ![s] = "gone"]
  /\ UNCHANGED <<sessVars, pc, registry, monVars, news, hist>>

(* startSession: the TLS handshake succeeds, or there is none, and the     *)
(* session is served; or it fails.                                         *)
Start(s) ==
  /\ phase[s] = "handshake"
  /\ phase' = [phase EXCEPT ![s] = "open"]
  /\ UNCHANGED <<clients, sessVars, pc, registry, monVars, news, hist>>

HandshakeFails(s) ==
  /\ phase[s] = "handshake"
  /\ phase' = [phase EXCEPT ![s] = "gone"]
  /\ clients' = clients - 1
  /\ UNCHANGED <<sessVars, pc, registry, monVars, news, hist>>

-----------------------------------------------------------------------------
(* Fault: a registered session registers again.                            *)
TryRegisterAgain(s, st, n, u) ==
  Goto(s, IF st # "CapNeg" /\ n # NoNick /\ u THEN "add" ELSE "idle")

(* tryRegister, up to the insertion: nothing while registered, while a     *)
(* capability negotiation runs or while nick or user is missing.           *)
TryRegister(s, st, n, u) ==
  Goto(s, IF st = "PreReg" /\ n # NoNick /\ u THEN "add" ELSE "idle")

(* handleNick.  dispatch routes NICK here whether the session is           *)
(* registered or not.                                                      *)
Nick(s, n) ==
  /\ Ready(s)
  /\ ~(Registered(n) /\ n # nick[s])
  /\ nick' = [nick EXCEPT ![s] = n]
  /\ TryRegister(s, state[s], n, user[s])
  /\ renamed' = IF state[s] = "Registered" /\ n # nick[s]
                  THEN renamed \cup {s} ELSE renamed
  /\ UNCHANGED <<connVars, state, user, registry, monVars, news, key>>

User(s) ==
  /\ Ready(s)
  /\ state[s] # "Registered"
  /\ user' = [user EXCEPT ![s] = TRUE]
  /\ TryRegister(s, state[s], nick[s], TRUE)
  /\ UNCHANGED <<connVars, state, nick, registry, monVars, news, hist>>

(* handleCAP, LS and REQ: negotiation suspends registration.               *)
CapBegin(s) ==
  /\ Ready(s)
  /\ state[s] # "Registered"
  /\ state' = [state EXCEPT ![s] = "CapNeg"]
  /\ UNCHANGED <<connVars, nick, user, pc, registry, monVars, news, hist>>

(* handleCAP, END.                                                         *)
CapEnd(s) ==
  /\ Ready(s)
  /\ state' = [state EXCEPT ![s] = IF @ = "CapNeg" THEN "PreReg" ELSE @]
  /\ TryRegister(s, state'[s], nick[s], user[s])
  /\ UNCHANGED <<connVars, nick, user, registry, monVars, news, hist>>

(* Fault: the nick was free when NICK looked, and is not checked again.    *)
AddUnchecked(s) ==
  /\ pc[s] = "add"
  /\ registry' = [registry EXCEPT ![nick[s]] = s]
  /\ state' = [state EXCEPT ![s] = "Registered"]
  /\ key' = [key EXCEPT ![s] = nick[s]]
  /\ arg' = [arg EXCEPT ![s] = nick[s]]
  /\ status' = [status EXCEPT ![s] = "online"]
  /\ Forget(nick[s])
  /\ Goto(s, "notify")
  /\ UNCHANGED <<connVars, nick, user, monitor, locked, todo, renamed>>

(* tryRegister: Registry.Add checks and inserts in one critical section.   *)
Add(s) ==
  /\ pc[s] = "add"
  /\ ~Registered(nick[s])
  /\ registry' = [registry EXCEPT ![nick[s]] = s]
  /\ state' = [state EXCEPT ![s] = "Registered"]
  /\ key' = [key EXCEPT ![s] = nick[s]]
  /\ arg' = [arg EXCEPT ![s] = nick[s]]
  /\ status' = [status EXCEPT ![s] = "online"]
  /\ Forget(nick[s])
  /\ Goto(s, "notify")
  /\ UNCHANGED <<connVars, nick, user, monitor, locked, todo, renamed>>

AddTaken(s) ==
  /\ pc[s] = "add"
  /\ Registered(nick[s])
  /\ nick' = [nick EXCEPT ![s] = NoNick]
  /\ Goto(s, "idle")
  /\ UNCHANGED <<connVars, state, user, registry, monVars, news, hist>>

-----------------------------------------------------------------------------
(* notifyMonitorOnline and notifyMonitorOffline: a snapshot of the         *)
(* registry, then each watcher is asked (isMonitoring takes its monitorMu) *)
(* and told.                                                               *)
Snapshot(s) ==
  /\ pc[s] = "notify"
  /\ todo' = [todo EXCEPT ![s] = IF status[s] = "online" THEN All \ {s} ELSE All]
  /\ Goto(s, "telling")
  /\ UNCHANGED <<connVars, sessVars, registry, monitor, locked, arg, status,
                 news, hist>>

TellWatcher(s, w) ==
  /\ pc[s] = "telling"
  /\ w \in todo[s]
  /\ w \notin locked
  /\ todo' = [todo EXCEPT ![s] = @ \ {w}]
  /\ IF arg[s] \in monitor[w] THEN Tell(w, arg[s], status[s])
                              ELSE UNCHANGED news
  /\ UNCHANGED <<connVars, sessVars, pc, registry, monitor, locked, arg,
                 status, hist>>

(* The rest of tryRegister only sends the welcome; the rest of the         *)
(* deferred function of handleSession stops the writer.                    *)
Told(s) ==
  /\ pc[s] = "telling"
  /\ todo[s] = {}
  /\ arg' = [arg EXCEPT ![s] = NoNick]
  /\ status' = [status EXCEPT ![s] = "offline"]
  /\ Goto(s, "idle")
  /\ phase' = [phase EXCEPT ![s] = IF @ = "leaving" THEN "gone" ELSE @]
  /\ UNCHANGED <<clients, sessVars, registry, monitor, locked, todo, news, hist>>

(* handleMonitor, "+": under monitorMu the nick is entered, unless the     *)
(* list is full, and looked up; the answer is sent after the unlock.       *)
MonitorAdd(s, k) ==
  /\ Ready(s)
  /\ state[s] = "Registered"
  /\ k \in monitor[s] \/ Cardinality(monitor[s]) < MonitorLimit
  /\ monitor' = [monitor EXCEPT ![s] = @ \cup {k}]
  /\ locked' = locked \cup {s}
  /\ arg' = [arg EXCEPT ![s] = k]
  /\ Goto(s, "lookup")
  /\ UNCHANGED <<connVars, sessVars, registry, status, todo, news, hist>>

MonitorLookup(s) ==
  /\ pc[s] = "lookup"
  /\ status' = [status EXCEPT ![s] = 
       IF Registered(arg[s]) THEN "online" ELSE "offline"]
  /\ locked' = locked \ {s}
  /\ Goto(s, "answer")
  /\ UNCHANGED <<connVars, sessVars, registry, monitor, arg, todo, news, hist>>

(* Fault: MONITOR + answers only for nicks that are online.                *)
MonitorAnswerOnline(s) ==
  /\ pc[s] = "answer"
  /\ IF status[s] = "online" THEN Tell(s, arg[s], "online") ELSE UNCHANGED news
  /\ arg' = [arg EXCEPT ![s] = NoNick]
  /\ status' = [status EXCEPT ![s] = "offline"]
  /\ Goto(s, "idle")
  /\ UNCHANGED <<connVars, sessVars, registry, monitor, locked, todo, hist>>

MonitorAnswer(s) ==
  /\ pc[s] = "answer"
  /\ Tell(s, arg[s], status[s])
  /\ arg' = [arg EXCEPT ![s] = NoNick]
  /\ status' = [status EXCEPT ![s] = "offline"]
  /\ Goto(s, "idle")
  /\ UNCHANGED <<connVars, sessVars, registry, monitor, locked, todo, hist>>

(* handleMonitor, "-" and "C".                                             *)
MonitorRemove(s, ks) ==
  /\ Ready(s)
  /\ state[s] = "Registered"
  /\ monitor' = [monitor EXCEPT ![s] = @ \ ks]
  /\ UNCHANGED <<connVars, sessVars, pc, registry, locked, arg, status, todo,
                 news, hist>>

-----------------------------------------------------------------------------
(* Faults: the slot is given back twice; the session is not removed.       *)
LeaveTwice(s) ==
  /\ Ready(s)
  /\ clients' = clients - 2
  /\ phase' = [phase EXCEPT ![s] = IF nick[s] = NoNick THEN "gone" ELSE "leaving"]
  /\ Goto(s, IF nick[s] = NoNick THEN "idle" ELSE "remove")
  /\ UNCHANGED <<sessVars, registry, monVars, news, hist>>

LeaveUnremoved(s) ==
  /\ Ready(s)
  /\ clients' = clients - 1
  /\ phase' = [phase EXCEPT ![s] = "gone"]
  /\ UNCHANGED <<sessVars, pc, registry, monVars, news, hist>>

(* handleSession returns: the slot is given back at once; removeSession    *)
(* does nothing for a session without a nick.                              *)
Leave(s) ==
  /\ Ready(s)
  /\ clients' = clients - 1
  /\ phase' = [phase EXCEPT ![s] = IF nick[s] = NoNick THEN "gone" ELSE "leaving"]
  /\ Goto(s, IF nick[s] = NoNick THEN "idle" ELSE "remove")
  /\ UNCHANGED <<sessVars, registry, monVars, news, hist>>

(* removeSession: Registry.Remove deletes whatever the nick maps to.       *)
Remove(s) ==
  /\ pc[s] = "remove"
  /\ registry' = [registry EXCEPT ![nick[s]] = None]
  /\ IF Registered(nick[s]) THEN Forget(nick[s]) ELSE UNCHANGED news
  /\ arg' = [arg EXCEPT ![s] = nick[s]]
  /\ Goto(s, "notify")
  /\ UNCHANGED <<connVars, sessVars, monitor, locked, status, todo, hist>>

Next ==
  \E s \in Sessions :
    \/ Accept(s) \/ Refuse(s) \/ Start(s) \/ HandshakeFails(s)
    \/ \E n \in Nicks : Nick(s, n)
    \/ User(s) \/ CapBegin(s) \/ CapEnd(s)
    \/ Add(s) \/ AddTaken(s)
    \/ Snapshot(s) \/ (\E w \in Sessions : TellWatcher(s, w)) \/ Told(s)
    \/ s \in Watchers /\ \E k \in Nicks : MonitorAdd(s, k)
    \/ s \in Watchers /\ \E ks \in {{k} : k \in Nicks} \cup {Nicks} :
                           MonitorRemove(s, ks)
    \/ MonitorLookup(s) \/ MonitorAnswer(s)
    \/ Leave(s) \/ Remove(s)

Spec == Init /\ [][Next]_vars
-----------------------------------------------------------------------------
TypeOK ==
  /\ phase \in [Sessions ->
       {"new", "refused", "handshake", "open", "leaving", "gone"}]
  /\ clients \in Nat
  /\ state \in [Sessions -> {"PreReg", "CapNeg", "Registered"}]
  /\ nick \in [Sessions -> Nicks \cup {NoNick}]
  /\ user \in [Sessions -> BOOLEAN]
  /\ pc \in [Sessions ->
       {"idle", "add", "notify", "telling", "lookup", "answer", "remove"}]
  /\ registry \in [Nicks -> Sessions \cup {None}]
  /\ monitor \in [Sessions -> SUBSET Nicks]
  /\ locked \subseteq Sessions
  /\ arg \in [Sessions -> Nicks \cup {NoNick}]
  /\ status \in [Sessions -> {"online", "offline"}]
  /\ todo \in [Sessions -> SUBSET Sessions]
  /\ news \in [Sessions -> [Nicks -> SUBSET {"online", "offline"}]]
  /\ key \in [Sessions -> Nicks \cup {NoNick}]
  /\ renamed \subseteq Sessions

Quiet == \A s \in Sessions : pc[s] = "idle"

(* MaxClients bounds the connections that were let in and whose slot was   *)
(* not given back, whatever the accept loops, failed handshakes and        *)
(* leaving sessions interleave.                                            *)
AdmissionBounded ==
  MaxClients > 0 =>
    Cardinality({s \in Sessions : phase[s] \in {"handshake", "open"}}) <= MaxClients

(* No session is filed under two nicks, not even after it changed nick.    *)
OneKeyPerSession ==
  \A k1, k2 \in Nicks : Registered(k1) /\ registry[k1] = registry[k2] => k1 = k2

(* The registry maps nicks to sessions: at rest, a nick leads to a session *)
(* that bears it.  server.go says so of Registry; a NICK after             *)
(* registration changes the session and leaves the registry as it was.     *)
RegistryMapsNicks ==
  Quiet => \A k \in Nicks : Registered(k) => nick[registry[k]] = k

(* A session that ended stays in the registry, and its nick unusable, only *)
(* if it had changed nick after registration.                              *)
GhostOnlyAfterRename ==
  \A k \in Nicks :
    Registered(k) /\ phase[registry[k]] = "gone" => registry[k] \in renamed

(* A registered session that is still connected drops out of the registry  *)
(* only because another session carrying the same nick ended: removal is   *)
(* by nick, and no other interleaving loses an entry.                      *)
MissingOnlyByNamesake ==
  \A s \in Sessions :
    phase[s] = "open" /\ state[s] = "Registered" /\ registry[key[s]] # s =>
      \E u \in Sessions \ {s} : phase[u] \in {"leaving", "gone"} /\ nick[u] = key[s]

(* MONITOR loses no change: when no handler is running, a session that     *)
(* monitors a nick has been told its present status since the nick last    *)
(* came or went, however registration, removal and MONITOR interleave.     *)
MonitorNotLost ==
  Quiet =>
    \A w \in All, k \in Nicks :
      k \in monitor[w] => (IF Registered(k) THEN "online" ELSE "offline") \in news[w][k]
=============================================================================
