------------------------------- MODULE Bouncer -------------------------------
(***************************************************************************)
(* One network of the bouncer (irc/bouncer/bouncer.go): the goroutine that *)
(* reads the upstream connection keeps the state of the channels, stores   *)
(* messages and hands every line to the attached clients one after the     *)
(* other; one goroutine per client (run) registers it, attaches it,        *)
(* replays state and history to it and then forwards its commands.         *)
(*                                                                         *)
(* The history is the bounded log that MemoryStore implements.  A critical *)
(* section, and a send, is one step.  The upstream server is external: it  *)
(* announces to the bouncer what happens in the channels the bouncer is    *)
(* in.  Commands the clients forward show in what the person `me` does.    *)
(***************************************************************************)
EXTENDS Integers, FiniteSets, SequencesExt

CONSTANTS
  Downs,          \* connections of clients to the bouncer
  Scripts,        \* the sequences of lines each of them may send
  Unsteady,       \* bound: those that may stop reading and hang up
  Chans, Nicks,
  People, me,     \* those on the upstream network, the bouncer among them
  First,          \* the nick of each person at the start
  Present,        \* who may be in the channels at the start
  Users,          \* Config.Users: a name and its password
  Name,           \* the name of the network
  HistoryLimit,   \* HistoryConfig.Limit
  ReplayLimit,    \* chatHistoryLimit
  MaxEvents       \* bound: lines from upstream and losses of the connection

ASSUME BouncerAssumption ==
  /\ me \in People
  /\ First \in [People -> Nicks]
  /\ Present \subseteq [Chans -> SUBSET (People \ {me})]
  /\ HistoryLimit \in Nat \ {0} /\ ReplayLimit \in Nat \ {0}
  /\ MaxEvents \in Nat

VARIABLES
  up,       \* the upstream connection is registered
  world,    \* upstream: who is in which channel under which nick
  st,       \* NetworkState: nick, the members of the known channels, queries
  log,      \* history.Store: messages of each target
  said,     \* the target of every message stored, in the order of storing
  hp,       \* the upstream goroutine: what it does with which message
  downs,    \* Network.downstreams
  ds,       \* the client sessions
  fatal     \* the runtime found a map written while another goroutine used it

vars == <<up, world, st, log, said, hp, downs, ds, fatal>>

Targets == Chans \cup Nicks
H == INSTANCE BoundedLog WITH Keys <- Targets, Entries <- Nat, Limit <- HistoryLimit

NoChannel == [known |-> FALSE, members |-> {}]
Idle == [at |-> "idle", cmd |-> "", id |-> 0, to |-> <<>>]

newDownstreamSession(input) ==
  [at |-> "reg", conn |-> "open", input |-> input, nick |-> FALSE, user |-> FALSE, pass |-> <<>>,
   capDone |-> TRUE, caps |-> {}, v302 |-> FALSE,
   todo |-> {}, now |-> "none", batch |-> <<>>, full |-> {}, live |-> {}, replayed |-> {}]

Init ==
  /\ up = FALSE
  /\ \E f \in Present :
       world = [in |-> f, nick |-> First,
                events |-> 0, astray |-> {}, unheard |-> [c \in Chans |-> {}]]
  /\ st = [nick |-> "none", chans |-> [c \in Chans |-> NoChannel], queries |-> {}]
  /\ H!Init
  /\ said = <<>>
  /\ hp = Idle
  /\ downs = <<>>
  /\ \E f \in [Downs -> UNION {Scripts[d] : d \in Downs}] :
       /\ \A d \in Downs : f[d] \in Scripts[d]
       /\ ds = [d \in Downs |-> newDownstreamSession(f[d])]
  /\ fatal = FALSE
-----------------------------------------------------------------------------
(* The upstream goroutine.                                                 *)

(* Client.Connect through 001: the nick is the configured one.             *)
Connect ==
  /\ ~up /\ hp = Idle
  /\ up' = TRUE
  /\ world' = [world EXCEPT !.nick[me] = First[me]]
  /\ st' = [st EXCEPT !.nick = First[me]]
  /\ \A p \in People \ {me} : world.nick[p] # First[me]
  /\ UNCHANGED <<log, said, hp, downs, ds, fatal>>

(* Channels whose list may hold someone who left unheard of.               *)
Astray(w, cs) ==
  [w EXCEPT !.astray = @ \cup cs, !.unheard = [c \in Chans |-> IF c \in cs THEN {} ELSE @[c]]]

(* The read loop ends, Connect returns, and is called again later.  The    *)
(* state stays as it was.                                                  *)
Lose ==
  /\ up /\ hp = Idle /\ world.events < MaxEvents
  /\ up' = FALSE
  /\ world' = [Astray(world, Chans) EXCEPT !.in = [c \in Chans |-> @[c] \ {me}], !.events = @ + 1]
  /\ UNCHANGED <<st, log, said, hp, downs, ds, fatal>>

(* The members of the channels that are known.                             *)
SetMembers(s, members) ==
  [s EXCEPT !.chans = [c \in Chans |->
     IF @[c].known THEN [@[c] EXCEPT !.members = members[c]] ELSE @[c]]]
Without(s, nick) == [c \in Chans |-> s.chans[c].members \ {nick}]

OnJoin(s, nick, ch) ==
  [s EXCEPT !.chans[ch] = [known |-> TRUE, members |-> @.members \cup {nick}]]
OnPartOrQuit(s, nick) == SetMembers(s, Without(s, nick))

(* Fault: the new nick is entered only for the bouncer's own connection.   *)
OnNickForgets(s, nick, new) ==
  LET t == SetMembers(s, Without(s, nick))
  IN  IF s.nick = nick THEN [t EXCEPT !.nick = new] ELSE t

OnNick(s, nick, new) ==
  LET t == SetMembers(s, [c \in Chans |->
             Without(s, nick)[c] \cup (IF nick \in s.chans[c].members THEN {new} ELSE {})])
  IN  IF s.nick = nick THEN [t EXCEPT !.nick = new] ELSE t

(* A map of members may be iterated by a client's replay, without the lock.*)
Iterated == \E d \in Downs : ds[d].at = "replay" /\ ds[d].todo # {}

(* handleUpstream, up to the end of the state update, and what upstream    *)
(* announced with it.                                                      *)
Handles(cmd, w, s) ==
  /\ up /\ hp = Idle /\ world.events < MaxEvents
  /\ world' = [w EXCEPT !.events = @ + 1]
  /\ st' = s
  /\ hp' = [Idle EXCEPT !.at = "fanOut", !.cmd = cmd]
  /\ fatal' \in {FALSE, Iterated /\ s.chans # st.chans}
  /\ UNCHANGED <<up, log, said, downs, ds>>

Sees(p) == \E c \in Chans : {p, me} \subseteq world.in[c]
Free(n) == \A p \in People : world.nick[p] # n

Join(p, c) ==
  /\ p \notin world.in[c] /\ (p = me \/ me \in world.in[c])
  /\ Handles("JOIN",
       [world EXCEPT !.in[c] = @ \cup {p},
                     !.unheard[c] = IF p = me /\ c \notin world.astray THEN world.in[c] ELSE @],
       OnJoin(st, world.nick[p], c))

Part(p, c) ==
  /\ {p, me} \subseteq world.in[c]
  /\ Handles("PART",
       [Astray(world, {c} \cap {x \in Chans : p = me}) EXCEPT
          !.in[c] = @ \ {p},
          !.unheard = [x \in Chans |-> IF x # c /\ p \in world.in[x] /\ x \notin world.astray
                                         THEN @[x] \cup {p} ELSE @[x] \ {p}]],
       OnPartOrQuit(st, world.nick[p]))

(* handleUpstream has no case for KICK.                                    *)
Kick(p, c) ==
  /\ {p, me} \subseteq world.in[c]
  /\ Handles("KICK",
       [Astray(world, {c}) EXCEPT !.in[c] = @ \ {p}], st)

Quit(p) ==
  /\ p # me /\ Sees(p)
  /\ Handles("QUIT", [world EXCEPT !.in = [c \in Chans |-> @[c] \ {p}],
                                   !.unheard = [c \in Chans |-> @[c] \ {p}]],
       OnPartOrQuit(st, world.nick[p]))

NickChange(p, n) ==
  /\ (p = me \/ Sees(p)) /\ Free(n)
  /\ Handles("NICK", [world EXCEPT !.nick[p] = n], OnNick(st, world.nick[p], n))

(* AWAY and the other notices that change nothing.                         *)
Notice(p) == Sees(p) /\ p # me /\ Handles("AWAY", world, st)

(* What happens in a channel while the bouncer is away from it (before it  *)
(* first comes, anyone may be there).                                      *)
Elsewhere(p, c) ==
  /\ p # me /\ me \notin world.in[c] /\ c \in world.astray
  /\ world.events < MaxEvents
  /\ world' = [world EXCEPT !.events = @ + 1,
                 !.in[c] = IF p \in @ THEN @ \ {p} ELSE @ \cup {p}]
  /\ UNCHANGED <<up, st, log, said, hp, downs, ds, fatal>>

(* A message for the bouncer's nick is filed under its sender.             *)
Target(to, nick) == IF to = st.nick THEN nick ELSE to

(* PRIVMSG and NOTICE, up to the end of Append; the id stands for the      *)
(* message and its msgid.                                                  *)
Privmsg(p, to) ==
  /\ up /\ hp = Idle /\ world.events < MaxEvents
  /\ p # me /\ (to = world.nick[me] \/ (to \in Chans /\ {p, me} \subseteq world.in[to]))
  /\ LET target == Target(to, world.nick[p])
         id     == Len(said) + 1
     IN  /\ st' = IF to \in Chans THEN st ELSE [st EXCEPT !.queries = @ \cup {target}]
         /\ H!Append1(target, id)
         /\ said' = Append(said, target)
         /\ hp' = [Idle EXCEPT !.at = "fanOut", !.cmd = "PRIVMSG", !.id = id]
  /\ world' = [world EXCEPT !.events = @ + 1]
  /\ UNCHANGED <<up, downs, ds, fatal>>

fanOut ==
  /\ hp.at = "fanOut"
  /\ hp' = IF downs = <<>> THEN Idle ELSE [hp EXCEPT !.at = "send", !.to = downs]
  /\ UNCHANGED <<up, world, st, log, said, downs, ds, fatal>>

(* A write blocks while the peer reads nothing; on a closed connection it  *)
(* fails, and the error is ignored.                                        *)
CanWrite(d) == ds[d].conn # "stalled"
Arrives(d) == ds[d].conn = "open"

(* Notices that need a capability are left out for clients without it.     *)
Passes(cmd, caps) == cmd = "AWAY" => "away-notify" \in caps

(* Fault: the goroutine waits for a client that hung up.                   *)
SendWaits ==
  /\ hp.at = "send"
  /\ LET d == Head(hp.to)
     IN  /\ Arrives(d)
         /\ ds' = [ds EXCEPT ![d].live = @ \cup ({hp.id} \ {0})]
  /\ hp' = IF Len(hp.to) = 1 THEN Idle ELSE [hp EXCEPT !.to = Tail(@)]
  /\ UNCHANGED <<up, world, st, log, said, downs, fatal>>

Send ==
  /\ hp.at = "send"
  /\ LET d == Head(hp.to)
     IN  /\ Passes(hp.cmd, ds[d].caps) => CanWrite(d)
         /\ ds' = IF Arrives(d) THEN [ds EXCEPT ![d].live = @ \cup ({hp.id} \ {0})] ELSE ds
  /\ hp' = IF Len(hp.to) = 1 THEN Idle ELSE [hp EXCEPT !.to = Tail(@)]
  /\ UNCHANGED <<up, world, st, log, said, downs, fatal>>
-----------------------------------------------------------------------------
(* The goroutine of a client.                                              *)

(* user/network:password, user:password or user; a token stands for a word *)
(* or a separator.                                                         *)
parseBouncerPass(t) ==
  LET index(x, from) == SelectInSubSeq(t, from, Len(t), LAMBDA y : y = x)
      slash == index("/", 1)
      colon == index(":", slash + 1)
      first == index(":", 1)
  IN  CASE slash # 0 /\ colon # 0 ->
             [user |-> SubSeq(t, 1, slash - 1), network |-> SubSeq(t, slash + 1, colon - 1),
              password |-> SubSeq(t, colon + 1, Len(t))]
        [] first # 0 ->
             [user |-> SubSeq(t, 1, first - 1), network |-> <<>>,
              password |-> SubSeq(t, first + 1, Len(t))]
        [] OTHER -> [user |-> t, network |-> <<>>, password |-> <<>>]

authenticate(p) == \E u \in Users : <<u.name>> = p.user /\ <<u.password>> = p.password
getNetwork(p) == p.network \in {<<>>, <<Name>>}

supportedCaps == {"chathistory", "away-notify", "cap-notify"}

(* A line is [cmd, sub, add, del, pass]; sub, add and del are those of CAP.*)
handleCAP(s, l) ==
  CASE l.sub = "LS" -> [s EXCEPT !.capDone = FALSE, !.v302 = TRUE, !.caps = @ \cup {"cap-notify"}]
    [] l.sub = "REQ" /\ ~(l.add \cup l.del \subseteq supportedCaps) ->
         [s EXCEPT !.capDone = FALSE]
    [] l.sub = "REQ" ->
         [s EXCEPT !.capDone = FALSE,
                   !.caps = (@ \ {c \in l.del : c # "cap-notify" \/ ~s.v302}) \cup l.add]
    [] l.sub = "END" -> [s EXCEPT !.capDone = TRUE]
    [] OTHER -> s

registering(s, l) ==
  CASE l.cmd = "CAP" -> handleCAP(s, l)
    [] l.cmd = "PASS" -> [s EXCEPT !.pass = l.pass]
    [] l.cmd = "NICK" -> [s EXCEPT !.nick = TRUE]
    [] l.cmd = "USER" -> [s EXCEPT !.user = TRUE]
    [] OTHER -> s

(* Fault: the slice of the clients is replaced, not extended.              *)
AttachAlone(d) == downs' = <<d>>

attach(d) == downs' = Append(downs, d)

detach(d) == downs' = SelectSeq(downs, LAMBDA e : e # d)

Gone == [newDownstreamSession(<<>>) EXCEPT !.at = "gone", !.conn = "broken"]

Ready(s) == s.nick /\ s.user /\ s.capDone

(* The registration phase on the lines of a script, up to the first after  *)
(* which all is there; the lines touch nothing but the session.            *)
Registration ==
  [x \in UNION {Scripts[d] : d \in Downs} |->
     LET after(k) == FoldLeft(registering, newDownstreamSession(x), SubSeq(x, 1, k))
         enough   == {k \in 1..Len(x) : Ready(after(k))}
         s        == [after(Min(enough)) EXCEPT !.input = SubSeq(x, Min(enough) + 1, Len(x))]
         p        == parseBouncerPass(s.pass)
     IN  IF enough = {} THEN newDownstreamSession(x)
         ELSE IF authenticate(p) /\ getNetwork(p) THEN [s EXCEPT !.at = "welcome"]
         ELSE Gone]

Register(d) ==
  /\ ds[d].at = "reg" /\ Arrives(d)
  /\ LET s == Registration[ds[d].input]
     IN  /\ s.at # "reg"
         /\ ds' = [ds EXCEPT ![d] = s]
         /\ IF s.at = "welcome" THEN attach(d) ELSE UNCHANGED downs
  /\ UNCHANGED <<up, world, st, log, said, hp, fatal>>

Step(d, s) ==
  /\ ds' = [ds EXCEPT ![d] = s]
  /\ UNCHANGED <<up, world, st, log, said, hp, downs, fatal>>

Replaying(s, todo) ==
  [s EXCEPT !.todo = todo, !.now = "none", !.batch = <<>>,
            !.at = IF todo = {} THEN "proxy" ELSE "replay"]

(* The welcome, and the snapshot of the channels replayState starts with.  *)
Welcome(d) ==
  /\ ds[d].at = "welcome" /\ CanWrite(d)
  /\ Step(d, Replaying(ds[d], {c \in Chans : st.chans[c].known}))

(* JOIN, no topic, NAMES; without chathistory, the query for the history.  *)
ReplayChannel(d, c) ==
  /\ ds[d].at = "replay" /\ c \in ds[d].todo /\ CanWrite(d)
  /\ Step(d, IF "chathistory" \in ds[d].caps THEN Replaying(ds[d], ds[d].todo \ {c})
             ELSE [ds[d] EXCEPT !.at = "history", !.now = c,
                                !.batch = H!LastN(log[c], ReplayLimit)])

sendHistory(d) ==
  /\ ds[d].at = "history" /\ CanWrite(d)
  /\ LET s == [ds[d] EXCEPT !.full = @ \cup {ds[d].now},
                            !.replayed = @ \cup ToSet(ds[d].batch)]
     IN  Step(d, Replaying(s, s.todo \ {s.now}))

(* CAP after registration, on the map of capabilities that a send to the   *)
(* client reads without a lock.  CHATHISTORY only reads (module            *)
(* ChatHistory); all else is forwarded.                                    *)
Proxy(d) ==
  /\ ds[d].at = "proxy" /\ Arrives(d) /\ ds[d].input # <<>>
  /\ LET l == Head(ds[d].input)
         s == IF l.cmd = "CAP" THEN handleCAP(ds[d], l) ELSE ds[d]
     IN  ds' = [ds EXCEPT ![d] = [s EXCEPT !.capDone = TRUE, !.input = Tail(@)]]
  /\ fatal' \in {FALSE, hp.at = "send" /\ Head(hp.to) = d /\ ds'[d].caps # ds[d].caps}
  /\ UNCHANGED <<up, world, st, log, said, hp, downs>>

(* The scanner ends: detach if attached, close.                            *)
Leave(d) ==
  /\ ds[d].at \in {"reg", "proxy"} /\ ds[d].conn = "broken"
  /\ ds' = [ds EXCEPT ![d] = Gone]
  /\ detach(d)
  /\ UNCHANGED <<up, world, st, log, said, hp, fatal>>

(* The client: stops reading, reads on, hangs up.                          *)
Peer(d) ==
  /\ d \in Unsteady /\ ds[d].at # "gone"
  /\ \/ ds[d].conn = "open" /\ Step(d, [ds[d] EXCEPT !.conn = "stalled"])
     \/ ds[d].conn = "stalled" /\ Step(d, [ds[d] EXCEPT !.conn = "open"])
     \/ ds[d].conn # "broken" /\ Step(d, [ds[d] EXCEPT !.conn = "broken"])
-----------------------------------------------------------------------------
Upstream ==
  \/ Connect \/ Lose
  \/ \E p \in People, c \in Chans : Join(p, c) \/ Part(p, c) \/ Kick(p, c) \/ Elsewhere(p, c)
  \/ \E p \in People : Quit(p) \/ Notice(p)
  \/ \E p \in People, n \in Nicks : NickChange(p, n)
  \/ \E p \in People, t \in Targets : Privmsg(p, t)

Handing == fanOut \/ Send

Client(d) ==
  \/ Register(d) \/ Welcome(d) \/ sendHistory(d) \/ Proxy(d) \/ Leave(d)
  \/ \E c \in Chans : ReplayChannel(d, c)

Next ==
  /\ ~fatal
  /\ \/ Upstream \/ Handing
     \/ \E d \in Downs : Client(d) \/ Peer(d)

(* The goroutines run; clients and upstream do as they like.               *)
Fairness == WF_vars(~fatal /\ Handing) /\ \A d \in Downs : WF_vars(~fatal /\ Client(d))

Spec == Init /\ [][Next]_vars /\ Fairness
-----------------------------------------------------------------------------
(* A message is on its way to d while it is stored or handed out.          *)
Pending(d, i) ==
  hp.id = i /\ (hp.at = "fanOut" \/ \E k \in DOMAIN hp.to : hp.to[k] = d)

(* A client that does without CHATHISTORY misses nothing of a channel it   *)
(* was shown: of the messages handled so far it has the last ones, without *)
(* a gap, and at least as many as are replayed, however its attach, the    *)
(* replay query and the goroutine that stores and hands out interleave.    *)
(* (Some it may see twice.)                                                *)
NoGap ==
  \A d \in Downs : ds[d].at = "proxy" /\ ds[d].conn # "broken" =>
    \A c \in ds[d].full :
      LET all     == {i \in DOMAIN said : said[i] = c}
          seen    == all \cap (ds[d].live \cup ds[d].replayed)
          handled == seen \cup {i \in all : ~Pending(d, i)}
      IN  /\ \A i \in seen, j \in handled \ seen : j < i
          /\ Cardinality(seen) >= Min({Cardinality(handled), HistoryLimit, ReplayLimit})

(* The member list of a channel, which replay sends to a client, is exactly*)
(* who is there, less those who were there before the bouncer came (NAMES  *)
(* is not read) or have left some other channel since they came (PART      *)
(* forgets them everywhere).  After a KICK, a lost connection or an absence*)
(* of the bouncer the list may be anything.                                *)
Roster ==
  \A c \in Chans \ world.astray : me \in world.in[c] =>
    st.chans[c].members = {world.nick[p] : p \in world.in[c] \ world.unheard[c]}

(* Every line from upstream is handed out to the end, unless a client that *)
(* is still to get it has stopped reading (or the process is gone): the    *)
(* goroutine writes to one client after the other without a deadline.      *)
HandedOut ==
  hp.at # "idle" ~> \/ hp.at = "idle" \/ fatal
                    \/ \E k \in DOMAIN hp.to : ds[hp.to[k]].conn = "stalled"
=============================================================================
