------------------------------- MODULE IrcLogin ------------------------------
(***************************************************************************)
(* The login of clients of module IrcClient at the server of this          *)
(* repository (irc/server/handlers.go: CAP, AUTHENTICATE, NICK, USER and   *)
(* tryRegister), over connections that may be lost and dialled again.  A   *)
(* session whose connection is lost still serves what it had received, is  *)
(* removed some time later, and until then holds its nick against the      *)
(* client that has come back.                                              *)
(*                                                                         *)
(* A handler is one step, but for the entry into the nick registry, which  *)
(* is a critical section of its own after the look-up of NICK.             *)
(***************************************************************************)
EXTENDS IrcClient, FiniteSets, SequencesExt

CONSTANTS
  Clients,
  Configs,       \* the configurations of each client and of its listener
  PerLine,       \* the capabilities that fit into one line of CAP LS
  MaxFull,       \* the full chunks that maxSASLPayload has room for
  Taken,         \* the nicks other sessions may hold at the start
  Lossy,         \* the clients whose connections may be lost
  MaxDials       \* bound: connections a client makes

ASSUME LoginAssumption ==
  /\ PerLine \in Nat \ {0} /\ MaxFull \in Nat
  /\ Lossy \subseteq Clients /\ MaxDials \in Nat
  /\ \A c \in Clients : \A f \in Configs[c] : f.full \in Nat

Nicks == 0..(MaxDials + 1)
Unset == -1
Nobody == "nobody"
Other == "other"    \* a session of the start
Dead == "dead"      \* a session of a lost connection

VARIABLES
  cfg,        \* the configurations; they do not change
  cl,         \* the clients
  conn,       \* the connections: up, and the lines under way in both directions
  dials,
  sess,       \* the server's session of the connection
  registry,   \* Registry.sessions: who holds a nick
  dying       \* sessions of lost connections, with what they still have to serve

vars == <<cfg, cl, conn, dials, sess, registry, dying>>

newSession == [state |-> "PreReg", nick |-> Unset, user |-> FALSE, caps |-> {},
               active |-> FALSE, buffer |-> 0, account |-> FALSE, adding |-> FALSE]
Closed == [up |-> FALSE, c2s |-> <<>>, s2c |-> <<>>]

Init ==
  /\ cfg \in {f \in [Clients -> UNION {Configs[c] : c \in Clients}] :
                \A c \in Clients : f[c] \in Configs[c]}
  /\ cl = [c \in Clients |-> New]
  /\ conn = [c \in Clients |-> Closed]
  /\ dials = [c \in Clients |-> 0]
  /\ sess = [c \in Clients |-> newSession]
  /\ \E t \in SUBSET Taken : registry = [n \in Nicks |-> IF n \in t THEN Other ELSE Nobody]
  /\ dying = {}
-----------------------------------------------------------------------------
(* The server's handlers: the session afterwards and the lines sent.       *)

(* sasl is offered on secure listeners of a server with accounts, sts      *)
(* where it is configured; the list is sorted.                             *)
supportedCaps(f) ==
  <<"batch", "cap-notify">> \o (IF f.secure THEN <<"sasl">> ELSE <<>>)
    \o (IF f.sts THEN <<"sts">> ELSE <<>>)

Reply(s, msgs) == [s |-> s, msgs |-> msgs]

(* tryRegister up to the registry.                                         *)
tryRegister(s) ==
  [s EXCEPT !.adding = s.state = "PreReg" /\ s.nick # Unset /\ s.user]

(* sendCAPList: all lines but the last are marked.                         *)
sendCAPList(caps) ==
  LET lines == (Len(caps) + PerLine - 1) \div PerLine
  IN  [i \in 1..lines |->
         Msg("CAP", IF i < lines THEN "LS*" ELSE "LS",
             {caps[j] : j \in {k \in DOMAIN caps : (k - 1) \div PerLine = i - 1}}, 0)]

Negotiating(s) == [s EXCEPT !.state = IF @ = "Registered" THEN @ ELSE "CapNeg"]

saslFailure(s, n) == Reply([s EXCEPT !.active = FALSE, !.buffer = 0], <<Line(n)>>)

(* CAP END while SASL is under way aborts it.                              *)
capEND(s) ==
  LET failed == IF s.active THEN saslFailure(s, "906") ELSE Reply(s, <<>>)
      pre    == IF s.state = "CapNeg" THEN "PreReg" ELSE s.state
  IN  Reply(tryRegister([failed.s EXCEPT !.state = pre]), failed.msgs)

(* The client sends neither LIST nor a REQ that takes a capability back.   *)
srvCAP(s, f, m) ==
  CASE m.sub = "LS" ->
         Reply([Negotiating(s) EXCEPT !.caps = @ \cup {"cap-notify"}], sendCAPList(supportedCaps(f)))
    [] m.sub = "REQ" ->
         IF m.caps \subseteq ToSet(supportedCaps(f)) \ {"sts"}
           THEN Reply([Negotiating(s) EXCEPT !.caps = @ \cup m.caps], <<Msg("CAP", "ACK", m.caps, 0)>>)
           ELSE Reply(Negotiating(s), <<Msg("CAP", "NAK", m.caps, 0)>>)
    [] m.sub = "END" -> capEND(s)

(* The last chunk ends the exchange; the password decides.                 *)
lastChunk(s, f) ==
  LET t == [s EXCEPT !.active = FALSE, !.buffer = 0]
  IN  IF f.good THEN Reply([t EXCEPT !.account = TRUE], <<Line("900"), Line("903")>>)
      ELSE Reply(t, <<Line("904")>>)

srvAuthenticate(s, f, m) ==
  CASE "sasl" \notin s.caps -> saslFailure(s, "904")
    [] ~s.active /\ s.account -> Reply(s, <<Line("907")>>)
    [] ~s.active /\ m.sub # "PLAIN" -> Reply([s EXCEPT !.buffer = 0], <<Line("908"), Line("904")>>)
    [] ~s.active -> Reply([s EXCEPT !.active = TRUE, !.buffer = 0], <<Msg("AUTHENTICATE", "+", {}, 0)>>)
    [] m.sub \in {"full", "long"} /\ s.buffer = MaxFull -> saslFailure(s, "905")
    [] m.sub = "full" -> Reply([s EXCEPT !.buffer = @ + 1], <<>>)
    [] OTHER -> lastChunk(s, f)

(* PASS is ignored before registration.  A nick is refused when it is in   *)
(* the registry and not the session's own.                                 *)
handle(s, f, m) ==
  CASE m.cmd = "CAP" -> srvCAP(s, f, m)
    [] m.cmd = "AUTHENTICATE" -> srvAuthenticate(s, f, m)
    [] m.cmd = "NICK" /\ registry[m.n] # Nobody /\ m.n # s.nick -> Reply(s, <<Line("433")>>)
    [] m.cmd = "NICK" -> Reply(tryRegister([s EXCEPT !.nick = m.n]), <<>>)
    [] m.cmd = "USER" -> Reply(tryRegister([s EXCEPT !.user = TRUE]), <<>>)
    [] OTHER -> Reply(s, <<>>)

(* Registry.Add and the rest of tryRegister: the welcome, or 433.          *)
enter(s) ==
  IF registry[s.nick] = Nobody
    THEN Reply([s EXCEPT !.state = "Registered", !.adding = FALSE], <<Msg("001", "", {}, s.nick)>>)
    ELSE Reply([s EXCEPT !.nick = Unset, !.adding = FALSE], <<Line("433")>>)

Entered(s, who) ==
  registry' = [registry EXCEPT ![s.nick] = IF @ = Nobody THEN who ELSE @]

Serve(c) ==
  /\ conn[c].c2s # <<>> /\ ~sess[c].adding
  /\ LET r == handle(sess[c], cfg[c], Head(conn[c].c2s))
     IN  /\ sess' = [sess EXCEPT ![c] = r.s]
         /\ conn' = [conn EXCEPT ![c].c2s = Tail(@), ![c].s2c = @ \o r.msgs]
  /\ UNCHANGED <<cfg, cl, dials, registry, dying>>

Add(c) ==
  /\ sess[c].adding
  /\ LET r == enter(sess[c])
     IN  /\ sess' = [sess EXCEPT ![c] = r.s]
         /\ conn' = [conn EXCEPT ![c].s2c = @ \o r.msgs]
  /\ Entered(sess[c], c)
  /\ UNCHANGED <<cfg, cl, dials, dying>>

(* A session without a client goes on until it reads the end.              *)
ServeDead(d) ==
  /\ d.c2s # <<>> /\ ~d.s.adding
  /\ dying' = (dying \ {d}) \cup
       {[d EXCEPT !.s = handle(d.s, cfg[d.client], Head(d.c2s)).s, !.c2s = Tail(@)]}
  /\ UNCHANGED <<cfg, cl, conn, dials, sess, registry>>

AddDead(d) ==
  /\ d.s.adding
  /\ dying' = (dying \ {d}) \cup {[d EXCEPT !.s = enter(d.s).s]}
  /\ Entered(d.s, Dead)
  /\ UNCHANGED <<cfg, cl, conn, dials, sess>>

(* The read fails: removeSession takes the nick from whoever holds it.     *)
removeSession(d) ==
  /\ ~d.s.adding
  /\ dying' = dying \ {d}
  /\ registry' = IF d.s.nick = Unset THEN registry
                 ELSE [registry EXCEPT ![d.s.nick] = Nobody]
  /\ UNCHANGED <<cfg, cl, conn, dials, sess>>

OtherLeaves(n) ==
  /\ registry[n] = Other
  /\ registry' = [registry EXCEPT ![n] = Nobody]
  /\ UNCHANGED <<cfg, cl, conn, dials, sess, dying>>
-----------------------------------------------------------------------------
Dial(c) ==
  /\ ~conn[c].up /\ dials[c] < MaxDials
  /\ LET a == Connect(cl[c], cfg[c])
     IN  /\ cl' = [cl EXCEPT ![c] = a.c]
         /\ conn' = [conn EXCEPT ![c] = [up |-> TRUE, c2s |-> a.msgs, s2c |-> <<>>]]
  /\ dials' = [dials EXCEPT ![c] = @ + 1]
  /\ UNCHANGED <<cfg, sess, registry, dying>>

readLoop(c) ==
  /\ conn[c].s2c # <<>>
  /\ LET a == dispatch(cl[c], cfg[c], Head(conn[c].s2c), {"PLAIN"})
     IN  /\ cl' = [cl EXCEPT ![c] = a.c]
         /\ conn' = [conn EXCEPT ![c].s2c = Tail(@), ![c].c2s = @ \o a.msgs]
  /\ UNCHANGED <<cfg, dials, sess, registry, dying>>

(* The client reads the end of the connection, and answers no more.        *)
Lose(c) ==
  /\ c \in Lossy /\ conn[c].up /\ dials[c] < MaxDials
  /\ conn' = [conn EXCEPT ![c] = Closed]
  /\ sess' = [sess EXCEPT ![c] = newSession]
  /\ dying' = dying \cup {[client |-> c, s |-> sess[c], c2s |-> conn[c].c2s]}
  /\ registry' = [n \in Nicks |-> IF registry[n] = c THEN Dead ELSE registry[n]]
  /\ UNCHANGED <<cfg, cl, dials>>

Step(c) == Serve(c) \/ Add(c) \/ readLoop(c)

Next ==
  \/ \E c \in Clients : Step(c) \/ Dial(c) \/ Lose(c)
  \/ \E d \in dying : ServeDead(d) \/ AddDead(d) \/ removeSession(d)
  \/ \E n \in Nicks : OtherLeaves(n)

(* Both read loops read on, and removals end.                              *)
Fairness ==
  /\ \A c \in Clients : WF_vars(Serve(c)) /\ WF_vars(Add(c)) /\ WF_vars(readLoop(c))
  /\ WF_vars(\E d \in dying : ServeDead(d) \/ AddDead(d) \/ removeSession(d))

Spec == Init /\ [][Next]_vars /\ Fairness
-----------------------------------------------------------------------------
(* Nothing is under way between a client and its session.                  *)
Quiet(c) == conn[c].up /\ conn[c].c2s = <<>> /\ conn[c].s2c = <<>> /\ ~sess[c].adding

(* When nothing is under way, a client and its session agree: on the       *)
(* capabilities, on the nick, on the end of the negotiation, and on the    *)
(* account, which a client that was granted SASL and has the right         *)
(* credentials of bearable length has, and no other.                       *)
Agree ==
  \A c \in Clients : Quiet(c) =>
    /\ cl[c].phase = "done" /\ ~cl[c].mech /\ ~sess[c].active
    /\ cl[c].enabled = sess[c].caps
    /\ cl[c].loggedIn /\ sess[c].state = "Registered" /\ cl[c].nick = sess[c].nick
    /\ sess[c].account <=>
         /\ "sasl" \in sess[c].caps /\ cfg[c].good /\ cfg[c].full <= MaxFull
         /\ cfg[c].full = MaxFull => cfg[c].rest # "long"

(* A client that stays connected is logged in, in the end, unless the one  *)
(* nick it asks for after a collision is taken for good: it puts one       *)
(* underscore behind the nick of its last login, every time, and never     *)
(* asks for the configured nick again.                                     *)
LoggedIn ==
  \A c \in Clients :
    <>[](conn[c].up /\ ~cl[c].loggedIn) => <>[](registry[cl[c].nick + 1] \notin {Nobody, c})
=============================================================================
