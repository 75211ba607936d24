------------------------------ MODULE IrcClient ------------------------------
(***************************************************************************)
(* The login of the IRC client library (irc/client/client.go): what Connect*)
(* sends and how the built-in handlers answer, as operators from the       *)
(* client's state to its next state and the lines it sends.                *)
(*                                                                         *)
(* A line is [cmd, sub, caps, n]: the command, the subcommand or chunk,    *)
(* the capabilities and the nick.  A nick is the number of underscores     *)
(* that collisions put behind the configured one.  A chunk of an           *)
(* AUTHENTICATE is "full" (400 bytes), "long" or "short" (fewer: more than *)
(* or within what the server's limit leaves behind the last full chunk it  *)
(* takes) or "+" (none).                                                   *)
(***************************************************************************)
EXTENDS Integers, Sequences

Msg(cmd, sub, caps, n) == [cmd |-> cmd, sub |-> sub, caps |-> caps, n |-> n]
Line(cmd) == Msg(cmd, "", {}, 0)
Answer(c, msgs) == [c |-> c, msgs |-> msgs]

(* A Config says: the capabilities wanted besides sasl, the SASL mechanism *)
(* ("none"), whether a server password is sent, whether the credentials    *)
(* are right, the full chunks of their encoding, and its last chunk.       *)
New == [phase |-> "idle", adv |-> {}, enabled |-> {}, mech |-> FALSE, nick |-> 0,
        loggedIn |-> FALSE]

(* Connect, without the dialling.  The nick of the last login is kept.     *)
Connect(c, f) ==
  Answer([New EXCEPT !.phase = "ls", !.nick = c.nick],
         <<Msg("CAP", "LS", {}, 0)>>
           \o (IF f.pass THEN <<Line("PASS")>> ELSE <<>>)
           \o <<Msg("NICK", "", {}, 0), Line("USER")>>)

(* The mechanisms of the server's sasl capability decide whether to ask    *)
(* for it.                                                                 *)
capWantList(c, f, mechanisms) ==
  {cap \in (f.want \cup (IF f.sasl = "none" THEN {} ELSE {"sasl"})) \cap c.adv :
     cap \notin c.enabled /\ (cap = "sasl" => f.sasl \in mechanisms)}

capEnd(c) == Answer([c EXCEPT !.phase = "done"], <<Msg("CAP", "END", {}, 0)>>)

startSASL(c, f) ==
  Answer([c EXCEPT !.phase = IF @ = "done" THEN @ ELSE "sasl", !.mech = TRUE],
         <<Msg("AUTHENTICATE", f.sasl, {}, 0)>>)

(* A line of CAP LS; "*" announces more.                                   *)
onLS(c, f, m, mechanisms) ==
  LET heard == [c EXCEPT !.adv = @ \cup m.caps]
      ready == [heard EXCEPT !.enabled = @ \cup {"cap-notify"}]
      want  == capWantList(ready, f, mechanisms)
  IN  IF m.sub = "LS*" THEN Answer(heard, <<>>)
      ELSE IF want = {} THEN capEnd(ready)
      ELSE Answer([ready EXCEPT !.phase = "req"], <<Msg("CAP", "REQ", want, 0)>>)

(* Fault: what was acknowledged is not recorded once SASL has to start.    *)
onACKForgets(c, f, m) ==
  IF "sasl" \in m.caps /\ f.sasl # "none" THEN startSASL(c, f)
  ELSE capEnd([c EXCEPT !.enabled = @ \cup m.caps])

onACK(c, f, m) ==
  LET start == "sasl" \in m.caps \ c.enabled /\ f.sasl # "none"
      d     == [c EXCEPT !.enabled = @ \cup m.caps]
  IN  CASE c.phase = "sasl" -> Answer(d, <<>>)
        [] c.phase # "sasl" /\ start -> startSASL(d, f)
        [] c.phase = "done" /\ ~start -> Answer(d, <<>>)
        [] OTHER -> capEnd(d)

onNAK(c) == IF c.phase \in {"done", "sasl"} THEN Answer(c, <<>>) ELSE capEnd(c)

(* NEW and DEL are not sent by the server of this repository.              *)
handleCAP(c, f, m, mechanisms) ==
  CASE m.sub \in {"LS", "LS*"} -> onLS(c, f, m, mechanisms)
    [] m.sub = "ACK" -> onACK(c, f, m)
    [] m.sub = "NAK" -> onNAK(c)
    [] OTHER -> Answer(c, <<>>)

(* PLAIN answers the empty challenge with its one message, in chunks.      *)
handleAuthenticate(c, f) ==
  IF ~c.mech THEN Answer(c, <<>>)
  ELSE Answer(c, [i \in 1..(f.full + 1) |->
         Msg("AUTHENTICATE",
             IF i <= f.full THEN "full" ELSE f.rest, {}, 0)])

handleSASLEnd(c) ==
  LET d == [c EXCEPT !.mech = FALSE]
  IN  IF d.phase = "done" THEN Answer(d, <<>>) ELSE capEnd(d)

(* Fault: the nick that was refused is asked for again.                    *)
handleNickInUseSame(c) == Answer(c, <<Msg("NICK", "", {}, c.nick)>>)

(* The nick of the client stays as it is, so a second collision asks for   *)
(* the same nick again.                                                    *)
handleNickInUse(c) == Answer(c, <<Msg("NICK", "", {}, c.nick + 1)>>)

handleWelcome(c, m) == Answer([c EXCEPT !.nick = m.n, !.loggedIn = TRUE], <<>>)

dispatch(c, f, m, mechanisms) ==
  CASE m.cmd = "CAP" -> handleCAP(c, f, m, mechanisms)
    [] m.cmd = "AUTHENTICATE" -> handleAuthenticate(c, f)
    [] m.cmd \in {"902", "903", "904", "905", "906", "907"} -> handleSASLEnd(c)
    [] m.cmd = "433" -> handleNickInUse(c)
    [] m.cmd = "001" -> handleWelcome(c, m)
    [] OTHER -> Answer(c, <<>>)
=============================================================================
