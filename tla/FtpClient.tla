------------------------------- MODULE FtpClient -------------------------------
(***************************************************************************)
(* The FTP client library (ftp/client, ftp/client/ftps) talking to the     *)
(* server of module FtpServer.  A method of the client is a script: each   *)
(* command is sent by Do, which then reads one reply, whichever command    *)
(* that reply answers; the codes decide whether the method sends its next  *)
(* command, returns success, or returns an error.                          *)
(***************************************************************************)
EXTENDS FtpServer

CONSTANTS
  Calls,         \* the calls a user makes: <<method, argument, ...>>
  MaxCommands,   \* a user makes no call after that many commands
  MaxTimeouts    \* how many reads of a client time out

ASSUME ClientAssumption == MaxCommands \in [Conns -> Nat] /\ MaxTimeouts \in [Conns -> Nat]

VARIABLE cl      \* per connection: at, call, i, n, port, late, hist

vars == <<serverVars, cl>>

(* late counts the reads that timed out; hist remembers whether a 150 was  *)
(* read, a method succeeded on the reply to another command, a transfer    *)
(* method succeeded.                                                       *)
Init ==
  /\ ServerInit
  /\ cl = [c \in Conns |-> [at |-> "new", call |-> <<"New">>, i |-> 1, n |-> 0,
                            port |-> 0, late |-> 0, hist |-> {}]]
-----------------------------------------------------------------------------
(* The scripts                                                             *)

Positive == 200..399                       \* Reply.Positive

Cmd(name, arg, go, ok) == [name |-> name, arg |-> arg, go |-> go, ok |-> ok]
Last1(name, arg, ok) == <<Cmd(name, arg, {}, ok)>>

Or(x, default) == IF x = "" THEN default ELSE x

Login(user, pass) ==
  <<Cmd("USER", <<Or(user, "anonymous")>>, {331, 332}, {230}),
    Cmd("PASS", <<Or(pass, "anonymous@")>>, {}, Positive)>>

Rename(from, to) ==
  <<Cmd("RNFR", <<from>>, {250, 350}, {}), Cmd("RNTO", <<to>>, {}, Positive)>>

(* ParseEPSVReply and ParsePASVReply want their own code.                  *)
Pasv == Last1("PASV", <<>>, {227})
Epsv == <<Cmd("EPSV", <<>>, {500, 502}, {229})>> \o Pasv

(* Fault: the data channel is asked for before the transfer.               *)
TransferAfterEpsv(name, path) ==
  <<Cmd("EPSV", <<>>, {229}, {}), Cmd(name, <<path>>, {}, {150})>>

(* Retr, Stor, List: the data channel is set up after the 150.             *)
Transfer(name, path) == <<Cmd(name, <<path>>, {150}, {})>> \o Epsv
Transfers == {"RETR", "STOR", "LIST"}

(* ftps.Connect; PBSZ and PROT are methods of the client.                  *)
Connect(explicit, level, user, pass) ==
  (IF explicit = "explicit" THEN <<Cmd("AUTH", <<"TLS">>, {234}, {})>> ELSE <<>>)
  \o <<Cmd("PBSZ", <<"0">>, Positive, {}), Cmd("PROT", <<level>>, Positive, {})>>
  \o Login(user, pass)

(* The remaining methods send one command: what each takes for success.    *)
(* Size finds no number, for the scanner puts the text of a reply in Lines *)
(* and Size reads Text.                                                    *)
FileMethods == [PWD |-> {257}, CWD |-> Positive, MKD |-> {257}, RMD |-> Positive,
                DELE |-> Positive]
InfoMethods == [FEAT |-> 100..599, SIZE |-> {}, MDTM |-> {213}, TYPE |-> Positive]
SetupMethods == [PORT |-> Positive, EPRT |-> Positive, REST |-> Positive, NOOP |-> Positive]
OptionMethods == [PROT |-> Positive, PBSZ |-> Positive, OPTS |-> Positive]
Methods == FileMethods @@ InfoMethods @@ SetupMethods @@ OptionMethods

(* The script of a call.  Do itself judges no reply; New and ReadReply     *)
(* read one without sending a command.                                     *)
Script(call) ==
  LET m == call[1]
  IN  CASE m \in DOMAIN Methods -> Last1(m, Tail(call), Methods[m])
        [] m \in Transfers -> Transfer(m, call[2])
        [] m = "Login" -> Login(call[2], call[3])
        [] m = "Rename" -> Rename(call[2], call[3])
        [] m = "Pasv" -> Pasv
        [] m = "Epsv" -> Epsv
        [] m = "Connect" -> Connect(call[2], call[3], call[4], call[5])
        [] m = "Do" -> Last1(call[2], Tail(Tail(call)), {})
        [] m = "New" -> Last1("", <<>>, {220})
        [] OTHER -> Last1("", <<>>, {})
-----------------------------------------------------------------------------
(* The steps of a client                                                   *)

(* The server has closed the connection.                                   *)
Over(c) == at[c] \in {"refused", "leave", "done", "ended"}

Waits(c) == cl[c].at = "wait"
Current(c) == Script(cl[c].call)[cl[c].i]

(* SendCommand                                                             *)
Sent(q, step, n) == [q EXCEPT !.cmds = Append(@, [name |-> step.name, arg |-> step.arg, n |-> n])]

(* New dials, and waits for the greeting.                                  *)
Dial(c) ==
  /\ cl[c].at = "new"
  /\ Accept(c)
  /\ cl' = [cl EXCEPT ![c].at = "wait"]

(* The user calls a method; ftps.Connect is how a client begins.  Left out *)
(* are calls on a connection that is over, which only fail.                *)
Call(c) ==
  /\ cl[c].at = "idle" /\ ~Over(c)
  /\ \E call \in Calls :
       LET step == Script(call)[1]
           sends == step.name # ""
       IN  /\ cl[c].n < MaxCommands[c]
           /\ call[1] = "Connect" => cl[c].n = 0
           /\ cl' = [cl EXCEPT ![c].at = "wait", ![c].call = call, ![c].i = 1,
                               ![c].n = IF sends THEN @ + 1 ELSE @]
           /\ ctl' = IF sends THEN [ctl EXCEPT ![c] = Sent(@, step, cl[c].n + 1)] ELSE ctl
  /\ UNCHANGED <<at, sess, cmd, peer, lns, backlog, feed, sessCnt, wg, down, handed>>

(* The client without its connection, and the connection without it.       *)
Gone(k) == [k EXCEPT !.at = "closed", !.i = 1, !.call = <<"New">>, !.n = 0, !.port = 0]
Cut(q) == [q EXCEPT !.cut = TRUE, !.replies = <<>>]
QuitAndCut(c, q) == Cut(IF Over(c) THEN q ELSE Sent(q, Cmd("QUIT", <<>>, {}, {}), 0))
Left(c, q) ==
  CASE cl'[c].at # "closed" -> q
    [] cl[c].call[1] = "Connect" -> QuitAndCut(c, q)
    [] OTHER -> Cut(q)

(* What a method leaves behind when it returns.  Connect and New give the  *)
(* connection up when they fail, Connect after a QUIT.                     *)
Return(c, ok) ==
  LET gone == ~ok /\ cl[c].call[1] \in {"New", "Connect"}
  IN  IF gone THEN Gone(cl[c]) ELSE [cl[c] EXCEPT !.at = "idle", !.i = 1, !.call = <<"New">>]

(* readReply gives the next reply.                                         *)
ReadReply(c) ==
  /\ Waits(c) /\ ctl[c].replies # <<>>
  /\ LET r == Head(ctl[c].replies)
         step == Current(c)
         ok == r.code \in step.ok
         own == r.n = cl[c].n
         q == [ctl[c] EXCEPT !.replies = Tail(@)]
         pt == IF r.code \in step.ok \cup step.go /\ r.port # 0 THEN r.port ELSE cl[c].port
         hist == cl[c].hist
                 \cup (IF r.code = 150 THEN {"open"} ELSE {})
                 \cup (IF ok /\ ~own THEN {"astray"} ELSE {})
                 \cup (IF ok /\ cl[c].call[1] \in Transfers THEN {"reader"} ELSE {})
     IN  IF r.code \in step.go
         THEN /\ cl' = [cl EXCEPT ![c].i = @ + 1, ![c].n = @ + 1, ![c].port = pt,
                                  ![c].hist = hist]
              /\ ctl' = [ctl EXCEPT ![c] = Sent(q, Script(cl[c].call)[cl[c].i + 1], cl[c].n + 1)]
         ELSE LET back == Return(c, ok)
              IN  /\ cl' = [cl EXCEPT ![c] = [back EXCEPT !.hist = hist,
                              !.port = IF back.at = "idle" THEN pt ELSE @]]
                  /\ ctl' = [ctl EXCEPT ![c] = Left(c, q)]
  /\ UNCHANGED <<at, sess, cmd, peer, lns, backlog, feed, sessCnt, wg, down, handed>>

(* readReply fails: ReadTimeout expires, or the server has closed the      *)
(* connection.                                                             *)
ReadFails(c) ==
  /\ Waits(c) /\ ctl[c].replies = <<>>
  /\ Over(c) \/ cl[c].late < MaxTimeouts[c]
  /\ LET back == Return(c, FALSE)
     IN  /\ cl' = [cl EXCEPT ![c] = [back EXCEPT !.late = IF Over(c) THEN @ ELSE @ + 1]]
         /\ ctl' = [ctl EXCEPT ![c] = Left(c, @)]
  /\ UNCHANGED <<at, sess, cmd, peer, lns, backlog, feed, sessCnt, wg, down, handed>>

(* Close sends QUIT and does not wait for the reply.                       *)
Close(c) ==
  /\ cl[c].at = "idle"
  /\ cl' = [cl EXCEPT ![c] = Gone(@)]
  /\ ctl' = [ctl EXCEPT ![c] = QuitAndCut(c, @)]
  /\ UNCHANGED <<at, sess, cmd, peer, lns, backlog, feed, sessCnt, wg, down, handed>>

(* The user dials the port an Epsv or Pasv returned (once), and closes the *)
(* data connection.                                                        *)
DialData(c) ==
  /\ cl[c].at \in {"idle", "wait"} /\ cl[c].port \in lns /\ c \notin feed
  /\ backlog' = backlog \cup {<<cl[c].port, c>>}
  /\ feed' = feed \cup {c}
  /\ cl' = [cl EXCEPT ![c].port = 0]
  /\ UNCHANGED <<at, sess, cmd, peer, ctl, lns, sessCnt, wg, down, handed>>

CloseData(c) ==
  /\ c \in feed
  /\ feed' = feed \ {c}
  /\ UNCHANGED <<at, sess, cmd, peer, ctl, lns, backlog, sessCnt, wg, down, handed, cl>>

ClientStep(c) ==
  \/ Dial(c) \/ Call(c) \/ ReadReply(c) \/ ReadFails(c) \/ Close(c) \/ DialData(c) \/ CloseData(c)

Next ==
  \/ \E c \in Conns : ClientStep(c)
  \/ ServerStep /\ UNCHANGED cl

(* Goroutines run when they can.  No fairness for a client, a peer of a    *)
(* data connection, the collector or Shutdown.                             *)
Fairness ==
  \A c \in Conns : WF_vars((Admit(c) \/ Spawn(c) \/ SessionStep(c)) /\ UNCHANGED cl)

Spec == Init /\ [][Next]_vars /\ Fairness
-----------------------------------------------------------------------------
Running == {c \in Conns : at[c] \in {"greet", "read", "accept", "transfer", "leave", "done"}}
Counted == {c \in Running : at[c] # "done"} \cup {c \in Conns : at[c] = "counted"}

(* The connection limit holds and its counter is exact; when Shutdown has  *)
(* waited for the sessions, the only ones still running are connections    *)
(* that were between Accept and wg.Add when it closed the listener         *)
(* (server.go: serveLoop, Shutdown).                                       *)
Drained ==
  /\ MaxConnections > 0 => sessCnt = Cardinality(Counted) /\ sessCnt <= MaxConnections
  /\ wg = Cardinality(Running)
  /\ down = "done" => Running \subseteq handed

(* A method of the client succeeds on the reply to its own command, and    *)
(* leaves no reply behind, unless a read timed out or a 150 was read       *)
(* before: the reply that ends a transfer is then still to come            *)
(* (client.go: Do; data.go: Retr, Stor, List).                             *)
InStep ==
  \A c \in Conns : cl[c].late = 0 /\ "open" \notin cl[c].hist =>
    /\ "astray" \notin cl[c].hist
    /\ cl[c].at = "idle" /\ ~Over(c) =>
         at[c] = "read" /\ ctl[c].cmds = <<>> /\ ctl[c].replies = <<>>

(* Retr, Stor and List of the client never succeed with this server, not   *)
(* even on stale replies: they ask for the data channel after the 150,     *)
(* which the server sends only when it has the data connection, and which  *)
(* its closing reply follows (data.go: dialDataPassive; session.go: retr). *)
TransfersNeverMeet == \A c \in Conns : "reader" \notin cl[c].hist

(* A session whose client is gone ends, or waits for the data connection:  *)
(* for a peer that never dials, or in a transfer (session.go: serve,       *)
(* acceptData).                                                            *)
Waiting(c) ==
  \/ at[c] = "accept" /\ \A b \in backlog : b[1] # sess[c].passive
  \/ at[c] = "transfer"
SessionsEnd ==
  \A c \in Conns : ctl[c].cut ~> (at[c] \in {"refused", "ended"} \/ Waiting(c))
===============================================================================
