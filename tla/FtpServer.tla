------------------------------- MODULE FtpServer -------------------------------
(***************************************************************************)
(* The FTP server (ftp/server): the accept loop with its connection limit, *)
(* a goroutine per session that reads commands and serves them one at a    *)
(* time, the data connections, and Shutdown.  The control connection is a  *)
(* pair of queues; the client's side of it is module FtpClient.            *)
(*                                                                         *)
(* A step is one critical section of sessMu, one operation of the wait     *)
(* group, one command, or one call that may block.                         *)
(***************************************************************************)
EXTENDS FtpSession, FiniteSets, FiniteSetsExt

CONSTANTS
  Conns,            \* control connections
  Ports,            \* PassivePortRange
  MaxConnections    \* 0: unlimited

ASSUME ServerAssumption ==
  /\ Ports \subseteq Nat \ {Remote}
  /\ MaxConnections \in Nat

VARIABLES
  at,        \* where the goroutine of a connection is
  sess,      \* its session
  cmd,       \* the data command in progress
  peer,      \* whose data connection it uses
  ctl,       \* the control connection: cmds, replies, cut (closed by the client)
  lns,       \* the passive listeners: ports in use
  backlog,   \* connections that were not accepted yet: <<port, client>>
  feed,      \* connections whose client holds its end of a data connection open
  sessCnt,   \* Server.sessCnt
  wg,        \* Server.wg
  down,      \* Shutdown: "no", "waiting", "done"
  handed     \* history: connections in the accept loop's hand when Wait began

serverVars == <<at, sess, cmd, peer, ctl, lns, backlog, feed, sessCnt, wg, down, handed>>

NoCmd == [name |-> "", arg |-> <<>>, n |-> 0]

ServerInit ==
  /\ at = [c \in Conns |-> "none"]
  /\ sess = [c \in Conns |-> newSession]
  /\ cmd = [c \in Conns |-> NoCmd]
  /\ peer = [c \in Conns |-> c]
  /\ ctl = [c \in Conns |-> [cmds |-> <<>>, replies |-> <<>>, cut |-> FALSE]]
  /\ lns = {}
  /\ backlog = {}
  /\ feed = {}
  /\ sessCnt = 0
  /\ wg = 0
  /\ down = "no"
  /\ handed = {}

Goto(c, l) == at' = [at EXCEPT ![c] = l]

(* The reply to command n, if there still is a client to read it; pt is    *)
(* the port it announces.                                                  *)
Answer(q, n, code, pt) ==
  IF q.cut THEN q
  ELSE [q EXCEPT !.replies = Append(@, [code |-> code, n |-> n, port |-> pt])]
-----------------------------------------------------------------------------
(* serveLoop                                                               *)

InHand == {c \in Conns : at[c] \in {"hand", "counted"}}

Accept(c) ==
  /\ at[c] = "none" /\ InHand = {} /\ down = "no"
  /\ Goto(c, "hand")
  /\ UNCHANGED <<sess, cmd, ctl, peer, lns, backlog, feed, sessCnt, wg, down, handed>>

(* Fault: the limit is compared after the count was raised.                *)
FullLate == MaxConnections > 0 /\ sessCnt > MaxConnections

Full == MaxConnections > 0 /\ sessCnt >= MaxConnections

Admit(c) ==
  /\ at[c] = "hand"
  /\ IF Full THEN Goto(c, "refused") /\ UNCHANGED sessCnt
     ELSE /\ Goto(c, "counted")
          /\ sessCnt' = IF MaxConnections > 0 THEN sessCnt + 1 ELSE sessCnt
  /\ UNCHANGED <<sess, cmd, ctl, peer, lns, backlog, feed, wg, down, handed>>

(* wg.Add and the go statement.                                            *)
Spawn(c) ==
  /\ at[c] = "counted"
  /\ wg' = wg + 1
  /\ Goto(c, "greet")
  /\ UNCHANGED <<sess, cmd, ctl, peer, lns, backlog, feed, sessCnt, down, handed>>

(* The deferred functions of the goroutine, in their order.                *)
Uncount(c) ==
  /\ at[c] = "leave"
  /\ sessCnt' = IF MaxConnections > 0 THEN sessCnt - 1 ELSE sessCnt
  /\ Goto(c, "done")
  /\ UNCHANGED <<sess, cmd, ctl, peer, lns, backlog, feed, wg, down, handed>>

Done(c) ==
  /\ at[c] = "done"
  /\ wg' = wg - 1
  /\ Goto(c, "ended")
  /\ sess' = [sess EXCEPT ![c] = newSession]
  /\ UNCHANGED <<cmd, ctl, peer, lns, backlog, feed, sessCnt, down, handed>>

(* Shutdown closes the listener; a connection that Accept has returned is  *)
(* handled all the same.                                                   *)
Shutdown ==
  /\ down = "no"
  /\ down' = "waiting"
  /\ handed' = InHand
  /\ UNCHANGED <<at, sess, cmd, ctl, peer, lns, backlog, feed, sessCnt, wg>>

(* All sessions are done; when ctx is done first, Shutdown returns an      *)
(* error and changes nothing.                                              *)
ShutdownReturns ==
  /\ down = "waiting" /\ wg = 0
  /\ down' = "done"
  /\ UNCHANGED <<at, sess, cmd, ctl, peer, lns, backlog, feed, sessCnt, wg, handed>>
-----------------------------------------------------------------------------
(* handleConn and serve                                                    *)

greet(c) ==
  /\ at[c] = "greet"
  /\ ctl' = [ctl EXCEPT ![c] = Answer(@, 0, 220, 0)]
  /\ Goto(c, "read")
  /\ UNCHANGED <<sess, cmd, peer, lns, backlog, feed, sessCnt, wg, down, handed>>

(* Fault: an end of file is taken for a line that does not parse.          *)
ServeEndsIdle(c) ==
  /\ at[c] = "read"
  /\ ctl[c].cmds = <<>> /\ ~ctl[c].cut
  /\ Goto(c, "leave")
  /\ ctl' = [ctl EXCEPT ![c].cmds = <<>>]
  /\ UNCHANGED <<sess, cmd, peer, lns, backlog, feed, sessCnt, wg, down, handed>>

(* The read fails (end of file, or the deadline with nothing to read), or, *)
(* the client being gone, a reply; what is left unread is lost.            *)
ServeEnds(c) ==
  /\ at[c] = "read"
  /\ ctl[c].cmds = <<>> \/ ctl[c].cut
  /\ Goto(c, "leave")
  /\ ctl' = [ctl EXCEPT ![c].cmds = <<>>]
  /\ UNCHANGED <<sess, cmd, peer, lns, backlog, feed, sessCnt, wg, down, handed>>

Next1(c) == Head(ctl[c].cmds)
Consumed(c) == [ctl[c] EXCEPT !.cmds = Tail(@)]
Reads(c, names) == at[c] = "read" /\ ctl[c].cmds # <<>> /\ Next1(c).name \in names

Quit(c) ==
  /\ Reads(c, {"QUIT"})
  /\ ctl' = [ctl EXCEPT ![c] = [Answer(Consumed(c), Next1(c).n, 221, 0) EXCEPT !.cmds = <<>>]]
  /\ Goto(c, "leave")
  /\ UNCHANGED <<sess, cmd, peer, lns, backlog, feed, sessCnt, wg, down, handed>>

PassiveCommands == {"PASV", "EPSV"}

Serve(c) ==
  /\ at[c] = "read" /\ ctl[c].cmds # <<>>
  /\ LET k == Next1(c)
     IN  /\ \/ Refused(sess[c], k.name)
            \/ k.name \notin DataCommands \cup PassiveCommands \cup {"QUIT"}
         /\ \E o \in dispatch(sess[c], k.name, k.arg) :
              /\ sess' = [sess EXCEPT ![c] = o.s]
              /\ ctl' = [ctl EXCEPT ![c] = Answer(Consumed(c), k.n, o.code, 0)]
  /\ UNCHANGED <<at, cmd, peer, lns, backlog, feed, sessCnt, wg, down, handed>>

(* The ports of the range that can be listened on; the first is taken.     *)
openPassive == Ports \ lns

(* The listener that pasv or epsv replaces is dropped without being closed.*)
epsv(c) ==
  /\ Reads(c, PassiveCommands)
  /\ ~Refused(sess[c], Next1(c).name)
  /\ LET k == Next1(c)
         p == Min(openPassive)
     IN  IF openPassive = {}
         THEN /\ ctl' = [ctl EXCEPT ![c] = Answer(Consumed(c), k.n, 425, 0)]
              /\ UNCHANGED <<sess, lns>>
         ELSE /\ lns' = lns \cup {p}
              /\ sess' = [sess EXCEPT ![c].passive = p]
              /\ ctl' = [ctl EXCEPT ![c] =
                   Answer(Consumed(c), k.n, IF k.name = "EPSV" THEN 229 ELSE 227, p)]
  /\ UNCHANGED <<at, cmd, peer, backlog, feed, sessCnt, wg, down, handed>>

(* A listener nobody refers to is closed by the garbage collector, some    *)
(* time.                                                                   *)
Reachable(p) == \E c \in Conns : sess[c].passive = p

Collect(p) ==
  /\ p \in lns /\ ~Reachable(p)
  /\ lns' = lns \ {p}
  /\ backlog' = {b \in backlog : b[1] # p}
  /\ UNCHANGED <<at, sess, cmd, peer, ctl, feed, sessCnt, wg, down, handed>>

(* list, retr, stor, appe up to acceptData: the path is resolved, and the  *)
(* directory of a LIST is read.                                            *)
StartTransfer(c) ==
  /\ Reads(c, DataCommands)
  /\ ~Refused(sess[c], Next1(c).name)
  /\ LET k == Next1(c)
     IN  \/ /\ Goto(c, "accept")
            /\ cmd' = [cmd EXCEPT ![c] = k]
            /\ ctl' = [ctl EXCEPT ![c] = Consumed(c)]
         \/ /\ k.name \in {"LIST", "NLST"}
            /\ ctl' = [ctl EXCEPT ![c] = Answer(Consumed(c), k.n, 550, 0)]
            /\ UNCHANGED <<at, cmd>>
  /\ UNCHANGED <<sess, peer, lns, backlog, feed, sessCnt, wg, down, handed>>

(* Fault: the error is replied and returned, and serve replies once more.  *)
NoChannelTwice(c) ==
  /\ at[c] = "accept" /\ sess[c].passive = NoData
  /\ ctl' = [ctl EXCEPT ![c] = Answer(Answer(@, cmd[c].n, 425, 0), cmd[c].n, 530, 0)]
  /\ Goto(c, "read")
  /\ UNCHANGED <<sess, cmd, peer, lns, backlog, feed, sessCnt, wg, down, handed>>

(* acceptData without a data channel set up.                               *)
NoChannel(c) ==
  /\ at[c] = "accept" /\ sess[c].passive = NoData
  /\ ctl' = [ctl EXCEPT ![c] = Answer(@, cmd[c].n, 425, 0)]
  /\ cmd' = [cmd EXCEPT ![c] = NoCmd]
  /\ Goto(c, "read")
  /\ UNCHANGED <<sess, peer, lns, backlog, feed, sessCnt, wg, down, handed>>

(* acceptData: Accept waits for a connection, without a deadline; then 150 *)
(* is sent.                                                                *)
AcceptData(c) ==
  /\ at[c] = "accept"
  /\ \E b \in backlog :
       /\ b[1] = sess[c].passive
       /\ backlog' = backlog \ {b}
       /\ peer' = [peer EXCEPT ![c] = b[2]]
  /\ sess' = [sess EXCEPT ![c].passive = NoData]
  /\ ctl' = [ctl EXCEPT ![c] = Answer(@, cmd[c].n, 150, 0)]
  /\ Goto(c, "transfer")
  /\ UNCHANGED <<cmd, lns, feed, sessCnt, wg, down, handed>>

(* acceptData: the address of PORT or EPRT is dialled.                     *)
DialRemote(c) ==
  /\ at[c] = "accept" /\ sess[c].passive = Remote
  /\ sess' = [sess EXCEPT ![c].passive = NoData]
  /\ \/ /\ ctl' = [ctl EXCEPT ![c] = Answer(@, cmd[c].n, 150, 0)]
        /\ peer' = [peer EXCEPT ![c] = c]
        /\ feed' = feed \cup {c}
        /\ Goto(c, "transfer")
        /\ UNCHANGED cmd
     \/ /\ ctl' = [ctl EXCEPT ![c] = Answer(@, cmd[c].n, 425, 0)]
        /\ cmd' = [cmd EXCEPT ![c] = NoCmd]
        /\ Goto(c, "read")
        /\ UNCHANGED <<peer, feed>>
  /\ UNCHANGED <<lns, backlog, sessCnt, wg, down, handed>>

(* The copy ends: a download when everything is written, an upload when    *)
(* the client has closed its end; or it fails.                             *)
Transferred(c) ==
  /\ at[c] = "transfer"
  /\ cmd[c].name \in {"STOR", "APPE"} => peer[c] \notin feed
  /\ \E code \in CASE cmd[c].name \in {"LIST", "NLST"} -> {226}
                   [] cmd[c].name = "RETR" -> {226, 426}
                   [] OTHER -> {226, 552} :
       ctl' = [ctl EXCEPT ![c] = Answer(@, cmd[c].n, code, 0)]
  /\ cmd' = [cmd EXCEPT ![c] = NoCmd]
  /\ peer' = [peer EXCEPT ![c] = c]
  /\ Goto(c, "read")
  /\ UNCHANGED <<sess, lns, backlog, feed, sessCnt, wg, down, handed>>

(* What a session does by itself; a transfer depends on the peer.          *)
SessionStep(c) ==
  \/ greet(c) \/ ServeEnds(c) \/ Quit(c) \/ Serve(c) \/ epsv(c) \/ StartTransfer(c)
  \/ NoChannel(c) \/ AcceptData(c) \/ DialRemote(c) \/ Uncount(c) \/ Done(c)

ServerStep ==
  \/ \E c \in Conns : Admit(c) \/ Spawn(c) \/ SessionStep(c) \/ Transferred(c)
  \/ \E p \in Ports : Collect(p)
  \/ Shutdown
  \/ ShutdownReturns
===============================================================================
