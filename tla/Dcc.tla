---------------------------------- MODULE Dcc ----------------------------------
(***************************************************************************)
(* DCC file transfers (irc/client/dcc/dcc.go): the goroutines runSend and  *)
(* runReceive of two Managers, the TCP connection between them, and Cancel *)
(* called at any time on either session.                                   *)
(*                                                                         *)
(* A step is one atomic access of Session.State, one critical section of   *)
(* Session.mu, or one system call.  Data is counted in units of which at   *)
(* most Chunk fit the 32 KiB buffer; TCP may deliver a chunk in parts.     *)
(* Session.Resume is never set by the library and is 0 here.               *)
(***************************************************************************)
EXTENDS Naturals, FiniteSets, Sequences

CONSTANTS
  Transfers,   \* session IDs of the sending Manager: 1..n
  Chunk,       \* units in a full buffer
  Sizes,       \* file sizes tried, in units
  Faulty,      \* bound: the transfers in which faults happen
  MaxFaults    \* bound: cancels, failing calls and lost connections

ASSUME DccAssumption ==
  /\ Transfers = 1..Cardinality(Transfers)
  /\ Chunk \in Nat \ {0}
  /\ Sizes \subseteq Nat
  /\ MaxFaults \in Nat

Sides == {"send", "recv"}
Ends == Sides \X Transfers

VARIABLES
  sess,       \* Session of an end: State, Err, conn (set?), done (doneCh closed?)
  pc,         \* where the goroutine of an end is
  listed,     \* Manager.sessions of both Managers
  net,        \* the connection of a transfer
  size,       \* size of the file
  sent,       \* units written to the connection by the sender
  got,        \* units written to the file by the receiver
  chunks,     \* history: buffers the sender has written
  acks,       \* history: ACKs the receiver has written
  cancelling, \* ends whose Cancel has stored the state, not yet closed
  cancelled,  \* history: ends that were cancelled
  faults,     \* number of cancels, failing calls and lost connections
  crashed     \* the sending process died of a panic

session == <<sess, pc, listed, cancelling, cancelled>>
stream == <<net, size, sent, got, chunks, acks>>
vars == <<session, stream, faults, crashed>>

TransferState == {"pending", "active", "completed", "failed", "cancelled"}
Locations == {"idle", "accept", "dial", "setconn", "activate", "check",
              "transfer", "ack", "lastack", "error", "fail", "succeed", "leave",
              "signal", "ended"}

newSession == [State |-> "pending", Err |-> FALSE, conn |-> FALSE, done |-> FALSE]

(* data and acks in flight; dialled and accepted; shut: the ends that      *)
(* closed it; lost: reset, by the network or by a close with unread input. *)
NoConn == [dialled |-> FALSE, data |-> 0, acks |-> 0, shut |-> {}, lost |-> FALSE]

DccInit ==
  /\ sess = [e \in Ends |-> newSession]
  /\ pc = [e \in Ends |-> "idle"]
  /\ listed = {}
  /\ net = [t \in Transfers |-> NoConn]
  /\ size \in [Transfers -> Sizes]
  /\ sent = [t \in Transfers |-> 0]
  /\ got = [t \in Transfers |-> 0]
  /\ chunks = [t \in Transfers |-> 0]
  /\ acks = [t \in Transfers |-> 0]
  /\ cancelling = {}
  /\ cancelled = {}
  /\ faults = 0
  /\ crashed = FALSE

Fault(t) == t \in Faulty /\ faults < MaxFaults /\ faults' = faults + 1
Alive(e) == e[1] = "send" => ~crashed
At(e, l) == pc[e] = l /\ Alive(e)
Goto(e, l) == pc' = [pc EXCEPT ![e] = l]

(* A close with input that was not read resets the connection.             *)
Close(c, side) ==
  [c EXCEPT !.shut = @ \cup {side},
            !.lost = @ \/ IF side = "send" THEN c.acks > 0 ELSE c.data > 0]

(* Reading fails on a connection closed here or reset; it sees the end of  *)
(* the stream when the other side closed and everything was read.          *)
Broken(e) == e[1] \in net[e[2]].shut \/ net[e[2]].lost
Other(side) == IF side = "send" THEN "recv" ELSE "send"
AtEof(e, unread) ==
  /\ Other(e[1]) \in net[e[2]].shut
  /\ unread = 0
  /\ ~Broken(e)
-----------------------------------------------------------------------------
(* Session: Cancel, setConn, finish.                                       *)

CancelStore(e) ==
  /\ Fault(e[2])
  /\ pc[e] # "idle" /\ e \notin cancelled /\ Alive(e)
  /\ sess' = [sess EXCEPT ![e].State = "cancelled"]
  /\ cancelling' = cancelling \cup {e}
  /\ cancelled' = cancelled \cup {e}
  /\ UNCHANGED <<pc, listed, stream, crashed>>

CancelClose(e) ==
  /\ e \in cancelling /\ Alive(e)
  /\ cancelling' = cancelling \ {e}
  /\ net' = IF sess[e].conn THEN [net EXCEPT ![e[2]] = Close(@, e[1])] ELSE net
  /\ UNCHANGED <<sess, pc, listed, size, sent, got, chunks, acks, cancelled, faults, crashed>>

setConn(e) ==
  /\ At(e, "setconn")
  /\ sess' = [sess EXCEPT ![e].conn = TRUE]
  /\ Goto(e, "activate")
  /\ UNCHANGED <<listed, stream, cancelling, cancelled, faults, crashed>>

(* State.Store(StateActive), whatever the state was; the sender then opens *)
(* its file.                                                               *)
Activate(e) ==
  /\ At(e, "activate")
  /\ sess' = [sess EXCEPT ![e].State = "active"]
  /\ Goto(e, "check")
  /\ UNCHANGED <<listed, stream, cancelling, cancelled, faults, crashed>>

(* The top of both loops: a cancelled transfer calls finish(nil).          *)
Check(e) ==
  /\ At(e, "check")
  /\ Goto(e, IF sess[e].State = "cancelled" THEN "succeed" ELSE "transfer")
  /\ UNCHANGED <<sess, listed, stream, cancelling, cancelled, faults, crashed>>

(* finish(err): the state is loaded ...                                    *)
finishLoad(e) ==
  /\ At(e, "error")
  /\ Goto(e, IF sess[e].State = "cancelled" THEN "leave" ELSE "fail")
  /\ UNCHANGED <<sess, listed, stream, cancelling, cancelled, faults, crashed>>

(* What finish stores, for an error, none, or a session that was cancelled. *)
Outcome(ss, l) ==
  [ss EXCEPT !.State = CASE l = "fail" -> "failed"
                         [] l = "succeed" -> "completed"
                         [] OTHER -> @,
             !.Err = (l = "fail")]

(* ... and stored in another step (finish(nil) starts here), and the       *)
(* connection is closed.                                                   *)
finishStore(e) ==
  /\ \E l \in {"fail", "succeed", "leave"} : At(e, l)
  /\ sess' = [sess EXCEPT ![e] = Outcome(@, pc[e])]
  /\ net' = IF sess[e].conn THEN [net EXCEPT ![e[2]] = Close(@, e[1])] ELSE net
  /\ Goto(e, "signal")
  /\ UNCHANGED <<listed, size, sent, got, chunks, acks, cancelling, cancelled, faults, crashed>>

(* close(doneCh), and Wait returns; then the deferred functions.           *)
finishSignal(e) ==
  /\ At(e, "signal")
  /\ sess' = [sess EXCEPT ![e].done = TRUE]
  /\ listed' = listed \ {e}
  /\ Goto(e, "ended")
  /\ UNCHANGED <<stream, cancelling, cancelled, faults, crashed>>

(* Accept, opening the file, dial, reading or writing the file may fail.   *)
(* The sender opens its file before the first check.                       *)
Fails(e) ==
  /\ Fault(e[2])
  /\ \/ At(e, "dial") \/ At(e, "accept")
     \/ At(e, "check") /\ e[1] = "send" /\ chunks[e[2]] = 0
     \/ At(e, "transfer") /\ (e[1] = "recv" => net[e[2]].data > 0)
  /\ Goto(e, "error")
  /\ UNCHANGED <<sess, listed, stream, cancelling, cancelled, crashed>>

SessionStep(e) ==
  \/ CancelClose(e) \/ setConn(e) \/ Activate(e) \/ Check(e)
  \/ finishLoad(e) \/ finishStore(e) \/ finishSignal(e)
-----------------------------------------------------------------------------
(* Send and runSend.                                                       *)

(* The session is entered and the listener waits.                          *)
Send(t) ==
  /\ listed' = listed \cup {<<"send", t>>}
  /\ Goto(<<"send", t>>, "accept")
  /\ UNCHANGED <<sess, cancelling, cancelled, stream, faults, crashed>>

Accept(t) ==
  /\ At(<<"send", t>>, "accept")
  /\ net[t].dialled
  /\ Goto(<<"send", t>>, "setconn")
  /\ UNCHANGED <<sess, listed, stream, cancelling, cancelled, faults, crashed>>

(* Fault: every buffer is taken for full.                                  *)
FullBuffer(t) == Chunk

Buffer(t) == IF size[t] - sent[t] < Chunk THEN size[t] - sent[t] ELSE Chunk

(* A write to a connection the other end closed resets it.                 *)
WriteData(c, n) ==
  IF "recv" \in c.shut THEN [c EXCEPT !.lost = TRUE] ELSE [c EXCEPT !.data = @ + n]

WriteAck(c) ==
  IF "send" \in c.shut THEN [c EXCEPT !.lost = TRUE] ELSE [c EXCEPT !.acks = @ + 1]

(* One buffer is read and written; a write to a closed connection fails,   *)
(* one to a connection the receiver closed may be the first to notice.     *)
SendChunk(t) ==
  LET s == <<"send", t>>
      n == Buffer(t)
  IN  /\ At(s, "transfer")
      /\ n > 0
      /\ \/ /\ ~Broken(s)
            /\ sent' = [sent EXCEPT ![t] = @ + n]
            /\ chunks' = [chunks EXCEPT ![t] = @ + 1]
            /\ net' = [net EXCEPT ![t] = WriteData(@, n)]
            /\ Goto(s, "ack")
         \/ /\ Broken(s)
            /\ Goto(s, "error")
            /\ UNCHANGED <<net, sent, chunks>>
      /\ UNCHANGED <<sess, listed, cancelling, cancelled, size, got, acks, faults, crashed>>

(* io.EOF from the file.                                                   *)
SourceEof(t) ==
  /\ At(<<"send", t>>, "transfer")
  /\ Buffer(t) = 0
  /\ Goto(<<"send", t>>, "lastack")
  /\ UNCHANGED <<sess, listed, stream, cancelling, cancelled, faults, crashed>>

(* Fault: the sender does not wait for the final ACK.                      *)
NoAckEager(s) == Broken(s) \/ AtEof(s, net[s[2]].acks) \/ At(s, "lastack")

NoAck(s) == Broken(s) \/ AtEof(s, net[s[2]].acks)

(* An ACK is read, in the loop or as the final one; errors are ignored.    *)
ReadAck(t) ==
  LET s == <<"send", t>>
  IN  /\ At(s, "ack") \/ At(s, "lastack")
      /\ \/ /\ net[t].acks > 0 /\ "send" \notin net[t].shut
            /\ net' = [net EXCEPT ![t].acks = @ - 1]
         \/ /\ NoAck(s)
            /\ UNCHANGED net
      /\ Goto(s, IF pc[s] = "ack" THEN "check" ELSE "succeed")
      /\ UNCHANGED <<sess, listed, cancelling, cancelled, size, sent, got, chunks,
                     acks, faults, crashed>>
-----------------------------------------------------------------------------
(* Receive and runReceive.                                                 *)

Receive(t) ==
  /\ pc[<<"recv", t>>] = "idle"
  /\ listed' = listed \cup {<<"recv", t>>}
  /\ Goto(<<"recv", t>>, "dial")
  /\ UNCHANGED <<sess, cancelling, cancelled, stream, faults, crashed>>

(* The file is opened.  The sender's listener takes connections while it   *)
(* waits in Accept.                                                        *)
Dial(t) ==
  /\ At(<<"recv", t>>, "dial")
  /\ At(<<"send", t>>, "accept")
  /\ net' = [net EXCEPT ![t].dialled = TRUE]
  /\ Goto(<<"recv", t>>, "setconn")
  /\ UNCHANGED <<sess, listed, cancelling, cancelled, size, sent, got, chunks, acks,
                 faults, crashed>>

(* Read returns part of what has arrived, and it is written to the file.   *)
ReceiveData(t) ==
  LET r == <<"recv", t>>
  IN  /\ At(r, "transfer")
      /\ "recv" \notin net[t].shut
      /\ \E k \in 1..Chunk :
           /\ k <= net[t].data
           /\ net' = [net EXCEPT ![t].data = @ - k]
           /\ got' = [got EXCEPT ![t] = @ + k]
      /\ Goto(r, "ack")
      /\ UNCHANGED <<sess, listed, cancelling, cancelled, size, sent, chunks, acks,
                     faults, crashed>>

(* Fault: the end of the stream is read again and again.                  *)
ReceiveNoEnd(t) ==
  LET r == <<"recv", t>>
  IN  /\ At(r, "transfer")
      /\ \/ AtEof(r, net[t].data) /\ Goto(r, "check")
         \/ Broken(r) /\ Goto(r, "error")
      /\ UNCHANGED <<sess, listed, stream, cancelling, cancelled, faults, crashed>>

(* Read returns io.EOF: finish(nil); or an error: finish(rerr).            *)
ReceiveEnd(t) ==
  LET r == <<"recv", t>>
  IN  /\ At(r, "transfer")
      /\ \/ AtEof(r, net[t].data) /\ Goto(r, "succeed")
         \/ Broken(r) /\ Goto(r, "error")
      /\ UNCHANGED <<sess, listed, stream, cancelling, cancelled, faults, crashed>>

(* The ACK is written; writing to an end that closed may reset.            *)
SendAck(t) ==
  LET r == <<"recv", t>>
  IN  /\ At(r, "ack")
      /\ \/ /\ ~Broken(r)
            /\ acks' = [acks EXCEPT ![t] = @ + 1]
            /\ net' = [net EXCEPT ![t] = WriteAck(@)]
            /\ Goto(r, "check")
         \/ /\ Broken(r)
            /\ Goto(r, "error")
            /\ UNCHANGED <<net, acks>>
      /\ UNCHANGED <<sess, listed, cancelling, cancelled, size, sent, got, chunks,
                     faults, crashed>>

(* The network drops the connection.                                       *)
Lose(t) ==
  /\ Fault(t)
  /\ net[t].dialled /\ ~net[t].lost
  /\ net' = [net EXCEPT ![t].lost = TRUE]
  /\ UNCHANGED <<session, size, sent, got, chunks, acks, crashed>>

SendStep(t) == Accept(t) \/ SendChunk(t) \/ SourceEof(t) \/ ReadAck(t)
ReceiveStep(t) == Dial(t) \/ ReceiveData(t) \/ ReceiveEnd(t) \/ SendAck(t)

TransferStep ==
  \/ \E e \in Ends : SessionStep(e) \/ CancelStore(e) \/ Fails(e)
  \/ \E t \in Transfers : SendStep(t) \/ ReceiveStep(t) \/ Lose(t)
=============================================================================
