---------------------------- MODULE SessionWriter ----------------------------
(***************************************************************************)
(* The output side of one IRC session (irc/server/server.go): the bounded  *)
(* queue that every handler fills through Send, sendPrepared and flush,    *)
(* the goroutine writerLoop that empties it to the socket, the one-slot    *)
(* wake channel between the two, and the end of handleSession.             *)
(*                                                                         *)
(* Handlers of any session may send to this one, so Senders are the        *)
(* goroutines of the server; Reader is the one of this session.  A step is *)
(* one critical section or one channel operation of the code.  Lines are   *)
(* abstracted to their number in the order in which Send took writerMu,    *)
(* and to their length.                                                    *)
(***************************************************************************)
EXTENDS Integers, Sequences, FiniteSets, Functions

CONSTANTS
  Senders,     \* goroutines that send to this session
  Reader,      \* the goroutine of the session itself, one of Senders
  Lens,        \* lengths a line may have (never 0: a line ends in CR LF)
  MaxQueued,   \* maxQueuedOutput
  MaxBatch,    \* bound: messages of one sendPrepared
  MaxSends,    \* bound: lines sent in a behaviour; a captured ERROR line
               \* is not one of them but needs a queue shorter than this
  None         \* no goroutine

ASSUME WriterAssumption ==
  /\ Reader \in Senders
  /\ None \notin Senders
  /\ Lens \subseteq Nat \ {0}
  /\ MaxQueued \in Nat
  /\ MaxBatch \in Nat \ {0}
  /\ MaxSends \in Nat

VARIABLES
  queue,       \* writeQueue: items waiting for the writer
  bytes,       \* writeBytes
  wake,        \* the one token of writeWake
  mutex,       \* holder of writerMu
  pc,          \* where each goroutine is
  left,        \* messages a holder of writerMu still has to enqueue
  error,       \* the ERROR line after which the goroutine flushes, or 0
  wpc,         \* where writerLoop is
  item,        \* the item writerLoop took off the queue
  flushed,     \* goroutines whose flush item was reached (closed done)
  conn,        \* the socket
  stop,        \* stopWriter is closed
  wire,        \* numbers of the lines written to the socket
  sent,        \* lines Send was called for
  accepted     \* number of the last line put on the queue

vars == <<queue, bytes, wake, mutex, pc, left, error, wpc, item, flushed,
          conn, stop, wire, sent, accepted>>

writerVars == <<wpc, item, flushed, wire>>

(* An item of the queue (type outbound): a line, or the marker of a flush, *)
(* which has no bytes and carries the channel its goroutine waits on.      *)
Line(n, len) == [id |-> n, len |-> len, for |-> None]
Marker(n, g) == [id |-> n, len |-> 0, for |-> g]
Item == [id : Nat, len : Nat, for : Senders \cup {None}]

Init ==
  /\ queue = <<>>
  /\ bytes = 0
  /\ wake = FALSE
  /\ mutex = None
  /\ pc = [g \in Senders |-> "idle"]
  /\ left = [g \in Senders |-> 0]
  /\ error = [g \in Senders |-> 0]
  /\ wpc = "select"
  /\ item = Line(0, 0)
  /\ flushed = {}
  /\ conn = "open"
  /\ stop = FALSE
  /\ wire = <<>>
  /\ sent = 0
  /\ accepted = 0

Goto(g, label) == pc' = [pc EXCEPT ![g] = label]

(* The critical section of enqueue for the line that g sends now.          *)
Enqueue(g, len) ==
  /\ sent' = sent + 1
  /\ IF bytes + len > MaxQueued
       THEN /\ Goto(g, "overflow")
            /\ UNCHANGED <<queue, bytes, accepted>>
       ELSE /\ queue' = Append(queue, Line(sent + 1, len))
            /\ bytes' = bytes + len
            /\ accepted' = sent + 1
            /\ Goto(g, "signal")

(* Send (batch = 1), or sendPrepared with the messages of a labeled        *)
(* response: writerMu is taken and kept until all of them are enqueued.    *)
Send(g, batch, len) ==
  /\ pc[g] = "idle"
  /\ mutex = None
  /\ sent < MaxSends
  /\ mutex' = g
  /\ left' = [left EXCEPT ![g] = batch - 1]
  /\ Enqueue(g, len)
  /\ UNCHANGED <<wake, error, writerVars, conn, stop>>

(* The Send of the ERROR line in handleQuit and handleKill.                *)
SendError(g, len) ==
  /\ pc[g] = "idle"
  /\ mutex = None
  /\ sent < MaxSends
  /\ mutex' = g
  /\ error' = [error EXCEPT ![g] = sent + 1]
  /\ Enqueue(g, len)
  /\ UNCHANGED <<wake, left, writerVars, conn, stop>>

(* A labeled KILL of the session that sends it: Send puts the ERROR line   *)
(* into the response to be sent afterwards, not on the queue, and the      *)
(* handler goes on to flush.                                               *)
CaptureError ==
  /\ pc[Reader] = "idle"
  /\ Len(queue) < MaxSends
  /\ Goto(Reader, "flush")
  /\ UNCHANGED <<queue, bytes, wake, mutex, left, error, writerVars, conn,
                 stop, sent, accepted>>

(* The next message of a sendPrepared, which still holds writerMu.         *)
SendNext(g, len) ==
  /\ pc[g] = "more"
  /\ left' = [left EXCEPT ![g] = @ - 1]
  /\ Enqueue(g, len)
  /\ UNCHANGED <<wake, mutex, error, writerVars, conn, stop>>

(* Fault: the batch loop runs once too often.                              *)
ReturnLate(g) ==
  IF left[g] >= 0
    THEN Goto(g, "more") /\ UNCHANGED mutex
    ELSE Goto(g, IF error[g] > 0 THEN "flush" ELSE "idle") /\ mutex' = None

(* enqueue returned: the next message of the batch, or writerMu is         *)
(* released and the handler goes on.                                       *)
Return(g) ==
  IF left[g] > 0
    THEN /\ Goto(g, "more")
         /\ UNCHANGED mutex
    ELSE /\ Goto(g, IF error[g] > 0 THEN "flush" ELSE "idle")
         /\ mutex' = None

(* The non-blocking send on writeWake: it leaves the slot full.            *)
Signal(g) ==
  /\ pc[g] = "signal"
  /\ wake' = TRUE
  /\ Return(g)
  /\ UNCHANGED <<queue, bytes, left, error, writerVars, conn, stop, sent,
                 accepted>>

(* Fault: the line is dropped and the connection left open.                *)
OverflowKeepsConn(g) ==
  /\ pc[g] = "overflow"
  /\ Return(g)
  /\ UNCHANGED <<queue, bytes, wake, left, error, writerVars, conn, stop,
                 sent, accepted>>

(* A line that does not fit is dropped and the connection closed.          *)
Overflow(g) ==
  /\ pc[g] = "overflow"
  /\ conn' = "closed"
  /\ Return(g)
  /\ UNCHANGED <<queue, bytes, wake, left, error, writerVars, stop, sent,
                 accepted>>

(* flush: enqueue of a marker.  It has no bytes, so it always fits; the    *)
(* caller does not hold writerMu.                                          *)
Flush(g) ==
  /\ pc[g] = "flush"
  /\ queue' = Append(queue, Marker(accepted, g))
  /\ flushed' = flushed \ {g}
  /\ Goto(g, "signalFlush")
  /\ UNCHANGED <<bytes, wake, mutex, left, error, wpc, item, conn, stop, wire,
                 sent, accepted>>

SignalFlush(g) ==
  /\ pc[g] = "signalFlush"
  /\ wake' = TRUE
  /\ Goto(g, "wait")
  /\ UNCHANGED <<queue, bytes, mutex, left, error, writerVars, conn, stop,
                 sent, accepted>>

(* Faults: flush does not wait; flush waits for its marker only.           *)
FlushReturnAtOnce(g) ==
  /\ pc[g] = "wait"
  /\ Goto(g, "close")
  /\ UNCHANGED <<queue, bytes, wake, mutex, left, error, writerVars, conn,
                 stop, sent, accepted>>

FlushReturnMarkerOnly(g) ==
  /\ pc[g] = "wait"
  /\ g \in flushed
  /\ Goto(g, "close")
  /\ UNCHANGED <<queue, bytes, wake, mutex, left, error, writerVars, conn,
                 stop, sent, accepted>>

(* The select of flush: done closed, or writerDone closed.                 *)
FlushReturn(g) ==
  /\ pc[g] = "wait"
  /\ g \in flushed \/ wpc = "exited"
  /\ Goto(g, "close")
  /\ UNCHANGED <<queue, bytes, wake, mutex, left, error, writerVars, conn,
                 stop, sent, accepted>>

(* handleQuit and handleKill close the connection after the flush.         *)
Close(g) ==
  /\ pc[g] = "close"
  /\ conn' = "closed"
  /\ error' = [error EXCEPT ![g] = 0]
  /\ Goto(g, "idle")
  /\ UNCHANGED <<queue, bytes, wake, mutex, left, writerVars, stop,
                 sent, accepted>>

(* writerLoop, outer select.  When both channels are ready either case may *)
(* be taken.                                                               *)
WriterWake ==
  /\ wpc = "select"
  /\ wake
  /\ wake' = FALSE
  /\ wpc' = "drain"
  /\ UNCHANGED <<queue, bytes, mutex, pc, left, error, item, flushed, conn,
                 stop, wire, sent, accepted>>

WriterStop ==
  /\ wpc = "select"
  /\ stop
  /\ wpc' = "exited"
  /\ UNCHANGED <<queue, bytes, wake, mutex, pc, left, error, item, flushed,
                 conn, stop, wire, sent, accepted>>

(* writerLoop, inner loop: the queue is empty, or its head is taken.  A    *)
(* marker has no line to write and its channel is closed at once.          *)
WriterPark ==
  /\ wpc = "drain"
  /\ queue = <<>>
  /\ wpc' = "select"
  /\ UNCHANGED <<queue, bytes, wake, mutex, pc, left, error, item, flushed,
                 conn, stop, wire, sent, accepted>>

(* Fault: the byte count is not reduced.                                   *)
WriterPopKeepsBytes ==
  /\ wpc = "drain"
  /\ queue # <<>>
  /\ item' = Head(queue)
  /\ queue' = Tail(queue)
  /\ IF Head(queue).len > 0
       THEN wpc' = "write" /\ UNCHANGED flushed
       ELSE flushed' = flushed \cup {Head(queue).for} /\ UNCHANGED wpc
  /\ UNCHANGED <<bytes, wake, mutex, pc, left, error, conn, stop, wire, sent,
                 accepted>>

WriterPop ==
  /\ wpc = "drain"
  /\ queue # <<>>
  /\ item' = Head(queue)
  /\ queue' = Tail(queue)
  /\ bytes' = bytes - Head(queue).len
  /\ IF Head(queue).len > 0
       THEN wpc' = "write" /\ UNCHANGED flushed
       ELSE flushed' = flushed \cup {Head(queue).for} /\ UNCHANGED wpc
  /\ UNCHANGED <<wake, mutex, pc, left, error, conn, stop, wire, sent,
                 accepted>>

(* Fault: one line per wakeup, without the inner loop.                     *)
WriterWriteOne ==
  /\ wpc = "write"
  /\ conn = "open"
  /\ wire' = Append(wire, item.id)
  /\ wpc' = "select"
  /\ UNCHANGED <<queue, bytes, wake, mutex, pc, left, error, item, flushed,
                 conn, stop, sent, accepted>>

WriterWrite ==
  /\ wpc = "write"
  /\ conn = "open"
  /\ wire' = Append(wire, item.id)
  /\ wpc' = "drain"
  /\ UNCHANGED <<queue, bytes, wake, mutex, pc, left, error, item, flushed,
                 conn, stop, sent, accepted>>

(* The write fails: the socket is closed, the peer is gone, or it did not  *)
(* read for the five seconds of the deadline.                              *)
WriterFail ==
  /\ wpc = "write"
  /\ conn' = "closed"
  /\ wpc' = "exited"
  /\ UNCHANGED <<queue, bytes, wake, mutex, pc, left, error, item, flushed,
                 stop, wire, sent, accepted>>

(* Fault: stopWriter is never closed.                                      *)
ReaderStopSilent ==
  /\ pc[Reader] = "idle"
  /\ Goto(Reader, "join")
  /\ UNCHANGED <<queue, bytes, wake, mutex, left, error, writerVars, conn,
                 stop, sent, accepted>>

(* handleSession: the scanner stops on a closed connection, on the end of  *)
(* the peer's input or on an error, and the deferred function runs.        *)
ReaderStop ==
  /\ pc[Reader] = "idle"
  /\ stop' = TRUE
  /\ Goto(Reader, "join")
  /\ UNCHANGED <<queue, bytes, wake, mutex, left, error, writerVars, conn,
                 sent, accepted>>

ReaderExit ==
  /\ pc[Reader] = "join"
  /\ wpc = "exited"
  /\ conn' = "closed"
  /\ Goto(Reader, "gone")
  /\ UNCHANGED <<queue, bytes, wake, mutex, left, error, writerVars, stop,
                 sent, accepted>>

SenderStep(g) ==
  \/ Signal(g)
  \/ Overflow(g)
  \/ Flush(g)
  \/ SignalFlush(g)
  \/ FlushReturn(g)
  \/ Close(g)
  \/ \E len \in Lens : SendNext(g, len)

WriterStep ==
  \/ WriterWake
  \/ WriterStop
  \/ WriterPark
  \/ WriterPop
  \/ WriterWrite
  \/ WriterFail

Next ==
  \/ \E g \in Senders, b \in 1..MaxBatch, len \in Lens : Send(g, b, len)
  \/ \E g \in Senders, len \in Lens : SendError(g, len)
  \/ \E g \in Senders : SenderStep(g)
  \/ CaptureError
  \/ WriterStep
  \/ ReaderStop
  \/ ReaderExit

(* Goroutines that can run are run.  The reader of a closed connection     *)
(* handles what it had buffered, which is finite, and then sees the error: *)
(* it cannot come back for a next command for ever.  Nothing makes a       *)
(* client or a handler send.                                               *)
Fairness ==
  /\ \A g \in Senders : WF_vars(SenderStep(g))
  /\ WF_vars(WriterStep)
  /\ SF_vars(conn = "closed" /\ ReaderStop)
  /\ WF_vars(ReaderExit)

Spec == Init /\ [][Next]_vars

FairSpec == Spec /\ Fairness

-----------------------------------------------------------------------------
Labels == {"idle", "signal", "overflow", "more", "flush", "signalFlush",
           "wait", "close", "join", "gone"}

TypeOK ==
  /\ queue \in Seq(Item)
  /\ bytes \in Int
  /\ wake \in BOOLEAN
  /\ mutex \in Senders \cup {None}
  /\ pc \in [Senders -> Labels]
  /\ left \in [Senders -> Nat]
  /\ error \in [Senders -> Nat]
  /\ wpc \in {"select", "drain", "write", "exited"}
  /\ item \in Item
  /\ flushed \subseteq Senders \cup {None}
  /\ conn \in {"open", "closed"}
  /\ stop \in BOOLEAN
  /\ wire \in Seq(Nat)
  /\ sent \in Nat
  /\ accepted \in Nat

(* The byte count that bounds the queue is exactly what is on the queue:   *)
(* the additions of enqueue and the subtractions of writerLoop, made by    *)
(* different goroutines, never drift apart, and the limit holds.           *)
BytesExact ==
  /\ bytes = FoldFunction(LAMBDA i, n : i.len + n, 0, queue)
  /\ bytes <= MaxQueued

(* No lost wakeup: writerLoop never sits in its select with work on the    *)
(* queue unless the token is in writeWake or a goroutine that appended is  *)
(* about to put it there.                                                  *)
NoLostWake ==
  wpc = "select" /\ queue # <<>> =>
    wake \/ \E g \in Senders : pc[g] \in {"signal", "signalFlush"}

(* The client sees the lines in the order of Send, with none missing: a    *)
(* line dropped because the queue was full is never followed by another.   *)
WireIsPrefix == \A i \in DOMAIN wire : wire[i] = i

(* When flush returns in QUIT or KILL the ERROR line that was queued is on *)
(* the wire, so that closing the connection cannot cut it off; the         *)
(* exceptions are a connection or a writer that has already ended.  (The   *)
(* line of CaptureError was not queued, and is sent too late.)             *)
ErrorLineOut ==
  \A g \in Senders :
    pc[g] = "close" /\ error[g] > 0 /\ conn = "open" /\ wpc # "exited" =>
      error[g] \in Range(wire)

(* flush always returns: a handler that quits or kills never hangs on the  *)
(* writer of the session, although it holds dispatchMu meanwhile.          *)
FlushReturns ==
  \A g \in Senders : pc[g] \in {"flush", "signalFlush", "wait"} ~> pc[g] = "close"

(* A line accepted into the queue is written, unless the writer ends.      *)
AcceptedIsWritten ==
  \A n \in 1..MaxSends :
    (\E i \in DOMAIN queue : queue[i].id = n /\ queue[i].len > 0) ~>
      (wpc = "exited" \/ n \in Range(wire))

(* A session whose connection was closed, by a failed write, by a full     *)
(* queue, by QUIT or by KILL, ends: handleSession returns and the writer   *)
(* goroutine with it.                                                      *)
SessionEnds == conn = "closed" ~> (pc[Reader] = "gone" /\ wpc = "exited")
=============================================================================
