------------------------- MODULE SessionWriterProofs -------------------------
(* Safety of the output queue of a session for any number of goroutines,    *)
(* any lengths and any limit: no wakeup is lost, the limit holds, the wire  *)
(* carries the lines in the order of Send without a gap, and the ERROR line *)
(* of QUIT and KILL is out before the connection is closed.                 *)
EXTENDS SessionWriter, TLAPS

(* The limit on queued bytes (the part of BytesExact that needs no sum).    *)
BytesBounded == bytes <= MaxQueued

(* writerMu is held exactly while a goroutine is inside enqueue for Send or *)
(* sendPrepared.                                                            *)
Inside == {"signal", "overflow", "more"}
Holder == \A g \in Senders : mutex = g <=> pc[g] \in Inside

(* Only a goroutine with messages left goes round the batch loop.           *)
Batch == \A g \in Senders : pc[g] = "more" => left[g] > 0

(* Lines have bytes, markers have a waiting goroutine.                      *)
Shape == \A i \in 1..Len(queue) : queue[i].len > 0 <=> queue[i].for = None

(* While the connection is open the numbers on the wire, in the writer's    *)
(* hand and on the queue run on without a gap; a marker carries the number  *)
(* of the line before it.                                                   *)
Count(x) == IF x.len > 0 THEN 1 ELSE 0
Taken == Len(wire) + (IF wpc = "write" THEN 1 ELSE 0)
Chain ==
  conn = "open" =>
    /\ wpc = "write" => item.id = Len(wire) + 1
    /\ \A i \in 1..Len(queue) :
         queue[i].id = (IF i = 1 THEN Taken ELSE queue[i - 1].id) + Count(queue[i])
    /\ accepted = IF Len(queue) = 0 THEN Taken ELSE queue[Len(queue)].id
    /\ accepted = sent \/ \E g \in Senders : pc[g] = "overflow"

(* A marker on the queue of a running writer belongs to a goroutine that    *)
(* waits for it, each of which has only one.                                *)
Waiting == {"signalFlush", "wait"}
Markers ==
  wpc # "exited" =>
    /\ \A i \in 1..Len(queue) : queue[i].for # None =>
         /\ pc[queue[i].for] \in Waiting
         /\ queue[i].for \notin flushed
         /\ conn = "open" => error[queue[i].for] <= queue[i].id
    /\ \A i, j \in 1..Len(queue) :
         queue[i].for # None /\ queue[i].for = queue[j].for => i = j

(* How far the ERROR line of a goroutine has come.                          *)
Errors ==
  \A g \in Senders :
    /\ pc[g] = "idle" => error[g] = 0
    /\ pc[g] = "close" => g \in flushed \/ wpc = "exited"
    /\ conn = "open" /\ pc[g] \in {"signal", "more", "flush"} => error[g] <= accepted
    /\ conn = "open" /\ g \in flushed /\ pc[g] \in Waiting \cup {"close"} =>
         error[g] <= Len(wire)

IInv ==
  /\ TypeOK
  /\ Batch
  /\ BytesBounded
  /\ Holder
  /\ NoLostWake
  /\ Shape
  /\ Chain
  /\ WireIsPrefix
  /\ Markers
  /\ Errors

-----------------------------------------------------------------------------
(* Send, the Send of an ERROR line and the next message of a batch differ   *)
(* only in what they note for later.                                        *)
SendAny(g, len) ==
  \/ \E b \in 1..MaxBatch : Send(g, b, len)
  \/ SendError(g, len)
  \/ SendNext(g, len)

(* What they note: how many messages are left, and the ERROR line.          *)
LEMMA SendErrors ==
  ASSUME TypeOK, Batch, NEW g \in Senders, NEW len \in Lens, SendAny(g, len)
  PROVE  /\ left' \in [Senders -> Nat]
         /\ error' \in [Senders -> Nat]
         /\ \A h \in Senders : h # g => error'[h] = error[h]
         /\ error'[g] = error[g] \/ error'[g] = sent + 1
<1> USE WriterAssumption
<1>1. ASSUME NEW b \in 1..MaxBatch, Send(g, b, len)
      PROVE  left' \in [Senders -> Nat] /\ error' = error
  BY <1>1 DEF Send, TypeOK
<1>2. SendNext(g, len) => left' \in [Senders -> Nat] /\ error' = error
  BY DEF SendNext, TypeOK, Batch
<1>3. SendError(g, len) =>
        left' = left /\ error' = [error EXCEPT ![g] = sent + 1]
  BY DEF SendError
<1>4. CASE error' = error /\ left' \in [Senders -> Nat]
  BY <1>4 DEF TypeOK
<1>5. CASE SendError(g, len)
  <2>1. left' = left /\ error' = [error EXCEPT ![g] = sent + 1]
    BY <1>3, <1>5
  <2>2. sent + 1 \in Nat /\ error \in [Senders -> Nat] /\ left \in [Senders -> Nat]
    BY DEF TypeOK
  <2> QED
    BY <2>1, <2>2
<1> QED
  BY <1>1, <1>2, <1>4, <1>5 DEF SendAny

(* What they share: the caller has writerMu, and either the line is put on  *)
(* the queue or the queue is full.                                          *)
LEMMA SendEffect ==
  ASSUME TypeOK, NEW g \in Senders, NEW len \in Lens, SendAny(g, len)
  PROVE  /\ pc[g] \in {"idle", "more"}
         /\ (mutex = None /\ mutex' = g) \/ (pc[g] = "more" /\ mutex' = mutex)
         /\ sent' = sent + 1
         /\ UNCHANGED <<wake, wpc, item, flushed, wire, conn, stop>>
         /\ \/ /\ bytes + len > MaxQueued
               /\ pc' = [pc EXCEPT ![g] = "overflow"]
               /\ UNCHANGED <<queue, bytes, accepted>>
            \/ /\ bytes + len <= MaxQueued
               /\ pc' = [pc EXCEPT ![g] = "signal"]
               /\ queue' = Append(queue, Line(sent + 1, len))
               /\ bytes' = bytes + len
               /\ accepted' = sent + 1
<1> USE WriterAssumption
<1>1. Enqueue(g, len)
  BY DEF SendAny, Send, SendError, SendNext
<1>2. len \in Nat
  OBVIOUS
<1>3. /\ pc[g] \in {"idle", "more"}
      /\ (mutex = None /\ mutex' = g) \/ (pc[g] = "more" /\ mutex' = mutex)
      /\ UNCHANGED <<wake, wpc, item, flushed, wire, conn, stop>>
  BY DEF SendAny, Send, SendError, SendNext, writerVars
<1>4. \/ /\ bytes + len > MaxQueued
         /\ pc' = [pc EXCEPT ![g] = "overflow"]
         /\ UNCHANGED <<queue, bytes, accepted>>
      \/ /\ bytes + len <= MaxQueued
         /\ pc' = [pc EXCEPT ![g] = "signal"]
         /\ queue' = Append(queue, Line(sent + 1, len))
         /\ bytes' = bytes + len
         /\ accepted' = sent + 1
  <2>1. CASE bytes + len > MaxQueued
    BY <1>1, <2>1 DEF Enqueue, Goto
  <2>2. CASE ~(bytes + len > MaxQueued)
    <3>1. bytes + len <= MaxQueued
      BY <1>2, <2>2 DEF TypeOK
    <3> QED
      BY <1>1, <2>2, <3>1 DEF Enqueue, Goto
  <2> QED
    BY <2>1, <2>2
<1> QED
  BY <1>1, <1>3, <1>4 DEF Enqueue

(* They move only the goroutine that sends and note only its ERROR line.    *)
LEMMA SendOthers ==
  ASSUME TypeOK, Batch, NEW g \in Senders, NEW len \in Lens, SendAny(g, len)
  PROVE  /\ pc'[g] \in {"signal", "overflow"}
         /\ \A h \in Senders : h # g => pc'[h] = pc[h] /\ error'[h] = error[h]
<1>1. pc \in [Senders -> Labels]
  BY DEF TypeOK
<1>2. \/ pc' = [pc EXCEPT ![g] = "overflow"]
      \/ pc' = [pc EXCEPT ![g] = "signal"]
  BY SendEffect
<1>3. \A h \in Senders : h # g => error'[h] = error[h]
  BY SendErrors
<1>4. /\ pc'[g] \in {"signal", "overflow"}
      /\ \A h \in Senders : h # g => pc'[h] = pc[h]
  BY <1>1, <1>2
<1> QED
  BY <1>3, <1>4

(* The queue seen as an array, after enqueue appended to it.                *)
LEMMA AppendQueue ==
  ASSUME TypeOK, NEW x \in Item, queue' = Append(queue, x)
  PROVE  /\ queue' \in Seq(Item)
         /\ Len(queue) \in Nat
         /\ Len(queue') = Len(queue) + 1
         /\ \A i \in 1..Len(queue) : queue'[i] = queue[i] /\ queue[i] \in Item
         /\ queue'[Len(queue) + 1] = x
BY DEF TypeOK

(* The queue after writerLoop took its head.                                *)
LEMMA PopQueue ==
  ASSUME TypeOK, WriterPop
  PROVE  /\ queue' \in Seq(Item)
         /\ Len(queue) \in Nat \ {0}
         /\ Len(queue') = Len(queue) - 1
         /\ \A i \in 1..Len(queue) : queue[i] \in Item
         /\ \A i \in 1..Len(queue') : queue'[i] = queue[i + 1]
         /\ item' = queue[1] /\ Head(queue) = queue[1]
         /\ queue[1].len \in Nat
         /\ queue[1].for \in Senders \cup {None}
<1>1. /\ queue' \in Seq(Item)
      /\ Len(queue) \in Nat \ {0}
      /\ Len(queue') = Len(queue) - 1
      /\ \A i \in 1..Len(queue) : queue[i] \in Item
      /\ \A i \in 1..Len(queue') : queue'[i] = queue[i + 1]
      /\ item' = queue[1] /\ Head(queue) = queue[1]
  BY DEF TypeOK, WriterPop
<1>2. queue[1] \in Item
  BY <1>1
<1> QED
  BY Zenon, <1>1, <1>2 DEF Item

(* What the queue holds are items.                                          *)
LEMMA QueueItems ==
  ASSUME TypeOK
  PROVE  \A i \in 1..Len(queue) : queue[i].for \in Senders \cup {None}
<1>1. \A i \in 1..Len(queue) : queue[i] \in Item
  BY DEF TypeOK
<1> QED
  BY <1>1 DEF Item

(* The fields of a line.                                                    *)
LEMMA LineType ==
  ASSUME TypeOK, NEW len \in Lens
  PROVE  /\ Line(sent + 1, len) \in Item
         /\ Line(sent + 1, len).id = sent + 1
         /\ Line(sent + 1, len).len = len
         /\ Line(sent + 1, len).for = None
         /\ len \in Nat /\ len > 0
BY WriterAssumption DEF TypeOK, Line, Item

(* The fields of the marker of a flush.                                     *)
LEMMA MarkerType ==
  ASSUME TypeOK, NEW g \in Senders
  PROVE  /\ Marker(accepted, g) \in Item
         /\ Marker(accepted, g).id = accepted
         /\ Marker(accepted, g).len = 0
         /\ Marker(accepted, g).for = g
         /\ g # None
BY WriterAssumption DEF TypeOK, Marker, Item

(* Types are kept.                                                          *)
LEMMA TypeStep ==
  ASSUME TypeOK, Batch, [Next]_vars
  PROVE  TypeOK'
<1> USE WriterAssumption
<1>1. ASSUME NEW g \in Senders, NEW len \in Lens, SendAny(g, len)
      PROVE  TypeOK'
  <2>1. left' \in [Senders -> Nat] /\ error' \in [Senders -> Nat]
    BY <1>1, SendErrors
  <2>2. queue' \in Seq(Item) /\ bytes' \in Int /\ accepted' \in Nat
    <3>1. Line(sent + 1, len) \in Item /\ len \in Nat
      BY LineType
    <3>2. CASE UNCHANGED <<queue, bytes, accepted>>
      BY <3>2 DEF TypeOK
    <3>3. CASE /\ queue' = Append(queue, Line(sent + 1, len))
               /\ bytes' = bytes + len
               /\ accepted' = sent + 1
      BY <3>1, <3>3, AppendQueue DEF TypeOK
    <3> QED
      BY <1>1, <3>2, <3>3, SendEffect
  <2>3. pc' \in [Senders -> Labels]
    BY Zenon, <1>1, SendEffect DEF TypeOK, Labels
  <2>4. mutex' \in Senders \cup {None} /\ sent' \in Nat
    BY <1>1, SendEffect DEF TypeOK
  <2>5. UNCHANGED <<wake, wpc, item, flushed, wire, conn, stop>>
    BY <1>1, SendEffect
  <2> QED
    BY Zenon, <2>1, <2>2, <2>3, <2>4, <2>5 DEF TypeOK
<1>2. ASSUME NEW g \in Senders, Signal(g) PROVE TypeOK'
  BY Zenon, <1>2 DEF Signal, Goto, writerVars, Return, TypeOK, Labels, Item
<1>3. ASSUME NEW g \in Senders, Overflow(g) PROVE TypeOK'
  BY Zenon, <1>3 DEF Overflow, Goto, writerVars, Return, TypeOK, Labels, Item
<1>4. ASSUME NEW g \in Senders, Flush(g) PROVE TypeOK'
  <2>1. queue' \in Seq(Item)
    BY <1>4, MarkerType, AppendQueue DEF Flush
  <2>2. pc' \in [Senders -> Labels] /\ flushed' \subseteq Senders \cup {None}
    BY <1>4 DEF Flush, Goto, TypeOK, Labels
  <2>3. UNCHANGED <<bytes, wake, mutex, left, error, wpc, item, conn, stop, wire,
                    sent, accepted>>
    BY <1>4 DEF Flush
  <2> QED
    BY <2>1, <2>2, <2>3 DEF TypeOK
<1>5. ASSUME NEW g \in Senders, SignalFlush(g) PROVE TypeOK'
  BY <1>5 DEF SignalFlush, Goto, writerVars, TypeOK, Labels, Item
<1>6. ASSUME NEW g \in Senders, FlushReturn(g) PROVE TypeOK'
  BY <1>6 DEF FlushReturn, Goto, writerVars, TypeOK, Labels, Item
<1>7. ASSUME NEW g \in Senders, Close(g) PROVE TypeOK'
  BY <1>7 DEF Close, Goto, writerVars, TypeOK, Labels, Item
<1>8. CASE WriterWake
  BY Zenon, <1>8 DEF WriterWake, TypeOK, Labels, Item
<1>9. CASE WriterStop
  BY <1>9 DEF WriterStop, TypeOK, Labels, Item
<1>10. CASE WriterPark
  BY <1>10 DEF WriterPark, TypeOK, Labels, Item
<1>11. CASE WriterPop
  <2>1. queue' \in Seq(Item) /\ item' \in Item /\ bytes' \in Int
    BY <1>11, PopQueue DEF WriterPop, TypeOK
  <2>2. Head(queue).for \in Senders \cup {None}
    BY <1>11, PopQueue
  <2> QED
    BY <1>11, <2>1, <2>2 DEF WriterPop, TypeOK
<1>12. CASE WriterWrite
  BY <1>12 DEF WriterWrite, TypeOK, Labels, Item
<1>13. CASE WriterFail
  BY <1>13 DEF WriterFail, TypeOK, Labels, Item
<1>14. CASE ReaderStop
  BY <1>14 DEF ReaderStop, Goto, writerVars, TypeOK, Labels, Item
<1>15. CASE ReaderExit
  BY <1>15 DEF ReaderExit, Goto, writerVars, TypeOK, Labels, Item
<1>16. CASE UNCHANGED vars
  BY <1>16 DEF vars, TypeOK, Labels, Item
<1>17. CASE CaptureError
  BY <1>17 DEF CaptureError, Goto, writerVars, TypeOK, Labels, Item
<1> QED
  BY <1>1, <1>2, <1>3, <1>4, <1>5, <1>6, <1>7, <1>8,
     <1>9, <1>10, <1>11, <1>12, <1>13, <1>14, <1>15, <1>16, <1>17
     DEF Next, SenderStep, WriterStep, SendAny

(* The batch loop goes on only with messages left.                          *)
LEMMA BatchStep ==
  ASSUME TypeOK, Batch, [Next]_vars
  PROVE  Batch'
<1> USE WriterAssumption
<1>1. ASSUME NEW g \in Senders, NEW len \in Lens, SendAny(g, len)
      PROVE  Batch'
  <2>1. \A h \in Senders : h # g => left'[h] = left[h] /\ pc'[h] = pc[h]
    <3>1. \A h \in Senders : h # g => left'[h] = left[h]
      BY <1>1 DEF SendAny, Send, SendError, SendNext, TypeOK
    <3> QED
      BY <1>1, <3>1, SendOthers
  <2>2. pc'[g] # "more"
    BY <1>1, SendOthers
  <2> QED
    BY <2>1, <2>2 DEF Batch
<1>2. ASSUME NEW g \in Senders, Signal(g) PROVE Batch'
  BY <1>2 DEF Signal, Goto, writerVars, Return, TypeOK, Batch
<1>3. ASSUME NEW g \in Senders, Overflow(g) PROVE Batch'
  BY <1>3 DEF Overflow, Goto, writerVars, Return, TypeOK, Batch
<1>4. ASSUME NEW g \in Senders, Flush(g) PROVE Batch'
  BY <1>4 DEF Flush, Goto, writerVars, Marker, TypeOK, Batch
<1>5. ASSUME NEW g \in Senders, SignalFlush(g) PROVE Batch'
  BY <1>5 DEF SignalFlush, Goto, writerVars, TypeOK, Batch
<1>6. ASSUME NEW g \in Senders, FlushReturn(g) PROVE Batch'
  BY <1>6 DEF FlushReturn, Goto, writerVars, TypeOK, Batch
<1>7. ASSUME NEW g \in Senders, Close(g) PROVE Batch'
  BY <1>7 DEF Close, Goto, writerVars, TypeOK, Batch
<1>8. CASE WriterWake
  BY <1>8 DEF WriterWake, TypeOK, Batch
<1>9. CASE WriterStop
  BY <1>9 DEF WriterStop, TypeOK, Batch
<1>10. CASE WriterPark
  BY <1>10 DEF WriterPark, TypeOK, Batch
<1>11. CASE WriterPop
  BY <1>11 DEF WriterPop, TypeOK, Batch
<1>12. CASE WriterWrite
  BY <1>12 DEF WriterWrite, TypeOK, Batch
<1>13. CASE WriterFail
  BY <1>13 DEF WriterFail, TypeOK, Batch
<1>14. CASE ReaderStop
  BY <1>14 DEF ReaderStop, Goto, writerVars, TypeOK, Batch
<1>15. CASE ReaderExit
  BY <1>15 DEF ReaderExit, Goto, writerVars, TypeOK, Batch
<1>16. CASE UNCHANGED vars
  BY <1>16 DEF vars, TypeOK, Batch
<1>17. CASE CaptureError
  BY <1>17 DEF CaptureError, Goto, writerVars, TypeOK, Batch
<1> QED
  BY <1>1, <1>2, <1>3, <1>4, <1>5, <1>6, <1>7, <1>8,
     <1>9, <1>10, <1>11, <1>12, <1>13, <1>14, <1>15, <1>16, <1>17
     DEF Next, SenderStep, WriterStep, SendAny

(* writerMu is taken and released where the code says.                      *)
LEMMA HolderStep ==
  ASSUME TypeOK, Holder, [Next]_vars
  PROVE  Holder'
<1> USE WriterAssumption
<1>1. ASSUME NEW g \in Senders, NEW len \in Lens, SendAny(g, len)
      PROVE  Holder'
  <2>1. mutex' = g
    BY <1>1, SendEffect DEF Holder, Inside
  <2>2. \A h \in Senders : h # g => pc'[h] = pc[h] /\ mutex # h
    BY <1>1, SendEffect DEF TypeOK, Holder, Inside
  <2>3. pc'[g] \in Inside
    BY <1>1, SendEffect DEF TypeOK, Inside
  <2> QED
    BY <2>1, <2>2, <2>3 DEF Holder
<1>2. ASSUME NEW g \in Senders, Signal(g) PROVE Holder'
  BY <1>2 DEF Signal, Goto, writerVars, Return, TypeOK, Holder, Inside
<1>3. ASSUME NEW g \in Senders, Overflow(g) PROVE Holder'
  BY <1>3 DEF Overflow, Goto, writerVars, Return, TypeOK, Holder, Inside
<1>4. ASSUME NEW g \in Senders, Flush(g) PROVE Holder'
  BY <1>4 DEF Flush, Goto, writerVars, Marker, TypeOK, Holder, Inside
<1>5. ASSUME NEW g \in Senders, SignalFlush(g) PROVE Holder'
  BY <1>5 DEF SignalFlush, Goto, writerVars, TypeOK, Holder, Inside
<1>6. ASSUME NEW g \in Senders, FlushReturn(g) PROVE Holder'
  BY <1>6 DEF FlushReturn, Goto, writerVars, TypeOK, Holder, Inside
<1>7. ASSUME NEW g \in Senders, Close(g) PROVE Holder'
  BY <1>7 DEF Close, Goto, writerVars, TypeOK, Holder, Inside
<1>8. CASE WriterWake
  BY <1>8 DEF WriterWake, TypeOK, Holder, Inside
<1>9. CASE WriterStop
  BY <1>9 DEF WriterStop, TypeOK, Holder, Inside
<1>10. CASE WriterPark
  BY <1>10 DEF WriterPark, TypeOK, Holder, Inside
<1>11. CASE WriterPop
  BY <1>11 DEF WriterPop, TypeOK, Holder, Inside
<1>12. CASE WriterWrite
  BY <1>12 DEF WriterWrite, TypeOK, Holder, Inside
<1>13. CASE WriterFail
  BY <1>13 DEF WriterFail, TypeOK, Holder, Inside
<1>14. CASE ReaderStop
  BY <1>14 DEF ReaderStop, Goto, writerVars, TypeOK, Holder, Inside
<1>15. CASE ReaderExit
  BY <1>15 DEF ReaderExit, Goto, writerVars, TypeOK, Holder, Inside
<1>16. CASE UNCHANGED vars
  BY <1>16 DEF vars, TypeOK, Holder, Inside
<1>17. CASE CaptureError
  BY <1>17 DEF CaptureError, Goto, writerVars, TypeOK, Holder, Inside
<1> QED
  BY <1>1, <1>2, <1>3, <1>4, <1>5, <1>6, <1>7, <1>8,
     <1>9, <1>10, <1>11, <1>12, <1>13, <1>14, <1>15, <1>16, <1>17
     DEF Next, SenderStep, WriterStep, SendAny

(* The limit on queued bytes.                                               *)
LEMMA BytesStep ==
  ASSUME TypeOK, BytesBounded, [Next]_vars
  PROVE  BytesBounded'
<1> USE WriterAssumption
<1>1. ASSUME NEW g \in Senders, NEW len \in Lens, SendAny(g, len)
      PROVE  BytesBounded'
  BY <1>1, SendEffect DEF BytesBounded
<1>2. ASSUME NEW g \in Senders, Signal(g) PROVE BytesBounded'
  BY <1>2 DEF Signal, Goto, writerVars, Return, TypeOK, BytesBounded
<1>3. ASSUME NEW g \in Senders, Overflow(g) PROVE BytesBounded'
  BY <1>3 DEF Overflow, Goto, writerVars, Return, TypeOK, BytesBounded
<1>4. ASSUME NEW g \in Senders, Flush(g) PROVE BytesBounded'
  BY <1>4 DEF Flush, Goto, writerVars, Marker, TypeOK, BytesBounded
<1>5. ASSUME NEW g \in Senders, SignalFlush(g) PROVE BytesBounded'
  BY <1>5 DEF SignalFlush, Goto, writerVars, TypeOK, BytesBounded
<1>6. ASSUME NEW g \in Senders, FlushReturn(g) PROVE BytesBounded'
  BY <1>6 DEF FlushReturn, Goto, writerVars, TypeOK, BytesBounded
<1>7. ASSUME NEW g \in Senders, Close(g) PROVE BytesBounded'
  BY <1>7 DEF Close, Goto, writerVars, TypeOK, BytesBounded
<1>8. CASE WriterWake
  BY <1>8 DEF WriterWake, TypeOK, BytesBounded
<1>9. CASE WriterStop
  BY <1>9 DEF WriterStop, TypeOK, BytesBounded
<1>10. CASE WriterPark
  BY <1>10 DEF WriterPark, TypeOK, BytesBounded
<1>11. CASE WriterPop
  <2>1. Head(queue).len \in Nat
    BY <1>11, PopQueue
  <2> QED
    BY <1>11, <2>1 DEF WriterPop, TypeOK, BytesBounded
<1>12. CASE WriterWrite
  BY <1>12 DEF WriterWrite, TypeOK, BytesBounded
<1>13. CASE WriterFail
  BY <1>13 DEF WriterFail, TypeOK, BytesBounded
<1>14. CASE ReaderStop
  BY <1>14 DEF ReaderStop, Goto, writerVars, TypeOK, BytesBounded
<1>15. CASE ReaderExit
  BY <1>15 DEF ReaderExit, Goto, writerVars, TypeOK, BytesBounded
<1>16. CASE UNCHANGED vars
  BY <1>16 DEF vars, TypeOK, BytesBounded
<1>17. CASE CaptureError
  BY <1>17 DEF CaptureError, Goto, writerVars, TypeOK, BytesBounded
<1> QED
  BY <1>1, <1>2, <1>3, <1>4, <1>5, <1>6, <1>7, <1>8,
     <1>9, <1>10, <1>11, <1>12, <1>13, <1>14, <1>15, <1>16, <1>17
     DEF Next, SenderStep, WriterStep, SendAny

(* No step loses a wakeup.                                                  *)
LEMMA WakeStep ==
  ASSUME TypeOK, NoLostWake, [Next]_vars
  PROVE  NoLostWake'
<1> USE WriterAssumption
<1>1. ASSUME NEW g \in Senders, NEW len \in Lens, SendAny(g, len)
      PROVE  NoLostWake'
  BY <1>1, SendEffect DEF TypeOK, NoLostWake
<1>2. ASSUME NEW g \in Senders, Signal(g) PROVE NoLostWake'
  BY <1>2 DEF Signal, Goto, writerVars, Return, TypeOK, NoLostWake
<1>3. ASSUME NEW g \in Senders, Overflow(g) PROVE NoLostWake'
  BY <1>3 DEF Overflow, Goto, writerVars, Return, TypeOK, NoLostWake
<1>4. ASSUME NEW g \in Senders, Flush(g) PROVE NoLostWake'
  BY <1>4 DEF Flush, Goto, writerVars, Marker, TypeOK, NoLostWake
<1>5. ASSUME NEW g \in Senders, SignalFlush(g) PROVE NoLostWake'
  BY <1>5 DEF SignalFlush, Goto, writerVars, TypeOK, NoLostWake
<1>6. ASSUME NEW g \in Senders, FlushReturn(g) PROVE NoLostWake'
  BY <1>6 DEF FlushReturn, Goto, writerVars, TypeOK, NoLostWake
<1>7. ASSUME NEW g \in Senders, Close(g) PROVE NoLostWake'
  BY <1>7 DEF Close, Goto, writerVars, TypeOK, NoLostWake
<1>8. CASE WriterWake
  BY <1>8 DEF WriterWake, TypeOK, NoLostWake
<1>9. CASE WriterStop
  BY <1>9 DEF WriterStop, TypeOK, NoLostWake
<1>10. CASE WriterPark
  BY <1>10 DEF WriterPark, TypeOK, NoLostWake
<1>11. CASE WriterPop
  BY <1>11 DEF WriterPop, TypeOK, NoLostWake
<1>12. CASE WriterWrite
  BY <1>12 DEF WriterWrite, TypeOK, NoLostWake
<1>13. CASE WriterFail
  BY <1>13 DEF WriterFail, TypeOK, NoLostWake
<1>14. CASE ReaderStop
  BY <1>14 DEF ReaderStop, Goto, writerVars, TypeOK, NoLostWake
<1>15. CASE ReaderExit
  BY <1>15 DEF ReaderExit, Goto, writerVars, TypeOK, NoLostWake
<1>16. CASE UNCHANGED vars
  BY <1>16 DEF vars, TypeOK, NoLostWake
<1>17. CASE CaptureError
  BY <1>17 DEF CaptureError, Goto, writerVars, TypeOK, NoLostWake
<1> QED
  BY <1>1, <1>2, <1>3, <1>4, <1>5, <1>6, <1>7, <1>8,
     <1>9, <1>10, <1>11, <1>12, <1>13, <1>14, <1>15, <1>16, <1>17
     DEF Next, SenderStep, WriterStep, SendAny

(* Lines and markers keep their shape.                                      *)
LEMMA ShapeStep ==
  ASSUME TypeOK, Shape, [Next]_vars
  PROVE  Shape'
<1> USE WriterAssumption
<1>1. ASSUME NEW g \in Senders, NEW len \in Lens, SendAny(g, len)
      PROVE  Shape'
  <2>1. CASE UNCHANGED queue
    BY <2>1 DEF Shape
  <2>2. CASE queue' = Append(queue, Line(sent + 1, len))
    BY <2>2, LineType, AppendQueue DEF Shape
  <2> QED
    BY <1>1, <2>1, <2>2, SendEffect
<1>2. ASSUME NEW g \in Senders, Signal(g) PROVE Shape'
  BY <1>2 DEF Signal, Goto, writerVars, Return, TypeOK, Shape
<1>3. ASSUME NEW g \in Senders, Overflow(g) PROVE Shape'
  BY <1>3 DEF Overflow, Goto, writerVars, Return, TypeOK, Shape
<1>4. ASSUME NEW g \in Senders, Flush(g) PROVE Shape'
  BY <1>4, MarkerType, AppendQueue DEF Flush, Shape
<1>5. ASSUME NEW g \in Senders, SignalFlush(g) PROVE Shape'
  BY <1>5 DEF SignalFlush, Goto, writerVars, TypeOK, Shape
<1>6. ASSUME NEW g \in Senders, FlushReturn(g) PROVE Shape'
  BY <1>6 DEF FlushReturn, Goto, writerVars, TypeOK, Shape
<1>7. ASSUME NEW g \in Senders, Close(g) PROVE Shape'
  BY <1>7 DEF Close, Goto, writerVars, TypeOK, Shape
<1>8. CASE WriterWake
  BY <1>8 DEF WriterWake, TypeOK, Shape
<1>9. CASE WriterStop
  BY <1>9 DEF WriterStop, TypeOK, Shape
<1>10. CASE WriterPark
  BY <1>10 DEF WriterPark, TypeOK, Shape
<1>11. CASE WriterPop
  BY <1>11, PopQueue DEF Shape
<1>12. CASE WriterWrite
  BY <1>12 DEF WriterWrite, TypeOK, Shape
<1>13. CASE WriterFail
  BY <1>13 DEF WriterFail, TypeOK, Shape
<1>14. CASE ReaderStop
  BY <1>14 DEF ReaderStop, Goto, writerVars, TypeOK, Shape
<1>15. CASE ReaderExit
  BY <1>15 DEF ReaderExit, Goto, writerVars, TypeOK, Shape
<1>16. CASE UNCHANGED vars
  BY Zenon, <1>16 DEF vars, TypeOK, Shape
<1>17. CASE CaptureError
  BY <1>17 DEF CaptureError, Goto, writerVars, TypeOK, Shape
<1> QED
  BY <1>1, <1>2, <1>3, <1>4, <1>5, <1>6, <1>7, <1>8,
     <1>9, <1>10, <1>11, <1>12, <1>13, <1>14, <1>15, <1>16, <1>17
     DEF Next, SenderStep, WriterStep, SendAny

(* The writer only puts the next number on the wire.                        *)
LEMMA WireStep ==
  ASSUME TypeOK, Chain, WireIsPrefix, [Next]_vars
  PROVE  WireIsPrefix'
<1> USE WriterAssumption
<1>1. ASSUME NEW g \in Senders, NEW len \in Lens, SendAny(g, len)
      PROVE  WireIsPrefix'
  BY <1>1, SendEffect DEF WireIsPrefix
<1>2. ASSUME NEW g \in Senders, Signal(g) PROVE WireIsPrefix'
  BY <1>2 DEF Signal, Goto, writerVars, Return, TypeOK, WireIsPrefix
<1>3. ASSUME NEW g \in Senders, Overflow(g) PROVE WireIsPrefix'
  BY <1>3 DEF Overflow, Goto, writerVars, Return, TypeOK, WireIsPrefix
<1>4. ASSUME NEW g \in Senders, Flush(g) PROVE WireIsPrefix'
  BY <1>4 DEF Flush, Goto, writerVars, Marker, TypeOK, WireIsPrefix
<1>5. ASSUME NEW g \in Senders, SignalFlush(g) PROVE WireIsPrefix'
  BY <1>5 DEF SignalFlush, Goto, writerVars, TypeOK, WireIsPrefix
<1>6. ASSUME NEW g \in Senders, FlushReturn(g) PROVE WireIsPrefix'
  BY <1>6 DEF FlushReturn, Goto, writerVars, TypeOK, WireIsPrefix
<1>7. ASSUME NEW g \in Senders, Close(g) PROVE WireIsPrefix'
  BY <1>7 DEF Close, Goto, writerVars, TypeOK, WireIsPrefix
<1>8. CASE WriterWake
  BY <1>8 DEF WriterWake, TypeOK, WireIsPrefix
<1>9. CASE WriterStop
  BY <1>9 DEF WriterStop, TypeOK, WireIsPrefix
<1>10. CASE WriterPark
  BY <1>10 DEF WriterPark, TypeOK, WireIsPrefix
<1>11. CASE WriterPop
  BY <1>11 DEF WriterPop, TypeOK, WireIsPrefix
<1>12. CASE WriterWrite
  BY <1>12 DEF WriterWrite, TypeOK, Chain, WireIsPrefix
<1>13. CASE WriterFail
  BY <1>13 DEF WriterFail, TypeOK, WireIsPrefix
<1>14. CASE ReaderStop
  BY <1>14 DEF ReaderStop, Goto, writerVars, TypeOK, WireIsPrefix
<1>15. CASE ReaderExit
  BY <1>15 DEF ReaderExit, Goto, writerVars, TypeOK, WireIsPrefix
<1>16. CASE UNCHANGED vars
  BY <1>16 DEF vars, TypeOK, WireIsPrefix
<1>17. CASE CaptureError
  BY <1>17 DEF CaptureError, Goto, writerVars, TypeOK, WireIsPrefix
<1> QED
  BY <1>1, <1>2, <1>3, <1>4, <1>5, <1>6, <1>7, <1>8,
     <1>9, <1>10, <1>11, <1>12, <1>13, <1>14, <1>15, <1>16, <1>17
     DEF Next, SenderStep, WriterStep, SendAny

(* The numbers run on: an accepted line is the next one, since a line that  *)
(* did not fit closes the connection before writerMu is released.           *)
LEMMA ChainStep ==
  ASSUME TypeOK, Holder, Chain, [Next]_vars
  PROVE  Chain'
<1> USE WriterAssumption
<1>1. ASSUME NEW g \in Senders, NEW len \in Lens, SendAny(g, len)
      PROVE  Chain'
  <2> SUFFICES ASSUME conn = "open" PROVE Chain'
    BY <1>1, SendEffect DEF Chain
  <2>1. \A h \in Senders : pc[h] # "overflow"
    BY <1>1, SendEffect DEF Holder, Inside
  <2>2. accepted = sent
    BY <2>1 DEF Chain
  <2>3. UNCHANGED <<wpc, item, wire>>
    BY <1>1, SendEffect
  <2>4. CASE pc' = [pc EXCEPT ![g] = "overflow"] /\ UNCHANGED <<queue, accepted>>
    BY <2>3, <2>4 DEF TypeOK, Chain, Taken, Count
  <2>5. CASE queue' = Append(queue, Line(sent + 1, len)) /\ accepted' = sent + 1
    <3>1. sent' = sent + 1
      BY <1>1, SendEffect
    <3>2. /\ Len(queue') = Len(queue) + 1 /\ Len(queue) \in Nat
          /\ \A i \in 1..Len(queue) : queue'[i] = queue[i]
          /\ queue'[Len(queue) + 1] = Line(sent + 1, len)
      BY <2>5, LineType, AppendQueue
    <3>3. Count(Line(sent + 1, len)) = 1 /\ Line(sent + 1, len).id = sent + 1
      BY LineType DEF Count
    <3>4. Taken' = Taken
      BY <2>3 DEF Taken
    <3>5. \A i \in 1..Len(queue') : Count(queue'[i]) = Count(queue[i]) \/ i = Len(queue) + 1
      BY <3>2
    <3>6. ASSUME NEW i \in 1..Len(queue')
          PROVE  queue'[i].id = (IF i = 1 THEN Taken ELSE queue'[i - 1].id) + Count(queue'[i])
      <4>1. CASE i \in 1..Len(queue)
        BY <4>1, <3>2 DEF Chain
      <4>2. CASE i = Len(queue) + 1
        <5>1. accepted = IF i = 1 THEN Taken ELSE queue'[i - 1].id
          BY <4>2, <3>2 DEF Chain
        <5> QED
          BY <5>1, <4>2, <2>2, <3>2, <3>3
      <4> QED
        BY <4>1, <4>2, <3>2
    <3>7. accepted' = queue'[Len(queue')].id /\ Len(queue') # 0
      BY <2>5, <3>2, <3>3
    <3>8. wpc' = "write" => item'.id = Len(wire') + 1
      BY <2>3 DEF Chain
    <3> QED
      BY <2>5, <3>1, <3>4, <3>6, <3>7, <3>8 DEF Chain, Count
  <2> QED
    BY <1>1, <2>4, <2>5, SendEffect
<1>2. ASSUME NEW g \in Senders, Signal(g) PROVE Chain'
  BY <1>2 DEF Signal, Goto, writerVars, Return, TypeOK, Chain, Taken, Count
<1>3. ASSUME NEW g \in Senders, Overflow(g) PROVE Chain'
  BY <1>3 DEF Overflow, Goto, writerVars, Return, TypeOK, Chain, Taken, Count
<1>4. ASSUME NEW g \in Senders, Flush(g) PROVE Chain'
  <2> SUFFICES ASSUME conn = "open" PROVE Chain'
    BY <1>4 DEF Flush, Chain
  <2>1. /\ Len(queue') = Len(queue) + 1 /\ Len(queue) \in Nat
        /\ \A i \in 1..Len(queue) : queue'[i] = queue[i]
        /\ queue'[Len(queue) + 1] = Marker(accepted, g)
    BY <1>4, MarkerType, AppendQueue DEF Flush
  <2>2. Count(Marker(accepted, g)) = 0 /\ Marker(accepted, g).id = accepted
    BY MarkerType DEF Count
  <2>3. Taken' = Taken
    BY <1>4 DEF Flush, Taken
  <2>4. ASSUME NEW i \in 1..Len(queue')
        PROVE  queue'[i].id = (IF i = 1 THEN Taken ELSE queue'[i - 1].id) + Count(queue'[i])
    <3>1. CASE i \in 1..Len(queue)
      BY <3>1, <2>1 DEF Chain
    <3>2. CASE i = Len(queue) + 1
      <4>1. accepted = IF i = 1 THEN Taken ELSE queue'[i - 1].id
        BY <3>2, <2>1 DEF Chain
      <4> QED
        BY <4>1, <3>2, <2>1, <2>2 DEF TypeOK
    <3> QED
      BY <3>1, <3>2, <2>1
  <2>5. accepted' = queue'[Len(queue')].id /\ Len(queue') # 0
    BY <1>4, <2>1, <2>2 DEF Flush
  <2>6. wpc' = "write" => item'.id = Len(wire') + 1
    BY <1>4 DEF Flush, Chain
  <2>7. accepted' = sent' \/ \E h \in Senders : pc'[h] = "overflow"
    BY <1>4 DEF Flush, Goto, Chain, TypeOK
  <2> QED
    BY <2>3, <2>4, <2>5, <2>6, <2>7 DEF Chain, Count
<1>5. ASSUME NEW g \in Senders, SignalFlush(g) PROVE Chain'
  BY <1>5 DEF SignalFlush, Goto, writerVars, TypeOK, Chain, Taken, Count
<1>6. ASSUME NEW g \in Senders, FlushReturn(g) PROVE Chain'
  BY <1>6 DEF FlushReturn, Goto, writerVars, TypeOK, Chain, Taken, Count
<1>7. ASSUME NEW g \in Senders, Close(g) PROVE Chain'
  BY <1>7 DEF Close, Goto, writerVars, TypeOK, Chain, Taken, Count
<1>8. CASE WriterWake
  BY <1>8 DEF WriterWake, TypeOK, Chain, Taken, Count
<1>9. CASE WriterStop
  BY <1>9 DEF WriterStop, TypeOK, Chain, Taken, Count
<1>10. CASE WriterPark
  BY <1>10 DEF WriterPark, TypeOK, Chain, Taken, Count
<1>11. CASE WriterPop
  <2> SUFFICES ASSUME conn = "open" PROVE Chain'
    BY Zenon, <1>11 DEF WriterPop, Chain
  <2>1. /\ Len(queue') = Len(queue) - 1 /\ Len(queue) \in Nat \ {0}
        /\ \A i \in 1..Len(queue') : queue'[i] = queue[i + 1]
        /\ item' = queue[1] /\ Head(queue) = queue[1]
        /\ queue[1].len \in Nat
    BY <1>11, PopQueue
  <2>2. queue[1].id = Len(wire) + Count(queue[1]) /\ Len(wire) \in Nat
    BY <1>11, <2>1 DEF WriterPop, Chain, Taken, TypeOK
  <2>3. Taken' = queue[1].id /\ (wpc' = "write" => item'.id = Len(wire') + 1)
    BY <1>11, <2>1, <2>2 DEF WriterPop, Taken, Count
  <2>4. ASSUME NEW i \in 1..Len(queue')
        PROVE  queue'[i].id = (IF i = 1 THEN queue[1].id ELSE queue'[i - 1].id) + Count(queue'[i])
    <3>1. queue[i + 1].id = queue[i].id + Count(queue[i + 1])
      BY <2>1 DEF Chain
    <3>2. i = 1 \/ queue'[i - 1] = queue[i]
      BY <2>1
    <3> QED
      BY <3>1, <3>2, <2>1
  <2>5. accepted' = IF Len(queue') = 0 THEN queue[1].id ELSE queue'[Len(queue')].id
    BY <1>11, <2>1 DEF WriterPop, Chain
  <2>6. accepted' = sent' \/ \E h \in Senders : pc'[h] = "overflow"
    BY <1>11 DEF WriterPop, Chain
  <2> QED
    BY <2>3, <2>4, <2>5, <2>6 DEF Chain, Count
<1>12. CASE WriterWrite
  BY <1>12 DEF WriterWrite, TypeOK, Chain, Taken, Count
<1>13. CASE WriterFail
  BY <1>13 DEF WriterFail, TypeOK, Chain, Taken, Count
<1>14. CASE ReaderStop
  BY <1>14 DEF ReaderStop, Goto, writerVars, TypeOK, Chain, Taken, Count
<1>15. CASE ReaderExit
  BY <1>15 DEF ReaderExit, Goto, writerVars, TypeOK, Chain, Taken, Count
<1>16. CASE UNCHANGED vars
  BY <1>16 DEF vars, TypeOK, Chain, Taken, Count
<1>17. CASE CaptureError
  BY <1>17 DEF CaptureError, Goto, writerVars, TypeOK, Chain, Taken, Count
<1> QED
  BY <1>1, <1>2, <1>3, <1>4, <1>5, <1>6, <1>7, <1>8,
     <1>9, <1>10, <1>11, <1>12, <1>13, <1>14, <1>15, <1>16, <1>17
     DEF Next, SenderStep, WriterStep, SendAny

(* A goroutine that waits for its marker stays where it is until the writer *)
(* has reached it.                                                          *)
LEMMA MarkersStep ==
  ASSUME TypeOK, Batch, Shape, Markers, Errors, [Next]_vars
  PROVE  Markers'
<1> USE WriterAssumption
<1>1. ASSUME NEW g \in Senders, NEW len \in Lens, SendAny(g, len)
      PROVE  Markers'
  <2> SUFFICES ASSUME wpc # "exited" PROVE Markers'
    BY <1>1, SendEffect DEF Markers
  <2>1. UNCHANGED <<wpc, flushed, conn>> /\ pc[g] \notin Waiting
    BY <1>1, SendEffect DEF Waiting
  <2>2. \A h \in Senders : h # g => pc'[h] = pc[h] /\ error'[h] = error[h]
    BY <1>1, SendOthers
  <2>3. CASE UNCHANGED queue
    <3>1. \A i \in 1..Len(queue) : queue[i].for \in Senders \cup {None}
      BY QueueItems
    <3> QED
      BY <2>1, <2>2, <2>3, <3>1 DEF Markers
  <2>4. CASE queue' = Append(queue, Line(sent + 1, len))
    <3>1. \A i \in 1..Len(queue) : queue[i].for \in Senders \cup {None}
      BY QueueItems
    <3>2. /\ Len(queue') = Len(queue) + 1 /\ Len(queue) \in Nat
          /\ \A i \in 1..Len(queue) : queue'[i] = queue[i]
          /\ queue'[Len(queue) + 1].for = None
      BY <2>4, LineType, AppendQueue
    <3>3. \A i \in 1..Len(queue') : queue'[i].for # None =>
            i \in 1..Len(queue) /\ queue'[i] = queue[i]
      BY <3>2
    <3> QED
      BY <2>1, <2>2, <3>1, <3>3 DEF Markers
  <2> QED
    BY <1>1, <2>3, <2>4, SendEffect
<1>2. ASSUME NEW g \in Senders, Signal(g) PROVE Markers'
  <2>1. /\ pc[g] \notin Waiting
        /\ \A h \in Senders : h # g => pc'[h] = pc[h]
        /\ UNCHANGED <<queue, error, wpc, flushed>>
        /\ conn' = "open" => conn = "open"
    BY <1>2 DEF Signal, Return, Goto, writerVars, TypeOK, Waiting
  <2>2. \A i \in 1..Len(queue) : queue[i].for \in Senders \cup {None}
    BY QueueItems
  <2> QED
    BY <2>1, <2>2 DEF Markers
<1>3. ASSUME NEW g \in Senders, Overflow(g) PROVE Markers'
  <2>1. /\ pc[g] \notin Waiting
        /\ \A h \in Senders : h # g => pc'[h] = pc[h]
        /\ UNCHANGED <<queue, error, wpc, flushed>>
        /\ conn' = "open" => conn = "open"
    BY <1>3 DEF Overflow, Return, Goto, writerVars, TypeOK, Waiting
  <2>2. \A i \in 1..Len(queue) : queue[i].for \in Senders \cup {None}
    BY QueueItems
  <2> QED
    BY <2>1, <2>2 DEF Markers
<1>4. ASSUME NEW g \in Senders, Flush(g) PROVE Markers'
  <2> SUFFICES ASSUME wpc # "exited" PROVE Markers'
    BY <1>4 DEF Flush, Markers
  <2>1. \A i \in 1..Len(queue) : queue[i].for \in Senders \cup {None}
    BY QueueItems
  <2>2. /\ Len(queue') = Len(queue) + 1 /\ Len(queue) \in Nat
        /\ \A i \in 1..Len(queue) : queue'[i] = queue[i]
        /\ queue'[Len(queue) + 1].for = g
        /\ queue'[Len(queue) + 1].id = accepted
    BY <1>4, MarkerType, AppendQueue DEF Flush
  <2>3. \A i \in 1..Len(queue) : queue[i].for # g
    BY <1>4 DEF Flush, Markers, Waiting
  <2>4. /\ \A h \in Senders : h # g => pc'[h] = pc[h]
        /\ pc'[g] \in Waiting /\ g \notin flushed'
        /\ flushed' \subseteq flushed /\ UNCHANGED <<error, conn, wpc>>
    BY <1>4 DEF Flush, Goto, TypeOK, Waiting
  <2>5. conn = "open" => error[g] <= accepted
    BY <1>4 DEF Flush, Errors
  <2>6. ASSUME NEW i \in 1..Len(queue'), queue'[i].for # None
        PROVE  /\ pc'[queue'[i].for] \in Waiting
               /\ queue'[i].for \notin flushed'
               /\ conn' = "open" => error'[queue'[i].for] <= queue'[i].id
    <3>1. CASE i = Len(queue) + 1
      BY <3>1, <2>2, <2>4, <2>5
    <3>2. CASE i \in 1..Len(queue)
      BY <3>2, <2>6, <2>1, <2>2, <2>3, <2>4 DEF Markers
    <3> QED
      BY <3>1, <3>2, <2>2
  <2>7. ASSUME NEW i \in 1..Len(queue'), NEW j \in 1..Len(queue'),
               queue'[i].for # None, queue'[i].for = queue'[j].for
        PROVE  i = j
    <3>1. i \in 1..Len(queue) \/ i = Len(queue) + 1
      BY <2>2
    <3>2. j \in 1..Len(queue) \/ j = Len(queue) + 1
      BY <2>2
    <3> QED
      BY <3>1, <3>2, <2>7, <2>2, <2>3 DEF Markers
  <2> QED
    BY <2>6, <2>7 DEF Markers
<1>5. ASSUME NEW g \in Senders, SignalFlush(g) PROVE Markers'
  BY <1>5 DEF SignalFlush, Goto, writerVars, TypeOK, Markers, Waiting
<1>6. ASSUME NEW g \in Senders, FlushReturn(g) PROVE Markers'
  <2> SUFFICES ASSUME wpc # "exited" PROVE Markers'
    BY <1>6 DEF FlushReturn, writerVars, Markers
  <2>1. /\ g \in flushed
        /\ \A h \in Senders : h # g => pc'[h] = pc[h]
        /\ UNCHANGED <<queue, error, wpc, flushed, conn>>
    BY <1>6 DEF FlushReturn, Goto, writerVars, TypeOK
  <2>2. \A i \in 1..Len(queue) : queue[i].for \in Senders \cup {None}
    BY QueueItems
  <2>3. \A i \in 1..Len(queue) : queue[i].for # None => queue[i].for # g
    BY <2>1 DEF Markers
  <2> QED
    BY <2>1, <2>2, <2>3 DEF Markers
<1>7. ASSUME NEW g \in Senders, Close(g) PROVE Markers'
  BY <1>7 DEF Close, Goto, writerVars, TypeOK, Markers, Waiting
<1>8. CASE WriterWake
  BY <1>8 DEF WriterWake, TypeOK, Markers, Waiting
<1>9. CASE WriterStop
  BY <1>9 DEF WriterStop, TypeOK, Markers, Waiting
<1>10. CASE WriterPark
  BY <1>10 DEF WriterPark, TypeOK, Markers, Waiting
<1>11. CASE WriterPop
  <2>1. wpc # "exited"
    BY <1>11 DEF WriterPop
  <2>2. /\ Len(queue') = Len(queue) - 1 /\ Len(queue) \in Nat \ {0}
        /\ \A i \in 1..Len(queue') : queue'[i] = queue[i + 1]
        /\ Head(queue) = queue[1]
    BY <1>11, PopQueue
  <2>3. \A i \in 1..Len(queue') : queue'[i].for # None => queue'[i].for # queue[1].for
    BY <2>1, <2>2 DEF Markers
  <2>4. flushed' \subseteq flushed \cup {queue[1].for} /\ UNCHANGED <<pc, error, conn>>
    BY <1>11, <2>2 DEF WriterPop
  <2>5. ASSUME NEW i \in 1..Len(queue'), queue'[i].for # None
        PROVE  /\ pc'[queue'[i].for] \in Waiting
               /\ queue'[i].for \notin flushed'
               /\ conn' = "open" => error'[queue'[i].for] <= queue'[i].id
    <3>1. i + 1 \in 1..Len(queue) /\ queue'[i] = queue[i + 1]
      BY <2>2
    <3> QED
      BY <3>1, <2>1, <2>3, <2>4, <2>5 DEF Markers
  <2>6. ASSUME NEW i \in 1..Len(queue'), NEW j \in 1..Len(queue'),
               queue'[i].for # None, queue'[i].for = queue'[j].for
        PROVE  i = j
    <3>1. /\ i + 1 \in 1..Len(queue) /\ queue'[i] = queue[i + 1]
          /\ j + 1 \in 1..Len(queue) /\ queue'[j] = queue[j + 1]
      BY <2>2
    <3>2. i + 1 = j + 1
      BY <3>1, <2>1, <2>6 DEF Markers
    <3> QED
      BY <3>2
  <2> QED
    BY <2>5, <2>6 DEF Markers
<1>12. CASE WriterWrite
  BY <1>12 DEF WriterWrite, TypeOK, Markers, Waiting
<1>13. CASE WriterFail
  BY <1>13 DEF WriterFail, TypeOK, Markers, Waiting
<1>14. CASE ReaderStop
  BY <1>14 DEF ReaderStop, Goto, writerVars, TypeOK, Markers, Waiting
<1>15. CASE ReaderExit
  BY <1>15 DEF ReaderExit, Goto, writerVars, TypeOK, Markers, Waiting
<1>16. CASE UNCHANGED vars
  BY <1>16 DEF vars, TypeOK, Markers, Waiting
<1>17. CASE CaptureError
  <2>1. /\ pc[Reader] \notin Waiting
        /\ \A h \in Senders : h # Reader => pc'[h] = pc[h]
        /\ UNCHANGED <<queue, error, wpc, flushed, conn>>
    BY <1>17 DEF CaptureError, Goto, writerVars, TypeOK, Waiting
  <2>2. \A i \in 1..Len(queue) : queue[i].for \in Senders \cup {None}
    BY QueueItems
  <2> QED
    BY <2>1, <2>2 DEF Markers
<1> QED
  BY <1>1, <1>2, <1>3, <1>4, <1>5, <1>6, <1>7, <1>8,
     <1>9, <1>10, <1>11, <1>12, <1>13, <1>14, <1>15, <1>16, <1>17
     DEF Next, SenderStep, WriterStep, SendAny

(* An ERROR line is accepted before its goroutine flushes and written       *)
(* before the goroutine sees its marker reached.                            *)
LEMMA ErrorsStep ==
  ASSUME TypeOK, Batch, Holder, Shape, Chain, Markers, Errors, [Next]_vars
  PROVE  Errors'
<1> USE WriterAssumption
<1>1. ASSUME NEW g \in Senders, NEW len \in Lens, SendAny(g, len)
      PROVE  Errors'
  <2>1. UNCHANGED <<wpc, flushed, wire, conn>> /\ pc[g] \in {"idle", "more"}
    BY <1>1, SendEffect
  <2>2. \A h \in Senders : h # g => pc'[h] = pc[h] /\ error'[h] = error[h]
    BY <1>1, SendOthers
  <2>3. conn = "open" => accepted = sent
    <3>1. \A h \in Senders : pc[h] # "overflow"
      BY <1>1, SendEffect DEF Holder, Inside
    <3> QED
      BY <3>1 DEF Chain
  <2>4. conn = "open" => accepted' \in Nat /\ accepted <= accepted'
    BY <1>1, <2>3, SendEffect DEF TypeOK
  <2>5. pc'[g] \in {"signal", "overflow"}
    BY <1>1, SendEffect DEF TypeOK
  <2>6. conn = "open" /\ pc'[g] = "signal" => error'[g] <= accepted'
    <3>1. conn = "open" => error[g] <= accepted
      BY <2>1 DEF Errors, TypeOK
    <3>2. pc'[g] = "signal" => accepted' = sent + 1
      BY <1>1, SendEffect DEF TypeOK
    <3>3. error'[g] = error[g] \/ error'[g] = sent + 1
      BY <1>1, SendErrors
    <3>4. error[g] \in Nat /\ accepted \in Nat /\ sent \in Nat
      BY DEF TypeOK
    <3> QED
      BY <3>1, <3>2, <3>3, <3>4, <2>3
  <2>7. ASSUME NEW h \in Senders, h # g
        PROVE  conn = "open" /\ pc'[h] \in {"signal", "more", "flush"} => error'[h] <= accepted'
    <3>1. error[h] \in Nat /\ accepted \in Nat
      BY DEF TypeOK
    <3> QED
      BY <3>1, <2>2, <2>4, <2>7 DEF Errors
  <2> QED
    BY <2>1, <2>2, <2>5, <2>6, <2>7 DEF Errors, Waiting
<1>2. ASSUME NEW g \in Senders, Signal(g) PROVE Errors'
  BY <1>2 DEF Signal, Goto, writerVars, Return, TypeOK, Errors, Waiting
<1>3. ASSUME NEW g \in Senders, Overflow(g) PROVE Errors'
  BY <1>3 DEF Overflow, Goto, writerVars, Return, TypeOK, Errors, Waiting
<1>4. ASSUME NEW g \in Senders, Flush(g) PROVE Errors'
  BY <1>4 DEF Flush, Goto, writerVars, Marker, TypeOK, Errors, Waiting
<1>5. ASSUME NEW g \in Senders, SignalFlush(g) PROVE Errors'
  BY <1>5 DEF SignalFlush, Goto, writerVars, TypeOK, Errors, Waiting
<1>6. ASSUME NEW g \in Senders, FlushReturn(g) PROVE Errors'
  BY <1>6 DEF FlushReturn, Goto, writerVars, TypeOK, Errors, Waiting
<1>7. ASSUME NEW g \in Senders, Close(g) PROVE Errors'
  BY <1>7 DEF Close, Goto, writerVars, TypeOK, Errors, Waiting
<1>8. CASE WriterWake
  BY <1>8 DEF WriterWake, TypeOK, Errors, Waiting
<1>9. CASE WriterStop
  BY <1>9 DEF WriterStop, TypeOK, Errors, Waiting
<1>10. CASE WriterPark
  BY <1>10 DEF WriterPark, TypeOK, Errors, Waiting
<1>11. CASE WriterPop
  <2>1. /\ Len(queue) \in Nat \ {0} /\ Head(queue) = queue[1]
        /\ queue[1].len \in Nat
    BY <1>11, PopQueue
  <2>2. UNCHANGED <<pc, error, conn, wire, accepted>> /\ wpc # "exited"
    BY <1>11 DEF WriterPop
  <2>3. CASE queue[1].len > 0
    BY <1>11, <2>1, <2>2, <2>3 DEF WriterPop, Errors
  <2>4. CASE queue[1].len = 0
    <3>1. queue[1].for # None /\ flushed' = flushed \cup {queue[1].for}
      BY <1>11, <2>1, <2>4 DEF WriterPop, Shape
    <3>2. conn = "open" => queue[1].id = Len(wire)
      <4>1. Taken = Len(wire) /\ Len(wire) \in Nat
        BY <1>11 DEF WriterPop, Taken, TypeOK
      <4>2. conn = "open" => queue[1].id = Taken + Count(queue[1])
        BY <2>1 DEF Chain
      <4>3. Count(queue[1]) = 0
        BY <2>4 DEF Count
      <4> QED
        BY <4>1, <4>2, <4>3
    <3>3. /\ pc[queue[1].for] \in Waiting
          /\ conn = "open" => error[queue[1].for] <= queue[1].id
      BY <2>1, <2>2, <3>1 DEF Markers
    <3> QED
      BY <2>2, <3>1, <3>2, <3>3 DEF Errors
  <2> QED
    BY <2>1, <2>3, <2>4
<1>12. CASE WriterWrite
  BY <1>12 DEF WriterWrite, TypeOK, Errors, Waiting
<1>13. CASE WriterFail
  BY <1>13 DEF WriterFail, TypeOK, Errors, Waiting
<1>14. CASE ReaderStop
  BY <1>14 DEF ReaderStop, Goto, writerVars, TypeOK, Errors, Waiting
<1>15. CASE ReaderExit
  BY <1>15 DEF ReaderExit, Goto, writerVars, TypeOK, Errors, Waiting
<1>16. CASE UNCHANGED vars
  BY <1>16 DEF vars, TypeOK, Errors, Waiting
<1>17. CASE CaptureError
  BY <1>17 DEF CaptureError, Goto, writerVars, TypeOK, Errors, Waiting
<1> QED
  BY <1>1, <1>2, <1>3, <1>4, <1>5, <1>6, <1>7, <1>8,
     <1>9, <1>10, <1>11, <1>12, <1>13, <1>14, <1>15, <1>16, <1>17
     DEF Next, SenderStep, WriterStep, SendAny

(* The strengthened invariant holds in every reachable state.               *)
THEOREM Inductive == Spec => []IInv
<1>1. Init => IInv
  <2> SUFFICES ASSUME Init PROVE IInv
    OBVIOUS
  <2> USE WriterAssumption
  <2>1. TypeOK
    <3>1. Line(0, 0) \in Item
      BY DEF Line, Item
    <3>2. queue \in Seq(Item) /\ wire \in Seq(Nat)
      BY DEF Init
    <3>3. /\ pc \in [Senders -> Labels]
          /\ left \in [Senders -> Nat]
          /\ error \in [Senders -> Nat]
      BY DEF Init, Labels
    <3>4. wake \in BOOLEAN /\ stop \in BOOLEAN
      BY Zenon DEF Init
    <3>5. /\ mutex \in Senders \cup {None}
          /\ wpc \in {"select", "drain", "write", "exited"}
          /\ item \in Item
          /\ flushed \subseteq Senders \cup {None}
          /\ conn \in {"open", "closed"}
          /\ bytes \in Int /\ sent \in Nat /\ accepted \in Nat
      BY <3>1 DEF Init
    <3> QED
      BY <3>2, <3>3, <3>4, <3>5 DEF TypeOK
  <2>2. Batch /\ BytesBounded /\ Holder
    BY DEF Init, Batch, BytesBounded, Holder, Inside
  <2>3. NoLostWake /\ Shape /\ Chain /\ WireIsPrefix
    BY DEF Init, NoLostWake, Shape, Chain, Taken, WireIsPrefix
  <2>4. Markers /\ Errors
    BY DEF Init, Markers, Errors, Waiting
  <2> QED
    BY <2>1, <2>2, <2>3, <2>4 DEF IInv
<1>2. IInv /\ [Next]_vars => IInv'
  BY TypeStep, BatchStep, HolderStep, BytesStep, WakeStep, ShapeStep, WireStep,
     ChainStep, MarkersStep, ErrorsStep DEF IInv
<1> QED
  BY <1>1, <1>2, PTL DEF Spec

(* Type correctness of the writer's state.                                  *)
THEOREM TypeCorrect == Spec => []TypeOK
BY Inductive, PTL DEF IInv

(* writerLoop never sleeps on work: enqueue and the select of writerLoop    *)
(* lose no wakeup, for any number of goroutines.                            *)
THEOREM WakeSafe == Spec => []NoLostWake
BY Inductive, PTL DEF IInv

(* The bytes counted for the queue never exceed maxQueuedOutput.            *)
THEOREM QueueBounded == Spec => []BytesBounded
BY Inductive, PTL DEF IInv

(* The client sees a gapless prefix of the lines sent, in order.            *)
THEOREM WireOrdered == Spec => []WireIsPrefix
BY Inductive, PTL DEF IInv

(* The ERROR line of QUIT and KILL is on the wire when flush returns to a   *)
(* handler that is about to close the connection.                           *)
THEOREM ErrorLineSafe == Spec => []ErrorLineOut
<1>1. IInv => ErrorLineOut
  <2> SUFFICES ASSUME IInv, NEW g \in Senders,
                      pc[g] = "close", error[g] > 0, conn = "open", wpc # "exited"
               PROVE  error[g] \in Range(wire)
    BY DEF ErrorLineOut
  <2>1. error[g] \in Nat /\ wire \in Seq(Nat)
    BY DEF IInv, TypeOK
  <2>2. error[g] <= Len(wire)
    BY DEF IInv, Errors
  <2>3. error[g] \in DOMAIN wire
    BY <2>1, <2>2
  <2>4. wire[error[g]] = error[g]
    BY <2>3 DEF IInv, WireIsPrefix
  <2> QED
    BY <2>3, <2>4 DEF Range
<1> QED
  BY <1>1, Inductive, PTL
=============================================================================
