---- MODULE XdccBotProofs ----
(***************************************************************************)
(* Proofs about XDCC transfers (src/irc/client/dcc, src/irc/client/xdcc).  *)
(* The invariant ties the counters of a transfer to the places its two     *)
(* goroutines are at: bytes sent, in flight and read; buffers and ACKs;    *)
(* who has closed the connection, and why.  Every action has one of a few  *)
(* effects on a single transfer, and it is the effects that are shown to   *)
(* keep the invariant.                                                     *)
(***************************************************************************)
EXTENDS XdccBot, FiniteSetTheorems, TLAPS

(* The two ends of a transfer.                                              *)
S(t) == <<"send", t>>
R(t) == <<"recv", t>>

(* The types.                                                               *)
SessType == [State : TransferState, Err : BOOLEAN, conn : BOOLEAN, done : BOOLEAN]
NetType == [dialled : BOOLEAN, data : Nat, acks : Nat, shut : SUBSET Sides, lost : BOOLEAN]
DccTypes ==
  /\ sess \in [Ends -> SessType]
  /\ pc \in [Ends -> Locations]
  /\ listed \subseteq Ends
  /\ cancelling \subseteq cancelled /\ cancelled \subseteq Ends
  /\ net \in [Transfers -> NetType]
  /\ size \in [Transfers -> Nat] /\ sent \in [Transfers -> Nat] /\ got \in [Transfers -> Nat]
  /\ chunks \in [Transfers -> Nat] /\ acks \in [Transfers -> Nat]
BotTypes ==
  /\ file \in [Packs -> Names]
  /\ packs \in Seq([Number : Packs, Filename : Names]) /\ Len(packs) <= MaxPacks
  /\ active \in [Packs -> Seq(Nat)]
  /\ nextID \in Nat

(* Cancelled is cancelled, and an error is that of a transfer that is over. *)
StateOK(e) ==
  /\ sess[e].State = "cancelled" \/ pc[e] = "leave" => e \in cancelled
  /\ sess[e].Err => pc[e] \in {"signal", "ended"}
  /\ sess[e].State = "completed" => pc[e] \in {"signal", "ended"}

(* The stream: what was sent has arrived or is on its way, as long as the   *)
(* receiver takes it.                                                       *)
Flow(t) ==
  /\ got[t] + net[t].data <= sent[t] /\ sent[t] <= size[t]
  /\ net[t].acks <= acks[t] /\ acks[t] <= got[t]
  /\ pc[R(t)] = "ack" => acks[t] < got[t]
  /\ "recv" \notin net[t].shut /\ ~net[t].lost => got[t] + net[t].data = sent[t]

(* A sender that was not disturbed has read one ACK for each of its         *)
(* buffers, and then one more.                                              *)
Early == {"idle", "accept", "dial", "setconn", "activate", "check", "transfer", "lastack"}
Over == {"signal", "ended"}
Undisturbed(t) == "recv" \notin net[t].shut /\ ~net[t].lost /\ S(t) \notin cancelled
Acked(t) ==
  Undisturbed(t) =>
    /\ pc[S(t)] = "ack" => acks[t] + 1 = net[t].acks + chunks[t]
    /\ pc[S(t)] \in Early => acks[t] = net[t].acks + chunks[t]
    /\ pc[S(t)] = "succeed" \/ ("send" \in net[t].shut /\ ~sess[S(t)].Err)
         => acks[t] = net[t].acks + chunks[t] + 1

(* ... and has sent its file.                                               *)
Source(t) ==
  S(t) \notin cancelled =>
    /\ pc[S(t)] \in {"lastack", "succeed"} => sent[t] = size[t]
    /\ "send" \in net[t].shut => pc[S(t)] \in Over /\ (sess[S(t)].Err \/ sent[t] = size[t])

(* A receiver that sees the end of the stream has it all.                   *)
Whole(t) ==
  /\ S(t) \notin cancelled /\ R(t) \notin cancelled /\ ~sess[S(t)].Err
  /\ pc[R(t)] = "succeed" \/ sess[R(t)].State = "completed"
  => got[t] = size[t] /\ acks[t] > chunks[t] /\ pc[S(t)] \in Over

Streams ==
  /\ \A e \in Ends : StateOK(e)
  /\ \A t \in Transfers : Flow(t) /\ Acked(t) /\ Source(t) /\ Whole(t)

(* Session IDs, slots and offers.                                           *)
Fresh == \A t \in Transfers : t > nextID => pc[S(t)] = "idle"
Slots ==
  /\ IsFiniteSet(Entries) /\ Cardinality(Entries) <= maxSlots
  /\ \A t \in Transfers : Running(t) => HoldsSlot(t)
Offered ==
  \A o \in offers :
    ParseSendRequest(o.parts).ok => ParseSendRequest(o.parts).Port \in Transfers

IInv == DccTypes /\ BotTypes /\ Streams /\ Fresh /\ Slots /\ Offered

(* What a step leaves alone of an end, and of a stream.                     *)
EndSame(f) ==
  /\ pc'[f] = pc[f] /\ sess'[f] = sess[f]
  /\ f \in cancelled' <=> f \in cancelled
CountsSame(u) ==
  /\ size'[u] = size[u] /\ sent'[u] = sent[u] /\ got'[u] = got[u]
  /\ chunks'[u] = chunks[u] /\ acks'[u] = acks[u]
WireSame(u) ==
  /\ net'[u].data = net[u].data /\ net'[u].acks = net[u].acks
  /\ net'[u].shut = net[u].shut /\ net'[u].lost = net[u].lost
StreamSame(u) == CountsSame(u) /\ WireSame(u)
OthersSame(e) == \A f \in Ends \ {e} : EndSame(f)
ElsewhereSame(t) == \A u \in Transfers \ {t} : StreamSame(u)

(* A goroutine moves on, or its session is cancelled; no stream is touched. *)
Shifts(e) ==
  /\ StateOK(e)'
  /\ e \in cancelled => e \in cancelled'
  /\ sess'[e].Err = sess[e].Err
  /\ sess'[e].State = "completed" => sess[e].State = "completed"
  /\ pc'[e] = "ack" => pc[e] = "ack"
  /\ pc'[e] \in Early => pc[e] \in Early
  /\ pc'[e] = "lastack" => pc[e] = "lastack" \/ sent[e[2]] = size[e[2]]
  /\ pc'[e] = "succeed" => pc[e] = "succeed" \/ e \in cancelled
  /\ pc[e] \in Over => pc'[e] \in Over
  /\ OthersSame(e)
  /\ \A u \in Transfers : StreamSame(u)

(* The connection as a close leaves it.                                     *)
Shut(t, side) ==
  /\ net'[t].data = net[t].data /\ net'[t].acks = net[t].acks
  /\ net'[t].shut = net[t].shut \cup {side}
  /\ net[t].lost => net'[t].lost

(* finish stores the outcome and closes.                                    *)
Finishes(e) ==
  /\ StateOK(e)'
  /\ pc[e] \in {"fail", "succeed", "leave"} /\ pc'[e] = "signal"
  /\ sess'[e].Err <=> pc[e] = "fail"
  /\ sess'[e].State = "completed" => pc[e] = "succeed" \/ sess[e].State = "completed"
  /\ e \in cancelled' <=> e \in cancelled
  /\ CountsSame(e[2]) /\ (WireSame(e[2]) \/ Shut(e[2], e[1]))
  /\ OthersSame(e) /\ ElsewhereSame(e[2])

(* Cancel closes.                                                           *)
Closes(e) ==
  /\ e \in cancelled
  /\ \A f \in Ends : EndSame(f)
  /\ CountsSame(e[2]) /\ (WireSame(e[2]) \/ Shut(e[2], e[1]))
  /\ ElsewhereSame(e[2])

(* Connections are lost.                                                    *)
Loses ==
  /\ \A f \in Ends : EndSame(f)
  /\ \A u \in Transfers :
       /\ CountsSame(u)
       /\ net'[u].data = net[u].data /\ net'[u].acks = net[u].acks
       /\ net'[u].shut = net[u].shut
       /\ net[u].lost => net'[u].lost

(* The goroutine of an end goes from one place to the next.                 *)
Moves(e, from, to) ==
  /\ pc[e] = from /\ pc'[e] = to
  /\ sess'[e] = sess[e]
  /\ e \in cancelled' <=> e \in cancelled
  /\ OthersSame(e)

(* The receiver sees the end of the stream.                                 *)
Eof(t) ==
  /\ Moves(R(t), "transfer", "succeed")
  /\ "send" \in net[t].shut /\ "recv" \notin net[t].shut /\ ~net[t].lost
  /\ net[t].data = 0
  /\ \A u \in Transfers : StreamSame(u)

(* A buffer is written: it is on its way, or resets the connection.         *)
Sends(t) ==
  /\ Moves(S(t), "transfer", "ack")
  /\ "send" \notin net[t].shut
  /\ net'[t].shut = net[t].shut /\ net'[t].acks = net[t].acks
  /\ size'[t] = size[t] /\ got'[t] = got[t] /\ acks'[t] = acks[t]
  /\ chunks'[t] = chunks[t] + 1
  /\ \E n \in Nat :
       /\ sent'[t] = sent[t] + n /\ sent[t] + n <= size[t]
       /\ \/ net'[t].lost /\ net'[t].data = net[t].data
          \/ net'[t].data = net[t].data + n /\ (net[t].lost => net'[t].lost)
  /\ ElsewhereSame(t)

(* An ACK is read, or there is none to wait for.                            *)
Reads(t) ==
  /\ Moves(S(t), "ack", "check") \/ Moves(S(t), "lastack", "succeed")
  /\ CountsSame(t)
  /\ net'[t].data = net[t].data /\ net'[t].shut = net[t].shut /\ net'[t].lost = net[t].lost
  /\ \/ net[t].acks > 0 /\ net'[t].acks = net[t].acks - 1
     \/ /\ net'[t].acks = net[t].acks
        /\ net[t].shut # {} \/ net[t].lost
  /\ ElsewhereSame(t)

(* Data is taken from the connection.                                       *)
Takes(t) ==
  /\ Moves(R(t), "transfer", "ack")
  /\ net'[t].acks = net[t].acks /\ net'[t].shut = net[t].shut /\ net'[t].lost = net[t].lost
  /\ size'[t] = size[t] /\ sent'[t] = sent[t]
  /\ chunks'[t] = chunks[t] /\ acks'[t] = acks[t]
  /\ \E k \in Nat \ {0} :
       /\ k <= net[t].data
       /\ net'[t].data = net[t].data - k
       /\ got'[t] = got[t] + k
  /\ ElsewhereSame(t)

(* An ACK is written, or resets the connection.                             *)
Acks(t) ==
  /\ Moves(R(t), "ack", "check")
  /\ net'[t].data = net[t].data /\ net'[t].shut = net[t].shut
  /\ size'[t] = size[t] /\ sent'[t] = sent[t] /\ got'[t] = got[t]
  /\ chunks'[t] = chunks[t] /\ acks'[t] = acks[t] + 1
  /\ \/ net'[t].lost /\ net'[t].acks = net[t].acks
     \/ /\ "send" \notin net[t].shut
        /\ net'[t].acks = net[t].acks + 1
        /\ net[t].lost => net'[t].lost
  /\ ElsewhereSame(t)

(* Nothing of the transfers changes.                                        *)
Rests == (\A f \in Ends : EndSame(f)) /\ (\A u \in Transfers : StreamSame(u))

(* One of these.                                                            *)
Effect ==
  \/ \E e \in Ends : Shifts(e) \/ Finishes(e) \/ Closes(e)
  \/ \E t \in Transfers : Eof(t) \/ Sends(t) \/ Reads(t) \/ Takes(t) \/ Acks(t)
  \/ Loses \/ Rests

(* The ends of the transfers.                                               *)
LEMMA EndsFacts ==
  /\ \A t \in Transfers : /\ S(t) \in Ends /\ S(t)[1] = "send" /\ S(t)[2] = t
                          /\ R(t) \in Ends /\ R(t)[1] = "recv" /\ R(t)[2] = t
                          /\ S(t) # R(t)
  /\ \A e \in Ends : /\ e[2] \in Transfers /\ e[1] \in Sides
                     /\ e = S(e[2]) \/ e = R(e[2])
                     /\ e[1] = "send" <=> e = S(e[2])
                     /\ e[1] = "recv" <=> e = R(e[2])
BY DEF Ends, Sides, S, R

(* Close keeps what is in flight.                                           *)
LEMMA CloseFacts ==
  ASSUME NEW c \in NetType, NEW side \in Sides
  PROVE  /\ Close(c, side) \in NetType
         /\ Close(c, side).data = c.data /\ Close(c, side).acks = c.acks
         /\ Close(c, side).shut = c.shut \cup {side}
         /\ c.lost => Close(c, side).lost
BY Zenon DEF Close, NetType

(* A write adds to what is in flight, or resets.                            *)
LEMMA WriteFacts ==
  ASSUME NEW c \in NetType, NEW n \in Nat
  PROVE  /\ WriteData(c, n) \in NetType
         /\ WriteData(c, n).shut = c.shut /\ WriteData(c, n).acks = c.acks
         /\ \/ WriteData(c, n).lost /\ WriteData(c, n).data = c.data
            \/ WriteData(c, n).data = c.data + n /\ (c.lost => WriteData(c, n).lost)
         /\ WriteAck(c) \in NetType
         /\ WriteAck(c).shut = c.shut /\ WriteAck(c).data = c.data
         /\ \/ WriteAck(c).lost /\ WriteAck(c).acks = c.acks
            \/ /\ "send" \notin c.shut
               /\ WriteAck(c).acks = c.acks + 1 /\ (c.lost => WriteAck(c).lost)
<1>1. PICK d : d = [c EXCEPT !.lost = TRUE]
  BY Zenon
<1>2. /\ d \in NetType /\ d.lost = TRUE /\ d.shut = c.shut /\ d.acks = c.acks
      /\ d.data = c.data
  BY Zenon, <1>1 DEF NetType
<1>3. PICK e : e = [c EXCEPT !.data = @ + n]
  BY Zenon
<1>4. /\ e \in NetType /\ e.lost = c.lost /\ e.shut = c.shut /\ e.acks = c.acks
      /\ e.data = c.data + n
  BY <1>3 DEF NetType
<1>5. PICK f : f = [c EXCEPT !.acks = @ + 1]
  BY Zenon
<1>6. /\ f \in NetType /\ f.lost = c.lost /\ f.shut = c.shut /\ f.acks = c.acks + 1
      /\ f.data = c.data
  BY <1>5 DEF NetType
<1>7. WriteData(c, n) = d \/ WriteData(c, n) = e
  BY <1>1, <1>3 DEF WriteData
<1>8. WriteAck(c) = d \/ (WriteAck(c) = f /\ "send" \notin c.shut)
  BY <1>1, <1>5 DEF WriteAck
<1>9. QED
  BY Zenon, <1>2, <1>4, <1>6, <1>7, <1>8

(* A goroutine that only goes from one place to the next.                   *)
LEMMA MoveTypes ==
  ASSUME DccTypes, NEW e \in Ends, NEW l \in Locations, Goto(e, l),
         UNCHANGED <<sess, cancelling, cancelled>>
  PROVE  /\ pc' \in [Ends -> Locations]
         /\ Moves(e, pc[e], l)
<1>1. pc \in [Ends -> Locations] /\ pc' = [pc EXCEPT ![e] = l]
  BY DEF DccTypes, Goto
<1>2. pc' \in [Ends -> Locations] /\ pc'[e] = l /\ \A f \in Ends \ {e} : pc'[f] = pc[f]
  BY <1>1
<1>3. QED
  BY <1>2 DEF Moves, OthersSame, EndSame

(* A call on a broken connection.                                           *)
LEMMA BrokenSteps ==
  ASSUME DccTypes, NEW e \in Ends, StateOK(e), pc[e] \in {"transfer", "ack"},
         Goto(e, "error"), UNCHANGED <<sess, listed, cancelling, cancelled>>, UNCHANGED stream
  PROVE  DccTypes' /\ Shifts(e)
<1>1. pc' \in [Ends -> Locations] /\ Moves(e, pc[e], "error")
  BY MoveTypes DEF Locations
<1>2. DccTypes' /\ \A u \in Transfers : StreamSame(u)
  BY <1>1 DEF DccTypes, stream, StreamSame, CountsSame, WireSame
<1>3. StateOK(e)'
  BY <1>1 DEF StateOK, Moves
<1>4. QED
  BY <1>1, <1>2, <1>3 DEF Shifts, Moves, Early, Over

(* The steps of a session that leave the streams alone.                     *)
LEMMA ShiftSteps ==
  ASSUME DccTypes, NEW e \in Ends, StateOK(e),
         CancelStore(e) \/ setConn(e) \/ Activate(e) \/ Check(e) \/ finishLoad(e)
           \/ finishSignal(e) \/ Fails(e)
  PROVE  DccTypes' /\ Shifts(e)
<1>1. \A u \in Transfers : StreamSame(u)
  BY DEF CancelStore, setConn, Activate, Check, finishLoad, finishSignal, Fails, stream,
     StreamSame, CountsSame, WireSame
<1>2. pc \in [Ends -> Locations] /\ sess \in [Ends -> SessType]
  BY DEF DccTypes
<1>3. CASE CancelStore(e)
  <2>1. sess' = [sess EXCEPT ![e].State = "cancelled"] /\ pc' = pc
        /\ cancelled' = cancelled \cup {e} /\ cancelling' = cancelling \cup {e}
        /\ listed' = listed /\ UNCHANGED stream
    BY <1>3 DEF CancelStore
  <2>2. sess' \in [Ends -> SessType] /\ OthersSame(e)
        /\ sess'[e].State = "cancelled" /\ sess'[e].Err = sess[e].Err
    BY <1>2, <2>1 DEF SessType, TransferState, OthersSame, EndSame
  <2>3. DccTypes'
    BY <2>1, <2>2 DEF DccTypes, stream
  <2> QED
    BY <1>1, <2>1, <2>2, <2>3 DEF Shifts, StateOK
<1>4. CASE setConn(e)
  <2>1. sess' = [sess EXCEPT ![e].conn = TRUE] /\ pc' = [pc EXCEPT ![e] = "activate"]
        /\ UNCHANGED <<listed, cancelled, cancelling>> /\ UNCHANGED stream /\ pc[e] = "setconn"
    BY <1>4 DEF setConn, Goto, At
  <2>2. sess' \in [Ends -> SessType] /\ pc' \in [Ends -> Locations] /\ OthersSame(e)
        /\ sess'[e].State = sess[e].State /\ sess'[e].Err = sess[e].Err /\ pc'[e] = "activate"
    BY Zenon, <1>2, <2>1 DEF SessType, Locations, OthersSame, EndSame
  <2>3. DccTypes'
    BY Zenon, <2>1, <2>2 DEF DccTypes, stream
  <2> QED
    BY <1>1, <2>1, <2>2, <2>3 DEF Shifts, StateOK, Early, Over
<1>5. CASE Activate(e)
  <2>1. sess' = [sess EXCEPT ![e].State = "active"] /\ pc' = [pc EXCEPT ![e] = "check"]
        /\ UNCHANGED <<listed, cancelled, cancelling>> /\ UNCHANGED stream /\ pc[e] = "activate"
    BY <1>5 DEF Activate, Goto, At
  <2>2. sess' \in [Ends -> SessType] /\ pc' \in [Ends -> Locations] /\ OthersSame(e)
        /\ sess'[e].State = "active" /\ sess'[e].Err = sess[e].Err /\ pc'[e] = "check"
    BY Zenon, <1>2, <2>1 DEF SessType, TransferState, Locations, OthersSame, EndSame
  <2>3. DccTypes'
    BY <2>1, <2>2 DEF DccTypes, stream
  <2> QED
    BY Zenon, <1>1, <2>1, <2>2, <2>3 DEF Shifts, StateOK, Early, Over
<1>6. CASE finishSignal(e)
  <2>1. sess' = [sess EXCEPT ![e].done = TRUE] /\ pc' = [pc EXCEPT ![e] = "ended"]
        /\ listed' = listed \ {e} /\ UNCHANGED <<cancelled, cancelling>>
        /\ UNCHANGED stream /\ pc[e] = "signal"
    BY Zenon, <1>6 DEF finishSignal, Goto, At
  <2>2. sess' \in [Ends -> SessType] /\ pc' \in [Ends -> Locations] /\ OthersSame(e)
        /\ sess'[e].State = sess[e].State /\ sess'[e].Err = sess[e].Err /\ pc'[e] = "ended"
    BY Zenon, <1>2, <2>1 DEF SessType, Locations, OthersSame, EndSame
  <2>3. DccTypes'
    BY Zenon, <2>1, <2>2 DEF DccTypes, stream
  <2> QED
    BY <1>1, <2>1, <2>2, <2>3 DEF Shifts, StateOK, Early, Over
<1>7. CASE Check(e) \/ finishLoad(e) \/ Fails(e)
  <2>1. PICK l \in {"succeed", "transfer", "leave", "fail", "error"} :
             /\ pc' = [pc EXCEPT ![e] = l]
             /\ l \in {"succeed", "leave"} => sess[e].State = "cancelled"
             /\ l = "transfer" => pc[e] = "check"
             /\ pc[e] \notin Over
    BY Zenon, <1>7 DEF Check, finishLoad, Fails, Goto, At, Over
  <2>2. UNCHANGED <<sess, listed, cancelled, cancelling>> /\ UNCHANGED stream
    BY <1>7 DEF Check, finishLoad, Fails
  <2>3. pc' \in [Ends -> Locations] /\ OthersSame(e) /\ pc'[e] = l
    BY <1>2, <2>1, <2>2 DEF Locations, OthersSame, EndSame
  <2>4. DccTypes'
    BY <2>2, <2>3 DEF DccTypes, stream
  <2>5. sess[e].State # "completed" /\ ~sess[e].Err
    BY <2>1 DEF StateOK, Over
  <2> QED
    BY <1>1, <2>1, <2>2, <2>3, <2>4, <2>5 DEF Shifts, StateOK, Early, Over
<1> QED
  BY Zenon, <1>3, <1>4, <1>5, <1>6, <1>7

(* The steps that close a connection.                                       *)
LEMMA CloseSteps ==
  ASSUME DccTypes, NEW e \in Ends, StateOK(e)
  PROVE  /\ finishStore(e) => DccTypes' /\ Finishes(e)
         /\ CancelClose(e) => DccTypes' /\ Closes(e)
<1>1. pc \in [Ends -> Locations] /\ sess \in [Ends -> SessType]
      /\ net \in [Transfers -> NetType]
  BY Zenon DEF DccTypes
<1>2. ASSUME net' = IF sess[e].conn THEN [net EXCEPT ![e[2]] = Close(@, e[1])] ELSE net,
             UNCHANGED <<size, sent, got, chunks, acks>>
      PROVE  /\ net' \in [Transfers -> NetType]
             /\ CountsSame(e[2]) /\ (WireSame(e[2]) \/ Shut(e[2], e[1]))
             /\ ElsewhereSame(e[2])
  <2>1. e[2] \in Transfers /\ e[1] \in Sides /\ net[e[2]] \in NetType
    BY <1>1, EndsFacts
  <2>2. PICK c : c = Close(net[e[2]], e[1])
    BY Zenon
  <2>3. /\ c \in NetType /\ c.data = net[e[2]].data /\ c.acks = net[e[2]].acks
        /\ c.shut = net[e[2]].shut \cup {e[1]} /\ (net[e[2]].lost => c.lost)
    BY <2>1, <2>2, CloseFacts
  <2>4. net' = net \/ net' = [net EXCEPT ![e[2]] = c]
    BY <1>2, <2>2
  <2>5. net' \in [Transfers -> NetType] /\ (net'[e[2]] = net[e[2]] \/ net'[e[2]] = c)
        /\ \A u \in Transfers \ {e[2]} : net'[u] = net[u]
    BY <1>1, <2>1, <2>3, <2>4
  <2> QED
    BY <1>2, <2>3, <2>5 DEF CountsSame, WireSame, Shut, ElsewhereSame, StreamSame
<1>3. ASSUME finishStore(e) PROVE DccTypes' /\ Finishes(e)
  <2>1. /\ pc[e] \in {"fail", "succeed", "leave"} /\ pc' = [pc EXCEPT ![e] = "signal"]
        /\ UNCHANGED <<listed, size, sent, got, chunks, acks, cancelling, cancelled>>
    BY Zenon, <1>3 DEF finishStore, Goto, At
  <2>2. PICK d : d = Outcome(sess[e], pc[e])
    OBVIOUS
  <2>3. sess' = [sess EXCEPT ![e] = d]
    BY <1>3, <2>2 DEF finishStore
  <2>4. sess[e] \in SessType
    BY <1>1
  <2>5. /\ d.State = (CASE pc[e] = "fail" -> "failed"
                         [] pc[e] = "succeed" -> "completed"
                         [] OTHER -> sess[e].State)
        /\ d.Err = (pc[e] = "fail")
        /\ d.conn = sess[e].conn /\ d.done = sess[e].done
        /\ DOMAIN d = DOMAIN sess[e]
    BY <2>2, <2>4 DEF SessType, Outcome
  <2>6. d \in SessType
    BY Zenon, <2>2, <2>4, <2>5 DEF SessType, TransferState, Outcome
  <2>7. sess' \in [Ends -> SessType] /\ pc' \in [Ends -> Locations] /\ OthersSame(e)
        /\ sess'[e] = d /\ pc'[e] = "signal"
    BY <1>1, <2>1, <2>3, <2>6 DEF Locations, OthersSame, EndSame
  <2>8. /\ net' \in [Transfers -> NetType]
        /\ CountsSame(e[2]) /\ (WireSame(e[2]) \/ Shut(e[2], e[1]))
        /\ ElsewhereSame(e[2])
    BY <1>2, <1>3 DEF finishStore
  <2>9. DccTypes'
    BY <2>1, <2>7, <2>8 DEF DccTypes
  <2>10. StateOK(e)'
    BY <2>1, <2>5, <2>7 DEF StateOK
  <2> QED
    BY Zenon, <2>1, <2>5, <2>7, <2>8, <2>9, <2>10 DEF Finishes
<1>4. ASSUME CancelClose(e) PROVE DccTypes' /\ Closes(e)
  <2>1. UNCHANGED <<sess, pc, listed, size, sent, got, chunks, acks, cancelled>>
        /\ e \in cancelled /\ cancelling' \subseteq cancelling
    BY Zenon, <1>4 DEF CancelClose, DccTypes
  <2>2. /\ net' \in [Transfers -> NetType]
        /\ CountsSame(e[2]) /\ (WireSame(e[2]) \/ Shut(e[2], e[1]))
        /\ ElsewhereSame(e[2])
    BY <1>2, <1>4 DEF CancelClose
  <2> QED
    BY <2>1, <2>2 DEF DccTypes, Closes, EndSame
<1> QED
  BY <1>3, <1>4

(* The steps of runSend and runReceive that leave the streams alone.        *)
LEMMA QuietSteps ==
  ASSUME DccTypes, NEW t \in Transfers, StateOK(S(t)), StateOK(R(t)), Flow(t)
  PROVE  /\ Send(t) /\ pc[S(t)] = "idle" => DccTypes' /\ Shifts(S(t))
         /\ Receive(t) => DccTypes' /\ Shifts(R(t))
         /\ Accept(t) \/ SourceEof(t) => DccTypes' /\ Shifts(S(t))
         /\ Dial(t) => DccTypes' /\ Shifts(R(t))
<1>1. /\ S(t) = <<"send", t>> /\ R(t) = <<"recv", t>> /\ S(t) \in Ends /\ R(t) \in Ends
      /\ S(t)[2] = t /\ R(t)[2] = t
  BY Zenon, EndsFacts DEF S, R
<1>2. ASSUME NEW e \in Ends, NEW l \in {"accept", "dial", "setconn", "lastack"}, StateOK(e),
             Goto(e, l), UNCHANGED <<sess, cancelling, cancelled>>,
             UNCHANGED <<size, sent, got, chunks, acks>>,
             listed' \subseteq Ends, net' \in [Transfers -> NetType],
             \A u \in Transfers : WireSame(u),
             pc[e] \in Early, l = "lastack" => sent[e[2]] = size[e[2]]
      PROVE  DccTypes' /\ Shifts(e)
  <2>1. pc' \in [Ends -> Locations] /\ Moves(e, pc[e], l)
    BY Zenon, <1>2, MoveTypes DEF Locations
  <2>2. DccTypes'
    BY Zenon, <1>2, <2>1 DEF DccTypes
  <2>3. \A u \in Transfers : StreamSame(u)
    BY Zenon, <1>2 DEF StreamSame, CountsSame
  <2>4. StateOK(e)'
    BY <1>2, <2>1 DEF StateOK, Moves, Early
  <2>5. QED
    BY Zenon, <1>2, <2>1, <2>2, <2>3, <2>4 DEF Shifts, Moves, Early, Over
<1>3. listed \subseteq Ends /\ net \in [Transfers -> NetType]
      /\ sent[t] \in Nat /\ size[t] \in Nat
  BY Zenon DEF DccTypes
<1>4. ASSUME UNCHANGED stream
      PROVE  /\ UNCHANGED <<size, sent, got, chunks, acks>> /\ net' = net
             /\ net' \in [Transfers -> NetType] /\ \A u \in Transfers : WireSame(u)
  BY Zenon, <1>3, <1>4 DEF stream, WireSame
<1>5. ASSUME Send(t), pc[S(t)] = "idle" PROVE DccTypes' /\ Shifts(S(t))
  BY Zenon, <1>1, <1>2, <1>3, <1>4, <1>5 DEF Send, Early
<1>6. ASSUME Receive(t) PROVE DccTypes' /\ Shifts(R(t))
  BY Zenon, <1>1, <1>2, <1>3, <1>4, <1>6 DEF Receive, Early
<1>7. ASSUME Accept(t) PROVE DccTypes' /\ Shifts(S(t))
  BY Zenon, <1>1, <1>2, <1>3, <1>4, <1>7 DEF Accept, At, Early
<1>8. ASSUME SourceEof(t) PROVE DccTypes' /\ Shifts(S(t))
  <2>1. sent[t] = size[t]
    <3>1. Buffer(t) = 0 /\ sent[t] <= size[t]
      BY Zenon, <1>8 DEF SourceEof, Flow
    <3>2. QED
      BY <1>3, <3>1, DccAssumption DEF Buffer
  <2>2. QED
    BY <1>1, <1>2, <1>3, <1>4, <1>8, <2>1 DEF SourceEof, At, Early
<1>9. ASSUME Dial(t) PROVE DccTypes' /\ Shifts(R(t))
  <2>1. net' = [net EXCEPT ![t].dialled = TRUE]
    BY <1>9 DEF Dial
  <2>2. net' \in [Transfers -> NetType] /\ \A u \in Transfers : WireSame(u)
    BY Zenon, <1>3, <2>1 DEF NetType, WireSame
  <2>3. QED
    BY <1>1, <1>2, <1>3, <1>9, <2>2 DEF Dial, At, Early
<1>10. QED
  BY <1>5, <1>6, <1>7, <1>8, <1>9

(* runSend writes a buffer ...                                              *)
LEMMA SendChunkStep ==
  ASSUME DccTypes, NEW t \in Transfers, StateOK(S(t)), Flow(t), SendChunk(t)
  PROVE  DccTypes' /\ (Sends(t) \/ Shifts(S(t)))
<1>1. S(t) = <<"send", t>> /\ S(t) \in Ends /\ S(t)[1] = "send" /\ S(t)[2] = t
  BY Zenon, EndsFacts DEF S
<1>2. PICK n : n = Buffer(t)
  BY Zenon
<1>3. /\ pc[S(t)] = "transfer" /\ n > 0
      /\ UNCHANGED <<sess, listed, cancelling, cancelled, size, got, acks>>
  BY <1>1, <1>2 DEF SendChunk, At
<1>4. /\ net \in [Transfers -> NetType] /\ net[t] \in NetType
      /\ sent \in [Transfers -> Nat] /\ chunks \in [Transfers -> Nat]
      /\ sent[t] \in Nat /\ size[t] \in Nat /\ chunks[t] \in Nat
  BY Zenon DEF DccTypes
<1>5. n \in Nat /\ sent[t] + n <= size[t]
  BY <1>2, <1>4, DccAssumption DEF Buffer, Flow
<1>6. CASE Broken(S(t)) /\ Goto(S(t), "error") /\ UNCHANGED <<net, sent, chunks>>
  <2>1. UNCHANGED stream
    BY Zenon, <1>3, <1>6 DEF stream
  <2>2. QED
    BY <1>1, <1>3, <1>6, <2>1, BrokenSteps
<1>7. CASE /\ ~Broken(S(t))
           /\ sent' = [sent EXCEPT ![t] = @ + n]
           /\ chunks' = [chunks EXCEPT ![t] = @ + 1]
           /\ net' = [net EXCEPT ![t] = WriteData(@, n)]
           /\ Goto(S(t), "ack")
  <2>1. PICK c : c = WriteData(net[t], n)
    BY Zenon
  <2>2. /\ c \in NetType /\ c.shut = net[t].shut /\ c.acks = net[t].acks
        /\ \/ c.lost /\ c.data = net[t].data
           \/ c.data = net[t].data + n /\ (net[t].lost => c.lost)
    BY <1>4, <1>5, <2>1, WriteFacts
  <2>3. net' = [net EXCEPT ![t] = c]
    BY Zenon, <1>7, <2>1
  <2>4. /\ net' \in [Transfers -> NetType] /\ net'[t] = c
        /\ \A u \in Transfers \ {t} : net'[u] = net[u]
    BY Zenon, <1>4, <2>2, <2>3
  <2>5. /\ sent' \in [Transfers -> Nat] /\ sent'[t] = sent[t] + n
        /\ chunks' \in [Transfers -> Nat] /\ chunks'[t] = chunks[t] + 1
        /\ \A u \in Transfers \ {t} : sent'[u] = sent[u] /\ chunks'[u] = chunks[u]
    BY <1>4, <1>5, <1>7
  <2>6. pc' \in [Ends -> Locations] /\ Moves(S(t), "transfer", "ack")
    BY Zenon, <1>1, <1>3, <1>7, MoveTypes DEF Locations
  <2>7. DccTypes'
    BY Zenon, <1>3, <2>4, <2>5, <2>6 DEF DccTypes
  <2>8. ElsewhereSame(t)
    BY Zenon, <1>3, <2>4, <2>5 DEF ElsewhereSame, StreamSame, CountsSame, WireSame
  <2>9. "send" \notin net[t].shut
    BY Zenon, <1>1, <1>7 DEF Broken
  <2>10. QED
    BY <1>3, <1>5, <2>2, <2>4, <2>5, <2>6, <2>7, <2>8, <2>9 DEF Sends
<1>8. QED
  BY Zenon, <1>1, <1>2, <1>6, <1>7 DEF SendChunk

(* ... and reads an ACK.                                                    *)
LEMMA ReadAckStep ==
  ASSUME DccTypes, NEW t \in Transfers, ReadAck(t)
  PROVE  DccTypes' /\ Reads(t)
<1>1. S(t) = <<"send", t>> /\ S(t) \in Ends /\ S(t)[1] = "send" /\ S(t)[2] = t
  BY EndsFacts DEF S
<1>2. /\ pc[S(t)] \in {"ack", "lastack"}
      /\ UNCHANGED <<sess, listed, cancelling, cancelled, size, sent, got, chunks, acks>>
      /\ Goto(S(t), IF pc[S(t)] = "ack" THEN "check" ELSE "succeed")
  BY <1>1 DEF ReadAck, At
<1>3. net \in [Transfers -> NetType] /\ net[t] \in NetType
  BY Zenon DEF DccTypes
<1>4. /\ pc' \in [Ends -> Locations]
      /\ Moves(S(t), "ack", "check") \/ Moves(S(t), "lastack", "succeed")
  <2>1. CASE pc[S(t)] = "ack"
    BY Zenon, <1>1, <1>2, <2>1, MoveTypes DEF Locations
  <2>2. CASE pc[S(t)] = "lastack"
    BY Zenon, <1>1, <1>2, <2>2, MoveTypes DEF Locations
  <2>3. QED
    BY Zenon, <1>2, <2>1, <2>2
<1>5. /\ net' \in [Transfers -> NetType] /\ \A u \in Transfers \ {t} : net'[u] = net[u]
      /\ net'[t].data = net[t].data /\ net'[t].shut = net[t].shut
      /\ net'[t].lost = net[t].lost
      /\ \/ net[t].acks > 0 /\ net'[t].acks = net[t].acks - 1
         \/ net'[t].acks = net[t].acks /\ (net[t].shut # {} \/ net[t].lost)
  <2>1. CASE net[t].acks > 0 /\ net' = [net EXCEPT ![t].acks = @ - 1]
    BY <1>3, <2>1 DEF NetType
  <2>2. CASE NoAck(S(t)) /\ net' = net
    BY Zenon, <1>1, <1>3, <2>2 DEF NoAck, Broken, AtEof
  <2>3. QED
    BY <1>1, <2>1, <2>2 DEF ReadAck
<1>6. DccTypes'
  BY Zenon, <1>2, <1>4, <1>5 DEF DccTypes
<1>7. CountsSame(t) /\ ElsewhereSame(t)
  BY <1>2, <1>5 DEF ElsewhereSame, StreamSame, CountsSame, WireSame
<1>8. QED
  BY Zenon, <1>4, <1>5, <1>6, <1>7 DEF Reads

(* runReceive takes data, ...                                               *)
LEMMA ReceiveDataStep ==
  ASSUME DccTypes, NEW t \in Transfers, ReceiveData(t)
  PROVE  DccTypes' /\ Takes(t)
<1>1. R(t) = <<"recv", t>> /\ R(t) \in Ends
  BY EndsFacts DEF R
<1>2. /\ pc[R(t)] = "transfer" /\ Goto(R(t), "ack")
      /\ UNCHANGED <<sess, listed, cancelling, cancelled, size, sent, chunks, acks>>
  BY <1>1 DEF ReceiveData, At
<1>3. PICK n \in 1..Chunk : /\ n <= net[t].data
                            /\ net' = [net EXCEPT ![t].data = @ - n]
                            /\ got' = [got EXCEPT ![t] = @ + n]
  BY Zenon DEF ReceiveData
<1>4. /\ net \in [Transfers -> NetType] /\ net[t] \in NetType
      /\ got \in [Transfers -> Nat] /\ got[t] \in Nat /\ n \in Nat \ {0}
  BY DccAssumption DEF DccTypes
<1>5. /\ net' \in [Transfers -> NetType] /\ \A u \in Transfers \ {t} : net'[u] = net[u]
      /\ net'[t].acks = net[t].acks /\ net'[t].shut = net[t].shut
      /\ net'[t].lost = net[t].lost /\ net'[t].data = net[t].data - n
  BY <1>3, <1>4 DEF NetType
<1>6. /\ got' \in [Transfers -> Nat] /\ got'[t] = got[t] + n
      /\ \A u \in Transfers \ {t} : got'[u] = got[u]
  BY <1>3, <1>4
<1>7. pc' \in [Ends -> Locations] /\ Moves(R(t), "transfer", "ack")
  BY <1>1, <1>2, MoveTypes DEF Locations
<1>8. DccTypes'
  BY Zenon, <1>2, <1>5, <1>6, <1>7 DEF DccTypes
<1>9. ElsewhereSame(t)
  BY Zenon, <1>2, <1>5, <1>6 DEF ElsewhereSame, StreamSame, CountsSame, WireSame
<1>10. QED
  BY <1>2, <1>3, <1>4, <1>5, <1>6, <1>7, <1>8, <1>9 DEF Takes

(* ... sees the end of it or an error, ...                                  *)
LEMMA ReceiveEndStep ==
  ASSUME DccTypes, NEW t \in Transfers, StateOK(R(t)), ReceiveEnd(t)
  PROVE  DccTypes' /\ (Eof(t) \/ Shifts(R(t)))
<1>1. R(t) = <<"recv", t>> /\ R(t) \in Ends /\ R(t)[1] = "recv" /\ R(t)[2] = t
  BY Zenon, EndsFacts DEF R
<1>2. /\ pc[R(t)] = "transfer"
      /\ UNCHANGED <<sess, listed, cancelling, cancelled>> /\ UNCHANGED stream
  BY Zenon, <1>1 DEF ReceiveEnd, At
<1>3. CASE AtEof(R(t), net[t].data) /\ Goto(R(t), "succeed")
  <2>1. pc' \in [Ends -> Locations] /\ Moves(R(t), "transfer", "succeed")
    BY Zenon, <1>1, <1>2, <1>3, MoveTypes DEF Locations
  <2>2. DccTypes' /\ \A u \in Transfers : StreamSame(u)
    BY Zenon, <1>2, <2>1 DEF DccTypes, stream, StreamSame, CountsSame, WireSame
  <2>3. /\ "send" \in net[t].shut /\ "recv" \notin net[t].shut /\ ~net[t].lost
        /\ net[t].data = 0
    BY Zenon, <1>1, <1>3 DEF AtEof, Broken, Other
  <2>4. QED
    BY Zenon, <2>1, <2>2, <2>3 DEF Eof
<1>4. CASE Goto(R(t), "error")
  BY Zenon, <1>1, <1>2, <1>4, BrokenSteps
<1>5. QED
  BY <1>1, <1>3, <1>4 DEF ReceiveEnd

(* ... and acknowledges.                                                    *)
LEMMA SendAckStep ==
  ASSUME DccTypes, NEW t \in Transfers, StateOK(R(t)), SendAck(t)
  PROVE  DccTypes' /\ (Acks(t) \/ Shifts(R(t)))
<1>1. R(t) = <<"recv", t>> /\ R(t) \in Ends
  BY Zenon, EndsFacts DEF R
<1>2. /\ pc[R(t)] = "ack"
      /\ UNCHANGED <<sess, listed, cancelling, cancelled, size, sent, got, chunks>>
  BY <1>1 DEF SendAck, At
<1>3. /\ net \in [Transfers -> NetType] /\ net[t] \in NetType
      /\ acks \in [Transfers -> Nat] /\ acks[t] \in Nat
  BY Zenon DEF DccTypes
<1>4. CASE Goto(R(t), "error") /\ UNCHANGED <<net, acks>>
  <2>1. UNCHANGED stream
    BY Zenon, <1>2, <1>4 DEF stream
  <2>2. QED
    BY <1>1, <1>2, <1>4, <2>1, BrokenSteps
<1>5. CASE /\ acks' = [acks EXCEPT ![t] = @ + 1]
           /\ net' = [net EXCEPT ![t] = WriteAck(@)]
           /\ Goto(R(t), "check")
  <2>1. PICK c : c = WriteAck(net[t])
    BY Zenon
  <2>2. /\ c \in NetType /\ c.shut = net[t].shut /\ c.data = net[t].data
        /\ \/ c.lost /\ c.acks = net[t].acks
           \/ /\ "send" \notin net[t].shut
              /\ c.acks = net[t].acks + 1 /\ (net[t].lost => c.lost)
    BY <1>3, <2>1, WriteFacts
  <2>3. net' = [net EXCEPT ![t] = c]
    BY Zenon, <1>5, <2>1
  <2>4. /\ net' \in [Transfers -> NetType] /\ net'[t] = c
        /\ \A u \in Transfers \ {t} : net'[u] = net[u]
    BY <1>3, <2>2, <2>3
  <2>5. /\ acks' \in [Transfers -> Nat] /\ acks'[t] = acks[t] + 1
        /\ \A u \in Transfers \ {t} : acks'[u] = acks[u]
    BY <1>3, <1>5
  <2>6. pc' \in [Ends -> Locations] /\ Moves(R(t), "ack", "check")
    BY Zenon, <1>1, <1>2, <1>5, MoveTypes DEF Locations
  <2>7. DccTypes'
    BY Zenon, <1>2, <2>4, <2>5, <2>6 DEF DccTypes
  <2>8. ElsewhereSame(t)
    BY <1>2, <2>4, <2>5 DEF ElsewhereSame, StreamSame, CountsSame, WireSame
  <2>9. QED
    BY <1>2, <2>2, <2>4, <2>5, <2>6, <2>7, <2>8 DEF Acks
<1>6. QED
  BY Zenon, <1>1, <1>4, <1>5 DEF SendAck

(* The network, or the end of the sending process.                          *)
LEMMA LoseSteps ==
  ASSUME DccTypes
  PROVE  /\ \A t \in Transfers : Lose(t) => DccTypes' /\ Loses
         /\ \A n : ListenFails(n) => DccTypes' /\ Loses
<1>1. net \in [Transfers -> NetType]
  BY Zenon DEF DccTypes
<1>2. ASSUME UNCHANGED <<session, size, sent, got, chunks, acks>>,
             net' \in [Transfers -> NetType],
             \A u \in Transfers : /\ net'[u].data = net[u].data /\ net'[u].acks = net[u].acks
                                  /\ net'[u].shut = net[u].shut
                                  /\ net[u].lost => net'[u].lost
      PROVE  DccTypes' /\ Loses
  <2>1. UNCHANGED <<sess, pc, listed, cancelling, cancelled>>
    BY <1>2 DEF session
  <2>2. QED
    BY Zenon, <1>2, <2>1 DEF DccTypes, Loses, EndSame, CountsSame
<1>3. ASSUME NEW t \in Transfers, Lose(t) PROVE DccTypes' /\ Loses
  <2>1. net' = [net EXCEPT ![t].lost = TRUE]
        /\ UNCHANGED <<session, size, sent, got, chunks, acks>>
    BY <1>3 DEF Lose
  <2>2. QED
    BY Zenon, <1>1, <1>2, <2>1 DEF NetType
<1>4. ASSUME NEW n, ListenFails(n) PROVE DccTypes' /\ Loses
  <2>1. /\ net' = [t \in Transfers |-> IF net[t].dialled THEN [net[t] EXCEPT !.lost = TRUE]
                                                         ELSE net[t]]
        /\ UNCHANGED <<session, size, sent, got, chunks, acks>>
    BY <1>4 DEF ListenFails
  <2>2. QED
    BY Zenon, <1>1, <1>2, <2>1 DEF NetType
<1>5. QED
  BY <1>3, <1>4

(* What is not touched keeps its invariants.                                *)
LEMMA SameKeeps ==
  ASSUME NEW u \in Transfers, EndSame(S(u)), EndSame(R(u)), StreamSame(u),
         Flow(u), Acked(u), Source(u), Whole(u)
  PROVE  (Flow(u) /\ Acked(u) /\ Source(u) /\ Whole(u))'
BY Zenon DEF EndSame, StreamSame, CountsSame, WireSame, Flow, Acked, Undisturbed, Source, Whole,
   S, R

(* The counters are numbers.                                                *)
LEMMA Numbers ==
  ASSUME DccTypes, NEW t \in Transfers
  PROVE  /\ size[t] \in Nat /\ sent[t] \in Nat /\ got[t] \in Nat
         /\ chunks[t] \in Nat /\ acks[t] \in Nat
         /\ net[t].data \in Nat /\ net[t].acks \in Nat /\ net[t].shut \subseteq Sides
BY DEF DccTypes, NetType

(* The states of the sessions, where the goroutine moves or nothing does.   *)
LEMMA MovesState ==
  ASSUME \A e \in Ends : StateOK(e)
  PROVE  /\ \A f \in Ends : EndSame(f) => StateOK(f)'
         /\ \A e \in Ends : \A to : \A from \in {"transfer", "ack", "lastack"} :
              Moves(e, from, to) /\ to # "leave" => \A f \in Ends : StateOK(f)'
<1>1. ASSUME NEW f \in Ends, EndSame(f) PROVE StateOK(f)'
  BY <1>1 DEF EndSame, StateOK
<1>2. ASSUME NEW e \in Ends, NEW to, NEW from \in {"transfer", "ack", "lastack"},
             Moves(e, from, to), to # "leave", NEW f \in Ends
      PROVE  StateOK(f)'
  <2>1. CASE f = e
    BY Zenon, <1>2, <2>1 DEF Moves, StateOK
  <2>2. CASE f # e
    BY Zenon, <1>1, <1>2, <2>2 DEF Moves, OthersSame
  <2>3. QED
    BY Zenon, <2>1, <2>2
<1>3. QED
  BY Zenon, <1>1, <1>2

(* A goroutine moves on.                                                    *)
LEMMA ShiftKeeps ==
  ASSUME Streams, NEW e \in Ends, Shifts(e)
  PROVE  Streams'
<1>1. \A f \in Ends : StateOK(f)'
  BY Zenon, MovesState DEF Streams, Shifts, OthersSame
<1>2. ASSUME NEW u \in Transfers PROVE (Flow(u) /\ Acked(u) /\ Source(u) /\ Whole(u))'
  <2>1. /\ S(u) \in Ends /\ R(u) \in Ends /\ S(u) # R(u) /\ S(u)[2] = u
        /\ Flow(u) /\ Acked(u) /\ Source(u) /\ Whole(u)
        /\ StreamSame(u) /\ (e # S(u) => EndSame(S(u))) /\ (e # R(u) => EndSame(R(u)))
    BY Zenon, EndsFacts DEF Streams, Shifts, OthersSame
  <2>2. CASE e # S(u) /\ e # R(u)
    BY Zenon, <2>1, <2>2, SameKeeps
  <2>3. CASE e = S(u)
    <3>1. EndSame(R(u))
      BY Zenon, <2>1, <2>3
    <3>2. Flow(u)'
      BY <2>1, <3>1 DEF Flow, EndSame, StreamSame, CountsSame, WireSame
    <3>3. Acked(u)'
      BY Zenon, <2>1, <2>3 DEF Acked, Undisturbed, Shifts, StreamSame, CountsSame, WireSame
    <3>4. Source(u)'
      <4>1. /\ pc'[S(u)] = "lastack" => pc[S(u)] = "lastack" \/ sent[u] = size[u]
            /\ pc'[S(u)] = "succeed" => pc[S(u)] = "succeed" \/ S(u) \in cancelled
            /\ S(u) \in cancelled => S(u) \in cancelled'
            /\ pc[S(u)] \in Over => pc'[S(u)] \in Over
            /\ sess'[S(u)].Err = sess[S(u)].Err
        BY Zenon, <2>1, <2>3 DEF Shifts
      <4>2. QED
        BY Zenon, <2>1, <4>1 DEF Source, StreamSame, CountsSame, WireSame
    <3>5. Whole(u)'
      BY Zenon, <2>1, <2>3, <3>1 DEF Whole, Shifts, EndSame, StreamSame, CountsSame, WireSame
    <3>6. QED
      BY Zenon, <3>2, <3>3, <3>4, <3>5
  <2>4. CASE e = R(u)
    <3>1. EndSame(S(u))
      BY <2>1, <2>4
    <3>2. Flow(u)'
      BY Zenon, <2>1, <2>4 DEF Flow, Shifts, StreamSame, CountsSame, WireSame
    <3>3. Acked(u)' /\ Source(u)'
      BY Zenon, <2>1, <3>1 DEF Acked, Undisturbed, Source, EndSame, StreamSame, CountsSame,
                               WireSame
    <3>4. Whole(u)'
      BY Zenon, <2>1, <2>4, <3>1 DEF Whole, Shifts, EndSame, StreamSame, CountsSame, WireSame
    <3>5. QED
      BY Zenon, <3>2, <3>3, <3>4
  <2>5. QED
    BY Zenon, <2>2, <2>3, <2>4
<1>3. QED
  BY Zenon, <1>1, <1>2 DEF Streams

(* finish.                                                                  *)
LEMMA FinishKeeps ==
  ASSUME DccTypes, Streams, NEW e \in Ends, Finishes(e)
  PROVE  Streams'
<1>1. \A f \in Ends : StateOK(f)'
  BY Zenon, MovesState DEF Streams, Finishes, OthersSame
<1>2. ASSUME NEW u \in Transfers PROVE (Flow(u) /\ Acked(u) /\ Source(u) /\ Whole(u))'
  <2>1. /\ S(u) \in Ends /\ R(u) \in Ends /\ S(u) # R(u) /\ S(u)[2] = u /\ R(u)[2] = u
        /\ S(u)[1] = "send" /\ R(u)[1] = "recv"
        /\ Flow(u) /\ Acked(u) /\ Source(u) /\ Whole(u) /\ StateOK(S(u))
        /\ (e # S(u) => EndSame(S(u))) /\ (e # R(u) => EndSame(R(u)))
    BY Zenon, EndsFacts DEF Streams, Finishes, OthersSame
  <2>2. CASE e # S(u) /\ e # R(u)
    <3>1. StreamSame(u)
      BY <2>1, <2>2, EndsFacts DEF Finishes, ElsewhereSame
    <3>2. QED
      BY <2>1, <2>2, <3>1, SameKeeps
  <2>3. CASE e = S(u)
    <3>1. /\ EndSame(R(u)) /\ CountsSame(u) /\ (WireSame(u) \/ Shut(u, "send"))
          /\ pc[S(u)] \in {"fail", "succeed", "leave"} /\ pc'[S(u)] = "signal"
          /\ (sess'[S(u)].Err <=> pc[S(u)] = "fail") /\ ~sess[S(u)].Err
          /\ (S(u) \in cancelled' <=> S(u) \in cancelled)
          /\ (pc[S(u)] = "leave" => S(u) \in cancelled)
      BY Zenon, <2>1, <2>3 DEF Finishes, StateOK
    <3>2. /\ net'[u].data = net[u].data /\ net'[u].acks = net[u].acks
          /\ "recv" \in net'[u].shut <=> "recv" \in net[u].shut
          /\ net[u].lost => net'[u].lost
      BY <3>1 DEF WireSame, Shut
    <3>3. Flow(u)'
      BY Zenon, <2>1, <3>1, <3>2 DEF Flow, EndSame, CountsSame
    <3>4. ASSUME S(u) \notin cancelled PROVE "send" \notin net[u].shut
      BY Zenon, <2>1, <3>1, <3>4 DEF Source, Over
    <3>5. Acked(u)'
      BY Zenon, <2>1, <3>1, <3>2, <3>4 DEF Acked, Undisturbed, CountsSame, WireSame, Early
    <3>6. Source(u)'
      BY Zenon, <2>1, <3>1, <3>4 DEF Source, CountsSame, Over
    <3>7. Whole(u)'
      BY Zenon, <2>1, <3>1 DEF Whole, EndSame, CountsSame, Over
    <3>8. QED
      BY <3>3, <3>5, <3>6, <3>7
  <2>4. CASE e = R(u)
    <3>1. /\ EndSame(S(u)) /\ CountsSame(u) /\ (WireSame(u) \/ Shut(u, "recv"))
          /\ pc'[R(u)] = "signal" /\ (R(u) \in cancelled' <=> R(u) \in cancelled)
          /\ sess'[R(u)].State = "completed" =>
               pc[R(u)] = "succeed" \/ sess[R(u)].State = "completed"
      BY Zenon, <2>1, <2>4 DEF Finishes
    <3>2. /\ net'[u].data = net[u].data /\ net'[u].acks = net[u].acks
          /\ "send" \in net'[u].shut <=> "send" \in net[u].shut
          /\ "recv" \in net[u].shut => "recv" \in net'[u].shut
          /\ net[u].lost => net'[u].lost
      BY <3>1 DEF WireSame, Shut
    <3>3. Flow(u)'
      BY Zenon, <2>1, <3>1, <3>2 DEF Flow, CountsSame
    <3>4. Acked(u)' /\ Source(u)'
      BY Zenon, <2>1, <3>1, <3>2 DEF Acked, Undisturbed, Source, EndSame, CountsSame
    <3>5. Whole(u)'
      BY Zenon, <2>1, <3>1 DEF Whole, EndSame, CountsSame
    <3>6. QED
      BY <3>3, <3>4, <3>5
  <2>5. QED
    BY Zenon, <2>2, <2>3, <2>4
<1>3. QED
  BY Zenon, <1>1, <1>2 DEF Streams

(* Cancel closes, or a connection is lost.                                  *)
LEMMA CloseKeeps ==
  ASSUME Streams, (\E e \in Ends : Closes(e)) \/ Loses \/ Rests
  PROVE  Streams'
<1>1. \A f \in Ends : EndSame(f)
  BY Zenon DEF Closes, Loses, Rests
<1>2. \A f \in Ends : StateOK(f)'
  BY Zenon, <1>1, MovesState DEF Streams
<1>3. ASSUME NEW u \in Transfers PROVE (Flow(u) /\ Acked(u) /\ Source(u) /\ Whole(u))'
  <2>1. /\ S(u) \in Ends /\ R(u) \in Ends /\ EndSame(S(u)) /\ EndSame(R(u))
        /\ Flow(u) /\ Acked(u) /\ Source(u) /\ Whole(u)
    BY Zenon, <1>1, EndsFacts DEF Streams
  <2>2. /\ CountsSame(u) /\ net'[u].data = net[u].data /\ net'[u].acks = net[u].acks
        /\ net[u].lost => net'[u].lost
        /\ \/ net'[u].shut = net[u].shut
           \/ net'[u].shut = net[u].shut \cup {"send"} /\ S(u) \in cancelled
           \/ net'[u].shut = net[u].shut \cup {"recv"}
    <3>1. CASE Loses \/ Rests
      BY <3>1 DEF Loses, Rests, StreamSame, WireSame
    <3>2. CASE \E e \in Ends : Closes(e)
      <4>1. PICK e \in Ends : Closes(e)
        BY Zenon, <3>2
      <4>2. CASE e[2] # u
        BY Zenon, <4>1, <4>2 DEF Closes, ElsewhereSame, StreamSame, WireSame
      <4>3. CASE e[2] = u /\ e = S(u)
        BY Zenon, <4>1, <4>3, EndsFacts DEF Closes, WireSame, Shut
      <4>4. CASE e[2] = u /\ e = R(u)
        BY Zenon, <4>1, <4>4, EndsFacts DEF Closes, WireSame, Shut
      <4>5. QED
        BY <4>2, <4>3, <4>4, EndsFacts
    <3>3. QED
      BY Zenon, <3>1, <3>2
  <2>3. Flow(u)'
    BY <2>1, <2>2 DEF Flow, EndSame, CountsSame
  <2>4. Acked(u)'
    BY Zenon, <2>1, <2>2 DEF Acked, Undisturbed, EndSame, CountsSame
  <2>5. Source(u)'
    BY <2>1, <2>2 DEF Source, EndSame, CountsSame
  <2>6. Whole(u)'
    BY Zenon, <2>1, <2>2 DEF Whole, EndSame, CountsSame
  <2>7. QED
    BY Zenon, <2>3, <2>4, <2>5, <2>6
<1>4. QED
  BY Zenon, <1>2, <1>3 DEF Streams

(* A step of one transfer is checked at that transfer.                      *)
LEMMA OneTransfer ==
  ASSUME Streams, NEW t \in Transfers, NEW e \in {S(t), R(t)}, NEW to,
         NEW from \in {"transfer", "ack", "lastack"}, Moves(e, from, to), to # "leave",
         ElsewhereSame(t), (Flow(t) /\ Acked(t) /\ Source(t) /\ Whole(t))'
  PROVE  Streams'
<1>1. e \in Ends /\ e[2] = t
  BY EndsFacts
<1>2. \A f \in Ends : StateOK(f)'
  BY Zenon, <1>1, MovesState DEF Streams
<1>3. ASSUME NEW u \in Transfers, u # t
      PROVE  (Flow(u) /\ Acked(u) /\ Source(u) /\ Whole(u))'
  <2>1. S(u) \in Ends \ {e} /\ R(u) \in Ends \ {e}
    BY <1>1, <1>3, EndsFacts
  <2>2. EndSame(S(u)) /\ EndSame(R(u)) /\ StreamSame(u)
    BY Zenon, <1>3, <2>1 DEF Moves, OthersSame, ElsewhereSame
  <2>3. QED
    BY Zenon, <2>2, SameKeeps DEF Streams
<1>4. QED
  BY Zenon, <1>2, <1>3 DEF Streams

(* The end of the stream.                                                   *)
LEMMA EofKeeps ==
  ASSUME DccTypes, Streams, NEW t \in Transfers, Eof(t)
  PROVE  Streams'
<1>1. /\ S(t) \in Ends \ {R(t)} /\ R(t) \in Ends
      /\ Flow(t) /\ Acked(t) /\ Source(t) /\ Whole(t)
  BY Zenon, EndsFacts DEF Streams
<1>2. /\ EndSame(S(t)) /\ StreamSame(t) /\ ElsewhereSame(t)
      /\ pc'[R(t)] = "succeed"
  BY <1>1 DEF Eof, Moves, OthersSame, ElsewhereSame
<1>3. (Flow(t) /\ Acked(t) /\ Source(t))'
  BY Zenon, <1>1, <1>2 DEF Flow, Acked, Undisturbed, Source, EndSame, StreamSame, CountsSame,
                           WireSame
<1>4. ASSUME S(t) \notin cancelled, ~sess[S(t)].Err
      PROVE  got[t] = size[t] /\ acks[t] > chunks[t] /\ pc[S(t)] \in Over
  <2>1. pc[S(t)] \in Over /\ sent[t] = size[t]
    BY Zenon, <1>1, <1>4 DEF Source, Eof
  <2>2. got[t] + 0 = sent[t]
    BY <1>1 DEF Flow, Eof
  <2>3. acks[t] = net[t].acks + chunks[t] + 1
    BY Zenon, <1>1, <1>4 DEF Acked, Undisturbed, Eof
  <2>4. QED
    BY <2>1, <2>2, <2>3, Numbers
<1>5. Whole(t)'
  BY Zenon, <1>2, <1>4 DEF Whole, EndSame, StreamSame, CountsSame
<1>6. QED
  BY <1>2, <1>3, <1>5, OneTransfer DEF Eof

(* A buffer.                                                                *)
LEMMA SendKeeps ==
  ASSUME DccTypes, DccTypes', Streams, NEW t \in Transfers, Sends(t)
  PROVE  Streams'
<1>1. /\ R(t) \in Ends \ {S(t)} /\ S(t) \in Ends
      /\ Flow(t) /\ Acked(t) /\ Source(t) /\ Whole(t)
  BY EndsFacts DEF Streams
<1>2. /\ EndSame(R(t)) /\ ElsewhereSame(t)
      /\ pc[S(t)] = "transfer" /\ pc'[S(t)] = "ack" /\ sess'[S(t)] = sess[S(t)]
      /\ (S(t) \in cancelled' <=> S(t) \in cancelled)
  BY Zenon, <1>1 DEF Sends, Moves, OthersSame
<1>3. PICK n \in Nat :
        /\ sent'[t] = sent[t] + n /\ sent[t] + n <= size[t]
        /\ \/ net'[t].lost /\ net'[t].data = net[t].data
           \/ net'[t].data = net[t].data + n /\ (net[t].lost => net'[t].lost)
  BY Zenon DEF Sends
<1>4. /\ size'[t] = size[t] /\ got'[t] = got[t] /\ acks'[t] = acks[t]
      /\ chunks'[t] = chunks[t] + 1
      /\ net'[t].shut = net[t].shut /\ net'[t].acks = net[t].acks /\ "send" \notin net[t].shut
  BY DEF Sends
<1>0. /\ size[t] \in Nat /\ sent[t] \in Nat /\ got[t] \in Nat
      /\ chunks[t] \in Nat /\ acks[t] \in Nat /\ net[t].data \in Nat /\ net[t].acks \in Nat
  BY Zenon, Numbers
<1>5. Flow(t)'
  <2>1. /\ got[t] + net[t].data <= sent[t]
        /\ "recv" \notin net[t].shut /\ ~net[t].lost => got[t] + net[t].data = sent[t]
    BY Zenon, <1>1 DEF Flow
  <2>2. got[t] + net'[t].data <= sent[t] + n
    BY <1>0, <1>3, <2>1
  <2>3. "recv" \notin net[t].shut /\ ~net'[t].lost => got[t] + net'[t].data = sent[t] + n
    BY <1>0, <1>3, <2>1
  <2>4. QED
    BY Zenon, <1>1, <1>2, <1>3, <1>4, <2>2, <2>3 DEF Flow, EndSame
<1>6. Acked(t)'
  <2>1. ASSUME Undisturbed(t)' PROVE acks[t] = net[t].acks + chunks[t]
    BY Zenon, <1>1, <1>2, <1>3, <1>4, <2>1 DEF Acked, Undisturbed, Early
  <2>2. ASSUME Undisturbed(t)' PROVE acks'[t] + 1 = net'[t].acks + chunks'[t]
    BY <1>0, <1>4, <2>1, <2>2
  <2>3. QED
    BY Zenon, <1>2, <1>4, <2>2 DEF Acked, Early
<1>7. Source(t)'
  BY Zenon, <1>2, <1>4 DEF Source
<1>8. Whole(t)'
  BY Zenon, <1>1, <1>2, <1>4 DEF Whole, EndSame, Over
<1>9. QED
  BY <1>2, <1>5, <1>6, <1>7, <1>8, OneTransfer DEF Sends

(* An ACK is read.                                                          *)
LEMMA ReadKeeps ==
  ASSUME DccTypes, Streams, NEW t \in Transfers, Reads(t)
  PROVE  Streams'
<1>1. /\ R(t) \in Ends \ {S(t)} /\ S(t) \in Ends
      /\ Flow(t) /\ Acked(t) /\ Source(t) /\ Whole(t)
  BY EndsFacts DEF Streams
<1>2. /\ EndSame(R(t)) /\ ElsewhereSame(t) /\ CountsSame(t)
      /\ \/ pc[S(t)] = "ack" /\ pc'[S(t)] = "check"
         \/ pc[S(t)] = "lastack" /\ pc'[S(t)] = "succeed"
      /\ sess'[S(t)] = sess[S(t)] /\ (S(t) \in cancelled' <=> S(t) \in cancelled)
  BY Zenon, <1>1 DEF Reads, Moves, OthersSame
<1>3. /\ net'[t].data = net[t].data /\ net'[t].shut = net[t].shut
      /\ net'[t].lost = net[t].lost
      /\ \/ net[t].acks > 0 /\ net'[t].acks = net[t].acks - 1
         \/ /\ net'[t].acks = net[t].acks
            /\ net[t].shut # {} \/ net[t].lost
  BY Zenon DEF Reads
<1>0. /\ size[t] \in Nat /\ sent[t] \in Nat /\ got[t] \in Nat
      /\ chunks[t] \in Nat /\ acks[t] \in Nat /\ net[t].data \in Nat /\ net[t].acks \in Nat
  BY Zenon, Numbers
<1>4. Flow(t)'
  BY <1>0, <1>1, <1>2, <1>3 DEF Flow, EndSame, CountsSame
<1>5. Acked(t)'
  <2>1. SUFFICES ASSUME Undisturbed(t)'
                 PROVE  /\ pc'[S(t)] = "check" => acks[t] = net'[t].acks + chunks[t]
                        /\ pc'[S(t)] = "succeed" => acks[t] = net'[t].acks + chunks[t] + 1
                        /\ "send" \notin net[t].shut
    BY <1>2, <1>3 DEF Acked, CountsSame, Early
  <2>2. Undisturbed(t)
    BY Zenon, <1>2, <1>3, <2>1 DEF Undisturbed
  <2>3. "send" \notin net[t].shut
    BY Zenon, <1>1, <1>2, <2>2 DEF Undisturbed, Source, Over
  <2>4. net[t].acks > 0 /\ net'[t].acks = net[t].acks - 1
    <3>1. net[t].shut = {} /\ ~net[t].lost
      BY Zenon, <2>2, <2>3, Numbers DEF Undisturbed, Sides
    <3>2. QED
      BY Zenon, <1>3, <3>1
  <2>5. /\ pc[S(t)] = "ack" => acks[t] + 1 = net[t].acks + chunks[t]
        /\ pc[S(t)] = "lastack" => acks[t] = net[t].acks + chunks[t]
    BY <1>1, <2>2 DEF Acked, Early
  <2>6. QED
    BY <1>0, <1>2, <2>3, <2>4, <2>5
<1>6. Source(t)'
  BY Zenon, <1>1, <1>2, <1>3 DEF Source, CountsSame, Over
<1>7. Whole(t)'
  BY Zenon, <1>1, <1>2 DEF Whole, EndSame, CountsSame, Over
<1>8. QED
  <2>1. CASE Moves(S(t), "ack", "check")
    BY <1>2, <1>4, <1>5, <1>6, <1>7, <2>1, OneTransfer
  <2>2. CASE Moves(S(t), "lastack", "succeed")
    BY <1>2, <1>4, <1>5, <1>6, <1>7, <2>2, OneTransfer
  <2>3. QED
    BY Zenon, <2>1, <2>2 DEF Reads

(* Data is taken.                                                           *)
LEMMA TakeKeeps ==
  ASSUME DccTypes, Streams, NEW t \in Transfers, Takes(t)
  PROVE  Streams'
<1>1. /\ S(t) \in Ends \ {R(t)} /\ R(t) \in Ends
      /\ Flow(t) /\ Acked(t) /\ Source(t) /\ Whole(t) /\ StateOK(R(t))
  BY Zenon, EndsFacts DEF Streams
<1>2. /\ EndSame(S(t)) /\ ElsewhereSame(t)
      /\ pc[R(t)] = "transfer" /\ pc'[R(t)] = "ack" /\ sess'[R(t)] = sess[R(t)]
  BY <1>1 DEF Takes, Moves, OthersSame
<1>3. PICK n \in Nat \ {0} :
        n <= net[t].data /\ net'[t].data = net[t].data - n /\ got'[t] = got[t] + n
  BY Zenon DEF Takes
<1>4. /\ net'[t].acks = net[t].acks /\ net'[t].shut = net[t].shut
      /\ net'[t].lost = net[t].lost /\ size'[t] = size[t] /\ sent'[t] = sent[t]
      /\ chunks'[t] = chunks[t] /\ acks'[t] = acks[t]
  BY DEF Takes
<1>0. /\ size[t] \in Nat /\ sent[t] \in Nat /\ got[t] \in Nat
      /\ chunks[t] \in Nat /\ acks[t] \in Nat /\ net[t].data \in Nat /\ net[t].acks \in Nat
  BY Zenon, Numbers
<1>5. Flow(t)'
  <2>1. /\ got'[t] + net'[t].data = got[t] + net[t].data
        /\ acks[t] <= got[t] => acks[t] < got'[t] /\ acks[t] <= got'[t]
    BY <1>0, <1>3
  <2>2. QED
    BY Zenon, <1>1, <1>4, <2>1 DEF Flow
<1>6. Acked(t)' /\ Source(t)'
  BY Zenon, <1>1, <1>2, <1>4 DEF Acked, Undisturbed, Source, EndSame
<1>7. Whole(t)'
  BY Zenon, <1>1, <1>2 DEF Whole, StateOK
<1>8. QED
  BY <1>2, <1>5, <1>6, <1>7, OneTransfer DEF Takes

(* An ACK is written.                                                       *)
LEMMA AckKeeps ==
  ASSUME DccTypes, Streams, NEW t \in Transfers, Acks(t)
  PROVE  Streams'
<1>1. /\ S(t) \in Ends \ {R(t)} /\ R(t) \in Ends
      /\ Flow(t) /\ Acked(t) /\ Source(t) /\ Whole(t) /\ StateOK(R(t))
  BY EndsFacts DEF Streams
<1>2. /\ EndSame(S(t)) /\ ElsewhereSame(t)
      /\ pc[R(t)] = "ack" /\ pc'[R(t)] = "check" /\ sess'[R(t)] = sess[R(t)]
  BY Zenon, <1>1 DEF Acks, Moves, OthersSame
<1>3. /\ net'[t].data = net[t].data /\ net'[t].shut = net[t].shut
      /\ size'[t] = size[t] /\ sent'[t] = sent[t] /\ got'[t] = got[t]
      /\ chunks'[t] = chunks[t] /\ acks'[t] = acks[t] + 1
      /\ \/ net'[t].lost /\ net'[t].acks = net[t].acks
         \/ /\ "send" \notin net[t].shut
            /\ net'[t].acks = net[t].acks + 1
            /\ net[t].lost => net'[t].lost
  BY Zenon DEF Acks
<1>0. /\ size[t] \in Nat /\ sent[t] \in Nat /\ got[t] \in Nat
      /\ chunks[t] \in Nat /\ acks[t] \in Nat /\ net[t].data \in Nat /\ net[t].acks \in Nat
  BY Zenon, Numbers
<1>4. Flow(t)'
  <2>1. acks[t] < got[t] /\ net[t].acks <= acks[t]
    BY Zenon, <1>1, <1>2 DEF Flow
  <2>2. net'[t].acks <= acks'[t] /\ acks'[t] <= got'[t]
    BY <1>0, <1>3, <2>1
  <2>3. ~net'[t].lost => ~net[t].lost
    BY <1>3
  <2>4. QED
    BY Zenon, <1>1, <1>2, <1>3, <2>2, <2>3 DEF Flow
<1>5. Acked(t)'
  <2>1. SUFFICES ASSUME Undisturbed(t)' PROVE Acked(t)'
    BY Zenon DEF Acked
  <2>2. Undisturbed(t) /\ "send" \notin net[t].shut /\ net'[t].acks = net[t].acks + 1
    BY <1>2, <1>3, <2>1 DEF Undisturbed, EndSame
  <2>3. /\ acks'[t] = net'[t].acks + chunks'[t] <=> acks[t] = net[t].acks + chunks[t]
        /\ acks'[t] + 1 = net'[t].acks + chunks'[t] <=> acks[t] + 1 = net[t].acks + chunks[t]
        /\ acks'[t] = net'[t].acks + chunks'[t] + 1 <=> acks[t] = net[t].acks + chunks[t] + 1
    BY <1>0, <1>3, <2>2
  <2>4. QED
    BY Zenon, <1>1, <1>2, <1>3, <2>2, <2>3 DEF Acked, EndSame
<1>6. Source(t)'
  BY Zenon, <1>1, <1>2, <1>3 DEF Source, EndSame
<1>7. Whole(t)'
  BY Zenon, <1>1, <1>2 DEF Whole, StateOK
<1>8. QED
  BY <1>2, <1>4, <1>5, <1>6, <1>7, OneTransfer DEF Acks

(* All of them.                                                             *)
LEMMA EffectKeeps ==
  ASSUME DccTypes, DccTypes', Streams, Effect
  PROVE  Streams'
BY ShiftKeeps, FinishKeeps, CloseKeeps, EofKeeps, SendKeeps, ReadKeeps, TakeKeeps, AckKeeps
   DEF Effect

(* Sequences: concatenation, ...                                            *)
LEMMA ConcatFacts ==
  ASSUME NEW A, NEW p \in Seq(A), NEW q \in Seq(A), NEW w, w = p \o q
  PROVE  /\ w \in Seq(A) /\ Len(w) = Len(p) + Len(q)
         /\ \A i \in 1..Len(p) : w[i] = p[i]
         /\ \A i \in 1..Len(q) : w[Len(p) + i] = q[i]
OBVIOUS

(* ... and what Delete leaves: all but one element.                         *)
LEMMA DeleteFacts ==
  ASSUME NEW A, NEW q \in Seq(A), NEW i \in 1..Len(q)
  PROVE  /\ Delete(q, i) \in Seq(A) /\ Len(Delete(q, i)) = Len(q) - 1
         /\ Len(q) \in Nat
         /\ \A j \in 1..Len(q) : j # i =>
              \E m \in 1..Len(Delete(q, i)) : Delete(q, i)[m] = q[j]
<1>1. PICK a, b : a = SubSeq(q, 1, i - 1) /\ b = SubSeq(q, i + 1, Len(q))
  BY Zenon
<1>2. a \in Seq(A) /\ b \in Seq(A) /\ Len(q) \in Nat
  BY <1>1
<1>3. Len(a) = i - 1 /\ Len(b) = Len(q) - i
  BY <1>1
<1>4. /\ \A j \in 1..i - 1 : a[j] = q[j]
      /\ \A j \in 1..Len(q) - i : b[j] = q[i + j]
  BY <1>1
<1>5. PICK w : w = a \o b
  BY Zenon
<1>6. /\ w \in Seq(A) /\ Len(w) = Len(a) + Len(b)
      /\ \A j \in 1..Len(a) : w[j] = a[j]
      /\ \A j \in 1..Len(b) : w[Len(a) + j] = b[j]
  BY <1>2, <1>5, ConcatFacts
<1>7. Len(w) = Len(q) - 1
  BY <1>2, <1>3, <1>6
<1>8. ASSUME NEW j \in 1..Len(q), j # i
      PROVE  \E m \in 1..Len(w) : w[m] = q[j]
  <2>1. CASE j < i
    <3>1. j \in 1..i - 1 /\ j \in 1..Len(w) /\ j \in 1..Len(a)
      BY <1>2, <1>3, <1>7, <2>1
    <3>2. QED
      BY <1>4, <1>6, <3>1
  <2>2. CASE j > i
    <3>1. /\ j - i \in 1..Len(b) /\ j - i \in 1..Len(q) - i /\ Len(a) + (j - i) = j - 1
          /\ i + (j - i) = j /\ j - 1 \in 1..Len(w)
      BY <1>2, <1>3, <1>7, <2>2
    <3>2. w[Len(a) + (j - i)] = b[j - i] /\ b[j - i] = q[i + (j - i)]
      BY Zenon, <1>4, <1>6, <3>1
    <3>3. QED
      BY <3>1, <3>2
  <2>3. QED
    BY <1>8, <2>1, <2>2
<1>9. Delete(q, i) = w
  BY <1>1, <1>5 DEF Delete
<1>10. QED
  BY <1>2, <1>6, <1>7, <1>8, <1>9

(* The parser reads the port of an offer, or refuses it (a file name of two *)
(* words).                                                                  *)
LEMMA OfferRead ==
  ASSUME NEW name \in Names, NEW port \in Nat, NEW sz \in Nat,
         NEW o, o = FormatSendOffer(name, port, sz), ParseSendRequest(o).ok
  PROVE  ParseSendRequest(o).Port = port
<1>1. PICK A : A = [num : BOOLEAN, value : Nat]
  BY Zenon
<1>2. PICK q : q = <<Num(0), Num(port), Num(sz)>>
  BY Zenon
<1>3. q \in Seq(A) /\ Len(q) = 3 /\ q[1] = Num(0) /\ q[2] = Num(port)
  <2>1. Num(0) \in A /\ Num(port) \in A /\ Num(sz) \in A
    BY Zenon, <1>1 DEF Num
  <2>2. QED
    BY <1>2, <2>1
<1>4. /\ name \in Seq(A)
      /\ \/ Len(name) = 1 /\ name[1] = Word
         \/ Len(name) = 2 /\ name[1] = Word /\ name[2] = Word
  <2>1. Word \in A
    BY Zenon, <1>1 DEF Word
  <2>2. CASE name = <<Word>>
    BY <2>1, <2>2
  <2>3. CASE name = <<Word, Word>>
    BY <2>1, <2>3
  <2>4. QED
    BY Zenon, <2>2, <2>3 DEF Names
<1>5. /\ Len(o) = Len(name) + Len(q)
      /\ \A i \in 1..Len(name) : o[i] = name[i]
      /\ \A i \in 1..Len(q) : o[Len(name) + i] = q[i]
  <2>1. o = name \o q
    BY Zenon, <1>2 DEF FormatSendOffer
  <2>2. name \in Seq(A) /\ q \in Seq(A)
    BY Zenon, <1>3, <1>4
  <2>3. QED
    BY <2>1, <2>2, ConcatFacts
<1>6. CASE Len(name) = 1
  <2>1. o[1 + 1] = q[1] /\ o[1 + 2] = q[2] /\ Len(o) = 4
    BY <1>3, <1>5, <1>6
  <2>2. o[2] = Num(0) /\ o[3] = Num(port)
    BY <1>3, <2>1
  <2>3. o[2].num /\ o[3].num /\ o[3].value = port
    BY <2>2 DEF Num
  <2>4. QED
    BY <2>1, <2>3 DEF ParseSendRequest
<1>7. CASE Len(name) = 2 /\ name[2] = Word
  <2>1. o[2] = Word
    BY <1>5, <1>7
  <2>2. ParseSendRequest(o) = Bad
    BY <2>1 DEF ParseSendRequest, Word
  <2>3. QED
    BY <2>2 DEF Bad
<1>8. QED
  BY Zenon, <1>4, <1>6, <1>7

(* Every step of the transfers is one of the effects.                       *)
LEMMA TransferSteps ==
  ASSUME DccTypes, Streams, TransferStep
  PROVE  DccTypes' /\ Effect
<1>1. ASSUME NEW e \in Ends, SessionStep(e) \/ CancelStore(e) \/ Fails(e)
      PROVE  DccTypes' /\ Effect
  <2>1. StateOK(e)
    BY Zenon DEF Streams
  <2>2. CASE CancelClose(e) \/ finishStore(e)
    BY Zenon, <2>1, <2>2, CloseSteps DEF Effect
  <2>3. CASE CancelStore(e) \/ setConn(e) \/ Activate(e) \/ Check(e) \/ finishLoad(e)
               \/ finishSignal(e) \/ Fails(e)
    BY Zenon, <2>1, <2>3, ShiftSteps DEF Effect
  <2>4. QED
    BY Zenon, <1>1, <2>2, <2>3 DEF SessionStep
<1>2. ASSUME NEW t \in Transfers, SendStep(t) \/ ReceiveStep(t) \/ Lose(t)
      PROVE  DccTypes' /\ Effect
  <2>1. StateOK(S(t)) /\ StateOK(R(t)) /\ Flow(t) /\ S(t) \in Ends /\ R(t) \in Ends
    BY Zenon, EndsFacts DEF Streams
  <2>2. CASE Accept(t) \/ SourceEof(t) \/ Dial(t)
    BY Zenon, <2>1, <2>2, QuietSteps DEF Effect
  <2>3. CASE SendChunk(t)
    BY Zenon, <2>1, <2>3, SendChunkStep DEF Effect
  <2>4. CASE ReadAck(t)
    BY Zenon, <2>1, <2>4, ReadAckStep DEF Effect
  <2>5. CASE ReceiveData(t)
    BY Zenon, <2>1, <2>5, ReceiveDataStep DEF Effect
  <2>6. CASE ReceiveEnd(t)
    BY Zenon, <2>1, <2>6, ReceiveEndStep DEF Effect
  <2>7. CASE SendAck(t)
    BY Zenon, <2>1, <2>7, SendAckStep DEF Effect
  <2>8. CASE Lose(t)
    BY Zenon, <2>8, LoseSteps DEF Effect
  <2>9. QED
    BY <1>2, <2>2, <2>3, <2>4, <2>5, <2>6, <2>7, <2>8 DEF SendStep, ReceiveStep
<1>3. QED
  BY Zenon, <1>1, <1>2 DEF TransferStep

(* No step of the transfers starts one, and none takes back that one is     *)
(* done.                                                                    *)
Stays(f) ==
  /\ pc[f] = "idle" => pc'[f] = "idle"
  /\ sess[f].done => sess'[f].done

LEMMA TransferStays ==
  ASSUME DccTypes, TransferStep
  PROVE  \A f \in Ends : Stays(f)
<1>1. pc \in [Ends -> Locations] /\ sess \in [Ends -> SessType]
  BY Zenon DEF DccTypes
<1>2. ASSUME NEW e \in Ends, NEW l, Goto(e, l), pc[e] # "idle"
      PROVE  \A f \in Ends : pc[f] = "idle" => pc'[f] = "idle"
  BY Zenon, <1>1, <1>2 DEF Goto
<1>3. ASSUME NEW e \in Ends, SessionStep(e) \/ CancelStore(e) \/ Fails(e)
      PROVE  \A f \in Ends : Stays(f)
  <2>1. \A f \in Ends : pc[f] = "idle" => pc'[f] = "idle"
    <3>1. CASE CancelClose(e) \/ CancelStore(e)
      BY Zenon, <3>1 DEF CancelClose, CancelStore
    <3>2. CASE setConn(e) \/ Activate(e) \/ finishSignal(e)
      BY Zenon, <1>2, <3>2 DEF setConn, Activate, finishSignal, At
    <3>3. CASE Check(e) \/ finishLoad(e) \/ finishStore(e) \/ Fails(e)
      <4>1. pc[e] # "idle" /\ \E l : Goto(e, l)
        BY Zenon, <3>3 DEF Check, finishLoad, finishStore, Fails, At
      <4>2. QED
        BY Zenon, <1>2, <4>1
    <3>4. QED
      BY Zenon, <1>3, <3>1, <3>2, <3>3 DEF SessionStep
  <2>2. \A f \in Ends : sess[f].done => sess'[f].done
    <3>1. CASE CancelClose(e) \/ Check(e) \/ finishLoad(e) \/ Fails(e)
      BY <3>1 DEF CancelClose, Check, finishLoad, Fails
    <3>2. CASE CancelStore(e)
      BY Zenon, <1>1, <3>2 DEF CancelStore, SessType
    <3>3. CASE setConn(e)
      BY Zenon, <1>1, <3>3 DEF setConn, SessType
    <3>4. CASE Activate(e)
      BY Zenon, <1>1, <3>4 DEF Activate, SessType
    <3>5. CASE finishSignal(e)
      BY Zenon, <1>1, <3>5 DEF finishSignal, SessType
    <3>6. CASE finishStore(e)
      <4>1. PICK d : d = Outcome(sess[e], pc[e])
        OBVIOUS
      <4>2. sess' = [sess EXCEPT ![e] = d]
        BY Zenon, <3>6, <4>1 DEF finishStore
      <4>3. d.done = sess[e].done
        BY Zenon, <1>1, <4>1 DEF Outcome, SessType
      <4>4. QED
        BY Zenon, <1>1, <4>2, <4>3
    <3>7. QED
      BY <1>3, <3>1, <3>2, <3>3, <3>4, <3>5, <3>6 DEF SessionStep
  <2>3. QED
    BY Zenon, <2>1, <2>2 DEF Stays
<1>4. ASSUME NEW t \in Transfers, SendStep(t) \/ ReceiveStep(t) \/ Lose(t)
      PROVE  \A f \in Ends : Stays(f)
  <2>1. sess' = sess
    BY <1>4 DEF SendStep, ReceiveStep, Accept, SendChunk, SourceEof, ReadAck, Dial,
       ReceiveData, ReceiveEnd, SendAck, Lose, session
  <2>2. <<"send", t>> \in Ends /\ <<"recv", t>> \in Ends
    BY Zenon DEF Ends, Sides
  <2>3. \A f \in Ends : pc[f] = "idle" => pc'[f] = "idle"
    <3>1. CASE SendStep(t)
      <4>1. pc[<<"send", t>>] # "idle" /\ \E l : Goto(<<"send", t>>, l)
        BY Zenon, <3>1 DEF SendStep, Accept, SendChunk, SourceEof, ReadAck, At
      <4>2. QED
        BY <1>2, <2>2, <4>1
    <3>2. CASE ReceiveStep(t)
      <4>1. pc[<<"recv", t>>] # "idle" /\ \E l : Goto(<<"recv", t>>, l)
        BY <3>2 DEF ReceiveStep, Dial, ReceiveData, ReceiveEnd, SendAck, At
      <4>2. QED
        BY <1>2, <2>2, <4>1
    <3>3. CASE Lose(t)
      BY Zenon, <3>3 DEF Lose, session
    <3>4. QED
      BY Zenon, <1>4, <3>1, <3>2, <3>3
  <2>4. QED
    BY <2>1, <2>3 DEF Stays
<1>5. QED
  BY Zenon, <1>3, <1>4 DEF TransferStep

(* Each running upload has an entry of its own.                             *)
LEMMA RunningBounded ==
  ASSUME BotTypes, Slots
  PROVE  Cardinality({t \in Transfers : Running(t)}) <= maxSlots
<1>1. PICK T : T = {t \in Transfers : Running(t)}
  BY Zenon
<1>2. PICK f : f = [x \in Entries |-> active[x[1]][x[2]]]
  BY Zenon
<1>3. PICK D : D = {x \in Entries : f[x] \in T}
  BY Zenon
<1>4. IsFiniteSet(D) /\ Cardinality(D) <= Cardinality(Entries)
  BY <1>3, FS_Subset DEF Slots
<1>5. PICK g : g = [x \in D |-> f[x]]
  BY Zenon
<1>6. g \in Surjection(D, T)
  <2>1. g \in [D -> T]
    BY <1>3, <1>5
  <2>2. ASSUME NEW t \in T PROVE \E x \in D : g[x] = t
    <3>1. PICK n \in Packs : \E i \in DOMAIN active[n] : active[n][i] = t
      BY <1>1, <2>2 DEF Slots, HoldsSlot
    <3>2. PICK i \in DOMAIN active[n] : active[n][i] = t
      BY Zenon, <3>1
    <3>3. <<n, i>> \in Entries
      BY <3>1, <3>2 DEF Entries
    <3>4. f[<<n, i>>] = t
      BY Zenon, <1>2, <3>2, <3>3
    <3>5. QED
      BY Zenon, <1>3, <1>5, <2>2, <3>3, <3>4
  <2>3. QED
    BY <2>1, <2>2 DEF Surjection
<1>7. IsFiniteSet(T) /\ Cardinality(T) <= Cardinality(D)
  BY Zenon, <1>4, <1>6, FS_Surjection
<1>8. Cardinality(T) \in Nat /\ Cardinality(D) \in Nat /\ Cardinality(Entries) \in Nat
  BY Zenon, <1>4, <1>7, FS_CardinalityType DEF Slots
<1>9. QED
  BY <1>1, <1>4, <1>7, <1>8, BotAssumption DEF Slots

(* The slots are kept by a step that adds no entry and starts no upload.    *)
LEMMA SlotsKept ==
  ASSUME Slots, Entries' \subseteq Entries, \A f \in Ends : Stays(f),
         \A t \in Transfers : Running(t)' /\ HoldsSlot(t) => HoldsSlot(t)'
  PROVE  Slots'
<1>1. IsFiniteSet(Entries') /\ Cardinality(Entries') <= Cardinality(Entries)
  BY Zenon, FS_Subset DEF Slots
<1>2. Cardinality(Entries) \in Nat /\ Cardinality(Entries') \in Nat
  BY Zenon, <1>1, FS_CardinalityType DEF Slots
<1>3. Cardinality(Entries') <= maxSlots
  BY <1>1, <1>2, BotAssumption DEF Slots
<1>4. ASSUME NEW t \in Transfers, Running(t)' PROVE HoldsSlot(t)'
  <2>1. Stays(<<"send", t>>)
    BY Zenon DEF Ends, Sides
  <2>2. Running(t)
    BY Zenon, <1>4, <2>1 DEF Running, Stays
  <2>3. QED
    BY Zenon, <1>4, <2>2 DEF Slots
<1>5. QED
  BY Zenon, <1>1, <1>3, <1>4 DEF Slots

(* The steps that change nothing of the transfers: AddPack, RemovePack and  *)
(* the goroutine that gives a slot back.                                    *)
LEMMA BotSteps ==
  ASSUME IInv, NEW n \in Packs,
         AddPack(n) \/ RemovePack(n) \/ \E t \in Transfers : FreeSlot(n, t)
  PROVE  DccTypes' /\ Effect /\ (BotTypes /\ Fresh /\ Slots /\ Offered)'
<1>1. UNCHANGED vars /\ UNCHANGED <<file, nextID, offers>>
  BY Zenon DEF AddPack, RemovePack, FreeSlot
<1>2. /\ UNCHANGED <<sess, pc, listed, net, size, sent, got>>
      /\ UNCHANGED <<chunks, acks, cancelling, cancelled>>
  BY Zenon, <1>1 DEF vars, session, stream
<1>3. DccTypes' /\ Effect
  BY <1>2 DEF IInv, DccTypes, Effect, Rests, EndSame, StreamSame, CountsSame, WireSame
<1>4. Fresh' /\ Offered'
  BY <1>1, <1>2 DEF IInv, Fresh, Offered
<1>5. \A f \in Ends : Stays(f)
  BY Zenon, <1>2 DEF Stays
<1>6. BotTypes /\ Slots
  BY DEF IInv
<1>7. CASE AddPack(n)
  <2>1. UNCHANGED active /\ packs' = Append(packs, [Number |-> n, Filename |-> file[n]])
        /\ Len(packs) < MaxPacks
    BY Zenon, <1>7 DEF AddPack
  <2>2. packs' \in Seq([Number : Packs, Filename : Names]) /\ Len(packs') = Len(packs) + 1
    BY <1>6, <2>1 DEF BotTypes
  <2>3. BotTypes'
    <3>1. Len(packs) \in Nat /\ Len(packs') <= MaxPacks
      BY <1>6, <2>1, <2>2, BotAssumption DEF BotTypes
    <3>2. QED
      BY <1>1, <1>6, <2>1, <2>2, <3>1 DEF BotTypes
  <2>4. Slots'
    BY Zenon, <1>5, <1>6, <2>1, SlotsKept DEF Entries, HoldsSlot
  <2>5. QED
    BY Zenon, <1>3, <1>4, <2>3, <2>4
<1>8. CASE RemovePack(n)
  <2>1. PICK i \in 1..Len(packs) : packs' = Delete(packs, i)
    BY <1>6, <1>8 DEF RemovePack, ByNumber, BotTypes
  <2>2. UNCHANGED active
    BY Zenon, <1>8 DEF RemovePack
  <2>3. /\ packs' \in Seq([Number : Packs, Filename : Names]) /\ Len(packs') = Len(packs) - 1
        /\ Len(packs) \in Nat
    BY Zenon, <1>6, <2>1, DeleteFacts DEF BotTypes
  <2>4. BotTypes'
    <3>1. Len(packs') <= MaxPacks
      BY <1>6, <2>3, BotAssumption DEF BotTypes
    <3>2. QED
      BY <1>1, <1>6, <2>2, <2>3, <3>1 DEF BotTypes
  <2>5. Slots'
    BY <1>5, <1>6, <2>2, SlotsKept DEF Entries, HoldsSlot
  <2>6. QED
    BY Zenon, <1>3, <1>4, <2>4, <2>5
<1>9. ASSUME NEW t \in Transfers, FreeSlot(n, t)
      PROVE  BotTypes' /\ Slots'
  <2>1. active \in [Packs -> Seq(Nat)] /\ active[n] \in Seq(Nat)
    BY <1>6 DEF BotTypes
  <2>2. PICK i \in 1..Len(active[n]) : /\ active[n][i] = t
                                       /\ active' = [active EXCEPT ![n] = Delete(@, i)]
    <3>1. DOMAIN active[n] = 1..Len(active[n])
      BY <2>1
    <3>2. QED
      BY Zenon, <1>9, <3>1 DEF FreeSlot
  <2>3. PICK w : w = Delete(active[n], i)
    BY Zenon
  <2>4. /\ w \in Seq(Nat) /\ Len(w) = Len(active[n]) - 1 /\ Len(active[n]) \in Nat
        /\ \A j \in 1..Len(active[n]) : j # i => \E m \in 1..Len(w) : w[m] = active[n][j]
    BY Zenon, <2>1, <2>3, DeleteFacts
  <2>5. /\ active' \in [Packs -> Seq(Nat)] /\ active'[n] = w
        /\ \A m \in Packs \ {n} : active'[m] = active[m]
    BY <2>1, <2>2, <2>3, <2>4
  <2>6. BotTypes'
    BY <1>1, <1>6, <1>9, <2>5 DEF BotTypes, FreeSlot
  <2>7. Entries' \subseteq Entries
    <3>1. DOMAIN w = 1..Len(w) /\ DOMAIN active[n] = 1..Len(active[n])
      BY <2>1, <2>4
    <3>2. DOMAIN w \subseteq DOMAIN active[n]
      BY <2>4, <3>1
    <3>3. \A m \in Packs : DOMAIN active'[m] \subseteq DOMAIN active[m]
      BY <2>5, <3>2
    <3>4. QED
      BY <3>3 DEF Entries
  <2>8. ASSUME NEW u \in Transfers, Running(u)', HoldsSlot(u) PROVE HoldsSlot(u)'
    <3>1. u # t
      BY <1>2, <1>9, <2>8 DEF Running, FreeSlot
    <3>2. PICK m \in Packs : \E j \in DOMAIN active[m] : active[m][j] = u
      BY Zenon, <2>8 DEF HoldsSlot
    <3>3. CASE m = n
      <4>1. PICK j \in 1..Len(active[n]) : active[n][j] = u
        BY <2>1, <3>2, <3>3
      <4>2. j # i
        BY Zenon, <2>2, <3>1, <4>1
      <4>3. \E a \in 1..Len(w) : w[a] = u
        BY Zenon, <2>4, <4>1, <4>2
      <4>4. QED
        BY <2>4, <2>5, <4>3 DEF HoldsSlot
    <3>4. CASE m # n
      BY <2>5, <3>2, <3>4 DEF HoldsSlot
    <3>5. QED
      BY <3>3, <3>4
  <2>9. QED
    BY <1>5, <1>6, <2>6, <2>7, <2>8, SlotsKept
<1>10. QED
  BY Zenon, <1>3, <1>4, <1>7, <1>8, <1>9

(* RequestPack: the transfer is new, and a slot is free for it.             *)
LEMMA RequestStep ==
  ASSUME IInv, NEW n \in Packs, RequestPack(n)
  PROVE  DccTypes' /\ Effect /\ (BotTypes /\ Fresh /\ Slots /\ Offered)'
<1>1. PICK t : t = nextID + 1
  OBVIOUS
<1>2. /\ t \in Transfers /\ nextID' = t /\ Send(t) /\ SlotFree
      /\ active' = [active EXCEPT ![n] = Append(@, t)]
      /\ UNCHANGED <<file, packs>>
  BY Zenon, <1>1 DEF RequestPack
<1>3. /\ nextID \in Nat /\ t \in Nat /\ t > nextID
      /\ active \in [Packs -> Seq(Nat)] /\ active[n] \in Seq(Nat)
      /\ DccTypes /\ BotTypes /\ Slots
  BY <1>1 DEF IInv, BotTypes
<1>4. S(t) = <<"send", t>> /\ S(t) \in Ends /\ pc[S(t)] = "idle"
  BY Zenon, <1>2, <1>3, EndsFacts DEF IInv, Fresh, S
<1>5. DccTypes' /\ Effect
  <2>1. StateOK(S(t)) /\ StateOK(R(t)) /\ Flow(t)
    BY <1>2, EndsFacts DEF IInv, Streams
  <2>2. QED
    BY Zenon, <1>2, <1>3, <1>4, <2>1, QuietSteps DEF Effect
<1>6. PICK w : w = Append(active[n], t)
  BY Zenon
<1>7. /\ w \in Seq(Nat) /\ Len(w) = Len(active[n]) + 1 /\ Len(active[n]) \in Nat
      /\ \A i \in 1..Len(active[n]) : w[i] = active[n][i]
      /\ w[Len(active[n]) + 1] = t
      /\ DOMAIN w = 1..Len(w) /\ DOMAIN active[n] = 1..Len(active[n])
  BY <1>3, <1>6
<1>8. /\ active' \in [Packs -> Seq(Nat)] /\ active'[n] = w
      /\ \A m \in Packs \ {n} : active'[m] = active[m]
  BY <1>2, <1>3, <1>6, <1>7
<1>9. BotTypes'
  BY Zenon, <1>2, <1>3, <1>8 DEF BotTypes
<1>10. sess' = sess /\ pc' = [pc EXCEPT ![S(t)] = "accept"]
  BY Zenon, <1>2, <1>4 DEF Send, Goto
<1>11. Fresh'
  <2>1. ASSUME NEW u \in Transfers, u > t PROVE pc'[S(u)] = "idle"
    <3>1. u > nextID /\ u # t
      <4>1. u \in Nat
        <5>1. PICK c : Transfers = 1..c
          BY Zenon, DccAssumption
        <5>2. QED
          BY <5>1
      <4>2. QED
        BY <1>1, <1>3, <2>1, <4>1
    <3>2. pc[S(u)] = "idle" /\ S(u) # S(t) /\ S(u) \in Ends
      BY <1>2, <3>1, EndsFacts DEF IInv, Fresh
    <3>3. QED
      BY Zenon, <1>3, <1>4, <1>10, <3>2 DEF DccTypes
  <2>2. QED
    BY Zenon, <1>2, <2>1 DEF Fresh
<1>12. Slots'
  <2>1. PICK x : x = <<n, Len(active[n]) + 1>>
    BY Zenon
  <2>2. Entries' = Entries \cup {x}
    <3>1. DOMAIN w = DOMAIN active[n] \cup {Len(active[n]) + 1}
      BY <1>7
    <3>2. \A m \in Packs : {m} \X DOMAIN active'[m] =
            ({m} \X DOMAIN active[m]) \cup (IF m = n THEN {x} ELSE {})
      BY <1>8, <2>1, <3>1
    <3>3. QED
      BY <2>1, <3>2 DEF Entries
  <2>3. IsFiniteSet(Entries) /\ Cardinality(Entries) \in Nat /\ Cardinality(Entries) < maxSlots
    BY Zenon, <1>2, <1>3, FS_CardinalityType DEF Slots, SlotFree, activeSlots
  <2>4. /\ IsFiniteSet(Entries \cup {x})
        /\ \/ Cardinality(Entries \cup {x}) = Cardinality(Entries)
           \/ Cardinality(Entries \cup {x}) = Cardinality(Entries) + 1
    BY Zenon, <2>3, FS_AddElement
  <2>5. IsFiniteSet(Entries') /\ Cardinality(Entries') <= maxSlots
    BY <2>2, <2>3, <2>4, BotAssumption
  <2>6. ASSUME NEW u \in Transfers, Running(u)' PROVE HoldsSlot(u)'
    <3>1. CASE u = t
      <4>1. Len(active[n]) + 1 \in DOMAIN active'[n] /\ active'[n][Len(active[n]) + 1] = t
        BY <1>7, <1>8
      <4>2. QED
        BY Zenon, <3>1, <4>1 DEF HoldsSlot
    <3>2. CASE u # t
      <4>1. pc'[<<"send", u>>] = pc[<<"send", u>>]
        BY <1>3, <1>4, <1>10, <3>2 DEF DccTypes, Ends, Sides
      <4>2. HoldsSlot(u)
        BY Zenon, <1>3, <1>10, <2>6, <4>1 DEF Running, Slots
      <4>3. PICK m \in Packs : \E i \in DOMAIN active[m] : active[m][i] = u
        BY Zenon, <4>2 DEF HoldsSlot
      <4>4. \E i \in DOMAIN active'[m] : active'[m][i] = u
        <5>1. CASE m = n
          <6>1. PICK i \in 1..Len(active[n]) : active[n][i] = u
            BY Zenon, <1>7, <4>3, <5>1
          <6>2. i \in DOMAIN w /\ w[i] = u
            BY <1>7, <6>1
          <6>3. QED
            BY Zenon, <1>8, <5>1, <6>2
        <5>2. CASE m # n
          BY Zenon, <1>8, <4>3, <5>2
        <5>3. QED
          BY Zenon, <5>1, <5>2
      <4>5. QED
        BY Zenon, <4>4 DEF HoldsSlot
    <3>3. QED
      BY Zenon, <3>1, <3>2
  <2>7. QED
    BY Zenon, <2>5, <2>6 DEF Slots
<1>13. Offered'
  <2>1. PICK i \in ByNumber(n) :
          offers' = offers \cup {[to |-> t,
                      parts |-> FormatSendOffer(packs[i].Filename, t, size[t])]}
    BY Zenon, <1>2 DEF RequestPack
  <2>2. packs[i].Filename \in Names /\ size[t] \in Nat
    <3>1. PICK T : T = [Number : Packs, Filename : Names]
      BY Zenon
    <3>2. packs \in Seq(T) /\ i \in DOMAIN packs
      BY Zenon, <1>3, <2>1, <3>1 DEF ByNumber, BotTypes
    <3>3. packs[i] \in T
      BY <3>2
    <3>4. QED
      BY Zenon, <1>2, <1>3, <3>1, <3>3 DEF DccTypes
  <2>3. PICK q : q = FormatSendOffer(packs[i].Filename, t, size[t])
    BY Zenon
  <2>4. ParseSendRequest(q).ok => ParseSendRequest(q).Port = t
    BY Zenon, <1>3, <2>2, <2>3, OfferRead
  <2>5. \A o \in offers' : o \in offers \/ o.parts = q
    BY <2>1, <2>3
  <2>6. QED
    BY Zenon, <1>2, <2>4, <2>5 DEF IInv, Offered
<1>14. QED
  BY Zenon, <1>5, <1>9, <1>11, <1>12, <1>13

(* Every step of the system.                                                *)
LEMMA NextStep ==
  ASSUME IInv, Next
  PROVE  DccTypes' /\ Effect /\ (BotTypes /\ Fresh /\ Slots /\ Offered)'
<1>0. DccTypes /\ Streams
  BY Zenon DEF IInv
<1>1. ASSUME UNCHANGED botVars, \A f \in Ends : Stays(f)
      PROVE  (BotTypes /\ Slots /\ Offered)'
  <2>1. UNCHANGED <<file, packs, active, nextID, offers>>
    BY <1>1 DEF botVars
  <2>2. Slots'
    BY Zenon, <1>1, <2>1, SlotsKept DEF IInv, Entries, HoldsSlot
  <2>3. QED
    BY <2>1, <2>2 DEF IInv, BotTypes, Offered
<1>2. ASSUME UNCHANGED nextID, \A t \in Transfers : pc[S(t)] = "idle" => pc'[S(t)] = "idle"
      PROVE  Fresh'
  BY Zenon, <1>2 DEF IInv, Fresh
<1>3. CASE TransferStep /\ UNCHANGED botVars
  <2>1. \A f \in Ends : Stays(f)
    BY Zenon, <1>0, <1>3, TransferStays
  <2>2. Fresh'
    BY Zenon, <1>2, <1>3, <2>1, EndsFacts DEF botVars, Stays
  <2>3. QED
    BY <1>0, <1>1, <1>3, <2>1, <2>2, TransferSteps
<1>4. ASSUME NEW n \in Packs, ListenFails(n)
      PROVE  DccTypes' /\ Effect /\ (BotTypes /\ Fresh /\ Slots /\ Offered)'
  <2>1. UNCHANGED <<sess, pc>> /\ UNCHANGED botVars
    BY Zenon, <1>4 DEF ListenFails, session
  <2>2. \A f \in Ends : Stays(f)
    BY Zenon, <2>1 DEF Stays
  <2>3. Fresh'
    BY Zenon, <1>2, <2>1 DEF botVars
  <2>4. DccTypes' /\ Effect
    BY <1>0, <1>4, LoseSteps DEF Effect
  <2>5. QED
    BY <1>1, <2>1, <2>2, <2>3, <2>4
<1>5. ASSUME NEW o \in offers, TakeOffer(o)
      PROVE  DccTypes' /\ Effect /\ (BotTypes /\ Fresh /\ Slots /\ Offered)'
  <2>1. PICK t : t = ParseSendRequest(o.parts).Port
    BY Zenon
  <2>2. t \in Transfers /\ Receive(t) /\ UNCHANGED botVars
    BY Zenon, <1>5, <2>1 DEF TakeOffer, IInv, Offered
  <2>3. StateOK(S(t)) /\ StateOK(R(t)) /\ Flow(t) /\ R(t) \in Ends /\ R(t) = <<"recv", t>>
    BY <1>0, <2>2, EndsFacts DEF Streams, R
  <2>4. DccTypes' /\ Effect
    BY Zenon, <1>0, <2>2, <2>3, QuietSteps DEF Effect
  <2>5. sess' = sess /\ pc' = [pc EXCEPT ![R(t)] = "dial"]
    BY Zenon, <2>2, <2>3 DEF Receive, Goto
  <2>6. \A u \in Transfers : pc'[S(u)] = pc[S(u)]
    <3>1. \A u \in Transfers : S(u) \in Ends /\ S(u) # R(t)
      BY Zenon, <2>2, EndsFacts
    <3>2. QED
      BY Zenon, <1>0, <2>5, <3>1 DEF DccTypes
  <2>7. Fresh'
    BY <1>2, <2>2, <2>6 DEF botVars
  <2>8. UNCHANGED <<file, packs, active, nextID, offers>>
    BY Zenon, <2>2 DEF botVars
  <2>9. Slots'
    <3>1. \A u \in Transfers : (Running(u)' <=> Running(u)) /\ (HoldsSlot(u)' <=> HoldsSlot(u))
      BY Zenon, <2>5, <2>6, <2>8 DEF Running, HoldsSlot, S
    <3>2. Entries' = Entries
      BY Zenon, <2>8 DEF Entries
    <3>3. QED
      BY <3>1, <3>2 DEF IInv, Slots
  <2>10. BotTypes' /\ Offered'
    BY <2>8 DEF IInv, BotTypes, Offered
  <2>11. QED
    BY Zenon, <2>4, <2>7, <2>9, <2>10
<1>6. QED
  BY <1>3, <1>4, <1>5, BotSteps, RequestStep DEF Next

(* The initial states.                                                      *)
LEMMA InitInv == Init => IInv
<1>1. SUFFICES ASSUME Init PROVE IInv
  BY Zenon
<1>2. /\ \A e \in Ends : sess[e] = newSession /\ pc[e] = "idle"
      /\ \A t \in Transfers : /\ net[t] = NoConn /\ sent[t] = 0 /\ got[t] = 0
                              /\ chunks[t] = 0 /\ acks[t] = 0 /\ size[t] \in Nat
      /\ cancelled = {} /\ \A t \in Transfers : S(t) \in Ends /\ R(t) \in Ends
  BY Zenon, <1>1, DccAssumption, EndsFacts DEF Init, DccInit
<1>3. newSession \in SessType /\ NoConn \in NetType /\ "idle" \in Locations
  BY Zenon DEF newSession, NoConn, SessType, NetType, TransferState, Locations
<1>4. DccTypes
  BY Zenon, <1>1, <1>3, DccAssumption DEF Init, DccInit, DccTypes
<1>5. BotTypes
  <2>1. packs = <<>> /\ active = [n \in Packs |-> <<>>] /\ nextID = 0 /\ file \in [Packs -> Names]
    BY Zenon, <1>1 DEF Init
  <2>2. QED
    BY <2>1, BotAssumption DEF BotTypes
<1>6. Streams
  <2>1. \A e \in Ends : StateOK(e)
    BY <1>2 DEF StateOK, newSession
  <2>2. ASSUME NEW t \in Transfers PROVE Flow(t) /\ Acked(t) /\ Source(t) /\ Whole(t)
    <3>1. /\ net[t].data = 0 /\ net[t].acks = 0 /\ net[t].shut = {} /\ net[t].lost = FALSE
          /\ pc[S(t)] = "idle" /\ pc[R(t)] = "idle"
          /\ sess[R(t)].State = "pending"
      <4>1. /\ NoConn.data = 0 /\ NoConn.acks = 0 /\ NoConn.shut = {} /\ NoConn.lost = FALSE
            /\ newSession.State = "pending"
        BY DEF NoConn, newSession
      <4>2. QED
        BY Zenon, <1>2, <4>1
    <3>2. /\ sent[t] = 0 /\ got[t] = 0 /\ chunks[t] = 0 /\ acks[t] = 0 /\ size[t] \in Nat
      BY Zenon, <1>2
    <3>3. Flow(t) /\ Acked(t)
      <4>1. 0 + 0 = 0 /\ 0 <= 0 /\ 0 <= size[t] /\ pc[R(t)] # "ack"
        BY <3>1, <3>2
      <4>2. pc[S(t)] # "ack" /\ pc[S(t)] # "succeed" /\ "send" \notin net[t].shut
        BY Zenon, <3>1
      <4>3. QED
        BY Zenon, <3>1, <3>2, <4>1, <4>2 DEF Flow, Acked
    <3>4. Source(t) /\ Whole(t)
      BY Zenon, <3>1 DEF Source, Whole
    <3>5. QED
      BY Zenon, <3>3, <3>4
  <2>3. QED
    BY Zenon, <2>1, <2>2 DEF Streams
<1>7. Fresh
  BY Zenon, <1>2 DEF Fresh
<1>8. Slots
  <2>1. Entries = {}
    BY <1>1 DEF Init, Entries
  <2>2. \A t \in Transfers : ~Running(t)
    BY Zenon, <1>2 DEF Running, S
  <2>3. IsFiniteSet({}) /\ Cardinality({}) = 0 /\ 0 <= maxSlots
    BY FS_EmptySet, BotAssumption
  <2>4. QED
    BY Zenon, <2>1, <2>2, <2>3 DEF Slots
<1>9. Offered
  BY <1>1 DEF Init, Offered
<1>10. QED
  BY <1>4, <1>5, <1>6, <1>7, <1>8, <1>9 DEF IInv

(* The invariant is inductive (dcc.go: Session, runSend, runReceive;        *)
(* xdcc.go: Bot).                                                           *)
THEOREM Inductive == Spec => []IInv
<1>1. IInv /\ [Next]_allVars => IInv'
  <2>1. ASSUME IInv, Next PROVE IInv'
    BY Zenon, <2>1, NextStep, EffectKeeps DEF IInv
  <2>2. ASSUME IInv, UNCHANGED allVars PROVE IInv'
    <3>1. /\ UNCHANGED <<sess, pc, listed, net, size, sent, got>>
          /\ UNCHANGED <<chunks, acks, cancelling, cancelled>>
          /\ UNCHANGED <<file, packs, active, nextID, offers>>
      BY Zenon, <2>2 DEF allVars, vars, session, stream, botVars
    <3>2. DccTypes' /\ Effect
      BY <2>2, <3>1 DEF IInv, DccTypes, Effect, Rests, EndSame, StreamSame, CountsSame, WireSame
    <3>3. Streams'
      BY Zenon, <2>2, <3>2, EffectKeeps DEF IInv
    <3>4. BotTypes' /\ Fresh' /\ Offered'
      BY Zenon, <2>2, <3>1 DEF IInv, BotTypes, Fresh, Offered
    <3>5. Slots'
      BY <2>2, <3>1 DEF IInv, Slots, Entries, Running, HoldsSlot
    <3>6. QED
      BY Zenon, <3>2, <3>3, <3>4, <3>5 DEF IInv
  <2>3. QED
    BY Zenon, <2>1, <2>2
<1>2. QED
  BY <1>1, InitInv, PTL DEF Spec

(* Nothing is received that was not sent, nothing is sent beyond the end of *)
(* the file, and there are no more ACKs in flight than units of it          *)
(* (dcc.go: runSend, runReceive).                                           *)
THEOREM TypeCorrect == Spec => []TypeOK
<1>1. IInv => TypeOK
  <2>1. SUFFICES ASSUME IInv PROVE TypeOK
    BY Zenon
  <2>2. ASSUME NEW t \in Transfers
        PROVE  /\ net[t].data \in 0..size[t] /\ net[t].acks \in 0..size[t]
               /\ net[t].shut \subseteq Sides
               /\ got[t] + net[t].data <= sent[t] /\ sent[t] <= size[t]
    BY <2>1, Numbers DEF IInv, Streams, Flow
  <2>3. QED
    BY <2>1, <2>2 DEF IInv, DccTypes, BotTypes, TypeOK, SessType
<1>2. QED
  BY <1>1, Inductive, PTL

(* At most maxSlots uploads are unfinished, and each keeps its slot until   *)
(* Wait has returned (xdcc.go: RequestPack).                                *)
THEOREM SlotsAreHeld == Spec => []SlotsHold
<1>1. IInv => SlotsHold
  BY Zenon, RunningBounded DEF IInv, Slots, SlotsHold
<1>2. QED
  BY <1>1, Inductive, PTL

(* A completed download that nobody cancelled, of an upload without an      *)
(* error, is the whole file, and more ACKs were written than buffers        *)
(* (dcc.go: runSend, runReceive).                                           *)
THEOREM CompletedMeansWhole == Spec => []CompletedIsWhole
<1>1. IInv => CompletedIsWhole
  BY DEF IInv, Streams, Whole, CompletedIsWhole, S, R
<1>2. QED
  BY <1>1, Inductive, PTL

====
