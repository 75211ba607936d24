-------------------------------- MODULE XdccBot --------------------------------
(***************************************************************************)
(* The XDCC bot (irc/client/xdcc/xdcc.go) on top of dcc.Manager: packs,    *)
(* slots, and the goroutine that gives a slot back when Wait returns.      *)
(* RequestPack holds the bot's mutex from the test of the slots to the     *)
(* entry in active, so it is one step, Manager.Send included.              *)
(***************************************************************************)
EXTENDS Dcc

CONSTANTS
  Packs,       \* pack numbers
  MaxPacks,    \* bound: entries of the pack list
  maxSlots     \* NewBot's maxSlots, after the default

ASSUME BotAssumption == MaxPacks \in Nat /\ maxSlots \in Nat \ {0}

VARIABLES
  file,     \* the name of the file a pack is made of
  packs,    \* Bot.packs, in order
  active,   \* Bot.active: session IDs per pack
  nextID,   \* Manager.nextID
  offers    \* the offers sent to the requesting nick

botVars == <<file, packs, active, nextID, offers>>
allVars == <<vars, botVars>>

(* The fields of an offer.  A file name of two words becomes two fields.   *)
Num(n) == [num |-> TRUE, value |-> n]
Word == [num |-> FALSE, value |-> 0]
Names == {<<Word>>, <<Word, Word>>}

Init ==
  /\ DccInit
  /\ file \in [Packs -> Names]
  /\ packs = <<>>
  /\ active = [n \in Packs |-> <<>>]
  /\ nextID = 0
  /\ offers = {}

AddPack(n) ==
  /\ Len(packs) < MaxPacks
  /\ packs' = Append(packs, [Number |-> n, Filename |-> file[n]])
  /\ UNCHANGED <<vars, file, active, nextID, offers>>

(* The first pack of that number: one index or none.                       *)
ByNumber(n) ==
  {i \in DOMAIN packs : packs[i].Number = n /\ \A j \in 1..(i - 1) : packs[j].Number # n}

(* append(q[:i], q[i+1:]...)                                               *)
Delete(q, i) == SubSeq(q, 1, i - 1) \o SubSeq(q, i + 1, Len(q))

RemovePack(n) ==
  /\ \E i \in ByNumber(n) : packs' = Delete(packs, i)
  /\ UNCHANGED <<vars, file, active, nextID, offers>>

(* The entries of active, which activeSlots counts.                        *)
Entries == UNION {{n} \X DOMAIN active[n] : n \in Packs}
activeSlots == Cardinality(Entries)

(* "SEND <filename> <ip> <port> <size>"; the address is a number, too.     *)
FormatSendOffer(name, port, sz) == name \o <<Num(0), Num(port), Num(sz)>>

Bad == [ok |-> FALSE]

ParseSendRequest(parts) ==
  IF Len(parts) < 3 \/ ~parts[2].num \/ ~parts[3].num THEN Bad
  ELSE [ok      |-> TRUE,
        Port    |-> parts[3].value,
        Size    |-> IF Len(parts) >= 4 THEN parts[4].value ELSE 0,
        Passive |-> parts[3].value = 0 \/ Len(parts) >= 5]

(* Fault: one transfer more than there are slots.                          *)
OneSlotMore == activeSlots <= maxSlots

SlotFree == activeSlots < maxSlots

(* RequestPack with a Send that succeeds.  The listener of a transfer is   *)
(* named by its session ID.  A refusal (no free slot, no such pack, no     *)
(* such file) changes nothing.                                             *)
RequestPack(n) ==
  /\ SlotFree
  /\ nextID + 1 \in Transfers
  /\ nextID' = nextID + 1
  /\ active' = [active EXCEPT ![n] = Append(@, nextID')]
  /\ Send(nextID + 1)
  /\ \E i \in ByNumber(n) :
       offers' = offers \cup {[to |-> nextID',
                   parts |-> FormatSendOffer(packs[i].Filename, nextID', size[nextID'])]}
  /\ UNCHANGED <<file, packs>>

(* net.Listen fails: Send calls Close on the nil listener and panics,      *)
(* which ends the process; the system resets its connections.              *)
ListenFails(n) ==
  /\ SlotFree
  /\ ByNumber(n) # {}
  /\ nextID + 1 \in Transfers
  /\ crashed' = TRUE
  /\ net' = [t \in Transfers |-> IF net[t].dialled THEN [net[t] EXCEPT !.lost = TRUE]
                                                   ELSE net[t]]
  /\ UNCHANGED <<session, size, sent, got, chunks, acks, faults, botVars>>

(* The goroutine behind RequestPack, once Wait has returned.               *)
FreeSlot(n, t) ==
  /\ ~crashed
  /\ sess[<<"send", t>>].done
  /\ \E i \in DOMAIN active[n] :
       /\ active[n][i] = t
       /\ active' = [active EXCEPT ![n] = Delete(@, i)]
  /\ UNCHANGED <<vars, file, packs, nextID, offers>>

(* The receiving client parses an offer and accepts it (cmd/ircx).         *)
TakeOffer(o) ==
  /\ ParseSendRequest(o.parts).ok
  /\ Receive(ParseSendRequest(o.parts).Port)
  /\ UNCHANGED botVars

Next ==
  \/ TransferStep /\ UNCHANGED botVars
  \/ ~crashed /\ \E n \in Packs :
       \/ AddPack(n)
       \/ RemovePack(n)
       \/ RequestPack(n)
       \/ ListenFails(n)
  \/ \E n \in Packs, t \in Transfers : FreeSlot(n, t)
  \/ \E o \in offers : TakeOffer(o)

(* Some runnable goroutine runs, which is weaker than fairness to each of  *)
(* them.  Nobody has to accept an offer, to cancel or to request; calls    *)
(* that can succeed may still fail.                                        *)
Progress ==
  \/ /\ \/ \E e \in Ends : SessionStep(e)
        \/ \E t \in Transfers : SendStep(t) \/ ReceiveStep(t)
     /\ UNCHANGED botVars
  \/ \E n \in Packs, t \in Transfers : FreeSlot(n, t)

Fairness == WF_allVars(Progress)

Spec == Init /\ [][Next]_allVars /\ Fairness
-----------------------------------------------------------------------------
TypeOK ==
  /\ sess \in [Ends -> [State : TransferState, Err : BOOLEAN,
                        conn : BOOLEAN, done : BOOLEAN]]
  /\ pc \in [Ends -> Locations]
  /\ listed \subseteq Ends
  /\ \A t \in Transfers :
       /\ net[t].data \in 0..size[t] /\ net[t].acks \in 0..size[t]
       /\ net[t].shut \subseteq Sides
       /\ got[t] + net[t].data <= sent[t] /\ sent[t] <= size[t]
  /\ cancelling \subseteq cancelled /\ cancelled \subseteq Ends
  /\ Len(packs) <= MaxPacks
  /\ nextID \in Nat

Running(t) == pc[<<"send", t>>] # "idle" /\ ~sess[<<"send", t>>].done
HoldsSlot(t) == \E n \in Packs : \E i \in DOMAIN active[n] : active[n][i] = t

(* The slot limit counts goroutines, not table entries: at most maxSlots   *)
(* uploads are unfinished at any time, whatever is cancelled, removed or   *)
(* failing, because a transfer keeps its slot until Wait returned.         *)
SlotsHold ==
  /\ Cardinality({t \in Transfers : Running(t)}) <= maxSlots
  /\ \A t \in Transfers : Running(t) => HoldsSlot(t)

(* What a Completed download means, as runReceive does not compare sizes:  *)
(* without a cancel at either end and without an error at the sender the   *)
(* whole file is there.  And since the sender reads one ACK per buffer and *)
(* then one more, it only gets there if TCP split some buffer into several *)
(* reads: with one ACK per buffer both ends wait for each other.           *)
CompletedIsWhole ==
  \A t \in Transfers :
    LET s == <<"send", t>>
        r == <<"recv", t>>
    IN  sess[r].State = "completed" /\ {s, r} \cap cancelled = {} /\ ~sess[s].Err
          => got[t] = size[t] /\ acks[t] > chunks[t]

(* Once either end of a connection is closed (by finish, by Cancel, by a   *)
(* failing transfer) both goroutines end and the slot is given back.       *)
ClosedEnds ==
  \A t \in Transfers :
    net[t].shut # {} ~> \/ crashed
                        \/ /\ pc[<<"send", t>>] = "ended" /\ pc[<<"recv", t>>] = "ended"
                           /\ ~HoldsSlot(t)

(* Session.Wait "blocks until the session is done (completed, failed, or   *)
(* cancelled)": after Cancel, Wait returns.                                *)
CancelWakesWait ==
  \A e \in Ends : e \in cancelled ~> (sess[e].done \/ crashed)
=============================================================================
