----------------------------- MODULE MemoryStore -----------------------------
(***************************************************************************)
(* The bouncer's in-memory message history (irc/bouncer/history/store.go): *)
(* a ring buffer per network and target, filled by Append and read by      *)
(* Query.  Both run under the store's mutex, so each is one step.          *)
(*                                                                         *)
(* An entry is its time and its msgid; entries may arrive with any time    *)
(* (the upstream server's server-time tag) and with a msgid seen before.   *)
(***************************************************************************)
EXTENDS RingBuf, FiniteSets, SequencesExt

CONSTANTS
  Keys,           \* network + target
  Times,          \* time stamps, a set of naturals
  Ids,            \* msgids
  NoId,           \* no msgid, no AfterMsgID
  Requested,      \* the limit given to NewMemoryStore
  DefaultLimit,   \* defaultLimit
  Absent,         \* a key that has no ring yet
  MaxAppends,     \* bound: entries appended in a behaviour
  QueryLimits     \* bound: the values of Query.Limit tried

ASSUME StoreAssumption ==
  /\ Times \subseteq Nat
  /\ NoId \notin Ids
  /\ Requested \in Int
  /\ DefaultLimit \in Nat \ {0}
  /\ MaxAppends \in Nat
  /\ QueryLimits \subseteq Int

VARIABLES
  buffers,   \* MemoryStore.buffers
  past       \* history: all entries appended under a key

vars == <<buffers, past>>

Entries == [time : Times, id : Ids \cup {NoId}]
NoTime == -1
Queries == [before : Times \cup {NoTime}, after : Times \cup {NoTime},
            afterId : Ids \cup {NoId}, limit : QueryLimits]

(* NewMemoryStore.                                                         *)
Limit == IF Requested <= 0 THEN DefaultLimit ELSE Requested

ASSUME AbsentAssumption == Absent \notin Rings(Entries, Limit)

Init ==
  /\ buffers = [k \in Keys |-> Absent]
  /\ past = [k \in Keys |-> <<>>]

(* buf: the ring of a key, created on first use, also by a query.          *)
Buf(k) == IF buffers[k] = Absent THEN NewRing(Limit) ELSE buffers[k]

AppendEntry(k, e) ==
  /\ MapThenSumSet(LAMBDA j : Len(past[j]), Keys) < MaxAppends
  /\ buffers' = [buffers EXCEPT ![k] = Push(Buf(k), e)]
  /\ past' = [past EXCEPT ![k] = Append(@, e)]

(* The position after the first entry with the msgid; the end, if none.    *)
StartAfter(all, id) ==
  LET hits == {i \in DOMAIN all : all[i].id = id}
  IN  IF id = NoId THEN 1
      ELSE IF hits = {} THEN Len(all) + 1
      ELSE Min(hits) + 1

Wanted(q, e) ==
  /\ q.before # NoTime => e.time < q.before
  /\ q.after # NoTime => e.time > q.after

(* Fault: the oldest matches are kept instead of the most recent.          *)
TrimOldest(s, n) == IF Len(s) > n THEN SubSeq(s, 1, n) ELSE s

(* Trim to the most recent n.                                              *)
Trim(s, n) == IF Len(s) > n THEN SubSeq(s, Len(s) - n + 1, Len(s)) ELSE s

Select(all, q) ==
  LET limit  == IF q.limit <= 0 THEN DefaultLimit ELSE q.limit
      rest   == SubSeq(all, StartAfter(all, q.afterId), Len(all))
      result == SelectSeq(rest, LAMBDA e : Wanted(q, e))
  IN  Trim(result, limit)

(* Query returns this for the entries of the key; its one effect on the    *)
(* store is the ring it creates for a new key.                             *)
Answer(k, q) == Select(Slice(Buf(k)), q)

Query(k) ==
  /\ buffers' = [buffers EXCEPT ![k] = Buf(k)]
  /\ UNCHANGED past

Next ==
  \E k \in Keys :
    \/ \E e \in Entries : AppendEntry(k, e)
    \/ Query(k)

Spec == Init /\ [][Next]_vars
-----------------------------------------------------------------------------
TypeOK ==
  /\ buffers \in [Keys -> Rings(Entries, Limit) \cup {Absent}]
  /\ past \in [Keys -> Seq(Entries)]

(* The rings are an implementation of the bounded log.                     *)
Stored(k) == IF buffers[k] = Absent THEN <<>> ELSE Slice(buffers[k])
StoredLog == [k \in Keys |-> Stored(k)]
Log == INSTANCE BoundedLog WITH log <- StoredLog

(* The store keeps exactly the last Limit entries of each key, in order:   *)
(* the index arithmetic of the ring is invisible from outside, queries     *)
(* change nothing, and keys do not disturb each other.                     *)
IsBoundedLog == Log!Spec

(* What a query asks for, said without loops: of the last Limit entries    *)
(* appended under the key, those that match, come after an entry with the  *)
(* msgid and are followed by fewer than limit others of the kind.          *)
Reference(k, q) ==
  LET kept  == Log!LastN(past[k], Limit)
      limit == IF q.limit <= 0 THEN DefaultLimit ELSE q.limit
      hits  == {i \in DOMAIN kept :
                  /\ Wanted(q, kept[i])
                  /\ q.afterId # NoId => \E j \in 1..(i - 1) : kept[j].id = q.afterId}
      last  == {i \in hits : Cardinality({j \in hits : j > i}) < limit}
      order == SetToSortSeq(last, <)
  IN  [i \in 1..Cardinality(last) |-> kept[order[i]]]

(* Query answers from the ring what the appends of the past ask for, at    *)
(* every fill level and wrap-around of the ring and for every query.       *)
QueryIsReference ==
  \A k \in Keys, q \in Queries : Answer(k, q) = Reference(k, q)
=============================================================================
