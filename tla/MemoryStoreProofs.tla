-------------------------- MODULE MemoryStoreProofs --------------------------
(* That the store of ring buffers implements the bounded log, for every     *)
(* limit, every set of keys and every kind of entry.                        *)
EXTENDS MemoryStore, TLAPS

(* Slots stay in range: an index less than twice the capacity wraps once.   *)
LEMMA ModAdd ==
  ASSUME NEW c \in Nat \ {0}, NEW h \in 0..(c - 1), NEW i \in 0..c
  PROVE  (h + i) % c \in 0..(c - 1)
  OBVIOUS

(* NewMemoryStore never makes rings of capacity 0.                          *)
LEMMA LimitPositive == Limit \in Nat \ {0}
  BY StoreAssumption DEF Limit

(* New makes a ring of the right shape that holds nothing.                  *)
LEMMA NewRingEmpty ==
  /\ NewRing(Limit) \in Rings(Entries, Limit)
  /\ Slice(NewRing(Limit)) = <<>>
  BY LimitPositive DEF NewRing, Capacity, Rings, Slice

(* A ring by its fields.                                                    *)
Ring(b, h, n, c) == [buf |-> b, head |-> h, size |-> n, cap |-> c]

(* The fields of a well-formed ring.                                         *)
LEMMA RingFields ==
  ASSUME NEW c \in Nat \ {0}, NEW r \in Rings(Entries, c)
  PROVE  \E b \in [0..(c - 1) -> Entries \cup {Nil}], h \in 0..(c - 1),
            n \in 0..c : r = Ring(b, h, n, c)
  BY DEF Rings, Ring

(* Push keeps the shape of a ring: head and size stay in range.             *)
LEMMA PushType ==
  ASSUME NEW c \in Nat \ {0}, NEW r \in Rings(Entries, c), NEW e \in Entries
  PROVE  Push(r, e) \in Rings(Entries, c)
<1>1. PICK b \in [0..(c - 1) -> Entries \cup {Nil}], h \in 0..(c - 1),
           n \in 0..c : r = Ring(b, h, n, c)
  BY RingFields
<1>2. (h + 1) % c \in 0..(c - 1) /\ (h + n) % c \in 0..(c - 1)
  OBVIOUS
<1>3. CASE n = c
  BY <1>1, <1>2, <1>3 DEF Push, With, Rings, Ring
<1>4. CASE n < c
  BY <1>1, <1>2, <1>4 DEF Push, With, Rings, Ring
<1> QED
  BY <1>3, <1>4

(* The elements of a ring form a sequence as long as its size.              *)
LEMMA SliceType ==
  ASSUME NEW c \in Nat \ {0}, NEW b \in [0..(c - 1) -> Entries \cup {Nil}],
         NEW h \in 0..(c - 1), NEW n \in 0..c
  PROVE  /\ Slice(Ring(b, h, n, c)) \in Seq(Entries \cup {Nil})
         /\ Len(Slice(Ring(b, h, n, c))) = n
<1>1. \A i \in 1..n : (h + (i - 1)) % c \in 0..(c - 1)
  OBVIOUS
<1>2. Slice(Ring(b, h, n, c)) = [i \in 1..n |-> b[(h + (i - 1)) % c]]
  BY DEF Slice, Ring
<1>3. [i \in 1..n |-> b[(h + (i - 1)) % c]] \in [1..n -> Entries \cup {Nil}]
  BY <1>1
<1> QED
  BY <1>2, <1>3

(* What Push does, seen through Slice: the element is appended and, if the  *)
(* ring was full, the oldest one disappears.                                *)
LEMMA PushSlice ==
  ASSUME NEW c \in Nat \ {0}, NEW r \in Rings(Entries, c), NEW e \in Entries
  PROVE  Slice(Push(r, e)) = Log!LastN(Append(Slice(r), e), c)
<1>1. PICK b \in [0..(c - 1) -> Entries \cup {Nil}], h \in 0..(c - 1),
           n \in 0..c : r = Ring(b, h, n, c)
  BY RingFields
<1>2. PICK s : s = Slice(r)
  OBVIOUS
<1>0. s \in Seq(Entries \cup {Nil}) /\ Len(s) = n
  BY <1>1, <1>2, SliceType
<1>3. /\ s \in Seq(Entries \cup {Nil}) /\ Len(s) = n
      /\ s = [i \in 1..n |-> b[(h + (i - 1)) % c]]
  BY <1>0, <1>1, <1>2 DEF Slice, Ring
<1>4. Append(s, e) \in Seq(Entries \cup {Nil}) /\ Len(Append(s, e)) = n + 1
  BY <1>3
<1>5. CASE n = c
  <2>1. PICK g \in 0..(c - 1) : g = (h + 1) % c
    BY ModAdd
  <2>2. PICK d : d = [b EXCEPT ![h] = e]
    OBVIOUS
  <2>3. Push(r, e) = Ring(d, g, c, c)
    BY <1>1, <1>5, <2>1, <2>2 DEF Push, With, Ring
  <2>4. d \in [0..(c - 1) -> Entries \cup {Nil}]
    BY <2>2
  <2>5. Slice(Push(r, e)) = [i \in 1..c |-> d[(g + (i - 1)) % c]]
    BY <2>3 DEF Slice, Ring
  <2>6. ASSUME NEW i \in 1..c
        PROVE  d[(g + (i - 1)) % c] = Append(s, e)[i + 1]
    <3>1. /\ (g + (i - 1)) % c = (h + i) % c
          /\ i < c => (h + i) % c # h
          /\ i = c => (h + i) % c = h
          /\ (h + i) % c \in 0..(c - 1)
      BY <2>1, SMTT(60)
    <3>2. CASE i = c
      BY <1>3, <1>5, <2>2, <3>1, <3>2
    <3>3. CASE i < c
      <4>1. d[(h + i) % c] = b[(h + i) % c]
        BY <2>2, <3>1, <3>3
      <4>2. s[i + 1] = b[(h + i) % c]
        BY <1>3, <1>5, <3>3
      <4> QED
        BY <1>3, <1>5, <3>1, <3>3, <4>1, <4>2
    <3>4. i = c \/ i < c
      OBVIOUS
    <3> QED
      BY <3>2, <3>3, <3>4, Zenon
  <2>7. Log!LastN(Append(s, e), c) = SubSeq(Append(s, e), 2, c + 1)
    BY <1>4, <1>5 DEF Log!LastN
  <2>8. SubSeq(Append(s, e), 2, c + 1) = [i \in 1..c |-> Append(s, e)[i + 1]]
    BY <1>4, <1>5
  <2>9. Slice(Push(r, e)) = [i \in 1..c |-> Append(s, e)[i + 1]]
    BY <2>5, <2>6
  <2> QED
    BY <1>2, <2>7, <2>8, <2>9
<1>6. CASE n < c
  <2>1. PICK j \in 0..(c - 1) : j = (h + n) % c
    BY ModAdd
  <2>2. PICK d : d = [b EXCEPT ![j] = e]
    OBVIOUS
  <2>3. Push(r, e) = Ring(d, h, n + 1, c)
    BY <1>1, <1>6, <2>1, <2>2 DEF Push, With, Ring
  <2>4. d \in [0..(c - 1) -> Entries \cup {Nil}]
    BY <2>2
  <2>5. Slice(Push(r, e)) = [i \in 1..(n + 1) |-> d[(h + (i - 1)) % c]]
    BY <2>3 DEF Slice, Ring
  <2>6. ASSUME NEW i \in 1..(n + 1)
        PROVE  d[(h + (i - 1)) % c] = Append(s, e)[i]
    <3>1. CASE i = n + 1
      BY <1>3, <2>1, <2>2, <3>1
    <3>2. CASE i <= n
      <4>1. (h + (i - 1)) % c # j /\ (h + (i - 1)) % c \in 0..(c - 1)
        BY <1>6, <2>1, <3>2, SMTT(60)
      <4> QED
        BY <1>3, <2>2, <3>2, <4>1
    <3>3. i = n + 1 \/ i <= n
      OBVIOUS
    <3> QED
      BY <3>1, <3>2, <3>3, Zenon
  <2>7. Log!LastN(Append(s, e), c) = Append(s, e)
    BY <1>4, <1>6 DEF Log!LastN
  <2>8. Append(s, e) = [i \in 1..(n + 1) |-> Append(s, e)[i]]
    BY <1>4
  <2>9. Slice(Push(r, e)) = Append(s, e)
    BY <2>5, <2>6, <2>8
  <2> QED
    BY <1>2, <2>7, <2>9
<1> QED
  BY <1>5, <1>6

(* The stored rings always have the shape that New gives and Push keeps.    *)
RingsOK == buffers \in [Keys -> Rings(Entries, Limit) \cup {Absent}]

(* buf yields a well-formed ring, also for a key that had none.              *)
LEMMA BufType ==
  ASSUME RingsOK, NEW k \in Keys
  PROVE  Buf(k) \in Rings(Entries, Limit) /\ Slice(Buf(k)) = Stored(k)
<1>1. CASE buffers[k] = Absent
  BY <1>1, NewRingEmpty DEF Buf, Stored
<1>2. CASE buffers[k] # Absent
  BY <1>2 DEF Buf, Stored, RingsOK
<1> QED
  BY <1>1, <1>2

(* A step of the store that writes ring x under key k changes what is       *)
(* stored under k to the contents of x, and nothing else.                   *)
LEMMA StoredStep ==
  ASSUME RingsOK, NEW k \in Keys, NEW x, x # Absent,
         buffers' = [buffers EXCEPT ![k] = x]
  PROVE  StoredLog' = [StoredLog EXCEPT ![k] = Slice(x)]
<1>1. \A j \in Keys : Stored(j)' = IF j = k THEN Slice(x) ELSE Stored(j)
  BY DEF RingsOK, Stored
<1> QED
  BY <1>1 DEF StoredLog

(* Type correctness: rings keep their capacity and their indices in range,  *)
(* whatever is appended and queried.                                        *)
THEOREM TypeCorrect == Spec => []TypeOK
<1>1. Init => TypeOK
  BY DEF Init, TypeOK
<1>2. TypeOK /\ [Next]_vars => TypeOK'
  <2> SUFFICES ASSUME TypeOK, [Next]_vars PROVE TypeOK'
    OBVIOUS
  <2>0. RingsOK
    BY DEF TypeOK, RingsOK
  <2>1. ASSUME NEW k \in Keys, NEW e \in Entries, AppendEntry(k, e)
        PROVE  TypeOK'
    <3>1. Push(Buf(k), e) \in Rings(Entries, Limit)
      BY <2>0, BufType, LimitPositive, PushType
    <3>2. /\ buffers' = [buffers EXCEPT ![k] = Push(Buf(k), e)]
          /\ past' = [past EXCEPT ![k] = Append(past[k], e)]
      BY <2>1 DEF AppendEntry
    <3>3. past' \in [Keys -> Seq(Entries)]
      BY <3>2 DEF TypeOK
    <3> QED
      BY <3>1, <3>2, <3>3 DEF TypeOK
  <2>2. ASSUME NEW k \in Keys, Query(k)
        PROVE  TypeOK'
    BY <2>0, <2>2, BufType DEF Query, TypeOK
  <2>3. CASE UNCHANGED vars
    BY <2>3 DEF vars, TypeOK
  <2> QED
    BY <2>1, <2>2, <2>3 DEF Next
<1> QED
  BY <1>1, <1>2, PTL DEF Spec

(* The store implements the bounded log: each Append is one append of the   *)
(* log, each Query leaves the log alone.                                    *)
THEOREM StoreIsBoundedLog == Spec => IsBoundedLog
<1>1. Init => Log!Init
  BY DEF Init, Log!Init, StoredLog, Stored
<1>2. TypeOK /\ [Next]_vars => [Log!Next]_StoredLog
  <2> SUFFICES ASSUME TypeOK, [Next]_vars PROVE [Log!Next]_StoredLog
    OBVIOUS
  <2>0. RingsOK
    BY DEF TypeOK, RingsOK
  <2>1. ASSUME NEW k \in Keys, NEW e \in Entries, AppendEntry(k, e)
        PROVE  Log!Next
    <3>1. Buf(k) \in Rings(Entries, Limit) /\ Slice(Buf(k)) = StoredLog[k]
      BY <2>0, BufType DEF StoredLog
    <3>2. Push(Buf(k), e) # Absent
      BY <3>1, LimitPositive, PushType, AbsentAssumption
    <3>3. StoredLog' = [StoredLog EXCEPT ![k] = Slice(Push(Buf(k), e))]
      BY <2>0, <2>1, <3>2, StoredStep DEF AppendEntry
    <3>4. Slice(Push(Buf(k), e)) = Log!LastN(Append(StoredLog[k], e), Limit)
      BY <3>1, LimitPositive, PushSlice
    <3>5. Log!Append1(k, e)
      BY <3>3, <3>4 DEF Log!Append1
    <3> QED
      BY <3>5 DEF Log!Next
  <2>2. ASSUME NEW k \in Keys, Query(k)
        PROVE  UNCHANGED StoredLog
    <3>1. Buf(k) \in Rings(Entries, Limit) /\ Slice(Buf(k)) = StoredLog[k]
      BY <2>0, BufType DEF StoredLog
    <3>2. StoredLog' = [StoredLog EXCEPT ![k] = Slice(Buf(k))]
      BY <2>0, <2>2, <3>1, StoredStep, AbsentAssumption DEF Query
    <3> QED
      BY <3>1, <3>2 DEF StoredLog
  <2>3. CASE UNCHANGED vars
    BY <2>3 DEF vars, StoredLog, Stored
  <2> QED
    BY <2>1, <2>2, <2>3 DEF Next
<1> QED
  BY <1>1, <1>2, TypeCorrect, PTL DEF Spec, IsBoundedLog, Log!Spec
=============================================================================
