------------------------------- MODULE RingBuf -------------------------------
(* The fixed-capacity circular buffer of irc/internal/ringbuf/ringbuf.go.   *)
(* A ring is a record of the fields of the Go type; each operation runs     *)
(* under the ring's mutex and is one operator.                              *)
EXTENDS Integers, Sequences

CONSTANT Nil    \* the zero value of the element type

(* New: a capacity that is not positive becomes 1.                          *)
Capacity(n) == IF n <= 0 THEN 1 ELSE n

NewRing(n) ==
  [buf |-> [i \in 0..(Capacity(n) - 1) |-> Nil], head |-> 0, size |-> 0,
   cap |-> Capacity(n)]

With(r, buf, head, size) ==
  [buf |-> buf, head |-> head, size |-> size, cap |-> r.cap]

(* Fault: the oldest element is overwritten but stays the oldest.           *)
PushKeepsHead(r, v) ==
  IF r.size = r.cap
    THEN With(r, [r.buf EXCEPT ![r.head] = v], r.head, r.size)
    ELSE With(r, [r.buf EXCEPT ![(r.head + r.size) % r.cap] = v], r.head, r.size + 1)

(* Fault: the index of the oldest element is not wrapped.                   *)
PushNoWrap(r, v) ==
  IF r.size = r.cap
    THEN With(r, [r.buf EXCEPT ![r.head % r.cap] = v], r.head + 1, r.size)
    ELSE With(r, [r.buf EXCEPT ![(r.head + r.size) % r.cap] = v], r.head, r.size + 1)

(* Push: append, overwriting the oldest element of a full ring.             *)
Push(r, v) ==
  IF r.size = r.cap
    THEN With(r, [r.buf EXCEPT ![r.head] = v], (r.head + 1) % r.cap, r.size)
    ELSE With(r, [r.buf EXCEPT ![(r.head + r.size) % r.cap] = v], r.head, r.size + 1)

(* Slice: the elements from oldest to newest.                               *)
Slice(r) == [i \in 1..r.size |-> r.buf[(r.head + (i - 1)) % r.cap]]

Rings(Elem, c) ==
  [buf : [0..(c - 1) -> Elem \cup {Nil}], head : 0..(c - 1), size : 0..c,
   cap : {c}]
=============================================================================
