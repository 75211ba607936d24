------------------------------ MODULE BoundedLog ------------------------------
(* What a message history promises, whatever it is stored in: for every key  *)
(* the last Limit entries appended under it, in the order of the appends.    *)
EXTENDS Integers, Sequences

CONSTANTS Keys, Entries, Limit

VARIABLE log

(* The last n elements of a sequence.                                        *)
LastN(s, n) == IF Len(s) > n THEN SubSeq(s, Len(s) - n + 1, Len(s)) ELSE s

Init == log = [k \in Keys |-> <<>>]

Append1(k, e) == log' = [log EXCEPT ![k] = LastN(Append(log[k], e), Limit)]

Next == \E k \in Keys, e \in Entries : Append1(k, e)

Spec == Init /\ [][Next]_log
===============================================================================
