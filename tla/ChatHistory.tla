----------------------------- MODULE ChatHistory -----------------------------
(***************************************************************************)
(* The pages CHATHISTORY serves (irc/irc/chathistory.go), over the store   *)
(* the bouncer keeps (handleChatHistory in irc/bouncer/bouncer.go): all    *)
(* entries of the target are queried and the page is cut from them.        *)
(*                                                                         *)
(* A page is the sequence of the positions of its entries.  A reference is *)
(* [by, v]: a msgid, a timestamp, "*" or something unsupported.            *)
(***************************************************************************)
EXTENDS MemoryStore

CONSTANTS
  PageLimits,   \* bound: the limits asked for
  PageLimit     \* chatHistoryLimit

ASSUME PageAssumption == PageLimits \subseteq Int /\ PageLimit \in Nat \ {0}

References ==
  {[by |-> "timestamp", v |-> t] : t \in Times}
    \cup {[by |-> "msgid", v |-> i] : i \in Ids}
    \cup {[by |-> b, v |-> NoId] : b \in {"*", "other"}}

Subcommands == {"LATEST", "BEFORE", "AFTER", "AROUND", "BETWEEN", "other"}

(* The number of selectors is checked by the handlers.                      *)
Requests ==
  [sub : Subcommands \ {"BETWEEN"}, refs : {<<r>> : r \in References}, limit : PageLimits]
    \cup [sub : {"BETWEEN"}, refs : {<<r, q>> : r, q \in References}, limit : PageLimits]

Refused == [err |-> TRUE, page |-> <<>>, complete |-> FALSE]
Page(s, complete) == [err |-> FALSE, page |-> s, complete |-> complete]

(* Fault: a page that is exactly full is taken for one of several.         *)
latestStrict(s, n) == Page(Log!LastN(s, n), Len(s) < n)

latest(s, n) == Page(Log!LastN(s, n), Len(s) <= n)
earliest(s, n) == Page(IF Len(s) > n THEN SubSeq(s, 1, n) ELSE s, Len(s) <= n)

(* index 0: a reference by time.                                           *)
parseMessageReference(entries, ref) ==
  LET hits == {i \in DOMAIN entries : entries[i].id = ref.v}
  IN  CASE ref.by = "timestamp" -> [found |-> TRUE, time |-> ref.v, index |-> 0]
        [] hits = {} -> [found |-> FALSE, time |-> NoTime, index |-> 0]
        [] OTHER -> [found |-> TRUE, time |-> entries[Min(hits)].time, index |-> Min(hits)]

beforeReference(entries, i, ref) ==
  IF ref.index # 0 THEN i < ref.index ELSE entries[i].time < ref.time
afterReference(entries, i, ref) ==
  IF ref.index # 0 THEN i > ref.index ELSE entries[i].time > ref.time

filterHistory(entries, keep) ==
  SelectSeq([i \in DOMAIN entries |-> i], LAMBDA i : i \in keep)

(* Half of the limit before the reference and the rest after it, the room  *)
(* one side leaves given to the other.                                     *)
around(before, after, limit) ==
  LET left0 == Min({Len(before), limit \div 2})
      right == Min({Len(after), limit - left0})
      left  == Min({Len(before), limit - right})
  IN  Page(Log!LastN(before, left) \o SubSeq(after, 1, right),
           Len(before) + Len(after) <= limit)

between(entries, first, second, limit) ==
  LET forward == \/ first.time < second.time
                 \/ /\ first.time = second.time
                    /\ first.index # 0 /\ second.index # 0
                    /\ first.index < second.index
      inside(a, b) == filterHistory(entries, {i \in DOMAIN entries :
                        afterReference(entries, i, a) /\ beforeReference(entries, i, b)})
  IN  IF forward THEN earliest(inside(first, second), limit)
      ELSE latest(inside(second, first), limit)

(* The early returns before the switch are the first cases.                *)
SelectChatHistory(entries, q) ==
  LET ref(k)     == parseMessageReference(entries, q.refs[k])
      usable(k)  == q.refs[k].by \in {"timestamp", "msgid"}
      before     == filterHistory(entries, {i \in DOMAIN entries :
                      beforeReference(entries, i, ref(1))})
      after      == filterHistory(entries, {i \in DOMAIN entries :
                      afterReference(entries, i, ref(1))})
  IN  CASE q.limit <= 0 -> Refused
        [] q.sub = "LATEST" /\ q.refs[1].by = "*" ->
             latest(filterHistory(entries, DOMAIN entries), q.limit)
        [] ~usable(1) -> Refused
        [] ~ref(1).found -> Page(<<>>, TRUE)
        [] q.sub = "LATEST" -> latest(after, q.limit)
        [] q.sub = "AFTER" -> earliest(after, q.limit)
        [] q.sub = "BEFORE" -> latest(before, q.limit)
        [] q.sub = "AROUND" -> around(before, after, q.limit)
        [] q.sub = "BETWEEN" ->
             CASE ~usable(2) -> Refused
               [] ~ref(2).found -> Page(<<>>, TRUE)
               [] OTHER -> between(entries, ref(1), ref(2), q.limit)
        [] OTHER -> Refused

(* The limit is capped; the target must be a channel or query of the       *)
(* network.  All entries of the target are fetched.                        *)
handleChatHistory(k, known, q) ==
  LET limit == IF q.limit > PageLimit THEN PageLimit ELSE q.limit
      every == [before |-> NoTime, after |-> NoTime, afterId |-> NoId, limit |-> Limit]
  IN  IF q.limit <= 0 \/ ~known THEN Refused
      ELSE SelectChatHistory(Answer(k, every), [q EXCEPT !.limit = limit])
-----------------------------------------------------------------------------
(* What a request is about, said as a set of positions: the entries        *)
(* strictly on the wanted side of the reference, or strictly between the   *)
(* two in whichever order they are given.                                  *)
About(entries, q) ==
  LET side(i, r) == IF r.by = "msgid"
                      THEN i - Min({j \in DOMAIN entries : entries[j].id = r.v})
                      ELSE entries[i].time - r.v
      on(i, r, before) == IF before THEN side(i, r) < 0 ELSE side(i, r) > 0
  IN  {i \in DOMAIN entries :
         CASE q.refs[1].by = "*" -> TRUE
           [] q.sub \in {"LATEST", "AFTER"} -> on(i, q.refs[1], FALSE)
           [] q.sub = "BEFORE" -> on(i, q.refs[1], TRUE)
           [] q.sub = "AROUND" -> side(i, q.refs[1]) # 0
           [] OTHER -> \E b \in BOOLEAN : on(i, q.refs[1], b) /\ on(i, q.refs[2], ~b)}

Serviceable(q) ==
  /\ q.limit > 0 /\ q.sub # "other"
  /\ \A k \in DOMAIN q.refs :
       \/ q.refs[k].by \in {"timestamp", "msgid"}
       \/ q.refs[k].by = "*" /\ q.sub = "LATEST"

Known(entries, q) ==
  \A k \in DOMAIN q.refs :
    q.refs[k].by = "msgid" => \E i \in DOMAIN entries : entries[i].id = q.refs[k].v

InTimeOrder(entries) ==
  \A i, j \in DOMAIN entries : i < j => entries[i].time <= entries[j].time

(* A page of CHATHISTORY is what was asked for, whatever has been stored   *)
(* and overwritten: entries the request is about, in order, as many as fit,*)
(* "complete" exactly when nothing was left out, and what is left out is   *)
(* farther from the reference than what is kept, so that a client asking   *)
(* again from the end of the page skips nothing.  A msgid that is no       *)
(* longer stored gives an empty page marked complete.  BETWEEN decides the *)
(* direction by time, so it is right when the entries are in time order.   *)
PagesAreRight ==
  \A k \in Keys, q \in Requests :
    LET entries == Stored(k)
        answer  == handleChatHistory(k, TRUE, q)
        about   == About(entries, q)
        kept    == ToSet(answer.page)
        limit   == Min({q.limit, PageLimit})
    IN  IF ~Serviceable(q) THEN answer.page = <<>>
        ELSE IF ~Known(entries, q) THEN answer = Page(<<>>, TRUE)
        ELSE (q.sub = "BETWEEN" => InTimeOrder(entries)) =>
          /\ kept \subseteq about
          /\ \A i, j \in DOMAIN answer.page : i < j => answer.page[i] < answer.page[j]
          /\ Len(answer.page) = Min({Cardinality(about), limit})
          /\ answer.complete <=> kept = about
          /\ q.sub = "AFTER" => \A i \in kept, j \in about \ kept : i < j
          /\ q.sub \in {"LATEST", "BEFORE"} => \A i \in kept, j \in about \ kept : j < i
          /\ q.sub \in {"AROUND", "BETWEEN"} =>
               ~\E i, j \in kept, l \in about \ kept : i < l /\ l < j
=============================================================================
