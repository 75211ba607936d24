------------------------------ MODULE MCBouncer ------------------------------
(* A small network for TLC: the bouncer and one other person, two channels, *)
(* a client that is replayed the history and one that asks for it itself.   *)
EXTENDS Bouncer

CONSTANTS d1, d2, c1, c2, p1, m, a, b

CapLine(sub, add, del) == [cmd |-> "CAP", sub |-> sub, add |-> add, del |-> del]
Line(cmd) == [cmd |-> cmd]
Pass(t) == [cmd |-> "PASS", pass |-> t]

MCUsers == {[name |-> "u", password |-> "pw"]}
MCFirst == me :> m @@ p1 :> a

MCPresent == {[c \in Chans |-> IF c = c1 THEN s ELSE {}] : s \in {{}, {p1}}}

MCScripts ==
  d1 :> {<<Pass(<<"u", "/", "net", ":", "pw">>), CapLine("REQ", {"sasl"}, {}), Line("NICK"),
           Line("USER"), CapLine("END", {}, {}), CapLine("REQ", {"away-notify"}, {})>>}
  @@ d2 :> {<<Pass(<<"u", ":", "pw">>), CapLine("LS", {}, {}), CapLine("REQ", {"chathistory"}, {}),
              Line("NICK"), Line("USER"), CapLine("END", {}, {})>>,
            <<Pass(<<"u", "/", "other", ":", "pw">>), Line("NICK"), Line("USER")>>}
==============================================================================
