----------------------------- MODULE MCIrcLogin ------------------------------
(* Two clients with the same nick for TLC.  The first has SASL, with       *)
(* encodings that end with a chunk, on a chunk, at the limit and past it,   *)
(* right and wrong credentials, and a mechanism the server lacks; the       *)
(* second asks for sts, which the server names and never grants.            *)
EXTENDS IrcLogin, TLC

CONSTANTS c1, c2

Config(sasl, good, full, rest) ==
  [want |-> {"batch"}, sasl |-> sasl, pass |-> FALSE, good |-> good, full |-> full,
   rest |-> rest, secure |-> TRUE, sts |-> TRUE]

First ==
  {Config("PLAIN", TRUE, 0, "short"), Config("PLAIN", TRUE, 1, "+"),
   Config("PLAIN", FALSE, 1, "short"), Config("PLAIN", TRUE, 1, "long"),
   Config("PLAIN", TRUE, 2, "short"), Config("SCRAM-SHA-256", TRUE, 0, "short")}

Second ==
  {[Config("none", TRUE, 0, "+") EXCEPT !.want = {"batch", "sts"}, !.secure = FALSE, !.pass = TRUE],
   [Config("none", TRUE, 0, "+") EXCEPT !.want = {}, !.sts = FALSE, !.secure = FALSE]}

MCConfigs == c1 :> First @@ c2 :> Second
=============================================================================
