----------------------------- MODULE MCIrcRegistry -----------------------------
(* Small instances of IrcRegistry for TLC.                                  *)
EXTENDS IrcRegistry, TLC

CONSTANTS s1, s2, s3, a, b

Symmetry ==
  Permutations(Sessions \ Watchers) \cup Permutations(Watchers)
    \cup Permutations(Nicks)
===============================================================================
