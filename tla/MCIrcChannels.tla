----------------------------- MODULE MCIrcChannels -----------------------------
(* Small instances of IrcChannels for TLC.                                  *)
EXTENDS IrcChannels, TLC

CONSTANTS s1, s2, s3, chan

Symmetry == Permutations(Sessions \ Opers)
===============================================================================
