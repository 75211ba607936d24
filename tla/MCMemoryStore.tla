----------------------------- MODULE MCMemoryStore -----------------------------
(* Small instances of MemoryStore, with the pages cut from it, for TLC.      *)
EXTENDS ChatHistory

CONSTANTS k1, k2, id
===============================================================================
