------------------------------- MODULE MCXdccBot -------------------------------
(* Small instances of XdccBot for TLC.                                     *)
EXTENDS XdccBot

CONSTANT p1
===============================================================================
