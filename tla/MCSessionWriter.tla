---------------------------- MODULE MCSessionWriter ----------------------------
(* Small instances of SessionWriter for TLC.                                *)
EXTENDS SessionWriter, TLC

CONSTANTS r, g1
===============================================================================
