-------------------------------- MODULE MCSftp --------------------------------
(* Two goroutines: one file or directory each, one context cancelled.        *)
EXTENDS Sftp, TLC

CONSTANTS g1, g2

MCCalls == g1 :> {"OPEN", "READ", "WRITE", "MKDIR", "CLOSE", "ReadDir"} @@ g2 :> {"STAT"}
===============================================================================
