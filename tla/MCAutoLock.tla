----------------------------- MODULE MCAutoLock -----------------------------
(* <running> and <candidate>; a reply may be late when the user starts the  *)
(* next command.                                                            *)
EXTENDS AutoLock
=============================================================================
