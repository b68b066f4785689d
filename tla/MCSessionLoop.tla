--------------------------- MODULE MCSessionLoop ---------------------------
(* Instances of SessionLoop for TLC. *)
EXTENDS SessionLoop
=============================================================================
