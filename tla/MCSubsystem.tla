---------------------------- MODULE MCSubsystem ----------------------------
(* Two clients, one with a second request; replies of two units.           *)
EXTENDS Subsystem

CONSTANTS c1, c2
MCClients == {c1, c2}
MCRequests == (c1 :> 2) @@ (c2 :> 1)
=============================================================================
