---------------------------- MODULE MCNotifications ----------------------------
(* Instances of Notifications for TLC. *)
EXTENDS Notifications, TLC

Symmetry == Permutations(Sessions)
=============================================================================
