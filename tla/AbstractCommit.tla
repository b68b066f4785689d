--------------------------- MODULE AbstractCommit ---------------------------
(***************************************************************************)
(* What commits promise: <running> holds a committed configuration, and    *)
(* while a confirmed commit is pending the last confirmed configuration is *)
(* remembered and is what a cancel, a timeout, the end of the session or a *)
(* crash of the server goes back to. Who listens to the notifications      *)
(* knows which of these happened.                                          *)
(***************************************************************************)
CONSTANT Configs

VARIABLES
    active,     \* the configuration in force
    confirmed,  \* the last configuration that was committed for good
    pending,    \* a confirmed commit waits for its confirmation
    event       \* the last notification about a confirmed commit

vars == <<active, confirmed, pending, event>>

Init ==
    /\ active \in Configs
    /\ confirmed = active
    /\ pending = FALSE
    /\ event = "none"

\* A plain commit, or the one that confirms a pending commit.
Commit(c) ==
    /\ active' = c
    /\ confirmed' = c
    /\ pending' = FALSE
    /\ event' = IF pending THEN "complete" ELSE event

\* A confirmed commit starts or is extended.
CommitForNow(c) ==
    /\ active' = c
    /\ pending' = TRUE
    /\ event' = IF pending THEN "extend" ELSE "start"
    /\ UNCHANGED confirmed

GoBack ==
    /\ pending
    /\ active' = confirmed
    /\ pending' = FALSE
    /\ event' = "cancel"
    /\ UNCHANGED confirmed

\* After a crash nothing that has to be confirmed is in force.
Crash ==
    /\ active' = confirmed
    /\ pending' = FALSE
    /\ event' = "none"
    /\ UNCHANGED confirmed

Next ==
    \/ GoBack
    \/ Crash
    \/ \E c \in Configs : Commit(c) \/ CommitForNow(c)

Spec == Init /\ [][Next]_vars
=============================================================================
