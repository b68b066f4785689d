--------------------------- MODULE AbstractLocks ---------------------------
(***************************************************************************)
(* What the locks of netconfd promise to a client: a datastore has at most *)
(* one holder, <running> is held as a whole or in parts but never both, a  *)
(* part is granted only if no other session has locked that part or one    *)
(* below it, only its session gives a lock back, and a session that ends   *)
(* gives back all of its locks at once. A write of <running> may end the   *)
(* hold on a part: ConfigLocks says when. No states, queues, slots or ids. *)
(***************************************************************************)
EXTENDS Naturals

CONSTANTS Sessions, NoSession, Nodes, Subtree, Datastores

VARIABLES
    sessions,  \* sessions that exist
    holder,    \* session that holds the lock of each datastore
    shares     \* <<s, n>>: session s has locked node n of <running>

vars == <<sessions, holder, shares>>

Init ==
    /\ sessions = {}
    /\ holder = [d \in Datastores |-> NoSession]
    /\ shares = {}

Begin(s) ==
    /\ s \notin sessions
    /\ sessions' = sessions \cup {s}
    /\ UNCHANGED <<holder, shares>>

End(s) ==
    /\ s \in sessions
    /\ sessions' = sessions \ {s}
    /\ holder' = [d \in Datastores |-> IF holder[d] = s THEN NoSession ELSE holder[d]]
    /\ shares' = {x \in shares : x[1] # s}

GrantGlobal(s, d) ==
    /\ s \in sessions
    /\ holder[d] = NoSession
    /\ d = "running" => shares = {}
    /\ holder' = [holder EXCEPT ![d] = s]
    /\ UNCHANGED <<sessions, shares>>

ReleaseGlobal(s, d) ==
    /\ s \in sessions
    /\ holder[d] = s
    /\ holder' = [holder EXCEPT ![d] = NoSession]
    /\ UNCHANGED <<sessions, shares>>

GrantPartial(s, nodes) ==
    /\ s \in sessions
    /\ holder["running"] = NoSession
    /\ \A n \in nodes : \A m \in Subtree[n] : \A t \in sessions \ {s} : <<t, m>> \notin shares
    /\ shares' = shares \cup ({s} \X nodes)
    /\ UNCHANGED <<sessions, holder>>

ReleasePartial(s, nodes) ==
    /\ s \in sessions
    /\ shares' = shares \ ({s} \X nodes)
    /\ UNCHANGED <<sessions, holder>>

\* Parts of <running> are replaced or deleted while they are locked.
Overwrite ==
    /\ shares' \subseteq shares
    /\ holder["running"] = NoSession
    /\ UNCHANGED <<sessions, holder>>

Next ==
    \/ Overwrite
    \/ \E s \in Sessions :
        \/ Begin(s)
        \/ End(s)
        \/ \E d \in Datastores : GrantGlobal(s, d) \/ ReleaseGlobal(s, d)
        \/ \E nodes \in SUBSET Nodes : GrantPartial(s, nodes) \/ ReleasePartial(s, nodes)

Spec == Init /\ [][Next]_vars
=============================================================================
