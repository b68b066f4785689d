--------------------------- MODULE SessionService ---------------------------
(***************************************************************************)
(* What a server promises the clients that connect to it: it serves the    *)
(* requests of a client in the order they were sent and never twice, and   *)
(* operations only after the client has introduced itself. A client may be *)
(* cut off at any time, and its remaining requests are forgotten.          *)
(***************************************************************************)
EXTENDS Sequences

CONSTANTS Clients, Messages

VARIABLES
    up,       \* clients that are connected
    known,    \* those of them that have introduced themselves
    requests  \* what each client has sent and the server has not served

vars == <<up, known, requests>>

Init ==
    /\ up = {}
    /\ known = {}
    /\ requests = [c \in Clients |-> <<>>]

Connect(c) ==
    /\ c \notin up
    /\ up' = up \cup {c}
    /\ UNCHANGED <<known, requests>>

Ask(c, m) ==
    /\ c \in up
    /\ requests' = [requests EXCEPT ![c] = Append(@, m)]
    /\ UNCHANGED <<up, known>>

CutOff(K) ==
    /\ K \subseteq up
    /\ up' = up \ K
    /\ known' = known \ K
    /\ requests' = [c \in Clients |-> IF c \in K THEN <<>> ELSE requests[c]]

\* The first request of c is served; a kill-session cuts others off.
Serve(c, K) ==
    /\ requests[c] # <<>>
    /\ K \subseteq up \ {c}
    /\ K # {} => Head(requests[c]) = "kill"
    /\ CASE Head(requests[c]) = "connect" -> c \notin known /\ UNCHANGED known
         [] Head(requests[c]) = "hello" -> c \notin known /\ known' = known \cup {c}
         [] OTHER -> c \in known /\ known' = known \ K
    /\ up' = up \ K
    /\ requests' = [d \in Clients |-> IF d \in K THEN <<>>
                                      ELSE IF d = c THEN Tail(requests[c]) ELSE requests[d]]

Next ==
    \/ \E c \in Clients : Connect(c) \/ \E m \in Messages : Ask(c, m)
    \/ \E K \in SUBSET Clients :
        \/ CutOff(K)
        \/ \E c \in Clients : Serve(c, K)

Spec == Init /\ [][Next]_vars
=============================================================================
