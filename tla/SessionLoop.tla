----------------------------- MODULE SessionLoop -----------------------------
(***************************************************************************)
(* The sessions of netconfd and the loop that serves them                  *)
(* (agt_ncxserver_run): select, one read of every readable socket, then    *)
(* the ready queue is drained, one message at a time, and a session with   *)
(* more messages goes to the end of it. Clients send, hang up and fall     *)
(* silent at any moment in between.                                        *)
(*                                                                         *)
(* Phase "undefined" is entered where the code goes on with a session      *)
(* control block it has freed; nothing is known of the server after that.  *)
(* Replies are written at once (agt_stream_output), so there is no output  *)
(* queue.                                                                  *)
(***************************************************************************)
EXTENDS Integers, Sequences, FiniteSets, Functions

CONSTANTS
    MaxSessions,  \* agt_max_sessions, the size of the session table
    Messages,     \* the messages clients send, some of AllMessages
    MaxQueued     \* bound on the messages that wait, of all sessions together

\* "junk" has a first node without a handler, "badframe" is not a frame.
AllMessages ==
    {"connect", "badconnect", "hello", "badhello", "rpc", "close", "kill", "junk", "badframe"}

ASSUME BoundsAssumption ==
    /\ MaxSessions \in Nat /\ MaxSessions > 1
    /\ Messages \subseteq AllMessages
    /\ MaxQueued \in Nat \ {0}

VARIABLES
    ses,             \* the session table (agtses), with what the client has sent
    inreadyQ,        \* sessions with a complete message
    phase,           \* where the loop is
    toService,       \* read_fd_set; 0 stands for the listening socket
    next_sesid,      \* next slot that was never used, 0 when there is none
    active_sessions  \* agttotals->active_sessions

vars == <<ses, inreadyQ, phase, toService, next_sesid, active_sessions>>

Sids == 1 .. MaxSessions - 1

\* No session control block in the slot.
Free == [state |-> "NONE", inq |-> FALSE, msgQ |-> <<>>, wire |-> <<>>,
         closed |-> FALSE, late |-> FALSE, watched |-> TRUE]

live == {s \in Sids : ses[s].state # "NONE"}

Init ==
    /\ ses = [s \in Sids |-> Free]
    /\ inreadyQ = <<>>
    /\ phase = "select"
    /\ toService = {}
    /\ next_sesid = 1
    /\ active_sessions = 0

loopVars == <<inreadyQ, phase, toService, next_sesid, active_sessions>>
-----------------------------------------------------------------------------
(* The clients. *)

waiting == SumFunction([s \in Sids |-> Len(ses[s].msgQ) + Len(ses[s].wire)])

Send(s, m) ==
    /\ s \in live
    /\ ~ses[s].closed
    /\ waiting < MaxQueued
    /\ ses' = [ses EXCEPT ![s].wire = Append(@, m)]
    /\ UNCHANGED loopVars

HangUp(s) ==
    /\ s \in live
    /\ ses' = [ses EXCEPT ![s].closed = TRUE]
    /\ UNCHANGED loopVars

\* The hello timeout or the idle timeout of the session expires.
BeLate(s) ==
    /\ ses[s].state \in {"HELLO_WAIT", "IDLE"}
    /\ ses' = [ses EXCEPT ![s].late = TRUE]
    /\ UNCHANGED loopVars
-----------------------------------------------------------------------------
(* The end of sessions. *)

Undefined ==
    /\ phase' = "undefined"
    /\ UNCHANGED <<ses, inreadyQ, toService, next_sesid, active_sessions>>

\* The sessions of K leave the table; none of them is on the ready queue.
agt_ses_free_session(K) ==
    /\ ses' = [s \in Sids |-> IF s \in K THEN Free ELSE ses[s]]
    /\ active_sessions' = active_sessions - Cardinality(K)
    /\ UNCHANGED next_sesid

\* ses_msg_unmake_inready passes the session's own entry to dlq_deque, which
\* unlinks the entry after it: the queue keeps the freed one.
unmake_inready_breaks(f, K) == \E s \in K : f[s].inq
-----------------------------------------------------------------------------
(* select *)

readable == {s \in live : ses[s].watched /\ (ses[s].wire # <<>> \/ ses[s].closed)}

select(listener) ==
    /\ phase = "select"
    /\ readable \cup listener # {}
    /\ toService' = readable \cup listener
    /\ phase' = "service"
    /\ UNCHANGED <<ses, inreadyQ, next_sesid, active_sessions>>

\* Mutant: the last session of the table is not looked at.
scanned_OneShort == {s \in Sids : s < (IF next_sesid = 0 THEN MaxSessions ELSE next_sesid) - 1}

scanned == {s \in Sids : s < (IF next_sesid = 0 THEN MaxSessions ELSE next_sesid)}

\* The sessions with a timer: the hello timer runs in HELLO_WAIT only, the idle
\* timer when the session has become active, which it does with its <hello>.
\* Asked to shut down before that, a session has neither.
timed == {s \in live : ses[s].state \in {"HELLO_WAIT", "IDLE"}}

\* The timeouts are checked only when there is nothing to read.
agt_ses_check_timeouts ==
    LET dropped == {s \in scanned \cap timed : ses[s].late}
    IN  /\ phase = "select"
        /\ readable = {}
        /\ dropped # {}
        /\ agt_ses_free_session(dropped)
        /\ UNCHANGED <<inreadyQ, phase, toService>>
-----------------------------------------------------------------------------
(* One read of each readable socket. *)

\* Mutant: in reclaim mode the slot is not searched for, slot 1 is taken.
new_slot_First == IF next_sesid # 0 THEN next_sesid ELSE 1

new_slot ==
    LET unused == Sids \ live
    IN  CASE next_sesid # 0 -> next_sesid
          [] unused # {} /\ next_sesid = 0 ->
               CHOOSE s \in unused : \A t \in unused : s <= t
          [] OTHER -> 0

slot_after(n) == IF n = 0 THEN 0 ELSE (n + 1) % MaxSessions

\* rewatched: sockets above the highest one select looks at, that are below the
\* new one.
agt_ses_new_session(rewatched) ==
    /\ phase = "service"
    /\ 0 \in toService
    /\ toService' = toService \ {0}
    /\ UNCHANGED <<inreadyQ, phase>>
    /\ IF new_slot = 0
         THEN UNCHANGED <<ses, next_sesid, active_sessions>>
         ELSE /\ ses' = [s \in Sids |->
                          CASE s = new_slot -> [Free EXCEPT !.state = "INIT"]
                            [] s \in rewatched \ {new_slot} -> [ses[s] EXCEPT !.watched = TRUE]
                            [] OTHER -> ses[s]]
              /\ next_sesid' = slot_after(next_sesid)
              /\ active_sessions' = active_sessions + 1

\* The queue after ses_msg_make_inready.
make_inready(s) == IF ses[s].inq THEN inreadyQ ELSE Append(inreadyQ, s)

\* The read brings the n first messages that were sent.
after_read(s, n) ==
    [ses EXCEPT ![s].msgQ = @ \o SubSeq(ses[s].wire, 1, n),
                ![s].wire = SubSeq(@, n + 1, Len(@)),
                ![s].inq = n > 0 \/ @]

\* A read that brings complete messages.
ses_accept_input(s, n) ==
    /\ phase = "service"
    /\ s \in toService
    /\ ses[s].state # "SHUTDOWN_REQ"
    /\ n \in 1 .. Len(ses[s].wire)
    /\ \A i \in 1 .. n : ses[s].wire[i] # "badframe"
    /\ ses' = after_read(s, n)
    /\ inreadyQ' = make_inready(s)
    /\ toService' = toService \ {s}
    /\ UNCHANGED <<phase, next_sesid, active_sessions>>

\* A framing error after n messages: an error reply and agt_ses_request_close.
\* The socket may now lie above the highest one select looks at.
accept_bad_frame(s, n) ==
    /\ phase = "service"
    /\ s \in toService
    /\ ses[s].state # "SHUTDOWN_REQ"
    /\ n \in 0 .. Len(ses[s].wire) - 1
    /\ ses[s].wire[n + 1] = "badframe"
    /\ \A i \in 1 .. n : ses[s].wire[i] # "badframe"
    /\ IF ses[s].state = "HELLO_WAIT"
         THEN /\ \E w \in BOOLEAN :
                   ses' = [after_read(s, n) EXCEPT ![s].state = "SHUTDOWN_REQ",
                                                   ![s].watched = w]
              /\ inreadyQ' = IF n = 0 THEN inreadyQ ELSE make_inready(s)
              /\ toService' = toService \ {s}
              /\ UNCHANGED <<phase, next_sesid, active_sessions>>
         ELSE IF unmake_inready_breaks(after_read(s, n), {s})
         THEN Undefined
         ELSE /\ agt_ses_free_session({s})
              /\ toService' = toService \ {s}
              /\ UNCHANGED <<inreadyQ, phase>>

\* The client has closed the connection, or the session is shutting down and is
\* not read any more.
accept_end(s) ==
    /\ phase = "service"
    /\ s \in toService
    /\ ses[s].state = "SHUTDOWN_REQ" \/ ses[s].wire = <<>>
    /\ agt_ses_free_session({s})
    /\ toService' = toService \ {s}
    /\ UNCHANGED <<inreadyQ, phase>>

serviced ==
    /\ phase = "service"
    /\ toService = {}
    /\ phase' = "drain"
    /\ UNCHANGED <<ses, inreadyQ, toService, next_sesid, active_sessions>>
-----------------------------------------------------------------------------
(* The ready queue is drained (agt_ses_process_first_ready). *)

\* Mutant: what is left of the messages is forgotten.
goes_on_Forgets(f, s, state) ==
    /\ ses' = [f EXCEPT ![s].state = state, ![s].late = FALSE,
                        ![s].msgQ = Tail(@), ![s].inq = FALSE]
    /\ inreadyQ' = Tail(inreadyQ)

\* The session at the head of the queue goes on: the message is freed and the
\* session queued again if it has another.
goes_on(f, s, state) ==
    LET more == Len(f[s].msgQ) > 1
    IN  /\ ses' = [f EXCEPT ![s].state = state, ![s].late = FALSE,
                            ![s].msgQ = Tail(@), ![s].inq = more]
        /\ inreadyQ' = IF more THEN Append(Tail(inreadyQ), s) ELSE Tail(inreadyQ)

\* s, at the head of the queue, has a message m and may be served.
dispatched(s, m) ==
    /\ phase = "drain"
    /\ inreadyQ # <<>>
    /\ s = Head(inreadyQ)
    /\ ses[s].state # "SHUTDOWN_REQ"
    /\ ses[s].msgQ # <<>>
    /\ m = Head(ses[s].msgQ)

\* s ends in agt_top_dispatch_msg, which tells its caller so.
agt_top_ends(s) ==
    /\ agt_ses_free_session({s})
    /\ inreadyQ' = Tail(inreadyQ)
    /\ UNCHANGED <<phase, toService>>

\* agt_ses_request_close in a handler: in INIT and IDLE the session is freed at
\* once, and agt_top_dispatch_msg looks at its state afterwards.
dispatch_refused(s) ==
    IF ses[s].state = "HELLO_WAIT" THEN agt_top_ends(s) ELSE Undefined

agt_connect_dispatch(s, m) ==
    /\ m \in {"connect", "badconnect"}
    /\ dispatched(s, m)
    /\ CASE m = "connect" /\ ses[s].state = "INIT" ->
              /\ goes_on(ses, s, "HELLO_WAIT")
              /\ UNCHANGED <<phase, toService, next_sesid, active_sessions>>
         [] m = "badconnect" /\ ses[s].state = "INIT" -> agt_top_ends(s)
         [] OTHER -> dispatch_refused(s)

agt_hello_dispatch(s, m) ==
    /\ m \in {"hello", "badhello"}
    /\ dispatched(s, m)
    /\ IF m = "hello" /\ ses[s].state = "HELLO_WAIT"
         THEN /\ goes_on(ses, s, "IDLE")
              /\ UNCHANGED <<phase, toService, next_sesid, active_sessions>>
         ELSE dispatch_refused(s)

\* Mutant: an rpc is also served before the hello.
agt_rpc_dispatch_Early(s) ==
    /\ dispatched(s, "rpc")
    /\ IF ses[s].state # "INIT"
         THEN /\ goes_on(ses, s, ses[s].state)
              /\ UNCHANGED <<phase, toService, next_sesid, active_sessions>>
         ELSE dispatch_refused(s)

agt_rpc_dispatch(s) ==
    /\ dispatched(s, "rpc")
    /\ IF ses[s].state = "IDLE"
         THEN /\ goes_on(ses, s, "IDLE")
              /\ UNCHANGED <<phase, toService, next_sesid, active_sessions>>
         ELSE dispatch_refused(s)

close_session_invoke(s) ==
    /\ dispatched(s, "close")
    /\ IF ses[s].state = "IDLE" THEN agt_top_ends(s) ELSE dispatch_refused(s)

\* Kill another session, or, with an id nobody has, none.
kill_session_invoke(s, targets) ==
    /\ dispatched(s, "kill")
    /\ targets \subseteq live \ {s}
    /\ Cardinality(targets) <= 1
    /\ IF ses[s].state # "IDLE" THEN targets = {} /\ dispatch_refused(s)
       ELSE IF unmake_inready_breaks(ses, targets) THEN Undefined
       ELSE LET rest == [t \in Sids |-> IF t \in targets THEN Free ELSE ses[t]]
            IN  /\ goes_on(rest, s, "IDLE")
                /\ active_sessions' = active_sessions - Cardinality(targets)
                /\ UNCHANGED <<phase, toService, next_sesid>>

agt_top_dispatch_msg(s) == dispatched(s, "junk") /\ agt_top_ends(s)

\* A session that is shutting down keeps its messages until it is freed.
drop_input(s) ==
    /\ phase = "drain"
    /\ inreadyQ # <<>>
    /\ s = Head(inreadyQ)
    /\ ses[s].state = "SHUTDOWN_REQ"
    /\ inreadyQ' = Tail(inreadyQ)
    /\ ses' = [ses EXCEPT ![s].inq = FALSE]
    /\ UNCHANGED <<phase, toService, next_sesid, active_sessions>>

drained ==
    /\ phase = "drain"
    /\ inreadyQ = <<>>
    /\ phase' = "select"
    /\ UNCHANGED <<ses, inreadyQ, toService, next_sesid, active_sessions>>
-----------------------------------------------------------------------------
agt_ses_process_first_ready(s) ==
    \/ \E m \in Messages : agt_connect_dispatch(s, m) \/ agt_hello_dispatch(s, m)
    \/ agt_rpc_dispatch(s)
    \/ close_session_invoke(s)
    \/ \E targets \in SUBSET Sids : kill_session_invoke(s, targets)
    \/ agt_top_dispatch_msg(s)
    \/ drop_input(s)

agt_ncxserver_run ==
    \/ \E listener \in SUBSET {0} : select(listener)
    \/ agt_ses_check_timeouts
    \/ \E rewatched \in SUBSET Sids : agt_ses_new_session(rewatched)
    \/ \E s \in Sids :
        \/ \E n \in 0 .. MaxQueued : ses_accept_input(s, n) \/ accept_bad_frame(s, n)
        \/ accept_end(s)
        \/ agt_ses_process_first_ready(s)
    \/ serviced
    \/ drained

Clients ==
    \E s \in Sids :
        \/ \E m \in Messages : Send(s, m)
        \/ HangUp(s)
        \/ BeLate(s)

Next == agt_ncxserver_run \/ Clients

Spec == Init /\ [][Next]_vars

\* The loop never blocks while something can be read; clients owe nothing.
FairSpec == Spec /\ WF_vars(agt_ncxserver_run)
-----------------------------------------------------------------------------
(* Properties. *)

States == {"NONE", "INIT", "HELLO_WAIT", "IDLE", "SHUTDOWN_REQ"}

\* The types; next_sesid stays within the session table.
TypeOK ==
    /\ ses \in [Sids -> [state : States, inq : BOOLEAN, msgQ : Seq(Messages),
                         wire : Seq(Messages), closed : BOOLEAN, late : BOOLEAN,
                         watched : BOOLEAN]]
    /\ inreadyQ \in Seq(Sids)
    /\ phase \in {"select", "service", "drain", "undefined"}
    /\ toService \subseteq Sids \cup {0}
    /\ next_sesid \in 0 .. MaxSessions - 1
    /\ active_sessions \in Int

\* The inq flags say which sessions are on the ready queue, each is there once
\* and has a message, and a session with a message is there unless it is shutting
\* down: no message is forgotten or handled twice (ses_msg_make_inready,
\* agt_ses_process_first_ready).
ReadyQueueSound ==
    /\ \A i, j \in DOMAIN inreadyQ : inreadyQ[i] = inreadyQ[j] => i = j
    /\ \A s \in Sids :
        /\ ses[s].inq <=> \E i \in DOMAIN inreadyQ : inreadyQ[i] = s
        /\ ses[s].inq => ses[s].msgQ # <<>>
        /\ ses[s].msgQ # <<>> /\ ses[s].state # "SHUTDOWN_REQ" => ses[s].inq

\* active_sessions is the number of session control blocks, over every way a
\* session ends and every use of a slot for a new session.
ActiveSessionsCounted == active_sessions = Cardinality(live)

\* Ready queue, session table and counter agree with each other.
SessionTables == TypeOK /\ ReadyQueueSound /\ ActiveSessionsCounted

\* A timeout check ends the sessions whose timer has expired, all of them and no
\* other, also when the table has been full and its slots are used again
\* (agt_ses_check_timeouts). A session that was late and is shutting down since
\* has no timer and stays.
TimeoutReachesAll ==
    [][agt_ses_check_timeouts =>
          \A s \in live : ses'[s].state = "NONE" <=> s \in timed /\ ses[s].late]_vars

\* The requests a session has sent and not got an answer to.
requests ==
    [s \in Sids |-> IF ses[s].state = "SHUTDOWN_REQ" THEN <<>> ELSE ses[s].msgQ \o ses[s].wire]

\* The loop implements SessionService: requests are served in the order they
\* were sent, once, and only to clients that have introduced themselves.
Service ==
    INSTANCE SessionService WITH
        Clients <- Sids,
        up <- {s \in live : ses[s].state # "SHUTDOWN_REQ"},
        known <- {s \in Sids : ses[s].state = "IDLE"}

ImplementsService == Service!Spec

\* A session with requests is served again and again, whatever the others do.
NobodyStarves ==
    \A s \in Sids :
        \/ []<>(requests[s] = <<>> \/ phase = "undefined")
        \/ []<><<agt_ses_process_first_ready(s)>>_vars
=============================================================================
