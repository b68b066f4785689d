------------------------------ MODULE AutoLock ------------------------------
(***************************************************************************)
(* get-locks and release-locks of yangcli (yangcli_autolock.c): the client *)
(* asks for the global locks of all datastores one after the other, tries  *)
(* again the ones that another session has, and gives all back if it fails.*)
(* Beside it are its request queue (mgr_rpc.c), the two directions of the  *)
(* connection and the lock tables of the server, of which ConfigLocks has  *)
(* the detail.                                                             *)
(*                                                                         *)
(* The client waits for one reply at a time, but gives up when its time is *)
(* up, and then the reply comes late. Other commands of the user, scripts  *)
(* and autoload are left out.                                              *)
(***************************************************************************)
EXTENDS Naturals, SequencesExt, FiniteSetsExt

CONSTANTS
    Used,         \* the datastores of the server
    MaxRequestId, \* MGR_MAX_REQUEST_ID
    MaxLate,      \* a bound: messages that are under way when the user starts
    Drops         \* whether connections are lost

running == 1
candidate == 2
startup == 3

ASSUME UsedAssumption == running \in Used /\ Used \subseteq {running, candidate, startup}
ASSUME BoundsAssumption == MaxRequestId \in Nat /\ MaxLate \in Nat /\ Drops \in BOOLEAN

VARIABLES
    server_cb,
    reqQ,         \* requests that wait for a reply
    next_id,
    toServer, toClient,
    owner,        \* of the global lock of each datastore
    dirty,        \* <candidate> has changes
    lost,         \* the connection is lost, and the client has not seen it
    gaveUp,       \* for the properties: a reply is no longer waited for, the time
                  \* was up while locks were given back, or a connection was lost
    kept          \* for the properties: the locks that the client had when it
                  \* asked for all, and those the server refused to take back

vars == <<server_cb, reqQ, next_id, toServer, toClient, owner, dirty, lost, gaveUp, kept>>

Owners == {"nobody", "client", "other"}
LockStates == {"IDLE", "REQUEST_SENT", "TEMP_ERROR", "FATAL_ERROR",
               "ACTIVE", "RELEASE_SENT", "RELEASED"}
Ops == {"lock", "unlock", "discard-changes"}
Requests == [msg_id : 0..MaxRequestId, op : Ops, cfg : Used]
Replies == [msg_id : 0..MaxRequestId, answer : {"ok", "lock-denied", "error"}]

Init ==
  /\ server_cb = [state |-> "CONN_IDLE", command_mode |-> "NORMAL",
                  locks_active |-> FALSE, locks_waiting |-> FALSE,
                  locks_cur_cfg |-> running, locks_cleanup |-> FALSE,
                  locks_timeout |-> TRUE, timeUp |-> FALSE,
                  lock_used |-> {}, lock_state |-> [c \in Used |-> "IDLE"],
                  send |-> <<>>]
  /\ reqQ = <<>> /\ next_id = 0
  /\ toServer = <<>> /\ toClient = <<>>
  /\ owner = [c \in Used |-> "nobody"] /\ dirty = FALSE
  /\ lost = FALSE /\ gaveUp = FALSE /\ kept = {}
-----------------------------------------------------------------------------
(* Steps of the client on its control block cb; cb.send is what a step     *)
(* sends, and is empty between the steps.                                  *)

In(cb, state) == {c \in cb.lock_used : cb.lock_state[c] = state}

setup_lock_cbs(cb) ==
  [cb EXCEPT !.locks_active = TRUE, !.locks_waiting = FALSE, !.locks_cur_cfg = running,
             !.lock_used = Used, !.lock_state = [c \in Used |-> "IDLE"]]

clear_lock_cbs(cb) ==
  [cb EXCEPT !.locks_active = FALSE, !.locks_waiting = FALSE, !.locks_cur_cfg = running,
             !.command_mode = "NORMAL",
             !.lock_used = {}, !.lock_state = [c \in Used |-> "IDLE"]]

send_lock_pdu_to_server(cb, c, op) ==
  [cb EXCEPT !.lock_state[c] = IF op = "lock" THEN "REQUEST_SENT" ELSE "RELEASE_SENT",
             !.locks_cur_cfg = c,
             !.state = "CONN_RPYWAIT",
             !.send = <<[op |-> op, cfg |-> c]>>]

send_discard_changes_pdu_to_server(cb) ==
  [cb EXCEPT !.command_mode = "AUTODISCARD",
             !.state = "CONN_RPYWAIT",
             !.send = <<[op |-> "discard-changes", cfg |-> candidate]>>]

handle_release_locks_request_to_server(cb, first) ==
  IF ~first /\ cb.timeUp THEN clear_lock_cbs(cb)
  ELSE IF In(cb, "ACTIVE") = {} THEN clear_lock_cbs([cb EXCEPT !.state = "CONN_IDLE"])
  ELSE send_lock_pdu_to_server(
         [cb EXCEPT !.command_mode = "AUTOUNLOCK", !.timeUp = ~first /\ @],
         Min(In(cb, "ACTIVE")), "unlock")

\* Mutant: it only waits for the locks to time out.
handle_locks_cleanup_WaitsForMode(cb) ==
  IF cb.locks_cleanup THEN cb ELSE clear_lock_cbs(cb)

handle_locks_cleanup(cb) ==
  IF cb.locks_cleanup THEN handle_release_locks_request_to_server(cb, TRUE)
  ELSE clear_lock_cbs(cb)

\* Mutant: some lock is enough.
get_lock_worked_Some(cb) == In(cb, "ACTIVE") # {}

get_lock_worked(cb) == In(cb, "ACTIVE") = cb.lock_used

\* handle_get_locks_request_to_server, not the first time, and what all its
\* callers do with the answer. due: the datastores whose retry interval is over
handle_get_locks(cb, due) ==
  LET idle == In(cb, "IDLE")
      fatal == {c \in In(cb, "FATAL_ERROR") : \A d \in idle : c < d}
      retry == In(cb, "TEMP_ERROR") \cap due
      waiting == {c \in In(cb, "TEMP_ERROR") \ due : \A d \in retry : c < d}
      lock(S) == send_lock_pdu_to_server([cb EXCEPT !.command_mode = "AUTOLOCK",
                    !.locks_waiting = @ \/ (S = retry /\ waiting # {})], Min(S), "lock")
  IN IF cb.timeUp THEN handle_locks_cleanup(cb)
     ELSE IF fatal # {} THEN cb
     ELSE IF idle # {} THEN lock(idle)
     ELSE IF retry # {} THEN lock(retry)
     ELSE IF waiting # {} THEN [cb EXCEPT !.locks_waiting = TRUE]
     ELSE IF get_lock_worked(cb)
          THEN [cb EXCEPT !.command_mode = "NORMAL", !.locks_waiting = FALSE]
          ELSE handle_locks_cleanup(cb)

\* Nothing more is asked for after an error, but that of <candidate>.
lock_reply(cb, answer, due) ==
  LET cur == cb.locks_cur_cfg
      Got(state) == [cb EXCEPT !.lock_state[cur] = state]
  IN CASE answer = "ok" -> handle_get_locks(Got("ACTIVE"), due)
       [] answer = "lock-denied" -> handle_get_locks(Got("TEMP_ERROR"), due)
       [] answer = "error" /\ cur = candidate -> send_discard_changes_pdu_to_server(cb)
       [] answer = "error" /\ cur # candidate -> Got("FATAL_ERROR")

\* Mutant: the reply is taken for that to the lock.
discard_reply_AsLock(cb, answer, due) ==
  lock_reply([cb EXCEPT !.command_mode = "AUTOLOCK"], answer, due)

\* <candidate> is not asked for again: its state is still REQUEST_SENT.
discard_reply(cb, answer, due) ==
  LET back == [cb EXCEPT !.command_mode = "AUTOLOCK"]
  IN IF answer = "ok" THEN handle_get_locks(back, due) ELSE handle_locks_cleanup(back)

unlock_reply(cb, answer) ==
  handle_release_locks_request_to_server(
    [cb EXCEPT !.lock_state[cb.locks_cur_cfg] = IF answer = "ok" THEN "RELEASED" ELSE "FATAL_ERROR"],
    FALSE)

\* A reply is one to the command in progress, whichever request it answers.
yangcli_reply_handler(cb, answer, due) ==
  LET idle == [cb EXCEPT !.state = "CONN_IDLE"]
  IN IF cb.state # "CONN_RPYWAIT" THEN cb
     ELSE CASE cb.command_mode = "AUTOLOCK" -> lock_reply(idle, answer, due)
            [] cb.command_mode = "AUTODISCARD" -> discard_reply(idle, answer, due)
            [] cb.command_mode = "AUTOUNLOCK" -> unlock_reply(idle, answer)
            [] cb.command_mode = "NORMAL" -> idle

\* The time of the request or of the whole command is up.
timed_out(cb) ==
  IF cb.command_mode = "AUTOUNLOCK" THEN clear_lock_cbs([cb EXCEPT !.state = "CONN_IDLE"])
  ELSE handle_locks_cleanup([cb EXCEPT !.state = "CONN_IDLE", !.command_mode = "AUTOLOCK"])

NextId(id) == IF id >= MaxRequestId THEN 0 ELSE id + 1

\* mgr_rpc_send_request; q: the requests that still wait
send_request(cb, q) ==
  /\ server_cb' = [cb EXCEPT !.send = <<>>]
  /\ IF cb.send = <<>> THEN reqQ' = q /\ UNCHANGED <<next_id, toServer>>
     ELSE LET req == [msg_id |-> next_id, op |-> cb.send[1].op, cfg |-> cb.send[1].cfg] IN
          /\ reqQ' = Append(q, req)
          /\ toServer' = Append(toServer, req)
          /\ next_id' = NextId(next_id)
-----------------------------------------------------------------------------
(* Commands of the user *)

Ready == server_cb.state = "CONN_IDLE" /\ server_cb.command_mode = "NORMAL" /\ ~lost

Held == {c \in Used : owner[c] = "client"}

do_get_locks(cleanup, timeout) ==
  /\ Ready /\ ~server_cb.locks_active
  /\ Len(toServer) + Len(toClient) <= MaxLate
  /\ LET cb == [setup_lock_cbs(server_cb) EXCEPT !.locks_cleanup = cleanup,
                  !.locks_timeout = timeout, !.timeUp = FALSE]
     IN send_request(handle_get_locks(cb, {}), reqQ)
  /\ kept' = Held
  /\ UNCHANGED <<toClient, owner, dirty, lost, gaveUp>>

do_release_locks ==
  /\ Ready /\ server_cb.locks_active
  /\ Len(toServer) + Len(toClient) <= MaxLate
  /\ In(server_cb, "ACTIVE") # {}
  /\ send_request(handle_release_locks_request_to_server(
                    [server_cb EXCEPT !.locks_cleanup = TRUE], TRUE), reqQ)
  /\ UNCHANGED <<toClient, owner, dirty, lost, gaveUp, kept>>

\* connect, after the loss of a session
do_connect ==
  /\ server_cb.state = "IDLE" /\ server_cb.command_mode = "NORMAL"
  /\ server_cb' = [server_cb EXCEPT !.state = "CONN_IDLE"]
  /\ reqQ' = <<>> /\ next_id' = 0
  /\ UNCHANGED <<toServer, toClient, owner, dirty, lost, gaveUp, kept>>
-----------------------------------------------------------------------------
(* The loop of the client: yangcli_stdin_handler, and replies *)

Busy == server_cb.state # "IDLE" /\ server_cb.command_mode # "NORMAL" /\ ~lost

\* Locks that are held by others are asked for again.
retry_locks(due) ==
  /\ Busy /\ server_cb.state = "CONN_IDLE" /\ ~server_cb.timeUp
  /\ server_cb.command_mode = "AUTOLOCK" /\ server_cb.locks_waiting
  /\ send_request(handle_get_locks(server_cb, due), reqQ)
  /\ UNCHANGED <<toClient, owner, dirty, lost, gaveUp, kept>>

\* check_locks_timeout; a request in progress stays in the queue.
locks_timed_out ==
  /\ Busy /\ server_cb.timeUp
  /\ send_request(timed_out(server_cb), reqQ)
  /\ gaveUp' = (gaveUp \/ server_cb.state = "CONN_RPYWAIT")
  /\ UNCHANGED <<toClient, owner, dirty, lost, kept>>

\* mgr_rpc_timeout_requestQ deletes the oldest requests.
message_timed_out ==
  /\ Busy /\ server_cb.state = "CONN_RPYWAIT"
  /\ \E n \in 1..Len(reqQ) :
       send_request(timed_out(server_cb), SubSeq(reqQ, n + 1, Len(reqQ)))
  /\ gaveUp' = TRUE
  /\ UNCHANGED <<toClient, owner, dirty, lost, kept>>

\* A reply to no request is dropped.
mgr_rpc_dispatch ==
  /\ ~lost /\ toClient # <<>> /\ toClient' = Tail(toClient)
  /\ LET rpy == Head(toClient)
         answered == {k \in DOMAIN reqQ : reqQ[k].msg_id = rpy.msg_id}
     IN IF answered = {} THEN UNCHANGED <<server_cb, reqQ, next_id, toServer>>
        ELSE \E due \in SUBSET Used :
               send_request(yangcli_reply_handler(server_cb, rpy.answer, due),
                            RemoveAt(reqQ, Min(answered)))
  /\ gaveUp' = (gaveUp \/ (server_cb.command_mode = "AUTOUNLOCK" /\ server_cb.timeUp))
  /\ UNCHANGED <<owner, dirty, lost, kept>>

\* locks_timeout seconds have passed.
time_passes ==
  /\ server_cb.locks_timeout /\ ~server_cb.timeUp /\ server_cb.command_mode # "NORMAL"
  /\ server_cb' = [server_cb EXCEPT !.timeUp = TRUE]
  /\ UNCHANGED <<reqQ, next_id, toServer, toClient, owner, dirty, lost, gaveUp, kept>>

\* The lock control blocks and the mode stay as they are.
clear_server_cb_session ==
  /\ lost
  /\ lost' = FALSE /\ server_cb' = [server_cb EXCEPT !.state = "IDLE"]
  /\ UNCHANGED <<reqQ, next_id, toServer, toClient, owner, dirty, gaveUp, kept>>
-----------------------------------------------------------------------------
(* The server and its other sessions *)

Answer(req, answer) ==
  /\ toServer' = Tail(toServer)
  /\ toClient' = Append(toClient, [msg_id |-> req.msg_id, answer |-> answer])

cfg_ok_to_lock(c) == owner[c] = "nobody" /\ (c = candidate => ~dirty)

\* Access control may refuse any request (agt_acm_rpc_allowed).
server_lock ==
  /\ toServer # <<>> /\ Head(toServer).op = "lock"
  /\ LET req == Head(toServer) IN
       \/ /\ cfg_ok_to_lock(req.cfg)
          /\ owner' = [owner EXCEPT ![req.cfg] = "client"]
          /\ Answer(req, "ok")
       \/ /\ owner[req.cfg] # "nobody"
          /\ Answer(req, "lock-denied") /\ UNCHANGED owner
       \/ Answer(req, "error") /\ UNCHANGED owner
  /\ UNCHANGED <<server_cb, reqQ, next_id, dirty, lost, gaveUp, kept>>

server_unlock ==
  /\ toServer # <<>> /\ Head(toServer).op = "unlock"
  /\ LET req == Head(toServer) IN
       \/ /\ owner[req.cfg] = "client"
          /\ owner' = [owner EXCEPT ![req.cfg] = "nobody"]
          /\ dirty' = (dirty /\ req.cfg # candidate)
          /\ Answer(req, "ok") /\ UNCHANGED kept
       \/ /\ kept' = kept \cup {req.cfg}
          /\ Answer(req, "error") /\ UNCHANGED <<owner, dirty>>
  /\ UNCHANGED <<server_cb, reqQ, next_id, lost, gaveUp>>

server_discard_changes ==
  /\ toServer # <<>> /\ Head(toServer).op = "discard-changes"
  /\ \/ /\ owner[candidate] # "other"
        /\ dirty' = FALSE /\ Answer(Head(toServer), "ok")
     \/ UNCHANGED dirty /\ Answer(Head(toServer), "error")
  /\ UNCHANGED <<server_cb, reqQ, next_id, owner, lost, gaveUp, kept>>

other_session ==
  /\ \/ \E c \in Used : /\ cfg_ok_to_lock(c)
                        /\ owner' = [owner EXCEPT ![c] = "other"] /\ UNCHANGED dirty
     \/ \E c \in Used : /\ owner[c] = "other"
                        /\ owner' = [owner EXCEPT ![c] = "nobody"]
                        /\ dirty' = (dirty /\ c # candidate)
     \/ /\ candidate \in Used /\ owner[candidate] # "client"
        /\ dirty' = ~dirty /\ UNCHANGED owner
  /\ UNCHANGED <<server_cb, reqQ, next_id, toServer, toClient, lost, gaveUp, kept>>

\* The server ends the session, and frees its locks.
connection_lost ==
  /\ Drops /\ ~lost /\ server_cb.state # "IDLE"
  /\ lost' = TRUE /\ gaveUp' = TRUE
  /\ toServer' = <<>> /\ toClient' = <<>>
  /\ owner' = [c \in Used |-> IF owner[c] = "client" THEN "nobody" ELSE owner[c]]
  /\ dirty' = (dirty /\ ~(candidate \in Used /\ owner[candidate] = "client"))
  /\ UNCHANGED <<server_cb, reqQ, next_id, kept>>
-----------------------------------------------------------------------------
Next ==
  \/ \E cleanup, timeout \in BOOLEAN : do_get_locks(cleanup, timeout)
  \/ do_release_locks \/ do_connect
  \/ \E due \in SUBSET Used : retry_locks(due)
  \/ locks_timed_out \/ message_timed_out \/ mgr_rpc_dispatch
  \/ time_passes \/ clear_server_cb_session
  \/ server_lock \/ server_unlock \/ server_discard_changes
  \/ other_session \/ connection_lost

Spec == Init /\ [][Next]_vars

\* The client never blocks while a command runs: its loop comes round again
\* after 100 microseconds, and its clock runs. Nothing is asked of the server,
\* of the connection or of the user.
FairSpec ==
  /\ Spec
  /\ WF_vars(time_passes) /\ WF_vars(locks_timed_out) /\ WF_vars(clear_server_cb_session)
-----------------------------------------------------------------------------
(* Properties *)

\* Every variable has values of its type.
TypeOK ==
  /\ server_cb \in [state : {"IDLE", "CONN_IDLE", "CONN_RPYWAIT"},
                    command_mode : {"NORMAL", "AUTOLOCK", "AUTOUNLOCK", "AUTODISCARD"},
                    locks_active : BOOLEAN, locks_waiting : BOOLEAN, locks_cur_cfg : Used,
                    locks_cleanup : BOOLEAN, locks_timeout : BOOLEAN, timeUp : BOOLEAN,
                    lock_used : {{}, Used}, lock_state : [Used -> LockStates],
                    send : {<<>>}]
  /\ next_id \in 0..MaxRequestId
  /\ {reqQ, toServer} \subseteq Seq(Requests) /\ toClient \in Seq(Replies)
  /\ owner \in [Used -> Owners] /\ {dirty, lost, gaveUp} \subseteq BOOLEAN
  /\ kept \subseteq Used

\* As long as no reply was given up, the client has the locks it takes itself
\* to have, however many it has asked for, been refused and asked for again:
\* a lock is ACTIVE only while the server has it for the client.
BeliefsRight ==
  ~gaveUp => \A c \in In(server_cb, "ACTIVE") : owner[c] = "client"

\* What the client holds in its control block is typed, and right.
ControlBlockSound == TypeOK /\ BeliefsRight

\* When get-locks or release-locks has ended the client has all the locks, or
\* none but those that it had before and those of which the server has refused
\* the unlock: the client does not ask again, and clears its control blocks.
Settled ==
  server_cb.command_mode = "NORMAL" =>
    IF server_cb.locks_active THEN Held = Used ELSE Held \subseteq kept

\* get-locks is all or nothing (yangcli.yang) to that extent, if it cleans up and
\* no reply was given up.
AllOrNothing == ~gaveUp /\ server_cb.locks_cleanup => Settled

\* With a lock-timeout get-locks and release-locks end, and the user has the
\* prompt again, whatever the server does; unless the connection is lost, as
\* clear_server_cb_session leaves the mode, and with it the user locked out.
CommandEnds ==
  (server_cb.command_mode # "NORMAL" /\ server_cb.locks_timeout)
    ~> (server_cb.command_mode = "NORMAL" \/ server_cb.state = "IDLE")
=============================================================================
