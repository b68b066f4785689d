---------------------------- MODULE AutoLockProofs ----------------------------
(***************************************************************************)
(* Theorems about AutoLock, for all sets of datastores that contain        *)
(* <running>, all message ids and all messages under way. The argument is  *)
(* one about the conversation: as long as no reply is given up there is at *)
(* most one message under way, it is about the datastore and the operation *)
(* that the control block of the client stands at, and the client and the  *)
(* server differ in that datastore only.                                   *)
(***************************************************************************)
EXTENDS AutoLock, SequenceTheorems, WellFoundedInduction, TLAPS

States == {"IDLE", "CONN_IDLE", "CONN_RPYWAIT"}
Modes == {"NORMAL", "AUTOLOCK", "AUTOUNLOCK", "AUTODISCARD"}
Answers == {"ok", "lock-denied", "error"}

\* What a step can send: nothing, or one message.
Messages == [op : Ops, cfg : Used]
Sendings == {<<>>} \cup {<<m>> : m \in Messages}

\* The control block, also in the middle of a step.
ControlBlocks ==
  [state : States, command_mode : Modes, locks_active : BOOLEAN, locks_waiting : BOOLEAN,
   locks_cur_cfg : Used, locks_cleanup : BOOLEAN, locks_timeout : BOOLEAN, timeUp : BOOLEAN,
   lock_used : {{}, Used}, lock_state : [Used -> LockStates], send : Sendings]

Types ==
  /\ server_cb \in ControlBlocks /\ server_cb.send = <<>>
  /\ next_id \in 0..MaxRequestId
  /\ reqQ \in Seq(Requests) /\ toServer \in Seq(Requests) /\ toClient \in Seq(Replies)
  /\ owner \in [Used -> Owners]
  /\ dirty \in BOOLEAN /\ lost \in BOOLEAN /\ gaveUp \in BOOLEAN
  /\ kept \subseteq Used

-----------------------------------------------------------------------------
(* Least elements *)

Less == {ss \in Nat \X Nat : ss[1] < ss[2]}

LEMMA LessIsWellFounded == IsWellFoundedOn(Less, Nat)
<1>1. OpToRel(<, Nat) = Less
  <2>1. ASSUME NEW p \in Nat \X Nat PROVE p \in OpToRel(<, Nat) <=> p \in Less
    BY DEF OpToRel, Less
  <2>2. OpToRel(<, Nat) \subseteq Nat \X Nat /\ Less \subseteq Nat \X Nat
    BY DEF OpToRel, Less
  <2> QED BY <2>1, <2>2, Zenon
<1> QED BY <1>1, NatLessThanWellFounded, Zenon

\* The Min of a set of natural numbers that is not empty is one of them.
LEMMA MinIsElement ==
  ASSUME NEW S \in SUBSET Nat, S # {}
  PROVE  Min(S) \in S
<1>1. PICK x \in S : \A y \in S : <<y, x>> \notin Less
  BY LessIsWellFounded, WFMin
<1>2. ASSUME NEW y \in S PROVE x <= y
  <2>1. <<y, x>> \notin Less
    BY <1>1, Zenon
  <2>2. ~(y < x)
    BY <2>1, SMT DEF Less
  <2> QED BY <2>2
<1> QED BY <1>2, Zenon DEF Min

LEMMA UsedNumbers ==
  /\ Used \subseteq Nat /\ Used # {} /\ running \in Used
  /\ \A cb \in ControlBlocks : \A st : In(cb, st) \subseteq Used
  /\ \A S \in SUBSET Used : S # {} => Min(S) \in S
<1>1. Used \subseteq Nat /\ Used # {} /\ running \in Used
  BY UsedAssumption DEF running, candidate, startup
<1>2. ASSUME NEW cb \in ControlBlocks, NEW st PROVE In(cb, st) \subseteq Used
  BY DEF ControlBlocks, In
<1>3. ASSUME NEW S \in SUBSET Used, S # {} PROVE Min(S) \in S
  BY <1>1, <1>3, MinIsElement
<1> QED BY <1>1, <1>2, <1>3

LEMMA OneMessage ==
  /\ <<>> \in Sendings
  /\ \A m \in Messages : <<m>> \in Sendings /\ <<m>> # <<>> /\ <<m>>[1] = m
  /\ \A s \in Sendings : s # <<>> => s[1] \in Messages
<1>1. ASSUME NEW m \in Messages PROVE <<m>> \in Sendings /\ <<m>> # <<>> /\ <<m>>[1] = m
  BY DEF Sendings
<1>2. ASSUME NEW s \in Sendings, s # <<>> PROVE s[1] \in Messages
  BY <1>2 DEF Sendings
<1> QED BY <1>1, <1>2 DEF Sendings

-----------------------------------------------------------------------------
(* Steps on the control block *)

\* The ways in which get-locks goes on from cb.
GoesOn(cb, r) ==
  \/ r = handle_locks_cleanup(cb)
  \/ ~cb.timeUp /\ In(cb, "FATAL_ERROR") # {} /\ r = cb
  \/ \E c \in In(cb, "IDLE") \cup In(cb, "TEMP_ERROR") : \E w \in BOOLEAN :
       r = send_lock_pdu_to_server([cb EXCEPT !.command_mode = "AUTOLOCK",
                                              !.locks_waiting = w], c, "lock")
  \/ ~cb.timeUp /\ In(cb, "IDLE") = {} /\ r = [cb EXCEPT !.locks_waiting = TRUE]
  \/ /\ ~cb.timeUp /\ In(cb, "IDLE") = {} /\ get_lock_worked(cb)
     /\ r = [cb EXCEPT !.command_mode = "NORMAL", !.locks_waiting = FALSE]

LEMMA GetLocksCases ==
  ASSUME NEW cb \in ControlBlocks, NEW due
  PROVE  GoesOn(cb, handle_get_locks(cb, due))
<1> SUFFICES ASSUME NEW r, r = handle_get_locks(cb, due) PROVE GoesOn(cb, r)
  OBVIOUS
<1> DEFINE idle == In(cb, "IDLE")
           fatal == {c \in In(cb, "FATAL_ERROR") : \A d \in idle : c < d}
           retry == In(cb, "TEMP_ERROR") \cap due
           waiting == {c \in In(cb, "TEMP_ERROR") \ due : \A d \in retry : c < d}
           lock(S) == send_lock_pdu_to_server([cb EXCEPT !.command_mode = "AUTOLOCK",
                         !.locks_waiting = @ \/ (S = retry /\ waiting # {})], Min(S), "lock")
<1>1. r = IF cb.timeUp THEN handle_locks_cleanup(cb)
          ELSE IF fatal # {} THEN cb
          ELSE IF idle # {} THEN lock(idle)
          ELSE IF retry # {} THEN lock(retry)
          ELSE IF waiting # {} THEN [cb EXCEPT !.locks_waiting = TRUE]
          ELSE IF get_lock_worked(cb)
               THEN [cb EXCEPT !.command_mode = "NORMAL", !.locks_waiting = FALSE]
               ELSE handle_locks_cleanup(cb)
  BY DEF handle_get_locks
<1>2. /\ fatal \subseteq In(cb, "FATAL_ERROR") /\ retry \subseteq In(cb, "TEMP_ERROR")
      /\ idle \subseteq Used /\ retry \subseteq Used
  BY UsedNumbers
<1>3. ASSUME NEW S \in SUBSET (In(cb, "IDLE") \cup In(cb, "TEMP_ERROR")), S # {}
      PROVE  \E c \in In(cb, "IDLE") \cup In(cb, "TEMP_ERROR") : \E w \in BOOLEAN :
               lock(S) = send_lock_pdu_to_server([cb EXCEPT !.command_mode = "AUTOLOCK",
                                                     !.locks_waiting = w], c, "lock")
  <2>1. Min(S) \in S /\ Min(S) \in In(cb, "IDLE") \cup In(cb, "TEMP_ERROR")
    BY <1>3, UsedNumbers
  <2> DEFINE w == cb.locks_waiting \/ (S = retry /\ waiting # {})
  <2>2. w \in BOOLEAN
    OBVIOUS
  <2> HIDE DEF retry, waiting
  <2>3. lock(S) = send_lock_pdu_to_server([cb EXCEPT !.command_mode = "AUTOLOCK",
                                                     !.locks_waiting = w], Min(S), "lock")
    OBVIOUS
  <2> HIDE DEF lock, w
  <2> QED BY <2>1, <2>2, <2>3
<1> HIDE DEF lock, fatal, retry, waiting
<1> QED BY <1>1, <1>2, <1>3 DEF idle, GoesOn

\* ... and those in which release-locks does.
GoesBack(cb, first, r) ==
  \/ ~first /\ cb.timeUp /\ r = clear_lock_cbs(cb)
  \/ In(cb, "ACTIVE") = {} /\ r = clear_lock_cbs([cb EXCEPT !.state = "CONN_IDLE"])
  \/ \E c \in In(cb, "ACTIVE") : \E t \in BOOLEAN :
       r = send_lock_pdu_to_server([cb EXCEPT !.command_mode = "AUTOUNLOCK",
                                              !.timeUp = t], c, "unlock")

LEMMA ReleaseCases ==
  ASSUME NEW cb \in ControlBlocks, NEW first \in BOOLEAN
  PROVE  GoesBack(cb, first, handle_release_locks_request_to_server(cb, first))
<1> SUFFICES ASSUME NEW r, r = handle_release_locks_request_to_server(cb, first)
             PROVE  GoesBack(cb, first, r)
  OBVIOUS
<1>1. CASE ~first /\ cb.timeUp
  BY <1>1 DEF GoesBack, handle_release_locks_request_to_server
<1>2. CASE ~(~first /\ cb.timeUp) /\ In(cb, "ACTIVE") = {}
  BY <1>2 DEF GoesBack, handle_release_locks_request_to_server
<1>3. CASE ~(~first /\ cb.timeUp) /\ In(cb, "ACTIVE") # {}
  <2>1. Min(In(cb, "ACTIVE")) \in In(cb, "ACTIVE")
    BY <1>3, UsedNumbers
  <2> DEFINE t == ~first /\ cb.timeUp
  <2>2. t \in BOOLEAN
    OBVIOUS
  <2>3. r = send_lock_pdu_to_server([cb EXCEPT !.command_mode = "AUTOUNLOCK",
                 !.timeUp = t], Min(In(cb, "ACTIVE")), "unlock")
    BY <1>3 DEF handle_release_locks_request_to_server
  <2> QED BY <2>1, <2>2, <2>3 DEF GoesBack
<1> QED BY <1>1, <1>2, <1>3

\* All of them keep the types.
LEMMA ClearType ==
  ASSUME NEW cb \in ControlBlocks
  PROVE  clear_lock_cbs(cb) \in ControlBlocks
BY UsedNumbers DEF clear_lock_cbs, ControlBlocks, Modes, LockStates

LEMMA SetupType ==
  ASSUME NEW cb \in ControlBlocks
  PROVE  setup_lock_cbs(cb) \in ControlBlocks
BY UsedNumbers DEF setup_lock_cbs, ControlBlocks, LockStates

LEMMA SendLockType ==
  ASSUME NEW cb \in ControlBlocks, NEW c \in Used, NEW op \in {"lock", "unlock"}
  PROVE  send_lock_pdu_to_server(cb, c, op) \in ControlBlocks
<1>1. <<[op |-> op, cfg |-> c]>> \in Sendings
  BY OneMessage DEF Messages, Ops
<1> HIDE DEF Sendings
<1>2. [cb.lock_state EXCEPT ![c] = IF op = "lock" THEN "REQUEST_SENT" ELSE "RELEASE_SENT"]
        \in [Used -> LockStates]
  BY DEF ControlBlocks, LockStates
<1> QED BY <1>1, <1>2 DEF send_lock_pdu_to_server, ControlBlocks, States

LEMMA SendDiscardType ==
  ASSUME NEW cb \in ControlBlocks, candidate \in Used
  PROVE  send_discard_changes_pdu_to_server(cb) \in ControlBlocks
<1>1. <<[op |-> "discard-changes", cfg |-> candidate]>> \in Sendings
  BY OneMessage DEF Messages, Ops
<1> HIDE DEF Sendings
<1> QED BY <1>1 DEF send_discard_changes_pdu_to_server, ControlBlocks, States, Modes

LEMMA ReleaseType ==
  ASSUME NEW cb \in ControlBlocks, NEW first \in BOOLEAN
  PROVE  handle_release_locks_request_to_server(cb, first) \in ControlBlocks
<1> SUFFICES ASSUME NEW r, r = handle_release_locks_request_to_server(cb, first)
             PROVE  r \in ControlBlocks
  OBVIOUS
<1>1. CASE r = clear_lock_cbs(cb)
  BY <1>1, ClearType
<1>2. CASE r = clear_lock_cbs([cb EXCEPT !.state = "CONN_IDLE"])
  <2>1. [cb EXCEPT !.state = "CONN_IDLE"] \in ControlBlocks
    BY DEF ControlBlocks, States
  <2> QED BY <1>2, <2>1, ClearType
<1>3. ASSUME NEW c \in In(cb, "ACTIVE"), NEW t \in BOOLEAN,
             r = send_lock_pdu_to_server([cb EXCEPT !.command_mode = "AUTOUNLOCK",
                                                    !.timeUp = t], c, "unlock")
      PROVE  r \in ControlBlocks
  <2>1. c \in Used
    BY UsedNumbers
  <2> DEFINE b == [cb EXCEPT !.command_mode = "AUTOUNLOCK", !.timeUp = t]
  <2>2. b \in ControlBlocks
    BY DEF ControlBlocks, Modes
  <2> HIDE DEF b
  <2>3. send_lock_pdu_to_server(b, c, "unlock") \in ControlBlocks
    BY <2>1, <2>2, SendLockType
  <2>4. r = send_lock_pdu_to_server(b, c, "unlock")
    BY <1>3, Zenon DEF b
  <2> QED BY <2>3, <2>4, Zenon
<1>4. GoesBack(cb, first, r)
  BY ReleaseCases, Zenon
<1> QED BY <1>1, <1>2, <1>3, <1>4, Zenon DEF GoesBack

LEMMA CleanupType ==
  ASSUME NEW cb \in ControlBlocks
  PROVE  handle_locks_cleanup(cb) \in ControlBlocks
BY ReleaseType, ClearType DEF handle_locks_cleanup

LEMMA GetLocksType ==
  ASSUME NEW cb \in ControlBlocks, NEW due
  PROVE  handle_get_locks(cb, due) \in ControlBlocks
<1> SUFFICES ASSUME NEW r, r = handle_get_locks(cb, due) PROVE r \in ControlBlocks
  OBVIOUS
<1>1. CASE r = handle_locks_cleanup(cb)
  BY <1>1, CleanupType
<1>2. ASSUME NEW c \in In(cb, "IDLE") \cup In(cb, "TEMP_ERROR"), NEW w \in BOOLEAN,
             r = send_lock_pdu_to_server([cb EXCEPT !.command_mode = "AUTOLOCK",
                                                    !.locks_waiting = w], c, "lock")
      PROVE  r \in ControlBlocks
  <2>1. c \in Used
    BY UsedNumbers
  <2> DEFINE b == [cb EXCEPT !.command_mode = "AUTOLOCK", !.locks_waiting = w]
  <2>2. b \in ControlBlocks
    BY DEF ControlBlocks, Modes
  <2> HIDE DEF b
  <2>3. send_lock_pdu_to_server(b, c, "lock") \in ControlBlocks
    BY <2>1, <2>2, SendLockType
  <2>4. r = send_lock_pdu_to_server(b, c, "lock")
    BY <1>2, Zenon DEF b
  <2> QED BY <2>3, <2>4, Zenon
<1>3. [cb EXCEPT !.locks_waiting = TRUE] \in ControlBlocks
  BY DEF ControlBlocks
<1>4. [cb EXCEPT !.command_mode = "NORMAL", !.locks_waiting = FALSE] \in ControlBlocks
  BY DEF ControlBlocks, Modes
<1>5. GoesOn(cb, r)
  BY GetLocksCases, Zenon
<1> QED BY <1>1, <1>2, <1>3, <1>4, <1>5, Zenon DEF GoesOn

\* What the client takes up when a reply comes or the time is up.
LEMMA IdleType ==
  ASSUME NEW cb \in ControlBlocks
  PROVE  /\ [cb EXCEPT !.state = "CONN_IDLE"] \in ControlBlocks
         /\ [cb EXCEPT !.command_mode = "AUTOLOCK"] \in ControlBlocks
         /\ [cb EXCEPT !.state = "CONN_IDLE", !.command_mode = "AUTOLOCK"] \in ControlBlocks
         /\ \A c \in Used : \A st \in LockStates :
              [cb EXCEPT !.lock_state[c] = st] \in ControlBlocks
<1>1. /\ [cb EXCEPT !.state = "CONN_IDLE"] \in ControlBlocks
      /\ [cb EXCEPT !.command_mode = "AUTOLOCK"] \in ControlBlocks
      /\ [cb EXCEPT !.state = "CONN_IDLE", !.command_mode = "AUTOLOCK"] \in ControlBlocks
  BY DEF ControlBlocks, States, Modes
<1>2. ASSUME NEW c \in Used, NEW st \in LockStates
      PROVE  [cb EXCEPT !.lock_state[c] = st] \in ControlBlocks
  <2>1. [cb.lock_state EXCEPT ![c] = st] \in [Used -> LockStates]
    BY DEF ControlBlocks
  <2> HIDE DEF LockStates, Sendings
  <2> QED BY <2>1 DEF ControlBlocks
<1> QED BY <1>1, <1>2

LEMMA ReplyType ==
  ASSUME NEW cb \in ControlBlocks, NEW answer \in Answers, NEW due
  PROVE  yangcli_reply_handler(cb, answer, due) \in ControlBlocks
<1> DEFINE idle == [cb EXCEPT !.state = "CONN_IDLE"]
<1>1. idle \in ControlBlocks /\ idle.locks_cur_cfg \in Used /\ cb.command_mode \in Modes
  BY IdleType DEF ControlBlocks
<1> HIDE DEF idle
<1>2. lock_reply(idle, answer, due) \in ControlBlocks
  <2> DEFINE Got(st) == [idle EXCEPT !.lock_state[idle.locks_cur_cfg] = st]
  <2>1. /\ Got("ACTIVE") \in ControlBlocks /\ Got("TEMP_ERROR") \in ControlBlocks
        /\ Got("FATAL_ERROR") \in ControlBlocks
    BY <1>1, IdleType DEF LockStates
  <2> HIDE DEF Got
  <2>2. /\ handle_get_locks(Got("ACTIVE"), due) \in ControlBlocks
        /\ handle_get_locks(Got("TEMP_ERROR"), due) \in ControlBlocks
    BY <2>1, GetLocksType
  <2>3. CASE answer = "ok"
    BY <2>2, <2>3 DEF lock_reply, Got
  <2>4. CASE answer = "lock-denied"
    BY <2>2, <2>4 DEF lock_reply, Got
  <2>5. CASE answer = "error" /\ idle.locks_cur_cfg = candidate
    BY <1>1, <2>5, SendDiscardType DEF lock_reply
  <2>6. CASE answer = "error" /\ idle.locks_cur_cfg # candidate
    BY <2>1, <2>6 DEF lock_reply, Got
  <2> QED BY <2>3, <2>4, <2>5, <2>6 DEF Answers
<1>3. discard_reply(idle, answer, due) \in ControlBlocks
  <2> DEFINE back == [idle EXCEPT !.command_mode = "AUTOLOCK"]
  <2>1. back \in ControlBlocks
    BY <1>1, IdleType
  <2> HIDE DEF back
  <2>2. handle_get_locks(back, due) \in ControlBlocks /\ handle_locks_cleanup(back) \in ControlBlocks
    BY <2>1, GetLocksType, CleanupType
  <2> QED BY <2>2 DEF discard_reply, back
<1>4. unlock_reply(idle, answer) \in ControlBlocks
  <2> DEFINE b == [idle EXCEPT !.lock_state[idle.locks_cur_cfg] =
                                 IF answer = "ok" THEN "RELEASED" ELSE "FATAL_ERROR"]
  <2>1. b \in ControlBlocks
    BY <1>1, IdleType DEF LockStates
  <2> HIDE DEF b
  <2> QED BY <2>1, ReleaseType DEF unlock_reply, b
<1>5. CASE cb.state # "CONN_RPYWAIT"
  BY <1>5 DEF yangcli_reply_handler
<1>6. CASE cb.state = "CONN_RPYWAIT"
  <2>1. CASE cb.command_mode = "AUTOLOCK"
    BY <1>2, <1>6, <2>1 DEF yangcli_reply_handler, idle
  <2>2. CASE cb.command_mode = "AUTODISCARD"
    BY <1>3, <1>6, <2>2 DEF yangcli_reply_handler, idle
  <2>3. CASE cb.command_mode = "AUTOUNLOCK"
    BY <1>4, <1>6, <2>3 DEF yangcli_reply_handler, idle
  <2>4. CASE cb.command_mode = "NORMAL"
    BY <1>1, <1>6, <2>4 DEF yangcli_reply_handler, idle
  <2> QED BY <1>1, <2>1, <2>2, <2>3, <2>4 DEF Modes
<1> QED BY <1>5, <1>6

LEMMA TimedOutType ==
  ASSUME NEW cb \in ControlBlocks
  PROVE  timed_out(cb) \in ControlBlocks
<1> DEFINE a == [cb EXCEPT !.state = "CONN_IDLE"]
           b == [cb EXCEPT !.state = "CONN_IDLE", !.command_mode = "AUTOLOCK"]
<1>1. a \in ControlBlocks /\ b \in ControlBlocks
  BY IdleType
<1> HIDE DEF a, b
<1>2. clear_lock_cbs(a) \in ControlBlocks /\ handle_locks_cleanup(b) \in ControlBlocks
  BY <1>1, ClearType, CleanupType
<1> QED BY <1>2 DEF timed_out, a, b

-----------------------------------------------------------------------------
(* The conversation *)

Requested(mode) == IF mode = "AUTOUNLOCK" THEN "unlock"
                   ELSE IF mode = "AUTODISCARD" THEN "discard-changes" ELSE "lock"

\* The control block cb of a client that has the locks held, had those of bef
\* when it asked for all, and differs from the server in the lock of extra.
Right(cb, held, bef, extra) ==
  /\ cb.state \in {"CONN_IDLE", "CONN_RPYWAIT"}
  /\ cb.lock_used = IF cb.locks_active THEN Used ELSE {}
  /\ ~cb.locks_active => cb.command_mode = "NORMAL"
  /\ cb.command_mode = "NORMAL" =>
       cb.state = "CONN_IDLE" /\ (cb.locks_active => In(cb, "ACTIVE") = Used)
  /\ cb.command_mode \in {"AUTOUNLOCK", "AUTODISCARD"} => cb.state = "CONN_RPYWAIT"
  /\ cb.state = "CONN_RPYWAIT" => cb.lock_state[cb.locks_cur_cfg] # "ACTIVE"
  /\ cb.command_mode = "AUTODISCARD" => cb.locks_cur_cfg = candidate
  /\ In(cb, "ACTIVE") \subseteq held
  /\ cb.locks_active \/ cb.locks_cleanup => held \subseteq (bef \cup In(cb, "ACTIVE")) \cup extra

\* The lock that an unlock on its way is to give back, and the one that a reply
\* on its way says was given.
ToRelease(cb) == IF cb.command_mode = "AUTOUNLOCK" THEN {cb.locks_cur_cfg} ELSE {}
Granted(cb, answer) ==
  IF cb.command_mode = "AUTOLOCK" /\ answer = "ok" THEN {cb.locks_cur_cfg} ELSE {}

Asking(req) ==
  /\ toServer = <<req>> /\ toClient = <<>>
  /\ Right(server_cb, Held, kept, ToRelease(server_cb))

Answering(req, answer) ==
  /\ toServer = <<>> /\ toClient = <<[msg_id |-> req.msg_id, answer |-> answer]>>
  /\ Right(server_cb, Held, kept, Granted(server_cb, answer))
  /\ Granted(server_cb, answer) \subseteq Held

\* There is one request and it is on its way, or its reply is; or there is none.
Conversation ==
  IF server_cb.state = "CONN_RPYWAIT"
  THEN \E req \in Requests :
         /\ reqQ = <<req>> /\ req.cfg = server_cb.locks_cur_cfg
         /\ req.op = Requested(server_cb.command_mode)
         /\ Asking(req) \/ \E answer \in Answers : Answering(req, answer)
  ELSE /\ reqQ = <<>> /\ toServer = <<>> /\ toClient = <<>>
       /\ Right(server_cb, Held, kept, {})

IInv == Types /\ (~gaveUp => ~lost /\ Conversation)

\* A client whose time has come to go on: it has every lock it takes itself to
\* have, and no other one that it did not have before.
Known(cb, held, bef) ==
  /\ cb.state = "CONN_IDLE" /\ cb.send = <<>>
  /\ cb.locks_active /\ cb.lock_used = Used
  /\ In(cb, "ACTIVE") \subseteq held
  /\ held \subseteq bef \cup In(cb, "ACTIVE")

\* Where it has gone, and what it sends on leaving.
Moved(cb, held, bef) ==
  /\ Right(cb, held, bef, ToRelease(cb))
  /\ cb.send = IF cb.state = "CONN_RPYWAIT"
               THEN <<[op |-> Requested(cb.command_mode), cfg |-> cb.locks_cur_cfg]>>
               ELSE <<>>

LEMMA ClearMoves ==
  ASSUME NEW cb \in ControlBlocks, NEW held, NEW bef,
         cb.state = "CONN_IDLE", cb.send = <<>>, cb.locks_cleanup => held \subseteq bef
  PROVE  Moved(clear_lock_cbs(cb), held, bef)
<1> DEFINE r == clear_lock_cbs(cb)
<1>1. /\ r.state = "CONN_IDLE" /\ r.send = <<>> /\ r.command_mode = "NORMAL"
      /\ ~r.locks_active /\ r.lock_used = {} /\ r.locks_cleanup = cb.locks_cleanup
  BY DEF clear_lock_cbs, ControlBlocks
<1> HIDE DEF r
<1>2. In(r, "ACTIVE") = {}
  BY <1>1 DEF In
<1>3. Right(r, held, bef, ToRelease(r))
  BY <1>1, <1>2 DEF Right, ToRelease
<1> QED BY <1>1, <1>3 DEF Moved, r

\* A request for a lock, or for its release.
LEMMA SendLockFields ==
  ASSUME NEW cb \in ControlBlocks, NEW c \in Used, NEW op \in {"lock", "unlock"}
  PROVE  LET r == send_lock_pdu_to_server(cb, c, op) IN
         /\ r.state = "CONN_RPYWAIT" /\ r.command_mode = cb.command_mode
         /\ r.locks_active = cb.locks_active
         /\ r.locks_cur_cfg = c /\ r.lock_used = cb.lock_used
         /\ r.send = <<[op |-> op, cfg |-> c]>>
         /\ r.lock_state[c] # "ACTIVE"
         /\ In(r, "ACTIVE") = In(cb, "ACTIVE") \ {c}
<1> DEFINE st == IF op = "lock" THEN "REQUEST_SENT" ELSE "RELEASE_SENT"
           r == send_lock_pdu_to_server(cb, c, op)
<1>1. /\ r.state = "CONN_RPYWAIT" /\ r.command_mode = cb.command_mode
      /\ r.locks_active = cb.locks_active
      /\ r.locks_cur_cfg = c /\ r.lock_used = cb.lock_used
      /\ r.send = <<[op |-> op, cfg |-> c]>>
      /\ r.lock_state = [cb.lock_state EXCEPT ![c] = st]
  BY DEF send_lock_pdu_to_server, ControlBlocks
<1> HIDE DEF r
<1>2. cb.lock_state \in [Used -> LockStates] /\ st # "ACTIVE" /\ cb.lock_used \subseteq Used
  BY DEF ControlBlocks
<1>3. r.lock_state[c] # "ACTIVE"
  BY <1>1, <1>2
<1>4. In(r, "ACTIVE") = In(cb, "ACTIVE") \ {c}
  BY <1>1, <1>2 DEF In
<1> QED BY <1>1, <1>3, <1>4 DEF r

LEMMA LockMoves ==
  ASSUME NEW cb \in ControlBlocks, NEW held, NEW bef, Known(cb, held, bef),
         NEW c \in Used, cb.lock_state[c] # "ACTIVE", NEW w \in BOOLEAN,
         NEW r, r = send_lock_pdu_to_server([cb EXCEPT !.command_mode = "AUTOLOCK",
                                                       !.locks_waiting = w], c, "lock")
  PROVE  Moved(r, held, bef)
<1> DEFINE b == [cb EXCEPT !.command_mode = "AUTOLOCK", !.locks_waiting = w]
<1>1. /\ b \in ControlBlocks /\ b.command_mode = "AUTOLOCK" /\ b.locks_active = cb.locks_active
      /\ b.locks_cleanup = cb.locks_cleanup /\ b.lock_used = cb.lock_used
      /\ b.lock_state = cb.lock_state
  BY DEF ControlBlocks, Modes
<1> HIDE DEF b
<1>2. /\ r.state = "CONN_RPYWAIT" /\ r.command_mode = "AUTOLOCK"
      /\ r.locks_active = cb.locks_active
      /\ r.locks_cur_cfg = c /\ r.lock_used = cb.lock_used
      /\ r.send = <<[op |-> "lock", cfg |-> c]>>
      /\ r.lock_state[c] # "ACTIVE"
      /\ In(r, "ACTIVE") = In(b, "ACTIVE") \ {c}
  <2> DEFINE s == send_lock_pdu_to_server(b, c, "lock")
  <2>1. b \in ControlBlocks /\ c \in Used /\ "lock" \in {"lock", "unlock"}
    BY <1>1
  <2>2. /\ s.state = "CONN_RPYWAIT" /\ s.command_mode = b.command_mode
        /\ s.locks_active = b.locks_active
        /\ s.locks_cur_cfg = c /\ s.lock_used = b.lock_used
        /\ s.send = <<[op |-> "lock", cfg |-> c]>>
        /\ s.lock_state[c] # "ACTIVE"
        /\ In(s, "ACTIVE") = In(b, "ACTIVE") \ {c}
    BY <2>1, SendLockFields, Zenon
  <2>3. r = s
    BY DEF b
  <2> HIDE DEF s
  <2> QED BY <1>1, <2>2, <2>3
<1>3. In(r, "ACTIVE") = In(cb, "ACTIVE")
  BY <1>1, <1>2 DEF In
<1>4. Right(r, held, bef, ToRelease(r))
  BY <1>2, <1>3 DEF Right, ToRelease, Known
<1> QED BY <1>2, <1>4 DEF Moved, Requested

LEMMA UnlockMoves ==
  ASSUME NEW cb \in ControlBlocks, NEW held, NEW bef, Known(cb, held, bef),
         NEW c \in In(cb, "ACTIVE"), NEW t \in BOOLEAN,
         NEW r, r = send_lock_pdu_to_server([cb EXCEPT !.command_mode = "AUTOUNLOCK",
                                                       !.timeUp = t], c, "unlock")
  PROVE  Moved(r, held, bef)
<1> DEFINE b == [cb EXCEPT !.command_mode = "AUTOUNLOCK", !.timeUp = t]
<1>1. /\ b \in ControlBlocks /\ b.command_mode = "AUTOUNLOCK" /\ b.locks_active = cb.locks_active
      /\ b.locks_cleanup = cb.locks_cleanup /\ b.lock_used = cb.lock_used
      /\ b.lock_state = cb.lock_state /\ c \in Used
  BY UsedNumbers DEF ControlBlocks, Modes
<1> HIDE DEF b
<1>2. /\ r.state = "CONN_RPYWAIT" /\ r.command_mode = "AUTOUNLOCK"
      /\ r.locks_active = cb.locks_active
      /\ r.locks_cur_cfg = c /\ r.lock_used = cb.lock_used
      /\ r.send = <<[op |-> "unlock", cfg |-> c]>>
      /\ r.lock_state[c] # "ACTIVE"
      /\ In(r, "ACTIVE") = In(b, "ACTIVE") \ {c}
  <2> DEFINE s == send_lock_pdu_to_server(b, c, "unlock")
  <2>1. b \in ControlBlocks /\ c \in Used /\ "unlock" \in {"lock", "unlock"}
    BY <1>1
  <2>2. /\ s.state = "CONN_RPYWAIT" /\ s.command_mode = b.command_mode
        /\ s.locks_active = b.locks_active
        /\ s.locks_cur_cfg = c /\ s.lock_used = b.lock_used
        /\ s.send = <<[op |-> "unlock", cfg |-> c]>>
        /\ s.lock_state[c] # "ACTIVE"
        /\ In(s, "ACTIVE") = In(b, "ACTIVE") \ {c}
    BY <2>1, SendLockFields, ZenonT(60)
  <2>3. r = s
    BY DEF b
  <2> HIDE DEF s
  <2> QED BY <1>1, <2>2, <2>3
<1>3. In(r, "ACTIVE") = In(cb, "ACTIVE") \ {c}
  BY <1>1, <1>2 DEF In
<1>4. held \subseteq (bef \cup In(r, "ACTIVE")) \cup {c}
  BY <1>3 DEF Known
<1>5. Right(r, held, bef, ToRelease(r))
  BY <1>2, <1>3, <1>4 DEF Right, ToRelease, Known
<1> QED BY <1>2, <1>5 DEF Moved, Requested

LEMMA DiscardMoves ==
  ASSUME NEW cb \in ControlBlocks, NEW held, NEW bef, Known(cb, held, bef),
         cb.locks_cur_cfg = candidate, cb.lock_state[candidate] # "ACTIVE"
  PROVE  Moved(send_discard_changes_pdu_to_server(cb), held, bef)
<1> DEFINE r == send_discard_changes_pdu_to_server(cb)
<1>1. /\ r.state = "CONN_RPYWAIT" /\ r.command_mode = "AUTODISCARD"
      /\ r.locks_active = cb.locks_active
      /\ r.locks_cur_cfg = candidate /\ r.lock_used = cb.lock_used
      /\ r.lock_state = cb.lock_state
      /\ r.send = <<[op |-> "discard-changes", cfg |-> candidate]>>
  BY DEF send_discard_changes_pdu_to_server, ControlBlocks
<1> HIDE DEF r
<1>2. In(r, "ACTIVE") = In(cb, "ACTIVE")
  BY <1>1 DEF In
<1>3. Right(r, held, bef, ToRelease(r))
  BY <1>1, <1>2 DEF Right, ToRelease, Known
<1> QED BY <1>1, <1>3 DEF Moved, Requested, r

LEMMA ReleaseMoves ==
  ASSUME NEW cb \in ControlBlocks, NEW held, NEW bef, Known(cb, held, bef),
         NEW first \in BOOLEAN, first \/ ~cb.timeUp
  PROVE  Moved(handle_release_locks_request_to_server(cb, first), held, bef)
<1> SUFFICES ASSUME NEW r, r = handle_release_locks_request_to_server(cb, first)
             PROVE  Moved(r, held, bef)
  OBVIOUS
<1>1. CASE /\ In(cb, "ACTIVE") = {}
           /\ r = clear_lock_cbs([cb EXCEPT !.state = "CONN_IDLE"])
  <2>1. [cb EXCEPT !.state = "CONN_IDLE"] = cb
    BY DEF Known, ControlBlocks
  <2>2. held \subseteq bef
    BY <1>1 DEF Known
  <2> QED BY <1>1, <2>1, <2>2, ClearMoves DEF Known
<1>2. ASSUME NEW c \in In(cb, "ACTIVE"), NEW t \in BOOLEAN,
             r = send_lock_pdu_to_server([cb EXCEPT !.command_mode = "AUTOUNLOCK",
                                                    !.timeUp = t], c, "unlock")
      PROVE  Moved(r, held, bef)
  BY <1>2, UnlockMoves, Zenon
<1>3. GoesBack(cb, first, r)
  BY ReleaseCases, Zenon
<1> QED BY <1>1, <1>2, <1>3, Zenon DEF GoesBack

LEMMA CleanupMoves ==
  ASSUME NEW cb \in ControlBlocks, NEW held, NEW bef, Known(cb, held, bef)
  PROVE  Moved(handle_locks_cleanup(cb), held, bef)
<1>1. CASE cb.locks_cleanup
  BY <1>1, ReleaseMoves DEF handle_locks_cleanup
<1>2. CASE ~cb.locks_cleanup
  BY <1>2, ClearMoves DEF handle_locks_cleanup, Known
<1> QED BY <1>1, <1>2

LEMMA GetLocksMoves ==
  ASSUME NEW cb \in ControlBlocks, NEW held, NEW bef, NEW due, Known(cb, held, bef),
         cb.command_mode = "AUTOLOCK" \/ (~cb.timeUp /\ In(cb, "IDLE") = Used)
  PROVE  Moved(handle_get_locks(cb, due), held, bef)
<1> SUFFICES ASSUME NEW r, r = handle_get_locks(cb, due) PROVE Moved(r, held, bef)
  OBVIOUS
<1>1. CASE r = handle_locks_cleanup(cb)
  BY <1>1, CleanupMoves
<1>2. ASSUME NEW c \in In(cb, "IDLE") \cup In(cb, "TEMP_ERROR"), NEW w \in BOOLEAN,
             r = send_lock_pdu_to_server([cb EXCEPT !.command_mode = "AUTOLOCK",
                                                    !.locks_waiting = w], c, "lock")
      PROVE  Moved(r, held, bef)
  <2>1. c \in Used /\ cb.lock_state[c] # "ACTIVE"
    BY UsedNumbers DEF In
  <2> QED BY <1>2, <2>1, LockMoves, Zenon
<1>3. ASSUME cb.command_mode = "AUTOLOCK",
             \/ r = cb \/ r = [cb EXCEPT !.locks_waiting = TRUE]
      PROVE  Moved(r, held, bef)
  <2>1. /\ r.state = "CONN_IDLE" /\ r.send = <<>> /\ r.command_mode = "AUTOLOCK"
        /\ r.locks_active = cb.locks_active /\ r.lock_used = cb.lock_used
        /\ r.lock_state = cb.lock_state
    BY <1>3 DEF ControlBlocks, Known
  <2>2. In(r, "ACTIVE") = In(cb, "ACTIVE")
    BY <2>1 DEF In
  <2> QED BY <2>1, <2>2 DEF Moved, Right, ToRelease, Known
<1>4. ASSUME get_lock_worked(cb),
             r = [cb EXCEPT !.command_mode = "NORMAL", !.locks_waiting = FALSE]
      PROVE  Moved(r, held, bef)
  <2>1. /\ r.state = "CONN_IDLE" /\ r.send = <<>> /\ r.command_mode = "NORMAL"
        /\ r.locks_active = cb.locks_active /\ r.lock_used = cb.lock_used
        /\ r.lock_state = cb.lock_state
    BY <1>4 DEF ControlBlocks, Known
  <2>2. In(r, "ACTIVE") = In(cb, "ACTIVE") /\ In(r, "ACTIVE") = Used
    BY <1>4, <2>1 DEF In, get_lock_worked, Known
  <2> QED BY <2>1, <2>2 DEF Moved, Right, ToRelease, Known
<1>5. In(cb, "IDLE") = Used => In(cb, "FATAL_ERROR") = {} /\ In(cb, "IDLE") # {}
  BY UsedNumbers DEF In, Known
<1>6. ASSUME ~cb.timeUp /\ In(cb, "FATAL_ERROR") # {} /\ r = cb PROVE Moved(r, held, bef)
  BY <1>3, <1>5, <1>6
<1>7. ASSUME ~cb.timeUp /\ In(cb, "IDLE") = {} /\ r = [cb EXCEPT !.locks_waiting = TRUE]
      PROVE  Moved(r, held, bef)
  BY <1>3, <1>5, <1>7
<1>8. ASSUME /\ ~cb.timeUp /\ In(cb, "IDLE") = {} /\ get_lock_worked(cb)
             /\ r = [cb EXCEPT !.command_mode = "NORMAL", !.locks_waiting = FALSE]
      PROVE  Moved(r, held, bef)
  BY <1>4, <1>8
<1>9. GoesOn(cb, r)
  BY GetLocksCases, Zenon
<1> QED BY <1>1, <1>2, <1>6, <1>7, <1>8, <1>9, Zenon DEF GoesOn

\* A client that has had its reply is one whose time has come to go on.
LEMMA ReplyMoves ==
  ASSUME NEW cb \in ControlBlocks, NEW held, NEW bef, NEW answer \in Answers, NEW due,
         cb.state = "CONN_RPYWAIT", cb.send = <<>>,
         Right(cb, held, bef, Granted(cb, answer)), Granted(cb, answer) \subseteq held,
         ~(cb.command_mode = "AUTOUNLOCK" /\ cb.timeUp)
  PROVE  Moved(yangcli_reply_handler(cb, answer, due), held, bef)
<1> DEFINE idle == [cb EXCEPT !.state = "CONN_IDLE"]
           cur == cb.locks_cur_cfg
           Got(st) == [idle EXCEPT !.lock_state[cur] = st]
<1>1. /\ idle \in ControlBlocks /\ idle.locks_cur_cfg = cur /\ cur \in Used
      /\ idle.state = "CONN_IDLE" /\ idle.send = <<>>
      /\ idle.locks_active /\ idle.lock_used = Used
      /\ idle.command_mode = cb.command_mode /\ idle.timeUp = cb.timeUp
      /\ idle.lock_state = cb.lock_state /\ idle.lock_state[cur] # "ACTIVE"
      /\ In(idle, "ACTIVE") = In(cb, "ACTIVE")
      /\ In(cb, "ACTIVE") \subseteq held
      /\ held \subseteq (bef \cup In(cb, "ACTIVE")) \cup Granted(cb, answer)
      /\ cb.command_mode \in {"AUTOLOCK", "AUTODISCARD", "AUTOUNLOCK"}
      /\ (cb.command_mode = "AUTODISCARD" => cur = candidate)
  <2>1. idle \in ControlBlocks /\ cur \in Used /\ cb.command_mode \in Modes
    BY IdleType DEF ControlBlocks
  <2>2. /\ cb.command_mode # "NORMAL" /\ cb.locks_active /\ cb.lock_used = Used
        /\ cb.lock_state[cur] # "ACTIVE"
        /\ In(cb, "ACTIVE") \subseteq held
        /\ held \subseteq (bef \cup In(cb, "ACTIVE")) \cup Granted(cb, answer)
        /\ (cb.command_mode = "AUTODISCARD" => cur = candidate)
    BY DEF Right
  <2>3. /\ idle.locks_cur_cfg = cur /\ idle.state = "CONN_IDLE" /\ idle.send = <<>>
        /\ (idle.locks_active <=> cb.locks_active) /\ idle.lock_used = cb.lock_used
        /\ idle.command_mode = cb.command_mode /\ idle.timeUp = cb.timeUp
        /\ idle.lock_state = cb.lock_state
    BY DEF ControlBlocks
  <2> HIDE DEF idle, cur
  <2>4. In(idle, "ACTIVE") = In(cb, "ACTIVE")
    BY <2>3 DEF In
  <2> QED BY <2>1, <2>2, <2>3, <2>4 DEF Modes
<1> HIDE DEF idle, cur
<1>2. ASSUME NEW st \in LockStates
      PROVE  /\ Got(st) \in ControlBlocks /\ Got(st).command_mode = cb.command_mode
             /\ Got(st).timeUp = cb.timeUp /\ Got(st).state = "CONN_IDLE"
             /\ Got(st).send = <<>> /\ Got(st).locks_active /\ Got(st).lock_used = Used
             /\ In(Got(st), "ACTIVE") = IF st = "ACTIVE" THEN In(cb, "ACTIVE") \cup {cur}
                                        ELSE In(cb, "ACTIVE")
  <2>1. Got(st) \in ControlBlocks
    BY <1>1, IdleType
  <2>2. /\ Got(st).command_mode = cb.command_mode
        /\ Got(st).timeUp = cb.timeUp /\ Got(st).state = "CONN_IDLE"
        /\ Got(st).send = <<>> /\ Got(st).locks_active /\ Got(st).lock_used = Used
        /\ Got(st).lock_state = [idle.lock_state EXCEPT ![cur] = st]
    BY <1>1 DEF ControlBlocks
  <2>3. idle.lock_state \in [Used -> LockStates]
    BY <1>1 DEF ControlBlocks
  <2> HIDE DEF Got
  <2>4. In(Got(st), "ACTIVE") = IF st = "ACTIVE" THEN In(cb, "ACTIVE") \cup {cur}
                                ELSE In(cb, "ACTIVE")
    BY <1>1, <2>2, <2>3 DEF In
  <2> QED BY <2>1, <2>2, <2>4
<1> HIDE DEF Got
<1>3. ASSUME NEW st \in LockStates, st # "ACTIVE" => Granted(cb, answer) = {},
             st = "ACTIVE" => Granted(cb, answer) = {cur}
      PROVE  Known(Got(st), held, bef)
  BY <1>1, <1>2, <1>3 DEF Known
<1>4. Granted(cb, answer) = {} => Known(idle, held, bef)
  BY <1>1 DEF Known
<1>5. CASE cb.command_mode = "AUTOLOCK"
  <2>1. yangcli_reply_handler(cb, answer, due) = lock_reply(idle, answer, due)
    BY <1>5 DEF yangcli_reply_handler, idle
  <2>2. CASE answer = "ok"
    <3>1. Known(Got("ACTIVE"), held, bef)
      BY <1>3, <1>5, <2>2 DEF Granted, cur, LockStates
    <3>2. Got("ACTIVE") \in ControlBlocks /\ Got("ACTIVE").command_mode = "AUTOLOCK"
      BY <1>2, <1>5 DEF LockStates
    <3>3. Moved(handle_get_locks(Got("ACTIVE"), due), held, bef)
      BY <3>1, <3>2, GetLocksMoves, Zenon
    <3>4. lock_reply(idle, answer, due) = handle_get_locks(Got("ACTIVE"), due)
      BY <1>1, <2>2 DEF lock_reply, Got
    <3> QED BY <2>1, <3>3, <3>4
  <2>3. CASE answer = "lock-denied"
    <3>1. Known(Got("TEMP_ERROR"), held, bef)
      BY <1>3, <1>5, <2>3 DEF Granted, LockStates
    <3>2. Got("TEMP_ERROR") \in ControlBlocks /\ Got("TEMP_ERROR").command_mode = "AUTOLOCK"
      BY <1>2, <1>5 DEF LockStates
    <3>3. Moved(handle_get_locks(Got("TEMP_ERROR"), due), held, bef)
      BY <3>1, <3>2, GetLocksMoves, Zenon
    <3>4. lock_reply(idle, answer, due) = handle_get_locks(Got("TEMP_ERROR"), due)
      BY <1>1, <2>3 DEF lock_reply, Got
    <3> QED BY <2>1, <3>3, <3>4
  <2>4. CASE answer = "error" /\ cur = candidate
    <3>1. Known(idle, held, bef)
      BY <1>4, <2>4 DEF Granted
    <3>2. idle.locks_cur_cfg = candidate /\ idle.lock_state[candidate] # "ACTIVE"
      BY <1>1, <2>4
    <3>3. Moved(send_discard_changes_pdu_to_server(idle), held, bef)
      BY <1>1, <3>1, <3>2, DiscardMoves, Zenon
    <3>4. lock_reply(idle, answer, due) = send_discard_changes_pdu_to_server(idle)
      BY <1>1, <2>4 DEF lock_reply
    <3> QED BY <2>1, <3>3, <3>4
  <2>5. CASE answer = "error" /\ cur # candidate
    <3>1. Known(Got("FATAL_ERROR"), held, bef) /\ Got("FATAL_ERROR").command_mode = "AUTOLOCK"
      BY <1>2, <1>3, <1>5, <2>5 DEF Granted, LockStates
    <3>2. Moved(Got("FATAL_ERROR"), held, bef)
      BY <3>1 DEF Known, Moved, Right, ToRelease
    <3>3. lock_reply(idle, answer, due) = Got("FATAL_ERROR")
      BY <1>1, <2>5 DEF lock_reply, Got
    <3> QED BY <2>1, <3>2, <3>3
  <2> QED BY <2>2, <2>3, <2>4, <2>5 DEF Answers
<1>6. CASE cb.command_mode = "AUTODISCARD"
  <2> DEFINE back == [idle EXCEPT !.command_mode = "AUTOLOCK"]
  <2>1. yangcli_reply_handler(cb, answer, due) = discard_reply(idle, answer, due)
    BY <1>6 DEF yangcli_reply_handler, idle
  <2>2. Known(idle, held, bef)
    BY <1>4, <1>6 DEF Granted
  <2>3. back \in ControlBlocks
    BY <1>1, IdleType
  <2>4. /\ back.command_mode = "AUTOLOCK"
        /\ back.state = idle.state /\ back.send = idle.send
        /\ (back.locks_active <=> idle.locks_active) /\ back.lock_used = idle.lock_used
        /\ back.lock_state = idle.lock_state
    BY <1>1 DEF ControlBlocks
  <2> HIDE DEF back
  <2>5. In(back, "ACTIVE") = In(idle, "ACTIVE")
    BY <2>4 DEF In
  <2>6. Known(back, held, bef)
    BY <2>2, <2>4, <2>5 DEF Known
  <2>7. Moved(handle_get_locks(back, due), held, bef)
    BY <2>3, <2>4, <2>6, GetLocksMoves, Zenon
  <2>8. Moved(handle_locks_cleanup(back), held, bef)
    BY <2>3, <2>6, CleanupMoves, Zenon
  <2> QED BY <2>1, <2>7, <2>8 DEF discard_reply, back
<1>7. CASE cb.command_mode = "AUTOUNLOCK"
  <2> DEFINE st == IF answer = "ok" THEN "RELEASED" ELSE "FATAL_ERROR"
  <2>1. yangcli_reply_handler(cb, answer, due) = unlock_reply(idle, answer)
    BY <1>7 DEF yangcli_reply_handler, idle
  <2>2. st \in LockStates /\ st # "ACTIVE" /\ Granted(cb, answer) = {}
    BY <1>7 DEF LockStates, Granted
  <2>3. unlock_reply(idle, answer) = handle_release_locks_request_to_server(Got(st), FALSE)
    BY <1>1 DEF unlock_reply, Got
  <2> HIDE DEF st
  <2>4. /\ Got(st) \in ControlBlocks /\ Known(Got(st), held, bef)
        /\ FALSE \in BOOLEAN /\ (FALSE \/ ~Got(st).timeUp)
    BY <1>2, <1>3, <1>7, <2>2
  <2>5. Moved(handle_release_locks_request_to_server(Got(st), FALSE), held, bef)
    BY <2>4, ReleaseMoves, Zenon
  <2> QED BY <2>1, <2>3, <2>5
<1> QED BY <1>1, <1>5, <1>6, <1>7

\* So is one whose time is up, if it waits for no reply.
LEMMA TimedOutMoves ==
  ASSUME NEW cb \in ControlBlocks, NEW held, NEW bef,
         cb.state = "CONN_IDLE", cb.send = <<>>, cb.command_mode # "NORMAL",
         Right(cb, held, bef, {})
  PROVE  Moved(timed_out(cb), held, bef)
<1>1. cb.command_mode = "AUTOLOCK" /\ Known(cb, held, bef)
  BY DEF Right, Known, ControlBlocks, Modes
<1>2. [cb EXCEPT !.state = "CONN_IDLE", !.command_mode = "AUTOLOCK"] = cb
  BY <1>1 DEF ControlBlocks
<1>3. timed_out(cb) = handle_locks_cleanup(cb)
  BY <1>1, <1>2 DEF timed_out
<1>4. Moved(handle_locks_cleanup(cb), held, bef)
  BY <1>1, CleanupMoves, Zenon
<1> QED BY <1>3, <1>4

-----------------------------------------------------------------------------
(* Types of the state *)

LEMMA ShortenedQueue ==
  ASSUME NEW q \in Seq(Requests)
  PROVE  /\ \A n \in 1 .. Len(q) : SubSeq(q, n + 1, Len(q)) \in Seq(Requests)
         /\ \A S \in SUBSET DOMAIN q : S # {} => RemoveAt(q, Min(S)) \in Seq(Requests)
<1>1. Len(q) \in Nat /\ DOMAIN q = 1 .. Len(q) /\ \A i \in 1 .. Len(q) : q[i] \in Requests
  OBVIOUS
<1> HIDE DEF Requests
<1>2. ASSUME NEW m \in Int, NEW n \in Int, 1 <= m, n <= Len(q)
      PROVE  SubSeq(q, m, n) \in Seq(Requests)
  <2>1. \A i \in m .. n : q[i] \in Requests
    BY <1>1, <1>2
  <2> QED BY <2>1, SubSeqProperties
<1>3. ASSUME NEW n \in 1 .. Len(q) PROVE SubSeq(q, n + 1, Len(q)) \in Seq(Requests)
  <2>1. n + 1 \in Int /\ Len(q) \in Int /\ 1 <= n + 1 /\ Len(q) <= Len(q)
    BY <1>1
  <2> QED BY <1>2, <2>1
<1>4. ASSUME NEW S \in SUBSET DOMAIN q, S # {}
      PROVE  RemoveAt(q, Min(S)) \in Seq(Requests)
  <2>1. Min(S) \in 1 .. Len(q)
    BY <1>1, <1>4, MinIsElement
  <2> DEFINE k == Min(S)
  <2> HIDE DEF k
  <2>2. /\ k - 1 \in Int /\ k + 1 \in Int /\ 1 <= k + 1 /\ k - 1 <= Len(q)
        /\ 1 \in Int /\ Len(q) \in Int /\ 1 <= 1 /\ Len(q) <= Len(q)
    BY <1>1, <2>1 DEF k
  <2>3. SubSeq(q, 1, k - 1) \in Seq(Requests) /\ SubSeq(q, k + 1, Len(q)) \in Seq(Requests)
    BY <1>2, <2>2
  <2>4. SubSeq(q, 1, k - 1) \o SubSeq(q, k + 1, Len(q)) \in Seq(Requests)
    BY <2>3, ConcatProperties, Zenon
  <2> QED BY <2>4, Zenon DEF RemoveAt, k
<1> QED BY <1>3, <1>4

LEMMA SendTypes ==
  ASSUME NEW cb \in ControlBlocks, NEW q \in Seq(Requests), Types, send_request(cb, q)
  PROVE  /\ server_cb' \in ControlBlocks /\ server_cb'.send = <<>>
         /\ next_id' \in 0..MaxRequestId
         /\ reqQ' \in Seq(Requests) /\ toServer' \in Seq(Requests)
<1> DEFINE d == [cb EXCEPT !.send = <<>>]
<1>1. d \in ControlBlocks /\ d.send = <<>>
  BY OneMessage DEF ControlBlocks
<1>2. server_cb' = d
  BY DEF send_request
<1>3. CASE cb.send = <<>>
  BY <1>1, <1>2, <1>3 DEF send_request, Types
<1>4. CASE cb.send # <<>>
  <2> DEFINE m == cb.send[1]
             req == [msg_id |-> next_id, op |-> m.op, cfg |-> m.cfg]
  <2>1. cb.send \in Sendings
    BY DEF ControlBlocks
  <2>2. m \in Messages
    BY <1>4, <2>1, OneMessage, Zenon
  <2> HIDE DEF m
  <2>3. req \in Requests
    BY <2>2 DEF Messages, Requests, Types
  <2>4. NextId(next_id) \in 0..MaxRequestId
    BY BoundsAssumption DEF NextId, Types
  <2>5. reqQ' = Append(q, req) /\ toServer' = Append(toServer, req) /\ next_id' = NextId(next_id)
    BY <1>4 DEF send_request, m
  <2>6. toServer \in Seq(Requests)
    BY DEF Types
  <2> HIDE DEF req, Requests
  <2>7. Append(q, req) \in Seq(Requests) /\ Append(toServer, req) \in Seq(Requests)
    BY <2>3, <2>6
  <2> QED BY <1>1, <1>2, <2>4, <2>5, <2>7
<1> QED BY <1>3, <1>4

LEMMA InitTypes == Init => Types
<1> SUFFICES ASSUME Init PROVE Types
  OBVIOUS
<1>1. server_cb \in ControlBlocks /\ server_cb.send = <<>>
  <2>1. <<>> \in Sendings
    BY OneMessage
  <2> HIDE DEF Sendings
  <2> QED BY <2>1, UsedNumbers DEF Init, ControlBlocks, States, Modes, LockStates
<1>2. /\ reqQ = <<>> /\ next_id = 0 /\ toServer = <<>> /\ toClient = <<>>
      /\ owner = [c \in Used |-> "nobody"] /\ dirty = FALSE
      /\ lost = FALSE /\ gaveUp = FALSE /\ kept = {}
  BY DEF Init
<1>3. owner \in [Used -> Owners] /\ next_id \in 0..MaxRequestId
  BY <1>2, BoundsAssumption DEF Owners
<1>4. /\ reqQ \in Seq(Requests) /\ toServer \in Seq(Requests) /\ toClient \in Seq(Replies)
      /\ kept \subseteq Used
  BY <1>2
<1> QED BY <1>1, <1>2, <1>3, <1>4 DEF Types

LEMMA ClientTypes ==
  ASSUME Types,
         \/ \E cleanup, timeout \in BOOLEAN : do_get_locks(cleanup, timeout)
         \/ do_release_locks \/ do_connect
         \/ \E due \in SUBSET Used : retry_locks(due)
         \/ locks_timed_out \/ message_timed_out \/ mgr_rpc_dispatch
         \/ time_passes \/ clear_server_cb_session
  PROVE  Types'
<1>0. /\ server_cb \in ControlBlocks /\ server_cb.send = <<>> /\ next_id \in 0..MaxRequestId
      /\ reqQ \in Seq(Requests) /\ toServer \in Seq(Requests) /\ toClient \in Seq(Replies)
      /\ owner \in [Used -> Owners] /\ dirty \in BOOLEAN /\ lost \in BOOLEAN
      /\ gaveUp \in BOOLEAN /\ kept \subseteq Used
  BY DEF Types
<1>1. ASSUME NEW cb \in ControlBlocks, NEW q \in Seq(Requests), send_request(cb, q),
             toClient' \in Seq(Replies), owner' = owner, dirty' = dirty, lost' = lost,
             gaveUp' \in BOOLEAN, kept' \subseteq Used
      PROVE  Types'
  <2>1. /\ server_cb' \in ControlBlocks /\ server_cb'.send = <<>>
        /\ next_id' \in 0..MaxRequestId
        /\ reqQ' \in Seq(Requests) /\ toServer' \in Seq(Requests)
    BY <1>1, SendTypes
  <2> QED BY <1>0, <1>1, <2>1 DEF Types
<1>2. ASSUME NEW cleanup \in BOOLEAN, NEW timeout \in BOOLEAN, do_get_locks(cleanup, timeout)
      PROVE  Types'
  <2> DEFINE a == setup_lock_cbs(server_cb)
             b == [a EXCEPT !.locks_cleanup = cleanup, !.locks_timeout = timeout,
                            !.timeUp = FALSE]
  <2>1. a \in ControlBlocks
    BY <1>0, SetupType
  <2> HIDE DEF a
  <2>2. b \in ControlBlocks
    BY <2>1 DEF ControlBlocks
  <2>3. send_request(handle_get_locks(b, {}), reqQ)
    BY <1>2, Zenon DEF do_get_locks, a
  <2> HIDE DEF b
  <2>4. handle_get_locks(b, {}) \in ControlBlocks
    BY <2>2, GetLocksType
  <2>5. /\ kept' = Held /\ toClient' = toClient /\ owner' = owner /\ dirty' = dirty
        /\ lost' = lost /\ gaveUp' = gaveUp
    BY <1>2 DEF do_get_locks
  <2>6. kept' \subseteq Used
    BY <2>5 DEF Held
  <2> QED BY <1>0, <1>1, <2>3, <2>4, <2>5, <2>6
<1>3. CASE do_release_locks
  <2> DEFINE b == [server_cb EXCEPT !.locks_cleanup = TRUE]
  <2>1. b \in ControlBlocks
    BY <1>0 DEF ControlBlocks
  <2>2. send_request(handle_release_locks_request_to_server(b, TRUE), reqQ)
    BY <1>3 DEF do_release_locks
  <2> HIDE DEF b
  <2>3. handle_release_locks_request_to_server(b, TRUE) \in ControlBlocks
    BY <2>1, ReleaseType
  <2>4. /\ kept' = kept /\ toClient' = toClient /\ owner' = owner /\ dirty' = dirty
        /\ lost' = lost /\ gaveUp' = gaveUp
    BY <1>3 DEF do_release_locks
  <2> QED BY <1>0, <1>1, <2>2, <2>3, <2>4
<1>4. CASE do_connect
  <2>1. server_cb' = [server_cb EXCEPT !.state = "CONN_IDLE"]
    BY <1>4 DEF do_connect
  <2>2. server_cb' \in ControlBlocks /\ server_cb'.send = <<>>
    BY <1>0, <2>1 DEF ControlBlocks, States
  <2> QED BY <1>0, <1>4, <2>2, BoundsAssumption DEF do_connect, Types
<1>5. ASSUME NEW due \in SUBSET Used, retry_locks(due)
      PROVE  Types'
  <2>1. handle_get_locks(server_cb, due) \in ControlBlocks
    BY <1>0, GetLocksType
  <2>2. /\ send_request(handle_get_locks(server_cb, due), reqQ)
        /\ kept' = kept /\ toClient' = toClient /\ owner' = owner /\ dirty' = dirty
        /\ lost' = lost /\ gaveUp' = gaveUp
    BY <1>5 DEF retry_locks
  <2> QED BY <1>0, <1>1, <2>1, <2>2
<1>6. timed_out(server_cb) \in ControlBlocks
  BY <1>0, TimedOutType
<1>7. CASE locks_timed_out
  <2>1. /\ send_request(timed_out(server_cb), reqQ)
        /\ kept' = kept /\ toClient' = toClient /\ owner' = owner /\ dirty' = dirty
        /\ lost' = lost /\ gaveUp' \in BOOLEAN
    BY <1>0, <1>7 DEF locks_timed_out
  <2> QED BY <1>0, <1>1, <1>6, <2>1
<1>8. CASE message_timed_out
  <2>1. /\ \E n \in 1..Len(reqQ) :
             send_request(timed_out(server_cb), SubSeq(reqQ, n + 1, Len(reqQ)))
        /\ kept' = kept /\ toClient' = toClient /\ owner' = owner /\ dirty' = dirty
        /\ lost' = lost /\ gaveUp' \in BOOLEAN
    BY <1>8 DEF message_timed_out
  <2>2. \A n \in 1..Len(reqQ) : SubSeq(reqQ, n + 1, Len(reqQ)) \in Seq(Requests)
    BY <1>0, ShortenedQueue
  <2> QED BY <1>0, <1>1, <1>6, <2>1, <2>2
<1>9. CASE mgr_rpc_dispatch
  <2> DEFINE rpy == Head(toClient)
             answered == {k \in DOMAIN reqQ : reqQ[k].msg_id = rpy.msg_id}
  <2>1. /\ toClient # <<>> /\ toClient' = Tail(toClient)
        /\ kept' = kept /\ owner' = owner /\ dirty' = dirty
        /\ lost' = lost /\ gaveUp' \in BOOLEAN
    BY <1>0, <1>9 DEF mgr_rpc_dispatch
  <2>2. toClient' \in Seq(Replies) /\ rpy \in Replies
    BY <1>0, <2>1, HeadTailProperties, Zenon
  <2>3. rpy.answer \in Answers
    BY <2>2 DEF Replies, Answers
  <2>4. \/ /\ server_cb' = server_cb /\ reqQ' = reqQ /\ next_id' = next_id
           /\ toServer' = toServer
        \/ /\ answered # {}
           /\ \E due \in SUBSET Used :
                send_request(yangcli_reply_handler(server_cb, rpy.answer, due),
                             RemoveAt(reqQ, Min(answered)))
    BY <1>9 DEF mgr_rpc_dispatch
  <2>5. answered \in SUBSET DOMAIN reqQ
    OBVIOUS
  <2> HIDE DEF answered, rpy
  <2>6. answered # {} => RemoveAt(reqQ, Min(answered)) \in Seq(Requests)
    BY <1>0, <2>5, ShortenedQueue
  <2>7. \A due : yangcli_reply_handler(server_cb, rpy.answer, due) \in ControlBlocks
    BY <1>0, <2>3, ReplyType
  <2>8. CASE /\ server_cb' = server_cb /\ reqQ' = reqQ /\ next_id' = next_id
             /\ toServer' = toServer
    BY <1>0, <2>1, <2>2, <2>8 DEF Types
  <2>9. ASSUME NEW due \in SUBSET Used, answered # {},
               send_request(yangcli_reply_handler(server_cb, rpy.answer, due),
                            RemoveAt(reqQ, Min(answered)))
        PROVE  Types'
    BY <1>0, <1>1, <2>1, <2>2, <2>6, <2>7, <2>9
  <2> QED BY <2>4, <2>8, <2>9
<1>10. CASE time_passes
  <2>1. server_cb' = [server_cb EXCEPT !.timeUp = TRUE]
    BY <1>10 DEF time_passes
  <2>2. server_cb' \in ControlBlocks /\ server_cb'.send = <<>>
    BY <1>0, <2>1 DEF ControlBlocks
  <2> QED BY <1>0, <1>10, <2>2 DEF time_passes, Types
<1>11. CASE clear_server_cb_session
  <2>1. server_cb' = [server_cb EXCEPT !.state = "IDLE"]
    BY <1>11 DEF clear_server_cb_session
  <2>2. server_cb' \in ControlBlocks /\ server_cb'.send = <<>>
    BY <1>0, <2>1 DEF ControlBlocks, States
  <2> QED BY <1>0, <1>11, <2>2 DEF clear_server_cb_session, Types
<1> QED BY <1>2, <1>3, <1>4, <1>5, <1>7, <1>8, <1>9, <1>10, <1>11

LEMMA AnswerTypes ==
  ASSUME Types, toServer # <<>>, NEW answer \in Answers, Answer(Head(toServer), answer)
  PROVE  /\ Head(toServer) \in Requests
         /\ toServer' \in Seq(Requests) /\ toClient' \in Seq(Replies)
<1> DEFINE req == Head(toServer)
           rpy == [msg_id |-> req.msg_id, answer |-> answer]
<1>1. /\ toServer \in Seq(Requests) /\ toClient \in Seq(Replies)
      /\ toServer' = Tail(toServer) /\ toClient' = Append(toClient, rpy)
  BY DEF Types, Answer
<1>2. req \in Requests /\ Tail(toServer) \in Seq(Requests)
  BY <1>1, HeadTailProperties, Zenon
<1> HIDE DEF req
<1>3. rpy \in Replies
  BY <1>2 DEF Requests, Replies, Answers
<1> HIDE DEF rpy, Replies
<1>4. Append(toClient, rpy) \in Seq(Replies)
  BY <1>1, <1>3
<1> QED BY <1>1, <1>2, <1>4 DEF req

LEMMA ServerTypes ==
  ASSUME Types, \/ server_lock \/ server_unlock \/ server_discard_changes
                \/ other_session \/ connection_lost
  PROVE  Types'
<1>0. /\ server_cb \in ControlBlocks /\ server_cb.send = <<>> /\ next_id \in 0..MaxRequestId
      /\ reqQ \in Seq(Requests) /\ toServer \in Seq(Requests) /\ toClient \in Seq(Replies)
      /\ owner \in [Used -> Owners] /\ dirty \in BOOLEAN /\ lost \in BOOLEAN
      /\ gaveUp \in BOOLEAN /\ kept \subseteq Used
  BY DEF Types
<1>1. ASSUME server_cb' = server_cb, reqQ' = reqQ, next_id' = next_id,
             toServer' \in Seq(Requests), toClient' \in Seq(Replies),
             owner' \in [Used -> Owners], dirty' \in BOOLEAN,
             lost' \in BOOLEAN, gaveUp' \in BOOLEAN, kept' \subseteq Used
      PROVE  Types'
  BY <1>0, <1>1 DEF Types
<1>2. ASSUME NEW c, NEW o \in Owners PROVE [owner EXCEPT ![c] = o] \in [Used -> Owners]
  BY <1>0
<1>3. {"nobody", "client", "other"} \subseteq Owners
  BY DEF Owners
<1>4. CASE server_lock
  <2>1. /\ toServer # <<>> /\ \E answer \in Answers : Answer(Head(toServer), answer)
        /\ owner' = owner \/ owner' = [owner EXCEPT ![Head(toServer).cfg] = "client"]
        /\ server_cb' = server_cb /\ reqQ' = reqQ /\ next_id' = next_id /\ dirty' = dirty
        /\ lost' = lost /\ gaveUp' = gaveUp /\ kept' = kept
    BY <1>4 DEF server_lock, Answers
  <2>2. toServer' \in Seq(Requests) /\ toClient' \in Seq(Replies)
    BY <2>1, AnswerTypes
  <2>3. owner' \in [Used -> Owners]
    BY <1>0, <1>2, <1>3, <2>1
  <2> QED BY <1>0, <1>1, <2>1, <2>2, <2>3
<1>5. CASE server_unlock
  <2>1. /\ toServer # <<>> /\ \E answer \in Answers : Answer(Head(toServer), answer)
        /\ owner' = owner \/ owner' = [owner EXCEPT ![Head(toServer).cfg] = "nobody"]
        /\ server_cb' = server_cb /\ reqQ' = reqQ /\ next_id' = next_id
        /\ dirty' \in BOOLEAN
        /\ lost' = lost /\ gaveUp' = gaveUp
        /\ kept' = kept \/ kept' = kept \cup {Head(toServer).cfg}
    BY <1>0, <1>5 DEF server_unlock, Answers
  <2>2. toServer' \in Seq(Requests) /\ toClient' \in Seq(Replies)
    BY <2>1, AnswerTypes
  <2>3. owner' \in [Used -> Owners]
    BY <1>0, <1>2, <1>3, <2>1
  <2>4. Head(toServer).cfg \in Used
    BY <2>1, AnswerTypes DEF Requests
  <2>5. kept' \subseteq Used
    BY <1>0, <2>1, <2>4
  <2> QED BY <1>0, <1>1, <2>1, <2>2, <2>3, <2>5
<1>6. CASE server_discard_changes
  <2>1. /\ toServer # <<>> /\ \E answer \in Answers : Answer(Head(toServer), answer)
        /\ owner' = owner /\ dirty' \in BOOLEAN
        /\ server_cb' = server_cb /\ reqQ' = reqQ /\ next_id' = next_id
        /\ lost' = lost /\ gaveUp' = gaveUp /\ kept' = kept
    BY <1>0, <1>6 DEF server_discard_changes, Answers
  <2>2. toServer' \in Seq(Requests) /\ toClient' \in Seq(Replies)
    BY <2>1, AnswerTypes
  <2> QED BY <1>0, <1>1, <2>1, <2>2
<1>7. CASE other_session
  <2>1. /\ server_cb' = server_cb /\ reqQ' = reqQ /\ next_id' = next_id
        /\ toServer' = toServer /\ toClient' = toClient
        /\ lost' = lost /\ gaveUp' = gaveUp /\ kept' = kept
    BY <1>7 DEF other_session
  <2>2. \/ /\ dirty' = dirty /\ \E c \in Used : owner' = [owner EXCEPT ![c] = "other"]
        \/ \E c \in Used : /\ owner' = [owner EXCEPT ![c] = "nobody"]
                           /\ dirty' = (dirty /\ c # candidate)
        \/ dirty' = ~dirty /\ owner' = owner
    BY <1>7 DEF other_session
  <2>3. owner' \in [Used -> Owners] /\ dirty' \in BOOLEAN
    BY <1>0, <1>2, <1>3, <2>2
  <2> QED BY <1>0, <1>1, <2>1, <2>3
<1>8. CASE connection_lost
  <2>1. /\ server_cb' = server_cb /\ reqQ' = reqQ /\ next_id' = next_id
        /\ toServer' = <<>> /\ toClient' = <<>> /\ lost' = TRUE /\ gaveUp' = TRUE
        /\ kept' = kept /\ dirty' \in BOOLEAN
        /\ owner' = [c \in Used |-> IF owner[c] = "client" THEN "nobody" ELSE owner[c]]
    BY <1>8 DEF connection_lost
  <2>2. owner' \in [Used -> Owners]
    BY <1>0, <1>3, <2>1
  <2>3. toServer' \in Seq(Requests) /\ toClient' \in Seq(Replies)
    BY <2>1
  <2> QED BY <1>0, <1>1, <2>1, <2>2, <2>3
<1> QED BY <1>4, <1>5, <1>6, <1>7, <1>8

-----------------------------------------------------------------------------
(* The conversation goes on *)

\* What the control block says does not depend on what was sent, nor on the time.
LEMMA SameControlBlock ==
  ASSUME NEW cb \in ControlBlocks, NEW d \in ControlBlocks, NEW held, NEW bef, NEW extra,
         d = [cb EXCEPT !.send = <<>>] \/ d = [cb EXCEPT !.timeUp = TRUE]
                                       \/ d = [cb EXCEPT !.locks_cleanup = TRUE],
         Right(cb, held, bef, extra), cb.locks_active \/ d.locks_cleanup = cb.locks_cleanup
  PROVE  /\ Right(d, held, bef, extra) /\ ToRelease(d) = ToRelease(cb)
         /\ \A answer : Granted(d, answer) = Granted(cb, answer)
         /\ d.state = cb.state /\ d.command_mode = cb.command_mode
         /\ d.locks_cur_cfg = cb.locks_cur_cfg
<1>1. /\ d.state = cb.state /\ d.command_mode = cb.command_mode
      /\ d.locks_cur_cfg = cb.locks_cur_cfg /\ (d.locks_active <=> cb.locks_active)
      /\ d.lock_used = cb.lock_used /\ d.lock_state = cb.lock_state
  BY DEF ControlBlocks
<1>2. In(d, "ACTIVE") = In(cb, "ACTIVE")
  BY <1>1 DEF In
<1>3. ToRelease(d) = ToRelease(cb) /\ \A answer : Granted(d, answer) = Granted(cb, answer)
  BY <1>1 DEF ToRelease, Granted
<1>4. Right(d, held, bef, extra)
  BY <1>1, <1>2 DEF Right
<1> QED BY <1>1, <1>3, <1>4

\* A client that has moved has sent its request and waits, or it waits for nothing.
LEMMA SendConverses ==
  ASSUME Types, NEW cb \in ControlBlocks, send_request(cb, <<>>), toServer = <<>>,
         toClient' = <<>>, Moved(cb, Held', kept')
  PROVE  Conversation'
<1> DEFINE d == [cb EXCEPT !.send = <<>>]
<1>1. d \in ControlBlocks /\ server_cb' = d
  BY OneMessage DEF ControlBlocks, send_request
<1>2. Right(cb, Held', kept', ToRelease(cb))
  BY DEF Moved
<1>3. /\ Right(d, Held', kept', ToRelease(cb)) /\ ToRelease(d) = ToRelease(cb)
      /\ d.state = cb.state /\ d.command_mode = cb.command_mode
      /\ d.locks_cur_cfg = cb.locks_cur_cfg
  <2>1. d.locks_cleanup = cb.locks_cleanup
    BY DEF ControlBlocks
  <2>2. d = [cb EXCEPT !.send = <<>>]
    OBVIOUS
  <2> HIDE DEF d
  <2> QED BY <1>1, <1>2, <2>1, <2>2, SameControlBlock
<1> HIDE DEF d
<1>4. cb.state \in {"CONN_IDLE", "CONN_RPYWAIT"}
  BY <1>2 DEF Right
<1>5. CASE cb.state = "CONN_IDLE"
  <2>1. cb.send = <<>> /\ ToRelease(cb) = {}
    BY <1>2, <1>5 DEF Moved, Right, ToRelease
  <2>2. reqQ' = <<>> /\ toServer' = <<>>
    BY <2>1 DEF send_request
  <2> QED BY <1>1, <1>3, <1>5, <2>1, <2>2 DEF Conversation
<1>6. CASE cb.state = "CONN_RPYWAIT"
  <2> DEFINE m == [op |-> Requested(cb.command_mode), cfg |-> cb.locks_cur_cfg]
  <2> SUFFICES ASSUME NEW CONSTANT req, req = [msg_id |-> next_id, op |-> m.op, cfg |-> m.cfg]
               PROVE  Conversation'
    OBVIOUS
  <2>1. cb.send = <<m>>
    BY <1>6 DEF Moved
  <2>2. cb.send # <<>> /\ cb.send[1] = m
    BY <2>1
  <2>3. reqQ' = Append(<<>>, req) /\ toServer' = Append(toServer, req)
    BY <2>2 DEF send_request
  <2>4. reqQ' = <<req>> /\ toServer' = <<req>>
    BY <2>3
  <2>5. /\ req \in Requests /\ req.cfg = d.locks_cur_cfg
        /\ req.op = Requested(d.command_mode)
    BY <1>3 DEF Requests, Requested, Ops, Types, ControlBlocks
  <2>6. /\ toServer' = <<req>> /\ toClient' = <<>>
        /\ Right(server_cb', Held', kept', ToRelease(server_cb'))
    BY <1>1, <1>3, <2>4, Zenon
  <2>7. Asking(req)'
    BY <2>6, Zenon DEF Asking
  <2>8. /\ server_cb'.state = "CONN_RPYWAIT" /\ reqQ' = <<req>>
        /\ req.cfg = server_cb'.locks_cur_cfg /\ req.op = Requested(server_cb'.command_mode)
    BY <1>1, <1>3, <1>6, <2>4, <2>5, Zenon
  <2>9. req \in Requests
    BY <2>5
  <2> QED BY <2>7, <2>8, <2>9, Zenon DEF Conversation
<1> QED BY <1>4, <1>5, <1>6

\* What is known of a client that waits for nothing, and of one that waits.
LEMMA Waiting ==
  ASSUME Types, Conversation
  PROVE  /\ server_cb.state \in {"CONN_IDLE", "CONN_RPYWAIT"}
         /\ server_cb.state = "CONN_IDLE" =>
              /\ reqQ = <<>> /\ toServer = <<>> /\ toClient = <<>>
              /\ Right(server_cb, Held, kept, {})
         /\ server_cb.state = "CONN_RPYWAIT" =>
              /\ server_cb.command_mode \in {"AUTOLOCK", "AUTOUNLOCK", "AUTODISCARD"}
              /\ server_cb.lock_used = Used
              /\ server_cb.lock_state[server_cb.locks_cur_cfg] # "ACTIVE"
         /\ In(server_cb, "ACTIVE") \subseteq Held
<1>1. CASE server_cb.state = "CONN_RPYWAIT"
  <2>1. PICK extra : Right(server_cb, Held, kept, extra)
    BY <1>1 DEF Conversation, Asking, Answering
  <2> QED BY <1>1, <2>1 DEF Right, Types, ControlBlocks, Modes
<1>2. CASE server_cb.state # "CONN_RPYWAIT"
  BY <1>2 DEF Conversation, Right
<1> QED BY <1>1, <1>2

LEMMA SameHeld == owner' = owner => Held' = Held
BY DEF Held

LEMMA UserConverses ==
  ASSUME Types, Conversation,
         \/ \E cleanup, timeout \in BOOLEAN : do_get_locks(cleanup, timeout)
         \/ do_release_locks \/ \E due \in SUBSET Used : retry_locks(due)
         \/ locks_timed_out /\ ~gaveUp'
  PROVE  Conversation'
<1>0. server_cb \in ControlBlocks /\ server_cb.send = <<>>
  BY DEF Types
<1>1. /\ server_cb.state = "CONN_IDLE" /\ toClient' = toClient
      /\ owner' = owner /\ Held' = Held
  BY Waiting, SameHeld DEF do_get_locks, do_release_locks, retry_locks, locks_timed_out,
                           Busy, Ready
<1>2. /\ reqQ = <<>> /\ toServer = <<>> /\ toClient = <<>>
      /\ Right(server_cb, Held, kept, {})
  BY <1>1, Waiting
<1>3. server_cb.command_mode # "NORMAL" => Known(server_cb, Held, kept)
  BY <1>0, <1>1, <1>2 DEF Right, Known
<1>4. ASSUME NEW cb \in ControlBlocks, send_request(cb, <<>>), Moved(cb, Held, kept')
      PROVE  Conversation'
  BY <1>1, <1>2, <1>4, SendConverses
<1>5. ASSUME NEW cleanup \in BOOLEAN, NEW timeout \in BOOLEAN, do_get_locks(cleanup, timeout)
      PROVE  Conversation'
  <2> DEFINE a == setup_lock_cbs(server_cb)
             b == [a EXCEPT !.locks_cleanup = cleanup, !.locks_timeout = timeout,
                            !.timeUp = FALSE]
  <2>1. a \in ControlBlocks
    BY <1>0, SetupType
  <2>2. /\ a.state = "CONN_IDLE" /\ a.send = <<>> /\ a.locks_active /\ a.lock_used = Used
        /\ a.lock_state = [c \in Used |-> "IDLE"]
    BY <1>0, <1>1 DEF setup_lock_cbs, ControlBlocks
  <2>3. send_request(handle_get_locks(b, {}), <<>>) /\ kept' = Held
    BY <1>2, <1>5, Zenon DEF do_get_locks
  <2> HIDE DEF a
  <2>4. /\ b \in ControlBlocks /\ b.state = "CONN_IDLE" /\ b.send = <<>>
        /\ b.locks_active /\ b.lock_used = Used
        /\ b.lock_state = [c \in Used |-> "IDLE"] /\ ~b.timeUp
    BY <2>1, <2>2 DEF ControlBlocks
  <2> HIDE DEF b
  <2>5. In(b, "ACTIVE") = {} /\ In(b, "IDLE") = Used
    BY <2>4 DEF In
  <2>6. Known(b, Held, Held)
    BY <2>4, <2>5 DEF Known
  <2>7. Moved(handle_get_locks(b, {}), Held, Held) /\ handle_get_locks(b, {}) \in ControlBlocks
    BY <2>4, <2>5, <2>6, GetLocksMoves, GetLocksType
  <2> QED BY <1>4, <2>3, <2>7
<1>6. CASE do_release_locks
  <2> DEFINE b == [server_cb EXCEPT !.locks_cleanup = TRUE]
  <2>1. /\ server_cb.locks_active /\ kept' = kept
        /\ send_request(handle_release_locks_request_to_server(b, TRUE), <<>>)
    BY <1>2, <1>6 DEF do_release_locks, Ready
  <2>2. b \in ControlBlocks /\ b.send = <<>> /\ (b.locks_active <=> server_cb.locks_active)
        /\ b.lock_used = server_cb.lock_used /\ b.lock_state = server_cb.lock_state
        /\ b.state = server_cb.state
    BY <1>0 DEF ControlBlocks
  <2> HIDE DEF b
  <2>3. In(b, "ACTIVE") = In(server_cb, "ACTIVE")
    BY <2>2 DEF In
  <2>4. Known(b, Held, kept)
    BY <1>1, <1>2, <2>1, <2>2, <2>3 DEF Right, Known
  <2>5. /\ Moved(handle_release_locks_request_to_server(b, TRUE), Held, kept)
        /\ handle_release_locks_request_to_server(b, TRUE) \in ControlBlocks
    BY <2>2, <2>4, ReleaseMoves, ReleaseType
  <2> QED BY <1>4, <2>1, <2>5
<1>7. ASSUME NEW due \in SUBSET Used, retry_locks(due)
      PROVE  Conversation'
  <2>1. /\ server_cb.command_mode = "AUTOLOCK" /\ kept' = kept
        /\ send_request(handle_get_locks(server_cb, due), <<>>)
    BY <1>2, <1>7 DEF retry_locks
  <2>2. Known(server_cb, Held, kept)
    BY <1>3, <2>1
  <2>3. /\ Moved(handle_get_locks(server_cb, due), Held, kept)
        /\ handle_get_locks(server_cb, due) \in ControlBlocks
    BY <1>0, <2>1, <2>2, GetLocksMoves, GetLocksType
  <2> QED BY <1>4, <2>1, <2>3
<1>8. CASE locks_timed_out
  <2>1. /\ server_cb.command_mode # "NORMAL" /\ kept' = kept
        /\ send_request(timed_out(server_cb), <<>>)
    BY <1>2, <1>8 DEF locks_timed_out, Busy
  <2>2. Moved(timed_out(server_cb), Held, kept) /\ timed_out(server_cb) \in ControlBlocks
    BY <1>0, <1>1, <1>2, <2>1, TimedOutMoves, TimedOutType
  <2> QED BY <1>4, <2>1, <2>2
<1> QED BY <1>5, <1>6, <1>7, <1>8

LEMMA OneRequest ==
  ASSUME NEW req, NEW S \in SUBSET DOMAIN <<req>>, S # {}
  PROVE  RemoveAt(<<req>>, Min(S)) = <<>>
<1>1. DOMAIN <<req>> = {1} /\ Len(<<req>>) = 1
  OBVIOUS
<1>2. S \in SUBSET Nat
  BY <1>1
<1>3. Min(S) \in S
  BY <1>2, MinIsElement
<1>4. Min(S) = 1
  BY <1>1, <1>3
<1>5. SubSeq(<<req>>, 1, 0) = <<>> /\ SubSeq(<<req>>, 2, 1) = <<>>
  BY SubSeqEmpty
<1>6. RemoveAt(<<req>>, 1) = SubSeq(<<req>>, 1, 0) \o SubSeq(<<req>>, 2, 1)
  BY <1>1 DEF RemoveAt
<1>7. <<>> \o <<>> = <<>>
  OBVIOUS
<1> QED BY <1>4, <1>5, <1>6, <1>7

LEMMA DispatchConverses ==
  ASSUME Types, Conversation, mgr_rpc_dispatch, ~gaveUp'
  PROVE  Conversation'
<1> DEFINE rpy == Head(toClient)
           answered == {k \in DOMAIN reqQ : reqQ[k].msg_id = rpy.msg_id}
<1>1. /\ server_cb \in ControlBlocks /\ server_cb.send = <<>>
      /\ ~(server_cb.command_mode = "AUTOUNLOCK" /\ server_cb.timeUp)
      /\ toClient # <<>> /\ toClient' = Tail(toClient)
      /\ owner' = owner /\ kept' = kept
  BY DEF Types, mgr_rpc_dispatch
<1>2. server_cb.state = "CONN_RPYWAIT"
  BY <1>1 DEF Conversation
<1>3. PICK req \in Requests :
        /\ reqQ = <<req>>
        /\ Asking(req) \/ \E answer \in Answers : Answering(req, answer)
  BY <1>2 DEF Conversation
<1>4. ~Asking(req)
  BY <1>1 DEF Asking
<1>5. PICK answer \in Answers : Answering(req, answer)
  BY <1>3, <1>4
<1>6. /\ toServer = <<>> /\ toClient = <<[msg_id |-> req.msg_id, answer |-> answer]>>
      /\ Right(server_cb, Held, kept, Granted(server_cb, answer))
      /\ Granted(server_cb, answer) \subseteq Held
  BY <1>5 DEF Answering
<1>7. reqQ = <<req>>
  BY <1>3, <1>4
<1>8. rpy = [msg_id |-> req.msg_id, answer |-> answer] /\ toClient' = <<>>
  BY <1>1, <1>6
<1>9. rpy.msg_id = req.msg_id /\ rpy.answer = answer
  BY <1>8
<1> HIDE DEF rpy
<1>10. 1 \in answered /\ answered \in SUBSET DOMAIN <<req>>
  BY <1>7, <1>9
<1> HIDE DEF answered
<1>11. RemoveAt(reqQ, Min(answered)) = <<>>
  BY <1>7, <1>10, OneRequest
<1>12. PICK due \in SUBSET Used :
         send_request(yangcli_reply_handler(server_cb, rpy.answer, due),
                      RemoveAt(reqQ, Min(answered)))
  BY <1>10 DEF mgr_rpc_dispatch, answered, rpy
<1>13. send_request(yangcli_reply_handler(server_cb, answer, due), <<>>)
  BY <1>9, <1>11, <1>12
<1>14. /\ Moved(yangcli_reply_handler(server_cb, answer, due), Held, kept)
       /\ yangcli_reply_handler(server_cb, answer, due) \in ControlBlocks
  BY <1>1, <1>2, <1>6, ReplyMoves, ReplyType
<1>15. Held' = Held
  BY <1>1, SameHeld
<1> QED BY <1>1, <1>6, <1>8, <1>13, <1>14, <1>15, SendConverses

LEMMA TimePassesConverses ==
  ASSUME Types, Conversation, time_passes
  PROVE  Conversation'
<1>1. /\ server_cb \in ControlBlocks /\ server_cb' = [server_cb EXCEPT !.timeUp = TRUE]
      /\ reqQ' = reqQ /\ toServer' = toServer /\ toClient' = toClient
      /\ owner' = owner /\ kept' = kept /\ Held' = Held
  BY SameHeld DEF Types, time_passes
<1>2. /\ server_cb' \in ControlBlocks /\ server_cb'.locks_cleanup = server_cb.locks_cleanup
      /\ server_cb'.state = server_cb.state
      /\ server_cb'.command_mode = server_cb.command_mode
      /\ server_cb'.locks_cur_cfg = server_cb.locks_cur_cfg
  BY <1>1 DEF ControlBlocks
<1>3. ASSUME NEW extra, Right(server_cb, Held, kept, extra)
      PROVE  /\ Right(server_cb', Held', kept', extra)
             /\ ToRelease(server_cb') = ToRelease(server_cb)
             /\ \A answer : Granted(server_cb', answer) = Granted(server_cb, answer)
  BY <1>1, <1>2, <1>3, SameControlBlock
<1>4. CASE server_cb.state = "CONN_RPYWAIT"
  <2>1. PICK req \in Requests :
          /\ reqQ = <<req>> /\ req.cfg = server_cb.locks_cur_cfg
          /\ req.op = Requested(server_cb.command_mode)
          /\ Asking(req) \/ \E answer \in Answers : Answering(req, answer)
    BY <1>4 DEF Conversation
  <2>2. CASE Asking(req)
    <3>1. /\ toServer' = <<req>> /\ toClient' = <<>>
          /\ Right(server_cb', Held', kept', ToRelease(server_cb'))
      BY <1>1, <1>3, <2>2 DEF Asking
    <3>2. Asking(req)'
      BY <3>1, Zenon DEF Asking
    <3> QED BY <1>1, <1>2, <1>4, <2>1, <3>2 DEF Conversation
  <2>3. ASSUME NEW answer \in Answers, Answering(req, answer)
        PROVE  Conversation'
    <3>1. /\ toServer = <<>> /\ toClient = <<[msg_id |-> req.msg_id, answer |-> answer]>>
          /\ Right(server_cb, Held, kept, Granted(server_cb, answer))
          /\ Granted(server_cb, answer) \subseteq Held
      BY <2>3 DEF Answering
    <3>2. /\ Right(server_cb', Held', kept', Granted(server_cb', answer))
          /\ Granted(server_cb', answer) \subseteq Held'
      BY <1>1, <1>3, <3>1
    <3>3. Answering(req, answer)'
      BY <1>1, <3>1, <3>2, Zenon DEF Answering
    <3> QED BY <1>1, <1>2, <1>4, <2>1, <3>3 DEF Conversation
  <2> QED BY <2>1, <2>2, <2>3
<1>5. CASE server_cb.state # "CONN_RPYWAIT"
  BY <1>1, <1>2, <1>3, <1>5 DEF Conversation
<1> QED BY <1>4, <1>5

LEMMA OtherConverses ==
  ASSUME Types, Conversation, other_session
  PROVE  Conversation'
<1>1. /\ server_cb' = server_cb /\ reqQ' = reqQ /\ toServer' = toServer
      /\ toClient' = toClient /\ kept' = kept
  BY DEF other_session
<1>2. owner \in [Used -> Owners]
  BY DEF Types
<1>3. \/ \E c \in Used : owner[c] = "nobody" /\ owner' = [owner EXCEPT ![c] = "other"]
      \/ \E c \in Used : owner[c] = "other" /\ owner' = [owner EXCEPT ![c] = "nobody"]
      \/ owner' = owner
  BY DEF other_session, cfg_ok_to_lock
<1>4. Held' = Held
  BY <1>2, <1>3 DEF Held
<1> QED BY <1>1, <1>4 DEF Conversation, Asking, Answering

\* The server answers the request that is on its way.
LEMMA ServerConverses ==
  ASSUME Types, Conversation, server_lock \/ server_unlock \/ server_discard_changes
  PROVE  Conversation'
<1>1. /\ toServer # <<>> /\ server_cb' = server_cb /\ reqQ' = reqQ
  BY DEF server_lock, server_unlock, server_discard_changes
<1>2. server_cb.state = "CONN_RPYWAIT"
  BY <1>1 DEF Conversation
<1>3. PICK req \in Requests :
        /\ reqQ = <<req>> /\ req.cfg = server_cb.locks_cur_cfg
        /\ req.op = Requested(server_cb.command_mode)
        /\ Asking(req) \/ \E answer \in Answers : Answering(req, answer)
  BY <1>2 DEF Conversation
<1> DEFINE cur == server_cb.locks_cur_cfg
           mode == server_cb.command_mode
<1>4. Asking(req)
  BY <1>1, <1>3 DEF Answering
<1>5. toServer = <<req>> /\ toClient = <<>> /\ Right(server_cb, Held, kept, ToRelease(server_cb))
  BY <1>4 DEF Asking
<1>6. /\ mode \in {"AUTOLOCK", "AUTOUNLOCK", "AUTODISCARD"}
      /\ server_cb.locks_active /\ cur \notin In(server_cb, "ACTIVE") /\ cur \in Used
      /\ In(server_cb, "ACTIVE") \subseteq Held
      /\ Held \subseteq (kept \cup In(server_cb, "ACTIVE")) \cup ToRelease(server_cb)
  BY <1>2, <1>5 DEF Right, In, Types, ControlBlocks, Modes
<1>7. Head(toServer) = req /\ Tail(toServer) = <<>>
  BY <1>5
<1>8. owner \in [Used -> Owners]
  BY DEF Types
<1>9. ASSUME NEW held, NEW extra, In(server_cb, "ACTIVE") \subseteq held,
             NEW bef, held \subseteq (bef \cup In(server_cb, "ACTIVE")) \cup extra
      PROVE  Right(server_cb, held, bef, extra)
  BY <1>5, <1>9 DEF Right
<1>10. ASSUME NEW answer \in Answers, Answer(req, answer),
              Right(server_cb, Held', kept', Granted(server_cb, answer)),
              Granted(server_cb, answer) \subseteq Held'
       PROVE  Conversation'
  <2>1. toServer' = <<>> /\ toClient' = <<[msg_id |-> req.msg_id, answer |-> answer]>>
    BY <1>5, <1>7, <1>10 DEF Answer
  <2>2. Answering(req, answer)'
    BY <1>1, <1>10, <2>1, Zenon DEF Answering
  <2> QED BY <1>1, <1>2, <1>3, <1>10, <2>2, Zenon DEF Conversation
<1> HIDE DEF cur, mode
<1>11. CASE server_lock
  <2>0. kept' = kept
    BY <1>11 DEF server_lock
  <2>1. mode = "AUTOLOCK"
    BY <1>3, <1>6, <1>7, <1>11 DEF server_lock, Requested, mode
  <2>2. ToRelease(server_cb) = {}
    BY <2>1 DEF ToRelease, mode
  <2>3. \/ owner' = [owner EXCEPT ![cur] = "client"] /\ Answer(req, "ok")
        \/ owner' = owner /\ \E answer \in {"lock-denied", "error"} : Answer(req, answer)
    <3>1. \/ owner' = [owner EXCEPT ![req.cfg] = "client"] /\ Answer(req, "ok")
          \/ owner' = owner /\ \E answer \in {"lock-denied", "error"} : Answer(req, answer)
      BY <1>7, <1>11 DEF server_lock
    <3> QED BY <1>3, <3>1 DEF cur
  <2>4. CASE owner' = [owner EXCEPT ![cur] = "client"] /\ Answer(req, "ok")
    <3>1. Held' = Held \cup {cur}
      BY <1>6, <1>8, <2>4 DEF Held
    <3>2. Granted(server_cb, "ok") = {cur}
      BY <2>1 DEF Granted, cur, mode
    <3>3. Right(server_cb, Held', kept', {cur})
      BY <1>6, <1>9, <2>0, <2>2, <3>1
    <3> QED BY <1>10, <2>4, <3>1, <3>2, <3>3 DEF Answers
  <2>5. ASSUME NEW answer \in {"lock-denied", "error"}, owner' = owner, Answer(req, answer)
        PROVE  Conversation'
    <3>1. Granted(server_cb, answer) = {} /\ Held' = Held
      BY <2>5, SameHeld DEF Granted
    <3>2. Right(server_cb, Held', kept', {})
      BY <1>6, <1>9, <2>0, <2>2, <3>1
    <3> QED BY <1>10, <2>5, <3>1, <3>2 DEF Answers
  <2> QED BY <2>3, <2>4, <2>5
<1>12. CASE server_unlock
  <2>1. mode = "AUTOUNLOCK"
    BY <1>3, <1>6, <1>7, <1>12 DEF server_unlock, Requested, mode
  <2>2. ToRelease(server_cb) = {cur} /\ \A answer : Granted(server_cb, answer) = {}
    BY <2>1 DEF ToRelease, Granted, mode, cur
  <2>3. /\ \/ owner' = [owner EXCEPT ![cur] = "nobody"] /\ kept' = kept
           \/ owner' = owner /\ kept' = kept \cup {cur}
        /\ \E answer \in Answers : Answer(req, answer)
    <3>1. /\ \/ owner' = [owner EXCEPT ![req.cfg] = "nobody"] /\ kept' = kept
             \/ owner' = owner /\ kept' = kept \cup {req.cfg}
          /\ \E answer \in Answers : Answer(req, answer)
      BY <1>7, <1>12 DEF server_unlock, Answers
    <3> QED BY <1>3, <3>1 DEF cur
  <2>4. \/ Held' = Held \ {cur} /\ kept' = kept
        \/ Held' = Held /\ kept' = kept \cup {cur}
    BY <1>6, <1>8, <2>3, SameHeld DEF Held
  <2>5. Right(server_cb, Held', kept', {})
    BY <1>6, <1>9, <2>2, <2>4
  <2> QED BY <1>10, <2>2, <2>3, <2>5
<1>13. CASE server_discard_changes
  <2>1. mode = "AUTODISCARD"
    BY <1>3, <1>6, <1>7, <1>13 DEF server_discard_changes, Requested, mode
  <2>2. ToRelease(server_cb) = {} /\ \A answer : Granted(server_cb, answer) = {}
    BY <2>1 DEF ToRelease, Granted, mode
  <2>3. Held' = Held /\ kept' = kept /\ \E answer \in Answers : Answer(req, answer)
    BY <1>7, <1>13, SameHeld DEF server_discard_changes, Answers
  <2>4. Right(server_cb, Held', kept', {})
    BY <1>5, <2>2, <2>3
  <2> QED BY <1>10, <2>2, <2>3, <2>4
<1> QED BY <1>11, <1>12, <1>13

-----------------------------------------------------------------------------
(* The inductive invariant *)

LEMMA InitIInv == Init => IInv
<1> SUFFICES ASSUME Init PROVE IInv
  OBVIOUS
<1>1. Types
  BY InitTypes
<1>2. /\ server_cb.state = "CONN_IDLE" /\ server_cb.command_mode = "NORMAL"
      /\ ~server_cb.locks_active /\ server_cb.lock_used = {} /\ ~server_cb.locks_cleanup
      /\ reqQ = <<>> /\ toServer = <<>> /\ toClient = <<>>
      /\ owner = [c \in Used |-> "nobody"] /\ ~lost
  BY DEF Init
<1>3. In(server_cb, "ACTIVE") = {} /\ Held = {}
  BY <1>2 DEF In, Held
<1>4. Right(server_cb, Held, kept, {})
  BY <1>2, <1>3 DEF Right
<1> QED BY <1>1, <1>2, <1>4 DEF IInv, Conversation

LEMMA NextIInv == IInv /\ [Next]_vars => IInv'
<1> SUFFICES ASSUME IInv, [Next]_vars PROVE IInv'
  OBVIOUS
<1>1. Types
  BY DEF IInv
<1>2. Types'
  <2>1. CASE Next
    BY <1>1, <2>1, ClientTypes, ServerTypes DEF Next
  <2>2. CASE UNCHANGED vars
    BY <1>1, <2>2 DEF vars, Types
  <2> QED BY <2>1, <2>2
<1>3. ASSUME ~gaveUp' PROVE ~lost' /\ Conversation'
  <2>1. gaveUp => gaveUp'
    BY DEF Next, vars, do_get_locks, do_release_locks, do_connect, retry_locks,
           locks_timed_out, message_timed_out, mgr_rpc_dispatch, time_passes,
           clear_server_cb_session, server_lock, server_unlock, server_discard_changes,
           other_session, connection_lost
  <2>2. ~lost /\ Conversation
    BY <1>3, <2>1 DEF IInv
  <2>3. ~do_connect /\ ~clear_server_cb_session
    BY <1>1, <2>2, Waiting DEF do_connect, clear_server_cb_session
  <2>4. ~message_timed_out /\ ~connection_lost
    BY <1>3 DEF message_timed_out, connection_lost
  <2>5. CASE \/ \E cleanup, timeout \in BOOLEAN : do_get_locks(cleanup, timeout)
             \/ do_release_locks \/ \E due \in SUBSET Used : retry_locks(due)
             \/ locks_timed_out
    <3>1. lost' = lost
      BY <2>5 DEF do_get_locks, do_release_locks, retry_locks, locks_timed_out
    <3> QED BY <1>1, <1>3, <2>2, <2>5, <3>1, UserConverses
  <2>6. CASE mgr_rpc_dispatch
    <3>1. lost' = lost
      BY <2>6 DEF mgr_rpc_dispatch
    <3> QED BY <1>1, <1>3, <2>2, <2>6, <3>1, DispatchConverses
  <2>7. CASE time_passes
    <3>1. lost' = lost
      BY <2>7 DEF time_passes
    <3> QED BY <1>1, <2>2, <2>7, <3>1, TimePassesConverses
  <2>8. CASE server_lock \/ server_unlock \/ server_discard_changes
    <3>1. lost' = lost
      BY <2>8 DEF server_lock, server_unlock, server_discard_changes
    <3> QED BY <1>1, <2>2, <2>8, <3>1, ServerConverses
  <2>9. CASE other_session
    <3>1. lost' = lost
      BY <2>9 DEF other_session
    <3> QED BY <1>1, <2>2, <2>9, <3>1, OtherConverses
  <2>10. CASE UNCHANGED vars
    <3>1. /\ server_cb' = server_cb /\ reqQ' = reqQ /\ toServer' = toServer
          /\ toClient' = toClient /\ kept' = kept /\ lost' = lost /\ Held' = Held
      BY <2>10, SameHeld DEF vars
    <3> QED BY <2>2, <3>1 DEF Conversation, Asking, Answering
  <2> QED BY <2>3, <2>4, <2>5, <2>6, <2>7, <2>8, <2>9, <2>10 DEF Next
<1> QED BY <1>2, <1>3 DEF IInv

LEMMA IInvSound == IInv => ControlBlockSound /\ AllOrNothing
<1> SUFFICES ASSUME IInv PROVE ControlBlockSound /\ AllOrNothing
  OBVIOUS
<1>1. Types
  BY DEF IInv
<1>2. TypeOK
  BY <1>1 DEF Types, TypeOK, ControlBlocks, States, Modes
<1>3. BeliefsRight
  BY <1>1, Waiting DEF IInv, BeliefsRight, Held
<1>4. ASSUME ~gaveUp, server_cb.locks_cleanup, server_cb.command_mode = "NORMAL"
      PROVE  IF server_cb.locks_active THEN Held = Used ELSE Held \subseteq kept
  <2>1. Right(server_cb, Held, kept, {})
    BY <1>1, <1>4, Waiting DEF IInv
  <2>2. server_cb.locks_active => Held = Used
    BY <1>4, <2>1 DEF Right, Held
  <2>3. ~server_cb.locks_active => In(server_cb, "ACTIVE") = {}
    BY <2>1 DEF Right, In
  <2>4. ~server_cb.locks_active => Held \subseteq kept
    BY <1>4, <2>1, <2>3 DEF Right
  <2> QED BY <2>2, <2>4
<1> QED BY <1>2, <1>3, <1>4 DEF ControlBlockSound, AllOrNothing, Settled

-----------------------------------------------------------------------------
(* Theorems *)

\* What yangcli holds in its control block is typed, and as long as no reply
\* was given up and no connection lost, it is right: a lock is ACTIVE only while
\* the server has it for the client (yangcli_autolock.c,
\* handle_get_locks_reply_to_server and its unlock reply).
THEOREM BeliefsMatchServer == Spec => []ControlBlockSound
<1>1. IInv => ControlBlockSound
  BY IInvSound
<1> QED BY InitIInv, NextIInv, <1>1, PTL DEF Spec

\* With cleanup, and as long as no reply was given up, get-locks ends with all
\* the locks or with no new one, and release-locks with none that get-locks
\* took, but for those of which the server refused the unlock; for every set of
\* datastores and whatever the other sessions and access control do
\* (yangcli_autolock.c, handle_locks_cleanup).
THEOREM LocksAllOrNothing == Spec => []AllOrNothing
<1>1. IInv => AllOrNothing
  BY IInvSound
<1> QED BY InitIInv, NextIInv, <1>1, PTL DEF Spec
=============================================================================
