------------------------ MODULE NotificationsProofs ------------------------
(***************************************************************************)
(* Theorems about Notifications, for every number of sessions and of       *)
(* logged events and every size of the replay buffer. The invariant is     *)
(* stated of one subscription and one log, Sound(sub, ids), because in a   *)
(* round every subscription takes its turn in the same step.               *)
(***************************************************************************)
EXTENDS Notifications, FiniteSetTheorems, WellFoundedInduction, TLAPS

\* Where a subscription is in the log "ids".
Follows(sub, ids) ==
  /\ sub.lastmsg \in {NULL, sub.lastmsgid}
  /\ sub.lastmsg \in ids \cup {NULL}
  /\ sub.state = "REPLAY" /\ ~sub.rc_ready /\ sub.lastmsgid = 0
       => sub.firstreplaymsg \in ids \cup {NULL}

\* How a subscription ends.
Ends(sub) ==
  /\ sub.state \in {"TIMED", "SHUTDOWN"} => sub.stopTime # None
  /\ sub.nc_done => Positions(sub, notificationComplete) # {}

Sound(sub, ids) == sub \in Subscriptions /\ Follows(sub, ids) /\ Ends(sub)

\* After its turn, a subscription that is not done with its replay has a
\* position in the log.
Moved(sub) == sub.state = "REPLAY" /\ ~sub.rc_ready => sub.lastmsgid # 0

IInv == TypeOK /\ \A s \in Subscribed : Sound(subscriptionQ[s], notificationQ)

-----------------------------------------------------------------------------
(* Least and greatest elements *)

Less == {ss \in Nat \X Nat : ss[1] < ss[2]}

LEMMA LessIsWellFounded == IsWellFoundedOn(Less, Nat)
<1>1. OpToRel(<, Nat) = Less
  <2>1. ASSUME NEW p \in Nat \X Nat
        PROVE  p \in OpToRel(<, Nat) <=> p \in Less
    BY DEF OpToRel, Less
  <2>2. OpToRel(<, Nat) \subseteq Nat \X Nat /\ Less \subseteq Nat \X Nat
    BY DEF OpToRel, Less
  <2> QED BY <2>1, <2>2, Zenon
<1> QED BY <1>1, NatLessThanWellFounded, Zenon

\* A set of natural numbers that is not empty has a least element ...
LEMMA LeastExists ==
  ASSUME NEW S \in SUBSET Nat, S # {}
  PROVE  \E x \in S : \A y \in S : x <= y
<1>1. PICK x \in S : \A y \in S : <<y, x>> \notin Less
  BY LessIsWellFounded, WFMin
<1>2. ASSUME NEW y \in S PROVE x <= y
  <2>1. <<y, x>> \notin Less
    BY <1>1, Zenon
  <2>2. ~(y < x)
    BY <2>1, SMT DEF Less
  <2> QED BY <2>2
<1> QED BY <1>2

\* ... which is its Min.
LEMMA MinIsLeast ==
  ASSUME NEW S \in SUBSET Nat, S # {}
  PROVE  Min(S) \in S /\ \A y \in S : Min(S) <= y
BY LeastExists, Zenon DEF Min

\* The Max of a set of natural numbers up to n is its greatest element.
LEMMA MaxIsElement ==
  ASSUME NEW n \in Nat, NEW S \in SUBSET (0..n), S # {}
  PROVE  Max(S) \in S /\ \A y \in S : Max(S) >= y
<1> DEFINE T == {n - i : i \in S}
<1>1. T \in SUBSET Nat
  <2>1. \A i \in S : n - i \in Nat
    OBVIOUS
  <2> QED BY <2>1
<1>2. T # {}
  OBVIOUS
<1>3. PICK t \in T : \A u \in T : t <= u
  BY <1>1, <1>2, LeastExists
<1>4. PICK x \in S : t = n - x
  OBVIOUS
<1>5. \A y \in S : x >= y
  BY <1>3, <1>4
<1> QED BY <1>5, Zenon DEF Max

\* What the log has at a place is an entry of it.
LEMMA FirstEntry ==
  ASSUME NEW ids \in SUBSET Ids, NEW part \in SUBSET ids
  PROVE  /\ dlq_firstEntry(part) \in part \cup {NULL}
         /\ part # {} => dlq_firstEntry(part) \in part
         /\ dlq_lastEntry(part) \in part \cup {NULL}
<1>1. part \in SUBSET Nat /\ part \in SUBSET (0..MaxEvents) /\ MaxEvents \in Nat
  BY ParametersAssumption DEF Ids
<1>2. part # {} => Min(part) \in part /\ Max(part) \in part
  BY <1>1, MinIsLeast, MaxIsElement
<1> QED BY <1>2 DEF dlq_firstEntry, dlq_lastEntry, NULL

-----------------------------------------------------------------------------
(* A subscriber's turn *)

LEMMA MessageTypes ==
  /\ \A id \in Ids : Event(id) \in Messages
  /\ replayComplete \in Messages /\ notificationComplete \in Messages
BY DEF Messages

\* A message is sent: the rest of the subscription is as it was, and an end
\* that was told stays told.
LEMMA Send ==
  ASSUME NEW sub \in Subscriptions, NEW msg \in Messages
  PROVE  /\ send(sub, msg) \in Subscriptions
         /\ send(sub, msg) = [sub EXCEPT !.sent = Append(@, msg)]
         /\ Len(send(sub, msg).sent) \in 1..Len(send(sub, msg).sent)
         /\ send(sub, msg).sent[Len(send(sub, msg).sent)] = msg
         /\ Ends(sub) => Ends(send(sub, msg))
<1> DEFINE next == send(sub, msg)
<1>1. sub.sent \in Seq(Messages) /\ Append(sub.sent, msg) \in Seq(Messages)
  BY DEF Subscriptions
<1>2. next = [sub EXCEPT !.sent = Append(@, msg)]
  BY DEF send
<1>3. /\ next.sent = Append(sub.sent, msg) /\ next.state = sub.state
      /\ next.stopTime = sub.stopTime /\ next.nc_done = sub.nc_done
  BY <1>2 DEF Subscriptions
<1>4. next \in Subscriptions
  <2> HIDE DEF next
  <2> DEFINE sent == Append(sub.sent, msg)
  <2>1. sent \in Seq(Messages)
    BY <1>1
  <2>2. next = [sub EXCEPT !.sent = sent]
    BY <1>2
  <2> HIDE DEF sent
  <2> QED BY <2>1, <2>2 DEF Subscriptions
<1>5. Len(next.sent) \in 1..Len(next.sent) /\ next.sent[Len(next.sent)] = msg
  <2>1. Len(Append(sub.sent, msg)) = Len(sub.sent) + 1 /\ Len(sub.sent) \in Nat
    BY <1>1
  <2> QED BY <1>1, <1>3, <2>1
<1>6. ASSUME Ends(sub) PROVE Ends(next)
  <2>1. ASSUME sub.nc_done PROVE Positions(next, notificationComplete) # {}
    <3>1. PICK k \in 1..Len(sub.sent) : sub.sent[k] = notificationComplete
      BY <1>6, <2>1 DEF Ends, Positions
    <3>2. k \in 1..Len(next.sent) /\ next.sent[k] = notificationComplete
      BY <1>1, <1>3, <3>1
    <3> QED BY <3>2 DEF Positions
  <2> QED BY <1>3, <1>6, <2>1 DEF Ends
<1> QED BY <1>2, <1>4, <1>5, <1>6

LEMMA SendEvent ==
  ASSUME TypeOK, NEW sub \in Subscriptions, NEW id \in notificationQ,
         Ends(sub)
  PROVE  LET next == send_notification(sub, id) IN
         /\ Sound(next, notificationQ)
         /\ next.lastmsgid = id /\ next.lastmsgid # 0
         /\ next.state = sub.state /\ next.stopTime = sub.stopTime
<1> DEFINE next == send_notification(sub, id)
           at == [sub EXCEPT !.lastmsg = id, !.lastmsgid = id]
<1>1. id \in Ids /\ id # 0 /\ id \in Pointers
  BY ParametersAssumption DEF TypeOK, Ids, Pointers, msgid
<1>2. at \in Subscriptions
  BY <1>1 DEF Subscriptions
<1>3. /\ at.lastmsg = id /\ at.lastmsgid = id /\ at.state = sub.state
      /\ at.stopTime = sub.stopTime /\ at.nc_done = sub.nc_done
      /\ at.sent = sub.sent
  BY DEF Subscriptions
<1>4. Ends(at)
  BY <1>3 DEF Ends, Positions
<1>5. next = at \/ next = send(at, Event(id))
  BY DEF send_notification
<1> HIDE DEF at, next
<1>6. next \in Subscriptions /\ Ends(next)
  BY <1>1, <1>2, <1>4, <1>5, MessageTypes, Send
<1>7. /\ next.lastmsg = id /\ next.lastmsgid = id
      /\ next.state = sub.state /\ next.stopTime = sub.stopTime
  <2>1. CASE next = at
    BY <1>3, <2>1
  <2>2. CASE next = send(at, Event(id))
    <3>1. next = [at EXCEPT !.sent = Append(@, Event(id))]
      BY <1>1, <1>2, <2>2, MessageTypes, Send
    <3> QED BY <1>2, <1>3, <3>1 DEF Subscriptions
  <2> QED BY <1>5, <2>1, <2>2
<1>8. Follows(next, notificationQ)
  BY <1>1, <1>7 DEF Follows
<1> QED BY <1>1, <1>6, <1>7, <1>8 DEF Sound, next

\* The two markers leave a subscription where it is.
LEMMA SendReplayComplete ==
  ASSUME NEW sub \in Subscriptions, NEW ids, Follows(sub, ids), Ends(sub)
  PROVE  LET next == send_replayComplete(sub) IN
         /\ Sound(next, ids) /\ Moved(next)
         /\ next.stopTime = sub.stopTime
<1> DEFINE sent == send(sub, replayComplete)
           next == send_replayComplete(sub)
<1>1. sent \in Subscriptions /\ Ends(sent) /\ sent = [sub EXCEPT !.sent = Append(@, replayComplete)]
  BY MessageTypes, Send
<1>2. next = [sent EXCEPT !.rc_ready = TRUE, !.rc_done = TRUE]
  BY DEF send_replayComplete
<1>3. /\ sent.lastmsg = sub.lastmsg /\ sent.lastmsgid = sub.lastmsgid
      /\ sent.stopTime = sub.stopTime
  BY <1>1 DEF Subscriptions
<1> HIDE DEF sent, next
<1>4. /\ next \in Subscriptions
      /\ next.lastmsg = sub.lastmsg /\ next.lastmsgid = sub.lastmsgid
      /\ next.rc_ready /\ next.stopTime = sub.stopTime
      /\ next.state = sent.state /\ next.stopTime = sent.stopTime
      /\ next.nc_done = sent.nc_done /\ next.sent = sent.sent
  BY <1>1, <1>2, <1>3 DEF Subscriptions
<1>5. Follows(next, ids) /\ Moved(next) /\ Ends(next)
  BY <1>1, <1>4 DEF Follows, Moved, Ends, Positions
<1> QED BY <1>4, <1>5 DEF Sound, next

LEMMA SendNotificationComplete ==
  ASSUME NEW sub \in Subscriptions, NEW ids, Follows(sub, ids), sub.stopTime # None
  PROVE  LET next == send_notificationComplete(sub) IN Sound(next, ids) /\ Moved(next)
<1> DEFINE sent == send(sub, notificationComplete)
           next == send_notificationComplete(sub)
<1>1. /\ sent \in Subscriptions /\ sent = [sub EXCEPT !.sent = Append(@, notificationComplete)]
      /\ Len(sent.sent) \in Positions(sent, notificationComplete)
  BY MessageTypes, Send DEF Positions
<1>2. next = [sent EXCEPT !.nc_done = TRUE, !.state = "SHUTDOWN"]
  BY DEF send_notificationComplete
<1>3. /\ sent.lastmsg = sub.lastmsg /\ sent.lastmsgid = sub.lastmsgid
      /\ sent.stopTime = sub.stopTime
  BY <1>1 DEF Subscriptions
<1> HIDE DEF sent, next
<1>4. /\ next \in Subscriptions
      /\ next.lastmsg = sub.lastmsg /\ next.lastmsgid = sub.lastmsgid
      /\ next.state = "SHUTDOWN" /\ next.stopTime = sub.stopTime
      /\ next.sent = sent.sent
  BY <1>1, <1>2, <1>3 DEF Subscriptions, States
<1>5. Follows(next, ids) /\ Moved(next) /\ Ends(next)
  BY <1>1, <1>4 DEF Follows, Moved, Ends, Positions
<1> QED BY <1>4, <1>5 DEF Sound, next

LEMMA AfterReplay ==
  ASSUME NEW sub, NEW ids, Sound(sub, ids)
  PROVE  Sound(after_replay(sub), ids) /\ Moved(after_replay(sub))
<1> DEFINE next == after_replay(sub)
<1>1. /\ next \in Subscriptions /\ next.state \in {"LIVE", "TIMED"}
      /\ next.state = "TIMED" => next.stopTime # None
      /\ next.lastmsg = sub.lastmsg /\ next.lastmsgid = sub.lastmsgid
      /\ next.nc_done = sub.nc_done /\ next.sent = sub.sent
  BY DEF Sound, after_replay, Subscriptions, States
<1> HIDE DEF next
<1>2. Follows(next, ids) /\ Moved(next) /\ Ends(next)
  BY <1>1 DEF Sound, Follows, Moved, Ends, Positions
<1> QED BY <1>1, <1>2 DEF Sound, next

\* The next entry for a subscription is in the log.
LEMMA LogEntries ==
  ASSUME TypeOK
  PROVE  /\ notificationQ \in SUBSET Ids
         /\ dlq_firstEntry(notificationQ) \in notificationQ \cup {NULL}
         /\ dlq_lastEntry(notificationQ) \in notificationQ \cup {NULL}
         /\ \A i : get_entry_after(i) \in notificationQ \cup {NULL}
<1>1. notificationQ \in SUBSET Ids
  BY ParametersAssumption DEF TypeOK, Ids, msgid
<1>2. /\ dlq_firstEntry(notificationQ) \in notificationQ \cup {NULL}
      /\ dlq_lastEntry(notificationQ) \in notificationQ \cup {NULL}
  <2>1. notificationQ \in SUBSET notificationQ
    OBVIOUS
  <2> QED BY <1>1, <2>1, FirstEntry
<1>3. \A i : get_entry_after(i) \in notificationQ \cup {NULL}
  <2> TAKE i
  <2> DEFINE part == {j \in notificationQ : j > i}
  <2>1. part \in SUBSET notificationQ
    OBVIOUS
  <2> HIDE DEF part
  <2>2. dlq_firstEntry(part) \in notificationQ \cup {NULL}
    BY <1>1, <2>1, FirstEntry
  <2> QED BY <2>2 DEF get_entry_after, part
<1> QED BY <1>1, <1>2, <1>3

LEMMA NextEntry ==
  ASSUME TypeOK, NEW sub, NEW first \in notificationQ \cup {NULL}
  PROVE  next_entry(sub, first) \in notificationQ \cup {NULL}
BY LogEntries DEF next_entry

LEMMA Replayed ==
  ASSUME TypeOK, NEW sub \in Subscriptions, NEW id \in notificationQ, Ends(sub)
  PROVE  Sound(replayed(sub, id), notificationQ) /\ Moved(replayed(sub, id))
<1> DEFINE at == send_notification(sub, id)
           ready == \/ sub.lastreplaymsg = id
                    \/ sub.lastreplaymsgid # 0 /\ sub.lastreplaymsgid <= id
           next == replayed(sub, id)
<1>1. Sound(at, notificationQ) /\ at.lastmsgid # 0
  BY SendEvent
<1>2. next = [at EXCEPT !.rc_ready = ready] /\ ready \in BOOLEAN
  BY DEF replayed
<1> HIDE DEF at, ready, next
<1>3. /\ next \in Subscriptions /\ next.lastmsg = at.lastmsg /\ next.lastmsgid = at.lastmsgid
      /\ next.state = at.state /\ next.stopTime = at.stopTime
      /\ next.nc_done = at.nc_done /\ next.sent = at.sent
  BY <1>1, <1>2 DEF Sound, Subscriptions
<1> QED BY <1>1, <1>3 DEF Sound, Follows, Moved, Ends, Positions, next

LEMMA ServeReplay ==
  ASSUME TypeOK, NEW sub, Sound(sub, notificationQ), sub.state = "REPLAY"
  PROVE  Sound(serve_replay(sub), notificationQ) /\ Moved(serve_replay(sub))
<1> DEFINE ends == sub.stopTime # None /\ ~sub.futurestop
           next == next_entry(sub, first_to_replay(sub))
<1> USE DEF Sound
<1>1. CASE sub.rc_ready /\ sub.rc_done
  <2>1. serve_replay(sub) = IF ends THEN send_notificationComplete(sub) ELSE after_replay(sub)
    BY <1>1 DEF serve_replay
  <2> QED BY <2>1, SendNotificationComplete, AfterReplay
<1>2. CASE sub.rc_ready /\ ~sub.rc_done
  <2>1. serve_replay(sub) = send_replayComplete(sub)
    BY <1>2 DEF serve_replay
  <2> QED BY <2>1, SendReplayComplete
<1>3. CASE ~sub.rc_ready
  <2>1. next \in notificationQ \cup {NULL}
    <3>1. get_entry_after(sub.firstreplaymsgid) \in notificationQ \cup {NULL}
      BY LogEntries
    <3>2. CASE sub.lastmsgid = 0
      <4>1. first_to_replay(sub) \in notificationQ \cup {NULL}
        BY <1>3, <3>1, <3>2 DEF Follows, first_to_replay
      <4> QED BY <4>1, NextEntry
    <3>3. CASE sub.lastmsgid # 0
      <4>1. next = next_entry(sub, NULL)
        BY <3>3 DEF next_entry
      <4> QED BY <4>1, NextEntry
    <3> QED BY <3>2, <3>3
  <2>2. CASE next # NULL
    <3>1. serve_replay(sub) = replayed(sub, next)
      BY <1>3, <2>2 DEF serve_replay
    <3> QED BY <2>1, <2>2, <3>1, Replayed
  <2>3. CASE next = NULL
    <3>1. serve_replay(sub) = send_replayComplete(sub) \/ serve_replay(sub) = after_replay(send_replayComplete(sub))
      BY <1>3, <2>3 DEF serve_replay
    <3> QED BY <3>1, SendReplayComplete, AfterReplay
  <2> QED BY <2>2, <2>3
<1> QED BY <1>1, <1>2, <1>3

LEMMA ServeTimed ==
  ASSUME TypeOK, NEW sub, Sound(sub, notificationQ), sub.state = "TIMED"
  PROVE  Sound(serve_timed(sub), notificationQ) /\ Moved(serve_timed(sub))
<1> DEFINE next == next_entry(sub, dlq_firstEntry(notificationQ))
           then == IF next # NULL THEN send_notification(sub, next) ELSE sub
<1>1. next \in notificationQ \cup {NULL}
  BY LogEntries, NextEntry
<1>2. Sound(then, notificationQ) /\ then.state = "TIMED"
  BY <1>1, SendEvent DEF Sound
<1>3. serve_timed(sub) \in {then, [then EXCEPT !.state = "SHUTDOWN"]}
  BY DEF serve_timed
<1> HIDE DEF then
<1> DEFINE last == [then EXCEPT !.state = "SHUTDOWN"]
<1>4. Sound(last, notificationQ) /\ last.state = "SHUTDOWN"
  <2>1. /\ last \in Subscriptions /\ last.state = "SHUTDOWN"
        /\ last.lastmsg = then.lastmsg /\ last.lastmsgid = then.lastmsgid
        /\ last.stopTime = then.stopTime /\ last.nc_done = then.nc_done
        /\ last.sent = then.sent
    BY <1>2 DEF Sound, Subscriptions, States
  <2> HIDE DEF last
  <2> QED BY <1>2, <2>1 DEF Sound, Follows, Ends, Positions
<1> QED BY <1>2, <1>3, <1>4 DEF Moved

LEMMA ServeLive ==
  ASSUME TypeOK, NEW sub, Sound(sub, notificationQ), sub.state = "LIVE"
  PROVE  Sound(serve_live(sub), notificationQ) /\ Moved(serve_live(sub))
<1> DEFINE next == next_entry(sub, dlq_firstEntry(notificationQ))
<1>1. next \in notificationQ \cup {NULL}
  BY LogEntries, NextEntry
<1>2. next # NULL => Sound(send_notification(sub, next), notificationQ)
                     /\ send_notification(sub, next).state = "LIVE"
  BY <1>1, SendEvent DEF Sound
<1>3. serve_live(sub) = IF next # NULL THEN send_notification(sub, next) ELSE sub
  BY DEF serve_live
<1> QED BY <1>2, <1>3 DEF Moved

\* A turn keeps a subscription sound, or ends it when that was told.
LEMMA Serve ==
  ASSUME TypeOK, NEW sub, Sound(sub, notificationQ)
  PROVE  \/ Sound(serve(sub), notificationQ) /\ Moved(serve(sub))
         \/ serve(sub) = None /\ Positions(sub, notificationComplete) # {}
<1>1. sub.state \in {"REPLAY", "TIMED", "LIVE", "SHUTDOWN"}
  BY DEF Sound, Subscriptions, States
<1>2. CASE sub.state = "REPLAY"
  BY <1>2, ServeReplay DEF serve
<1>3. CASE sub.state = "TIMED"
  BY <1>3, ServeTimed DEF serve
<1>4. CASE sub.state = "LIVE"
  BY <1>4, ServeLive DEF serve
<1>5. CASE sub.state = "SHUTDOWN"
  <2>1. serve(sub) = serve_shutdown(sub)
    BY <1>5 DEF serve
  <2>2. sub.stopTime # None
    BY <1>5 DEF Sound, Ends
  <2>3. CASE ~sub.nc_done
    BY <2>1, <2>2, <2>3, SendNotificationComplete DEF serve_shutdown, Sound
  <2>4. CASE sub.nc_done
    BY <2>1, <2>4 DEF serve_shutdown, Sound, Ends
  <2> QED BY <2>3, <2>4
<1> QED BY <1>1, <1>2, <1>3, <1>4, <1>5

-----------------------------------------------------------------------------
(* The log changes *)

\* The oldest entry leaves the log, and no subscription is left at it.
LEMMA Forget ==
  ASSUME NEW ids \in SUBSET Ids, NEW id \in ids, NEW sub, Sound(sub, ids), NEW more
  PROVE  Sound(forget(unlog(sub, {id}), id), (ids \ {id}) \cup more)
<1> DEFINE mid == unlog(sub, {id})
           next == forget(mid, id)
           gone == {i \in {id} : i > sub.lastmsgid}
<1>1. sub.lost \cup gone \in SUBSET Ids
  BY DEF Sound, Subscriptions
<1>2. mid = [sub EXCEPT !.lost = @ \cup gone]
  BY DEF unlog
<1> HIDE DEF gone, mid
<1>3. /\ mid \in Subscriptions
      /\ mid.lastmsg = sub.lastmsg /\ mid.lastmsgid = sub.lastmsgid
      /\ mid.firstreplaymsg = sub.firstreplaymsg /\ mid.lastreplaymsg = sub.lastreplaymsg
      /\ mid.state = sub.state /\ mid.rc_ready = sub.rc_ready
      /\ mid.stopTime = sub.stopTime /\ mid.nc_done = sub.nc_done
      /\ mid.sent = sub.sent
  <2> DEFINE lost == sub.lost \cup gone
  <2>1. lost \in SUBSET Ids /\ mid = [sub EXCEPT !.lost = lost]
    BY <1>1, <1>2
  <2> HIDE DEF lost
  <2> QED BY <2>1 DEF Sound, Subscriptions
<1>4. next = [mid EXCEPT !.firstreplaymsg = clear(@, id), !.lastreplaymsg = clear(@, id),
                         !.lastmsg = clear(@, id)]
  BY DEF forget
<1> HIDE DEF next
<1>5. \A ptr \in Pointers : clear(ptr, id) \in Pointers
  BY DEF clear, Pointers
<1>6. next \in Subscriptions
  BY <1>3, <1>4, <1>5 DEF Subscriptions
<1>7. /\ next.lastmsg = clear(sub.lastmsg, id) /\ next.lastmsgid = sub.lastmsgid
      /\ next.firstreplaymsg = clear(sub.firstreplaymsg, id)
      /\ next.state = sub.state /\ next.rc_ready = sub.rc_ready
      /\ next.stopTime = sub.stopTime /\ next.nc_done = sub.nc_done
      /\ next.sent = sub.sent
  BY <1>3, <1>4 DEF Subscriptions
<1>8. Follows(next, (ids \ {id}) \cup more)
  BY <1>7 DEF Sound, Follows, clear
<1>9. Ends(next)
  BY <1>7 DEF Sound, Ends, Positions
<1> QED BY <1>6, <1>8, <1>9 DEF Sound, next, mid

\* Entries that no subscription is at leave the log.
LEMMA Unlog ==
  ASSUME NEW ids \in SUBSET Ids, NEW left \in SUBSET ids, NEW sub,
         Sound(sub, ids), Moved(sub), sub.lastmsg \in left \cup {NULL}
  PROVE  LET next == unlog(sub, ids \ left) IN
         Sound(next, left) /\ next.lastmsgid = sub.lastmsgid
<1> DEFINE next == unlog(sub, ids \ left)
           lost == sub.lost \cup {i \in ids \ left : i > sub.lastmsgid}
<1>1. lost \in SUBSET Ids
  BY DEF Sound, Subscriptions
<1>2. next = [sub EXCEPT !.lost = lost]
  BY DEF unlog
<1> HIDE DEF lost, next
<1>3. /\ next \in Subscriptions
      /\ next.lastmsg = sub.lastmsg /\ next.lastmsgid = sub.lastmsgid
      /\ next.state = sub.state /\ next.rc_ready = sub.rc_ready
      /\ next.stopTime = sub.stopTime /\ next.nc_done = sub.nc_done
      /\ next.sent = sub.sent
  BY <1>1, <1>2 DEF Sound, Subscriptions
<1>4. Follows(next, left) /\ Ends(next)
  BY <1>3 DEF Sound, Follows, Moved, Ends, Positions
<1> QED BY <1>3, <1>4 DEF Sound, next

-----------------------------------------------------------------------------
(* A subscription is made *)

LEMMA NewSubscription ==
  ASSUME TypeOK,
         NEW startTime \in Times \cup {None}, NEW stopTime \in Times \cup {None}
  PROVE  LET sub == new_subscription(startTime, stopTime) IN
         /\ sub \in Subscriptions
         /\ sub.lastmsg = NULL /\ sub.lastmsgid = 0 /\ ~sub.nc_done
         /\ sub.state = IF startTime = None THEN "LIVE" ELSE "REPLAY"
<1> DEFINE state == IF startTime = None THEN "LIVE" ELSE "REPLAY"
           future == stopTime # None /\ stopTime > now
<1>1. state \in States /\ future \in BOOLEAN
  BY DEF States
<1>2. msgid \in 0..MaxEvents /\ notificationQ \in SUBSET Ids /\ <<>> \in Seq(Messages)
  BY LogEntries DEF TypeOK, msgid
<1> HIDE DEF state, future
<1>3. new_subscription(startTime, stopTime) =
        [startTime |-> startTime, stopTime |-> stopTime, futurestop |-> future,
         state |-> state,
         rc_ready |-> FALSE, rc_done |-> FALSE, nc_done |-> FALSE,
         firstreplaymsg |-> NULL, firstreplaymsgid |-> 0,
         lastreplaymsg |-> NULL, lastreplaymsgid |-> 0,
         lastmsg |-> NULL, lastmsgid |-> 0,
         since |-> msgid, had |-> notificationQ, sent |-> <<>>, lost |-> {}]
  BY DEF new_subscription, state, future
<1> QED BY <1>1, <1>2, <1>3 DEF Subscriptions, Pointers, NULL, state

LEMMA Live ==
  ASSUME TypeOK, NEW sub \in Subscriptions, sub.state = "LIVE", ~sub.nc_done
  PROVE  Sound(live(sub), notificationQ)
<1> DEFINE last == dlq_lastEntry(notificationQ)
           next == live(sub)
<1>1. last \in notificationQ \cup {NULL} /\ last \in Pointers
  BY LogEntries DEF Pointers
<1>2. next = [sub EXCEPT !.lastmsg = last, !.lastmsgid = last]
  BY DEF live
<1> HIDE DEF last, next
<1>3. /\ next \in Subscriptions /\ next.lastmsg = last /\ next.lastmsgid = last
      /\ next.state = "LIVE" /\ ~next.nc_done
  BY <1>1, <1>2 DEF Subscriptions
<1> QED BY <1>1, <1>3 DEF Sound, Follows, Ends, next

LEMMA Replay ==
  ASSUME TypeOK, NEW sub \in Subscriptions,
         sub.state = "REPLAY", sub.lastmsg = NULL, sub.lastmsgid = 0, ~sub.nc_done
  PROVE  Sound(replay(sub), notificationQ)
<1> DEFINE first == starts_at(sub)
           next == replay(sub)
           ready == [sub EXCEPT !.rc_ready = TRUE]
           at_first == [sub EXCEPT !.firstreplaymsg = first, !.firstreplaymsgid = first]
           up_to(last) == [at_first EXCEPT !.lastreplaymsg = last, !.lastreplaymsgid = last]
<1>1. first \in notificationQ \cup {NULL} /\ first \in Pointers
  <2> DEFINE part == {i \in notificationQ : sub.startTime <= eventTime(i)}
  <2>1. part \in SUBSET notificationQ
    OBVIOUS
  <2> HIDE DEF part
  <2>2. dlq_firstEntry(part) \in notificationQ \cup {NULL}
    BY <2>1, LogEntries, FirstEntry
  <2> QED BY <2>2, LogEntries DEF starts_at, part, Pointers
<1>2. stops_at(sub, first) \in Pointers
  <2> DEFINE part == {i \in notificationQ : i > first /\ eventTime(i) <= sub.stopTime}
  <2>1. part \in SUBSET notificationQ
    OBVIOUS
  <2>2. stops_at(sub, first) = IF part = {} THEN first ELSE dlq_lastEntry(part)
    BY DEF stops_at
  <2> HIDE DEF part
  <2>3. dlq_lastEntry(part) \in notificationQ \cup {NULL}
    BY <2>1, LogEntries, FirstEntry
  <2> QED BY <1>1, <2>2, <2>3, LogEntries DEF Pointers
<1>3. dlq_lastEntry(notificationQ) \in Pointers
  BY LogEntries DEF Pointers
<1>4. \/ next = ready
      \/ next = at_first
      \/ \E last \in Pointers : next = up_to(last)
  BY <1>2, <1>3 DEF replay
<1> HIDE DEF first, next
<1> SUFFICES Sound(next, notificationQ)
  BY DEF next
<1>5. CASE next = ready
  <2>1. /\ next \in Subscriptions /\ next.rc_ready /\ next.lastmsg = NULL
        /\ next.lastmsgid = 0 /\ next.state = "REPLAY" /\ ~next.nc_done
    BY <1>5 DEF Subscriptions
  <2> QED BY <2>1 DEF Sound, Follows, Ends
<1>6. /\ at_first \in Subscriptions /\ at_first.firstreplaymsg = first
      /\ at_first.lastmsg = NULL /\ at_first.lastmsgid = 0
      /\ at_first.state = "REPLAY" /\ ~at_first.nc_done
  BY <1>1 DEF Subscriptions
<1> HIDE DEF at_first
<1>7. CASE next = at_first
  BY <1>1, <1>6, <1>7 DEF Sound, Follows, Ends
<1>8. CASE \E last \in Pointers : next = up_to(last)
  <2>1. PICK last \in Pointers : next = up_to(last)
    BY <1>8
  <2>2. /\ next \in Subscriptions /\ next.firstreplaymsg = first
        /\ next.lastmsg = NULL /\ next.lastmsgid = 0
        /\ next.state = "REPLAY" /\ ~next.nc_done
    BY <1>6, <2>1 DEF Subscriptions
  <2> QED BY <1>1, <2>2 DEF Sound, Follows, Ends
<1> QED BY <1>4, <1>5, <1>7, <1>8

-----------------------------------------------------------------------------
(* The steps *)

LEMMA InitIInv == Init => IInv
<1> SUFFICES ASSUME Init PROVE IInv
  OBVIOUS
<1>1. Len(events) = 0 /\ events \in Seq([time : Times, allowed : BOOLEAN])
  BY DEF Init
<1>2. Cardinality(notificationQ) = 0
  BY FS_EmptySet DEF Init
<1>3. TypeOK
  BY <1>1, <1>2, ParametersAssumption DEF Init, TypeOK, Times, msgid
<1> QED BY <1>3 DEF Init, IInv, Subscribed

LEMMA ClockKeeps == ASSUME IInv, Clock PROVE IInv'
<1>1. now' \in Times
  BY ParametersAssumption DEF IInv, TypeOK, Clock, Times
<1> QED BY <1>1 DEF IInv, TypeOK, Clock, Sound, Subscribed, msgid, profile, log, tick

\* The log is full: its oldest entry leaves.
LEMMA OldestLeaves ==
  ASSUME IInv, notificationQ # {}, NEW more
  PROVE  LET oldest == dlq_firstEntry(notificationQ)
             subs == delete_oldest_notification(oldest)
         IN /\ oldest \in notificationQ
            /\ \A s \in Sessions :
                 IF subscriptionQ[s] = None THEN subs[s] = None
                 ELSE Sound(subs[s], (notificationQ \ {oldest}) \cup more)
<1> USE DEF IInv
<1> DEFINE oldest == dlq_firstEntry(notificationQ)
           subs == delete_oldest_notification(oldest)
<1>1. oldest \in notificationQ
  <2>1. notificationQ \in SUBSET notificationQ
    OBVIOUS
  <2> QED BY <2>1, LogEntries, FirstEntry
<1> HIDE DEF oldest
<1>2. ASSUME NEW s \in Sessions, subscriptionQ[s] # None
      PROVE  Sound(subs[s], (notificationQ \ {oldest}) \cup more)
  <2>1. Sound(subscriptionQ[s], notificationQ)
    BY <1>2 DEF Subscribed
  <2>2. subs[s] = forget(unlog(subscriptionQ[s], {oldest}), oldest)
    BY <1>2 DEF delete_oldest_notification
  <2>3. notificationQ \in SUBSET Ids
    BY LogEntries
  <2> HIDE DEF subs
  <2>4. Sound(forget(unlog(subscriptionQ[s], {oldest}), oldest), (notificationQ \ {oldest}) \cup more)
    BY <1>1, <2>1, <2>3, Forget
  <2> QED BY <2>2, <2>4
<1>3. ASSUME NEW s \in Sessions, subscriptionQ[s] = None
      PROVE  subs[s] = None
  BY <1>3 DEF delete_oldest_notification
<1> QED BY <1>1, <1>2, <1>3 DEF oldest

LEMMA QueueKeeps == ASSUME IInv, agt_not_queue_notification PROVE IInv'
<1> USE DEF IInv
<1>1. PICK allowed \in BOOLEAN : events' = Append(events, [time |-> now, allowed |-> allowed])
  BY DEF agt_not_queue_notification
<1>2. /\ msgid \in Nat /\ msgid' = msgid + 1 /\ msgid' <= MaxEvents
      /\ events' \in Seq([time : Times, allowed : BOOLEAN])
  <2>1. [time |-> now, allowed |-> allowed] \in [time : Times, allowed : BOOLEAN]
    BY DEF TypeOK
  <2> QED BY <1>1, <2>1, ParametersAssumption DEF TypeOK, msgid, agt_not_queue_notification
<1>3. IsFiniteSet(notificationQ) /\ Cardinality(notificationQ) \in Nat
  <2>1. IsFiniteSet(1..msgid)
    BY <1>2, FS_Interval
  <2> QED BY <2>1, FS_Subset, FS_CardinalityType DEF TypeOK
<1>4. msgid + 1 \notin notificationQ
  BY <1>2 DEF TypeOK
<1> DEFINE oldest == dlq_firstEntry(notificationQ)
<1>5. CASE agt_eventlog_size > 0 /\ Cardinality(notificationQ) = agt_eventlog_size
  <2>1. /\ notificationQ' = (notificationQ \ {oldest}) \cup {msgid + 1}
        /\ subscriptionQ' = delete_oldest_notification(oldest)
    BY <1>5 DEF agt_not_queue_notification
  <2>2. notificationQ # {}
    BY <1>5, FS_EmptySet
  <2>3. /\ oldest \in notificationQ
        /\ \A s \in Sessions : subscriptionQ'[s] # None => Sound(subscriptionQ'[s], notificationQ')
    BY <2>1, <2>2, OldestLeaves
  <2> HIDE DEF oldest
  <2>4. Cardinality(notificationQ') = Cardinality(notificationQ)
    <3>1. /\ IsFiniteSet(notificationQ \ {oldest})
          /\ Cardinality(notificationQ \ {oldest}) = Cardinality(notificationQ) - 1
      BY <1>3, <2>3, FS_RemoveElement
    <3>2. msgid + 1 \notin notificationQ \ {oldest}
      BY <1>4
    <3>3. Cardinality((notificationQ \ {oldest}) \cup {msgid + 1})
            = Cardinality(notificationQ \ {oldest}) + 1
      BY <3>1, <3>2, FS_AddElement
    <3> QED BY <1>3, <2>1, <3>1, <3>3
  <2>5. notificationQ' \subseteq 1..msgid'
    <3>1. notificationQ' \subseteq notificationQ \cup {msgid + 1}
      BY <2>1
    <3>2. notificationQ \subseteq 1..msgid
      BY DEF TypeOK
    <3> QED BY <1>2, <3>1, <3>2
  <2>6. subscriptionQ' \in [Sessions -> Subscriptions \cup {None}]
    <3>1. subscriptionQ' = [s \in Sessions |-> subscriptionQ'[s]]
      BY <2>1 DEF delete_oldest_notification
    <3> QED BY <2>3, <3>1 DEF Sound
  <2> QED BY <1>2, <1>5, <2>4, <2>5, <2>3, <2>6
          DEF TypeOK, Subscribed, agt_not_queue_notification, profile, tick
<1>6. CASE ~(agt_eventlog_size > 0 /\ Cardinality(notificationQ) = agt_eventlog_size)
  <2>1. notificationQ' = notificationQ \cup {msgid + 1} /\ UNCHANGED subscriptionQ
    BY <1>6 DEF agt_not_queue_notification
  <2>2. Cardinality(notificationQ') = Cardinality(notificationQ) + 1
    BY <1>3, <1>4, <2>1, FS_AddElement
  <2>3. agt_eventlog_size > 0 => Cardinality(notificationQ') <= agt_eventlog_size
    BY <1>3, <1>6, <2>2, ParametersAssumption DEF TypeOK, agt_not_queue_notification, profile
  <2>4. notificationQ' \subseteq 1..msgid'
    BY <1>2, <2>1 DEF TypeOK
  <2>5. \A s \in Subscribed : Sound(subscriptionQ[s], notificationQ')
    BY <2>1 DEF Sound, Follows
  <2> QED BY <1>2, <2>1, <2>3, <2>4, <2>5
          DEF TypeOK, Subscribed, agt_not_queue_notification, profile, tick
<1> QED BY <1>5, <1>6

LEMMA CreateKeeps ==
  ASSUME IInv, NEW s \in Sessions, create_subscription_invoke(s) PROVE IInv'
<1> USE DEF IInv
<1>1. PICK startTime, stopTime \in Times \cup {None} :
        subscriptionQ' = [subscriptionQ EXCEPT ![s] =
          IF startTime = None THEN live(new_subscription(startTime, stopTime))
          ELSE replay(new_subscription(startTime, stopTime))]
  BY DEF create_subscription_invoke
<1> DEFINE sub == new_subscription(startTime, stopTime)
           next == IF startTime = None THEN live(sub) ELSE replay(sub)
<1>2. Sound(next, notificationQ)
  <2>1. /\ sub \in Subscriptions /\ sub.lastmsg = NULL /\ sub.lastmsgid = 0 /\ ~sub.nc_done
        /\ sub.state = IF startTime = None THEN "LIVE" ELSE "REPLAY"
    BY NewSubscription
  <2> HIDE DEF sub
  <2> QED BY <2>1, Live, Replay
<1>3. subscriptionQ' = [subscriptionQ EXCEPT ![s] = next]
  BY <1>1
<1> HIDE DEF next
<1>4. /\ subscriptionQ' \in [Sessions -> Subscriptions \cup {None}]
      /\ \A t \in Subscribed' : Sound(subscriptionQ'[t], notificationQ)
  BY <1>2, <1>3 DEF TypeOK, Subscribed, Sound
<1> QED BY <1>4 DEF create_subscription_invoke, TypeOK, Sound, profile, log, tick, msgid

LEMMA RemoveKeeps ==
  ASSUME IInv, NEW s \in Sessions, agt_not_remove_subscription(s) PROVE IInv'
<1>1. /\ subscriptionQ' \in [Sessions -> Subscriptions \cup {None}]
      /\ \A t \in Subscribed' : Sound(subscriptionQ'[t], notificationQ)
  BY DEF IInv, agt_not_remove_subscription, TypeOK, Subscribed
<1> QED BY <1>1 DEF IInv, agt_not_remove_subscription, TypeOK, Sound, profile, log, tick, msgid

\* What a round makes of the subscriptions.
LEMMA Round ==
  ASSUME IInv
  PROVE  LET served == [s \in Sessions |-> IF s \in Subscribed THEN serve(subscriptionQ[s]) ELSE None]
         IN \A s \in Sessions :
              /\ \/ served[s] = None
                 \/ Sound(served[s], notificationQ) /\ Moved(served[s])
              /\ s \in Subscribed /\ served[s] = None
                   => Positions(subscriptionQ[s], notificationComplete) # {}
<1> SUFFICES ASSUME NEW s \in Subscribed
             PROVE  \/ Sound(serve(subscriptionQ[s]), notificationQ) /\ Moved(serve(subscriptionQ[s]))
                    \/ /\ serve(subscriptionQ[s]) = None
                       /\ Positions(subscriptionQ[s], notificationComplete) # {}
  BY NoneAssumption DEF Sound
<1> QED BY Serve DEF IInv

\* No subscription is behind what is kept.
LEMMA Kept ==
  ASSUME TypeOK, NEW subs \in [Sessions -> Subscriptions \cup {None}]
  PROVE  /\ kept(subs) \subseteq notificationQ
         /\ \A s \in Sessions : subs[s] # None /\ subs[s].lastmsgid # 0 =>
              /\ subs[s].lastmsgid \in notificationQ => subs[s].lastmsgid \in kept(subs)
              /\ \A i \in notificationQ \ kept(subs) : i <= subs[s].lastmsgid
<1> DEFINE got == {subs[s].lastmsgid : s \in {s \in Sessions : subs[s] # None}} \ {0}
<1>1. kept(subs) = {i \in notificationQ : got # {} /\ Min(got) <= i}
  BY DEF kept
<1>2. got \in SUBSET Nat
  <2>1. \A s \in Sessions : subs[s] # None => subs[s].lastmsgid \in Nat
    BY DEF Subscriptions, Pointers, Ids, NULL
  <2> QED BY <2>1
<1>3. ASSUME NEW s \in Sessions, subs[s] # None, subs[s].lastmsgid # 0
      PROVE  subs[s].lastmsgid \in got
  BY <1>3
<1> HIDE DEF got
<1>4. got # {} => Min(got) \in got /\ \A i \in got : Min(got) <= i
  BY <1>2, MinIsLeast
<1>5. notificationQ \in SUBSET Nat
  BY LogEntries DEF Ids
<1>6. ASSUME NEW s \in Sessions, subs[s] # None, subs[s].lastmsgid # 0,
             NEW i \in notificationQ, i \notin kept(subs)
      PROVE  i <= subs[s].lastmsgid
  <2> DEFINE last == subs[s].lastmsgid
             min == Min(got)
  <2>1. last \in got /\ min \in got /\ min <= last
    BY <1>3, <1>4, <1>6
  <2>2. ~(min <= i)
    BY <1>1, <1>6, <2>1
  <2> HIDE DEF last, min
  <2>3. last \in Nat /\ min \in Nat /\ i \in Nat
    BY <1>2, <1>5, <1>6, <2>1
  <2>4. i <= last
    BY <2>1, <2>2, <2>3
  <2> QED BY <2>4 DEF last
<1>7. ASSUME NEW s \in Sessions, subs[s] # None, subs[s].lastmsgid # 0,
             subs[s].lastmsgid \in notificationQ
      PROVE  subs[s].lastmsgid \in kept(subs)
  BY <1>1, <1>2, <1>3, <1>4, <1>7
<1> QED BY <1>1, <1>6, <1>7

LEMMA SendKeeps == ASSUME IInv, send_some_notifications PROVE IInv'
<1> USE DEF IInv
<1> DEFINE served == [s \in Sessions |-> IF s \in Subscribed THEN serve(subscriptionQ[s]) ELSE None]
           sends == {s \in Subscribed : served[s] # None /\ served[s].sent # subscriptionQ[s].sent}
           total == sendtotal + Cardinality(sends)
<1>1. /\ \/ phase' = "idle" /\ sendtotal' = 0 /\ agt_not_clean_eventlog(served)
         \/ /\ phase' = "sending" /\ sendtotal' = total
            /\ subscriptionQ' = served /\ UNCHANGED notificationQ
      /\ UNCHANGED <<profile, now, events>>
  BY DEF send_some_notifications
<1>2. \A s \in Sessions :
        served[s] # None => Sound(served[s], notificationQ) /\ Moved(served[s])
  BY Round
<1>3. served \in [Sessions -> Subscriptions \cup {None}]
  BY <1>2 DEF Sound
<1>4. sendtotal' \in Nat /\ phase' \in {"idle", "sending"}
  <2>1. Cardinality(sends) \in Nat
    <3>1. sends \in SUBSET Sessions
      BY DEF Subscribed
    <3> QED BY <3>1, ParametersAssumption, FS_Subset, FS_CardinalityType
  <2> HIDE DEF sends
  <2>2. total \in Nat
    BY <2>1 DEF TypeOK
  <2> QED BY <1>1, <2>2
<1> HIDE DEF served, sends, total
<1>5. /\ notificationQ' \subseteq notificationQ
      /\ agt_eventlog_size > 0 => notificationQ' = notificationQ
      /\ subscriptionQ' \in [Sessions -> Subscriptions \cup {None}]
      /\ \A s \in Sessions : subscriptionQ'[s] = None \/ Sound(subscriptionQ'[s], notificationQ')
  <2>1. CASE subscriptionQ' = served /\ notificationQ' = notificationQ
    BY <1>2, <1>3, <2>1
  <2>2. CASE /\ ~(agt_eventlog_size > 0)
             /\ notificationQ' = kept(served)
             /\ subscriptionQ' = [s \in Sessions |->
                  IF served[s] = None THEN None ELSE unlog(served[s], notificationQ \ kept(served))]
    <3>1. kept(served) \subseteq notificationQ
      BY <1>3, Kept
    <3>2. \A s \in Sessions : subscriptionQ'[s] = None \/ Sound(subscriptionQ'[s], notificationQ')
      <4> SUFFICES ASSUME NEW s \in Sessions, served[s] # None
                   PROVE  Sound(unlog(served[s], notificationQ \ kept(served)), kept(served))
        BY <2>2
      <4>1. Sound(served[s], notificationQ) /\ Moved(served[s])
        BY <1>2
      <4>2. served[s].lastmsg \in kept(served) \cup {NULL}
        BY <1>3, <4>1, Kept DEF Sound, Follows, NULL
      <4> QED BY <3>1, <4>1, <4>2, LogEntries, Unlog
    <3>3. subscriptionQ' \in [Sessions -> Subscriptions \cup {None}]
      <4>1. subscriptionQ' = [s \in Sessions |-> subscriptionQ'[s]]
        BY <2>2
      <4> QED BY <3>2, <4>1 DEF Sound
    <3> QED BY <2>2, <3>1, <3>2, <3>3
  <2> QED BY <1>1, <2>1, <2>2 DEF agt_not_clean_eventlog
<1>6. \A s \in Subscribed' : Sound(subscriptionQ'[s], notificationQ')
  BY <1>5 DEF Subscribed
<1> QED BY <1>1, <1>4, <1>5, <1>6 DEF TypeOK, profile, msgid

LEMMA NextKeeps == IInv /\ [Next]_vars => IInv'
<1> SUFFICES ASSUME IInv, [Next]_vars PROVE IInv'
  OBVIOUS
<1>1. CASE Clock
  BY <1>1, ClockKeeps
<1>2. CASE agt_not_queue_notification
  BY <1>2, QueueKeeps
<1>3. ASSUME NEW s \in Sessions, create_subscription_invoke(s) PROVE IInv'
  BY <1>3, CreateKeeps
<1>4. ASSUME NEW s \in Sessions, agt_not_remove_subscription(s) PROVE IInv'
  BY <1>4, RemoveKeeps
<1>5. CASE send_some_notifications
  BY <1>5, SendKeeps
<1>6. CASE UNCHANGED vars
  BY <1>6 DEF IInv, TypeOK, Sound, Subscribed, msgid, vars, profile, log, tick
<1> QED BY <1>1, <1>2, <1>3, <1>4, <1>5, <1>6 DEF Next

LEMMA Invariance == Spec => []IInv
<1>1. Init => IInv
  BY InitIInv
<1>2. IInv /\ [Next]_vars => IInv'
  BY NextKeeps
<1> QED BY <1>1, <1>2, PTL DEF Spec

-----------------------------------------------------------------------------
(* Theorems *)

\* Every variable stays in its type, and the log of a server with a replay
\* buffer within --eventlog-size (the assert of agt_not_queue_notification).
THEOREM LogTypes == Spec => []TypeOK
<1>1. IInv => TypeOK
  BY DEF IInv
<1> QED BY <1>1, Invariance, PTL

\* No subscription follows a pointer to an entry that delete_oldest_notification
\* or agt_not_clean_eventlog has freed.
THEOREM PointersAreLive == Spec => []PointersLive
<1>1. IInv => PointersLive
  BY DEF IInv, Sound, Follows, PointersLive
<1> QED BY <1>1, Invariance, PTL

\* agt_not_clean_eventlog deletes nothing that a subscription behind which
\* it cleans has still to get.
THEOREM CleanedWhenSent == Spec => KeptUntilSent
<1>1. ASSUME IInv, [Next]_vars, agt_eventlog_size = 0,
             NEW s \in Subscribed, subscriptionQ'[s] # None, subscriptionQ'[s].lastmsgid # 0,
             NEW i \in notificationQ \ notificationQ'
      PROVE  i <= subscriptionQ'[s].lastmsgid
  <2> DEFINE served == [t \in Sessions |-> IF t \in Subscribed THEN serve(subscriptionQ[t]) ELSE None]
  <2>1. /\ notificationQ' = kept(served)
        /\ subscriptionQ' = [t \in Sessions |->
             IF served[t] = None THEN None ELSE unlog(served[t], notificationQ \ kept(served))]
    <3>1. notificationQ' # notificationQ
      BY <1>1
    <3>2. CASE agt_not_queue_notification
      <4>1. notificationQ \subseteq notificationQ'
        BY <1>1, <3>2 DEF agt_not_queue_notification
      <4> QED BY <1>1, <4>1
    <3>3. CASE send_some_notifications
      <4>1. agt_not_clean_eventlog(served)
        BY <3>1, <3>3 DEF send_some_notifications
      <4> QED BY <1>1, <4>1 DEF agt_not_clean_eventlog
    <3> QED BY <1>1, <3>1, <3>2, <3>3
            DEF Next, vars, log, Clock, create_subscription_invoke, agt_not_remove_subscription
  <2>2. \A t \in Sessions :
          served[t] # None => Sound(served[t], notificationQ) /\ Moved(served[t])
    BY <1>1, Round
  <2>3. served \in [Sessions -> Subscriptions \cup {None}]
    BY <2>2 DEF Sound
  <2> HIDE DEF served
  <2>4. s \in Sessions /\ served[s] # None
    BY <1>1, <2>1 DEF Subscribed
  <2>5. served[s] \in Subscriptions
    BY <2>3, <2>4
  <2>6. subscriptionQ'[s].lastmsgid = served[s].lastmsgid
    BY <2>1, <2>4, <2>5 DEF unlog, Subscriptions
  <2> QED BY <1>1, <2>1, <2>3, <2>4, <2>6, Kept DEF IInv
<1>2. IInv /\ [Next]_vars =>
        [agt_eventlog_size = 0 =>
           \A s \in Subscribed :
             subscriptionQ'[s] # None /\ subscriptionQ'[s].lastmsgid # 0
               => \A i \in notificationQ \ notificationQ' : i <= subscriptionQ'[s].lastmsgid]_vars
  BY <1>1
<1> QED BY <1>2, Invariance, PTL DEF Spec, KeptUntilSent

\* A subscription that the server ends was sent notificationComplete.
THEOREM EndIsTold == Spec => EndsAreTold
<1>1. ASSUME IInv, [Next]_vars, NEW s \in Subscribed,
             subscriptionQ'[s] = None, ~agt_not_remove_subscription(s)
      PROVE  Positions(subscriptionQ[s], notificationComplete) # {}
  <2> DEFINE served == [t \in Sessions |-> IF t \in Subscribed THEN serve(subscriptionQ[t]) ELSE None]
  <2>1. s \in Sessions /\ subscriptionQ[s] # None
    BY DEF Subscribed
  <2>2. CASE Clock \/ UNCHANGED vars
    BY <1>1, <2>1, <2>2 DEF Clock, vars
  <2>3. CASE agt_not_queue_notification
    <3>1. CASE agt_eventlog_size > 0 /\ Cardinality(notificationQ) = agt_eventlog_size
      <4>1. notificationQ # {}
        BY <3>1, FS_EmptySet
      <4>2. subscriptionQ' = delete_oldest_notification(dlq_firstEntry(notificationQ))
        BY <2>3, <3>1 DEF agt_not_queue_notification
      <4>3. subscriptionQ'[s] \in Subscriptions
        BY <1>1, <2>1, <4>1, <4>2, OldestLeaves DEF Sound
      <4> QED BY <1>1, <4>3, NoneAssumption
    <3>2. CASE ~(agt_eventlog_size > 0 /\ Cardinality(notificationQ) = agt_eventlog_size)
      BY <1>1, <2>1, <2>3, <3>2 DEF agt_not_queue_notification
    <3> QED BY <3>1, <3>2
  <2>4. ASSUME NEW t \in Sessions, create_subscription_invoke(t)
        PROVE  Positions(subscriptionQ[s], notificationComplete) # {}
    <3>1. subscriptionQ[t] = None
      BY <2>4 DEF create_subscription_invoke, create_subscription_validate
    <3>2. subscriptionQ'[s] = subscriptionQ[s]
      BY <1>1, <2>1, <2>4, <3>1 DEF create_subscription_invoke, IInv, TypeOK
    <3> QED BY <1>1, <2>1, <3>2
  <2>5. ASSUME NEW t \in Sessions, agt_not_remove_subscription(t)
        PROVE  Positions(subscriptionQ[s], notificationComplete) # {}
    <3>1. subscriptionQ'[s] = subscriptionQ[s]
      BY <1>1, <2>1, <2>5 DEF agt_not_remove_subscription, IInv, TypeOK
    <3> QED BY <1>1, <2>1, <3>1
  <2>6. CASE send_some_notifications
    <3>1. subscriptionQ' = served \/ agt_not_clean_eventlog(served)
      BY <2>6 DEF send_some_notifications
    <3>2. served[s] # None =>
            /\ served[s] \in Subscriptions
            /\ \A ids \in SUBSET notificationQ : unlog(served[s], notificationQ \ ids) \in Subscriptions
      <4>1. served[s] # None => Sound(served[s], notificationQ)
        BY <1>1, <2>1, Round
      <4> HIDE DEF served
      <4>2. ASSUME served[s] # None, NEW ids \in SUBSET notificationQ
            PROVE  unlog(served[s], notificationQ \ ids) \in Subscriptions
        <5> DEFINE lost == served[s].lost \cup {i \in notificationQ \ ids : i > served[s].lastmsgid}
        <5>1. lost \in SUBSET Ids
          BY <1>1, <4>1, <4>2, LogEntries DEF IInv, Sound, Subscriptions
        <5>2. unlog(served[s], notificationQ \ ids) = [served[s] EXCEPT !.lost = lost]
          BY DEF unlog
        <5> HIDE DEF lost
        <5> QED BY <4>1, <4>2, <5>1, <5>2 DEF Sound, Subscriptions
      <4> QED BY <4>1, <4>2 DEF Sound
    <3>3. kept(served) \in SUBSET notificationQ
      BY DEF kept
    <3>4. served[s] = None => Positions(subscriptionQ[s], notificationComplete) # {}
      BY <1>1, <2>1, Round
    <3> HIDE DEF served
    <3>5. CASE served[s] = None
      BY <3>4, <3>5
    <3>6. CASE served[s] # None
      <4>1. subscriptionQ'[s] \in Subscriptions
        BY <2>1, <3>1, <3>2, <3>3, <3>6 DEF agt_not_clean_eventlog
      <4> QED BY <1>1, <4>1, NoneAssumption
    <3> QED BY <3>5, <3>6
  <2> QED BY <1>1, <2>2, <2>3, <2>4, <2>5, <2>6 DEF Next
<1>2. IInv /\ [Next]_vars =>
        [\A s \in Subscribed :
           subscriptionQ'[s] = None /\ ~agt_not_remove_subscription(s)
             => Positions(subscriptionQ[s], notificationComplete) # {}]_vars
  BY <1>1
<1> QED BY <1>2, Invariance, PTL DEF Spec, EndsAreTold

-----------------------------------------------------------------------------
(* What a subscriber gets                                                  *)
(*                                                                         *)
(* Told(sub, ids, ev, t): where a subscription stands, what it was sent    *)
(* and how it ends, with the log ids, the events ev and the time t.        *)

Logs == Seq([time : Times, allowed : BOOLEAN])

\* ToReplay, ToFollow and GotOrLost, of the events ev.
Replayable(sub, ev) ==
  {i \in sub.had : /\ sub.startTime # None /\ sub.startTime <= ev[i].time
                   /\ sub.stopTime # None => ev[i].time < sub.stopTime}
Wanted(sub, ev) == Replayable(sub, ev) \cup ((sub.since + 1) .. Len(ev))
Got(sub, i, ev) ==
  ~ev[i].allowed \/ i \in sub.lost \/ \E k \in 1..Len(sub.sent) : sub.sent[k] = Event(i)

\* Where it is in the log: what precedes was sent, what follows is in the log,
\* or it was lost.
Placed(sub, ids, ev) ==
  /\ sub.had \subseteq 1 .. sub.since /\ sub.since <= Len(ev) /\ sub.lastmsgid <= Len(ev)
  /\ \A i \in Wanted(sub, ev) : i <= sub.lastmsgid => Got(sub, i, ev)
  /\ \A i \in Wanted(sub, ev) : i > sub.lastmsgid => i \in ids \cup sub.lost

\* Where its replay begins and ends, and that it is over.
Bounded(sub, ids, ev) ==
  /\ sub.firstreplaymsgid <= sub.since
  /\ sub.firstreplaymsg \in {NULL, sub.firstreplaymsgid}
  /\ sub.firstreplaymsg = NULL => sub.firstreplaymsgid \notin ids
  /\ sub.lastreplaymsg \in {NULL, sub.lastreplaymsgid}
  /\ \A i \in Replayable(sub, ev) : sub.firstreplaymsgid <= i
  /\ sub.lastreplaymsgid # 0 => \A i \in Replayable(sub, ev) : i <= sub.lastreplaymsgid
  /\ sub.rc_ready => \A i \in Replayable(sub, ev) : i <= sub.lastmsgid \/ i \notin ids
  /\ sub.rc_done => sub.rc_ready
  /\ sub.state = "REPLAY" => sub.startTime # None

\* The order of its messages.
Ordered(sub, ev) ==
  /\ \A k \in 1 .. Len(sub.sent), i \in Ids : sub.sent[k] = Event(i) => i <= sub.lastmsgid
  /\ \A k, l \in 1 .. Len(sub.sent), i, j \in Ids :
       k < l /\ sub.sent[k] = Event(i) /\ sub.sent[l] = Event(j) => i < j
  /\ \A k \in 1 .. Len(sub.sent) : sub.sent[k] = replayComplete =>
         sub.rc_done /\ sub.startTime # None
  /\ \A k, l \in 1 .. Len(sub.sent) :
       sub.sent[k] = replayComplete /\ sub.sent[l] = replayComplete => k = l
  /\ \A k, l \in 1 .. Len(sub.sent), i \in Replayable(sub, ev) :
       sub.sent[k] = replayComplete /\ sub.sent[l] = Event(i) => l < k
  /\ \A k \in 1 .. Len(sub.sent) : sub.sent[k] = notificationComplete =>
         sub.nc_done /\ k = Len(sub.sent)

\* Its stopTime.
Timely(sub, t) ==
  /\ sub.stopTime # None /\ ~sub.futurestop => sub.stopTime <= t
  /\ sub.state = "TIMED" => sub.stopTime # None
  /\ sub.state = "SHUTDOWN" => sub.stopTime # None /\ sub.stopTime <= t
  /\ sub.nc_done => sub.state = "SHUTDOWN"

Told(sub, ids, ev, t) ==
  Placed(sub, ids, ev) /\ Bounded(sub, ids, ev) /\ Ordered(sub, ev) /\ Timely(sub, t)

\* Times do not go back.
Clocked(ev, t) ==
  \A i, j \in 1 .. Len(ev) : (i <= j => ev[i].time <= ev[j].time) /\ ev[i].time <= t

DInv == /\ IInv /\ Clocked(events, now)
        /\ \A s \in Subscribed : Told(subscriptionQ[s], notificationQ, events, now)

LEMMA DifferentMessages ==
  /\ \A i, j : Event(i) = Event(j) => i = j
  /\ \A i : Event(i) # replayComplete /\ Event(i) # notificationComplete
  /\ replayComplete # notificationComplete
BY DEF Event, replayComplete, notificationComplete

LEMMA FieldTypes ==
  ASSUME NEW sub \in Subscriptions
  PROVE  /\ sub.startTime \in Times \cup {None} /\ sub.stopTime \in Times \cup {None}
         /\ sub.futurestop \in BOOLEAN /\ sub.state \in States
         /\ sub.rc_ready \in BOOLEAN /\ sub.rc_done \in BOOLEAN /\ sub.nc_done \in BOOLEAN
         /\ sub.firstreplaymsg \in Nat /\ sub.firstreplaymsgid \in Nat
         /\ sub.lastreplaymsg \in Nat /\ sub.lastreplaymsgid \in Nat
         /\ sub.lastmsg \in Nat /\ sub.lastmsgid \in Nat
         /\ sub.since \in Nat /\ sub.had \subseteq Nat \ {0} /\ sub.had \subseteq Ids
         /\ sub.sent \in Seq(Messages) /\ sub.lost \subseteq Ids
         /\ Times \subseteq Nat
BY ParametersAssumption DEF Subscriptions, Pointers, Ids, NULL, Times

LEMMA LogTimes ==
  ASSUME NEW ev \in Logs, NEW i \in 1 .. Len(ev)
  PROVE  ev[i].time \in Times /\ ev[i].time \in Nat
<1> DEFINE Entries == [time : Times, allowed : BOOLEAN]
<1>1. ev[i] \in Entries
  <2>1. ev \in Seq(Entries)
    BY DEF Logs
  <2> HIDE DEF Entries
  <2> QED BY <2>1
<1>2. ev[i].time \in Times
  BY <1>1
<1> QED BY <1>2, ParametersAssumption DEF Times

\* What a step of a subscription leaves as it is.
Alike(sub, next) ==
  /\ next.startTime = sub.startTime /\ next.stopTime = sub.stopTime
  /\ next.futurestop = sub.futurestop
  /\ next.since = sub.since /\ next.had = sub.had /\ next.lost = sub.lost
  /\ next.firstreplaymsg = sub.firstreplaymsg /\ next.firstreplaymsgid = sub.firstreplaymsgid
  /\ next.lastreplaymsg = sub.lastreplaymsg /\ next.lastreplaymsgid = sub.lastreplaymsgid

LEMMA AlikeWants ==
  ASSUME NEW sub \in Subscriptions, NEW next \in Subscriptions, NEW ev, Alike(sub, next)
  PROVE  Replayable(next, ev) = Replayable(sub, ev) /\ Wanted(next, ev) = Wanted(sub, ev)
BY DEF Alike, Replayable, Wanted

LEMMA WantedIds ==
  ASSUME NEW sub \in Subscriptions, NEW ev \in Logs, NEW ids, Placed(sub, ids, ev)
  PROVE  /\ Replayable(sub, ev) \subseteq 1 .. sub.since /\ Replayable(sub, ev) \subseteq sub.had
         /\ Wanted(sub, ev) \subseteq 1 .. Len(ev)
         /\ Len(ev) \in Nat /\ sub.since \in Nat /\ sub.since <= Len(ev)
<1>1. sub.since \in Nat /\ Len(ev) \in Nat /\ sub.since <= Len(ev) /\ sub.had \subseteq 1 .. sub.since
  BY FieldTypes DEF Placed, Logs
<1>2. Replayable(sub, ev) \subseteq sub.had
  BY DEF Replayable
<1> QED BY <1>1, <1>2 DEF Wanted

-----------------------------------------------------------------------------
(* Messages are sent *)

\* An event: the next one in the log that the subscription wants.
LEMMA EventTold ==
  ASSUME NEW sub \in Subscriptions, NEW next \in Subscriptions, NEW ev \in Logs,
         NEW ids \in SUBSET (1 .. Len(ev)), NEW n \in ids,
         Placed(sub, ids, ev), n > sub.lastmsgid,
         \A i \in Wanted(sub, ev) : sub.lastmsgid < i /\ i < n => i \notin ids,
         Alike(sub, next), next.lastmsgid = n,
         next.sent = IF ev[n].allowed THEN Append(sub.sent, Event(n)) ELSE sub.sent
  PROVE  Placed(next, ids, ev)
<1>1. Replayable(next, ev) = Replayable(sub, ev) /\ Wanted(next, ev) = Wanted(sub, ev)
  BY AlikeWants
<1>2. /\ Wanted(sub, ev) \subseteq 1 .. Len(ev) /\ Len(ev) \in Nat
      /\ sub.lastmsgid \in Nat /\ n \in 1 .. Len(ev) /\ sub.sent \in Seq(Messages)
  BY WantedIds, FieldTypes
<1>3. /\ next.since = sub.since /\ next.had = sub.had /\ next.lost = sub.lost
  BY DEF Alike
<1>4. Len(sub.sent) \in Nat /\ \A k \in 1 .. Len(sub.sent) :
        k \in 1 .. Len(next.sent) /\ next.sent[k] = sub.sent[k]
  BY <1>2
<1>5. ev[n].allowed => Len(sub.sent) + 1 \in 1 .. Len(next.sent) /\ next.sent[Len(sub.sent) + 1] = Event(n)
  BY <1>2
<1>6. ASSUME NEW i \in Wanted(sub, ev), i <= n PROVE Got(next, i, ev)
  <2>1. CASE i <= sub.lastmsgid
    BY <1>3, <1>4, <2>1 DEF Placed, Got
  <2>2. CASE i = n
    BY <1>5, <2>2 DEF Got
  <2>3. CASE sub.lastmsgid < i /\ i < n
    <3>1. i \in sub.lost
      BY <2>3 DEF Placed
    <3> QED BY <1>3, <3>1 DEF Got
  <2> QED BY <1>2, <1>6, <2>1, <2>2, <2>3
<1>7. ASSUME NEW i \in Wanted(sub, ev), i > n PROVE i \in ids \cup next.lost
  <2>1. i > sub.lastmsgid
    BY <1>2, <1>7
  <2> QED BY <1>3, <2>1 DEF Placed
<1>8. next.had \subseteq 1 .. next.since /\ next.since <= Len(ev) /\ next.lastmsgid <= Len(ev)
  BY <1>2, <1>3 DEF Placed
<1> QED BY <1>1, <1>6, <1>7, <1>8 DEF Placed

\* A marker, or nothing.
LEMMA MarkerTold ==
  ASSUME NEW sub \in Subscriptions, NEW next \in Subscriptions, NEW ev \in Logs,
         NEW ids, Placed(sub, ids, ev),
         Alike(sub, next), next.lastmsgid = sub.lastmsgid,
         next.sent = sub.sent \/ \E msg \in Messages : next.sent = Append(sub.sent, msg)
  PROVE  Placed(next, ids, ev)
<1>1. Replayable(next, ev) = Replayable(sub, ev) /\ Wanted(next, ev) = Wanted(sub, ev)
  BY AlikeWants
<1>2. /\ next.since = sub.since /\ next.had = sub.had /\ next.lost = sub.lost
  BY DEF Alike
<1>3. sub.sent \in Seq(Messages)
  BY FieldTypes
<1>4. \A k \in 1 .. Len(sub.sent) : k \in 1 .. Len(next.sent) /\ next.sent[k] = sub.sent[k]
  BY <1>3
<1>5. \A i : Got(sub, i, ev) => Got(next, i, ev)
  BY <1>2, <1>4 DEF Got
<1> QED BY <1>1, <1>2, <1>5 DEF Placed

LEMMA BoundsKept ==
  ASSUME NEW sub \in Subscriptions, NEW next \in Subscriptions, NEW ev, NEW ids,
         Bounded(sub, ids, ev), Alike(sub, next),
         next.state = "REPLAY" => sub.state = "REPLAY",
         next.rc_done => next.rc_ready,
         next.rc_ready => \A i \in Replayable(sub, ev) : i <= next.lastmsgid \/ i \notin ids
  PROVE  Bounded(next, ids, ev)
<1>1. Replayable(next, ev) = Replayable(sub, ev)
  BY AlikeWants
<1> QED BY <1>1 DEF Bounded, Alike

\* The message comes after all others.
LEMMA MessageOrdered ==
  ASSUME NEW sub \in Subscriptions, NEW next \in Subscriptions, NEW ev, NEW msg \in Messages,
         Ordered(sub, ev), Alike(sub, next), ~sub.nc_done,
         next.sent = Append(sub.sent, msg), next.lastmsgid >= sub.lastmsgid,
         sub.rc_done => next.rc_done,
         \A n \in Ids : msg = Event(n) =>
            /\ sub.lastmsgid < n /\ n <= next.lastmsgid
            /\ sub.rc_done => n \notin Replayable(sub, ev),
         msg = replayComplete => ~sub.rc_done /\ next.rc_done /\ sub.startTime # None,
         msg = notificationComplete => next.nc_done
  PROVE  Ordered(next, ev)
<1> DEFINE last == Len(sub.sent) + 1
<1>1. /\ sub.sent \in Seq(Messages) /\ Len(sub.sent) \in Nat /\ Len(next.sent) = last
      /\ next.sent[last] = msg
      /\ \A k \in 1 .. last : k # last => k \in 1 .. Len(sub.sent) /\ next.sent[k] = sub.sent[k]
  BY FieldTypes
<1>2. Replayable(next, ev) = Replayable(sub, ev) /\ next.startTime = sub.startTime
  BY AlikeWants DEF Alike
<1>3. /\ \A k \in 1 .. Len(sub.sent), i \in Ids : sub.sent[k] = Event(i) => i <= sub.lastmsgid
      /\ \A k, l \in 1 .. Len(sub.sent), i, j \in Ids :
           k < l /\ sub.sent[k] = Event(i) /\ sub.sent[l] = Event(j) => i < j
      /\ \A k \in 1 .. Len(sub.sent) : sub.sent[k] = replayComplete =>
             sub.rc_done /\ sub.startTime # None
      /\ \A k, l \in 1 .. Len(sub.sent) :
           sub.sent[k] = replayComplete /\ sub.sent[l] = replayComplete => k = l
      /\ \A k, l \in 1 .. Len(sub.sent), i \in Replayable(sub, ev) :
           sub.sent[k] = replayComplete /\ sub.sent[l] = Event(i) => l < k
      /\ \A k \in 1 .. Len(sub.sent) : sub.sent[k] # notificationComplete
  BY DEF Ordered
<1>4. /\ sub.lastmsgid \in Nat /\ next.lastmsgid \in Nat /\ Ids \subseteq Nat /\ last \in Nat
      /\ Replayable(sub, ev) \subseteq Ids
  BY <1>1, FieldTypes DEF Ids, Replayable
<1> HIDE DEF last
<1>5. ASSUME NEW k \in 1 .. last, NEW i \in Ids, next.sent[k] = Event(i)
      PROVE  i <= next.lastmsgid
  <2>1. CASE k = last
    BY <1>1, <1>5, <2>1
  <2>2. CASE k # last
    <3>1. i <= sub.lastmsgid
      BY <1>1, <1>3, <1>5, <2>2
    <3> QED BY <1>4, <3>1
  <2> QED BY <2>1, <2>2
<1>6. ASSUME NEW k \in 1 .. last, NEW l \in 1 .. last, NEW i \in Ids, NEW j \in Ids,
             k < l, next.sent[k] = Event(i), next.sent[l] = Event(j)
      PROVE  i < j
  <2>1. k # last
    BY <1>4, <1>6
  <2>2. CASE l = last
    <3>1. i <= sub.lastmsgid /\ sub.lastmsgid < j
      BY <1>1, <1>3, <1>6, <2>1, <2>2
    <3> QED BY <1>4, <3>1
  <2>3. CASE l # last
    BY <1>1, <1>3, <1>6, <2>1, <2>3
  <2> QED BY <2>2, <2>3
<1>7. ASSUME NEW k \in 1 .. last, next.sent[k] = replayComplete
      PROVE  next.rc_done /\ next.startTime # None
  BY <1>1, <1>2, <1>3, <1>7
<1>8. ASSUME NEW k \in 1 .. last, NEW l \in 1 .. last,
             next.sent[k] = replayComplete, next.sent[l] = replayComplete
      PROVE  k = l
  BY <1>1, <1>3, <1>8
<1>9. ASSUME NEW k \in 1 .. last, NEW l \in 1 .. last, NEW i \in Replayable(sub, ev),
             next.sent[k] = replayComplete, next.sent[l] = Event(i)
      PROVE  l < k
  <2>1. CASE k = last
    <3>1. l # last
      BY <1>1, <1>9, <2>1, DifferentMessages
    <3> QED BY <1>4, <2>1, <3>1
  <2>2. CASE k # last /\ l = last
    <3>1. sub.rc_done /\ msg = Event(i) /\ i \in Ids
      BY <1>1, <1>3, <1>4, <1>9, <2>2
    <3> QED BY <3>1
  <2>3. CASE k # last /\ l # last
    BY <1>1, <1>3, <1>9, <2>3
  <2> QED BY <2>1, <2>2, <2>3
<1>10. ASSUME NEW k \in 1 .. last, next.sent[k] = notificationComplete
       PROVE  next.nc_done /\ k = last
  BY <1>1, <1>3, <1>10
<1> HIDE DEF Alike
<1> QED BY <1>1, <1>2, <1>5, <1>6, <1>7, <1>8, <1>9, <1>10 DEF Ordered

LEMMA SameOrdered ==
  ASSUME NEW sub \in Subscriptions, NEW next \in Subscriptions, NEW ev,
         Ordered(sub, ev), Alike(sub, next), next.sent = sub.sent,
         next.lastmsgid >= sub.lastmsgid,
         sub.rc_done => next.rc_done, sub.nc_done => next.nc_done
  PROVE  Ordered(next, ev)
<1>1. Replayable(next, ev) = Replayable(sub, ev) /\ next.startTime = sub.startTime
  BY AlikeWants DEF Alike
<1>2. sub.lastmsgid \in Nat /\ next.lastmsgid \in Nat /\ Ids \subseteq Nat
  BY FieldTypes DEF Ids
<1>3. ASSUME NEW k \in 1 .. Len(sub.sent), NEW i \in Ids, sub.sent[k] = Event(i)
      PROVE  i <= next.lastmsgid
  <2>1. i <= sub.lastmsgid
    BY <1>3 DEF Ordered
  <2> QED BY <1>2, <2>1
<1> QED BY <1>1, <1>3 DEF Ordered

-----------------------------------------------------------------------------
(* What is next *)

\* The next entry, as the three states of a subscription look for it: no
\* entry between it and the last message is wanted.
IsNext(sub, n) ==
  /\ n = NULL => \A i \in Wanted(sub, events) : i > sub.lastmsgid => i \notin notificationQ
  /\ n # NULL => /\ n \in notificationQ /\ n > sub.lastmsgid
                 /\ \A i \in Wanted(sub, events) :
                      sub.lastmsgid < i /\ i < n => i \notin notificationQ

LEMMA FirstOf ==
  ASSUME TypeOK, NEW part \in SUBSET notificationQ
  PROVE  /\ dlq_firstEntry(part) = NULL <=> part = {}
         /\ part # {} => dlq_firstEntry(part) \in part
         /\ \A i \in part : dlq_firstEntry(part) <= i
<1>1. part \in SUBSET Nat /\ 0 \notin part
  BY LogEntries DEF Ids
<1>2. part # {} => Min(part) \in part /\ \A y \in part : Min(part) <= y
  BY <1>1, MinIsLeast
<1> QED BY <1>1, <1>2 DEF dlq_firstEntry, NULL

LEMMA EntryAfter ==
  ASSUME TypeOK, NEW m \in Nat
  PROVE  LET n == get_entry_after(m) IN
         /\ n = NULL => \A i \in notificationQ : ~(i > m)
         /\ n # NULL => n \in notificationQ /\ n > m
         /\ \A i \in notificationQ : i > m => n <= i
<1> DEFINE part == {i \in notificationQ : i > m}
<1>1. part \in SUBSET notificationQ /\ get_entry_after(m) = dlq_firstEntry(part)
  BY DEF get_entry_after
<1> HIDE DEF part
<1>2. /\ dlq_firstEntry(part) = NULL <=> part = {}
      /\ part # {} => dlq_firstEntry(part) \in part
      /\ \A i \in part : dlq_firstEntry(part) <= i
  BY <1>1, FirstOf
<1> QED BY <1>1, <1>2 DEF part

\* The entry after the last message is the next one.
LEMMA AfterLast ==
  ASSUME TypeOK, NEW sub, sub.lastmsgid \in Nat, Wanted(sub, events) \subseteq Nat
  PROVE  IsNext(sub, get_entry_after(sub.lastmsgid))
<1>1. PICK n : n = get_entry_after(sub.lastmsgid)
  OBVIOUS
<1>2. /\ n = NULL => \A i \in notificationQ : ~(i > sub.lastmsgid)
      /\ n # NULL => n \in notificationQ /\ n > sub.lastmsgid
      /\ \A i \in notificationQ : i > sub.lastmsgid => n <= i
  BY <1>1, EntryAfter
<1>3. notificationQ \subseteq Nat
  BY LogEntries DEF Ids
<1>4. IsNext(sub, n)
  <2>1. ASSUME n # NULL, NEW i \in Wanted(sub, events), sub.lastmsgid < i, i < n
        PROVE  i \notin notificationQ
    <3>0. i \in Nat /\ n \in Nat
      BY <1>2, <1>3, <2>1, Zenon
    <3>1. i > sub.lastmsgid /\ ~(n <= i)
      BY <2>1, <3>0
    <3> QED BY <1>2, <3>1, Zenon
  <2> QED BY <1>2, <2>1 DEF IsNext
<1> QED BY <1>1, <1>4

LEMMA LiveNext ==
  ASSUME TypeOK, NEW sub, Sound(sub, notificationQ), Placed(sub, notificationQ, events)
  PROVE  IsNext(sub, next_entry(sub, dlq_firstEntry(notificationQ)))
<1> DEFINE n == next_entry(sub, dlq_firstEntry(notificationQ))
<1>1. sub \in Subscriptions /\ sub.lastmsgid \in Nat /\ events \in Logs
  BY FieldTypes DEF Sound, TypeOK, Logs
<1>2. /\ notificationQ \subseteq Nat \ {0} /\ Wanted(sub, events) \subseteq Nat
      /\ sub.lastmsg \in {NULL, sub.lastmsgid}
  BY <1>1, LogEntries, WantedIds DEF Sound, Follows, Ids
<1>3. CASE sub.lastmsgid # 0
  <2>1. n = get_entry_after(sub.lastmsgid)
    BY <1>2, <1>3 DEF next_entry, NULL
  <2> QED BY <1>1, <1>2, <2>1, AfterLast
<1>4. CASE sub.lastmsgid = 0
  <2>1. n = dlq_firstEntry(notificationQ)
    BY <1>2, <1>4 DEF next_entry, NULL
  <2>2. /\ n = NULL <=> notificationQ = {}
        /\ notificationQ # {} => n \in notificationQ
        /\ \A i \in notificationQ : n <= i
    BY <2>1, FirstOf
  <2> HIDE DEF n
  <2>4. n # NULL => n \in notificationQ /\ n > sub.lastmsgid
    <3>1. ASSUME n # NULL PROVE n \in notificationQ /\ n > sub.lastmsgid
      <4>1. n \in notificationQ /\ n \in Nat /\ n # 0
        BY <1>2, <2>2, <3>1
      <4> QED BY <1>4, <4>1
    <3> QED BY <3>1
  <2>3. ASSUME n # NULL, NEW i \in Wanted(sub, events), i < n PROVE i \notin notificationQ
    <3>0. i \in Nat /\ n \in Nat
      BY <1>2, <2>3, <2>4, Zenon
    <3>1. ~(n <= i)
      BY <2>3, <3>0
    <3> QED BY <2>2, <3>1, Zenon
  <2>5. IsNext(sub, n)
    BY <2>2, <2>3, <2>4 DEF IsNext
  <2> QED BY <2>5 DEF n
<1> QED BY <1>3, <1>4

LEMMA ReplayNext ==
  ASSUME TypeOK, NEW sub, Sound(sub, notificationQ), sub.state = "REPLAY", ~sub.rc_ready,
         Placed(sub, notificationQ, events), Bounded(sub, notificationQ, events)
  PROVE  IsNext(sub, next_entry(sub, first_to_replay(sub)))
<1> DEFINE n == next_entry(sub, first_to_replay(sub))
           first == sub.firstreplaymsgid
<1>1. sub \in Subscriptions /\ sub.lastmsgid \in Nat /\ events \in Logs /\ first \in Nat
  BY FieldTypes DEF Sound, TypeOK, Logs
<1>2. /\ notificationQ \subseteq Nat \ {0} /\ Wanted(sub, events) \subseteq Nat
      /\ sub.lastmsg \in {NULL, sub.lastmsgid} /\ sub.since \in Nat
  BY <1>1, LogEntries, WantedIds DEF Sound, Follows, Ids
<1>3. CASE sub.lastmsgid # 0
  <2>1. n = get_entry_after(sub.lastmsgid)
    BY <1>2, <1>3 DEF next_entry, NULL
  <2> QED BY <1>1, <1>2, <2>1, AfterLast
<1>4. CASE sub.lastmsgid = 0
  <2>1. n = first_to_replay(sub)
    BY <1>2, <1>4 DEF next_entry, NULL
  <2>2. \A i \in Wanted(sub, events) : first <= i
    <3>1. \A i \in Replayable(sub, events) : first <= i
      BY DEF Bounded
    <3>2. \A i \in (sub.since + 1) .. Len(events) : first <= i
      BY <1>1, <1>2 DEF Bounded
    <3> QED BY <3>1, <3>2 DEF Wanted
  <2> HIDE DEF n
  <2>3. CASE sub.firstreplaymsg # NULL
    <3>1. n = first /\ n \in notificationQ
      BY <1>4, <2>1, <2>3 DEF first_to_replay, Bounded, Sound, Follows
    <3> QED BY <1>1, <1>2, <1>4, <2>2, <3>1 DEF IsNext, n, NULL
  <2>4. CASE sub.firstreplaymsg = NULL
    <3>1. n = get_entry_after(first) /\ first \notin notificationQ
      BY <2>1, <2>4 DEF first_to_replay, Bounded
    <3>2. /\ n = NULL => \A i \in notificationQ : ~(i > first)
          /\ n # NULL => n \in notificationQ /\ n > first
          /\ \A i \in notificationQ : i > first => n <= i
      BY <1>1, <3>1, EntryAfter
    <3>3. \A i \in Wanted(sub, events) : i \in notificationQ => i > first
      BY <1>1, <1>2, <2>2, <3>1
    <3>4. ASSUME n # NULL, NEW i \in Wanted(sub, events), i < n PROVE i \notin notificationQ
      <4>0. i \in Nat /\ n \in Nat
        BY <1>2, <3>2, <3>4, Zenon
      <4>1. ~(n <= i)
        BY <3>4, <4>0
      <4> QED BY <3>2, <3>3, <4>1, Zenon
    <3>5. n = NULL => \A i \in Wanted(sub, events) : i \notin notificationQ
      BY <3>2, <3>3
    <3>6. ASSUME n # NULL PROVE n \in notificationQ /\ n > sub.lastmsgid
      <4>1. n \in notificationQ /\ n \in Nat /\ n # 0
        BY <1>2, <3>2, <3>6
      <4> QED BY <1>4, <4>1
    <3>7. IsNext(sub, n)
      BY <3>4, <3>5, <3>6 DEF IsNext
    <3> QED BY <3>7 DEF n
  <2> QED BY <2>3, <2>4
<1> QED BY <1>3, <1>4

-----------------------------------------------------------------------------
(* A turn keeps what was told *)

\* What an entry of the log does that goes to a subscriber.
EventIs(sub, next, n) ==
  /\ Alike(sub, next) /\ next.lastmsgid = n
  /\ next.sent = IF events[n].allowed THEN Append(sub.sent, Event(n)) ELSE sub.sent
  /\ next.rc_done = sub.rc_done /\ next.nc_done = sub.nc_done

LEMMA EventGoes ==
  ASSUME TypeOK, NEW sub, Sound(sub, notificationQ), ~sub.nc_done,
         Placed(sub, notificationQ, events), Bounded(sub, notificationQ, events),
         Ordered(sub, events),
         NEW n, n # NULL, IsNext(sub, n),
         NEW next \in Subscriptions, EventIs(sub, next, n),
         next.state = "REPLAY" => sub.state = "REPLAY",
         sub.rc_ready => next.rc_ready,
         next.rc_ready => sub.rc_ready \/ \A i \in Replayable(sub, events) : i <= n
  PROVE  /\ Placed(next, notificationQ, events) /\ Bounded(next, notificationQ, events)
         /\ Ordered(next, events)
<1>1. sub \in Subscriptions /\ events \in Logs /\ notificationQ \in SUBSET (1 .. Len(events))
  BY DEF Sound, TypeOK, Logs, msgid
<1>2. /\ n \in notificationQ /\ n > sub.lastmsgid /\ n \in Nat /\ n \in Ids
      /\ sub.lastmsgid \in Nat
  <2>1. n \in notificationQ /\ n > sub.lastmsgid
    BY DEF IsNext
  <2>2. n \in Ids
    BY <2>1, LogEntries
  <2> QED BY <1>1, <2>1, <2>2, FieldTypes DEF Ids
<1>3. /\ Alike(sub, next) /\ next.lastmsgid = n
      /\ next.sent = IF events[n].allowed THEN Append(sub.sent, Event(n)) ELSE sub.sent
      /\ next.rc_done = sub.rc_done /\ next.nc_done = sub.nc_done
  BY DEF EventIs
<1>4. Placed(next, notificationQ, events)
  <2>1. \A i \in Wanted(sub, events) : sub.lastmsgid < i /\ i < n => i \notin notificationQ
    BY DEF IsNext
  <2> QED BY <1>1, <1>2, <1>3, <2>1, EventTold
<1>5. Replayable(sub, events) \subseteq Nat
  BY <1>1, FieldTypes DEF Replayable
<1>6. sub.rc_ready => \A i \in Replayable(sub, events) : i <= n \/ i \notin notificationQ
  <2>1. ASSUME sub.rc_ready, NEW i \in Replayable(sub, events) PROVE i <= n \/ i \notin notificationQ
    <3>1. i \in Nat /\ (i <= sub.lastmsgid \/ i \notin notificationQ)
      BY <1>5, <2>1 DEF Bounded
    <3> QED BY <1>2, <3>1
  <2> QED BY <2>1
<1>7. Bounded(next, notificationQ, events)
  <2>1. next.rc_done => next.rc_ready
    BY <1>3 DEF Bounded
  <2>2. next.rc_ready => \A i \in Replayable(sub, events) : i <= next.lastmsgid \/ i \notin notificationQ
    BY <1>3, <1>6
  <2> QED BY <1>1, <1>3, <2>1, <2>2, BoundsKept
<1>8. Ordered(next, events)
  <2>1. next.lastmsgid >= sub.lastmsgid /\ sub.lastmsgid < n /\ n <= next.lastmsgid
    BY <1>2, <1>3
  <2>2. CASE events[n].allowed
    <3>1. sub.rc_done => n \notin Replayable(sub, events)
      <4>1. ASSUME sub.rc_done, n \in Replayable(sub, events) PROVE FALSE
        <5>1. n <= sub.lastmsgid \/ n \notin notificationQ
          BY <4>1 DEF Bounded
        <5> QED BY <1>2, <5>1
      <4> QED BY <4>1
    <3>2. Event(n) \in Messages /\ next.sent = Append(sub.sent, Event(n))
      BY <1>2, <1>3, <2>2, MessageTypes
    <3>3. \A m \in Ids : Event(n) = Event(m) =>
            sub.lastmsgid < m /\ m <= next.lastmsgid /\ (sub.rc_done => m \notin Replayable(sub, events))
      BY <2>1, <3>1, DifferentMessages
    <3>4. Event(n) # replayComplete /\ Event(n) # notificationComplete
      BY DifferentMessages
    <3> QED BY <1>1, <1>3, <2>1, <3>2, <3>3, <3>4, MessageOrdered
  <2>3. CASE ~events[n].allowed
    <3>1. next.sent = sub.sent
      BY <1>3, <2>3
    <3> QED BY <1>1, <1>3, <2>1, <3>1, SameOrdered
  <2> QED BY <2>2, <2>3
<1> QED BY <1>4, <1>7, <1>8

\* What a marker does, or a step that sends nothing.
MarkerIs(sub, next) ==
  /\ Alike(sub, next) /\ next.lastmsgid = sub.lastmsgid
  /\ sub.rc_done => next.rc_done
  /\ sub.nc_done => next.nc_done
  /\ \/ next.sent = sub.sent
     \/ next.sent = Append(sub.sent, replayComplete) /\ ~sub.rc_done /\ next.rc_done
     \/ next.sent = Append(sub.sent, notificationComplete) /\ next.nc_done

LEMMA MarkerGoes ==
  ASSUME TypeOK, NEW sub, Sound(sub, notificationQ), ~sub.nc_done,
         Placed(sub, notificationQ, events), Bounded(sub, notificationQ, events),
         Ordered(sub, events),
         NEW next \in Subscriptions, MarkerIs(sub, next),
         next.rc_done => sub.rc_done \/ sub.startTime # None,
         next.state = "REPLAY" => sub.state = "REPLAY",
         next.rc_done => next.rc_ready,
         next.rc_ready => sub.rc_ready \/ \A i \in Replayable(sub, events) :
                                             i <= sub.lastmsgid \/ i \notin notificationQ
  PROVE  /\ Placed(next, notificationQ, events) /\ Bounded(next, notificationQ, events)
         /\ Ordered(next, events)
<1>1. sub \in Subscriptions /\ events \in Logs
  BY DEF Sound, TypeOK, Logs
<1>2. /\ Alike(sub, next) /\ next.lastmsgid = sub.lastmsgid
      /\ sub.rc_done => next.rc_done
      /\ sub.nc_done => next.nc_done
      /\ \/ next.sent = sub.sent
         \/ next.sent = Append(sub.sent, replayComplete) /\ ~sub.rc_done /\ next.rc_done
         \/ next.sent = Append(sub.sent, notificationComplete) /\ next.nc_done
  BY DEF MarkerIs
<1>3. Placed(next, notificationQ, events)
  BY <1>1, <1>2, MessageTypes, MarkerTold
<1>4. Bounded(next, notificationQ, events)
  <2>1. next.rc_ready => \A i \in Replayable(sub, events) : i <= next.lastmsgid \/ i \notin notificationQ
    BY <1>2 DEF Bounded
  <2> QED BY <1>1, <1>2, <2>1, BoundsKept
<1>5. Ordered(next, events)
  <2>1. next.lastmsgid >= sub.lastmsgid
    BY <1>1, <1>2, FieldTypes
  <2>2. CASE next.sent = sub.sent
    BY <1>1, <1>2, <2>1, <2>2, SameOrdered
  <2>3. CASE next.sent = Append(sub.sent, replayComplete) /\ ~sub.rc_done /\ next.rc_done
    <3>1. \A m : replayComplete # Event(m)
      BY DifferentMessages
    <3> QED BY <1>1, <1>2, <2>1, <2>3, <3>1, DifferentMessages, MessageTypes, MessageOrdered
  <2>4. CASE next.sent = Append(sub.sent, notificationComplete) /\ next.nc_done
    <3>1. \A m : notificationComplete # Event(m)
      BY DifferentMessages
    <3> QED BY <1>1, <1>2, <2>1, <2>4, <3>1, DifferentMessages, MessageTypes, MessageOrdered
  <2> QED BY <1>2, <2>2, <2>3, <2>4
<1> QED BY <1>3, <1>4, <1>5

\* What the operators of a turn do, field by field.
LEMMA EventFields ==
  ASSUME TypeOK, NEW sub \in Subscriptions, NEW n \in notificationQ
  PROVE  LET next == send_notification(sub, n) IN
         /\ EventIs(sub, next, n)
         /\ next.state = sub.state /\ next.rc_ready = sub.rc_ready
<1> DEFINE at == [sub EXCEPT !.lastmsg = n, !.lastmsgid = n]
           next == send_notification(sub, n)
<1>1. n \in Ids /\ n \in Pointers
  BY LogEntries DEF Pointers
<1>2. at \in Subscriptions
  BY <1>1 DEF Subscriptions
<1>3. /\ Alike(sub, at) /\ at.lastmsgid = n /\ at.sent = sub.sent
      /\ at.rc_done = sub.rc_done /\ at.nc_done = sub.nc_done
      /\ at.state = sub.state /\ at.rc_ready = sub.rc_ready
  BY DEF Subscriptions, Alike
<1>4. next = IF events[n].allowed THEN send(at, Event(n)) ELSE at
  BY DEF send_notification
<1> HIDE DEF at, next
<1>5. CASE events[n].allowed
  <2>1. next = [at EXCEPT !.sent = Append(@, Event(n))]
    BY <1>4, <1>5 DEF send
  <2>2. /\ Alike(at, next) /\ next.lastmsgid = at.lastmsgid
        /\ next.sent = Append(at.sent, Event(n))
        /\ next.rc_done = at.rc_done /\ next.nc_done = at.nc_done
        /\ next.state = at.state /\ next.rc_ready = at.rc_ready
    BY <1>2, <2>1 DEF Subscriptions, Alike
  <2> QED BY <1>3, <1>5, <2>2 DEF EventIs, Alike, next
<1>6. CASE ~events[n].allowed
  <2>1. next = at
    BY <1>4, <1>6
  <2> QED BY <1>3, <1>6, <2>1 DEF EventIs, next
<1> QED BY <1>5, <1>6

LEMMA ReplayedFields ==
  ASSUME TypeOK, NEW sub \in Subscriptions, NEW n \in notificationQ
  PROVE  LET next == replayed(sub, n) IN
         /\ EventIs(sub, next, n)
         /\ next.state = sub.state
         /\ next.rc_ready => \/ sub.lastreplaymsg = n
                             \/ sub.lastreplaymsgid # 0 /\ sub.lastreplaymsgid <= n
<1> DEFINE at == send_notification(sub, n)
           ready == \/ sub.lastreplaymsg = n
                    \/ sub.lastreplaymsgid # 0 /\ sub.lastreplaymsgid <= n
           next == replayed(sub, n)
<1>1. EventIs(sub, at, n) /\ at.state = sub.state
  BY EventFields
<1>2. at \in Subscriptions
  <2>1. at = [sub EXCEPT !.lastmsg = n, !.lastmsgid = n]
        \/ at = send([sub EXCEPT !.lastmsg = n, !.lastmsgid = n], Event(n))
    BY DEF send_notification
  <2>2. n \in Ids /\ n \in Pointers
    BY LogEntries DEF Pointers
  <2>3. [sub EXCEPT !.lastmsg = n, !.lastmsgid = n] \in Subscriptions
    BY <2>2 DEF Subscriptions
  <2> HIDE DEF at
  <2> QED BY <2>1, <2>2, <2>3, MessageTypes, Send
<1>3. next = [at EXCEPT !.rc_ready = ready]
  BY DEF replayed
<1> HIDE DEF at, ready, next
<1>4. /\ Alike(at, next) /\ next.lastmsgid = at.lastmsgid /\ next.sent = at.sent
      /\ next.rc_done = at.rc_done /\ next.nc_done = at.nc_done
      /\ next.state = at.state /\ next.rc_ready = ready
  BY <1>2, <1>3 DEF Subscriptions, Alike
<1>5. EventIs(sub, next, n) /\ next.state = sub.state
  BY <1>1, <1>4 DEF EventIs, Alike
<1> QED BY <1>4, <1>5 DEF ready, next

LEMMA ReplayCompleteFields ==
  ASSUME NEW sub \in Subscriptions
  PROVE  LET next == send_replayComplete(sub) IN
         /\ Alike(sub, next) /\ next.lastmsgid = sub.lastmsgid
         /\ next.sent = Append(sub.sent, replayComplete)
         /\ next.rc_ready = TRUE /\ next.rc_done = TRUE
         /\ next.nc_done = sub.nc_done /\ next.state = sub.state
<1> DEFINE sent == send(sub, replayComplete)
           next == send_replayComplete(sub)
<1>1. sent = [sub EXCEPT !.sent = Append(@, replayComplete)] /\ sent \in Subscriptions
  BY MessageTypes, Send
<1>2. next = [sent EXCEPT !.rc_ready = TRUE, !.rc_done = TRUE]
  BY DEF send_replayComplete
<1> HIDE DEF sent, next
<1>3. /\ Alike(sub, sent) /\ sent.lastmsgid = sub.lastmsgid
      /\ sent.sent = Append(sub.sent, replayComplete)
      /\ sent.nc_done = sub.nc_done /\ sent.state = sub.state
  BY <1>1 DEF Subscriptions, Alike
<1>4. /\ Alike(sent, next) /\ next.lastmsgid = sent.lastmsgid /\ next.sent = sent.sent
      /\ next.nc_done = sent.nc_done /\ next.state = sent.state
      /\ next.rc_ready = TRUE /\ next.rc_done = TRUE
  BY <1>1, <1>2 DEF Subscriptions, Alike
<1> QED BY <1>3, <1>4 DEF Alike, next

LEMMA NotificationCompleteFields ==
  ASSUME NEW sub \in Subscriptions
  PROVE  LET next == send_notificationComplete(sub) IN
         /\ Alike(sub, next) /\ next.lastmsgid = sub.lastmsgid
         /\ next.sent = Append(sub.sent, notificationComplete)
         /\ next.rc_ready = sub.rc_ready /\ next.rc_done = sub.rc_done
         /\ next.nc_done = TRUE /\ next.state = "SHUTDOWN"
<1> DEFINE sent == send(sub, notificationComplete)
           next == send_notificationComplete(sub)
<1>1. sent = [sub EXCEPT !.sent = Append(@, notificationComplete)] /\ sent \in Subscriptions
  BY MessageTypes, Send
<1>2. next = [sent EXCEPT !.nc_done = TRUE, !.state = "SHUTDOWN"]
  BY DEF send_notificationComplete
<1> HIDE DEF sent, next
<1>3. /\ Alike(sub, sent) /\ sent.lastmsgid = sub.lastmsgid
      /\ sent.sent = Append(sub.sent, notificationComplete)
      /\ sent.rc_ready = sub.rc_ready /\ sent.rc_done = sub.rc_done
  BY <1>1 DEF Subscriptions, Alike
<1>4. /\ Alike(sent, next) /\ next.lastmsgid = sent.lastmsgid /\ next.sent = sent.sent
      /\ next.nc_done = TRUE /\ next.state = "SHUTDOWN"
      /\ next.rc_ready = sent.rc_ready /\ next.rc_done = sent.rc_done
  BY <1>1, <1>2 DEF Subscriptions, Alike
<1> QED BY <1>3, <1>4 DEF Alike, next

LEMMA StateFields ==
  ASSUME NEW sub \in Subscriptions, NEW state
  PROVE  LET next == [sub EXCEPT !.state = state] IN
         /\ Alike(sub, next) /\ next.lastmsgid = sub.lastmsgid /\ next.sent = sub.sent
         /\ next.rc_ready = sub.rc_ready /\ next.rc_done = sub.rc_done
         /\ next.nc_done = sub.nc_done /\ next.state = state
BY DEF Subscriptions, Alike

\* The replay: events, then replayComplete, then the end or what follows.
LEMMA ReplayTold ==
  ASSUME TypeOK, NEW sub, Sound(sub, notificationQ), sub.state = "REPLAY",
         Told(sub, notificationQ, events, now)
  PROVE  Told(serve_replay(sub), notificationQ, events, now)
<1> DEFINE ends == sub.stopTime # None /\ ~sub.futurestop
           n == next_entry(sub, first_to_replay(sub))
           next == serve_replay(sub)
<1>1. /\ sub \in Subscriptions /\ ~sub.nc_done /\ sub.startTime # None
      /\ Placed(sub, notificationQ, events) /\ Bounded(sub, notificationQ, events)
      /\ Ordered(sub, events) /\ Timely(sub, now)
      /\ sub.rc_done => sub.rc_ready
  BY DEF Sound, Told, Timely, Bounded
<1>2. next \in Subscriptions
  BY ServeReplay DEF Sound
<1>3. /\ sub.stopTime # None /\ ~sub.futurestop => sub.stopTime <= now
      /\ sub.nc_done \in BOOLEAN
  BY <1>1, FieldTypes DEF Timely
<1>4. CASE sub.rc_ready /\ sub.rc_done /\ ends
  <2>1. next = send_notificationComplete(sub)
    BY <1>4 DEF serve_replay
  <2> HIDE DEF next
  <2>2. /\ Alike(sub, next) /\ next.lastmsgid = sub.lastmsgid
        /\ next.sent = Append(sub.sent, notificationComplete)
        /\ next.rc_ready = sub.rc_ready /\ next.rc_done = sub.rc_done
        /\ next.nc_done = TRUE /\ next.state = "SHUTDOWN"
    BY <1>1, <2>1, NotificationCompleteFields
  <2>3. MarkerIs(sub, next)
    BY <2>2 DEF MarkerIs
  <2>4. /\ Placed(next, notificationQ, events) /\ Bounded(next, notificationQ, events)
        /\ Ordered(next, events)
    BY <1>1, <1>2, <2>2, <2>3, MarkerGoes
  <2>5. Timely(next, now)
    BY <1>3, <1>4, <2>2 DEF Timely, Alike
  <2> QED BY <2>4, <2>5 DEF Told, next
<1>5. CASE sub.rc_ready /\ sub.rc_done /\ ~ends
  <2> DEFINE state == IF sub.stopTime = None THEN "LIVE" ELSE "TIMED"
  <2>1. next = [sub EXCEPT !.state = state]
    BY <1>5 DEF serve_replay, after_replay
  <2> HIDE DEF next
  <2>2. /\ Alike(sub, next) /\ next.lastmsgid = sub.lastmsgid /\ next.sent = sub.sent
        /\ next.rc_ready = sub.rc_ready /\ next.rc_done = sub.rc_done
        /\ next.nc_done = sub.nc_done /\ next.state = state
    BY <1>1, <2>1, StateFields
  <2>3. MarkerIs(sub, next)
    BY <2>2 DEF MarkerIs
  <2>4. /\ Placed(next, notificationQ, events) /\ Bounded(next, notificationQ, events)
        /\ Ordered(next, events)
    BY <1>1, <1>2, <2>2, <2>3, MarkerGoes
  <2>5. Timely(next, now)
    BY <1>1, <1>3, <2>2 DEF Timely, Alike
  <2> QED BY <2>4, <2>5 DEF Told, next
<1>6. CASE sub.rc_ready /\ ~sub.rc_done
  <2>1. next = send_replayComplete(sub)
    BY <1>6 DEF serve_replay
  <2> HIDE DEF next
  <2>2. /\ Alike(sub, next) /\ next.lastmsgid = sub.lastmsgid
        /\ next.sent = Append(sub.sent, replayComplete)
        /\ next.rc_ready = TRUE /\ next.rc_done = TRUE
        /\ next.nc_done = sub.nc_done /\ next.state = sub.state
    BY <1>1, <2>1, ReplayCompleteFields
  <2>3. MarkerIs(sub, next)
    BY <1>6, <2>2 DEF MarkerIs
  <2>4. /\ Placed(next, notificationQ, events) /\ Bounded(next, notificationQ, events)
        /\ Ordered(next, events)
    BY <1>1, <1>2, <1>6, <2>2, <2>3, MarkerGoes
  <2>5. Timely(next, now)
    BY <1>1, <1>3, <2>2 DEF Timely, Alike
  <2> QED BY <2>4, <2>5 DEF Told, next
<1>7. CASE ~sub.rc_ready /\ n # NULL
  <2>1. IsNext(sub, n)
    BY <1>1, <1>7, ReplayNext
  <2>2. next = replayed(sub, n)
    BY <1>7 DEF serve_replay
  <2>3. n \in notificationQ /\ n # NULL
    BY <1>7, <2>1 DEF IsNext
  <2> HIDE DEF next, n
  <2>4. /\ EventIs(sub, next, n)
        /\ next.state = sub.state
        /\ next.rc_ready => \/ sub.lastreplaymsg = n
                            \/ sub.lastreplaymsgid # 0 /\ sub.lastreplaymsgid <= n
    BY <1>1, <2>2, <2>3, ReplayedFields
  <2>5. next.rc_ready => \A i \in Replayable(sub, events) : i <= n
    <3>1. ASSUME next.rc_ready, NEW i \in Replayable(sub, events) PROVE i <= n
      <4>1. /\ sub.lastreplaymsg \in {NULL, sub.lastreplaymsgid}
            /\ sub.lastreplaymsgid # 0 => i <= sub.lastreplaymsgid
        BY <1>1, <3>1 DEF Bounded
      <4>2. sub.lastreplaymsgid # 0 /\ sub.lastreplaymsgid <= n
        <5>1. n \in Nat /\ n # 0
          BY <2>3, LogEntries DEF Ids
        <5> QED BY <2>3, <2>4, <3>1, <4>1, <5>1 DEF NULL
      <4>3. i \in Nat /\ n \in Nat /\ sub.lastreplaymsgid \in Nat
        BY <1>1, <2>3, <3>1, LogEntries, FieldTypes DEF Ids, Replayable
      <4> QED BY <4>1, <4>2, <4>3
    <3> QED BY <3>1
  <2>6. /\ Placed(next, notificationQ, events) /\ Bounded(next, notificationQ, events)
        /\ Ordered(next, events)
    BY <1>1, <1>2, <1>7, <2>1, <2>3, <2>4, <2>5, EventGoes
  <2>7. Timely(next, now)
    BY <1>1, <1>3, <2>4 DEF Timely, EventIs, Alike
  <2> QED BY <2>6, <2>7 DEF Told, next
<1>8. CASE ~sub.rc_ready /\ n = NULL
  <2>1. \A i \in Replayable(sub, events) : i <= sub.lastmsgid \/ i \notin notificationQ
    <3>1. IsNext(sub, n)
      BY <1>1, <1>8, ReplayNext
    <3>2. \A i \in Wanted(sub, events) : i > sub.lastmsgid => i \notin notificationQ
      BY <1>8, <3>1 DEF IsNext
    <3>3. Replayable(sub, events) \subseteq Nat /\ sub.lastmsgid \in Nat
      BY <1>1, FieldTypes DEF Replayable
    <3> QED BY <3>2, <3>3 DEF Wanted
  <2>2. next = IF ends THEN send_replayComplete(sub) ELSE after_replay(send_replayComplete(sub))
    BY <1>8 DEF serve_replay
  <2> DEFINE at == send_replayComplete(sub)
             state == IF sub.stopTime = None THEN "LIVE" ELSE "TIMED"
  <2>3. /\ Alike(sub, at) /\ at.lastmsgid = sub.lastmsgid
        /\ at.sent = Append(sub.sent, replayComplete)
        /\ at.rc_ready = TRUE /\ at.rc_done = TRUE
        /\ at.nc_done = sub.nc_done /\ at.state = sub.state
    BY <1>1, ReplayCompleteFields
  <2>4. at \in Subscriptions
    BY <1>1, SendReplayComplete DEF Sound
  <2>5. after_replay(at) = [at EXCEPT !.state = state]
    BY <2>3 DEF after_replay, Alike
  <2> HIDE DEF next, at, n
  <2>6. /\ Alike(sub, next) /\ next.lastmsgid = sub.lastmsgid
        /\ next.sent = Append(sub.sent, replayComplete)
        /\ next.rc_ready = TRUE /\ next.rc_done = TRUE /\ next.nc_done = sub.nc_done
        /\ next.state = IF ends THEN "REPLAY" ELSE state
    <3>1. CASE ends
      BY <2>2, <2>3, <3>1 DEF at
    <3>2. CASE ~ends
      <4>1. next = [at EXCEPT !.state = state]
        BY <2>2, <2>5, <3>2 DEF at
      <4> HIDE DEF state
      <4>2. /\ Alike(at, next) /\ next.lastmsgid = at.lastmsgid /\ next.sent = at.sent
            /\ next.rc_ready = at.rc_ready /\ next.rc_done = at.rc_done
            /\ next.nc_done = at.nc_done /\ next.state = state
        BY <2>4, <4>1, StateFields
      <4> QED BY <2>3, <3>2, <4>2 DEF Alike
    <3> QED BY <3>1, <3>2
  <2>7. MarkerIs(sub, next)
    BY <1>1, <1>8, <2>6 DEF MarkerIs
  <2>8. /\ Placed(next, notificationQ, events) /\ Bounded(next, notificationQ, events)
        /\ Ordered(next, events)
    BY <1>1, <1>2, <2>1, <2>6, <2>7, MarkerGoes DEF next
  <2>9. Timely(next, now)
    BY <1>1, <1>3, <2>6 DEF Timely, Alike
  <2> QED BY <2>8, <2>9 DEF Told, next
<1> QED BY <1>1, <1>4, <1>5, <1>6, <1>7, <1>8

\* An event follows, if there is one.
LEMMA FollowTold ==
  ASSUME TypeOK, NEW sub, Sound(sub, notificationQ), sub.state \in {"LIVE", "TIMED"},
         Told(sub, notificationQ, events, now),
         NEW next \in Subscriptions,
         NEW n, IsNext(sub, n),
         \/ n # NULL /\ EventIs(sub, next, n) /\ next.rc_ready = sub.rc_ready
         \/ /\ n = NULL /\ Alike(sub, next) /\ next.sent = sub.sent
            /\ next.lastmsgid = sub.lastmsgid /\ next.rc_ready = sub.rc_ready
            /\ next.rc_done = sub.rc_done /\ next.nc_done = sub.nc_done,
         \/ next.state = sub.state
         \/ next.state = "SHUTDOWN" /\ sub.stopTime # None /\ sub.stopTime <= now
  PROVE  Told(next, notificationQ, events, now)
<1>1. /\ sub \in Subscriptions /\ ~sub.nc_done
      /\ Placed(sub, notificationQ, events) /\ Bounded(sub, notificationQ, events)
      /\ Ordered(sub, events) /\ Timely(sub, now)
      /\ sub.rc_done => sub.rc_ready
  BY DEF Sound, Told, Timely, Bounded
<1>2. next.state # "REPLAY"
  OBVIOUS
<1>3. CASE n # NULL /\ EventIs(sub, next, n) /\ next.rc_ready = sub.rc_ready
  <2>1. /\ Placed(next, notificationQ, events) /\ Bounded(next, notificationQ, events)
        /\ Ordered(next, events)
    BY <1>1, <1>2, <1>3, EventGoes
  <2>2. Timely(next, now)
    BY <1>1, <1>3 DEF Timely, EventIs, Alike
  <2> QED BY <2>1, <2>2 DEF Told
<1>4. CASE /\ n = NULL /\ Alike(sub, next) /\ next.sent = sub.sent
           /\ next.lastmsgid = sub.lastmsgid /\ next.rc_ready = sub.rc_ready
           /\ next.rc_done = sub.rc_done /\ next.nc_done = sub.nc_done
  <2>1. MarkerIs(sub, next)
    BY <1>4 DEF MarkerIs
  <2>2. /\ Placed(next, notificationQ, events) /\ Bounded(next, notificationQ, events)
        /\ Ordered(next, events)
    BY <1>1, <1>2, <1>4, <2>1, MarkerGoes
  <2>3. Timely(next, now)
    BY <1>1, <1>4 DEF Timely, Alike
  <2> QED BY <2>2, <2>3 DEF Told
<1> QED BY <1>3, <1>4

LEMMA LiveTold ==
  ASSUME TypeOK, NEW sub, Sound(sub, notificationQ), sub.state = "LIVE",
         Told(sub, notificationQ, events, now)
  PROVE  Told(serve_live(sub), notificationQ, events, now)
<1> DEFINE n == next_entry(sub, dlq_firstEntry(notificationQ))
           next == serve_live(sub)
<1>1. sub \in Subscriptions /\ IsNext(sub, n)
  BY LiveNext DEF Sound, Told
<1>2. next = IF n # NULL THEN send_notification(sub, n) ELSE sub
  BY DEF serve_live
<1>3. next \in Subscriptions
  BY ServeLive DEF Sound
<1> HIDE DEF n, next
<1>4. CASE n # NULL
  <2>1. next = send_notification(sub, n) /\ n \in notificationQ
    BY <1>1, <1>2, <1>4 DEF IsNext
  <2>2. EventIs(sub, next, n) /\ next.state = sub.state /\ next.rc_ready = sub.rc_ready
    BY <1>1, <2>1, EventFields
  <2>3. Told(next, notificationQ, events, now)
    BY <1>1, <1>3, <1>4, <2>2, FollowTold
  <2> QED BY <2>3 DEF next
<1>5. CASE n = NULL
  <2>1. next = sub
    BY <1>2, <1>5
  <2> QED BY <2>1 DEF next
<1> QED BY <1>4, <1>5

LEMMA TimedTold ==
  ASSUME TypeOK, Clocked(events, now), NEW sub, Sound(sub, notificationQ), sub.state = "TIMED",
         Told(sub, notificationQ, events, now)
  PROVE  Told(serve_timed(sub), notificationQ, events, now)
<1> DEFINE n == next_entry(sub, dlq_firstEntry(notificationQ))
           reached == IF n # NULL THEN eventTime(n) ELSE now
           at == IF n # NULL THEN send_notification(sub, n) ELSE sub
           next == serve_timed(sub)
<1>1. sub \in Subscriptions /\ IsNext(sub, n) /\ sub.stopTime # None
  BY LiveNext DEF Sound, Told, Timely
<1>2. next = IF sub.stopTime <= reached THEN [at EXCEPT !.state = "SHUTDOWN"] ELSE at
  BY DEF serve_timed
<1>3. next \in Subscriptions
  BY ServeTimed DEF Sound
<1>4. /\ n # NULL => n \in notificationQ
      /\ n = NULL \/ n # NULL
  BY <1>1 DEF IsNext
<1>5. reached <= now /\ reached \in Nat /\ now \in Nat
  <2>1. now \in Nat
    BY ParametersAssumption DEF TypeOK, Times
  <2>2. ASSUME n # NULL PROVE eventTime(n) <= now /\ eventTime(n) \in Nat
    <3>0. notificationQ \subseteq 1 .. Len(events) /\ events \in Logs
      BY DEF TypeOK, msgid, Logs
    <3>1. n \in 1 .. Len(events)
      BY <1>4, <2>2, <3>0, Zenon
    <3>2. events[n].time \in Nat
      BY <3>0, <3>1, LogTimes
    <3> QED BY <3>1, <3>2 DEF eventTime, Clocked
  <2> QED BY <2>1, <2>2
<1>6. sub.stopTime \in Nat
  BY <1>1, FieldTypes
<1> HIDE DEF n, next
<1>7. at \in Subscriptions
  <2>1. CASE n # NULL
    <3>1. at = send_notification(sub, n) /\ n \in notificationQ
      BY <1>4, <2>1
    <3>2. Ends(sub)
      BY DEF Sound
    <3> QED BY <1>1, <3>1, <3>2, SendEvent DEF Sound
  <2>2. CASE n = NULL
    BY <1>1, <2>2
  <2> QED BY <2>1, <2>2
<1>8. \/ /\ n # NULL /\ EventIs(sub, at, n) /\ at.rc_ready = sub.rc_ready
         /\ at.state = sub.state
      \/ /\ n = NULL /\ at = sub
  BY <1>1, <1>4, EventFields
<1> HIDE DEF reached, at
<1>9. CASE ~(sub.stopTime <= reached)
  <2>1. next = at
    BY <1>2, <1>9
  <2>2. Alike(sub, sub)
    BY DEF Alike
  <2>3. Told(next, notificationQ, events, now)
    BY <1>1, <1>3, <1>8, <2>1, <2>2, FollowTold
  <2> QED BY <2>3 DEF next
<1>10. CASE sub.stopTime <= reached
  <2>1. next = [at EXCEPT !.state = "SHUTDOWN"]
    BY <1>2, <1>10
  <2>2. /\ Alike(at, next) /\ next.lastmsgid = at.lastmsgid /\ next.sent = at.sent
        /\ next.rc_ready = at.rc_ready /\ next.rc_done = at.rc_done
        /\ next.nc_done = at.nc_done /\ next.state = "SHUTDOWN"
    BY <1>7, <2>1, StateFields
  <2>3. \/ n # NULL /\ EventIs(sub, next, n) /\ next.rc_ready = sub.rc_ready
        \/ /\ n = NULL /\ Alike(sub, next) /\ next.sent = sub.sent
           /\ next.lastmsgid = sub.lastmsgid /\ next.rc_ready = sub.rc_ready
           /\ next.rc_done = sub.rc_done /\ next.nc_done = sub.nc_done
    BY <1>8, <2>2 DEF EventIs, Alike
  <2>4. sub.stopTime <= now
    BY <1>5, <1>6, <1>10
  <2>5. Told(next, notificationQ, events, now)
    BY <1>1, <1>3, <2>2, <2>3, <2>4, FollowTold
  <2> QED BY <2>5 DEF next
<1> QED BY <1>9, <1>10

LEMMA ShutdownTold ==
  ASSUME TypeOK, NEW sub, Sound(sub, notificationQ), sub.state = "SHUTDOWN",
         Told(sub, notificationQ, events, now), serve_shutdown(sub) # None
  PROVE  Told(serve_shutdown(sub), notificationQ, events, now)
<1> DEFINE next == serve_shutdown(sub)
<1>1. /\ sub \in Subscriptions
      /\ Placed(sub, notificationQ, events) /\ Bounded(sub, notificationQ, events)
      /\ Ordered(sub, events) /\ Timely(sub, now)
      /\ sub.rc_done => sub.rc_ready
  BY DEF Sound, Told, Bounded
<1>2. next = send_notificationComplete(sub) /\ sub.stopTime # None /\ ~sub.nc_done
  BY DEF serve_shutdown
<1> HIDE DEF next
<1>3. next \in Subscriptions
  BY <1>2, SendNotificationComplete DEF Sound
<1>4. /\ Alike(sub, next) /\ next.lastmsgid = sub.lastmsgid
      /\ next.sent = Append(sub.sent, notificationComplete)
      /\ next.rc_ready = sub.rc_ready /\ next.rc_done = sub.rc_done
      /\ next.nc_done = TRUE /\ next.state = "SHUTDOWN"
  BY <1>1, <1>2, NotificationCompleteFields
<1>5. MarkerIs(sub, next)
  BY <1>4 DEF MarkerIs
<1>6. /\ Placed(next, notificationQ, events) /\ Bounded(next, notificationQ, events)
      /\ Ordered(next, events)
  BY <1>1, <1>2, <1>3, <1>4, <1>5, MarkerGoes
<1>7. Timely(next, now)
  BY <1>1, <1>4 DEF Timely, Alike
<1> QED BY <1>6, <1>7 DEF Told, next

LEMMA ServeTold ==
  ASSUME TypeOK, Clocked(events, now), NEW sub, Sound(sub, notificationQ),
         Told(sub, notificationQ, events, now), serve(sub) # None
  PROVE  Told(serve(sub), notificationQ, events, now)
<1>1. sub.state \in {"REPLAY", "LIVE", "TIMED", "SHUTDOWN"}
  BY FieldTypes DEF Sound, States
<1>2. CASE sub.state = "REPLAY"
  BY <1>2, ReplayTold DEF serve
<1>3. CASE sub.state = "LIVE"
  BY <1>3, LiveTold DEF serve
<1>4. CASE sub.state = "TIMED"
  BY <1>4, TimedTold DEF serve
<1>5. CASE sub.state = "SHUTDOWN"
  BY <1>5, ShutdownTold DEF serve
<1> QED BY <1>1, <1>2, <1>3, <1>4, <1>5

-----------------------------------------------------------------------------
(* The log changes, time passes *)

\* What a subscription is when entries have left the log: these are lost if
\* it was behind them, and no pointer is left to them.
Left(sub, next, gone) ==
  /\ next.startTime = sub.startTime /\ next.stopTime = sub.stopTime
  /\ next.futurestop = sub.futurestop /\ next.state = sub.state
  /\ next.rc_ready = sub.rc_ready /\ next.rc_done = sub.rc_done /\ next.nc_done = sub.nc_done
  /\ next.since = sub.since /\ next.had = sub.had /\ next.sent = sub.sent
  /\ next.lastmsgid = sub.lastmsgid
  /\ next.firstreplaymsgid = sub.firstreplaymsgid
  /\ next.lastreplaymsgid = sub.lastreplaymsgid
  /\ next.lastreplaymsg \in {NULL, sub.lastreplaymsg}
  /\ \/ next.firstreplaymsg = sub.firstreplaymsg
     \/ next.firstreplaymsg = NULL /\ sub.firstreplaymsg # NULL /\ sub.firstreplaymsg \in gone
  /\ next.lost = sub.lost \cup {i \in gone : i > sub.lastmsgid}

LEMMA LeftTold ==
  ASSUME NEW sub \in Subscriptions, NEW next \in Subscriptions, NEW ids, NEW ev, NEW t,
         NEW gone, Left(sub, next, gone), Told(sub, ids, ev, t)
  PROVE  Told(next, ids \ gone, ev, t)
<1>1. /\ Placed(sub, ids, ev) /\ Bounded(sub, ids, ev) /\ Ordered(sub, ev) /\ Timely(sub, t)
  BY DEF Told
<1>2. Replayable(next, ev) = Replayable(sub, ev) /\ Wanted(next, ev) = Wanted(sub, ev)
  BY DEF Left, Replayable, Wanted
<1>3. Placed(next, ids \ gone, ev)
  <2>1. \A i : Got(sub, i, ev) => Got(next, i, ev)
    BY DEF Got, Left
  <2>2. \A i \in Wanted(sub, ev) : i > sub.lastmsgid => i \in (ids \ gone) \cup next.lost
    BY <1>1 DEF Placed, Left
  <2> QED BY <1>1, <1>2, <2>1, <2>2 DEF Placed, Left
<1>4. Bounded(next, ids \ gone, ev)
  <2>1. /\ next.firstreplaymsg \in {NULL, next.firstreplaymsgid}
        /\ next.firstreplaymsg = NULL => next.firstreplaymsgid \notin ids \ gone
        /\ next.lastreplaymsg \in {NULL, next.lastreplaymsgid}
    BY <1>1 DEF Bounded, Left
  <2> QED BY <1>1, <1>2, <2>1 DEF Bounded, Left
<1>5. Ordered(next, ev)
  BY <1>1, <1>2 DEF Ordered, Left
<1>6. Timely(next, t)
  BY <1>1 DEF Timely, Left
<1> QED BY <1>3, <1>4, <1>5, <1>6 DEF Told

LEMMA UnlogTold ==
  ASSUME NEW sub \in Subscriptions, NEW ids, NEW ev, NEW t, Told(sub, ids, ev, t),
         NEW gone \in SUBSET Ids
  PROVE  Told(unlog(sub, gone), ids \ gone, ev, t)
<1> DEFINE lost == sub.lost \cup {i \in gone : i > sub.lastmsgid}
           next == unlog(sub, gone)
<1>1. lost \in SUBSET Ids
  BY DEF Subscriptions
<1>2. next = [sub EXCEPT !.lost = lost]
  BY DEF unlog
<1> HIDE DEF next, lost
<1>3. next \in Subscriptions
  BY <1>1, <1>2 DEF Subscriptions
<1>4. Left(sub, next, gone)
  BY <1>2 DEF Left, Subscriptions, lost
<1>5. Told(next, ids \ gone, ev, t)
  BY <1>3, <1>4, LeftTold
<1> QED BY <1>5 DEF next

LEMMA ForgetTold ==
  ASSUME NEW sub \in Subscriptions, NEW ids, NEW ev, NEW t, Told(sub, ids, ev, t),
         NEW id \in Ids
  PROVE  Told(forget(unlog(sub, {id}), id), ids \ {id}, ev, t)
<1> DEFINE lost == sub.lost \cup {i \in {id} : i > sub.lastmsgid}
           mid == unlog(sub, {id})
           next == forget(mid, id)
<1>1. lost \in SUBSET Ids
  BY DEF Subscriptions
<1>2. mid = [sub EXCEPT !.lost = lost]
  BY DEF unlog
<1>3. next = [mid EXCEPT !.firstreplaymsg = clear(@, id), !.lastreplaymsg = clear(@, id),
                         !.lastmsg = clear(@, id)]
  BY DEF forget
<1> HIDE DEF next, mid, lost
<1>4. mid \in Subscriptions /\ Left(sub, mid, {id})
      /\ mid.firstreplaymsg = sub.firstreplaymsg /\ mid.lastreplaymsg = sub.lastreplaymsg
  BY <1>1, <1>2 DEF Left, Subscriptions, lost
<1>5. \A ptr \in Pointers : clear(ptr, id) \in Pointers
  BY DEF clear, Pointers
<1>6. next \in Subscriptions
  BY <1>3, <1>4, <1>5 DEF Subscriptions
<1>7. /\ next.startTime = mid.startTime /\ next.stopTime = mid.stopTime
      /\ next.futurestop = mid.futurestop /\ next.state = mid.state
      /\ next.rc_ready = mid.rc_ready /\ next.rc_done = mid.rc_done /\ next.nc_done = mid.nc_done
      /\ next.since = mid.since /\ next.had = mid.had /\ next.sent = mid.sent
      /\ next.lastmsgid = mid.lastmsgid
      /\ next.firstreplaymsgid = mid.firstreplaymsgid
      /\ next.lastreplaymsgid = mid.lastreplaymsgid
      /\ next.lost = mid.lost
  BY <1>3, <1>4 DEF Subscriptions
<1>8. /\ next.firstreplaymsg = clear(mid.firstreplaymsg, id)
      /\ next.lastreplaymsg = clear(mid.lastreplaymsg, id)
  BY <1>3, <1>4 DEF Subscriptions
<1>9. Left(sub, next, {id})
  <2>1. id # NULL
    BY DEF Ids, NULL
  <2>2. next.lastreplaymsg \in {NULL, sub.lastreplaymsg}
    BY <1>4, <1>8 DEF clear
  <2>3. \/ next.firstreplaymsg = sub.firstreplaymsg
        \/ next.firstreplaymsg = NULL /\ sub.firstreplaymsg # NULL /\ sub.firstreplaymsg \in {id}
    BY <1>4, <1>8, <2>1 DEF clear
  <2> QED BY <1>4, <1>7, <2>2, <2>3 DEF Left
<1>10. Told(next, ids \ {id}, ev, t)
  BY <1>6, <1>9, LeftTold
<1> QED BY <1>10 DEF next, mid

\* An event is logged, that no subscription has got or was waiting for.
LEMMA AppendTold ==
  ASSUME NEW sub \in Subscriptions, NEW ids, NEW ev \in Logs, NEW t, Told(sub, ids, ev, t),
         NEW e
  PROVE  Told(sub, ids \cup {Len(ev) + 1}, Append(ev, e), t)
<1> DEFINE new == Append(ev, e)
           more == ids \cup {Len(ev) + 1}
<1>1. /\ Placed(sub, ids, ev) /\ Bounded(sub, ids, ev) /\ Ordered(sub, ev) /\ Timely(sub, t)
  BY DEF Told
<1>2. /\ Len(ev) \in Nat /\ Len(new) = Len(ev) + 1
      /\ \A i \in 1 .. Len(ev) : new[i] = ev[i]
  BY DEF Logs
<1>3. /\ Replayable(sub, ev) \subseteq 1 .. sub.since
      /\ Wanted(sub, ev) \subseteq 1 .. Len(ev)
      /\ sub.since \in Nat /\ sub.since <= Len(ev) /\ sub.lastmsgid \in Nat
      /\ sub.firstreplaymsgid \in Nat
  BY <1>1, WantedIds, FieldTypes
<1> HIDE DEF new
<1>4. Replayable(sub, new) = Replayable(sub, ev)
  <2>1. \A i \in sub.had : i \in 1 .. Len(ev)
    BY <1>1, <1>2, <1>3 DEF Placed
  <2> QED BY <1>2, <2>1 DEF Replayable
<1>5. \A i \in Wanted(sub, new) : i \in Wanted(sub, ev) \/ i = Len(ev) + 1
  BY <1>2, <1>3, <1>4 DEF Wanted
<1>6. Placed(sub, more, new)
  <2>1. sub.had \subseteq 1 .. sub.since /\ sub.since <= Len(new) /\ sub.lastmsgid <= Len(new)
        /\ sub.lastmsgid <= Len(ev)
    BY <1>1, <1>2, <1>3 DEF Placed
  <2>2. ASSUME NEW i \in Wanted(sub, new), i <= sub.lastmsgid PROVE Got(sub, i, new)
    <3>1. i \in Wanted(sub, ev)
      BY <1>2, <1>3, <1>5, <2>1, <2>2
    <3>2. Got(sub, i, ev) /\ new[i] = ev[i]
      BY <1>1, <1>2, <1>3, <2>2, <3>1 DEF Placed
    <3> QED BY <3>2 DEF Got
  <2>3. ASSUME NEW i \in Wanted(sub, new), i > sub.lastmsgid PROVE i \in more \cup sub.lost
    BY <1>1, <1>5, <2>3 DEF Placed
  <2> HIDE DEF more
  <2> QED BY <2>1, <2>2, <2>3 DEF Placed
<1>7. Bounded(sub, more, new)
  <2>1. sub.firstreplaymsg = NULL => sub.firstreplaymsgid \notin more
    <3>1. sub.firstreplaymsgid # Len(ev) + 1
      BY <1>1, <1>2, <1>3 DEF Bounded
    <3> QED BY <1>1, <3>1 DEF Bounded
  <2>2. sub.rc_ready => \A i \in Replayable(sub, ev) : i <= sub.lastmsgid \/ i \notin more
    <3>1. \A i \in Replayable(sub, ev) : i # Len(ev) + 1
      BY <1>2, <1>3
    <3> QED BY <1>1, <3>1 DEF Bounded
  <2> HIDE DEF more
  <2> QED BY <1>1, <1>4, <2>1, <2>2 DEF Bounded
<1>8. Ordered(sub, new)
  BY <1>1, <1>4 DEF Ordered
<1> QED BY <1>1, <1>6, <1>7, <1>8 DEF Told, new

LEMMA LaterTold ==
  ASSUME NEW sub \in Subscriptions, NEW ids, NEW ev, NEW t \in Nat, Told(sub, ids, ev, t)
  PROVE  Told(sub, ids, ev, t + 1)
<1>1. sub.stopTime # None => sub.stopTime \in Nat
  BY FieldTypes
<1>2. Timely(sub, t + 1)
  BY <1>1 DEF Told, Timely
<1> QED BY <1>2 DEF Told

\* The log of events is in the order of their times.
LEMMA AppendClocked ==
  ASSUME NEW ev \in Logs, NEW t \in Nat, Clocked(ev, t), NEW e, e.time = t
  PROVE  Clocked(Append(ev, e), t)
<1> DEFINE new == Append(ev, e)
<1>1. /\ Len(ev) \in Nat /\ Len(new) = Len(ev) + 1 /\ new[Len(ev) + 1] = e
      /\ \A i \in 1 .. Len(ev) : new[i] = ev[i] /\ ev[i].time \in Nat
  <2>1. \A i \in 1 .. Len(ev) : ev[i].time \in Nat
    BY LogTimes
  <2> QED BY <2>1 DEF Logs
<1> HIDE DEF new
<1>2. \A i \in 1 .. Len(new) : new[i].time \in Nat /\ new[i].time <= t
  BY <1>1 DEF Clocked
<1>3. ASSUME NEW i \in 1 .. Len(new), NEW j \in 1 .. Len(new), i <= j
      PROVE  new[i].time <= new[j].time
  <2>1. CASE j = Len(ev) + 1
    BY <1>1, <1>2, <2>1
  <2>2. CASE j # Len(ev) + 1
    <3>1. i \in 1 .. Len(ev) /\ j \in 1 .. Len(ev)
      BY <1>1, <1>3, <2>2
    <3> QED BY <1>1, <1>3, <3>1 DEF Clocked
  <2> QED BY <2>1, <2>2
<1>4. Clocked(new, t)
  BY <1>2, <1>3 DEF Clocked
<1> QED BY <1>4 DEF new

-----------------------------------------------------------------------------
(* A subscription is made *)

LEMMA LastOf ==
  ASSUME TypeOK, NEW part \in SUBSET notificationQ
  PROVE  /\ \A i \in part : i <= dlq_lastEntry(part)
         /\ part # {} => dlq_lastEntry(part) \in part
<1>1. part \in SUBSET (0 .. MaxEvents) /\ MaxEvents \in Nat
  BY LogEntries, ParametersAssumption DEF Ids
<1>2. part # {} => \A i \in part : Max(part) >= i
  BY <1>1, MaxIsElement
<1>3. ASSUME NEW i \in part PROVE i <= dlq_lastEntry(part)
  <2>1. dlq_lastEntry(part) = Max(part) /\ Max(part) >= i
    BY <1>2, <1>3 DEF dlq_lastEntry
  <2>2. Max(part) \in part
    BY <1>1, MaxIsElement
  <2> QED BY <1>1, <2>1, <2>2
<1>4. part # {} => dlq_lastEntry(part) \in part
  BY <1>1, MaxIsElement DEF dlq_lastEntry
<1> QED BY <1>3, <1>4

\* Nothing was sent yet; what it asks for is in the log.
Fresh(sub) ==
  /\ sub.rc_done = FALSE /\ sub.nc_done = FALSE
  /\ sub.since = Len(events) /\ sub.had = notificationQ /\ sub.sent = <<>>
  /\ sub.stopTime # None /\ sub.futurestop = FALSE => sub.stopTime <= now

LEMMA NewFields ==
  ASSUME TypeOK,
         NEW startTime \in Times \cup {None}, NEW stopTime \in Times \cup {None}
  PROVE  LET sub == new_subscription(startTime, stopTime) IN
         /\ Fresh(sub)
         /\ sub.startTime = startTime /\ sub.stopTime = stopTime
         /\ sub.rc_ready = FALSE
         /\ sub.firstreplaymsg = NULL /\ sub.firstreplaymsgid = 0
         /\ sub.lastreplaymsg = NULL /\ sub.lastreplaymsgid = 0
<1> DEFINE sub == new_subscription(startTime, stopTime)
<1>1. /\ sub.startTime = startTime /\ sub.stopTime = stopTime
      /\ sub.futurestop = (stopTime # None /\ stopTime > now)
      /\ sub.rc_ready = FALSE /\ sub.rc_done = FALSE /\ sub.nc_done = FALSE
      /\ sub.firstreplaymsg = NULL /\ sub.firstreplaymsgid = 0
      /\ sub.lastreplaymsg = NULL /\ sub.lastreplaymsgid = 0
      /\ sub.since = Len(events) /\ sub.had = notificationQ /\ sub.sent = <<>>
  BY DEF new_subscription, msgid
<1> HIDE DEF sub
<1>2. ASSUME sub.stopTime # None, sub.futurestop = FALSE PROVE sub.stopTime <= now
  <2>1. stopTime \in Nat /\ now \in Nat
    <3>1. stopTime \in Times /\ now \in Times
      BY <1>1, <1>2 DEF TypeOK
    <3> QED BY <3>1, ParametersAssumption DEF Times
  <2>2. ~(stopTime > now)
    <3>1. stopTime # None
      BY <1>1, <1>2
    <3> QED BY <1>1, <1>2, <3>1, Zenon
  <2> QED BY <1>1, <2>1, <2>2
<1> QED BY <1>1, <1>2 DEF Fresh, sub

\* A subscription to which nothing was sent is told what it is to be told,
\* if the entries its replay is to begin and to end with are the right ones.
LEMMA FreshTold ==
  ASSUME TypeOK, NEW sub \in Subscriptions, Fresh(sub),
         sub.lastmsgid <= Len(events),
         \A i \in Replayable(sub, events) : i > sub.lastmsgid,
         Bounded(sub, notificationQ, events),
         sub.state \in {"LIVE", "REPLAY"}
  PROVE  Told(sub, notificationQ, events, now)
<1>1. notificationQ \subseteq 1 .. Len(events) /\ Len(events) \in Nat
  BY DEF TypeOK, msgid
<1>2. Wanted(sub, events) = Replayable(sub, events)
  BY <1>1 DEF Wanted, Fresh
<1>3. Replayable(sub, events) \subseteq notificationQ
  BY DEF Replayable, Fresh
<1>4. sub.lastmsgid \in Nat /\ Replayable(sub, events) \subseteq Nat
  BY FieldTypes DEF Replayable
<1>5. Placed(sub, notificationQ, events)
  <2>1. \A i \in Replayable(sub, events) : ~(i <= sub.lastmsgid)
    BY <1>4
  <2>2. sub.had \subseteq 1 .. sub.since /\ sub.since <= Len(events)
    BY <1>1 DEF Fresh
  <2> QED BY <1>2, <1>3, <2>1, <2>2 DEF Placed
<1>6. Ordered(sub, events)
  <2>1. 1 .. Len(sub.sent) = {}
    BY DEF Fresh
  <2> QED BY <2>1 DEF Ordered
<1>7. Timely(sub, now)
  BY FieldTypes DEF Timely, Fresh
<1> QED BY <1>5, <1>6, <1>7 DEF Told

LEMMA NewLiveTold ==
  ASSUME TypeOK, NEW stopTime \in Times \cup {None}, stopTime = None
  PROVE  Told(live(new_subscription(None, stopTime)), notificationQ, events, now)
<1> DEFINE sub == new_subscription(None, stopTime)
           last == dlq_lastEntry(notificationQ)
           next == live(sub)
<1>1. /\ sub \in Subscriptions /\ Fresh(sub) /\ sub.state = "LIVE"
      /\ sub.startTime = None /\ sub.stopTime = None /\ sub.rc_ready = FALSE
      /\ sub.firstreplaymsg = NULL /\ sub.firstreplaymsgid = 0
      /\ sub.lastreplaymsg = NULL /\ sub.lastreplaymsgid = 0
  BY NewFields, NewSubscription
<1>2. last \in notificationQ \cup {NULL} /\ last \in Pointers
  BY LogEntries DEF Pointers
<1>3. next = [sub EXCEPT !.lastmsg = last, !.lastmsgid = last]
  BY DEF live
<1> HIDE DEF sub, last, next
<1>4. /\ next \in Subscriptions /\ Fresh(next) /\ next.state = "LIVE"
      /\ next.startTime = None /\ next.stopTime = None /\ next.rc_ready = FALSE
      /\ next.firstreplaymsg = NULL /\ next.firstreplaymsgid = 0
      /\ next.lastreplaymsg = NULL /\ next.lastreplaymsgid = 0
      /\ next.lastmsgid = last
  BY <1>1, <1>2, <1>3 DEF Subscriptions, Fresh
<1>5. Replayable(next, events) = {}
  BY <1>4 DEF Replayable
<1>6. notificationQ \subseteq 1 .. Len(events) /\ Len(events) \in Nat
  BY DEF TypeOK, msgid
<1>7. next.lastmsgid <= Len(events)
  BY <1>2, <1>4, <1>6 DEF NULL
<1>8. Bounded(next, notificationQ, events)
  <2>1. next.firstreplaymsgid <= next.since /\ next.firstreplaymsgid \notin notificationQ
    BY <1>4, <1>6 DEF Fresh
  <2> QED BY <1>4, <1>5, <2>1 DEF Bounded, Fresh
<1>9. Told(next, notificationQ, events, now)
  BY <1>4, <1>5, <1>7, <1>8, FreshTold
<1> QED BY <1>9 DEF next, sub

\* The times of entries of the log are in the order of their msgids.
LEMMA Earlier ==
  ASSUME TypeOK, Clocked(events, now), NEW i \in notificationQ, NEW j \in notificationQ, i <= j
  PROVE  eventTime(i) <= eventTime(j) /\ eventTime(i) \in Nat /\ eventTime(j) \in Nat
<1>1. i \in 1 .. Len(events) /\ j \in 1 .. Len(events) /\ events \in Logs
  <2>1. notificationQ \subseteq 1 .. Len(events)
    BY DEF TypeOK, msgid
  <2> QED BY <2>1 DEF TypeOK, Logs
<1> QED BY <1>1, LogTimes DEF Clocked, eventTime

\* What an entry to be replayed is.
LEMMA ReplayableIs ==
  ASSUME NEW sub, Fresh(sub), NEW i \in Replayable(sub, events)
  PROVE  /\ i \in notificationQ /\ sub.startTime <= eventTime(i)
         /\ sub.stopTime # None => eventTime(i) < sub.stopTime
BY DEF Replayable, Fresh, eventTime

LEMMA NewReplayTold ==
  ASSUME TypeOK, Clocked(events, now),
         NEW startTime \in Times, NEW stopTime \in Times \cup {None}
  PROVE  Told(replay(new_subscription(startTime, stopTime)), notificationQ, events, now)
<1> DEFINE sub == new_subscription(startTime, stopTime)
           first == starts_at(sub)
           last == IF sub.futurestop THEN dlq_lastEntry(notificationQ) ELSE stops_at(sub, first)
           ready == [sub EXCEPT !.rc_ready = TRUE]
           at_first == [sub EXCEPT !.firstreplaymsg = first, !.firstreplaymsgid = first]
           up_to == [at_first EXCEPT !.lastreplaymsg = last, !.lastreplaymsgid = last]
           next == replay(sub)
<1>1. startTime # None
  BY NoneAssumption, ParametersAssumption DEF Times
<1>2. /\ sub \in Subscriptions /\ Fresh(sub) /\ sub.state = "REPLAY"
      /\ sub.startTime = startTime /\ sub.stopTime = stopTime /\ sub.rc_ready = FALSE
      /\ sub.firstreplaymsg = NULL /\ sub.firstreplaymsgid = 0
      /\ sub.lastreplaymsg = NULL /\ sub.lastreplaymsgid = 0 /\ sub.lastmsgid = 0
  BY <1>1, NewFields, NewSubscription
<1>3. /\ notificationQ \subseteq 1 .. Len(events) /\ Len(events) \in Nat
      /\ notificationQ \subseteq Nat \ {0} /\ notificationQ \subseteq Pointers
  BY LogEntries DEF TypeOK, msgid, Pointers, Ids
<1> HIDE DEF sub
<1>4. /\ first \in notificationQ \cup {NULL}
      /\ first = NULL => \A i \in notificationQ : ~(sub.startTime <= eventTime(i))
      /\ \A i \in notificationQ : sub.startTime <= eventTime(i) => first <= i
  <2> DEFINE part == {i \in notificationQ : sub.startTime <= eventTime(i)}
  <2>1. part \in SUBSET notificationQ /\ first = dlq_firstEntry(part)
    BY DEF starts_at
  <2> HIDE DEF part, first
  <2>2. /\ dlq_firstEntry(part) = NULL <=> part = {}
        /\ part # {} => dlq_firstEntry(part) \in part
        /\ \A i \in part : dlq_firstEntry(part) <= i
    BY <2>1, FirstOf
  <2> QED BY <2>1, <2>2 DEF part
<1> HIDE DEF first
<1>5. \A i \in Replayable(sub, events) : i \in notificationQ /\ first # NULL /\ first <= i
  <2>1. ASSUME NEW i \in Replayable(sub, events)
        PROVE  i \in notificationQ /\ first # NULL /\ first <= i
    <3>1. i \in notificationQ /\ sub.startTime <= eventTime(i)
      BY <1>2, <2>1, ReplayableIs
    <3> QED BY <1>4, <3>1
  <2> QED BY <2>1
<1>6. \/ next = ready /\ Replayable(sub, events) = {}
      \/ next = at_first /\ first # NULL
      \/ /\ next = up_to /\ first # NULL /\ last \in notificationQ
         /\ \A i \in Replayable(sub, events) : i <= last
  <2>1. CASE first = NULL
    <3>1. next = ready
      BY <2>1 DEF replay, first
    <3> QED BY <1>5, <2>1, <3>1
  <2>2. CASE first # NULL /\ sub.stopTime = None
    BY <2>2 DEF replay, first
  <2>3. CASE first # NULL /\ sub.stopTime # None /\ sub.futurestop
    <3>1. next = up_to /\ last = dlq_lastEntry(notificationQ)
      BY <2>3 DEF replay, first
    <3>2. notificationQ \in SUBSET notificationQ /\ notificationQ # {} /\ notificationQ \in SUBSET Ids
      BY <1>4, <2>3, LogEntries
    <3>3. \A i \in notificationQ : i <= dlq_lastEntry(notificationQ)
      BY <3>2, LastOf
    <3>4. dlq_lastEntry(notificationQ) \in notificationQ
      BY <3>2, LastOf
    <3> QED BY <1>5, <2>3, <3>1, <3>3, <3>4
  <2>4. CASE first # NULL /\ sub.stopTime # None /\ ~sub.futurestop /\ sub.stopTime <= eventTime(first)
    <3>1. next = ready
      BY <2>4 DEF replay, first
    <3>2. ASSUME NEW i \in Replayable(sub, events) PROVE FALSE
      <4>1. i \in notificationQ /\ first \in notificationQ /\ first <= i
        BY <1>4, <1>5, <2>4
      <4>2. /\ eventTime(first) <= eventTime(i) /\ eventTime(first) \in Nat /\ eventTime(i) \in Nat
        BY <4>1, Earlier
      <4>3. eventTime(i) < sub.stopTime /\ sub.stopTime \in Nat
        BY <1>2, <2>4, <3>2, ReplayableIs, FieldTypes
      <4> QED BY <2>4, <4>2, <4>3
    <3> QED BY <3>1, <3>2
  <2>5. CASE first # NULL /\ sub.stopTime # None /\ ~sub.futurestop /\ ~(sub.stopTime <= eventTime(first))
    <3>1. next = up_to /\ last = stops_at(sub, first)
      BY <2>5 DEF replay, first
    <3> DEFINE before == {i \in notificationQ : i > first /\ eventTime(i) <= sub.stopTime}
    <3>2. last = IF before = {} THEN first ELSE dlq_lastEntry(before)
      BY <3>1 DEF stops_at
    <3>3. before \in SUBSET notificationQ
      OBVIOUS
    <3>4. \A i \in notificationQ : i \in before <=> i > first /\ eventTime(i) <= sub.stopTime
      OBVIOUS
    <3> HIDE DEF before
    <3>5. before # {} => dlq_lastEntry(before) \in before
      BY <3>3, LastOf
    <3>6. \A i \in before : i <= dlq_lastEntry(before)
      BY <3>3, LastOf
    <3> HIDE DEF last
    <3>7. ASSUME NEW i \in Replayable(sub, events) PROVE i <= last
      <4>1. i \in notificationQ /\ first \in notificationQ /\ first <= i
        BY <1>4, <1>5, <2>5
      <4>2. eventTime(i) < sub.stopTime /\ sub.stopTime \in Nat /\ eventTime(i) \in Nat
        BY <1>2, <2>5, <3>7, <4>1, ReplayableIs, FieldTypes, Earlier
      <4>3. i = first \/ i \in before
        BY <1>3, <3>4, <4>1, <4>2
      <4>4. CASE before = {}
        BY <1>3, <3>2, <4>1, <4>3, <4>4
      <4>5. CASE before # {}
        <5>1. last \in before /\ last > first /\ last \in Nat /\ first \in Nat
          BY <1>3, <3>2, <3>3, <3>4, <3>5, <4>1, <4>5
        <5>2. CASE i = first
          BY <5>1, <5>2
        <5>3. CASE i \in before
          <6>1. last = dlq_lastEntry(before)
            BY <3>2, <4>5
          <6> QED BY <3>6, <5>3, <6>1
        <5> QED BY <4>3, <5>2, <5>3
      <4> QED BY <4>4, <4>5
    <3>8. last \in notificationQ
      BY <1>4, <2>5, <3>2, <3>3, <3>5
    <3> QED BY <2>5, <3>1, <3>7, <3>8 DEF last
  <2> QED BY <2>1, <2>2, <2>3, <2>4, <2>5
<1> HIDE DEF next, last
<1> SUFFICES Told(next, notificationQ, events, now)
  BY DEF next, sub
<1>7. ASSUME next \in Subscriptions,
             next.startTime = sub.startTime, next.stopTime = sub.stopTime,
             next.had = sub.had, next.since = sub.since, next.sent = sub.sent,
             next.futurestop = sub.futurestop, next.rc_done = sub.rc_done,
             next.nc_done = sub.nc_done, next.lastmsgid = 0, next.state = "REPLAY",
             Bounded(next, notificationQ, events)
      PROVE  Told(next, notificationQ, events, now)
  <2>1. Fresh(next)
    BY <1>2, <1>7 DEF Fresh
  <2>2. \A i \in Replayable(next, events) : i > next.lastmsgid
    BY <1>3, <1>7, <2>1, ReplayableIs
  <2>3. next.lastmsgid <= Len(events)
    BY <1>3, <1>7
  <2> QED BY <1>7, <2>1, <2>2, <2>3, FreshTold
<1>8. CASE next = ready /\ Replayable(sub, events) = {}
  <2>1. /\ next \in Subscriptions
        /\ next.startTime = sub.startTime /\ next.stopTime = sub.stopTime
        /\ next.had = sub.had /\ next.since = sub.since /\ next.sent = sub.sent
        /\ next.futurestop = sub.futurestop /\ next.rc_done = sub.rc_done
        /\ next.nc_done = sub.nc_done /\ next.lastmsgid = 0 /\ next.state = "REPLAY"
        /\ next.firstreplaymsg = NULL /\ next.firstreplaymsgid = 0
        /\ next.lastreplaymsg = NULL /\ next.lastreplaymsgid = 0
    BY <1>2, <1>8 DEF Subscriptions
  <2>2. Replayable(next, events) = {}
    BY <1>8, <2>1 DEF Replayable
  <2>3. Bounded(next, notificationQ, events)
    <3>1. next.firstreplaymsgid <= next.since /\ next.firstreplaymsgid \notin notificationQ
      BY <1>2, <1>3, <2>1 DEF Fresh
    <3> QED BY <1>1, <1>2, <2>1, <2>2, <3>1 DEF Bounded, Fresh
  <2> QED BY <1>7, <2>1, <2>3
<1>9. ASSUME first # NULL PROVE first \in Pointers /\ first \in notificationQ /\ first <= Len(events)
  BY <1>3, <1>4, <1>9
<1>10. ASSUME first # NULL
       PROVE  /\ at_first \in Subscriptions
              /\ at_first.startTime = sub.startTime /\ at_first.stopTime = sub.stopTime
              /\ at_first.had = sub.had /\ at_first.since = sub.since /\ at_first.sent = sub.sent
              /\ at_first.futurestop = sub.futurestop /\ at_first.rc_done = sub.rc_done
              /\ at_first.rc_ready = sub.rc_ready
              /\ at_first.nc_done = sub.nc_done /\ at_first.lastmsgid = 0
              /\ at_first.state = "REPLAY"
              /\ at_first.firstreplaymsg = first /\ at_first.firstreplaymsgid = first
              /\ at_first.lastreplaymsg = NULL /\ at_first.lastreplaymsgid = 0
  BY <1>2, <1>9, <1>10 DEF Subscriptions
<1> HIDE DEF at_first
<1>11. CASE next = at_first /\ first # NULL
  <2>1. Replayable(next, events) = Replayable(sub, events)
    BY <1>10, <1>11 DEF Replayable
  <2>2. Bounded(next, notificationQ, events)
    <3>1. next.firstreplaymsgid <= next.since
      BY <1>2, <1>9, <1>10, <1>11 DEF Fresh
    <3> QED BY <1>1, <1>2, <1>5, <1>10, <1>11, <2>1, <3>1 DEF Bounded, Fresh
  <2> QED BY <1>7, <1>10, <1>11, <2>2
<1>12. CASE /\ next = up_to /\ first # NULL /\ last \in notificationQ
            /\ \A i \in Replayable(sub, events) : i <= last
  <2>1. /\ next \in Subscriptions
        /\ next.startTime = sub.startTime /\ next.stopTime = sub.stopTime
        /\ next.had = sub.had /\ next.since = sub.since /\ next.sent = sub.sent
        /\ next.futurestop = sub.futurestop /\ next.rc_done = sub.rc_done
        /\ next.rc_ready = sub.rc_ready
        /\ next.nc_done = sub.nc_done /\ next.lastmsgid = 0 /\ next.state = "REPLAY"
        /\ next.firstreplaymsg = first /\ next.firstreplaymsgid = first
        /\ next.lastreplaymsg = last /\ next.lastreplaymsgid = last
    <3>1. last \in Pointers /\ next = [at_first EXCEPT !.lastreplaymsg = last, !.lastreplaymsgid = last]
      BY <1>3, <1>12
    <3>2. at_first \in Subscriptions
      BY <1>10, <1>12
    <3>3. /\ next \in Subscriptions
          /\ next.startTime = at_first.startTime /\ next.stopTime = at_first.stopTime
          /\ next.had = at_first.had /\ next.since = at_first.since /\ next.sent = at_first.sent
          /\ next.futurestop = at_first.futurestop /\ next.rc_done = at_first.rc_done
          /\ next.rc_ready = at_first.rc_ready
          /\ next.nc_done = at_first.nc_done /\ next.lastmsgid = at_first.lastmsgid
          /\ next.state = at_first.state
          /\ next.firstreplaymsg = at_first.firstreplaymsg
          /\ next.firstreplaymsgid = at_first.firstreplaymsgid
          /\ next.lastreplaymsg = last /\ next.lastreplaymsgid = last
      BY <3>1, <3>2 DEF Subscriptions
    <3> QED BY <1>10, <1>12, <3>3
  <2>2. Replayable(next, events) = Replayable(sub, events)
    BY <2>1 DEF Replayable
  <2>3. Bounded(next, notificationQ, events)
    <3>1. next.firstreplaymsgid <= next.since
      BY <1>2, <1>9, <1>12, <2>1 DEF Fresh
    <3> QED BY <1>1, <1>2, <1>5, <1>12, <2>1, <2>2, <3>1 DEF Bounded, Fresh
  <2> QED BY <1>7, <2>1, <2>3
<1> QED BY <1>6, <1>8, <1>11, <1>12

-----------------------------------------------------------------------------
(* Every step keeps what was told *)

LEMMA InitDInv == Init => DInv
<1> SUFFICES ASSUME Init PROVE DInv
  OBVIOUS
<1>1. Clocked(events, now)
  <2>1. 1 .. Len(events) = {}
    BY DEF Init
  <2> QED BY <2>1 DEF Clocked
<1>2. Subscribed = {}
  BY DEF Init, Subscribed
<1> QED BY <1>1, <1>2, InitIInv DEF DInv

LEMMA ClockTold == ASSUME DInv, Clock PROVE DInv'
<1>1. IInv'
  BY ClockKeeps DEF DInv
<1>2. /\ now \in Nat /\ now' = now + 1 /\ events' = events /\ notificationQ' = notificationQ
      /\ subscriptionQ' = subscriptionQ
  BY ParametersAssumption DEF DInv, IInv, TypeOK, Times, Clock, log
<1>3. Clocked(events, now + 1)
  <2>1. events \in Logs
    BY DEF DInv, IInv, TypeOK, Logs
  <2>2. \A i \in 1 .. Len(events) : events[i].time \in Nat
    BY <2>1, LogTimes
  <2> QED BY <1>2, <2>2 DEF DInv, Clocked
<1>4. ASSUME NEW s \in Subscribed PROVE Told(subscriptionQ[s], notificationQ, events, now + 1)
  BY <1>2, <1>4, LaterTold DEF DInv, IInv, Sound
<1> QED BY <1>1, <1>2, <1>3, <1>4 DEF DInv, Subscribed

LEMMA QueueTold == ASSUME DInv, agt_not_queue_notification PROVE DInv'
<1>1. IInv' /\ TypeOK
  BY QueueKeeps DEF DInv, IInv
<1>2. PICK allowed \in BOOLEAN : events' = Append(events, [time |-> now, allowed |-> allowed])
  BY DEF agt_not_queue_notification
<1> DEFINE e == [time |-> now, allowed |-> allowed]
           oldest == dlq_firstEntry(notificationQ)
<1>3. e.time = now /\ now \in Nat /\ now' = now /\ events \in Logs /\ events' = Append(events, e)
  BY <1>1, <1>2, ParametersAssumption DEF TypeOK, Times, Logs, agt_not_queue_notification
<1> HIDE DEF e
<1>4. Clocked(events', now')
  <2>1. Clocked(Append(events, e), now)
    BY <1>3, AppendClocked DEF DInv
  <2> QED BY <1>3, <2>1
<1>5. \A s \in Subscribed : subscriptionQ[s] \in Subscriptions
                            /\ Told(subscriptionQ[s], notificationQ, events, now)
  BY DEF DInv, IInv, Sound
<1>6. CASE agt_eventlog_size > 0 /\ Cardinality(notificationQ) = agt_eventlog_size
  <2>1. /\ notificationQ' = (notificationQ \ {oldest}) \cup {Len(events) + 1}
        /\ subscriptionQ' = delete_oldest_notification(oldest)
    BY <1>6 DEF agt_not_queue_notification, msgid
  <2>2. oldest \in Ids
    <3>1. notificationQ # {}
      BY <1>6, FS_EmptySet
    <3>2. oldest \in notificationQ
      BY <3>1, OldestLeaves DEF DInv
    <3> QED BY <1>1, <3>2, LogEntries
  <2> HIDE DEF oldest
  <2>3. ASSUME NEW s \in Sessions, subscriptionQ'[s] # None
        PROVE  Told(subscriptionQ'[s], notificationQ', events', now')
    <3> DEFINE sub == subscriptionQ[s]
               next == forget(unlog(sub, {oldest}), oldest)
    <3>1. subscriptionQ'[s] = next /\ s \in Subscribed
      BY <2>1, <2>3 DEF delete_oldest_notification, Subscribed
    <3>2. Told(next, notificationQ \ {oldest}, events, now)
      BY <1>5, <2>2, <3>1, ForgetTold
    <3>3. next \in Subscriptions
      <4>1. Sound(next, (notificationQ \ {oldest}) \cup {})
        <5>1. Sound(sub, notificationQ) /\ notificationQ \in SUBSET Ids /\ oldest \in notificationQ
          BY <1>1, <1>6, <3>1, FS_EmptySet, LogEntries, OldestLeaves DEF DInv, IInv, oldest
        <5> QED BY <5>1, Forget
      <4> QED BY <4>1 DEF Sound
    <3> HIDE DEF next
    <3>4. Told(next, (notificationQ \ {oldest}) \cup {Len(events) + 1}, Append(events, e), now)
      BY <1>3, <3>2, <3>3, AppendTold
    <3> QED BY <1>3, <2>1, <3>1, <3>4
  <2> QED BY <1>1, <1>4, <2>3 DEF DInv, Subscribed
<1>7. CASE ~(agt_eventlog_size > 0 /\ Cardinality(notificationQ) = agt_eventlog_size)
  <2>1. notificationQ' = notificationQ \cup {Len(events) + 1} /\ subscriptionQ' = subscriptionQ
    BY <1>7 DEF agt_not_queue_notification, msgid
  <2>2. ASSUME NEW s \in Subscribed
        PROVE  Told(subscriptionQ[s], notificationQ', events', now')
    <3>1. Told(subscriptionQ[s], notificationQ \cup {Len(events) + 1}, Append(events, e), now)
      BY <1>3, <1>5, AppendTold
    <3> QED BY <1>3, <2>1, <3>1
  <2> QED BY <1>1, <1>4, <2>1, <2>2 DEF DInv, Subscribed
<1> QED BY <1>6, <1>7

LEMMA CreateTold ==
  ASSUME DInv, NEW s \in Sessions, create_subscription_invoke(s) PROVE DInv'
<1>1. IInv' /\ TypeOK /\ Clocked(events, now)
  BY CreateKeeps DEF DInv, IInv
<1>2. PICK startTime, stopTime \in Times \cup {None} :
        /\ create_subscription_validate(s, startTime, stopTime)
        /\ subscriptionQ' = [subscriptionQ EXCEPT ![s] =
             IF startTime = None THEN live(new_subscription(startTime, stopTime))
             ELSE replay(new_subscription(startTime, stopTime))]
  BY DEF create_subscription_invoke
<1>3. /\ now' = now /\ events' = events /\ notificationQ' = notificationQ
  BY DEF create_subscription_invoke, log
<1> DEFINE next == IF startTime = None THEN live(new_subscription(startTime, stopTime))
                   ELSE replay(new_subscription(startTime, stopTime))
<1>4. Told(next, notificationQ, events, now)
  <2>1. CASE startTime = None
    <3>1. stopTime = None
      BY <1>2, <2>1 DEF create_subscription_validate
    <3>2. Told(live(new_subscription(None, stopTime)), notificationQ, events, now)
      BY <1>1, <3>1, NewLiveTold
    <3> QED BY <2>1, <3>2
  <2>2. CASE startTime # None
    <3>1. startTime \in Times
      BY <1>2, <2>2
    <3>2. Told(replay(new_subscription(startTime, stopTime)), notificationQ, events, now)
      BY <1>1, <3>1, NewReplayTold
    <3> QED BY <2>2, <3>2
  <2> QED BY <2>1, <2>2
<1>5. subscriptionQ' = [subscriptionQ EXCEPT ![s] = next] /\ subscriptionQ \in [Sessions -> Subscriptions \cup {None}]
  BY <1>1, <1>2 DEF TypeOK
<1> HIDE DEF next
<1>6. ASSUME NEW t \in Sessions, subscriptionQ'[t] # None
      PROVE  Told(subscriptionQ'[t], notificationQ, events, now)
  <2>1. CASE t = s
    BY <1>4, <1>5, <2>1
  <2>2. CASE t # s
    BY <1>5, <1>6, <2>2 DEF DInv, Subscribed
  <2> QED BY <2>1, <2>2
<1> QED BY <1>1, <1>3, <1>6 DEF DInv, Subscribed

LEMMA RemoveTold ==
  ASSUME DInv, NEW s \in Sessions, agt_not_remove_subscription(s) PROVE DInv'
<1>1. IInv' /\ TypeOK
  BY RemoveKeeps DEF DInv, IInv
<1>2. /\ now' = now /\ events' = events /\ notificationQ' = notificationQ
      /\ subscriptionQ' = [subscriptionQ EXCEPT ![s] = None]
  BY DEF agt_not_remove_subscription, log
<1>3. \A t \in Sessions : subscriptionQ'[t] # None => subscriptionQ'[t] = subscriptionQ[t]
  BY <1>1, <1>2 DEF TypeOK
<1> QED BY <1>1, <1>2, <1>3 DEF DInv, Subscribed

LEMMA SendTold == ASSUME DInv, send_some_notifications PROVE DInv'
<1>1. IInv' /\ IInv /\ TypeOK /\ Clocked(events, now)
  BY SendKeeps DEF DInv, IInv
<1> DEFINE served == [s \in Sessions |-> IF s \in Subscribed THEN serve(subscriptionQ[s]) ELSE None]
<1>2. /\ now' = now /\ events' = events
      /\ \/ agt_not_clean_eventlog(served)
         \/ subscriptionQ' = served /\ notificationQ' = notificationQ
  BY DEF send_some_notifications
<1>3. \A s \in Sessions : served[s] # None =>
        served[s] \in Subscriptions /\ Told(served[s], notificationQ, events, now)
  <2>1. ASSUME NEW s \in Sessions, served[s] # None
        PROVE  served[s] \in Subscriptions /\ Told(served[s], notificationQ, events, now)
    <3>1. s \in Subscribed /\ served[s] = serve(subscriptionQ[s])
      BY <2>1
    <3>2. Sound(subscriptionQ[s], notificationQ) /\ Told(subscriptionQ[s], notificationQ, events, now)
      BY <3>1 DEF DInv, IInv
    <3>3. served[s] \in Subscriptions
      BY <1>1, <2>1, Round DEF Sound
    <3>4. serve(subscriptionQ[s]) # None
      BY <2>1, <3>1
    <3> HIDE DEF served
    <3> QED BY <1>1, <3>1, <3>2, <3>3, <3>4, ServeTold
  <2> QED BY <2>1
<1> HIDE DEF served
<1>4. ASSUME NEW s \in Sessions, subscriptionQ'[s] # None
      PROVE  Told(subscriptionQ'[s], notificationQ', events, now)
  <2>1. CASE subscriptionQ' = served /\ notificationQ' = notificationQ
    BY <1>3, <1>4, <2>1
  <2>2. CASE /\ notificationQ' = kept(served)
             /\ subscriptionQ' = [t \in Sessions |->
                  IF served[t] = None THEN None ELSE unlog(served[t], notificationQ \ kept(served))]
    <3> DEFINE gone == notificationQ \ kept(served)
    <3>1. kept(served) \subseteq notificationQ /\ gone \in SUBSET Ids
      BY <1>1, LogEntries DEF kept
    <3>2. notificationQ \ gone = kept(served)
      BY <3>1
    <3>3. served[s] # None /\ subscriptionQ'[s] = unlog(served[s], gone)
      BY <1>4, <2>2
    <3> HIDE DEF gone
    <3>4. Told(unlog(served[s], gone), notificationQ \ gone, events, now)
      BY <1>3, <3>1, <3>3, UnlogTold
    <3> QED BY <2>2, <3>2, <3>3, <3>4
  <2> QED BY <1>2, <2>1, <2>2 DEF agt_not_clean_eventlog
<1> QED BY <1>1, <1>2, <1>4 DEF DInv, Subscribed

LEMMA NextTold == DInv /\ [Next]_vars => DInv'
<1> SUFFICES ASSUME DInv, [Next]_vars PROVE DInv'
  OBVIOUS
<1>1. CASE Clock
  BY <1>1, ClockTold
<1>2. CASE agt_not_queue_notification
  BY <1>2, QueueTold
<1>3. ASSUME NEW s \in Sessions, create_subscription_invoke(s) PROVE DInv'
  BY <1>3, CreateTold
<1>4. ASSUME NEW s \in Sessions, agt_not_remove_subscription(s) PROVE DInv'
  BY <1>4, RemoveTold
<1>5. CASE send_some_notifications
  BY <1>5, SendTold
<1>6. CASE UNCHANGED vars
  <2>1. IInv'
    BY <1>6, NextKeeps DEF DInv
  <2>2. /\ now' = now /\ events' = events /\ notificationQ' = notificationQ
        /\ subscriptionQ' = subscriptionQ
    BY <1>6 DEF vars, log
  <2> QED BY <2>1, <2>2 DEF DInv, Subscribed
<1> QED BY <1>1, <1>2, <1>3, <1>4, <1>5, <1>6 DEF Next

\* What was told is what Delivered asks for.
LEMMA ToldIsDelivered == DInv => Delivered
<1> SUFFICES ASSUME DInv, NEW s \in Subscribed
             PROVE  LET sub == subscriptionQ[s] IN
               /\ \A i \in ToReplay(sub) \cup ToFollow(sub) :
                    i <= sub.lastmsgid => GotOrLost(sub, i)
               /\ sub.rc_done => \A i \in ToReplay(sub) : GotOrLost(sub, i)
               /\ \A i, j \in 1..msgid : \A k \in Positions(sub, Event(i)), l \in Positions(sub, Event(j)) :
                    k < l => i < j
               /\ Cardinality(Positions(sub, replayComplete)) <= 1
               /\ \A k \in Positions(sub, replayComplete) :
                    /\ sub.startTime # None
                    /\ \A i \in ToReplay(sub) : \A l \in Positions(sub, Event(i)) : l < k
               /\ \A k \in Positions(sub, notificationComplete) :
                    k = Len(sub.sent) /\ sub.stopTime # None /\ sub.stopTime <= now
  BY DEF Delivered, NothingSkipped, MessagesInOrder
<1> DEFINE sub == subscriptionQ[s]
<1>1. /\ sub \in Subscriptions /\ events \in Logs
      /\ Placed(sub, notificationQ, events) /\ Bounded(sub, notificationQ, events)
      /\ Ordered(sub, events) /\ Timely(sub, now)
  BY DEF DInv, IInv, Sound, Told, TypeOK, Logs
<1> HIDE DEF sub
<1>2. /\ ToReplay(sub) = Replayable(sub, events)
      /\ ToReplay(sub) \cup ToFollow(sub) = Wanted(sub, events)
      /\ \A i : GotOrLost(sub, i) <=> Got(sub, i, events)
  BY DEF ToReplay, ToFollow, GotOrLost, Replayable, Wanted, Got, eventTime, msgid
<1>3. \A i \in ToReplay(sub) \cup ToFollow(sub) : i <= sub.lastmsgid => GotOrLost(sub, i)
  BY <1>1, <1>2 DEF Placed
<1>4. ASSUME sub.rc_done, NEW i \in Replayable(sub, events) PROVE Got(sub, i, events)
  <2>1. i \in Wanted(sub, events) /\ (i <= sub.lastmsgid \/ i \notin notificationQ)
    BY <1>1, <1>4 DEF Bounded, Wanted
  <2>2. i \in Nat /\ sub.lastmsgid \in Nat
    BY <1>1, <1>4, FieldTypes DEF Replayable
  <2>3. CASE i <= sub.lastmsgid
    BY <1>1, <2>1, <2>3 DEF Placed
  <2>4. CASE ~(i <= sub.lastmsgid)
    <3>1. i > sub.lastmsgid /\ i \notin notificationQ
      BY <2>1, <2>2, <2>4
    <3>2. i \in sub.lost
      BY <1>1, <2>1, <3>1 DEF Placed
    <3> QED BY <3>2 DEF Got
  <2> QED BY <2>3, <2>4
<1>5. 1 .. msgid \subseteq Ids
  BY ParametersAssumption DEF DInv, IInv, TypeOK, Ids, msgid
<1>6. ASSUME NEW i \in 1..msgid, NEW j \in 1..msgid,
             NEW k \in Positions(sub, Event(i)), NEW l \in Positions(sub, Event(j)), k < l
      PROVE  i < j
  BY <1>1, <1>5, <1>6 DEF Ordered, Positions
<1>7. Cardinality(Positions(sub, replayComplete)) <= 1
  <2>1. ASSUME NEW k \in Positions(sub, replayComplete), NEW l \in Positions(sub, replayComplete)
        PROVE  k = l
    BY <1>1, <2>1 DEF Ordered, Positions
  <2>2. CASE Positions(sub, replayComplete) = {}
    BY <2>2, FS_EmptySet
  <2>3. CASE Positions(sub, replayComplete) # {}
    <3>1. PICK k : Positions(sub, replayComplete) = {k}
      BY <2>1, <2>3
    <3> QED BY <3>1, FS_Singleton
  <2> QED BY <2>2, <2>3
<1>8. ASSUME NEW k \in Positions(sub, replayComplete)
      PROVE  /\ sub.startTime # None
             /\ \A i \in Replayable(sub, events) : \A l \in Positions(sub, Event(i)) : l < k
  BY <1>1, <1>8 DEF Ordered, Positions
<1>9. ASSUME NEW k \in Positions(sub, notificationComplete)
      PROVE  k = Len(sub.sent) /\ sub.stopTime # None /\ sub.stopTime <= now
  <2>1. sub.nc_done /\ k = Len(sub.sent)
    BY <1>1, <1>9 DEF Ordered, Positions
  <2> QED BY <1>1, <2>1 DEF Timely
<1> QED BY <1>2, <1>3, <1>4, <1>6, <1>7, <1>8, <1>9 DEF sub

\* What a subscriber gets of the log is complete and in order: nothing that
\* send_notification should have sent is skipped, also when
\* delete_oldest_notification drops the entry the subscription is at; the
\* replay ends with one replayComplete, the subscription with
\* notificationComplete, not before its stopTime.
THEOREM DeliveryIsComplete == Spec => []Delivered
<1>1. Init => DInv
  BY InitDInv
<1>2. DInv /\ [Next]_vars => DInv'
  BY NextTold
<1>3. DInv => Delivered
  BY ToldIsDelivered
<1> QED BY <1>1, <1>2, <1>3, PTL DEF Spec
=============================================================================
