--------------------------- MODULE Notifications ---------------------------
(***************************************************************************)
(* Notification delivery (agt_not.c): events are numbered and kept in a    *)
(* log, notificationQ; a session can have one subscription, which replays  *)
(* part of the log and then follows it, live or up to a stopTime. Nothing  *)
(* is sent when an event is logged: when the select loop is idle, it calls *)
(* send_some_notifications, and each round of that sends every subscriber  *)
(* one message at most, up to agt_maxburst in all.                         *)
(*                                                                         *)
(* A pointer to a logged event is its msgid, a NULL pointer is 0, which is *)
(* no msgid. Times are seconds, and eventTimes do not go back. What access *)
(* control denies is an attribute of an event. Filters and failures to     *)
(* allocate or to start a message are not modelled.                        *)
(***************************************************************************)
EXTENDS Integers, Sequences, FiniteSets, FiniteSetsExt

CONSTANTS
    Sessions,
    None,           \* no startTime, no stopTime, no subscription
    EventlogSizes,  \* values of --eventlog-size, 0 for no replay buffer
    MaxBursts,      \* values of --maxburst, 0 for no limit
    MaxEvents,      \* a bound: events that are logged
    MaxTime         \* a bound: seconds that pass

ASSUME ParametersAssumption ==
    /\ EventlogSizes \subseteq Nat /\ MaxBursts \subseteq Nat
    /\ MaxEvents \in Nat /\ MaxTime \in Nat /\ IsFiniteSet(Sessions)

VARIABLES
    agt_eventlog_size, agt_maxburst,
    now,
    events,           \* all events that were ever logged, by msgid
    notificationQ,    \* the msgids in the log
    subscriptionQ,    \* the subscription of each session
    phase, sendtotal  \* send_some_notifications is under way

profile == <<agt_eventlog_size, agt_maxburst>>
log == <<events, notificationQ>>
tick == <<phase, sendtotal>>
vars == <<profile, now, log, subscriptionQ, tick>>

NULL == 0
Times == 0..MaxTime
Ids == 1..MaxEvents
Pointers == Ids \cup {NULL}
States == {"REPLAY", "LIVE", "TIMED", "SHUTDOWN"}

Event(id) == <<"event", id>>
replayComplete == <<"replayComplete", 0>>
notificationComplete == <<"notificationComplete", 0>>
Messages == {Event(i) : i \in Ids} \cup {replayComplete, notificationComplete}

Subscriptions ==
  [startTime : Times \cup {None}, stopTime : Times \cup {None}, futurestop : BOOLEAN,
   state : States, rc_ready : BOOLEAN, rc_done : BOOLEAN, nc_done : BOOLEAN,
   firstreplaymsg : Pointers, firstreplaymsgid : Pointers,
   lastreplaymsg : Pointers, lastreplaymsgid : Pointers,
   lastmsg : Pointers, lastmsgid : Pointers,
   \* For the properties: what the log has had and has when the subscription
   \* is made, what was sent, and what left the log before it was its turn.
   since : 0..MaxEvents, had : SUBSET Ids, sent : Seq(Messages), lost : SUBSET Ids]

ASSUME NoneAssumption == None \notin Nat /\ None \notin Subscriptions

msgid == Len(events)

Subscribed == {s \in Sessions : subscriptionQ[s] # None}

Init ==
  /\ agt_eventlog_size \in EventlogSizes /\ agt_maxburst \in MaxBursts
  /\ now = 0
  /\ events = <<>> /\ notificationQ = {}
  /\ subscriptionQ = [s \in Sessions |-> None]
  /\ phase = "idle" /\ sendtotal = 0

\* The log is in the order of the msgids, so an entry of it is found by msgid.
dlq_firstEntry(ids) == IF ids = {} THEN NULL ELSE Min(ids)
dlq_lastEntry(ids) == IF ids = {} THEN NULL ELSE Max(ids)
get_entry_after(id) == dlq_firstEntry({i \in notificationQ : i > id})
eventTime(id) == events[id].time

-----------------------------------------------------------------------------
(* The log *)

Clock ==
  /\ phase = "idle" /\ now < MaxTime
  /\ now' = now + 1
  /\ UNCHANGED <<profile, log, subscriptionQ, tick>>

\* An entry leaves the log; what a subscriber was still to be sent is lost.
unlog(sub, ids) == [sub EXCEPT !.lost = @ \cup {i \in ids : i > sub.lastmsgid}]

\* No subscription is left with a pointer to an entry that is freed.
clear(ptr, id) == IF ptr = id THEN NULL ELSE ptr
forget(sub, id) ==
  [sub EXCEPT !.firstreplaymsg = clear(@, id), !.lastreplaymsg = clear(@, id),
              !.lastmsg = clear(@, id)]

\* Mutant: lastmsg is not looked at.
delete_oldest_notification_Dangling(id) ==
  [s \in Sessions |->
     IF subscriptionQ[s] = None THEN None
     ELSE [unlog(subscriptionQ[s], {id}) EXCEPT !.firstreplaymsg = clear(@, id),
                                                !.lastreplaymsg = clear(@, id)]]
delete_oldest_notification(id) ==
  [s \in Sessions |->
     IF subscriptionQ[s] = None THEN None ELSE forget(unlog(subscriptionQ[s], {id}), id)]

\* Mutant: the oldest entry makes way too late.
agt_not_queue_notification_OneMore ==
  /\ phase = "idle" /\ msgid < MaxEvents
  /\ events' = Append(events, [time |-> now, allowed |-> TRUE])
  /\ IF agt_eventlog_size > 0 /\ Cardinality(notificationQ) > agt_eventlog_size
     THEN LET oldest == dlq_firstEntry(notificationQ)
          IN /\ notificationQ' = (notificationQ \ {oldest}) \cup {msgid + 1}
             /\ subscriptionQ' = delete_oldest_notification(oldest)
     ELSE notificationQ' = notificationQ \cup {msgid + 1} /\ UNCHANGED subscriptionQ
  /\ UNCHANGED <<profile, now, tick>>

agt_not_queue_notification ==
  /\ phase = "idle" /\ msgid < MaxEvents
  /\ \E allowed \in BOOLEAN :
       events' = Append(events, [time |-> now, allowed |-> allowed])
  /\ IF agt_eventlog_size > 0 /\ Cardinality(notificationQ) = agt_eventlog_size
     THEN LET oldest == dlq_firstEntry(notificationQ)
          IN /\ notificationQ' = (notificationQ \ {oldest}) \cup {msgid + 1}
             /\ subscriptionQ' = delete_oldest_notification(oldest)
     ELSE notificationQ' = notificationQ \cup {msgid + 1} /\ UNCHANGED subscriptionQ
  /\ UNCHANGED <<profile, now, tick>>

-----------------------------------------------------------------------------
(* Subscriptions *)

new_subscription(startTime, stopTime) ==
  [startTime |-> startTime, stopTime |-> stopTime,
   futurestop |-> stopTime # None /\ stopTime > now,
   state |-> IF startTime = None THEN "LIVE" ELSE "REPLAY",
   rc_ready |-> FALSE, rc_done |-> FALSE, nc_done |-> FALSE,
   firstreplaymsg |-> NULL, firstreplaymsgid |-> 0,
   lastreplaymsg |-> NULL, lastreplaymsgid |-> 0,
   lastmsg |-> NULL, lastmsgid |-> 0,
   since |-> msgid, had |-> notificationQ, sent |-> <<>>, lost |-> {}]

\* A live subscription starts behind the last entry of the log.
live(sub) ==
  [sub EXCEPT !.lastmsg = dlq_lastEntry(notificationQ), !.lastmsgid = dlq_lastEntry(notificationQ)]

starts_at(sub) == dlq_firstEntry({i \in notificationQ : sub.startTime <= eventTime(i)})

\* The last entry to replay: the first one from "first" on that the
\* stopTime is before the successor of.
stops_at(sub, first) ==
  LET before == {i \in notificationQ : i > first /\ eventTime(i) <= sub.stopTime}
  IN IF before = {} THEN first ELSE dlq_lastEntry(before)

replay(sub) ==
  LET first == starts_at(sub)
      at_first == [sub EXCEPT !.firstreplaymsg = first, !.firstreplaymsgid = first]
      up_to(last) == [at_first EXCEPT !.lastreplaymsg = last, !.lastreplaymsgid = last]
  IN IF first = NULL THEN [sub EXCEPT !.rc_ready = TRUE]
     ELSE IF sub.stopTime = None THEN at_first
     ELSE IF sub.futurestop THEN up_to(dlq_lastEntry(notificationQ))
     ELSE IF sub.stopTime <= eventTime(first) THEN [sub EXCEPT !.rc_ready = TRUE]
     ELSE up_to(stops_at(sub, first))

\* create_subscription_validate: no second subscription, a startTime that
\* is not in the future, a stopTime only with and not before a startTime.
create_subscription_validate(s, startTime, stopTime) ==
  /\ subscriptionQ[s] = None
  /\ startTime # None => startTime <= now
  /\ stopTime # None => startTime # None /\ startTime <= stopTime

create_subscription_invoke(s) ==
  /\ phase = "idle"
  /\ \E startTime, stopTime \in Times \cup {None} :
       /\ create_subscription_validate(s, startTime, stopTime)
       /\ LET sub == new_subscription(startTime, stopTime)
          IN subscriptionQ' = [subscriptionQ EXCEPT ![s] =
                                 IF startTime = None THEN live(sub) ELSE replay(sub)]
  /\ UNCHANGED <<profile, now, log, tick>>

\* The session ends.
agt_not_remove_subscription(s) ==
  /\ phase = "idle" /\ s \in Subscribed
  /\ subscriptionQ' = [subscriptionQ EXCEPT ![s] = None]
  /\ UNCHANGED <<profile, now, log, tick>>

-----------------------------------------------------------------------------
(* Sending *)

send(sub, msg) == [sub EXCEPT !.sent = Append(@, msg)]
\* Mutant: it is not noted that it was done.
send_replayComplete_Again(sub) == [send(sub, replayComplete) EXCEPT !.rc_ready = TRUE]
send_replayComplete(sub) ==
  [send(sub, replayComplete) EXCEPT !.rc_ready = TRUE, !.rc_done = TRUE]
send_notificationComplete(sub) ==
  [send(sub, notificationComplete) EXCEPT !.nc_done = TRUE, !.state = "SHUTDOWN"]
send_notification(sub, id) ==
  LET at == [sub EXCEPT !.lastmsg = id, !.lastmsgid = id]
  IN IF events[id].allowed THEN send(at, Event(id)) ELSE at

\* The entry to send next, "first" if none was sent.
next_entry(sub, first) ==
  IF sub.lastmsg # NULL THEN get_entry_after(sub.lastmsg)
  ELSE IF sub.lastmsgid # 0 THEN get_entry_after(sub.lastmsgid)
  ELSE first

first_to_replay(sub) ==
  IF sub.firstreplaymsg # NULL THEN sub.firstreplaymsg
  ELSE get_entry_after(sub.firstreplaymsgid)

replayed(sub, id) ==
  [send_notification(sub, id) EXCEPT
     !.rc_ready = \/ sub.lastreplaymsg = id
                  \/ sub.lastreplaymsgid # 0 /\ sub.lastreplaymsgid <= id]

\* What follows the replay, but for a stopTime in the past.
after_replay(sub) == [sub EXCEPT !.state = IF sub.stopTime = None THEN "LIVE" ELSE "TIMED"]

serve_replay(sub) ==
  LET ends == sub.stopTime # None /\ ~sub.futurestop
      next == next_entry(sub, first_to_replay(sub))
  IN IF sub.rc_ready /\ sub.rc_done
     THEN IF ends THEN send_notificationComplete(sub) ELSE after_replay(sub)
     ELSE IF sub.rc_ready THEN send_replayComplete(sub)
     ELSE IF next # NULL THEN replayed(sub, next)
     ELSE IF ends THEN send_replayComplete(sub)
     ELSE after_replay(send_replayComplete(sub))

serve_timed(sub) ==
  LET next == next_entry(sub, dlq_firstEntry(notificationQ))
      reached == IF next # NULL THEN eventTime(next) ELSE now
      then == IF next # NULL THEN send_notification(sub, next) ELSE sub
  IN IF sub.stopTime <= reached THEN [then EXCEPT !.state = "SHUTDOWN"] ELSE then

serve_live(sub) ==
  LET next == next_entry(sub, dlq_firstEntry(notificationQ))
  IN IF next # NULL THEN send_notification(sub, next) ELSE sub

\* Mutant: notificationComplete is not sent.
serve_shutdown_Silent(sub) == None
serve_shutdown(sub) ==
  IF sub.stopTime # None /\ ~sub.nc_done THEN send_notificationComplete(sub) ELSE None

\* A subscriber's turn: one message at most, None if the subscription is gone.
serve(sub) ==
  CASE sub.state = "REPLAY" -> serve_replay(sub)
    [] sub.state = "TIMED" -> serve_timed(sub)
    [] sub.state = "LIVE" -> serve_live(sub)
    [] sub.state = "SHUTDOWN" -> serve_shutdown(sub)

\* The entries agt_not_clean_eventlog keeps.
\* Mutant: what one subscriber has got is deleted.
kept_Highest(subs) ==
  LET got == {subs[s].lastmsgid : s \in {s \in Sessions : subs[s] # None}} \ {0}
  IN {i \in notificationQ : got # {} /\ Max(got) <= i}
kept(subs) ==
  LET got == {subs[s].lastmsgid : s \in {s \in Sessions : subs[s] # None}} \ {0}
      lowestmsgid == Min(got)
  IN {i \in notificationQ : got # {} /\ lowestmsgid <= i}

agt_not_clean_eventlog(subs) ==
  IF agt_eventlog_size > 0
  THEN notificationQ' = notificationQ /\ subscriptionQ' = subs
  ELSE /\ notificationQ' = kept(subs)
       /\ subscriptionQ' =
            [s \in Sessions |->
               IF subs[s] = None THEN None ELSE unlog(subs[s], notificationQ \ kept(subs))]

\* The select loop is idle: rounds, in which every subscriber has its turn,
\* until nothing is sent or enough is. The step is one round.
send_some_notifications ==
  LET served == [s \in Sessions |-> IF s \in Subscribed THEN serve(subscriptionQ[s]) ELSE None]
      sends == {s \in Subscribed : served[s] # None /\ served[s].sent # subscriptionQ[s].sent}
      total == sendtotal + Cardinality(sends)
      done == sends = {} \/ (agt_maxburst # 0 /\ total >= agt_maxburst)
  IN /\ IF done
        THEN phase' = "idle" /\ sendtotal' = 0 /\ agt_not_clean_eventlog(served)
        ELSE /\ phase' = "sending" /\ sendtotal' = total
             /\ subscriptionQ' = served /\ UNCHANGED notificationQ
     /\ UNCHANGED <<profile, now, events>>

Next ==
  \/ Clock \/ agt_not_queue_notification
  \/ \E s \in Sessions : create_subscription_invoke(s) \/ agt_not_remove_subscription(s)
  \/ send_some_notifications

Spec == Init /\ [][Next]_vars

-----------------------------------------------------------------------------
(* Properties *)

\* The type of every variable. The log of a server with a replay buffer
\* never holds more than --eventlog-size entries (the assert of
\* agt_not_queue_notification).
TypeOK ==
  /\ agt_eventlog_size \in EventlogSizes /\ agt_maxburst \in MaxBursts
  /\ now \in Times
  /\ events \in Seq([time : Times, allowed : BOOLEAN]) /\ msgid <= MaxEvents
  /\ notificationQ \subseteq 1..msgid
  /\ agt_eventlog_size > 0 => Cardinality(notificationQ) <= agt_eventlog_size
  /\ subscriptionQ \in [Sessions -> Subscriptions \cup {None}]
  /\ phase \in {"idle", "sending"} /\ sendtotal \in Nat

\* No subscription will follow a pointer to an entry that is freed: lastmsg,
\* or, while nothing was sent, firstreplaymsg. delete_oldest_notification
\* clears them; agt_not_clean_eventlog does not, and frees only entries
\* that no subscription can be at.
PointersLive ==
  \A s \in Subscribed : LET sub == subscriptionQ[s] IN
    /\ sub.lastmsg \in notificationQ \cup {NULL}
    /\ sub.state = "REPLAY" /\ ~sub.rc_ready /\ sub.lastmsgid = 0
         => sub.firstreplaymsg \in notificationQ \cup {NULL}

\* What a subscription asks to be replayed, of what the log had.
ToReplay(sub) ==
  {i \in sub.had : /\ sub.startTime # None /\ sub.startTime <= eventTime(i)
                   /\ sub.stopTime # None => eventTime(i) < sub.stopTime}

\* What it asks for of what came later.
ToFollow(sub) == (sub.since + 1)..msgid

GotOrLost(sub, i) ==
  \/ ~events[i].allowed
  \/ i \in sub.lost
  \/ \E k \in 1..Len(sub.sent) : sub.sent[k] = Event(i)

\* No event is skipped, also when the log drops the entry a subscription is
\* at: what precedes the last message of a subscription was sent to it, and
\* with replayComplete the whole replay, but for what the log dropped before
\* it could be sent.
NothingSkipped ==
  \A s \in Subscribed : LET sub == subscriptionQ[s] IN
    /\ \A i \in ToReplay(sub) \cup ToFollow(sub) :
         i <= sub.lastmsgid => GotOrLost(sub, i)
    /\ sub.rc_done => \A i \in ToReplay(sub) : GotOrLost(sub, i)

Positions(sub, msg) == {k \in 1..Len(sub.sent) : sub.sent[k] = msg}

\* What a subscriber gets is in order: the events by msgid, each once;
\* replayComplete once, behind what is replayed; notificationComplete once,
\* last, and not before the stopTime.
MessagesInOrder ==
  \A s \in Subscribed : LET sub == subscriptionQ[s] IN
    /\ \A i, j \in 1..msgid : \A k \in Positions(sub, Event(i)), l \in Positions(sub, Event(j)) :
         k < l => i < j
    /\ Cardinality(Positions(sub, replayComplete)) <= 1
    /\ \A k \in Positions(sub, replayComplete) :
         /\ sub.startTime # None
         /\ \A i \in ToReplay(sub) : \A l \in Positions(sub, Event(i)) : l < k
    /\ \A k \in Positions(sub, notificationComplete) :
         k = Len(sub.sent) /\ sub.stopTime # None /\ sub.stopTime <= now

\* Delivery: nothing is skipped, and all is in order.
Delivered == NothingSkipped /\ MessagesInOrder

\* The server itself ends only a subscription with a stopTime, and tells so:
\* notificationComplete was sent.
EndsAreTold ==
  [][\A s \in Subscribed :
       subscriptionQ'[s] = None /\ ~agt_not_remove_subscription(s)
         => Positions(subscriptionQ[s], notificationComplete) # {}]_vars

\* Without a replay buffer, an entry is not deleted before every
\* subscription that has got an event has got this one, too.
KeptUntilSent ==
  [][agt_eventlog_size = 0 =>
       \A s \in Subscribed :
         subscriptionQ'[s] # None /\ subscriptionQ'[s].lastmsgid # 0
           => \A i \in notificationQ \ notificationQ' : i <= subscriptionQ'[s].lastmsgid]_vars
=============================================================================
