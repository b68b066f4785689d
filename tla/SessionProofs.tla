---------------------------- MODULE SessionProofs ----------------------------
(***************************************************************************)
(* Theorems about the sessions of the server.  First SessionLoop, for      *)
(* every size of the session table, every set of messages and every number *)
(* of messages under way; then SesInput, for every set of documents, every *)
(* way in which the stream is cut into reads, and every size of a buffer.  *)
(* The two share the lemmas on sequences and numbers.                      *)
(***************************************************************************)
EXTENDS SessionLoop, SesInput, SequenceTheorems, FiniteSetTheorems, WellFoundedInduction, TLAPS

\* A session control block, or the place of one.
Scb == [state : States, inq : BOOLEAN, msgQ : Seq(Messages), wire : Seq(Messages),
        closed : BOOLEAN, late : BOOLEAN, watched : BOOLEAN]

\* The queue flag of a session tells whether it has messages, unless it is
\* shutting down; a free slot holds nothing of the session it had before.
Sound(cb) ==
    /\ cb \in Scb
    /\ cb.inq => cb.msgQ # <<>>
    /\ cb.msgQ # <<>> /\ cb.state # "SHUTDOWN_REQ" => cb.inq
    /\ cb.state = "NONE" => cb = Free

Blocks == ses \in [Sids -> Scb] /\ \A s \in Sids : Sound(ses[s])

OnQueue(q, s) == \E i \in DOMAIN q : q[i] = s

Distinct(q) == \A i, j \in DOMAIN q : q[i] = q[j] => i = j

Queue ==
    /\ inreadyQ \in Seq(Sids)
    /\ Distinct(inreadyQ)
    /\ \A s \in Sids : ses[s].inq <=> OnQueue(inreadyQ, s)

\* The slots from next_sesid on have never been used.
Slots ==
    /\ next_sesid \in 0 .. MaxSessions - 1
    /\ next_sesid # 0 => \A s \in Sids : s >= next_sesid => ses[s].state = "NONE"
    /\ active_sessions = Cardinality(live)

\* select finds the ready queue empty, and a session that is still to be read has
\* a control block and is not on it: only a read puts a session on the queue.
Turns ==
    /\ phase \in {"select", "service", "drain", "undefined"}
    /\ toService \subseteq Sids \cup {0}
    /\ phase = "select" => inreadyQ = <<>>
    /\ phase = "service" =>
         \A s \in toService \ {0} : ses[s].state # "NONE" /\ ~ses[s].inq

IInv == Blocks /\ Queue /\ Slots /\ Turns

-----------------------------------------------------------------------------
(* Slots *)

LEMMA SidsFacts ==
  /\ Sids \in SUBSET (Nat \ {0}) /\ IsFiniteSet(Sids) /\ 0 \notin Sids
  /\ \A K \in SUBSET Sids : IsFiniteSet(K) /\ Cardinality(K) \in Nat
<1>1. MaxSessions - 1 \in Int /\ 1 \in Int
  BY BoundsAssumption
<1>2. IsFiniteSet(Sids)
  BY <1>1, FS_Interval DEF Sids
<1>3. Sids \in SUBSET (Nat \ {0}) /\ 0 \notin Sids
  BY BoundsAssumption DEF Sids
<1>4. ASSUME NEW K \in SUBSET Sids PROVE IsFiniteSet(K) /\ Cardinality(K) \in Nat
  BY <1>2, FS_Subset, FS_CardinalityType
<1> QED BY <1>2, <1>3, <1>4

Less == {ss \in Nat \X Nat : ss[1] < ss[2]}

LEMMA LessIsWellFounded == IsWellFoundedOn(Less, Nat)
<1>1. \A p \in Nat \X Nat : p \in OpToRel(<, Nat) <=> p \in Less
  BY DEF OpToRel, Less
<1>2. OpToRel(<, Nat) \subseteq Nat \X Nat /\ Less \subseteq Nat \X Nat
  BY DEF OpToRel, Less
<1>3. OpToRel(<, Nat) = Less
  BY <1>1, <1>2, Zenon
<1> QED BY <1>3, NatLessThanWellFounded, Zenon

LEMMA LeastSid ==
  ASSUME NEW S \in SUBSET Sids, S # {}
  PROVE  \E x \in S : \A y \in S : x <= y
<1>1. S \in SUBSET Nat
  BY SidsFacts
<1>2. PICK x \in S : \A y \in S : <<y, x>> \notin Less
  BY <1>1, LessIsWellFounded, WFMin, Zenon
<1>3. ASSUME NEW y \in S PROVE x <= y
  <2>1. <<y, x>> \notin Less
    BY <1>2, Zenon
  <2>2. ~(y < x)
    BY <1>1, <2>1, SMT DEF Less
  <2> QED BY <1>1, <2>2, SMT
<1> QED BY <1>3

LEMMA FreeIsScb == Free \in Scb /\ Free.state = "NONE" /\ ~Free.inq /\ ~Free.late
                   /\ Free.msgQ = <<>> /\ Free.wire = <<>>
                   /\ Free.watched
  BY DEF Free, Scb, States

\* The slot for a new session is one without a control block.
LEMMA NewSlotFree ==
  ASSUME IInv, new_slot # 0
  PROVE  /\ new_slot \in Sids /\ new_slot \notin live
         /\ next_sesid # 0 => new_slot = next_sesid
<1>1. CASE next_sesid # 0
  BY <1>1, BoundsAssumption, SidsFacts DEF new_slot, IInv, Slots, Sids, live
<1>2. CASE next_sesid = 0
  BY <1>2, LeastSid, Zenon DEF new_slot
<1> QED BY <1>1, <1>2

-----------------------------------------------------------------------------
(* The ready queue *)

LEMMA QueueAppend ==
  ASSUME NEW q \in Seq(Sids), Distinct(q), NEW s \in Sids, ~OnQueue(q, s)
  PROVE  /\ Append(q, s) \in Seq(Sids) /\ Distinct(Append(q, s))
         /\ \A t \in Sids : OnQueue(Append(q, s), t) <=> OnQueue(q, t) \/ t = s
<1> DEFINE r == Append(q, s)
<1>1. /\ r \in Seq(Sids) /\ Len(r) = Len(q) + 1 /\ r[Len(q) + 1] = s
      /\ \A i \in 1 .. Len(q) : r[i] = q[i]
  BY AppendProperties
<1>2. DOMAIN r = 1 .. Len(q) + 1 /\ DOMAIN q = 1 .. Len(q) /\ Len(q) \in Nat
  BY <1>1, LenProperties
<1> HIDE DEF r
<1>3. Distinct(r)
  BY <1>1, <1>2 DEF Distinct, OnQueue
<1>4. \A t \in Sids : OnQueue(r, t) <=> OnQueue(q, t) \/ t = s
  BY <1>1, <1>2 DEF OnQueue
<1> QED BY <1>1, <1>3, <1>4 DEF r

LEMMA QueueTail ==
  ASSUME NEW q \in Seq(Sids), Distinct(q), q # <<>>
  PROVE  /\ Tail(q) \in Seq(Sids) /\ Distinct(Tail(q))
         /\ Head(q) \in Sids /\ OnQueue(q, Head(q))
         /\ \A t \in Sids : OnQueue(Tail(q), t) <=> OnQueue(q, t) /\ t # Head(q)
<1> DEFINE r == Tail(q)
<1>1. /\ r \in Seq(Sids) /\ Len(r) = Len(q) - 1 /\ Head(q) = q[1] /\ Head(q) \in Sids
      /\ \A i \in 1 .. Len(r) : r[i] = q[i + 1]
  BY HeadTailProperties
<1>2. DOMAIN r = 1 .. Len(q) - 1 /\ DOMAIN q = 1 .. Len(q) /\ Len(q) \in Nat \ {0}
  BY <1>1, LenProperties, EmptySeq
<1> HIDE DEF r
<1>3. Distinct(r)
  BY <1>1, <1>2 DEF Distinct
<1>4. ASSUME NEW t \in Sids PROVE OnQueue(r, t) <=> OnQueue(q, t) /\ t # Head(q)
  <2>1. ASSUME OnQueue(r, t) PROVE OnQueue(q, t) /\ t # Head(q)
    BY <1>1, <1>2, <2>1 DEF Distinct, OnQueue
  <2>2. ASSUME OnQueue(q, t), t # Head(q) PROVE OnQueue(r, t)
    <3>1. PICK i \in 1 .. Len(q) : q[i] = t
      BY <1>2, <2>2 DEF OnQueue
    <3>2. i - 1 \in 1 .. Len(q) - 1 /\ r[i - 1] = q[i]
      BY <1>1, <1>2, <2>2, <3>1
    <3> QED BY <1>2, <3>1, <3>2 DEF OnQueue
  <2> QED BY <2>1, <2>2
<1>5. OnQueue(q, Head(q))
  BY <1>1, <1>2 DEF OnQueue
<1> QED BY <1>1, <1>3, <1>4, <1>5 DEF r

-----------------------------------------------------------------------------
(* Control blocks *)

\* One control block changes, and a sound one takes its place.
LEMMA BlockChanges ==
  ASSUME IInv, NEW s \in Sids, NEW cb, Sound(cb), ses' = [ses EXCEPT ![s] = cb],
         ses[s].state # "NONE", cb.state # "NONE"
  PROVE  /\ Blocks' /\ live' = live
         /\ ses'[s] = cb /\ \A t \in Sids \ {s} : ses'[t] = ses[t]
         /\ UNCHANGED <<next_sesid, active_sessions>> => Slots'
<1>1. ses'[s] = cb /\ \A t \in Sids \ {s} : ses'[t] = ses[t]
  BY DEF IInv, Blocks
<1>2. Blocks'
  BY <1>1 DEF IInv, Blocks, Sound
<1>3. live' = live
  BY <1>1 DEF live
<1>4. UNCHANGED <<next_sesid, active_sessions>> => Slots'
  BY <1>1, <1>3 DEF IInv, Slots
<1> QED BY <1>1, <1>2, <1>3, <1>4

\* The sessions of K leave the table.
LEMMA FreeSessionFacts ==
  ASSUME IInv, NEW K \in SUBSET live, agt_ses_free_session(K)
  PROVE  /\ Blocks' /\ Slots' /\ live' = live \ K
         /\ \A s \in K : ses'[s] = Free
         /\ \A s \in Sids \ K : ses'[s] = ses[s]
<1>1. /\ ses' = [s \in Sids |-> IF s \in K THEN Free ELSE ses[s]]
      /\ active_sessions' = active_sessions - Cardinality(K)
      /\ next_sesid' = next_sesid
      /\ K \subseteq Sids
  BY DEF agt_ses_free_session, live
<1>2. Sound(Free)
  BY FreeIsScb DEF Sound
<1>3. (\A s \in K : ses'[s] = Free) /\ \A s \in Sids \ K : ses'[s] = ses[s]
  BY <1>1
<1>4. Blocks'
  BY <1>1, <1>2 DEF IInv, Blocks, Sound
<1>5. live' = live \ K
  BY <1>1, <1>3, FreeIsScb DEF live
<1>6. Cardinality(live \ K) = Cardinality(live) - Cardinality(K)
  <2>1. live \cap K = K /\ live \in SUBSET Sids
    BY DEF live
  <2> QED BY <2>1, SidsFacts, FS_Difference
<1>7. Slots'
  BY <1>1, <1>3, <1>5, <1>6, FreeIsScb DEF IInv, Slots
<1> QED BY <1>3, <1>4, <1>5, <1>7

\* A freed session that is not on the ready queue leaves no trace in it.
LEMMA FreeSessionKeeps ==
  ASSUME IInv, NEW K \in SUBSET live, agt_ses_free_session(K),
         \A s \in K : ~ses[s].inq,
         inreadyQ' = inreadyQ, phase' = phase, toService' \subseteq toService \ K
  PROVE  IInv'
<1>1. /\ Blocks' /\ Slots'
      /\ \A s \in K : ses'[s] = Free
      /\ \A s \in Sids \ K : ses'[s] = ses[s]
  BY FreeSessionFacts
<1>2. Queue'
  BY <1>1, FreeIsScb DEF IInv, Queue
<1>3. Turns'
  BY <1>1 DEF IInv, Turns
<1> QED BY <1>1, <1>2, <1>3 DEF IInv

LEMMA UndefinedKeeps == IInv /\ Undefined => IInv'
  BY DEF IInv, Blocks, Queue, Slots, Turns, Undefined, live

-----------------------------------------------------------------------------
(* What a read leaves behind *)

\* What is read is what was sent, and the rest of it is read later.
LEMMA ReadSplits ==
  ASSUME NEW queued \in Seq(Messages), NEW coming \in Seq(Messages), NEW n \in 0 .. Len(coming)
  PROVE  /\ SubSeq(coming, 1, n) \in Seq(Messages) /\ Len(SubSeq(coming, 1, n)) = n
         /\ SubSeq(coming, n + 1, Len(coming)) \in Seq(Messages)
         /\ (queued \o SubSeq(coming, 1, n)) \o SubSeq(coming, n + 1, Len(coming)) = queued \o coming
<1> DEFINE first == SubSeq(coming, 1, n)
           rest == SubSeq(coming, n + 1, Len(coming))
<1>1. Len(coming) \in Nat /\ \A i \in 1 .. Len(coming) : coming[i] \in Messages
  BY LenProperties, ElementOfSeq
<1>2. \A i \in 1 .. n : coming[i] \in Messages
  BY <1>1
<1>3. \A i \in n + 1 .. Len(coming) : coming[i] \in Messages
  BY <1>1
<1>4. first \in Seq(Messages) /\ Len(first) = n
  BY <1>1, <1>2, SubSeqProperties
<1>5. rest \in Seq(Messages)
  BY <1>1, <1>3, SubSeqProperties
<1>6. first \o rest = coming
  <2>1. 1 \in 1 .. Len(coming) + 1 /\ n \in 1 - 1 .. Len(coming) /\ Len(coming) \in n .. Len(coming)
    BY <1>1
  <2>2. first \o rest = SubSeq(coming, 1, Len(coming))
    BY <2>1, ConcatAdjacentSubSeq
  <2> QED BY <2>2, SubSeqFull
<1> HIDE DEF first, rest
<1>7. (queued \o first) \o rest = queued \o (first \o rest)
  BY <1>4, <1>5, ConcatAssociative
<1> QED BY <1>4, <1>5, <1>6, <1>7 DEF first, rest

\* The control block after a read that brings n messages.
Read(s, n) ==
    [ses[s] EXCEPT !.msgQ = @ \o SubSeq(ses[s].wire, 1, n),
                   !.wire = SubSeq(@, n + 1, Len(@)),
                   !.inq = n > 0 \/ @]

LEMMA ReadFacts ==
  ASSUME IInv, NEW s \in Sids, NEW n \in 0 .. Len(ses[s].wire), ses[s].state # "NONE"
  PROVE  /\ after_read(s, n) = [ses EXCEPT ![s] = Read(s, n)]
         /\ Sound(Read(s, n)) /\ Read(s, n).state = ses[s].state
         /\ (Read(s, n).inq <=> (n > 0 \/ ses[s].inq))
         /\ Read(s, n).msgQ \o Read(s, n).wire = ses[s].msgQ \o ses[s].wire
<1> DEFINE first == SubSeq(ses[s].wire, 1, n)
           rest == SubSeq(ses[s].wire, n + 1, Len(ses[s].wire))
<1>1. ses[s] \in Scb /\ Sound(ses[s]) /\ ses \in [Sids -> Scb]
  BY DEF IInv, Blocks
<1>2. ses[s].msgQ \in Seq(Messages) /\ ses[s].wire \in Seq(Messages) /\ ses[s].inq \in BOOLEAN
  BY <1>1 DEF Scb
<1>3. /\ first \in Seq(Messages) /\ Len(first) = n /\ rest \in Seq(Messages)
      /\ (ses[s].msgQ \o first) \o rest = ses[s].msgQ \o ses[s].wire
  BY <1>2, ReadSplits
<1>4. /\ ses[s].msgQ \o first \in Seq(Messages)
      /\ Len(ses[s].msgQ \o first) = Len(ses[s].msgQ) + n
      /\ Len(ses[s].msgQ) \in Nat
      /\ ses[s].msgQ # <<>> => Len(ses[s].msgQ) \in Nat \ {0}
  BY <1>2, <1>3, ConcatProperties, EmptySeq, LenProperties
<1>5. n \in Nat /\ (n > 0) \in BOOLEAN
  OBVIOUS
<1>6. /\ Read(s, n).msgQ = ses[s].msgQ \o first
      /\ Read(s, n).wire = rest
      /\ (Read(s, n).inq <=> (n > 0 \/ ses[s].inq))
      /\ Read(s, n).state = ses[s].state
      /\ Read(s, n) \in Scb
  BY <1>1, <1>2, <1>3, <1>4 DEF Read, Scb
<1>7. after_read(s, n) = [ses EXCEPT ![s] = Read(s, n)]
  BY <1>1 DEF after_read, Read
<1> HIDE DEF first, rest
<1>8. (n > 0 \/ ses[s].inq) => ses[s].msgQ \o first # <<>>
  BY <1>4, <1>5, <1>1, EmptySeq DEF Sound
<1>9. n = 0 => ses[s].msgQ \o first = ses[s].msgQ
  BY <1>3, EmptySeq, <1>2, ConcatEmptySeq
<1>10. Sound(Read(s, n))
  <2>1. n = 0 \/ n > 0
    BY <1>5
  <2>2. CASE n > 0
    BY <1>6, <1>8, <2>2 DEF Sound
  <2>3. CASE n = 0
    BY <1>1, <1>2, <1>5, <1>6, <1>9, <2>3 DEF Sound
  <2> QED BY <2>1, <2>2, <2>3
<1> QED BY <1>3, <1>6, <1>7, <1>10 DEF first, rest

-----------------------------------------------------------------------------
(* The clients and the reads keep the invariant *)

LEMMA BlocksUnfold == IInv =>
  /\ ses \in [Sids -> Scb]
  /\ \A s \in Sids : /\ ses[s].state \in States /\ ses[s].inq \in BOOLEAN
                     /\ ses[s].msgQ \in Seq(Messages) /\ ses[s].wire \in Seq(Messages)
                     /\ ses[s].closed \in BOOLEAN /\ ses[s].late \in BOOLEAN
                     /\ ses[s].watched \in BOOLEAN
  BY DEF IInv, Blocks, Scb

\* A client changes what waits to be read, and nothing of the loop.
LEMMA ClientsKeep == IInv /\ Clients => IInv'
<1> SUFFICES ASSUME IInv, NEW s \in Sids,
                    (\E m \in Messages : Send(s, m)) \/ HangUp(s) \/ BeLate(s)
             PROVE  IInv'
  BY DEF Clients
<1>1. PICK cb : /\ ses' = [ses EXCEPT ![s] = cb] /\ Sound(cb)
                /\ cb.state = ses[s].state /\ cb.inq = ses[s].inq
                /\ ses[s].state # "NONE"
  <2>1. ASSUME NEW m \in Messages, Send(s, m)
        PROVE  /\ ses' = [ses EXCEPT ![s] = [ses[s] EXCEPT !.wire = Append(@, m)]]
               /\ Sound([ses[s] EXCEPT !.wire = Append(@, m)])
               /\ ses[s].state # "NONE"
    BY BlocksUnfold, AppendProperties, <2>1 DEF Send, live, IInv, Blocks, Sound, Scb
  <2>2. ASSUME HangUp(s)
        PROVE  /\ ses' = [ses EXCEPT ![s] = [ses[s] EXCEPT !.closed = TRUE]]
               /\ Sound([ses[s] EXCEPT !.closed = TRUE]) /\ ses[s].state # "NONE"
    BY <2>2, BlocksUnfold DEF HangUp, live, IInv, Blocks, Sound, Scb
  <2>3. ASSUME BeLate(s)
        PROVE  /\ ses' = [ses EXCEPT ![s] = [ses[s] EXCEPT !.late = TRUE]]
               /\ Sound([ses[s] EXCEPT !.late = TRUE]) /\ ses[s].state # "NONE"
    BY <2>3, BlocksUnfold DEF BeLate, IInv, Blocks, Sound, Scb
  <2>4. /\ \A m : /\ [ses[s] EXCEPT !.wire = Append(@, m)].state = ses[s].state
                  /\ [ses[s] EXCEPT !.wire = Append(@, m)].inq = ses[s].inq
        /\ \A f \in {[ses[s] EXCEPT !.closed = TRUE], [ses[s] EXCEPT !.late = TRUE]} :
             f.state = ses[s].state /\ f.inq = ses[s].inq
    BY BlocksUnfold DEF Scb
  <2> QED BY <2>1, <2>2, <2>3, <2>4
<1>2. UNCHANGED loopVars
  BY DEF Send, HangUp, BeLate
<1>3. /\ Blocks' /\ live' = live /\ ses'[s] = cb
      /\ \A t \in Sids \ {s} : ses'[t] = ses[t]
      /\ Slots'
  BY <1>1, <1>2, BlockChanges DEF loopVars
<1>4. \A t \in Sids : ses'[t].state = ses[t].state /\ ses'[t].inq = ses[t].inq
  BY <1>1, <1>3
<1> QED BY <1>2, <1>3, <1>4 DEF IInv, Queue, Turns, loopVars

LEMMA NewSessionKeeps ==
  ASSUME IInv, NEW rewatched \in SUBSET Sids, agt_ses_new_session(rewatched)
  PROVE  IInv'
<1>1. toService' = toService \ {0} /\ UNCHANGED <<inreadyQ, phase>>
  BY DEF agt_ses_new_session
<1>2. CASE new_slot = 0
  BY <1>1, <1>2 DEF agt_ses_new_session, IInv, Blocks, Queue, Slots, Turns, live
<1>3. CASE new_slot # 0
  <2> DEFINE new == new_slot
  <2>1. new \in Sids /\ new \notin live /\ (next_sesid # 0 => new = next_sesid)
    BY <1>3, NewSlotFree
  <2>2. /\ ses' = [s \in Sids |->
                    CASE s = new -> [Free EXCEPT !.state = "INIT"]
                      [] s \in rewatched \ {new} -> [ses[s] EXCEPT !.watched = TRUE]
                      [] OTHER -> ses[s]]
        /\ next_sesid' = slot_after(next_sesid) /\ active_sessions' = active_sessions + 1
    BY <1>3 DEF agt_ses_new_session
  <2> HIDE DEF new
  <2>3. ses'[new] = [Free EXCEPT !.state = "INIT"]
    BY <2>1, <2>2
  <2>4. ASSUME NEW s \in Sids \ {new}
        PROVE  /\ Sound(ses'[s]) /\ ses'[s].state = ses[s].state /\ ses'[s].inq = ses[s].inq
    <3>1. ses'[s] = ses[s] \/ ses'[s] = [ses[s] EXCEPT !.watched = TRUE]
      BY <2>2
    <3>2. ses[s] \in Scb /\ Sound(ses[s])
      BY DEF IInv, Blocks
    <3>3. CASE ses'[s] = [ses[s] EXCEPT !.watched = TRUE]
      BY FreeIsScb, <3>2, <3>3 DEF Scb, Sound
    <3> QED BY <3>1, <3>2, <3>3
  <2>5. /\ Sound(ses'[new]) /\ ses'[new].state = "INIT" /\ ~ses'[new].inq
    BY FreeIsScb, <2>3 DEF Scb, States, Sound
  <2>6. Blocks'
    BY <2>2, <2>4, <2>5 DEF Sound, Blocks
  <2>7. live' = live \cup {new}
    BY <2>1, <2>4, <2>5 DEF live
  <2>8. Cardinality(live') = Cardinality(live) + 1
    BY SidsFacts, <2>1, <2>7, FS_AddElement DEF live
  <2>9. Slots'
    <3>1. /\ next_sesid' \in 0 .. MaxSessions - 1
          /\ next_sesid' # 0 => next_sesid # 0 /\ next_sesid' = next_sesid + 1
      <4>1. CASE next_sesid = 0
        BY <2>2, <4>1, BoundsAssumption DEF slot_after
      <4>2. CASE next_sesid \in 1 .. MaxSessions - 2
        BY <2>2, <4>2, BoundsAssumption DEF slot_after
      <4>3. CASE next_sesid = MaxSessions - 1
        BY <2>2, <4>3, BoundsAssumption DEF slot_after
      <4> QED BY <4>1, <4>2, <4>3, BoundsAssumption DEF IInv, Slots
    <3>2. ASSUME next_sesid' # 0, NEW s \in Sids, s >= next_sesid'
          PROVE  ses'[s].state = "NONE"
      BY <2>1, <3>1, <3>2, SidsFacts, <2>4 DEF IInv, Slots
    <3> QED BY <2>2, <2>8, <3>1, <3>2 DEF IInv, Slots
  <2>10. new \notin toService \ {0} \/ phase # "service"
    BY <2>1 DEF IInv, Turns, live
  <2>11. ~ses[new].inq
    BY <2>1, FreeIsScb DEF IInv, Blocks, Sound, live
  <2>12. Queue'
    BY <1>1, <2>1, <2>4, <2>5, <2>11 DEF IInv, Queue
  <2>13. Turns'
    BY <1>1, <2>1, <2>4, <2>10 DEF IInv, Turns
  <2> QED BY <2>6, <2>9, <2>12, <2>13 DEF IInv
<1> QED BY <1>2, <1>3

\* The session read from goes on: with a message it is put on the ready queue.
LEMMA ReadKeeps ==
  ASSUME IInv, phase = "service", NEW s \in Sids, s \in toService,
         NEW n \in 0 .. Len(ses[s].wire), NEW cb, ses' = [ses EXCEPT ![s] = cb],
         Sound(cb), cb.state # "NONE", (cb.inq <=> (n > 0 \/ ses[s].inq)),
         inreadyQ' = IF n = 0 THEN inreadyQ ELSE make_inready(s),
         toService' = toService \ {s}, UNCHANGED <<phase, next_sesid, active_sessions>>
  PROVE  IInv'
<1>1. s # 0
  BY SidsFacts
<1>2. ses[s].state # "NONE" /\ ~ses[s].inq
  BY <1>1 DEF IInv, Turns
<1>3. Blocks' /\ Slots' /\ ses'[s] = cb /\ \A t \in Sids \ {s} : ses'[t] = ses[t]
  BY <1>2, BlockChanges
<1>4. Queue'
  <2>1. CASE n = 0
    BY <2>1, <1>2, <1>3 DEF IInv, Queue
  <2>2. CASE n # 0
    <3>1. inreadyQ' = Append(inreadyQ, s) /\ cb.inq
      BY BlocksUnfold, LenProperties, <2>2, <1>2 DEF make_inready
    <3>2. ~OnQueue(inreadyQ, s)
      BY <1>2 DEF IInv, Queue
    <3>3. inreadyQ \in Seq(Sids) /\ Distinct(inreadyQ)
      BY DEF IInv, Queue
    <3>4. /\ Append(inreadyQ, s) \in Seq(Sids) /\ Distinct(Append(inreadyQ, s))
          /\ \A t \in Sids : OnQueue(Append(inreadyQ, s), t) <=> OnQueue(inreadyQ, t) \/ t = s
      BY <3>2, <3>3, QueueAppend
    <3> QED BY <1>3, <3>1, <3>4 DEF IInv, Queue
  <2> QED BY <2>1, <2>2
<1>5. Turns'
  BY <1>3 DEF IInv, Turns
<1> QED BY <1>3, <1>4, <1>5 DEF IInv

LEMMA AcceptInputKeeps ==
  ASSUME IInv, NEW s \in Sids, NEW n, ses_accept_input(s, n)
  PROVE  IInv'
<1>1. n \in 0 .. Len(ses[s].wire) /\ n # 0
  BY BlocksUnfold, LenProperties DEF ses_accept_input
<1>2. ses[s].state # "NONE"
  BY SidsFacts DEF IInv, Turns, ses_accept_input
<1>3. /\ ses' = [ses EXCEPT ![s] = Read(s, n)] /\ Sound(Read(s, n))
      /\ Read(s, n).state # "NONE" /\ (Read(s, n).inq <=> (n > 0 \/ ses[s].inq))
  BY <1>1, <1>2, ReadFacts DEF ses_accept_input
<1> QED BY <1>1, <1>3, ReadKeeps DEF ses_accept_input

\* A session in HELLO_WAIT that sent a bad frame.
ShutDown(s, n, w) == [Read(s, n) EXCEPT !.state = "SHUTDOWN_REQ", !.watched = w]

LEMMA ShutDownFacts ==
  ASSUME IInv, NEW s \in Sids, NEW n \in 0 .. Len(ses[s].wire), ses[s].state # "NONE",
         NEW w \in BOOLEAN
  PROVE  /\ [after_read(s, n) EXCEPT ![s].state = "SHUTDOWN_REQ", ![s].watched = w]
              = [ses EXCEPT ![s] = ShutDown(s, n, w)]
         /\ Sound(ShutDown(s, n, w)) /\ ShutDown(s, n, w).state = "SHUTDOWN_REQ"
         /\ (ShutDown(s, n, w).inq <=> (n > 0 \/ ses[s].inq))
<1>1. /\ after_read(s, n) = [ses EXCEPT ![s] = Read(s, n)]
      /\ Sound(Read(s, n)) /\ (Read(s, n).inq <=> (n > 0 \/ ses[s].inq))
  BY ReadFacts
<1>2. ShutDown(s, n, w) \in Scb
  BY <1>1 DEF ShutDown, Sound, Scb, States
<1>3. /\ ShutDown(s, n, w).state = "SHUTDOWN_REQ" /\ ShutDown(s, n, w).inq = Read(s, n).inq
      /\ ShutDown(s, n, w).msgQ = Read(s, n).msgQ
  BY <1>1 DEF ShutDown, Sound, Scb
<1>4. [after_read(s, n) EXCEPT ![s].state = "SHUTDOWN_REQ", ![s].watched = w]
        = [ses EXCEPT ![s] = ShutDown(s, n, w)]
  BY <1>1, BlocksUnfold DEF ShutDown
<1> QED BY <1>1, <1>2, <1>3, <1>4 DEF Sound

LEMMA AcceptBadFrameKeeps ==
  ASSUME IInv, NEW s \in Sids, NEW n, accept_bad_frame(s, n)
  PROVE  IInv'
<1>1. /\ n \in 0 .. Len(ses[s].wire) /\ phase = "service" /\ s \in toService
      /\ ses[s].wire \in Seq(Messages)
  BY BlocksUnfold, LenProperties DEF accept_bad_frame
<1>2. ses[s].state # "NONE" /\ ~ses[s].inq
  BY <1>1, SidsFacts DEF IInv, Turns
<1>3. CASE ses[s].state = "HELLO_WAIT"
  <2>1. PICK w \in BOOLEAN :
          /\ ses' = [after_read(s, n) EXCEPT ![s].state = "SHUTDOWN_REQ", ![s].watched = w]
          /\ inreadyQ' = IF n = 0 THEN inreadyQ ELSE make_inready(s)
          /\ toService' = toService \ {s}
          /\ UNCHANGED <<phase, next_sesid, active_sessions>>
    BY <1>3 DEF accept_bad_frame
  <2>2. /\ ses' = [ses EXCEPT ![s] = ShutDown(s, n, w)] /\ Sound(ShutDown(s, n, w))
        /\ ShutDown(s, n, w).state # "NONE"
        /\ (ShutDown(s, n, w).inq <=> (n > 0 \/ ses[s].inq))
    <3>1. /\ [after_read(s, n) EXCEPT ![s].state = "SHUTDOWN_REQ", ![s].watched = w]
                = [ses EXCEPT ![s] = ShutDown(s, n, w)]
          /\ Sound(ShutDown(s, n, w)) /\ ShutDown(s, n, w).state = "SHUTDOWN_REQ"
          /\ (ShutDown(s, n, w).inq <=> (n > 0 \/ ses[s].inq))
      BY <1>1, <1>2, ShutDownFacts
    <3>2. ses' = [ses EXCEPT ![s] = ShutDown(s, n, w)]
      BY <2>1, <3>1, Zenon
    <3> QED BY <3>1, <3>2, Zenon
  <2> QED BY <1>1, <2>1, <2>2, ReadKeeps
<1>4. CASE ses[s].state # "HELLO_WAIT" /\ Undefined
  BY <1>4, UndefinedKeeps
<1>5. CASE ses[s].state # "HELLO_WAIT" /\ ~Undefined
  BY <1>5, <1>1, <1>2, FreeSessionKeeps DEF accept_bad_frame, live
<1> QED BY <1>3, <1>4, <1>5

LEMMA AcceptEndKeeps ==
  ASSUME IInv, NEW s \in Sids, accept_end(s)
  PROVE  IInv'
<1>1. ses[s].state # "NONE" /\ ~ses[s].inq
  BY SidsFacts DEF IInv, Turns, accept_end
<1> QED BY <1>1, FreeSessionKeeps DEF accept_end, live

LEMMA TimeoutsKeep == IInv /\ agt_ses_check_timeouts => IInv'
<1> SUFFICES ASSUME IInv, agt_ses_check_timeouts PROVE IInv'
  OBVIOUS
<1> DEFINE dropped == {s \in scanned \cap timed : ses[s].late}
<1>1. /\ phase = "select" /\ agt_ses_free_session(dropped)
      /\ UNCHANGED <<inreadyQ, phase, toService>>
  BY DEF agt_ses_check_timeouts
<1>2. \A s \in Sids : ~ses[s].inq
  BY <1>1, EmptySeq DEF IInv, Turns, Queue, OnQueue
<1>3. dropped \in SUBSET live /\ \A s \in dropped : ~ses[s].inq
  BY <1>2 DEF live, timed
<1> HIDE DEF dropped
<1>4. /\ Blocks' /\ Slots'
      /\ \A s \in dropped : ses'[s] = Free
      /\ \A s \in Sids \ dropped : ses'[s] = ses[s]
  BY <1>1, <1>3, FreeSessionFacts
<1>5. Queue'
  BY <1>1, <1>2, <1>4, FreeIsScb DEF IInv, Queue
<1>6. Turns'
  BY <1>1 DEF IInv, Turns
<1> QED BY <1>4, <1>5, <1>6 DEF IInv

\* select, and the ends of the reads and of the queue.
LEMMA PhasesKeep ==
  ASSUME IInv, (\E listener \in SUBSET {0} : select(listener)) \/ serviced \/ drained
  PROVE  IInv'
<1>1. UNCHANGED <<ses, inreadyQ, next_sesid, active_sessions>>
  BY DEF select, serviced, drained
<1>2. Blocks' /\ Queue' /\ Slots'
  BY <1>1 DEF IInv, Blocks, Queue, Slots, live
<1>3. Turns'
  <2>1. ASSUME NEW listener \in SUBSET {0}, select(listener) PROVE Turns'
    <3>1. \A s \in Sids : ~ses[s].inq
      BY <2>1, EmptySeq DEF IInv, Turns, Queue, OnQueue, select
    <3> QED BY <2>1, <3>1 DEF IInv, Turns, select, readable, live
  <2>2. CASE serviced \/ drained
    BY <2>2 DEF IInv, Turns, serviced, drained
  <2> QED BY <2>1, <2>2
<1> QED BY <1>2, <1>3 DEF IInv

-----------------------------------------------------------------------------
(* The drain keeps the invariant *)

\* The session at the head of the queue is on it, with a message.
LEMMA HeadOfQueue ==
  ASSUME IInv, inreadyQ # <<>>
  PROVE  /\ Head(inreadyQ) \in Sids /\ ses[Head(inreadyQ)].inq
         /\ ses[Head(inreadyQ)].state # "NONE"
         /\ Tail(inreadyQ) \in Seq(Sids) /\ Distinct(Tail(inreadyQ))
         /\ \A t \in Sids :
              OnQueue(Tail(inreadyQ), t) <=> ses[t].inq /\ t # Head(inreadyQ)
<1>1. inreadyQ \in Seq(Sids) /\ Distinct(inreadyQ)
  BY DEF IInv, Queue
<1>2. /\ Head(inreadyQ) \in Sids /\ OnQueue(inreadyQ, Head(inreadyQ))
      /\ Tail(inreadyQ) \in Seq(Sids) /\ Distinct(Tail(inreadyQ))
      /\ \A t \in Sids :
           OnQueue(Tail(inreadyQ), t) <=> OnQueue(inreadyQ, t) /\ t # Head(inreadyQ)
  BY <1>1, QueueTail
<1>3. ses[Head(inreadyQ)].inq
  BY <1>2 DEF IInv, Queue
<1>4. ses[Head(inreadyQ)].state # "NONE"
  BY <1>2, <1>3, FreeIsScb DEF IInv, Blocks, Sound
<1> QED BY <1>2, <1>3, <1>4 DEF IInv, Queue

\* The control block of a session that has been served.
Served(s, to) ==
    [ses[s] EXCEPT !.state = to, !.late = FALSE, !.msgQ = Tail(@),
                   !.inq = Len(ses[s].msgQ) > 1]

LEMMA ServedFacts ==
  ASSUME IInv, NEW s \in Sids, ses[s].msgQ # <<>>, NEW to \in {"HELLO_WAIT", "IDLE"}
  PROVE  /\ Sound(Served(s, to)) /\ Served(s, to).state = to
         /\ (Served(s, to).inq <=> Len(ses[s].msgQ) > 1)
         /\ Served(s, to).msgQ = Tail(ses[s].msgQ)
         /\ Served(s, to).wire = ses[s].wire
<1>1. /\ ses[s] \in Scb /\ ses[s].msgQ \in Seq(Messages)
  BY BlocksUnfold DEF IInv, Blocks
<1>2. /\ Tail(ses[s].msgQ) \in Seq(Messages)
      /\ Len(Tail(ses[s].msgQ)) = Len(ses[s].msgQ) - 1
      /\ Len(ses[s].msgQ) \in Nat \ {0}
  BY <1>1, HeadTailProperties, EmptySeq
<1>3. Tail(ses[s].msgQ) # <<>> <=> Len(ses[s].msgQ) > 1
  <2>1. Tail(ses[s].msgQ) # <<>> <=> Len(Tail(ses[s].msgQ)) # 0
    BY <1>2, EmptySeq
  <2> DEFINE rest == Tail(ses[s].msgQ)
             n == Len(ses[s].msgQ)
  <2> HIDE DEF rest, n
  <2>2. n \in Nat \ {0} /\ Len(rest) = n - 1 /\ (rest # <<>> <=> Len(rest) # 0)
    BY <1>2, <2>1 DEF rest, n
  <2>3. rest # <<>> <=> n > 1
    BY <2>2
  <2> QED BY <2>3 DEF rest, n
<1>4. (Len(ses[s].msgQ) > 1) \in BOOLEAN
  OBVIOUS
<1>5. /\ Served(s, to) \in Scb /\ Served(s, to).state = to
      /\ Served(s, to).inq = (Len(ses[s].msgQ) > 1)
      /\ Served(s, to).msgQ = Tail(ses[s].msgQ)
      /\ Served(s, to).wire = ses[s].wire
  BY <1>1, <1>2, <1>4 DEF Served, Scb, States
<1>6. Served(s, to).inq <=> Len(ses[s].msgQ) > 1
  BY <1>4, <1>5
<1>7. Sound(Served(s, to))
  BY <1>3, <1>5, <1>6 DEF Sound
<1> QED BY <1>5, <1>6, <1>7

\* The sessions of K are freed and s, the first of the queue, is served and goes on.
LEMMA GoesOn ==
  ASSUME IInv, NEW s, NEW m, dispatched(s, m), NEW to \in {"HELLO_WAIT", "IDLE"},
         NEW K \in SUBSET (live \ {s}), \A t \in K : ~ses[t].inq,
         NEW f, f = [t \in Sids |-> IF t \in K THEN Free ELSE ses[t]],
         goes_on(f, s, to)
  PROVE  /\ s \in Sids /\ ses' \in [Sids -> Scb] /\ ses'[s] = Served(s, to)
         /\ \A t \in K : ses'[t] = Free
         /\ \A t \in Sids \ (K \cup {s}) : ses'[t] = ses[t]
         /\ Queue' /\ Blocks' /\ live' = live \ K
<1>1. /\ inreadyQ # <<>> /\ s = Head(inreadyQ) /\ ses[s].msgQ # <<>> /\ K \subseteq Sids
  BY DEF dispatched, live
<1>2. /\ s \in Sids /\ ses[s].inq /\ ses[s].state # "NONE"
      /\ Tail(inreadyQ) \in Seq(Sids) /\ Distinct(Tail(inreadyQ))
      /\ \A t \in Sids : OnQueue(Tail(inreadyQ), t) <=> ses[t].inq /\ t # s
  BY <1>1, HeadOfQueue
<1>3. f \in [Sids -> Scb] /\ f[s] = ses[s]
  BY <1>2, FreeIsScb DEF IInv, Blocks
<1>4. /\ ses' = [f EXCEPT ![s] = Served(s, to)]
      /\ inreadyQ' = IF Len(ses[s].msgQ) > 1 THEN Append(Tail(inreadyQ), s)
                     ELSE Tail(inreadyQ)
  BY <1>2, <1>3 DEF goes_on, Served
<1>5. /\ Sound(Served(s, to)) /\ Served(s, to).state = to
      /\ (Served(s, to).inq <=> Len(ses[s].msgQ) > 1)
  BY <1>1, <1>2, ServedFacts
<1>6. /\ ses' \in [Sids -> Scb] /\ ses'[s] = Served(s, to)
      /\ \A t \in K : ses'[t] = Free
      /\ \A t \in Sids \ (K \cup {s}) : ses'[t] = ses[t]
  BY <1>1, <1>2, <1>3, <1>4, <1>5 DEF Sound
<1>7. Blocks'
  BY FreeIsScb, <1>5, <1>6 DEF Sound, IInv, Blocks
<1>8. Queue'
  <2>1. \A t \in Sids \ {s} : ses'[t].inq <=> ses[t].inq
    BY <1>6, FreeIsScb
  <2>2. CASE Len(ses[s].msgQ) > 1
    BY <1>4, <1>5, <1>6, <2>2, <1>2, QueueAppend, <2>1 DEF Queue
  <2>3. CASE ~(Len(ses[s].msgQ) > 1)
    BY <1>4, <1>5, <1>6, <2>3, <1>2, <2>1 DEF Queue
  <2> QED BY <2>2, <2>3
<1>9. live' = live \ K
  BY <1>2, <1>5, <1>6, FreeIsScb DEF live
<1> QED BY <1>2, <1>6, <1>7, <1>8, <1>9

LEMMA GoesOnKeeps ==
  ASSUME IInv, NEW s, NEW m, dispatched(s, m), NEW to \in {"HELLO_WAIT", "IDLE"},
         NEW K \in SUBSET (live \ {s}), \A t \in K : ~ses[t].inq,
         NEW f, f = [t \in Sids |-> IF t \in K THEN Free ELSE ses[t]],
         goes_on(f, s, to),
         active_sessions' = active_sessions - Cardinality(K),
         UNCHANGED <<phase, toService, next_sesid>>
  PROVE  IInv'
<1>1. /\ s \in Sids /\ ses'[s] = Served(s, to)
      /\ \A t \in K : ses'[t] = Free
      /\ \A t \in Sids \ (K \cup {s}) : ses'[t] = ses[t]
      /\ Queue' /\ Blocks' /\ live' = live \ K
  BY GoesOn
<1>2. ses[s].state # "NONE" /\ phase = "drain"
  BY HeadOfQueue DEF dispatched
<1>3. Cardinality(live \ K) = Cardinality(live) - Cardinality(K)
  <2>1. live \cap K = K /\ live \in SUBSET Sids
    BY DEF live
  <2> QED BY <2>1, SidsFacts, FS_Difference
<1>4. Slots'
  <2>1. ASSUME NEW t \in Sids, ses[t].state = "NONE" PROVE ses'[t].state = "NONE"
    BY <1>1, <1>2, <2>1, FreeIsScb
  <2> QED BY <1>1, <1>3, <2>1 DEF IInv, Slots
<1>5. Turns'
  BY <1>2 DEF IInv, Turns
<1> QED BY <1>1, <1>4, <1>5 DEF IInv

\* The session at the head of the queue goes on, no other is freed.
LEMMA GoesOnAlone ==
  ASSUME IInv, NEW s, NEW m, dispatched(s, m), NEW to \in {"HELLO_WAIT", "IDLE"},
         goes_on(ses, s, to),
         UNCHANGED <<phase, toService, next_sesid, active_sessions>>
  PROVE  IInv'
<1>1. ses = [t \in Sids |-> IF t \in {} THEN Free ELSE ses[t]]
  BY DEF IInv, Blocks
<1>2. Cardinality({}) = 0 /\ active_sessions \in Int
  BY FS_EmptySet, SidsFacts DEF IInv, Slots, live
<1>3. active_sessions' = active_sessions - Cardinality({})
  BY <1>2
<1> QED BY <1>1, <1>3, GoesOnKeeps

\* The session at the head of the queue ends.
LEMMA EndsKeeps ==
  ASSUME IInv, NEW s, NEW m, dispatched(s, m), agt_top_ends(s)
  PROVE  IInv'
<1>1. inreadyQ # <<>> /\ s = Head(inreadyQ) /\ phase = "drain"
  BY DEF dispatched
<1>2. /\ s \in Sids /\ ses[s].state # "NONE"
      /\ Tail(inreadyQ) \in Seq(Sids) /\ Distinct(Tail(inreadyQ))
      /\ \A t \in Sids : OnQueue(Tail(inreadyQ), t) <=> ses[t].inq /\ t # s
  BY <1>1, HeadOfQueue
<1>3. {s} \in SUBSET live /\ agt_ses_free_session({s})
  BY <1>2 DEF live, agt_top_ends
<1>4. /\ Blocks' /\ Slots' /\ ses'[s] = Free /\ \A t \in Sids \ {s} : ses'[t] = ses[t]
  BY <1>3, FreeSessionFacts
<1>5. Queue'
  BY <1>2, <1>4, FreeIsScb DEF Queue, agt_top_ends
<1>6. Turns'
  BY <1>1 DEF IInv, Turns, agt_top_ends
<1> QED BY <1>4, <1>5, <1>6 DEF IInv

LEMMA RefusedKeeps ==
  ASSUME IInv, NEW s, NEW m, dispatched(s, m), dispatch_refused(s)
  PROVE  IInv'
  BY EndsKeeps, UndefinedKeeps DEF dispatch_refused

LEMMA KillKeeps ==
  ASSUME IInv, NEW s \in Sids, NEW targets \in SUBSET Sids, kill_session_invoke(s, targets)
  PROVE  IInv'
<1>1. dispatched(s, "kill") /\ targets \in SUBSET (live \ {s})
  BY DEF kill_session_invoke
<1>2. CASE ses[s].state # "IDLE"
  BY <1>1, <1>2, RefusedKeeps DEF kill_session_invoke
<1>3. CASE ses[s].state = "IDLE" /\ unmake_inready_breaks(ses, targets)
  BY <1>3, UndefinedKeeps DEF kill_session_invoke
<1>4. CASE ses[s].state = "IDLE" /\ ~unmake_inready_breaks(ses, targets)
  <2> DEFINE rest == [t \in Sids |-> IF t \in targets THEN Free ELSE ses[t]]
  <2>1. /\ goes_on(rest, s, "IDLE")
        /\ active_sessions' = active_sessions - Cardinality(targets)
        /\ UNCHANGED <<phase, toService, next_sesid>>
    BY <1>4 DEF kill_session_invoke
  <2>2. \A t \in targets : ~ses[t].inq
    BY <1>4 DEF unmake_inready_breaks
  <2> HIDE DEF rest
  <2>3. rest = [t \in Sids |-> IF t \in targets THEN Free ELSE ses[t]]
    BY DEF rest
  <2> QED BY <1>1, <2>1, <2>2, <2>3, GoesOnKeeps
<1> QED BY <1>2, <1>3, <1>4

LEMMA DropInputKeeps ==
  ASSUME IInv, NEW s \in Sids, drop_input(s)
  PROVE  IInv'
<1> DEFINE cb == [ses[s] EXCEPT !.inq = FALSE]
<1>1. /\ inreadyQ # <<>> /\ s = Head(inreadyQ) /\ ses[s].state = "SHUTDOWN_REQ"
      /\ ses' = [ses EXCEPT ![s] = cb] /\ inreadyQ' = Tail(inreadyQ) /\ phase = "drain"
      /\ UNCHANGED <<phase, toService, next_sesid, active_sessions>>
  BY BlocksUnfold DEF drop_input
<1>2. cb \in Scb /\ cb.state = "SHUTDOWN_REQ" /\ ~cb.inq
  BY <1>1 DEF IInv, Blocks, Scb
<1>3. Sound(cb)
  BY <1>2 DEF Sound
<1> HIDE DEF cb
<1>4. /\ Blocks' /\ Slots' /\ ses'[s] = cb /\ \A t \in Sids \ {s} : ses'[t] = ses[t]
  BY <1>1, <1>2, <1>3, BlockChanges
<1>5. Queue'
  BY <1>1, <1>2, <1>4, HeadOfQueue DEF Queue
<1>6. Turns'
  BY <1>1 DEF IInv, Turns
<1> QED BY <1>4, <1>5, <1>6 DEF IInv

LEMMA DrainKeeps ==
  ASSUME IInv, NEW s \in Sids, agt_ses_process_first_ready(s)
  PROVE  IInv'
<1>1. ASSUME NEW m \in Messages, agt_connect_dispatch(s, m) PROVE IInv'
  BY <1>1, GoesOnAlone, EndsKeeps, RefusedKeeps DEF agt_connect_dispatch
<1>2. ASSUME NEW m \in Messages, agt_hello_dispatch(s, m) PROVE IInv'
  BY <1>2, GoesOnAlone, RefusedKeeps DEF agt_hello_dispatch
<1>3. CASE agt_rpc_dispatch(s)
  BY <1>3, GoesOnAlone, RefusedKeeps DEF agt_rpc_dispatch
<1>4. CASE close_session_invoke(s)
  BY <1>4, EndsKeeps, RefusedKeeps DEF close_session_invoke
<1>5. CASE \E targets \in SUBSET Sids : kill_session_invoke(s, targets)
  BY <1>5, KillKeeps
<1>6. CASE agt_top_dispatch_msg(s)
  BY <1>6, EndsKeeps DEF agt_top_dispatch_msg
<1>7. CASE drop_input(s)
  BY <1>7, DropInputKeeps
<1> QED BY <1>1, <1>2, <1>3, <1>4, <1>5, <1>6, <1>7 DEF agt_ses_process_first_ready

-----------------------------------------------------------------------------
(* The theorems *)

LEMMA InitIInv == Init => IInv
<1> SUFFICES ASSUME Init PROVE IInv
  OBVIOUS
<1>1. Blocks
  BY FreeIsScb DEF Init, Blocks, Sound
<1>2. Queue
  BY EmptySeq, FreeIsScb DEF Init, Queue, Distinct, OnQueue
<1>3. live = {}
  BY FreeIsScb DEF Init, live
<1>4. Slots
  BY <1>3, FS_EmptySet, BoundsAssumption, FreeIsScb DEF Init, Slots
<1>5. Turns
  BY DEF Init, Turns
<1> QED BY <1>1, <1>2, <1>4, <1>5 DEF IInv

LEMMA NextIInv == IInv /\ [Next]_vars => IInv'
<1> SUFFICES ASSUME IInv, [Next]_vars PROVE IInv'
  OBVIOUS
<1>1. CASE Clients
  BY <1>1, ClientsKeep
<1>2. CASE agt_ncxserver_run
  BY <1>2, PhasesKeep, TimeoutsKeep, NewSessionKeeps, AcceptInputKeeps, AcceptBadFrameKeeps,
     AcceptEndKeeps, DrainKeeps DEF agt_ncxserver_run
<1>3. CASE UNCHANGED vars
  BY <1>3 DEF vars, IInv, Blocks, Queue, Slots, Turns, live
<1> QED BY <1>1, <1>2, <1>3 DEF Next

LEMMA IInvSound == IInv => SessionTables
<1> SUFFICES ASSUME IInv PROVE SessionTables
  OBVIOUS
<1>1. active_sessions \in Int
  BY SidsFacts DEF IInv, Slots, live
<1>2. TypeOK
  BY <1>1 DEF IInv, Blocks, Queue, Slots, Turns, TypeOK, Scb
<1>3. ReadyQueueSound
  BY DEF IInv, Blocks, Queue, Sound, Distinct, OnQueue, ReadyQueueSound
<1>4. ActiveSessionsCounted
  BY DEF IInv, Slots, ActiveSessionsCounted
<1> QED BY <1>2, <1>3, <1>4 DEF SessionTables

LEMMA SpecIInv == Spec => []IInv
  BY InitIInv, NextIInv, PTL DEF Spec

\* Over every order of connections, reads, dispatches, kills, framing errors and
\* timeouts, a session is on the ready queue once and exactly when it has a
\* message to be served, and active_sessions counts the control blocks.
THEOREM SessionTablesCorrect == Spec => []SessionTables
  BY SpecIInv, IInvSound, PTL

\* A timeout check drops the sessions whose timer has expired, all of them and no
\* other, for every state of the session table: no slot in use lies outside of
\* what it scans.
THEOREM TimeoutsReachAll == Spec => TimeoutReachesAll
<1>1. IInv /\ [Next]_vars =>
        [agt_ses_check_timeouts =>
           \A s \in live : ses'[s].state = "NONE" <=> s \in timed /\ ses[s].late]_vars
  <2> SUFFICES ASSUME IInv, agt_ses_check_timeouts, NEW s \in live
               PROVE  ses'[s].state = "NONE" <=> s \in timed /\ ses[s].late
    OBVIOUS
  <2> DEFINE dropped == {t \in scanned \cap timed : ses[t].late}
  <2>1. agt_ses_free_session(dropped) /\ dropped \in SUBSET live
    BY DEF agt_ses_check_timeouts, timed
  <2>2. (\A t \in dropped : ses'[t] = Free) /\ \A t \in Sids \ dropped : ses'[t] = ses[t]
    BY <2>1, FreeSessionFacts
  <2>3. s \in Sids /\ ses[s].state # "NONE"
    BY DEF live
  <2>4. s \in scanned
    BY <2>3, BoundsAssumption DEF scanned, IInv, Slots, live, Sids
  <2>5. s \in dropped <=> s \in timed /\ ses[s].late
    BY <2>4
  <2> HIDE DEF dropped
  <2> QED BY <2>2, <2>3, <2>5, FreeIsScb
<1> QED BY <1>1, SpecIInv, PTL DEF Spec, TimeoutReachesAll

-----------------------------------------------------------------------------
(* Refinement: every step is a step of SessionService or leaves it as it is. *)

Up == {s \in live : ses[s].state # "SHUTDOWN_REQ"}

Known == {s \in Sids : ses[s].state = "IDLE"}

\* The first of the messages read is the first request.
LEMMA FirstRequest ==
  ASSUME NEW q \in Seq(Messages), q # <<>>, NEW w \in Seq(Messages)
  PROVE  q \o w # <<>> /\ Head(q \o w) = Head(q) /\ Tail(q \o w) = Tail(q) \o w
<1>1. /\ q \o w \in Seq(Messages) /\ Len(q \o w) = Len(q) + Len(w)
      /\ \A i \in 1 .. Len(q) + Len(w) :
           (q \o w)[i] = IF i <= Len(q) THEN q[i] ELSE w[i - Len(q)]
      /\ Len(q) \in Nat \ {0} /\ Len(w) \in Nat
  BY ConcatProperties, EmptySeq, LenProperties
<1>2. q \o w # <<>>
  BY <1>1, EmptySeq
<1>3. Head(q \o w) = (q \o w)[1] /\ Head(q) = q[1]
  BY <1>1, <1>2
<1>4. Head(q \o w) = Head(q)
  BY <1>1, <1>3
<1>5. /\ Tail(q) \in Seq(Messages) /\ Len(Tail(q)) = Len(q) - 1
      /\ \A i \in 1 .. Len(Tail(q)) : Tail(q)[i] = q[i + 1]
      /\ Tail(q \o w) \in Seq(Messages) /\ Len(Tail(q \o w)) = Len(q \o w) - 1
      /\ \A i \in 1 .. Len(Tail(q \o w)) : Tail(q \o w)[i] = (q \o w)[i + 1]
  BY <1>1, <1>2, HeadTailProperties
<1>6. /\ Tail(q) \o w \in Seq(Messages)
      /\ Len(Tail(q) \o w) = Len(Tail(q)) + Len(w)
      /\ \A i \in 1 .. Len(Tail(q)) + Len(w) :
           (Tail(q) \o w)[i] = IF i <= Len(Tail(q)) THEN Tail(q)[i] ELSE w[i - Len(Tail(q))]
  BY <1>5, ConcatProperties
<1>7. Tail(q \o w) = Tail(q) \o w
  <2> DEFINE a == Tail(q \o w)
             b == Tail(q) \o w
             qw == q \o w
             tq == Tail(q)
             n == Len(q)
             k == Len(w)
  <2>1. /\ a \in Seq(Messages) /\ b \in Seq(Messages) /\ n \in Nat \ {0} /\ k \in Nat
        /\ Len(a) = n + k - 1 /\ Len(b) = n + k - 1
        /\ \A i \in 1 .. n + k - 1 : a[i] = qw[i + 1]
        /\ \A i \in 1 .. n + k : qw[i] = IF i <= n THEN q[i] ELSE w[i - n]
        /\ \A i \in 1 .. n - 1 : tq[i] = q[i + 1]
        /\ \A i \in 1 .. n + k - 1 : b[i] = IF i <= n - 1 THEN tq[i] ELSE w[i - (n - 1)]
    BY <1>1, <1>5, <1>6
  <2> HIDE DEF a, b, qw, tq, n, k
  <2>2. ASSUME NEW i \in 1 .. Len(a) PROVE a[i] = b[i]
    <3>1. i \in 1 .. n + k - 1 /\ i + 1 \in 1 .. n + k /\ i + 1 - n = i - (n - 1)
      BY <2>1
    <3>2. a[i] = IF i + 1 <= n THEN q[i + 1] ELSE w[i + 1 - n]
      BY <2>1, <3>1
    <3>3. b[i] = IF i <= n - 1 THEN q[i + 1] ELSE w[i - (n - 1)]
      <4>1. CASE i <= n - 1
        BY <2>1, <3>1, <4>1
      <4>2. CASE ~(i <= n - 1)
        BY <2>1, <3>1, <4>2
      <4> QED BY <4>1, <4>2
    <3>4. i + 1 <= n <=> i <= n - 1
      BY <2>1, <3>1
    <3> QED BY <3>1, <3>2, <3>3, <3>4
  <2>3. a = b
    BY <2>1, <2>2, SeqEqual
  <2> QED BY <2>3 DEF a, b
<1> QED BY <1>2, <1>4, <1>7

\* What a client sends goes to the end of its requests.
LEMMA LastRequest ==
  ASSUME NEW q \in Seq(Messages), NEW w \in Seq(Messages), NEW m \in Messages
  PROVE  q \o Append(w, m) = Append(q \o w, m)
<1>1. Append(w, m) = w \o <<m>> /\ <<m>> \in Seq(Messages)
  BY AppendIsConcat
<1>2. q \o w \in Seq(Messages)
  BY ConcatProperties
<1>3. Append(q \o w, m) = (q \o w) \o <<m>>
  BY <1>2, AppendIsConcat
<1>4. (q \o w) \o <<m>> = q \o (w \o <<m>>)
  BY <1>1, ConcatAssociative
<1> QED BY <1>1, <1>3, <1>4

\* A step that changes neither a session's state nor its requests is not seen.
LEMMA Unseen ==
  ASSUME IInv, \A s \in Sids : ses'[s].state = ses[s].state /\ requests'[s] = requests[s]
  PROVE  UNCHANGED Service!vars
<1>1. Up' = Up /\ Known' = Known
  BY DEF Up, Known, live
<1>2. requests' = requests
  BY DEF requests
<1> QED BY <1>1, <1>2 DEF Service!vars, Up, Known

LEMMA UnchangedUnseen ==
  ASSUME IInv, ses' = ses
  PROVE  UNCHANGED Service!vars
  BY Unseen DEF requests

LEMMA FreeHasNoRequests ==
  ASSUME NEW s \in Sids
  PROVE  /\ ses[s] = Free => requests[s] = <<>>
         /\ ses'[s] = Free => requests'[s] = <<>>
<1>1. <<>> \o <<>> = <<>> /\ Free.state # "SHUTDOWN_REQ"
  BY EmptySeq, ConcatEmptySeq, FreeIsScb
<1> QED BY <1>1, FreeIsScb DEF requests

\* The sessions of K end, or are not served any more.
LEMMA CutOffRefines ==
  ASSUME IInv, NEW K \in SUBSET live,
         \A s \in K : ses'[s] = Free \/ ses'[s].state = "SHUTDOWN_REQ",
         \A s \in Sids \ K : ses'[s] = ses[s]
  PROVE  Service!Next
<1>1. K \subseteq Sids
  BY DEF live
<1>2. Up' = Up \ (K \cap Up) /\ Known' = Known \ (K \cap Up)
  BY <1>1, FreeIsScb DEF Up, Known, live
<1>3. requests' = [c \in Sids |-> IF c \in K \cap Up THEN <<>> ELSE requests[c]]
  BY <1>1, FreeHasNoRequests, Zenon DEF requests, Up, live
<1>4. PICK k \in SUBSET Sids : k = K \cap Up
  BY <1>1
<1>5. /\ k \subseteq Up /\ Up' = Up \ k /\ Known' = Known \ k
      /\ requests' = [c \in Sids |-> IF c \in k THEN <<>> ELSE requests[c]]
  BY <1>2, <1>3, <1>4
<1>6. Service!CutOff(k)
  BY <1>5 DEF Service!CutOff, Up, Known
<1> QED BY <1>6 DEF Service!Next

LEMMA SendRefines ==
  ASSUME IInv, NEW s \in Sids, NEW m \in Messages, Send(s, m)
  PROVE  Service!Ask(s, m) \/ UNCHANGED Service!vars
<1> DEFINE cb == [ses[s] EXCEPT !.wire = Append(@, m)]
<1>1. ses' = [ses EXCEPT ![s] = cb] /\ s \in live
  BY BlocksUnfold DEF Send
<1>2. cb.state = ses[s].state /\ cb.msgQ = ses[s].msgQ /\ cb.wire = Append(ses[s].wire, m)
  BY BlocksUnfold DEF IInv, Blocks, Scb
<1> HIDE DEF cb
<1>3. ses'[s] = cb /\ \A t \in Sids \ {s} : ses'[t] = ses[t]
  BY <1>1, BlocksUnfold
<1>4. /\ ses[s].msgQ \in Seq(Messages) /\ ses[s].wire \in Seq(Messages)
      /\ ses[s].msgQ \o Append(ses[s].wire, m) = Append(ses[s].msgQ \o ses[s].wire, m)
  BY BlocksUnfold, LastRequest
<1>5. \A t \in Sids \ {s} : requests'[t] = requests[t]
  BY <1>3 DEF requests
<1>6. CASE ses[s].state = "SHUTDOWN_REQ"
  BY <1>2, <1>3, <1>6, <1>5, Unseen DEF requests
<1>7. CASE ses[s].state # "SHUTDOWN_REQ"
  <2>1. requests'[s] = Append(requests[s], m)
    BY <1>2, <1>3, <1>4, <1>7 DEF requests
  <2>2. requests' = [requests EXCEPT ![s] = Append(@, m)]
    BY <1>5, <2>1 DEF requests
  <2>3. Up' = Up /\ Known' = Known /\ s \in Up
    BY <1>1, <1>2, <1>3, <1>7 DEF Up, Known, live
  <2> QED BY <2>2, <2>3 DEF Service!Ask, Up, Known
<1> QED BY <1>6, <1>7

LEMMA ClientsRefine ==
  ASSUME IInv, Clients
  PROVE  Service!Next \/ UNCHANGED Service!vars
<1>1. PICK s \in Sids : (\E m \in Messages : Send(s, m)) \/ HangUp(s) \/ BeLate(s)
  BY DEF Clients
<1>2. ASSUME NEW m \in Messages, Send(s, m) PROVE Service!Next \/ UNCHANGED Service!vars
  BY <1>2, SendRefines DEF Service!Next
<1>3. CASE HangUp(s) \/ BeLate(s)
  <2>1. PICK cb : /\ ses' = [ses EXCEPT ![s] = cb] /\ cb.state = ses[s].state
                  /\ cb.msgQ = ses[s].msgQ /\ cb.wire = ses[s].wire
    BY BlocksUnfold, <1>3 DEF HangUp, BeLate, IInv, Blocks, Scb
  <2>2. ses'[s] = cb /\ \A t \in Sids \ {s} : ses'[t] = ses[t]
    BY <2>1, BlocksUnfold
  <2>3. \A t \in Sids : ses'[t].state = ses[t].state /\ requests'[t] = requests[t]
    BY <2>1, <2>2 DEF requests
  <2> QED BY <2>3, Unseen
<1> QED BY <1>1, <1>2, <1>3

LEMMA NewSessionRefines ==
  ASSUME IInv, NEW rewatched \in SUBSET Sids, agt_ses_new_session(rewatched)
  PROVE  Service!Next \/ UNCHANGED Service!vars
<1>1. CASE new_slot = 0
  BY <1>1, UnchangedUnseen DEF agt_ses_new_session
<1>2. CASE new_slot # 0
  <2> DEFINE new == new_slot
  <2>1. new \in Sids /\ new \notin live
    BY <1>2, NewSlotFree
  <2>2. ses' = [s \in Sids |->
                 CASE s = new -> [Free EXCEPT !.state = "INIT"]
                   [] s \in rewatched \ {new} -> [ses[s] EXCEPT !.watched = TRUE]
                   [] OTHER -> ses[s]]
    BY <1>2 DEF agt_ses_new_session
  <2> HIDE DEF new
  <2>3. ses'[new].state = "INIT" /\ ses'[new].msgQ = <<>> /\ ses'[new].wire = <<>>
    BY <2>1, <2>2, FreeIsScb DEF Scb
  <2>4. ASSUME NEW s \in Sids \ {new}
        PROVE  /\ ses'[s].state = ses[s].state /\ ses'[s].msgQ = ses[s].msgQ
               /\ ses'[s].wire = ses[s].wire
    BY <2>2 DEF IInv, Blocks, Scb
  <2>5. requests' = requests
    BY <2>1, EmptySeq, ConcatEmptySeq, <2>3, FreeIsScb, <2>4 DEF live, IInv, Blocks, Sound,
       requests
  <2>6. Up' = Up \cup {new} /\ new \notin Up
    BY <2>1, <2>3, <2>4 DEF Up, live
  <2>7. Known' = Known
    BY <2>1, <2>3, <2>4 DEF Known, live
  <2>8. PICK c \in Sids : c = new
    BY <2>1
  <2>9. Service!Connect(c)
    BY <2>5, <2>6, <2>7, <2>8 DEF Service!Connect, Up, Known
  <2> QED BY <2>9 DEF Service!Next
<1> QED BY <1>1, <1>2

\* What is read and what is left to read are what was sent.
LEMMA AcceptInputUnseen ==
  ASSUME IInv, NEW s \in Sids, NEW n, ses_accept_input(s, n)
  PROVE  UNCHANGED Service!vars
<1>1. n \in 0 .. Len(ses[s].wire)
  BY BlocksUnfold, LenProperties DEF ses_accept_input
<1>2. ses[s].state # "NONE"
  BY SidsFacts DEF IInv, Turns, ses_accept_input
<1>3. /\ ses' = [ses EXCEPT ![s] = Read(s, n)] /\ Read(s, n).state = ses[s].state
      /\ Read(s, n).msgQ \o Read(s, n).wire = ses[s].msgQ \o ses[s].wire
  BY <1>1, <1>2, ReadFacts DEF ses_accept_input
<1>4. ses'[s] = Read(s, n) /\ \A t \in Sids \ {s} : ses'[t] = ses[t]
  BY <1>3, BlocksUnfold
<1>5. \A t \in Sids \ {s} : requests'[t] = requests[t]
  BY <1>4 DEF requests
<1>6. requests'[s] = requests[s]
  BY <1>3, <1>4 DEF requests
<1>7. \A t \in Sids : ses'[t].state = ses[t].state /\ requests'[t] = requests[t]
  BY <1>3, <1>4, <1>5, <1>6
<1> QED BY <1>7, Unseen

LEMMA FreeSessionRefines ==
  ASSUME IInv, NEW K \in SUBSET live, agt_ses_free_session(K)
  PROVE  Service!Next
<1>1. (\A s \in K : ses'[s] = Free) /\ \A s \in Sids \ K : ses'[s] = ses[s]
  BY FreeSessionFacts
<1> QED BY <1>1, CutOffRefines

LEMMA AcceptBadFrameRefines ==
  ASSUME IInv, NEW s \in Sids, NEW n, accept_bad_frame(s, n)
  PROVE  Service!Next \/ UNCHANGED Service!vars
<1>1. n \in 0 .. Len(ses[s].wire) /\ ses[s].state # "NONE"
  BY BlocksUnfold, LenProperties, SidsFacts DEF accept_bad_frame, IInv, Turns
<1>2. {s} \in SUBSET live
  BY <1>1 DEF live
<1>3. CASE ses[s].state = "HELLO_WAIT"
  <2>1. PICK w \in BOOLEAN :
          ses' = [after_read(s, n) EXCEPT ![s].state = "SHUTDOWN_REQ", ![s].watched = w]
    BY <1>3 DEF accept_bad_frame
  <2>2. /\ [after_read(s, n) EXCEPT ![s].state = "SHUTDOWN_REQ", ![s].watched = w]
             = [ses EXCEPT ![s] = ShutDown(s, n, w)]
        /\ ShutDown(s, n, w).state = "SHUTDOWN_REQ"
    BY <1>1, ShutDownFacts
  <2>3. ses' = [ses EXCEPT ![s] = ShutDown(s, n, w)]
    BY <2>1, <2>2, Zenon
  <2>4. ses'[s].state = "SHUTDOWN_REQ" /\ \A t \in Sids \ {s} : ses'[t] = ses[t]
    BY <2>2, <2>3, BlocksUnfold
  <2>5. PICK K \in SUBSET live : K = {s}
    BY <1>2
  <2>6. /\ \A t \in K : ses'[t] = Free \/ ses'[t].state = "SHUTDOWN_REQ"
        /\ \A t \in Sids \ K : ses'[t] = ses[t]
    BY <2>4, <2>5
  <2> QED BY <2>6, CutOffRefines
<1>4. CASE ses[s].state # "HELLO_WAIT"
  BY <1>4, <1>2, FreeSessionRefines, UnchangedUnseen DEF accept_bad_frame, Undefined
<1> QED BY <1>3, <1>4

\* s is served and goes on, the sessions of K are killed.
LEMMA GoesOnRefines ==
  ASSUME IInv, NEW s, NEW m, dispatched(s, m), NEW to \in {"HELLO_WAIT", "IDLE"},
         NEW K \in SUBSET (live \ {s}), \A t \in K : ~ses[t].inq,
         NEW f, f = [t \in Sids |-> IF t \in K THEN Free ELSE ses[t]],
         goes_on(f, s, to),
         K # {} => m = "kill",
         \/ m = "connect" /\ ses[s].state = "INIT" /\ to = "HELLO_WAIT"
         \/ m = "hello" /\ ses[s].state = "HELLO_WAIT" /\ to = "IDLE"
         \/ m \in {"rpc", "kill"} /\ ses[s].state = "IDLE" /\ to = "IDLE"
  PROVE  Service!Next
<1>1. /\ ses[s].msgQ # <<>> /\ m = Head(ses[s].msgQ) /\ ses[s].state # "SHUTDOWN_REQ"
      /\ K \subseteq Sids /\ s \notin K
  BY DEF dispatched, live
<1>2. /\ s \in Sids /\ ses'[s] = Served(s, to)
      /\ \A t \in K : ses'[t] = Free
      /\ \A t \in Sids \ (K \cup {s}) : ses'[t] = ses[t]
      /\ live' = live \ K
  BY GoesOn
<1>3. /\ ses'[s].state = to /\ ses'[s].wire = ses[s].wire
      /\ ses'[s].msgQ = Tail(ses[s].msgQ)
  BY <1>1, <1>2, ServedFacts
<1>4. /\ ses[s].msgQ \o ses[s].wire # <<>>
      /\ Head(ses[s].msgQ \o ses[s].wire) = m
      /\ Tail(ses[s].msgQ \o ses[s].wire) = Tail(ses[s].msgQ) \o ses[s].wire
  BY <1>1, <1>2, BlocksUnfold, FirstRequest
<1>5. requests[s] # <<>> /\ Head(requests[s]) = m /\ requests'[s] = Tail(requests[s])
  BY <1>1, <1>2, <1>3, <1>4 DEF requests
<1>6. requests' = [d \in Sids |-> IF d \in K \cap Up THEN <<>>
                                  ELSE IF d = s THEN Tail(requests[s]) ELSE requests[d]]
  BY <1>1, <1>2, FreeHasNoRequests, <1>5, Zenon DEF requests, Up, live
<1>7. ses[s].state \notin {"NONE", "SHUTDOWN_REQ"} /\ s \in Up
  BY <1>1, <1>2 DEF Up, live
<1>8. Up' = Up \ (K \cap Up)
  BY <1>1, <1>2, <1>3, <1>7, FreeIsScb DEF Up, live
<1>9. Known' = IF to = "IDLE" THEN (Known \ (K \cap Up)) \cup {s}
            ELSE (Known \ (K \cap Up)) \ {s}
  BY <1>1, <1>2, <1>3, <1>7, FreeIsScb DEF Up, Known, live
<1>10. K \cap Up \subseteq Up \ {s} /\ (K \cap Up # {} => Head(requests[s]) = "kill")
  BY <1>1, <1>5
<1>11. (CASE Head(requests[s]) = "connect" -> s \notin Known /\ Known' = Known
          [] Head(requests[s]) = "hello" -> s \notin Known /\ Known' = Known \cup {s}
          [] OTHER -> s \in Known /\ Known' = Known \ (K \cap Up))
  <2>1. CASE m = "connect" /\ ses[s].state = "INIT" /\ to = "HELLO_WAIT"
    BY <2>1, <1>5, <1>9 DEF Known
  <2>2. CASE m = "hello" /\ ses[s].state = "HELLO_WAIT" /\ to = "IDLE"
    BY <2>2, <1>5, <1>9 DEF Known
  <2>3. CASE m \in {"rpc", "kill"} /\ ses[s].state = "IDLE" /\ to = "IDLE"
    BY <1>2, <2>3, <1>1, <1>5, <1>9 DEF Known
  <2> QED BY <2>1, <2>2, <2>3
<1>12. PICK k \in SUBSET Sids : k = K \cap Up
  BY <1>1
<1>13. /\ k \subseteq Up \ {s} /\ (k # {} => Head(requests[s]) = "kill")
       /\ Up' = Up \ k
       /\ requests' = [d \in Sids |-> IF d \in k THEN <<>>
                                      ELSE IF d = s THEN Tail(requests[s]) ELSE requests[d]]
  BY <1>6, <1>8, <1>10, <1>12
<1>14. (CASE Head(requests[s]) = "connect" -> s \notin Known /\ Known' = Known
          [] Head(requests[s]) = "hello" -> s \notin Known /\ Known' = Known \cup {s}
          [] OTHER -> s \in Known /\ Known' = Known \ k)
  BY <1>11, <1>12
<1>15. Service!Serve(s, k)
  BY <1>5, <1>13, <1>14 DEF Service!Serve, Up, Known
<1> QED BY <1>2, <1>15 DEF Service!Next

LEMMA GoesOnAloneRefines ==
  ASSUME IInv, NEW s, NEW m, dispatched(s, m), NEW to \in {"HELLO_WAIT", "IDLE"},
         goes_on(ses, s, to),
         \/ m = "connect" /\ ses[s].state = "INIT" /\ to = "HELLO_WAIT"
         \/ m = "hello" /\ ses[s].state = "HELLO_WAIT" /\ to = "IDLE"
         \/ m = "rpc" /\ ses[s].state = "IDLE" /\ to = "IDLE"
  PROVE  Service!Next
<1>1. ses = [t \in Sids |-> IF t \in {} THEN Free ELSE ses[t]]
  BY DEF IInv, Blocks
<1> QED BY <1>1, GoesOnRefines

LEMMA EndsRefines ==
  ASSUME IInv, NEW s, NEW m, dispatched(s, m), agt_top_ends(s)
  PROVE  Service!Next
<1>1. {s} \in SUBSET live /\ agt_ses_free_session({s})
  BY HeadOfQueue DEF dispatched, agt_top_ends, live
<1> QED BY <1>1, FreeSessionRefines

LEMMA RefusedRefines ==
  ASSUME IInv, NEW s, NEW m, dispatched(s, m), dispatch_refused(s)
  PROVE  Service!Next \/ UNCHANGED Service!vars
  BY EndsRefines, UnchangedUnseen DEF dispatch_refused, Undefined

LEMMA KillRefines ==
  ASSUME IInv, NEW s \in Sids, NEW targets \in SUBSET Sids, kill_session_invoke(s, targets)
  PROVE  Service!Next \/ UNCHANGED Service!vars
<1>1. dispatched(s, "kill") /\ targets \in SUBSET (live \ {s})
  BY DEF kill_session_invoke
<1>2. CASE ses[s].state # "IDLE"
  BY <1>1, <1>2, RefusedRefines DEF kill_session_invoke
<1>3. CASE ses[s].state = "IDLE" /\ unmake_inready_breaks(ses, targets)
  BY <1>3, UnchangedUnseen DEF kill_session_invoke, Undefined
<1>4. CASE ses[s].state = "IDLE" /\ ~unmake_inready_breaks(ses, targets)
  <2> DEFINE rest == [t \in Sids |-> IF t \in targets THEN Free ELSE ses[t]]
  <2>1. goes_on(rest, s, "IDLE")
    BY <1>4 DEF kill_session_invoke
  <2>2. \A t \in targets : ~ses[t].inq
    BY <1>4 DEF unmake_inready_breaks
  <2> HIDE DEF rest
  <2>3. rest = [t \in Sids |-> IF t \in targets THEN Free ELSE ses[t]]
    BY DEF rest
  <2> QED BY <1>1, <1>4, <2>1, <2>2, <2>3, GoesOnRefines
<1> QED BY <1>2, <1>3, <1>4

LEMMA DropInputUnseen ==
  ASSUME IInv, NEW s \in Sids, drop_input(s)
  PROVE  UNCHANGED Service!vars
<1>1. ses' = [ses EXCEPT ![s] = [ses[s] EXCEPT !.inq = FALSE]]
  BY BlocksUnfold DEF drop_input
<1>2. /\ ses'[s].state = ses[s].state /\ ses'[s].msgQ = ses[s].msgQ
      /\ ses'[s].wire = ses[s].wire
      /\ \A t \in Sids \ {s} : ses'[t] = ses[t]
  BY <1>1 DEF IInv, Blocks, Scb
<1>3. \A t \in Sids : ses'[t].state = ses[t].state /\ requests'[t] = requests[t]
  BY <1>2 DEF requests
<1> QED BY <1>3, Unseen

LEMMA DrainRefines ==
  ASSUME IInv, NEW s \in Sids, agt_ses_process_first_ready(s)
  PROVE  Service!Next \/ UNCHANGED Service!vars
<1>1. ASSUME NEW m \in Messages, agt_connect_dispatch(s, m)
      PROVE  Service!Next \/ UNCHANGED Service!vars
  BY <1>1, GoesOnAloneRefines, EndsRefines, RefusedRefines DEF agt_connect_dispatch
<1>2. ASSUME NEW m \in Messages, agt_hello_dispatch(s, m)
      PROVE  Service!Next \/ UNCHANGED Service!vars
  BY <1>2, GoesOnAloneRefines, RefusedRefines DEF agt_hello_dispatch
<1>3. CASE agt_rpc_dispatch(s)
  BY <1>3, GoesOnAloneRefines, RefusedRefines DEF agt_rpc_dispatch
<1>4. CASE close_session_invoke(s)
  BY <1>4, EndsRefines, RefusedRefines DEF close_session_invoke
<1>5. CASE \E targets \in SUBSET Sids : kill_session_invoke(s, targets)
  BY <1>5, KillRefines
<1>6. CASE agt_top_dispatch_msg(s)
  BY <1>6, EndsRefines DEF agt_top_dispatch_msg
<1>7. CASE drop_input(s)
  BY <1>7, DropInputUnseen
<1> QED BY <1>1, <1>2, <1>3, <1>4, <1>5, <1>6, <1>7 DEF agt_ses_process_first_ready

LEMMA InitRefines == Init => Service!Init
<1> SUFFICES ASSUME Init PROVE Service!Init
  OBVIOUS
<1>1. Up = {} /\ Known = {}
  BY FreeIsScb DEF Init, Up, Known, live
<1>2. requests = [c \in Sids |-> <<>>]
  BY FreeHasNoRequests DEF Init, requests
<1> QED BY <1>1, <1>2 DEF Service!Init, Up, Known

\* The loop keeps the promise of SessionService: whatever is interleaved, the
\* messages of a client are served in the order they were sent, none twice, and
\* rpcs only after the hello; a client that is cut off is served no more.
THEOREM LoopImplementsService == Spec => ImplementsService
<1>1. IInv /\ [Next]_vars => [Service!Next]_(Service!vars)
  <2> SUFFICES ASSUME IInv, [Next]_vars PROVE Service!Next \/ UNCHANGED Service!vars
    OBVIOUS
  <2>1. CASE Clients
    BY <2>1, ClientsRefine
  <2>2. CASE agt_ncxserver_run
    <3>1. ASSUME NEW listener \in SUBSET {0}, select(listener)
          PROVE  UNCHANGED Service!vars
      BY <3>1, UnchangedUnseen DEF select
    <3>2. CASE agt_ses_check_timeouts
      BY <3>2, FreeSessionRefines DEF agt_ses_check_timeouts, timed
    <3>3. ASSUME NEW rewatched \in SUBSET Sids, agt_ses_new_session(rewatched)
          PROVE  Service!Next \/ UNCHANGED Service!vars
      BY <3>3, NewSessionRefines
    <3>4. ASSUME NEW s \in Sids, accept_end(s)
          PROVE  Service!Next
      BY <3>4, SidsFacts, FreeSessionRefines DEF accept_end, IInv, Turns, live
    <3>5. CASE serviced \/ drained
      BY <3>5, UnchangedUnseen DEF serviced, drained
    <3> QED
      BY <2>2, <3>1, <3>2, <3>3, <3>4, <3>5, AcceptInputUnseen, AcceptBadFrameRefines,
         DrainRefines DEF agt_ncxserver_run
  <2>3. CASE UNCHANGED vars
    BY <2>3, UnchangedUnseen DEF vars
  <2> QED BY <2>1, <2>2, <2>3 DEF Next
<1> QED BY InitRefines, <1>1, SpecIInv, PTL DEF Spec, ImplementsService, Service!Spec

-----------------------------------------------------------------------------
(***************************************************************************)
(* SesInput.  A session's bytes are read as a sequence of framed documents *)
(* (Flow) of which the parser has taken a part (Place), or as the chunk    *)
(* grammar with an error at its end (Bad); the queue of messages holds the *)
(* documents read and the beginning of the next (Holds, Tracks).  InputInv *)
(* says how the three go together.                                         *)
(***************************************************************************)

-----------------------------------------------------------------------------
(* Sequences and numbers *)

Bytes == Seq(Byte)

\* s and one element more
With(s, e) == Append(s, e)

\* The two parts of a concatenation.
LEMMA Parts ==
  ASSUME NEW S, NEW u \in Seq(S), NEW v \in Seq(S)
  PROVE  /\ u \o v \in Seq(S)
         /\ Len(u \o v) = Len(u) + Len(v)
         /\ SubSeq(u \o v, 1, Len(u)) = u
         /\ SubSeq(u \o v, Len(u) + 1, Len(u \o v)) = v
<1>1. /\ u \o v \in Seq(S) /\ Len(u \o v) = Len(u) + Len(v)
      /\ \A i \in 1..Len(u) + Len(v) : (u \o v)[i] = IF i <= Len(u) THEN u[i] ELSE v[i - Len(u)]
  BY ConcatProperties
<1>2. Len(u) \in Nat /\ Len(v) \in Nat
  BY LenProperties
<1>3. SubSeq(u \o v, 1, Len(u)) = u
  BY <1>1, <1>2, ElementOfSeq, SubSeqProperties, SeqEqual
<1>4. SubSeq(u \o v, Len(u) + 1, Len(u \o v)) = v
  <2> DEFINE w == SubSeq(u \o v, Len(u) + 1, Len(u \o v))
  <2>1. \A i \in Len(u) + 1..Len(u) + Len(v) : (u \o v)[i] \in S /\ (u \o v)[i] = v[i - Len(u)]
    <3> SUFFICES ASSUME NEW i \in Len(u) + 1..Len(u) + Len(v)
                 PROVE  (u \o v)[i] \in S /\ (u \o v)[i] = v[i - Len(u)]
      OBVIOUS
    <3>1. i \in 1..Len(u) + Len(v) /\ ~(i <= Len(u)) /\ i - Len(u) \in 1..Len(v)
      BY <1>2
    <3> QED BY <3>1, <1>1, ElementOfSeq
  <2>2. /\ w \in Seq(S)
        /\ Len(w) = IF Len(u) + 1 <= Len(u) + Len(v) THEN Len(u) + Len(v) - (Len(u) + 1) + 1 ELSE 0
        /\ \A i \in 1..Len(u) + Len(v) - (Len(u) + 1) + 1 : w[i] = (u \o v)[Len(u) + 1 + i - 1]
    BY <1>1, <1>2, <2>1, SubSeqProperties
  <2>3. Len(w) = Len(v)
    BY <1>2, <2>2
  <2>4. ASSUME NEW i \in 1..Len(w) PROVE w[i] = v[i]
    BY <1>2, <2>3, <2>1, <2>2
  <2> HIDE DEF w
  <2>5. w = v
    BY <2>2, <2>3, <2>4, SeqEqual
  <2> QED BY <2>5 DEF w
<1> QED BY <1>1, <1>3, <1>4

\* A sequence cut after n elements.
LEMMA Split ==
  ASSUME NEW S, NEW s \in Seq(S), NEW n \in 0..Len(s)
  PROVE  /\ SubSeq(s, 1, n) \in Seq(S) /\ Len(SubSeq(s, 1, n)) = n
         /\ SubSeq(s, n + 1, Len(s)) \in Seq(S) /\ Len(SubSeq(s, n + 1, Len(s))) = Len(s) - n
         /\ s = SubSeq(s, 1, n) \o SubSeq(s, n + 1, Len(s))
<1>1. Len(s) \in Nat /\ \A i \in 1..Len(s) : s[i] \in S
  BY LenProperties, ElementOfSeq
<1>2. SubSeq(s, 1, n) \o SubSeq(s, n + 1, Len(s)) = SubSeq(s, 1, Len(s))
  <2>1. 1 \in 1..Len(s) + 1 /\ n \in 1 - 1..Len(s) /\ Len(s) \in n..Len(s)
    BY <1>1
  <2> QED BY <2>1, ConcatAdjacentSubSeq
<1>3. SubSeq(s, 1, Len(s)) = s
  BY SubSeqFull
<1>4. SubSeq(s, 1, n) \in Seq(S) /\ Len(SubSeq(s, 1, n)) = n
  BY <1>1, SubSeqProperties
<1>5. SubSeq(s, n + 1, Len(s)) \in Seq(S) /\ Len(SubSeq(s, n + 1, Len(s))) = Len(s) - n
  BY <1>1, SubSeqProperties
<1> QED BY <1>2, <1>3, <1>4, <1>5

\* A sequence that begins with c.
LEMMA ConsIs ==
  ASSUME NEW S, NEW c \in S, NEW r \in Seq(S), NEW s, s = <<c>> \o r
  PROVE  /\ s \in Seq(S) /\ s # <<>> /\ Len(s) = Len(r) + 1
         /\ Head(s) = c /\ s[1] = c /\ SubSeq(s, 2, Len(s)) = r /\ Tail(s) = r
<1>1. <<c>> \in Seq(S) /\ Len(<<c>>) = 1 /\ <<c>>[1] = c
  OBVIOUS
<1>2. s \in Seq(S) /\ Len(s) = 1 + Len(r) /\ SubSeq(s, 1 + 1, Len(s)) = r
  BY <1>1, Parts
<1>3. Len(r) \in Nat
  BY LenProperties
<1>4. s[1] = c
  BY <1>1, <1>3, ConcatProperties
<1>5. s # <<>>
  BY <1>2, <1>3, EmptySeq
<1>6. Head(s) = s[1]
  OBVIOUS
<1>7. Tail(s) = SubSeq(s, 2, Len(s))
  BY <1>2, <1>5, TailIsSubSeq
<1>8. 1 + 1 = 2
  OBVIOUS
<1> QED BY <1>2, <1>3, <1>4, <1>5, <1>6, <1>7, <1>8

LEMMA Uncons ==
  ASSUME NEW S, NEW s \in Seq(S), s # <<>>
  PROVE  /\ Head(s) \in S /\ Tail(s) \in Seq(S) /\ s = <<Head(s)>> \o Tail(s)
         /\ Tail(s) = SubSeq(s, 2, Len(s)) /\ Len(s) = Len(Tail(s)) + 1 /\ Head(s) = s[1]
<1>1. Len(s) \in Nat \ {0}
  BY EmptySeq
<1>2. Head(s) \in S /\ Tail(s) \in Seq(S) /\ Tail(s) = SubSeq(s, 2, Len(s)) /\ Len(Tail(s)) = Len(s) - 1
  BY HeadTailProperties, TailIsSubSeq
<1>3. s = <<s[1]>> \o SubSeq(s, 2, Len(s))
  BY <1>1, SubSeqRecursiveFirst, SubSeqFull
<1>4. Head(s) = s[1]
  OBVIOUS
<1> QED BY <1>1, <1>2, <1>3, <1>4

\* A sequence that is not empty, and its last element.
LEMMA Unsnoc ==
  ASSUME NEW S, NEW s \in Seq(S), s # <<>>
  PROVE  /\ Last(s) \in S /\ Front(s) \in Seq(S) /\ Len(Front(s)) = Len(s) - 1
         /\ s = With(Front(s), Last(s)) /\ Len(s) \in Nat \ {0}
<1>1. Len(s) \in Nat \ {0}
  BY EmptySeq
<1>2. Last(s) \in S
  BY <1>1, ElementOfSeq DEF Last
<1>3. Len(s) - 1 \in 0..Len(s) /\ Len(s) - 1 + 1 = Len(s) /\ 1 \in 1..Len(s) /\ Len(s) \in 1..Len(s)
  BY <1>1
<1>4. Front(s) \in Seq(S) /\ Len(Front(s)) = Len(s) - 1
  BY <1>3, Split DEF Front
<1>5. SubSeq(s, 1, Len(s)) = SubSeq(s, 1, Len(s) - 1) \o <<s[Len(s)]>>
  BY <1>3, SubSeqRecursiveSecond
<1>6. s = Front(s) \o <<Last(s)>>
  BY <1>5, SubSeqFull DEF Front, Last
<1>7. Append(Front(s), Last(s)) = Front(s) \o <<Last(s)>>
  BY <1>2, <1>4, AppendIsConcat
<1> QED BY <1>1, <1>2, <1>4, <1>6, <1>7 DEF With

LEMMA Snoc1 ==
  ASSUME NEW S, NEW r \in Seq(S), NEW c \in S, NEW s, s = With(r, c)
  PROVE  /\ s \in Seq(S) /\ s # <<>> /\ Len(s) = Len(r) + 1 /\ Last(s) = c /\ Front(s) = r
<1>1. s \in Seq(S) /\ s # <<>> /\ Len(s) = Len(r) + 1 /\ s[Len(r) + 1] = c
  BY AppendProperties DEF With
<1>2. Len(r) \in Nat
  BY LenProperties
<1>3. s = r \o <<c>> /\ <<c>> \in Seq(S)
  BY AppendIsConcat DEF With
<1>4. SubSeq(s, 1, Len(r)) = r
  BY <1>3, Parts
<1>5. Len(s) - 1 = Len(r)
  BY <1>1, <1>2
<1> QED BY <1>1, <1>4, <1>5 DEF Last, Front

\* A set of natural numbers that is not empty has a least element.
LEMMA LeastExists ==
  ASSUME NEW S \in SUBSET Nat, S # {}
  PROVE  \E x \in S : \A y \in S : x <= y
<1>1. PICK x \in S : \A y \in S : <<y, x>> \notin Less
  BY LessIsWellFounded, WFMin
<1>2. ASSUME NEW y \in S PROVE x <= y
  <2>1. <<y, x>> \notin Less
    BY <1>1, Zenon
  <2>2. ~(y < x)
    BY <2>1, SMT DEF Less
  <2> QED BY <2>2
<1> QED BY <1>2

\* The Max of a set of numbers is its greatest element.
LEMMA MaxIs ==
  ASSUME NEW S \in SUBSET Nat, NEW m \in S, \A y \in S : m >= y
  PROVE  Max(S) = m
<1>1. Max(S) \in S /\ \A y \in S : Max(S) >= y
  BY Zenon DEF Max
<1>2. Max(S) >= m /\ m >= Max(S) /\ m \in Nat /\ Max(S) \in Nat
  BY <1>1, Zenon
<1> QED BY <1>2, SMT

\* The numbers up to n, when they follow from each other.
LEMMA Induction ==
  ASSUME NEW n \in Nat, NEW T, 0 \in T, \A k \in 1..n : k - 1 \in T => k \in T
  PROVE  n \in T
<1> DEFINE Bad == {k \in 0..n : k \notin T}
<1>1. SUFFICES ASSUME Bad # {} PROVE FALSE
  OBVIOUS
<1>2. Bad \in SUBSET Nat
  OBVIOUS
<1>3. PICK k \in Bad : \A y \in Bad : k <= y
  BY <1>1, <1>2, LeastExists
<1>4. k \in 1..n /\ k - 1 \in 0..n /\ ~(k <= k - 1)
  BY <1>3
<1>5. k - 1 \in T
  BY <1>3, <1>4
<1> QED BY <1>3, <1>4, <1>5

-----------------------------------------------------------------------------
(* Concatenations of several sequences *)

\* The function by which FlattenSeq is defined.
IsFlat(f, ss, n) == f = [i \in 1..n |-> IF i = 1 THEN ss[i] ELSE f[i-1] \o ss[i]]

LEMMA FlatExists ==
  ASSUME NEW ss, NEW n \in Nat
  PROVE  \E f : IsFlat(f, ss, n)
<1> DEFINE T == {k \in 0..n : \E f : IsFlat(f, ss, k)}
<1>1. 0 \in T
  <2> DEFINE f == [i \in 1..0 |-> <<>>]
  <2>1. 1..0 = {}
    OBVIOUS
  <2>2. IsFlat(f, ss, 0)
    BY <2>1 DEF IsFlat
  <2> QED BY <2>2
<1>2. ASSUME NEW k \in 1..n, k - 1 \in T PROVE k \in T
  <2>1. PICK f : IsFlat(f, ss, k - 1)
    BY <1>2
  <2> DEFINE g == [i \in 1..k |-> IF i = k THEN (IF i = 1 THEN ss[i] ELSE f[i-1] \o ss[i]) ELSE f[i]]
  <2>2. \A i \in 1..k-1 : f[i] = IF i = 1 THEN ss[i] ELSE f[i-1] \o ss[i]
    BY <2>1 DEF IsFlat
  <2>3. ASSUME NEW i \in 1..k PROVE g[i] = IF i = 1 THEN ss[i] ELSE g[i-1] \o ss[i]
    <3>1. CASE i = k
      BY <3>1
    <3>2. CASE i # k
      BY <3>2, <2>2
    <3> QED BY <3>1, <3>2
  <2>4. g = [i \in 1..k |-> IF i = 1 THEN ss[i] ELSE g[i-1] \o ss[i]]
    BY <2>3
  <2>5. IsFlat(g, ss, k)
    BY <2>4 DEF IsFlat
  <2>6. k \in 0..n
    OBVIOUS
  <2> QED BY <2>5, <2>6
<1> HIDE DEF T
<1>3. n \in T
  BY <1>1, <1>2, Induction
<1> QED BY <1>3 DEF T

LEMMA FlatStep ==
  ASSUME NEW ss, NEW f, NEW n \in Nat, IsFlat(f, ss, n), NEW k \in 1..n
  PROVE  f[k] = IF k = 1 THEN ss[k] ELSE f[k-1] \o ss[k]
  BY DEF IsFlat

\* It only depends on the sequences it has taken.
LEMMA FlatAgree ==
  ASSUME NEW ss, NEW ts, NEW f, NEW g, NEW n \in Nat, NEW m \in Nat, n <= m,
         IsFlat(f, ss, n), IsFlat(g, ts, m), \A i \in 1..n : ss[i] = ts[i]
  PROVE  \A i \in 1..n : f[i] = g[i]
<1> DEFINE T == {k \in 0..n : \A i \in 1..k : f[i] = g[i]}
<1>1. 0 \in T
  OBVIOUS
<1>2. ASSUME NEW k \in 1..n, k - 1 \in T PROVE k \in T
  <2>1. \A i \in 1..k-1 : f[i] = g[i]
    BY <1>2
  <2>2. k \in 1..n /\ k \in 1..m /\ k \in 0..n /\ (k # 1 => k - 1 \in 1..k-1)
    OBVIOUS
  <2>3. f[k] = IF k = 1 THEN ss[k] ELSE f[k-1] \o ss[k]
    BY <2>2 DEF IsFlat
  <2>4. g[k] = IF k = 1 THEN ts[k] ELSE g[k-1] \o ts[k]
    BY <2>2 DEF IsFlat
  <2>5. f[k] = g[k]
    BY <2>1, <2>2, <2>3, <2>4
  <2>6. \A i \in 1..k : i \in 1..k-1 \/ i = k
    OBVIOUS
  <2> QED BY <2>1, <2>2, <2>5, <2>6
<1> HIDE DEF T
<1>3. n \in T
  BY <1>1, <1>2, Induction
<1> QED BY <1>3 DEF T

LEMMA FlatIs ==
  ASSUME NEW ss, NEW n \in Nat, n # 0, Len(ss) = n
  PROVE  \E f : IsFlat(f, ss, n) /\ FlattenSeq(ss) = f[n]
<1> DEFINE f == CHOOSE f : f = [i \in 1..Len(ss) |-> IF i = 1 THEN ss[i] ELSE f[i-1] \o ss[i]]
<1>1. FlattenSeq(ss) = f[Len(ss)]
  BY DEF FlattenSeq
<1>2. \A h : IsFlat(h, ss, n) <=> h = [i \in 1..Len(ss) |-> IF i = 1 THEN ss[i] ELSE h[i-1] \o ss[i]]
  BY DEF IsFlat
<1>3. IsFlat(f, ss, n)
  BY <1>2, FlatExists
<1> QED BY <1>1, <1>3

LEMMA FlatEmpty == FlattenSeq(<<>>) = <<>>
  BY DEF FlattenSeq

LEMMA FlatType ==
  ASSUME NEW ss \in Seq(Bytes)
  PROVE  FlattenSeq(ss) \in Bytes
<1>1. Len(ss) \in Nat
  BY LenProperties
<1>2. CASE Len(ss) = 0
  BY <1>2, EmptySeq DEF FlattenSeq, Bytes
<1>3. CASE Len(ss) # 0
  <2>1. PICK f : IsFlat(f, ss, Len(ss)) /\ FlattenSeq(ss) = f[Len(ss)]
    BY <1>1, <1>3, FlatIs
  <2> DEFINE n == Len(ss)
             T == {k \in 0..n : k = 0 \/ f[k] \in Bytes}
  <2>2. 0 \in T
    BY <1>1
  <2>3. ASSUME NEW k \in 1..n, k - 1 \in T PROVE k \in T
    <3>1. k \in 0..n /\ (k # 1 => k - 1 # 0)
      BY <1>1
    <3>2. ss[k] \in Bytes
      BY ElementOfSeq
    <3>3. f[k] = IF k = 1 THEN ss[k] ELSE f[k-1] \o ss[k]
      BY <2>1 DEF IsFlat
    <3>4. k # 1 => f[k-1] \o ss[k] \in Bytes
      BY <2>3, <3>1, <3>2, ConcatProperties DEF Bytes
    <3> QED BY <3>1, <3>2, <3>3, <3>4
  <2> HIDE DEF T
  <2>4. n \in T
    BY <1>1, <2>2, <2>3, Induction
  <2> QED BY <1>3, <2>1, <2>4 DEF T
<1> QED BY <1>2, <1>3

LEMMA FlatSnoc ==
  ASSUME NEW ss \in Seq(Bytes), NEW x \in Bytes
  PROVE  FlattenSeq(Append(ss, x)) = FlattenSeq(ss) \o x
<1> DEFINE ts == Append(ss, x)
           n == Len(ss)
<1>1. n \in Nat
  BY LenProperties
<1>2. Len(ts) = n + 1 /\ (\A i \in 1..n : ts[i] = ss[i]) /\ ts[n + 1] = x /\ n + 1 \in Nat /\ n + 1 # 0
  BY <1>1, AppendProperties
<1> HIDE DEF ts
<1>3. PICK g : IsFlat(g, ts, n + 1) /\ FlattenSeq(ts) = g[n + 1]
  BY <1>2, FlatIs
<1>4. g[n + 1] = IF n + 1 = 1 THEN x ELSE g[n] \o x
  BY <1>1, <1>3, FlatStep, <1>2
<1>5. CASE n = 0
  BY <1>5, EmptySeq, FlatEmpty, ConcatEmptySeq, <1>3, <1>4 DEF Bytes, ts
<1>6. CASE n # 0
  <2>1. PICK f : IsFlat(f, ss, n) /\ FlattenSeq(ss) = f[n]
    BY <1>1, <1>6, FlatIs
  <2>2. \A i \in 1..n : f[i] = g[i]
    BY <1>1, <1>2, <1>3, <2>1, FlatAgree
  <2>3. f[n] = g[n] /\ n + 1 # 1
    BY <1>1, <1>6, <2>2
  <2> QED BY <1>3, <1>4, <2>1, <2>3 DEF ts
<1> QED BY <1>5, <1>6

-----------------------------------------------------------------------------
(* Buffers and messages *)

\* A buffer that was settled when it was full, the one that is being filled, and
\* any buffer of a message.
FullBuffer == {b \in Buffer : Len(b.data) = SES_MSG_BUFFSIZE /\ b.bufflen = SES_MSG_BUFFSIZE}
OpenBuffer == {b \in Buffer : Len(b.data) = b.buffpos /\ b.bufflen <= b.buffpos}
HeldBuffer == {b \in Buffer : Len(b.data) <= SES_MSG_BUFFSIZE /\ b.bufflen <= Len(b.data)}

\* The text of some buffers.
Text(bq) == FlattenSeq([j \in DOMAIN bq |-> SubSeq(bq[j].data, 1, bq[j].bufflen)])

Message == [buffQ : Seq(Buffer), ready : BOOLEAN,
            expchunksize : 0..NCX_MAX_UINT, curchunksize : 0..NCX_MAX_UINT]

\* All buffers but the last are full.
Compact(bq) == \E fr \in Seq(FullBuffer) : bq = fr \/ \E d \in HeldBuffer : bq = With(fr, d)

ReadyMessage == {m \in Message : /\ m.ready /\ m.curchunksize <= m.expchunksize
                                 /\ m.buffQ \in Seq(HeldBuffer) /\ Compact(m.buffQ)}

\* a message that is not ready
NotReady == FALSE

\* Its buffers, the size of its chunk and how much of it there is.
Unfinished(bq, x, c) ==
  [buffQ |-> bq, ready |-> NotReady, expchunksize |-> x, curchunksize |-> c]

\* q is done followed by m
Adds(q, done, m) == done \in Seq(ReadyMessage) /\ m \in Message /\ q = With(done, m)

\* m holds the text h: full buffers fr and the buffer b, in which room bytes are free at least
Keeps(m, fr, b, h, room) ==
  /\ fr \in Seq(FullBuffer) /\ b \in OpenBuffer /\ m.buffQ = With(fr, b)
  /\ h = Text(fr) \o b.data /\ b.buffpos + room <= SES_MSG_BUFFSIZE

\* q ends with an unfinished message that holds h, whose chunk has x bytes, c of them there
Holds(q, done, h, x, c, room) == \E m, fr, b, bq :
  Adds(q, done, m) /\ m = Unfinished(bq, x, c) /\ Keeps(m, fr, b, h, room)

\* The size of a chunk and how much of it there is.
Sizes(x, c) == x \in 0..NCX_MAX_UINT /\ c \in 0..x

LEMMA Constants ==
  /\ SES_MSG_BUFFSIZE \in Nat /\ SES_MSG_BUFFSIZE >= 6 /\ NCX_MAX_UINT \in Nat
  /\ NC_SSH_END_LEN = 6 /\ NC_SSH_END = <<93, 93, 62, 93, 93, 62>>
  /\ SES_MAX_STARTCHUNK_SIZE \in Nat /\ SES_MAX_STARTCHUNK_SIZE >= 5
<1>1. NC_SSH_END_LEN = 6
  BY DEF NC_SSH_END_LEN, NC_SSH_END
<1>2. SES_MSG_BUFFSIZE \in Nat
  BY OutputAssumption
<1>3. /\ NCX_MAX_UINT \in Nat /\ SES_MAX_STARTCHUNK_SIZE \in Nat
      /\ SES_MSG_BUFFSIZE >= NC_SSH_END_LEN /\ NC_SSH_END_LEN - 1 <= SES_MAX_STARTCHUNK_SIZE
  BY InputAssumption
<1> QED BY <1>1, <1>2, <1>3 DEF NC_SSH_END

LEMMA BufferKinds ==
  /\ FullBuffer \subseteq Buffer /\ OpenBuffer \subseteq Buffer /\ HeldBuffer \subseteq Buffer
  /\ FullBuffer \subseteq HeldBuffer /\ OpenBuffer \subseteq HeldBuffer
<1>1. ASSUME NEW b \in FullBuffer PROVE b \in HeldBuffer
  BY <1>1, Constants DEF FullBuffer, HeldBuffer
<1>2. ASSUME NEW b \in OpenBuffer PROVE b \in HeldBuffer
  BY <1>2, Constants DEF OpenBuffer, HeldBuffer, Buffer
<1>3. FullBuffer \subseteq Buffer /\ OpenBuffer \subseteq Buffer /\ HeldBuffer \subseteq Buffer
  BY DEF FullBuffer, OpenBuffer, HeldBuffer
<1> QED BY <1>1, <1>2, <1>3

\* A buffer is its three fields.
LEMMA BufferFields ==
  ASSUME NEW b \in Buffer
  PROVE  /\ b = [data |-> b.data, buffpos |-> b.buffpos, bufflen |-> b.bufflen]
         /\ b.data \in Bytes /\ Len(b.data) \in Nat
         /\ b.buffpos \in 0..SES_MSG_BUFFSIZE /\ b.bufflen \in 0..SES_MSG_BUFFSIZE
<1>1. /\ b = [data |-> b.data, buffpos |-> b.buffpos, bufflen |-> b.bufflen]
      /\ b.data \in Bytes /\ b.buffpos \in 0..SES_MSG_BUFFSIZE /\ b.bufflen \in 0..SES_MSG_BUFFSIZE
  BY DEF Buffer, Bytes
<1> QED BY <1>1, LenProperties DEF Bytes

LEMMA BufferIs ==
  ASSUME NEW d \in Bytes, NEW p \in 0..SES_MSG_BUFFSIZE, NEW l \in 0..SES_MSG_BUFFSIZE,
         NEW b, b = [data |-> d, buffpos |-> p, bufflen |-> l]
  PROVE  b \in Buffer /\ b.data = d /\ b.buffpos = p /\ b.bufflen = l
  BY DEF Buffer, Bytes

\* What a buffer contributes to the text.
LEMMA Taken ==
  ASSUME NEW b \in HeldBuffer
  PROVE  /\ SubSeq(b.data, 1, b.bufflen) \in Bytes
         /\ Len(SubSeq(b.data, 1, b.bufflen)) = b.bufflen
         /\ b.bufflen = Len(b.data) => SubSeq(b.data, 1, b.bufflen) = b.data
<1>1. b \in Buffer /\ b.bufflen <= Len(b.data)
  BY DEF HeldBuffer
<1>2. b.data \in Seq(Byte) /\ Len(b.data) \in Nat /\ b.bufflen \in 0..Len(b.data)
  BY <1>1, BufferFields, Constants DEF Bytes
<1> QED BY <1>2, Split, SubSeqFull DEF Bytes

LEMMA TextEmpty == Text(<<>>) = <<>>
<1> DEFINE f == [j \in DOMAIN <<>> |-> SubSeq(<<>>[j].data, 1, <<>>[j].bufflen)]
<1>1. DOMAIN <<>> = {} /\ f = <<>>
  OBVIOUS
<1> QED BY <1>1, FlatEmpty DEF Text

LEMMA TextSnoc ==
  ASSUME NEW bq \in Seq(HeldBuffer), NEW b \in HeldBuffer
  PROVE  /\ Text(bq) \in Bytes
         /\ Text(With(bq, b)) = Text(bq) \o SubSeq(b.data, 1, b.bufflen)
<1> DEFINE s == [j \in DOMAIN bq |-> SubSeq(bq[j].data, 1, bq[j].bufflen)]
           x == SubSeq(b.data, 1, b.bufflen)
           cq == Append(bq, b)
           t == [j \in DOMAIN cq |-> SubSeq(cq[j].data, 1, cq[j].bufflen)]
           n == Len(bq)
<1>1. n \in Nat /\ DOMAIN bq = 1..n /\ \A j \in 1..n : bq[j] \in HeldBuffer
  BY LenProperties, ElementOfSeq
<1>2. x \in Bytes
  BY Taken
<1>3. s \in Seq(Bytes) /\ Len(s) = n
  BY <1>1, Taken
<1>4. /\ cq \in Seq(HeldBuffer) /\ Len(cq) = n + 1 /\ cq[n + 1] = b
      /\ \A j \in 1..n : cq[j] = bq[j]
  BY AppendProperties
<1>5. DOMAIN cq = 1..n + 1
  BY <1>4, LenProperties
<1>6. Append(s, x) \in Seq(Bytes) /\ Len(Append(s, x)) = n + 1 /\ Append(s, x)[n + 1] = x
      /\ \A j \in 1..n : Append(s, x)[j] = s[j]
  <2> HIDE DEF s, x
  <2> QED BY <1>2, <1>3, AppendProperties
<1> HIDE DEF cq
<1>7. t = Append(s, x)
  <2>1. \A j \in 1..n + 1 : j \in 1..n \/ j = n + 1
    BY <1>1
  <2>2. ASSUME NEW j \in 1..n + 1 PROVE t[j] = Append(s, x)[j]
    <3>1. CASE j \in 1..n
      BY <1>1, <1>4, <1>5, <1>6, <3>1
    <3>2. CASE j = n + 1
      BY <1>1, <1>4, <1>5, <1>6, <3>2
    <3> QED BY <2>1, <3>1, <3>2
  <2>3. DOMAIN Append(s, x) = 1..n + 1 /\ Append(s, x) \in [1..n + 1 -> Bytes]
    BY <1>6, LenProperties
  <2>4. t = [j \in 1..n + 1 |-> t[j]] /\ Append(s, x) = [j \in 1..n + 1 |-> Append(s, x)[j]]
    BY <1>5, <2>3
  <2> HIDE DEF t, s, x
  <2> QED BY <2>2, <2>4
<1>8. Text(bq) = FlattenSeq(s) /\ Text(cq) = FlattenSeq(t)
  BY DEF Text
<1>9. FlattenSeq(s) \in Bytes
  BY <1>3, FlatType
<1>10. FlattenSeq(Append(s, x)) = FlattenSeq(s) \o x
  BY <1>2, <1>3, FlatSnoc
<1> QED BY <1>7, <1>8, <1>9, <1>10 DEF cq, With

\* Its last element replaced.
LEMMA ReplaceLast ==
  ASSUME NEW S, NEW r \in Seq(S), NEW c \in S, NEW e \in S, NEW s, s = With(r, c)
  PROVE  /\ ReplaceAt(s, Len(s), e) = With(r, e)
         /\ [s EXCEPT ![Len(s)] = e] = With(r, e)
<1>1. s \in Seq(S) /\ Len(s) = Len(r) + 1 /\ \A i \in 1..Len(r) : s[i] = r[i]
  BY AppendProperties DEF With
<1>2. Len(r) \in Nat
  BY LenProperties
<1>3. Len(s) \in 1..Len(s)
  BY <1>1, <1>2
<1> DEFINE t == [s EXCEPT ![Len(s)] = e]
<1>4. /\ t \in Seq(S) /\ Len(t) = Len(s)
      /\ \A j \in 1..Len(s) : t[j] = IF j = Len(s) THEN e ELSE s[j]
  <2>1. s \in [1..Len(s) -> S] /\ DOMAIN s = 1..Len(s)
    BY <1>1, LenProperties
  <2>2. /\ t \in [1..Len(s) -> S]
        /\ \A j \in 1..Len(s) : t[j] = IF j = Len(s) THEN e ELSE s[j]
    BY <1>3, <2>1
  <2>3. Len(s) \in Nat
    BY <1>1, <1>2
  <2> HIDE DEF t
  <2>4. t \in Seq(S) /\ Len(t) = Len(s)
    BY <2>2, <2>3
  <2> QED BY <2>2, <2>4
<1>5. /\ With(r, e) \in Seq(S) /\ Len(With(r, e)) = Len(r) + 1
      /\ (\A i \in 1..Len(r) : With(r, e)[i] = r[i]) /\ With(r, e)[Len(r) + 1] = e
  BY AppendProperties DEF With
<1> HIDE DEF t
<1>6. ASSUME NEW j \in 1..Len(t) PROVE t[j] = With(r, e)[j]
  BY <1>1, <1>2, <1>4, <1>5
<1>7. t = With(r, e)
  BY <1>1, <1>4, <1>5, <1>6, SeqEqual
<1> QED BY <1>7 DEF t, ReplaceAt

LEMMA ReadyKinds == ReadyMessage \subseteq Message
  BY DEF ReadyMessage

LEMMA MessageIs ==
  ASSUME NEW bq \in Seq(Buffer), NEW x, NEW c, Sizes(x, c), NEW m, m = Unfinished(bq, x, c)
  PROVE  m \in Message
<1>1. x \in 0..NCX_MAX_UINT /\ c \in 0..NCX_MAX_UINT
  BY Constants DEF Sizes
<1> QED BY <1>1 DEF Message, Unfinished, NotReady

LEMMA UnfinishedIs ==
  ASSUME NEW bq, NEW x, NEW c, NEW m, m = Unfinished(bq, x, c)
  PROVE  m.buffQ = bq /\ m.expchunksize = x /\ m.curchunksize = c /\ m.ready = NotReady
  BY DEF Unfinished

\* The queue of a session and its last message.
LEMMA LastIs ==
  ASSUME NEW q, NEW done, NEW m, Adds(q, done, m)
  PROVE  /\ q \in Seq(Message) /\ q # <<>> /\ Len(q) = Len(done) + 1 /\ Len(done) \in Nat
         /\ curmsg(q) = m /\ q[Len(q)] = m
<1>1. done \in Seq(Message) /\ m \in Message /\ q = With(done, m)
  BY ReadyKinds, SeqMonotonic DEF Adds
<1>2. q \in Seq(Message) /\ q # <<>> /\ Len(q) = Len(done) + 1 /\ Last(q) = m
  BY <1>1, Snoc1
<1>3. Len(done) \in Nat
  BY <1>1, LenProperties
<1> QED BY <1>2, <1>3 DEF curmsg, Last

LEMMA LastSet ==
  ASSUME NEW q, NEW done, NEW m, Adds(q, done, m), NEW e \in Message
  PROVE  Adds(set_msg(q, e), done, e) /\ Adds([q EXCEPT ![Len(q)] = e], done, e)
<1>1. done \in Seq(Message) /\ m \in Message /\ q = With(done, m)
  BY ReadyKinds, SeqMonotonic DEF Adds
<1>2. ReplaceAt(q, Len(q), e) = With(done, e) /\ [q EXCEPT ![Len(q)] = e] = With(done, e)
  BY <1>1, ReplaceLast
<1>3. set_msg(q, e) = ReplaceAt(q, Len(q), e)
  BY DEF set_msg
<1>4. done \in Seq(ReadyMessage)
  BY DEF Adds
<1> QED BY <1>2, <1>3, <1>4 DEF Adds

\* Its buffers.
LEMMA KeepsIs ==
  ASSUME NEW m, NEW fr, NEW b, NEW h, NEW room, Keeps(m, fr, b, h, room)
  PROVE  /\ fr \in Seq(Buffer) /\ fr \in Seq(HeldBuffer) /\ b \in Buffer /\ b \in HeldBuffer
         /\ m.buffQ \in Seq(Buffer) /\ m.buffQ \in Seq(HeldBuffer) /\ m.buffQ # <<>>
         /\ Last(m.buffQ) = b /\ Front(m.buffQ) = fr /\ Len(m.buffQ) = Len(fr) + 1
         /\ Len(fr) \in Nat
         /\ b.data \in Bytes /\ Len(b.data) = b.buffpos
         /\ b.buffpos \in 0..SES_MSG_BUFFSIZE /\ b.bufflen \in 0..b.buffpos
         /\ Text(fr) \in Bytes /\ h \in Bytes
<1>1. fr \in Seq(FullBuffer) /\ b \in OpenBuffer /\ m.buffQ = With(fr, b) /\ h = Text(fr) \o b.data
  BY DEF Keeps
<1>2. fr \in Seq(Buffer) /\ fr \in Seq(HeldBuffer) /\ b \in Buffer /\ b \in HeldBuffer
  BY <1>1, BufferKinds, SeqMonotonic
<1>3. PICK bq : bq = m.buffQ
  OBVIOUS
<1>4. bq = With(fr, b)
  BY <1>1, <1>3
<1>5. bq \in Seq(Buffer) /\ bq # <<>> /\ Len(bq) = Len(fr) + 1 /\ Last(bq) = b /\ Front(bq) = fr
  BY <1>2, <1>4, Snoc1
<1>6. bq \in Seq(HeldBuffer)
  BY <1>2, <1>4, Snoc1
<1>7. Len(fr) \in Nat
  BY <1>2, LenProperties
<1>8. /\ b.data \in Bytes /\ b.buffpos \in 0..SES_MSG_BUFFSIZE /\ b.bufflen \in 0..SES_MSG_BUFFSIZE
  BY <1>2, BufferFields
<1>9. Len(b.data) = b.buffpos /\ b.bufflen <= b.buffpos
  BY <1>1 DEF OpenBuffer
<1>10. b.bufflen \in 0..b.buffpos
  BY <1>8, <1>9, Constants
<1>11. Text(fr) \in Bytes
  BY <1>2, TextSnoc
<1>12. h \in Bytes
  BY <1>1, <1>8, <1>11, Parts DEF Bytes
<1> QED BY <1>2, <1>3, <1>5, <1>6, <1>7, <1>8, <1>9, <1>10, <1>11, <1>12

LEMMA CurrentIs ==
  ASSUME NEW q, NEW done, NEW m, NEW fr, NEW b, NEW h, NEW room, Adds(q, done, m), Keeps(m, fr, b, h, room)
  PROVE  curbuff(q) = b
<1>1. Last(q) = m /\ Last(m.buffQ) = b
  BY LastIs, KeepsIs DEF curmsg
<1> QED BY <1>1 DEF curbuff

\* p is done followed by an unfinished message with other buffers
Renewed(p, done, cq, x, c) == \E e : e = Unfinished(cq, x, c) /\ e \in Message /\ Adds(p, done, e)

LEMMA Rebuffered ==
  ASSUME NEW q, NEW done, NEW m, NEW bq, NEW x, NEW c, Sizes(x, c), Adds(q, done, m), m = Unfinished(bq, x, c),
         NEW cq \in Seq(Buffer)
  PROVE  Renewed([q EXCEPT ![Len(q)].buffQ = cq], done, cq, x, c)
<1>1. PICK e : e = Unfinished(cq, x, c)
  OBVIOUS
<1>2. e \in Message
  BY <1>1, MessageIs
<1>3. Adds([q EXCEPT ![Len(q)] = e], done, e)
  BY <1>2, LastSet
<1>4. q[Len(q)] = m
  BY LastIs
<1>5. [m EXCEPT !.buffQ = cq] = e
  BY <1>1 DEF Unfinished
<1>6. [q EXCEPT ![Len(q)].buffQ = cq] = [q EXCEPT ![Len(q)] = [q[Len(q)] EXCEPT !.buffQ = cq]]
  OBVIOUS
<1>7. [q EXCEPT ![Len(q)].buffQ = cq] = [q EXCEPT ![Len(q)] = e]
  BY <1>4, <1>5, <1>6
<1> QED BY <1>1, <1>2, <1>3, <1>7 DEF Renewed

\* Its last buffer replaced.
LEMMA SetBuff ==
  ASSUME NEW q, NEW done, NEW m, NEW bq, NEW x, NEW c, Sizes(x, c), Adds(q, done, m), m = Unfinished(bq, x, c),
         NEW fr, NEW b, NEW h, NEW room, Keeps(m, fr, b, h, room), NEW d \in Buffer
  PROVE  \E cq : cq = With(fr, d) /\ cq \in Seq(Buffer) /\ Renewed(set_buff(q, d), done, cq, x, c)
<1>1. PICK cq : cq = With(fr, d)
  OBVIOUS
<1>2. fr \in Seq(Buffer) /\ b \in Buffer /\ m.buffQ = With(fr, b)
  BY KeepsIs DEF Keeps
<1>3. cq \in Seq(Buffer)
  BY <1>1, <1>2, Snoc1
<1>4. ReplaceAt(m.buffQ, Len(m.buffQ), d) = cq
  BY <1>1, <1>2, ReplaceLast
<1>5. q[Len(q)] = m
  BY LastIs
<1>6. set_buff(q, d) = [q EXCEPT ![Len(q)].buffQ = cq]
  BY <1>4, <1>5 DEF set_buff
<1>7. Renewed([q EXCEPT ![Len(q)].buffQ = cq], done, cq, x, c)
  BY <1>3, Rebuffered
<1> QED BY <1>1, <1>3, <1>6, <1>7

LEMMA NewBuff == new_buff \in OpenBuffer /\ new_buff.data = <<>> /\ new_buff.buffpos = 0
                 /\ new_buff \in Buffer /\ new_buff.bufflen = 0
<1>1. <<>> \in Bytes /\ Len(<<>>) = 0
  BY EmptySeq DEF Bytes
<1>2. 0 \in 0..SES_MSG_BUFFSIZE
  BY Constants
<1>3. new_buff \in Buffer /\ new_buff.data = <<>> /\ new_buff.buffpos = 0 /\ new_buff.bufflen = 0
  BY <1>1, <1>2, BufferIs DEF new_buff
<1> QED BY <1>1, <1>3 DEF OpenBuffer

\* A full buffer is followed by a new one.
LEMMA AddBuff ==
  ASSUME NEW q, NEW done, NEW m, NEW bq, NEW x, NEW c, Sizes(x, c), Adds(q, done, m), m = Unfinished(bq, x, c),
         NEW fr \in Seq(FullBuffer), NEW d \in FullBuffer, bq = With(fr, d)
  PROVE  Holds(add_buff(q), done, Text(fr) \o d.data, x, c, SES_MSG_BUFFSIZE)
<1>1. PICK cq : cq = With(bq, new_buff)
  OBVIOUS
<1>2. bq \in Seq(FullBuffer)
  BY Snoc1
<1>3. bq \in Seq(Buffer) /\ bq \in Seq(HeldBuffer) /\ fr \in Seq(HeldBuffer) /\ d \in HeldBuffer
  BY <1>2, BufferKinds, SeqMonotonic
<1>4. cq \in Seq(Buffer)
  BY <1>1, <1>3, NewBuff, Snoc1
<1>5. q[Len(q)] = m /\ m.buffQ = bq
  BY LastIs, UnfinishedIs
<1>6. add_buff(q) = [q EXCEPT ![Len(q)].buffQ = cq]
  BY <1>1, <1>5 DEF add_buff, With
<1>7. PICK e : e = Unfinished(cq, x, c) /\ e \in Message /\ Adds([q EXCEPT ![Len(q)].buffQ = cq], done, e)
  <2>1. Renewed([q EXCEPT ![Len(q)].buffQ = cq], done, cq, x, c)
    BY <1>4, Rebuffered
  <2> QED BY <2>1 DEF Renewed
<1>8. Text(bq) = Text(fr) \o d.data /\ Text(bq) \in Bytes
  BY <1>3, TextSnoc, Taken DEF FullBuffer
<1>9. Text(fr) \o d.data = Text(bq) \o new_buff.data
  BY <1>8, NewBuff, ConcatEmptySeq DEF Bytes
<1>10. Keeps(e, bq, new_buff, Text(fr) \o d.data, SES_MSG_BUFFSIZE)
  BY <1>1, <1>7, UnfinishedIs, NewBuff, Constants, <1>2, <1>9 DEF Keeps
<1> QED BY <1>6, <1>7, <1>10 DEF Holds

\* A queue whose messages are all finished, or which ends with one that is not.
Begins(q, done, h, x, c) ==
  \/ q = done /\ h = <<>> /\ x = 0 /\ c = 0
  \/ Holds(q, done, h, x, c, 0)

LEMMA UnfinishedNotReady ==
  ASSUME NEW bq, NEW x, NEW c, NEW m, m = Unfinished(bq, x, c)
  PROVE  m.ready # TRUE /\ m.ready = FALSE
  BY DEF Unfinished, NotReady

\* Room for less.
LEMMA RoomLess ==
  ASSUME NEW q, NEW done, NEW h, NEW x, NEW c, NEW room \in Nat, NEW less \in 0..room, Holds(q, done, h, x, c, room)
  PROVE  Holds(q, done, h, x, c, less)
<1>1. PICK m, fr, b, bq : Adds(q, done, m) /\ m = Unfinished(bq, x, c) /\ Keeps(m, fr, b, h, room)
  BY DEF Holds
<1>2. b.buffpos \in 0..SES_MSG_BUFFSIZE
  BY <1>1, KeepsIs
<1>3. Keeps(m, fr, b, h, less)
  BY <1>1, <1>2, Constants DEF Keeps
<1> QED BY <1>1, <1>3 DEF Holds

\* A new message is behind the finished ones.
LEMMA NewMessage ==
  ASSUME NEW done \in Seq(ReadyMessage)
  PROVE  /\ Sizes(0, 0)
         /\ \E m, fr, b, bq : /\ Adds(Append(done, new_msg), done, m) /\ m = Unfinished(bq, 0, 0)
                              /\ Keeps(m, fr, b, <<>>, SES_MSG_BUFFSIZE) /\ b = new_buff
<1>1. PICK bq : bq = With(<<>>, new_buff)
  OBVIOUS
<1>2. bq = <<new_buff>> /\ bq \in Seq(Buffer)
  BY <1>1, NewBuff DEF With
<1>3. PICK m : m = Unfinished(bq, 0, 0)
  OBVIOUS
<1>4. m = new_msg
  BY <1>2, <1>3 DEF new_msg, Unfinished, NotReady
<1>5. Sizes(0, 0)
  BY Constants DEF Sizes
<1>6. m \in Message
  BY <1>2, <1>3, <1>5, MessageIs
<1>7. Adds(Append(done, new_msg), done, m)
  BY <1>4, <1>6 DEF Adds, With
<1>8. Keeps(m, <<>>, new_buff, <<>>, SES_MSG_BUFFSIZE)
  BY TextEmpty, NewBuff, <1>1, <1>3, UnfinishedIs, Constants DEF Keeps
<1> QED BY <1>3, <1>5, <1>7, <1>8

LEMMA NewHolds ==
  ASSUME NEW done \in Seq(ReadyMessage)
  PROVE  Holds(Append(done, new_msg), done, <<>>, 0, 0, SES_MSG_BUFFSIZE) /\ curbuff(Append(done, new_msg)) = new_buff
<1>1. PICK m, fr, b, bq : /\ Adds(Append(done, new_msg), done, m) /\ m = Unfinished(bq, 0, 0)
                          /\ Keeps(m, fr, b, <<>>, SES_MSG_BUFFSIZE) /\ b = new_buff
  BY NewMessage
<1>2. curbuff(Append(done, new_msg)) = new_buff
  BY <1>1, CurrentIs
<1> QED BY <1>1, <1>2 DEF Holds

\* The queue has no unfinished message.
LEMMA AllReady ==
  ASSUME NEW done \in Seq(ReadyMessage), done # <<>>
  PROVE  curmsg(done).ready
<1>1. Last(done) \in ReadyMessage
  BY Unsnoc
<1> QED BY <1>1 DEF curmsg, ReadyMessage

\* The queue has an unfinished message.
LEMMA NotAllReady ==
  ASSUME NEW q, NEW done, NEW m, NEW bq, NEW x, NEW c, Adds(q, done, m), m = Unfinished(bq, x, c)
  PROVE  curmsg(q).ready = FALSE /\ q # <<>>
<1>1. curmsg(q) = m /\ q # <<>>
  BY LastIs
<1>2. m.ready = FALSE
  BY UnfinishedNotReady
<1> QED BY <1>1, <1>2

\* A finished buffer.
LEMMA CloseIs ==
  ASSUME NEW b \in OpenBuffer, b.buffpos = SES_MSG_BUFFSIZE
  PROVE  close_buff(b) \in FullBuffer /\ close_buff(b).data = b.data
<1>1. b \in Buffer /\ Len(b.data) = SES_MSG_BUFFSIZE
  BY BufferKinds DEF OpenBuffer
<1>2. b = [data |-> b.data, buffpos |-> b.buffpos, bufflen |-> b.bufflen] /\ b.data \in Bytes
  BY <1>1, BufferFields
<1>3. PICK d : d = close_buff(b)
  OBVIOUS
<1>4. d = [data |-> b.data, buffpos |-> 0, bufflen |-> SES_MSG_BUFFSIZE]
  BY <1>2, <1>3 DEF close_buff
<1>5. 0 \in 0..SES_MSG_BUFFSIZE /\ SES_MSG_BUFFSIZE \in 0..SES_MSG_BUFFSIZE
  BY Constants
<1>6. d \in Buffer /\ d.data = b.data /\ d.bufflen = SES_MSG_BUFFSIZE
  BY <1>2, <1>4, <1>5, BufferIs
<1> QED BY <1>1, <1>3, <1>6 DEF FullBuffer

\* make_room leaves a byte of room and the text as it was.
LEMMA MakeRoom ==
  ASSUME NEW q, q # <<>>, NEW done \in Seq(ReadyMessage), NEW h, NEW x, NEW c, Sizes(x, c),
         Begins(q, done, h, x, c)
  PROVE  Holds(make_room(q), done, h, x, c, 1)
<1>0. 1 \in 0..SES_MSG_BUFFSIZE /\ SES_MSG_BUFFSIZE \in Nat
  BY Constants
<1>1. CASE q = done /\ h = <<>> /\ x = 0 /\ c = 0
  BY <1>1, AllReady, NewHolds, <1>0, RoomLess DEF make_room
<1>2. CASE Holds(q, done, h, x, c, 0)
  <2>1. PICK m, fr, b, bq : Adds(q, done, m) /\ m = Unfinished(bq, x, c) /\ Keeps(m, fr, b, h, 0)
    BY <1>2 DEF Holds
  <2>2. curmsg(q).ready = FALSE
    BY <2>1, NotAllReady
  <2>3. curbuff(q) = b
    BY <2>1, CurrentIs
  <2>4. b \in OpenBuffer /\ fr \in Seq(FullBuffer) /\ h = Text(fr) \o b.data
    BY <2>1 DEF Keeps
  <2>5. CASE b.buffpos = SES_MSG_BUFFSIZE
    <3>1. PICK d : d = close_buff(b)
      OBVIOUS
    <3>2. d \in FullBuffer /\ d.data = b.data
      BY <2>4, <2>5, <3>1, CloseIs
    <3>3. d \in Buffer
      BY <3>2, BufferKinds
    <3>4. make_room(q) = add_buff(set_buff(q, d))
      BY <2>2, <2>3, <2>5, <3>1 DEF make_room
    <3>5. PICK cq : cq = With(fr, d) /\ cq \in Seq(Buffer) /\ Renewed(set_buff(q, d), done, cq, x, c)
      BY <2>1, <3>3, SetBuff
    <3>6. PICK p : p = set_buff(q, d)
      OBVIOUS
    <3>7. PICK e : e = Unfinished(cq, x, c) /\ e \in Message /\ Adds(p, done, e)
      BY <3>5, <3>6 DEF Renewed
    <3>8. Holds(add_buff(p), done, Text(fr) \o d.data, x, c, SES_MSG_BUFFSIZE)
      BY <2>4, <3>2, <3>5, <3>7, AddBuff
    <3> QED BY <1>0, <2>4, <3>2, <3>4, <3>6, <3>8, RoomLess
  <2>6. CASE b.buffpos # SES_MSG_BUFFSIZE
    <3>1. make_room(q) = q
      BY <2>2, <2>3, <2>6 DEF make_room
    <3>2. b.buffpos + 1 <= SES_MSG_BUFFSIZE
      BY <2>1, KeepsIs, <2>6, Constants
    <3>3. Keeps(m, fr, b, h, 1)
      BY <2>1, <3>2 DEF Keeps
    <3> QED BY <2>1, <3>1, <3>3 DEF Holds
  <2> QED BY <2>5, <2>6
<1> QED BY <1>1, <1>2 DEF Begins

\* So does make_current.
LEMMA MakeCurrent ==
  ASSUME NEW q, NEW done \in Seq(ReadyMessage), NEW h, NEW x, NEW c, Sizes(x, c),
         Begins(q, done, h, x, c)
  PROVE  Holds(make_current(q), done, h, x, c, 0)
<1>0. 0 \in 0..SES_MSG_BUFFSIZE /\ SES_MSG_BUFFSIZE \in Nat /\ SES_MSG_BUFFSIZE # 0
  BY Constants
<1>1. CASE q = done /\ h = <<>> /\ x = 0 /\ c = 0
  BY NewHolds, <1>0, NewBuff, <1>1, AllReady, RoomLess DEF make_current
<1>2. CASE Holds(q, done, h, x, c, 0)
  <2>1. PICK m, fr, b, bq : Adds(q, done, m) /\ m = Unfinished(bq, x, c) /\ Keeps(m, fr, b, h, 0)
    BY <1>2 DEF Holds
  <2>2. curmsg(q).ready = FALSE /\ q # <<>>
    BY <2>1, NotAllReady
  <2>3. curbuff(q) = b
    BY <2>1, CurrentIs
  <2>4. CASE b.bufflen = SES_MSG_BUFFSIZE
    <3>1. b \in FullBuffer
      BY <2>1, KeepsIs, <1>0, <2>4 DEF FullBuffer
    <3>2. make_current(q) = add_buff(q)
      BY <2>2, <2>3, <2>4 DEF make_current
    <3>3. fr \in Seq(FullBuffer) /\ bq = With(fr, b) /\ h = Text(fr) \o b.data
      BY <2>1, UnfinishedIs DEF Keeps
    <3>4. Holds(add_buff(q), done, Text(fr) \o b.data, x, c, SES_MSG_BUFFSIZE)
      BY <2>1, <3>1, <3>3, AddBuff
    <3> QED BY <1>0, <3>2, <3>3, <3>4, RoomLess
  <2>5. CASE b.bufflen # SES_MSG_BUFFSIZE
    BY <1>2, <2>2, <2>3, <2>5 DEF make_current
  <2> QED BY <2>4, <2>5
<1> QED BY <1>1, <1>2 DEF Begins

LEMMA Cat ==
  ASSUME NEW S, NEW u \in Seq(S), NEW v \in Seq(S)
  PROVE  u \o v \in Seq(S) /\ Len(u \o v) = Len(u) + Len(v)
  BY ConcatProperties

LEMMA Assoc ==
  ASSUME NEW u \in Bytes, NEW v \in Bytes, NEW w \in Bytes
  PROVE  (u \o v) \o w = u \o (v \o w)
  BY ConcatAssociative DEF Bytes

\* The beginning of a concatenation.
LEMMA PrefixShort ==
  ASSUME NEW S, NEW u \in Seq(S), NEW v \in Seq(S), NEW n \in 0..Len(u)
  PROVE  SubSeq(u \o v, 1, n) = SubSeq(u, 1, n)
<1>1. PICK u1, u2 : u1 = SubSeq(u, 1, n) /\ u2 = SubSeq(u, n + 1, Len(u))
  OBVIOUS
<1>2. u1 \in Seq(S) /\ u2 \in Seq(S) /\ Len(u1) = n /\ u = u1 \o u2
  BY <1>1, Split
<1>3. u2 \o v \in Seq(S)
  BY <1>2, Cat
<1>4. u \o v = u1 \o (u2 \o v)
  BY <1>2, ConcatAssociative
<1>5. SubSeq(u1 \o (u2 \o v), 1, Len(u1)) = u1
  BY <1>2, <1>3, Parts
<1> QED BY <1>1, <1>2, <1>4, <1>5

LEMMA PrefixLong ==
  ASSUME NEW S, NEW u \in Seq(S), NEW v \in Seq(S), NEW n \in 0..Len(v)
  PROVE  SubSeq(u \o v, 1, Len(u) + n) = u \o SubSeq(v, 1, n)
<1>1. PICK v1, v2 : v1 = SubSeq(v, 1, n) /\ v2 = SubSeq(v, n + 1, Len(v))
  OBVIOUS
<1>2. v1 \in Seq(S) /\ v2 \in Seq(S) /\ Len(v1) = n /\ v = v1 \o v2
  BY <1>1, Split
<1>3. u \o v1 \in Seq(S) /\ Len(u \o v1) = Len(u) + n
  BY <1>2, Cat
<1>4. u \o v = (u \o v1) \o v2
  BY <1>2, ConcatAssociative
<1>5. SubSeq((u \o v1) \o v2, 1, Len(u \o v1)) = u \o v1
  BY <1>2, <1>3, Parts
<1> QED BY <1>1, <1>3, <1>4, <1>5

\* What is left of it.
LEMMA SuffixLong ==
  ASSUME NEW S, NEW u \in Seq(S), NEW v \in Seq(S), NEW n \in 0..Len(u)
  PROVE  SubSeq(u \o v, n + 1, Len(u \o v)) = SubSeq(u, n + 1, Len(u)) \o v
<1>1. PICK u1, u2 : u1 = SubSeq(u, 1, n) /\ u2 = SubSeq(u, n + 1, Len(u))
  OBVIOUS
<1>2. u1 \in Seq(S) /\ u2 \in Seq(S) /\ Len(u1) = n /\ u = u1 \o u2
  BY <1>1, Split
<1>3. u2 \o v \in Seq(S)
  BY <1>2, Cat
<1>4. u \o v = u1 \o (u2 \o v)
  BY <1>2, ConcatAssociative
<1>5. SubSeq(u1 \o (u2 \o v), Len(u1) + 1, Len(u1 \o (u2 \o v))) = u2 \o v
  BY <1>2, <1>3, Parts
<1> QED BY <1>1, <1>2, <1>4, <1>5

\* Text that fits is written behind what is there.
LEMMA PutIs ==
  ASSUME NEW b \in OpenBuffer, NEW text \in Bytes, b.buffpos + Len(text) <= SES_MSG_BUFFSIZE
  PROVE  /\ put(b, text) \in OpenBuffer /\ put(b, text).data = b.data \o text
         /\ put(b, text).buffpos = b.buffpos + Len(text) /\ put(b, text).bufflen = b.bufflen
<1>1. b \in Buffer /\ Len(b.data) = b.buffpos /\ b.bufflen <= b.buffpos
  BY BufferKinds DEF OpenBuffer
<1>2. /\ b = [data |-> b.data, buffpos |-> b.buffpos, bufflen |-> b.bufflen] /\ b.data \in Bytes
      /\ b.buffpos \in 0..SES_MSG_BUFFSIZE /\ b.bufflen \in 0..SES_MSG_BUFFSIZE
  BY <1>1, BufferFields
<1>3. SubSeq(b.data, 1, b.buffpos) = b.data
  BY <1>1, <1>2, SubSeqFull DEF Bytes
<1>4. PICK d : d = put(b, text)
  OBVIOUS
<1>6. PICK e, p, l : e = b.data \o text /\ p = b.buffpos + Len(text) /\ l = b.bufflen
  OBVIOUS
<1>5. d = [data |-> e, buffpos |-> p, bufflen |-> l]
  BY <1>2, <1>3, <1>4, <1>6 DEF put
<1>7. e \in Bytes /\ Len(e) = b.buffpos + Len(text) /\ Len(text) \in Nat
  BY <1>1, <1>2, <1>6, Cat, LenProperties DEF Bytes
<1>8. p \in 0..SES_MSG_BUFFSIZE /\ l <= p /\ l \in 0..SES_MSG_BUFFSIZE
  BY <1>1, <1>2, <1>6, <1>7, Constants
<1>9. d \in Buffer /\ d.data = e /\ d.buffpos = p /\ d.bufflen = l
  BY <1>5, <1>7, <1>8, BufferIs
<1> QED BY <1>4, <1>6, <1>7, <1>8, <1>9 DEF OpenBuffer

\* A message's last buffer replaced by one that has more text.
LEMMA Kept ==
  ASSUME NEW fr, NEW b, NEW m, NEW h, NEW room, Keeps(m, fr, b, h, room), NEW d \in OpenBuffer,
         NEW text \in Bytes, d.data = b.data \o text,
         NEW x, NEW c, NEW cq, NEW e, cq = With(fr, d), e = Unfinished(cq, x, c)
  PROVE  Keeps(e, fr, d, h \o text, 0)
<1>1. b.data \in Bytes /\ Text(fr) \in Bytes
  BY KeepsIs
<1>2. h = Text(fr) \o b.data /\ fr \in Seq(FullBuffer)
  BY DEF Keeps
<1>3. h \o text = Text(fr) \o d.data
  <2>1. PICK t, bd : t = Text(fr) /\ bd = b.data
    OBVIOUS
  <2>2. (t \o bd) \o text = t \o (bd \o text)
    BY <1>1, <2>1, Assoc
  <2> QED BY <1>2, <2>1, <2>2
<1>4. e.buffQ = With(fr, d)
  BY UnfinishedIs
<1>5. d.buffpos \in 0..SES_MSG_BUFFSIZE
  BY BufferKinds, BufferFields
<1>6. d.buffpos + 0 <= SES_MSG_BUFFSIZE
  BY <1>5, Constants
<1> QED BY <1>2, <1>3, <1>4, <1>6 DEF Keeps

\* A byte is put behind the text of the last message.
LEMMA PutChar ==
  ASSUME NEW q, NEW done, NEW h, NEW x, NEW c, Sizes(x, c), Holds(q, done, h, x, c, 1), NEW ch \in Byte
  PROVE  Holds(set_buff(q, put(curbuff(q), <<ch>>)), done, h \o <<ch>>, x, c, 0)
<1>1. PICK m, fr, b, bq : Adds(q, done, m) /\ m = Unfinished(bq, x, c) /\ Keeps(m, fr, b, h, 1)
  BY DEF Holds
<1>2. curbuff(q) = b
  BY <1>1, CurrentIs
<1>3. b \in OpenBuffer /\ b.buffpos + 1 <= SES_MSG_BUFFSIZE
  BY <1>1 DEF Keeps
<1>4. PICK text : text = <<ch>>
  OBVIOUS
<1>5. text \in Bytes /\ Len(text) = 1
  BY <1>4 DEF Bytes
<1>6. PICK d : d = put(b, text)
  OBVIOUS
<1>7. d \in OpenBuffer /\ d.data = b.data \o text
  BY <1>3, <1>5, <1>6, PutIs
<1>8. d \in Buffer
  BY <1>7, BufferKinds
<1>9. PICK cq : cq = With(fr, d) /\ cq \in Seq(Buffer) /\ Renewed(set_buff(q, d), done, cq, x, c)
  BY <1>1, <1>8, SetBuff
<1>10. PICK e : e = Unfinished(cq, x, c) /\ e \in Message /\ Adds(set_buff(q, d), done, e)
  BY <1>9 DEF Renewed
<1>11. Keeps(e, fr, d, h \o text, 0)
  BY <1>1, <1>5, <1>7, <1>9, <1>10, Kept
<1>12. Holds(set_buff(q, d), done, h \o text, x, c, 0)
  BY <1>10, <1>11 DEF Holds
<1> QED BY <1>2, <1>4, <1>6, <1>12

\* The sizes of its chunk.
LEMMA Resized ==
  ASSUME NEW q, NEW done, NEW h, NEW x0, NEW c0, NEW room, Holds(q, done, h, x0, c0, room),
         NEW x, NEW c, Sizes(x, c)
  PROVE  Holds(set_msg(q, [curmsg(q) EXCEPT !.expchunksize = x, !.curchunksize = c]), done, h, x, c, room)
<1>1. PICK m, fr, b, bq : Adds(q, done, m) /\ m = Unfinished(bq, x0, c0) /\ Keeps(m, fr, b, h, room)
  BY DEF Holds
<1>2. curmsg(q) = m /\ m.buffQ = bq
  BY <1>1, LastIs, UnfinishedIs
<1>3. PICK e : e = Unfinished(bq, x, c)
  OBVIOUS
<1>4. [m EXCEPT !.expchunksize = x, !.curchunksize = c] = e
  <2>1. [m EXCEPT !.expchunksize = x] = Unfinished(bq, x, c0)
    BY <1>1 DEF Unfinished
  <2>2. [m EXCEPT !.expchunksize = x, !.curchunksize = c] = [[m EXCEPT !.expchunksize = x] EXCEPT !.curchunksize = c]
    OBVIOUS
  <2>3. PICK k : k = Unfinished(bq, x, c0)
    OBVIOUS
  <2>4. [k EXCEPT !.curchunksize = c] = e
    BY <1>3, <2>3 DEF Unfinished
  <2> QED BY <2>1, <2>2, <2>3, <2>4
<1>5. bq \in Seq(Buffer)
  BY <1>1, <1>2, KeepsIs
<1>6. e \in Message
  BY <1>3, <1>5, MessageIs
<1>7. Adds(set_msg(q, e), done, e)
  BY <1>1, <1>6, LastSet
<1>8. Keeps(e, fr, b, h, room)
  BY <1>3, UnfinishedIs, <1>1, <1>2 DEF Keeps
<1>9. Holds(set_msg(q, e), done, h, x, c, room)
  BY <1>3, <1>7, <1>8 DEF Holds
<1> QED BY <1>2, <1>4, <1>9

Ready == TRUE
\* A message that is ready.
Complete(bq, x, c) == [buffQ |-> bq, ready |-> Ready, expchunksize |-> x, curchunksize |-> c]

LEMMA CompleteIs ==
  ASSUME NEW bq \in Seq(HeldBuffer), Compact(bq), NEW x, NEW c, Sizes(x, c), NEW m, m = Complete(bq, x, c)
  PROVE  m \in ReadyMessage /\ m.buffQ = bq
<1>1. x \in 0..NCX_MAX_UINT /\ c \in 0..NCX_MAX_UINT /\ c <= x
  BY Constants DEF Sizes
<1>2. bq \in Seq(Buffer)
  BY BufferKinds, SeqMonotonic
<1>3. m \in Message
  BY <1>1, <1>2 DEF Message, Complete, Ready
<1>4. m.ready
  BY DEF Complete, Ready
<1>5. m.buffQ = bq /\ m.curchunksize = c /\ m.expchunksize = x
  BY DEF Complete
<1> QED BY <1>1, <1>3, <1>4, <1>5 DEF ReadyMessage

\* The text that ses_read_cb reads.
LEMMA TextOf ==
  ASSUME NEW m, NEW bq, m.buffQ = bq
  PROVE  text_of(m) = Text(bq)
  BY DEF text_of, Text

\* A buffer whose length is settled.
Settle(b, l) == [b EXCEPT !.bufflen = l, !.buffpos = 0]

LEMMA Settled ==
  ASSUME NEW b \in HeldBuffer, NEW l \in 0..Len(b.data), NEW d, d = Settle(b, l)
  PROVE  d \in HeldBuffer /\ d.data = b.data /\ d.bufflen = l
<1>1. b \in Buffer /\ Len(b.data) <= SES_MSG_BUFFSIZE
  BY BufferKinds DEF HeldBuffer
<1>2. b = [data |-> b.data, buffpos |-> b.buffpos, bufflen |-> b.bufflen] /\ b.data \in Bytes /\ Len(b.data) \in Nat
  BY <1>1, BufferFields
<1>3. PICK bd, p : bd = b.data /\ p = 0
  OBVIOUS
<1>4. PICK k : k = [data |-> bd, buffpos |-> p, bufflen |-> l]
  OBVIOUS
<1>5. p \in 0..SES_MSG_BUFFSIZE /\ l \in 0..SES_MSG_BUFFSIZE /\ bd \in Bytes /\ l <= Len(bd) /\ Len(bd) <= SES_MSG_BUFFSIZE
  BY <1>1, <1>2, <1>3, Constants
<1>6. k \in Buffer /\ k.data = bd /\ k.bufflen = l
  BY <1>4, <1>5, BufferIs
<1>7. k \in HeldBuffer
  BY <1>5, <1>6 DEF HeldBuffer
<1>8. d = k
  <2>1. PICK j, bp, bl : bp = b.buffpos /\ bl = b.bufflen /\ j = [data |-> bd, buffpos |-> bp, bufflen |-> bl]
    OBVIOUS
  <2>2. b = j
    BY <1>2, <1>3, <2>1
  <2>3. [j EXCEPT !.bufflen = l, !.buffpos = p] = k
    <3>1. PICK i : i = [data |-> bd, buffpos |-> bp, bufflen |-> l]
      OBVIOUS
    <3>2. [j EXCEPT !.bufflen = l] = i
      BY <2>1, <3>1
    <3>3. [i EXCEPT !.buffpos = p] = k
      BY <1>4, <3>1
    <3>4. [j EXCEPT !.bufflen = l, !.buffpos = p] = [[j EXCEPT !.bufflen = l] EXCEPT !.buffpos = p]
      OBVIOUS
    <3> QED BY <3>2, <3>3, <3>4
  <2> QED BY <1>3, <2>2, <2>3 DEF Settle
<1> QED BY <1>3, <1>6, <1>7, <1>8

\* The EOM string is cut off the buffers of a message that has more.
LEMMA CutEnd ==
  ASSUME NEW m, NEW fr, NEW b, NEW h, NEW room, Keeps(m, fr, b, h, room), Len(h) > 6,
         NEW bq, bq = m.buffQ
  PROVE  /\ ~(Len(bq) = 1 /\ b.buffpos <= NC_SSH_END_LEN)
         /\ cut_end(bq) \in Seq(HeldBuffer) /\ Compact(cut_end(bq))
         /\ Text(cut_end(bq)) = SubSeq(h, 1, Len(h) - 6)
<1>1. /\ fr \in Seq(Buffer) /\ fr \in Seq(HeldBuffer) /\ b \in HeldBuffer /\ b \in Buffer
      /\ Last(bq) = b /\ Front(bq) = fr /\ Len(bq) = Len(fr) + 1
      /\ Len(fr) \in Nat /\ b.data \in Bytes /\ Len(b.data) = b.buffpos
      /\ b.buffpos \in 0..SES_MSG_BUFFSIZE /\ Text(fr) \in Bytes
  BY KeepsIs
<1>2. fr \in Seq(FullBuffer) /\ bq = With(fr, b) /\ h = Text(fr) \o b.data
  BY DEF Keeps
<1>3. PICK t, bd : t = Text(fr) /\ bd = b.data
  OBVIOUS
<1>4. h = t \o bd /\ t \in Seq(Byte) /\ bd \in Seq(Byte) /\ Len(bd) = b.buffpos
  BY <1>1, <1>2, <1>3 DEF Bytes
<1>5. Len(h) = Len(t) + Len(bd) /\ Len(t) \in Nat
  BY <1>4, Cat, LenProperties
<1>6. CASE b.buffpos > NC_SSH_END_LEN
  <2>1. b.buffpos - 6 \in 0..Len(b.data) /\ b.buffpos - 6 \in 0..Len(bd)
    BY <1>1, <1>3, <1>6, Constants
  <2>2. PICK d, l : l = b.buffpos - 6 /\ d = Settle(b, l)
    OBVIOUS
  <2>3. d \in HeldBuffer /\ d.data = b.data /\ d.bufflen = l
    BY <1>1, <2>1, <2>2, Settled
  <2>4. d \in Buffer
    BY <2>3, BufferKinds
  <2>5. ReplaceAt(bq, Len(bq), d) = With(fr, d)
    BY <1>1, <1>2, <2>4, ReplaceLast
  <2>6. cut_end(bq) = With(fr, d)
    BY <1>1, <1>6, <2>2, <2>5, Constants DEF cut_end, Settle
  <2>7. With(fr, d) \in Seq(HeldBuffer)
    BY <1>1, <2>3, Snoc1
  <2>8. Text(With(fr, d)) = t \o SubSeq(bd, 1, l)
    BY <1>1, <1>3, <2>3, TextSnoc
  <2>9. SubSeq(t \o bd, 1, Len(t) + l) = t \o SubSeq(bd, 1, l)
    BY <1>4, <2>1, <2>2, PrefixLong
  <2>10. Len(t) + l = Len(h) - 6
    BY <1>1, <1>4, <1>5, <2>2
  <2>11. Text(cut_end(bq)) = SubSeq(h, 1, Len(h) - 6)
    BY <1>4, <2>6, <2>8, <2>9, <2>10
  <2>12. cut_end(bq) \in Seq(HeldBuffer)
    BY <2>6, <2>7
  <2>13. ~(b.buffpos <= NC_SSH_END_LEN)
    BY <1>1, <1>6, Constants
  <2>14. Compact(cut_end(bq))
    BY <1>2, <2>3, <2>6 DEF Compact
  <2> QED BY <2>11, <2>12, <2>13, <2>14
<1>7. CASE ~(b.buffpos > NC_SSH_END_LEN)
  <2>1. fr # <<>>
    <3>1. SUFFICES ASSUME fr = <<>> PROVE FALSE
      OBVIOUS
    <3>2. t = <<>>
      BY <1>3, <3>1, TextEmpty
    <3>3. Len(t) = 0
      BY <3>2
    <3> QED BY <1>1, <1>4, <1>5, <1>7, <3>3, Constants
  <2>2. PICK fr0, prev : fr0 = Front(fr) /\ prev = Last(fr)
    OBVIOUS
  <2>3. prev \in FullBuffer /\ fr0 \in Seq(FullBuffer) /\ fr = With(fr0, prev) /\ Len(fr) \in Nat \ {0}
    BY <1>2, <2>1, <2>2, Unsnoc
  <2>4. fr0 \in Seq(Buffer) /\ fr0 \in Seq(HeldBuffer) /\ prev \in Buffer /\ prev \in HeldBuffer
    BY <2>3, BufferKinds, SeqMonotonic
  <2>5. Len(prev.data) = SES_MSG_BUFFSIZE /\ prev.bufflen = SES_MSG_BUFFSIZE
    BY <2>3 DEF FullBuffer
  <2>6. PICK d, l : /\ l = SES_MSG_BUFFSIZE - (6 - b.buffpos)
                    /\ d = Settle(prev, l)
    OBVIOUS
  <2>7. l \in 0..Len(prev.data)
    <3>1. PICK B, k : B = SES_MSG_BUFFSIZE /\ k = b.buffpos
      OBVIOUS
    <3>2. B \in Nat /\ B >= 6 /\ k \in 0..B /\ ~(k > 6) /\ l = B - (6 - k)
      BY <1>1, <1>7, <2>6, <3>1, Constants
    <3>3. l \in 0..B
      BY <3>2
    <3> QED BY <2>5, <3>1, <3>3
  <2>8. d \in HeldBuffer /\ d.data = prev.data /\ d.bufflen = l
    BY <2>4, <2>6, <2>7, Settled
  <2>9. d \in Buffer
    BY <2>8, BufferKinds
  <2>10. ReplaceAt(fr, Len(fr), d) = With(fr0, d)
    BY <2>3, <2>4, <2>9, ReplaceLast
  <2>11. cut_end(bq) = With(fr0, d)
    <3>1. Len(bq) - 1 = Len(fr)
      BY <1>1
    <3>2. [prev EXCEPT !.bufflen = @ - (NC_SSH_END_LEN - b.buffpos), !.buffpos = 0] = d
      BY <2>5, <2>6, Constants DEF Settle
    <3>3. cut_end(bq) = ReplaceAt(fr, Len(bq) - 1, [prev EXCEPT !.bufflen = @ - (NC_SSH_END_LEN - b.buffpos), !.buffpos = 0])
      BY <1>1, <1>7, <2>2 DEF cut_end
    <3> QED BY <2>10, <3>1, <3>2, <3>3
  <2>12. With(fr0, d) \in Seq(HeldBuffer)
    BY <2>4, <2>8, Snoc1
  <2>13. PICK t0, pd : t0 = Text(fr0) /\ pd = prev.data
    OBVIOUS
  <2>14. t0 \in Seq(Byte) /\ pd \in Seq(Byte) /\ Len(pd) = SES_MSG_BUFFSIZE
    BY <2>4, <2>5, <2>13, TextSnoc, BufferFields DEF Bytes
  <2>15. Text(With(fr0, d)) = t0 \o SubSeq(pd, 1, l)
    BY <2>4, <2>8, <2>13, TextSnoc
  <2>16. t = t0 \o pd
    BY <2>4, <2>13, TextSnoc, <2>5, Taken, <1>3, <2>3
  <2>17. SubSeq(t0 \o pd, 1, Len(t0) + l) = t0 \o SubSeq(pd, 1, l)
    BY <2>7, <2>13, <2>14, PrefixLong
  <2>18. Len(t) = Len(t0) + SES_MSG_BUFFSIZE /\ Len(t0) \in Nat
    BY <2>14, <2>16, Cat, LenProperties
  <2>19. Len(t0) + l \in 0..Len(t) /\ Len(t0) + l = Len(h) - 6
    <3>1. l = SES_MSG_BUFFSIZE - (6 - b.buffpos) /\ l \in 0..SES_MSG_BUFFSIZE /\ b.buffpos \in Nat
      BY <1>1, <2>5, <2>6, <2>7, Constants
    <3>2. Len(h) = Len(t0) + SES_MSG_BUFFSIZE + b.buffpos
      BY <1>4, <1>5, <2>18
    <3>3. SES_MSG_BUFFSIZE \in Nat
      BY Constants
    <3> QED BY <2>18, <3>1, <3>2, <3>3
  <2>20. SubSeq(t \o bd, 1, Len(t0) + l) = SubSeq(t, 1, Len(t0) + l)
    BY <1>4, <2>19, PrefixShort
  <2>21. Len(bq) # 1
    BY <1>1, <2>3
  <2>22. Compact(cut_end(bq))
    BY <2>3, <2>8, <2>11 DEF Compact
  <2> QED BY <1>4, <2>11, <2>12, <2>15, <2>16, <2>17, <2>19, <2>20, <2>21, <2>22
<1> QED BY <1>6, <1>7

\* The buffers of a chunked message that ends.
LEMMA FinishBuffs ==
  ASSUME NEW m, NEW fr, NEW b, NEW h, NEW room, Keeps(m, fr, b, h, room), NEW bq, bq = m.buffQ
  PROVE  finish_buffs(bq) \in Seq(HeldBuffer) /\ Compact(finish_buffs(bq)) /\ Text(finish_buffs(bq)) = h
<1>1. /\ fr \in Seq(HeldBuffer) /\ b \in HeldBuffer /\ b \in Buffer /\ Last(bq) = b /\ Front(bq) = fr
      /\ b.data \in Bytes /\ Len(b.data) = b.buffpos /\ b.buffpos \in 0..SES_MSG_BUFFSIZE /\ Text(fr) \in Bytes
  BY KeepsIs
<1>2. h = Text(fr) \o b.data /\ fr \in Seq(FullBuffer)
  BY DEF Keeps
<1>3. PICK t, bd : t = Text(fr) /\ bd = b.data
  OBVIOUS
<1>4. h = t \o bd /\ t \in Bytes /\ bd \in Bytes
  BY <1>1, <1>2, <1>3
<1>5. CASE b.buffpos = 0
  BY <1>1, <1>3, <1>5, EmptySeq, <1>4, ConcatEmptySeq, <1>2 DEF Bytes, finish_buffs, Compact
<1>6. CASE b.buffpos # 0
  <2>1. PICK d, l : l = b.buffpos /\ d = Settle(b, l)
    OBVIOUS
  <2>2. l \in 0..Len(b.data)
    BY <1>1, <2>1
  <2>3. d \in HeldBuffer /\ d.data = b.data /\ d.bufflen = l
    BY <1>1, <2>1, <2>2, Settled
  <2>4. finish_buffs(bq) = With(fr, d)
    BY <1>1, <1>6, <2>1 DEF finish_buffs, With, Settle
  <2>5. With(fr, d) \in Seq(HeldBuffer)
    BY <1>1, <2>3, Snoc1
  <2>6. Text(With(fr, d)) = t \o SubSeq(d.data, 1, d.bufflen)
    BY <1>1, <1>3, <2>3, TextSnoc
  <2>7. SubSeq(d.data, 1, d.bufflen) = bd
    BY <1>1, <1>3, <2>1, <2>3, Taken
  <2>8. Compact(With(fr, d))
    BY <1>2, <2>3 DEF Compact
  <2> QED BY <1>4, <2>4, <2>5, <2>6, <2>7, <2>8
<1> QED BY <1>5, <1>6

\* What PartialTextSound calls the partial text.
LEMMA PartialText ==
  ASSUME NEW done \in Seq(ReadyMessage), NEW h, NEW x, NEW c, Begins(msgQ, done, h, x, c)
  PROVE  /\ partial_text = h
         /\ h # <<>> => Len(msgQ) = Len(done) + 1
<1>1. CASE msgQ = done /\ h = <<>>
  BY <1>1, AllReady DEF partial_text
<1>2. CASE Holds(msgQ, done, h, x, c, 0)
  <2>1. PICK m, fr, b, bq : Adds(msgQ, done, m) /\ m = Unfinished(bq, x, c) /\ Keeps(m, fr, b, h, 0)
    BY <1>2 DEF Holds
  <2>2. curmsg(msgQ).ready = FALSE /\ msgQ # <<>>
    BY <2>1, NotAllReady
  <2>3. curmsg(msgQ) = m /\ Len(msgQ) = Len(done) + 1 /\ curbuff(msgQ) = b
    BY <2>1, LastIs, CurrentIs
  <2>4. Front(m.buffQ) = fr /\ Len(b.data) = b.buffpos /\ b.data \in Bytes
    BY <2>1, KeepsIs
  <2>5. PICK k : k = [m EXCEPT !.buffQ = fr]
    OBVIOUS
  <2>6. k.buffQ = fr
    BY <2>1, <2>5 DEF Unfinished
  <2>7. text_of(k) = Text(fr)
    BY <2>6, TextOf
  <2>8. SubSeq(b.data, 1, b.buffpos) = b.data
    BY <2>4, SubSeqFull DEF Bytes
  <2>9. partial_text = text_of([m EXCEPT !.buffQ = Front(m.buffQ)]) \o SubSeq(b.data, 1, b.buffpos)
    BY <2>2, <2>3 DEF partial_text
  <2>10. h = Text(fr) \o b.data
    BY <2>1 DEF Keeps
  <2> QED BY <2>3, <2>4, <2>5, <2>7, <2>8, <2>9, <2>10
<1> QED BY <1>1, <1>2 DEF Begins

-----------------------------------------------------------------------------
(* The text of a chunk is laid into buffers (fill) *)

\* How many buffers of B bytes n bytes need, and where the i-th one ends.
LEMMA Needed ==
  ASSUME NEW n \in Nat \ {0}, NEW B \in Nat \ {0}, NEW more, more = (n + B - 1) \div B
  PROVE  /\ more \in Nat \ {0} /\ (more - 1) * B < n /\ n <= more * B
         /\ \A i \in 1..more - 1 : i * B <= (more - 1) * B
<1>1. n + B - 1 \in Nat
  OBVIOUS
<1>2. more \in Nat /\ more * B <= n + B - 1 /\ n + B - 1 < (more + 1) * B
  BY <1>1
<1>3. (more + 1) * B = more * B + B /\ (more - 1) * B = more * B - B
  BY <1>2
<1>4. PICK p : p = more * B
  OBVIOUS
<1>5. p \in Nat /\ n <= p /\ p - B < n
  BY <1>2, <1>3, <1>4
<1>6. more # 0
  BY <1>4, <1>5
<1>7. \A i \in 1..more - 1 : i * B <= (more - 1) * B
  BY <1>2
<1> QED BY <1>2, <1>3, <1>4, <1>5, <1>6, <1>7

\* A new buffer with its text.
NewPiece(text) == [put(new_buff, text) EXCEPT !.bufflen = Len(text)]

LEMMA NewPieceIs ==
  ASSUME NEW text \in Bytes, Len(text) <= SES_MSG_BUFFSIZE, NEW d, d = NewPiece(text)
  PROVE  /\ d \in OpenBuffer /\ d.data = text /\ d.bufflen = Len(text)
         /\ Len(text) = SES_MSG_BUFFSIZE => d \in FullBuffer
<1>1. Len(text) \in Nat /\ new_buff.buffpos + Len(text) = Len(text)
  BY NewBuff, LenProperties DEF Bytes
<1>2. PICK e : e = put(new_buff, text)
  OBVIOUS
<1>3. e \in OpenBuffer /\ e.data = new_buff.data \o text /\ e.buffpos = Len(text)
  BY <1>1, <1>2, NewBuff, PutIs
<1>4. e.data = text
  BY <1>3, NewBuff, ConcatEmptySeq DEF Bytes
<1>5. e \in Buffer
  BY <1>3, BufferKinds
<1>6. e = [data |-> e.data, buffpos |-> e.buffpos, bufflen |-> e.bufflen]
  BY <1>5, BufferFields
<1>7. PICK l, k : l = Len(text) /\ k = [data |-> text, buffpos |-> l, bufflen |-> l]
  OBVIOUS
<1>8. d = k
  BY <1>3, <1>4, <1>6, <1>7, <1>2 DEF NewPiece
<1>9. l \in 0..SES_MSG_BUFFSIZE
  BY <1>1, <1>7, Constants
<1>10. k \in Buffer /\ k.data = text /\ k.buffpos = l /\ k.bufflen = l
  BY <1>7, <1>9, BufferIs
<1>11. k \in OpenBuffer
  BY <1>7, <1>9, <1>10 DEF OpenBuffer
<1>12. Len(text) = SES_MSG_BUFFSIZE => k \in FullBuffer
  BY <1>7, <1>10 DEF FullBuffer
<1> QED BY <1>7, <1>8, <1>10, <1>11, <1>12

\* Bytes laid into whole buffers and a last one.
PiecesOf(r, more) ==
  [i \in 1..more |-> NewPiece(SubSeq(r, (i - 1) * SES_MSG_BUFFSIZE + 1,
                                     IF i = more THEN Len(r) ELSE i * SES_MSG_BUFFSIZE))]

LaidOut(s, gr, r) == \E fr \in Seq(FullBuffer), b \in OpenBuffer :
  s = With(fr, b) /\ Text(fr) \o b.data = Text(gr) \o r

LEMMA Pieces ==
  ASSUME NEW gr \in Seq(FullBuffer), NEW r \in Bytes, r # <<>>, NEW more,
         more = (Len(r) + SES_MSG_BUFFSIZE - 1) \div SES_MSG_BUFFSIZE,
         NEW P, P = PiecesOf(r, more)
  PROVE  LaidOut(gr \o P, gr, r)
<1> DEFINE B == SES_MSG_BUFFSIZE
           n == Len(r)
           end(i) == IF i = more THEN n ELSE i * B
           piece(i) == SubSeq(r, (i - 1) * B + 1, end(i))
<1>1. B \in Nat \ {0} /\ n \in Nat \ {0} /\ r \in Seq(Byte)
  BY Constants, EmptySeq DEF Bytes
<1>2. /\ more \in Nat \ {0} /\ (more - 1) * B < n /\ n <= more * B
      /\ \A i \in 1..more - 1 : i * B <= (more - 1) * B
  <2> HIDE DEF B, n
  <2>1. more = (n + B - 1) \div B
    BY DEF n, B
  <2> QED BY <1>1, <2>1, Needed
<1> HIDE DEF B, n
<1>3. ASSUME NEW i \in 1..more
      PROVE  /\ (i - 1) * B \in 0..n /\ end(i) \in (i - 1) * B..n /\ end(i) - (i - 1) * B <= B
             /\ i # more => end(i) = (i - 1) * B + B
  <2>1. i * B = (i - 1) * B + B /\ i - 1 \in Nat /\ (i - 1) * B \in Nat
    BY <1>1, <1>2
  <2>2. CASE i = more
    <3>1. more * B = (more - 1) * B + B
      BY <2>1, <2>2
    <3>2. PICK p : p = (more - 1) * B
      OBVIOUS
    <3>3. (i - 1) * B = p /\ end(i) = n /\ p \in Nat /\ p < n /\ n <= p + B
      BY <1>1, <1>2, <2>1, <2>2, <3>1, <3>2
    <3> QED BY <1>1, <2>2, <3>3
  <2>3. CASE i # more
    <3>1. i \in 1..more - 1
      BY <1>2, <2>3
    <3>2. i * B <= (more - 1) * B
      BY <1>2, <3>1
    <3>3. PICK p, s : p = (i - 1) * B /\ s = (more - 1) * B
      OBVIOUS
    <3>4. end(i) = p + B /\ p \in Nat /\ p + B <= s /\ s < n
      BY <1>2, <2>1, <2>3, <3>2, <3>3
    <3>5. s \in Nat
      BY <1>2, <1>1, <3>3
    <3> QED BY <1>1, <2>3, <3>3, <3>4, <3>5
  <2> QED BY <2>2, <2>3
<1>4. ASSUME NEW i \in 1..more
      PROVE  /\ piece(i) \in Bytes /\ Len(piece(i)) <= B
             /\ i # more => Len(piece(i)) = B
  <2>1. PICK lo, hi : lo = (i - 1) * B /\ hi = end(i)
    OBVIOUS
  <2>2. lo \in 0..n /\ hi \in lo..n /\ hi - lo <= B /\ (i # more => hi = lo + B)
    BY <1>3, <2>1
  <2>3. lo + 1 \in Int /\ hi \in Int /\ \A j \in lo + 1..hi : r[j] \in Byte
    BY <1>1, ElementOfSeq, <2>2 DEF n
  <2>4. PICK s : s = SubSeq(r, lo + 1, hi)
    OBVIOUS
  <2>5. s \in Seq(Byte) /\ Len(s) = IF lo + 1 <= hi THEN hi - (lo + 1) + 1 ELSE 0
    BY <2>3, <2>4, SubSeqProperties
  <2>6. Len(s) = hi - lo
    BY <1>1, <2>2, <2>5
  <2>7. piece(i) = s
    BY <2>1, <2>4
  <2>8. hi - lo <= B /\ (i # more => hi - lo = B)
    BY <1>1, <2>2
  <2> QED BY <2>5, <2>6, <2>7, <2>8 DEF Bytes
<1>5. ASSUME NEW i \in 1..more
      PROVE  /\ P[i] \in OpenBuffer /\ P[i].data = piece(i) /\ P[i].bufflen = Len(piece(i))
             /\ i # more => P[i] \in FullBuffer
  BY <1>4, NewPieceIs DEF B, n, PiecesOf
<1>6. P \in Seq(OpenBuffer) /\ Len(P) = more /\ P # <<>>
  <2>1. \A i \in 1..more : P[i] \in OpenBuffer
    BY <1>5
  <2>2. P \in [1..more -> OpenBuffer]
    BY <2>1 DEF PiecesOf
  <2>3. more \in Nat /\ more # 0
    BY <1>2
  <2>4. PICK R : R = P
    OBVIOUS
  <2>5. R \in [1..more -> OpenBuffer]
    BY <2>2, <2>4
  <2>6. R \in Seq(OpenBuffer) /\ Len(R) = more
    BY <2>3, <2>5
  <2>7. R # <<>>
    BY <2>3, <2>6, EmptySeq
  <2> QED BY <2>4, <2>6, <2>7
<1> DEFINE first(j) == SubSeq(P, 1, j)
           T == {j \in 0..more - 1 : /\ first(j) \in Seq(FullBuffer)
                                     /\ gr \o first(j) \in Seq(FullBuffer)
                                     /\ Text(gr \o first(j)) = Text(gr) \o SubSeq(r, 1, j * B)}
<1>7. PICK R : R = P
  OBVIOUS
<1>8. R \in Seq(OpenBuffer) /\ Len(R) = more
  BY <1>6, <1>7
<1>9. gr \in Seq(HeldBuffer) /\ Text(gr) \in Bytes
  BY BufferKinds, SeqMonotonic, TextSnoc, NewBuff
<1>10. 0 \in T
  <2>1. SubSeq(R, 1, 0) = <<>> /\ SubSeq(r, 1, 0) = <<>>
    <3>1. SubSeq(R, 1, 0) \in Seq(OpenBuffer) /\ Len(SubSeq(R, 1, 0)) = 0
      BY <1>2, <1>8, Split
    <3>2. SubSeq(r, 1, 0) \in Seq(Byte) /\ Len(SubSeq(r, 1, 0)) = 0
      BY <1>1, Split DEF n
    <3> QED BY <3>1, <3>2, EmptySeq
  <2>2. first(0) = <<>> /\ 0 * B = 0 /\ 0 \in 0..more - 1
    BY <1>1, <1>2, <1>7, <2>1
  <2>3. gr \o <<>> = gr
    BY ConcatEmptySeq
  <2>4. Text(gr) \o <<>> = Text(gr)
    BY <1>9, ConcatEmptySeq DEF Bytes
  <2>5. <<>> \in Seq(FullBuffer)
    OBVIOUS
  <2> HIDE DEF first
  <2> QED BY <2>1, <2>2, <2>3, <2>4, <2>5
<1>11. ASSUME NEW j \in 1..more - 1, j - 1 \in T PROVE j \in T
  <2>1. PICK F, c : F = first(j - 1) /\ c = P[j]
    OBVIOUS
  <2>2. /\ F \in Seq(FullBuffer) /\ gr \o F \in Seq(FullBuffer)
        /\ Text(gr \o F) = Text(gr) \o SubSeq(r, 1, (j - 1) * B)
    BY <1>11, <2>1
  <2>3. j \in 1..more /\ j # more /\ j - 1 \in Nat /\ j \in Nat
    BY <1>2
  <2>4. c \in FullBuffer /\ c.data = piece(j) /\ c.bufflen = Len(c.data) /\ c \in OpenBuffer
    BY <1>5, <2>1, <2>3
  <2>5. first(j) = F \o <<c>>
    BY <1>8, <2>3, SubSeqRecursiveSecond, <1>7, <2>1
  <2>6. <<c>> \in Seq(FullBuffer)
    BY <2>4
  <2>7. first(j) \in Seq(FullBuffer)
    BY <2>2, <2>5, <2>6, Cat
  <2>8. PICK G : G = gr \o F
    OBVIOUS
  <2>9. gr \o first(j) = With(G, c)
    <3>1. gr \o (F \o <<c>>) = (gr \o F) \o <<c>>
      BY <2>2, <2>6, ConcatAssociative
    <3>2. Append(G, c) = G \o <<c>>
      BY <2>2, <2>4, <2>8, AppendIsConcat
    <3> QED BY <2>5, <2>8, <3>1, <3>2 DEF With
  <2>10. G \in Seq(FullBuffer) /\ G \in Seq(HeldBuffer) /\ c \in HeldBuffer
    BY <2>2, <2>4, <2>8, BufferKinds, SeqMonotonic
  <2>11. With(G, c) \in Seq(FullBuffer)
    BY <2>4, <2>10, Snoc1
  <2>12. Text(With(G, c)) = Text(G) \o SubSeq(c.data, 1, c.bufflen)
    BY <2>10, TextSnoc
  <2>13. SubSeq(c.data, 1, c.bufflen) = piece(j)
    BY <2>4, <2>10, Taken
  <2>14. Text(With(G, c)) = Text(gr) \o SubSeq(r, 1, j * B)
    <3>1. PICK lo, hi : lo = (j - 1) * B /\ hi = j * B
      OBVIOUS
    <3>2. lo \in 0..n /\ hi \in lo..n /\ end(j) = hi
      BY <1>3, <2>3, <3>1
    <3>3. SubSeq(r, 1, lo) \o SubSeq(r, lo + 1, hi) = SubSeq(r, 1, hi)
      BY <1>1, <3>2, ConcatAdjacentSubSeq DEF n
    <3>4. SubSeq(r, 1, lo) \in Bytes
      BY <3>2, <1>1, Split DEF n, Bytes
    <3>5. piece(j) \in Bytes
      BY <1>4, <2>3
    <3>6. PICK t, u, v : t = Text(gr) /\ u = SubSeq(r, 1, lo) /\ v = piece(j)
      OBVIOUS
    <3>7. (t \o u) \o v = t \o (u \o v)
      BY <1>9, <3>4, <3>5, <3>6, Assoc
    <3>8. v = SubSeq(r, lo + 1, hi)
      BY <3>1, <3>2, <3>6
    <3>9. Text(G) = t \o u
      BY <2>2, <2>8, <3>1, <3>6
    <3>10. Text(With(G, c)) = (t \o u) \o v
      BY <2>12, <2>13, <3>6, <3>9
    <3>11. u \o v = SubSeq(r, 1, hi)
      BY <3>3, <3>6, <3>8
    <3> QED BY <3>1, <3>6, <3>7, <3>10, <3>11
  <2>15. j \in 0..more - 1
    BY <2>3
  <2> HIDE DEF first
  <2> QED BY <2>7, <2>9, <2>11, <2>14, <2>15
<1>12. more - 1 \in T
  <2> HIDE DEF T
  <2>1. more - 1 \in Nat
    BY <1>2
  <2> QED BY <1>10, <1>11, <2>1, Induction
<1>13. PICK fr, b : fr = gr \o first(more - 1) /\ b = P[more]
  OBVIOUS
<1>14. more \in 1..more
  BY <1>2
<1>15. fr \in Seq(FullBuffer) /\ b \in OpenBuffer /\ b.data = piece(more)
  BY <1>5, <1>12, <1>13, <1>14
<1>16. gr \o P = With(fr, b)
  <2>1. R # <<>>
    BY <1>6, <1>7
  <2>2. R = With(Front(R), Last(R)) /\ Front(R) \in Seq(OpenBuffer) /\ Last(R) \in OpenBuffer
    BY <1>8, <2>1, Unsnoc
  <2>3. Front(R) = first(more - 1) /\ Last(R) = b
    BY <1>7, <1>8, <1>13 DEF Front, Last
  <2>4. PICK F : F = first(more - 1)
    OBVIOUS
  <2>5. R = F \o <<b>> /\ F \in Seq(OpenBuffer)
    BY <2>2, <2>3, <2>4, AppendIsConcat DEF With
  <2>6. F \in Seq(Buffer) /\ <<b>> \in Seq(Buffer) /\ gr \in Seq(Buffer) /\ fr \in Seq(Buffer) /\ b \in Buffer
    BY <1>15, <2>5, BufferKinds, SeqMonotonic
  <2>7. gr \o (F \o <<b>>) = (gr \o F) \o <<b>>
    BY <2>6, ConcatAssociative
  <2>8. Append(fr, b) = fr \o <<b>>
    BY <2>6, AppendIsConcat
  <2> QED BY <1>7, <1>13, <2>4, <2>5, <2>7, <2>8 DEF With
<1>17. Text(fr) \o b.data = Text(gr) \o r
  <2>1. PICK lo : lo = (more - 1) * B
    OBVIOUS
  <2>2. lo \in 0..Len(r)
    BY <1>3, <1>14, <2>1 DEF n
  <2>3. piece(more) = SubSeq(r, lo + 1, Len(r))
    BY <2>1 DEF n
  <2>4. PICK t, u, v : t = Text(gr) /\ u = SubSeq(r, 1, lo) /\ v = SubSeq(r, lo + 1, Len(r))
    OBVIOUS
  <2>5. u \in Bytes /\ v \in Bytes /\ r = u \o v
    BY <1>1, <2>2, <2>4, Split DEF Bytes
  <2>6. (t \o u) \o v = t \o (u \o v)
    BY <1>9, <2>4, <2>5, Assoc
  <2>7. Text(fr) = t \o u
    BY <1>12, <1>13, <2>1, <2>4
  <2>8. b.data = v
    BY <1>15, <2>3, <2>4
  <2> QED BY <2>4, <2>5, <2>6, <2>7, <2>8
<1> QED BY <1>15, <1>16, <1>17 DEF LaidOut

\* Text laid into the buffers of a message.
LEMMA FillIs ==
  ASSUME NEW m, NEW fr, NEW b, NEW h, NEW room, Keeps(m, fr, b, h, room), NEW text \in Bytes,
         NEW bq, bq = m.buffQ
  PROVE  \E gr \in Seq(FullBuffer), d \in OpenBuffer :
           fill(bq, text) = With(gr, d) /\ Text(gr) \o d.data = h \o text
<1> DEFINE B == SES_MSG_BUFFSIZE
           obl == B - b.buffpos
<1>1. /\ fr \in Seq(HeldBuffer) /\ b \in HeldBuffer /\ Last(bq) = b /\ Front(bq) = fr
      /\ b.data \in Bytes /\ Len(b.data) = b.buffpos /\ b.buffpos \in 0..SES_MSG_BUFFSIZE /\ Text(fr) \in Bytes
  BY KeepsIs
<1>2. fr \in Seq(FullBuffer) /\ b \in OpenBuffer /\ h = Text(fr) \o b.data
  BY DEF Keeps
<1>3. PICK t, bd : t = Text(fr) /\ bd = b.data
  OBVIOUS
<1>4. t \in Bytes /\ bd \in Bytes /\ h = t \o bd
  BY <1>1, <1>2, <1>3
<1>5. Len(text) \in Nat /\ B \in Nat /\ obl \in 0..B
  BY <1>1, Constants, LenProperties DEF Bytes
<1>6. CASE obl >= Len(text)
  <2>1. PICK d : d = put(b, text)
    OBVIOUS
  <2>2. b.buffpos + Len(text) <= SES_MSG_BUFFSIZE
    BY <1>1, <1>5, <1>6
  <2>3. d \in OpenBuffer /\ d.data = bd \o text
    BY <1>2, <1>3, <2>1, <2>2, PutIs
  <2>4. fill(bq, text) = With(fr, d)
    BY <1>1, <1>6, <2>1 DEF fill, With
  <2>5. (t \o bd) \o text = t \o (bd \o text)
    BY <1>4, Assoc
  <2> QED BY <1>2, <1>3, <1>4, <2>3, <2>4, <2>5
<1>7. CASE ~(obl >= Len(text))
  <2>1. PICK t1, r : t1 = SubSeq(text, 1, obl) /\ r = SubSeq(text, obl + 1, Len(text))
    OBVIOUS
  <2>2. t1 \in Bytes /\ Len(t1) = obl /\ r \in Bytes /\ Len(r) = Len(text) - obl /\ text = t1 \o r
    <3>1. obl \in 0..Len(text)
      BY <1>5, <1>7
    <3> QED BY <2>1, <3>1, Split DEF Bytes
  <2>3. r # <<>>
    BY <1>5, <1>7, <2>2
  <2>4. PICK e : e = put(b, t1)
    OBVIOUS
  <2>5. b.buffpos + Len(t1) <= SES_MSG_BUFFSIZE /\ b.buffpos + Len(t1) = SES_MSG_BUFFSIZE
    <3>1. Len(t1) = SES_MSG_BUFFSIZE - b.buffpos
      BY <2>2
    <3>2. b.buffpos \in Int /\ SES_MSG_BUFFSIZE \in Int
      BY <1>1, <1>5
    <3> QED BY <3>1, <3>2
  <2>6. e \in OpenBuffer /\ e.data = bd \o t1 /\ e.buffpos = SES_MSG_BUFFSIZE
    BY <1>2, <1>3, <2>2, <2>4, <2>5, PutIs
  <2>7. PICK d1 : d1 = close_buff(e)
    OBVIOUS
  <2>8. d1 \in FullBuffer /\ d1.data = bd \o t1
    BY <2>6, <2>7, CloseIs
  <2>9. PICK gr : gr = With(fr, d1)
    OBVIOUS
  <2>10. gr \in Seq(FullBuffer) /\ d1 \in HeldBuffer /\ d1.bufflen = Len(d1.data)
    BY <1>2, <2>8, <2>9, Snoc1, BufferKinds DEF FullBuffer
  <2>11. Text(gr) = t \o (bd \o t1)
    BY <1>1, <1>3, <2>10, TextSnoc, <2>8, Taken, <2>9
  <2>12. PICK more, P : /\ more = (Len(r) + SES_MSG_BUFFSIZE - 1) \div SES_MSG_BUFFSIZE
                        /\ P = PiecesOf(r, more)
    OBVIOUS
  <2>13. PICK fr2 \in Seq(FullBuffer), d \in OpenBuffer :
           gr \o P = With(fr2, d) /\ Text(fr2) \o d.data = Text(gr) \o r
    <3>1. LaidOut(gr \o P, gr, r)
      BY <2>2, <2>3, <2>10, <2>12, Pieces
    <3> QED BY <3>1 DEF LaidOut
  <2>14. fill(bq, text) = Append(fr, d1) \o P
    BY <1>1, <1>7, <2>1, <2>4, <2>7, <2>12 DEF fill, NewPiece, PiecesOf
  <2>15. fill(bq, text) = With(fr2, d)
    BY <2>9, <2>13, <2>14 DEF With
  <2>16. (t \o (bd \o t1)) \o r = (t \o bd) \o (t1 \o r)
    <3>1. bd \o t1 \in Bytes /\ t1 \o r \in Bytes
      BY <1>4, <2>2, Cat DEF Bytes
    <3>2. (t \o (bd \o t1)) \o r = t \o ((bd \o t1) \o r)
      BY <1>4, <2>2, <3>1, Assoc, ZenonT(30)
    <3>3. (bd \o t1) \o r = bd \o (t1 \o r)
      BY <1>4, <2>2, Assoc
    <3>4. (t \o bd) \o (t1 \o r) = t \o (bd \o (t1 \o r))
      BY <1>4, <3>1, Assoc
    <3> QED BY <3>2, <3>3, <3>4
  <2>17. Text(fr2) \o d.data = h \o text
    BY <1>4, <2>2, <2>11, <2>13, <2>16
  <2> QED BY <2>13, <2>15, <2>17
<1> QED BY <1>6, <1>7

\* A chunk grows by the text of a read.
LEMMA Filled ==
  ASSUME NEW q, NEW done, NEW h, NEW x, NEW c, NEW room, Holds(q, done, h, x, c, room),
         NEW text \in Bytes, NEW k, Sizes(x, k)
  PROVE  Holds(set_msg(q, [curmsg(q) EXCEPT !.curchunksize = k, !.buffQ = fill(curmsg(q).buffQ, text)]),
               done, h \o text, x, k, 0)
<1>1. PICK m, fr, b, bq : Adds(q, done, m) /\ m = Unfinished(bq, x, c) /\ Keeps(m, fr, b, h, room)
  BY DEF Holds
<1>2. curmsg(q) = m /\ m.buffQ = bq
  BY <1>1, LastIs, UnfinishedIs
<1>3. PICK gr \in Seq(FullBuffer), d \in OpenBuffer :
        fill(bq, text) = With(gr, d) /\ Text(gr) \o d.data = h \o text
  BY <1>1, <1>2, FillIs
<1>4. PICK cq : cq = fill(bq, text)
  OBVIOUS
<1>5. gr \in Seq(Buffer) /\ d \in Buffer
  BY BufferKinds, SeqMonotonic
<1>6. cq = With(gr, d) /\ cq \in Seq(Buffer)
  BY <1>3, <1>4, <1>5, Snoc1
<1>7. PICK e : e = Unfinished(cq, x, k)
  OBVIOUS
<1>8. [m EXCEPT !.curchunksize = k, !.buffQ = cq] = e
  <2>1. PICK i : i = Unfinished(bq, x, k)
    OBVIOUS
  <2>2. [m EXCEPT !.curchunksize = k] = i
    BY <1>1, <2>1 DEF Unfinished
  <2>3. [i EXCEPT !.buffQ = cq] = e
    BY <1>7, <2>1 DEF Unfinished
  <2>4. [m EXCEPT !.curchunksize = k, !.buffQ = cq] = [[m EXCEPT !.curchunksize = k] EXCEPT !.buffQ = cq]
    OBVIOUS
  <2> QED BY <2>2, <2>3, <2>4
<1>9. e \in Message
  BY <1>6, <1>7, MessageIs
<1>10. Adds(set_msg(q, e), done, e)
  BY <1>1, <1>9, LastSet
<1>11. Keeps(e, gr, d, h \o text, 0)
  BY <1>6, <1>7, UnfinishedIs, <1>5, BufferFields, Constants, <1>3 DEF Keeps
<1>12. Holds(set_msg(q, e), done, h \o text, x, k, 0)
  BY <1>7, <1>10, <1>11 DEF Holds
<1> QED BY <1>2, <1>4, <1>8, <1>12

-----------------------------------------------------------------------------
(* Folds: the number of some digits, the output of some bytes *)

\* The step of a fold: over the digits of a number, the messages of a queue and their
\* buffers, the documents and the buffers they need, or over the bytes of a document.
Advance(kind, w, ch) ==
  IF kind = "number" THEN 10 * w + (ch - 48)
  ELSE IF kind = "messages" THEN w + Len(ch.buffQ)
  ELSE IF kind = "documents" THEN w + needed(ch)
  ELSE ses_putchar(kind = "chunks", w, ch)

\* The function that FoldLeft picks: the fold of each set of positions.
IsFold(g, kind, w, list, n) ==
  g = [s \in SUBSET (1..n) |->
         IF s = {} THEN w ELSE Advance(kind, g[s \ {Max(s)}], list[Max(s)])]

LEMMA FoldExists ==
  ASSUME NEW kind, NEW w, NEW list, NEW n \in Nat
  PROVE  \E g : IsFold(g, kind, w, list, n)
<1> DEFINE Step(g, s) == IF s = {} THEN w ELSE Advance(kind, g[s \ {Max(s)}], list[Max(s)])
           T == {k \in 0..n : \E g : IsFold(g, kind, w, list, k)}
<1>1. 0 \in T
  <2> DEFINE g == [s \in SUBSET (1..0) |-> w]
  <2>1. 1..0 = {}
    OBVIOUS
  <2>2. \A s \in SUBSET (1..0) : s = {}
    BY <2>1
  <2>3. IsFold(g, kind, w, list, 0)
    BY <2>2 DEF IsFold
  <2> QED BY <2>3
<1>2. ASSUME NEW k \in 1..n, k - 1 \in T PROVE k \in T
  <2>1. PICK g0 : IsFold(g0, kind, w, list, k - 1)
    BY <1>2
  <2>2. \A s \in SUBSET (1..(k-1)) : g0[s] = Step(g0, s)
    BY <2>1 DEF IsFold
  <2> DEFINE g == [s \in SUBSET (1..k) |->
                     IF k \in s THEN Advance(kind, g0[s \ {k}], list[k]) ELSE g0[s]]
  <2>3. ASSUME NEW s \in SUBSET (1..k) PROVE g[s] = Step(g, s)
    <3>1. CASE k \in s
      <4>1. Max(s) = k
        BY <3>1, MaxIs
      <4>2. s \ {k} \in SUBSET (1..k) /\ k \notin s \ {k} /\ s # {}
        BY <3>1
      <4>3. g[s \ {k}] = g0[s \ {k}]
        BY <4>2
      <4>4. g[s] = Advance(kind, g0[s \ {k}], list[k])
        BY <3>1
      <4> QED BY <4>1, <4>2, <4>3, <4>4
    <3>2. CASE k \notin s
      <4>1. s \in SUBSET (1..(k-1))
        <5>1. ASSUME NEW i \in s PROVE i \in 1..(k-1)
          BY <3>2
        <5> QED BY <5>1
      <4>2. g0[s] = Step(g0, s)
        BY <2>2, <4>1
      <4>3. g[s] = g0[s]
        BY <3>2
      <4>4. CASE s = {}
        BY <4>2, <4>3, <4>4
      <4>5. CASE s # {}
        BY <3>2, <4>2, <4>3, <4>5
      <4> QED BY <4>4, <4>5
    <3> QED BY <3>1, <3>2
  <2>4. IsFold(g, kind, w, list, k)
    BY <2>3 DEF IsFold
  <2> QED BY <2>4
<1> HIDE DEF T
<1>3. n \in T
  BY <1>1, <1>2, Induction
<1> QED BY <1>3 DEF T

\* It goes through the folds of the first 0, 1, ... elements.
IsRun(f, kind, w, list, n) ==
  f[0] = w /\ \A k \in 1..n : f[k] = Advance(kind, f[k-1], list[k])

LEMMA FoldSteps ==
  ASSUME NEW kind, NEW w, NEW list, NEW n \in Nat, NEW g, IsFold(g, kind, w, list, n)
  PROVE  IsRun([k \in 0..n |-> g[1..k]], kind, w, list, n)
<1> DEFINE Step(s) == IF s = {} THEN w ELSE Advance(kind, g[s \ {Max(s)}], list[Max(s)])
           f == [k \in 0..n |-> g[1..k]]
<1>1. \A s \in SUBSET (1..n) : g[s] = Step(s)
  BY DEF IsFold
<1>2. f[0] = w
  <2>1. 1..0 = {} /\ 1..0 \in SUBSET (1..n) /\ 0 \in 0..n
    OBVIOUS
  <2> QED BY <1>1, <2>1
<1>3. ASSUME NEW k \in 1..n PROVE f[k] = Advance(kind, f[k-1], list[k])
  <2>1. /\ k \in 1..k /\ 1..k \in SUBSET (1..n) /\ 1..k \in SUBSET Nat
        /\ \A y \in 1..k : k >= y
    OBVIOUS
  <2>2. Max(1..k) = k
    BY <2>1, MaxIs
  <2>3. (1..k) \ {k} = 1..(k-1) /\ k \in 0..n /\ k - 1 \in 0..n
    OBVIOUS
  <2>4. g[1..k] = Advance(kind, g[1..(k-1)], list[k])
    BY <1>1, <2>1, <2>2, <2>3
  <2> QED BY <2>3, <2>4
<1> QED BY <1>2, <1>3 DEF IsRun

LEMMA NumberRun ==
  ASSUME NEW s, NEW n \in Nat, DOMAIN s = 1..n
  PROVE  \E f : IsRun(f, "number", 0, s, n) /\ ncx_convert_num(s) = f[n]
<1> DEFINE G(g) == g = [t \in SUBSET (1..n) |->
                          IF t = {} THEN 0 ELSE 10 * g[t \ {Max(t)}] + (s[Max(t)] - 48)]
<1>1. PICK g : ncx_convert_num(s) = g[1..n] /\ g = CHOOSE f : G(f)
  BY DEF ncx_convert_num, FoldLeft, MapThenFoldSet
<1>2. \A f : G(f) <=> IsFold(f, "number", 0, s, n)
  BY DEF IsFold, Advance
<1>3. IsFold(g, "number", 0, s, n)
  BY <1>1, <1>2, FoldExists
<1>4. IsRun([k \in 0..n |-> g[1..k]], "number", 0, s, n)
  BY <1>3, FoldSteps
<1>5. [k \in 0..n |-> g[1..k]][n] = g[1..n]
  OBVIOUS
<1> QED BY <1>1, <1>4, <1>5

LEMMA PutstrRun ==
  ASSUME NEW framing11 \in BOOLEAN, NEW kind, kind = IF framing11 THEN "chunks" ELSE "eom",
         NEW o, NEW s, NEW n \in Nat, DOMAIN s = 1..n
  PROVE  \E f : IsRun(f, kind, o, s, n) /\ ses_putstr(framing11, o, s) = f[n]
<1> DEFINE G(g) == g = [t \in SUBSET (1..n) |->
                          IF t = {} THEN o ELSE ses_putchar(framing11, g[t \ {Max(t)}], s[Max(t)])]
<1>1. PICK g : ses_putstr(framing11, o, s) = g[1..n] /\ g = CHOOSE f : G(f)
  BY DEF ses_putstr, FoldLeft, MapThenFoldSet
<1>0. kind \notin {"number", "messages", "documents"} /\ (kind = "chunks") = framing11
  OBVIOUS
<1>2. \A f : G(f) <=> IsFold(f, kind, o, s, n)
  BY <1>0 DEF IsFold, Advance
<1>3. IsFold(g, kind, o, s, n)
  BY <1>1, <1>2, FoldExists
<1>4. IsRun([k \in 0..n |-> g[1..k]], kind, o, s, n)
  BY <1>3, FoldSteps
<1>5. [k \in 0..n |-> g[1..k]][n] = g[1..n]
  OBVIOUS
<1> QED BY <1>1, <1>4, <1>5

Digits == Seq(48..57)

LEMMA NumberEmpty == ncx_convert_num(<<>>) = 0
<1>1. DOMAIN <<>> = 1..0
  OBVIOUS
<1>2. PICK f : IsRun(f, "number", 0, <<>>, 0) /\ ncx_convert_num(<<>>) = f[0]
  BY <1>1, NumberRun
<1> QED BY <1>2 DEF IsRun

LEMMA NumberType ==
  ASSUME NEW s \in Digits
  PROVE  ncx_convert_num(s) \in Nat
<1>1. Len(s) \in Nat /\ DOMAIN s = 1..Len(s)
  BY LenProperties DEF Digits
<1>2. PICK f : IsRun(f, "number", 0, s, Len(s)) /\ ncx_convert_num(s) = f[Len(s)]
  BY <1>1, NumberRun
<1> DEFINE T == {k \in 0..Len(s) : f[k] \in Nat}
<1>3. 0 \in T
  BY <1>1, <1>2 DEF IsRun
<1>4. ASSUME NEW k \in 1..Len(s), k - 1 \in T PROVE k \in T
  <2>1. f[k] = 10 * f[k-1] + (s[k] - 48)
    BY <1>2 DEF IsRun, Advance
  <2>2. s[k] \in 48..57
    BY ElementOfSeq DEF Digits
  <2>3. f[k-1] \in Nat /\ k \in 0..Len(s)
    BY <1>1, <1>4
  <2>4. \A u \in Nat, v \in 48..57 : 10 * u + (v - 48) \in Nat
    OBVIOUS
  <2>5. 10 * f[k-1] + (s[k] - 48) \in Nat
    BY <2>2, <2>3, <2>4
  <2> QED BY <2>1, <2>3, <2>4, <2>5
<1> HIDE DEF T
<1>5. Len(s) \in T
  BY <1>1, <1>3, <1>4, Induction
<1> QED BY <1>2, <1>5 DEF T

LEMMA NumberSnoc ==
  ASSUME NEW s \in Digits, NEW ch \in 48..57, NEW t, t = With(s, ch)
  PROVE  t \in Digits /\ ncx_convert_num(t) = 10 * ncx_convert_num(s) + (ch - 48)
<1> DEFINE n == Len(s)
<1>1. n \in Nat /\ DOMAIN s = 1..n
  BY LenProperties DEF Digits
<1>2. t \in Seq(48..57) /\ Len(t) = n + 1 /\ (\A i \in 1..n : t[i] = s[i]) /\ t[n + 1] = ch
  BY AppendProperties DEF Digits, With
<1>3. DOMAIN t = 1..n + 1
  BY <1>2, LenProperties
<1>4. PICK f : IsRun(f, "number", 0, s, n) /\ ncx_convert_num(s) = f[n]
  BY <1>1, NumberRun
<1>5. PICK g : IsRun(g, "number", 0, t, n + 1) /\ ncx_convert_num(t) = g[n + 1]
  BY <1>1, <1>3, NumberRun
<1> HIDE DEF n
<1> DEFINE T == {k \in 0..n : f[k] = g[k]}
<1>6. 0 \in T
  BY <1>1, <1>4, <1>5 DEF IsRun
<1>7. ASSUME NEW k \in 1..n, k - 1 \in T PROVE k \in T
  <2>1. f[k] = Advance("number", f[k-1], s[k]) /\ g[k] = Advance("number", g[k-1], t[k])
    BY <1>1, <1>4, <1>5 DEF IsRun
  <2>2. f[k-1] = g[k-1] /\ t[k] = s[k] /\ k \in 0..n
    BY <1>1, <1>2, <1>7
  <2> QED BY <2>1, <2>2
<1> HIDE DEF T
<1>8. n \in T
  BY <1>1, <1>6, <1>7, Induction
<1>9. g[n + 1] = 10 * g[n] + (ch - 48)
  BY <1>1, <1>5, <1>2 DEF IsRun, Advance
<1> QED BY <1>2, <1>4, <1>5, <1>8, <1>9 DEF T, Digits

-----------------------------------------------------------------------------
(* The decimal digits of a number *)

\* The step of Decimal.
DigitsOf(f, n) == IF n < 10 THEN <<48 + n>> ELSE Append(f[n \div 10], 48 + (n % 10))

IsDecimal(f, n) == f = [i \in 0..n |-> DigitsOf(f, i)]

LEMMA Tenth ==
  ASSUME NEW n \in Nat
  PROVE  n \div 10 \in 0..n /\ (n # 0 => n \div 10 < n) /\ (n % 10) \in 0..9 /\ n = 10 * (n \div 10) + (n % 10)
         /\ (n >= 10 => n \div 10 # 0)
  OBVIOUS

\* The function exists up to every number.
LEMMA DecimalUpTo ==
  ASSUME NEW n \in Nat
  PROVE  \E f : IsDecimal(f, n)
<1> DEFINE T == {k \in 0..n : \E f : IsDecimal(f, k)}
<1>1. 0 \in T
  <2> DEFINE f == [i \in 0..0 |-> <<48 + i>>]
  <2>1. IsDecimal(f, 0)
    BY DEF IsDecimal, DigitsOf
  <2> QED BY <2>1
<1>2. ASSUME NEW k \in 1..n, k - 1 \in T PROVE k \in T
  <2>1. PICK f : IsDecimal(f, k - 1)
    BY <1>2
  <2>2. \A i \in 0..k-1 : f[i] = DigitsOf(f, i)
    BY <2>1 DEF IsDecimal
  <2> DEFINE g == [i \in 0..k |-> IF i = k THEN DigitsOf(f, k) ELSE f[i]]
  <2>3. ASSUME NEW i \in 0..k PROVE g[i] = DigitsOf(g, i)
    <3>1. \A j \in 0..k-1 : g[j] = f[j]
      OBVIOUS
    <3>2. g[i] = DigitsOf(f, i)
      BY <2>2
    <3>3. i >= 10 => g[i \div 10] = f[i \div 10]
      <4>1. i >= 10 => i \div 10 \in 0..k-1
        BY Tenth
      <4> QED BY <3>1, <4>1
    <3>4. i < 10 \/ i >= 10
      OBVIOUS
    <3> HIDE DEF g
    <3> QED BY <3>2, <3>3, <3>4 DEF DigitsOf
  <2>4. g = [i \in 0..k |-> g[i]]
    OBVIOUS
  <2>5. IsDecimal(g, k)
    <3> HIDE DEF g
    <3> QED BY <2>3, <2>4 DEF IsDecimal
  <2> QED BY <2>5
<1> HIDE DEF T
<1>3. n \in T
  BY <1>1, <1>2, Induction
<1> QED BY <1>3 DEF T

\* Two such functions agree where both are defined.
LEMMA DecimalAgrees ==
  ASSUME NEW n \in Nat, NEW m \in Nat, n <= m, NEW f, NEW g, IsDecimal(f, n), IsDecimal(g, m)
  PROVE  f[n] = g[n]
<1> DEFINE T == {k \in 0..n : \A j \in 0..k : f[j] = g[j]}
<1>1. \A i \in 0..n : f[i] = DigitsOf(f, i) /\ g[i] = DigitsOf(g, i)
  <2>1. \A i \in 0..n : i \in 0..m
    OBVIOUS
  <2> QED BY <2>1 DEF IsDecimal
<1>2. 0 \in T
  <2>1. \A j \in 0..0 : j = 0 /\ j \in 0..n /\ j < 10
    OBVIOUS
  <2>2. ASSUME NEW j \in 0..0 PROVE f[j] = g[j]
    <3>1. j \in 0..n /\ j < 10
      BY <2>1
    <3>2. f[j] = DigitsOf(f, j) /\ g[j] = DigitsOf(g, j)
      BY <1>1, <3>1
    <3> QED BY <3>1, <3>2 DEF DigitsOf
  <2>3. 0 \in 0..n
    OBVIOUS
  <2> QED BY <2>2, <2>3
<1>3. ASSUME NEW k \in 1..n, k - 1 \in T PROVE k \in T
  <2>1. \A j \in 0..k-1 : f[j] = g[j]
    BY <1>3
  <2>2. k \div 10 \in 0..k-1
    BY Tenth
  <2>3. f[k] = g[k]
    <3>1. k \in 0..n
      OBVIOUS
    <3> QED BY <1>1, <2>1, <2>2, <3>1 DEF DigitsOf
  <2>4. \A j \in 0..k : j \in 0..k-1 \/ j = k
    OBVIOUS
  <2> QED BY <2>1, <2>3, <2>4
<1> HIDE DEF T
<1>4. n \in T
  BY <1>2, <1>3, Induction
<1> QED BY <1>4 DEF T

LEMMA DecimalIs ==
  ASSUME NEW n \in Nat
  PROVE  Decimal[n] = DigitsOf(Decimal, n)
<1> DEFINE D == [i \in Nat |-> (CHOOSE g : IsDecimal(g, i))[i]]
<1>1. ASSUME NEW i \in Nat PROVE D[i] = DigitsOf(D, i)
  <2>1. PICK f : f = CHOOSE g : IsDecimal(g, i)
    OBVIOUS
  <2>2. IsDecimal(f, i)
    BY <2>1, DecimalUpTo
  <2>3. f[i] = DigitsOf(f, i) /\ D[i] = f[i]
    BY <2>1, <2>2 DEF IsDecimal
  <2>4. PICK j : j = i \div 10
    OBVIOUS
  <2>5. j \in 0..i
    BY <2>4, Tenth
  <2>6. PICK g : g = CHOOSE e : IsDecimal(e, j)
    OBVIOUS
  <2>7. IsDecimal(g, j)
    BY <2>5, <2>6, DecimalUpTo
  <2>8. g[j] = f[j]
    BY <2>2, <2>5, <2>7, DecimalAgrees
  <2>9. D[j] = f[j]
    BY <2>5, <2>6, <2>8
  <2> HIDE DEF D
  <2> QED BY <2>3, <2>4, <2>9 DEF DigitsOf
<1> DEFINE G(f) == f = [i \in Nat |-> DigitsOf(f, i)]
<1>2. G(D)
  <2>1. D = [i \in Nat |-> D[i]]
    OBVIOUS
  <2> HIDE DEF D
  <2> QED BY <1>1, <2>1
<1>3. Decimal = CHOOSE f : G(f)
  BY DEF Decimal, DigitsOf
<1>4. G(Decimal)
  <2> HIDE DEF G
  <2> QED BY <1>2, <1>3
<1> HIDE DEF D
<1> QED BY <1>4

\* What Decimal gives for a number.
IsDecimalOf(s, n) ==
  /\ s \in Digits /\ s # <<>> /\ ncx_convert_num(s) = n
  /\ n # 0 => s[1] # 48

LEMMA DecimalOf ==
  ASSUME NEW n \in Nat
  PROVE  IsDecimalOf(Decimal[n], n)
<1> DEFINE T == {k \in 0..n : \A j \in 0..k : IsDecimalOf(Decimal[j], j)}
<1>1. ASSUME NEW j \in Nat, j < 10 PROVE IsDecimalOf(Decimal[j], j)
  <2>1. PICK s, ch : s = Decimal[j] /\ ch = 48 + j
    OBVIOUS
  <2>0. DigitsOf(Decimal, j) = <<48 + j>>
    BY <1>1 DEF DigitsOf
  <2>a. s = <<ch>>
    BY <2>0, <2>1, DecimalIs
  <2>b. ch \in 48..57
    BY <1>1, <2>1
  <2>2. s = <<ch>> /\ ch \in 48..57
    BY <2>a, <2>b
  <2>3. <<>> \in Digits /\ s = With(<<>>, ch)
    BY <2>2 DEF Digits, With
  <2>4. s \in Digits /\ ncx_convert_num(s) = 10 * ncx_convert_num(<<>>) + (ch - 48)
    BY <2>2, <2>3, NumberSnoc
  <2>5. ncx_convert_num(s) = j
    BY <2>1, <2>4, NumberEmpty
  <2>6. s # <<>> /\ (j # 0 => s[1] # 48)
    BY <2>1, <2>2
  <2> QED BY <2>1, <2>4, <2>5, <2>6 DEF IsDecimalOf
<1>2. 0 \in T
  BY <1>1
<1>3. ASSUME NEW k \in 1..n, k - 1 \in T PROVE k \in T
  <2>1. \A j \in 0..k-1 : IsDecimalOf(Decimal[j], j)
    BY <1>3
  <2>2. k \in Nat /\ k \in 0..n
    OBVIOUS
  <2>3. IsDecimalOf(Decimal[k], k)
    <3>1. CASE k < 10
      BY <1>1, <2>2, <3>1
    <3>2. CASE ~(k < 10)
      <4>1. PICK j, r : j = k \div 10 /\ r = k % 10
        OBVIOUS
      <4>2. j \in 0..k-1 /\ j # 0 /\ r \in 0..9 /\ k = 10 * j + r
        BY <2>2, Tenth, <3>2, <4>1
      <4>3. PICK s, t, ch : s = Decimal[j] /\ t = Decimal[k] /\ ch = 48 + r
        OBVIOUS
      <4>4. IsDecimalOf(s, j)
        BY <2>1, <4>2, <4>3
      <4>5. s \in Digits /\ s # <<>> /\ ncx_convert_num(s) = j /\ s[1] # 48
        BY <4>2, <4>4 DEF IsDecimalOf
      <4>6. t = With(s, ch)
        BY <2>2, <3>2, <4>1, <4>3, DecimalIs DEF DigitsOf, With
      <4>7. ch \in 48..57
        BY <4>2, <4>3
      <4>8. t \in Digits /\ ncx_convert_num(t) = 10 * ncx_convert_num(s) + (ch - 48)
        BY <4>5, <4>6, <4>7, NumberSnoc
      <4>9. ncx_convert_num(t) = k
        BY <4>2, <4>3, <4>5, <4>8
      <4>10. t # <<>> /\ t[1] = s[1]
        BY <4>5, EmptySeq, <4>6, <4>7, AppendProperties DEF Digits, With
      <4> QED BY <4>3, <4>5, <4>8, <4>9, <4>10 DEF IsDecimalOf
    <3> QED BY <3>1, <3>2
  <2>4. \A j \in 0..k : j \in 0..k-1 \/ j = k
    OBVIOUS
  <2> QED BY <2>1, <2>2, <2>3, <2>4
<1> HIDE DEF T
<1>4. n \in T
  BY <1>2, <1>3, Induction
<1> QED BY <1>4 DEF T

\* A smaller number has no more digits.
LEMMA DecimalShorter ==
  ASSUME NEW n \in Nat, NEW m \in 0..n
  PROVE  Len(Decimal[m]) <= Len(Decimal[n])
<1> DEFINE T == {k \in 0..n : \A j \in 0..k : Len(Decimal[j]) <= Len(Decimal[k])}
<1>0. ASSUME NEW k \in Nat PROVE Len(Decimal[k]) \in Nat /\ Len(Decimal[k]) >= 1
  BY DecimalOf, LenProperties, EmptySeq DEF IsDecimalOf, Digits
<1>1. ASSUME NEW k \in Nat, k >= 10 PROVE Len(Decimal[k]) = Len(Decimal[k \div 10]) + 1
  <2>1. PICK j, r : j = k \div 10 /\ r = k % 10
    OBVIOUS
  <2>2. j \in Nat /\ r \in 0..9
    BY <2>1, Tenth
  <2>3. PICK s, t, ch : s = Decimal[j] /\ t = Decimal[k] /\ ch = 48 + r
    OBVIOUS
  <2>4. s \in Seq(48..57)
    BY <2>2, <2>3, DecimalOf DEF IsDecimalOf, Digits
  <2>c. ~(k < 10)
    BY <1>1
  <2>a. t = With(s, ch)
    BY <2>c, <2>1, <2>3, DecimalIs DEF DigitsOf, With
  <2>b. ch \in 48..57
    BY <2>2, <2>3
  <2>6. Len(t) = Len(s) + 1
    BY <2>4, <2>a, <2>b, Snoc1
  <2> QED BY <2>1, <2>3, <2>6
<1>2. ASSUME NEW k \in Nat, k < 10 PROVE Len(Decimal[k]) = 1
  <2>1. Decimal[k] = <<48 + k>>
    BY <1>2, DecimalIs DEF DigitsOf
  <2> QED BY <2>1
<1>3. ASSUME NEW k \in 0..n, \A i \in 0..k-1 : i \in T PROVE k \in T
  <2>1. ASSUME NEW j \in 0..k PROVE Len(Decimal[j]) <= Len(Decimal[k])
    <3>1. CASE j < 10
      <4>1. Len(Decimal[j]) = 1 /\ Len(Decimal[k]) \in Nat /\ Len(Decimal[k]) >= 1
        BY <1>0, <1>2, <3>1
      <4> QED BY <4>1
    <3>2. CASE j >= 10
      BY <3>2, <1>3, <1>1, <1>0
    <3> QED BY <3>1, <3>2
  <2> QED BY <2>1
<1> DEFINE U == {k \in 0..n : \A i \in 0..k : i \in T}
<1> HIDE DEF T
<1>4. 0 \in U
  BY <1>3
<1>5. ASSUME NEW k \in 1..n, k - 1 \in U PROVE k \in U
  BY <1>3, <1>5
<1> HIDE DEF U
<1>6. n \in U
  BY <1>4, <1>5, Induction
<1>7. n \in T
  BY <1>6 DEF U
<1> QED BY <1>7 DEF T

\* The digits of a chunk's size fit.
LEMMA SizeFits ==
  ASSUME NEW n \in 1..NCX_MAX_UINT, NEW s, s = Decimal[n]
  PROVE  /\ s \in Digits /\ ncx_convert_num(s) = n /\ s # <<>> /\ s[1] \in 49..57
         /\ Len(s) \in Nat \ {0} /\ Len(s) <= SES_MAX_STARTCHUNK_SIZE - 3
<1>1. n \in Nat /\ n # 0 /\ n \in 0..NCX_MAX_UINT /\ NCX_MAX_UINT \in Nat
  BY Constants
<1>2. s \in Digits /\ s # <<>> /\ ncx_convert_num(s) = n /\ s[1] # 48
  BY <1>1, DecimalOf DEF IsDecimalOf
<1>3. Len(s) \in Nat \ {0}
  BY <1>2, EmptySeq DEF Digits
<1>4. s[1] \in 48..57
  BY <1>3, <1>2, ElementOfSeq DEF Digits
<1>5. Len(s) <= SES_MAX_STARTCHUNK_SIZE - 3
  BY <1>1, DecimalShorter, InputAssumption, DecimalOf, LenProperties, <1>3, Constants DEF
     IsDecimalOf, Digits
<1> QED BY <1>2, <1>3, <1>4, <1>5

-----------------------------------------------------------------------------
(* What a peer writes (SesOutput) *)

\* An output buffer that is not the last one yet, and the bytes sent before it.
OutBuffer(start) == {b \in [buffstart : Nat, data : Bytes, islast : BOOLEAN] :
                       b.buffstart = start /\ b.islast = NotReady}
Output(start) == [outbuff : OutBuffer(start), bytes : Bytes]

StartPad(framing11) == IF framing11 THEN SES_STARTCHUNK_PAD ELSE 0

LEMMA InitBuffIs ==
  ASSUME NEW framing11, NEW b, b = ses_msg_init_buff(framing11), NEW text \in Bytes
  PROVE  /\ b \in OutBuffer(StartPad(framing11)) /\ b.data = <<>>
         /\ [b EXCEPT !.data = text] \in OutBuffer(StartPad(framing11))
         /\ [b EXCEPT !.data = text].data = text
<1>1. StartPad(framing11) \in Nat
  BY OutputAssumption DEF StartPad
<1>2. <<>> \in Bytes
  BY DEF Bytes
<1>3. b = [buffstart |-> StartPad(framing11), data |-> <<>>, islast |-> NotReady]
  BY DEF ses_msg_init_buff, StartPad, NotReady
<1>4. NotReady \in BOOLEAN
  BY DEF NotReady
<1> QED BY <1>1, <1>2, <1>3, <1>4 DEF OutBuffer

\* One more byte.
LEMMA PutcharIs ==
  ASSUME NEW framing11, NEW o \in Output(StartPad(framing11)), NEW ch \in Byte,
         NEW p, p = ses_putchar(framing11, o, ch)
  PROVE  /\ has_room(framing11, o.outbuff) => p \in Output(StartPad(framing11))
         /\ do_send_buff(framing11, o.outbuff) \in Bytes => p \in Output(StartPad(framing11))
         /\ has_room(framing11, o.outbuff) => p.outbuff.data = With(o.outbuff.data, ch) /\ p.bytes = o.bytes
         /\ ~has_room(framing11, o.outbuff) /\ do_send_buff(framing11, o.outbuff) \in Bytes =>
              p.outbuff.data = <<ch>> /\ p.bytes = o.bytes \o do_send_buff(framing11, o.outbuff)
<1>1. PICK b, y : b = o.outbuff /\ y = o.bytes
  OBVIOUS
<1>2. b \in OutBuffer(StartPad(framing11)) /\ y \in Bytes /\ b.data \in Bytes
  BY <1>1 DEF Output, OutBuffer
<1>3. CASE has_room(framing11, o.outbuff)
  <2>1. p = [o EXCEPT !.outbuff.data = With(@, ch)]
    BY <1>3 DEF ses_putchar, With
  <2>2. PICK t : t = With(b.data, ch)
    OBVIOUS
  <2>3. t \in Bytes
    BY <1>2, <2>2, Snoc1 DEF Bytes
  <2>4. PICK d : d = [b EXCEPT !.data = t]
    OBVIOUS
  <2>5. d \in OutBuffer(StartPad(framing11)) /\ d.data = t
    BY <1>2, <2>3, <2>4 DEF OutBuffer
  <2>6. p = [o EXCEPT !.outbuff = d]
    BY <1>1, <2>1, <2>2, <2>4
  <2>7. p \in Output(StartPad(framing11)) /\ p.outbuff = d /\ p.bytes = o.bytes
    BY <2>5, <2>6 DEF Output
  <2> QED BY <1>1, <1>3, <2>2, <2>5, <2>7
<1>4. CASE ~has_room(framing11, o.outbuff)
  <2>1. PICK t, d, z : t = <<ch>> /\ d = [ses_msg_init_buff(framing11) EXCEPT !.data = t]
                       /\ z = y \o do_send_buff(framing11, b)
    OBVIOUS
  <2>2. t \in Bytes
    BY <2>1 DEF Bytes
  <2>3. d \in OutBuffer(StartPad(framing11)) /\ d.data = t
    BY <2>1, <2>2, InitBuffIs
  <2>4. p = [outbuff |-> d, bytes |-> z]
    BY <1>1, <1>4, <2>1 DEF ses_putchar
  <2>5. ASSUME do_send_buff(framing11, b) \in Bytes PROVE z \in Bytes
    BY <1>2, <2>1, <2>5, Cat DEF Bytes
  <2>6. p.outbuff = d /\ p.bytes = z /\ (z \in Bytes => p \in Output(StartPad(framing11)))
    BY <2>3, <2>4 DEF Output
  <2> QED BY <1>1, <1>4, <2>1, <2>3, <2>5, <2>6
<1> QED BY <1>3, <1>4

\* The text that a chunk may have.
ChunkText == {c \in Bytes : c # <<>> /\ Len(c) <= NCX_MAX_UINT}

\* Pairs of the bytes of a chunk list and the text in it: closed under one chunk more in front.
ChunkClosed(T) ==
  /\ <<NC_SSH_END_CHUNKS, <<>>>> \in T
  /\ \A c \in ChunkText, r \in Bytes, t \in Bytes :
       <<r, t>> \in T => <<chunk(c) \o r, c \o t>> \in T

\* r is a chunk list with the text t
Chunks(r, t) == \A T : ChunkClosed(T) => <<r, t>> \in T

LEMMA ChunkIs ==
  ASSUME NEW c \in ChunkText, NEW s, s = Decimal[Len(c)], NEW header, header = <<LF, HASH>> \o s \o <<LF>>
  PROVE  /\ s \in Digits /\ s # <<>> /\ s[1] \in 49..57 /\ ncx_convert_num(s) = Len(c)
         /\ Len(s) \in Nat \ {0} /\ Len(s) <= SES_MAX_STARTCHUNK_SIZE - 3
         /\ s \in Bytes /\ header \in Bytes /\ chunk(c) = header \o c /\ chunk(c) \in Bytes
         /\ Len(c) \in 1..NCX_MAX_UINT
<1>1. c \in Bytes /\ Len(c) \in 1..NCX_MAX_UINT
  BY EmptySeq, LenProperties, Constants DEF ChunkText, Bytes
<1>2. PICK n : n = Len(c)
  OBVIOUS
<1>3. s \in Digits /\ ncx_convert_num(s) = n /\ s # <<>> /\ s[1] \in 49..57
      /\ Len(s) \in Nat \ {0} /\ Len(s) <= SES_MAX_STARTCHUNK_SIZE - 3
  BY <1>1, <1>2, SizeFits
<1>4. s \in Bytes
  BY <1>3, SeqMonotonic DEF Byte, Digits, Bytes
<1>5. header \in Bytes
  BY <1>4, Cat DEF Bytes, Byte, LF, HASH
<1>6. chunk(c) = header \o c
  BY DEF chunk
<1>7. chunk(c) \in Bytes
  BY <1>1, <1>5, <1>6, Cat DEF Bytes
<1> QED BY <1>1, <1>2, <1>3, <1>4, <1>5, <1>6, <1>7

LEMMA EndIs == NC_SSH_END_CHUNKS \in Bytes /\ <<>> \in Bytes /\ NC_SSH_END_CHUNKS = <<10, 35, 35, 10>>
  BY DEF NC_SSH_END_CHUNKS, LF, HASH, Bytes, Byte

LEMMA ChunksEnd == Chunks(NC_SSH_END_CHUNKS, <<>>)
  BY DEF Chunks, ChunkClosed

LEMMA ChunksMore ==
  ASSUME NEW c \in ChunkText, NEW r \in Bytes, NEW t \in Bytes, Chunks(r, t)
  PROVE  Chunks(chunk(c) \o r, c \o t)
  BY DEF Chunks, ChunkClosed

\* A chunk list is the end of the chunks or begins with one.
LEMMA ChunksFront ==
  ASSUME NEW r, NEW t, Chunks(r, t)
  PROVE  /\ r \in Bytes /\ t \in Bytes
         /\ \/ r = NC_SSH_END_CHUNKS /\ t = <<>>
            \/ \E c \in ChunkText, r1 \in Bytes, t1 \in Bytes :
                 r = chunk(c) \o r1 /\ t = c \o t1 /\ Chunks(r1, t1)
<1> DEFINE P(a, b) == \/ a = NC_SSH_END_CHUNKS /\ b = <<>>
                      \/ \E c \in ChunkText, r1 \in Bytes, t1 \in Bytes :
                           a = chunk(c) \o r1 /\ b = c \o t1 /\ Chunks(r1, t1)
<1>1. PICK T : T = {p \in Bytes \X Bytes : Chunks(p[1], p[2]) /\ P(p[1], p[2])}
  OBVIOUS
<1>2. <<NC_SSH_END_CHUNKS, <<>>>> \in T
  BY <1>1, EndIs, ChunksEnd
<1>3. ASSUME NEW c \in ChunkText, NEW a \in Bytes, NEW b \in Bytes, <<a, b>> \in T
      PROVE  <<chunk(c) \o a, c \o b>> \in T
  <2>1. Chunks(a, b)
    BY <1>1, <1>3
  <2>2. PICK u, v : u = chunk(c) \o a /\ v = c \o b
    OBVIOUS
  <2>3. u \in Bytes /\ v \in Bytes
    <3>1. c \in Bytes
      BY DEF ChunkText
    <3>2. chunk(c) \in Bytes
      BY ChunkIs
    <3>3. chunk(c) \o a \in Bytes /\ c \o b \in Bytes
      BY <3>1, <3>2, Cat DEF Bytes
    <3> QED BY <2>2, <3>3
  <2>4. Chunks(u, v)
    BY <2>1, <2>2, ChunksMore
  <2>5. P(u, v)
    BY <2>1, <2>2
  <2>6. <<u, v>> \in Bytes \X Bytes
    BY <2>3
  <2>7. <<u, v>> \in T
    <3> HIDE DEF P
    <3> QED BY <1>1, <2>4, <2>5, <2>6
  <2> QED BY <2>2, <2>7
<1>4. ChunkClosed(T)
  BY <1>2, <1>3 DEF ChunkClosed
<1>5. <<r, t>> \in T
  BY <1>4 DEF Chunks
<1> QED BY <1>1, <1>5

\* One element more of a beginning.
LEMMA Longer ==
  ASSUME NEW s \in Bytes, NEW k \in 1..Len(s)
  PROVE  /\ SubSeq(s, 1, k) = SubSeq(s, 1, k-1) \o <<s[k]>> /\ s[k] \in Byte
         /\ SubSeq(s, 1, k) \in Bytes /\ SubSeq(s, 1, k-1) \in Bytes /\ Len(SubSeq(s, 1, k)) = k
         /\ <<s[k]>> \in Bytes
<1>1. Len(s) \in Nat /\ 1 \in 1..Len(s) /\ k \in 1..Len(s) /\ k \in 0..Len(s) /\ k - 1 \in 0..Len(s)
  BY LenProperties DEF Bytes
<1>2. SubSeq(s, 1, k) = SubSeq(s, 1, k-1) \o <<s[k]>>
  BY <1>1, SubSeqRecursiveSecond DEF Bytes
<1>3. s[k] \in Byte
  BY ElementOfSeq DEF Bytes
<1>4. SubSeq(s, 1, k) \in Bytes /\ SubSeq(s, 1, k-1) \in Bytes /\ Len(SubSeq(s, 1, k)) = k
  BY <1>1, Split DEF Bytes
<1> QED BY <1>2, <1>3, <1>4 DEF Bytes

LEMMA WithIs ==
  ASSUME NEW u \in Bytes, NEW ch \in Byte
  PROVE  With(u, ch) = u \o <<ch>> /\ <<ch>> \in Bytes
<1>1. Append(u, ch) = u \o <<ch>>
  BY AppendIsConcat DEF Bytes
<1>2. <<ch>> \in Bytes
  BY DEF Bytes
<1> QED BY <1>1, <1>2 DEF With

\* the two framings
Plain   == FALSE
Chunked == TRUE

LEMMA PutEom ==
  ASSUME NEW o, NEW s, NEW n \in Nat, DOMAIN s = 1..n
  PROVE  \E f : IsRun(f, "eom", o, s, n) /\ ses_putstr(FALSE, o, s) = f[n]
<1>1. PICK framing11, kind : framing11 = FALSE /\ kind = "eom"
  OBVIOUS
<1>2. framing11 \in BOOLEAN /\ kind = IF framing11 THEN "chunks" ELSE "eom"
  BY <1>1
<1>3. \E f : IsRun(f, kind, o, s, n) /\ ses_putstr(framing11, o, s) = f[n]
  BY <1>2, PutstrRun
<1> QED BY <1>1, <1>3

LEMMA PutChunks ==
  ASSUME NEW o, NEW s, NEW n \in Nat, DOMAIN s = 1..n
  PROVE  \E f : IsRun(f, "chunks", o, s, n) /\ ses_putstr(TRUE, o, s) = f[n]
<1>1. PICK framing11, kind : framing11 = TRUE /\ kind = "chunks"
  OBVIOUS
<1>2. framing11 \in BOOLEAN /\ kind = IF framing11 THEN "chunks" ELSE "eom"
  BY <1>1
<1>3. \E f : IsRun(f, kind, o, s, n) /\ ses_putstr(framing11, o, s) = f[n]
  BY <1>2, PutstrRun
<1> QED BY <1>1, <1>3

\* Bytes written under base:1.0 framing are what was there and they.
LEMMA EomRun ==
  ASSUME NEW o \in Output(0), NEW s \in Bytes, NEW n \in Nat, n = Len(s), NEW f, IsRun(f, "eom", o, s, n)
  PROVE  f[n] \in Output(0) /\ f[n].bytes \o f[n].outbuff.data = (o.bytes \o o.outbuff.data) \o s
<1> DEFINE T == {k \in 0..n : /\ f[k] \in Output(0)
                              /\ f[k].bytes \o f[k].outbuff.data = (o.bytes \o o.outbuff.data) \o SubSeq(s, 1, k)}
<1>0. StartPad(FALSE) = 0
  BY DEF StartPad
<1>1. \A w \in Output(0) : w.bytes \in Bytes /\ w.outbuff.data \in Bytes
  BY DEF Output, OutBuffer
<1>2. 0 \in T
  <2>1. f[0] = o /\ 0 \in 0..n
    BY DEF IsRun
  <2>2. SubSeq(s, 1, 0) = <<>>
    BY SubSeqEmpty
  <2>3. PICK u : u = o.bytes \o o.outbuff.data
    OBVIOUS
  <2>4. u \in Bytes
    BY <1>1, <2>3, Cat DEF Bytes
  <2>5. u \o <<>> = u
    BY <2>4, ConcatEmptySeq DEF Bytes
  <2> QED BY <2>1, <2>2, <2>3, <2>5
<1>3. ASSUME NEW k \in 1..n, k - 1 \in T PROVE k \in T
  <2>1. PICK w, p, u, v, ch : w = f[k-1] /\ p = f[k] /\ u = o.bytes \o o.outbuff.data /\ v = SubSeq(s, 1, k-1) /\ ch = s[k]
    OBVIOUS
  <2>2. w \in Output(0) /\ w.bytes \o w.outbuff.data = u \o v
    BY <1>3, <2>1
  <2>3. SubSeq(s, 1, k) = v \o <<ch>> /\ ch \in Byte /\ v \in Bytes /\ <<ch>> \in Bytes
    BY <2>1, Longer
  <2>4. p = ses_putchar(FALSE, w, ch)
    BY <2>1 DEF IsRun, Advance
  <2>5. PICK y, d : y = w.bytes /\ d = w.outbuff.data
    OBVIOUS
  <2>6. y \in Bytes /\ d \in Bytes /\ u \in Bytes /\ y \o d = u \o v
    BY <1>1, <2>1, <2>2, <2>5, Cat DEF Bytes
  <2>7. do_send_buff(FALSE, w.outbuff) = d
    BY <2>5 DEF do_send_buff
  <2>8. /\ p \in Output(0)
        /\ \/ p.outbuff.data = With(d, ch) /\ p.bytes = y
           \/ p.outbuff.data = <<ch>> /\ p.bytes = y \o d
    <3>1. 0 = StartPad(Plain) /\ p = ses_putchar(Plain, w, ch) /\ d = do_send_buff(Plain, w.outbuff)
      BY <1>0, <2>4, <2>7 DEF Plain
    <3>2. /\ p \in Output(0)
          /\ \/ has_room(Plain, w.outbuff) /\ p.outbuff.data = With(w.outbuff.data, ch) /\ p.bytes = w.bytes
             \/ ~has_room(Plain, w.outbuff) /\ p.outbuff.data = <<ch>> /\ p.bytes = w.bytes \o d
      <4>1. w \in Output(0) /\ ch \in Byte /\ d \in Bytes
        BY <2>2, <2>3, <2>6
      <4>5. w \in Output(StartPad(Plain)) /\ do_send_buff(Plain, w.outbuff) \in Bytes
        BY <3>1, <4>1
      <4>7. p = ses_putchar(Plain, w, ch) /\ d = do_send_buff(Plain, w.outbuff)
        BY <3>1
      <4>6. p \in Output(StartPad(Plain))
        BY <4>1, <4>5, <4>7, PutcharIs
      <4>2. p \in Output(0)
        BY <3>1, <4>6
      <4>3. ASSUME has_room(Plain, w.outbuff) PROVE p.outbuff.data = With(w.outbuff.data, ch) /\ p.bytes = w.bytes
        BY <4>1, <4>3, <4>5, <4>7, PutcharIs
      <4>4. ASSUME ~has_room(Plain, w.outbuff) PROVE p.outbuff.data = <<ch>> /\ p.bytes = w.bytes \o d
        BY <4>1, <4>4, <4>5, <4>7, PutcharIs
      <4> QED BY <4>2, <4>3, <4>4
    <3> QED BY <2>5, <3>2
  <2>9. p.bytes \o p.outbuff.data = (y \o d) \o <<ch>>
    <3>1. With(d, ch) = d \o <<ch>>
      BY <2>3, <2>6, WithIs
    <3>2. y \o (d \o <<ch>>) = (y \o d) \o <<ch>>
      BY <2>3, <2>6, Assoc
    <3> QED BY <2>8, <3>1, <3>2
  <2>10. p.bytes \o p.outbuff.data = u \o (v \o <<ch>>)
    <3>1. u \o (v \o <<ch>>) = (u \o v) \o <<ch>>
      BY <2>3, <2>6, Assoc
    <3> QED BY <2>6, <2>9, <3>1
  <2>11. k \in 0..n
    OBVIOUS
  <2> QED BY <2>1, <2>3, <2>8, <2>10, <2>11
<1> HIDE DEF T
<1>4. n \in T
  BY <1>2, <1>3, Induction
<1>5. SubSeq(s, 1, n) = s
  BY SubSeqFull DEF Bytes
<1> QED BY <1>4, <1>5 DEF T

\* A document under base:1.0 framing is followed by the EOM string.
LEMMA WrittenEom ==
  ASSUME NEW d \in Bytes
  PROVE  Written(FALSE, d) = d \o NC_SSH_END
<1>1. PICK o, n : o = [outbuff |-> ses_msg_init_buff(FALSE), bytes |-> <<>>] /\ n = Len(d)
  OBVIOUS
<1>2. o \in Output(0) /\ o.bytes = <<>> /\ o.outbuff.data = <<>>
  BY InitBuffIs, EndIs, <1>1 DEF StartPad, Output
<1>3. n \in Nat /\ DOMAIN d = 1..n
  BY <1>1, LenProperties DEF Bytes
<1>4. PICK f : IsRun(f, "eom", o, d, n) /\ ses_putstr(FALSE, o, d) = f[n]
  BY <1>3, PutEom
<1>5. PICK p : p = f[n]
  OBVIOUS
<1>6. <<>> \o <<>> = <<>> /\ <<>> \o d = d
  BY ConcatEmptySeq DEF Bytes
<1>7. p \in Output(0) /\ p.bytes \o p.outbuff.data = d
  <2>1. n \in Nat /\ n = Len(d) /\ o \in Output(0) /\ IsRun(f, "eom", o, d, n)
    BY <1>1, <1>2, <1>3, <1>4
  <2>2. f[n] \in Output(0) /\ f[n].bytes \o f[n].outbuff.data = (o.bytes \o o.outbuff.data) \o d
    BY <2>1, EomRun
  <2>3. p \in Output(0) /\ p.bytes \o p.outbuff.data = (o.bytes \o o.outbuff.data) \o d
    BY <1>5, <2>2
  <2> QED BY <1>2, <1>6, <2>3
<1>8. NC_SSH_END \in Bytes /\ Len(NC_SSH_END) = 6 /\ DOMAIN NC_SSH_END = 1..6
  BY LenProperties DEF NC_SSH_END, Byte, Bytes
<1>9. PICK g : IsRun(g, "eom", p, NC_SSH_END, 6) /\ ses_putstr(FALSE, p, NC_SSH_END) = g[6]
  <2>1. PICK s : s = NC_SSH_END
    OBVIOUS
  <2>2. DOMAIN s = 1..6 /\ 6 \in Nat
    BY <1>8, <2>1
  <2>3. \E g : IsRun(g, "eom", p, s, 6) /\ ses_putstr(FALSE, p, s) = g[6]
    BY <2>2, PutEom
  <2> QED BY <2>1, <2>3
<1>10. PICK r : r = g[6]
  OBVIOUS
<1>11. r.bytes \o r.outbuff.data = d \o NC_SSH_END
  BY <1>7, <1>8, <1>9, <1>10, EomRun
<1>12. ses_finish_msg(FALSE, p) = r.bytes \o r.outbuff.data
  BY <1>9, <1>10 DEF ses_finish_msg, do_send_buff
<1> QED BY <1>1, <1>4, <1>5, <1>11, <1>12 DEF Written

\* The chunks sent and the text in the buffer make up u.
SentSoFar(w, u) == \E s \in Bytes :
  /\ u = s \o w.outbuff.data
  /\ \A r \in Bytes, t \in Bytes : Chunks(r, t) => Chunks(w.bytes \o r, s \o t)

LEMMA OutputFields ==
  ASSUME NEW start, NEW w \in Output(start)
  PROVE  w.bytes \in Bytes /\ w.outbuff.data \in Bytes /\ w.outbuff.buffstart = start /\ w.outbuff.islast = NotReady
  BY DEF Output, OutBuffer

\* A buffer is sent as a chunk.
LEMMA SendIs ==
  ASSUME NEW w \in Output(SES_STARTCHUNK_PAD), NEW c \in ChunkText, c = w.outbuff.data
  PROVE  do_send_buff(Chunked, w.outbuff) = chunk(c)
<1>1. PICK b : b = w.outbuff
  OBVIOUS
<1>2. b.data = c /\ b.buffstart = SES_STARTCHUNK_PAD /\ ~b.islast
  BY <1>1, OutputFields DEF NotReady
<1>3. SES_STARTCHUNK_PAD \in Nat /\ Len(c) \in Nat
  BY OutputAssumption, LenProperties DEF ChunkText, Bytes
<1>4. bufflen(b) - SES_STARTCHUNK_PAD = Len(c)
  BY <1>2, <1>3 DEF bufflen
<1>5. do_send_buff(Chunked, b) = chunk(c) \o <<>>
  BY <1>2, <1>4 DEF do_send_buff, Chunked, ses_msg_add_framing, chunk
<1>6. chunk(c) \in Bytes
  BY ChunkIs
<1> QED BY <1>1, <1>5, <1>6, ConcatEmptySeq DEF Bytes

\* An empty buffer has room.
LEMMA EmptyHasRoom ==
  ASSUME NEW w \in Output(SES_STARTCHUNK_PAD), ~has_room(Chunked, w.outbuff)
  PROVE  w.outbuff.data # <<>>
<1>1. PICK b : b = w.outbuff
  OBVIOUS
<1>2. b.buffstart = SES_STARTCHUNK_PAD
  BY <1>1, OutputFields
<1>3. Len(<<>>) = 0
  BY EmptySeq
<1>4. SUFFICES ASSUME b.data = <<>> PROVE has_room(Chunked, b)
  BY <1>1
<1>5. bufflen(b) = SES_STARTCHUNK_PAD
  BY <1>2, <1>3, <1>4, OutputAssumption DEF bufflen
<1> QED BY <1>5, OutputAssumption DEF has_room, Chunked

LEMMA SentMore ==
  ASSUME NEW w \in Output(SES_STARTCHUNK_PAD), NEW u \in Bytes, SentSoFar(w, u), Len(u) <= NCX_MAX_UINT,
         NEW ch \in Byte, NEW p, p = ses_putchar(Chunked, w, ch)
  PROVE  p \in Output(SES_STARTCHUNK_PAD) /\ SentSoFar(p, u \o <<ch>>) /\ p.outbuff.data # <<>>
<1>1. PICK y, d : y = w.bytes /\ d = w.outbuff.data
  OBVIOUS
<1>2. y \in Bytes /\ d \in Bytes
  BY <1>1, OutputFields
<1>3. PICK s \in Bytes : /\ u = s \o d
                         /\ \A r \in Bytes, t \in Bytes : Chunks(r, t) => Chunks(y \o r, s \o t)
  BY <1>1 DEF SentSoFar
<1>4. <<ch>> \in Bytes /\ With(d, ch) = d \o <<ch>> /\ <<ch>> # <<>>
  BY <1>2, WithIs
<1>5. Len(d) <= NCX_MAX_UINT
  BY <1>2, <1>3, Cat, LenProperties, Constants DEF Bytes
<1>6. SES_STARTCHUNK_PAD = StartPad(Chunked)
  BY DEF StartPad, Chunked
<1>7. CASE has_room(Chunked, w.outbuff)
  <2>1. p.outbuff.data = With(d, ch) /\ p.bytes = y
    BY <1>1, <1>6, <1>7, PutcharIs
  <2>2. p \in Output(SES_STARTCHUNK_PAD)
    BY <1>6, <1>7, PutcharIs
  <2>3. u \o <<ch>> = s \o (d \o <<ch>>)
    BY <1>2, <1>3, <1>4, Assoc
  <2>4. SentSoFar(p, u \o <<ch>>)
    BY <1>3, <1>4, <2>1, <2>3 DEF SentSoFar
  <2>5. p.outbuff.data # <<>>
    BY <1>2, <2>1, Snoc1 DEF Bytes
  <2> QED BY <2>2, <2>4, <2>5
<1>8. CASE ~has_room(Chunked, w.outbuff)
  <2>1. d \in ChunkText
    BY <1>1, <1>2, <1>5, <1>8, EmptyHasRoom DEF ChunkText
  <2>2. do_send_buff(Chunked, w.outbuff) = chunk(d)
    BY <1>1, <2>1, SendIs
  <2>3. PICK e : e = chunk(d)
    OBVIOUS
  <2>4. e \in Bytes
    BY <2>1, <2>3, ChunkIs
  <2>5. p.outbuff.data = <<ch>> /\ p.bytes = y \o e /\ p \in Output(SES_STARTCHUNK_PAD)
    <3>1. w \in Output(StartPad(Chunked)) /\ do_send_buff(Chunked, w.outbuff) \in Bytes
      BY <1>6, <2>2, <2>3, <2>4
    <3>2. p \in Output(StartPad(Chunked))
      BY <3>1, PutcharIs
    <3>3. p.outbuff.data = <<ch>> /\ p.bytes = w.bytes \o do_send_buff(Chunked, w.outbuff)
      BY <1>8, <3>1, PutcharIs
    <3> QED BY <1>1, <1>6, <2>2, <2>3, <3>2, <3>3
  <2>6. ASSUME NEW r \in Bytes, NEW t \in Bytes, Chunks(r, t) PROVE Chunks((y \o e) \o r, u \o t)
    <3>1. Chunks(e \o r, d \o t)
      BY <2>1, <2>3, <2>6, ChunksMore
    <3>2. e \o r \in Bytes /\ d \o t \in Bytes
      BY <1>2, <2>4, Cat DEF Bytes
    <3>3. Chunks(y \o (e \o r), s \o (d \o t))
      BY <1>3, <3>1, <3>2
    <3>4. (y \o e) \o r = y \o (e \o r)
      BY <1>2, <2>4, Assoc
    <3>5. (s \o d) \o t = s \o (d \o t)
      BY <1>2, <1>3, Assoc
    <3> QED BY <1>3, <3>3, <3>4, <3>5
  <2>7. SentSoFar(p, u \o <<ch>>)
    BY <2>5, <2>6 DEF SentSoFar
  <2> QED BY <1>4, <2>5, <2>7
<1> QED BY <1>7, <1>8

\* Bytes written under base:1.1 framing are in the chunks sent or in the buffer.
LEMMA ChunksRun ==
  ASSUME NEW o \in Output(SES_STARTCHUNK_PAD), SentSoFar(o, <<>>), NEW s \in ChunkText, NEW n \in Nat, n = Len(s),
         NEW f, IsRun(f, "chunks", o, s, n)
  PROVE  f[n] \in Output(SES_STARTCHUNK_PAD) /\ SentSoFar(f[n], s) /\ f[n].outbuff.data # <<>>
<1> DEFINE P(k) == /\ f[k] \in Output(SES_STARTCHUNK_PAD) /\ SentSoFar(f[k], SubSeq(s, 1, k))
                   /\ k # 0 => f[k].outbuff.data # <<>>
           T == {k \in 0..n : P(k)}
<1>0. s \in Bytes /\ n \in 1..NCX_MAX_UINT
  BY EmptySeq, Constants DEF ChunkText, Bytes
<1>1. 0 \in T
  <2>1. f[0] = o /\ 0 \in 0..n
    BY DEF IsRun
  <2>2. SubSeq(s, 1, 0) = <<>>
    BY SubSeqEmpty
  <2> QED BY <2>1, <2>2
<1>2. ASSUME NEW k \in 1..n, k - 1 \in T PROVE k \in T
  <2>1. PICK w, p, u, ch : w = f[k-1] /\ p = f[k] /\ u = SubSeq(s, 1, k-1) /\ ch = s[k]
    OBVIOUS
  <2>2. w \in Output(SES_STARTCHUNK_PAD) /\ SentSoFar(w, u)
    BY <1>2, <2>1
  <2>3. SubSeq(s, 1, k) = u \o <<ch>> /\ ch \in Byte /\ u \in Bytes
    BY <1>0, <2>1, Longer
  <2>4. Len(u) <= NCX_MAX_UINT
    BY <1>0, <2>1, Split, Constants DEF Bytes
  <2>5. p = ses_putchar(Chunked, w, ch)
    BY <2>1 DEF IsRun, Advance, Chunked
  <2>6. p \in Output(SES_STARTCHUNK_PAD) /\ SentSoFar(p, u \o <<ch>>) /\ p.outbuff.data # <<>>
    BY <2>2, <2>3, <2>4, <2>5, SentMore
  <2>7. k \in 0..n
    OBVIOUS
  <2> QED BY <2>1, <2>3, <2>6, <2>7
<1> HIDE DEF T
<1>3. n \in T
  BY <1>1, <1>2, Induction
<1>4. SubSeq(s, 1, n) = s
  BY <1>0, SubSeqFull DEF Bytes
<1>5. P(n)
  BY <1>3 DEF T
<1>6. n # 0
  BY <1>0
<1> QED BY <1>4, <1>5, <1>6

\* The last buffer goes with the end of the chunks.
LEMMA SendLast ==
  ASSUME NEW w \in Output(SES_STARTCHUNK_PAD), NEW c \in ChunkText, c = w.outbuff.data
  PROVE  ses_finish_msg(Chunked, w) = w.bytes \o (chunk(c) \o NC_SSH_END_CHUNKS)
<1>1. PICK b, y, last, p : b = w.outbuff /\ y = w.bytes /\ last = [b EXCEPT !.islast = Chunked] /\ p = [w EXCEPT !.outbuff = last]
  OBVIOUS
<1>2. b \in OutBuffer(SES_STARTCHUNK_PAD) /\ b.data = c /\ b.buffstart = SES_STARTCHUNK_PAD
  BY <1>1 DEF Output, OutBuffer
<1>3. last.data = c /\ last.buffstart = SES_STARTCHUNK_PAD /\ last.islast = Chunked
  BY <1>1, <1>2 DEF OutBuffer
<1>4. p.bytes = y /\ p.outbuff = last
  BY <1>1 DEF Output
<1>5. SES_STARTCHUNK_PAD \in Nat /\ Len(c) \in Nat
  BY OutputAssumption, LenProperties DEF ChunkText, Bytes
<1>6. bufflen(last) - SES_STARTCHUNK_PAD = Len(c)
  BY <1>3, <1>5 DEF bufflen
<1>7. do_send_buff(Chunked, last) = chunk(c) \o NC_SSH_END_CHUNKS
  BY <1>3, <1>6 DEF do_send_buff, Chunked, ses_msg_add_framing, chunk
<1>8. p = [w EXCEPT !.outbuff.islast = TRUE]
  BY <1>1 DEF Chunked
<1>9. ses_finish_msg(Chunked, w) = p.bytes \o do_send_buff(Chunked, p.outbuff)
  BY <1>8 DEF ses_finish_msg, Chunked
<1> QED BY <1>1, <1>4, <1>7, <1>9

\* A document under base:1.1 framing is a list of chunks.
LEMMA WrittenChunks ==
  ASSUME NEW d \in ChunkText
  PROVE  Chunks(Written(TRUE, d), d)
<1>1. PICK o, n : o = [outbuff |-> ses_msg_init_buff(Chunked), bytes |-> <<>>] /\ n = Len(d)
  OBVIOUS
<1>2. o \in Output(SES_STARTCHUNK_PAD) /\ o.bytes = <<>> /\ o.outbuff.data = <<>>
  BY InitBuffIs, EndIs, <1>1 DEF StartPad, Chunked, Output
<1>3. n \in Nat /\ DOMAIN d = 1..n /\ d \in Bytes
  BY <1>1, LenProperties DEF Bytes, ChunkText
<1>4. PICK f : IsRun(f, "chunks", o, d, n) /\ ses_putstr(TRUE, o, d) = f[n]
  BY <1>3, PutChunks
<1>5. PICK p : p = f[n]
  OBVIOUS
<1>6. SentSoFar(o, <<>>)
  <2>1. <<>> \o <<>> = <<>> /\ <<>> \in Bytes
    BY EmptySeq, ConcatEmptySeq DEF Bytes
  <2>2. \A r \in Bytes : <<>> \o r = r
    BY ConcatEmptySeq DEF Bytes
  <2> QED BY <1>2, <2>1, <2>2 DEF SentSoFar
<1>7. p \in Output(SES_STARTCHUNK_PAD) /\ SentSoFar(p, d) /\ p.outbuff.data # <<>>
  BY <1>1, <1>2, <1>3, <1>4, <1>5, <1>6, ChunksRun
<1>8. PICK y, c : y = p.bytes /\ c = p.outbuff.data
  OBVIOUS
<1>9. y \in Bytes /\ c \in Bytes /\ c # <<>>
  BY <1>7, <1>8, OutputFields
<1>10. PICK s \in Bytes : /\ d = s \o c
                          /\ \A r \in Bytes, t \in Bytes : Chunks(r, t) => Chunks(y \o r, s \o t)
  BY <1>7, <1>8 DEF SentSoFar
<1>11. c \in ChunkText
  BY <1>9, <1>10, Cat, LenProperties, Constants DEF Bytes, ChunkText
<1>12. PICK e : e = chunk(c) \o NC_SSH_END_CHUNKS
  OBVIOUS
<1>13. Chunks(e, c)
  BY <1>11, <1>12, ChunksEnd, ChunksMore, EndIs, <1>9, ConcatEmptySeq DEF Bytes
<1>14. Chunks(y \o e, d)
  BY <1>9, <1>10, <1>13, ChunksFront
<1>15. ses_finish_msg(Chunked, p) = y \o e
  BY <1>7, <1>8, <1>11, <1>12, SendLast
<1> QED BY <1>1, <1>4, <1>5, <1>14, <1>15 DEF Written, Chunked

-----------------------------------------------------------------------------
(* A stream of framed documents *)

\* e is d, framed
Framed(kind, e, d) == IF kind = "chunks" THEN Chunks(e, d) ELSE e = d \o NC_SSH_END

LEMMA DocIs ==
  ASSUME NEW d \in Docs
  PROVE  /\ d \in ChunkText /\ d \in Bytes /\ d # <<>> /\ Len(d) \in Nat \ {0}
         /\ ~Ends(d, <<93>>) /\ ~Ends(d, <<93, 93, 62>>)
         /\ \A i \in 1..Len(d) : ~Ends(SubSeq(d, 1, i), NC_SSH_END)
  BY InputAssumption, EmptySeq DEF ChunkText, Bytes

\* So is every other encoding of it that a peer may choose.
LEMMA EncodingIs ==
  ASSUME NEW d \in Docs, NEW framing11 \in BOOLEAN, NEW e \in Encodings(framing11, d),
         NEW kind, kind = IF framing11 THEN "chunks" ELSE "eom"
  PROVE  Framed(kind, e, d) /\ e \in Bytes
<1>0. d \in ChunkText /\ d \in Bytes /\ Len(d) \in Nat \ {0} /\ Len(d) <= NCX_MAX_UINT
  BY DocIs DEF ChunkText
<1>1. CASE framing11 = FALSE
  <2>1. e = d \o NC_SSH_END
    BY <1>0, <1>1, WrittenEom DEF Encodings
  <2>2. NC_SSH_END \in Bytes
    BY DEF NC_SSH_END, Bytes, Byte
  <2>3. e \in Bytes
    BY <1>0, <2>1, <2>2, Cat DEF Bytes
  <2> QED BY <1>1, <2>1, <2>3 DEF Framed
<1>2. CASE framing11 = TRUE
  <2>1. \/ e = Written(TRUE, d)
        \/ e = chunk(d) \o NC_SSH_END_CHUNKS
        \/ \E k \in 1..(Len(d) - 1) :
             e = chunk(SubSeq(d, 1, k)) \o chunk(SubSeq(d, k + 1, Len(d))) \o NC_SSH_END_CHUNKS
    BY <1>2 DEF Encodings
  <2>2. CASE e = Written(TRUE, d)
    BY <1>0, <2>2, WrittenChunks, <1>2, ChunksFront DEF Framed
  <2>3. ASSUME NEW c \in ChunkText, NEW z, z = chunk(c) \o NC_SSH_END_CHUNKS PROVE Chunks(z, c)
    BY <2>3, ChunksEnd, ChunksMore, EndIs, ConcatEmptySeq DEF Bytes, ChunkText
  <2>4. CASE e = chunk(d) \o NC_SSH_END_CHUNKS
    BY <1>0, <2>3, <2>4, <1>2, ChunksFront DEF Framed
  <2>5. ASSUME NEW k \in 1..(Len(d) - 1),
               e = chunk(SubSeq(d, 1, k)) \o chunk(SubSeq(d, k + 1, Len(d))) \o NC_SSH_END_CHUNKS
        PROVE  Chunks(e, d)
    <3>1. PICK a, c : a = SubSeq(d, 1, k) /\ c = SubSeq(d, k + 1, Len(d))
      OBVIOUS
    <3>2. k \in 0..Len(d) /\ k \in 1..Len(d) /\ Len(d) - k \in 1..Len(d)
      BY <1>0
    <3>3. a \in Bytes /\ Len(a) = k /\ c \in Bytes /\ Len(c) = Len(d) - k /\ d = a \o c
      BY <1>0, <3>1, <3>2, Split DEF Bytes
    <3>4. a \in ChunkText /\ c \in ChunkText
      BY <1>0, <3>2, <3>3, Constants, EmptySeq DEF ChunkText
    <3>5. PICK z : z = chunk(c) \o NC_SSH_END_CHUNKS
      OBVIOUS
    <3>6. Chunks(z, c) /\ z \in Bytes
      BY <2>3, <3>4, <3>5, ChunksFront
    <3>7. Chunks(chunk(a) \o z, a \o c)
      BY <3>3, <3>4, <3>6, ChunksMore
    <3>8. chunk(a) \in Bytes /\ chunk(c) \in Bytes
      BY <3>4, ChunkIs
    <3>9. e = chunk(a) \o z
      BY <2>5, <3>1, <3>5, <3>8, EndIs, Assoc
    <3> QED BY <3>3, <3>7, <3>9
  <2> QED BY <1>2, <2>1, <2>2, <2>4, <2>5, ChunksFront DEF Framed
<1> QED BY <1>1, <1>2

\* Pairs of bytes and the documents they frame, with X behind them: closed under one more in front.
FlowClosed(kind, X, T) ==
  /\ <<X, <<>>>> \in T
  /\ \A d \in Docs, e \in Bytes, w \in Bytes, ds \in Seq(Docs) :
       Framed(kind, e, d) /\ <<w, ds>> \in T => <<e \o w, <<d>> \o ds>> \in T

\* w frames the documents ds and ends with X
Flow(kind, w, ds, X) == \A T : FlowClosed(kind, X, T) => <<w, ds>> \in T

LEMMA FlowNone ==
  ASSUME NEW kind, NEW X
  PROVE  Flow(kind, X, <<>>, X)
  BY DEF Flow, FlowClosed

LEMMA FlowMore ==
  ASSUME NEW kind, NEW X, NEW d \in Docs, NEW e \in Bytes, NEW w \in Bytes, NEW ds \in Seq(Docs),
         Framed(kind, e, d), Flow(kind, w, ds, X)
  PROVE  Flow(kind, e \o w, <<d>> \o ds, X)
<1>1. ASSUME NEW T, FlowClosed(kind, X, T) PROVE <<e \o w, <<d>> \o ds>> \in T
  BY <1>1 DEF Flow, FlowClosed
<1> QED BY <1>1 DEF Flow

\* w begins with a framed document, if there is one.
Leads(kind, w, ds, X) == \E d \in Docs, e \in Bytes, v \in Bytes, es \in Seq(Docs) :
  Framed(kind, e, d) /\ w = e \o v /\ ds = <<d>> \o es /\ Flow(kind, v, es, X)

LEMMA FlowFront ==
  ASSUME NEW kind, NEW X \in Bytes, NEW w, NEW ds, Flow(kind, w, ds, X)
  PROVE  /\ w \in Bytes /\ ds \in Seq(Docs)
         /\ (w = X /\ ds = <<>>) \/ Leads(kind, w, ds, X)
<1> DEFINE P(a, b) == (a = X /\ b = <<>>) \/ Leads(kind, a, b, X)
<1>1. PICK T : T = {p \in Bytes \X Seq(Docs) : Flow(kind, p[1], p[2], X) /\ P(p[1], p[2])}
  OBVIOUS
<1>2. <<X, <<>>>> \in T
  BY EmptySeq, FlowNone, <1>1
<1>3. ASSUME NEW d \in Docs, NEW e \in Bytes, NEW v \in Bytes, NEW es \in Seq(Docs),
             Framed(kind, e, d), <<v, es>> \in T
      PROVE  <<e \o v, <<d>> \o es>> \in T
  <2>1. Flow(kind, v, es, X)
    BY <1>1, <1>3
  <2>2. PICK a, b : a = e \o v /\ b = <<d>> \o es
    OBVIOUS
  <2>3. a \in Bytes /\ b \in Seq(Docs)
    BY <2>2, Cat DEF Bytes
  <2>4. Flow(kind, a, b, X)
    BY <1>3, <2>1, <2>2, FlowMore
  <2>5. P(a, b)
    BY <1>3, <2>1, <2>2 DEF Leads
  <2>6. <<a, b>> \in Bytes \X Seq(Docs)
    BY <2>3
  <2>7. <<a, b>> \in T
    <3> HIDE DEF P
    <3> QED BY <1>1, <2>4, <2>5, <2>6
  <2> QED BY <2>2, <2>7
<1>4. FlowClosed(kind, X, T)
  BY <1>2, <1>3 DEF FlowClosed
<1>5. <<w, ds>> \in T
  BY <1>4 DEF Flow
<1> QED BY <1>1, <1>5

LEMMA DocsAssoc ==
  ASSUME NEW u \in Seq(Docs), NEW v \in Seq(Docs), NEW w \in Seq(Docs)
  PROVE  (u \o v) \o w = u \o (v \o w)
  BY ConcatAssociative

\* More is sent behind it.
LEMMA FlowAdd ==
  ASSUME NEW kind, NEW w, NEW ds, Flow(kind, w, ds, <<>>),
         NEW X \in Bytes, NEW v, NEW es, Flow(kind, v, es, X)
  PROVE  Flow(kind, w \o v, ds \o es, X)
<1>0. v \in Bytes /\ es \in Seq(Docs) /\ <<>> \in Bytes
  BY FlowFront, EndIs
<1>1. PICK T : T = {p \in Bytes \X Seq(Docs) : Flow(kind, p[1] \o v, p[2] \o es, X)}
  OBVIOUS
<1>2. <<<<>>, <<>>>> \in T
  BY <1>0, EmptySeq, ConcatEmptySeq, <1>1 DEF Bytes
<1>3. ASSUME NEW d \in Docs, NEW e \in Bytes, NEW a \in Bytes, NEW as \in Seq(Docs),
             Framed(kind, e, d), <<a, as>> \in T
      PROVE  <<e \o a, <<d>> \o as>> \in T
  <2>1. Flow(kind, a \o v, as \o es, X)
    BY <1>1, <1>3
  <2>2. PICK y, ys : y = a \o v /\ ys = as \o es
    OBVIOUS
  <2>3. y \in Bytes /\ ys \in Seq(Docs)
    BY <2>1, <2>2, FlowFront
  <2>4. Flow(kind, e \o y, <<d>> \o ys, X)
    BY <1>3, <2>1, <2>2, <2>3, FlowMore
  <2>5. (e \o a) \o v = e \o y
    BY <1>0, <2>2, Assoc
  <2>6. <<d>> \in Seq(Docs)
    OBVIOUS
  <2>7. (<<d>> \o as) \o es = <<d>> \o ys
    <3>1. PICK one : one = <<d>>
      OBVIOUS
    <3>2. one \in Seq(Docs)
      BY <2>6, <3>1
    <3>3. (one \o as) \o es = one \o (as \o es)
      BY <1>0, <3>2, DocsAssoc
    <3> QED BY <2>2, <3>1, <3>3
  <2>8. PICK b, bs : b = e \o a /\ bs = <<d>> \o as
    OBVIOUS
  <2>9. b \in Bytes
    BY <2>8, Cat DEF Bytes
  <2>10. bs \in Seq(Docs)
    BY <2>6, <2>8, Cat
  <2>11. Flow(kind, b \o v, bs \o es, X)
    BY <2>4, <2>5, <2>7, <2>8
  <2>12. <<b, bs>> \in T
    BY <1>1, <2>9, <2>10, <2>11
  <2> QED BY <2>8, <2>12
<1>4. FlowClosed(kind, <<>>, T)
  BY <1>2, <1>3 DEF FlowClosed
<1>5. <<w, ds>> \in T
  BY <1>4 DEF Flow
<1> QED BY <1>1, <1>5

\* No bytes, no document.
LEMMA FramedIs ==
  ASSUME NEW kind, NEW d \in Docs, NEW e \in Bytes, Framed(kind, e, d)
  PROVE  e # <<>> /\ Len(e) \in Nat \ {0}
<1>0. d \in Bytes
  BY DocIs
<1>1. CASE kind # "chunks"
  BY <1>1, <1>0, ConcatEqualIffEmpty, EmptySeq DEF Framed, NC_SSH_END, Bytes, Byte
<1>2. CASE kind = "chunks"
  <2>1. Chunks(e, d)
    BY <1>2 DEF Framed
  <2>2. d # <<>>
    BY DocIs
  <2>3. PICK c \in ChunkText, r \in Bytes : e = chunk(c) \o r
    BY <2>1, <2>2, ChunksFront
  <2>4. PICK header : header = <<LF, HASH>> \o Decimal[Len(c)] \o <<LF>>
    OBVIOUS
  <2>5. c \in Bytes /\ c # <<>> /\ header \in Bytes /\ chunk(c) = header \o c /\ chunk(c) \in Bytes
    BY <2>4, ChunkIs DEF ChunkText
  <2>6. chunk(c) # <<>>
    BY <2>5, ConcatEqualIffEmpty DEF Bytes
  <2>7. e # <<>>
    BY <2>3, <2>5, <2>6, ConcatEqualIffEmpty DEF Bytes
  <2> QED BY <2>7, EmptySeq DEF Bytes
<1> QED BY <1>1, <1>2

LEMMA FlowNotEmpty ==
  ASSUME NEW kind, NEW X \in Bytes, NEW w, NEW ds, Flow(kind, w, ds, X), ds # <<>> \/ X # <<>>
  PROVE  w # <<>>
<1>1. CASE w = X /\ ds = <<>>
  BY <1>1
<1>2. CASE Leads(kind, w, ds, X)
  BY <1>2, FramedIs, ConcatEqualIffEmpty DEF Leads, Bytes
<1> QED BY <1>1, <1>2, FlowFront

\* Without documents only X is there, whatever the framing.
LEMMA FlowEnd ==
  ASSUME NEW kind, NEW X \in Bytes, NEW w, Flow(kind, w, <<>>, X)
  PROVE  w = X
<1>1. ASSUME NEW d \in Docs, NEW es \in Seq(Docs) PROVE <<d>> \o es # <<>>
  BY ConcatEqualIffEmpty
<1>2. ~Leads(kind, w, <<>>, X)
  BY <1>1 DEF Leads
<1> QED BY <1>2, FlowFront

(* A message under base:1.0 framing *)

EOM(k) == NC_SSH_END[k]

\* i characters of the document and the EOM string were read
At10(in, pos, d, i) ==
  /\ i \in 1..Len(d) + 5
  /\ \/ in = "INMSG" /\ pos = 0 /\ i <= Len(d)
     \/ /\ in = "INEND" /\ pos \in 1..5 /\ pos <= i
        /\ \A k \in 1..pos : (d \o NC_SSH_END)[i - pos + k] = EOM(k)
        /\ i > Len(d) => pos = i - Len(d)

LEMMA EomIs ==
  /\ NC_SSH_END \in Bytes /\ Len(NC_SSH_END) = 6
  /\ EOM(1) = 93 /\ EOM(2) = 93 /\ EOM(3) = 62 /\ EOM(4) = 93 /\ EOM(5) = 93 /\ EOM(6) = 62
  /\ NC_SSH_END_LEN = 6
  BY DEF NC_SSH_END, EOM, Bytes, Byte, NC_SSH_END_LEN

\* A character of a document that is followed by the EOM string.
LEMMA TextOrEnd ==
  ASSUME NEW d \in Bytes, NEW D, D = d \o NC_SSH_END
  PROVE  /\ D \in Bytes /\ Len(D) = Len(d) + 6 /\ Len(d) \in Nat
         /\ \A i \in 1..Len(d) : D[i] = d[i]
         /\ \A k \in 1..6 : D[Len(d) + k] = EOM(k)
<1>1. Len(d) \in Nat /\ NC_SSH_END \in Bytes /\ Len(NC_SSH_END) = 6
  BY EomIs, LenProperties DEF Bytes
<1>2. /\ D \in Bytes /\ Len(D) = Len(d) + 6
      /\ \A i \in 1..Len(d) + 6 : D[i] = IF i <= Len(d) THEN d[i] ELSE NC_SSH_END[i - Len(d)]
  <2>1. PICK u : u = NC_SSH_END
    OBVIOUS
  <2>2. u \in Seq(Byte) /\ d \in Seq(Byte) /\ Len(u) = 6
    BY <1>1, <2>1 DEF Bytes
  <2>3. /\ d \o u \in Seq(Byte) /\ Len(d \o u) = Len(d) + Len(u)
        /\ \A i \in 1..Len(d) + Len(u) : (d \o u)[i] = IF i <= Len(d) THEN d[i] ELSE u[i - Len(d)]
    BY <2>2, ConcatProperties
  <2> QED BY <2>1, <2>2, <2>3 DEF Bytes
<1>3. ASSUME NEW k \in 1..6 PROVE D[Len(d) + k] = EOM(k)
  BY <1>1, <1>2 DEF EOM
<1>4. \A i \in 1..Len(d) : D[i] = d[i]
  BY <1>1, <1>2
<1> QED BY <1>1, <1>2, <1>3, <1>4

\* The EOM string does not begin at the end of a document.
LEMMA NoEarlyEnd ==
  ASSUME NEW d \in Docs, NEW pos \in 1..5, pos <= Len(d),
         \A k \in 1..pos : d[Len(d) - pos + k] = EOM(k)
  PROVE  FALSE
<1>1. d \in Bytes /\ Len(d) \in Nat \ {0} /\ ~Ends(d, <<93>>) /\ ~Ends(d, <<93, 93, 62>>)
  BY DocIs
<1>2. CASE pos \in {1, 2, 4, 5}
  <2>1. EOM(pos) = 93
    BY <1>2, EomIs
  <2>2. d[Len(d)] = 93
    BY <1>1, <2>1
  <2>3. SubSeq(d, Len(d), Len(d)) = <<93>>
    <3>1. Len(d) \in 1..Len(d) /\ Len(d) \in Len(d)..Len(d) /\ Len(d) + 1 > Len(d) /\ Len(d) \in Int /\ Len(d) + 1 \in Int
      BY <1>1
    <3>2. SubSeq(d, Len(d), Len(d)) = <<d[Len(d)]>> \o SubSeq(d, Len(d) + 1, Len(d))
      BY <1>1, <3>1, SubSeqRecursiveFirst DEF Bytes
    <3>3. SubSeq(d, Len(d) + 1, Len(d)) = <<>>
      BY <3>1, SubSeqEmpty
    <3>4. <<93>> \in Seq(Nat) /\ <<93>> \o <<>> = <<93>>
      BY ConcatEmptySeq
    <3> QED BY <2>2, <3>2, <3>3, <3>4
  <2>4. Len(<<93>>) = 1 /\ Len(d) >= 1 /\ Len(d) - 1 + 1 = Len(d)
    BY <1>1
  <2>5. Ends(d, <<93>>)
    BY <2>3, <2>4 DEF Ends
  <2> QED BY <1>1, <2>5
<1>3. CASE pos = 3
  <2>1. Len(d) >= 3 /\ d[Len(d) - 2] = 93 /\ d[Len(d) - 1] = 93 /\ d[Len(d)] = 62
    BY <1>1, <1>3, EomIs
  <2>2. PICK t : t = SubSeq(d, Len(d) - 2, Len(d))
    OBVIOUS
  <2>3. t \in Seq(Byte) /\ Len(t) = 3 /\ \A i \in 1..3 : t[i] = d[Len(d) - 2 + i - 1]
    BY <1>1, <2>1, ElementOfSeq, <2>2, SubSeqProperties DEF Bytes
  <2>4. t[1] = 93 /\ t[2] = 93 /\ t[3] = 62
    BY <1>1, <2>1, <2>3
  <2>5. t = <<93, 93, 62>>
    <3>1. PICK u : u = <<93, 93, 62>>
      OBVIOUS
    <3>2. u \in Seq(Byte) /\ Len(u) = 3 /\ u[1] = 93 /\ u[2] = 93 /\ u[3] = 62
      BY <3>1 DEF Byte
    <3>3. \A i \in 1..Len(t) : t[i] = u[i]
      BY <2>3, <2>4, <3>2
    <3>4. t = u
      BY <2>3, <3>2, <3>3, SeqEqual
    <3> QED BY <3>1, <3>4
  <2>6. Len(<<93, 93, 62>>) = 3 /\ Len(d) - 3 + 1 = Len(d) - 2
    BY <1>1
  <2>7. Ends(d, <<93, 93, 62>>)
    BY <2>1, <2>2, <2>5, <2>6 DEF Ends
  <2> QED BY <1>1, <2>7
<1> QED BY <1>2, <1>3

\* The whole EOM string does not occur in a document.
LEMMA NoEndInside ==
  ASSUME NEW d \in Docs, NEW i \in 6..Len(d), \A k \in 1..6 : d[i - 6 + k] = EOM(k)
  PROVE  FALSE
<1>1. d \in Bytes /\ Len(d) \in Nat /\ (i \in 1..Len(d) => ~Ends(SubSeq(d, 1, i), NC_SSH_END))
  BY DocIs
<1>2. i \in 1..Len(d) /\ i \in 0..Len(d) /\ i \in Nat /\ i >= 6
  BY <1>1
<1>3. PICK t, u : t = SubSeq(d, 1, i) /\ u = SubSeq(t, i - 6 + 1, i)
  OBVIOUS
<1>4. t \in Seq(Byte) /\ Len(t) = i
  BY <1>1, <1>2, <1>3, Split DEF Bytes
<1>5. \A j \in 1..i : t[j] = d[j] /\ d[j] \in Byte
  BY <1>1, <1>2, ElementOfSeq, <1>3, SubSeqProperties DEF Bytes
<1>6. u \in Seq(Byte) /\ Len(u) = 6 /\ \A k \in 1..6 : u[k] = EOM(k)
  BY <1>2, <1>5, <1>3, SubSeqProperties
<1>7. u = NC_SSH_END
  <2>1. PICK v : v = NC_SSH_END
    OBVIOUS
  <2>2. v \in Seq(Byte) /\ Len(v) = 6 /\ \A k \in 1..6 : v[k] = EOM(k)
    BY <2>1, EomIs DEF Bytes, EOM
  <2>3. u = v
    BY <1>6, <2>2, SeqEqual
  <2> QED BY <2>1, <2>3
<1>8. Ends(t, NC_SSH_END)
  BY <1>2, <1>3, <1>4, <1>7, EomIs DEF Ends
<1> QED BY <1>1, <1>2, <1>3, <1>8

\* One character more.
LEMMA Step10 ==
  ASSUME NEW d \in Docs, NEW D, D = d \o NC_SSH_END, NEW in, NEW pos, NEW i \in 0..Len(d) + 5,
         (i = 0 /\ in = "IDLE" /\ pos = 0) \/ At10(in, pos, d, i), NEW ch, ch = D[i + 1]
  PROVE  /\ in \in {"IDLE", "INMSG"} =>
              /\ ch = EOM(1) => At10("INEND", 1, d, i + 1)
              /\ ch # EOM(1) => At10("INMSG", pos, d, i + 1)
         /\ in \notin {"IDLE", "INMSG"} =>
              /\ in = "INEND" /\ pos \in 1..5
              /\ ch # EOM(pos + 1) => At10("INMSG", 0, d, i + 1)
              /\ ch = EOM(pos + 1) /\ pos # 5 => At10("INEND", pos + 1, d, i + 1)
              /\ ch = EOM(pos + 1) /\ pos = 5 => i = Len(d) + 5
<1>1. /\ d \in Bytes /\ Len(d) \in Nat \ {0} /\ Len(D) = Len(d) + 6
      /\ \A j \in 1..Len(d) : D[j] = d[j]
      /\ \A k \in 1..6 : D[Len(d) + k] = EOM(k)
  BY DocIs, TextOrEnd
<1>2. PICK n : n = Len(d)
  OBVIOUS
<1>3. n \in Nat \ {0} /\ i \in 0..n+5
  BY <1>1, <1>2
<1>4. CASE in \in {"IDLE", "INMSG"}
  <2>1. pos = 0 /\ i <= n
    BY <1>2, <1>3, <1>4 DEF At10
  <2>2. CASE ch = EOM(1)
    <3>0. PICK p : p = 1
      OBVIOUS
    <3>1. i + 1 \in 1..n+5 /\ p \in 1..5 /\ p <= i + 1 /\ (i + 1 > n => p = (i + 1) - n)
      BY <1>3, <2>1, <3>0
    <3>2. \A k \in 1..p : D[(i + 1) - p + k] = EOM(k)
      <4>1. \A k \in 1..p : (i + 1) - p + k = i + 1 /\ k = 1
        BY <1>3, <3>0
      <4> QED BY <2>2, <4>1
    <3>4. At10("INEND", p, d, i + 1)
      BY <1>2, <3>1, <3>2 DEF At10
    <3>3. At10("INEND", 1, d, i + 1)
      BY <3>0, <3>4
    <3> QED BY <1>4, <2>2, <3>3
  <2>3. CASE ch # EOM(1)
    <3>1. i # n
      BY <1>1, <1>2, <2>3
    <3>2. i + 1 \in 1..n+5 /\ i + 1 <= n
      BY <1>3, <2>1, <3>1
    <3>3. At10("INMSG", pos, d, i + 1)
      BY <1>2, <2>1, <3>2 DEF At10
    <3> QED BY <1>4, <2>3, <3>3
  <2> QED BY <2>2, <2>3
<1>5. CASE in \notin {"IDLE", "INMSG"}
  <2>1. /\ in = "INEND" /\ pos \in 1..5 /\ pos <= i
        /\ \A k \in 1..pos : D[i - pos + k] = EOM(k)
        /\ i > n => pos = i - n
    BY <1>2, <1>5 DEF At10
  <2>2. i # n
    <3>1. SUFFICES ASSUME i = n PROVE FALSE
      OBVIOUS
    <3>2. \A k \in 1..pos : n - pos + k \in 1..n
      BY <1>3, <2>1, <3>1
    <3>3. \A k \in 1..pos : d[n - pos + k] = EOM(k)
      BY <1>1, <1>2, <2>1, <3>1, <3>2
    <3> QED BY <1>2, <2>1, <3>1, <3>3, NoEarlyEnd
  <2>3. CASE ch # EOM(pos + 1)
    <3>1. i < n
      <4>1. SUFFICES ASSUME i > n PROVE FALSE
        BY <1>3, <2>2
      <4>2. pos + 1 \in 1..6 /\ n + (pos + 1) = i + 1
        BY <1>3, <2>1, <4>1
      <4> QED BY <1>1, <1>2, <2>3, <4>2
    <3>2. i + 1 \in 1..n+5 /\ i + 1 <= n
      BY <1>3, <3>1
    <3>3. At10("INMSG", 0, d, i + 1)
      BY <1>2, <3>2 DEF At10
    <3> QED BY <1>5, <2>1, <2>3, <3>3
  <2>4. CASE ch = EOM(pos + 1)
    <3>1. ASSUME NEW k \in 1..pos + 1 PROVE D[(i + 1) - (pos + 1) + k] = EOM(k)
      <4>1. (i + 1) - (pos + 1) + k = i - pos + k
        BY <1>3, <2>1
      <4>2. k \in 1..pos \/ (k = pos + 1 /\ i - pos + k = i + 1)
        BY <1>3, <2>1
      <4> QED BY <2>1, <2>4, <4>1, <4>2
    <3>2. CASE pos # 5
      <4>1. i + 1 \in 1..n+5 /\ pos + 1 \in 1..5 /\ pos + 1 <= i + 1 /\ (i + 1 > n => pos + 1 = (i + 1) - n)
        BY <1>3, <2>1, <2>2, <3>2
      <4>2. At10("INEND", pos + 1, d, i + 1)
        BY <1>2, <3>1, <4>1 DEF At10
      <4> QED BY <1>5, <2>1, <2>4, <3>2, <4>2
    <3>3. CASE pos = 5
      <4>1. ~(i < n)
        <5>1. SUFFICES ASSUME i < n PROVE FALSE
          OBVIOUS
        <5>2. i + 1 \in 6..n
          BY <1>3, <2>1, <3>3, <5>1
        <5>3. \A k \in 1..6 : (i + 1) - 6 + k \in 1..n /\ (i + 1) - (pos + 1) + k = (i + 1) - 6 + k /\ k \in 1..pos + 1
          BY <1>3, <3>3, <5>2
        <5>4. \A k \in 1..6 : d[(i + 1) - 6 + k] = EOM(k)
          BY <1>1, <1>2, <3>1, <5>3
        <5> QED BY <1>2, <5>2, <5>4, NoEndInside
      <4>2. i = n + 5
        BY <1>3, <2>1, <2>2, <3>3, <4>1
      <4> QED BY <1>2, <1>5, <2>1, <2>4, <3>3, <4>2
    <3> QED BY <3>2, <3>3
  <2> QED BY <2>3, <2>4
<1> QED BY <1>4, <1>5

\* The bytes of u from the n-th on.
From(u, n) == SubSeq(u, n, Len(u))

\* The first byte is taken.
LEMMA TakeFirst ==
  ASSUME NEW ch \in Byte, NEW r \in Bytes, NEW w, w = <<ch>> \o r
  PROVE  w \in Bytes /\ w # <<>> /\ Head(w) = ch /\ From(w, 2) = r /\ Len(w) = Len(r) + 1
<1>1. r \in Seq(Byte)
  BY DEF Bytes
<1>2. w \in Seq(Byte) /\ w # <<>> /\ Head(w) = ch /\ SubSeq(w, 2, Len(w)) = r /\ Len(w) = Len(r) + 1
  BY <1>1, ConsIs
<1> QED BY <1>2 DEF From, Bytes

\* i bytes of D were read, and one more is.
AtByte(D, i, h, w, W) == h = SubSeq(D, 1, i) /\ w = From(D, i + 1) \o W

LEMMA Move ==
  ASSUME NEW D \in Bytes, NEW i \in Nat, i < Len(D), NEW h, NEW W \in Bytes, NEW w, AtByte(D, i, h, w, W)
  PROVE  /\ w \in Bytes /\ w # <<>> /\ Head(w) = D[i + 1] /\ D[i + 1] \in Byte /\ h \in Bytes
         /\ From(w, 2) = From(D, i + 2) \o W /\ h \o <<D[i + 1]>> = SubSeq(D, 1, i + 1)
<1>0. Len(D) \in Nat /\ h = SubSeq(D, 1, i) /\ w = From(D, i + 1) \o W
  BY LenProperties DEF Bytes, AtByte
<1>1. PICK r, r1, ch, k : r = From(D, i + 1) /\ r1 = From(D, i + 2) /\ ch = D[i + 1] /\ k = i + 1
  OBVIOUS
<1>2. k \in 1..Len(D) /\ Len(D) \in k..Len(D) /\ k - 1 = i /\ k + 1 = i + 2
  BY <1>0, <1>1
<1>3. SubSeq(D, 1, k) = h \o <<ch>> /\ ch \in Byte /\ h \in Bytes /\ <<ch>> \in Bytes
  BY <1>0, <1>1, <1>2, Longer
<1>4. r = <<ch>> \o r1
  BY <1>2, SubSeqRecursiveFirst, <1>1 DEF Bytes, From
<1>5. r1 \in Bytes
  BY <1>2, Split, <1>1 DEF Bytes, From
<1>6. PICK z : z = r1 \o W
  OBVIOUS
<1>7. z \in Bytes
  BY <1>5, <1>6, Cat DEF Bytes
<1>8. w = <<ch>> \o z
  <2>1. (<<ch>> \o r1) \o W = <<ch>> \o (r1 \o W)
    BY <1>3, <1>5, Assoc
  <2> QED BY <1>0, <1>1, <1>4, <1>6, <2>1
<1>9. w \in Bytes /\ w # <<>> /\ Head(w) = ch /\ From(w, 2) = z
  BY <1>3, <1>7, <1>8, TakeFirst
<1> QED BY <1>1, <1>3, <1>6, <1>9

\* In the middle of d, before W.
In10(in, pos, w, h, d, W) == \E i \in 1..Len(d) + 5 :
  At10(in, pos, d, i) /\ h = SubSeq(d \o NC_SSH_END, 1, i) /\ w = From(d \o NC_SSH_END, i + 1) \o W

\* At its beginning, or in the middle.
From10(in, pos, w, h, d, W) ==
  \/ in = "IDLE" /\ pos = 0 /\ h = <<>> /\ w = (d \o NC_SSH_END) \o W
  \/ In10(in, pos, w, h, d, W)

\* The EOM string is complete.
Done10(w, h, d, W) == w = W /\ Len(h) > 6 /\ SubSeq(h, 1, Len(h) - 6) = d /\ h = d \o NC_SSH_END

\* One byte of a document or its EOM string.
LEMMA Parse10 ==
  ASSUME NEW d \in Docs, NEW W \in Bytes, NEW in, NEW pos, NEW w, NEW h, From10(in, pos, w, h, d, W),
         NEW ch, ch = Head(w)
  PROVE  /\ w \in Bytes /\ w # <<>> /\ ch \in Byte /\ h \in Bytes
         /\ in \in {"IDLE", "INMSG"} =>
              /\ ch = EOM(1) => In10("INEND", 1, From(w, 2), h \o <<ch>>, d, W)
              /\ ch # EOM(1) => In10("INMSG", pos, From(w, 2), h \o <<ch>>, d, W)
         /\ in \notin {"IDLE", "INMSG"} =>
              /\ in = "INEND" /\ pos \in 1..5
              /\ ch # EOM(pos + 1) => In10("INMSG", 0, From(w, 2), h \o <<ch>>, d, W)
              /\ ch = EOM(pos + 1) /\ pos # 5 => In10("INEND", pos + 1, From(w, 2), h \o <<ch>>, d, W)
              /\ ch = EOM(pos + 1) /\ pos = 5 => Done10(From(w, 2), h \o <<ch>>, d, W)
<1>1. PICK D : D = d \o NC_SSH_END
  OBVIOUS
<1>2. d \in Bytes /\ D \in Bytes /\ Len(D) = Len(d) + 6 /\ Len(d) \in Nat \ {0}
  BY <1>1, DocIs, TextOrEnd
<1>3. PICK i : /\ i \in 0..Len(d) + 5
               /\ (i = 0 /\ in = "IDLE" /\ pos = 0) \/ At10(in, pos, d, i)
               /\ h = SubSeq(D, 1, i) /\ w = From(D, i + 1) \o W
  <2>1. CASE in = "IDLE" /\ pos = 0 /\ h = <<>> /\ w = D \o W
    <3>1. SubSeq(D, 1, 0) = <<>> /\ SubSeq(D, 1, Len(D)) = D
      BY <1>2, SubSeqEmpty, SubSeqFull DEF Bytes
    <3>2. PICK j : j = 0
      OBVIOUS
    <3>3. j \in 0..Len(d) + 5 /\ h = SubSeq(D, 1, j) /\ w = From(D, j + 1) \o W
      <4>1. j \in 0..Len(d) + 5 /\ j + 1 = 1
        BY <1>2, <3>2
      <4>2. From(D, 1) = D
        BY <3>1 DEF From
      <4> QED BY <2>1, <3>1, <3>2, <4>1, <4>2
    <3> QED BY <2>1, <3>2, <3>3
  <2>2. CASE In10(in, pos, w, h, d, W)
    <3>1. PICK j \in 1..Len(d) + 5 : At10(in, pos, d, j) /\ h = SubSeq(D, 1, j) /\ w = From(D, j + 1) \o W
      BY <1>1, <2>2 DEF In10
    <3>2. j \in 0..Len(d) + 5
      BY <1>2
    <3> QED BY <3>1, <3>2
  <2> QED BY <1>1, <2>1, <2>2 DEF From10
<1>4. i \in Nat /\ i < Len(D)
  BY <1>2, <1>3
<1>5. /\ w \in Bytes /\ w # <<>> /\ ch = D[i + 1] /\ ch \in Byte /\ h \in Bytes
      /\ From(w, 2) = From(D, i + 2) \o W /\ h \o <<ch>> = SubSeq(D, 1, i + 1)
  <2>1. /\ w \in Bytes /\ w # <<>> /\ Head(w) = D[i + 1] /\ D[i + 1] \in Byte /\ h \in Bytes
        /\ From(w, 2) = From(D, i + 2) \o W /\ h \o <<D[i + 1]>> = SubSeq(D, 1, i + 1)
    <3>1. D \in Bytes /\ i \in Nat /\ i < Len(D) /\ AtByte(D, i, h, w, W)
      BY <1>2, <1>3, <1>4 DEF AtByte
    <3> QED BY <3>1, Move
  <2> QED BY <2>1
<1>6. /\ in \in {"IDLE", "INMSG"} =>
           /\ ch = EOM(1) => At10("INEND", 1, d, i + 1)
           /\ ch # EOM(1) => At10("INMSG", pos, d, i + 1)
      /\ in \notin {"IDLE", "INMSG"} =>
           /\ in = "INEND" /\ pos \in 1..5
           /\ ch # EOM(pos + 1) => At10("INMSG", 0, d, i + 1)
           /\ ch = EOM(pos + 1) /\ pos # 5 => At10("INEND", pos + 1, d, i + 1)
           /\ ch = EOM(pos + 1) /\ pos = 5 => i = Len(d) + 5
  BY <1>1, <1>3, <1>5, Step10
<1>7. ASSUME NEW in1, NEW pos1, At10(in1, pos1, d, i + 1)
      PROVE  In10(in1, pos1, From(w, 2), h \o <<ch>>, d, W)
  <2>1. PICK k : k = i + 1
    OBVIOUS
  <2>2. k \in 1..Len(d) + 5
    BY <1>7, <2>1 DEF At10
  <2>3. k + 1 = i + 2
    BY <1>3, <2>1
  <2>4. h \o <<ch>> = SubSeq(D, 1, k) /\ From(w, 2) = From(D, k + 1) \o W
    BY <1>5, <2>1, <2>3
  <2> QED BY <1>1, <1>7, <2>1, <2>2, <2>4 DEF In10
<1>8. ASSUME i = Len(d) + 5 PROVE Done10(From(w, 2), h \o <<ch>>, d, W)
  <2>1. i + 1 = Len(D) /\ i + 2 > Len(D) /\ i + 2 \in Int /\ Len(D) \in Int
    BY <1>2, <1>8
  <2>2. SubSeq(D, 1, Len(D)) = D
    BY <1>2, SubSeqFull DEF Bytes
  <2>3. From(D, i + 2) = <<>>
    BY <2>1, SubSeqEmpty DEF From
  <2>4. <<>> \o W = W
    BY ConcatEmptySeq DEF Bytes
  <2>5. h \o <<ch>> = D /\ From(w, 2) = W
    BY <1>5, <2>1, <2>2, <2>3, <2>4
  <2>6. Len(D) > 6 /\ Len(D) - 6 = Len(d)
    BY <1>2
  <2>7. SubSeq(D, 1, Len(d)) = d
    BY <1>1, <1>2, EomIs, Parts DEF Bytes
  <2> QED BY <1>1, <2>5, <2>6, <2>7 DEF Done10
<1> QED BY <1>5, <1>6, <1>7, <1>8

(* A message in chunks *)

\* The bytes of the framing.
Lf == <<LF>>
Hs == <<HASH>>

LEMMA ByteCodes ==
  /\ LF \in Byte /\ HASH \in Byte /\ LF = 10 /\ HASH = 35 /\ Lf \in Bytes /\ Hs \in Bytes
  /\ 48..57 \subseteq Byte /\ LF \notin 48..57 /\ HASH \notin 48..57
  BY DEF LF, HASH, Byte, Bytes, Lf, Hs

LEMMA MarkBytes == Lf \in Bytes /\ Hs \in Bytes
  BY ByteCodes

\* A sequence that has the elements of two others is their concatenation.
LEMMA Glue ==
  ASSUME NEW u \in Bytes, NEW v \in Bytes, NEW s \in Bytes, Len(s) = Len(u) + Len(v),
         \A i \in 1..Len(u) : s[i] = u[i], \A j \in 1..Len(v) : s[Len(u) + j] = v[j]
  PROVE  u \o v = s
<1>1. Len(u) \in Nat /\ Len(v) \in Nat
  BY LenProperties DEF Bytes
<1>2. PICK w : w = u \o v
  OBVIOUS
<1>3. /\ w \in Seq(Byte) /\ Len(w) = Len(u) + Len(v)
      /\ \A i \in 1..Len(u) + Len(v) : w[i] = IF i <= Len(u) THEN u[i] ELSE v[i - Len(u)]
  BY <1>2, ConcatProperties DEF Bytes
<1>4. ASSUME NEW i \in 1..Len(w) PROVE w[i] = s[i]
  <2>1. CASE i <= Len(u)
    BY <1>1, <1>3, <2>1
  <2>2. CASE ~(i <= Len(u))
    BY <1>1, <1>3, <2>2
  <2> QED BY <2>1, <2>2
<1>5. w = s
  BY <1>3, <1>4, SeqEqual DEF Bytes
<1> QED BY <1>2, <1>5

LEMMA Marks ==
  /\ <<LF, HASH>> = Lf \o Hs /\ <<LF, HASH>> \in Bytes
  /\ NC_SSH_END_CHUNKS = Lf \o (Hs \o (Hs \o Lf))
<1>0. Lf \in Bytes /\ Hs \in Bytes /\ Len(Lf) = 1 /\ Len(Hs) = 1 /\ Lf[1] = LF /\ Hs[1] = HASH
  BY ByteCodes DEF Lf, Hs
<1>1. ASSUME NEW u \in Bytes, Len(u) = 1, NEW v \in Bytes, NEW s \in Bytes, Len(s) = Len(v) + 1, s[1] = u[1],
             \A j \in 1..Len(v) : s[1 + j] = v[j]
      PROVE  u \o v = s
  <2>1. Len(s) = Len(u) + Len(v)
    BY <1>1, LenProperties DEF Bytes
  <2>2. \A i \in 1..Len(u) : s[i] = u[i]
    BY <1>1
  <2>3. \A j \in 1..Len(v) : s[Len(u) + j] = v[j]
    BY <1>1
  <2> QED BY <2>1, <2>2, <2>3, Glue
<1>2. PICK s2, t2, s3, s4 : s2 = <<LF, HASH>> /\ t2 = <<HASH, LF>> /\ s3 = <<HASH, HASH, LF>> /\ s4 = <<LF, HASH, HASH, LF>>
  OBVIOUS
<1>3. s2 \in Bytes /\ t2 \in Bytes /\ s3 \in Bytes /\ s4 \in Bytes
  BY <1>2 DEF Bytes, Byte, LF, HASH
<1>4. Len(s2) = 2 /\ Len(t2) = 2 /\ Len(s3) = 3 /\ Len(s4) = 4
  BY <1>2
<1>5. s2[1] = LF /\ s2[2] = HASH /\ t2[1] = HASH /\ t2[2] = LF /\ s3[1] = HASH /\ s3[2] = HASH /\ s3[3] = LF
      /\ s4[1] = LF /\ s4[2] = HASH /\ s4[3] = HASH /\ s4[4] = LF
  BY <1>2
<1>6. \A j \in 1..1 : 1 + j = 2 /\ j = 1
  OBVIOUS
<1>7. Lf \o Hs = s2 /\ Hs \o Lf = t2
  <2>1. \A j \in 1..1 : s2[1 + j] = Hs[j] /\ t2[1 + j] = Lf[j]
    BY <1>0, <1>5, <1>6
  <2>2. /\ Len(s2) = Len(Hs) + 1 /\ s2[1] = Lf[1] /\ \A j \in 1..Len(Hs) : s2[1 + j] = Hs[j]
        /\ Len(t2) = Len(Lf) + 1 /\ t2[1] = Hs[1] /\ \A j \in 1..Len(Lf) : t2[1 + j] = Lf[j]
    BY <1>0, <1>4, <1>5, <2>1
  <2>3. Lf \o Hs = s2
    BY <1>0, <1>1, <1>3, <2>2
  <2>4. Hs \o Lf = t2
    BY <1>0, <1>1, <1>3, <2>2
  <2> QED BY <2>3, <2>4
<1>8. Hs \o t2 = s3
  <2>1. \A j \in 1..2 : s3[1 + j] = t2[j]
    BY <1>5
  <2>2. Len(s3) = Len(t2) + 1 /\ s3[1] = Hs[1] /\ \A j \in 1..Len(t2) : s3[1 + j] = t2[j]
    BY <1>0, <1>4, <1>5, <2>1
  <2> QED BY <1>0, <1>1, <1>3, <2>2
<1>9. Lf \o s3 = s4
  <2>1. \A j \in 1..3 : s4[1 + j] = s3[j]
    BY <1>5
  <2>2. Len(s4) = Len(s3) + 1 /\ s4[1] = Lf[1] /\ \A j \in 1..Len(s3) : s4[1 + j] = s3[j]
    BY <1>0, <1>4, <1>5, <2>1
  <2> QED BY <1>0, <1>1, <1>3, <2>2
<1>10. NC_SSH_END_CHUNKS = s4
  BY <1>2 DEF NC_SSH_END_CHUNKS
<1> QED BY <1>2, <1>3, <1>7, <1>8, <1>9, <1>10

LEMMA TakeMark ==
  ASSUME NEW r \in Bytes, NEW w
  PROVE  /\ w = Lf \o r => w \in Bytes /\ w # <<>> /\ Head(w) = LF /\ From(w, 2) = r
         /\ w = Hs \o r => w \in Bytes /\ w # <<>> /\ Head(w) = HASH /\ From(w, 2) = r
  BY ByteCodes, TakeFirst DEF Lf, Hs

\* z is what follows the LF and HASH of a chunk; t is the text of it and what follows.
Ahead(z, t) == \E c \in ChunkText, r \in Bytes, u \in Bytes :
  z = Decimal[Len(c)] \o (Lf \o (c \o r)) /\ t = c \o u /\ Chunks(r, u)

\* z follows the LF and HASH of a chunk or of the end.
AheadOrEnd(z, t) == (z = Hs \o Lf /\ t = <<>>) \/ Ahead(z, t)

\* After the LF of a chunk.
AfterLf(w, h, d, W) == \E z \in Bytes, t \in Bytes :
  Ahead(z, t) /\ h \o t = d /\ w = Hs \o (z \o W)

\* After pos - 2 digits of its size.
AfterHash(pos, sc, w, h, d, W) == \E c \in ChunkText, r \in Bytes, u \in Bytes, a \in Digits, b \in Digits :
  /\ Decimal[Len(c)] = a \o b /\ pos = 2 + Len(a) /\ SubSeq(sc, 1, pos - 2) = a
  /\ w = b \o (Lf \o (c \o (r \o W))) /\ h \o (c \o u) = d /\ Chunks(r, u)

\* In its text, n bytes of which are left.
InText(w, h, n, d, W) == \E c \in ChunkText, r \in Bytes, u \in Bytes :
  w = c \o (r \o W) /\ h \o (c \o u) = d /\ Chunks(r, u) /\ n = Len(c)

\* Behind it.
Behind(pos, w, h, d, W) == \E z \in Bytes, t \in Bytes :
  /\ AheadOrEnd(z, t) /\ h \o t = d
  /\ \/ pos = 0 /\ w = Lf \o (Hs \o (z \o W))
     \/ pos = 1 /\ w = Hs \o (z \o W)
     \/ pos = 2 /\ w = z \o W

LEMMA DigitsAreBytes == Digits \subseteq Bytes
  BY ByteCodes, SeqMonotonic DEF Digits, Bytes

LEMMA AheadIs ==
  ASSUME NEW z, NEW t, AheadOrEnd(z, t)
  PROVE  z \in Bytes /\ t \in Bytes
<1>1. CASE z = Hs \o Lf /\ t = <<>>
  BY <1>1, ByteCodes, EndIs, Cat DEF Bytes
<1>2. CASE Ahead(z, t)
  <2>1. PICK c \in ChunkText, r \in Bytes, u \in Bytes :
          z = Decimal[Len(c)] \o (Lf \o (c \o r)) /\ t = c \o u
    BY <1>2 DEF Ahead
  <2>2. PICK s : s = Decimal[Len(c)]
    OBVIOUS
  <2>3. s \in Bytes /\ c \in Bytes
    BY <2>2, ChunkIs DEF ChunkText
  <2>4. PICK y, x : y = c \o r /\ x = Lf \o y
    OBVIOUS
  <2>5. y \in Bytes
    BY <2>3, <2>4, Cat DEF Bytes
  <2>6. x \in Bytes
    BY <2>4, <2>5, ByteCodes, Cat DEF Bytes
  <2>7. s \o x \in Bytes /\ c \o u \in Bytes
    BY <2>3, <2>6, Cat DEF Bytes
  <2> QED BY <2>1, <2>2, <2>4, <2>7
<1> QED BY <1>1, <1>2 DEF AheadOrEnd

\* A chunk list begins with LF and HASH.
LEMMA ChunksRest ==
  ASSUME NEW e, NEW t, Chunks(e, t)
  PROVE  \E z \in Bytes : e = Lf \o (Hs \o z) /\ AheadOrEnd(z, t) /\ (t # <<>> => Ahead(z, t))
<1>1. CASE e = NC_SSH_END_CHUNKS /\ t = <<>>
  BY <1>1, Marks, AheadIs DEF AheadOrEnd
<1>2. ASSUME NEW c \in ChunkText, NEW r \in Bytes, NEW u \in Bytes, e = chunk(c) \o r, t = c \o u, Chunks(r, u)
      PROVE  \E z \in Bytes : e = Lf \o (Hs \o z) /\ Ahead(z, t)
  <2>1. PICK s, hd, two : s = Decimal[Len(c)] /\ hd = (two \o s) \o Lf /\ two = <<LF, HASH>>
    OBVIOUS
  <2>2. s \in Bytes /\ hd \in Bytes /\ chunk(c) = hd \o c /\ c \in Bytes
    BY <2>1, ChunkIs DEF ChunkText, Lf
  <2>3. two \in Bytes /\ two = Lf \o Hs
    BY <2>1, Marks
  <2>4. PICK cr, z, y : cr = c \o r /\ y = Lf \o cr /\ z = s \o y
    OBVIOUS
  <2>5. cr \in Bytes
    BY <2>2, <2>4, Cat DEF Bytes
  <2>6. y \in Bytes
    BY <2>4, <2>5, ByteCodes, Cat DEF Bytes
  <2>7. z \in Bytes
    BY <2>2, <2>4, <2>6, Cat DEF Bytes
  <2>8. e = hd \o cr
    <3>1. (hd \o c) \o r = hd \o (c \o r)
      BY <2>2, Assoc
    <3> QED BY <1>2, <2>2, <2>4, <3>1
  <2>9. ((two \o s) \o Lf) \o cr = two \o (s \o (Lf \o cr))
    <3>1. PICK l : l = Lf
      OBVIOUS
    <3>2. two \in Bytes /\ s \in Bytes /\ l \in Bytes /\ cr \in Bytes
      BY <2>2, <2>3, <2>5, <3>1, MarkBytes
    <3>3. PICK ts, ly : ts = two \o s /\ ly = l \o cr
      OBVIOUS
    <3>4. ts \in Bytes /\ ly \in Bytes
      BY <3>2, <3>3, Cat DEF Bytes
    <3>5. (ts \o l) \o cr = ts \o (l \o cr)
      BY <3>2, <3>4, Assoc, SMTT(60)
    <3>6. (two \o s) \o ly = two \o (s \o ly)
      BY <3>2, <3>4, Assoc, SMTT(60)
    <3> QED BY <3>1, <3>3, <3>5, <3>6
  <2>10. e = two \o z
    BY <2>1, <2>4, <2>8, <2>9
  <2>11. two \o z = Lf \o (Hs \o z)
    BY <2>3, <2>7, MarkBytes, Assoc
  <2>12. Ahead(z, t)
    BY <1>2, <2>1, <2>4 DEF Ahead
  <2> QED BY <2>7, <2>10, <2>11, <2>12
<1>3. CASE ~(e = NC_SSH_END_CHUNKS /\ t = <<>>)
  <2>1. PICK c \in ChunkText, r \in Bytes, u \in Bytes : e = chunk(c) \o r /\ t = c \o u /\ Chunks(r, u)
    <3>1. \/ e = NC_SSH_END_CHUNKS /\ t = <<>>
          \/ \E c \in ChunkText, r \in Bytes, u \in Bytes : e = chunk(c) \o r /\ t = c \o u /\ Chunks(r, u)
      <4>1. PICK y : y = e
        OBVIOUS
      <4>2. Chunks(y, t)
        BY <4>1
      <4> QED BY <4>1, <4>2, ChunksFront, SMTT(30)
    <3> QED BY <1>3, <3>1
  <2>2. PICK z \in Bytes : e = Lf \o (Hs \o z) /\ Ahead(z, t)
    BY <1>2, <2>1
  <2> QED BY <2>2 DEF AheadOrEnd
<1> QED BY <1>1, <1>3

\* The beginning of a message.
LEMMA ParseIdle ==
  ASSUME NEW d \in Docs, NEW e \in Bytes, Chunks(e, d), NEW W \in Bytes, NEW w, w = e \o W
  PROVE  w \in Bytes /\ w # <<>> /\ Head(w) = LF /\ AfterLf(From(w, 2), <<>>, d, W)
<1>1. PICK z \in Bytes : e = Lf \o (Hs \o z) /\ Ahead(z, d)
  BY ChunksRest, DocIs
<1>2. PICK hz, y, v : hz = Hs \o z /\ y = z \o W /\ v = Hs \o y
  OBVIOUS
<1>3. hz \in Bytes
  BY <1>2, ByteCodes, Cat DEF Bytes
<1>4. y \in Bytes
  BY <1>2, Cat DEF Bytes
<1>5. v \in Bytes
  BY <1>2, <1>4, ByteCodes, Cat DEF Bytes
<1>6. hz \o W = v
  BY <1>2, ByteCodes, Assoc
<1>7. w = Lf \o v
  <2>1. (Lf \o hz) \o W = Lf \o (hz \o W)
    BY <1>3, MarkBytes, Assoc
  <2> QED BY <1>1, <1>2, <1>6, <2>1
<1>8. w \in Bytes /\ w # <<>> /\ Head(w) = LF /\ From(w, 2) = v
  BY <1>5, <1>7, TakeMark
<1>9. d \in Bytes /\ <<>> \o d = d
  BY DocIs, ConcatEmptySeq DEF Bytes
<1>10. AfterLf(v, <<>>, d, W)
  BY <1>1, <1>2, <1>9 DEF AfterLf
<1> QED BY <1>8, <1>10

LEMMA ParseStartHash ==
  ASSUME NEW W \in Bytes, NEW h, NEW d, NEW w, AfterLf(w, h, d, W), NEW sc
  PROVE  w \in Bytes /\ w # <<>> /\ Head(w) = HASH /\ AfterHash(2, sc, From(w, 2), h, d, W)
<1>1. PICK z \in Bytes, t \in Bytes : Ahead(z, t) /\ h \o t = d /\ w = Hs \o (z \o W)
  BY DEF AfterLf
<1>2. PICK v : v = z \o W
  OBVIOUS
<1>3. v \in Bytes
  BY <1>2, Cat DEF Bytes
<1>4. w \in Bytes /\ w # <<>> /\ Head(w) = HASH /\ From(w, 2) = v
  BY <1>1, <1>2, <1>3, TakeMark
<1>5. PICK c \in ChunkText, r \in Bytes, u \in Bytes :
        z = Decimal[Len(c)] \o (Lf \o (c \o r)) /\ t = c \o u /\ Chunks(r, u)
  BY <1>1 DEF Ahead
<1>6. PICK s, a : s = Decimal[Len(c)] /\ a = <<>>
  OBVIOUS
<1>7. s \in Digits /\ s \in Bytes /\ a \in Digits /\ s = a \o s /\ Len(a) = 0
  BY <1>6, ChunkIs, EmptySeq, ConcatEmptySeq DEF Digits
<1>8. 2 = 2 + Len(a) /\ SubSeq(sc, 1, 2 - 2) = a
  BY SubSeqEmpty, <1>6, <1>7
<1>9. v = s \o (Lf \o (c \o (r \o W)))
  <2>1. PICK cr, y : cr = c \o r /\ y = Lf \o cr
    OBVIOUS
  <2>2. cr \in Bytes
    BY <2>1, Cat DEF Bytes, ChunkText
  <2>3. y \in Bytes
    BY <2>1, <2>2, MarkBytes, Cat DEF Bytes
  <2>4. (s \o y) \o W = s \o (y \o W)
    BY <1>7, <2>3, Assoc, SMTT(30)
  <2>5. (Lf \o cr) \o W = Lf \o (cr \o W)
    BY <2>2, MarkBytes, Assoc, SMTT(30)
  <2>6. (c \o r) \o W = c \o (r \o W)
    <3>1. c \in Bytes
      BY DEF ChunkText
    <3> QED BY <3>1, Assoc, SMTT(30)
  <2> QED BY <1>2, <1>5, <1>6, <2>1, <2>4, <2>5, <2>6
<1>10. AfterHash(2, sc, v, h, d, W)
  BY <1>1, <1>5, <1>6, <1>7, <1>8, <1>9 DEF AfterHash
<1> QED BY <1>4, <1>10

\* What AfterHash says, for one step.
HashParts(c, r, u, a, b, s, y, pos, sc, w, h, d, W) ==
  /\ c \in ChunkText /\ r \in Bytes /\ u \in Bytes /\ a \in Digits /\ b \in Digits /\ s \in Digits /\ y \in Bytes
  /\ s = Decimal[Len(c)] /\ s = a \o b /\ Len(s) = Len(a) + Len(b) /\ pos = 2 + Len(a) /\ SubSeq(sc, 1, pos - 2) = a
  /\ w = b \o (Lf \o y) /\ y = c \o (r \o W) /\ Lf \o y \in Bytes
  /\ h \o (c \o u) = d /\ Chunks(r, u)
  /\ s # <<>> /\ s[1] \in 49..57 /\ ncx_convert_num(s) = Len(c) /\ Len(c) \in 1..NCX_MAX_UINT
  /\ Len(s) <= SES_MAX_STARTCHUNK_SIZE - 3 /\ Len(a) \in Nat /\ Len(b) \in Nat

LEMMA AfterHashIs ==
  ASSUME NEW W \in Bytes, NEW h, NEW d, NEW w, NEW pos, NEW sc, AfterHash(pos, sc, w, h, d, W)
  PROVE  \E c, r, u, a, b, s, y : HashParts(c, r, u, a, b, s, y, pos, sc, w, h, d, W)
<1>1. PICK c \in ChunkText, r \in Bytes, u \in Bytes, a \in Digits, b \in Digits :
        /\ Decimal[Len(c)] = a \o b /\ pos = 2 + Len(a) /\ SubSeq(sc, 1, pos - 2) = a
        /\ w = b \o (Lf \o (c \o (r \o W))) /\ h \o (c \o u) = d /\ Chunks(r, u)
  BY DEF AfterHash
<1>2. PICK s, rw, y : s = Decimal[Len(c)] /\ rw = r \o W /\ y = c \o rw
  OBVIOUS
<1>3. rw \in Bytes
  BY <1>2, Cat DEF Bytes
<1>4. y \in Bytes
  BY <1>2, <1>3, Cat DEF Bytes, ChunkText
<1>5. Lf \o y \in Bytes
  BY <1>4, MarkBytes, Cat DEF Bytes
<1>6. /\ s \in Digits /\ s # <<>> /\ s[1] \in 49..57 /\ ncx_convert_num(s) = Len(c) /\ Len(c) \in 1..NCX_MAX_UINT
      /\ Len(s) <= SES_MAX_STARTCHUNK_SIZE - 3
  BY <1>2, ChunkIs
<1>7. Len(s) = Len(a) + Len(b) /\ Len(a) \in Nat /\ Len(b) \in Nat
  BY <1>1, <1>2, Cat, LenProperties DEF Digits
<1>8. s = a \o b /\ w = b \o (Lf \o y) /\ y = c \o (r \o W)
  BY <1>1, <1>2
<1>9. HashParts(c, r, u, a, b, s, y, pos, sc, w, h, d, W)
  BY <1>1, <1>2, <1>4, <1>5, <1>6, <1>7, <1>8 DEF HashParts
<1> QED BY <1>9

\* w begins with a digit of b.
FirstDigit(w, b, y, b1) ==
  /\ w \in Bytes /\ w # <<>> /\ Head(w) = b[1] /\ b[1] \in 48..57
  /\ b1 \in Digits /\ b = <<b[1]>> \o b1 /\ From(w, 2) = b1 \o y /\ Len(b) = Len(b1) + 1

LEMMA DigitTaken ==
  ASSUME NEW b \in Digits, b # <<>>, NEW y \in Bytes
  PROVE  \E b1 : FirstDigit(b \o y, b, y, b1)
<1>0. PICK w : w = b \o y
  OBVIOUS
<1>1. PICK ch, b1 : ch = Head(b) /\ b1 = Tail(b)
  OBVIOUS
<1>2. ch \in 48..57 /\ b1 \in Digits /\ b = <<ch>> \o b1 /\ Len(b) = Len(b1) + 1 /\ ch = b[1]
  BY <1>1, Uncons DEF Digits
<1>3. b1 \in Bytes /\ ch \in Byte
  BY <1>2, DigitsAreBytes, ByteCodes
<1>4. PICK v : v = b1 \o y
  OBVIOUS
<1>5. v \in Bytes
  BY <1>3, <1>4, Cat DEF Bytes
<1>6. w = <<ch>> \o v
  <2>1. <<ch>> \in Bytes
    BY <1>3 DEF Bytes
  <2>2. (<<ch>> \o b1) \o y = <<ch>> \o (b1 \o y)
    BY <1>3, <2>1, Assoc, SMTT(30)
  <2> QED BY <1>0, <1>2, <1>4, <2>2
<1>7. w \in Bytes /\ w # <<>> /\ Head(w) = ch /\ From(w, 2) = v
  BY <1>3, <1>5, <1>6, TakeFirst
<1>8. FirstDigit(w, b, y, b1)
  BY <1>2, <1>4, <1>7 DEF FirstDigit
<1> QED BY <1>0, <1>8

LEMMA ParseHashAny ==
  ASSUME NEW W \in Bytes, NEW h, NEW d, NEW w, NEW pos, NEW sc, AfterHash(pos, sc, w, h, d, W)
  PROVE  w \in Bytes /\ w # <<>>
<1>1. PICK c, r, u, a, b, s, y : HashParts(c, r, u, a, b, s, y, pos, sc, w, h, d, W)
  BY AfterHashIs
<1>2. PICK ly : ly = Lf \o y
  OBVIOUS
<1>3. b \in Digits /\ b \in Bytes /\ ly \in Bytes /\ y \in Bytes /\ w = b \o ly
  BY <1>1, <1>2, DigitsAreBytes DEF HashParts
<1>4. w \in Bytes
  BY <1>3, Cat DEF Bytes
<1>5. ly # <<>>
  BY <1>2, <1>3, TakeMark
<1>6. w # <<>>
  BY <1>3, <1>5, ConcatEqualIffEmpty DEF Bytes
<1> QED BY <1>4, <1>6

LEMMA DigitsAssoc ==
  ASSUME NEW u \in Digits, NEW v \in Digits, NEW w \in Digits
  PROVE  (u \o v) \o w = u \o (v \o w)
  BY ConcatAssociative DEF Digits

LEMMA ParseDigit ==
  ASSUME NEW W \in Bytes, NEW h, NEW d, NEW w, NEW pos, NEW sc, AfterHash(pos, sc, w, h, d, W),
         NEW ch, ch = Head(w), ch # LF, NEW sc1, sc1 = SubSeq(sc, 1, pos - 2) \o <<ch>>
  PROVE  /\ digit(ch, IF pos = 2 THEN 1 ELSE 0) /\ pos # SES_MAX_STARTCHUNK_SIZE /\ ch \in 48..57
         /\ sc1 \in Digits /\ pos + 1 \in 0..SES_MAX_STARTCHUNK_SIZE
         /\ AfterHash(pos + 1, sc1, From(w, 2), h, d, W)
<1>1. PICK c, r, u, a, b, s, y : HashParts(c, r, u, a, b, s, y, pos, sc, w, h, d, W)
  BY AfterHashIs
<1>2. PICK ly : ly = Lf \o y
  OBVIOUS
<1>3. /\ a \in Digits /\ b \in Digits /\ s \in Digits /\ ly \in Bytes /\ y \in Bytes /\ w = b \o ly
      /\ s = a \o b /\ Len(s) = Len(a) + Len(b) /\ pos = 2 + Len(a) /\ SubSeq(sc, 1, pos - 2) = a
      /\ Len(s) <= SES_MAX_STARTCHUNK_SIZE - 3 /\ Len(a) \in Nat /\ Len(b) \in Nat /\ s[1] \in 49..57
  BY <1>1, <1>2 DEF HashParts
<1>4. b # <<>>
  <2>1. ASSUME b = <<>> PROVE FALSE
    BY <1>3, <2>1, ConcatEmptySeq, <1>2, TakeMark DEF Bytes
  <2> QED BY <2>1
<1>5. PICK b1 : FirstDigit(w, b, ly, b1)
  BY <1>3, <1>4, DigitTaken
<1>15. /\ Head(w) = b[1] /\ b[1] \in 48..57 /\ b1 \in Digits
       /\ b = <<b[1]>> \o b1 /\ From(w, 2) = b1 \o ly /\ Len(b) = Len(b1) + 1
  BY <1>5 DEF FirstDigit
<1>6. ch \in 48..57 /\ b = <<ch>> \o b1 /\ Len(b1) \in Nat
  BY <1>15, LenProperties DEF Digits
<1>7. pos # SES_MAX_STARTCHUNK_SIZE /\ pos + 1 \in 0..SES_MAX_STARTCHUNK_SIZE
  <2>1. ASSUME NEW la \in Nat, NEW lb \in Nat, NEW m \in Nat, la + (lb + 1) <= m - 3
        PROVE  2 + la # m /\ 2 + la + 1 \in 0..m
    BY <2>1
  <2>2. Len(a) + (Len(b1) + 1) <= SES_MAX_STARTCHUNK_SIZE - 3
    BY <1>3, <1>15
  <2> QED BY <1>3, <1>6, <2>1, <2>2, Constants
<1>8. sc1 = a \o <<ch>> /\ sc1 \in Digits /\ Len(sc1) = Len(a) + 1
  <2>1. <<ch>> \in Digits /\ Len(<<ch>>) = 1
    BY <1>6 DEF Digits
  <2>2. sc1 = a \o <<ch>>
    BY <1>3
  <2>3. PICK e : e = <<ch>>
    OBVIOUS
  <2>4. a \o e \in Digits /\ Len(a \o e) = Len(a) + Len(e)
    BY <1>3, <2>1, <2>3, Cat DEF Digits
  <2> QED BY <2>1, <2>2, <2>3, <2>4
<1>9. s = sc1 \o b1
  <2>1. <<ch>> \in Digits
    BY <1>6 DEF Digits
  <2>2. (a \o <<ch>>) \o b1 = a \o (<<ch>> \o b1)
    <3>1. PICK e : e = <<ch>>
      OBVIOUS
    <3>2. a \in Digits /\ e \in Digits /\ b1 \in Digits
      BY <1>3, <1>15, <2>1, <3>1
    <3>3. (a \o e) \o b1 = a \o (e \o b1)
      BY <3>2, DigitsAssoc
    <3> QED BY <3>1, <3>3
  <2> QED BY <1>3, <1>6, <1>8, <2>2
<1>10. PICK p : p = pos + 1
  OBVIOUS
<1>11. p = 2 + Len(sc1) /\ SubSeq(sc1, 1, p - 2) = sc1
  <2>1. p = 2 + Len(sc1) /\ p - 2 = Len(sc1)
    BY <1>3, <1>8, <1>10
  <2>2. SubSeq(sc1, 1, Len(sc1)) = sc1
    BY <1>8, SubSeqFull DEF Digits
  <2> QED BY <2>1, <2>2
<1>12. From(w, 2) = b1 \o (Lf \o (c \o (r \o W)))
  BY <1>1, <1>2, <1>15 DEF HashParts
<1>13. AfterHash(p, sc1, From(w, 2), h, d, W)
  BY <1>1, <1>9, <1>8, <1>15, <1>11, <1>12 DEF HashParts, AfterHash
<1>14. digit(ch, IF pos = 2 THEN 1 ELSE 0)
  <2>1. CASE pos = 2
    <3>1. Len(a) = 0
      BY <1>3, <2>1
    <3>2. a = <<>>
      BY <1>3, <3>1, EmptySeq DEF Digits
    <3>3. s = b
      BY <1>3, <3>2, ConcatEmptySeq DEF Digits
    <3>4. ch \in 49..57
      BY <1>3, <1>15, <3>3
    <3> QED BY <2>1, <3>4 DEF digit
  <2>2. CASE pos # 2
    <3>1. (IF pos = 2 THEN 1 ELSE 0) = 0 /\ 48 + 0 = 48
      BY <2>2
    <3> QED BY <1>6, <3>1 DEF digit
  <2> QED BY <2>1, <2>2
<1> QED BY <1>6, <1>7, <1>8, <1>10, <1>13, <1>14

LEMMA ParseStartEnd ==
  ASSUME NEW W \in Bytes, NEW h, NEW d, NEW w, NEW pos, NEW sc, AfterHash(pos, sc, w, h, d, W), Head(w) = LF
  PROVE  /\ pos > 2 /\ pos # SES_MAX_STARTCHUNK_SIZE
         /\ ncx_convert_num(SubSeq(sc, 1, pos - 2)) \in 1..NCX_MAX_UINT
         /\ InText(From(w, 2), h, ncx_convert_num(SubSeq(sc, 1, pos - 2)), d, W)
<1>1. PICK c, r, u, a, b, s, y : HashParts(c, r, u, a, b, s, y, pos, sc, w, h, d, W)
  BY AfterHashIs
<1>2. PICK ly : ly = Lf \o y
  OBVIOUS
<1>3. /\ a \in Digits /\ b \in Digits /\ s \in Digits /\ ly \in Bytes /\ y \in Bytes /\ w = b \o ly
      /\ s = a \o b /\ Len(s) = Len(a) + Len(b) /\ pos = 2 + Len(a) /\ SubSeq(sc, 1, pos - 2) = a
      /\ Len(s) <= SES_MAX_STARTCHUNK_SIZE - 3 /\ Len(a) \in Nat /\ Len(b) \in Nat /\ s # <<>>
      /\ ncx_convert_num(s) = Len(c) /\ Len(c) \in 1..NCX_MAX_UINT
  BY <1>1, <1>2 DEF HashParts
<1>4. b = <<>>
  <2>1. ASSUME b # <<>> PROVE FALSE
    <3>1. PICK b1 : FirstDigit(w, b, ly, b1)
      BY <1>3, <2>1, DigitTaken
    <3> QED BY <3>1, ByteCodes DEF FirstDigit
  <2> QED BY <2>1
<1>5. a = s /\ w = ly /\ Len(s) \in Nat \ {0}
  BY <1>3, ConcatEmptySeq, <1>4, EmptySeq DEF Digits, Bytes
<1>6. pos > 2 /\ pos # SES_MAX_STARTCHUNK_SIZE
  BY <1>3, <1>5, Constants
<1>7. From(w, 2) = y
  BY <1>2, <1>3, <1>5, TakeMark
<1>8. InText(y, h, Len(c), d, W)
  BY <1>1 DEF HashParts, InText
<1> QED BY <1>3, <1>5, <1>6, <1>7, <1>8

LEMMA ParseText ==
  ASSUME NEW W \in Bytes, NEW h \in Bytes, NEW d, NEW w, NEW n, InText(w, h, n, d, W), NEW k \in 1..n,
         NEW text, text = SubSeq(w, 1, k)
  PROVE  /\ text \in Bytes /\ Len(text) = k
         /\ k # n => InText(From(w, k + 1), h \o text, n - k, d, W)
         /\ k = n => Behind(0, From(w, k + 1), h \o text, d, W)
<1>1. PICK c \in ChunkText, r \in Bytes, u \in Bytes :
        w = c \o (r \o W) /\ h \o (c \o u) = d /\ Chunks(r, u) /\ n = Len(c)
  BY DEF InText
<1>2. c \in Bytes /\ n \in Nat /\ k \in 0..Len(c) /\ Len(c) \in 1..NCX_MAX_UINT
  BY <1>1, ChunkIs DEF ChunkText
<1>3. PICK rw, c1, c2 : rw = r \o W /\ c1 = SubSeq(c, 1, k) /\ c2 = SubSeq(c, k + 1, Len(c))
  OBVIOUS
<1>4. rw \in Bytes
  BY <1>3, Cat DEF Bytes
<1>5. c1 \in Bytes /\ Len(c1) = k /\ c2 \in Bytes /\ Len(c2) = Len(c) - k /\ c = c1 \o c2
  BY <1>2, <1>3, Split DEF Bytes
<1>6. text = c1
  BY <1>2, <1>4, PrefixShort, <1>1, <1>3 DEF Bytes
<1>7. From(w, k + 1) = c2 \o rw
  BY <1>2, <1>4, SuffixLong, <1>1, <1>3 DEF Bytes, From
<1>8. PICK h1 : h1 = h \o c1
  OBVIOUS
<1>9. h1 \in Bytes
  BY <1>5, <1>8, Cat DEF Bytes
<1>10. h1 \o (c2 \o u) = d
  <2>1. (c1 \o c2) \o u = c1 \o (c2 \o u)
    BY <1>5, Assoc, SMTT(30)
  <2>2. PICK v : v = c2 \o u
    OBVIOUS
  <2>3. v \in Bytes
    BY <1>5, <2>2, Cat DEF Bytes
  <2>4. (h \o c1) \o v = h \o (c1 \o v)
    BY <1>5, <2>3, Assoc, SMTT(30)
  <2> QED BY <1>1, <1>5, <1>8, <2>1, <2>2, <2>4
<1>11. ASSUME k # n PROVE InText(c2 \o rw, h1, n - k, d, W)
  <2>1. c2 \in ChunkText /\ n - k = Len(c2)
    BY <1>1, <1>2, <1>5, <1>11, Constants, EmptySeq DEF ChunkText
  <2> QED BY <1>1, <1>3, <1>10, <2>1 DEF InText
<1>12. ASSUME k = n PROVE Behind(0, c2 \o rw, h1, d, W)
  <2>1. c2 = <<>>
    BY <1>1, <1>2, <1>5, <1>12, EmptySeq DEF Bytes
  <2>2. c2 \o rw = rw /\ c2 \o u = u
    BY <1>4, <2>1, ConcatEmptySeq DEF Bytes
  <2>3. PICK z \in Bytes : r = Lf \o (Hs \o z) /\ AheadOrEnd(z, u)
    BY <1>1, ChunksRest
  <2>4. PICK hz : hz = Hs \o z
    OBVIOUS
  <2>5. hz \in Bytes
    BY <2>4, MarkBytes, Cat DEF Bytes
  <2>6. (Lf \o hz) \o W = Lf \o (hz \o W)
    BY <2>5, MarkBytes, Assoc, SMTT(30)
  <2>7. (Hs \o z) \o W = Hs \o (z \o W)
    BY MarkBytes, Assoc, SMTT(30)
  <2>8. rw = Lf \o (Hs \o (z \o W))
    BY <1>3, <2>3, <2>4, <2>6, <2>7
  <2>9. h1 \o u = d
    BY <1>10, <2>2
  <2>10. Behind(0, rw, h1, d, W)
    BY <2>3, <2>8, <2>9 DEF Behind
  <2> QED BY <2>2, <2>10
<1> QED BY <1>5, <1>6, <1>7, <1>8, <1>11, <1>12

LEMMA ParseBetween ==
  ASSUME NEW W \in Bytes, NEW h, NEW d, NEW w, NEW pos, Behind(pos, w, h, d, W), pos # 2
  PROVE  /\ pos \in {0, 1} /\ w \in Bytes /\ w # <<>> /\ Head(w) = (IF pos = 0 THEN LF ELSE HASH)
         /\ Behind(pos + 1, From(w, 2), h, d, W)
<1>1. PICK z \in Bytes, t \in Bytes :
        /\ AheadOrEnd(z, t) /\ h \o t = d
        /\ \/ pos = 0 /\ w = Lf \o (Hs \o (z \o W))
           \/ pos = 1 /\ w = Hs \o (z \o W)
           \/ pos = 2 /\ w = z \o W
  BY DEF Behind
<1>2. PICK zw, hz : zw = z \o W /\ hz = Hs \o zw
  OBVIOUS
<1>3. zw \in Bytes
  BY <1>2, Cat DEF Bytes
<1>4. hz \in Bytes
  BY <1>2, <1>3, MarkBytes, Cat DEF Bytes
<1>5. CASE pos = 0
  <2>1. w = Lf \o hz
    BY <1>1, <1>2, <1>5
  <2>2. w \in Bytes /\ w # <<>> /\ Head(w) = LF /\ From(w, 2) = hz
    BY <1>4, <2>1, TakeMark
  <2>3. PICK p : p = 1
    OBVIOUS
  <2>4. Behind(p, hz, h, d, W)
    BY <1>1, <1>2, <2>3 DEF Behind
  <2>5. pos + 1 = p
    BY <1>5, <2>3
  <2> QED BY <1>5, <2>2, <2>4, <2>5
<1>6. CASE pos = 1
  <2>1. w = Hs \o zw
    BY <1>1, <1>2, <1>6
  <2>2. w \in Bytes /\ w # <<>> /\ Head(w) = HASH /\ From(w, 2) = zw
    BY <1>3, <2>1, TakeMark
  <2>3. PICK p : p = 2
    OBVIOUS
  <2>4. Behind(p, zw, h, d, W)
    BY <1>1, <1>2, <2>3 DEF Behind
  <2>5. pos + 1 = p
    BY <1>6, <2>3
  <2> QED BY <1>6, <2>2, <2>4, <2>5
<1> QED BY <1>1, <1>5, <1>6

LEMMA ParseBetweenEnd ==
  ASSUME NEW W \in Bytes, NEW h \in Bytes, NEW d, NEW w, Behind(2, w, h, d, W), NEW sc
  PROVE  /\ w \in Bytes /\ w # <<>>
         /\ digit(Head(w), 1) => AfterHash(2, sc, w, h, d, W)
         /\ ~digit(Head(w), 1) => Head(w) = HASH /\ From(w, 2) = Lf \o W /\ h = d
<1>1. PICK z \in Bytes, t \in Bytes : AheadOrEnd(z, t) /\ h \o t = d /\ w = z \o W
  <2>1. PICK p : p = 2
    OBVIOUS
  <2>2. Behind(p, w, h, d, W)
    BY <2>1
  <2>3. PICK z \in Bytes, t \in Bytes :
          /\ AheadOrEnd(z, t) /\ h \o t = d
          /\ \/ p = 0 /\ w = Lf \o (Hs \o (z \o W))
             \/ p = 1 /\ w = Hs \o (z \o W)
             \/ p = 2 /\ w = z \o W
    BY <2>2 DEF Behind
  <2>4. p # 0 /\ p # 1
    BY <2>1
  <2> QED BY <2>3, <2>4
<1>2. CASE z = Hs \o Lf /\ t = <<>>
  <2>1. PICK lw : lw = Lf \o W
    OBVIOUS
  <2>2. lw \in Bytes
    BY <2>1, MarkBytes, Cat DEF Bytes
  <2>3. (Hs \o Lf) \o W = Hs \o (Lf \o W)
    BY MarkBytes, Assoc, SMTT(30)
  <2>4. w = Hs \o lw
    BY <1>1, <1>2, <2>1, <2>3
  <2>5. w \in Bytes /\ w # <<>> /\ Head(w) = HASH /\ From(w, 2) = lw
    BY <2>2, <2>4, TakeMark
  <2>6. h = d
    BY <1>1, <1>2, ConcatEmptySeq DEF Bytes
  <2>7. ~digit(Head(w), 1)
    BY <2>5, ByteCodes DEF digit
  <2> QED BY <2>1, <2>5, <2>6, <2>7
<1>3. CASE Ahead(z, t)
  <2>1. PICK v : v = Hs \o w
    OBVIOUS
  <2>2. w \in Bytes
    BY <1>1, Cat DEF Bytes
  <2>3. AfterLf(v, h, d, W)
    BY <1>1, <1>3, <2>1 DEF AfterLf
  <2>4. AfterHash(2, sc, From(v, 2), h, d, W)
    BY <2>3, ParseStartHash
  <2>5. From(v, 2) = w
    BY <2>1, <2>2, TakeMark
  <2>6. AfterHash(2, sc, w, h, d, W)
    BY <2>4, <2>5
  <2>7. w # <<>>
    BY <2>6, ParseHashAny
  <2>8. Head(w) # LF
    <3>1. ASSUME Head(w) = LF PROVE FALSE
      BY <2>6, <3>1, ParseStartEnd
    <3> QED BY <3>1
  <2>9. digit(Head(w), 1)
    BY <2>6, <2>8, ParseDigit
  <2> QED BY <2>2, <2>6, <2>7, <2>9
<1> QED BY <1>1, <1>2, <1>3 DEF AheadOrEnd

(* Malformed chunks *)

\* Whole chunks.
Whole == {a \in Bytes : AreChunks(a)}

LEMMA WholeEmpty == <<>> \in Whole
<1>1. PICK e : e = <<>>
  OBVIOUS
<1>2. e \in Bytes /\ Len(e) = 0
  BY <1>1, EmptySeq DEF Bytes
<1>3. AreChunks(e)
  <2>1. PICK cuts : cuts = {0}
    OBVIOUS
  <2>2. cuts \in SUBSET (0..Len(e)) /\ {0, Len(e)} \subseteq cuts /\ cuts \ {0} = {}
    BY <1>2, <2>1
  <2> QED BY <2>2 DEF AreChunks
<1> QED BY <1>1, <1>2, <1>3 DEF Whole

\* Another chunk behind them.
LEMMA WholeMore ==
  ASSUME NEW a \in Whole, NEW k \in Bytes, IsChunk(k)
  PROVE  a \o k \in Whole /\ a \o k # <<>>
<1>1. a \in Bytes /\ AreChunks(a)
  BY DEF Whole
<1>2. PICK b : b = a \o k
  OBVIOUS
<1>3. b \in Bytes /\ Len(b) = Len(a) + Len(k) /\ SubSeq(b, Len(a) + 1, Len(b)) = k
  BY <1>1, <1>2, Parts DEF Bytes
<1>4. Len(a) \in Nat /\ Len(k) \in Nat /\ Len(k) # 0
  BY <1>1, LenProperties DEF Bytes, IsChunk
<1>5. PICK cuts \in SUBSET (0..Len(a)) :
        /\ {0, Len(a)} \subseteq cuts
        /\ \A j \in cuts \ {0} : \E i \in cuts : i < j /\ IsChunk(SubSeq(a, i + 1, j))
  BY <1>1 DEF AreChunks
<1>6. PICK more : more = cuts \union {Len(b)}
  OBVIOUS
<1>7. more \in SUBSET (0..Len(b)) /\ {0, Len(b)} \subseteq more
  <2>1. ASSUME NEW i \in 0..Len(a) PROVE i \in 0..Len(b)
    BY <1>3, <1>4
  <2>2. Len(b) \in 0..Len(b)
    BY <1>3, <1>4
  <2> QED BY <1>5, <1>6, <2>1, <2>2
<1>8. ASSUME NEW j \in more \ {0} PROVE \E i \in more : i < j /\ IsChunk(SubSeq(b, i + 1, j))
  <2>1. CASE j \in cuts
    <3>1. PICK i \in cuts : i < j /\ IsChunk(SubSeq(a, i + 1, j))
      BY <1>5, <1>8, <2>1
    <3>2. i + 1 \in 1..Len(a) /\ j \in 1..Len(a)
      BY <1>4, <1>5, <2>1, <3>1
    <3>3. SubSeq(a \o k, i + 1, j) = SubSeq(a, i + 1, j)
      BY <1>1, <3>2, SubSeqOfConcat1 DEF Bytes
    <3> QED BY <1>2, <1>6, <3>1, <3>3
  <2>2. CASE j = Len(b)
    <3>1. Len(a) \in more /\ Len(a) < j
      BY <1>3, <1>4, <1>5, <1>6, <2>2
    <3> QED BY <1>3, <2>2, <3>1
  <2> QED BY <1>6, <1>8, <2>1, <2>2
<1>9. AreChunks(b)
  BY <1>7, <1>8 DEF AreChunks
<1>10. b # <<>>
  BY <1>3, <1>4, EmptySeq
<1> QED BY <1>2, <1>3, <1>9, <1>10 DEF Whole

\* The LF and HASH of a chunk.
Half == Lf \o Hs

LEMMA HalfIs == Half = <<LF, HASH>> /\ Half \in Bytes /\ Len(Half) = 2
<1>1. Half = <<LF, HASH>> /\ Half \in Bytes
  BY Marks DEF Half
<1> QED BY <1>1

LEMMA HalfIn == Half \in Bytes /\ Len(Half) = 2 /\ Len(Half) + 1 = 3 /\ Half[1] = LF /\ Half[2] = HASH
<1>1. PICK k : k = Len(Half)
  OBVIOUS
<1>2. k = 2 /\ k + 1 = 3
  BY <1>1, HalfIs
<1> QED BY <1>1, <1>2, HalfIs

\* Digits of a size.
Sized(s) == s \in Digits /\ s # <<>> /\ s[1] \in 49..57

LEMMA SizedIs ==
  ASSUME NEW s, Sized(s)
  PROVE  IsSize(s) /\ s \in Bytes /\ s \in Digits /\ Len(s) \in Nat \ {0}
<1>1. s \in Digits /\ s # <<>> /\ s[1] \in 49..57
  BY DEF Sized
<1>2. Head(s) = s[1] /\ Len(s) \in Nat \ {0} /\ DOMAIN s = 1..Len(s)
  BY <1>1, LenProperties, EmptySeq, Uncons DEF Digits
<1>3. \A i \in DOMAIN s : s[i] \in 48..57
  BY <1>1, <1>2, ElementOfSeq DEF Digits
<1> QED BY <1>1, <1>2, <1>3, DigitsAreBytes DEF IsSize

\* The middle of three.
LEMMA Middle ==
  ASSUME NEW u \in Bytes, NEW s \in Bytes, NEW t \in Bytes
  PROVE  /\ SubSeq(u \o (s \o t), 1, Len(u)) = u
         /\ SubSeq(u \o (s \o t), Len(u) + 1, Len(u) + Len(s)) = s
<1>1. PICK st, v, la, lb : st = s \o t /\ v = u \o st /\ la = Len(u) /\ lb = Len(s)
  OBVIOUS
<1>2. st \in Bytes /\ Len(st) = Len(s) + Len(t)
  BY <1>1, Cat DEF Bytes
<1>3. SubSeq(v, 1, la) = u
  BY <1>1, <1>2, Parts DEF Bytes
<1>4. la \in Nat /\ lb \in Nat /\ Len(t) \in Nat
  BY <1>1, LenProperties DEF Bytes
<1>5. SubSeq(v, la + 1, la + lb) = s
  <2>1. CASE lb = 0
    <3>1. s = <<>>
      BY <1>1, <2>1, EmptySeq DEF Bytes
    <3>2. la + lb < la + 1 /\ la + 1 \in Int /\ la + lb \in Int
      BY <1>4, <2>1
    <3> QED BY <3>1, <3>2, SubSeqEmpty
  <2>2. CASE lb # 0
    <3>1. la + 1 \in la + 1..la + Len(st) /\ la + lb \in la + 1..la + Len(st) /\ la + 1 - la = 1 /\ la + lb - la = lb
      BY <1>1, <1>2, <1>4, <2>2
    <3>2. SubSeq(v, la + 1, la + lb) = SubSeq(st, la + 1 - la, la + lb - la)
      BY <1>1, <1>2, <3>1, SubSeqOfConcat2 DEF Bytes
    <3>3. SubSeq(st, 1, lb) = s
      BY <1>1, Parts DEF Bytes
    <3> QED BY <3>1, <3>2, <3>3
  <2> QED BY <2>1, <2>2
<1> QED BY <1>1, <1>3, <1>5

\* A header and what follows it.
LEMMA HeaderIs ==
  ASSUME NEW s, Sized(s), Len(s) <= SES_MAX_STARTCHUNK_SIZE - 3,
         ncx_convert_num(s) <= NCX_MAX_UINT,
         NEW r \in Bytes, NEW v, v = ((Half \o s) \o Lf) \o r
  PROVE  /\ v \in Bytes /\ Len(v) = Len(s) + 3 + Len(r)
         /\ Len(s) + 3 \in 1..Len(v) /\ HasHeader(v, Len(s) + 3, ncx_convert_num(s))
<1>1. IsSize(s) /\ s \in Bytes /\ Len(s) \in Nat \ {0}
  BY SizedIs
<1>2. PICK hs, lr, slr, hsl : hs = Half \o s /\ lr = Lf \o r /\ slr = s \o lr /\ hsl = hs \o Lf
  OBVIOUS
<1>3. lr \in Bytes /\ hs \in Bytes /\ Len(lr) = 1 + Len(r) /\ Len(hs) = 2 + Len(s) /\ lr[1] = LF
  <2>1. lr \in Bytes /\ hs \in Bytes /\ Len(hs) = Len(Half) + Len(s) /\ Len(Lf \o r) = Len(Lf) + Len(r)
    BY <1>1, <1>2, HalfIs, MarkBytes, Cat DEF Bytes
  <2>2. Len(Lf) = 1
    BY DEF Lf
  <2>3. lr[1] = LF
    BY <1>2, ByteCodes, ConsIs DEF Lf, Bytes
  <2> QED BY <1>2, <2>1, <2>2, <2>3, HalfIs
<1>4. slr \in Bytes /\ Len(slr) = Len(s) + Len(lr)
  BY <1>1, <1>2, <1>3, Cat DEF Bytes
<1>5. v = hs \o lr /\ v = Half \o slr
  <2>1. (hs \o Lf) \o r = hs \o (Lf \o r)
    BY <1>3, MarkBytes, Assoc
  <2>2. (Half \o s) \o lr = Half \o (s \o lr)
    BY <1>1, <1>3, HalfIs, Assoc
  <2> QED BY <1>2, <2>1, <2>2
<1>6. Len(r) \in Nat
  BY LenProperties DEF Bytes
<1>7. v \in Bytes /\ Len(v) = Len(s) + 3 + Len(r)
  <2>1. v \in Bytes /\ Len(v) = Len(hs) + Len(lr)
    BY <1>3, <1>5, Cat DEF Bytes
  <2> QED BY <2>1, <1>1, <1>3, <1>6
<1>8. PICK n : n = Len(s) + 3
  OBVIOUS
<1>9. n \in 1..Len(v) /\ n - 1 = 2 + Len(s)
  BY <1>1, <1>6, <1>7, <1>8
<1>10. SubSeq(v, 3, n - 1) = s /\ SubSeq(v, 1, 2) = Half
  <2>1. /\ SubSeq(Half \o (s \o lr), 1, Len(Half)) = Half
        /\ SubSeq(Half \o (s \o lr), Len(Half) + 1, Len(Half) + Len(s)) = s
    BY <1>1, <1>3, HalfIn, Middle
  <2>2. Half \o (s \o lr) = v /\ Len(Half) = 2 /\ Len(Half) + 1 = 3 /\ Len(Half) + Len(s) = n - 1
    BY <1>2, <1>5, <1>9, HalfIs
  <2> QED BY <2>1, <2>2
<1>11. v[n] = LF
  <2>1. n \in 1..Len(hs) + Len(lr) /\ ~(n <= Len(hs)) /\ n - Len(hs) = 1
    BY <1>1, <1>3, <1>6, <1>8
  <2>2. (hs \o lr)[n] = lr[n - Len(hs)]
    BY <1>3, <2>1, ConcatProperties DEF Bytes
  <2> QED BY <1>3, <1>5, <2>1, <2>2
<1>12. IsPrefix(<<LF, HASH>>, v)
  BY HalfIs, SubSeqFull, <1>1, <1>6, <1>7, <1>10 DEF Bytes, IsPrefix
<1>13. HasHeader(v, n, ncx_convert_num(s))
  BY <1>1, <1>10, <1>11, <1>12 DEF HasHeader
<1> QED BY <1>7, <1>8, <1>9, <1>13

\* The bytes of one chunk that the parser has read, by what it expects.
Dangling(in, pos, sc, x, c, a, v) ==
  \/ in = "INSTART" /\ pos = 1 /\ v = Lf
  \/ in = "INSTART" /\ pos \in 2..SES_MAX_STARTCHUNK_SIZE
     /\ \E s \in Digits : /\ v = Half \o s /\ pos = 2 + Len(s) /\ SubSeq(sc, 1, pos - 2) = s
                          /\ s = <<>> \/ Sized(s)
  \/ in = "INMSG" /\ pos = 0
     /\ \E s, r \in Bytes : /\ v = ((Half \o s) \o Lf) \o r /\ Sized(s)
                            /\ Len(s) <= SES_MAX_STARTCHUNK_SIZE - 3
                            /\ x = ncx_convert_num(s) /\ x <= NCX_MAX_UINT /\ c = Len(r) /\ c <= x
  \/ in = "INBETWEEN" /\ a # <<>> /\ \/ pos = 0 /\ v = <<>>
                                     \/ pos = 1 /\ v = Lf
                                     \/ pos = 2 /\ v = Half
  \/ in = "INEND" /\ pos = 3 /\ a # <<>> /\ v = Half \o Hs

\* w is left of M, which the parser has read so far.
Bad(in, pos, sc, w, x, c, M) == \E a \in Whole, v \in Bytes :
  w \in Bytes /\ M = a \o (v \o w) /\ Dangling(in, pos, sc, x, c, a, v)

\* A parser in such a place has read the beginning of a message.
LEMMA DanglingBegins ==
  ASSUME NEW in, NEW pos, NEW sc, NEW x, NEW c, NEW a \in Whole, NEW v \in Bytes, Dangling(in, pos, sc, x, c, a, v)
  PROVE  BeginsChunk(v) \/ (a # <<>> /\ v = <<LF, HASH, HASH>>)
<1>1. CASE v = Lf \/ v = Half \/ v = <<>>
  BY <1>1, HalfIs DEF BeginsChunk, Lf
<1>2. ASSUME NEW s, v = Half \o s, Sized(s), 2 + Len(s) <= SES_MAX_STARTCHUNK_SIZE
      PROVE  BeginsChunk(v)
  <2>1. IsSize(s) /\ s \in Bytes /\ Len(s) \in Nat \ {0}
    BY <1>2, SizedIs
  <2>2. Len(v) = 2 + Len(s)
    BY <1>2, <2>1, HalfIs, Cat DEF Bytes
  <2>3. SubSeq(v, 1, 2) = Half /\ SubSeq(v, 3, Len(v)) = s
    <3>1. /\ SubSeq(Half \o s, 1, Len(Half)) = Half
          /\ SubSeq(Half \o s, Len(Half) + 1, Len(Half \o s)) = s
      <4>1. Half \in Seq(Byte) /\ s \in Seq(Byte)
        BY <2>1, HalfIn DEF Bytes
      <4> QED BY <4>1, Parts
    <3> QED BY <1>2, <3>1, HalfIn
  <2>4. IsPrefix(<<LF, HASH>>, v)
    <3>1. PICK hf : hf = <<LF, HASH>>
      OBVIOUS
    <3>2. hf = Half /\ Len(hf) = 2 /\ SubSeq(hf, 1, Len(hf)) = hf
      BY <3>1, HalfIs, SubSeqFull DEF Bytes
    <3>3. Len(hf) <= Len(v)
      BY <2>1, <2>2, <3>2
    <3>4. IsPrefix(hf, v)
      BY <2>3, <3>2, <3>3 DEF IsPrefix
    <3> QED BY <3>1, <3>4
  <2> QED BY <1>2, <2>1, <2>2, <2>3, <2>4 DEF BeginsChunk
<1>3. ASSUME NEW s, NEW r \in Bytes, v = ((Half \o s) \o Lf) \o r, Sized(s),
             Len(s) <= SES_MAX_STARTCHUNK_SIZE - 3,
             x = ncx_convert_num(s), x <= NCX_MAX_UINT, c = Len(r), c <= x
      PROVE  BeginsChunk(v)
  <2>1. /\ Len(v) = Len(s) + 3 + Len(r) /\ Len(s) + 3 \in 1..Len(v)
        /\ HasHeader(v, Len(s) + 3, ncx_convert_num(s))
    BY <1>3, HeaderIs
  <2>2. Len(s) \in Nat /\ Len(r) \in Nat /\ ncx_convert_num(s) \in Nat /\ NCX_MAX_UINT \in Nat
    BY <1>3, SizedIs, NumberType, LenProperties, Constants DEF Bytes
  <2>3. PICK n : n = Len(s) + 3
    OBVIOUS
  <2>4. n \in 1..Len(v) /\ x \in Len(v) - n..NCX_MAX_UINT /\ HasHeader(v, n, x)
    BY <1>3, <2>1, <2>2, <2>3
  <2> QED BY <2>4 DEF BeginsChunk
<1>4. CASE a # <<>> /\ v = Half \o Hs
  <2>1. v = <<LF, HASH, HASH>>
    <3>1. PICK e : e = <<LF, HASH, HASH>>
      OBVIOUS
    <3>2. e \in Bytes /\ Len(e) = 3 /\ e[1] = LF /\ e[2] = HASH /\ e[3] = HASH
      BY <3>1 DEF Bytes, Byte, LF, HASH
    <3>3. Len(Half) = 2 /\ Half[1] = LF /\ Half[2] = HASH /\ Len(Hs) = 1 /\ Hs[1] = HASH
      BY HalfIn DEF Hs
    <3>4. \A i \in 1..Len(Half) : e[i] = Half[i]
      BY <3>2, <3>3
    <3>5. \A j \in 1..Len(Hs) : e[Len(Half) + j] = Hs[j]
      BY <3>2, <3>3
    <3>6. Half \o Hs = e
      <4>1. Len(e) = Len(Half) + Len(Hs)
        BY <3>2, <3>3
      <4> QED BY <4>1, <3>2, <3>4, <3>5, HalfIn, MarkBytes, Glue
    <3> QED BY <1>4, <3>1, <3>6
  <2> QED BY <1>4, <2>1
<1>5. CASE in = "INSTART" /\ pos = 1 /\ v = Lf
  BY <1>1, <1>5
<1>6. CASE /\ in = "INSTART" /\ pos \in 2..SES_MAX_STARTCHUNK_SIZE
           /\ \E s \in Digits : /\ v = Half \o s /\ pos = 2 + Len(s) /\ SubSeq(sc, 1, pos - 2) = s
                                /\ s = <<>> \/ Sized(s)
  <2>1. PICK s \in Digits : v = Half \o s /\ pos = 2 + Len(s) /\ (s = <<>> \/ Sized(s))
    BY <1>6
  <2>2. CASE s = <<>>
    BY HalfIn, ConcatEmptySeq, <1>1, <2>1, <2>2 DEF Bytes
  <2>3. CASE Sized(s)
    <3>1. 2 + Len(s) <= SES_MAX_STARTCHUNK_SIZE
      BY <1>6, <2>1, Constants
    <3> QED BY <1>2, <2>1, <2>3, <3>1
  <2> QED BY <2>1, <2>2, <2>3
<1>7. CASE /\ in = "INMSG" /\ pos = 0
           /\ \E s, r \in Bytes : /\ v = ((Half \o s) \o Lf) \o r /\ Sized(s)
                                  /\ Len(s) <= SES_MAX_STARTCHUNK_SIZE - 3
                                  /\ x = ncx_convert_num(s) /\ x <= NCX_MAX_UINT /\ c = Len(r) /\ c <= x
  BY <1>3, <1>7
<1>8. CASE in = "INBETWEEN" /\ (v = <<>> \/ v = Lf \/ v = Half)
  BY <1>1, <1>8
<1>9. CASE in = "INEND" /\ a # <<>> /\ v = Half \o Hs
  BY <1>4, <1>9
<1> QED BY <1>5, <1>6, <1>7, <1>8, <1>9 DEF Dangling

LEMMA MalformedIs ==
  ASSUME NEW M \in Malformed
  PROVE  M \in Bytes /\ M # <<>> /\ ~HasMessage(M) /\ ~BeginsMessage(M)
<1>1. M \in Bytes /\ ~HasMessage(M) /\ ~BeginsMessage(M)
  BY InputAssumption DEF InputAssumption, Bytes
<1>2. ASSUME M = <<>> PROVE FALSE
  <2>1. Len(M) = 0 /\ 0 \in 0..Len(M)
    BY <1>1, <1>2, EmptySeq DEF Bytes
  <2>2. PICK k : k = 0
    OBVIOUS
  <2>3. SubSeq(M, 1, k) = <<>> /\ SubSeq(M, k + 1, Len(M)) = <<>>
    BY <2>1, <2>2, SubSeqEmpty
  <2>4. AreChunks(SubSeq(M, 1, k)) /\ BeginsChunk(SubSeq(M, k + 1, Len(M)))
    BY <2>3, WholeEmpty DEF Whole, BeginsChunk
  <2>5. k \in 0..Len(M)
    BY <2>1, <2>2
  <2>6. BeginsMessage(M)
    BY <2>4, <2>5 DEF BeginsMessage
  <2> QED BY <1>1, <2>6
<1> QED BY <1>1, <1>2

\* Malformed bytes have been refused when the last of them is read.
LEMMA BadNotDone ==
  ASSUME NEW M \in Malformed, NEW in, NEW pos, NEW sc, NEW x, NEW c
  PROVE  ~Bad(in, pos, sc, <<>>, x, c, M)
<1> SUFFICES ASSUME Bad(in, pos, sc, <<>>, x, c, M) PROVE FALSE
  OBVIOUS
<1>1. PICK a \in Whole, v \in Bytes : M = a \o (v \o <<>>) /\ Dangling(in, pos, sc, x, c, a, v)
  BY DEF Bad
<1>2. v \o <<>> = v
  BY ConcatEmptySeq DEF Bytes
<1>3. PICK k : k = Len(a)
  OBVIOUS
<1>4. a \in Bytes /\ AreChunks(a)
  BY DEF Whole
<1>5. SubSeq(M, 1, k) = a /\ SubSeq(M, k + 1, Len(M)) = v /\ Len(M) = Len(a) + Len(v)
  BY <1>1, <1>2, <1>3, <1>4, Parts DEF Bytes
<1>6. k \in 0..Len(M) /\ (a # <<>> => k > 0)
  BY <1>4, LenProperties, EmptySeq, <1>3, <1>5 DEF Bytes
<1>7. BeginsChunk(v) \/ (a # <<>> /\ v = <<LF, HASH, HASH>>)
  BY <1>1, DanglingBegins
<1>8. BeginsMessage(M)
  BY <1>4, <1>5, <1>6, <1>7 DEF BeginsMessage
<1> QED BY <1>8, MalformedIs

\* Nor do they end a message.
LEMMA BadNotEnd ==
  ASSUME NEW M \in Malformed, NEW pos, NEW sc, NEW w, NEW x, NEW c, Bad("INEND", pos, sc, w, x, c, M), w # <<>>
  PROVE  Head(w) # LF
<1> SUFFICES ASSUME Head(w) = LF PROVE FALSE
  OBVIOUS
<1>0. PICK in : in = "INEND"
  OBVIOUS
<1>1. PICK a \in Whole, v \in Bytes : w \in Bytes /\ M = a \o (v \o w) /\ Dangling(in, pos, sc, x, c, a, v)
  BY <1>0 DEF Bad
<1>2. a # <<>> /\ v = Half \o Hs
  BY <1>0, <1>1 DEF Dangling
<1>3. PICK r : r = Tail(w)
  OBVIOUS
<1>4. r \in Bytes /\ w = Lf \o r
  BY <1>1, <1>3, Uncons DEF Bytes, Lf
<1>5. PICK e, vw : e = NC_SSH_END_CHUNKS /\ vw = v \o w
  OBVIOUS
<1>6. e \in Bytes /\ vw \in Bytes /\ vw = e \o r
  <2>1. v \in Bytes /\ (v \o Lf) \o r = v \o (Lf \o r)
    BY <1>4, MarkBytes, Assoc
  <2>2. v \o Lf = e
    <3>1. PICK hh : hh = Hs \o Lf
      OBVIOUS
    <3>2. hh \in Bytes /\ Hs \o Lf \in Bytes
      BY <3>1, MarkBytes, Cat DEF Bytes
    <3>3. (Half \o Hs) \o Lf = Half \o (Hs \o Lf)
      BY HalfIn, MarkBytes, Assoc
    <3>4. (Lf \o Hs) \o hh = Lf \o (Hs \o hh)
      BY <3>2, MarkBytes, Assoc
    <3> QED BY <1>2, <1>5, <3>1, <3>3, <3>4, Marks DEF Half
  <2>3. vw \in Bytes
    BY <1>1, <1>5, Cat DEF Bytes
  <2> QED BY <1>4, <1>5, <2>1, <2>2, <2>3, EndIs
<1>7. PICK k : k = Len(a)
  OBVIOUS
<1>8. a \in Bytes /\ AreChunks(a)
  BY DEF Whole
<1>9. SubSeq(M, 1, k) = a /\ SubSeq(M, k + 1, Len(M)) = vw /\ Len(M) = Len(a) + Len(vw)
  <2>1. M = a \o vw
    BY <1>1, <1>5
  <2>2. vw \in Bytes
    BY <1>6
  <2> QED BY <1>7, <1>8, <2>1, <2>2, Parts DEF Bytes
<1>10. k \in 1..Len(M)
  BY <1>2, <1>6, <1>8, LenProperties, EmptySeq, <1>7, <1>9 DEF Bytes
<1>11. IsPrefix(e, vw)
  BY <1>4, <1>6, Parts, SubSeqFull, LenProperties DEF Bytes, IsPrefix
<1>12. HasMessage(M)
  BY <1>5, <1>8, <1>9, <1>10, <1>11 DEF HasMessage
<1> QED BY <1>12, MalformedIs

\* e is the first byte of w.
First(e, w) == e = <<Head(w)>>

\* One byte read.
LEMMA NextByte ==
  ASSUME NEW v \in Bytes, NEW w \in Bytes, w # <<>>, NEW e, First(e, w)
  PROVE  /\ Head(w) \in Byte /\ e \in Bytes /\ From(w, 2) \in Bytes /\ v \o e \in Bytes
         /\ v \o w = (v \o e) \o From(w, 2)
<1>0. PICK ch, w1 : ch = Head(w) /\ w1 = From(w, 2)
  OBVIOUS
<1>1. ch \in Byte /\ w1 \in Bytes /\ w = <<ch>> \o w1
  BY <1>0, Uncons DEF Bytes, From
<1>2. e = <<ch>>
  BY <1>0 DEF First
<1>3. e \in Bytes
  BY <1>1, <1>2 DEF Bytes
<1>4. v \o e \in Bytes
  BY <1>3, Cat DEF Bytes
<1>5. (v \o e) \o w1 = v \o (e \o w1)
  BY <1>1, <1>3, Assoc
<1> QED BY <1>0, <1>1, <1>2, <1>3, <1>4, <1>5

\* Each byte that the parser accepts.
LEMMA BadIdle ==
  ASSUME NEW M \in Malformed, Head(M) = LF, NEW sc, NEW x, NEW c
  PROVE  Bad("INSTART", 1, sc, From(M, 2), x, c, M)
<1>1. M \in Bytes /\ M # <<>>
  BY MalformedIs
<1>2. PICK w1 : w1 = From(M, 2)
  OBVIOUS
<1>3. w1 \in Bytes /\ M = Lf \o w1
  BY <1>1, <1>2, Uncons DEF Bytes, From, Lf
<1>4. PICK a, pos, in : a = <<>> /\ pos = 1 /\ in = "INSTART"
  OBVIOUS
<1>5. a \in Whole /\ M = a \o (Lf \o w1)
  BY <1>1, ConcatEmptySeq, <1>3, <1>4, WholeEmpty DEF Bytes
<1>6. Dangling(in, pos, sc, x, c, a, Lf)
  BY <1>4 DEF Dangling
<1>7. Bad(in, pos, sc, w1, x, c, M)
  BY <1>3, <1>5, <1>6, MarkBytes DEF Bad
<1> QED BY <1>2, <1>4, <1>7

LEMMA BadStep ==
  ASSUME NEW M, NEW a \in Whole, NEW v \in Bytes, NEW w \in Bytes, w # <<>>, M = a \o (v \o w),
         NEW e, First(e, w), NEW v1, v1 = v \o e,
         NEW in, NEW pos, NEW sc, NEW x, NEW c, Dangling(in, pos, sc, x, c, a, v1)
  PROVE  Bad(in, pos, sc, From(w, 2), x, c, M)
<1>1. PICK w1 : w1 = From(w, 2)
  OBVIOUS
<1>2. w1 \in Bytes /\ v1 \in Bytes /\ v \o w = v1 \o w1
  <2>1. /\ From(w, 2) \in Bytes /\ v \o e \in Bytes
        /\ v \o w = (v \o e) \o From(w, 2)
    BY NextByte
  <2> QED BY <1>1, <2>1
<1>3. M = a \o (v1 \o w1)
  BY <1>2
<1>4. Bad(in, pos, sc, w1, x, c, M)
  BY <1>2, <1>3 DEF Bad
<1> QED BY <1>1, <1>4

LEMMA BadStartHash ==
  ASSUME NEW M, NEW w, w # <<>>, NEW sc, NEW x, NEW c, NEW pos, pos = 1,
         Bad("INSTART", pos, sc, w, x, c, M), Head(w) = HASH
  PROVE  Bad("INSTART", pos + 1, sc, From(w, 2), x, c, M)
<1>0. PICK in, two : in = "INSTART" /\ two = pos + 1
  OBVIOUS
<1>1. PICK a \in Whole, v \in Bytes : w \in Bytes /\ M = a \o (v \o w) /\ Dangling(in, pos, sc, x, c, a, v)
  BY <1>0 DEF Bad
<1>2. v = Lf
  BY <1>0, <1>1 DEF Dangling
<1>3. PICK ch, e : ch = Head(w) /\ e = <<ch>>
  OBVIOUS
<1>4. Half = v \o e
  BY <1>2, <1>3 DEF Half, Hs
<1>5. Dangling(in, two, sc, x, c, a, Half)
  <2>1. PICK n : n = <<>>
    OBVIOUS
  <2>2. n \in Digits /\ Len(n) = 0 /\ Half = Half \o n
    BY <2>1, HalfIn, ConcatEmptySeq, EmptySeq DEF Digits, Bytes
  <2>3. two \in 2..SES_MAX_STARTCHUNK_SIZE /\ two = 2 + Len(n) /\ two - 2 = 0
    BY <1>0, <2>2, Constants
  <2>4. SubSeq(sc, 1, two - 2) = n
    BY <2>1, <2>3, SubSeqEmpty
  <2> QED BY <1>0, <2>1, <2>2, <2>3, <2>4 DEF Dangling
<1>6. Bad(in, two, sc, From(w, 2), x, c, M)
  BY <1>3, <1>1, <1>4, <1>5, BadStep DEF First
<1> QED BY <1>0, <1>6

\* The digits of a size read so far.
BadDigits(a, v, s, pos, sc, w, M) ==
  /\ a \in Whole /\ v \in Bytes /\ s \in Digits /\ w \in Bytes /\ M = a \o (v \o w) /\ v = Half \o s
  /\ pos \in 2..SES_MAX_STARTCHUNK_SIZE /\ pos = 2 + Len(s) /\ SubSeq(sc, 1, pos - 2) = s
  /\ s = <<>> \/ Sized(s)

LEMMA BadHashIs ==
  ASSUME NEW M, NEW w, NEW sc, NEW x, NEW c, NEW pos, pos # 1, Bad("INSTART", pos, sc, w, x, c, M)
  PROVE  \E a, v, s : BadDigits(a, v, s, pos, sc, w, M)
<1>0. PICK in : in = "INSTART"
  OBVIOUS
<1>1. PICK a \in Whole, v \in Bytes : w \in Bytes /\ M = a \o (v \o w) /\ Dangling(in, pos, sc, x, c, a, v)
  BY <1>0 DEF Bad
<1>2. /\ pos \in 2..SES_MAX_STARTCHUNK_SIZE
      /\ \E s \in Digits : /\ v = Half \o s /\ pos = 2 + Len(s) /\ SubSeq(sc, 1, pos - 2) = s
                           /\ s = <<>> \/ Sized(s)
  BY <1>0, <1>1 DEF Dangling
<1> QED BY <1>1, <1>2 DEF BadDigits

LEMMA BadDigit ==
  ASSUME NEW M, NEW w, w # <<>>, NEW sc, NEW x, NEW c, NEW pos, pos # 1, Bad("INSTART", pos, sc, w, x, c, M),
         NEW ch, ch = Head(w), digit(ch, IF pos = 2 THEN 1 ELSE 0), pos # SES_MAX_STARTCHUNK_SIZE,
         NEW sc1, sc1 = SubSeq(sc, 1, pos - 2) \o <<ch>>
  PROVE  /\ sc1 \in Digits /\ pos + 1 \in 0..SES_MAX_STARTCHUNK_SIZE
         /\ Bad("INSTART", pos + 1, sc1, From(w, 2), x, c, M)
<1>1. PICK a, v, s : BadDigits(a, v, s, pos, sc, w, M)
  BY BadHashIs
<1>2. /\ a \in Whole /\ v \in Bytes /\ s \in Digits /\ w \in Bytes /\ M = a \o (v \o w) /\ v = Half \o s
      /\ pos \in 2..SES_MAX_STARTCHUNK_SIZE /\ pos = 2 + Len(s) /\ SubSeq(sc, 1, pos - 2) = s
      /\ s = <<>> \/ Sized(s)
  BY <1>1 DEF BadDigits
<1>3. PICK in, p : in = "INSTART" /\ p = pos + 1
  OBVIOUS
<1>4. Len(s) \in Nat /\ (Len(s) = 0 <=> s = <<>>)
  BY <1>2, LenProperties, EmptySeq DEF Digits
<1>5. ch \in 48..57 /\ (s = <<>> => ch \in 49..57)
  <2>1. CASE pos = 2
    BY <2>1 DEF digit
  <2>2. CASE pos # 2
    <3>1. ch \in (48 + 0)..57
      BY <2>2 DEF digit
    <3> QED BY <1>2, <1>4, <2>2, <3>1
  <2> QED BY <2>1, <2>2
<1>6. sc1 = With(s, ch) /\ sc1 \in Digits /\ Len(sc1) = Len(s) + 1 /\ sc1 # <<>>
  <2>1. s \o <<ch>> = Append(s, ch)
    BY <1>2, <1>5, AppendIsConcat DEF Digits
  <2>2. sc1 = With(s, ch)
    BY <1>2, <2>1 DEF With
  <2>3. s \in Seq(48..57) /\ ch \in 48..57
    BY <1>2, <1>5 DEF Digits
  <2>4. ASSUME NEW t, t = With(s, ch) PROVE t \in Seq(48..57) /\ t # <<>> /\ Len(t) = Len(s) + 1
    BY <2>3, <2>4, Snoc1
  <2>5. PICK t : t = With(s, ch)
    OBVIOUS
  <2> QED BY <2>2, <2>4, <2>5 DEF Digits
<1>7. sc1[1] \in 49..57
  <2>1. CASE s = <<>>
    BY <1>2, <1>4, <1>5, <2>1, AppendProperties, <1>6 DEF Digits, With
  <2>2. CASE s # <<>>
    BY <1>2, <1>4, <2>2, <1>5, AppendProperties, <1>6 DEF Sized, Digits, With
  <2> QED BY <2>1, <2>2
<1>8. Sized(sc1)
  BY <1>6, <1>7 DEF Sized
<1>9. p \in 2..SES_MAX_STARTCHUNK_SIZE /\ p = 2 + Len(sc1) /\ p - 2 = Len(sc1)
  BY <1>2, <1>3, <1>4, <1>6, Constants
<1>10. SubSeq(sc1, 1, p - 2) = sc1
  BY <1>6, <1>9, SubSeqFull DEF Digits
<1>11. PICK e, v1 : e = <<ch>> /\ v1 = v \o e
  OBVIOUS
<1>12. v1 = Half \o sc1
  <2>2. e \in Bytes /\ s \in Bytes
    <3>1. ch \in Byte /\ s \in Bytes
      BY <1>2, <1>5, ByteCodes, DigitsAreBytes
    <3> QED BY <1>11, <3>1 DEF Bytes
  <2>3. (Half \o s) \o e = Half \o (s \o e)
    BY <2>2, HalfIn, Assoc
  <2>4. sc1 = s \o e
    BY <1>2, <1>11
  <2> QED BY <1>2, <1>11, <2>3, <2>4
<1>13. Dangling(in, p, sc1, x, c, a, v1)
  BY <1>3, <1>6, <1>8, <1>9, <1>10, <1>12 DEF Dangling
<1>14. Bad(in, p, sc1, From(w, 2), x, c, M)
  BY <1>11, <1>2, <1>13, BadStep DEF First
<1> QED BY <1>3, <1>6, <1>9, <1>14, Constants

LEMMA OneByte ==
  /\ \A w : Head(w) = LF => First(Lf, w)
  /\ \A w : Head(w) = HASH => First(Hs, w)
  BY DEF First, Lf, Hs

LEMMA BadStartEnd ==
  ASSUME NEW M, NEW w, w # <<>>, NEW sc, NEW x0, NEW c0, NEW pos, pos > 2, Bad("INSTART", pos, sc, w, x0, c0, M),
         Head(w) = LF, pos # SES_MAX_STARTCHUNK_SIZE,
         NEW n, n = ncx_convert_num(SubSeq(sc, 1, pos - 2)), n <= NCX_MAX_UINT
  PROVE  n \in 0..NCX_MAX_UINT /\ Bad("INMSG", 0, sc, From(w, 2), n, 0, M)
<1>1. PICK a, v, s : BadDigits(a, v, s, pos, sc, w, M)
  BY BadHashIs
<1>2. /\ a \in Whole /\ v \in Bytes /\ s \in Digits /\ w \in Bytes /\ M = a \o (v \o w) /\ v = Half \o s
      /\ pos \in 2..SES_MAX_STARTCHUNK_SIZE /\ pos = 2 + Len(s) /\ SubSeq(sc, 1, pos - 2) = s
      /\ s = <<>> \/ Sized(s)
  BY <1>1 DEF BadDigits
<1>3. Len(s) \in Nat /\ Sized(s) /\ Len(s) <= SES_MAX_STARTCHUNK_SIZE - 3
  BY <1>2, LenProperties, EmptySeq, Constants DEF Digits
<1>4. n = ncx_convert_num(s) /\ n \in 0..NCX_MAX_UINT
  <2>1. ncx_convert_num(s) \in Nat
    BY <1>2, NumberType
  <2>2. SubSeq(sc, 1, pos - 2) = s
    BY <1>2
  <2>3. n = ncx_convert_num(s)
    BY <2>2
  <2>4. PICK y : y = ncx_convert_num(s)
    OBVIOUS
  <2>5. y \in Nat /\ y <= NCX_MAX_UINT /\ n = y
    BY <2>1, <2>3, <2>4
  <2>6. n \in 0..NCX_MAX_UINT
    BY <2>5, Constants
  <2> QED BY <2>3, <2>6
<1>5. PICK in, p, r, v1, c, hs : in = "INMSG" /\ p = 0 /\ r = <<>> /\ v1 = v \o Lf /\ c = 0 /\ hs = Half \o s
  OBVIOUS
<1>6. r \in Bytes /\ Len(r) = 0 /\ v1 \in Bytes
  BY <1>2, <1>5, EmptySeq, MarkBytes, Cat DEF Bytes
<1>7. v1 = ((Half \o s) \o Lf) \o r
  BY <1>6, ConcatEmptySeq, <1>2, <1>5 DEF Bytes
<1>8. s \in Bytes /\ c = Len(r) /\ c <= n
  BY <1>2, <1>4, <1>5, <1>6, DigitsAreBytes
<1>9. Dangling(in, p, sc, n, c, a, v1)
  BY <1>3, <1>4, <1>5, <1>6, <1>7, <1>8 DEF Dangling
<1>10. Bad(in, p, sc, From(w, 2), n, c, M)
  BY <1>2, <1>5, <1>9, OneByte, BadStep
<1> QED BY <1>4, <1>5, <1>10

\* The text of a chunk read so far.
BadTextParts(a, v, s, r, w, x, c, M) ==
  /\ a \in Whole /\ v \in Bytes /\ w \in Bytes /\ M = a \o (v \o w)
  /\ s \in Bytes /\ r \in Bytes /\ v = ((Half \o s) \o Lf) \o r /\ Sized(s)
  /\ Len(s) <= SES_MAX_STARTCHUNK_SIZE - 3
  /\ x = ncx_convert_num(s) /\ x <= NCX_MAX_UINT /\ c = Len(r) /\ c <= x

LEMMA BadTextIs ==
  ASSUME NEW M, NEW w, NEW sc, NEW x, NEW c, NEW pos, Bad("INMSG", pos, sc, w, x, c, M)
  PROVE  pos = 0 /\ \E a, v, s, r : BadTextParts(a, v, s, r, w, x, c, M)
<1>0. PICK in : in = "INMSG"
  OBVIOUS
<1>1. PICK a \in Whole, v \in Bytes : w \in Bytes /\ M = a \o (v \o w) /\ Dangling(in, pos, sc, x, c, a, v)
  BY <1>0 DEF Bad
<1>2. /\ pos = 0
      /\ \E s, r \in Bytes : /\ v = ((Half \o s) \o Lf) \o r /\ Sized(s)
                             /\ Len(s) <= SES_MAX_STARTCHUNK_SIZE - 3
                             /\ x = ncx_convert_num(s) /\ x <= NCX_MAX_UINT /\ c = Len(r) /\ c <= x
  BY <1>0, <1>1 DEF Dangling
<1>3. PICK s \in Bytes, r \in Bytes :
                             /\ v = ((Half \o s) \o Lf) \o r /\ Sized(s)
                             /\ Len(s) <= SES_MAX_STARTCHUNK_SIZE - 3
                             /\ x = ncx_convert_num(s) /\ x <= NCX_MAX_UINT /\ c = Len(r) /\ c <= x
  BY <1>2
<1>4. BadTextParts(a, v, s, r, w, x, c, M)
  BY <1>1, <1>3 DEF BadTextParts
<1> QED BY <1>2, <1>4

LEMMA BadText ==
  ASSUME NEW M, NEW w, NEW sc, NEW x, NEW c, NEW pos, Bad("INMSG", pos, sc, w, x, c, M),
         NEW k \in Nat, k <= x - c, k <= Len(w), NEW text, text = SubSeq(w, 1, k)
  PROVE  /\ w \in Bytes /\ text \in Bytes /\ Len(text) = k
         /\ k # x - c => Bad("INMSG", 0, sc, From(w, k + 1), x, c + k, M)
         /\ k = x - c => Bad("INBETWEEN", 0, sc, From(w, k + 1), x, c + k, M)
<1>1. PICK a, v, s, r : BadTextParts(a, v, s, r, w, x, c, M)
  BY BadTextIs
<1>2. /\ a \in Whole /\ v \in Bytes /\ w \in Bytes /\ M = a \o (v \o w) /\ a \in Bytes
      /\ s \in Bytes /\ r \in Bytes /\ v = ((Half \o s) \o Lf) \o r /\ Sized(s)
      /\ Len(s) <= SES_MAX_STARTCHUNK_SIZE - 3
      /\ x = ncx_convert_num(s) /\ x <= NCX_MAX_UINT /\ c = Len(r) /\ c <= x
  BY <1>1 DEF BadTextParts, Whole
<1>3. PICK w1 : w1 = From(w, k + 1)
  OBVIOUS
<1>4. text \in Bytes /\ Len(text) = k /\ w1 \in Bytes /\ w = text \o w1
  <2>1. w \in Seq(Byte) /\ k \in 0..Len(w)
    BY <1>2, LenProperties DEF Bytes
  <2>2. /\ SubSeq(w, 1, k) \in Seq(Byte) /\ Len(SubSeq(w, 1, k)) = k
        /\ SubSeq(w, k + 1, Len(w)) \in Seq(Byte)
        /\ w = SubSeq(w, 1, k) \o SubSeq(w, k + 1, Len(w))
    BY <2>1, Split
  <2> QED BY <1>3, <2>2 DEF Bytes, From
<1>5. PICK r1, v1, hsl : r1 = r \o text /\ v1 = v \o text /\ hsl = (Half \o s) \o Lf
  OBVIOUS
<1>6. r1 \in Bytes /\ v1 \in Bytes /\ hsl \in Bytes /\ Len(r1) = Len(r) + k
  BY <1>2, <1>4, HalfIn, Cat, MarkBytes, <1>5 DEF Bytes
<1>7. v1 = ((Half \o s) \o Lf) \o r1
  <2>1. r \in Bytes /\ text \in Bytes
    BY <1>2, <1>4
  <2>2. (hsl \o r) \o text = hsl \o (r \o text)
    BY <1>6, <2>1, Assoc
  <2> QED BY <1>2, <1>5, <2>2
<1>8. M = a \o (v1 \o w1)
  <2>1. v \in Bytes /\ text \in Bytes /\ w1 \in Bytes
    BY <1>2, <1>4
  <2>2. (v \o text) \o w1 = v \o (text \o w1)
    BY <2>1, Assoc
  <2> QED BY <1>2, <1>4, <1>5, <2>2
<1>9. PICK n, c1, p : n = x - c /\ c1 = c + k /\ p = 0
  OBVIOUS
<1>10. c \in Nat /\ x \in Nat /\ c1 = Len(r1) /\ c1 <= x /\ (k = n => c1 = x)
  <2>1. c \in Nat /\ x \in Nat
    BY <1>2, LenProperties, SizedIs, NumberType DEF Bytes
  <2> QED BY <1>2, <1>6, <1>9, <2>1
<1>11. ASSUME k # n PROVE Bad("INMSG", p, sc, w1, x, c1, M)
  BY <1>2, <1>6, <1>7, <1>9, <1>10, <1>4, <1>8 DEF Dangling, Bad
<1>12. ASSUME k = n PROVE Bad("INBETWEEN", p, sc, w1, x, c1, M)
  <2>1. PICK in, e, a1, m : in = "INBETWEEN" /\ e = <<>> /\ a1 = a \o v1 /\ m = Len(s) + 3
    OBVIOUS
  <2>2. Len(v1) = Len(s) + 3 + Len(r1) /\ Len(s) + 3 \in 1..Len(v1) /\ HasHeader(v1, Len(s) + 3, ncx_convert_num(s))
    BY <1>2, <1>6, <1>7, HeaderIs
  <2>3. Len(v1) - m = x /\ m \in 1..Len(v1) /\ HasHeader(v1, m, x)
    BY <1>2, <1>6, LenProperties, <1>10, <1>12, <2>1, <2>2 DEF Bytes
  <2>4. IsChunk(v1)
    BY <2>3 DEF IsChunk
  <2>5. a1 \in Whole /\ a1 # <<>>
    BY <1>2, <1>6, <2>1, <2>4, WholeMore
  <2>6. M = a1 \o (e \o w1)
    <3>1. <<>> \o w1 = w1
      BY <1>4, ConcatEmptySeq DEF Bytes
    <3>2. (a \o v1) \o w1 = a \o (v1 \o w1)
      <4>1. a \in Bytes /\ v1 \in Bytes /\ w1 \in Bytes
        BY <1>2, <1>4, <1>6
      <4> QED BY <4>1, Assoc
    <3> QED BY <1>8, <2>1, <3>1, <3>2
  <2>7. Dangling(in, p, sc, x, c1, a1, e)
    BY <1>9, <2>1, <2>5 DEF Dangling
  <2>8. Bad(in, p, sc, w1, x, c1, M)
    BY <1>4, <2>1, <2>5, <2>6, <2>7, EndIs DEF Bad
  <2> QED BY <2>1, <2>8
<1> QED BY <1>2, <1>3, <1>4, <1>9, <1>11, <1>12

LEMMA BadBetween ==
  ASSUME NEW M, NEW w, w # <<>>, NEW sc, NEW x, NEW c, NEW pos, Bad("INBETWEEN", pos, sc, w, x, c, M), pos # 2,
         Head(w) = (IF pos = 0 THEN LF ELSE HASH)
  PROVE  pos \in {0, 1} /\ Bad("INBETWEEN", pos + 1, sc, From(w, 2), x, c, M)
<1>0. PICK in, p : in = "INBETWEEN" /\ p = pos + 1
  OBVIOUS
<1>1. PICK a \in Whole, v \in Bytes : w \in Bytes /\ M = a \o (v \o w) /\ Dangling(in, pos, sc, x, c, a, v)
  BY <1>0 DEF Bad
<1>2. a # <<>> /\ \/ pos = 0 /\ v = <<>>
                  \/ pos = 1 /\ v = Lf
                  \/ pos = 2 /\ v = Half
  BY <1>0, <1>1 DEF Dangling
<1>3. CASE pos = 0
  <2>1. v = <<>> /\ First(Lf, w) /\ p = 1
    BY <1>0, <1>2, <1>3, OneByte
  <2>2. <<>> \o Lf = Lf
    BY MarkBytes, ConcatEmptySeq DEF Bytes
  <2>3. Dangling(in, p, sc, x, c, a, Lf)
    BY <1>0, <1>2, <2>1 DEF Dangling
  <2>4. Bad(in, p, sc, From(w, 2), x, c, M)
    BY <1>1, <2>1, <2>2, <2>3, BadStep
  <2> QED BY <1>0, <1>3, <2>4
<1>4. CASE pos = 1
  <2>1. v = Lf /\ First(Hs, w) /\ p = 2
    BY <1>0, <1>2, <1>4, OneByte
  <2>2. Half = v \o Hs
    BY <2>1 DEF Half
  <2>3. Dangling(in, p, sc, x, c, a, Half)
    BY <1>0, <1>2, <2>1 DEF Dangling
  <2>4. Bad(in, p, sc, From(w, 2), x, c, M)
    BY <1>1, <2>1, <2>2, <2>3, BadStep
  <2> QED BY <1>0, <1>4, <2>4
<1> QED BY <1>2, <1>3, <1>4

LEMMA BadBehind ==
  ASSUME NEW M, NEW w, NEW sc, NEW x, NEW c, NEW pos, pos = 2, Bad("INBETWEEN", pos, sc, w, x, c, M)
  PROVE  /\ Bad("INSTART", pos, sc, w, x, c, M)
         /\ w # <<>> /\ Head(w) = HASH => Bad("INEND", 3, sc, From(w, 2), x, c, M)
<1>0. PICK in, st, en, p : in = "INBETWEEN" /\ st = "INSTART" /\ en = "INEND" /\ p = 3
  OBVIOUS
<1>1. PICK a \in Whole, v \in Bytes : w \in Bytes /\ M = a \o (v \o w) /\ Dangling(in, pos, sc, x, c, a, v)
  BY <1>0 DEF Bad
<1>2. a # <<>> /\ v = Half
  BY <1>0, <1>1 DEF Dangling
<1>3. Dangling(st, pos, sc, x, c, a, v)
  <2>1. PICK e : e = <<>>
    OBVIOUS
  <2>2. e \in Digits /\ Len(e) = 0 /\ Half = Half \o e
    BY <2>1, HalfIn, ConcatEmptySeq, EmptySeq DEF Digits, Bytes
  <2>3. pos \in 2..SES_MAX_STARTCHUNK_SIZE /\ pos = 2 + Len(e) /\ pos - 2 = 0
    BY <2>2, Constants
  <2>4. SubSeq(sc, 1, pos - 2) = e
    BY <2>1, <2>3, SubSeqEmpty
  <2> QED BY <1>0, <1>2, <2>1, <2>2, <2>3, <2>4 DEF Dangling
<1>4. Bad(st, pos, sc, w, x, c, M)
  BY <1>1, <1>3 DEF Bad
<1>5. ASSUME w # <<>>, Head(w) = HASH PROVE Bad(en, p, sc, From(w, 2), x, c, M)
  BY <1>0, <1>2, <1>1, <1>5, OneByte, BadStep DEF Dangling
<1> QED BY <1>0, <1>4, <1>5

(* Where the parser stands in what was sent *)

\* The state of accept_buffer_ssh_v11 inside a document, with h of it read and w, then W, to come.
In11(in, pos, sc, w, h, x, c, d, W) ==
  \/ in = "INSTART" /\ pos = 1 /\ AfterLf(w, h, d, W)
  \/ in = "INSTART" /\ pos # 1 /\ AfterHash(pos, sc, w, h, d, W)
  \/ in = "INMSG" /\ pos = 0 /\ InText(w, h, x - c, d, W)
  \/ in = "INBETWEEN" /\ Behind(pos, w, h, d, W)
  \/ in = "INEND" /\ pos = 3 /\ h = d /\ w = Lf \o W

\* Inside the document d, of which h is read; W is behind it.
Inside(kind, in, pos, sc, w, h, x, c, d, W) ==
  \/ kind = "eom" /\ In10(in, pos, w, h, d, W)
  \/ kind = "chunks" /\ In11(in, pos, sc, w, h, x, c, d, W)

Within(kind, in, pos, sc, w, h, x, c, ds, X) == \E d \in Docs, es \in Seq(Docs), W \in Bytes :
  ds = <<d>> \o es /\ Flow(kind, W, es, X) /\ Inside(kind, in, pos, sc, w, h, x, c, d, W)

\* w is left of the documents ds and of the malformed chunk X, if there is one.
Place(kind, in, pos, sc, w, h, x, c, ds, X) ==
  \/ in = "IDLE" /\ pos = 0 /\ h = <<>> /\ Flow(kind, w, ds, X)
  \/ Within(kind, in, pos, sc, w, h, x, c, ds, X)
  \/ kind = "chunks" /\ ds = <<>> /\ X \in Malformed /\ Bad(in, pos, sc, w, x, c, X)

LEMMA InsideMore ==
  ASSUME NEW kind, NEW in, NEW pos, NEW sc, NEW w, NEW h \in Bytes, NEW x, NEW c, NEW d \in Docs, NEW W \in Bytes,
         Inside(kind, in, pos, sc, w, h, x, c, d, W)
  PROVE  w \in Bytes /\ w # <<>>
<1>1. CASE In10(in, pos, w, h, d, W)
  BY <1>1, Parse10 DEF From10
<1>2. CASE AfterLf(w, h, d, W)
  BY <1>2, ParseStartHash
<1>3. CASE AfterHash(pos, sc, w, h, d, W)
  BY <1>3, ParseHashAny
<1>4. ASSUME InText(w, h, x - c, d, W) PROVE w \in Bytes /\ w # <<>>
  BY <1>4, Cat, ConcatEqualIffEmpty DEF InText, ChunkText, Bytes
<1>5. CASE Behind(pos, w, h, d, W)
  <2>1. CASE pos # 2
    BY <1>5, <2>1, ParseBetween
  <2>2. CASE pos = 2
    BY <1>5, <2>2, ParseBetweenEnd
  <2> QED BY <2>1, <2>2
<1>6. CASE w = Lf \o W
  BY <1>6, TakeMark
<1> QED BY <1>1, <1>2, <1>3, <1>4, <1>5, <1>6 DEF Inside, In11

\* h is a beginning of d.
Part(h, d) == \E t \in Bytes : h \o t = d

LEMMA PartIs ==
  ASSUME NEW d \in Bytes, NEW h \in Bytes, Part(h, d), NEW e \in Bytes
  PROVE  IsPrefix(h, d \o e)
<1>1. PICK t \in Bytes : h \o t = d
  BY DEF Part
<1>2. PICK u : u = t \o e
  OBVIOUS
<1>3. u \in Bytes
  BY <1>2, Cat DEF Bytes
<1>4. PICK D : D = d \o e
  OBVIOUS
<1>5. (h \o t) \o e = h \o (t \o e)
  BY Assoc
<1>6. D = h \o u
  BY <1>1, <1>2, <1>4, <1>5
<1>7. /\ Len(h \o u) = Len(h) + Len(u) /\ SubSeq(h \o u, 1, Len(h)) = h /\ SubSeq(h, 1, Len(h)) = h
      /\ Len(h) \in Nat /\ Len(u) \in Nat
  BY <1>3, Parts, SubSeqFull, LenProperties DEF Bytes
<1>8. IsPrefix(h, D)
  BY <1>6, <1>7 DEF IsPrefix
<1> QED BY <1>4, <1>8

LEMMA PartMore ==
  ASSUME NEW h, NEW d, NEW f \in Bytes, NEW u \in Bytes, h \o (f \o u) = d
  PROVE  Part(h, d)
<1>1. PICK t : t = f \o u
  OBVIOUS
<1>2. t \in Bytes
  BY <1>1, Cat DEF Bytes
<1> QED BY <1>1, <1>2 DEF Part

\* What is read of a document is a beginning of it, or of the EOM string behind it.
LEMMA InsideText ==
  ASSUME NEW kind, NEW in, NEW pos, NEW sc, NEW w, NEW h \in Bytes, NEW x, NEW c, NEW d \in Docs, NEW W \in Bytes,
         Inside(kind, in, pos, sc, w, h, x, c, d, W)
  PROVE  IsPrefix(h, d \o NC_SSH_END)
<1>1. d \in Bytes /\ NC_SSH_END \in Bytes
  BY DocIs, EomIs
<1>2. CASE Part(h, d)
  BY <1>1, <1>2, PartIs
<1>4. CASE In10(in, pos, w, h, d, W)
  <2>1. PICK D : D = d \o NC_SSH_END
    OBVIOUS
  <2>2. D \in Bytes /\ Len(D) = Len(d) + 6 /\ Len(d) \in Nat
    BY <1>1, <2>1, TextOrEnd
  <2>3. PICK i \in 1..Len(d) + 5 : h = SubSeq(D, 1, i)
    BY <2>1, <1>4 DEF In10
  <2>4. i \in 0..Len(D)
    BY <2>2
  <2>5. /\ SubSeq(D, 1, i) \in Bytes /\ Len(SubSeq(D, 1, i)) = i
    BY <2>2, <2>4, Split DEF Bytes
  <2>6. SubSeq(h, 1, Len(h)) = h /\ Len(h) = i
    BY <2>3, <2>5, SubSeqFull DEF Bytes
  <2>7. IsPrefix(h, D)
    BY <2>2, <2>3, <2>4, <2>6 DEF IsPrefix
  <2> QED BY <2>1, <2>7
<1>5. ASSUME AfterLf(w, h, d, W) PROVE Part(h, d)
  BY <1>5 DEF AfterLf, Part
<1>6. ASSUME AfterHash(pos, sc, w, h, d, W) PROVE Part(h, d)
  BY <1>6, PartMore DEF AfterHash, ChunkText
<1>7. ASSUME InText(w, h, x - c, d, W) PROVE Part(h, d)
  BY <1>7, PartMore DEF InText, ChunkText
<1>8. ASSUME Behind(pos, w, h, d, W) PROVE Part(h, d)
  BY <1>8 DEF Behind, Part
<1>9. ASSUME h = d PROVE Part(h, d)
  BY <1>9, ConcatEmptySeq, EndIs DEF Bytes, Part
<1>10. Part(h, d) \/ In10(in, pos, w, h, d, W)
  BY <1>5, <1>6, <1>7, <1>8, <1>9 DEF Inside, In11
<1> QED BY <1>2, <1>4, <1>10

\* wv is w and v behind it.
Longer2(w, wv, v) == w \in Bytes /\ wv \in Bytes /\ v \in Bytes /\ wv = w \o v

LEMMA LongerMore ==
  ASSUME NEW a \in Bytes, NEW W, NEW Wv, NEW v, Longer2(W, Wv, v)
  PROVE  Longer2(a \o W, a \o Wv, v)
<1>1. W \in Bytes /\ Wv \in Bytes /\ v \in Bytes /\ Wv = W \o v
  BY DEF Longer2
<1>2. (a \o W) \o v = a \o (W \o v)
  BY <1>1, Assoc
<1>3. a \o W \in Bytes /\ a \o Wv \in Bytes
  BY <1>1, Cat DEF Bytes
<1> QED BY <1>1, <1>2, <1>3 DEF Longer2

LEMMA LongerTo ==
  ASSUME NEW w, NEW wv, NEW v, NEW u, NEW uv, Longer2(u, uv, v), w = u, wv = w \o v
  PROVE  wv = uv
  BY DEF Longer2

\* More behind what is left of a document.
LEMMA InsideAdd ==
  ASSUME NEW kind, NEW in, NEW pos, NEW sc, NEW w, NEW h, NEW x, NEW c, NEW d \in Docs, NEW W \in Bytes,
         Inside(kind, in, pos, sc, w, h, x, c, d, W), NEW v \in Bytes
  PROVE  Inside(kind, in, pos, sc, w \o v, h, x, c, d, W \o v)
<1>1. PICK wv, Wv : wv = w \o v /\ Wv = W \o v
  OBVIOUS
<1>0. Longer2(W, Wv, v)
  BY Cat, <1>1 DEF Bytes, Longer2
<1>2. ASSUME In10(in, pos, w, h, d, W) PROVE In10(in, pos, wv, h, d, Wv)
  <2>1. PICK D : D = d \o NC_SSH_END
    OBVIOUS
  <2>2. PICK i \in 1..Len(d) + 5 : At10(in, pos, d, i) /\ h = SubSeq(D, 1, i) /\ w = From(D, i + 1) \o W
    BY <1>2, <2>1 DEF In10
  <2>3. From(D, i + 1) \in Bytes
    <3>1. D \in Bytes /\ Len(D) = Len(d) + 6 /\ Len(d) \in Nat
      BY <2>1, DocIs, TextOrEnd
    <3>2. i \in 0..Len(D)
      BY <3>1
    <3>3. SubSeq(D, i + 1, Len(D)) \in Bytes
      BY <3>1, <3>2, Split DEF Bytes
    <3> QED BY <3>3 DEF From
  <2>4. Longer2(From(D, i + 1) \o W, From(D, i + 1) \o Wv, v)
    BY <1>0, <2>3, LongerMore
  <2>5. wv = From(D, i + 1) \o Wv
    BY <1>1, <2>2, <2>4, LongerTo
  <2> QED BY <2>1, <2>2, <2>5 DEF In10
<1>3. ASSUME AfterLf(w, h, d, W) PROVE AfterLf(wv, h, d, Wv)
  <2>1. PICK z \in Bytes, t \in Bytes : Ahead(z, t) /\ h \o t = d /\ w = Hs \o (z \o W)
    BY <1>3 DEF AfterLf
  <2>2. Longer2(z \o W, z \o Wv, v)
    BY <1>0, LongerMore
  <2>3. Longer2(Hs \o (z \o W), Hs \o (z \o Wv), v)
    BY <2>2, MarkBytes, LongerMore
  <2>4. wv = Hs \o (z \o Wv)
    BY <1>1, <2>1, <2>3, LongerTo
  <2> QED BY <2>1, <2>4 DEF AfterLf
<1>4. ASSUME AfterHash(pos, sc, w, h, d, W) PROVE AfterHash(pos, sc, wv, h, d, Wv)
  <2>1. PICK e \in ChunkText, r \in Bytes, u \in Bytes, a \in Digits, b \in Digits :
         /\ Decimal[Len(e)] = a \o b /\ pos = 2 + Len(a) /\ SubSeq(sc, 1, pos - 2) = a
         /\ w = b \o (Lf \o (e \o (r \o W))) /\ h \o (e \o u) = d /\ Chunks(r, u)
    BY <1>4 DEF AfterHash
  <2>2. e \in Bytes /\ b \in Bytes
    BY DigitsAreBytes DEF ChunkText
  <2>3. Longer2(r \o W, r \o Wv, v)
    BY <1>0, LongerMore
  <2>4. Longer2(e \o (r \o W), e \o (r \o Wv), v)
    BY <2>2, <2>3, LongerMore
  <2>5. Longer2(Lf \o (e \o (r \o W)), Lf \o (e \o (r \o Wv)), v)
    BY <2>4, MarkBytes, LongerMore
  <2>6. Longer2(b \o (Lf \o (e \o (r \o W))), b \o (Lf \o (e \o (r \o Wv))), v)
    BY <2>2, <2>5, LongerMore
  <2>7. wv = b \o (Lf \o (e \o (r \o Wv)))
    <3>1. PICK y, yv : y = b \o (Lf \o (e \o (r \o W))) /\ yv = b \o (Lf \o (e \o (r \o Wv)))
      OBVIOUS
    <3>2. Longer2(y, yv, v)
      BY <2>6, <3>1
    <3>3. w = y
      BY <2>1, <3>1
    <3>4. wv = yv
      BY <1>1, <3>2, <3>3, LongerTo
    <3> QED BY <3>1, <3>4
  <2> QED BY <2>1, <2>7 DEF AfterHash
<1>5. ASSUME NEW n, InText(w, h, n, d, W) PROVE InText(wv, h, n, d, Wv)
  <2>1. PICK e \in ChunkText, r \in Bytes, u \in Bytes :
         w = e \o (r \o W) /\ h \o (e \o u) = d /\ Chunks(r, u) /\ n = Len(e)
    BY <1>5 DEF InText
  <2>2. e \in Bytes
    BY DEF ChunkText
  <2>3. Longer2(r \o W, r \o Wv, v)
    BY <1>0, LongerMore
  <2>4. Longer2(e \o (r \o W), e \o (r \o Wv), v)
    BY <2>2, <2>3, LongerMore
  <2>5. wv = e \o (r \o Wv)
    BY <1>1, <2>1, <2>4, LongerTo
  <2> QED BY <2>1, <2>5 DEF InText
<1>6. ASSUME Behind(pos, w, h, d, W) PROVE Behind(pos, wv, h, d, Wv)
  <2>1. PICK z \in Bytes, t \in Bytes :
          /\ AheadOrEnd(z, t) /\ h \o t = d
          /\ \/ pos = 0 /\ w = Lf \o (Hs \o (z \o W))
             \/ pos = 1 /\ w = Hs \o (z \o W)
             \/ pos = 2 /\ w = z \o W
    BY <1>6 DEF Behind
  <2>2. Longer2(z \o W, z \o Wv, v)
    BY <1>0, LongerMore
  <2>3. Longer2(Hs \o (z \o W), Hs \o (z \o Wv), v)
    BY <2>2, MarkBytes, LongerMore
  <2>4. Longer2(Lf \o (Hs \o (z \o W)), Lf \o (Hs \o (z \o Wv)), v)
    BY <2>3, MarkBytes, LongerMore
  <2>5. w = z \o W => wv = z \o Wv
    BY <1>1, <2>2, LongerTo
  <2>6. w = Hs \o (z \o W) => wv = Hs \o (z \o Wv)
    BY <1>1, <2>3, LongerTo
  <2>7. w = Lf \o (Hs \o (z \o W)) => wv = Lf \o (Hs \o (z \o Wv))
    BY <1>1, <2>4, LongerTo
  <2>8. \/ pos = 0 /\ wv = Lf \o (Hs \o (z \o Wv))
        \/ pos = 1 /\ wv = Hs \o (z \o Wv)
        \/ pos = 2 /\ wv = z \o Wv
    BY <2>1, <2>5, <2>6, <2>7
  <2> QED BY <2>1, <2>8 DEF Behind
<1>7. ASSUME w = Lf \o W PROVE wv = Lf \o Wv
  BY <1>0, MarkBytes, LongerMore, <1>1, <1>7, LongerTo
<1>8. Inside(kind, in, pos, sc, wv, h, x, c, d, Wv)
  <2>1. CASE kind = "eom" /\ In10(in, pos, w, h, d, W)
    BY <1>2, <2>1 DEF Inside
  <2>2. CASE kind = "chunks" /\ In11(in, pos, sc, w, h, x, c, d, W)
    BY <1>3, <1>4, <1>5, <1>6, <1>7, <2>2 DEF In11, Inside
  <2> QED BY <2>1, <2>2 DEF Inside
<1> QED BY <1>1, <1>8

\* The client sends more.
LEMMA PlaceAdd ==
  ASSUME NEW kind, NEW in, NEW pos, NEW sc, NEW w, NEW h, NEW x, NEW c, NEW ds,
         Place(kind, in, pos, sc, w, h, x, c, ds, <<>>),
         NEW X \in Bytes, NEW v, NEW es, Flow(kind, v, es, X)
  PROVE  Place(kind, in, pos, sc, w \o v, h, x, c, ds \o es, X)
<1>0. PICK n : n = <<>>
  OBVIOUS
<1>1. Place(kind, in, pos, sc, w, h, x, c, ds, n) /\ n \in Bytes
  BY <1>0, EndIs
<1>2. v \in Bytes /\ es \in Seq(Docs)
  BY FlowFront
<1>3. n \notin Malformed
  BY <1>0, MalformedIs
<1>4. CASE in = "IDLE" /\ pos = 0 /\ h = <<>> /\ Flow(kind, w, ds, n)
  BY <1>0, <1>4, FlowAdd DEF Place
<1>5. CASE Within(kind, in, pos, sc, w, h, x, c, ds, n)
  <2>1. PICK d \in Docs, fs \in Seq(Docs), W \in Bytes :
          ds = <<d>> \o fs /\ Flow(kind, W, fs, n) /\ Inside(kind, in, pos, sc, w, h, x, c, d, W)
    BY <1>5 DEF Within
  <2>2. Flow(kind, W, fs, <<>>)
    BY <1>0, <2>1
  <2>3. Flow(kind, W \o v, fs \o es, X)
    BY <2>2, FlowAdd
  <2>4. Inside(kind, in, pos, sc, w \o v, h, x, c, d, W \o v)
    BY <1>2, <2>1, InsideAdd
  <2>5. PICK e, gs, Wv, ee : e = <<d>> /\ gs = fs \o es /\ Wv = W \o v /\ ee = ds \o es
    OBVIOUS
  <2>6. e \in Seq(Docs) /\ gs \in Seq(Docs) /\ Wv \in Bytes
    BY <1>2, <2>5, Cat DEF Bytes
  <2>7. (e \o fs) \o es = e \o (fs \o es)
    BY <1>2, <2>6, DocsAssoc
  <2>8. ee = <<d>> \o gs
    BY <2>1, <2>5, <2>7
  <2>9. Flow(kind, Wv, gs, X) /\ Inside(kind, in, pos, sc, w \o v, h, x, c, d, Wv)
    BY <2>3, <2>4, <2>5
  <2>10. Within(kind, in, pos, sc, w \o v, h, x, c, ee, X)
    BY <2>6, <2>8, <2>9 DEF Within
  <2> QED BY <2>5, <2>10 DEF Place
<1> QED BY <1>1, <1>3, <1>4, <1>5 DEF Place

\* d is the next document, W what is left behind it.
Next1(kind, d, es, W, ds, X) ==
  d \in Docs /\ es \in Seq(Docs) /\ W \in Bytes /\ ds = <<d>> \o es /\ Flow(kind, W, es, X)

LEMMA PlaceInside ==
  ASSUME NEW kind, NEW in, NEW pos, NEW sc, NEW w, NEW h, NEW x, NEW c, NEW ds, NEW X, NEW d, NEW es, NEW W,
         Next1(kind, d, es, W, ds, X), Inside(kind, in, pos, sc, w, h, x, c, d, W)
  PROVE  Place(kind, in, pos, sc, w, h, x, c, ds, X)
  BY DEF Next1, Place, Within

\* The message is complete, w is left.
Finishes(kind, w, t, ds, X) == \E d, es : Next1(kind, d, es, w, ds, X) /\ t = d

States10(in, pos) == in \in {"IDLE", "INMSG", "INEND"} /\ (in = "INEND" => pos \in 1..5)

\* The moves of accept_buffer_ssh_v10.
Moves10(ch, in, pos, in1, pos1) ==
  \/ in \in {"IDLE", "INMSG"} /\ ch = EOM(1) /\ in1 = "INEND" /\ pos1 = 1
  \/ in \in {"IDLE", "INMSG"} /\ ch # EOM(1) /\ in1 = "INMSG" /\ pos1 = pos
  \/ in = "INEND" /\ ch # EOM(pos + 1) /\ in1 = "INMSG" /\ pos1 = 0
  \/ in = "INEND" /\ ch = EOM(pos + 1) /\ pos # 5 /\ in1 = "INEND" /\ pos1 = pos + 1

Ends10(ch, in, pos) == in = "INEND" /\ ch = EOM(pos + 1) /\ pos = 5

\* One character of a message that the EOM string ends.
LEMMA Place10 ==
  ASSUME NEW kind, kind = "eom", NEW in, NEW pos, NEW sc, NEW w, NEW h \in Bytes, NEW x, NEW c, NEW ds,
         NEW X \in Bytes, X = <<>>, Place(kind, in, pos, sc, w, h, x, c, ds, X), w # <<>>,
         NEW ch, ch = Head(w), NEW h1, h1 = h \o <<ch>>
  PROVE  /\ w \in Bytes /\ ch \in Byte /\ States10(in, pos)
         /\ \A in1, pos1 : Moves10(ch, in, pos, in1, pos1) => Place(kind, in1, pos1, sc, From(w, 2), h1, x, c, ds, X)
         /\ Ends10(ch, in, pos) =>
              Len(h1) > 6 /\ Finishes(kind, From(w, 2), SubSeq(h1, 1, Len(h1) - 6), ds, X)
<1>1. PICK d, es, W : Next1(kind, d, es, W, ds, X) /\ From10(in, pos, w, h, d, W)
  <2>1. CASE in = "IDLE" /\ pos = 0 /\ h = <<>> /\ Flow(kind, w, ds, X)
    <3>1. Leads(kind, w, ds, X)
      BY <2>1, FlowFront
    <3>2. PICK d \in Docs, e \in Bytes, v \in Bytes, es \in Seq(Docs) :
            Framed(kind, e, d) /\ w = e \o v /\ ds = <<d>> \o es /\ Flow(kind, v, es, X)
      BY <3>1 DEF Leads
    <3>3. e = d \o NC_SSH_END
      BY <3>2 DEF Framed
    <3>4. From10(in, pos, w, h, d, v)
      BY <2>1, <3>2, <3>3 DEF From10
    <3>5. Next1(kind, d, es, v, ds, X)
      BY <3>2 DEF Next1
    <3> QED BY <3>4, <3>5
  <2>2. CASE Within(kind, in, pos, sc, w, h, x, c, ds, X)
    BY <2>2 DEF Within, Inside, From10, Next1
  <2> QED BY <2>1, <2>2 DEF Place
<1>2. d \in Docs /\ W \in Bytes
  BY <1>1 DEF Next1
<1>3. /\ w \in Bytes /\ w # <<>> /\ ch \in Byte /\ h \in Bytes
      /\ in \in {"IDLE", "INMSG"} =>
           /\ ch = EOM(1) => In10("INEND", 1, From(w, 2), h1, d, W)
           /\ ch # EOM(1) => In10("INMSG", pos, From(w, 2), h1, d, W)
      /\ in \notin {"IDLE", "INMSG"} =>
           /\ in = "INEND" /\ pos \in 1..5
           /\ ch # EOM(pos + 1) => In10("INMSG", 0, From(w, 2), h1, d, W)
           /\ ch = EOM(pos + 1) /\ pos # 5 => In10("INEND", pos + 1, From(w, 2), h1, d, W)
           /\ ch = EOM(pos + 1) /\ pos = 5 => Done10(From(w, 2), h1, d, W)
  BY <1>1, <1>2, Parse10
<1>4. ASSUME NEW in1, NEW pos1, In10(in1, pos1, From(w, 2), h1, d, W)
      PROVE  Place(kind, in1, pos1, sc, From(w, 2), h1, x, c, ds, X)
  BY <1>4, <1>1, PlaceInside DEF Inside
<1>5. ASSUME Done10(From(w, 2), h1, d, W)
      PROVE  Len(h1) > 6 /\ Finishes(kind, From(w, 2), SubSeq(h1, 1, Len(h1) - 6), ds, X)
  BY <1>5, <1>1 DEF Done10, Finishes
<1>6. ASSUME NEW in1, NEW pos1, Moves10(ch, in, pos, in1, pos1)
      PROVE  In10(in1, pos1, From(w, 2), h1, d, W)
  BY <1>3, <1>6 DEF Moves10
<1>7. ASSUME Ends10(ch, in, pos)
      PROVE  Done10(From(w, 2), h1, d, W)
  BY <1>3, <1>7 DEF Ends10
<1>8. States10(in, pos)
  BY <1>3 DEF States10
<1>9. ASSUME NEW in1, NEW pos1, Moves10(ch, in, pos, in1, pos1)
      PROVE  Place(kind, in1, pos1, sc, From(w, 2), h1, x, c, ds, X)
  BY <1>4, <1>6, <1>9
<1> QED BY <1>3, <1>5, <1>7, <1>8, <1>9

\* What may follow the documents: nothing or a malformed chunk.
Judged(X) == X \in Bytes /\ (X = <<>> \/ X \in Malformed)

\* No document is left, and the parser is in the malformed chunk.
OnlyBad(in, pos, sc, w, x, c, ds, X) == ds = <<>> /\ X \in Malformed /\ Bad(in, pos, sc, w, x, c, X)

LEMMA PlaceBad ==
  ASSUME NEW kind, kind = "chunks", NEW in, NEW pos, NEW sc, NEW w, NEW h, NEW x, NEW c, NEW ds, NEW X,
         OnlyBad(in, pos, sc, w, x, c, ds, X)
  PROVE  Place(kind, in, pos, sc, w, h, x, c, ds, X) /\ X \in Malformed /\ w \in Bytes
  BY DEF Place, OnlyBad, Bad

LEMMA PlaceIn11 ==
  ASSUME NEW kind, kind = "chunks", NEW in, NEW pos, NEW sc, NEW w, NEW h, NEW x, NEW c, NEW ds, NEW X, NEW d, NEW es, NEW W,
         Next1(kind, d, es, W, ds, X), In11(in, pos, sc, w, h, x, c, d, W)
  PROVE  Place(kind, in, pos, sc, w, h, x, c, ds, X)
<1>1. Inside(kind, in, pos, sc, w, h, x, c, d, W)
  BY DEF Inside
<1> QED BY <1>1, PlaceInside

\* The parser of chunks is inside a document or in a malformed chunk.
LEMMA Place11Is ==
  ASSUME NEW kind, kind = "chunks", NEW in, in # "IDLE", NEW pos, NEW sc, NEW w, NEW h, NEW x, NEW c, NEW ds, NEW X,
         Place(kind, in, pos, sc, w, h, x, c, ds, X)
  PROVE  \/ OnlyBad(in, pos, sc, w, x, c, ds, X)
         \/ \E d, es, W : Next1(kind, d, es, W, ds, X) /\ W \in Bytes /\ In11(in, pos, sc, w, h, x, c, d, W)
<1>1. CASE Within(kind, in, pos, sc, w, h, x, c, ds, X)
  BY <1>1 DEF Within, Inside, Next1
<1> QED BY <1>1 DEF Place, OnlyBad

LEMMA PlaceIdle ==
  ASSUME NEW kind, kind = "chunks", NEW in, in = "IDLE", NEW pos, NEW sc, NEW w, w # <<>>, NEW h, NEW x, NEW c, NEW ds,
         NEW X, Judged(X), Place(kind, in, pos, sc, w, h, x, c, ds, X)
  PROVE  /\ w \in Bytes /\ h = <<>>
         /\ Head(w) = LF => Place(kind, "INSTART", 1, sc, From(w, 2), h, x, c, ds, X)
         /\ Head(w) # LF => X \in Malformed
<1>1. h = <<>> /\ Flow(kind, w, ds, X) /\ X \in Bytes
  BY DEF Within, Inside, In11, Bad, Dangling, Place, Judged
<1>2. w \in Bytes /\ ((w = X /\ ds = <<>>) \/ Leads(kind, w, ds, X))
  BY <1>1, FlowFront
<1>3. CASE w = X /\ ds = <<>>
  <2>1. X \in Malformed
    BY <1>3 DEF Judged
  <2>2. ASSUME Head(X) = LF PROVE Place(kind, "INSTART", 1, sc, From(w, 2), h, x, c, ds, X)
    BY <2>1, <2>2, BadIdle, <1>3, PlaceBad DEF OnlyBad
  <2> QED BY <1>1, <1>2, <1>3, <2>1, <2>2
<1>4. CASE Leads(kind, w, ds, X)
  <2>1. PICK d \in Docs, e \in Bytes, v \in Bytes, es \in Seq(Docs) :
          Framed(kind, e, d) /\ w = e \o v /\ ds = <<d>> \o es /\ Flow(kind, v, es, X)
    BY <1>4 DEF Leads
  <2>2. Chunks(e, d)
    BY <2>1 DEF Framed
  <2>3. Head(w) = LF /\ AfterLf(From(w, 2), <<>>, d, v)
    BY <2>1, <2>2, ParseIdle
  <2>4. PICK st, p : st = "INSTART" /\ p = 1
    OBVIOUS
  <2>5. In11(st, p, sc, From(w, 2), h, x, c, d, v)
    BY <1>1, <2>3, <2>4 DEF In11
  <2>6. Next1(kind, d, es, v, ds, X)
    BY <2>1 DEF Next1
  <2> QED BY <1>1, <1>2, <2>3, <2>4, <2>5, <2>6, PlaceIn11
<1> QED BY <1>2, <1>3, <1>4

LEMMA PlaceStartHash ==
  ASSUME NEW kind, kind = "chunks", NEW in, in = "INSTART", NEW pos, pos = 1, NEW sc, NEW w, w # <<>>, NEW h, NEW x,
         NEW c, NEW ds, NEW X, Judged(X), Place(kind, in, pos, sc, w, h, x, c, ds, X)
  PROVE  /\ w \in Bytes
         /\ Head(w) = HASH => Place(kind, in, pos + 1, sc, From(w, 2), h, x, c, ds, X)
         /\ Head(w) # HASH => X \in Malformed
<1>1. CASE OnlyBad(in, pos, sc, w, x, c, ds, X)
  <2>1. X \in Malformed /\ w \in Bytes /\ Bad("INSTART", pos, sc, w, x, c, X) /\ ds = <<>>
    BY <1>1, PlaceBad DEF OnlyBad
  <2>2. ASSUME Head(w) = HASH PROVE Place(kind, in, pos + 1, sc, From(w, 2), h, x, c, ds, X)
    BY <2>1, <2>2, BadStartHash, PlaceBad DEF OnlyBad
  <2> QED BY <2>1, <2>2
<1>2. ASSUME NEW d, NEW es, NEW W \in Bytes, Next1(kind, d, es, W, ds, X), In11(in, pos, sc, w, h, x, c, d, W)
      PROVE  w \in Bytes /\ Head(w) = HASH /\ Place(kind, in, pos + 1, sc, From(w, 2), h, x, c, ds, X)
  <2>1. AfterLf(w, h, d, W)
    BY <1>2 DEF In11
  <2>2. PICK p : p = pos + 1
    OBVIOUS
  <2>3. w \in Bytes /\ Head(w) = HASH /\ AfterHash(2, sc, From(w, 2), h, d, W)
    BY <2>1, ParseStartHash
  <2>4. p = 2 /\ p # 1
    BY <2>2
  <2>5. AfterHash(p, sc, From(w, 2), h, d, W)
    BY <2>3, <2>4
  <2>6. In11(in, p, sc, From(w, 2), h, x, c, d, W)
    BY <2>4, <2>5 DEF In11
  <2>7. Place(kind, in, p, sc, From(w, 2), h, x, c, ds, X)
    BY <1>2, <2>6, PlaceIn11
  <2> QED BY <2>2, <2>3, <2>7
<1>3. in # "IDLE"
  OBVIOUS
<1> QED BY <1>1, <1>2, <1>3, Place11Is

\* The guards of the actions about a digit and about the end of a header.
DigitOk(pos, ch) == digit(ch, IF pos = 2 THEN 1 ELSE 0) /\ pos # SES_MAX_STARTCHUNK_SIZE

LEMMA PlaceDigit ==
  ASSUME NEW kind, kind = "chunks", NEW in, in = "INSTART", NEW pos, pos # 1, NEW sc, NEW w, w # <<>>, NEW h, NEW x,
         NEW c, NEW ds, NEW X, Judged(X), Place(kind, in, pos, sc, w, h, x, c, ds, X),
         NEW ch, ch = Head(w), ch # LF, NEW sc1, sc1 = SubSeq(sc, 1, pos - 2) \o <<ch>>
  PROVE  /\ w \in Bytes
         /\ DigitOk(pos, ch) => /\ sc1 \in Digits /\ pos + 1 \in 0..SES_MAX_STARTCHUNK_SIZE
                                /\ Place(kind, in, pos + 1, sc1, From(w, 2), h, x, c, ds, X)
         /\ ~DigitOk(pos, ch) => X \in Malformed
<1>1. CASE OnlyBad(in, pos, sc, w, x, c, ds, X)
  <2>1. X \in Malformed /\ w \in Bytes /\ Bad("INSTART", pos, sc, w, x, c, X) /\ ds = <<>>
    BY <1>1, PlaceBad DEF OnlyBad
  <2>2. ASSUME DigitOk(pos, ch)
        PROVE  /\ sc1 \in Digits /\ pos + 1 \in 0..SES_MAX_STARTCHUNK_SIZE
               /\ Place(kind, in, pos + 1, sc1, From(w, 2), h, x, c, ds, X)
    BY <2>2, <2>1, BadDigit, PlaceBad DEF DigitOk, OnlyBad
  <2> QED BY <2>1, <2>2
<1>2. ASSUME NEW d, NEW es, NEW W \in Bytes, Next1(kind, d, es, W, ds, X), In11(in, pos, sc, w, h, x, c, d, W)
      PROVE  /\ w \in Bytes /\ DigitOk(pos, ch) /\ sc1 \in Digits /\ pos + 1 \in 0..SES_MAX_STARTCHUNK_SIZE
             /\ Place(kind, in, pos + 1, sc1, From(w, 2), h, x, c, ds, X)
  <2>1. AfterHash(pos, sc, w, h, d, W)
    BY <1>2 DEF In11
  <2>2. w \in Bytes
    BY <2>1, ParseHashAny
  <2>3. /\ digit(ch, IF pos = 2 THEN 1 ELSE 0) /\ pos # SES_MAX_STARTCHUNK_SIZE
        /\ sc1 \in Digits /\ pos + 1 \in 0..SES_MAX_STARTCHUNK_SIZE
        /\ AfterHash(pos + 1, sc1, From(w, 2), h, d, W)
    <3>1. ch = Head(w) /\ ch # LF /\ AfterHash(pos, sc, w, h, d, W)
      BY <2>1
    <3>2. PICK s : s = SubSeq(sc, 1, pos - 2) \o <<ch>>
      OBVIOUS
    <3>3. sc1 = s
      BY <3>2
    <3>4. /\ digit(ch, IF pos = 2 THEN 1 ELSE 0) /\ pos # SES_MAX_STARTCHUNK_SIZE
      BY <3>1, <3>2, ParseDigit
    <3>5. /\ s \in Digits /\ pos + 1 \in 0..SES_MAX_STARTCHUNK_SIZE
      BY <3>1, <3>2, ParseDigit
    <3>6. AfterHash(pos + 1, s, From(w, 2), h, d, W)
      BY <3>1, <3>2, ParseDigit
    <3> QED BY <3>3, <3>4, <3>5, <3>6
  <2>4. pos + 1 # 1
    BY <2>1, LenProperties DEF AfterHash, Digits
  <2>5. In11(in, pos + 1, sc1, From(w, 2), h, x, c, d, W)
    BY <2>3, <2>4 DEF In11
  <2>6. Place(kind, in, pos + 1, sc1, From(w, 2), h, x, c, ds, X)
    BY <1>2, <2>5, PlaceIn11
  <2> QED BY <2>2, <2>3, <2>6 DEF DigitOk
<1>3. in # "IDLE"
  OBVIOUS
<1> QED BY <1>1, <1>2, <1>3, Place11Is

SizeOk(pos, n) == pos > 2 /\ pos # SES_MAX_STARTCHUNK_SIZE /\ n <= NCX_MAX_UINT

LEMMA PlaceStartEnd ==
  ASSUME NEW kind, kind = "chunks", NEW in, in = "INSTART", NEW pos, pos # 1, NEW sc, NEW w, w # <<>>, NEW h, NEW x,
         NEW c, NEW ds, NEW X, Judged(X), Place(kind, in, pos, sc, w, h, x, c, ds, X),
         Head(w) = LF, NEW n, n = ncx_convert_num(SubSeq(sc, 1, pos - 2))
  PROVE  /\ w \in Bytes
         /\ SizeOk(pos, n) => /\ n \in 0..NCX_MAX_UINT
                              /\ Place(kind, "INMSG", 0, sc, From(w, 2), h, n, 0, ds, X)
         /\ ~SizeOk(pos, n) => X \in Malformed
<1>0. PICK im, z : im = "INMSG" /\ z = 0
  OBVIOUS
<1>1. CASE OnlyBad(in, pos, sc, w, x, c, ds, X)
  <2>1. X \in Malformed /\ w \in Bytes /\ Bad("INSTART", pos, sc, w, x, c, X) /\ ds = <<>>
    BY <1>1, PlaceBad DEF OnlyBad
  <2>2. ASSUME SizeOk(pos, n)
        PROVE  n \in 0..NCX_MAX_UINT /\ Place(kind, im, z, sc, From(w, 2), h, n, z, ds, X)
    BY <2>2, <2>1, BadStartEnd, <1>0, PlaceBad DEF SizeOk, OnlyBad
  <2> QED BY <1>0, <2>1, <2>2
<1>2. ASSUME NEW d, NEW es, NEW W \in Bytes, Next1(kind, d, es, W, ds, X), In11(in, pos, sc, w, h, x, c, d, W)
      PROVE  /\ w \in Bytes /\ SizeOk(pos, n) /\ n \in 0..NCX_MAX_UINT
             /\ Place(kind, im, z, sc, From(w, 2), h, n, z, ds, X)
  <2>1. AfterHash(pos, sc, w, h, d, W)
    BY <1>2 DEF In11
  <2>2. w \in Bytes
    BY <2>1, ParseHashAny
  <2>3. /\ pos > 2 /\ pos # SES_MAX_STARTCHUNK_SIZE /\ n \in 1..NCX_MAX_UINT
        /\ InText(From(w, 2), h, n, d, W)
    BY <2>1, ParseStartEnd
  <2>4. n \in 0..NCX_MAX_UINT /\ n <= NCX_MAX_UINT /\ n - z = n
    BY <1>0, <2>3, Constants
  <2>5. InText(From(w, 2), h, n - z, d, W)
    BY <2>3, <2>4
  <2>6. In11(im, z, sc, From(w, 2), h, n, z, d, W)
    BY <1>0, <2>5 DEF In11
  <2>7. Place(kind, im, z, sc, From(w, 2), h, n, z, ds, X)
    BY <1>2, <2>6, PlaceIn11
  <2> QED BY <2>2, <2>3, <2>4, <2>7 DEF SizeOk
<1>3. in # "IDLE"
  OBVIOUS
<1>4. \/ OnlyBad(in, pos, sc, w, x, c, ds, X)
      \/ \E d, es, W : Next1(kind, d, es, W, ds, X) /\ W \in Bytes /\ In11(in, pos, sc, w, h, x, c, d, W)
  BY <1>3, Place11Is
<1> QED BY <1>0, <1>1, <1>2, <1>4

LEMMA PlaceText ==
  ASSUME NEW kind, kind = "chunks", NEW in, in = "INMSG", NEW pos, NEW sc, NEW w, NEW h \in Bytes,
         NEW x, NEW c, Sizes(x, c), NEW ds, NEW X, Judged(X), Place(kind, in, pos, sc, w, h, x, c, ds, X),
         NEW read1 \in 1..Len(w), NEW k, k = IF read1 < x - c THEN read1 ELSE x - c,
         NEW text, text = SubSeq(w, 1, k), NEW h1, h1 = h \o text
  PROVE  /\ w \in Bytes /\ text \in Bytes /\ k \in 0..read1 /\ c + k \in 0..x /\ Sizes(x, c + k)
         /\ k = x - c => Place(kind, "INBETWEEN", 0, sc, From(w, k + 1), h1, x, c + k, ds, X)
         /\ k # x - c => Place(kind, in, pos, sc, From(w, k + 1), h1, x, c + k, ds, X)
<1>0. PICK ib, z, n, c1 : ib = "INBETWEEN" /\ z = 0 /\ n = x - c /\ c1 = c + k
  OBVIOUS
<1>1. x \in 0..NCX_MAX_UINT /\ c \in 0..x /\ NCX_MAX_UINT \in Nat
  BY Constants DEF Sizes
<1>2. ASSUME NEW l, l = Len(w), NEW y \in 1..l, y \in 1..Len(w) PROVE y \in Nat \ {0} /\ y <= Len(w)
  BY <1>2, LenProperties
<1>3. w \in Bytes
  <2>1. CASE OnlyBad(in, pos, sc, w, x, c, ds, X)
    BY <2>1, PlaceBad
  <2>2. ASSUME NEW d, NEW es, NEW W \in Bytes, Next1(kind, d, es, W, ds, X), In11(in, pos, sc, w, h, x, c, d, W)
        PROVE  w \in Bytes
    BY <2>2, InsideMore DEF Next1, Inside
  <2>3. in # "IDLE"
    OBVIOUS
  <2> QED BY <2>1, <2>2, <2>3, Place11Is
<1>4. Len(w) \in Nat
  BY <1>3, LenProperties DEF Bytes
<1>5. /\ n \in 0..x /\ k \in 0..n /\ k \in 0..read1 /\ k \in Nat /\ k <= Len(w) /\ k <= n
      /\ c1 \in 0..x /\ x - c1 = n - k /\ (k = n \/ k = read1)
  <2>1. ASSUME NEW lw \in Nat, NEW r \in 1..lw, NEW xx \in Nat, NEW cc \in 0..xx, NEW kk,
               kk = IF r < xx - cc THEN r ELSE xx - cc
        PROVE  /\ xx - cc \in 0..xx /\ kk \in 0..xx - cc /\ kk \in 0..r /\ kk \in Nat /\ kk <= lw /\ kk <= xx - cc
               /\ cc + kk \in 0..xx /\ xx - (cc + kk) = (xx - cc) - kk /\ (kk = xx - cc \/ kk = r)
    BY <2>1
  <2>2. x \in Nat
    BY <1>1
  <2>3. PICK lw : lw = Len(w)
    OBVIOUS
  <2>4. lw \in Nat /\ read1 \in 1..lw
    BY <1>4, <2>3
  <2>5. /\ x - c \in 0..x /\ k \in 0..x - c /\ k \in 0..read1 /\ k \in Nat /\ k <= lw /\ k <= x - c
        /\ c + k \in 0..x /\ x - (c + k) = (x - c) - k /\ (k = x - c \/ k = read1)
    BY <1>1, <2>2, <2>4
  <2> QED BY <1>0, <2>3, <2>5
<1>6. Sizes(x, c1)
  BY <1>1, <1>5 DEF Sizes
<1>7. text \in Bytes
  <2>1. SubSeq(w, 1, k) \in Bytes
    BY <1>4, <1>5, <1>3, Split DEF Bytes
  <2> QED BY <2>1
<1>8. CASE OnlyBad(in, pos, sc, w, x, c, ds, X)
  <2>1. X \in Malformed /\ Bad("INMSG", pos, sc, w, x, c, X) /\ ds = <<>>
    BY <1>8 DEF OnlyBad
  <2>2. pos = z
    BY <1>0, <2>1, BadTextIs
  <2>3. /\ k # x - c => Bad("INMSG", 0, sc, From(w, k + 1), x, c + k, X)
        /\ k = x - c => Bad("INBETWEEN", 0, sc, From(w, k + 1), x, c + k, X)
    BY <1>0, <1>5, <2>1, BadText
  <2>4. k # n => Bad(in, pos, sc, From(w, k + 1), x, c1, X)
    BY <1>0, <2>2, <2>3
  <2>5. k = n => Bad(ib, z, sc, From(w, k + 1), x, c1, X)
    BY <1>0, <2>3
  <2>6. k # n => OnlyBad(in, pos, sc, From(w, k + 1), x, c1, ds, X)
    BY <2>1, <2>4 DEF OnlyBad
  <2>7. k = n => OnlyBad(ib, z, sc, From(w, k + 1), x, c1, ds, X)
    BY <2>1, <2>5 DEF OnlyBad
  <2>8. k # n => Place(kind, in, pos, sc, From(w, k + 1), h1, x, c1, ds, X)
    BY <2>6, PlaceBad
  <2>9. k = n => Place(kind, ib, z, sc, From(w, k + 1), h1, x, c1, ds, X)
    BY <2>7, PlaceBad
  <2> QED BY <1>0, <1>3, <1>5, <1>6, <1>7, <2>8, <2>9
<1>9. ASSUME NEW d, NEW es, NEW W \in Bytes, Next1(kind, d, es, W, ds, X), In11(in, pos, sc, w, h, x, c, d, W)
      PROVE  /\ k = n => Place(kind, ib, z, sc, From(w, k + 1), h1, x, c1, ds, X)
             /\ k # n => Place(kind, in, pos, sc, From(w, k + 1), h1, x, c1, ds, X)
  <2>1. InText(w, h, n, d, W) /\ pos = z
    BY <1>0, <1>9 DEF In11
  <2>2. k \in 1..n
    <3>1. PICK e \in ChunkText : n = Len(e)
      BY <2>1 DEF InText
    <3>2. n \in Nat \ {0}
      <4>1. PICK s : s = Decimal[Len(e)]
        OBVIOUS
      <4>2. PICK hd : hd = <<LF, HASH>> \o s \o <<LF>>
        OBVIOUS
      <4>3. Len(e) \in 1..NCX_MAX_UINT
        BY <4>1, <4>2, ChunkIs
      <4> QED BY <3>1, <4>3
    <3> QED BY <1>4, <1>5, <3>2
  <2>3. /\ k # n => InText(From(w, k + 1), h1, n - k, d, W)
        /\ k = n => Behind(0, From(w, k + 1), h1, d, W)
    BY <2>1, <2>2, ParseText
  <2>4. k # n => InText(From(w, k + 1), h1, x - c1, d, W)
    BY <1>5, <2>3
  <2>5. k = n => Behind(z, From(w, k + 1), h1, d, W)
    BY <1>0, <2>3
  <2>6. k # n => In11(in, pos, sc, From(w, k + 1), h1, x, c1, d, W)
    BY <1>0, <2>1, <2>4 DEF In11
  <2>7. k = n => In11(ib, z, sc, From(w, k + 1), h1, x, c1, d, W)
    BY <1>0, <2>5 DEF In11
  <2>8. k # n => Place(kind, in, pos, sc, From(w, k + 1), h1, x, c1, ds, X)
    BY <1>9, <2>6, PlaceIn11
  <2>9. k = n => Place(kind, ib, z, sc, From(w, k + 1), h1, x, c1, ds, X)
    BY <1>9, <2>7, PlaceIn11
  <2> QED BY <2>8, <2>9
<1>10. in # "IDLE"
  OBVIOUS
<1>11. \/ OnlyBad(in, pos, sc, w, x, c, ds, X)
       \/ \E d, es, W : Next1(kind, d, es, W, ds, X) /\ W \in Bytes /\ In11(in, pos, sc, w, h, x, c, d, W)
  BY <1>10, Place11Is
<1> QED BY <1>0, <1>3, <1>5, <1>6, <1>7, <1>8, <1>9, <1>11

LEMMA PlaceBetween ==
  ASSUME NEW kind, kind = "chunks", NEW in, in = "INBETWEEN", NEW pos, pos # 2, NEW sc, NEW w, w # <<>>,
         NEW h \in Bytes, NEW x, NEW c, NEW ds, NEW X, Judged(X), Place(kind, in, pos, sc, w, h, x, c, ds, X),
         NEW m, m = IF pos = 0 THEN LF ELSE HASH
  PROVE  /\ w \in Bytes
         /\ Head(w) = m => pos \in {0, 1} /\ Place(kind, in, pos + 1, sc, From(w, 2), h, x, c, ds, X)
         /\ Head(w) # m => X \in Malformed
<1>1. CASE OnlyBad(in, pos, sc, w, x, c, ds, X)
  <2>1. X \in Malformed /\ w \in Bytes /\ Bad("INBETWEEN", pos, sc, w, x, c, X) /\ ds = <<>>
    BY <1>1, PlaceBad DEF OnlyBad
  <2>2. ASSUME Head(w) = m PROVE pos \in {0, 1} /\ Place(kind, in, pos + 1, sc, From(w, 2), h, x, c, ds, X)
    BY <2>1, <2>2, BadBetween, PlaceBad DEF OnlyBad
  <2> QED BY <2>1, <2>2
<1>2. ASSUME NEW d, NEW es, NEW W \in Bytes, Next1(kind, d, es, W, ds, X), In11(in, pos, sc, w, h, x, c, d, W)
      PROVE  /\ w \in Bytes /\ Head(w) = m /\ pos \in {0, 1}
             /\ Place(kind, in, pos + 1, sc, From(w, 2), h, x, c, ds, X)
  <2>1. Behind(pos, w, h, d, W)
    BY <1>2 DEF In11
  <2>2. pos \in {0, 1} /\ w \in Bytes /\ Head(w) = m /\ Behind(pos + 1, From(w, 2), h, d, W)
    BY <2>1, ParseBetween
  <2>3. In11(in, pos + 1, sc, From(w, 2), h, x, c, d, W)
    BY <2>2 DEF In11
  <2>4. Place(kind, in, pos + 1, sc, From(w, 2), h, x, c, ds, X)
    BY <1>2, <2>3, PlaceIn11
  <2> QED BY <2>2, <2>4
<1>3. in # "IDLE"
  OBVIOUS
<1> QED BY <1>1, <1>2, <1>3, Place11Is

LEMMA PlaceBetweenEnd ==
  ASSUME NEW kind, kind = "chunks", NEW in, in = "INBETWEEN", NEW pos, pos = 2, NEW sc, NEW w, w # <<>>,
         NEW h \in Bytes, NEW x, NEW c, NEW ds, NEW X, Judged(X), Place(kind, in, pos, sc, w, h, x, c, ds, X)
  PROVE  /\ w \in Bytes
         /\ digit(Head(w), 1) => Place(kind, "INSTART", pos, sc, w, h, x, c, ds, X)
         /\ ~digit(Head(w), 1) /\ Head(w) = HASH => Place(kind, "INEND", 3, sc, From(w, 2), h, x, c, ds, X)
         /\ ~digit(Head(w), 1) /\ Head(w) # HASH => X \in Malformed
<1>0. PICK st, en, p : st = "INSTART" /\ en = "INEND" /\ p = 3
  OBVIOUS
<1>1. CASE OnlyBad(in, pos, sc, w, x, c, ds, X)
  <2>1. X \in Malformed /\ w \in Bytes /\ Bad("INBETWEEN", pos, sc, w, x, c, X) /\ ds = <<>>
    BY <1>1, PlaceBad DEF OnlyBad
  <2>2. /\ Bad("INSTART", pos, sc, w, x, c, X)
        /\ Head(w) = HASH => Bad("INEND", 3, sc, From(w, 2), x, c, X)
    BY <2>1, BadBehind
  <2>3. OnlyBad(st, pos, sc, w, x, c, ds, X)
    BY <1>0, <2>1, <2>2 DEF OnlyBad
  <2>4. Place(kind, st, pos, sc, w, h, x, c, ds, X)
    BY <2>3, PlaceBad
  <2>5. ASSUME Head(w) = HASH PROVE Place(kind, en, p, sc, From(w, 2), h, x, c, ds, X)
    BY <1>0, <2>2, <2>5, <2>1, PlaceBad DEF OnlyBad
  <2> QED BY <1>0, <2>1, <2>4, <2>5
<1>2. ASSUME NEW d, NEW es, NEW W \in Bytes, Next1(kind, d, es, W, ds, X), In11(in, pos, sc, w, h, x, c, d, W)
      PROVE  /\ w \in Bytes
             /\ digit(Head(w), 1) => Place(kind, st, pos, sc, w, h, x, c, ds, X)
             /\ ~digit(Head(w), 1) => Head(w) = HASH /\ Place(kind, en, p, sc, From(w, 2), h, x, c, ds, X)
  <2>1. Behind(pos, w, h, d, W)
    BY <1>2 DEF In11
  <2>2. Behind(2, w, h, d, W)
    BY <2>1
  <2>3. /\ w \in Bytes
        /\ digit(Head(w), 1) => AfterHash(2, sc, w, h, d, W)
        /\ ~digit(Head(w), 1) => Head(w) = HASH /\ From(w, 2) = Lf \o W /\ h = d
    BY <2>2, ParseBetweenEnd
  <2>4. ASSUME digit(Head(w), 1) PROVE Place(kind, st, pos, sc, w, h, x, c, ds, X)
    BY <2>3, <2>4, <1>0, <1>2, PlaceIn11 DEF In11
  <2>5. ASSUME ~digit(Head(w), 1) PROVE Place(kind, en, p, sc, From(w, 2), h, x, c, ds, X)
    BY <2>3, <2>5, <1>0, <1>2, PlaceIn11 DEF In11
  <2> QED BY <2>3, <2>4, <2>5
<1>3. in # "IDLE"
  OBVIOUS
<1>4. \/ OnlyBad(in, pos, sc, w, x, c, ds, X)
      \/ \E d, es, W : Next1(kind, d, es, W, ds, X) /\ W \in Bytes /\ In11(in, pos, sc, w, h, x, c, d, W)
  BY <1>3, Place11Is
<1> QED BY <1>0, <1>1, <1>2, <1>4

\* The LF behind the end of the chunks completes the document; another byte is
\* of a malformed chunk.
LEMMA PlaceEnd ==
  ASSUME NEW kind, kind = "chunks", NEW in, in = "INEND", NEW pos, NEW sc, NEW w, w # <<>>,
         NEW h \in Bytes, NEW x, NEW c, NEW ds, NEW X, Judged(X), Place(kind, in, pos, sc, w, h, x, c, ds, X)
  PROVE  /\ w \in Bytes
         /\ Head(w) = LF => Finishes(kind, From(w, 2), h, ds, X)
         /\ Head(w) # LF => X \in Malformed
<1>1. CASE OnlyBad(in, pos, sc, w, x, c, ds, X)
  BY <1>1, PlaceBad, BadNotEnd DEF OnlyBad
<1>2. ASSUME NEW d, NEW es, NEW W \in Bytes, Next1(kind, d, es, W, ds, X), In11(in, pos, sc, w, h, x, c, d, W)
      PROVE  w \in Bytes /\ Head(w) = LF /\ Finishes(kind, From(w, 2), h, ds, X)
  BY <1>2, TakeMark DEF In11, Finishes
<1>3. in # "IDLE"
  OBVIOUS
<1> QED BY <1>1, <1>2, <1>3, Place11Is

\* Something is left as long as a document or a malformed chunk is.
LEMMA PlaceMore ==
  ASSUME NEW kind, NEW in, NEW pos, NEW sc, NEW w, NEW h \in Bytes, NEW x, NEW c, NEW ds, NEW X, Judged(X),
         Place(kind, in, pos, sc, w, h, x, c, ds, X), X \in Malformed
  PROVE  w # <<>>
<1>1. X # <<>> /\ X \in Bytes
  BY MalformedIs
<1>2. CASE Flow(kind, w, ds, X)
  BY <1>1, <1>2, FlowNotEmpty
<1>3. CASE Within(kind, in, pos, sc, w, h, x, c, ds, X)
  BY <1>3, InsideMore DEF Within
<1>4. CASE Bad(in, pos, sc, w, x, c, X)
  <2> SUFFICES ASSUME w = <<>> PROVE FALSE
    OBVIOUS
  <2>1. Bad(in, pos, sc, <<>>, x, c, X)
    BY <1>4
  <2> QED BY <2>1, BadNotDone
<1> QED BY <1>2, <1>3, <1>4 DEF Place

\* Some text is a beginning of the first document, perhaps with some of its end.
TextPart(h, ds) == \E d \in Docs, es \in Seq(Docs) : ds = <<d>> \o es /\ IsPrefix(h, d \o NC_SSH_END)

\* What is held is the beginning of the next document.
LEMMA PlaceText1 ==
  ASSUME NEW kind, NEW in, NEW pos, NEW sc, NEW w, NEW h \in Bytes, NEW x, NEW c, NEW ds, NEW X, X \notin Malformed,
         Place(kind, in, pos, sc, w, h, x, c, ds, X), h # <<>>
  PROVE  TextPart(h, ds)
<1>1. PICK d \in Docs, es \in Seq(Docs), W \in Bytes :
        ds = <<d>> \o es /\ Flow(kind, W, es, X) /\ Inside(kind, in, pos, sc, w, h, x, c, d, W)
  BY DEF Place, Within
<1>2. IsPrefix(h, d \o NC_SSH_END)
  BY <1>1, InsideText
<1> QED BY <1>1, <1>2 DEF TextPart

\* Nothing on the way: any framing may follow.
LEMMA PlaceSwitch ==
  ASSUME NEW kind, NEW in, NEW pos, NEW sc, NEW w, NEW h, NEW x, NEW c, NEW ds, ds = <<>>, NEW X, X = <<>>,
         Place(kind, in, pos, sc, w, h, x, c, ds, X), NEW other
  PROVE  Place(other, in, pos, sc, w, h, x, c, ds, X)
<1>1. ~Within(kind, in, pos, sc, w, h, x, c, ds, X)
  <2> SUFFICES ASSUME NEW d \in Docs, NEW es \in Seq(Docs), ds = <<d>> \o es PROVE FALSE
    BY DEF Within
  <2>1. ds # <<>>
    BY ConsIs
  <2> QED BY <2>1
<1>2. X \notin Malformed
  BY MalformedIs
<1>3. in = "IDLE" /\ pos = 0 /\ h = <<>> /\ Flow(kind, w, ds, X)
  BY <1>1, <1>2 DEF Place
<1>4. w = <<>>
  BY <1>3, EndIs, FlowEnd
<1>5. Flow(other, <<>>, <<>>, <<>>)
  BY FlowNone
<1>6. Flow(other, w, ds, X)
  BY <1>4, <1>5
<1> QED BY <1>3, <1>6 DEF Place

(* The queue, one action at a time *)

BufferOK(b) == b \in Buffer /\ Len(b.data) <= SES_MSG_BUFFSIZE /\ b.bufflen <= Len(b.data)

MessageOK(m) ==
  /\ m.ready \in BOOLEAN /\ m.expchunksize \in 0..NCX_MAX_UINT /\ m.curchunksize \in 0..m.expchunksize
  /\ \A j \in DOMAIN m.buffQ : BufferOK(m.buffQ[j])

LEMMA BuffersOK ==
  ASSUME NEW bq \in Seq(HeldBuffer)
  PROVE  \A j \in DOMAIN bq : BufferOK(bq[j])
<1>1. ASSUME NEW j \in DOMAIN bq PROVE bq[j] \in HeldBuffer
  BY ElementOfSeq, LenProperties
<1> QED BY <1>1, BufferKinds DEF HeldBuffer, BufferOK

LEMMA ReadyOK ==
  ASSUME NEW m \in ReadyMessage
  PROVE  MessageOK(m)
<1>1. m \in Message /\ m.curchunksize <= m.expchunksize /\ m.buffQ \in Seq(HeldBuffer)
  BY DEF ReadyMessage
<1>2. m.ready \in BOOLEAN /\ m.expchunksize \in 0..NCX_MAX_UINT /\ m.curchunksize \in 0..NCX_MAX_UINT
  BY <1>1 DEF Message
<1>3. m.curchunksize \in 0..m.expchunksize
  BY <1>1, <1>2, Constants
<1> QED BY <1>1, <1>2, <1>3, BuffersOK DEF MessageOK

LEMMA HoldsIs ==
  ASSUME NEW q, NEW done, NEW h, NEW x, NEW c, NEW room, Sizes(x, c), Holds(q, done, h, x, c, room)
  PROVE  /\ h \in Bytes /\ q # <<>> /\ done \in Seq(ReadyMessage) /\ Len(q) = Len(done) + 1
         /\ curmsg(q).expchunksize = x /\ curmsg(q).curchunksize = c /\ MessageOK(curmsg(q))
         /\ curmsg(q) \in Message /\ q = With(done, curmsg(q)) /\ curmsg(q).ready = FALSE
<1>1. PICK m, fr, b, bq : Adds(q, done, m) /\ m = Unfinished(bq, x, c) /\ Keeps(m, fr, b, h, room)
  BY DEF Holds
<1>2. q # <<>> /\ Len(q) = Len(done) + 1 /\ curmsg(q) = m
  BY <1>1, LastIs
<1>9. m.expchunksize = x /\ m.curchunksize = c
  BY <1>1, UnfinishedIs
<1>10. m.ready = FALSE
  BY <1>1, UnfinishedNotReady
<1>3. m.expchunksize = x /\ m.curchunksize = c /\ m.ready = FALSE
  BY <1>9, <1>10
<1>4. m.buffQ \in Seq(HeldBuffer) /\ h \in Bytes
  BY <1>1, KeepsIs
<1>5. MessageOK(m)
  BY <1>3, <1>4, BuffersOK DEF Sizes, MessageOK
<1>6. done \in Seq(ReadyMessage) /\ m \in Message /\ q = With(done, m)
  BY <1>1 DEF Adds
<1> QED BY <1>2, <1>3, <1>4, <1>5, <1>6

LEMMA MessagesOK ==
  ASSUME NEW q, NEW done \in Seq(ReadyMessage), NEW h, NEW x, NEW c, Sizes(x, c), Begins(q, done, h, x, c)
  PROVE  \A i \in DOMAIN q : MessageOK(q[i])
<1>1. \A i \in 1..Len(done) : MessageOK(done[i])
  BY ElementOfSeq, ReadyOK
<1>2. DOMAIN done = 1..Len(done) /\ Len(done) \in Nat
  BY LenProperties
<1>3. CASE q = done
  BY <1>1, <1>2, <1>3
<1>4. CASE Holds(q, done, h, x, c, 0)
  <2>1. PICK m : m = curmsg(q)
    OBVIOUS
  <2>2. m \in Message /\ q = With(done, m) /\ MessageOK(m)
    BY <1>4, <2>1, HoldsIs
  <2>3. done \in Seq(Message)
    BY ReadyKinds, SeqMonotonic
  <2>4. DOMAIN q = 1..Len(done) + 1
    BY <2>2, <2>3, Snoc1, LenProperties
  <2>5. \A i \in 1..Len(done) : Append(done, m)[i] = done[i]
    BY <2>2, <2>3, AppendProperties
  <2>6. Append(done, m)[Len(done) + 1] = m
    BY <2>2, <2>3, AppendProperties
  <2>7. ASSUME NEW i \in DOMAIN q PROVE MessageOK(q[i])
    BY <1>2, <2>4, <2>2, <1>1, <2>5, <2>6 DEF With
  <2> QED BY <2>7
<1> QED BY <1>3, <1>4 DEF Begins

\* The first message is served.
LEMMA Dispatched ==
  ASSUME NEW q, NEW done \in Seq(ReadyMessage), NEW h, NEW x, NEW c, Sizes(x, c), Begins(q, done, h, x, c),
         q # <<>>, Head(q).ready
  PROVE  /\ done # <<>> /\ Head(q) = Head(done) /\ Tail(done) \in Seq(ReadyMessage)
         /\ Begins(Tail(q), Tail(done), h, x, c)
<1>1. CASE q = done /\ h = <<>> /\ x = 0 /\ c = 0
  BY <1>1, HeadTailProperties DEF Begins
<1>2. ASSUME Holds(q, done, h, x, c, 0)
      PROVE  /\ done # <<>> /\ Head(q) = Head(done) /\ Tail(done) \in Seq(ReadyMessage)
             /\ Holds(Tail(q), Tail(done), h, x, c, 0)
  <2>1. PICK m, fr, b, bq : Adds(q, done, m) /\ m = Unfinished(bq, x, c) /\ Keeps(m, fr, b, h, 0)
    BY <1>2 DEF Holds
  <2>2. m.ready = FALSE /\ m \in Message /\ q = Append(done, m)
    BY <2>1, UnfinishedNotReady DEF Adds, With
  <2>3. done \in Seq(Message)
    BY ReadyKinds, SeqMonotonic
  <2>4. /\ Head(Append(done, m)) = IF done = <<>> THEN m ELSE Head(done)
        /\ Tail(Append(done, m)) = IF done = <<>> THEN <<>> ELSE Append(Tail(done), m)
    BY <2>3, HeadTailAppend
  <2>5. done # <<>>
    BY <2>2, <2>4
  <2>6. Tail(done) \in Seq(ReadyMessage)
    BY <2>5, HeadTailProperties
  <2>7. Adds(Tail(q), Tail(done), m)
    BY <2>2, <2>4, <2>5, <2>6 DEF Adds, With
  <2>8. Holds(Tail(q), Tail(done), h, x, c, 0)
    BY <2>1, <2>7 DEF Holds
  <2> QED BY <2>2, <2>4, <2>5, <2>6, <2>8
<1> QED BY <1>1, <1>2 DEF Begins

\* One character more.
LEMMA V10Put ==
  ASSUME NEW done \in Seq(ReadyMessage), NEW h, NEW x, NEW c, Sizes(x, c), msgQ # <<>>,
         Begins(msgQ, done, h, x, c), NEW ch \in Byte
  PROVE  Holds(v10_put(ch), done, h \o <<ch>>, x, c, 0)
<1>1. Holds(make_room(msgQ), done, h, x, c, 1)
  BY MakeRoom
<1>2. Holds(set_buff(make_room(msgQ), put(curbuff(make_room(msgQ)), <<ch>>)), done, h \o <<ch>>, x, c, 0)
  BY <1>1, PutChar
<1> QED BY <1>2 DEF v10_put

\* A message is finished: how the two framings write it.
Sealed(m, cq) == [m EXCEPT !.buffQ = cq, !.ready = Ready]
Sealed11(m, cq) == [m EXCEPT !.ready = Ready, !.buffQ = cq]

LEMMA SealedIs ==
  ASSUME NEW m, NEW bq, NEW x, NEW c, m = Unfinished(bq, x, c), NEW cq
  PROVE  Sealed(m, cq) = Complete(cq, x, c) /\ Sealed11(m, cq) = Complete(cq, x, c)
<1>6. Sealed(m, cq) = Complete(cq, x, c)
  <2>1. PICK k : k = Unfinished(cq, x, c)
    OBVIOUS
  <2>2. [m EXCEPT !.buffQ = cq] = k
    BY <2>1 DEF Unfinished
  <2>3. [k EXCEPT !.ready = Ready] = Complete(cq, x, c)
    BY <2>1 DEF Unfinished, Complete
  <2>4. [m EXCEPT !.buffQ = cq, !.ready = Ready] = [[m EXCEPT !.buffQ = cq] EXCEPT !.ready = Ready]
    OBVIOUS
  <2> QED BY <2>2, <2>3, <2>4 DEF Sealed
<1>7. Sealed11(m, cq) = Complete(cq, x, c)
  <2>1. PICK k : k = Complete(bq, x, c)
    OBVIOUS
  <2>2. [m EXCEPT !.ready = Ready] = k
    BY <2>1 DEF Unfinished, Complete
  <2>3. [k EXCEPT !.buffQ = cq] = Complete(cq, x, c)
    BY <2>1 DEF Complete
  <2>4. [m EXCEPT !.ready = Ready, !.buffQ = cq] = [[m EXCEPT !.ready = Ready] EXCEPT !.buffQ = cq]
    OBVIOUS
  <2> QED BY <2>2, <2>3, <2>4 DEF Sealed11
<1> QED BY <1>6, <1>7

\* A message of some text is finished behind the others.
Finish(q, done, text) == \E e \in ReadyMessage :
  /\ q = With(done, e) /\ text_of(e) = text
  /\ With(done, e) \in Seq(ReadyMessage) /\ Len(With(done, e)) = Len(done) + 1

LEMMA FinishIs ==
  ASSUME NEW q, NEW done, NEW m, NEW x, NEW c, Sizes(x, c), Adds(q, done, m),
         NEW cq \in Seq(HeldBuffer), Compact(cq), NEW e, e = Complete(cq, x, c), NEW text, Text(cq) = text
  PROVE  Finish(set_msg(q, e), done, text)
<1>1. e \in ReadyMessage /\ e.buffQ = cq
  BY CompleteIs
<1>2. e \in Message
  BY <1>1, ReadyKinds
<1>3. Adds(set_msg(q, e), done, e)
  BY <1>2, LastSet
<1>4. set_msg(q, e) = With(done, e) /\ done \in Seq(ReadyMessage)
  BY <1>3 DEF Adds
<1>5. With(done, e) \in Seq(ReadyMessage) /\ Len(With(done, e)) = Len(done) + 1
  BY <1>1, <1>4, Snoc1
<1>8. text_of(e) = Text(cq)
  BY <1>1, TextOf
<1> QED BY <1>1, <1>4, <1>5, <1>8 DEF Finish

\* What the code makes of the last message.
Cut(q)     == set_msg(q, [curmsg(q) EXCEPT !.buffQ = cut_end(@), !.ready = TRUE])
Settles(q) == set_msg(q, [curmsg(q) EXCEPT !.ready = TRUE, !.buffQ = finish_buffs(@)])
Sizing(q, n) == set_msg(q, [curmsg(q) EXCEPT !.expchunksize = n, !.curchunksize = 0])
Filling(q, text, k) == set_msg(q, [curmsg(q) EXCEPT !.curchunksize = @ + k, !.buffQ = fill(@, text)])

LEMMA V10Ends ==
  ASSUME NEW q, NEW done, NEW h, NEW x, NEW c, Sizes(x, c), Holds(q, done, h, x, c, 0), Len(h) > 6
  PROVE  /\ ~(Len(curmsg(q).buffQ) = 1 /\ curbuff(q).buffpos <= NC_SSH_END_LEN)
         /\ Finish(Cut(q), done, SubSeq(h, 1, Len(h) - 6))
<1>1. PICK m, fr, b, bq : Adds(q, done, m) /\ m = Unfinished(bq, x, c) /\ Keeps(m, fr, b, h, 0)
  BY DEF Holds
<1>2. curmsg(q) = m /\ curbuff(q) = b
  BY <1>1, LastIs, CurrentIs
<1>3. m.buffQ = bq
  BY <1>1, UnfinishedIs
<1>4. PICK cq : cq = cut_end(bq)
  OBVIOUS
<1>5. /\ ~(Len(bq) = 1 /\ b.buffpos <= NC_SSH_END_LEN)
      /\ cq \in Seq(HeldBuffer) /\ Compact(cq) /\ Text(cq) = SubSeq(h, 1, Len(h) - 6)
  BY <1>1, CutEnd, <1>3, <1>4
<1>6. PICK e : e = Complete(cq, x, c)
  OBVIOUS
<1>11. PICK text : text = SubSeq(h, 1, Len(h) - 6)
  OBVIOUS
<1>7. Finish(set_msg(q, e), done, text)
  BY <1>5, <1>11, <1>1, <1>6, FinishIs
<1>8. [m EXCEPT !.buffQ = cut_end(@), !.ready = TRUE] = Sealed(m, cq)
  BY <1>3, <1>4 DEF Ready, Sealed
<1>9. Sealed(m, cq) = e
  BY <1>1, <1>6, SealedIs
<1>10. Finish(set_msg(q, [m EXCEPT !.buffQ = cut_end(@), !.ready = TRUE]), done, text)
  BY <1>7, <1>8, <1>9
<1> QED BY <1>2, <1>3, <1>5, <1>10, <1>11 DEF Cut

LEMMA V11Ends ==
  ASSUME NEW q, NEW done, NEW h, NEW x, NEW c, Sizes(x, c), Holds(q, done, h, x, c, 0)
  PROVE  Finish(Settles(q), done, h)
<1>1. PICK m, fr, b, bq : Adds(q, done, m) /\ m = Unfinished(bq, x, c) /\ Keeps(m, fr, b, h, 0)
  BY DEF Holds
<1>2. curmsg(q) = m
  BY <1>1, LastIs
<1>3. m.buffQ = bq
  BY <1>1, UnfinishedIs
<1>4. PICK cq : cq = finish_buffs(bq)
  OBVIOUS
<1>5. cq \in Seq(HeldBuffer) /\ Compact(cq) /\ Text(cq) = h
  BY <1>1, FinishBuffs, <1>3, <1>4
<1>6. PICK e : e = Complete(cq, x, c)
  OBVIOUS
<1>7. Finish(set_msg(q, e), done, h)
  BY <1>1, <1>5, <1>6, FinishIs
<1>8. [m EXCEPT !.ready = TRUE, !.buffQ = finish_buffs(@)] = Sealed11(m, cq)
  BY <1>3, <1>4 DEF Ready, Sealed11
<1>9. Sealed11(m, cq) = e
  BY <1>1, <1>6, SealedIs
<1> QED BY <1>2, <1>7, <1>8, <1>9 DEF Settles

\* Room without a change of the text.
LEMMA Roomier ==
  ASSUME NEW q, q # <<>>, NEW done \in Seq(ReadyMessage), NEW h, NEW x, NEW c, Sizes(x, c),
         Begins(q, done, h, x, c)
  PROVE  Holds(make_room(q), done, h, x, c, 0)
<1>1. Holds(make_room(q), done, h, x, c, 1)
  BY MakeRoom
<1> QED BY <1>1, RoomLess

LEMMA V11Sized ==
  ASSUME NEW q, q # <<>>, NEW done \in Seq(ReadyMessage), NEW h, NEW x0, NEW c0, Sizes(x0, c0),
         Begins(q, done, h, x0, c0), NEW n \in 0..NCX_MAX_UINT
  PROVE  Holds(Sizing(make_room(q), n), done, h, n, 0, 0) /\ Sizes(n, 0)
<1>1. Holds(make_room(q), done, h, x0, c0, 0)
  BY Roomier
<1>2. Sizes(n, 0)
  BY DEF Sizes
<1> QED BY <1>1, <1>2, Resized DEF Sizing

LEMMA V11Filled ==
  ASSUME NEW q, NEW done, NEW h, NEW x, NEW c, Sizes(x, c), Holds(q, done, h, x, c, 0),
         NEW text \in Bytes, NEW k, Sizes(x, c + k)
  PROVE  Holds(Filling(q, text, k), done, h \o text, x, c + k, 0)
<1>1. Holds(set_msg(q, [curmsg(q) EXCEPT !.curchunksize = c + k, !.buffQ = fill(curmsg(q).buffQ, text)]),
            done, h \o text, x, c + k, 0)
  BY Filled
<1>2. curmsg(q).curchunksize = c /\ curmsg(q) \in Message
  BY HoldsIs
<1>3. [curmsg(q) EXCEPT !.curchunksize = @ + k, !.buffQ = fill(@, text)]
        = [curmsg(q) EXCEPT !.curchunksize = c + k, !.buffQ = fill(curmsg(q).buffQ, text)]
  BY <1>2
<1> QED BY <1>1, <1>3 DEF Filling

(* What the queue and the parser say together: the finished messages are the *)
(* first documents, the parser is somewhere in the ones behind them.         *)

\* The finished messages are the documents fs.
Tracks(done, fs) ==
  /\ done \in Seq(ReadyMessage) /\ fs \in Seq(Docs) /\ Len(fs) = Len(done)
  /\ \A i \in 1..Len(done) : text_of(done[i]) = fs[i]

\* Of what was sent, fs is finished, h of the next is in its buffers, and ds is to come.
Standing(q, s, done, fs, h, x, c, ds) ==
  Tracks(done, fs) /\ Sizes(x, c) /\ Begins(q, done, h, x, c) /\ ds \in Seq(Docs) /\ s = fs \o ds

\* And the parser stands where h ends.
Streamed(q, s, in, pos, sc, w, kind, X) == \E done, fs, h, x, c, ds :
  Standing(q, s, done, fs, h, x, c, ds) /\ Place(kind, in, pos, sc, w, h, x, c, ds, X)

\* The types of the queue alone.
Held(q) == \E done, h, x, c : done \in Seq(ReadyMessage) /\ Sizes(x, c) /\ Begins(q, done, h, x, c)

LEMMA StandingIs ==
  ASSUME NEW q, NEW s, NEW done, NEW fs, NEW h, NEW x, NEW c, NEW ds, Standing(q, s, done, fs, h, x, c, ds)
  PROVE  /\ done \in Seq(ReadyMessage) /\ Sizes(x, c) /\ Begins(q, done, h, x, c) /\ h \in Bytes
         /\ ds \in Seq(Docs) /\ fs \in Seq(Docs) /\ s = fs \o ds /\ Len(fs) = Len(done) /\ Held(q)
<1>1. /\ done \in Seq(ReadyMessage) /\ Sizes(x, c) /\ Begins(q, done, h, x, c)
      /\ ds \in Seq(Docs) /\ fs \in Seq(Docs) /\ s = fs \o ds /\ Len(fs) = Len(done)
  BY DEF Standing, Tracks
<1>2. h = <<>> => h \in Bytes
  BY EmptySeq DEF Bytes
<1>3. Holds(q, done, h, x, c, 0) => h \in Bytes
  BY <1>1, HoldsIs
<1>4. Held(q)
  BY <1>1 DEF Held
<1> QED BY <1>1, <1>2, <1>3, <1>4 DEF Begins

LEMMA StandingAs ==
  ASSUME NEW q, NEW s, NEW done, NEW fs, NEW h, NEW x, NEW c, NEW ds, Standing(q, s, done, fs, h, x, c, ds),
         NEW q1, NEW h1, NEW x1, NEW c1, Sizes(x1, c1), Holds(q1, done, h1, x1, c1, 0)
  PROVE  Standing(q1, s, done, fs, h1, x1, c1, ds) /\ q1 # <<>>
<1>1. Begins(q1, done, h1, x1, c1)
  BY DEF Begins
<1>2. q1 # <<>>
  BY HoldsIs
<1> QED BY <1>1, <1>2 DEF Standing

LEMMA StreamedIs ==
  ASSUME NEW q, NEW s, NEW in, NEW pos, NEW sc, NEW w, NEW kind, NEW X, Streamed(q, s, in, pos, sc, w, kind, X)
  PROVE  Held(q)
BY StandingIs DEF Streamed

LEMMA StreamedAs ==
  ASSUME NEW q, NEW s, NEW in, NEW pos, NEW sc, NEW w, NEW kind, NEW X,
         NEW done, NEW fs, NEW h, NEW x, NEW c, NEW ds, Standing(q, s, done, fs, h, x, c, ds),
         Place(kind, in, pos, sc, w, h, x, c, ds, X)
  PROVE  Streamed(q, s, in, pos, sc, w, kind, X)
BY DEF Streamed

\* A document is sent.
LEMMA StreamedMore ==
  ASSUME NEW q, NEW s, NEW in, NEW pos, NEW sc, NEW w, NEW kind, Streamed(q, s, in, pos, sc, w, kind, <<>>),
         NEW d \in Docs, NEW e \in Bytes, Framed(kind, e, d)
  PROVE  Streamed(q, With(s, d), in, pos, sc, w \o e, kind, <<>>)
<1>1. PICK done, fs, h, x, c, ds :
        Standing(q, s, done, fs, h, x, c, ds) /\ Place(kind, in, pos, sc, w, h, x, c, ds, <<>>)
  BY DEF Streamed
<1>2. PICK none, one : none = <<>> /\ one = <<d>>
  OBVIOUS
<1>3. none \in Bytes /\ none \in Seq(Docs) /\ one \in Seq(Docs)
  BY <1>2, EmptySeq DEF Bytes
<1>4. Flow(kind, e, one, none)
  <2>1. Flow(kind, none, none, none)
    BY <1>2, FlowNone
  <2>2. Flow(kind, e \o none, <<d>> \o none, none)
    BY <1>3, <2>1, FlowMore
  <2>3. e \o none = e
    BY <1>2, ConcatEmptySeq DEF Bytes
  <2>4. one \o none = one
    BY <1>2, <1>3, ConcatEmptySeq
  <2> QED BY <1>2, <2>2, <2>3, <2>4
<1>5. Place(kind, in, pos, sc, w, h, x, c, ds, none)
  BY <1>1, <1>2
<1>6. Place(kind, in, pos, sc, w \o e, h, x, c, ds \o one, none)
  BY <1>1, <1>3, <1>4, <1>2, PlaceAdd
<1>7. Standing(q, With(s, d), done, fs, h, x, c, ds \o one)
  <2>1. ds \in Seq(Docs) /\ fs \in Seq(Docs) /\ s = fs \o ds
    BY <1>1, StandingIs
  <2>2. (fs \o ds) \o one = fs \o (ds \o one) /\ ds \o one \in Seq(Docs) /\ s \in Seq(Docs)
    BY <1>3, <2>1, DocsAssoc, Cat
  <2>3. With(s, d) = s \o one
    BY <1>2, <2>2, AppendIsConcat DEF With
  <2> QED BY <1>1, <2>1, <2>2, <2>3 DEF Standing
<1>8. Streamed(q, With(s, d), in, pos, sc, w \o e, kind, none)
  BY <1>6, <1>7, StreamedAs
<1> QED BY <1>2, <1>8

\* A malformed end is sent.
LEMMA StreamedBad ==
  ASSUME NEW q, NEW s, NEW in, NEW pos, NEW sc, NEW w, NEW kind, Streamed(q, s, in, pos, sc, w, kind, <<>>),
         NEW X \in Bytes
  PROVE  Streamed(q, s, in, pos, sc, w \o X, kind, X)
<1>1. PICK done, fs, h, x, c, ds :
        Standing(q, s, done, fs, h, x, c, ds) /\ Place(kind, in, pos, sc, w, h, x, c, ds, <<>>)
  BY DEF Streamed
<1>2. PICK none : none = <<>>
  OBVIOUS
<1>3. Flow(kind, X, none, X)
  BY <1>2, FlowNone
<1>4. Place(kind, in, pos, sc, w \o X, h, x, c, ds \o none, X)
  BY <1>1, <1>3, PlaceAdd
<1>5. ds \o none = ds
  BY <1>1, <1>2, StandingIs, ConcatEmptySeq
<1> QED BY <1>1, <1>4, <1>5, StreamedAs

\* A read begins.
LEMMA StreamedRead ==
  ASSUME NEW q, NEW s, NEW in, NEW pos, NEW sc, NEW w, NEW kind, NEW X, Streamed(q, s, in, pos, sc, w, kind, X)
  PROVE  Streamed(make_current(q), s, in, pos, sc, w, kind, X) /\ make_current(q) # <<>>
<1>1. PICK done, fs, h, x, c, ds :
        Standing(q, s, done, fs, h, x, c, ds) /\ Place(kind, in, pos, sc, w, h, x, c, ds, X)
  BY DEF Streamed
<1>2. done \in Seq(ReadyMessage) /\ Sizes(x, c) /\ Begins(q, done, h, x, c)
  BY <1>1, StandingIs
<1>3. Holds(make_current(q), done, h, x, c, 0)
  BY <1>2, MakeCurrent
<1>4. Standing(make_current(q), s, done, fs, h, x, c, ds) /\ make_current(q) # <<>>
  BY <1>1, <1>2, <1>3, StandingAs
<1> QED BY <1>1, <1>4, StreamedAs

\* A message is complete: the document it began to hold is in its buffers.
LEMMA StreamedEnd ==
  ASSUME NEW done, NEW fs, NEW h, NEW x, NEW c, NEW q, NEW s, NEW ds, Standing(q, s, done, fs, h, x, c, ds),
         NEW q1, NEW text, Finish(q1, done, text), NEW kind, NEW w, NEW X, Finishes(kind, w, text, ds, X), NEW sc
  PROVE  Streamed(q1, s, "IDLE", 0, sc, w, kind, X) /\ q1 # <<>> /\ Len(q1) = Len(done) + 1
         /\ ds # <<>> /\ Len(s) >= Len(q1)
<1>1. PICK m \in ReadyMessage : /\ q1 = With(done, m) /\ text_of(m) = text
                                /\ With(done, m) \in Seq(ReadyMessage) /\ Len(With(done, m)) = Len(done) + 1
  BY DEF Finish
<1>2. PICK d, es : Next1(kind, d, es, w, ds, X) /\ text = d
  BY DEF Finishes
<1>3. d \in Docs /\ es \in Seq(Docs) /\ w \in Bytes /\ ds = <<d>> \o es /\ Flow(kind, w, es, X)
  BY <1>2 DEF Next1
<1>4. PICK one : one = <<d>>
  OBVIOUS
<1>5. one \in Seq(Docs) /\ Len(one) = 1 /\ one[1] = d /\ ds = one \o es
  BY <1>3, <1>4
<1>6. /\ done \in Seq(ReadyMessage) /\ fs \in Seq(Docs) /\ Len(fs) = Len(done) /\ s = fs \o ds
      /\ \A i \in 1..Len(done) : text_of(done[i]) = fs[i]
  BY DEF Standing, Tracks
<1>7. PICK gs : gs = With(fs, d)
  OBVIOUS
<1>8. gs \in Seq(Docs) /\ Len(gs) = Len(fs) + 1 /\ gs = fs \o one
  BY <1>3, <1>6, <1>7, Snoc1, <1>4, AppendIsConcat DEF With
<1>9. Tracks(q1, gs)
  <2>1. \A i \in 1..Len(done) : Append(done, m)[i] = done[i] /\ Append(fs, d)[i] = fs[i]
    BY <1>6, AppendProperties, <1>3
  <2>2. Append(done, m)[Len(done) + 1] = m
    BY <1>6, AppendProperties
  <2>3. Append(fs, d)[Len(fs) + 1] = d
    BY <1>3, <1>6, AppendProperties
  <2>4. Len(done) \in Nat
    BY <1>6, LenProperties
  <2>5. ASSUME NEW i \in 1..Len(q1) PROVE text_of(q1[i]) = gs[i]
    <3>1. i \in 1..Len(done) \/ i = Len(done) + 1
      BY <1>1, <2>4
    <3>2. CASE i \in 1..Len(done)
      BY <1>1, <1>6, <1>7, <2>1, <3>2 DEF With
    <3>3. CASE i = Len(done) + 1
      BY <1>1, <2>2, <3>3, <1>6, <1>7, <2>3, <1>2 DEF With
    <3> QED BY <3>1, <3>2, <3>3
  <2> QED BY <1>1, <1>6, <1>8, <2>5 DEF Tracks
<1>10. PICK none : none = <<>>
  OBVIOUS
<1>11. Standing(q1, s, q1, gs, none, 0, 0, es)
  <2>1. Sizes(0, 0)
    BY Constants DEF Sizes
  <2>2. Begins(q1, q1, none, 0, 0)
    BY <1>10 DEF Begins
  <2>3. (fs \o one) \o es = fs \o (one \o es)
    BY <1>3, <1>5, <1>6, DocsAssoc
  <2>4. s = gs \o es
    BY <1>5, <1>6, <1>8, <2>3
  <2> QED BY <1>3, <1>9, <2>1, <2>2, <2>4 DEF Standing
<1>12. Place(kind, "IDLE", 0, sc, w, none, 0, 0, es, X)
  BY <1>3, <1>10 DEF Place
<1>13. Streamed(q1, s, "IDLE", 0, sc, w, kind, X)
  BY <1>11, <1>12, StreamedAs
<1>14. q1 # <<>> /\ Len(q1) = Len(done) + 1
  BY <1>1, <1>6, LenProperties, EmptySeq
<1>15. ds # <<>> /\ Len(ds) \in Nat \ {0}
  BY <1>3, <1>5, Cat, LenProperties, EmptySeq
<1>16. Len(s) >= Len(q1)
  BY <1>3, <1>5, <1>6, Cat, LenProperties, <1>14, <1>15
<1> QED BY <1>13, <1>14, <1>15, <1>16

\* A message is served.
LEMMA StreamedServed ==
  ASSUME NEW q, NEW s, NEW in, NEW pos, NEW sc, NEW w, NEW kind, NEW X, Streamed(q, s, in, pos, sc, w, kind, X),
         q # <<>>, Head(q).ready
  PROVE  /\ s \in Seq(Docs) /\ s # <<>> /\ text_of(Head(q)) = Head(s)
         /\ Streamed(Tail(q), Tail(s), in, pos, sc, w, kind, X)
         /\ \A other : Len(s) = 1 /\ X = <<>> => Streamed(Tail(q), Tail(s), in, pos, sc, w, other, X)
<1>1. PICK done, fs, h, x, c, ds :
        Standing(q, s, done, fs, h, x, c, ds) /\ Place(kind, in, pos, sc, w, h, x, c, ds, X)
  BY DEF Streamed
<1>2. /\ done \in Seq(ReadyMessage) /\ Sizes(x, c) /\ Begins(q, done, h, x, c)
      /\ ds \in Seq(Docs) /\ fs \in Seq(Docs) /\ s = fs \o ds /\ Len(fs) = Len(done)
  BY <1>1, StandingIs
<1>3. /\ done # <<>> /\ Head(q) = Head(done) /\ Tail(done) \in Seq(ReadyMessage)
      /\ Begins(Tail(q), Tail(done), h, x, c)
  BY <1>2, Dispatched
<1>4. \A i \in 1..Len(done) : text_of(done[i]) = fs[i]
  BY <1>1 DEF Standing, Tracks
<1>5. Len(done) \in Nat \ {0} /\ fs # <<>> /\ Len(fs) \in Nat \ {0}
  BY <1>2, <1>3, EmptySeq, LenProperties
<1>6. text_of(Head(done)) = Head(fs)
  BY <1>2, <1>3, <1>5, Uncons, <1>4
<1>7. /\ Tail(fs) \in Seq(Docs) /\ Len(Tail(fs)) = Len(fs) - 1
      /\ Len(Tail(done)) = Len(done) - 1
      /\ \A i \in 1..Len(fs) - 1 : Tail(fs)[i] = fs[i + 1]
      /\ \A i \in 1..Len(done) - 1 : Tail(done)[i] = done[i + 1]
  BY <1>2, <1>5, HeadTailProperties, <1>3
<1>8. Tracks(Tail(done), Tail(fs))
  <2>1. ASSUME NEW i \in 1..Len(Tail(done)) PROVE text_of(Tail(done)[i]) = Tail(fs)[i]
    BY <1>2, <1>5, <1>7, <1>4
  <2> QED BY <1>2, <1>3, <1>7, <2>1 DEF Tracks
<1>9. /\ s \in Seq(Docs) /\ s # <<>> /\ Head(s) = Head(fs) /\ Tail(s) = Tail(fs) \o ds
      /\ Len(s) = Len(fs) + Len(ds)
  <2>1. Head(fs) \in Docs /\ fs = <<Head(fs)>> \o Tail(fs)
    BY <1>2, <1>5, Uncons
  <2>2. PICK d, one : d = Head(fs) /\ one = <<d>>
    OBVIOUS
  <2>3. d \in Docs /\ one \in Seq(Docs) /\ fs = one \o Tail(fs)
    BY <2>1, <2>2
  <2>4. PICK r : r = Tail(fs) \o ds
    OBVIOUS
  <2>5. r \in Seq(Docs)
    BY <1>2, <1>7, <2>4, Cat
  <2>6. (one \o Tail(fs)) \o ds = one \o (Tail(fs) \o ds)
    BY <1>2, <1>7, <2>3, DocsAssoc
  <2>7. s = <<d>> \o r
    BY <1>2, <2>2, <2>3, <2>4, <2>6
  <2>8. s \in Seq(Docs) /\ s # <<>> /\ Head(s) = d /\ Tail(s) = r
    BY <2>3, <2>5, <2>7, ConsIs
  <2>9. Len(s) = Len(fs) + Len(ds)
    BY <1>2, Cat
  <2> QED BY <2>2, <2>4, <2>8, <2>9
<1>10. Standing(Tail(q), Tail(s), Tail(done), Tail(fs), h, x, c, ds)
  BY <1>2, <1>3, <1>8, <1>9 DEF Standing
<1>11. Streamed(Tail(q), Tail(s), in, pos, sc, w, kind, X)
  BY <1>1, <1>10, StreamedAs
<1>12. ASSUME NEW other, Len(s) = 1, X = <<>> PROVE Streamed(Tail(q), Tail(s), in, pos, sc, w, other, X)
  <2>1. ds = <<>>
    BY <1>2, <1>5, <1>9, <1>12, EmptySeq, LenProperties
  <2>2. Place(other, in, pos, sc, w, h, x, c, ds, X)
    BY <1>1, <1>12, <2>1, PlaceSwitch
  <2> QED BY <1>10, <2>2, StreamedAs
<1> QED BY <1>3, <1>6, <1>9, <1>11, <1>12

\* Where a session stands when a byte is taken.
Stand(q, s, in, pos, sc, w, kind, X, done, fs, h, x, c, ds) ==
  Standing(q, s, done, fs, h, x, c, ds) /\ Place(kind, in, pos, sc, w, h, x, c, ds, X)

LEMMA StandIs ==
  ASSUME NEW q, NEW s, NEW in, NEW pos, NEW sc, NEW w, NEW kind, NEW X, Streamed(q, s, in, pos, sc, w, kind, X)
  PROVE  \E done, fs, h, x, c, ds : Stand(q, s, in, pos, sc, w, kind, X, done, fs, h, x, c, ds)
BY DEF Streamed, Stand

LEMMA StandParts ==
  ASSUME NEW q, NEW s, NEW in, NEW pos, NEW sc, NEW w, NEW kind, NEW X,
         NEW done, NEW fs, NEW h, NEW x, NEW c, NEW ds, Stand(q, s, in, pos, sc, w, kind, X, done, fs, h, x, c, ds)
  PROVE  /\ Standing(q, s, done, fs, h, x, c, ds) /\ Place(kind, in, pos, sc, w, h, x, c, ds, X)
         /\ done \in Seq(ReadyMessage) /\ Sizes(x, c) /\ Begins(q, done, h, x, c) /\ h \in Bytes
         /\ ds \in Seq(Docs)
BY StandingIs DEF Stand

(* How many buffers the queue takes up *)

LEMMA BuffcntRun ==
  ASSUME NEW q, NEW n \in Nat, DOMAIN q = 1..n
  PROVE  \E f : IsRun(f, "messages", 1, q, n) /\ buffcnt(q) = f[n]
<1> DEFINE G(g) == g = [t \in SUBSET (1..n) |->
                          IF t = {} THEN 1 ELSE g[t \ {Max(t)}] + Len(q[Max(t)].buffQ)]
<1>1. PICK g : buffcnt(q) = g[1..n] /\ g = CHOOSE f : G(f)
  BY DEF buffcnt, FoldLeft, MapThenFoldSet
<1>2. \A f : G(f) <=> IsFold(f, "messages", 1, q, n)
  BY DEF IsFold, Advance
<1>3. IsFold(g, "messages", 1, q, n)
  BY <1>1, <1>2, FoldExists
<1>4. IsRun([k \in 0..n |-> g[1..k]], "messages", 1, q, n)
  BY <1>3, FoldSteps
<1>5. [k \in 0..n |-> g[1..k]][n] = g[1..n]
  OBVIOUS
<1> QED BY <1>1, <1>4, <1>5

LEMMA NeededRun ==
  ASSUME NEW s, NEW n \in Nat, DOMAIN s = 1..n
  PROVE  \E f : IsRun(f, "documents", 1, s, n) /\ buffers_for(s) = f[n]
<1> DEFINE G(g) == g = [t \in SUBSET (1..n) |->
                          IF t = {} THEN 1 ELSE g[t \ {Max(t)}] + needed(s[Max(t)])]
<1>1. PICK g : buffers_for(s) = g[1..n] /\ g = CHOOSE f : G(f)
  BY DEF buffers_for, FoldLeft, MapThenFoldSet
<1>2. \A f : G(f) <=> IsFold(f, "documents", 1, s, n)
  BY DEF IsFold, Advance
<1>3. IsFold(g, "documents", 1, s, n)
  BY <1>1, <1>2, FoldExists
<1>4. IsRun([k \in 0..n |-> g[1..k]], "documents", 1, s, n)
  BY <1>3, FoldSteps
<1>5. [k \in 0..n |-> g[1..k]][n] = g[1..n]
  OBVIOUS
<1> QED BY <1>1, <1>4, <1>5

\* f counts the amounts u.
Counted(f, u, n) == f[0] = 1 /\ \A k \in 1..n : u[k] \in Nat /\ f[k] = f[k-1] + u[k]

\* A count of more is not less.
LEMMA Tally ==
  ASSUME NEW f, NEW g, NEW u, NEW v, NEW n \in Nat, NEW m \in Nat, n <= m,
         Counted(f, u, n), Counted(g, v, m), \A k \in 1..n : u[k] <= v[k]
  PROVE  f[n] \in Nat /\ g[m] \in Nat /\ f[n] <= g[m]
<1> DEFINE T == {k \in 0..n : f[k] \in Nat /\ g[k] \in Nat /\ f[k] <= g[k]}
           U == {k \in 0..m : k < n \/ (g[k] \in Nat /\ f[n] <= g[k])}
<1>1. 0 \in T
  BY DEF Counted
<1>2. ASSUME NEW k \in 1..n, k - 1 \in T PROVE k \in T
  BY <1>2 DEF Counted
<1> HIDE DEF T
<1>3. n \in T
  BY <1>1, <1>2, Induction
<1>4. f[n] \in Nat /\ g[n] \in Nat /\ f[n] <= g[n]
  BY <1>3 DEF T
<1>5. 0 \in U
  BY <1>4
<1>6. ASSUME NEW k \in 1..m, k - 1 \in U PROVE k \in U
  <2>1. v[k] \in Nat /\ g[k] = g[k-1] + v[k]
    BY DEF Counted
  <2>2. CASE k < n
    BY <2>2
  <2>3. CASE k = n
    BY <1>4, <2>3
  <2>4. CASE k > n
    BY <1>6, <2>4, <1>4, <2>1
  <2> QED BY <2>2, <2>3, <2>4
<1> HIDE DEF U
<1>7. m \in U
  BY <1>5, <1>6, Induction
<1> QED BY <1>4, <1>7 DEF U

\* The amounts of the two folds.
LEMMA BuffcntIs ==
  ASSUME NEW q \in Seq(Message)
  PROVE  \E f : Counted(f, [k \in 1..Len(q) |-> Len(q[k].buffQ)], Len(q)) /\ buffcnt(q) = f[Len(q)]
<1>1. DOMAIN q = 1..Len(q) /\ Len(q) \in Nat /\ \A k \in 1..Len(q) : q[k] \in Message
  BY LenProperties, ElementOfSeq
<1>2. PICK n : n = Len(q)
  OBVIOUS
<1>3. PICK f : IsRun(f, "messages", 1, q, n) /\ buffcnt(q) = f[n]
  BY <1>1, <1>2, BuffcntRun
<1>4. \A k \in 1..n : Len(q[k].buffQ) \in Nat
  <2>1. ASSUME NEW e \in Message PROVE Len(e.buffQ) \in Nat
    BY LenProperties DEF Message
  <2> QED BY <1>1, <1>2, <2>1
<1>5. f[0] = 1 /\ \A k \in 1..n : f[k] = f[k-1] + Len(q[k].buffQ)
  BY <1>3 DEF IsRun, Advance
<1>6. Counted(f, [k \in 1..n |-> Len(q[k].buffQ)], n)
  BY <1>4, <1>5 DEF Counted
<1> QED BY <1>2, <1>3, <1>6

LEMMA DocNeeds ==
  ASSUME NEW d \in Docs, NEW k \in Nat, NEW n, n = Len(d) + 6
  PROVE  /\ needed(d) \in Nat /\ n \in Nat
         /\ k * SES_MSG_BUFFSIZE <= n => k + 1 <= needed(d)
<1>1. PICK B : B = SES_MSG_BUFFSIZE
  OBVIOUS
<1>2. B \in Nat \ {0} /\ Len(d) \in Nat /\ n \in Nat
  BY <1>1, Constants, DocIs
<1>3. PICK a : a = n \div B
  OBVIOUS
<1>4. a \in Nat /\ n < (a + 1) * B
  BY <1>2, <1>3
<1>5. needed(d) = a + 1
  BY <1>1, <1>3, Constants DEF needed
<1>6. ASSUME k * B <= n PROVE k <= a
  <2>1. SUFFICES ASSUME ~(k <= a) PROVE FALSE
    OBVIOUS
  <2>2. a + 1 <= k
    BY <1>4, <2>1
  <2>3. (a + 1) * B <= k * B
    BY <1>2, <1>4, <2>2
  <2>4. PICK x, y : x = (a + 1) * B /\ y = k * B
    OBVIOUS
  <2>5. x \in Nat /\ y \in Nat
    BY <1>2, <1>4, <2>4
  <2> QED BY <1>2, <1>4, <1>6, <2>3, <2>4, <2>5
<1> QED BY <1>1, <1>2, <1>4, <1>5, <1>6

LEMMA NeededIs ==
  ASSUME NEW s \in Seq(Docs)
  PROVE  \E f : Counted(f, [k \in 1..Len(s) |-> needed(s[k])], Len(s)) /\ buffers_for(s) = f[Len(s)]
<1>1. DOMAIN s = 1..Len(s) /\ Len(s) \in Nat /\ \A k \in 1..Len(s) : s[k] \in Docs
  BY LenProperties, ElementOfSeq
<1>2. PICK n : n = Len(s)
  OBVIOUS
<1>3. PICK f : IsRun(f, "documents", 1, s, n) /\ buffers_for(s) = f[n]
  BY <1>1, <1>2, NeededRun
<1>4. \A k \in 1..n : needed(s[k]) \in Nat
  <2>1. ASSUME NEW d \in Docs PROVE needed(d) \in Nat
    BY DocNeeds
  <2> QED BY <1>1, <1>2, <2>1
<1>5. f[0] = 1 /\ \A k \in 1..n : f[k] = f[k-1] + needed(s[k])
  BY <1>3 DEF IsRun, Advance
<1>6. Counted(f, [k \in 1..n |-> needed(s[k])], n)
  BY <1>4, <1>5 DEF Counted
<1> QED BY <1>2, <1>3, <1>6

\* More documents need no fewer buffers.
LEMMA MoreSent ==
  ASSUME NEW s \in Seq(Docs), NEW d \in Docs
  PROVE  buffers_for(s) \in Nat /\ buffers_for(With(s, d)) \in Nat /\ buffers_for(s) <= buffers_for(With(s, d))
<1>1. PICK t : t = With(s, d)
  OBVIOUS
<1>2. t \in Seq(Docs) /\ Len(t) = Len(s) + 1 /\ Len(s) \in Nat /\ \A k \in 1..Len(s) : t[k] = s[k]
  BY <1>1, AppendProperties, LenProperties DEF With
<1>3. PICK u, v : u = [k \in 1..Len(s) |-> needed(s[k])] /\ v = [k \in 1..Len(t) |-> needed(t[k])]
  OBVIOUS
<1>4. PICK f : Counted(f, u, Len(s)) /\ buffers_for(s) = f[Len(s)]
  BY <1>3, NeededIs
<1>5. PICK g : Counted(g, v, Len(t)) /\ buffers_for(t) = g[Len(t)]
  BY <1>2, <1>3, NeededIs
<1>6. \A k \in 1..Len(s) : u[k] <= v[k]
  <2>1. ASSUME NEW k \in 1..Len(s) PROVE u[k] <= v[k]
    BY <1>2, <1>3, <1>4 DEF Counted
  <2> QED BY <2>1
<1>7. Len(s) <= Len(t) /\ Len(t) \in Nat
  BY <1>2
<1>8. f[Len(s)] \in Nat /\ g[Len(t)] \in Nat /\ f[Len(s)] <= g[Len(t)]
  BY <1>2, <1>4, <1>5, <1>6, <1>7, Tally
<1> QED BY <1>1, <1>4, <1>5, <1>8

\* The text of full buffers.
LEMMA TextFull ==
  ASSUME NEW fr \in Seq(FullBuffer)
  PROVE  Text(fr) \in Bytes /\ Len(Text(fr)) = Len(fr) * SES_MSG_BUFFSIZE
<1> DEFINE first(k) == SubSeq(fr, 1, k)
           T == {k \in 0..Len(fr) : Len(Text(first(k))) = k * SES_MSG_BUFFSIZE}
<1>1. Len(fr) \in Nat /\ \A k \in 1..Len(fr) : fr[k] \in FullBuffer
  BY LenProperties, ElementOfSeq
<1>2. 0 \in T
  <2>1. first(0) = <<>>
    BY <1>1, Split, EmptySeq
  <2>2. Len(Text(first(0))) = 0
    BY <2>1, TextEmpty, EmptySeq
  <2>3. 0 * SES_MSG_BUFFSIZE = 0
    BY Constants
  <2> QED BY <1>1, <2>2, <2>3
<1>3. ASSUME NEW k \in 1..Len(fr), k - 1 \in T PROVE k \in T
  <2>1. PICK r, b : r = first(k - 1) /\ b = fr[k]
    OBVIOUS
  <2>2. k - 1 \in 0..Len(fr) /\ k \in 0..Len(fr) /\ 1 \in 1..Len(fr) /\ k \in Nat
    BY <1>1
  <2>3. r \in Seq(FullBuffer) /\ b \in FullBuffer
    BY <1>1, <2>1, <2>2, Split
  <2>4. first(k) = With(r, b)
    BY <1>1, <2>1, <2>2, SubSeqRecursiveSecond, <2>3, AppendIsConcat DEF With
  <2>5. r \in Seq(HeldBuffer) /\ b \in HeldBuffer
    BY <2>3, BufferKinds, SeqMonotonic
  <2>6. PICK e : e = SubSeq(b.data, 1, b.bufflen)
    OBVIOUS
  <2>7. Text(r) \in Bytes /\ Text(first(k)) = Text(r) \o e
    BY <2>4, <2>5, <2>6, TextSnoc
  <2>8. e \in Bytes /\ Len(e) = SES_MSG_BUFFSIZE
    BY <2>3, <2>5, <2>6, Taken DEF FullBuffer
  <2>9. Len(Text(first(k))) = Len(Text(r)) + SES_MSG_BUFFSIZE
    BY <2>7, <2>8, Cat DEF Bytes
  <2>10. Len(Text(r)) = (k - 1) * SES_MSG_BUFFSIZE
    BY <1>3, <2>1
  <2>11. (k - 1) * SES_MSG_BUFFSIZE + SES_MSG_BUFFSIZE = k * SES_MSG_BUFFSIZE
    BY <2>2, Constants
  <2> QED BY <2>2, <2>9, <2>10, <2>11
<1> HIDE DEF T
<1>4. Len(fr) \in T
  BY <1>1, <1>2, <1>3, Induction
<1>5. first(Len(fr)) = fr
  BY SubSeqFull
<1>6. Text(fr) \in Bytes
  BY BufferKinds, SeqMonotonic, NewBuff, TextSnoc
<1> QED BY <1>4, <1>5, <1>6 DEF T

\* A finished message has no more buffers than its document may need.
LEMMA CompactNeeds ==
  ASSUME NEW bq \in Seq(HeldBuffer), Compact(bq), NEW d \in Docs, Text(bq) = d
  PROVE  Len(bq) \in Nat /\ Len(bq) <= needed(d)
<1>1. Len(d) \in Nat /\ SES_MSG_BUFFSIZE \in Nat /\ SES_MSG_BUFFSIZE # 0
  BY DocIs, Constants
<1>2. PICK fr \in Seq(FullBuffer) : bq = fr \/ \E e \in HeldBuffer : bq = With(fr, e)
  BY DEF Compact
<1>3. Text(fr) \in Bytes /\ Len(Text(fr)) = Len(fr) * SES_MSG_BUFFSIZE /\ Len(fr) \in Nat
  BY TextFull, LenProperties
<1>4. Len(bq) \in Nat /\ Len(bq) <= Len(fr) + 1 /\ Len(Text(fr)) <= Len(d)
  <2>1. CASE bq = fr
    BY <1>1, <1>3, <2>1
  <2>2. ASSUME NEW e \in HeldBuffer, bq = With(fr, e)
        PROVE  Len(bq) \in Nat /\ Len(bq) <= Len(fr) + 1 /\ Len(Text(fr)) <= Len(d)
    <3>1. fr \in Seq(HeldBuffer)
      BY BufferKinds, SeqMonotonic
    <3>2. Len(bq) = Len(fr) + 1
      BY <2>2, <3>1, Snoc1
    <3>3. PICK z : z = SubSeq(e.data, 1, e.bufflen)
      OBVIOUS
    <3>4. Text(bq) = Text(fr) \o z /\ z \in Bytes
      BY <2>2, <3>1, <3>3, TextSnoc, Taken
    <3>5. Len(d) = Len(Text(fr)) + Len(z) /\ Len(z) \in Nat /\ Len(Text(fr)) \in Nat
      BY <1>3, <3>4, Cat, LenProperties DEF Bytes
    <3> QED BY <1>3, <3>2, <3>5
  <2> QED BY <1>2, <2>1, <2>2
<1>5. PICK n, k : n = Len(d) + 6 /\ k = Len(fr)
  OBVIOUS
<1>6. k * SES_MSG_BUFFSIZE <= n
  BY <1>1, <1>3, <1>4, <1>5
<1>7. k + 1 <= needed(d) /\ needed(d) \in Nat /\ k \in Nat
  BY <1>3, <1>5, <1>6, DocNeeds
<1> QED BY <1>3, <1>4, <1>5, <1>7

\* Nor has an unfinished one.
LEMMA PartNeeds ==
  ASSUME NEW m, NEW fr, NEW b, NEW h, NEW room, Keeps(m, fr, b, h, room), NEW d \in Docs, IsPrefix(h, d \o NC_SSH_END)
  PROVE  Len(m.buffQ) \in Nat /\ Len(m.buffQ) <= needed(d)
<1>1. Len(d) \in Nat /\ SES_MSG_BUFFSIZE \in Nat /\ SES_MSG_BUFFSIZE # 0 /\ d \in Bytes
  BY DocIs, Constants
<1>2. Len(m.buffQ) = Len(fr) + 1 /\ Len(fr) \in Nat /\ b.data \in Bytes /\ fr \in Seq(FullBuffer) /\ h = Text(fr) \o b.data
  BY KeepsIs DEF Keeps
<1>3. Text(fr) \in Bytes /\ Len(Text(fr)) = Len(fr) * SES_MSG_BUFFSIZE
  BY <1>2, TextFull
<1>4. Len(h) = Len(Text(fr)) + Len(b.data) /\ Len(b.data) \in Nat /\ Len(Text(fr)) \in Nat
  BY <1>2, <1>3, Cat, LenProperties DEF Bytes
<1>5. Len(d \o NC_SSH_END) = Len(d) + 6
  BY <1>1, Cat DEF NC_SSH_END, Bytes, Byte
<1>6. Len(h) <= Len(d) + 6
  BY <1>5 DEF IsPrefix
<1>7. PICK n, k : n = Len(d) + 6 /\ k = Len(fr)
  OBVIOUS
<1>8. k * SES_MSG_BUFFSIZE <= n
  <2>1. PICK p : p = k * SES_MSG_BUFFSIZE
    OBVIOUS
  <2>2. p = Len(Text(fr))
    BY <1>3, <1>7, <2>1
  <2> QED BY <1>1, <1>4, <1>6, <1>7, <2>1, <2>2
<1>9. k + 1 <= needed(d)
  BY <1>2, <1>7, <1>8, DocNeeds
<1> QED BY <1>2, <1>7, <1>9

\* So the whole queue: when a buffer was denied, too much was sent.
LEMMA Denied ==
  ASSUME NEW q, NEW s, NEW done, NEW fs, NEW h, NEW x, NEW c, NEW ds, Standing(q, s, done, fs, h, x, c, ds),
         Holds(q, done, h, x, c, 0), TextPart(h, ds), ~granted(q)
  PROVE  buffers_for(s) >= SES_MAX_BUFFERS
<1>1. PICK m, fr, b, bq : Adds(q, done, m) /\ m = Unfinished(bq, x, c) /\ Keeps(m, fr, b, h, 0)
  BY DEF Holds
<1>2. q \in Seq(Message) /\ Len(q) = Len(done) + 1 /\ Len(done) \in Nat /\ q[Len(q)] = m
  BY <1>1, LastIs
<1>3. /\ done \in Seq(ReadyMessage) /\ fs \in Seq(Docs) /\ ds \in Seq(Docs) /\ s = fs \o ds /\ Len(fs) = Len(done)
      /\ \A i \in 1..Len(done) : text_of(done[i]) = fs[i]
  BY DEF Standing, Tracks
<1>4. PICK d \in Docs, es \in Seq(Docs) : ds = <<d>> \o es /\ IsPrefix(h, d \o NC_SSH_END)
  BY DEF TextPart
<1>5. ds[1] = d /\ Len(ds) = Len(es) + 1 /\ Len(es) \in Nat
  BY <1>4, ConsIs, LenProperties
<1>6. /\ s \in Seq(Docs) /\ Len(s) = Len(fs) + Len(ds) /\ (\A i \in 1..Len(done) : s[i] = fs[i])
      /\ s[Len(done) + 1] = d
  <2>1. /\ fs \o ds \in Seq(Docs) /\ Len(fs \o ds) = Len(fs) + Len(ds)
        /\ \A i \in 1..Len(fs) + Len(ds) : (fs \o ds)[i] = IF i <= Len(fs) THEN fs[i] ELSE ds[i - Len(fs)]
    BY <1>3, ConcatProperties
  <2>2. Len(fs) \in Nat /\ Len(ds) \in Nat /\ Len(ds) >= 1
    BY <1>2, <1>3, <1>5
  <2>3. ASSUME NEW i \in 1..Len(fs) PROVE s[i] = fs[i]
    BY <2>2, <1>3, <2>1
  <2>4. s[Len(fs) + 1] = ds[1]
    BY <2>2, <1>3, <2>1
  <2> QED BY <1>3, <1>5, <2>1, <2>3, <2>4
<1>7. \A i \in 1..Len(done) : q[i] = done[i]
  BY <1>1, ReadyKinds, SeqMonotonic, AppendProperties DEF Adds, With
<1>8. ASSUME NEW i \in 1..Len(q) PROVE Len(q[i].buffQ) <= needed(s[i])
  <2>1. CASE i \in 1..Len(done)
    <3>1. PICK e, a : e = done[i] /\ a = fs[i]
      OBVIOUS
    <3>2. e \in ReadyMessage /\ a \in Docs /\ text_of(e) = a /\ q[i] = e /\ s[i] = a
      BY <1>3, <2>1, <3>1, ElementOfSeq, <1>6, <1>7
    <3>3. PICK cq : cq = e.buffQ
      OBVIOUS
    <3>4. cq \in Seq(HeldBuffer) /\ Compact(cq)
      BY <3>2, <3>3 DEF ReadyMessage
    <3>5. Text(cq) = a
      BY <3>2, <3>3, TextOf
    <3>6. Len(cq) <= needed(a)
      BY <3>2, <3>4, <3>5, CompactNeeds
    <3> QED BY <3>2, <3>3, <3>6
  <2>2. CASE i = Len(done) + 1
    BY <1>1, <1>4, PartNeeds, <1>2, <1>6, <2>2
  <2> QED BY <1>2, <2>1, <2>2
<1>9. PICK u, v : u = [k \in 1..Len(q) |-> Len(q[k].buffQ)] /\ v = [k \in 1..Len(s) |-> needed(s[k])]
  OBVIOUS
<1>10. PICK f : Counted(f, u, Len(q)) /\ buffcnt(q) = f[Len(q)]
  BY <1>2, <1>9, BuffcntIs
<1>11. PICK g : Counted(g, v, Len(s)) /\ buffers_for(s) = g[Len(s)]
  BY <1>6, <1>9, NeededIs
<1>12. Len(q) \in Nat /\ Len(s) \in Nat /\ Len(q) <= Len(s)
  BY <1>2, <1>3, <1>5, <1>6
<1>13. \A k \in 1..Len(q) : u[k] <= v[k]
  <2>1. ASSUME NEW k \in 1..Len(q) PROVE u[k] <= v[k]
    BY <1>12, <1>9, <1>8
  <2> QED BY <2>1
<1>14. f[Len(q)] \in Nat /\ g[Len(s)] \in Nat /\ f[Len(q)] <= g[Len(s)]
  BY <1>10, <1>11, <1>12, <1>13, Tally
<1>15. buffcnt(q) >= SES_MAX_BUFFERS /\ SES_MAX_BUFFERS \in Nat
  BY <1>10, <1>14, InputAssumption DEF granted
<1> QED BY <1>10, <1>11, <1>14, <1>15

\* Something is left, so a document is.
LEMMA PlaceLeft ==
  ASSUME NEW kind, NEW in, NEW pos, NEW sc, NEW w, w # <<>>, NEW h, NEW x, NEW c, NEW ds, NEW X, X = <<>>,
         Place(kind, in, pos, sc, w, h, x, c, ds, X)
  PROVE  ds # <<>>
<1>1. SUFFICES ASSUME ds = <<>> PROVE FALSE
  OBVIOUS
<1>2. ~Within(kind, in, pos, sc, w, h, x, c, ds, X)
  <2> SUFFICES ASSUME NEW d \in Docs, NEW es \in Seq(Docs), ds = <<d>> \o es PROVE FALSE
    BY DEF Within
  <2>1. ds # <<>>
    BY ConsIs
  <2> QED BY <1>1, <2>1
<1>3. X \notin Malformed
  BY MalformedIs
<1>4. Flow(kind, w, ds, X)
  BY <1>2, <1>3 DEF Place
<1>5. Flow(kind, w, <<>>, <<>>)
  BY <1>1, <1>4
<1> QED BY <1>5, EndIs, FlowEnd

\* What is held is the beginning of the next document, if there is one.
LEMMA PlaceDoc ==
  ASSUME NEW kind, NEW in, NEW pos, NEW sc, NEW w, NEW h \in Bytes, NEW x, NEW c, NEW ds \in Seq(Docs), ds # <<>>,
         NEW X, X = <<>>, Place(kind, in, pos, sc, w, h, x, c, ds, X)
  PROVE  TextPart(h, ds)
<1>1. X \notin Malformed
  BY MalformedIs
<1>2. CASE h # <<>>
  BY <1>1, <1>2, PlaceText1
<1>3. CASE h = <<>>
  <2>1. PICK d, es : d = Head(ds) /\ es = Tail(ds)
    OBVIOUS
  <2>2. d \in Docs /\ es \in Seq(Docs) /\ ds = <<d>> \o es
    BY <2>1, Uncons
  <2>3. d \in Bytes /\ NC_SSH_END \in Bytes
    BY <2>2, DocIs DEF NC_SSH_END, Bytes, Byte
  <2>4. <<>> \o d = d
    BY <2>3, ConcatEmptySeq DEF Bytes
  <2>5. Part(h, d)
    BY <1>3, <2>3, <2>4 DEF Part
  <2>6. IsPrefix(h, d \o NC_SSH_END)
    BY <2>3, <2>5, PartIs
  <2> QED BY <2>2, <2>6 DEF TextPart
<1> QED BY <1>2, <1>3

\* A buffer is denied to a read or to a byte of it.
LEMMA StreamedDenied ==
  ASSUME NEW q, NEW s, NEW in, NEW pos, NEW sc, NEW w, w # <<>>, NEW kind, NEW X, X = <<>>,
         Streamed(q, s, in, pos, sc, w, kind, X), NEW q1, ~granted(q1),
         q1 = make_current(q) \/ (q # <<>> /\ q1 = make_room(q))
  PROVE  buffers_for(s) >= SES_MAX_BUFFERS
<1>1. PICK done, fs, h, x, c, ds : Stand(q, s, in, pos, sc, w, kind, X, done, fs, h, x, c, ds)
  BY StandIs
<1>2. /\ Standing(q, s, done, fs, h, x, c, ds) /\ Place(kind, in, pos, sc, w, h, x, c, ds, X)
      /\ done \in Seq(ReadyMessage) /\ Sizes(x, c) /\ Begins(q, done, h, x, c) /\ h \in Bytes
      /\ ds \in Seq(Docs)
  BY <1>1, StandParts
<1>3. ds # <<>>
  BY <1>2, PlaceLeft
<1>4. TextPart(h, ds)
  BY <1>2, <1>3, PlaceDoc
<1>5. Holds(q1, done, h, x, c, 0)
  <2>1. CASE q1 = make_current(q)
    BY <1>2, <2>1, MakeCurrent
  <2>2. CASE q # <<>> /\ q1 = make_room(q)
    BY <1>2, <2>2, Roomier
  <2> QED BY <2>1, <2>2
<1>6. Standing(q1, s, done, fs, h, x, c, ds)
  BY <1>2, <1>5, StandingAs
<1> QED BY <1>4, <1>5, <1>6, Denied

\* What accept_buffer_ssh_v10 does with a character.
LEMMA StreamedEom ==
  ASSUME NEW s, NEW in, NEW pos, NEW sc, NEW w, NEW kind, kind = "eom", NEW X \in Bytes, X = <<>>,
         Streamed(msgQ, s, in, pos, sc, w, kind, X), msgQ # <<>>, w # <<>>, NEW ch, ch = Head(w),
         NEW q, q = v10_put(ch)
  PROVE  /\ w \in Bytes /\ States10(in, pos) /\ q # <<>>
         /\ \A in1, pos1 : Moves10(ch, in, pos, in1, pos1) => Streamed(q, s, in1, pos1, sc, From(w, 2), kind, X)
         /\ Ends10(ch, in, pos) =>
              /\ ~(Len(curmsg(q).buffQ) = 1 /\ curbuff(q).buffpos <= NC_SSH_END_LEN)
              /\ Streamed(Cut(q), s, "IDLE", 0, sc, From(w, 2), kind, X) /\ Cut(q) # <<>>
              /\ Len(s) >= Len(q) /\ Len(q) \in Nat
<1>1. PICK done, fs, h, x, c, ds : Stand(msgQ, s, in, pos, sc, w, kind, X, done, fs, h, x, c, ds)
  BY StandIs
<1>2. /\ Standing(msgQ, s, done, fs, h, x, c, ds) /\ Place(kind, in, pos, sc, w, h, x, c, ds, X)
      /\ done \in Seq(ReadyMessage) /\ Sizes(x, c) /\ Begins(msgQ, done, h, x, c) /\ h \in Bytes
  BY <1>1, StandParts
<1>3. PICK h1 : h1 = h \o <<ch>>
  OBVIOUS
<1>4. Place(kind, in, pos, sc, w, h, x, c, ds, X) /\ h \in Bytes
  BY <1>2
<1>9. w \in Bytes /\ ch \in Byte
  BY <1>3, <1>4, Place10, ZenonT(60)
<1>10. States10(in, pos)
  BY <1>3, <1>4, Place10, ZenonT(60)
<1>11. ASSUME NEW in1, NEW pos1, Moves10(ch, in, pos, in1, pos1)
       PROVE  Place(kind, in1, pos1, sc, From(w, 2), h1, x, c, ds, X)
  BY <1>3, <1>4, <1>11, Place10
<1>12. ASSUME Ends10(ch, in, pos)
       PROVE  Len(h1) > 6 /\ Finishes(kind, From(w, 2), SubSeq(h1, 1, Len(h1) - 6), ds, X)
  BY <1>3, <1>4, <1>12, Place10
<1>5. Holds(q, done, h1, x, c, 0)
  BY <1>2, <1>3, <1>9, V10Put
<1>6. Standing(q, s, done, fs, h1, x, c, ds) /\ q # <<>>
  BY <1>2, <1>5, StandingAs
<1>7. ASSUME NEW in1, NEW pos1, Moves10(ch, in, pos, in1, pos1)
      PROVE  Streamed(q, s, in1, pos1, sc, From(w, 2), kind, X)
  BY <1>6, <1>7, <1>11, StreamedAs
<1>8. ASSUME Ends10(ch, in, pos)
      PROVE  /\ ~(Len(curmsg(q).buffQ) = 1 /\ curbuff(q).buffpos <= NC_SSH_END_LEN)
             /\ Streamed(Cut(q), s, "IDLE", 0, sc, From(w, 2), kind, X) /\ Cut(q) # <<>>
             /\ Len(s) >= Len(q) /\ Len(q) \in Nat
  <2>1. PICK text : text = SubSeq(h1, 1, Len(h1) - 6)
    OBVIOUS
  <2>2. /\ ~(Len(curmsg(q).buffQ) = 1 /\ curbuff(q).buffpos <= NC_SSH_END_LEN)
        /\ Finish(Cut(q), done, SubSeq(h1, 1, Len(h1) - 6))
    BY <1>2, <1>5, <1>8, <1>12, V10Ends
  <2>3. Finish(Cut(q), done, text) /\ Finishes(kind, From(w, 2), text, ds, X)
    BY <1>8, <1>12, <2>1, <2>2
  <2>4. /\ Streamed(Cut(q), s, "IDLE", 0, sc, From(w, 2), kind, X) /\ Cut(q) # <<>>
        /\ Len(Cut(q)) = Len(done) + 1 /\ Len(s) >= Len(Cut(q))
    BY <1>6, <2>3, StreamedEnd
  <2>5. Len(q) = Len(done) + 1 /\ Len(done) \in Nat
    BY <1>2, <1>5, HoldsIs, LenProperties
  <2> QED BY <2>2, <2>4, <2>5
<1> QED BY <1>6, <1>7, <1>8, <1>9, <1>10

\* Room is made before each character.
LEMMA StandRoom ==
  ASSUME NEW q, q # <<>>, NEW s, NEW in, NEW pos, NEW sc, NEW w, NEW kind, NEW X,
         NEW done, NEW fs, NEW h, NEW x, NEW c, NEW ds, Stand(q, s, in, pos, sc, w, kind, X, done, fs, h, x, c, ds)
  PROVE  /\ Holds(make_room(q), done, h, x, c, 0) /\ Standing(make_room(q), s, done, fs, h, x, c, ds)
         /\ make_room(q) # <<>>
<1>1. /\ Standing(q, s, done, fs, h, x, c, ds)
      /\ done \in Seq(ReadyMessage) /\ Sizes(x, c) /\ Begins(q, done, h, x, c) /\ h \in Bytes
  BY StandParts
<1>2. Holds(make_room(q), done, h, x, c, 0)
  BY <1>1, Roomier
<1> QED BY <1>1, <1>2, StandingAs

LEMMA RoomNotEmpty ==
  ASSUME NEW q, q # <<>>, NEW s, NEW in, NEW pos, NEW sc, NEW w, NEW kind, NEW X,
         Streamed(q, s, in, pos, sc, w, kind, X)
  PROVE  make_room(q) # <<>>
BY StandIs, StandRoom

LEMMA StreamedIdle ==
  ASSUME NEW kind, kind = "chunks", NEW in, in = "IDLE", NEW pos, NEW sc, NEW w, w # <<>>, NEW X, Judged(X),
         NEW s, NEW q, q # <<>>, Streamed(q, s, in, pos, sc, w, kind, X)
  PROVE  /\ w \in Bytes
         /\ Head(w) = LF => Streamed(make_room(q), s, "INSTART", 1, sc, From(w, 2), kind, X)
         /\ Head(w) # LF => X \in Malformed
<1>1. PICK done, fs, h, x, c, ds : Stand(q, s, in, pos, sc, w, kind, X, done, fs, h, x, c, ds)
  BY StandIs
<1>2. Place(kind, in, pos, sc, w, h, x, c, ds, X)
  BY <1>1, StandParts
<1>3. Standing(make_room(q), s, done, fs, h, x, c, ds)
  BY <1>1, StandRoom
<1>4. w \in Bytes
  BY <1>2, PlaceIdle
<1>5. ASSUME Head(w) = LF PROVE Place(kind, "INSTART", 1, sc, From(w, 2), h, x, c, ds, X)
  BY <1>2, <1>5, PlaceIdle
<1>6. ASSUME Head(w) # LF PROVE X \in Malformed
  BY <1>2, <1>6, PlaceIdle
<1>7. ASSUME Head(w) = LF PROVE Streamed(make_room(q), s, "INSTART", 1, sc, From(w, 2), kind, X)
  BY <1>3, <1>5, <1>7, StreamedAs
<1> QED BY <1>4, <1>6, <1>7

LEMMA StreamedStartHash ==
  ASSUME NEW kind, kind = "chunks", NEW in, in = "INSTART", NEW pos, pos = 1, NEW sc, NEW w, w # <<>>, NEW X,
         Judged(X), NEW s, NEW q, q # <<>>, Streamed(q, s, in, pos, sc, w, kind, X)
  PROVE  /\ w \in Bytes
         /\ Head(w) = HASH => Streamed(make_room(q), s, in, pos + 1, sc, From(w, 2), kind, X)
         /\ Head(w) # HASH => X \in Malformed
<1>1. PICK done, fs, h, x, c, ds : Stand(q, s, in, pos, sc, w, kind, X, done, fs, h, x, c, ds)
  BY StandIs
<1>2. Place(kind, in, pos, sc, w, h, x, c, ds, X)
  BY <1>1, StandParts
<1>3. Standing(make_room(q), s, done, fs, h, x, c, ds)
  BY <1>1, StandRoom
<1>4. w \in Bytes
  BY <1>2, PlaceStartHash
<1>5. ASSUME Head(w) = HASH PROVE Place(kind, in, pos + 1, sc, From(w, 2), h, x, c, ds, X)
  BY <1>2, <1>5, PlaceStartHash
<1>6. ASSUME Head(w) # HASH PROVE X \in Malformed
  BY <1>2, <1>6, PlaceStartHash
<1>7. ASSUME Head(w) = HASH PROVE Streamed(make_room(q), s, in, pos + 1, sc, From(w, 2), kind, X)
  BY <1>3, <1>5, <1>7, StreamedAs
<1> QED BY <1>4, <1>6, <1>7

LEMMA StreamedDigit ==
  ASSUME NEW kind, kind = "chunks", NEW in, in = "INSTART", NEW pos, pos # 1, NEW sc, NEW w, w # <<>>, NEW X,
         Judged(X), NEW s, NEW q, q # <<>>, Streamed(q, s, in, pos, sc, w, kind, X),
         NEW ch, ch = Head(w), ch # LF, NEW sc1, sc1 = SubSeq(sc, 1, pos - 2) \o <<ch>>
  PROVE  /\ DigitOk(pos, ch) => /\ sc1 \in Digits /\ pos + 1 \in 0..SES_MAX_STARTCHUNK_SIZE
                                /\ Streamed(make_room(q), s, in, pos + 1, sc1, From(w, 2), kind, X)
         /\ ~DigitOk(pos, ch) => X \in Malformed
<1>1. PICK done, fs, h, x, c, ds : Stand(q, s, in, pos, sc, w, kind, X, done, fs, h, x, c, ds)
  BY StandIs
<1>2. Place(kind, in, pos, sc, w, h, x, c, ds, X)
  BY <1>1, StandParts
<1>3. Standing(make_room(q), s, done, fs, h, x, c, ds)
  BY <1>1, StandRoom
<1>5. ASSUME DigitOk(pos, ch)
      PROVE  /\ sc1 \in Digits /\ pos + 1 \in 0..SES_MAX_STARTCHUNK_SIZE
             /\ Place(kind, in, pos + 1, sc1, From(w, 2), h, x, c, ds, X)
  BY <1>2, <1>5, PlaceDigit
<1>6. ASSUME ~DigitOk(pos, ch) PROVE X \in Malformed
  BY <1>2, <1>6, PlaceDigit
<1>7. ASSUME DigitOk(pos, ch) PROVE Streamed(make_room(q), s, in, pos + 1, sc1, From(w, 2), kind, X)
  BY <1>3, <1>5, <1>7, StreamedAs
<1> QED BY <1>5, <1>6, <1>7

LEMMA StreamedStartEnd ==
  ASSUME NEW kind, kind = "chunks", NEW in, in = "INSTART", NEW pos, pos # 1, NEW sc, NEW w, w # <<>>, NEW X,
         Judged(X), NEW s, NEW q, q # <<>>, Streamed(q, s, in, pos, sc, w, kind, X),
         Head(w) = LF, NEW n, n = ncx_convert_num(SubSeq(sc, 1, pos - 2))
  PROVE  /\ w \in Bytes
         /\ SizeOk(pos, n) => /\ Streamed(Sizing(make_room(q), n), s, "INMSG", 0, sc, From(w, 2), kind, X)
                              /\ Sizing(make_room(q), n) # <<>>
         /\ ~SizeOk(pos, n) => X \in Malformed
<1>1. PICK done, fs, h, x, c, ds : Stand(q, s, in, pos, sc, w, kind, X, done, fs, h, x, c, ds)
  BY StandIs
<1>2. Place(kind, in, pos, sc, w, h, x, c, ds, X)
  BY <1>1, StandParts
<1>3. /\ Standing(q, s, done, fs, h, x, c, ds) /\ done \in Seq(ReadyMessage) /\ Sizes(x, c)
      /\ Begins(q, done, h, x, c)
  BY <1>1, StandParts
<1>4. w \in Bytes
  BY <1>2, PlaceStartEnd
<1>5. ASSUME SizeOk(pos, n)
      PROVE  n \in 0..NCX_MAX_UINT /\ Place(kind, "INMSG", 0, sc, From(w, 2), h, n, 0, ds, X)
  BY <1>2, <1>5, PlaceStartEnd
<1>6. ASSUME ~SizeOk(pos, n) PROVE X \in Malformed
  BY <1>2, <1>6, PlaceStartEnd
<1>7. ASSUME SizeOk(pos, n)
      PROVE  /\ Streamed(Sizing(make_room(q), n), s, "INMSG", 0, sc, From(w, 2), kind, X)
             /\ Sizing(make_room(q), n) # <<>>
  BY <1>3, <1>5, <1>7, V11Sized, StandingAs, StreamedAs
<1> QED BY <1>4, <1>6, <1>7

\* Where the parser is after some text.
AfterText(k, n, in, pos, in1, pos1) ==
  (k = n /\ in1 = "INBETWEEN" /\ pos1 = 0) \/ (k # n /\ in1 = in /\ pos1 = pos)

TextTaken(p, text, k, n) == k \in 0..n /\ Filling(p, text, k) # <<>>

LEMMA StreamedText ==
  ASSUME NEW kind, kind = "chunks", NEW in, in = "INMSG", NEW pos, NEW sc, NEW w, NEW X,
         Judged(X), NEW s, NEW q, q # <<>>, Streamed(q, s, in, pos, sc, w, kind, X),
         NEW read1 \in 1..Len(w), NEW p, p = make_room(q),
         NEW n, n = curmsg(p).expchunksize - curmsg(p).curchunksize,
         NEW k, k = IF read1 < n THEN read1 ELSE n, NEW text, text = SubSeq(w, 1, k)
  PROVE  /\ TextTaken(p, text, k, read1)
         /\ \A in1, pos1 : AfterText(k, n, in, pos, in1, pos1) =>
              Streamed(Filling(p, text, k), s, in1, pos1, sc, From(w, k + 1), kind, X)
         /\ X = <<>> /\ ~granted(Filling(p, text, k)) => buffers_for(s) >= SES_MAX_BUFFERS
<1>1. PICK done, fs, h, x, c, ds : Stand(q, s, in, pos, sc, w, kind, X, done, fs, h, x, c, ds)
  BY StandIs
<1>2. Place(kind, in, pos, sc, w, h, x, c, ds, X)
  BY <1>1, StandParts
<1>3. /\ Standing(q, s, done, fs, h, x, c, ds) /\ done \in Seq(ReadyMessage) /\ Sizes(x, c)
      /\ Begins(q, done, h, x, c) /\ h \in Bytes /\ ds \in Seq(Docs)
  BY <1>1, StandParts
<1>4. Holds(p, done, h, x, c, 0)
  BY <1>1, StandRoom
<1>5. n = x - c
  BY <1>3, <1>4, HoldsIs
<1>6. k = IF read1 < x - c THEN read1 ELSE x - c
  BY <1>5
<1>7. PICK h1 : h1 = h \o text
  OBVIOUS
<1>8. Sizes(x, c) /\ h \in Bytes
  BY <1>3
<1>9. w \in Bytes
  BY <1>2, <1>6, <1>7, <1>8, PlaceText
<1>10. text \in Bytes /\ k \in 0..read1 /\ Sizes(x, c + k)
  <2>1. x \in 0..NCX_MAX_UINT /\ c \in 0..x /\ read1 \in Nat /\ read1 <= Len(w) /\ NCX_MAX_UINT \in Nat
    BY <1>8, <1>9, Constants, LenProperties DEF Sizes, Bytes
  <2>2. k \in 0..read1 /\ c + k \in 0..x
    BY <1>6, <2>1
  <2>3. k \in 0..Len(w)
    BY <1>9, <2>1, <2>2, LenProperties DEF Bytes
  <2>4. text \in Bytes
    BY <1>9, <2>3, Split DEF Bytes
  <2> QED BY <2>1, <2>2, <2>4 DEF Sizes
<1>11. ASSUME k = x - c PROVE Place(kind, "INBETWEEN", 0, sc, From(w, k + 1), h1, x, c + k, ds, X)
  BY <1>2, <1>6, <1>7, <1>8, <1>11, PlaceText
<1>12. ASSUME k # x - c PROVE Place(kind, in, pos, sc, From(w, k + 1), h1, x, c + k, ds, X)
  BY <1>2, <1>6, <1>7, <1>8, <1>12, PlaceText
<1>13. Holds(Filling(p, text, k), done, h1, x, c + k, 0)
  BY <1>4, <1>7, <1>8, <1>10, V11Filled
<1>14. Standing(Filling(p, text, k), s, done, fs, h1, x, c + k, ds) /\ Filling(p, text, k) # <<>>
  BY <1>3, <1>10, <1>13, StandingAs
<1>15. ASSUME k = x - c
       PROVE  Streamed(Filling(p, text, k), s, "INBETWEEN", 0, sc, From(w, k + 1), kind, X)
  BY <1>11, <1>14, <1>15, StreamedAs
<1>16. ASSUME k # x - c
       PROVE  Streamed(Filling(p, text, k), s, in, pos, sc, From(w, k + 1), kind, X)
  BY <1>12, <1>14, <1>16, StreamedAs
<1>17. ASSUME NEW in1, NEW pos1, AfterText(k, n, in, pos, in1, pos1)
       PROVE  Streamed(Filling(p, text, k), s, in1, pos1, sc, From(w, k + 1), kind, X)
  BY <1>5, <1>15, <1>16, <1>17 DEF AfterText
<1>18. TextTaken(p, text, k, read1)
  BY <1>10, <1>14 DEF TextTaken
<1>19. ASSUME X = <<>>, ~granted(Filling(p, text, k)) PROVE buffers_for(s) >= SES_MAX_BUFFERS
  <2>1. w # <<>>
    BY <1>9, EmptySeq DEF Bytes
  <2>2. ds # <<>>
    BY <1>2, <1>19, <2>1, PlaceLeft
  <2>3. h1 \in Bytes
    BY <1>7, <1>8, <1>10, Cat DEF Bytes
  <2>4. TextPart(h1, ds)
    <3>1. CASE k = x - c
      BY <1>3, <1>11, <1>19, <2>2, <2>3, <3>1, PlaceDoc
    <3>2. CASE k # x - c
      BY <1>3, <1>12, <1>19, <2>2, <2>3, <3>2, PlaceDoc
    <3> QED BY <3>1, <3>2
  <2>5. PICK f, y : f = Filling(p, text, k) /\ y = c + k
    OBVIOUS
  <2>6. Standing(f, s, done, fs, h1, x, y, ds) /\ Holds(f, done, h1, x, y, 0) /\ ~granted(f)
    BY <1>13, <1>14, <1>19, <2>5
  <2> QED BY <2>4, <2>6, Denied
<1> QED BY <1>17, <1>18, <1>19

LEMMA StreamedBetween ==
  ASSUME NEW kind, kind = "chunks", NEW in, in = "INBETWEEN", NEW pos, pos # 2, NEW sc, NEW w, w # <<>>, NEW X,
         Judged(X), NEW s, NEW q, q # <<>>, Streamed(q, s, in, pos, sc, w, kind, X),
         NEW m, m = IF pos = 0 THEN LF ELSE HASH
  PROVE  /\ w \in Bytes
         /\ Head(w) = m => /\ pos \in {0, 1}
                           /\ Streamed(make_room(q), s, in, pos + 1, sc, From(w, 2), kind, X)
         /\ Head(w) # m => X \in Malformed
<1>1. PICK done, fs, h, x, c, ds : Stand(q, s, in, pos, sc, w, kind, X, done, fs, h, x, c, ds)
  BY StandIs
<1>2. Place(kind, in, pos, sc, w, h, x, c, ds, X) /\ h \in Bytes
  BY <1>1, StandParts
<1>3. Standing(make_room(q), s, done, fs, h, x, c, ds)
  BY <1>1, StandRoom
<1>4. w \in Bytes
  BY <1>2, PlaceBetween
<1>5. ASSUME Head(w) = m
      PROVE  pos \in {0, 1} /\ Place(kind, in, pos + 1, sc, From(w, 2), h, x, c, ds, X)
  BY <1>2, <1>5, PlaceBetween
<1>6. ASSUME Head(w) # m PROVE X \in Malformed
  BY <1>2, <1>6, PlaceBetween
<1>7. ASSUME Head(w) = m
      PROVE  pos \in {0, 1} /\ Streamed(make_room(q), s, in, pos + 1, sc, From(w, 2), kind, X)
  BY <1>3, <1>5, <1>7, StreamedAs
<1> QED BY <1>4, <1>6, <1>7

LEMMA StreamedBehind ==
  ASSUME NEW kind, kind = "chunks", NEW in, in = "INBETWEEN", NEW pos, pos = 2, NEW sc, NEW w, w # <<>>, NEW X,
         Judged(X), NEW s, NEW q, q # <<>>, Streamed(q, s, in, pos, sc, w, kind, X)
  PROVE  /\ w \in Bytes
         /\ digit(Head(w), 1) => Streamed(make_room(q), s, "INSTART", pos, sc, w, kind, X)
         /\ ~digit(Head(w), 1) /\ Head(w) = HASH =>
              Streamed(make_room(q), s, "INEND", 3, sc, From(w, 2), kind, X)
         /\ ~digit(Head(w), 1) /\ Head(w) # HASH => X \in Malformed
<1>1. PICK done, fs, h, x, c, ds : Stand(q, s, in, pos, sc, w, kind, X, done, fs, h, x, c, ds)
  BY StandIs
<1>2. Place(kind, in, pos, sc, w, h, x, c, ds, X) /\ h \in Bytes
  BY <1>1, StandParts
<1>3. Standing(make_room(q), s, done, fs, h, x, c, ds)
  BY <1>1, StandRoom
<1>4. w \in Bytes
  BY <1>2, PlaceBetweenEnd
<1>5. ASSUME digit(Head(w), 1) PROVE Place(kind, "INSTART", pos, sc, w, h, x, c, ds, X)
  BY <1>2, <1>5, PlaceBetweenEnd
<1>6. ASSUME ~digit(Head(w), 1), Head(w) = HASH PROVE Place(kind, "INEND", 3, sc, From(w, 2), h, x, c, ds, X)
  BY <1>2, <1>6, PlaceBetweenEnd
<1>7. ASSUME ~digit(Head(w), 1), Head(w) # HASH PROVE X \in Malformed
  BY <1>2, <1>7, PlaceBetweenEnd
<1>8. ASSUME digit(Head(w), 1) PROVE Streamed(make_room(q), s, "INSTART", pos, sc, w, kind, X)
  BY <1>3, <1>5, <1>8, StreamedAs
<1>9. ASSUME ~digit(Head(w), 1), Head(w) = HASH
      PROVE  Streamed(make_room(q), s, "INEND", 3, sc, From(w, 2), kind, X)
  BY <1>3, <1>6, <1>9, StreamedAs
<1> QED BY <1>4, <1>7, <1>8, <1>9

LEMMA StreamedLast ==
  ASSUME NEW kind, kind = "chunks", NEW in, in = "INEND", NEW pos, NEW sc, NEW w, w # <<>>, NEW X,
         Judged(X), NEW s, NEW q, q # <<>>, Streamed(q, s, in, pos, sc, w, kind, X)
  PROVE  /\ w \in Bytes
         /\ Head(w) = LF => /\ Streamed(Settles(make_room(q)), s, "IDLE", 0, sc, From(w, 2), kind, X)
                            /\ Settles(make_room(q)) # <<>>
         /\ Head(w) # LF => X \in Malformed
<1>1. PICK done, fs, h, x, c, ds : Stand(q, s, in, pos, sc, w, kind, X, done, fs, h, x, c, ds)
  BY StandIs
<1>2. Place(kind, in, pos, sc, w, h, x, c, ds, X) /\ h \in Bytes
  BY <1>1, StandParts
<1>3. Standing(make_room(q), s, done, fs, h, x, c, ds) /\ Holds(make_room(q), done, h, x, c, 0)
  BY <1>1, StandRoom
<1>4. w \in Bytes
  BY <1>2, PlaceEnd
<1>5. ASSUME Head(w) = LF PROVE Finishes(kind, From(w, 2), h, ds, X)
  BY <1>2, <1>5, PlaceEnd
<1>6. ASSUME Head(w) # LF PROVE X \in Malformed
  BY <1>2, <1>6, PlaceEnd
<1>7. ASSUME Head(w) = LF
      PROVE  /\ Streamed(Settles(make_room(q)), s, "IDLE", 0, sc, From(w, 2), kind, X)
             /\ Settles(make_room(q)) # <<>>
  BY <1>1, StandParts, <1>3, V11Ends, <1>5, <1>7, StreamedEnd
<1> QED BY <1>4, <1>6, <1>7

-----------------------------------------------------------------------------
(* The invariant *)

\* The framing that a protocol has.
Framing(p) == IF p = "base11" THEN "chunks" ELSE "eom"

\* The protocol is settled when the second message is served; a client that will use
\* chunks sends no request before. A closed session had a reason to be closed.
Counts ==
  /\ served \in Nat /\ nsent \in 0..MaxDocs /\ sent \in Seq(Docs) /\ nsent = served + Len(sent)
  /\ client11 \in BOOLEAN /\ server11 \in BOOLEAN /\ bad \in BOOLEAN
  /\ state \in {"open", "closed"}
  /\ protocol = IF served < 2 THEN "none" ELSE agreed
  /\ agreed = "base11" /\ served < 2 => nsent <= 2
  /\ bad => agreed = "base11" /\ served >= 2
  /\ state = "closed" => left = 0 /\ (bad \/ (protocol = "none" /\ server11 /\ nsent >= 4) \/ TooMuchSent)

States11 == {"IDLE", "INSTART", "INMSG", "INBETWEEN", "INEND"}

\* The types of the parser; while bytes of a read are left there is a message for them.
Reader ==
  /\ wire \in Bytes /\ left \in 0..Len(wire)
  /\ instate \in States11 /\ inendpos \in 0..SES_MAX_STARTCHUNK_SIZE /\ startchunk \in Digits
  /\ state = "open" /\ left > 0 => msgQ # <<>>
  /\ Held(msgQ)

\* The client ends with a malformed chunk when bad says so.
Ending(X) == Judged(X) /\ (bad => X \in Malformed) /\ (~bad => X = <<>>)

\* What an open session has on its way and in its buffers.
Flowing == state = "open" => \E X : Ending(X) /\
  Streamed(msgQ, sent, instate, inendpos, startchunk, wire, Framing(protocol), X)

InputInv == Counts /\ Reader /\ Flowing

LEMMA BeginsStreamed == Streamed(<<>>, <<>>, "IDLE", 0, <<>>, <<>>, "eom", <<>>)
<1>1. PICK none : none = <<>>
  OBVIOUS
<1>2. none \in Seq(ReadyMessage) /\ none \in Seq(Docs) /\ Len(none) = 0 /\ none \o none = none
  BY <1>1
<1>3. Tracks(none, none)
  BY <1>2 DEF Tracks
<1>4. Sizes(0, 0)
  BY Constants DEF Sizes
<1>5. Begins(none, none, none, 0, 0)
  BY <1>1 DEF Begins
<1>6. Standing(none, none, none, none, none, 0, 0, none)
  BY <1>2, <1>3, <1>4, <1>5 DEF Standing
<1>7. Flow("eom", none, none, none)
  BY <1>1, FlowNone
<1>8. Place("eom", "IDLE", 0, none, none, none, 0, 0, none, none)
  BY <1>1, <1>7 DEF Place
<1>9. Streamed(none, none, "IDLE", 0, none, none, "eom", none)
  BY <1>6, <1>8, StreamedAs
<1> QED BY <1>1, <1>9

LEMMA EmptyJudged == Judged(<<>>)
BY DEF Judged, Bytes

LEMMA InitInputInv ==
  ASSUME InputInit
  PROVE  InputInv
<1>1. Counts
  <2>1. served = 0 /\ nsent = 0 /\ bad = FALSE /\ state = "open" /\ protocol = "none"
        /\ client11 \in BOOLEAN /\ server11 \in BOOLEAN
    BY DEF InputInit
  <2>2. sent \in Seq(Docs) /\ Len(sent) = 0
    BY DEF InputInit
  <2>3. nsent \in 0..MaxDocs
    BY <2>1, InputAssumption
  <2>4. nsent = served + Len(sent) /\ nsent <= 2
    BY <2>1, <2>2
  <2>5. protocol = IF served < 2 THEN "none" ELSE agreed
    BY <2>1
  <2>6. served \in Nat /\ bad \in BOOLEAN /\ state \in {"open", "closed"} /\ state # "closed" /\ ~bad
    BY <2>1
  <2> QED BY <2>1, <2>2, <2>3, <2>4, <2>5, <2>6 DEF Counts
<1>2. Streamed(msgQ, sent, instate, inendpos, startchunk, wire, Framing(protocol), <<>>)
  BY BeginsStreamed DEF InputInit, Framing
<1>3. Reader
  BY <1>2, StreamedIs, Constants DEF InputInit, Reader, Bytes, Digits, States11
<1>4. Flowing
  BY EmptyJudged, <1>2 DEF InputInit, Ending, Flowing
<1> QED BY <1>1, <1>3, <1>4 DEF InputInv

\* The parser moves on.
LEMMA Moved ==
  ASSUME Counts, Reader, state = "open", NEW X, Ending(X),
         UNCHANGED <<protocol, served, client, delivered>>, state' = "open",
         NEW k \in 0..left, wire' = From(wire, k + 1), left' = left - k,
         instate' \in States11, inendpos' \in 0..SES_MAX_STARTCHUNK_SIZE, startchunk' \in Digits, msgQ' # <<>>,
         Streamed(msgQ', sent, instate', inendpos', startchunk', wire', Framing(protocol), X)
  PROVE  InputInv'
<1>1. Counts'
  BY DEF Counts, agreed, client, TooMuchSent
<1>2. Reader'
  <2>1. wire' \in Bytes /\ Len(wire') = Len(wire) - k /\ Len(wire) \in Nat
    BY LenProperties, Split DEF Reader, Bytes, From
  <2>2. left' \in 0..Len(wire')
    BY <2>1 DEF Reader
  <2>3. Held(msgQ')
    BY StreamedIs
  <2> QED BY <2>1, <2>2, <2>3 DEF Reader
<1>3. Flowing'
  BY DEF client, Ending, Flowing
<1> QED BY <1>1, <1>2, <1>3 DEF InputInv

\* The session ends over the framing or for want of a buffer.
LEMMA Refused ==
  ASSUME Counts, Reader, UNCHANGED <<protocol, served, client, delivered>>, input_error, bad \/ TooMuchSent
  PROVE  InputInv'
<1>1. Counts'
  BY DEF Counts, agreed, client, input_error, TooMuchSent
<1>2. Reader'
  BY LenProperties DEF input_error, parser, Reader, Bytes
<1>3. Flowing'
  BY DEF input_error, Flowing
<1> QED BY <1>1, <1>2, <1>3 DEF InputInv

-----------------------------------------------------------------------------
(* One action at a time *)

\* A document goes into the stream in the framing that the session expects.
LEMMA SendFramed ==
  ASSUME ~BackToBack, Counts, may_send, NEW d \in Docs, NEW e \in Encodings(~early /\ agreed = "base11", d)
  PROVE  Framed(Framing(protocol), e, d) /\ e \in Bytes
<1>1. PICK f \in BOOLEAN : f = (~early /\ agreed = "base11")
  OBVIOUS
<1>2. Framing(protocol) = IF f THEN "chunks" ELSE "eom"
  <2>1. /\ served \in Nat /\ nsent \in 0..MaxDocs /\ sent \in Seq(Docs) /\ nsent = served + Len(sent)
        /\ protocol = IF served < 2 THEN "none" ELSE agreed
    BY DEF Counts
  <2>2. Len(sent) \in Nat /\ MaxDocs \in Nat
    BY <2>1, LenProperties, InputAssumption
  <2>3. CASE f
    <3>1. served >= 2 /\ agreed = "base11"
      BY <1>1, <2>1, <2>3 DEF may_send
    <3> QED BY <2>1, <2>3, <3>1 DEF Framing
  <2>4. CASE ~f /\ early
    BY <2>1, <2>2, <2>4 DEF early, Framing
  <2>5. CASE ~f /\ ~early
    BY <1>1, <2>5, <2>1 DEF Framing
  <2> QED BY <2>3, <2>4, <2>5
<1>3. e \in Encodings(f, d)
  BY <1>1
<1>4. PICK kind : kind = IF f THEN "chunks" ELSE "eom"
  OBVIOUS
<1>5. Framed(kind, e, d) /\ e \in Bytes
  BY <1>3, <1>4, EncodingIs
<1> QED BY <1>2, <1>4, <1>5

LEMMA SendStep ==
  ASSUME ~BackToBack, InputInv, SendDoc
  PROVE  InputInv'
<1>1. PICK d \in Docs : \E e \in Encodings(~early /\ agreed = "base11", d) :
        /\ may_send /\ (early => d = Greeting) /\ wire' = wire \o e /\ sent' = Append(sent, d) /\ nsent' = nsent + 1
        /\ UNCHANGED <<left, msgQ, parser, protocol, state, served, client11, server11, bad, delivered>>
  BY DEF SendDoc
<1>2. PICK e \in Encodings(~early /\ agreed = "base11", d) :
        /\ may_send /\ wire' = wire \o e /\ sent' = Append(sent, d) /\ nsent' = nsent + 1
        /\ UNCHANGED <<left, msgQ, parser, protocol, state, served, client11, server11, bad, delivered>>
  BY <1>1
<1>3. Counts /\ Reader /\ Flowing
  BY DEF InputInv
<1>4. Framed(Framing(protocol), e, d) /\ e \in Bytes
  BY <1>2, <1>3, SendFramed
<1>5. Counts'
  <2>1. /\ served \in Nat /\ nsent \in 0..MaxDocs /\ sent \in Seq(Docs) /\ nsent = served + Len(sent)
    BY <1>3 DEF Counts
  <2>2. ~bad /\ nsent < MaxDocs /\ (~early /\ agreed = "base11" => served >= 2)
    BY <1>2 DEF may_send
  <2>3. sent' \in Seq(Docs) /\ Len(sent') = Len(sent) + 1 /\ Len(sent) \in Nat /\ MaxDocs \in Nat
    BY <1>2, <2>1, AppendProperties, LenProperties, InputAssumption
  <2>4. nsent' \in 0..MaxDocs /\ nsent' = served + Len(sent')
    BY <1>2, <2>1, <2>2, <2>3
  <2>5. agreed' = agreed
    BY <1>2 DEF agreed
  <2>6. agreed' = "base11" /\ served' < 2 => nsent' <= 2
    BY <1>2, <2>1, <2>2, <2>3, <2>5 DEF early
  <2>7. state' = "closed" =>
          left' = 0 /\ (bad' \/ (protocol' = "none" /\ server11' /\ nsent' >= 4) \/ TooMuchSent')
    <3>1. state = "closed" => left = 0 /\ (bad \/ (protocol = "none" /\ server11 /\ nsent >= 4) \/ TooMuchSent)
      BY <1>3 DEF Counts
    <3>2. nsent >= 4 => nsent' >= 4
      BY <1>2, <2>1, <2>3
    <3>3. TooMuchSent => TooMuchSent'
      <4>1. PICK more : more = With(sent, d)
        OBVIOUS
      <4>2. sent' = more
        BY <1>2, <4>1 DEF With
      <4>3. /\ buffers_for(sent) \in Nat /\ buffers_for(more) \in Nat
            /\ buffers_for(sent) <= buffers_for(more)
        BY <2>1, <4>1, MoreSent
      <4>4. buffers_for(sent') = buffers_for(more)
        BY <4>2
      <4>5. SES_MAX_BUFFERS \in Nat
        BY InputAssumption
      <4> QED BY <4>3, <4>4, <4>5 DEF TooMuchSent
    <3> QED BY <1>2, <3>1, <3>2, <3>3
  <2>8. /\ client11' \in BOOLEAN /\ server11' \in BOOLEAN /\ bad' \in BOOLEAN /\ state' \in {"open", "closed"}
        /\ protocol' = IF served' < 2 THEN "none" ELSE agreed'
        /\ (bad' => agreed' = "base11" /\ served' >= 2) /\ served' \in Nat
    BY <1>2, <1>3, <2>5 DEF Counts
  <2> QED BY <1>2, <2>3, <2>4, <2>6, <2>7, <2>8 DEF Counts
<1>6. Reader'
  BY <1>3, <1>2, <1>4, Cat, LenProperties DEF Reader, Bytes, parser
<1>7. Flowing'
  <2>1. SUFFICES ASSUME state' = "open" PROVE Flowing'
    BY DEF Flowing
  <2>2. PICK X : Ending(X) /\ Streamed(msgQ, sent, instate, inendpos, startchunk, wire, Framing(protocol), X)
    BY <1>2, <1>3, <2>1 DEF Flowing
  <2>3. ~bad /\ X = <<>>
    BY <1>2, <2>2 DEF may_send, Ending
  <2>4. Streamed(msgQ, With(sent, d), instate, inendpos, startchunk, wire \o e, Framing(protocol), <<>>)
    BY <1>4, <2>2, <2>3, StreamedMore
  <2>5. Streamed(msgQ', sent', instate', inendpos', startchunk', wire', Framing(protocol'), <<>>)
    BY <1>2, <2>4 DEF With, parser
  <2>6. (Ending(<<>>))'
    BY <1>2, <2>3, EmptyJudged DEF Ending
  <2> QED BY <2>5, <2>6 DEF Flowing
<1> QED BY <1>5, <1>6, <1>7 DEF InputInv

LEMMA SendMalformedStep ==
  ASSUME ~BackToBack, InputInv, SendMalformed
  PROVE  InputInv'
<1>1. PICK X \in Malformed :
        /\ may_send /\ ~early /\ agreed = "base11" /\ wire' = wire \o X /\ bad' = TRUE
        /\ UNCHANGED <<left, msgQ, parser, protocol, state, served, client11, server11, sent, nsent, delivered>>
  BY DEF SendMalformed
<1>2. Counts /\ Reader /\ Flowing
  BY DEF InputInv
<1>3. X \in Bytes
  BY MalformedIs
<1>4. Counts'
  BY <1>1, <1>2 DEF may_send, agreed, Counts, TooMuchSent
<1>5. Reader'
  BY <1>2, <1>1, <1>3, Cat, LenProperties DEF Reader, Bytes, parser
<1>6. Flowing'
  <2>1. SUFFICES ASSUME state' = "open" PROVE Flowing'
    BY DEF Flowing
  <2>2. PICK Y : Ending(Y) /\ Streamed(msgQ, sent, instate, inendpos, startchunk, wire, Framing(protocol), Y)
    BY <1>1, <1>2, <2>1 DEF Flowing
  <2>3. Y = <<>>
    BY <1>1, <2>2 DEF may_send, Ending
  <2>4. Streamed(msgQ, sent, instate, inendpos, startchunk, wire \o X, Framing(protocol), X)
    BY <1>3, <2>2, <2>3, StreamedBad
  <2>5. Streamed(msgQ', sent', instate', inendpos', startchunk', wire', Framing(protocol'), X)
    BY <1>1, <2>4 DEF parser
  <2>6. (Ending(X))'
    BY <1>1, <1>3 DEF Ending, Judged
  <2> QED BY <2>5, <2>6 DEF Flowing
<1> QED BY <1>4, <1>5, <1>6 DEF InputInv

LEMMA ReadStep ==
  ASSUME InputInv, NEW n \in ReadSizes, read(n)
  PROVE  InputInv' /\ sent' = sent /\ delivered' = delivered
<1>1. /\ state = "open" /\ left = 0 /\ n <= Len(wire)
      /\ UNCHANGED <<protocol, served, client, delivered>>
  BY DEF read
<1>2. Counts /\ Reader /\ Flowing
  BY DEF InputInv
<1>3. n \in Nat \ {0}
  BY InputAssumption
<1>4. PICK X : Ending(X) /\ Streamed(msgQ, sent, instate, inendpos, startchunk, wire, Framing(protocol), X)
  BY <1>1, <1>2 DEF Flowing
<1>5. /\ Streamed(make_current(msgQ), sent, instate, inendpos, startchunk, wire, Framing(protocol), X)
      /\ make_current(msgQ) # <<>>
  BY <1>4, StreamedRead
<1>6. wire \in Bytes /\ Len(wire) \in Nat
  BY <1>2, LenProperties DEF Reader, Bytes
<1>7. CASE granted(make_current(msgQ))
  <2>1. left' = n /\ msgQ' = make_current(msgQ) /\ UNCHANGED <<wire, parser, state>>
    BY <1>7 DEF read
  <2>2. Streamed(msgQ', sent, instate, inendpos, startchunk, wire, Framing(protocol), X) /\ msgQ' # <<>>
    BY <1>5, <2>1
  <2>3. Counts'
    BY <1>1, <1>2, <2>1 DEF Counts, agreed, client
  <2>4. Reader'
    BY <2>2, StreamedIs, <1>1, <1>2, <1>3, <1>6, <2>1 DEF Reader, parser
  <2>5. Flowing'
    BY <1>1, <1>4, <2>1, <2>2 DEF Ending, client, parser, Flowing
  <2> QED BY <1>1, <2>3, <2>4, <2>5 DEF InputInv, client
<1>8. CASE ~granted(make_current(msgQ))
  <2>1. input_error
    BY <1>8 DEF read
  <2>2. ASSUME ~bad PROVE TooMuchSent
    BY <1>4, <2>2, <1>1, <1>3, <1>6, EmptySeq, <1>8, StreamedDenied DEF Ending, TooMuchSent
  <2>3. InputInv'
    BY <1>1, <1>2, <2>1, <2>2, Refused
  <2> QED BY <1>1, <2>3 DEF client
<1> QED BY <1>7, <1>8

LEMMA DispatchStep ==
  ASSUME InputInv, dispatch
  PROVE  InputInv' /\ sent # <<>> /\ delivered' = Head(sent) /\ sent' = Tail(sent)
<1>1. /\ state = "open" /\ left = 0 /\ msgQ # <<>> /\ Head(msgQ).ready
      /\ delivered' = text_of(Head(msgQ)) /\ msgQ' = Tail(msgQ)
      /\ sent' = IF sent = <<>> THEN sent ELSE Tail(sent)
      /\ served' = served + 1 /\ protocol' = IF served = 1 THEN agreed ELSE protocol
      /\ UNCHANGED <<wire, left, parser, state, client11, server11, nsent, bad>>
  BY DEF dispatch, first_ready
<1>2. Counts /\ Reader /\ Flowing
  BY DEF InputInv
<1>3. PICK X : Ending(X) /\ Streamed(msgQ, sent, instate, inendpos, startchunk, wire, Framing(protocol), X)
  BY <1>1, <1>2 DEF Flowing
<1>4. /\ sent \in Seq(Docs) /\ sent # <<>> /\ text_of(Head(msgQ)) = Head(sent)
      /\ Streamed(Tail(msgQ), Tail(sent), instate, inendpos, startchunk, wire, Framing(protocol), X)
      /\ \A other : Len(sent) = 1 /\ X = <<>> =>
           Streamed(Tail(msgQ), Tail(sent), instate, inendpos, startchunk, wire, other, X)
  BY <1>1, <1>3, StreamedServed
<1>5. sent' = Tail(sent) /\ delivered' = Head(sent)
  BY <1>1, <1>4
<1>6. sent' \in Seq(Docs) /\ Len(sent') = Len(sent) - 1 /\ Len(sent) \in Nat \ {0}
  BY <1>4, <1>5, HeadTailProperties, LenProperties, EmptySeq
<1>7. agreed' = agreed
  BY <1>1 DEF agreed
<1>8. /\ served \in Nat /\ nsent = served + Len(sent) /\ protocol = IF served < 2 THEN "none" ELSE agreed
      /\ (agreed = "base11" /\ served < 2 => nsent <= 2) /\ (bad => agreed = "base11" /\ served >= 2)
  BY <1>2 DEF Counts
<1>9. protocol' = IF served' < 2 THEN "none" ELSE agreed'
  BY <1>1, <1>7, <1>8
<1>10. Counts'
  BY <1>1, <1>6, <1>8, <1>7, <1>2, <1>9 DEF Counts
<1>11. Streamed(Tail(msgQ), Tail(sent), instate, inendpos, startchunk, wire, Framing(protocol'), X)
  <2>1. CASE Framing(protocol') = Framing(protocol)
    BY <1>4, <2>1
  <2>2. CASE Framing(protocol') # Framing(protocol)
    <3>1. served = 1 /\ agreed = "base11"
      BY <2>2, <1>1, <1>8 DEF agreed, Framing
    <3>2. Len(sent) = 1
      BY <1>6, <1>8, <3>1
    <3>3. X = <<>>
      BY <1>3, <1>8, <3>1 DEF Ending
    <3> QED BY <1>4, <3>2, <3>3
  <2> QED BY <2>1, <2>2
<1>12. Streamed(msgQ', sent', instate', inendpos', startchunk', wire', Framing(protocol'), X)
  BY <1>1, <1>5, <1>11 DEF parser
<1>13. Reader'
  BY <1>12, StreamedIs, <1>1, <1>2 DEF Reader, parser
<1>14. Flowing'
  BY <1>1, <1>3, <1>12 DEF Ending, Flowing
<1> QED BY <1>4, <1>5, <1>10, <1>13, <1>14 DEF InputInv

\* What is read outside the chunks is base:1.0, where nothing is malformed.
LEMMA EomStep ==
  ASSUME InputInv, accept_buffer_ssh_v10
  PROVE  InputInv' /\ sent' = sent /\ delivered' = delivered
<1>1. /\ state = "open" /\ left > 0 /\ protocol # "base11"
      /\ UNCHANGED <<protocol, served, client, delivered>>
  BY DEF accept_buffer_ssh_v10
<1>2. Counts /\ Reader /\ Flowing
  BY DEF InputInv
<1>3. PICK X : Ending(X) /\ Streamed(msgQ, sent, instate, inendpos, startchunk, wire, Framing(protocol), X)
  BY <1>1, <1>2 DEF Flowing
<1>4. X = <<>> /\ X \in Bytes
  BY <1>1, <1>2, <1>3 DEF Counts, Ending, Judged
<1>5. PICK kind : kind = "eom"
  OBVIOUS
<1>6. Framing(protocol) = kind
  BY <1>1, <1>5 DEF Framing
<1>7. wire \in Bytes /\ left \in 0..Len(wire) /\ Len(wire) \in Nat /\ wire # <<>> /\ msgQ # <<>>
      /\ startchunk \in Digits /\ inendpos \in 0..SES_MAX_STARTCHUNK_SIZE
  BY <1>1, <1>2, LenProperties, EmptySeq DEF Reader, Bytes
<1>8. PICK ch, q : ch = Head(wire) /\ q = v10_put(ch)
  OBVIOUS
<1>9. Streamed(msgQ, sent, instate, inendpos, startchunk, wire, kind, X)
  BY <1>3, <1>6
<1>10. States10(instate, inendpos) /\ q # <<>>
  BY <1>4, <1>5, <1>7, <1>8, <1>9, StreamedEom
<1>11. ASSUME NEW in1, NEW pos1, Moves10(ch, instate, inendpos, in1, pos1)
       PROVE  Streamed(q, sent, in1, pos1, startchunk, From(wire, 2), kind, X)
  BY <1>4, <1>5, <1>7, <1>8, <1>9, <1>11, StreamedEom
<1>12. ASSUME Ends10(ch, instate, inendpos)
       PROVE  /\ ~(Len(curmsg(q).buffQ) = 1 /\ curbuff(q).buffpos <= NC_SSH_END_LEN)
              /\ Streamed(Cut(q), sent, "IDLE", 0, startchunk, From(wire, 2), kind, X) /\ Cut(q) # <<>>
              /\ Len(sent) >= Len(q) /\ Len(q) \in Nat
  BY <1>4, <1>5, <1>7, <1>8, <1>9, <1>12, StreamedEom
<1>13. ASSUME take(1) PROVE wire' = From(wire, 2) /\ left' = left - 1
  BY <1>13 DEF take, From
<1>14. SES_MAX_STARTCHUNK_SIZE \in Nat /\ SES_MAX_STARTCHUNK_SIZE >= 5 /\ NC_SSH_END_LEN = 6
  BY Constants
<1>15. ASSUME NEW in1, NEW pos1, Moves10(ch, instate, inendpos, in1, pos1)
       PROVE  in1 \in States11 /\ pos1 \in 0..SES_MAX_STARTCHUNK_SIZE
  BY <1>7, <1>10, <1>14, <1>15 DEF Moves10, States10, States11
<1>16. ASSUME Moves10(ch, instate, inendpos, instate', inendpos'), msgQ' = q, take(1),
              UNCHANGED <<startchunk, state>>
       PROVE  InputInv' /\ sent' = sent /\ delivered' = delivered
  BY <1>6, <1>11, <1>13, <1>16, <1>1, <1>7, <1>10, <1>15, <1>2, <1>3, Moved DEF client
<1>17. CASE v10_text(ch)
  BY <1>8, <1>17, <1>16 DEF v10_text, go, EOM, Moves10
<1>18. CASE v10_end_char(ch)
  BY <1>8, <1>18, <1>14, <1>16 DEF v10_end_char, go, EOM, Moves10
<1>19. CASE v10_end(ch)
  <2>1. /\ instate = "INEND" /\ ch = EOM(inendpos + 1) /\ inendpos + 1 = NC_SSH_END_LEN
        /\ instate' = "IDLE" /\ inendpos' = 0 /\ startchunk' = startchunk
    BY <1>19 DEF v10_end, go, EOM
  <2>2. Ends10(ch, instate, inendpos)
    BY <1>7, <1>14, <2>1 DEF Ends10
  <2>3. /\ msgQ' = Cut(q)
        /\ IF protocol = "none" /\ server11 /\ Len(q) >= 4
           THEN state' = "closed" /\ left' = 0 /\ wire' = wire
           ELSE take(1) /\ state' = state
    BY <1>12, <2>2, <1>8, <1>19 DEF v10_end, Cut
  <2>4. /\ Streamed(Cut(q), sent, "IDLE", 0, startchunk, From(wire, 2), kind, X) /\ Cut(q) # <<>>
        /\ Len(sent) >= Len(q) /\ Len(q) \in Nat
    BY <1>12, <2>2
  <2>5. CASE ~(protocol = "none" /\ server11 /\ Len(q) >= 4)
    BY <2>3, <2>5, <1>6, <1>13, <2>1, <2>4, <1>1, <1>7, <1>14, <1>2, <1>3, Moved DEF States11,
       client
  <2>6. CASE protocol = "none" /\ server11 /\ Len(q) >= 4
    <3>1. state' = "closed" /\ left' = 0 /\ wire' = wire
      BY <2>3, <2>6
    <3>2. nsent >= 4
      BY <1>2, <2>4, <2>6, LenProperties DEF Counts
    <3>3. Counts'
      BY <1>1, <1>2, <2>6, <3>1, <3>2 DEF Counts, agreed, client
    <3>4. Reader'
      BY <2>3, <2>4, StreamedIs, <1>7, <1>14, <2>1, <3>1 DEF Reader, States11
    <3>5. Flowing'
      BY <3>1 DEF Flowing
    <3> QED BY <1>1, <3>3, <3>4, <3>5 DEF InputInv, client
  <2> QED BY <2>5, <2>6
<1>20. CASE ~granted(make_room(msgQ))
  BY <1>20, <1>4, <1>7, <1>9, StreamedDenied, <1>1, <1>2, Refused DEF accept_buffer_ssh_v10,
     TooMuchSent, client
<1>21. CASE granted(make_room(msgQ))
  BY <1>8, <1>21, <1>17, <1>18, <1>19 DEF accept_buffer_ssh_v10
<1> QED BY <1>20, <1>21

LEMMA ChunkStep ==
  ASSUME InputInv, accept_buffer_ssh_v11
  PROVE  InputInv' /\ sent' = sent /\ delivered' = delivered
<1>1. /\ state = "open" /\ left > 0 /\ protocol = "base11"
      /\ UNCHANGED <<protocol, served, client, delivered>>
  BY DEF accept_buffer_ssh_v11
<1>2. Counts /\ Reader /\ Flowing
  BY DEF InputInv
<1>3. PICK X : Ending(X) /\ Streamed(msgQ, sent, instate, inendpos, startchunk, wire, Framing(protocol), X)
  BY <1>1, <1>2 DEF Flowing
<1>4. Judged(X) /\ (X \in Malformed => bad)
  <2>1. ASSUME X \in Malformed PROVE X # <<>>
    BY <2>1, MalformedIs
  <2> QED BY <1>3, <2>1 DEF Ending
<1>5. PICK kind : kind = "chunks"
  OBVIOUS
<1>6. Framing(protocol) = kind
  BY <1>1, <1>5 DEF Framing
<1>7. wire \in Bytes /\ left \in 0..Len(wire) /\ Len(wire) \in Nat /\ wire # <<>> /\ msgQ # <<>>
      /\ startchunk \in Digits /\ inendpos \in 0..SES_MAX_STARTCHUNK_SIZE
  BY <1>1, <1>2, LenProperties, EmptySeq DEF Reader, Bytes
<1>8. Streamed(msgQ, sent, instate, inendpos, startchunk, wire, kind, X)
  BY <1>3, <1>6
<1>9. PICK ch, q : ch = Head(wire) /\ q = make_room(msgQ)
  OBVIOUS
<1>10. q # <<>>
  BY <1>7, <1>8, <1>9, RoomNotEmpty
<1>11. SES_MAX_STARTCHUNK_SIZE \in Nat /\ SES_MAX_STARTCHUNK_SIZE >= 5
  BY Constants
<1>12. ASSUME input_error, X \in Malformed
       PROVE  InputInv' /\ sent' = sent /\ delivered' = delivered
  BY <1>1, <1>2, <1>4, <1>12, Refused DEF client
<1>13. ASSUME input_error, ~bad => buffers_for(sent) >= SES_MAX_BUFFERS
       PROVE  InputInv' /\ sent' = sent /\ delivered' = delivered
  BY <1>13, <1>1, <1>2, Refused DEF TooMuchSent, client
<1>14. ~bad => X = <<>>
  BY <1>3 DEF Ending
<1>15. ASSUME NEW k \in 0..left, Streamed(msgQ', sent, instate', inendpos', startchunk', From(wire, k + 1), kind, X),
              msgQ' # <<>>, take(k), state' = state,
              instate' \in States11, inendpos' \in 0..SES_MAX_STARTCHUNK_SIZE, startchunk' \in Digits
       PROVE  InputInv' /\ sent' = sent /\ delivered' = delivered
  BY <1>15, <1>6, <1>1, <1>2, <1>3, Moved DEF take, From, client
<1>16. 1 \in 0..left /\ 0 \in 0..left
  BY <1>1, <1>7
<1>17. ASSUME NEW s1, NEW pos1, Streamed(q, sent, s1, pos1, startchunk, From(wire, 2), kind, X),
              msgQ' = q, take(1), go(s1, pos1), UNCHANGED <<startchunk, state>>,
              s1 \in States11, pos1 \in 0..SES_MAX_STARTCHUNK_SIZE
       PROVE  InputInv' /\ sent' = sent /\ delivered' = delivered
  BY <1>17, <1>7, <1>10, <1>15, <1>16 DEF go
<1>18. CASE v11_idle(ch)
  <2>1. instate = "IDLE"
    BY <1>18 DEF v11_idle
  <2>2. CASE ch = LF
    BY <1>4, <1>5, <1>7, <1>8, <1>9, <2>1, <2>2, StreamedIdle, <1>18, <1>11, <1>17 DEF v11_idle,
       expect, States11
  <2>3. CASE ch # LF
    BY <1>4, <1>5, <1>7, <1>8, <1>9, <2>1, <2>3, StreamedIdle, <1>18, <1>12 DEF v11_idle, expect
  <2> QED BY <2>2, <2>3
<1>19. CASE v11_start_hash(ch)
  <2>1. instate = "INSTART" /\ inendpos = 1
    BY <1>19 DEF v11_start_hash
  <2>2. CASE ch = HASH
    BY <1>4, <1>5, <1>7, <1>8, <1>9, <2>1, <2>2, StreamedStartHash, <1>19, <1>11, <1>17 DEF
       v11_start_hash, expect, States11
  <2>3. CASE ch # HASH
    BY <1>4, <1>5, <1>7, <1>8, <1>9, <2>1, <2>3, StreamedStartHash, <1>19, <1>12 DEF
       v11_start_hash, expect
  <2> QED BY <2>2, <2>3
<1>20. CASE v11_start_digit(ch)
  <2>1. instate = "INSTART" /\ inendpos >= 2 /\ ch # LF /\ inendpos # 1
    BY <1>7, <1>20 DEF v11_start_digit
  <2>2. PICK sc1 : sc1 = SubSeq(startchunk, 1, inendpos - 2) \o <<ch>>
    OBVIOUS
  <2>3. CASE DigitOk(inendpos, ch)
    <3>1. sc1 \in Digits
      BY <1>4, <1>5, <1>7, <1>8, <1>9, <2>1, <2>2, <2>3, StreamedDigit
    <3>2. inendpos + 1 \in 0..SES_MAX_STARTCHUNK_SIZE
      BY <1>4, <1>5, <1>7, <1>8, <1>9, <2>1, <2>2, <2>3, StreamedDigit
    <3>3. Streamed(q, sent, instate, inendpos + 1, sc1, From(wire, 2), kind, X)
      BY <1>4, <1>5, <1>7, <1>8, <1>9, <2>1, <2>2, <2>3, StreamedDigit
    <3>4. /\ startchunk' = sc1 /\ instate' = "INSTART" /\ inendpos' = inendpos + 1 /\ msgQ' = q /\ take(1)
          /\ state' = state
      BY <1>9, <1>20, <2>2, <2>3 DEF v11_start_digit, DigitOk, go
    <3>5. Streamed(msgQ', sent, instate', inendpos', startchunk', From(wire, 1 + 1), kind, X)
      BY <2>1, <3>3, <3>4
    <3> QED BY <1>10, <1>15, <1>16, <3>1, <3>2, <3>4, <3>5 DEF States11
  <2>4. CASE ~DigitOk(inendpos, ch)
    <3>1. X \in Malformed
      BY <1>4, <1>5, <1>7, <1>8, <1>9, <2>1, <2>2, <2>4, StreamedDigit
    <3>2. input_error
      BY <1>20, <2>4 DEF v11_start_digit, DigitOk
    <3> QED BY <1>12, <3>1, <3>2
  <2> QED BY <2>3, <2>4
<1>21. CASE v11_start_end(ch)
  <2>1. instate = "INSTART" /\ inendpos >= 2 /\ ch = LF /\ inendpos # 1
    BY <1>7, <1>21 DEF v11_start_end
  <2>2. PICK n : n = ncx_convert_num(SubSeq(startchunk, 1, inendpos - 2))
    OBVIOUS
  <2>3. CASE SizeOk(inendpos, n)
    <3>1. Streamed(Sizing(q, n), sent, "INMSG", 0, startchunk, From(wire, 2), kind, X) /\ Sizing(q, n) # <<>>
      BY <1>4, <1>5, <1>7, <1>8, <1>9, <2>1, <2>2, <2>3, StreamedStartEnd
    <3>2. msgQ' = Sizing(q, n) /\ instate' = "INMSG" /\ inendpos' = 0 /\ take(1) /\ UNCHANGED <<startchunk, state>>
      BY <1>9, <1>21, <2>2, <2>3 DEF v11_start_end, chunk_size, SizeOk, Sizing, go
    <3>3. Streamed(msgQ', sent, instate', inendpos', startchunk', From(wire, 1 + 1), kind, X)
      BY <3>1, <3>2
    <3> QED BY <1>7, <1>11, <1>15, <1>16, <3>1, <3>2, <3>3 DEF States11
  <2>4. CASE ~SizeOk(inendpos, n)
    BY <1>4, <1>5, <1>7, <1>8, <1>9, <2>1, <2>2, <2>4, StreamedStartEnd, <1>21, <1>12 DEF
       v11_start_end, chunk_size, SizeOk
  <2> QED BY <2>3, <2>4
<1>22. CASE v11_data
  <2>1. instate = "INMSG" /\ left \in 1..Len(wire)
    BY <1>1, <1>7, <1>22 DEF v11_data
  <2>2. PICK n : n = curmsg(q).expchunksize - curmsg(q).curchunksize
    OBVIOUS
  <2>3. PICK k, text : k = (IF left < n THEN left ELSE n) /\ text = SubSeq(wire, 1, k)
    OBVIOUS
  <2>4. IF granted(Filling(q, text, k))
         THEN /\ msgQ' = Filling(q, text, k) /\ take(k) /\ startchunk' = startchunk /\ state' = state
              /\ IF k = n THEN instate' = "INBETWEEN" /\ inendpos' = 0
                          ELSE instate' = instate /\ inendpos' = inendpos
         ELSE input_error
    BY <1>9, <1>22, <2>2, <2>3 DEF v11_data, Filling, go
  <2>5. CASE ~granted(Filling(q, text, k))
    <3>1. input_error
      BY <2>4, <2>5
    <3>2. ASSUME ~bad PROVE buffers_for(sent) >= SES_MAX_BUFFERS
      BY <1>4, <1>5, <1>7, <1>8, <1>9, <1>14, <2>1, <2>2, <2>3, <2>5, <3>2, StreamedText
    <3> QED BY <1>13, <3>1, <3>2
  <2>6. SUFFICES ASSUME granted(Filling(q, text, k)) PROVE InputInv' /\ sent' = sent /\ delivered' = delivered
    BY <2>5
  <2>7. /\ msgQ' = Filling(q, text, k) /\ take(k) /\ startchunk' = startchunk /\ state' = state
        /\ IF k = n THEN instate' = "INBETWEEN" /\ inendpos' = 0 ELSE instate' = instate /\ inendpos' = inendpos
    BY <2>4, <2>6
  <2>8. TextTaken(q, text, k, left)
    BY <1>4, <1>5, <1>7, <1>8, <1>9, <2>1, <2>2, <2>3, StreamedText
  <2>9. k \in 0..left /\ Filling(q, text, k) # <<>>
    BY <2>8 DEF TextTaken
  <2>10. PICK in1, pos1 : in1 = instate' /\ pos1 = inendpos'
    OBVIOUS
  <2>11. AfterText(k, n, instate, inendpos, in1, pos1)
    BY <2>7, <2>10 DEF AfterText
  <2>12. Streamed(Filling(q, text, k), sent, in1, pos1, startchunk, From(wire, k + 1), kind, X)
    BY <1>4, <1>5, <1>7, <1>8, <1>9, <2>1, <2>2, <2>3, <2>11, StreamedText
  <2>13. Streamed(msgQ', sent, instate', inendpos', startchunk', From(wire, k + 1), kind, X)
    BY <2>7, <2>10, <2>12
  <2>14. /\ instate' \in States11 /\ inendpos' \in 0..SES_MAX_STARTCHUNK_SIZE /\ startchunk' \in Digits
        /\ msgQ' # <<>>
    BY <1>7, <1>11, <2>1, <2>7, <2>9 DEF States11
  <2> QED BY <1>15, <2>7, <2>9, <2>13, <2>14
<1>23. CASE v11_between(ch)
  <2>1. instate = "INBETWEEN" /\ inendpos # 2
    BY <1>7, <1>23 DEF v11_between
  <2>2. PICK m : m = IF inendpos = 0 THEN LF ELSE HASH
    OBVIOUS
  <2>3. CASE ch = m
    <3>1. /\ inendpos \in {0, 1}
          /\ Streamed(q, sent, instate, inendpos + 1, startchunk, From(wire, 2), kind, X)
      BY <1>4, <1>5, <1>7, <1>8, <1>9, <2>1, <2>2, <2>3, StreamedBetween
    <3>2. go("INBETWEEN", inendpos + 1) /\ msgQ' = q /\ take(1) /\ UNCHANGED <<startchunk, state>>
      BY <1>9, <1>23, <2>2, <2>3 DEF v11_between, expect
    <3>3. Streamed(q, sent, "INBETWEEN", inendpos + 1, startchunk, From(wire, 2), kind, X)
      BY <2>1, <3>1
    <3>4. inendpos + 1 \in 0..SES_MAX_STARTCHUNK_SIZE /\ "INBETWEEN" \in States11
      BY <1>11, <3>1 DEF States11
    <3> QED BY <1>17, <3>2, <3>3, <3>4
  <2>4. CASE ch # m
    BY <1>4, <1>5, <1>7, <1>8, <1>9, <2>1, <2>2, <2>4, StreamedBetween, <1>23, <1>12 DEF
       v11_between, expect
  <2> QED BY <2>3, <2>4
<1>24. CASE v11_between_end(ch)
  <2>1. instate = "INBETWEEN" /\ inendpos = 2
    BY <1>24 DEF v11_between_end
  <2>2. CASE digit(ch, 1)
    <3>1. Streamed(q, sent, "INSTART", inendpos, startchunk, wire, kind, X)
      BY <1>4, <1>5, <1>7, <1>8, <1>9, <2>1, <2>2, StreamedBehind
    <3>2. /\ instate' = "INSTART" /\ inendpos' = 2 /\ msgQ' = q
          /\ UNCHANGED <<wire, left, startchunk, state>>
      BY <1>9, <1>24, <2>2 DEF v11_between_end, go
    <3>3. wire' = From(wire, 0 + 1) /\ left' = left - 0
      BY <1>7, SubSeqProperties, <3>2 DEF Bytes, From
    <3>4. take(0)
      BY <3>3 DEF take, From
    <3>5. Streamed(msgQ', sent, instate', inendpos', startchunk', From(wire, 0 + 1), kind, X)
      BY <2>1, <3>1, <3>2, <3>3
    <3>6. /\ instate' \in States11 /\ inendpos' \in 0..SES_MAX_STARTCHUNK_SIZE /\ startchunk' \in Digits
          /\ msgQ' # <<>> /\ state' = state
      BY <1>7, <1>10, <1>11, <3>2 DEF States11
    <3> QED BY <1>15, <1>16, <3>4, <3>5, <3>6
  <2>3. CASE ~digit(ch, 1) /\ ch = HASH
    BY <1>4, <1>5, <1>7, <1>8, <1>9, <2>1, <2>3, StreamedBehind, <1>24, <1>11, <1>17 DEF
       v11_between_end, expect, States11
  <2>4. CASE ~digit(ch, 1) /\ ch # HASH
    BY <1>4, <1>5, <1>7, <1>8, <1>9, <2>1, <2>4, StreamedBehind, <1>24, <1>12 DEF v11_between_end,
       expect
  <2> QED BY <2>2, <2>3, <2>4
<1>25. CASE v11_end(ch)
  <2>1. instate = "INEND"
    BY <1>25 DEF v11_end
  <2>2. CASE ch = LF
    <3>1. Streamed(Settles(q), sent, "IDLE", 0, startchunk, From(wire, 2), kind, X) /\ Settles(q) # <<>>
      BY <1>4, <1>5, <1>7, <1>8, <1>9, <2>1, <2>2, StreamedLast
    <3>2. msgQ' = Settles(q) /\ instate' = "IDLE" /\ inendpos' = 0 /\ take(1) /\ UNCHANGED <<startchunk, state>>
      BY <1>9, <1>25, <2>2 DEF v11_end, Settles, go
    <3>3. Streamed(msgQ', sent, instate', inendpos', startchunk', From(wire, 1 + 1), kind, X)
      BY <3>1, <3>2
    <3> QED BY <1>7, <1>11, <1>15, <1>16, <3>1, <3>2, <3>3 DEF States11
  <2>3. CASE ch # LF
    BY <1>4, <1>5, <1>7, <1>8, <1>9, <2>1, <2>3, StreamedLast, <1>25, <1>12 DEF v11_end
  <2> QED BY <2>2, <2>3
<1>26. CASE granted(make_room(msgQ))
  BY <1>9, <1>26, <1>18, <1>19, <1>20, <1>21, <1>22, <1>23, <1>24, <1>25 DEF accept_buffer_ssh_v11
<1>27. CASE ~granted(make_room(msgQ))
  <2>1. input_error
    BY <1>27 DEF accept_buffer_ssh_v11
  <2>2. ASSUME ~bad PROVE buffers_for(sent) >= SES_MAX_BUFFERS
    BY <1>7, <1>8, <1>9, <1>14, <1>27, <2>2, StreamedDenied
  <2> QED BY <1>13, <2>1, <2>2
<1> QED BY <1>26, <1>27

\* The invariant is inductive.
LEMMA NextInputInv ==
  ASSUME ~BackToBack, InputInv, [InputNext]_inputVars
  PROVE  InputInv'
<1>1. CASE SendDoc
  BY <1>1, SendStep
<1>2. CASE SendMalformed
  BY <1>2, SendMalformedStep
<1>3. CASE \E n \in ReadSizes : read(n)
  BY <1>3, ReadStep
<1>4. CASE accept_buffer_ssh_v10
  BY <1>4, EomStep
<1>5. CASE accept_buffer_ssh_v11
  BY <1>5, ChunkStep
<1>6. CASE dispatch
  BY <1>6, DispatchStep
<1>7. CASE UNCHANGED inputVars
  <2>1. Counts'
    BY <1>7 DEF inputVars, client, InputInv, Counts, agreed, TooMuchSent
  <2>2. Reader'
    BY <1>7 DEF inputVars, parser, InputInv, Reader
  <2>3. Flowing'
    <3>1. SUFFICES ASSUME state' = "open" PROVE Flowing'
      BY DEF Flowing
    <3>2. PICK X : Ending(X) /\ Streamed(msgQ, sent, instate, inendpos, startchunk, wire, Framing(protocol), X)
      BY <1>7, <3>1 DEF inputVars, InputInv, Flowing
    <3>3. (Ending(X))'
      BY <1>7, <3>2 DEF inputVars, client, Ending
    <3>4. Streamed(msgQ', sent', instate', inendpos', startchunk', wire', Framing(protocol'), X)
      BY <1>7, <3>2 DEF inputVars, client, parser
    <3> QED BY <3>3, <3>4 DEF Flowing
  <2> QED BY <2>1, <2>2, <2>3 DEF InputInv
<1> QED BY <1>1, <1>2, <1>3, <1>4, <1>5, <1>6, <1>7 DEF InputNext, server

-----------------------------------------------------------------------------
(* What follows from the invariant *)

LEMMA HeldOK ==
  ASSUME NEW q, Held(q)
  PROVE  \A i \in DOMAIN q : MessageOK(q[i])
BY MessagesOK DEF Held

LEMMA TypesFollow ==
  ASSUME InputInv
  PROVE  InputTypeOK
<1>1. Counts /\ Reader
  BY DEF InputInv
<1>2. \A i \in DOMAIN msgQ : MessageOK(msgQ[i])
  BY <1>1, HeldOK DEF Reader
<1>3. \A i \in DOMAIN msgQ :
        /\ msgQ[i].ready \in BOOLEAN
        /\ msgQ[i].expchunksize \in 0..NCX_MAX_UINT
        /\ msgQ[i].curchunksize \in 0..msgQ[i].expchunksize
        /\ \A j \in DOMAIN msgQ[i].buffQ :
             LET b == msgQ[i].buffQ[j]
             IN b \in Buffer /\ Len(b.data) <= SES_MSG_BUFFSIZE /\ b.bufflen <= Len(b.data)
  BY <1>2 DEF MessageOK, BufferOK
<1>4. /\ left \in 0..Len(wire) /\ instate \in {"IDLE", "INSTART", "INMSG", "INBETWEEN", "INEND"}
      /\ inendpos \in 0..SES_MAX_STARTCHUNK_SIZE /\ startchunk \in Seq(48..57)
  BY <1>1 DEF Reader, States11, Digits
<1>5. /\ protocol \in {"none", "base10", "base11"} /\ state \in {"open", "closed", "undefined"}
      /\ {client11, server11, bad} \subseteq BOOLEAN
  BY <1>1 DEF Counts, agreed
<1>6. served \in 0..MaxDocs /\ nsent \in 0..MaxDocs
  BY <1>1, InputAssumption, LenProperties DEF Counts
<1> QED BY <1>3, <1>4, <1>5, <1>6 DEF InputTypeOK

LEMMA TextFollows ==
  ASSUME InputInv
  PROVE  PartialTextSound
<1>1. SUFFICES ASSUME state = "open", ~bad, partial_text # <<>>
               PROVE  Len(msgQ) \in DOMAIN sent /\ IsPrefix(partial_text, sent[Len(msgQ)] \o NC_SSH_END)
  BY DEF PartialTextSound
<1>2. PICK X : Ending(X) /\ Streamed(msgQ, sent, instate, inendpos, startchunk, wire, Framing(protocol), X)
  BY <1>1 DEF InputInv, Flowing
<1>3. X \notin Malformed
  <2>1. ASSUME X \in Malformed PROVE X # <<>>
    BY <2>1, MalformedIs
  <2> QED BY <1>1, <1>2, <2>1 DEF Ending
<1>4. PICK kind : kind = Framing(protocol)
  OBVIOUS
<1>5. PICK done, fs, h, x, c, ds :
        Stand(msgQ, sent, instate, inendpos, startchunk, wire, kind, X, done, fs, h, x, c, ds)
  BY <1>2, <1>4, StandIs
<1>6. /\ done \in Seq(ReadyMessage) /\ Sizes(x, c) /\ Begins(msgQ, done, h, x, c) /\ h \in Bytes
      /\ Standing(msgQ, sent, done, fs, h, x, c, ds)
      /\ Place(kind, instate, inendpos, startchunk, wire, h, x, c, ds, X)
  BY <1>5, StandParts
<1>7. ds \in Seq(Docs) /\ fs \in Seq(Docs) /\ sent = fs \o ds /\ Len(fs) = Len(done)
  BY <1>6, StandingIs
<1>8. partial_text = h /\ Len(msgQ) = Len(done) + 1 /\ h # <<>>
  BY <1>1, <1>6, PartialText
<1>9. PICK d \in Docs, es \in Seq(Docs) : ds = <<d>> \o es /\ IsPrefix(h, d \o NC_SSH_END)
  <2>1. TextPart(h, ds)
    BY <1>3, <1>6, <1>8, PlaceText1
  <2> QED BY <2>1 DEF TextPart
<1>10. ds[1] = d /\ Len(ds) \in Nat \ {0}
  BY <1>9, ConsIs, LenProperties
<1>11. Len(msgQ) \in DOMAIN sent /\ sent[Len(msgQ)] = d
  <2>1. Len(fs) \in Nat
    BY <1>7, LenProperties
  <2>2. Len(sent) = Len(fs) + Len(ds) /\ sent[Len(fs) + 1] = ds[1] /\ sent \in Seq(Docs)
    <3>1. /\ fs \o ds \in Seq(Docs) /\ Len(fs \o ds) = Len(fs) + Len(ds)
          /\ \A i \in 1..Len(fs) + Len(ds) : (fs \o ds)[i] = IF i <= Len(fs) THEN fs[i] ELSE ds[i - Len(fs)]
      BY <1>7, ConcatProperties
    <3>2. Len(fs) + 1 \in 1..Len(fs) + Len(ds) /\ ~(Len(fs) + 1 <= Len(fs)) /\ Len(fs) + 1 - Len(fs) = 1
      BY <1>10, <2>1
    <3>3. (fs \o ds)[Len(fs) + 1] = ds[1]
      BY <3>1, <3>2
    <3> QED BY <1>7, <3>1, <3>3
  <2> QED BY <1>7, <1>8, <1>10, <2>1, <2>2, LenProperties
<1> QED BY <1>8, <1>9, <1>11

\* A session whose peer is not bad is open; a bad one is closed when all is read.
LEMMA PeersFollow ==
  ASSUME InputInv
  PROVE  PeersJudged
<1>1. GoodPeerKept
  BY DEF InputInv, Counts, GoodPeerKept
<1>2. MalformedRefused
  <2>1. SUFFICES ASSUME bad, state = "open" PROVE wire # <<>>
    BY DEF MalformedRefused
  <2>2. PICK X : Ending(X) /\ Streamed(msgQ, sent, instate, inendpos, startchunk, wire, Framing(protocol), X)
    BY <2>1 DEF InputInv, Flowing
  <2>3. PICK kind : kind = Framing(protocol)
    OBVIOUS
  <2>4. PICK done, fs, h, x, c, ds :
          Stand(msgQ, sent, instate, inendpos, startchunk, wire, kind, X, done, fs, h, x, c, ds)
    BY <2>2, <2>3, StandIs
  <2>5. h \in Bytes /\ Place(kind, instate, inendpos, startchunk, wire, h, x, c, ds, X)
    BY <2>4, StandParts
  <2>6. X \in Malformed /\ Judged(X)
    BY <2>1, <2>2 DEF Ending
  <2> QED BY <2>5, <2>6, PlaceMore
<1> QED BY <1>1, <1>2 DEF PeersJudged

\* A dispatch is a step of MessageStream, the end of a session too, and the rest are stutters.
LEMMA StepRefines ==
  ASSUME InputInv, [InputNext]_inputVars
  PROVE  [Stream!Next]_(Stream!vars)
<1>1. CASE SendDoc
  BY <1>1 DEF SendDoc, Stream!Next, Stream!Send
<1>2. CASE SendMalformed
  BY <1>2 DEF SendMalformed, Stream!vars
<1>3. CASE \E n \in ReadSizes : read(n)
  <2>1. sent' = sent /\ delivered' = delivered
    BY <1>3, ReadStep
  <2>2. state = "open"
    BY <1>3 DEF read
  <2>3. CASE state' = "open"
    BY <2>1, <2>2, <2>3 DEF Stream!vars
  <2>4. CASE state' # "open"
    BY <2>1, <2>2, <2>4 DEF Stream!Next, Stream!Close
  <2> QED BY <2>3, <2>4
<1>4. CASE accept_buffer_ssh_v10 \/ accept_buffer_ssh_v11
  <2>1. sent' = sent /\ delivered' = delivered
    BY <1>4, EomStep, ChunkStep
  <2>2. state = "open"
    BY <1>4 DEF accept_buffer_ssh_v10, accept_buffer_ssh_v11
  <2>3. CASE state' = "open"
    BY <2>1, <2>2, <2>3 DEF Stream!vars
  <2>4. CASE state' # "open"
    BY <2>1, <2>2, <2>4 DEF Stream!Next, Stream!Close
  <2> QED BY <2>3, <2>4
<1>5. CASE dispatch
  BY <1>5, DispatchStep DEF dispatch, Stream!Next, Stream!Deliver
<1>6. CASE UNCHANGED inputVars
  BY <1>6 DEF inputVars, client, Stream!vars
<1> QED BY <1>1, <1>2, <1>3, <1>4, <1>5, <1>6 DEF InputNext, server

\* BuffersSound: however the stream is cut into reads, chunks and buffers
\* (ses_accept_input, accept_buffer_ssh_v10, accept_buffer_ssh_v11), no buffer is
\* overfilled and the unfinished message is a beginning of what is sent.
THEOREM SpecBuffersSound ==
  ASSUME ~BackToBack
  PROVE  InputSpec => []BuffersSound
<1>1. InputInit => InputInv
  BY InitInputInv
<1>2. InputInv /\ [InputNext]_inputVars => InputInv'
  BY NextInputInv
<1>3. InputInv => BuffersSound
  BY TypesFollow, TextFollows DEF BuffersSound
<1> QED BY <1>1, <1>2, <1>3, PTL DEF InputSpec

\* PeersJudged: a session that keeps to the framing and whose requests fit in the
\* buffers that ses_msg_new_buff grants is never ended by the framing, one that
\* breaks the grammar never outlives the break.
THEOREM SpecPeersJudged ==
  ASSUME ~BackToBack
  PROVE  InputSpec => []PeersJudged
<1>1. InputInit => InputInv
  BY InitInputInv
<1>2. InputInv /\ [InputNext]_inputVars => InputInv'
  BY NextInputInv
<1>3. InputInv => PeersJudged
  BY PeersFollow
<1> QED BY <1>1, <1>2, <1>3, PTL DEF InputSpec

\* ImplementsStream: what the dispatcher reads from the buffers are the documents
\* of the peer, whole, once and in order, until the session is closed.
THEOREM SpecImplementsStream ==
  ASSUME ~BackToBack
  PROVE  InputSpec => ImplementsStream
<1>1. InputInit => InputInv
  BY InitInputInv
<1>2. InputInv /\ [InputNext]_inputVars => InputInv'
  BY NextInputInv
<1>3. InputInit => Stream!Init
  BY DEF InputInit, Stream!Init
<1>4. InputInv /\ [InputNext]_inputVars => [Stream!Next]_(Stream!vars)
  BY StepRefines
<1> QED BY <1>1, <1>2, <1>3, <1>4, PTL DEF InputSpec, ImplementsStream, Stream!Spec
=============================================================================
