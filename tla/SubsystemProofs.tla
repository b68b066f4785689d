--------------------------- MODULE SubsystemProofs ---------------------------
(***************************************************************************)
(* Theorems about Subsystem, for all clients, requests, sizes of replies,  *)
(* pipes, sockets and buffers. Requests and parts of replies are numbered, *)
(* so that a stream is in order when, along everything between its ends,   *)
(* each place takes up the numbers where the one before it stops.          *)
(***************************************************************************)
EXTENDS Subsystem, SequenceTheorems, TLAPS

Pcs == {"select", "stdin", "send_up", "sock", "send_out", "ended"}

Relays == [pc : Pcs, ready : SUBSET {"stdin", "ncxsock"}, msgbuff : Seq(Nat)]

Types ==
  /\ gone \subseteq Clients
  /\ sent \in [Clients -> Nat] /\ ses \in [Clients -> {"open", "closed"}]
  /\ pin \in [Clients -> Seq(Nat)] /\ pout \in [Clients -> Seq(Nat)]
  /\ up \in [Clients -> Seq(Nat)] /\ down \in [Clients -> Seq(Nat)]
  /\ taken \in [Clients -> Seq(Nat)] /\ got \in [Clients -> Seq(Nat)]
  /\ relay \in [Clients -> Relays]
  /\ server \in [to : Clients \cup {Nobody}, left : Seq(Nat), last : BOOLEAN]

\* The sizes of the pipes and the buffer, and when the buffer is in use.
Sizes(c) ==
  /\ sent[c] <= Requests[c]
  /\ Len(pin[c]) <= PipeCap /\ Len(pout[c]) <= PipeCap
  /\ Len(up[c]) <= UpCap /\ Len(down[c]) <= DownCap
  /\ Len(relay[c].msgbuff) <= BUFFLEN
  /\ relay[c].pc \in {"send_up", "send_out"} <=> relay[c].msgbuff # <<>>

\* s goes on behind the number a.
From(s, a) == \A k \in 1 .. Len(s) : s[k] = a + k

\* An empty place, and the number before request 0.
Nil == <<>>
Before == 0 - 1

\* Five places of a stream that begins behind the number a, and how many
\* numbers they hold.
Flow(a, n, s1, s2, s3, s4, s5) ==
  /\ s1 \in Seq(Nat) /\ s2 \in Seq(Nat) /\ s3 \in Seq(Nat)
  /\ s4 \in Seq(Nat) /\ s5 \in Seq(Nat)
  /\ From(s1, a)
  /\ From(s2, a + Len(s1))
  /\ From(s3, a + Len(s1) + Len(s2))
  /\ From(s4, a + Len(s1) + Len(s2) + Len(s3))
  /\ From(s5, a + Len(s1) + Len(s2) + Len(s3) + Len(s4))
  /\ n = Len(s1) + Len(s2) + Len(s3) + Len(s4) + Len(s5)

UpBuffer(c) == IF At(c, "send_up") THEN relay[c].msgbuff ELSE Nil
OutBuffer(c) == IF At(c, "send_out") THEN relay[c].msgbuff ELSE Nil
Left(c) == IF server.to = c THEN server.left ELSE Nil

\* From the server back to the client: all the requests that were sent, unless
\* the process has ended; then it is what came through before.
Upward(c) ==
  \E n \in Nat :
    /\ Flow(Before, n, taken[c], up[c], UpBuffer(c), pin[c], Nil)
    /\ IF At(c, "ended") THEN n <= sent[c] + 1 /\ pin[c] = <<>> ELSE n = sent[c] + 1

\* From the client back to the server: all the replies to what it has taken, as
\* long as client and process are there.
Downward(c) ==
  \E n \in Nat :
    /\ n <= Len(taken[c]) * ReplySize
    /\ IF c \in gone THEN Flow(0, n, got[c], Nil, Nil, Nil, Nil)
       ELSE IF At(c, "ended") THEN Flow(0, n, got[c], pout[c], Nil, Nil, Nil)
       ELSE /\ Flow(0, n, got[c], pout[c], OutBuffer(c), down[c], Left(c))
            /\ n = Len(taken[c]) * ReplySize

\* The server writes to open sessions, closes one after its last request, and a
\* process ends behind the last reply or because its client has hung up.
Ends(c) ==
  /\ server.to = c =>
       ses[c] = "open" /\ (server.last <=> Len(taken[c]) = Requests[c] + 1)
  /\ ses[c] = "closed" /\ ~At(c, "ended") => Len(taken[c]) = Requests[c] + 1
  /\ At(c, "ended") /\ c \notin gone =>
       Len(got[c]) + Len(pout[c]) = (Requests[c] + 1) * ReplySize
  /\ At(c, "stdin") => pin[c] # <<>> \/ c \in gone

Sound(c) == Sizes(c) /\ Upward(c) /\ Downward(c) /\ Ends(c)

IInv == Types /\ \A c \in Clients : Sound(c)

-----------------------------------------------------------------------------
(* Sequences of numbers *)

LEMMA FromEmpty == ASSUME NEW a PROVE From(<<>>, a)
  BY DEF From

LEMMA FromTail ==
  ASSUME NEW s \in Seq(Nat), s # <<>>, NEW a \in Int, From(s, a)
  PROVE  /\ Head(s) = a + 1 /\ Tail(s) \in Seq(Nat) /\ From(Tail(s), a + 1)
         /\ Len(Tail(s)) = Len(s) - 1 /\ Len(s) \in Nat \ {0}
<1> DEFINE t == Tail(s)
<1>1. /\ t \in Seq(Nat) /\ Len(t) = Len(s) - 1 /\ Len(s) \in Nat \ {0}
      /\ \A k \in 1 .. Len(t) : t[k] = s[k + 1]
  BY HeadTailProperties, EmptySeq
<1>2. Head(s) = s[1]
  OBVIOUS
<1> HIDE DEF t
<1>3. Head(s) = a + 1
  BY <1>1, <1>2 DEF From
<1>4. From(t, a + 1)
  <2> SUFFICES ASSUME NEW k \in 1 .. Len(t) PROVE t[k] = a + 1 + k
    BY DEF From
  <2>1. k + 1 \in 1 .. Len(s) /\ t[k] = s[k + 1]
    BY <1>1
  <2> QED BY <2>1 DEF From
<1> QED BY <1>1, <1>3, <1>4 DEF t

LEMMA FromAppend ==
  ASSUME NEW s \in Seq(Nat), NEW a \in Int, From(s, a), NEW e \in Nat, e = a + Len(s) + 1
  PROVE  /\ Append(s, e) \in Seq(Nat) /\ From(Append(s, e), a)
         /\ Len(Append(s, e)) = Len(s) + 1 /\ Len(s) \in Nat /\ Append(s, e) # <<>>
<1> DEFINE t == Append(s, e)
<1>1. /\ t \in Seq(Nat) /\ Len(t) = Len(s) + 1 /\ t[Len(s) + 1] = e /\ t # <<>>
      /\ \A k \in 1 .. Len(s) : t[k] = s[k]
      /\ Len(s) \in Nat
  BY AppendProperties, LenProperties
<1> HIDE DEF t
<1>2. ASSUME NEW k \in 1 .. Len(t) PROVE t[k] = a + k
  <2>1. CASE k \in 1 .. Len(s)
    BY <1>1, <2>1 DEF From
  <2>2. CASE k = Len(s) + 1
    BY <1>1, <2>2
  <2> QED BY <1>1, <2>1, <2>2
<1>3. From(t, a)
  BY <1>2 DEF From
<1> QED BY <1>1, <1>3 DEF t

\* What a read takes, and what it leaves for the next one.
LEMMA ReadSizes ==
  ASSUME NEW s \in Seq(Nat), s # <<>>, NEW m, m = Min({BUFFLEN, Len(s)})
  PROVE  /\ m \in Nat \ {0} /\ m <= BUFFLEN /\ m <= Len(s) /\ Len(s) \in Nat
         /\ SubSeq(s, 1, m) \in Seq(Nat) /\ Len(SubSeq(s, 1, m)) = m
         /\ SubSeq(s, 1, m) # <<>> /\ Len(SubSeq(s, 1, m)) <= BUFFLEN
         /\ \A k \in 1 .. m : SubSeq(s, 1, m)[k] = s[k]
         /\ Rest(s) \in Seq(Nat) /\ Len(Rest(s)) = Len(s) - m /\ Len(Rest(s)) <= Len(s)
         /\ \A k \in 1 .. Len(s) - m : Rest(s)[k] = s[k + m]
<1>1. BUFFLEN \in Nat \ {0} /\ Len(s) \in Nat \ {0}
  BY SizesAssumption, EmptySeq
<1>2. m \in {BUFFLEN, Len(s)} /\ m <= BUFFLEN /\ m <= Len(s)
  <2>1. \E x \in {BUFFLEN, Len(s)} : \A y \in {BUFFLEN, Len(s)} : x <= y
    BY <1>1
  <2> QED BY <2>1 DEF Min
<1>3. m \in Nat \ {0}
  BY <1>1, <1>2
<1> DEFINE t == SubSeq(s, 1, m)
           r == SubSeq(s, BUFFLEN + 1, Len(s))
<1>4. \A k \in 1 .. Len(s) : s[k] \in Nat
  BY ElementOfSeq
<1>5. t \in Seq(Nat) /\ Len(t) = m /\ \A k \in 1 .. m : t[k] = s[k]
  <2>1. \A k \in 1 .. m : s[k] \in Nat
    BY <1>1, <1>2, <1>4
  <2>2. t \in Seq(Nat) /\ Len(t) = m
    <3>1. m \in Int /\ 1 \in Int /\ 1 <= m /\ m - 1 + 1 = m
      BY <1>3
    <3> QED BY <2>1, <3>1, SubSeqProperties
  <2>3. \A k \in 1 .. m : t[k] = s[k]
    BY <1>3
  <2> HIDE DEF t
  <2> QED BY <2>2, <2>3
<1>6. /\ r \in Seq(Nat) /\ Len(r) = Len(s) - m
      /\ \A k \in 1 .. Len(s) - m : r[k] = s[k + m]
  <2>1. \A k \in BUFFLEN + 1 .. Len(s) : s[k] \in Nat
    BY <1>1, <1>4
  <2>2. BUFFLEN + 1 \in Int /\ Len(s) \in Int
    BY <1>1
  <2>3. /\ r \in Seq(Nat)
        /\ Len(r) = IF BUFFLEN + 1 <= Len(s) THEN Len(s) - (BUFFLEN + 1) + 1 ELSE 0
        /\ \A k \in 1 .. Len(s) - (BUFFLEN + 1) + 1 : r[k] = s[BUFFLEN + 1 + k - 1]
    BY <2>1, <2>2, SubSeqProperties
  <2> HIDE DEF r
  <2>4. CASE m = BUFFLEN
    <3>1. Len(s) - (BUFFLEN + 1) + 1 = Len(s) - m
      BY <1>1, <2>4
    <3>2. \A k \in 1 .. Len(s) - m : BUFFLEN + 1 + k - 1 = k + m
      BY <1>1, <2>4
    <3>3. Len(r) = Len(s) - m
      BY <1>1, <1>2, <2>3, <2>4
    <3> QED BY <2>3, <3>1, <3>2, <3>3
  <2>5. CASE m # BUFFLEN
    <3>1. m = Len(s) /\ ~(BUFFLEN + 1 <= Len(s))
      BY <1>1, <1>2, <2>5
    <3>2. Len(r) = 0 /\ Len(s) - m = 0 /\ 1 .. 0 = {}
      BY <1>1, <2>3, <3>1
    <3>3. 1 .. Len(s) - m = {}
      BY <3>2
    <3> QED BY <2>3, <3>2, <3>3
  <2> QED BY <2>4, <2>5
<1> HIDE DEF t, r
<1>7. t # <<>> /\ Len(t) <= BUFFLEN
  <2>1. Len(t) # 0 /\ Len(t) <= BUFFLEN
    BY <1>2, <1>3, <1>5
  <2> QED BY <2>1, EmptySeq
<1>8. Len(r) <= Len(s)
  <2>1. Len(r) = Len(s) - m
    BY <1>6
  <2> QED BY <1>1, <1>3, <2>1
<1> QED BY <1>1, <1>2, <1>3, <1>5, <1>6, <1>7, <1>8 DEF t, r, Rest

LEMMA FromSplit ==
  ASSUME NEW s \in Seq(Nat), s # <<>>, NEW a \in Int, From(s, a),
         NEW m, m = Min({BUFFLEN, Len(s)})
  PROVE  From(SubSeq(s, 1, m), a) /\ From(Rest(s), a + m)
<1> DEFINE t == SubSeq(s, 1, m)
           r == Rest(s)
<1>1. /\ m \in Nat \ {0} /\ m <= Len(s) /\ Len(s) \in Nat
      /\ Len(t) = m /\ \A k \in 1 .. m : t[k] = s[k]
      /\ Len(r) = Len(s) - m /\ \A k \in 1 .. Len(s) - m : r[k] = s[k + m]
  <2>1. m \in Nat \ {0} /\ m <= Len(s) /\ Len(s) \in Nat
    BY ReadSizes
  <2>2. Len(t) = m
    BY ReadSizes
  <2>3. \A k \in 1 .. m : t[k] = s[k]
    BY <2>1
  <2>4. Len(r) = Len(s) - m
    BY ReadSizes
  <2>5. \A k \in 1 .. Len(s) - m : r[k] = s[k + m]
    BY ReadSizes, Zenon
  <2> HIDE DEF t, r
  <2> QED BY <2>1, <2>2, <2>3, <2>4, <2>5
<1> HIDE DEF t, r
<1>2. From(t, a)
  <2>1. \A k \in 1 .. m : k \in 1 .. Len(s)
    BY <1>1
  <2> QED BY <1>1, <2>1 DEF From
<1>3. From(r, a + m)
  <2> SUFFICES ASSUME NEW k \in 1 .. Len(r) PROVE r[k] = a + m + k
    BY DEF From
  <2>1. k + m \in 1 .. Len(s)
    BY <1>1
  <2>2. r[k] = s[k + m]
    BY <1>1
  <2> QED BY <1>1, <2>1, <2>2 DEF From
<1> QED BY <1>2, <1>3 DEF t, r

-----------------------------------------------------------------------------
(* Steps of a stream *)

LEMMA EmptyFacts ==
  Nil = <<>> /\ Nil \in Seq(Nat) /\ Len(Nil) = 0 /\ \A a : From(Nil, a)
  BY EmptySeq, FromEmpty DEF Nil

LEMMA FlowLengths ==
  ASSUME NEW a \in Int, NEW n, NEW s1, NEW s2, NEW s3, NEW s4, NEW s5,
         Flow(a, n, s1, s2, s3, s4, s5)
  PROVE  /\ Len(s1) \in Nat /\ Len(s2) \in Nat /\ Len(s3) \in Nat
         /\ Len(s4) \in Nat /\ Len(s5) \in Nat /\ n \in Nat
         /\ n = Len(s1) + Len(s2) + Len(s3) + Len(s4) + Len(s5)
  BY LenProperties DEF Flow

\* The first of the second place moves on into the first place ...
LEMMA FlowEnd ==
  ASSUME NEW a \in Int, NEW n, NEW s1, NEW s2, NEW s3, NEW s4, NEW s5,
         Flow(a, n, s1, s2, s3, s4, s5), s2 # <<>>
  PROVE  /\ Flow(a, n, Append(s1, Head(s2)), Tail(s2), s3, s4, s5)
         /\ Head(s2) = a + Len(s1) + 1 /\ Head(s2) \in Nat
         /\ Len(Append(s1, Head(s2))) = Len(s1) + 1 /\ Len(Tail(s2)) = Len(s2) - 1
<1> DEFINE b == a + Len(s1)
           t1 == Append(s1, Head(s2))
           t2 == Tail(s2)
<1>1. /\ s1 \in Seq(Nat) /\ s2 \in Seq(Nat) /\ From(s1, a) /\ From(s2, b) /\ b \in Int
      /\ Len(s1) \in Nat /\ Len(s2) \in Nat /\ Len(s3) \in Nat /\ Len(s4) \in Nat
  BY FlowLengths DEF Flow
<1>2. /\ Head(s2) = b + 1 /\ t2 \in Seq(Nat) /\ From(t2, b + 1) /\ Len(t2) = Len(s2) - 1
      /\ Len(s2) \in Nat \ {0}
  BY <1>1, FromTail
<1>3. Head(s2) \in Nat
  BY <1>1, HeadTailProperties
<1>4. t1 \in Seq(Nat) /\ From(t1, a) /\ Len(t1) = Len(s1) + 1
  BY <1>1, <1>2, <1>3, FromAppend
<1> HIDE DEF t1, t2
<1>5. /\ a + Len(t1) = b + 1
      /\ a + Len(t1) + Len(t2) = a + Len(s1) + Len(s2)
      /\ Len(t1) + Len(t2) = Len(s1) + Len(s2)
  BY <1>1, <1>2, <1>4
<1>6. Flow(a, n, t1, t2, s3, s4, s5)
  BY <1>2, <1>4, <1>5 DEF Flow
<1> QED BY <1>2, <1>3, <1>4, <1>6 DEF t1, t2

\* ... and of the third into the second.
LEMMA FlowSend ==
  ASSUME NEW a \in Int, NEW n, NEW s1, NEW s2, NEW s3, NEW s4, NEW s5,
         Flow(a, n, s1, s2, s3, s4, s5), s3 # <<>>
  PROVE  /\ Flow(a, n, s1, Append(s2, Head(s3)), Tail(s3), s4, s5)
         /\ Head(s3) \in Nat
         /\ Len(Append(s2, Head(s3))) = Len(s2) + 1
         /\ Len(Tail(s3)) = Len(s3) - 1 /\ Len(s3) \in Nat \ {0}
<1> DEFINE b == a + Len(s1) + Len(s2)
           t2 == Append(s2, Head(s3))
           t3 == Tail(s3)
<1>1. /\ s2 \in Seq(Nat) /\ s3 \in Seq(Nat) /\ From(s2, a + Len(s1)) /\ From(s3, b)
      /\ b \in Int /\ a + Len(s1) \in Int
      /\ Len(s1) \in Nat /\ Len(s2) \in Nat /\ Len(s3) \in Nat /\ Len(s4) \in Nat
  BY FlowLengths DEF Flow
<1>2. /\ Head(s3) = b + 1 /\ t3 \in Seq(Nat) /\ From(t3, b + 1) /\ Len(t3) = Len(s3) - 1
      /\ Len(s3) \in Nat \ {0}
  BY <1>1, FromTail
<1>3. Head(s3) \in Nat
  BY <1>1, HeadTailProperties
<1>4. t2 \in Seq(Nat) /\ From(t2, a + Len(s1)) /\ Len(t2) = Len(s2) + 1
  BY <1>1, <1>2, <1>3, FromAppend
<1> HIDE DEF t2, t3
<1>5. /\ a + Len(s1) + Len(t2) = b + 1
      /\ a + Len(s1) + Len(t2) + Len(t3) = a + Len(s1) + Len(s2) + Len(s3)
      /\ Len(s1) + Len(t2) + Len(t3) = Len(s1) + Len(s2) + Len(s3)
  BY <1>1, <1>2, <1>4
<1>6. Flow(a, n, s1, t2, t3, s4, s5)
  BY <1>2, <1>4, <1>5 DEF Flow
<1> QED BY <1>2, <1>3, <1>4, <1>6 DEF t2, t3

\* A read brings what the fourth place holds into the empty third.
LEMMA FlowRead ==
  ASSUME NEW a \in Int, NEW n, NEW s1, NEW s2, NEW s4, NEW s5,
         Flow(a, n, s1, s2, Nil, s4, s5), s4 # <<>>,
         NEW m, m = Min({BUFFLEN, Len(s4)})
  PROVE  /\ Flow(a, n, s1, s2, SubSeq(s4, 1, m), Rest(s4), s5)
         /\ SubSeq(s4, 1, m) # <<>> /\ Len(SubSeq(s4, 1, m)) <= BUFFLEN
         /\ Len(Rest(s4)) <= Len(s4) /\ Rest(s4) \in Seq(Nat)
         /\ SubSeq(s4, 1, m) \in Seq(Nat)
<1> DEFINE b == a + Len(s1) + Len(s2)
           t3 == SubSeq(s4, 1, m)
           t4 == Rest(s4)
<1>1. /\ s4 \in Seq(Nat) /\ From(s4, b + Len(Nil)) /\ b \in Int /\ Len(Nil) = 0
      /\ Len(s1) \in Nat /\ Len(s2) \in Nat /\ Len(s4) \in Nat
  BY FlowLengths, EmptyFacts DEF Flow
<1>2. From(s4, b)
  <2>1. b + Len(Nil) = b
    BY <1>1
  <2> QED BY <1>1, <2>1
<1>3. /\ m \in Nat \ {0} /\ m <= BUFFLEN /\ t3 \in Seq(Nat) /\ Len(t3) = m /\ t3 # <<>>
      /\ From(t3, b)
      /\ t4 \in Seq(Nat) /\ Len(t4) = Len(s4) - m /\ From(t4, b + m)
  BY <1>1, <1>2, FromSplit, ReadSizes
<1> HIDE DEF t3, t4
<1>4. /\ a + Len(s1) + Len(s2) + Len(t3) = b + m
      /\ a + Len(s1) + Len(s2) + Len(t3) + Len(t4) = b + Len(s4)
      /\ Len(s1) + Len(s2) + Len(t3) + Len(t4) = Len(s1) + Len(s2) + Len(s4)
      /\ Len(t3) <= BUFFLEN /\ Len(t4) <= Len(s4)
  <2>1. m \in Nat /\ Len(t3) = m /\ Len(t4) = Len(s4) - m /\ m <= BUFFLEN
    BY <1>3
  <2>2. a + Len(s1) + Len(s2) + Len(t3) = b + m
    BY <2>1
  <2>3. a + Len(s1) + Len(s2) + Len(t3) + Len(t4) = b + Len(s4)
    BY <1>1, <2>1
  <2>4. Len(s1) + Len(s2) + Len(t3) + Len(t4) = Len(s1) + Len(s2) + Len(s4)
    BY <1>1, <2>1
  <2>5. Len(t3) <= BUFFLEN
    BY <2>1
  <2>6. Len(t4) <= Len(s4)
    BY <1>1, <2>1
  <2> QED BY <2>2, <2>3, <2>4, <2>5, <2>6
<1>5. /\ b + Len(s4) = a + Len(s1) + Len(s2) + Len(Nil) + Len(s4)
      /\ Len(s1) + Len(s2) + Len(s4) = Len(s1) + Len(s2) + Len(Nil) + Len(s4)
  BY <1>1
<1>6. Flow(a, n, s1, s2, t3, t4, s5)
  BY <1>3, <1>4, <1>5 DEF Flow
<1> QED BY <1>3, <1>4, <1>6 DEF t3, t4

\* The first of the fifth place moves on into the fourth.
LEMMA FlowWrite ==
  ASSUME NEW a \in Int, NEW n, NEW s1, NEW s2, NEW s3, NEW s4, NEW s5,
         Flow(a, n, s1, s2, s3, s4, s5), s5 # <<>>
  PROVE  /\ Flow(a, n, s1, s2, s3, Append(s4, Head(s5)), Tail(s5))
         /\ Head(s5) \in Nat /\ Len(Append(s4, Head(s5))) = Len(s4) + 1
<1> DEFINE c == a + Len(s1) + Len(s2) + Len(s3)
           b == a + Len(s1) + Len(s2) + Len(s3) + Len(s4)
           t4 == Append(s4, Head(s5))
           t5 == Tail(s5)
<1>1. /\ s4 \in Seq(Nat) /\ s5 \in Seq(Nat) /\ From(s4, c) /\ From(s5, b)
      /\ b \in Int /\ c \in Int /\ Len(s1) \in Nat /\ Len(s2) \in Nat /\ Len(s3) \in Nat
      /\ Len(s4) \in Nat /\ Len(s5) \in Nat
  BY FlowLengths DEF Flow
<1>2. /\ Head(s5) = b + 1 /\ t5 \in Seq(Nat) /\ From(t5, b + 1) /\ Len(t5) = Len(s5) - 1
  BY <1>1, FromTail
<1>3. Head(s5) \in Nat
  BY <1>1, HeadTailProperties
<1>4. t4 \in Seq(Nat) /\ From(t4, c) /\ Len(t4) = Len(s4) + 1
  BY <1>1, <1>2, <1>3, FromAppend
<1> HIDE DEF t4, t5
<1>5. /\ a + Len(s1) + Len(s2) + Len(s3) + Len(t4) = b + 1
      /\ Len(s1) + Len(s2) + Len(s3) + Len(t4) + Len(t5)
           = Len(s1) + Len(s2) + Len(s3) + Len(s4) + Len(s5)
  BY <1>1, <1>2, <1>4
<1>6. Flow(a, n, s1, s2, s3, t4, t5)
  BY <1>2, <1>4, <1>5 DEF Flow
<1> QED BY <1>3, <1>4, <1>6 DEF t4, t5

\* More comes into the empty fifth place.
LEMMA FlowFill ==
  ASSUME NEW a \in Int, NEW n, NEW s1, NEW s2, NEW s3, NEW s4,
         Flow(a, n, s1, s2, s3, s4, Nil),
         NEW t \in Seq(Nat), From(t, a + n)
  PROVE  Flow(a, n + Len(t), s1, s2, s3, s4, t)
<1>1. /\ n = Len(s1) + Len(s2) + Len(s3) + Len(s4) + Len(Nil) /\ Len(Nil) = 0
      /\ Len(s1) \in Nat /\ Len(s2) \in Nat /\ Len(s3) \in Nat /\ Len(s4) \in Nat
      /\ Len(t) \in Nat
  BY FlowLengths, EmptyFacts, LenProperties
<1>2. /\ a + n = a + Len(s1) + Len(s2) + Len(s3) + Len(s4)
      /\ n + Len(t) = Len(s1) + Len(s2) + Len(s3) + Len(s4) + Len(t)
  BY <1>1
<1> QED BY <1>2 DEF Flow

\* What is behind the first two places, or behind the first, is lost.
LEMMA FlowCut ==
  ASSUME NEW a \in Int, NEW n, NEW s1, NEW s2, NEW s3, NEW s4, NEW s5,
         Flow(a, n, s1, s2, s3, s4, s5)
  PROVE  /\ Flow(a, Len(s1) + Len(s2), s1, s2, Nil, Nil, Nil)
         /\ Flow(a, Len(s1), s1, Nil, Nil, Nil, Nil)
         /\ Len(s1) + Len(s2) <= n /\ Len(s1) <= n
         /\ Len(s1) + Len(s2) \in Nat /\ Len(s1) \in Nat
<1>1. /\ n = Len(s1) + Len(s2) + Len(s3) + Len(s4) + Len(s5) /\ Len(Nil) = 0
      /\ Len(s1) \in Nat /\ Len(s2) \in Nat /\ Len(s3) \in Nat /\ Len(s4) \in Nat
      /\ Len(s5) \in Nat /\ Nil \in Seq(Nat) /\ \A b : From(Nil, b)
  BY FlowLengths, EmptyFacts
<1>2. /\ Len(s1) + Len(s2) = Len(s1) + Len(s2) + Len(Nil) + Len(Nil) + Len(Nil)
      /\ Len(s1) = Len(s1) + Len(Nil) + Len(Nil) + Len(Nil) + Len(Nil)
  BY <1>1
<1> QED BY <1>1, <1>2 DEF Flow

-----------------------------------------------------------------------------
(* Steps of the system *)

\* What the types say of one client.
LEMMA Values ==
  ASSUME Types, NEW c \in Clients
  PROVE  /\ sent[c] \in Nat /\ ses[c] \in {"open", "closed"}
         /\ pin[c] \in Seq(Nat) /\ pout[c] \in Seq(Nat)
         /\ up[c] \in Seq(Nat) /\ down[c] \in Seq(Nat)
         /\ taken[c] \in Seq(Nat) /\ got[c] \in Seq(Nat)
         /\ relay[c] \in Relays
         /\ relay[c].pc \in Pcs /\ relay[c].ready \in SUBSET {"stdin", "ncxsock"}
         /\ relay[c].msgbuff \in Seq(Nat)
         /\ server.to \in Clients \cup {Nobody} /\ server.left \in Seq(Nat)
         /\ server.last \in BOOLEAN
         /\ Requests[c] \in Nat \ {0} /\ ReplySize \in Nat \ {0}
         /\ c # Nobody
<1>1. relay[c] \in Relays
  BY DEF Types
<1>2. /\ relay[c].pc \in Pcs /\ relay[c].ready \in SUBSET {"stdin", "ncxsock"}
      /\ relay[c].msgbuff \in Seq(Nat)
  BY <1>1 DEF Relays
<1>3. server \in [to : Clients \cup {Nobody}, left : Seq(Nat), last : BOOLEAN]
  BY DEF Types
<1>4. /\ server.to \in Clients \cup {Nobody} /\ server.left \in Seq(Nat)
      /\ server.last \in BOOLEAN
  BY <1>3
<1>5. Requests[c] \in Nat \ {0} /\ ReplySize \in Nat \ {0} /\ c # Nobody
  BY SizesAssumption
<1> QED BY <1>1, <1>2, <1>4, <1>5 DEF Types

\* A step leaves client d, its process and its session alone.
Same(d) ==
  /\ sent'[d] = sent[d] /\ ses'[d] = ses[d] /\ (d \in gone' <=> d \in gone)
  /\ pin'[d] = pin[d] /\ pout'[d] = pout[d] /\ up'[d] = up[d] /\ down'[d] = down[d]
  /\ taken'[d] = taken[d] /\ got'[d] = got[d] /\ relay'[d] = relay[d]
  /\ server' = server \/ (server.to # d /\ server'.to # d)

\* Nothing that Sound says of a client depends on what the others do.
LEMMA Unmoved ==
  ASSUME NEW d \in Clients, Sound(d), Same(d)
  PROVE  Sound(d)'
<1>1. Sizes(d)'
  BY DEF Sound, Same, Sizes
<1>2. (UpBuffer(d)' = UpBuffer(d)) /\ (OutBuffer(d)' = OutBuffer(d)) /\ (Left(d)' = Left(d))
  BY DEF Same, UpBuffer, OutBuffer, Left, At
<1>3. Upward(d)'
  BY <1>2 DEF Sound, Same, Upward, At
<1>4. Downward(d)'
  BY <1>2 DEF Sound, Same, Downward, At
<1>5. Ends(d)'
  BY DEF Sound, Same, Ends, At
<1> QED BY <1>1, <1>3, <1>4, <1>5 DEF Sound

LEMMA OneMoves ==
  ASSUME IInv, NEW c \in Clients, Types', Sound(c)',
         \A d \in Clients \ {c} : Same(d)
  PROVE  IInv'
<1> SUFFICES ASSUME NEW d \in Clients PROVE Sound(d)'
  BY DEF IInv
<1>1. CASE d = c
  BY <1>1
<1>2. CASE d # c
  BY <1>2, Unmoved DEF IInv
<1> QED BY <1>1, <1>2

\* A request goes in behind the others.
LEMMA SendKeeps ==
  ASSUME IInv, NEW c \in Clients, Send(c)
  PROVE  IInv'
<1>0. /\ gone' = gone /\ got' = got /\ pout' = pout /\ relay' = relay /\ up' = up
      /\ down' = down /\ ses' = ses /\ server' = server /\ taken' = taken
  BY DEF Send, serverVars
<1> DEFINE x == sent[c] + 1
           p == Append(pin[c], x)
<1>1. /\ Types /\ Sound(c) /\ sent[c] \in Nat /\ pin[c] \in Seq(Nat) /\ Requests[c] \in Nat
  BY Values DEF IInv
<1>2. /\ sent' = [sent EXCEPT ![c] = x] /\ pin' = [pin EXCEPT ![c] = p]
      /\ sent'[c] = x /\ pin'[c] = p
  <2>1. sent' = [sent EXCEPT ![c] = x] /\ sent'[c] = x
    BY <1>1 DEF Send, Types
  <2>2. pin' = [pin EXCEPT ![c] = p]
    BY <2>1 DEF Send
  <2>3. pin'[c] = p
    BY <2>2 DEF Types, IInv
  <2> QED BY <2>1, <2>2, <2>3
<1>3. /\ p \in Seq(Nat) /\ Len(p) = Len(pin[c]) + 1 /\ p # <<>> /\ Len(pin[c]) \in Nat
  BY <1>1, AppendProperties, LenProperties
<1> HIDE DEF p
<1>4. Types'
  <2>1. sent' \in [Clients -> Nat]
    BY <1>1, <1>2 DEF Types
  <2>2. pin' \in [Clients -> Seq(Nat)]
    BY <1>1, <1>2, <1>3 DEF Types
  <2> QED BY <1>0, <1>1, <2>1, <2>2 DEF Types
<1>5. \A d \in Clients \ {c} : Same(d)
  BY <1>0, <1>1, <1>2 DEF Same, Types
<1>6. Sizes(c)'
  BY <1>1, <1>2, <1>3, SizesAssumption DEF Send, Sound, Sizes, serverVars
<1>7. Upward(c)'
  <2>1. PICK n \in Nat : /\ Flow(Before, n, taken[c], up[c], UpBuffer(c), pin[c], Nil)
                         /\ n = sent[c] + 1
    BY <1>1 DEF Send, Sound, Upward, At
  <2> DEFINE t == <<x>>
  <2>2. /\ t \in Seq(Nat) /\ Len(t) = 1 /\ Head(t) = x /\ Tail(t) = Nil
        /\ t # <<>> /\ From(t, Before + n) /\ Before \in Int
    <3>1. /\ t \in Seq(Nat) /\ Len(t) = 1 /\ Head(t) = x /\ Tail(t) = <<>>
          /\ t # <<>> /\ t[1] = x
      BY <1>1
    <3>2. x = Before + n + 1 /\ Before \in Int
      BY <1>1, <2>1 DEF Before
    <3> HIDE DEF t
    <3>3. \A k \in 1 .. Len(t) : t[k] = Before + n + k
      BY <3>1, <3>2
    <3>4. Before \in Int /\ From(t, Before + n)
      BY <3>2, <3>3 DEF From
    <3> QED BY <3>1, <3>4, EmptyFacts
  <2> HIDE DEF t
  <2>3. Flow(Before, n + 1, taken[c], up[c], UpBuffer(c), pin[c], t)
    <3>1. Flow(Before, n + Len(t), taken[c], up[c], UpBuffer(c), pin[c], t)
      BY <2>1, <2>2, FlowFill
    <3> QED BY <2>2, <3>1
  <2>4. Flow(Before, n + 1, taken[c], up[c], UpBuffer(c), p, Nil)
    <3>1. Flow(Before, n + 1, taken[c], up[c], UpBuffer(c), Append(pin[c], Head(t)), Tail(t))
      BY <2>2, <2>3, FlowWrite
    <3> QED BY <2>2, <3>1 DEF p
  <2>5. n + 1 = sent'[c] + 1 /\ n + 1 \in Nat
    BY <1>2, <2>1
  <2>6. /\ taken' = taken /\ up' = up /\ relay' = relay /\ (UpBuffer(c)' = UpBuffer(c))
        /\ ~At(c, "ended")'
    BY DEF Send, UpBuffer, At, serverVars
  <2> QED BY <1>2, <2>4, <2>5, <2>6 DEF Upward
<1>8. Downward(c)'
  <2>1. (OutBuffer(c)' = OutBuffer(c)) /\ (Left(c)' = Left(c))
    BY DEF Send, OutBuffer, Left, At, serverVars
  <2> QED BY <1>1, <2>1 DEF Send, Sound, Downward, At, serverVars
<1>9. Ends(c)'
  BY <1>1, <1>2, <1>3 DEF Send, Sound, Ends, At, serverVars
<1>10. Sound(c)'
  BY <1>6, <1>7, <1>8, <1>9 DEF Sound
<1> QED BY <1>4, <1>5, <1>10, OneMoves

\* The client takes the next part of its replies.
LEMMA ReceiveKeeps ==
  ASSUME IInv, NEW c \in Clients, Receive(c)
  PROVE  IInv'
<1> DEFINE g == Append(got[c], Head(pout[c]))
           p == Tail(pout[c])
<1>1. /\ Types /\ Sound(c) /\ got[c] \in Seq(Nat) /\ pout[c] \in Seq(Nat) /\ pout[c] # <<>>
  BY Values DEF IInv, Receive
<1>2. /\ got' = [got EXCEPT ![c] = g] /\ pout' = [pout EXCEPT ![c] = p]
      /\ got'[c] = g /\ pout'[c] = p
  BY <1>1 DEF Receive, Types
<1>3. /\ Head(pout[c]) \in Nat /\ p \in Seq(Nat) /\ Len(p) = Len(pout[c]) - 1
      /\ Len(pout[c]) \in Nat \ {0}
  BY <1>1, HeadTailProperties, EmptySeq
<1>4. g \in Seq(Nat) /\ Len(g) = Len(got[c]) + 1 /\ Len(got[c]) \in Nat
  BY <1>1, <1>3, AppendProperties, LenProperties
<1>5. Len(g) + Len(p) = Len(got[c]) + Len(pout[c])
  <2> HIDE DEF g, p
  <2>1. Len(g) = Len(got[c]) + 1 /\ Len(got[c]) \in Nat
    BY <1>4
  <2>2. Len(p) = Len(pout[c]) - 1 /\ Len(pout[c]) \in Nat
    BY <1>3
  <2>3. Len(g) + Len(p) = (Len(got[c]) + 1) + (Len(pout[c]) - 1)
    BY <2>1, <2>2
  <2>4. \A k, l \in Nat : (k + 1) + (l - 1) = k + l
    OBVIOUS
  <2> QED BY <2>1, <2>2, <2>3, <2>4
<1>6. /\ c \notin gone /\ gone' = gone /\ taken' = taken /\ relay' = relay /\ down' = down
      /\ server' = server /\ up' = up /\ pin' = pin /\ sent' = sent /\ ses' = ses
  BY DEF Receive, serverVars
<1>7. (UpBuffer(c)' = UpBuffer(c)) /\ (OutBuffer(c)' = OutBuffer(c)) /\ (Left(c)' = Left(c))
  BY <1>6 DEF UpBuffer, OutBuffer, Left, At
<1>8. Downward(c)'
  <2>1. PICK n \in Nat :
          /\ n <= Len(taken[c]) * ReplySize
          /\ IF At(c, "ended") THEN Flow(0, n, got[c], pout[c], Nil, Nil, Nil)
             ELSE /\ Flow(0, n, got[c], pout[c], OutBuffer(c), down[c], Left(c))
                  /\ n = Len(taken[c]) * ReplySize
    BY <1>1, <1>6 DEF Sound, Downward
  <2>2. CASE At(c, "ended")
    <3>1. Flow(0, n, g, p, Nil, Nil, Nil)
      <4>1. 0 \in Int /\ Flow(0, n, got[c], pout[c], Nil, Nil, Nil) /\ pout[c] # <<>>
        BY <1>1, <2>1, <2>2
      <4> QED BY <4>1, FlowEnd, Zenon
    <3> HIDE DEF g, p
    <3> QED BY <1>2, <1>6, <2>1, <2>2, <3>1 DEF Downward, At
  <2>3. CASE ~At(c, "ended")
    <3>1. Flow(0, n, g, p, OutBuffer(c), down[c], Left(c))
      <4>1. 0 \in Int /\ Flow(0, n, got[c], pout[c], OutBuffer(c), down[c], Left(c))
            /\ pout[c] # <<>>
        BY <1>1, <2>1, <2>3
      <4> QED BY <4>1, FlowEnd, Zenon
    <3> HIDE DEF g, p
    <3> QED BY <1>2, <1>6, <1>7, <2>1, <2>3, <3>1 DEF Downward, At
  <2> QED BY <2>2, <2>3
<1> HIDE DEF g, p
<1>9. Types'
  BY <1>1, <1>2, <1>3, <1>4, <1>6 DEF Types
<1>10. \A d \in Clients \ {c} : Same(d)
  <2> SUFFICES ASSUME NEW d \in Clients \ {c} PROVE Same(d)
    OBVIOUS
  <2>1. got'[d] = got[d] /\ pout'[d] = pout[d]
    BY <1>1, <1>2 DEF Types
  <2> QED BY <1>6, <2>1 DEF Same
<1>11. Sizes(c)'
  BY <1>1, <1>2, <1>3, <1>6, SizesAssumption DEF Sound, Sizes
<1>12. Upward(c)'
  BY <1>1, <1>6, <1>7 DEF Sound, Upward, At
<1>13. Ends(c)'
  BY <1>1, <1>2, <1>5, <1>6 DEF Sound, Ends, At
<1> QED BY <1>8, <1>9, <1>10, <1>11, <1>12, <1>13, OneMoves DEF Sound

LEMMA HangUpKeeps ==
  ASSUME IInv, NEW c \in Clients, HangUp(c)
  PROVE  IInv'
<1>1. /\ Types /\ Sound(c) /\ Sizes(c) /\ pout' = [pout EXCEPT ![c] = <<>>] /\ pout'[c] = <<>>
      /\ c \notin gone /\ gone' = gone \cup {c} /\ c \in gone' /\ PipeCap \in Nat
      /\ got' = got /\ taken' = taken /\ relay' = relay /\ down' = down
      /\ server' = server /\ up' = up /\ pin' = pin /\ sent' = sent /\ ses' = ses
  BY SizesAssumption DEF IInv, HangUp, Types, serverVars, Sound
<1>2. (UpBuffer(c)' = UpBuffer(c))
  BY <1>1 DEF UpBuffer, At
<1>3. Types'
  BY <1>1, EmptyFacts DEF Types
<1>4. \A d \in Clients \ {c} : Same(d)
  BY <1>1 DEF Same, Types
<1>5. Sizes(c)'
  BY <1>1, EmptyFacts DEF Sizes
<1>6. Upward(c)'
  BY <1>1, <1>2 DEF Sound, Upward, At
<1>7. Downward(c)'
  <2>1. PICK n \in Nat :
          /\ n <= Len(taken[c]) * ReplySize
          /\ \E s2, s3, s4, s5 : Flow(0, n, got[c], s2, s3, s4, s5)
    BY <1>1 DEF Sound, Downward
  <2>2. PICK s2, s3, s4, s5 : Flow(0, n, got[c], s2, s3, s4, s5)
    BY <2>1
  <2> DEFINE m == Len(got[c])
  <2>3. Flow(0, m, got[c], Nil, Nil, Nil, Nil) /\ m <= n /\ m \in Nat
    BY <2>2, FlowCut
  <2>4. Len(taken[c]) * ReplySize \in Nat
    BY <1>1, Values, LenProperties
  <2> HIDE DEF m
  <2>5. m <= Len(taken[c]) * ReplySize
    BY <2>1, <2>3, <2>4
  <2> QED BY <1>1, <2>3, <2>5 DEF Downward
<1>8. Ends(c)'
  BY <1>1 DEF Sound, Ends, At
<1> QED BY <1>3, <1>4, <1>5, <1>6, <1>7, <1>8, OneMoves DEF Sound

\* The process may end when its client has gone, or has all its replies.
LEMMA CleanupKeeps ==
  ASSUME IInv, NEW c \in Clients, cleanup_subsys(c),
         c \in gone \/ Len(got[c]) + Len(pout[c]) = (Requests[c] + 1) * ReplySize
  PROVE  IInv'
<1>0. /\ sent' = sent /\ gone' = gone /\ got' = got /\ pout' = pout /\ up' = up
      /\ ses' = ses /\ server' = server /\ taken' = taken
      /\ relay' = [relay EXCEPT ![c] = Ended]
      /\ pin' = [pin EXCEPT ![c] = <<>>] /\ down' = [down EXCEPT ![c] = <<>>]
  BY DEF cleanup_subsys, clientVars, serverVars
<1>1. Types /\ Sound(c) /\ Upward(c) /\ Downward(c) /\ Sizes(c) /\ Ends(c) /\ sent[c] \in Nat
  BY Values DEF IInv, Sound
<1>2. /\ relay'[c] = Ended /\ pin'[c] = <<>> /\ down'[c] = <<>>
      /\ relay'[c].pc = "ended" /\ relay'[c].msgbuff = <<>>
  BY <1>0, <1>1 DEF Types, Ended
<1>3. Types'
  <2>1. Ended \in Relays
    BY EmptySeq DEF Ended, Relays, Pcs
  <2>2. relay' \in [Clients -> Relays]
    BY <1>0, <1>1, <2>1 DEF Types
  <2>3. pin' \in [Clients -> Seq(Nat)] /\ down' \in [Clients -> Seq(Nat)]
    BY <1>0, <1>1, EmptySeq DEF Types
  <2> QED BY <1>0, <1>1, <2>2, <2>3 DEF Types
<1>4. \A d \in Clients \ {c} : Same(d)
  BY <1>0, <1>1 DEF Same, Types
<1>5. Sizes(c)'
  <2>1. Len(<<>>) = 0 /\ UpCap \in Nat /\ DownCap \in Nat /\ PipeCap \in Nat /\ BUFFLEN \in Nat
    BY SizesAssumption
  <2> QED BY <1>0, <1>1, <1>2, <2>1 DEF Sizes
<1>6. (UpBuffer(c)' = Nil) /\ At(c, "ended")'
  BY <1>2 DEF UpBuffer, At
<1>7. Upward(c)'
  <2>1. PICK n \in Nat :
          /\ Flow(Before, n, taken[c], up[c], UpBuffer(c), pin[c], Nil)
          /\ n <= sent[c] + 1
    BY <1>1 DEF Upward
  <2> DEFINE m == Len(taken[c]) + Len(up[c])
  <2>2. Flow(Before, m, taken[c], up[c], Nil, Nil, Nil) /\ m <= n /\ m \in Nat
    <3>1. Before \in Int
      BY DEF Before
    <3> QED BY <2>1, <3>1, FlowCut
  <2> HIDE DEF m
  <2>3. m <= sent[c] + 1
    BY <1>1, <2>1, <2>2
  <2> QED BY <1>0, <1>2, <1>6, <2>2, <2>3, EmptyFacts DEF Upward
<1>8. Downward(c)'
  <2>1. CASE c \in gone
    BY <1>0, <1>1, <2>1 DEF Downward
  <2>2. CASE c \notin gone
    <3>1. PICK n \in Nat :
            /\ n <= Len(taken[c]) * ReplySize
            /\ \E s3, s4, s5 : Flow(0, n, got[c], pout[c], s3, s4, s5)
      BY <1>1, <2>2 DEF Downward
    <3>2. PICK s3, s4, s5 : Flow(0, n, got[c], pout[c], s3, s4, s5)
      BY <3>1
    <3> DEFINE m == Len(got[c]) + Len(pout[c])
    <3>3. Flow(0, m, got[c], pout[c], Nil, Nil, Nil) /\ m <= n /\ m \in Nat
      <4>1. 0 \in Int
        OBVIOUS
      <4>2. /\ Flow(0, Len(got[c]) + Len(pout[c]), got[c], pout[c], Nil, Nil, Nil)
            /\ Len(got[c]) + Len(pout[c]) <= n /\ Len(got[c]) + Len(pout[c]) \in Nat
        BY <3>2, <4>1, FlowCut
      <4> QED BY <4>2
    <3>4. Len(taken[c]) * ReplySize \in Nat
      BY <1>1, Values, LenProperties
    <3> HIDE DEF m
    <3>5. m <= Len(taken[c]) * ReplySize
      BY <3>1, <3>3, <3>4
    <3> QED BY <1>0, <1>6, <2>2, <3>3, <3>5 DEF Downward
  <2> QED BY <2>1, <2>2
<1>9. Ends(c)'
  BY <1>0, <1>1, <1>2 DEF Ends, At
<1> QED BY <1>3, <1>4, <1>5, <1>7, <1>8, <1>9, OneMoves DEF Sound

\* A step of the process that touches nothing but its own place, and no buffer.
LEMMA SelectKeeps ==
  ASSUME IInv, NEW c \in Clients, select(c)
  PROVE  IInv'
<1> DEFINE ready == {fd \in {"stdin", "ncxsock"} :
                       IF fd = "stdin" THEN pin[c] # <<>> \/ c \in gone
                       ELSE down[c] # <<>> \/ ses[c] = "closed"}
<1>0. /\ sent' = sent /\ gone' = gone /\ got' = got /\ pout' = pout /\ up' = up
      /\ ses' = ses /\ server' = server /\ taken' = taken /\ pin' = pin /\ down' = down
  BY DEF select, clientVars, serverVars
<1>1. Types /\ Sound(c) /\ Upward(c) /\ Downward(c) /\ Sizes(c) /\ Ends(c)
  BY DEF IInv, Sound
<1>2. /\ relay[c].pc = "select" /\ ready \in SUBSET {"stdin", "ncxsock"}
      /\ relay' = [relay EXCEPT ![c].pc = First(ready), ![c].ready = ready]
      /\ ("stdin" \in ready <=> pin[c] # <<>> \/ c \in gone)
  BY DEF select, At
<1> HIDE DEF ready
<1>3. First(ready) \in {"stdin", "sock", "select"} /\ (First(ready) = "stdin" <=> "stdin" \in ready)
  BY DEF First, Then
<1>4. /\ relay'[c].pc = First(ready) /\ relay'[c].msgbuff = relay[c].msgbuff
      /\ relay'[c] \in Relays
  <2>1. relay[c] \in Relays /\ First(ready) \in Pcs
    BY <1>1, <1>3, Values DEF Pcs
  <2>2. relay'[c] = [[relay[c] EXCEPT !.pc = First(ready)] EXCEPT !.ready = ready]
    BY <1>1, <1>2 DEF Types
  <2> QED BY <1>2, <2>1, <2>2 DEF Relays
<1>5. Types'
  <2>1. relay' \in [Clients -> Relays]
    BY <1>1, <1>2, <1>4 DEF Types
  <2> QED BY <1>0, <1>1, <2>1 DEF Types
<1>6. \A d \in Clients \ {c} : Same(d)
  BY <1>0, <1>1, <1>2 DEF Same, Types
<1>7. (UpBuffer(c)' = UpBuffer(c)) /\ (OutBuffer(c)' = OutBuffer(c)) /\ (Left(c)' = Left(c))
  BY <1>0, <1>2, <1>3, <1>4 DEF UpBuffer, OutBuffer, Left, At
<1>8. ~At(c, "ended") /\ ~At(c, "ended")'
  BY <1>2, <1>3, <1>4 DEF At
<1>9. Sizes(c)'
  BY <1>0, <1>1, <1>2, <1>3, <1>4 DEF Sizes
<1>10. Upward(c)'
  BY <1>0, <1>1, <1>7, <1>8 DEF Upward
<1>11. Downward(c)'
  BY <1>0, <1>1, <1>7, <1>8 DEF Downward
<1>12. Ends(c)'
  BY <1>0, <1>1, <1>2, <1>3, <1>4, <1>8 DEF Ends, At
<1> QED BY <1>5, <1>6, <1>9, <1>10, <1>11, <1>12, OneMoves DEF Sound

\* What the process has read of its pipe waits in the buffer.
LEMMA ReadStdinKeeps ==
  ASSUME IInv, NEW c \in Clients, read_stdin(c)
  PROVE  IInv'
<1> DEFINE m == Min({BUFFLEN, Len(pin[c])})
           b == SubSeq(pin[c], 1, m)
           p == Rest(pin[c])
<1>0. /\ sent' = sent /\ gone' = gone /\ got' = got /\ pout' = pout /\ up' = up
      /\ ses' = ses /\ server' = server /\ taken' = taken /\ down' = down
      /\ pin' = [pin EXCEPT ![c] = p] /\ pin[c] # <<>> /\ relay[c].pc = "stdin"
      /\ relay' = [relay EXCEPT ![c].msgbuff = b, ![c].pc = "send_up"]
  BY DEF read_stdin, do_read, At, clientVars, serverVars
<1>1. Types /\ Sound(c) /\ Upward(c) /\ Downward(c) /\ Sizes(c) /\ Ends(c)
  BY DEF IInv, Sound
<1>2. PICK n \in Nat :
        /\ Flow(Before, n, taken[c], up[c], Nil, pin[c], Nil)
        /\ n = sent[c] + 1
  BY <1>0, <1>1 DEF Upward, UpBuffer, At
<1>3. /\ Flow(Before, n, taken[c], up[c], b, p, Nil)
      /\ b # <<>> /\ Len(b) <= BUFFLEN /\ Len(p) <= Len(pin[c])
      /\ p \in Seq(Nat) /\ b \in Seq(Nat)
  <2>1. Before \in Int
    BY DEF Before
  <2> HIDE DEF m
  <2>2. m = Min({BUFFLEN, Len(pin[c])})
    BY DEF m
  <2> QED BY <1>0, <1>2, <2>1, <2>2, FlowRead
<1> HIDE DEF b, p
<1>4. /\ relay'[c].pc = "send_up" /\ relay'[c].msgbuff = b /\ relay'[c] \in Relays
      /\ pin'[c] = p
  <2>1. relay[c] \in Relays
    BY <1>1, Values
  <2>2. relay'[c] = [[relay[c] EXCEPT !.msgbuff = b] EXCEPT !.pc = "send_up"] /\ pin'[c] = p
    BY <1>0, <1>1 DEF Types
  <2> QED BY <1>3, <2>1, <2>2 DEF Relays, Pcs
<1>5. Types'
  <2>1. relay' \in [Clients -> Relays]
    BY <1>0, <1>1, <1>4 DEF Types
  <2>2. pin' \in [Clients -> Seq(Nat)]
    BY <1>0, <1>1, <1>3 DEF Types
  <2> QED BY <1>0, <1>1, <2>1, <2>2 DEF Types
<1>6. \A d \in Clients \ {c} : Same(d)
  BY <1>0, <1>1 DEF Same, Types
<1>7. /\ (UpBuffer(c)' = b) /\ (OutBuffer(c)' = OutBuffer(c)) /\ (Left(c)' = Left(c))
      /\ ~At(c, "ended") /\ ~At(c, "ended")'
  BY <1>0, <1>4 DEF UpBuffer, OutBuffer, Left, At
<1>8. Sizes(c)'
  <2>1. Len(p) <= PipeCap
    <3>1. Len(p) \in Nat /\ Len(pin[c]) \in Nat /\ PipeCap \in Nat /\ Len(pin[c]) <= PipeCap
      BY <1>1, <1>3, Values, LenProperties, SizesAssumption DEF Sizes
    <3> QED BY <1>3, <3>1
  <2> QED BY <1>0, <1>1, <1>3, <1>4, <2>1 DEF Sizes
<1>9. Upward(c)'
  BY <1>0, <1>2, <1>3, <1>4, <1>7 DEF Upward
<1>10. Downward(c)'
  BY <1>0, <1>1, <1>7 DEF Downward
<1>11. Ends(c)'
  BY <1>0, <1>1, <1>4, <1>7 DEF Ends, At
<1> QED BY <1>5, <1>6, <1>8, <1>9, <1>10, <1>11, OneMoves DEF Sound

\* The same on the way down.
LEMMA ReadSockKeeps ==
  ASSUME IInv, NEW c \in Clients, read_sock(c)
  PROVE  IInv'
<1> DEFINE m == Min({BUFFLEN, Len(down[c])})
           b == SubSeq(down[c], 1, m)
           p == Rest(down[c])
<1>0. /\ sent' = sent /\ gone' = gone /\ got' = got /\ pout' = pout /\ up' = up
      /\ ses' = ses /\ server' = server /\ taken' = taken /\ pin' = pin
      /\ down' = [down EXCEPT ![c] = p] /\ down[c] # <<>> /\ relay[c].pc = "sock"
      /\ relay' = [relay EXCEPT ![c].msgbuff = b, ![c].pc = "send_out"]
  BY DEF read_sock, do_read, At, clientVars, serverVars
<1>1. Types /\ Sound(c) /\ Upward(c) /\ Downward(c) /\ Sizes(c) /\ Ends(c)
  BY DEF IInv, Sound
<1>2. /\ b # <<>> /\ Len(b) <= BUFFLEN /\ Len(p) <= Len(down[c])
      /\ p \in Seq(Nat) /\ b \in Seq(Nat)
      /\ \A n \in Nat : Flow(0, n, got[c], pout[c], Nil, down[c], Left(c))
                          => Flow(0, n, got[c], pout[c], b, p, Left(c))
  <2>1. 0 \in Int
    OBVIOUS
  <2> HIDE DEF m
  <2>2. m = Min({BUFFLEN, Len(down[c])})
    BY DEF m
  <2>3. \A n \in Nat : Flow(0, n, got[c], pout[c], Nil, down[c], Left(c))
                          => Flow(0, n, got[c], pout[c], b, p, Left(c))
    BY <1>0, <2>1, <2>2, FlowRead
  <2>4. /\ b # <<>> /\ Len(b) <= BUFFLEN /\ Len(p) <= Len(down[c])
        /\ p \in Seq(Nat) /\ b \in Seq(Nat)
    <3>1. down[c] \in Seq(Nat)
      BY <1>1, Values
    <3> QED BY <1>0, <2>2, <3>1, ReadSizes
  <2> QED BY <2>3, <2>4
<1> HIDE DEF b, p
<1>4. /\ relay'[c].pc = "send_out" /\ relay'[c].msgbuff = b /\ relay'[c] \in Relays
      /\ down'[c] = p
  <2>1. relay[c] \in Relays
    BY <1>1, Values
  <2>2. relay'[c] = [[relay[c] EXCEPT !.msgbuff = b] EXCEPT !.pc = "send_out"] /\ down'[c] = p
    BY <1>0, <1>1 DEF Types
  <2> QED BY <1>2, <2>1, <2>2 DEF Relays, Pcs
<1>5. Types'
  <2>1. relay' \in [Clients -> Relays]
    BY <1>0, <1>1, <1>4 DEF Types
  <2>2. down' \in [Clients -> Seq(Nat)]
    BY <1>0, <1>1, <1>2 DEF Types
  <2> QED BY <1>0, <1>1, <2>1, <2>2 DEF Types
<1>6. \A d \in Clients \ {c} : Same(d)
  BY <1>0, <1>1 DEF Same, Types
<1>7. /\ (UpBuffer(c)' = UpBuffer(c)) /\ (OutBuffer(c)' = b) /\ OutBuffer(c) = Nil
      /\ (Left(c)' = Left(c)) /\ ~At(c, "ended") /\ ~At(c, "ended")'
  BY <1>0, <1>4 DEF UpBuffer, OutBuffer, Left, At
<1>8. Sizes(c)'
  <2>1. Len(p) <= DownCap
    <3>1. Len(p) \in Nat /\ Len(down[c]) \in Nat /\ DownCap \in Nat /\ Len(down[c]) <= DownCap
      BY <1>1, <1>2, Values, LenProperties, SizesAssumption DEF Sizes
    <3> QED BY <1>2, <3>1
  <2> QED BY <1>0, <1>1, <1>2, <1>4, <2>1 DEF Sizes
<1>9. Upward(c)'
  BY <1>0, <1>1, <1>7 DEF Upward
<1>10. Downward(c)'
  BY <1>0, <1>1, <1>2, <1>4, <1>7 DEF Downward
<1>11. Ends(c)'
  BY <1>0, <1>1, <1>4, <1>7 DEF Ends, At
<1> QED BY <1>5, <1>6, <1>8, <1>9, <1>10, <1>11, OneMoves DEF Sound

\* One request goes from the buffer into the socket.
LEMMA SendUpKeeps ==
  ASSUME IInv, NEW c \in Clients, send_up(c)
  PROVE  IInv'
<1> DEFINE b == relay[c].msgbuff
           u == Append(up[c], Head(b))
           r == Tail(b)
           pc == IF Len(b) = 1 THEN Then(relay[c].ready) ELSE relay[c].pc
<1>1. /\ Types /\ Sound(c) /\ Upward(c) /\ Downward(c) /\ Sizes(c) /\ Ends(c)
      /\ relay[c].pc = "send_up" /\ b # <<>> /\ b \in Seq(Nat) /\ up[c] \in Seq(Nat)
  BY Values DEF IInv, Sound, send_up, At, Sizes
<1>2. PICK n \in Nat :
        /\ Flow(Before, n, taken[c], up[c], b, pin[c], Nil)
        /\ n = sent[c] + 1
  BY <1>1 DEF Upward, UpBuffer, At
<1>3. Before \in Int
  BY DEF Before
<1>4. /\ Flow(Before, n, taken[c], u, r, pin[c], Nil)
      /\ Head(b) \in Nat /\ Len(u) = Len(up[c]) + 1 /\ Len(r) = Len(b) - 1
      /\ Len(b) \in Nat \ {0}
  <2> HIDE DEF b
  <2> QED BY <1>1, <1>2, <1>3, FlowSend
\* As long as it has something to send, the server has not taken the last request.
<1>5. ses[c] = "open"
  <2> SUFFICES ASSUME ses[c] = "closed" PROVE FALSE
    BY <1>1, Values
  <2>1. Len(taken[c]) = Requests[c] + 1
    BY <1>1 DEF Ends, At
  <2>2. /\ n = Len(taken[c]) + Len(up[c]) + Len(b) + Len(pin[c]) + Len(Nil)
        /\ Len(up[c]) \in Nat /\ Len(pin[c]) \in Nat /\ Len(Nil) \in Nat
        /\ Len(taken[c]) \in Nat
    <3> HIDE DEF b
    <3>1. n = Len(taken[c]) + Len(up[c]) + Len(b) + Len(pin[c]) + Len(Nil)
      BY <1>2 DEF Flow
    <3> QED BY <1>1, <3>1, Values, LenProperties, EmptyFacts
  <2>3. sent[c] <= Requests[c] /\ sent[c] \in Nat /\ Requests[c] \in Nat
    BY <1>1, Values DEF Sizes
  <2>4. Len(b) \in Nat \ {0}
    BY <1>4
  <2> HIDE DEF b
  <2> QED BY <1>2, <2>1, <2>2, <2>3, <2>4
<1>6. /\ sent' = sent /\ gone' = gone /\ got' = got /\ pout' = pout /\ pin' = pin
      /\ ses' = ses /\ server' = server /\ taken' = taken /\ down' = down
      /\ up' = [up EXCEPT ![c] = u] /\ Len(up[c]) < UpCap
      /\ relay' = [relay EXCEPT ![c].msgbuff = r, ![c].pc = pc]
  BY <1>1, <1>5 DEF send_up, clientVars, serverVars, Types
<1>7. pc \in {"send_up", "sock", "select"} /\ (pc = "send_up" <=> Len(b) # 1)
  BY <1>1 DEF Then
<1>8. u \in Seq(Nat) /\ r \in Seq(Nat) /\ (r # <<>> <=> Len(b) # 1)
  <2>1. u \in Seq(Nat) /\ r \in Seq(Nat)
    BY <1>4 DEF Flow
  <2>2. Len(r) = Len(b) - 1 /\ Len(b) \in Nat
    BY <1>4
  <2>3. r = <<>> <=> Len(r) = 0
    BY <2>1, EmptySeq
  <2> HIDE DEF b, r
  <2> QED BY <2>1, <2>2, <2>3
<1>9. Len(r) <= Len(b)
  <2> HIDE DEF b, r
  <2> QED BY <1>4
<1> HIDE DEF u, r, pc
<1>10. /\ relay'[c].pc = pc /\ relay'[c].msgbuff = r /\ relay'[c] \in Relays
       /\ up'[c] = u
  <2>1. relay[c] \in Relays
    BY <1>1, Values
  <2>2. relay'[c] = [[relay[c] EXCEPT !.msgbuff = r] EXCEPT !.pc = pc] /\ up'[c] = u
    BY <1>1, <1>6 DEF Types
  <2> QED BY <1>7, <1>8, <2>1, <2>2 DEF Relays, Pcs
<1>11. Types'
  <2>1. relay' \in [Clients -> Relays]
    BY <1>6, <1>1, <1>10 DEF Types
  <2>2. up' \in [Clients -> Seq(Nat)]
    BY <1>6, <1>1, <1>8 DEF Types
  <2> QED BY <1>6, <1>1, <2>1, <2>2 DEF Types
<1>12. \A d \in Clients \ {c} : Same(d)
  BY <1>6, <1>1 DEF Same, Types
<1>13. /\ (OutBuffer(c)' = OutBuffer(c)) /\ (Left(c)' = Left(c))
       /\ ~At(c, "ended") /\ ~At(c, "ended")'
  BY <1>1, <1>6, <1>7, <1>10 DEF OutBuffer, Left, At
<1>14. UpBuffer(c)' = r
  BY <1>7, <1>8, <1>10, EmptyFacts DEF UpBuffer, At
<1>15. Sizes(c)'
  <2>1. Len(u) <= UpCap
    <3>1. Len(u) = Len(up[c]) + 1 /\ Len(up[c]) < UpCap /\ Len(up[c]) \in Nat /\ UpCap \in Nat
      BY <1>1, <1>4, <1>6, LenProperties, SizesAssumption
    <3> QED BY <3>1
  <2>2. Len(r) <= BUFFLEN
    <3>1. Len(b) <= BUFFLEN /\ Len(b) \in Nat /\ Len(r) \in Nat /\ BUFFLEN \in Nat
      BY <1>1, <1>8, LenProperties, SizesAssumption DEF Sizes
    <3> HIDE DEF b
    <3> QED BY <1>9, <3>1
  <2> QED BY <1>1, <1>6, <1>7, <1>8, <1>10, <2>1, <2>2 DEF Sizes
<1>16. Upward(c)'
  BY <1>2, <1>4, <1>6, <1>10, <1>13, <1>14 DEF Upward
<1>17. Downward(c)'
  BY <1>6, <1>1, <1>13 DEF Downward
<1>18. Ends(c)'
  BY <1>6, <1>1, <1>7, <1>10, <1>13 DEF Ends, At
<1> QED BY <1>11, <1>12, <1>15, <1>16, <1>17, <1>18, OneMoves DEF Sound

\* One part of a reply goes from the buffer to the client.
LEMMA SendOutKeeps ==
  ASSUME IInv, NEW c \in Clients, send_out(c)
  PROVE  IInv'
<1> DEFINE b == relay[c].msgbuff
           u == Append(pout[c], Head(b))
           r == Tail(b)
           pc == IF Len(b) = 1 THEN "select" ELSE relay[c].pc
<1>1. /\ Types /\ Sound(c) /\ Upward(c) /\ Downward(c) /\ Sizes(c) /\ Ends(c)
      /\ relay[c].pc = "send_out" /\ b # <<>> /\ b \in Seq(Nat) /\ pout[c] \in Seq(Nat)
  BY Values DEF IInv, Sound, send_out, At, Sizes
<1>2. CASE c \in gone
  BY <1>2, CleanupKeeps DEF send_out
<1>3. CASE c \notin gone
  <2>1. PICK n \in Nat :
          /\ n <= Len(taken[c]) * ReplySize
          /\ Flow(0, n, got[c], pout[c], b, down[c], Left(c))
          /\ n = Len(taken[c]) * ReplySize
    BY <1>1, <1>3 DEF Downward, OutBuffer, At
  <2>2. 0 \in Int
    OBVIOUS
  <2>3. /\ Flow(0, n, got[c], u, r, down[c], Left(c))
        /\ Len(u) = Len(pout[c]) + 1 /\ Len(r) = Len(b) - 1 /\ Len(b) \in Nat \ {0}
    <3> HIDE DEF b
    <3> QED BY <1>1, <2>1, <2>2, FlowSend
  <2>4. /\ sent' = sent /\ gone' = gone /\ got' = got /\ up' = up /\ pin' = pin
        /\ ses' = ses /\ server' = server /\ taken' = taken /\ down' = down
        /\ pout' = [pout EXCEPT ![c] = u] /\ Len(pout[c]) < PipeCap
        /\ relay' = [relay EXCEPT ![c].msgbuff = r, ![c].pc = pc]
    BY <1>1, <1>3 DEF send_out, clientVars, serverVars, Types
  <2>5. pc \in {"send_out", "select"} /\ (pc = "send_out" <=> Len(b) # 1)
    BY <1>1
  <2>6. u \in Seq(Nat) /\ r \in Seq(Nat) /\ (r # <<>> <=> Len(b) # 1)
    <3>1. u \in Seq(Nat) /\ r \in Seq(Nat)
      BY <2>3 DEF Flow
    <3>2. Len(r) = Len(b) - 1 /\ Len(b) \in Nat
      BY <2>3
    <3>3. r = <<>> <=> Len(r) = 0
      BY <3>1, EmptySeq
    <3> HIDE DEF b, r
    <3> QED BY <3>1, <3>2, <3>3
  <2>7. Len(r) <= Len(b)
    <3> HIDE DEF b, r
    <3> QED BY <2>3
  <2> HIDE DEF u, r, pc
  <2>8. /\ relay'[c].pc = pc /\ relay'[c].msgbuff = r /\ relay'[c] \in Relays
        /\ pout'[c] = u
    <3>1. relay[c] \in Relays
      BY <1>1, Values
    <3>2. relay'[c] = [[relay[c] EXCEPT !.msgbuff = r] EXCEPT !.pc = pc] /\ pout'[c] = u
      BY <1>1, <2>4 DEF Types
    <3> QED BY <2>5, <2>6, <3>1, <3>2 DEF Relays, Pcs
  <2>9. Types'
    <3>1. relay' \in [Clients -> Relays]
      BY <2>4, <1>1, <2>8 DEF Types
    <3>2. pout' \in [Clients -> Seq(Nat)]
      BY <2>4, <1>1, <2>6 DEF Types
    <3> QED BY <2>4, <1>1, <3>1, <3>2 DEF Types
  <2>10. \A d \in Clients \ {c} : Same(d)
    BY <2>4, <1>1 DEF Same, Types
  <2>11. /\ (UpBuffer(c)' = UpBuffer(c)) /\ (Left(c)' = Left(c))
         /\ ~At(c, "ended") /\ ~At(c, "ended")'
    BY <1>1, <2>4, <2>5, <2>8 DEF UpBuffer, Left, At
  <2>12. OutBuffer(c)' = r
    BY <2>5, <2>6, <2>8, EmptyFacts DEF OutBuffer, At
  <2>13. Sizes(c)'
    <3>1. Len(u) <= PipeCap
      <4>1. Len(u) = Len(pout[c]) + 1 /\ Len(pout[c]) < PipeCap /\ Len(pout[c]) \in Nat
            /\ PipeCap \in Nat
        BY <1>1, <2>3, <2>4, LenProperties, SizesAssumption
      <4> QED BY <4>1
    <3>2. Len(r) <= BUFFLEN
      <4>1. Len(b) <= BUFFLEN /\ Len(b) \in Nat /\ Len(r) \in Nat /\ BUFFLEN \in Nat
        BY <1>1, <2>6, LenProperties, SizesAssumption DEF Sizes
      <4> HIDE DEF b
      <4> QED BY <2>7, <4>1
    <3> QED BY <1>1, <2>4, <2>5, <2>6, <2>8, <3>1, <3>2 DEF Sizes
  <2>14. Upward(c)'
    BY <1>1, <2>4, <2>11 DEF Upward
  <2>15. Downward(c)'
    BY <1>3, <2>1, <2>3, <2>4, <2>8, <2>11, <2>12 DEF Downward
  <2>16. Ends(c)'
    BY <2>4, <1>1, <2>5, <2>8, <2>11 DEF Ends, At
  <2> QED BY <2>9, <2>10, <2>13, <2>14, <2>15, <2>16, OneMoves DEF Sound
<1> QED BY <1>2, <1>3

LEMMA EofStdinKeeps ==
  ASSUME IInv, NEW c \in Clients, eof_stdin(c)
  PROVE  IInv'
<1>1. c \in gone
  BY DEF IInv, Sound, Ends, eof_stdin
<1> QED BY <1>1, CleanupKeeps DEF eof_stdin

\* The session is closed and the socket empty: the replies are with the client.
LEMMA EofSockKeeps ==
  ASSUME IInv, NEW c \in Clients, eof_sock(c)
  PROVE  IInv'
<1>1. CASE c \in gone
  BY <1>1, CleanupKeeps DEF eof_sock
<1>2. CASE c \notin gone
  <2>1. /\ Types /\ Downward(c) /\ Ends(c) /\ relay[c].pc = "sock" /\ ses[c] = "closed"
        /\ down[c] = <<>>
    BY DEF IInv, Sound, eof_sock, At
  <2>2. Len(taken[c]) = Requests[c] + 1 /\ server.to # c
    BY <2>1 DEF Ends, At
  <2>3. OutBuffer(c) = Nil /\ Left(c) = Nil /\ down[c] = Nil
    BY <2>1, <2>2, EmptyFacts DEF OutBuffer, Left, At
  <2>4. PICK n \in Nat :
          /\ Flow(0, n, got[c], pout[c], Nil, Nil, Nil)
          /\ n = Len(taken[c]) * ReplySize
    BY <1>2, <2>1, <2>3 DEF Downward, At
  <2>5. /\ n = Len(got[c]) + Len(pout[c]) + Len(Nil) + Len(Nil) + Len(Nil)
        /\ Len(got[c]) \in Nat /\ Len(pout[c]) \in Nat
    <3>1. n = Len(got[c]) + Len(pout[c]) + Len(Nil) + Len(Nil) + Len(Nil)
      BY <2>4 DEF Flow
    <3> QED BY <2>1, <3>1, Values, LenProperties
  <2>6. Len(Nil) = 0
    BY EmptyFacts
  <2>7. n = Len(got[c]) + Len(pout[c])
    BY <2>5, <2>6
  <2> QED BY <2>2, <2>4, <2>7, CleanupKeeps DEF eof_sock
<1> QED BY <1>1, <1>2

\* The server takes the next request, and has its reply to write.
LEMMA DispatchKeeps ==
  ASSUME IInv, NEW c \in Clients, dispatch(c)
  PROVE  IInv'
<1> DEFINE h == Head(up[c])
           t == Append(taken[c], h)
           u == Tail(up[c])
           reply == Reply(h)
<1>1. /\ Types /\ Sound(c) /\ Upward(c) /\ Downward(c) /\ Sizes(c) /\ Ends(c)
      /\ up[c] # <<>> /\ up[c] \in Seq(Nat) /\ taken[c] \in Seq(Nat) /\ ses[c] = "open"
      /\ server = Idle /\ server.to # c /\ ReplySize \in Nat \ {0} /\ Requests[c] \in Nat
  BY Values DEF IInv, Sound, dispatch, Idle
<1>2. /\ sent' = sent /\ gone' = gone /\ got' = got /\ pout' = pout /\ pin' = pin
      /\ relay' = relay /\ down' = down /\ ses' = ses
      /\ taken' = [taken EXCEPT ![c] = t] /\ up' = [up EXCEPT ![c] = u]
      /\ server' = [to |-> c, left |-> reply, last |-> h = Requests[c]]
      /\ taken'[c] = t /\ up'[c] = u
  BY <1>1 DEF dispatch, clientVars, relayVars, Types
<1>3. PICK n \in Nat :
        /\ Flow(Before, n, taken[c], up[c], UpBuffer(c), pin[c], Nil)
        /\ IF At(c, "ended") THEN n <= sent[c] + 1 /\ pin[c] = <<>> ELSE n = sent[c] + 1
  BY <1>1 DEF Upward
<1>4. /\ Flow(Before, n, t, u, UpBuffer(c), pin[c], Nil)
      /\ h = Before + Len(taken[c]) + 1 /\ h \in Nat
      /\ Len(t) = Len(taken[c]) + 1 /\ Len(u) = Len(up[c]) - 1
  <2>1. Before \in Int
    BY DEF Before
  <2> QED BY <1>1, <1>3, <2>1, FlowEnd
<1>5. Len(taken[c]) \in Nat /\ Len(up[c]) \in Nat /\ Len(u) \in Nat
  <2>1. u \in Seq(Nat)
    BY <1>4 DEF Flow
  <2> QED BY <1>1, <2>1, LenProperties
<1>6. t \in Seq(Nat) /\ u \in Seq(Nat)
  BY <1>4 DEF Flow
<1> HIDE DEF t, u, h
<1>7. h = Len(taken[c])
  BY <1>4, <1>5 DEF Before
<1>8. /\ reply \in Seq(Nat) /\ Len(reply) = ReplySize
      /\ From(reply, h * ReplySize)
  <2>1. h * ReplySize \in Nat
    BY <1>1, <1>4
  <2>2. \A k \in 1 .. ReplySize : h * ReplySize + k \in Nat
    BY <1>1, <2>1
  <2>3. reply = [k \in 1 .. ReplySize |-> h * ReplySize + k]
    BY DEF Reply
  <2>4. reply \in [1 .. ReplySize -> Nat] /\ ReplySize \in Nat
    BY <1>1, <2>2, <2>3
  <2>5. reply \in Seq(Nat) /\ Len(reply) = ReplySize
    BY <2>3, <2>4
  <2>6. \A k \in 1 .. ReplySize : reply[k] = h * ReplySize + k
    BY <2>3
  <2> QED BY <2>5, <2>6 DEF From
<1> HIDE DEF reply
<1>9. Types'
  <2>1. taken' \in [Clients -> Seq(Nat)] /\ up' \in [Clients -> Seq(Nat)]
    BY <1>1, <1>2, <1>6 DEF Types
  <2>2. server' \in [to : Clients \cup {Nobody}, left : Seq(Nat), last : BOOLEAN]
    BY <1>2, <1>8
  <2> QED BY <1>1, <1>2, <2>1, <2>2 DEF Types
<1>10. \A d \in Clients \ {c} : Same(d)
  <2> SUFFICES ASSUME NEW d \in Clients \ {c} PROVE Same(d)
    OBVIOUS
  <2>1. server.to # d /\ server'.to # d
    BY <1>1, <1>2, Values DEF Idle
  <2>2. taken'[d] = taken[d] /\ up'[d] = up[d]
    BY <1>1, <1>2 DEF Types
  <2> QED BY <1>2, <2>1, <2>2 DEF Same
<1>11. Sizes(c)'
  <2>1. Len(u) <= UpCap
    <3>1. Len(up[c]) <= UpCap /\ UpCap \in Nat
      BY <1>1, SizesAssumption DEF Sizes
    <3> QED BY <1>4, <1>5, <3>1
  <2> QED BY <1>1, <1>2, <2>1 DEF Sizes
<1>12. (UpBuffer(c)' = UpBuffer(c)) /\ (OutBuffer(c)' = OutBuffer(c))
       /\ (At(c, "ended")' <=> At(c, "ended"))
  BY <1>2 DEF UpBuffer, OutBuffer, At
<1>13. Upward(c)'
  BY <1>2, <1>3, <1>4, <1>12 DEF Upward
<1>14. Left(c) = Nil /\ Left(c)' = reply
  BY <1>1, <1>2 DEF Left
<1>15. Len(t) * ReplySize = Len(taken[c]) * ReplySize + ReplySize
       /\ Len(taken[c]) * ReplySize \in Nat
  <2>1. \A k, r \in Nat : (k + 1) * r = k * r + r /\ k * r \in Nat
    OBVIOUS
  <2> QED BY <1>1, <1>4, <1>5, <2>1
<1>16. Downward(c)'
  <2>1. PICK m \in Nat :
          /\ m <= Len(taken[c]) * ReplySize
          /\ IF c \in gone THEN Flow(0, m, got[c], Nil, Nil, Nil, Nil)
             ELSE IF At(c, "ended") THEN Flow(0, m, got[c], pout[c], Nil, Nil, Nil)
             ELSE /\ Flow(0, m, got[c], pout[c], OutBuffer(c), down[c], Nil)
                  /\ m = Len(taken[c]) * ReplySize
    BY <1>1, <1>14 DEF Downward
  <2>2. CASE c \in gone \/ At(c, "ended")
    <3>1. m <= Len(t) * ReplySize
      BY <1>1, <1>15, <2>1
    <3> QED BY <1>2, <1>12, <2>1, <2>2, <3>1 DEF Downward
  <2>3. CASE c \notin gone /\ ~At(c, "ended")
    <3>1. 0 + m = h * ReplySize /\ 0 \in Int
      BY <1>7, <2>1, <2>3
    <3>2. Flow(0, m + Len(reply), got[c], pout[c], OutBuffer(c), down[c], reply)
      BY <1>8, <2>1, <2>3, <3>1, FlowFill
    <3>3. m + Len(reply) = Len(t) * ReplySize /\ m + Len(reply) \in Nat
      BY <1>1, <1>8, <1>15, <2>1, <2>3
    <3>4. m + Len(reply) <= Len(t) * ReplySize
      BY <3>3
    <3> DEFINE k == m + Len(reply)
    <3> HIDE DEF k
    <3>5. Flow(0, k, got[c], pout[c], OutBuffer(c), down[c], reply) /\ k \in Nat
          /\ k = Len(t) * ReplySize /\ k <= Len(t) * ReplySize
      BY <3>2, <3>3, <3>4 DEF k
    <3> QED BY <1>2, <1>12, <1>14, <2>3, <3>5 DEF Downward
  <2> QED BY <2>2, <2>3
<1>17. Ends(c)'
  <2>1. server'.last <=> h = Requests[c]
    BY <1>2
  <2>2. h = Requests[c] <=> Len(t) = Requests[c] + 1
    BY <1>1, <1>4, <1>5, <1>7
  <2> QED BY <1>1, <1>2, <1>12, <2>1, <2>2 DEF Ends, At
<1> QED BY <1>9, <1>10, <1>11, <1>13, <1>16, <1>17, OneMoves DEF Sound

\* A part of the reply gets into the socket, or nobody is there to read it.
LEMMA SendBuffKeeps ==
  ASSUME IInv, NEW c \in Clients, do_send_buff(c)
  PROVE  IInv'
<1>1. /\ Types /\ Sound(c) /\ Upward(c) /\ Downward(c) /\ Sizes(c) /\ Ends(c)
      /\ server.to = c /\ server.left # <<>> /\ server.left \in Seq(Nat)
      /\ down[c] \in Seq(Nat) /\ Len(down[c]) \in Nat
      /\ server \in [to : Clients \cup {Nobody}, left : Seq(Nat), last : BOOLEAN]
  BY Values, LenProperties DEF IInv, Sound, do_send_buff, Types
<1>2. /\ sent' = sent /\ gone' = gone /\ got' = got /\ pout' = pout /\ pin' = pin
      /\ relay' = relay /\ up' = up /\ ses' = ses /\ taken' = taken
  BY DEF do_send_buff, clientVars, relayVars
<1>3. (UpBuffer(c)' = UpBuffer(c)) /\ (OutBuffer(c)' = OutBuffer(c))
      /\ (At(c, "ended")' <=> At(c, "ended"))
  BY <1>2 DEF UpBuffer, OutBuffer, At
<1>4. CASE ~At(c, "ended")
  <2> DEFINE d == Append(down[c], Head(server.left))
             l == Tail(server.left)
  <2>1. /\ down' = [down EXCEPT ![c] = d] /\ Len(down[c]) < DownCap
        /\ server' = [server EXCEPT !.left = l] /\ down'[c] = d
    BY <1>1, <1>4 DEF do_send_buff, Types
  <2>2. d \in Seq(Nat) /\ l \in Seq(Nat) /\ Len(d) = Len(down[c]) + 1
    <3>1. Head(server.left) \in Nat /\ l \in Seq(Nat)
      BY <1>1, HeadTailProperties
    <3> QED BY <1>1, <3>1, AppendProperties
  <2>3. \A n \in Nat :
          Flow(0, n, got[c], pout[c], OutBuffer(c), down[c], server.left)
            => Flow(0, n, got[c], pout[c], OutBuffer(c), d, l)
    <3>1. 0 \in Int
      OBVIOUS
    <3> QED BY <1>1, <3>1, FlowWrite
  <2> HIDE DEF d, l
  <2>4. server'.to = c /\ server'.left = l /\ (server'.last <=> server.last)
        /\ server' \in [to : Clients \cup {Nobody}, left : Seq(Nat), last : BOOLEAN]
    BY <1>1, <2>1, <2>2
  <2>5. Types'
    <3>1. down' \in [Clients -> Seq(Nat)]
      BY <1>1, <2>1, <2>2 DEF Types
    <3> QED BY <1>1, <1>2, <2>4, <3>1 DEF Types
  <2>6. \A e \in Clients \ {c} : Same(e)
    BY <1>1, <1>2, <2>1, <2>4 DEF Same, Types
  <2>7. Sizes(c)'
    <3>1. Len(d) <= DownCap
      <4>1. DownCap \in Nat
        BY SizesAssumption
      <4> QED BY <1>1, <2>1, <2>2, <4>1
    <3> QED BY <1>1, <1>2, <2>1, <3>1 DEF Sizes
  <2>8. Upward(c)'
    BY <1>1, <1>2, <1>3 DEF Upward
  <2>9. Left(c) = server.left /\ Left(c)' = l
    BY <1>1, <2>4 DEF Left
  <2>10. Downward(c)'
    BY <1>1, <1>2, <1>3, <1>4, <2>1, <2>3, <2>9 DEF Downward
  <2>11. Ends(c)'
    BY <1>1, <1>2, <1>3, <2>4 DEF Ends, At
  <2> QED BY <2>5, <2>6, <2>7, <2>8, <2>10, <2>11, OneMoves DEF Sound
<1>5. CASE At(c, "ended")
  <2>1. down' = down /\ server' = [server EXCEPT !.left = <<>>]
    BY <1>5 DEF do_send_buff
  <2>2. server'.to = c /\ (server'.last <=> server.last)
        /\ server' \in [to : Clients \cup {Nobody}, left : Seq(Nat), last : BOOLEAN]
    BY <1>1, <2>1, EmptySeq
  <2>3. Types'
    BY <1>1, <1>2, <2>1, <2>2 DEF Types
  <2>4. \A e \in Clients \ {c} : Same(e)
    BY <1>1, <1>2, <2>1, <2>2 DEF Same
  <2>5. Sizes(c)' /\ Upward(c)'
    BY <1>1, <1>2, <1>3, <2>1 DEF Sizes, Upward
  <2>6. Downward(c)'
    BY <1>1, <1>2, <1>3, <1>5 DEF Downward
  <2>7. Ends(c)'
    BY <1>1, <1>2, <1>3, <2>2 DEF Ends, At
  <2> QED BY <2>3, <2>4, <2>5, <2>6, <2>7, OneMoves DEF Sound
<1> QED BY <1>4, <1>5

\* The reply is written; behind the last one the session is closed.
LEMMA FinishKeeps ==
  ASSUME IInv, NEW c \in Clients, finish_msg(c)
  PROVE  IInv'
<1> DEFINE x == IF server.last THEN "closed" ELSE ses[c]
<1>1. /\ Types /\ Sound(c) /\ Upward(c) /\ Downward(c) /\ Sizes(c) /\ Ends(c)
      /\ server.to = c /\ server.left = <<>> /\ ses[c] \in {"open", "closed"} /\ c # Nobody
  BY Values DEF IInv, Sound, finish_msg
<1>2. /\ sent' = sent /\ gone' = gone /\ got' = got /\ pout' = pout /\ pin' = pin
      /\ relay' = relay /\ up' = up /\ down' = down /\ taken' = taken /\ server' = Idle
      /\ ses' = [ses EXCEPT ![c] = x] /\ ses'[c] = x /\ x \in {"open", "closed"}
      /\ server'.to = Nobody
  BY <1>1 DEF finish_msg, clientVars, relayVars, Types, Idle
<1>3. (UpBuffer(c)' = UpBuffer(c)) /\ (OutBuffer(c)' = OutBuffer(c))
      /\ (At(c, "ended")' <=> At(c, "ended"))
  BY <1>2 DEF UpBuffer, OutBuffer, At
<1>4. Left(c) = Nil /\ Left(c)' = Nil
  BY <1>1, <1>2 DEF Left, Nil
<1>5. Types'
  <2>1. server' \in [to : Clients \cup {Nobody}, left : Seq(Nat), last : BOOLEAN]
    BY <1>2, EmptySeq DEF Idle
  <2>2. ses' \in [Clients -> {"open", "closed"}]
    BY <1>1, <1>2 DEF Types
  <2> QED BY <1>1, <1>2, <2>1, <2>2 DEF Types
<1>6. \A d \in Clients \ {c} : Same(d)
  <2> SUFFICES ASSUME NEW d \in Clients \ {c} PROVE Same(d)
    OBVIOUS
  <2>1. ses'[d] = ses[d] /\ d # Nobody /\ d # c
    BY <1>1, <1>2, Values DEF Types
  <2> QED BY <1>1, <1>2, <2>1 DEF Same
<1>7. Sizes(c)' /\ Upward(c)'
  BY <1>1, <1>2, <1>3 DEF Sizes, Upward
<1>8. Downward(c)'
  BY <1>1, <1>2, <1>3, <1>4 DEF Downward
<1>9. Ends(c)'
  BY <1>1, <1>2, <1>3 DEF Ends, At
<1> QED BY <1>5, <1>6, <1>7, <1>8, <1>9, OneMoves DEF Sound

LEMMA KillKeeps ==
  ASSUME IInv, NEW c \in Clients, agt_ses_kill_session(c)
  PROVE  IInv'
<1>1. /\ Types /\ Sound(c) /\ Upward(c) /\ Downward(c) /\ Sizes(c) /\ Ends(c)
      /\ At(c, "ended") /\ server.to # c
  BY Values DEF IInv, Sound, agt_ses_kill_session, Idle
<1>2. /\ sent' = sent /\ gone' = gone /\ got' = got /\ pout' = pout /\ pin' = pin
      /\ relay' = relay /\ up' = up /\ down' = down /\ taken' = taken /\ server' = server
      /\ ses' = [ses EXCEPT ![c] = "closed"]
  BY DEF agt_ses_kill_session, clientVars, relayVars
<1>3. (UpBuffer(c)' = UpBuffer(c)) /\ (OutBuffer(c)' = OutBuffer(c)) /\ (Left(c)' = Left(c))
      /\ (At(c, "ended")' <=> At(c, "ended"))
  BY <1>2 DEF UpBuffer, OutBuffer, Left, At
<1>4. Types'
  BY <1>1, <1>2 DEF Types
<1>5. \A d \in Clients \ {c} : Same(d)
  BY <1>1, <1>2 DEF Same, Types
<1>6. Sizes(c)' /\ Upward(c)' /\ Downward(c)'
  BY <1>1, <1>2, <1>3 DEF Sizes, Upward, Downward
<1>7. Ends(c)'
  BY <1>1, <1>2, <1>3 DEF Ends, At
<1> QED BY <1>4, <1>5, <1>6, <1>7, OneMoves DEF Sound

-----------------------------------------------------------------------------
(* The theorems *)

LEMMA InitIInv == Init => IInv
<1> SUFFICES ASSUME Init PROVE IInv
  OBVIOUS
<1>1. Connected \in Relays
  <2>1. <<0>> \in Seq(Nat)
    OBVIOUS
  <2> QED BY <2>1 DEF Connected, Relays, Pcs
<1>2. Types
  <2>1. Idle \in [to : Clients \cup {Nobody}, left : Seq(Nat), last : BOOLEAN]
    BY EmptySeq DEF Idle
  <2> QED BY <1>1, <2>1, EmptySeq DEF Init, Types
<1> SUFFICES ASSUME NEW c \in Clients PROVE Sound(c)
  BY <1>2 DEF IInv
<1>3. /\ relay[c].pc = "send_up" /\ relay[c].msgbuff = <<0>> /\ sent[c] = 0
      /\ pin[c] = Nil /\ pout[c] = Nil /\ up[c] = Nil /\ down[c] = Nil
      /\ taken[c] = Nil /\ got[c] = Nil /\ c \notin gone /\ ses[c] = "open"
      /\ server.to # c
  BY SizesAssumption DEF Init, Connected, Idle, Nil
<1>4. Nil = <<>> /\ Nil \in Seq(Nat) /\ Len(Nil) = 0 /\ \A a : From(Nil, a)
  BY EmptyFacts
<1> DEFINE b == <<0>>
<1>5. b \in Seq(Nat) /\ Len(b) = 1 /\ b # <<>> /\ b[1] = 0
  OBVIOUS
<1> HIDE DEF b
<1>6. Before + 0 + 0 \in Int /\ \A k \in 1 .. 1 : b[k] = Before + 0 + 0 + k
  BY <1>5 DEF Before
<1>7. Sizes(c)
  <2>1. /\ Requests[c] \in Nat /\ PipeCap \in Nat /\ UpCap \in Nat /\ DownCap \in Nat
        /\ BUFFLEN \in Nat \ {0}
    BY SizesAssumption
  <2>2. relay[c].msgbuff = b
    BY <1>3 DEF b
  <2> QED BY <1>3, <1>4, <1>5, <2>1, <2>2 DEF Sizes
<1>8. Upward(c)
  <2>1. From(b, Before + Len(Nil) + Len(Nil))
    BY <1>4, <1>5, <1>6 DEF From
  <2>2. 1 = Len(Nil) + Len(Nil) + Len(b) + Len(Nil) + Len(Nil)
    BY <1>4, <1>5
  <2>3. Flow(Before, 1, Nil, Nil, b, Nil, Nil)
    BY <1>4, <1>5, <2>1, <2>2 DEF Flow
  <2>4. UpBuffer(c) = b /\ ~At(c, "ended") /\ 1 = sent[c] + 1 /\ 1 \in Nat
    BY <1>3 DEF UpBuffer, At, b
  <2> QED BY <1>3, <2>3, <2>4 DEF Upward
<1>9. Downward(c)
  <2>1. 0 = Len(Nil) + Len(Nil) + Len(Nil) + Len(Nil) + Len(Nil)
    BY <1>4
  <2>2. Flow(0, 0, Nil, Nil, Nil, Nil, Nil)
    BY <1>4, <2>1 DEF Flow
  <2>3. OutBuffer(c) = Nil /\ Left(c) = Nil /\ ~At(c, "ended")
    BY <1>3 DEF OutBuffer, Left, At
  <2>4. Len(taken[c]) * ReplySize = 0 /\ 0 \in Nat
    BY <1>3, <1>4, SizesAssumption
  <2> QED BY <1>3, <2>2, <2>3, <2>4 DEF Downward
<1>10. Ends(c)
  BY <1>3 DEF Ends, At
<1> QED BY <1>7, <1>8, <1>9, <1>10 DEF Sound

LEMMA NextIInv == IInv /\ [Next]_vars => IInv'
<1> SUFFICES ASSUME IInv, [Next]_vars PROVE IInv'
  OBVIOUS
<1>1. ASSUME NEW c \in Clients, Send(c) \/ Receive(c) \/ HangUp(c) PROVE IInv'
  BY <1>1, SendKeeps, ReceiveKeeps, HangUpKeeps
<1>2. ASSUME NEW c \in Clients, io_loop(c) PROVE IInv'
  BY <1>2, SelectKeeps, ReadStdinKeeps, EofStdinKeeps, SendUpKeeps, ReadSockKeeps,
     EofSockKeeps, SendOutKeeps DEF io_loop
<1>3. ASSUME NEW c \in Clients, ncxserver(c) PROVE IInv'
  BY <1>3, DispatchKeeps, SendBuffKeeps, FinishKeeps, KillKeeps DEF ncxserver
<1>4. ASSUME UNCHANGED vars PROVE IInv'
  <2>1. /\ sent' = sent /\ gone' = gone /\ got' = got /\ pout' = pout /\ pin' = pin
        /\ relay' = relay /\ up' = up /\ down' = down /\ taken' = taken /\ server' = server
        /\ ses' = ses
    BY <1>4 DEF vars, clientVars, relayVars, serverVars
  <2>2. \A c \in Clients : Same(c)
    BY <2>1 DEF Same
  <2>3. Types'
    BY <2>1 DEF IInv, Types
  <2> QED BY <2>2, <2>3, Unmoved DEF IInv
<1> QED BY <1>1, <1>2, <1>3, <1>4 DEF Next

LEMMA SpecIInv == Spec => []IInv
  BY InitIInv, NextIInv, PTL DEF Spec

\* What is read of a stream is as long as the stream at most, and begins it.
LEMMA FromPrefix ==
  ASSUME NEW s \in Seq(Nat), NEW a \in Int, From(s, a), NEW n \in Nat, Len(s) <= n,
         NEW t, t = [k \in 1 .. n |-> a + k], \A k \in 1 .. n : a + k \in Nat
  PROVE  IsPrefix(s, t)
<1>1. Len(s) \in Nat /\ \A k \in 1 .. Len(s) : s[k] = a + k
  BY LenProperties DEF From
<1>2. t \in Seq(Nat) /\ Len(t) = n /\ \A k \in 1 .. n : t[k] = a + k
  <2>1. t \in [1 .. n -> Nat]
    OBVIOUS
  <2>2. t \in Seq(Nat)
    BY <2>1, IsASeq
  <2>3. Len(t) = n
    BY <2>1, <2>2, LenProperties
  <2> QED BY <2>2, <2>3
<1> DEFINE p == SubSeq(s, 1, Len(s))
           q == SubSeq(t, 1, Len(s))
<1>3. p \in Seq(Nat) /\ Len(p) = Len(s) /\ \A k \in 1 .. Len(s) : p[k] = s[k]
  BY <1>1, SubSeqProperties
<1>4. q \in Seq(Nat) /\ Len(q) = Len(s) /\ \A k \in 1 .. Len(s) : q[k] = t[k]
  <2>1. \A k \in 1 .. Len(s) : t[k] \in Nat
    BY <1>1, <1>2
  <2>2. q \in Seq(Nat) /\ Len(q) = Len(s)
    <3>1. q \in Seq(Nat) /\ Len(q) = IF 1 <= Len(s) THEN Len(s) - 1 + 1 ELSE 0
      BY <1>1, <2>1, SubSeqProperties
    <3> HIDE DEF q
    <3> QED BY <1>1, <3>1
  <2>3. \A k \in 1 .. Len(s) : q[k] = t[k]
    BY <1>1
  <2> HIDE DEF q
  <2> QED BY <2>2, <2>3
<1> HIDE DEF p, q
<1>5. \A k \in 1 .. Len(s) : p[k] = q[k]
  <2>1. \A k \in 1 .. Len(s) : k \in 1 .. n
    BY <1>1
  <2> QED BY <1>1, <1>2, <1>3, <1>4, <2>1
<1>6. p = q
  BY <1>3, <1>4, <1>5, SeqEqual
<1> QED BY <1>2, <1>6 DEF IsPrefix, p, q

\* Every pipe, socket and buffer keeps within its size, and the server gets the
\* requests and the client the replies in their order, whole and once, whoever
\* hangs up or ends in between (io_loop, send_buff, do_send_buff).
THEOREM StreamsKeepOrder == Spec => []PipesSound
<1>1. ASSUME IInv PROVE TypeOK
  <2>1. gone \subseteq Clients /\ ses \in [Clients -> {"open", "closed"}]
    BY <1>1 DEF IInv, Types
  <2>2. server.to \in Clients \cup {Nobody}
    BY <1>1 DEF IInv, Types
  <2>3. ASSUME NEW c \in Clients
        PROVE  /\ sent[c] \in 0..Requests[c]
               /\ Len(pin[c]) <= PipeCap /\ Len(pout[c]) <= PipeCap
               /\ Len(up[c]) <= UpCap /\ Len(down[c]) <= DownCap
               /\ Len(relay[c].msgbuff) <= BUFFLEN
               /\ relay[c].pc \in {"select", "stdin", "send_up", "sock", "send_out", "ended"}
               /\ (relay[c].pc \in {"send_up", "send_out"}) = (relay[c].msgbuff # <<>>)
    <3>1. Types /\ Sizes(c)
      BY <1>1 DEF IInv, Sound
    <3>2. sent[c] \in Nat /\ Requests[c] \in Nat /\ relay[c].pc \in Pcs
      BY <3>1, Values
    <3>3. sent[c] \in 0..Requests[c]
      BY <3>1, <3>2 DEF Sizes
    <3> QED BY <3>1, <3>2, <3>3 DEF Sizes, Pcs
  <2> QED BY <2>1, <2>2, <2>3 DEF TypeOK
<1>2. ASSUME IInv PROVE StreamsInOrder
  <2> SUFFICES ASSUME NEW c \in Clients
               PROVE  IsPrefix(taken[c], AllRequests(c)) /\ IsPrefix(got[c], AllReplies(c))
    BY DEF StreamsInOrder
  <2>1. /\ Types /\ Upward(c) /\ Downward(c) /\ Sizes(c)
        /\ Requests[c] \in Nat \ {0} /\ ReplySize \in Nat \ {0} /\ sent[c] \in Nat
        /\ taken[c] \in Seq(Nat) /\ got[c] \in Seq(Nat)
        /\ Len(taken[c]) \in Nat /\ Len(got[c]) \in Nat /\ sent[c] <= Requests[c]
    BY <1>2, Values, LenProperties DEF IInv, Sound, Sizes
  <2>2. From(taken[c], Before) /\ Len(taken[c]) <= Requests[c] + 1
    <3>1. PICK n \in Nat :
            /\ Flow(Before, n, taken[c], up[c], UpBuffer(c), pin[c], Nil)
            /\ n <= sent[c] + 1
      BY <2>1 DEF Upward
    <3>2. Len(taken[c]) <= n
      <4>1. Before \in Int
        BY DEF Before
      <4> QED BY <3>1, <4>1, FlowCut
    <3>3. From(taken[c], Before)
      BY <3>1 DEF Flow
    <3> QED BY <2>1, <3>1, <3>2, <3>3
  <2>3. From(got[c], 0) /\ Len(got[c]) <= Len(taken[c]) * ReplySize
    <3>1. PICK n \in Nat :
            /\ n <= Len(taken[c]) * ReplySize
            /\ \E s2, s3, s4, s5 : Flow(0, n, got[c], s2, s3, s4, s5)
      BY <2>1 DEF Downward
    <3>2. PICK s2, s3, s4, s5 : Flow(0, n, got[c], s2, s3, s4, s5)
      BY <3>1
    <3>3. Len(got[c]) <= n
      <4>1. 0 \in Int
        OBVIOUS
      <4> QED BY <3>2, <4>1, FlowCut
    <3>4. From(got[c], 0)
      BY <3>2 DEF Flow
    <3>5. Len(taken[c]) * ReplySize \in Nat
      BY <2>1
    <3> QED BY <2>1, <3>1, <3>3, <3>4, <3>5
  <2>4. IsPrefix(taken[c], AllRequests(c))
    <3> DEFINE n == Requests[c] + 1
               t == [k \in 1 .. n |-> Before + k]
    <3>1. n \in Nat /\ Before \in Int /\ \A k \in 1 .. n : Before + k \in Nat
      BY <2>1 DEF Before
    <3>2. IsPrefix(taken[c], t)
      <4> HIDE DEF n
      <4>1. Len(taken[c]) <= n
        BY <2>2 DEF n
      <4> QED BY <2>1, <2>2, <3>1, <4>1, FromPrefix
    <3>3. AllRequests(c) = t
      <4>1. \A k \in 1 .. n : k - 1 = Before + k
        BY <3>1 DEF Before
      <4> QED BY <4>1 DEF AllRequests
    <3> QED BY <3>2, <3>3
  <2>5. IsPrefix(got[c], AllReplies(c))
    <3> DEFINE n == (Requests[c] + 1) * ReplySize
               t == [k \in 1 .. n |-> 0 + k]
    <3>1. n \in Nat /\ Len(got[c]) <= n
      <4>1. \A l, r, m \in Nat : l <= r => l * m <= r * m /\ l * m \in Nat /\ r * m \in Nat
        OBVIOUS
      <4>2. /\ Len(taken[c]) * ReplySize <= n /\ Len(taken[c]) * ReplySize \in Nat
            /\ n \in Nat
        BY <2>1, <2>2, <4>1
      <4> HIDE DEF n
      <4> QED BY <2>1, <2>3, <4>2
    <3>2. AllReplies(c) = t
      BY <3>1 DEF AllReplies
    <3>3. IsPrefix(got[c], t)
      <4> HIDE DEF n
      <4>1. 0 \in Int /\ \A k \in 1 .. n : 0 + k \in Nat
        BY <3>1
      <4> QED BY <2>1, <2>3, <3>1, <4>1, FromPrefix
    <3> QED BY <3>2, <3>3
  <2> QED BY <2>4, <2>5
<1> QED BY <1>1, <1>2, SpecIInv, PTL DEF PipesSound

\* The server closes a session right behind its last reply: a client that does
\* not hang up still gets all of them before its process ends (io_loop).
THEOREM RepliesDelivered == Spec => []CloseDelivers
<1>1. ASSUME IInv PROVE CloseDelivers
  <2> SUFFICES ASSUME NEW c \in Clients \ gone, At(c, "ended")
               PROVE  got[c] \o pout[c] = AllReplies(c)
    BY DEF CloseDelivers
  <2>1. /\ Types /\ Downward(c) /\ Ends(c) /\ c \in Clients
        /\ got[c] \in Seq(Nat) /\ pout[c] \in Seq(Nat)
        /\ Requests[c] \in Nat /\ ReplySize \in Nat
    BY <1>1, Values DEF IInv, Sound
  <2> DEFINE n == (Requests[c] + 1) * ReplySize
  <2>2. Len(got[c]) + Len(pout[c]) = n
    BY <2>1 DEF Ends
  <2>3. From(got[c], 0) /\ From(pout[c], 0 + Len(got[c]))
    BY <2>1 DEF Downward, Flow
  <2>4. Len(got[c]) \in Nat /\ Len(pout[c]) \in Nat
    BY <2>1, LenProperties
  <2>5. n \in Nat
    <3>1. \A r, m \in Nat : (r + 1) * m \in Nat
      OBVIOUS
    <3> QED BY <2>1, <3>1
  <2> HIDE DEF n
  <2> DEFINE s == got[c] \o pout[c]
             t == [k \in 1 .. n |-> k]
  <2>6. /\ s \in Seq(Nat) /\ Len(s) = n
        /\ \A k \in 1 .. n : s[k] = IF k <= Len(got[c]) THEN got[c][k] ELSE pout[c][k - Len(got[c])]
    BY <2>1, <2>2, ConcatProperties
  <2>7. t \in Seq(Nat) /\ Len(t) = n /\ \A k \in 1 .. n : t[k] = k
    <3>1. t \in [1 .. n -> Nat]
      OBVIOUS
    <3>2. t \in Seq(Nat)
      BY <2>5, <3>1
    <3>3. Len(t) = n
      BY <2>5
    <3> QED BY <3>2, <3>3
  <2> HIDE DEF s
  <2>8. ASSUME NEW k \in 1 .. n PROVE s[k] = k
    <3>1. CASE k <= Len(got[c])
      <4>1. k \in 1 .. Len(got[c])
        BY <2>4, <2>5, <3>1
      <4> QED BY <2>3, <2>6, <3>1, <4>1 DEF From
    <3>2. CASE ~(k <= Len(got[c]))
      <4>1. k - Len(got[c]) \in 1 .. Len(pout[c])
        <5>1. \A g, p \in Nat : \A j \in 1 .. g + p : ~(j <= g) => j - g \in 1 .. p
          OBVIOUS
        <5>2. k \in 1 .. Len(got[c]) + Len(pout[c])
          BY <2>2
        <5> QED BY <2>4, <3>2, <5>1, <5>2
      <4>2. pout[c][k - Len(got[c])] = 0 + Len(got[c]) + (k - Len(got[c]))
        BY <2>3, <4>1 DEF From
      <4> QED BY <2>4, <2>5, <2>6, <3>2, <4>2
    <3> QED BY <3>1, <3>2
  <2>9. s = t
    <3> HIDE DEF t
    <3> QED BY <2>6, <2>7, <2>8, SeqEqual
  <2> QED BY <2>9 DEF s, n, AllReplies
<1> QED BY <1>1, SpecIInv, PTL
=============================================================================
