------------------------------- MODULE SesInput -------------------------------
(***************************************************************************)
(* How a session turns the bytes it reads into messages: ses_accept_input  *)
(* hands each read to accept_buffer_ssh_v10 (messages ended by the EOM     *)
(* string) or accept_buffer_ssh_v11 (chunks), which copy the text into     *)
(* buffers of SES_MSG_BUFFSIZE bytes, however the stream was cut into      *)
(* reads.  One action is one turn of the loop over the read buffer.  The   *)
(* peer writes with the same library (SesOutput) or cuts its chunks        *)
(* elsewhere, and may end with a malformed chunk.                          *)
(*                                                                         *)
(* A byte is its character code.  Reading, parsing and answering the       *)
(* message is dispatch; the first two messages of a session are            *)
(* ncx-connect and the client's hello, which fixes the protocol.           *)
(***************************************************************************)
EXTENDS SesOutput

CONSTANTS Docs,                      \* documents a client sends
          Greeting,                  \* the one it sends as ncx-connect and as hello
          ReadSizes,                 \* byte counts a read may return
          SES_MAX_BUFFERS,           \* one more than the buffers a session may own
          SES_MAX_STARTCHUNK_SIZE,   \* room for the digits of a chunk size
          NCX_MAX_UINT,              \* the largest chunk size
          Malformed,                 \* bytes that break the chunk grammar
          BackToBack,                \* TRUE: the client does not pause after its hello
          MaxDocs                    \* bound: messages one client sends

Byte == 0..255

\* Documents are XML: not empty, the EOM string does not occur in them, and
\* they end neither inside it nor so that it would begin early.
Ends(d, s) == Len(d) >= Len(s) /\ SubSeq(d, Len(d) - Len(s) + 1, Len(d)) = s

\* ncx_convert_num: the number that a string of digits stands for
ncx_convert_num(digits) == FoldLeft(LAMBDA n, ch : 10 * n + (ch - 48), 0, digits)

(***************************************************************************)
(* The chunk grammar of RFC 6242, 4.2, as accept_buffer_ssh_v11 quotes it, *)
(* with the sizes that it has room for.                                    *)
(***************************************************************************)
IsSize(digits) == digits # <<>> /\ Head(digits) # 48 /\ \A i \in DOMAIN digits : digits[i] \in 48..57

\* a header of n bytes, for a chunk of size bytes
HasHeader(bytes, n, size) ==
  LET digits == SubSeq(bytes, 3, n - 1)
  IN /\ IsPrefix(<<LF, HASH>>, bytes) /\ bytes[n] = LF
     /\ IsSize(digits) /\ Len(digits) <= SES_MAX_STARTCHUNK_SIZE - 3
     /\ size = ncx_convert_num(digits) /\ size <= NCX_MAX_UINT

IsChunk(bytes) == \E n \in 1..Len(bytes) : HasHeader(bytes, n, Len(bytes) - n)

AreChunks(bytes) == \E cuts \in SUBSET (0..Len(bytes)) :
  /\ {0, Len(bytes)} \subseteq cuts
  /\ \A j \in cuts \ {0} : \E i \in cuts : i < j /\ IsChunk(SubSeq(bytes, i + 1, j))

\* the beginning of a chunk; its size is compared when all digits are there
BeginsChunk(bytes) ==
  \/ bytes \in {<<>>, <<LF>>, <<LF, HASH>>}
  \/ /\ IsPrefix(<<LF, HASH>>, bytes) /\ IsSize(SubSeq(bytes, 3, Len(bytes)))
     /\ Len(bytes) <= SES_MAX_STARTCHUNK_SIZE
  \/ \E n \in 1..Len(bytes) : \E size \in Len(bytes) - n..NCX_MAX_UINT : HasHeader(bytes, n, size)

\* some bytes are a message, or the beginning of one
HasMessage(bytes) == \E k \in 1..Len(bytes) :
  AreChunks(SubSeq(bytes, 1, k)) /\ IsPrefix(NC_SSH_END_CHUNKS, SubSeq(bytes, k + 1, Len(bytes)))

BeginsMessage(bytes) == \E k \in 0..Len(bytes) :
  LET rest == SubSeq(bytes, k + 1, Len(bytes))
  IN AreChunks(SubSeq(bytes, 1, k)) /\ (BeginsChunk(rest) \/ (k > 0 /\ rest = <<LF, HASH, HASH>>))

ASSUME InputAssumption ==
  /\ SES_MSG_BUFFSIZE >= NC_SSH_END_LEN
  /\ SES_MAX_BUFFERS \in Nat /\ SES_MAX_BUFFERS > 2
  /\ Docs \subseteq Seq(Byte) /\ Malformed \subseteq Seq(Byte)
  /\ \A d \in Docs : /\ d # <<>> /\ ~Ends(d, <<93>>) /\ ~Ends(d, <<93, 93, 62>>)
                     /\ \A i \in 1..Len(d) : ~Ends(SubSeq(d, 1, i), NC_SSH_END)
                     /\ Len(d) <= NCX_MAX_UINT
  /\ \A bytes \in Malformed : ~HasMessage(bytes) /\ ~BeginsMessage(bytes)
  /\ NCX_MAX_UINT \in Nat /\ SES_MAX_STARTCHUNK_SIZE \in Nat
  /\ NC_SSH_END_LEN - 1 <= SES_MAX_STARTCHUNK_SIZE
  /\ Len(Decimal[NCX_MAX_UINT]) <= SES_MAX_STARTCHUNK_SIZE - 3
  /\ ReadSizes \subseteq Nat \ {0}
  /\ Greeting \in Docs
  /\ BackToBack \in BOOLEAN /\ MaxDocs \in Nat

VARIABLES
  wire,          \* bytes sent and not yet processed
  left,          \* how many of them are in scb->readbuff
  msgQ,          \* scb->msgQ: messages, the last one perhaps unfinished
  instate, inendpos, startchunk,
  protocol,      \* scb->protocol: "none", "base10", "base11"
  state,         \* "open", "closed", or "undefined" after a wild access
  served,        \* messages dispatched
  client11, server11,  \* the sides that offer base:1.1
  sent,          \* history: documents sent and not dispatched
  delivered,     \* history: the text dispatched last
  nsent, bad     \* how many the client sent, whether it ended malformed

parser == <<instate, inendpos, startchunk>>
client == <<client11, server11, sent, nsent, bad>>
inputVars == <<wire, left, msgQ, parser, protocol, state, served, client, delivered>>

new_buff == [data |-> <<>>, buffpos |-> 0, bufflen |-> 0]
new_msg  == [buffQ |-> <<new_buff>>, ready |-> FALSE,
             expchunksize |-> 0, curchunksize |-> 0]

InputInit ==
  /\ wire = <<>> /\ left = 0 /\ msgQ = <<>>
  /\ instate = "IDLE" /\ inendpos = 0 /\ startchunk = <<>>
  /\ protocol = "none" /\ state = "open" /\ served = 0
  /\ client11 \in BOOLEAN /\ server11 \in BOOLEAN
  /\ sent = <<>> /\ delivered = <<>> /\ nsent = 0 /\ bad = FALSE

agreed == IF client11 /\ server11 THEN "base11" ELSE "base10"

(***************************************************************************)
(* The client.  ncx-connect and hello always use base:1.0 framing; what    *)
(* follows uses the version both hellos offer, once the server's hello,    *)
(* the answer to ncx-connect, told the client.                             *)
(***************************************************************************)
chunk(d) == <<LF, HASH>> \o Decimal[Len(d)] \o <<LF>> \o d

\* Encodings of a document: the library's own, and any two chunks
Encodings(framing11, d) ==
  {Written(framing11, d)} \union
  (IF framing11
   THEN {chunk(d) \o NC_SSH_END_CHUNKS} \union
        {chunk(SubSeq(d, 1, k)) \o chunk(SubSeq(d, k + 1, Len(d))) \o NC_SSH_END_CHUNKS :
           k \in 1..(Len(d) - 1)}
   ELSE {})

early == nsent < 2
may_send ==
  /\ ~bad /\ nsent < MaxDocs
  /\ ~early /\ agreed = "base11" => served >= 1 /\ (BackToBack \/ served >= 2)

SendDoc == \E d \in Docs : \E bytes \in Encodings(~early /\ agreed = "base11", d) :
  /\ may_send /\ (early => d = Greeting)
  /\ wire' = wire \o bytes
  /\ sent' = Append(sent, d)
  /\ nsent' = nsent + 1
  /\ UNCHANGED <<left, msgQ, parser, protocol, state, served, client11, server11, bad, delivered>>

SendMalformed == \E bytes \in Malformed :
  /\ may_send /\ ~early /\ agreed = "base11"
  /\ wire' = wire \o bytes
  /\ bad' = TRUE
  /\ UNCHANGED <<left, msgQ, parser, protocol, state, served, client11, server11, sent, nsent, delivered>>

-----------------------------------------------------------------------------
(***************************************************************************)
(* Messages and buffers                                                    *)
(***************************************************************************)
curmsg(q)  == Last(q)
curbuff(q) == Last(Last(q).buffQ)

set_msg(q, m)  == ReplaceAt(q, Len(q), m)
set_buff(q, b) == [q EXCEPT ![Len(q)].buffQ = ReplaceAt(@, Len(@), b)]
add_buff(q)    == [q EXCEPT ![Len(q)].buffQ = Append(@, new_buff)]

\* scb->buffcnt without the free buffers, which are reused before new ones are
\* made: scb->outbuff and the buffers of msgQ
buffcnt(q) == FoldLeft(LAMBDA n, m : n + Len(m.buffQ), 1, q)

\* ses_msg_new_buff did not deny the last buffer of q
granted(q) == buffcnt(q) < SES_MAX_BUFFERS

\* a message and a buffer to begin a read with
make_current(q) ==
  LET p == IF q = <<>> \/ curmsg(q).ready THEN Append(q, new_msg) ELSE q
  IN IF curbuff(p).bufflen = SES_MSG_BUFFSIZE THEN add_buff(p) ELSE p

\* Mutant: a full buffer's length is not recorded
close_buff_NoLength(b) == [b EXCEPT !.buffpos = 0]

close_buff(b) == [b EXCEPT !.buffpos = 0, !.bufflen = SES_MSG_BUFFSIZE]

\* in the loop: a new message after a finished one, a new buffer after a full one
make_room(q) ==
  IF curmsg(q).ready THEN Append(q, new_msg)
  ELSE IF curbuff(q).buffpos = SES_MSG_BUFFSIZE
       THEN add_buff(set_buff(q, close_buff(curbuff(q))))
       ELSE q

\* text that fits written at buffpos
put(b, text) == [b EXCEPT !.data = SubSeq(@, 1, b.buffpos) \o text, !.buffpos = @ + Len(text)]

text_of(m) == FlattenSeq([i \in DOMAIN m.buffQ |->
                            SubSeq(m.buffQ[i].data, 1, m.buffQ[i].bufflen)])

first_ready == msgQ # <<>> /\ Head(msgQ).ready

-----------------------------------------------------------------------------
\* bad framing, or no buffer for what was read: the session is closed
input_error ==
  /\ state' = "closed" /\ left' = 0
  /\ UNCHANGED <<wire, msgQ, parser>>

(***************************************************************************)
(* ses_accept_input: one read, after the messages of the last are served   *)
(***************************************************************************)
read(n) ==
  /\ state = "open" /\ left = 0 /\ ~first_ready
  /\ n <= Len(wire)
  /\ IF granted(make_current(msgQ))
     THEN left' = n /\ msgQ' = make_current(msgQ) /\ UNCHANGED <<wire, parser, state>>
     ELSE input_error
  /\ UNCHANGED <<protocol, served, client, delivered>>

take(n) == wire' = SubSeq(wire, n + 1, Len(wire)) /\ left' = left - n

go(s, pos) == instate' = s /\ inendpos' = pos

(***************************************************************************)
(* accept_buffer_ssh_v10                                                   *)
(***************************************************************************)
v10_put(ch) == LET q == make_room(msgQ) IN set_buff(q, put(curbuff(q), <<ch>>))

\* a character of the text, or the first of the EOM string
v10_text(ch) ==
  /\ instate \in {"IDLE", "INMSG"}
  /\ IF ch = NC_SSH_END[1] THEN go("INEND", 1) ELSE go("INMSG", inendpos)
  /\ msgQ' = v10_put(ch) /\ take(1)
  /\ UNCHANGED <<startchunk, state>>

\* inside the EOM string; anything unexpected returns to the text
v10_end_char(ch) ==
  /\ instate = "INEND"
  /\ IF ch = NC_SSH_END[inendpos + 1]
     THEN inendpos + 1 # NC_SSH_END_LEN /\ go("INEND", inendpos + 1)
     ELSE go("INMSG", 0)
  /\ msgQ' = v10_put(ch) /\ take(1)
  /\ UNCHANGED <<startchunk, state>>

\* the buffers of a finished message, the EOM string cut off
cut_end(bq) ==
  LET b == Last(bq)
      rem_len == NC_SSH_END_LEN - b.buffpos
  IN IF b.buffpos > NC_SSH_END_LEN
     THEN ReplaceAt(bq, Len(bq), [b EXCEPT !.bufflen = b.buffpos - NC_SSH_END_LEN, !.buffpos = 0])
     ELSE LET prev == Last(Front(bq))
          IN ReplaceAt(Front(bq), Len(bq) - 1,
                       [prev EXCEPT !.bufflen = @ - rem_len, !.buffpos = 0])

\* the EOM string is complete; a message of nothing else has no buffer left to cut
v10_end(ch) ==
  /\ instate = "INEND" /\ ch = NC_SSH_END[inendpos + 1] /\ inendpos + 1 = NC_SSH_END_LEN
  /\ LET q == v10_put(ch)
         m == curmsg(q)
     IN IF Len(m.buffQ) = 1 /\ curbuff(q).buffpos <= NC_SSH_END_LEN
        THEN state' = "undefined" /\ msgQ' = q /\ take(1)
        ELSE /\ msgQ' = set_msg(q, [m EXCEPT !.buffQ = cut_end(@), !.ready = TRUE])
             /\ IF protocol = "none" /\ server11 /\ Len(q) >= 4
                THEN state' = "closed" /\ left' = 0 /\ UNCHANGED wire
                ELSE take(1) /\ UNCHANGED state
  /\ go("IDLE", 0)
  /\ UNCHANGED startchunk

accept_buffer_ssh_v10 ==
  /\ state = "open" /\ left > 0 /\ protocol # "base11"
  /\ IF granted(make_room(msgQ))
     THEN LET ch == Head(wire) IN v10_text(ch) \/ v10_end_char(ch) \/ v10_end(ch)
     ELSE input_error
  /\ UNCHANGED <<protocol, served, client, delivered>>

-----------------------------------------------------------------------------
(***************************************************************************)
(* accept_buffer_ssh_v11                                                   *)
(***************************************************************************)
\* one framing character: expected, the parser moves on, else the session ends
expect(ok, s, pos) ==
  IF ok THEN go(s, pos) /\ msgQ' = make_room(msgQ) /\ take(1) /\ UNCHANGED <<startchunk, state>>
        ELSE input_error

digit(ch, first) == ch \in (48 + first)..57

v11_idle(ch) == instate = "IDLE" /\ expect(ch = LF, "INSTART", 1)

v11_start_hash(ch) == instate = "INSTART" /\ inendpos = 1 /\ expect(ch = HASH, "INSTART", 2)

v11_start_digit(ch) ==
  /\ instate = "INSTART" /\ inendpos >= 2 /\ ch # LF
  /\ IF /\ digit(ch, IF inendpos = 2 THEN 1 ELSE 0)
        /\ inendpos # SES_MAX_STARTCHUNK_SIZE
     THEN /\ startchunk' = SubSeq(startchunk, 1, inendpos - 2) \o <<ch>>
          /\ go("INSTART", inendpos + 1)
          /\ msgQ' = make_room(msgQ) /\ take(1) /\ UNCHANGED state
     ELSE input_error

chunk_size == ncx_convert_num(SubSeq(startchunk, 1, inendpos - 2))

\* Mutant: the chunk size is not checked against its type
v11_start_end_AnySize(ch) ==
  /\ instate = "INSTART" /\ inendpos >= 2 /\ ch = LF
  /\ IF inendpos > 2 /\ inendpos # SES_MAX_STARTCHUNK_SIZE
     THEN /\ LET q == make_room(msgQ)
             IN msgQ' = set_msg(q, [curmsg(q) EXCEPT !.expchunksize = chunk_size, !.curchunksize = 0])
          /\ go("INMSG", 0) /\ take(1) /\ UNCHANGED <<startchunk, state>>
     ELSE input_error

v11_start_end(ch) ==
  /\ instate = "INSTART" /\ inendpos >= 2 /\ ch = LF
  /\ IF inendpos > 2 /\ inendpos # SES_MAX_STARTCHUNK_SIZE /\ chunk_size <= NCX_MAX_UINT
     THEN /\ LET q == make_room(msgQ)
             IN msgQ' = set_msg(q, [curmsg(q) EXCEPT !.expchunksize = chunk_size, !.curchunksize = 0])
          /\ go("INMSG", 0) /\ take(1) /\ UNCHANGED <<startchunk, state>>
     ELSE input_error

\* the text laid into the current buffer and as many new ones as it needs
fill(bq, text) ==
  LET b == Last(bq)
      outbuffleft == SES_MSG_BUFFSIZE - b.buffpos
      rest == SubSeq(text, outbuffleft + 1, Len(text))
      more == (Len(rest) + SES_MSG_BUFFSIZE - 1) \div SES_MSG_BUFFSIZE
      piece(i) == SubSeq(rest, (i - 1) * SES_MSG_BUFFSIZE + 1,
                         IF i = more THEN Len(rest) ELSE i * SES_MSG_BUFFSIZE)
  IN IF outbuffleft >= Len(text)
     THEN Append(Front(bq), put(b, text))
     ELSE Append(Front(bq), close_buff(put(b, SubSeq(text, 1, outbuffleft))))
            \o [i \in 1..more |-> [put(new_buff, piece(i)) EXCEPT !.bufflen = Len(piece(i))]]

v11_data ==
  /\ instate = "INMSG"
  /\ LET q == make_room(msgQ)
         m == curmsg(q)
         chunkleft == m.expchunksize - m.curchunksize
         copylen == IF left < chunkleft THEN left ELSE chunkleft
         filled == set_msg(q, [m EXCEPT !.curchunksize = @ + copylen,
                                        !.buffQ = fill(@, SubSeq(wire, 1, copylen))])
     IN IF granted(filled)
        THEN /\ msgQ' = filled
             /\ IF copylen = chunkleft THEN go("INBETWEEN", 0) ELSE UNCHANGED <<instate, inendpos>>
             /\ take(copylen)
             /\ UNCHANGED <<startchunk, state>>
        ELSE input_error

v11_between(ch) ==
  /\ instate = "INBETWEEN" /\ inendpos < 2
  /\ expect(ch = (IF inendpos = 0 THEN LF ELSE HASH), "INBETWEEN", inendpos + 1)

\* a second hash ends the message, a digit (left in the read) starts a chunk
v11_between_end(ch) ==
  /\ instate = "INBETWEEN" /\ inendpos = 2
  /\ IF digit(ch, 1)
     THEN go("INSTART", 2) /\ msgQ' = make_room(msgQ) /\ UNCHANGED <<wire, left, startchunk, state>>
     ELSE expect(ch = HASH, "INEND", 3)

\* Mutant: the last buffer keeps the length it had when it was begun
finish_buffs_Stale(bq) == IF Last(bq).buffpos = 0 THEN Front(bq) ELSE bq

\* an empty last buffer is dropped, the length of any other settled
finish_buffs(bq) ==
  IF Last(bq).buffpos = 0 THEN Front(bq)
  ELSE Append(Front(bq), [Last(bq) EXCEPT !.bufflen = Last(bq).buffpos, !.buffpos = 0])

v11_end(ch) ==
  /\ instate = "INEND"
  /\ IF ch = LF
     THEN /\ LET q == make_room(msgQ)
             IN msgQ' = set_msg(q, [curmsg(q) EXCEPT !.ready = TRUE, !.buffQ = finish_buffs(@)])
          /\ go("IDLE", 0) /\ take(1) /\ UNCHANGED <<startchunk, state>>
     ELSE input_error

accept_buffer_ssh_v11 ==
  /\ state = "open" /\ left > 0 /\ protocol = "base11"
  /\ IF granted(make_room(msgQ))
     THEN LET ch == Head(wire)
          IN \/ v11_idle(ch) \/ v11_start_hash(ch) \/ v11_start_digit(ch) \/ v11_start_end(ch)
             \/ v11_data \/ v11_between(ch) \/ v11_between_end(ch) \/ v11_end(ch)
     ELSE input_error
  /\ UNCHANGED <<protocol, served, client, delivered>>

-----------------------------------------------------------------------------

\* Mutant: serving a message frees the others that are ready
dispatch_DropsRest ==
  /\ state = "open" /\ left = 0 /\ first_ready
  /\ delivered' = text_of(Head(msgQ))
  /\ msgQ' = SelectSeq(msgQ, LAMBDA m : ~m.ready)
  /\ sent' = IF sent = <<>> THEN sent ELSE Tail(sent)
  /\ served' = served + 1
  /\ protocol' = IF served = 1 THEN agreed ELSE protocol
  /\ UNCHANGED <<wire, left, parser, state, client11, server11, nsent, bad>>

(***************************************************************************)
(* The first ready message goes to the dispatcher, which reads its buffers *)
(* through ses_read_cb and frees it; the client's hello fixes the protocol *)
(***************************************************************************)
dispatch ==
  /\ state = "open" /\ left = 0 /\ first_ready
  /\ delivered' = text_of(Head(msgQ))
  /\ msgQ' = Tail(msgQ)
  /\ sent' = IF sent = <<>> THEN sent ELSE Tail(sent)
  /\ served' = served + 1
  /\ protocol' = IF served = 1 THEN agreed ELSE protocol
  /\ UNCHANGED <<wire, left, parser, state, client11, server11, nsent, bad>>

server ==
  \/ \E n \in ReadSizes : read(n)
  \/ accept_buffer_ssh_v10 \/ accept_buffer_ssh_v11 \/ dispatch

InputNext == SendDoc \/ SendMalformed \/ server

InputSpec == InputInit /\ [][InputNext]_inputVars
FairInputSpec == InputSpec /\ WF_inputVars(server)

-----------------------------------------------------------------------------
(***************************************************************************)
(* Properties                                                              *)
(***************************************************************************)
Buffer == [data : Seq(Byte), buffpos : 0..SES_MSG_BUFFSIZE, bufflen : 0..SES_MSG_BUFFSIZE]

\* The types, and that no buffer of a session is ever overfilled or read
\* beyond what was written to it (ses_accept_input).
InputTypeOK ==
  /\ left \in 0..Len(wire)
  /\ \A i \in DOMAIN msgQ :
       /\ msgQ[i].ready \in BOOLEAN
       /\ msgQ[i].expchunksize \in 0..NCX_MAX_UINT
       /\ msgQ[i].curchunksize \in 0..msgQ[i].expchunksize
       /\ \A j \in DOMAIN msgQ[i].buffQ :
            LET b == msgQ[i].buffQ[j]
            IN b \in Buffer /\ Len(b.data) <= SES_MSG_BUFFSIZE /\ b.bufflen <= Len(b.data)
  /\ instate \in {"IDLE", "INSTART", "INMSG", "INBETWEEN", "INEND"}
  /\ inendpos \in 0..SES_MAX_STARTCHUNK_SIZE
  /\ startchunk \in Seq(48..57)
  /\ protocol \in {"none", "base10", "base11"}
  /\ state \in {"open", "closed", "undefined"}
  /\ {client11, server11, bad} \subseteq BOOLEAN
  /\ served \in 0..MaxDocs /\ nsent \in 0..MaxDocs

\* The bytes the unfinished message holds so far: whole buffers, then what was
\* written to the last one.
partial_text ==
  IF msgQ = <<>> \/ curmsg(msgQ).ready THEN <<>>
  ELSE LET m == curmsg(msgQ)
       IN text_of([m EXCEPT !.buffQ = Front(@)])
            \o SubSeq(curbuff(msgQ).data, 1, curbuff(msgQ).buffpos)

\* Between two reads the unfinished message holds exactly a beginning of the
\* document its peer is sending (with base:1.0 perhaps some of the EOM string),
\* wherever the reads and the buffers were cut.
PartialTextSound ==
  state = "open" /\ ~bad /\ partial_text # <<>> =>
    /\ Len(msgQ) \in DOMAIN sent
    /\ IsPrefix(partial_text, sent[Len(msgQ)] \o NC_SSH_END)

\* No buffer is overfilled, and the buffers hold what was sent.
BuffersSound == InputTypeOK /\ PartialTextSound

\* Buffers that a document may take up, with the EOM string behind it
needed(d) == (Len(d) + NC_SSH_END_LEN) \div SES_MSG_BUFFSIZE + 1

\* Those of several documents, and scb->outbuff
buffers_for(docs) == FoldLeft(LAMBDA n, d : n + needed(d), 1, docs)

\* What was sent and not dispatched may take up more than a session may own.
TooMuchSent == buffers_for(sent) >= SES_MAX_BUFFERS

\* A session that keeps to the framing is never closed or crashed by it, however
\* its bytes are cut into reads and chunks.  The code makes two exceptions: a
\* client whose requests overtake its hello, and one that sends more than the
\* buffers of a session hold (ses_msg_new_buff).
GoodPeerKept ==
  state # "open" => bad \/ (protocol = "none" /\ server11 /\ nsent >= 4) \/ TooMuchSent

\* A chunk header that breaks the grammar of RFC 6242, quoted at
\* accept_buffer_ssh_v11, is refused by the time its last byte was read.
MalformedRefused ==
  bad /\ wire = <<>> => state # "open"

\* Good peers are kept and malformed chunks are refused.
PeersJudged == GoodPeerKept /\ MalformedRefused

\* Documents arrive whole, once and in order (MessageStream), in the buffers
\* that ses_read_cb reads.
Stream == INSTANCE MessageStream WITH open <- state = "open"
ImplementsStream == Stream!Spec

\* Everything sent on a session that stays open is dispatched: the loop reads
\* on, and no message is left behind in a buffer.
EverythingArrives ==
  <>[](sent = <<>> \/ state # "open" \/ bad)
=============================================================================
