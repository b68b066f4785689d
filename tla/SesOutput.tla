------------------------------ MODULE SesOutput ------------------------------
(***************************************************************************)
(* The bytes a session writes for one message: ses_putchar fills the       *)
(* output buffer, a full buffer is sent at once (stream output, the        *)
(* agent's mode) and used again, ses_finish_msg sends the last one.        *)
(* base:1.0 ends a message with the EOM string; base:1.1 makes each buffer *)
(* a chunk, whose header is written into a pad kept free at its start.     *)
(***************************************************************************)
EXTENDS Integers, Sequences, SequencesExt

CONSTANTS SES_MSG_BUFFSIZE, SES_STARTCHUNK_PAD, SES_ENDCHUNK_PAD

ASSUME OutputAssumption ==
  /\ SES_MSG_BUFFSIZE \in Nat /\ SES_STARTCHUNK_PAD \in Nat /\ SES_ENDCHUNK_PAD \in Nat
  /\ SES_STARTCHUNK_PAD + SES_ENDCHUNK_PAD < SES_MSG_BUFFSIZE

LF   == 10
HASH == 35
NC_SSH_END        == <<93, 93, 62, 93, 93, 62>>            \* ]]>]]>
NC_SSH_END_LEN    == Len(NC_SSH_END)
NC_SSH_END_CHUNKS == <<LF, HASH, HASH, LF>>

\* snprintf "%zu": the decimal digits of n
Decimal[n \in Nat] ==
  IF n < 10 THEN <<48 + n>> ELSE Append(Decimal[n \div 10], 48 + (n % 10))

(***************************************************************************)
(* An output buffer: the bytes written so far (those of the pad are not    *)
(* listed), where they start, and whether the message ends here.           *)
(***************************************************************************)
ses_msg_init_buff(framing11) ==
  [buffstart |-> IF framing11 THEN SES_STARTCHUNK_PAD ELSE 0,
   data |-> <<>>, islast |-> FALSE]

bufflen(b) == b.buffstart + Len(b.data)

ses_msg_add_framing(b) ==
  <<LF, HASH>> \o Decimal[bufflen(b) - SES_STARTCHUNK_PAD] \o <<LF>> \o b.data
    \o (IF b.islast THEN NC_SSH_END_CHUNKS ELSE <<>>)

do_send_buff(framing11, b) ==
  IF framing11 THEN ses_msg_add_framing(b) ELSE b.data

\* ses_msg_write_buff: the room left for text in a buffer
has_room(framing11, b) ==
  bufflen(b) < SES_MSG_BUFFSIZE - (IF framing11 THEN SES_ENDCHUNK_PAD ELSE 0)

\* o: the buffer being filled and the bytes already sent
ses_putchar(framing11, o, ch) ==
  IF has_room(framing11, o.outbuff)
  THEN [o EXCEPT !.outbuff.data = Append(@, ch)]
  ELSE [outbuff |-> [ses_msg_init_buff(framing11) EXCEPT !.data = <<ch>>],
        bytes |-> o.bytes \o do_send_buff(framing11, o.outbuff)]

ses_putstr(framing11, o, str) ==
  FoldLeft(LAMBDA p, ch : ses_putchar(framing11, p, ch), o, str)

ses_finish_msg(framing11, o) ==
  LET done == IF framing11 THEN [o EXCEPT !.outbuff.islast = TRUE]
                           ELSE ses_putstr(framing11, o, NC_SSH_END)
  IN done.bytes \o do_send_buff(framing11, done.outbuff)

\* The bytes of one message
Written(framing11, doc) ==
  ses_finish_msg(framing11,
    ses_putstr(framing11, [outbuff |-> ses_msg_init_buff(framing11), bytes |-> <<>>], doc))
=============================================================================
