---------------------------- MODULE MessageStream ----------------------------
(***************************************************************************)
(* What the framing of a session promises to the two ends: documents       *)
(* arrive whole, once and in the order in which they were sent, or the     *)
(* stream is closed and nothing more arrives.                              *)
(***************************************************************************)
EXTENDS Sequences

CONSTANT Docs               \* the documents that may be sent

VARIABLES sent,             \* documents on the way
          delivered,        \* the document handed over last
          open              \* FALSE once the receiver gave the stream up

vars == <<sent, delivered, open>>

Init == sent = <<>> /\ delivered = <<>> /\ open = TRUE

Send == \E d \in Docs :
  sent' = Append(sent, d) /\ UNCHANGED <<delivered, open>>

Deliver ==
  /\ open = TRUE /\ sent # <<>>
  /\ delivered' = Head(sent)
  /\ sent' = Tail(sent)
  /\ UNCHANGED open

Close == open = TRUE /\ open' = FALSE /\ UNCHANGED <<sent, delivered>>

Next == Send \/ Deliver \/ Close

Spec == Init /\ [][Next]_vars
=============================================================================
