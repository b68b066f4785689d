------------------------------ MODULE Subsystem ------------------------------
(***************************************************************************)
(* Clients, one netconf-subsystem process for each of them, and netconfd.  *)
(* sshd gives the process a pipe from the client and one to it; the        *)
(* process has a socket to the server, and copies between them: one loop,  *)
(* one buffer, blocking writes (netconf-subsystem.c, send_buff.c). The     *)
(* server has one thread, and writes a reply at once (agt_stream_output).  *)
(*                                                                         *)
(* Every pipe holds a few units: a unit is a request on the way up, and a  *)
(* part of a reply on the way down. Request 0 is the <ncx-connect> of the  *)
(* process, which the server answers with its <hello>; the last request is *)
(* <close-session>. What the server has read and not dispatched counts as  *)
(* in its socket; SessionLoop has the detail of its loop, SesInput that of *)
(* the messages.                                                           *)
(***************************************************************************)
EXTENDS Naturals, SequencesExt, FiniteSetsExt

CONSTANTS
    Clients,
    Nobody,
    Requests,   \* how many a client sends, without waiting for replies
    ReplySize,  \* units of a reply
    UpCap, DownCap, PipeCap,  \* units in the socket, each way, and in a pipe
    BUFFLEN     \* units in the buffer of the process

ASSUME SizesAssumption ==
    /\ Nobody \notin Clients
    /\ Requests \in [Clients -> Nat \ {0}]
    /\ {ReplySize, UpCap, DownCap, PipeCap, BUFFLEN} \subseteq Nat \ {0}

VARIABLES
    sent,     \* requests of each client
    gone,     \* the clients that have hung up
    pin, pout,  \* the pipes from and to the client
    relay,    \* the process: where it is, what select found, msgbuff
    up, down, \* the socket between process and server
    ses,      \* the sessions of the server
    server,   \* whom it writes to, what, and whether this ends the session
    taken,    \* for the properties: the requests the server has taken
    got       \* for the properties: what the client has read

clientVars == <<sent, gone, got>>
relayVars == <<pin, pout, relay>>
serverVars == <<ses, server, taken>>
vars == <<clientVars, relayVars, up, down, serverVars>>

\* The units of a session's replies are numbered through.
Reply(n) == [k \in 1..ReplySize |-> n * ReplySize + k]
AllRequests(c) == [k \in 1..Requests[c] + 1 |-> k - 1]
AllReplies(c) == [k \in 1..(Requests[c] + 1) * ReplySize |-> k]

\* The connection is made, and <ncx-connect> is to be sent.
Connected == [pc |-> "send_up", ready |-> {}, msgbuff |-> <<0>>]
Ended == [pc |-> "ended", ready |-> {}, msgbuff |-> <<>>]
Idle == [to |-> Nobody, left |-> <<>>, last |-> FALSE]

Init ==
  /\ sent = [c \in Clients |-> 0] /\ gone = {}
  /\ pin = [c \in Clients |-> <<>>] /\ pout = [c \in Clients |-> <<>>]
  /\ relay = [c \in Clients |-> Connected]
  /\ up = [c \in Clients |-> <<>>] /\ down = [c \in Clients |-> <<>>]
  /\ ses = [c \in Clients |-> "open"]
  /\ server = Idle
  /\ taken = [c \in Clients |-> <<>>] /\ got = [c \in Clients |-> <<>>]
-----------------------------------------------------------------------------
(* The client, and sshd *)

Send(c) ==
  /\ c \notin gone /\ relay[c].pc # "ended"
  /\ sent[c] < Requests[c] /\ Len(pin[c]) < PipeCap
  /\ sent' = [sent EXCEPT ![c] = @ + 1]
  /\ pin' = [pin EXCEPT ![c] = Append(@, sent'[c])]
  /\ UNCHANGED <<gone, got, pout, relay, up, down, serverVars>>

Receive(c) ==
  /\ c \notin gone /\ pout[c] # <<>>
  /\ got' = [got EXCEPT ![c] = Append(@, Head(pout[c]))]
  /\ pout' = [pout EXCEPT ![c] = Tail(@)]
  /\ UNCHANGED <<sent, gone, pin, relay, up, down, serverVars>>

HangUp(c) ==
  /\ c \notin gone
  /\ gone' = gone \cup {c}
  /\ pout' = [pout EXCEPT ![c] = <<>>]
  /\ UNCHANGED <<sent, got, pin, relay, up, down, serverVars>>
-----------------------------------------------------------------------------
(* netconf-subsystem *)

At(c, pc) == relay[c].pc = pc

Then(ready) == IF "ncxsock" \in ready THEN "sock" ELSE "select"

\* The client is looked at first, and then the server.
First(ready) == IF "stdin" \in ready THEN "stdin" ELSE Then(ready)

\* The process ends; what it has not read of the pipe and the socket is lost.
cleanup_subsys(c) ==
  /\ relay' = [relay EXCEPT ![c] = Ended]
  /\ pin' = [pin EXCEPT ![c] = <<>>] /\ down' = [down EXCEPT ![c] = <<>>]
  /\ UNCHANGED <<clientVars, pout, up, serverVars>>

select(c) ==
  LET ready == {fd \in {"stdin", "ncxsock"} :
                  IF fd = "stdin" THEN pin[c] # <<>> \/ c \in gone
                  ELSE down[c] # <<>> \/ ses[c] = "closed"}
  IN /\ At(c, "select") /\ ready # {}
     /\ relay' = [relay EXCEPT ![c].pc = First(ready), ![c].ready = ready]
     /\ UNCHANGED <<clientVars, pin, pout, up, down, serverVars>>

\* do_read of what there is of data into msgbuff, which pc is to send
do_read(c, data, pc) ==
  /\ data # <<>>
  /\ relay' = [relay EXCEPT ![c].msgbuff = SubSeq(data, 1, Min({BUFFLEN, Len(data)})), ![c].pc = pc]

Rest(data) == SubSeq(data, BUFFLEN + 1, Len(data))

\* Mutant: the socket is read before what was read here is sent.
read_stdin_SendLater(c) ==
  /\ At(c, "stdin")
  /\ do_read(c, pin[c], IF "ncxsock" \in relay[c].ready THEN "sock" ELSE "send_up")
  /\ pin' = [pin EXCEPT ![c] = Rest(@)]
  /\ UNCHANGED <<clientVars, pout, up, down, serverVars>>

read_stdin(c) ==
  /\ At(c, "stdin")
  /\ do_read(c, pin[c], "send_up") /\ pin' = [pin EXCEPT ![c] = Rest(@)]
  /\ UNCHANGED <<clientVars, pout, up, down, serverVars>>

\* Replies that are still on their way are lost.
eof_stdin(c) ==
  /\ At(c, "stdin") /\ pin[c] = <<>>
  /\ cleanup_subsys(c)

\* send_buff to the server
send_up(c) ==
  /\ At(c, "send_up")
  /\ \/ /\ ses[c] = "open" /\ Len(up[c]) < UpCap
        /\ up' = [up EXCEPT ![c] = Append(@, Head(relay[c].msgbuff))]
        /\ relay' = [relay EXCEPT ![c].msgbuff = Tail(@),
                       ![c].pc = IF Len(relay[c].msgbuff) = 1 THEN Then(relay[c].ready) ELSE @]
        /\ UNCHANGED <<clientVars, pin, pout, down, serverVars>>
     \/ ses[c] = "closed" /\ cleanup_subsys(c)

read_sock(c) ==
  /\ At(c, "sock")
  /\ do_read(c, down[c], "send_out") /\ down' = [down EXCEPT ![c] = Rest(@)]
  /\ UNCHANGED <<clientVars, pin, pout, up, serverVars>>

\* Mutant: a session that is closed has nothing more to be read.
eof_sock_TooEarly(c) ==
  /\ At(c, "sock") /\ ses[c] = "closed"
  /\ cleanup_subsys(c)

eof_sock(c) ==
  /\ At(c, "sock")
  /\ ses[c] = "closed" /\ down[c] = <<>>
  /\ cleanup_subsys(c)

\* send_buff to the client; EPIPE, or SIGPIPE, ends the process.
send_out(c) ==
  /\ At(c, "send_out")
  /\ \/ /\ c \notin gone /\ Len(pout[c]) < PipeCap
        /\ pout' = [pout EXCEPT ![c] = Append(@, Head(relay[c].msgbuff))]
        /\ relay' = [relay EXCEPT ![c].msgbuff = Tail(@),
                       ![c].pc = IF Len(relay[c].msgbuff) = 1 THEN "select" ELSE @]
        /\ UNCHANGED <<clientVars, pin, up, down, serverVars>>
     \/ c \in gone /\ cleanup_subsys(c)

io_loop(c) ==
  \/ select(c) \/ read_stdin(c) \/ eof_stdin(c)
  \/ send_up(c) \/ read_sock(c) \/ eof_sock(c) \/ send_out(c)
-----------------------------------------------------------------------------
(* netconfd. It waits in no write for another session's sake, and in each   *)
(* of them until there is room or the process has ended.                    *)

dispatch(c) ==
  /\ server = Idle /\ ses[c] = "open" /\ up[c] # <<>>
  /\ taken' = [taken EXCEPT ![c] = Append(@, Head(up[c]))]
  /\ up' = [up EXCEPT ![c] = Tail(@)]
  /\ server' = [to |-> c, left |-> Reply(Head(up[c])), last |-> Head(up[c]) = Requests[c]]
  /\ UNCHANGED <<clientVars, relayVars, down, ses>>

\* Mutant: it waits for room when the process has ended, too.
do_send_buff_Waits(c) ==
  /\ server.to = c /\ server.left # <<>> /\ Len(down[c]) < DownCap /\ ~At(c, "ended")
  /\ down' = [down EXCEPT ![c] = Append(@, Head(server.left))]
  /\ server' = [server EXCEPT !.left = Tail(@)]
  /\ UNCHANGED <<clientVars, relayVars, up, ses, taken>>

\* An error of write is logged, and the rest of the reply dropped.
do_send_buff(c) ==
  /\ server.to = c /\ server.left # <<>>
  /\ \/ /\ ~At(c, "ended") /\ Len(down[c]) < DownCap
        /\ down' = [down EXCEPT ![c] = Append(@, Head(server.left))]
        /\ server' = [server EXCEPT !.left = Tail(@)]
     \/ /\ At(c, "ended")
        /\ server' = [server EXCEPT !.left = <<>>]
        /\ UNCHANGED down
  /\ UNCHANGED <<clientVars, relayVars, up, ses, taken>>

\* The session is closed after the reply to <close-session>.
finish_msg(c) ==
  /\ server.to = c /\ server.left = <<>>
  /\ server' = Idle
  /\ ses' = [ses EXCEPT ![c] = IF server.last THEN "closed" ELSE @]
  /\ UNCHANGED <<clientVars, relayVars, up, down, taken>>

agt_ses_kill_session(c) ==
  /\ server = Idle /\ ses[c] = "open" /\ up[c] = <<>> /\ At(c, "ended")
  /\ ses' = [ses EXCEPT ![c] = "closed"]
  /\ UNCHANGED <<clientVars, relayVars, up, down, server, taken>>

ncxserver(c) ==
  dispatch(c) \/ do_send_buff(c) \/ finish_msg(c) \/ agt_ses_kill_session(c)
-----------------------------------------------------------------------------
Next == \E c \in Clients :
  Send(c) \/ Receive(c) \/ HangUp(c) \/ io_loop(c) \/ ncxserver(c)

Spec == Init /\ [][Next]_vars

\* Processes run, the server takes its sessions in turn, and a client that has
\* not hung up reads; nobody has to send or to hang up.
FairSpec ==
  /\ Spec
  /\ \A c \in Clients :
       WF_vars(Receive(c)) /\ WF_vars(io_loop(c)) /\ WF_vars(ncxserver(c))
-----------------------------------------------------------------------------
(* Properties *)

\* Every variable has values of its type, and no pipe holds more than it can.
TypeOK ==
  /\ gone \subseteq Clients
  /\ \A c \in Clients :
       /\ sent[c] \in 0..Requests[c]
       /\ Len(pin[c]) <= PipeCap /\ Len(pout[c]) <= PipeCap
       /\ Len(up[c]) <= UpCap /\ Len(down[c]) <= DownCap
       /\ Len(relay[c].msgbuff) <= BUFFLEN
       /\ relay[c].pc \in {"select", "stdin", "send_up", "sock", "send_out", "ended"}
       /\ (relay[c].pc \in {"send_up", "send_out"}) = (relay[c].msgbuff # <<>>)
  /\ ses \in [Clients -> {"open", "closed"}]
  /\ server.to \in Clients \cup {Nobody}

\* Both directions share one buffer, and a write may come to an end anywhere:
\* still the server gets the requests of a client in their order, whole and
\* once, and the client the replies, whatever stops in between.
StreamsInOrder ==
  \A c \in Clients :
    /\ IsPrefix(taken[c], AllRequests(c))
    /\ IsPrefix(got[c], AllReplies(c))

\* The pipes and the buffer are used within their sizes, and keep the order.
PipesSound == TypeOK /\ StreamsInOrder

\* The server closes the session behind the reply to <close-session>, while
\* most of the replies may still be under way: a client that does not hang up
\* gets all of them, and nothing is lost with the process.
CloseDelivers ==
  \A c \in Clients \ gone :
    At(c, "ended") => got[c] \o pout[c] = AllReplies(c)

\* One thread serves all, and it waits in its writes. Clients that send no more
\* than the socket holds all get their replies, unless they hang up: also when
\* another one hangs up while the server writes to it.
Answered ==
  <>[](\A c \in Clients : Len(got[c]) = (sent[c] + 1) * ReplySize \/ c \in gone)
=============================================================================
