# Verification of OpenYuma

TLA+ models, model-checking runs and machine-checked proofs for `netconfd`, the
NETCONF server of OpenYuma (`src/netconf/src`), for `netconf-subsystem`, which stands
between it and sshd, and for the multi-step commands of its client `yangcli`. The definitions are translated from
the C code; each keeps the name of the function or variable it stands for where
TLA+ allows it, and `PROJECT.json` ("map") names its lines.

## The system

netconfd is a single thread around a `select()` loop (`agt/agt_ncxserver.c`). A
client reaches it through sshd and `netconf-subsystem`, which relays bytes over a
Unix socket. A session reads bytes into buffers, frames them into messages
(`ncx/ses.c`, `ncx/ses_msg.c`), and every complete message is dispatched as one RPC
(`agt/agt_rpc.c`): parse, VALIDATE callback, INVOKE callback, reply. One dispatch is
never interrupted by another, so an RPC is one step of the models unless a callback
can fail half-way. What makes the server hard is not threads but state shared by all
sessions and kept between RPCs: datastores, locks, transactions, the pending
confirmed commit, subscriptions and timers, all of which have to survive sessions
that end at any moment.

| Part | State it keeps | Operations | Interacts with |
|---|---|---|---|
| Datastore locks (`ncx/cfg.c`, `ncx/plock*.c`, `agt/agt_plock.c`) | `cfg_state`, `locked_by`, `plockQ`, `plock[]` slots in value nodes, `last_id`, dirty flag | lock, unlock, partial-lock, partial-unlock, release on session end | every write operation, session end, confirmed commit |
| Datastores and confirmed commit (`agt/agt_ncx.c`, `agt/agt_cfg.c`) | contents of running, candidate, startup file, backup file; `commit_cb` | edit-config, copy-config, commit, cancel-commit, discard-changes, timeout, restart | locks, sessions, timers, transactions |
| Edit application (`agt/agt_val.c`) | undo queue, value tree, device state behind SIL callbacks | apply, check, commit, rollback, reverse edit | datastores, SIL code |
| Sessions and dispatch (`agt/agt_ses.c`, `agt_ncxserver.c`, `agt_rpc.c`, `agt_top.c`, `agt_hello.c`, `agt_connect.c`) | session table, session state, ready queues, timeouts | new, hello, rpc, close, kill, drop, timeout | everything |
| Message framing and buffers (`ncx/ses.c`, `ncx/ses_msg.c`) | input and output buffer queues, framing state | accept input, chunk decode, write, send | sessions |
| Notifications (`agt/agt_not.c`) | event log, subscriptions, replay position, delivery state | create-subscription, queue, send, expire, trim | sessions, idle loop |
| Transactions (`agt/agt_cfg.c`, `agt/agt_ncx.c`, `agt/agt_val.c`) | `cur_txid` of each datastore, the id counter and its file, `gTxcb` with the undo records that stay from request to request, `msg->rpc_txcb` | new, free, trans-start, edit-config with a trans-id, trans-commit, trans-rollback | edit, validate and commit of all sessions, locks, session end, restart |
| Timers (`agt/agt_timer.c`) | timer queue | create, restart, delete, handler | idle loop, SIL code |
| Access control (`agt/agt_acm.c`) | rule lists, per-session and per-message cache | allowed checks, cache update and invalidation | every RPC |
| Manager RPCs (`mgr/mgr_rpc.c`, `mgr/mgr_io.c`) | request queue, next message id | send, reply, timeout, session end | yangcli |
| yangcli autolock (`yangcli/yangcli_autolock.c`, `yangcli.c`) | `server_cb`: command mode, a lock state for each datastore, retry and command timers | get-locks, release-locks, cleanup, discard-changes | manager RPCs, locks of the server |
| netconf-subsystem (`subsys/netconf-subsystem.c`, `ncx/send_buff.c`) | two byte streams, one buffer | relay, ncx-connect, close | sshd, sessions |
| YANG compiler, object and type tables (`ncx/yang_*`, `ncx/obj*`, `ncx/typ.c`, `ncx/ncx*.c`) | module registry | parse, resolve | start-up |
| XML, XPath, value trees (`ncx/xml_*`, `ncx/xpath*`, `ncx/val*.c`) | none between calls | parse, print, evaluate | RPCs |
| Tools (`yangdump`, `yangdiff`, `ydump`, `yangcli` shell) | none between runs | | |

## Hard behaviours and what correctness means

* *Locks.* A lock must stop every other writer, must not outlive its session, must
  not be granted over another, and `cfg_state`, a cached summary of the queue, must
  follow it. The slots of a partial lock are in the nodes, which commits and restores replace
  by clones: locks must stay on what they lock.
* *Confirmed commit.* A commit that is not confirmed in time, by the right session
  or with the right persist-id, must be undone: on timeout, on cancel, on the end of
  its session; a restart must come up with a configuration somebody committed.
* *Edit application.* If any callback fails, the tree and the device must both be
  as before; callbacks that ran must be undone.
* *Sessions.* A session is freed once, never while it is used, and its slot, ready
  queue entries, subscription and pending commit go with it. Every session is served.
* *Buffers.* Both framings survive any split of the bytes into reads and buffers.
* *Notifications.* Replay before the marker, each event once and in order, no
  pointer into a part of the log that is gone, nothing skipped when it is trimmed.
* *Transactions.* `cur_txid` marks a datastore as being edited. It must be given
  back on every path, or the datastore refuses edits for good. A transaction of several
  requests must end with its session, keep others out, and be undone as a whole; ids are
  never given out twice, crashes included.
* *get-locks.* All locks or none, over refusals, retries, timeouts, replies that come
  after they were given up, and lost connections; and the user gets the prompt back.
* *Relay.* Two directions share one loop and one buffer with blocking writes: nothing may
  be lost, reordered or stuck, whoever hangs up first, and one slow client must not stop
  the server's only thread.

`PROJECT.json` lists these as "hazards", each at its line, with the properties that
would catch it.

## Modules

| Module | Models |
|---|---|
| `AbstractLocks` | what the locks promise a client: holders and shares, no states, slots or ids |
| `ConfigLocks` | global and partial locks, their release at the end of a session, the lock slots that edits, commits and restores move with the nodes, the dirty flag of `<candidate>` |
| `ConfigLocksProofs` | inductive invariant, exclusion, refinement of `AbstractLocks` |
| `AbstractCommit` | what commits promise: the active and the confirmed configuration |
| `ConfirmedCommit` | contents of the datastores and files, `commit_cb`, timeouts, ends of sessions, restarts |
| `ConfirmedCommitProofs` | ownership, locks, backup and startup file, refinement of `AbstractCommit` |
| `SessionService` | what the loop promises: requests in order, once, to clients that said hello |
| `SessionLoop` | select, reads, ready queue, dispatch, all ways a session ends |
| `MessageStream` | a stream of documents |
| `SesOutput`, `SesInput` | the writer's framing (functions), the reader's framing and buffers (state machine) |
| `SessionProofs` | `SessionLoop`: tables and ready queue, timeouts, refinement of `SessionService`; `SesInput`: buffers, good and bad peers, refinement of `MessageStream` |
| `AtomicEdit` | a request is made in full or not at all |
| `EditEngine` | apply, checks, COMMIT callbacks, reverse edits and rollback of `agt_val.c` |
| `EditEngineProofs` | what undo records say of the tree, settled tree, instrumentation, refinement of `AtomicEdit` |
| `Notifications` | event log, subscriptions, and the rounds in which they are served |
| `NotificationsProofs` | live pointers, the end of a subscription, what is deleted, complete delivery |
| `Transactions` | trans-start to trans-commit or trans-rollback, undo records over several requests, ids |
| `TransactionsProofs` | types, owner, fresh ids, isolation, trans-rollback restores |
| `AutoLock` | get-locks and release-locks of yangcli, its request queue, the connection, the lock owners |
| `AutoLockProofs` | what the control block knows of the server, all locks or none |
| `Subsystem` | clients, a relay process for each, their pipes and sockets, the writes of the server |
| `SubsystemProofs` | the order of both streams, complete replies at the end |
| `MC...` | instances for TLC: trees, documents, schemas, symmetry |

The modules do not share variables. Where two parts meet, each module keeps as much
of the other as its guards ask for: `ConfirmedCommit` has the global locks and the
sessions, `ConfigLocks` has the flag of a pending commit, `SessionLoop` treats the
body of an RPC as done, and the modules about datastores treat the end of a session
as an action. `AutoLock` has of the server the owner of each lock, and `Subsystem` of a
session whether it is open.

### ConfigLocks

`state`, `lockedBy` are `cfg_state` and `locked_by` of each datastore; `plockQ` is the
queue of partial locks of `<running>` (id, session, memory block, pruned node set); `plock` and
`candPlock` are functions from the nodes that `<running>` and `<candidate>` have to their
`plock[]` arrays of blocks; `lastId` is the counter of `plock_cb.c`, `dirty` is `CFG_FL_DIRTY`,
`marked` the nodes of `<candidate>` with `VAL_FL_DIRTY`. History variables: `editors` (who has
edited the candidate since it was filled), `lapsed` (locks that have lost their slot on a node)
and `cloned` (nodes of `<running>` with an array from another tree at or above them).

A partial lock is kept twice: in the queue, and as a pointer in a slot of each of its nodes,
and it is the slots that decide who may lock or edit a node. They move. `<candidate>` is a clone
with copies of all slots (`cfg_fill_candidate_from_running`), which nobody clears
(`free_partial_locks`); a commit puts the topmost marked complex nodes of the candidate with
all below them into `<running>`, hands over the array of the replaced node only and leaves
leafs where they are (`array_after`, `arrays_after_commit`); an undone commit gives the nodes
whose COMMIT callback was called the array of what was to replace them (`rolled_back`); a
cancelled commit, a failed undo and a commit that fails late load the backup, whose nodes have
no slots (`backup_loaded`, `backup_refused`). `set_arrays` is how all of them end. A block that
was freed may be given out again; a slot that points to a freed one can be read as anybody's
(`OwnedBy`, `Dangling`), while the crash that such a read may also be is not modelled.

`Lock`, `Unlock`, `PartialLock`, `PartialUnlock`, `edit_values`, `put_subtree`,
`delete_subtree`, `discard_changes`, `copy_config_candidate`, `commit` and
`agt_ncx_cancel_confirmed_commit` are the requests, validated and invoked in one step; an
edit-config with several edits is several steps. `PartialLockDenied` is a request that is
refused by access control or another's slot after the id was used, `PartialLockBackedOut` one
whose reply could not be built. `agt_ses_free_session` is `cfg_release_locks` over every
datastore in the order of the code. `Nodes` has the nodes above each of its nodes; what is not
in it lies below one of them, and an edit of it marks none (`N = {}`). `badFlags` says that
flags of earlier edits may be left over, or be missing where the candidate was filled from
`<startup>`: a commit may then apply at more nodes, which is more than the code does.

### ConfirmedCommit

Configurations are values that are only compared. `commit_invoke` is split by the
kind of commit (`commit_plain`, `commit_start`, `commit_extend`, `commit_confirm`),
each with all its outcomes as disjuncts; the constant `Faults` says which failures a
run allows (callback refuses, undo refuses, backup file, `agt_commit_complete`,
startup file, restore, undispatchable message). `load_config_file` is the load of the
backup after a failed rollback. `agt_ses_kill_session` handles the pending commit of
the session it ends, `agt_top_dispatch_msg` ends a session without it, `restart` is a
crash followed by `load_running_config`: without a file, as at the first start or after
delete-config, the server comes up with the factory configuration. `unmarked` says that
the candidate may differ from `<running>` in nodes that are not marked as edits: it was filled
from `<startup>`, or kept when a failed commit had the backup loaded. The flags of single
nodes, which decide what a commit of it does, are not in the model, so such a commit may leave
any configuration. `rollback_res` starts as `ERR_NCX_SKIPPED` (`agt_cfg.c:508`), so that not
only an undo that fails but also `agt_commit_complete` or a save that fails has the backup
loaded (`load_backup`, `agt_ncx.c:2548`). `base` and `event` are history: what
`<running>` was when the pending commit began, and the last notification.

### SessionLoop

One step is `select` with its scan of the table or the timeout check when nothing is
readable, one read and `ses_accept_input` of a socket, or one turn of
`agt_ses_process_first_ready`. The record of a session has its state, its `inq` flag,
its complete messages, what is still on the wire, whether the peer closed or is late. The
hello timer is tested in HELLO_WAIT and the idle timer when the session is active (`timed`).
A message is a kind ("hello", "rpc", "kill", "junk", ...). Where the code goes on with
a session control block that it freed, the model enters the phase "undefined".

### SesInput, SesOutput

A byte is its code. One action is one turn of the loop over the read buffer in
`accept_buffer_ssh_v10` or `accept_buffer_ssh_v11`; buffers are sequences with
`buffpos` and `bufflen`, and every piece of the text is put where the code puts it.
The peer writes with `SesOutput`, which is `ses_putchar`, `ses_msg_add_framing` and
`ses_finish_msg` as functions, or in chunks cut elsewhere, or ends with bytes that
break the chunk grammar. The grammar (`HasMessage`, `BeginsMessage`: RFC 6242, 4.2, as the
comment at `accept_buffer_ssh_v11` quotes it, with the sizes the code has room for) is
stated without the parser; `Malformed` is any set of byte strings that neither have a
message nor begin one. `granted` is the test of `ses_msg_new_buff` against `SES_MAX_BUFFERS`:
with the buffer for output and those of all messages in the queue, finished ones too, a
session owns `buffcnt` of them; freed ones are kept for the next use and change nothing. Where
the parser needs one more it ends with an error, which ends the session (`input_error`).
`TooMuchSent` says, from the lengths of the documents alone, that they may need that many.

### EditEngine

The tree is the children of one container; an edit leaves an undo record with the
old and the new instance, marks on deleted nodes, and queues of nodes that a when-stmt
or another case removes. The actions follow `agt_val_apply_write`
(`apply_write_val`, `check_passed`/`check_refused`), `agt_val_commit_edits`
(`attempt_commit`, `commit_done`) and the way back (`reverse_edit`, `rollback_edit`).
Every callback may refuse at any point. `sil` is what the instrumentation was told.
`InSchemaOrder` is the order in which a commit walks the nodes (`SchemaOrder`). The ids
of instances, `<<node, born>>`, stand for the pointers of the C code.

### Notifications

An entry of the log is its msgid, and pointers into the log are msgids that may be
gone. `agt_not_queue_notification` drops the oldest entry when the log is full and
clears the pointers to it (`forget`); `create_subscription_invoke` places a
subscription in the log; `send_some_notifications` is one round of
`agt_not_send_notifications`, which gives every subscriber one turn (`serve`, by the
state of the subscription), followed by `agt_not_clean_eventlog` when the round is
the last. A phase "sending" keeps other actions out until then, as the loop does.
`sent`, `lost`, `had` and `since` are history.

### Transactions

`target` is the datastore the server edits (`agt_targ`). `gTxcb` is the block of the
open transaction: id, session, undo records. A record has the place of its `newnode` and
`curnode`: in the "tree", in the request ("pdu"), taken "out" of the tree, "freed". A pass
over the records (`attempt_commit`, `attempt_rollback`, folds over the queue) works on a
tree in progress and notes whether a freed node was used (`stale`: the server stops or
goes on) or a NULL pointer was followed or an assertion failed (`down`); then
`Restarted` is what is left of the server. `agt_val_apply_write` is an edit-config with a
trans-id, with its four outcomes; `Left` frees the request behind it. `edit_config`, `validate` and
`commit` have a block of their own, which `free_msg` forgets while `gTxcb` is open
(`Afterwards`). `given` and `base` are history.

### AutoLock

`server_cb` has the fields of yangcli's control block that matter: connection state,
command mode, `locks_*`, a lock state for each datastore. A step of the client is a function on it whose field
`send` is what it sends; `send_request` appends that to `reqQ` and the connection.
`mgr_rpc_dispatch` takes a reply: one that answers no request in `reqQ` is dropped, and
any other is given to `yangcli_reply_handler`, which takes it for the reply to the
command in progress. `locks_timed_out` and `message_timed_out` give up a reply that
may still come. The server has the owner of each lock and `dirty`; another session locks, unlocks and
edits at any time, and access control may refuse any request, an unlock too
(`agt_rpc.c:1489`). `gaveUp` and `kept` are history.

### Subsystem

A unit on the way up is a request, on the way down a part of a reply; the units of
a direction are numbered as they are written. `pin`, `pout` are
the pipes of sshd, `up`, `down` the two directions of the Unix socket, each with a
capacity. `relay[c]` is the process of a client: where it is in its loop (`pc`), what
`select` found, and `msgbuff`. Writes go one unit at a time and wait for room. The server
has one thread: `server` is whom it writes to and what is left. `taken` and `got` are
history. The sockets block: the code sets `O_NONBLOCK` with `F_SETFD`
(`agt_ncxserver.c:472`), which has no such flag.

## Runs

| Run | Instance and bounds | Shows |
|---|---|---|
| `locks` | 2 sessions and 2 blocks (symmetric), a container with a leaf, 1 slot per node, 2 lock ids | the lock tables agree but where a write of `<running>` was at a locked node, the candidate lock is exclusive, `AbstractLocks` is implemented |
| `commit` | 2 sessions, 3 configurations, 2 persist-ids; callbacks and undo may refuse, `agt_commit_complete` and the save fail, undispatchable messages, restarts; no :startup, with and without a startup file | a restart finds the last confirmed configuration, `AbstractCommit` is implemented |
| `commit_faults` | 2 sessions, 2 configurations, 1 persist-id; :startup, `--startup-error=stop`, every failure but "backup" and "message" | owner, locks, backup, clean candidate; a pending commit ends |
| `sessions` | a table of 3 slots (slot 0 is never used), 2 messages under way, all kinds of messages | ready queue, slots and counter agree; a timeout check ends the late sessions that have a timer, all of them and no other; requests in order, once, after a hello; nobody starves |
| `framing` | buffers of 10 bytes, 3 of them for a session, reads of 1, 5 or 30, up to 4 messages, 3 documents, 12 malformed chunks, all four combinations of versions | documents arrive whole; peers that neither break the framing nor fill the buffers are kept, bad chunks refused |
| `edits` | 5 nodes (when-stmt, choice of two cases, default), 2 values, 2 edits per request | settled tree, all-or-nothing, instrumentation in step |
| `notifications` | 2 subscribers, logs of 0, 1 and 2 entries, 3 events, 2 instants, maxburst 0 and 1 | live pointers, nothing skipped, order of messages and markers |
| `transactions` | 2 sessions, 2 leaves, 2 values, 3 ids, 2 undo records; `<running>` and `<candidate>` servers, callbacks that refuse, restarts | live owner, fresh ids, isolation, trans-rollback restores |
| `autolock` | `<running>` and `<candidate>`, ids 0 to 3, a message under way when a command starts, lost connections | the client holds the locks it believes to, all or nothing but for refused unlocks, commands end |
| `subsystem` | 2 clients with 2 requests and 1, replies of 2 units, sockets of 2, pipes of 1, a buffer of 2 | streams in order, nothing lost at the close, every reply arrives |
| `locks_slots`, `transactions_stuck_txid` | as above or smaller | a finding each, below |

Why the bounds are enough. *locks*: two sessions make every conflict; two nodes are the least with one above
another, and with one below a node that is replaced; two ids and two blocks with two locks
alive force `last_id` to its maximum and its reset, and a freed block to be given out again;
one slot per node is a full array. With a second leaf and a second slot the state space is
beyond one run: both are in `locks_slots`, random walks of 44 million states
of that instance violate none of the four properties, and the theorems are about any tree and
any number of slots. *commit*: three configurations tell base, pending and next apart, and two
persist-ids a right from a wrong one; a chain of extensions repeats states, so its
length is not bounded. *sessions*: two usable slots make the table full and its slots
used again; two messages put one behind another in a queue or two sessions in the
ready queue. *framing*: 10-byte buffers and documents of 1, 9 and 13 bytes put the
EOM string, a chunk header and a chunk end across every buffer edge; reads of 1 byte
cut everything everywhere, 30 puts several messages in one read; the fourth message is
the one beyond the parse-ahead limit. The code has 2000 bytes per buffer, which only
repeats this. With `SES_MAX_BUFFERS` 4 the third buffer of the queue is refused: in base:1.0,
and in base:1.1 before a chunk, in its text and behind it; the refusal of a buffer for the
first text of a read needs more messages than the instance sends. *edits*: two edits are the least with which one can disturb the other. The
default is never written explicitly, edits of different nodes come in the order of the
request, a new request waits until the instrumentation was told everything (`untold` is
empty), and values are two so that a change of a value differs from a deletion.
*notifications*: a log of one or two entries with three events drops an entry a
subscriber is at, one it is yet to be sent and one it replays up to; `maxburst` 1 lets
events come between any two messages. The same properties also hold for four events,
and for three instants, which take too long to be kept as runs. *transactions*: two
records are two requests, the least in which a pass meets a record of an earlier one;
three ids are the transaction, one before and one after it, and the crash in between.
*autolock*: two datastores have one lock taken and one refused, and `<candidate>` the
detour of discard-changes; `<startup>` adds a third of the first kind. One late message is enough to
be taken for the reply to the next command; with ids of 0 to 3 they wrap around.
*subsystem*: replies as long as the socket and longer than the pipe make every write
wait, the buffer holds more than a pipe and the requests of one client fill the socket.

Fairness. Five properties are liveness:

* `PendingCommitEnds` assumes WF of `agt_ncx_check_cc_timeout`. The check is made each
  time `select` times out with nothing to read. The loop does not promise that this
  happens (clients that keep it busy can put it off), so the property is about a server
  that is idle now and then; the hazard list says so.
* `NobodyStarves` assumes WF of the loop, which is `while (!done)`: the process runs.
* `EverythingArrives` assumes WF of the server's steps on one session, the same loop.
* `CommandEnds` assumes WF of `time_passes`, `locks_timed_out` and
  `clear_server_cb_session`: while a command runs, `mgr_io_run` comes round every 100
  microseconds and asks the clock. Nothing is asked of the server, the connection or the
  user.
* `Answered` assumes WF of `io_loop` and `ncxserver` of each client (processes run, and
  the server takes its sessions in turn, `NobodyStarves`) and of `Receive`: sshd reads
  for a client that has not hung up. Nobody has to send or to hang up.

There is no liveness of notifications for the reason given for the timeout: they
are sent only by the idle loop.

## Findings

* `locks_slots`: a write of `<running>` takes partial locks off nodes that are still there.
  Of a complex node that a commit replaces `val_check_swap_resnode` keeps the slots, of the
  nodes below it it does not (`agt_val.c:1751`, `val_util.c:3317`), and neither does a restore
  of the backup: others may lock and edit what a session has locked, until it unlocks.
  The second half of the property, `~Dangling`, fails as well, a few steps later: clones of
  `<candidate>` keep slots of locks that were given back, and a commit or its rollback brings
  these pointers to freed blocks into `<running>` (`val.c:1347`, `cfg.c:1256`), where
  `plock_get_sid` follows them.
* `transactions_stuck_txid`: at the end of a request `agt_rpc_dispatch` frees its
  transaction block only when `gTxcb` is NULL (`agt_rpc.c:1696`). While a transaction of
  trans-start is open, the block of any other request is forgotten and `cur_txid` of its
  datastore stays set, so that `agt_cfg_new_transaction` refuses every later request on it;
  its comment says the caller needs to call `agt_cfg_free_transaction`.

Seen while modelling, kept in the models as the code has them, and not claimed as
findings. Locks and commits:

* a session that ends with a partial lock leaves `cfg_state` at `CFG_ST_PLOCK`
  (`cfg.c:1256`): `<running>` cannot be locked globally until another partial lock was
  taken and given back;
* a partial lock of a node inside a subtree another session has locked is granted
  (ancestors are not looked at), while the other order is refused;
* `copy-config` from `<startup>` to `<candidate>` clears the dirty flag of a candidate that
  differs from `<running>`, and does not mark its nodes. The next commit applies marked nodes
  only and deletes what the candidate lacks (`apply_commit_deletes`): `<running>` becomes a
  mixture, the reply is ok, and the candidate is refilled from that (`unmarked` of
  `ConfirmedCommit`, which is why `CleanCandidateMatchesRunning` excepts such a candidate);
* a commit that has failed in `agt_commit_complete` or in the save has its backup loaded, as
  after an undo that fails, and leaves the candidate without the nodes that had gone into
  `<running>`; when it was an extension, the backup is that of the first commit;
* slots of the candidate decide about a commit and about edits: a lock taken after the
  candidate was filled is not in its clones, one given back since then still is, and an edit of
  a locked node is then let through to the commit, or one of a free node refused;
* the restore of a cancelled or timed-out commit, made "as the system user", is refused
  by a lock of `<running>` with `--startup-error=stop`, and the commit is closed with the
  unconfirmed configuration in force (`agt_ncx.c:4017`);
* a message that cannot be dispatched ends its session without
  `agt_ses_kill_session`: a pending commit keeps the id of a session that is gone;
* a backup file that cannot be written leaves the commit pending with an old backup.

Sessions and messages:

* after a second hello, an rpc in the wrong state or a kill-session of a session with a
  message in the ready queue, the server goes on with a freed session control block
  (phase "undefined" of `SessionLoop`);
* a session in HELLO_WAIT that is not closed after a framing error may lie above
  `maxrdnum`, where `select` does not look, until a new session comes. It is in SHUTDOWN_REQ
  without ever having been active, so no timer is tested for it either (`agt_ses.c:992`,
  `:1009`): until then it keeps its slot;
* a session owns at most `SES_MAX_BUFFERS - 1` buffers, the messages that wait in its queue
  included: a well-framed message, or several, that need one more are cut off with an error, and
  the session is ended (`ses_msg.c:362`; `ses.c:154`, `:203`, `:419`, `:609`);
* a message of the EOM string alone, and text ending in "]" before it, are not
  cut right (`v10_end`); an XML document has neither. A chunk that ends exactly at the
  end of a buffer is followed by a zero byte past it;
* a client that sends its hello and a chunked rpc back to back has both parsed as
  base:1.0 when they come in one read (`BackToBack = TRUE` in `SesInput`).

Edits and notifications:

* a request that writes to two cases of a choice and fails does not restore a leaf it
  had changed (`TwoCases = TRUE` in `EditEngine`);
* a node of another case that gives way to a new one is dropped without a callback, where
  `test/support/callbacks/running-cb-checker.cpp:73` expects them;
* an APPLY callback that refuses a delete of a commit runs into an assertion
  (phase "aborted" of `EditEngine`);
* with `--eventlog-size=0`, a tick in which no subscriber has got an event yet clears
  the log, events that were about to be sent included;
* a startTime behind the last event replays nothing and then sends the whole older log as
  live events (`agt_not.c:643` only sets a flag, and no position means the head of the
  queue), though `notifications.yang:65` has the replay start at that time; an event past
  the stopTime is sent before the subscription ends. `Delivered` is about which events are
  sent and in which order, not about their times.

Transactions of several requests:

* each request commits, or rolls back, the records of all of them: a request that fails
  undoes those before it, and their records stay;
* a deleted leaf was freed by `commit_edit` and is not brought back, and its record fails
  an assertion when it is reversed on `<running>`; a second set of a leaf leaves a node
  out of the tree that the next rollback swaps through a NULL link; the new node of a set
  is in a request that was freed. `RollbackRestores` is about the other records
  (`Undoable`);
* on `<candidate>` trans-commit unlocks, and with it refills the candidate: the edits of
  the transaction are gone;
* a trans-start that is refused keeps the lock it took, and a trans-start of an owner
  who has unlocked overwrites `gTxcb`;
* the end of the session drops the records, and the edits stay;
* the result of a commit test is kept under the id of the transaction
  (`agt_val.c:4588`), so the second request is checked with what the first one found;
* `agt_cfg.h:119` says that the file of ids is written with the configuration; the code
  writes it with every id, and `TxidsFresh` depends on it.

Client side:

* an unlock that the server refuses (access denied is the case left while no reply is given
  up) marks the lock `FATAL_ERROR` (`yangcli.c:4590`), and at the end `clear_lock_cbs` forgets
  it: the command has ended and the session keeps the lock. `AllOrNothing` excepts the
  datastores of which an unlock was refused (`kept`), and only those;
* a late reply is taken for the reply to the current command, and a lock that is granted
  after get-locks gave up stays with the session, against `yangcli.yang:1280`;
* after a lost connection `locks_active` and the command mode stay as they were, and the
  user does not get the prompt back;
* after discard-changes `<candidate>` is not asked for again;
* sockets block. With sockets that hold one unit a process and the server can wait in
  their writes for each other; `Answered` needs room for what a client sends unread;
* a client that half-closes (end of file on stdin) loses the replies under way.

## Proofs

TLAPS proves the following for every value of the constants that satisfies the named
assumptions of the modules (the null values are not members of the sets they
complete, the nodes are a tree, bounds are natural numbers).

`ConfigLocksProofs`. The theorems hold for every tree of nodes, every number of slots,
blocks and ids. The inductive invariant `LockInv` has the type, what only lock operations
and ends of sessions touch (`QueueInv`) and what a write of `<running>` can disturb (`SlotInv`).
Strengthenings of the first: an id in use is at most `last_id`, hence a fresh id is fresh
(`IdsBelowLast`; a queue that is not empty keeps `<running>` PLOCK, hence `last_id` is not reset
in use), and no node of a lock is above another one (`Antichain`). Of the second: what came from another
tree came with all below it (`ClonedBelow`), a lock has one slot of a node that did not
(`DistinctSlots`), and only ids of queued locks are in `lapsed` (`LapsedQueued`).
`RemovePlocks` needs them all: `val_clear_partial_lock` stops at the first slot it finds on the way down,
which clears every slot only because no other node above or below has one. `SetArraysStep` is
the step of every write: if the arrays are those of `<running>` outside `hit`
(`KeptOutside`, shown for the commit, its rollback and the load of the backup), then
`SlotInv` holds after it and `lapsed` has only grown. That the trees stay trees is in `TreeWith`,
`TreeWithout` and `CommitTree`. `LockTablesCorrect` says that `LockInv` holds, and `LockTypes`
and `LockTablesAgree` follow. `CandidateExclusion` needs that a clean candidate has nobody's
edits, which is true without :startup only. `LocksImplementPromise` maps holders, and the
shares that have not lapsed, to `AbstractLocks`, step by step: a write of `<running>` is a step
`Overwrite` of it, or changes nothing when `<running>` is held as a whole.

`ConfirmedCommitProofs`. Each property has its own strengthening, so each is proved under
no more than it needs: `PendingCommitOwner` without undispatchable messages;
`CommitTypes`, `PendingCommitLocks` and `CleanCandidate` for any failures; `BackupFile` while
backup files can be written (with it: a pending commit has a base).
`StartupFile` and `CommitImplementsPromise` assume that backup files can be written and loaded
and that there is no :startup (`BackupsWork`); whatever else may fail. Both need it because a
commit that fails has to find the old configuration in the backup; `IInv` joins type, clean candidate, backup and startup file,
because a restart maps to the crash of `AbstractCommit` only if the startup file is
the last confirmed configuration.

`NotificationsProofs`. `IInv` says of every subscription (`Sound`) that `lastmsg` is
NULL or `lastmsgid`, that it, and `firstreplaymsg` while that is still to be used, is
in the log or NULL, and how the flags and states of its end go together. The
step that needs an argument is `agt_not_clean_eventlog`, which clears no
pointer: after its turn a subscription that is not done with its replay has a
position (`Moved`), so `firstreplaymsg` no longer counts, and the least of the
positions bounds what is freed (`Kept`; that the least exists is
`LeastExists`, from the well-foundedness of < on the naturals). From it follow
`LogTypes`, `PointersAreLive`, `CleanedWhenSent` and `EndIsTold`.
`DeliveryIsComplete` is about the history `sent` and has an invariant of its own on top,
`DInv`. It says of each subscription (`Told`): of the events that it wants, those up to
`lastmsgid` were sent and the later ones are in the log or were dropped from it
(`Placed`); where the replay begins and ends, and what is past when it is over
(`Bounded`); the order of its messages, with one replayComplete behind the replay and
notificationComplete as the last message (`Ordered`); and when its stopTime has passed
(`Timely`). With it goes that the times of the events do not go back (`Clocked`).

`SessionProofs`, first part (`SessionLoop`). `IInv` has four parts: a control block is consistent in itself
(`Blocks`: on the queue if and only if it has messages, but for one that shuts down),
the ready queue lists each flagged session once (`Queue`), slots from `next_sesid` on
were never used and the counter counts the others (`Slots`), and `select` finds the
queue empty, so that a socket still to be read in this round is of a session that exists
and is not on the queue (`Turns`). The last part is what makes it inductive: it is why a
read never puts a session on the queue a second time. `SessionTablesCorrect` follows.
`TimeoutsReachAll` looks at the step of the timeout check once more, under the same
invariant: the slots it scans are all that are in use, so it ends the sessions of `timed` that
are late, each of them and no other. And `LoopImplementsService` maps each dispatch, read and end to a step of
`SessionService` or a stutter.

`SessionProofs`, second part (`SesInput`). The theorems hold for every set of documents that
`InputAssumption` allows (not empty, without the EOM string), every buffer that holds that
string, every size of the pads, every way
in which the stream is cut into reads and every malformed end, for a client that waits for the
server after its hello (`~BackToBack`; with `BackToBack = TRUE` TLC finds each of the three
violated, see the hello and the chunked rpc under "Findings").
`InputInv` relates the bytes on the way, the parser and the buffers. `Flow` is the least
relation between byte strings and the documents they frame, and the malformed bytes that
may come behind them. `Place` says where in such a string the parser stands: inside the
first document of which some text `h` is read (`Within`, with a case for each state of
`accept_buffer_ssh_v10` and `accept_buffer_ssh_v11`), or in the malformed end, where what was
read still begins a message (`Bad`). `Holds` says that the last message of the queue holds `h`
in full buffers and one that is open, and `Tracks` that the finished messages are the
documents before. `Streamed` joins the three: the documents sent and not dispatched are
those of the finished messages, the one begun and those on the way. It is inductive only
with what the two hellos settle (`Counts`): which framing the next byte has when the protocol
changes with the second message, and that nothing is on the way then.

An action changes one byte of this, or the text of one read: one lemma moves the parser
(`Place...`), one fills the buffers (`V10Put`, `V11Filled`, `MakeRoom`), and a
third joins them (`Streamed...`). The EOM string needs that no document ends
in "]" or "]]>" (`NoEarlyEnd`, `NoEndInside`): so a failed match of it may be dropped as the
code does, without a second look at the characters it had matched. The chunks need that `Decimal` and
`ncx_convert_num` are inverse (`DecimalOf`), and that each way in which `ses_putchar` fills
and sends its buffers gives a list of chunks with the text that was put (`WrittenChunks`).
What a fold computes is reached through the function that the fold picks
(`FoldExists`, `IsRun`), by an induction over a set of positions (`Induction`).
The buffers of a finished message are full but for the last (`Compact`), and so are those of
the message being read, so that the queue takes up no more of them than the documents that were
sent need (`CompactNeeds`, `DocNeeds`; both sums are folds, `BuffcntIs` and `NeededIs`): a refused
buffer means `TooMuchSent` (`Denied`).
`PeersJudged` follows since a document that is framed leads to `input_error` by a refused buffer
only and never to a wild access, and because malformed bytes can be read to their end only by leaving the
grammar (`BadNotDone`). `StepRefines` maps a dispatch to `Deliver` of the oldest
document, byte for byte what `ses_read_cb` reads of the buffers.

`SubsystemProofs`. A stream goes through five places on its way (pipe, buffer of the
relay, socket, the write in progress, what was received). `Flow` says that the numbers
in them, from the far end on, are 1, 2, 3, ... without a gap or a repetition and how
many they are; a step moves one number, or all of a buffer, from a place to the next.
`Sizes` bounds the places. `StreamsKeepOrder` follows. `Ends` says that the process of a
client that is still there ends behind the last reply, and `RepliesDelivered` follows.

`AutoLockProofs`. While no reply was given up (`gaveUp`), there is at most one request
and it is on its way or its reply is (`Conversation`); the step of the client says which
(`Requested`, of the command mode). `Right` compares the control block with the owners
of the locks: locks taken to be active are held, and, while a get-locks or its cleanup
runs, no others are held than those and the ones held before, but for the lock of the
reply under way and those of which the server refused the unlock. `Moved` says that each step of the client on a reply keeps this and
sends at most one request. `BeliefsMatchServer` and `LocksAllOrNothing` follow, for any
number of datastores and any interference of other sessions.

`EditEngineProofs`. The theorems are about requests that write to one case of a choice
at most (`~TwoCases`); with two the properties do not hold (a leaf that is not restored,
under "Findings"). `IInv` says for each phase what the undo records mean. `Records`: the
record of a node is the only one, says what the node was before, and no record drops a
node that another one edits. `Restorable`: each instance that was there when the request
came is still in the tree, and it differs from what it was, by its mark or its value,
only as a record from the current one on or the list of dead nodes says. A reverse step
keeps this with one record less (`RollbackRestores`), so at the end of a rollback the
tree is the one before (`RollbackDone`); it holds at every point at which a callback can
refuse. `Forward`, until then: a node has one visible instance, and its value is the one
that its record says or, without a record, the old one. `Candidate` says that a commit
only has the nodes of the edits still to come to change, which is why it may skip the
checks. `Made` is the contents after the first edits of `AtomicEdit`, a function whose
existence is proved from the definition of the fold (`FoldIsResults`), and the tree
agrees with it but for nodes that a when-stmt removed (`Agrees`). In the commit phase
`sil` has the new value of the records that were committed and the old value of the
others, in a rollback the old value of all but the committed records still to be
reversed and what `untold` counts. From it follow `EditTypesCorrect`, `EditTreeSettled`
and `EditInstrumentationInStep`; `EditsImplementAtomic` shows that beginning, the end of
a commit and the end of a rollback are the steps of `AtomicEdit`, and that every other
step is a stutter. `OrderAssumption` says that the walk lists each node once.

`TransactionsProofs`. `IInv` says whose the open transaction is: ids are never ahead of
the file, its owner is alive, on `<running>` it has `cur_txid`, and on `<candidate>` it
has it only with the lock (`Owner`). `TransactionsOwned`, `FreshTxids` and
`TransactionsIsolated` follow, whatever the passes over undo records do. The other two
theorems are about those passes. `IsPass` unfolds the folds into what each record leaves.
A step about a record changes the node of that record and pointers to it, and nothing
else (`Local`), so what is known of a node with one record holds until that record's turn.
`Traced` says what that is: a node without a record has the value that trans-start
found; if the only record of a node is a create, there was no node, and if it is a set
whose `curnode` is still in the tree, its clone is the value found; a node is marked as
deleted only if a record deletes it. Each commit, rollback and refusal keeps this, and
the records with their dangling pointers too (`Sound`). `TransactionTypes` follows, and
`RollbacksRestore`: a pass over records that are `Undoable` gives each node its value
back in its turn, and no later turn touches it (`RollbackGivesBack`).

Only model-checked: everything under fairness (`EverythingArrives`, `NobodyStarves` and the
other liveness properties of the runs; TLAPS of this version has no rules for it). Each
safety property, action property and refinement that a passing run checks has a theorem.
TLC cannot evaluate `InputInv` of `SessionProofs`, whose parts quantify over all byte
strings; the runs check what follows from it.

## Not modelled, and the plan

Not modelled: the YANG compiler and object tables, XPath and XML (pure data, built at
start-up or read only), retrieval and filters (they change nothing), the tools, libtecla
and libtoaster, scripts and the rest of yangcli's user interface. `agt_timer.c` has no
caller in the repository besides instrumentation that applications would write, so
there is no use of it to model. The rule search of access control is an input of the
models: where a check is made it may refuse. `PROJECT.json` gives the reason for each
component.

These parts are most of the lines of the repository: parsers, printers, tables of
the schema and the command line. The parts that keep state between requests are modelled.

The order of the work, most important first; 1 to 11 are done.

1. `AbstractLocks`, `ConfigLocks`, proofs.
2. `AbstractCommit`, `ConfirmedCommit`, proofs.
3. `SessionService`, `SessionLoop`.
4. `MessageStream`, `SesOutput`, `SesInput`.
5. `AtomicEdit`, `EditEngine`.
6. `Notifications`, proofs.
7. `Transactions`, proofs.
8. `AutoLock`, with the request queue of the manager.
9. `Subsystem`.
10. Proofs about `SessionLoop`, `Subsystem`, `AutoLock`, `EditEngine`, `Delivered` of
    `Notifications`, types and `RollbackRestores` of `Transactions`.
11. Proofs: `SesInput` (`BuffersSound`, `PeersJudged`, the refinement of `MessageStream`).
12. Access control (rule search, invalidation of its caches) and filters as operators
    against a reference definition.
