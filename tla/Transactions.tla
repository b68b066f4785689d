---------------------------- MODULE Transactions ----------------------------
(***************************************************************************)
(* Transactions of several requests (trans-start, trans-commit and         *)
(* trans-rollback in agt_ncx.c, agt_cfg.c): one transaction control block, *)
(* gTxcb, stays open from request to request with the undo records of all  *)
(* its edit-configs, while the edits of other requests have a block of     *)
(* their own that ends with the request.                                   *)
(*                                                                         *)
(* A server edits <running> or <candidate>, depending on --target; a       *)
(* transaction is about that datastore. Its nodes are leaves without       *)
(* defaults, an edit-config has one edit, <startup>, confirmed commits and *)
(* locks of <running> beside <candidate> are left out: EditEngine,         *)
(* ConfirmedCommit and ConfigLocks have them.                              *)
(*                                                                         *)
(* An undo record points to nodes of the tree and of the request. Where    *)
(* they are is what this module is about: "tree", "pdu" (in the request,   *)
(* freed with it), "out" (taken out of the tree) or "freed". What follows  *)
(* a "freed" pointer goes well or stops the server.                        *)
(***************************************************************************)
EXTENDS Naturals, Sequences, SequencesExt

CONSTANTS
    Sessions,
    NoSession,
    Nodes, Values,
    None,       \* no value, no transaction
    MaxTxid,    \* a bound: transaction ids that are given out
    MaxUndo     \* a bound: undo records of a transaction

ASSUME ParametersAssumption ==
    /\ NoSession \notin Sessions /\ None \notin Values
    /\ MaxTxid \in Nat /\ MaxUndo \in Nat

VARIABLES
    target,        \* agt_targ: the datastore that this server edits
    alive, lockedBy,
    tree,          \* the values of the nodes of target
    dirty,         \* CFG_FL_DIRTY of <candidate>
    saved,         \* <running> as it was saved last
    cur_txid,      \* of each datastore, 0 for none
    agt_cfg_txid, txid_file,
    gTxcb,
    given, base    \* for the properties: the largest id given out, and the
                   \* tree when gTxcb was made

ids == <<agt_cfg_txid, txid_file, given>>
vars == <<target, alive, lockedBy, tree, dirty, saved, cur_txid, ids, gTxcb, base>>

Datastores == {"running", "candidate"}
Trees == [Nodes -> Values \cup {None}]
Places == {"none", "tree", "pdu", "out", "freed"}

UndoRecords ==
  [op : {"create", "merge", "delete"}, node : Nodes,
   newnode : Places, newnode_marker : BOOLEAN,
   curnode : Places, curnode_clone : Values \cup {None}, free_curnode : BOOLEAN,
   commit_res : {"skipped", "ok", "failed"}]

Init ==
  /\ target \in Datastores
  /\ alive = {} /\ lockedBy = NoSession
  /\ saved \in Trees /\ tree = saved /\ base = saved
  /\ dirty = FALSE
  /\ cur_txid = [d \in Datastores |-> 0]
  /\ agt_cfg_txid = 0 /\ txid_file = 0 /\ given = 0
  /\ gTxcb = None
-----------------------------------------------------------------------------
(* Undo records. A pass over them changes a tree in progress:              *)
(*   marked: nodes that are marked as deleted                              *)
(*   stale: a freed node was used      down: a NULL pointer was followed,  *)
(*   or an assertion failed                                                *)

InProgress(q) == [tree |-> tree, marked |-> {}, undoQ |-> q, stale |-> FALSE, down |-> FALSE]

\* Every pointer to the node in the tree has it in another place now.
Moved(q, n, place) ==
  [k \in DOMAIN q |->
     IF q[k].node # n THEN q[k]
     ELSE [q[k] EXCEPT !.newnode = IF @ = "tree" THEN place ELSE @,
                       !.curnode = IF @ = "tree" THEN place ELSE @]]

Touches(r) == "freed" \in {r.newnode, r.curnode}

\* An add moves the new node into the tree; a set or a delete leaves it in
\* the request.
undo_rec(e) ==
  LET old == tree[e.node] IN
  [op |-> e.op, node |-> e.node,
   newnode |-> IF old = None THEN "tree" ELSE "pdu", newnode_marker |-> old = None,
   curnode |-> IF old = None THEN "none" ELSE "tree", curnode_clone |-> old,
   free_curnode |-> e.op = "delete",
   commit_res |-> "skipped"]

\* A merge that changes nothing leaves no record.
apply_write_val(w, e) ==
  IF e.val = tree[e.node] THEN w
  ELSE [w EXCEPT !.undoQ = Append(@, undo_rec(e)),
                 !.tree[e.node] = IF e.op = "delete" THEN @ ELSE e.val,
                 !.marked = IF e.op = "delete" THEN @ \cup {e.node} ELSE @]

\* A deleted leaf leaves the tree and is freed.
commit_edit(w, k) ==
  LET r == w.undoQ[k]
      deleted == r.free_curnode /\ r.curnode = "tree" /\ r.node \in w.marked
      q == IF deleted THEN Moved(w.undoQ, r.node, "freed") ELSE w.undoQ
  IN [w EXCEPT !.stale = @ \/ Touches(r),
               !.tree[r.node] = IF deleted THEN None ELSE @,
               !.marked = IF deleted THEN @ \ {r.node} ELSE @,
               !.undoQ = [q EXCEPT ![k].newnode_marker = FALSE,
                                   ![k].curnode = IF deleted THEN "none" ELSE @]]

Each(q) == [k \in 1..Len(q) |-> k]

\* The COMMIT callbacks, for <running>, up to the one that refuses (0: none
\* does).
callbacks(w, refused) ==
  LET last == IF refused = 0 THEN Len(w.undoQ) ELSE refused IN
  IF target # "running" THEN w
  ELSE [w EXCEPT !.stale = @ \/ \E k \in 1..last : Touches(w.undoQ[k]),
                 !.undoQ = [k \in DOMAIN @ |->
                              IF k > last THEN @[k]
                              ELSE [@[k] EXCEPT !.commit_res =
                                      IF k = refused THEN "failed" ELSE "ok"]]]

attempt_commit(w) == FoldLeft(commit_edit, callbacks(w, 0), Each(w.undoQ))

\* val_swap_child follows the queue links of the node that it replaces.
restore_curnode(w, k) ==
  LET r == w.undoQ[k] IN
  CASE r.curnode = "none" -> w
    [] r.curnode = "freed" -> [w EXCEPT !.stale = TRUE]
    [] r.curnode \in {"tree", "out"} /\ r.node \in w.marked ->
         [w EXCEPT !.marked = @ \ {r.node}, !.undoQ[k].free_curnode = FALSE]
    [] r.curnode = "tree" /\ r.node \notin w.marked /\ r.curnode_clone # None ->
         [w EXCEPT !.tree[r.node] = r.curnode_clone,
                   !.undoQ = [Moved(@, r.node, "out") EXCEPT ![k].curnode_clone = None,
                                                             ![k].free_curnode = TRUE]]
    [] r.curnode = "out" /\ r.node \notin w.marked /\ r.curnode_clone # None ->
         [w EXCEPT !.down = TRUE]
    [] OTHER -> w

\* A node that was there before is not touched here.
remove_newnode(w, k) ==
  LET r == w.undoQ[k] IN
  IF r.newnode # "tree" \/ r.curnode # "none" \/ (r.op = "merge" /\ ~r.newnode_marker) THEN w
  ELSE [w EXCEPT !.tree[r.node] = None,
                 !.undoQ = [Moved(@, r.node, "out") EXCEPT
                              ![k].newnode = IF r.newnode_marker THEN "pdu" ELSE "out",
                              ![k].newnode_marker = FALSE]]

\* What the callbacks are given to reverse or to roll back the edit.
reverse_edit(w, k) ==
  LET r == w.undoQ[k] IN
  [w EXCEPT !.stale = @ \/ (r.commit_res # "failed" /\ target = "running" /\ Touches(r)),
            !.down = @ \/ (r.commit_res = "ok" /\ r.op = "delete" /\ r.curnode = "none")]

\* Mutant: a leaf that was set keeps its value.
rollback_edit_KeepsLeaf(w, k) ==
  remove_newnode(reverse_edit(w, k), k)

rollback_edit(w, k) ==
  remove_newnode(restore_curnode(reverse_edit(w, k), k), k)

attempt_rollback(w) == FoldLeft(rollback_edit, w, Each(w.undoQ))

\* rpc_free_msg: the request is freed, its nodes with it.
Left(q) == [k \in DOMAIN q |-> [q[k] EXCEPT !.newnode = IF @ = "pdu" THEN "freed" ELSE @]]
Freed(q) ==
  [k \in DOMAIN q |-> [q[k] EXCEPT !.newnode = IF @ = "tree" THEN "freed" ELSE @,
                                   !.curnode = IF @ = "tree" THEN "freed" ELSE @]]
-----------------------------------------------------------------------------
(* Transaction control blocks *)

\* Mutant: the file is written every other time.
allocate_txid_WritesLess ==
  /\ agt_cfg_txid < MaxTxid
  /\ agt_cfg_txid' = agt_cfg_txid + 1
  /\ txid_file' = IF agt_cfg_txid % 2 = 0 THEN agt_cfg_txid' ELSE txid_file
  /\ given' = IF agt_cfg_txid' > given THEN agt_cfg_txid' ELSE given

allocate_txid ==
  /\ agt_cfg_txid < MaxTxid
  /\ agt_cfg_txid' = agt_cfg_txid + 1
  /\ txid_file' = agt_cfg_txid'
  /\ given' = IF agt_cfg_txid' > given THEN agt_cfg_txid' ELSE given

\* Mutant: a transaction in progress is not looked at.
agt_cfg_new_transaction_Anyway(d) == allocate_txid

agt_cfg_new_transaction(d) == cur_txid[d] = 0 /\ allocate_txid

\* free_msg at the end of agt_rpc_dispatch: the block of a request is freed
\* if there is no gTxcb; else it is forgotten, and cur_txid stays.
Afterwards(txids, d) ==
  IF gTxcb = None THEN txids ELSE [txids EXCEPT ![d] = agt_cfg_txid + 1]

Cleared(txids) ==
  IF gTxcb # None /\ txids[target] = gTxcb.txid THEN [txids EXCEPT ![target] = 0] ELSE txids

cfg_ok_to_write(s) == lockedBy \in {NoSession, s}

\* cfg_fill_candidate_from_running; txcb: the gTxcb of the next state
cfg_fill_candidate(contents, txcb) ==
  /\ tree' = contents /\ dirty' = FALSE
  /\ gTxcb' = IF txcb = None THEN None ELSE [txcb EXCEPT !.undoQ = Freed(@)]

\* The server stops, and starts again: <running> is loaded from its file.
Restarted ==
  /\ alive' = {} /\ lockedBy' = NoSession
  /\ tree' = saved /\ dirty' = FALSE
  /\ cur_txid' = [d \in Datastores |-> 0]
  /\ agt_cfg_txid' = txid_file
  /\ gTxcb' = None
  /\ UNCHANGED <<target, saved, txid_file, given, base>>
-----------------------------------------------------------------------------
(* Sessions and locks *)

agt_ses_new_session(s) ==
  /\ s \notin alive
  /\ alive' = alive \cup {s}
  /\ UNCHANGED <<target, lockedBy, tree, dirty, saved, cur_txid, ids, gTxcb, base>>

\* Mutant: the transaction outlives its session.
agt_cfg_release_trans_Kept(s) == gTxcb

agt_cfg_release_trans(s) == IF gTxcb # None /\ gTxcb.sid = s THEN None ELSE gTxcb

\* Mutant: the lock outlives its session.
cfg_release_locks_Kept(s) == lockedBy

cfg_release_locks(s) == IF lockedBy = s THEN NoSession ELSE lockedBy

\* The edits of the transaction are not rolled back.
agt_ses_kill_session(s) ==
  LET txcb == agt_cfg_release_trans(s)
      txids == IF txcb = None THEN Cleared(cur_txid) ELSE cur_txid
  IN /\ s \in alive
     /\ alive' = alive \ {s}
     /\ lockedBy' = cfg_release_locks(s)
     /\ IF lockedBy = s /\ target = "candidate"
        THEN cfg_fill_candidate(saved, txcb) /\ cur_txid' = [txids EXCEPT !["candidate"] = 0]
        ELSE gTxcb' = txcb /\ cur_txid' = txids /\ UNCHANGED <<tree, dirty>>
     /\ UNCHANGED <<target, saved, ids, base>>

lock_validate(s) == s \in alive /\ lockedBy = NoSession /\ (target = "candidate" => ~dirty)

Lock(s) ==
  /\ lock_validate(s)
  /\ lockedBy' = s
  /\ UNCHANGED <<target, alive, tree, dirty, saved, cur_txid, ids, gTxcb, base>>

\* unlock_invoke, on its own or at the end of a transaction. txcb, txids:
\* gTxcb and cur_txid after it; contents: of a target that is not refilled
unlock(s, txcb, txids, contents) ==
  /\ lockedBy = s /\ lockedBy' = NoSession
  /\ IF target = "candidate"
     THEN cfg_fill_candidate(saved, txcb) /\ cur_txid' = [txids EXCEPT !["candidate"] = 0]
     ELSE tree' = contents /\ gTxcb' = txcb /\ cur_txid' = txids /\ UNCHANGED dirty

Unlock(s) ==
  /\ s \in alive
  /\ unlock(s, gTxcb, cur_txid, tree)
  /\ UNCHANGED <<target, alive, saved, ids, base>>
-----------------------------------------------------------------------------
(* trans-start, trans-commit, trans-rollback *)

\* The lock is taken first, and kept if the transaction is refused. An open
\* transaction is forgotten.
transaction_start(s) ==
  /\ lock_validate(s)
  /\ lockedBy' = s
  /\ \/ /\ agt_cfg_new_transaction(target)
        /\ cur_txid' = [cur_txid EXCEPT ![target] = agt_cfg_txid']
        /\ gTxcb' = [txid |-> agt_cfg_txid', sid |-> s, undoQ |-> <<>>]
        /\ base' = tree
     \/ cur_txid[target] # 0 /\ UNCHANGED <<cur_txid, ids, gTxcb, base>>
  /\ UNCHANGED <<target, alive, tree, dirty, saved>>

\* trans-id of the request names the transaction of this session.
valid_transaction(s) == s \in alive /\ gTxcb # None /\ gTxcb.sid = s

transaction_commit(s) ==
  /\ valid_transaction(s)
  /\ unlock(s, None, Cleared(cur_txid), tree)
  /\ UNCHANGED <<target, alive, saved, ids, base>>

\* The records stay when a callback refuses, or target is not locked.
transaction_rollback(s) ==
  LET w == attempt_rollback(InProgress(gTxcb.undoQ)) IN
  /\ valid_transaction(s)
  /\ \/ /\ w.stale \/ w.down
        /\ Restarted
     \/ /\ ~w.down
        /\ \/ unlock(s, None, Cleared(cur_txid), w.tree)
           \/ /\ lockedBy # s \/ (target = "running" /\ gTxcb.undoQ # <<>>)
              /\ tree' = w.tree
              /\ gTxcb' = [gTxcb EXCEPT !.undoQ = Left(w.undoQ)]
              /\ UNCHANGED <<lockedBy, dirty, cur_txid>>
        /\ UNCHANGED <<target, alive, saved, ids, base>>
-----------------------------------------------------------------------------
(* edit-config *)

Edits ==
  {e \in [op : {"create", "merge", "delete"}, node : Nodes, val : Values \cup {None}] :
     /\ (e.val = None) = (e.op = "delete")
     /\ e.op = "create" => tree[e.node] = None
     /\ e.op = "delete" => tree[e.node] # None}

\* What attempt_commit leaves, of the target and of what depends on it.
written(contents) ==
  /\ tree' = contents
  /\ IF target = "running" THEN saved' = contents /\ UNCHANGED dirty
     ELSE dirty' = TRUE /\ UNCHANGED saved

\* A request of its own is undone in full when it fails (EditEngine).
edit_config(s) ==
  /\ s \in alive /\ cfg_ok_to_write(s)
  /\ agt_cfg_new_transaction(target)
  /\ cur_txid' = Afterwards(cur_txid, target)
  /\ \/ \E e \in Edits : written([tree EXCEPT ![e.node] = e.val])
     \/ UNCHANGED <<tree, saved, dirty>>
  /\ UNCHANGED <<target, alive, lockedBy, gTxcb, base>>

\* What a pass over the records of the transaction leaves.
passed(w, commits) ==
  \/ (w.stale \/ w.down) /\ Restarted
  \/ /\ ~w.down
     /\ gTxcb' = [gTxcb EXCEPT !.undoQ = Left(w.undoQ)]
     /\ IF commits THEN written(w.tree) ELSE tree' = w.tree /\ UNCHANGED <<saved, dirty>>
     /\ UNCHANGED <<target, alive, lockedBy, cur_txid, ids, base>>

\* Every request of the transaction commits, or rolls back, the records of
\* all of them.
agt_val_apply_write(e) ==
  LET before == InProgress(gTxcb.undoQ)
      w == apply_write_val(before, e)
  IN \/ passed(attempt_commit(w), TRUE)
     \/ \* refused by the checks
        passed(attempt_rollback(w), FALSE)
     \/ \* refused while it is applied
        target = "running" /\ passed(attempt_rollback(before), FALSE)
     \/ \* refused by the COMMIT callback of record k
        /\ target = "running"
        /\ \E k \in 1..Len(w.undoQ) : passed(attempt_rollback(callbacks(w, k)), FALSE)

edit_in_transaction(s) ==
  /\ valid_transaction(s) /\ cfg_ok_to_write(s)
  /\ Len(gTxcb.undoQ) < MaxUndo
  /\ \E e \in Edits : agt_val_apply_write(e)
-----------------------------------------------------------------------------
(* Other requests with a transaction of their own *)

\* Nothing is written, whatever the answer.
validate(s, d) ==
  /\ s \in alive /\ d \in {"running", target}
  /\ agt_cfg_new_transaction(d)
  /\ cur_txid' = Afterwards(cur_txid, d)
  /\ UNCHANGED <<target, alive, lockedBy, tree, dirty, saved, gTxcb, base>>

commit(s) ==
  /\ s \in alive /\ target = "candidate" /\ cfg_ok_to_write(s)
  /\ agt_cfg_new_transaction("running")
  /\ \/ /\ saved' = tree
        /\ cfg_fill_candidate(tree, gTxcb)
        /\ cur_txid' = [Afterwards(cur_txid, "running") EXCEPT !["candidate"] = 0]
     \/ /\ cur_txid' = Afterwards(cur_txid, "running")
        /\ UNCHANGED <<tree, dirty, saved, gTxcb>>
  /\ UNCHANGED <<target, alive, lockedBy, base>>

discard_changes(s) ==
  /\ s \in alive /\ target = "candidate" /\ dirty /\ cfg_ok_to_write(s)
  /\ cfg_fill_candidate(saved, gTxcb)
  /\ cur_txid' = [cur_txid EXCEPT !["candidate"] = 0]
  /\ UNCHANGED <<target, alive, lockedBy, saved, ids, base>>

restart == Restarted
-----------------------------------------------------------------------------
Next ==
  \/ \E s \in Sessions :
       \/ agt_ses_new_session(s) \/ agt_ses_kill_session(s)
       \/ Lock(s) \/ Unlock(s)
       \/ transaction_start(s) \/ transaction_commit(s) \/ transaction_rollback(s)
       \/ edit_config(s) \/ edit_in_transaction(s)
       \/ \E d \in Datastores : validate(s, d)
       \/ commit(s) \/ discard_changes(s)
  \/ restart

Spec == Init /\ [][Next]_vars
-----------------------------------------------------------------------------
(* Properties *)

\* Every variable has values of its type: gTxcb is none, or a block with undo
\* records of the nodes of the datastore, and the ids are within their bound.
TypeOK ==
  /\ target \in Datastores
  /\ alive \subseteq Sessions /\ lockedBy \in alive \cup {NoSession}
  /\ tree \in Trees /\ saved \in Trees /\ base \in Trees
  /\ dirty \in BOOLEAN
  /\ cur_txid \in [Datastores -> 0..MaxTxid]
  /\ {agt_cfg_txid, txid_file, given} \subseteq 0..MaxTxid
  /\ gTxcb # None =>
       /\ gTxcb.txid \in 1..MaxTxid /\ gTxcb.sid \in Sessions
       /\ gTxcb.undoQ \in Seq(UndoRecords) /\ Len(gTxcb.undoQ) <= MaxUndo

\* An open transaction belongs to a live session: whatever order sessions end,
\* lose their lock and start transactions in, nobody is left with a block that
\* only a dead session could close. A transaction on <running> keeps the
\* datastore to itself (cur_txid) to the end.
TransactionOwned ==
  gTxcb # None =>
    /\ gTxcb.sid \in alive
    /\ target = "running" => cur_txid["running"] = gTxcb.txid

Opened == {d \in Datastores : cur_txid'[d] \notin {0, cur_txid[d]}}

\* A transaction id is never given out a second time, not after a crash
\* either: clients compare ids to see whether a datastore has changed, and
\* the results of the commit tests are kept under the id.
TxidsFresh == [][\A d \in Opened : cur_txid'[d] > given]_vars

\* The step of a session that owns the open transaction, or its end.
StepOfOwner ==
  \/ edit_in_transaction(gTxcb.sid) \/ transaction_rollback(gTxcb.sid)
  \/ transaction_commit(gTxcb.sid)
  \/ Unlock(gTxcb.sid) \/ agt_ses_kill_session(gTxcb.sid)
  \/ commit(gTxcb.sid) \/ discard_changes(gTxcb.sid)

\* While a transaction has its datastore, nobody else changes a node of it:
\* not a request with a transaction of its own, nor an edit of the owner that
\* is not part of the transaction. Only a restart does.
Isolation ==
  [][gTxcb # None /\ cur_txid[target] = gTxcb.txid /\ tree' # tree
       => StepOfOwner \/ restart]_vars

\* The undo records that attempt_rollback can undo after the commits of their
\* requests: new nodes of a create, and one set of each other node.
Undoable(q) ==
  /\ \A k \in DOMAIN q : q[k].op = "create" \/ (q[k].op = "merge" /\ q[k].curnode = "tree")
  /\ \A j, k \in DOMAIN q : j # k => q[j].node # q[k].node

\* trans-rollback of a transaction with such edits gives back the datastore as
\* trans-start found it, over any number of requests.
RollbackRestores ==
  [][(/\ gTxcb # None /\ gTxcb' = None /\ target = "running" /\ alive' = alive
      /\ transaction_rollback(gTxcb.sid) /\ Undoable(gTxcb.undoQ))
       => tree' = base]_vars

\* What agt_cfg_new_transaction asks of its callers ("need to call
\* agt_cfg_free_transaction", which clears cur_txid): a datastore in a
\* transaction is in that of gTxcb, between requests.
TxidHasTransaction ==
  \A d \in Datastores : cur_txid[d] # 0 => gTxcb # None /\ gTxcb.txid = cur_txid[d]
=============================================================================
