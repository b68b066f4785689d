---------------------------- MODULE ConfigLocks ----------------------------
(***************************************************************************)
(* The lock state of the configuration datastores of netconfd: global      *)
(* locks (cfg.c, lock/unlock in agt_ncx.c), RFC 5717 partial locks on      *)
(* <running> (cfg.c, plock_cb.c, val_util.c, agt_plock.c), their forced    *)
(* release when a session ends, and the operations that change what the    *)
(* locks are kept in: the edits of <candidate>, which is a clone of        *)
(* <running> with the clones of its lock slots, and the commits and        *)
(* restores that move nodes of another tree, with their slots, into        *)
(* <running> (agt_val.c).                                                  *)
(*                                                                         *)
(* netconfd is one thread around a select() loop: an RPC is validated and  *)
(* invoked within one dispatch, so each request below is one step.         *)
(*                                                                         *)
(* A slot is a pointer to a plock_cb_t. The block may be freed while clones*)
(* of the slot remain, and malloc may hand it out again for another lock:  *)
(* a pointer is therefore a block of memory, and what is read through a    *)
(* pointer to a freed block is arbitrary.                                  *)
(***************************************************************************)
EXTENDS Naturals, FiniteSets

CONSTANTS
    Sessions,    \* ids a client session can be given
    NoSession,   \* session id 0: nobody holds the lock
    Nodes,       \* configuration nodes that can be selected by a partial lock; a
                 \* node above one of Nodes is in Nodes
    Subtree,     \* Subtree[n]: n and every node of Nodes below it
    Blocks,      \* memory blocks malloc can return for a plock_cb_t
    NoBlock,     \* the null pointer
    MaxPlocks,   \* VAL_MAX_PLOCKS: lock slots in one value node
    MaxLockId,   \* NCX_MAX_UINT: the largest partial-lock id
    HasStartup   \* TRUE iff the :startup capability is enabled

ASSUME NoSessionAssumption == NoSession \notin Sessions

ASSUME NoBlockAssumption == NoBlock \notin Blocks

ASSUME SubtreeAssumption ==
    /\ Subtree \in [Nodes -> SUBSET Nodes]
    /\ \A n \in Nodes : n \in Subtree[n]
    /\ \A n, m \in Nodes : m \in Subtree[n] => Subtree[m] \subseteq Subtree[n]
    /\ \A n, m \in Nodes : m \in Subtree[n] /\ n \in Subtree[m] => m = n
    /\ \A n, m \in Nodes : \A k \in Subtree[n] \cap Subtree[m] :
          n \in Subtree[m] \/ m \in Subtree[n]

ASSUME BoundsAssumption ==
    /\ MaxPlocks \in Nat \ {0}
    /\ MaxLockId \in Nat \ {0}
    /\ HasStartup \in BOOLEAN

Datastores == {"running", "candidate"} \cup (IF HasStartup THEN {"startup"} ELSE {})

LockStates == {"READY", "PLOCK", "FLOCK"}

\* The nodes above n, and the nodes with nothing in Nodes below or above them.
Above == [n \in Nodes |-> {m \in Nodes : n \in Subtree[m]} \ {n}]
Leafs == {n \in Nodes : Subtree[n] = {n}}
Roots == {n \in Nodes : Above[n] = {}}

\* The sets of nodes a datastore can consist of.
Trees == {T \in SUBSET Nodes : \A n \in T : Above[n] \subseteq T}

VARIABLES
    alive,     \* sessions that have a session control block
    state,     \* cfg_state of each datastore
    lockedBy,  \* locked_by of each datastore
    plockQ,    \* partial locks queued on <running>
    plock,     \* plock[] array of each node that <running> has
    lastId,    \* last_id of plock_cb.c
    candPlock, \* plock[] array of each node that <candidate> has
    marked,    \* nodes of <candidate> with VAL_FL_DIRTY, set by its edits
    badFlags,  \* flags of earlier edits may be left over in the nodes of <running> or
               \* <candidate>, or be missing in those of <candidate>
    dirty,     \* CFG_FL_DIRTY of <candidate>
    editors,   \* sessions that have edited <candidate> since it was last filled
    ccActive,  \* commit_cb.cc_active: a confirmed commit is pending
    lapsed,    \* <<id, n>>: the queued lock id has lost its slot on n (history)
    cloned     \* nodes of <running> with an array from another tree at or above
               \* them (history)

lockVars == <<state, lockedBy>>
slotVars == <<plock, lapsed, cloned>>
partialVars == <<plockQ, lastId, slotVars>>
candVars == <<candPlock, marked, dirty, editors>>
vars == <<alive, lockVars, partialVars, candVars, badFlags, ccActive>>

LockIds == 1..MaxLockId

\* A plock_cb_t and the block it lives in; nodes is its pruned final result.
PartialLocks ==
    [id : LockIds, sid : Sessions, block : Blocks, nodes : (SUBSET Nodes) \ {{}}]

Slots == 1..MaxPlocks
Arrays == [Slots -> Blocks \cup {NoBlock}]
NoSlots == [i \in Slots |-> NoBlock]

RunNodes == DOMAIN plock
CandNodes == DOMAIN candPlock

TypeOK ==
    /\ alive \subseteq Sessions
    /\ state \in [Datastores -> LockStates]
    /\ lockedBy \in [Datastores -> Sessions \cup {NoSession}]
    /\ plockQ \subseteq PartialLocks
    /\ RunNodes \in Trees /\ plock \in [RunNodes -> Arrays]
    /\ lastId \in 0..MaxLockId
    /\ CandNodes \in Trees /\ candPlock \in [CandNodes -> Arrays]
    /\ marked \subseteq CandNodes
    /\ badFlags \in BOOLEAN
    /\ dirty \in BOOLEAN
    /\ editors \subseteq Sessions
    /\ ccActive \in BOOLEAN
    /\ lapsed \subseteq LockIds \X Nodes
    /\ cloned \subseteq RunNodes

Init ==
    /\ alive = {}
    /\ state = [d \in Datastores |-> "READY"]
    /\ lockedBy = [d \in Datastores |-> NoSession]
    /\ plockQ = {}
    /\ \E T \in Trees : plock = [n \in T |-> NoSlots]
    /\ lastId = 0
    /\ candPlock = plock
    /\ marked = {}
    /\ badFlags = FALSE
    /\ dirty = FALSE
    /\ editors = {}
    /\ ccActive = FALSE
    /\ lapsed = {}
    /\ cloned = {}

-----------------------------------------------------------------------------
(* The plock[] array of one node. *)

Holds(a, b) == \E i \in Slots : a[i] = b

\* What plock_get_sid reads in the slots of a can be s: it is s in the blocks of
\* the queued locks, and anything in a freed block.
OwnedBy(a, s) == \A p \in plockQ : Holds(a, p.block) => p.sid = s

\* Some slot of a points to a freed block.
Dangling(a) == \E b \in Blocks : Holds(a, b) /\ \A p \in plockQ : p.block # b

val_set_partial_lock(a, b) == [a EXCEPT ![CHOOSE i \in Slots : a[i] = NoBlock] = b]

\* The recursion of val_clear_partial_lock from the root, for each block in bs: one
\* slot of each topmost node that has it is cleared, nothing below that node is.
val_clear_partial_lock(bs) ==
    [n \in RunNodes |-> [i \in Slots |->
        LET b == plock[n][i]
        IN  IF /\ b \in bs
               /\ i = CHOOSE j \in Slots : plock[n][j] = b
               /\ \A m \in Above[n] \cap RunNodes : ~Holds(plock[m], b)
            THEN NoBlock ELSE b]]
-----------------------------------------------------------------------------
(* Guards and state changes of cfg.c and val_util.c. *)

\* Mutant: a dirty candidate can be locked.
cfg_ok_to_lock_Dirty(d) == state[d] = "READY"

cfg_ok_to_lock(d) ==
    /\ state[d] = "READY"
    /\ d = "candidate" => ~dirty

cfg_ok_to_unlock(d, s) == state[d] = "FLOCK" /\ lockedBy[d] = s

cfg_ok_to_write(d, s) == state[d] = "FLOCK" => lockedBy[d] = s

cfg_ok_to_partial_lock == state["running"] \in {"READY", "PLOCK"}

\* The clone copies the plock[] array, and the flags, of every node of <running>.
cfg_fill_candidate_from_running ==
    /\ dirty' = FALSE
    /\ editors' = {}
    /\ candPlock' = plock'
    /\ marked' = {}

\* <startup> is a copy of <running> taken by copy-config, or what was loaded: any
\* tree, without flags. The dirty flag of <candidate> is cleared all the same.
cfg_fill_candidate_from_startup(s) ==
    /\ dirty' = FALSE
    /\ editors' = {s}
    /\ \E T \in Trees : candPlock' = [n \in T |-> NoSlots]
    /\ marked' = {}
    /\ badFlags' = TRUE

\* Mutant: the walk stops at the selected node.
val_ok_to_partial_lock_RootOnly(n, s) == Holds(plock[n], NoBlock) /\ OwnedBy(plock[n], s)

\* Each node of the subtree has a free slot and holds no other session's lock.
val_ok_to_partial_lock(n, s) ==
    \A m \in Subtree[n] \cap RunNodes : Holds(plock[m], NoBlock) /\ OwnedBy(plock[m], s)

\* The nodes of a select result that have no ancestor in it.
plock_make_final_result(sel) ==
    {n \in sel : \A m \in sel \ {n} : n \notin Subtree[m]}
-----------------------------------------------------------------------------
(* Sessions. *)

agt_ses_new_session(s) ==
    /\ s \notin alive
    /\ alive' = alive \cup {s}
    /\ UNCHANGED <<lockVars, partialVars, candVars, badFlags, ccActive>>

\* Mutant: the control blocks are freed, the slots of the nodes are kept.
free_partial_locks_KeepSlots(gone) ==
    /\ plockQ' = plockQ \ gone
    /\ lapsed' = {l \in lapsed : \A p \in gone : p.id # l[1]}
    /\ UNCHANGED <<plock, cloned>>

\* The locks in gone leave the queue, their slots in <running> are cleared and
\* their blocks freed; the clones of the slots in <candidate> are not looked at.
free_partial_locks(gone) ==
    /\ plockQ' = plockQ \ gone
    /\ plock' = val_clear_partial_lock({p.block : p \in gone})
    /\ lapsed' = {l \in lapsed : \A p \in gone : p.id # l[1]}
    /\ UNCHANGED cloned

\* cfg_release_partial_locks leaves cfg_state alone, whatever it removes.
cfg_release_partial_locks(s) ==
    /\ free_partial_locks({p \in plockQ : p.sid = s})
    /\ UNCHANGED lastId

\* The refill runs after the partial locks were cleared, so it copies plock'.
cfg_release_locks(s) ==
    LET held == {d \in Datastores : lockedBy[d] = s}
    IN  /\ cfg_release_partial_locks(s)
        /\ state' = [d \in Datastores |-> IF d \in held THEN "READY" ELSE state[d]]
        /\ lockedBy' = [d \in Datastores |->
                            IF d \in held THEN NoSession ELSE lockedBy[d]]
        /\ IF "candidate" \in held THEN cfg_fill_candidate_from_running
                                   ELSE UNCHANGED candVars

\* close-session, kill-session, a dropped connection and the idle timeout all
\* end in agt_ses_free_session.
agt_ses_free_session(s) ==
    /\ s \in alive
    /\ alive' = alive \ {s}
    /\ cfg_release_locks(s)
    /\ UNCHANGED <<badFlags, ccActive>>
-----------------------------------------------------------------------------
(* Global locks. *)

\* No lock on <running> or <candidate> while a confirmed commit is pending.
lock_validate(d) ==
    /\ cfg_ok_to_lock(d)
    /\ d \in {"running", "candidate"} => ~ccActive

Lock(s, d) ==
    /\ s \in alive
    /\ lock_validate(d)
    /\ state' = [state EXCEPT ![d] = "FLOCK"]
    /\ lockedBy' = [lockedBy EXCEPT ![d] = s]
    /\ UNCHANGED <<alive, partialVars, candVars, badFlags, ccActive>>

Unlock(s, d) ==
    /\ s \in alive
    /\ cfg_ok_to_unlock(d, s)
    /\ state' = [state EXCEPT ![d] = "READY"]
    /\ lockedBy' = [lockedBy EXCEPT ![d] = NoSession]
    /\ UNCHANGED <<alive, partialVars, badFlags, ccActive>>
    /\ IF d = "candidate" THEN cfg_fill_candidate_from_running
                          ELSE UNCHANGED candVars
-----------------------------------------------------------------------------
(* Partial locks on <running>. *)

\* Mutant: last_id is not compared with its maximum.
plock_cb_new_Unbounded == lastId + 1

\* The id plock_cb_new gives out: 0 when the ids are used up and a partial
\* lock is (or seems) active, so that the counter may not be reset.
plock_cb_new ==
    IF lastId < MaxLockId THEN lastId + 1
    ELSE IF state["running"] # "PLOCK" THEN 1 ELSE 0

partial_lock_validate(s, nodes) ==
    /\ nodes # {}
    /\ \A n \in nodes : val_ok_to_partial_lock(n, s)
    /\ ~ccActive

PartialLock(s, sel) ==
    /\ s \in alive
    /\ cfg_ok_to_partial_lock
    /\ plock_cb_new # 0
    /\ LET nodes == plock_make_final_result(sel)
       IN  /\ partial_lock_validate(s, nodes)
           /\ \E b \in Blocks \ {p.block : p \in plockQ} :
                /\ plockQ' = plockQ \cup
                     {[id |-> plock_cb_new, sid |-> s, block |-> b, nodes |-> nodes]}
                /\ plock' = [n \in RunNodes |->
                               IF n \in nodes THEN val_set_partial_lock(plock[n], b)
                                              ELSE plock[n]]
    /\ lastId' = plock_cb_new
    /\ state' = [state EXCEPT !["running"] = "PLOCK"]
    /\ UNCHANGED <<alive, lockedBy, lapsed, cloned, candVars, badFlags, ccActive>>

\* A request refused by its validation has used up a lock id. A slot that points
\* to a freed block can be read as another session's.
PartialLockDenied(s, sel) ==
    /\ s \in alive
    /\ cfg_ok_to_partial_lock
    /\ plock_cb_new # 0
    /\ LET nodes == plock_make_final_result(sel)
       IN  \/ ~partial_lock_validate(s, nodes)
           \/ \E n \in nodes : \E m \in Subtree[n] \cap RunNodes : Dangling(plock[m])
    /\ lastId' = plock_cb_new
    /\ UNCHANGED <<alive, lockVars, plockQ, slotVars, candVars, badFlags, ccActive>>

\* Granted, but the reply could not be built: "back out everything, except
\* waste the lock ID".
PartialLockBackedOut(s, sel) ==
    /\ s \in alive
    /\ cfg_ok_to_partial_lock
    /\ plock_cb_new # 0
    /\ partial_lock_validate(s, plock_make_final_result(sel))
    /\ lastId' = plock_cb_new
    /\ state' = [state EXCEPT !["running"] = IF plockQ = {} THEN "READY" ELSE "PLOCK"]
    /\ UNCHANGED <<alive, lockedBy, plockQ, slotVars, candVars, badFlags, ccActive>>

cfg_delete_partial_lock(p) ==
    /\ free_partial_locks({p})
    /\ state' = [state EXCEPT !["running"] =
                    IF plockQ = {p} THEN "READY" ELSE "PLOCK"]

PartialUnlock(s, i) ==
    /\ s \in alive
    /\ \E p \in plockQ :
        /\ p.id = i
        /\ p.sid = s
        /\ cfg_delete_partial_lock(p)
    /\ UNCHANGED <<alive, lockedBy, lastId, candVars, badFlags, ccActive>>
-----------------------------------------------------------------------------
(* Edits of <candidate>: edit-config, or copy-config with an inline source. One
   request can make several of the edits below; each checks, and marks, on its
   own. *)

edit_config(s) ==
    /\ s \in alive
    /\ cfg_ok_to_write("candidate", s)
    /\ dirty' = TRUE
    /\ editors' = editors \cup {s}
    /\ UNCHANGED <<alive, lockVars, partialVars, badFlags, ccActive>>

\* The slots looked at are those of the clone.
cand_write_ok(s, N) == \A n \in N \cap Leafs \cap CandNodes : OwnedBy(candPlock[n], s)

\* Leafs get new values, and nodes lose children that are not in Nodes. With
\* N = {} only such children, or values below them, change.
edit_values(s, N) ==
    /\ edit_config(s)
    /\ cand_write_ok(s, N)
    /\ marked' = marked \cup N
    /\ UNCHANGED candPlock

\* A node is created, or a complex node replaced: it and all below it come from
\* the request, without slots; the node is marked, not what is below it.
put_subtree(s, n, T) ==
    /\ edit_config(s)
    /\ n \in T
    /\ Above[n] \subseteq CandNodes
    /\ n \in CandNodes => n \notin Leafs
    /\ cand_write_ok(s, T)
    /\ candPlock' = [m \in (CandNodes \ Subtree[n]) \cup T |->
                        IF m \in T THEN NoSlots ELSE candPlock[m]]
    /\ marked' = (marked \ Subtree[n]) \cup {n}

\* The parent of a deleted node is marked, unless the node is a list entry.
delete_subtree(s, n) ==
    /\ edit_config(s)
    /\ cand_write_ok(s, {n})
    /\ candPlock' = [m \in CandNodes \ Subtree[n] |-> candPlock[m]]
    /\ \E up \in SUBSET {m \in Above[n] : Above[n] \subseteq {m} \cup Above[m]} :
          marked' = (marked \ Subtree[n]) \cup up

discard_changes(s) ==
    /\ s \in alive
    /\ cfg_ok_to_write("candidate", s)
    /\ dirty
    /\ UNCHANGED <<alive, lockVars, partialVars, badFlags, ccActive>>
    /\ cfg_fill_candidate_from_running

copy_config_candidate(s, src) ==
    /\ s \in alive
    /\ cfg_ok_to_write("candidate", s)
    /\ UNCHANGED <<alive, lockVars, partialVars, ccActive>>
    /\ IF src = "running" THEN cfg_fill_candidate_from_running /\ UNCHANGED badFlags
                          ELSE cfg_fill_candidate_from_startup(s)
-----------------------------------------------------------------------------
(* Writes of <running>: commit, and the restore of a backup. Each applies at
   the topmost nodes that differ: a complex node there is replaced by the other
   tree's node with all that is below it, and val_check_swap_resnode hands the
   array of the replaced node, and of no node below it, to its successor. *)

\* Mutant: val_check_swap_resnode is not called.
array_after_NoSwap(m, cur, tops, src) ==
    IF m \in DOMAIN cur /\ \A t \in tops : m \notin Subtree[t] THEN cur[m] ELSE src[m]

\* The array of node m after a write that applied at tops: cur are the arrays of
\* <running>, src those of the tree the nodes come from.
array_after(m, cur, tops, src) ==
    IF m \in DOMAIN cur /\ Above[m] \cap tops = {} THEN cur[m] ELSE src[m]

\* Nodes that are gone or new in T, or below one of tops.
moved(cur, tops, T) ==
    {n \in Nodes : n \notin T \cap DOMAIN cur \/ Above[n] \cap tops # {}}

\* <running> gets the arrays new. A lock lapses on a node of hit that is gone or
\* whose new array does not hold it.
set_arrays(new, hit) ==
    /\ plock' = new
    /\ lapsed' = lapsed \cup
         UNION {{p.id} \X {n \in p.nodes \cap hit :
                              n \notin DOMAIN new \/ ~Holds(new[n], p.block)} : p \in plockQ}
    /\ cloned' = {n \in DOMAIN new : \E m \in Above[n] \cup {n} :
                    IF m \in hit THEN new[m] # NoSlots ELSE m \in cloned}

\* agt_val_check_commit_edits looks at each node the flags lead to: a complex one with
\* all that is below it in <candidate>, a leaf and a deleted node in <running>.
agt_val_check_commit_edits(s, reached) ==
    dirty =>
      /\ \A n \in reached \cap RunNodes :
            IF n \in Leafs THEN OwnedBy(plock[n], s)
            ELSE \A m \in Subtree[n] \cap CandNodes : OwnedBy(candPlock[m], s)
      /\ ~badFlags =>
            \A n \in RunNodes \ CandNodes : \A m \in (Subtree[n] \cap RunNodes) \cup Above[n] :
               OwnedBy(plock[m], s)

\* agt_val_apply_commit at tops when the callbacks of COMMIT accept: the edits are
\* made, and every node that <candidate> lacks is deleted.
nodes_after_commit(tops) ==
    {n \in CandNodes : n \in RunNodes \/ \E t \in tops : n \in Subtree[t]}

arrays_after_commit(tops) ==
    [n \in nodes_after_commit(tops) |-> array_after(n, plock, tops, candPlock)]

\* After a failure <candidate> is left as it is, without the nodes that went into
\* <running>.
candidate_after_commit(tops) ==
    LET went == UNION {Subtree[t] : t \in tops \ (Leafs \cap RunNodes)}
    IN  /\ candPlock' = [n \in CandNodes \ went |->
                            IF n \in tops THEN plock[n] ELSE candPlock[n]]
        /\ marked' = marked \ (went \cup tops)
        /\ UNCHANGED <<dirty, editors>>

\* The arrays after edits of the arrays cur were undone: restore_curnode gives the
\* nodes whose COMMIT callback was called the array of what was to replace them.
rolled_back(cur, tried, src) == [n \in DOMAIN cur |-> IF n \in tried THEN src[n] ELSE cur[n]]

Fresh == [n \in Nodes |-> NoSlots]

\* agt_ncx_load_backup over the arrays cur, when the edits are made: the top-level
\* nodes that differ are replaced; T are the nodes of the backup, hit those that
\* the failed commit has been at.
backup_loaded(cur, hit, T) ==
    \E tops \in SUBSET (Roots \cap T \cap DOMAIN cur) :
        /\ \A r \in (Roots \cap T \cap DOMAIN cur) \ tops :
              Subtree[r] \cap T = Subtree[r] \cap DOMAIN cur
        /\ set_arrays([n \in T |-> array_after(n, cur, tops, Fresh)], moved(cur, tops, T) \cup hit)

\* The same when it is refused.
backup_refused(cur, hit) ==
    \E tried \in SUBSET (Roots \cap DOMAIN cur) :
        set_arrays(rolled_back(cur, tried, Fresh), tried \cup hit)

\* commit, confirmed or not. commit_cb is decided on before the edits are applied
\* (module ConfirmedCommit has the sessions that may confirm). The edits are applied
\* at the topmost nodes the flags lead to. Those below them keep their flags, unless
\* val_clean_tree runs after the save, and so do deleted nodes that are restored.
\* The backup is loaded when agt_commit_complete or the save fails, or the edits
\* could not be undone. An extension has kept the backup of the first commit; else
\* it is what <running> was: where no edit was made, or all were undone, there is
\* nothing to load from it.
commit(s, confirmed) ==
    LET Backups == IF ccActive /\ confirmed THEN Trees ELSE Trees \cap SUBSET RunNodes
    IN  /\ s \in alive
        /\ cfg_ok_to_write("candidate", s)
        /\ cfg_ok_to_write("running", s)
        /\ ccActive' = confirmed
        /\ UNCHANGED <<alive, lockVars, plockQ, lastId>>
        /\ \E more \in SUBSET (IF badFlags THEN CandNodes \ marked ELSE {}) :
             LET reached == marked \cup more
                 tops == {n \in reached : Above[n] \cap reached = {} /\ Above[n] \subseteq RunNodes}
                 arrays == arrays_after_commit(tops)
                 hit == moved(plock, tops, DOMAIN arrays)
             IN  /\ agt_val_check_commit_edits(s, reached)
                 /\ \/ /\ set_arrays(arrays, hit)
                       /\ cfg_fill_candidate_from_running
                       /\ badFlags' = ((confirmed \/ HasStartup) /\ (badFlags \/ tops # reached))
                    \/ /\ dirty \/ badFlags \/ (ccActive /\ confirmed)
                       /\ \/ \E T \in Backups : backup_loaded(arrays, hit, T)
                          \/ backup_refused(arrays, hit)
                       /\ candidate_after_commit(tops)
                       /\ badFlags' = TRUE
                    \/ \E tried \in SUBSET (tops \cap RunNodes) :
                         \/ /\ set_arrays(rolled_back(plock, tried, candPlock), tried)
                            /\ badFlags' = (badFlags \/ reached # {} \/ RunNodes # CandNodes)
                            /\ UNCHANGED candVars
                         \/ /\ ccActive /\ confirmed
                            /\ \E T \in Trees :
                                 backup_loaded(rolled_back(plock, tried, candPlock), tried, T)
                            /\ badFlags' = TRUE
                            /\ UNCHANGED candVars

\* The confirmed commit is given up: on cancel-commit, on its timeout, or when its
\* session ends. <candidate> is refilled only if <running> was restored.
agt_ncx_cancel_confirmed_commit ==
    /\ ccActive
    /\ ccActive' = FALSE
    /\ UNCHANGED <<alive, lockVars, plockQ, lastId>>
    /\ \/ /\ \E T \in Trees : backup_loaded(plock, {}, T)
          /\ cfg_fill_candidate_from_running
          /\ badFlags' = FALSE
       \/ /\ backup_refused(plock, {})
          /\ UNCHANGED <<candVars, badFlags>>
-----------------------------------------------------------------------------
Next ==
    \/ \E s \in Sessions :
        \/ agt_ses_new_session(s)
        \/ agt_ses_free_session(s)
        \/ \E d \in Datastores : Lock(s, d) \/ Unlock(s, d)
        \/ \E sel \in SUBSET RunNodes :
              \/ PartialLock(s, sel)
              \/ PartialLockDenied(s, sel)
              \/ PartialLockBackedOut(s, sel)
        \/ \E i \in LockIds : PartialUnlock(s, i)
        \/ \E N \in SUBSET CandNodes : edit_values(s, N)
        \/ \E n \in Nodes : \E T \in {U \cap Subtree[n] : U \in Trees} : put_subtree(s, n, T)
        \/ \E n \in CandNodes : delete_subtree(s, n)
        \/ discard_changes(s)
        \/ \E src \in Datastores \ {"candidate"} : copy_config_candidate(s, src)
        \/ \E confirmed \in BOOLEAN : commit(s, confirmed)
    \/ agt_ncx_cancel_confirmed_commit

Spec == Init /\ [][Next]_vars
-----------------------------------------------------------------------------
(* Properties. *)

\* A datastore is FLOCK exactly when a session is recorded as its owner, and
\* that session still exists: no forced end of a session (cfg_release_locks)
\* leaves a datastore locked for a client nobody can ask to unlock it.
GlobalLockHasLiveOwner ==
    \A d \in Datastores :
        /\ state[d] = "FLOCK" <=> lockedBy[d] # NoSession
        /\ lockedBy[d] # NoSession => lockedBy[d] \in alive

\* A partial lock belongs to a session that still exists; with session ids that
\* come back this also says that a new session starts without any lock.
PartialLockHasLiveOwner == \A p \in plockQ : p.sid \in alive

\* While any partial lock is queued <running> is in state PLOCK, the state that
\* refuses a global lock: neither a later unlock of another partial lock nor the
\* end of another session may reset it to READY.
PartialLocksKeepRunningReserved == plockQ # {} => state["running"] = "PLOCK"

\* Lock ids are unique among the queued locks, also after last_id was used up
\* and plock_cb_reset_id started it again, and each lock has its own block.
UniqueLocks ==
    \A p, q \in plockQ : p # q => p.id # q.id /\ p.block # q.block

\* A queued lock has its slot on each of its nodes, unless it lapsed there: the node
\* is gone, or it went into <running> below a node that was replaced, or a COMMIT
\* callback was called for it in a commit that was then undone. A write that replaces
\* the locked node itself does not end the lock (val_check_swap_resnode).
LocksKeepTheirSlots ==
    \A p \in plockQ : \A n \in p.nodes :
        <<p.id, n>> \in lapsed \/ (n \in RunNodes /\ Holds(plock[n], p.block))

\* At a node with no array from another tree at or above it, a slot is that of a
\* queued lock on this node: no slot outlives its lock there.
SlotsAreLocks ==
    \A n \in RunNodes \ cloned :
        \A b \in Blocks : Holds(plock[n], b) => \E p \in plockQ : p.block = b /\ n \in p.nodes

\* Two sessions have partial locks on one node only if one of the locks lapsed there.
NodeNotShared ==
    \A p, q \in plockQ : p.sid # q.sid =>
        \A n \in p.nodes \cap q.nodes : <<p.id, n>> \in lapsed \/ <<q.id, n>> \in lapsed

\* The tables that say who has which lock agree with each other and with the
\* sessions, over every order of grants, refusals, ends of sessions, edits of
\* <candidate>, commits that are made, undone or fail half-way, and restores.
LockTables ==
    /\ GlobalLockHasLiveOwner
    /\ PartialLockHasLiveOwner
    /\ PartialLocksKeepRunningReserved
    /\ UniqueLocks
    /\ LocksKeepTheirSlots
    /\ SlotsAreLocks
    /\ NodeNotShared

\* What val_check_swap_resnode and val_clear_partial_lock say they do: "check if the
\* curnode has any partial locks and if so, transfer them to the new node", and "clear
\* the partial lock throughout the value tree". So every node of <running> keeps the
\* queued locks it belongs to, whatever writes replace nodes, and has no slot that points
\* to a lock that was freed. Violated, and by either half alone.
SlotsFollowLocks ==
    \A n \in RunNodes :
        /\ \A p \in plockQ : n \in p.nodes => Holds(plock[n], p.block)
        /\ ~Dangling(plock[n])

\* The holder of the lock on <candidate> is the only session that has edited it since
\* it was last filled from <running>, whatever edits, discards, commits, cancelled commits and
\* ended sessions came before the lock. Only without :startup, where
\* copy-config from <startup> clears the dirty flag of a changed candidate.
CandidateLockExclusive ==
    state["candidate"] = "FLOCK" => editors \subseteq {lockedBy["candidate"]}

\* The module implements AbstractLocks: the states, the queue, the slots and the
\* reused ids never grant what the promise refuses, never drop a lock that was
\* not given back except where a write of <running> may end it, and never leave a
\* lock of a session that ended.
holder ==
    [d \in Datastores |-> IF state[d] = "FLOCK" THEN lockedBy[d] ELSE NoSession]

shares == UNION {{p.sid} \X {n \in p.nodes : <<p.id, n>> \notin lapsed} : p \in plockQ}

Locks == INSTANCE AbstractLocks WITH sessions <- alive

ImplementsLocks == Locks!Spec
=============================================================================
