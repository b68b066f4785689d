------------------------- MODULE TransactionsProofs -------------------------
(***************************************************************************)
(* Theorems about Transactions, for all sessions, nodes and values and     *)
(* every number of ids and undo records. First who owns the open           *)
(* transaction, for which the passes over undo records do not matter: they *)
(* change the records and the tree, and never who owns what. Then what     *)
(* those passes (folds) do: the types of the records, and what each record *)
(* still knows of the tree that trans-start found.                         *)
(***************************************************************************)
EXTENDS Transactions, FiniteSetTheorems, WellFoundedInduction, TLAPS

Block(txcb) == txcb = [txid |-> txcb.txid, sid |-> txcb.sid, undoQ |-> txcb.undoQ]

\* Ids are never ahead of the file that they are read from after a crash.
Ids ==
  /\ agt_cfg_txid \in Nat /\ txid_file = agt_cfg_txid /\ given = agt_cfg_txid
  /\ cur_txid \in [Datastores -> Nat]

\* Whose the open transaction is. On <candidate> the owner may lose the
\* datastore, with the lock: then its cur_txid is no longer that of the block.
Owner ==
  gTxcb # None =>
    /\ Block(gTxcb)
    /\ gTxcb.txid \in Nat \ {0} /\ gTxcb.txid <= agt_cfg_txid
    /\ gTxcb.sid \in alive
    /\ target = "running" => cur_txid["running"] = gTxcb.txid
    /\ target = "candidate" /\ cur_txid["candidate"] = gTxcb.txid => lockedBy = gTxcb.sid

IInv == target \in Datastores /\ alive \subseteq Sessions /\ Ids /\ Owner

LEMMA InitIInv == Init => IInv
  BY DEF Init, IInv, Ids, Owner, ids, Datastores

-----------------------------------------------------------------------------
(* What steps have in common *)

LEMMA RestartKeeps == IInv /\ Restarted => IInv'
  BY DEF IInv, Ids, Owner, Restarted, Datastores

\* The records of the open transaction change, and nothing that matters here.
LEMMA RecordsKeep ==
  ASSUME IInv, gTxcb # None, NEW q, gTxcb' = [gTxcb EXCEPT !.undoQ = q],
         UNCHANGED <<target, alive, cur_txid, ids>>,
         lockedBy' = lockedBy
  PROVE  IInv'
<1>1. gTxcb' = [txid |-> gTxcb.txid, sid |-> gTxcb.sid, undoQ |-> q]
  BY DEF IInv, Owner, Block
<1>2. Block(gTxcb') /\ gTxcb'.txid = gTxcb.txid /\ gTxcb'.sid = gTxcb.sid
  BY <1>1 DEF Block
<1> QED BY <1>2 DEF IInv, Ids, Owner, ids

\* A request that takes a datastore for itself finds it free, so it is not
\* that of the open transaction.
LEMMA NewTransactionKeeps ==
  ASSUME IInv, NEW d \in Datastores, d \in {"running", target},
         agt_cfg_new_transaction(d), cur_txid' = Afterwards(cur_txid, d),
         UNCHANGED <<target, alive, lockedBy, gTxcb>>
  PROVE  IInv'
<1>1. cur_txid[d] = 0 /\ agt_cfg_txid' = agt_cfg_txid + 1
      /\ txid_file' = agt_cfg_txid' /\ given' = agt_cfg_txid'
  BY DEF agt_cfg_new_transaction, allocate_txid, IInv, Ids
<1>2. Ids'
  BY <1>1 DEF IInv, Ids, Afterwards
<1>3. ASSUME gTxcb # None PROVE Owner'
  <2>1. cur_txid' = [cur_txid EXCEPT ![d] = agt_cfg_txid + 1]
    BY <1>3 DEF Afterwards
  <2>2. target = "running" => d # "running"
    BY <1>1, <1>3 DEF IInv, Owner
  <2>3. target = "candidate" => target # "running"
    OBVIOUS
  <2> QED BY <1>1, <1>3, <2>1, <2>2 DEF IInv, Ids, Owner, Datastores
<1>4. gTxcb = None => Owner'
  BY DEF Owner
<1> QED BY <1>2, <1>3, <1>4 DEF IInv

\* <candidate> is refilled, which takes it from the open transaction.
LEMMA RefillKeeps ==
  ASSUME IInv, target = "candidate", target' = target,
         NEW c, NEW txcb, cfg_fill_candidate(c, txcb),
         txcb \in {None, gTxcb},
         alive' \subseteq Sessions, txcb = gTxcb /\ gTxcb # None => gTxcb.sid \in alive',
         Ids', agt_cfg_txid <= agt_cfg_txid', cur_txid'["candidate"] = 0
  PROVE  IInv'
<1>1. CASE txcb = None
  BY <1>1 DEF IInv, Owner, cfg_fill_candidate
<1>2. CASE txcb # None
  <2>1. txcb = gTxcb /\ gTxcb # None /\ gTxcb.sid \in alive'
    BY <1>2
  <2>2. gTxcb' = [gTxcb EXCEPT !.undoQ = Freed(@)]
    BY <1>2, <2>1 DEF cfg_fill_candidate
  <2>3. gTxcb' = [txid |-> gTxcb.txid, sid |-> gTxcb.sid, undoQ |-> Freed(gTxcb.undoQ)]
    BY <2>1, <2>2 DEF IInv, Owner, Block
  <2>4. Block(gTxcb') /\ gTxcb'.txid = gTxcb.txid /\ gTxcb'.sid = gTxcb.sid
    BY <2>3 DEF Block
  <2>5. gTxcb.txid \in Nat \ {0} /\ gTxcb.txid <= agt_cfg_txid'
    BY <2>1 DEF IInv, Owner, Ids
  <2> QED BY <2>1, <2>4, <2>5 DEF IInv, Owner
<1> QED BY <1>1, <1>2

-----------------------------------------------------------------------------
(* Every step keeps the invariant *)

LEMMA KillKeeps ==
  ASSUME IInv, NEW s \in Sessions, agt_ses_kill_session(s)
  PROVE  IInv'
<1> DEFINE txcb == agt_cfg_release_trans(s)
           txids == IF txcb = None THEN Cleared(cur_txid) ELSE cur_txid
<1>1. /\ alive' = alive \ {s} /\ lockedBy' = cfg_release_locks(s)
      /\ UNCHANGED <<target, ids>>
  BY DEF agt_ses_kill_session
<1>2. txcb \in {None, gTxcb} /\ (txcb = gTxcb /\ gTxcb # None => gTxcb.sid \in alive')
  BY <1>1 DEF agt_cfg_release_trans, IInv, Owner
<1>3. txids \in [Datastores -> Nat]
  BY DEF Cleared, IInv, Ids
<1>4. CASE lockedBy = s /\ target = "candidate"
  <2>1. cfg_fill_candidate(saved, txcb) /\ cur_txid' = [txids EXCEPT !["candidate"] = 0]
    BY <1>4 DEF agt_ses_kill_session
  <2>2. Ids' /\ agt_cfg_txid' = agt_cfg_txid /\ cur_txid'["candidate"] = 0
    BY <1>1, <1>3, <2>1 DEF IInv, Ids, ids, Datastores
  <2>3. agt_cfg_txid <= agt_cfg_txid'
    BY <2>2 DEF IInv, Ids
  <2>4. alive' \subseteq Sessions /\ target' = target
    BY <1>1 DEF IInv
  <2> QED BY <1>2, <1>4, <2>1, <2>2, <2>3, <2>4, RefillKeeps
<1>5. CASE ~(lockedBy = s /\ target = "candidate")
  <2>1. gTxcb' = txcb /\ cur_txid' = txids
    BY <1>5 DEF agt_ses_kill_session
  <2>2. Ids'
    BY <1>1, <1>3, <2>1 DEF IInv, Ids, ids
  <2>3. txcb # None => txcb = gTxcb /\ txids = cur_txid
    BY <1>2
  <2>4. target = "candidate" => lockedBy' = lockedBy
    BY <1>1, <1>5 DEF cfg_release_locks
  <2>5. Owner'
    BY <1>1, <1>2, <2>1, <2>3, <2>4 DEF IInv, Owner, ids
  <2> QED BY <1>1, <2>2, <2>5 DEF IInv
<1> QED BY <1>4, <1>5

LEMMA UnlockKeeps ==
  ASSUME IInv, NEW s \in Sessions, NEW txcb, NEW txids, NEW contents,
         unlock(s, txcb, txids, contents), txids \in [Datastores -> Nat],
         txcb = None \/ (txcb = gTxcb /\ txids = cur_txid),
         UNCHANGED <<target, alive, ids>>
  PROVE  IInv'
<1>1. CASE target = "candidate"
  <2>1. cfg_fill_candidate(saved, txcb) /\ cur_txid' = [txids EXCEPT !["candidate"] = 0]
    BY <1>1 DEF unlock
  <2>2. Ids' /\ agt_cfg_txid' = agt_cfg_txid /\ cur_txid'["candidate"] = 0
    BY <2>1 DEF IInv, Ids, ids, Datastores
  <2>3. agt_cfg_txid <= agt_cfg_txid' /\ alive' \subseteq Sessions /\ txcb \in {None, gTxcb}
    BY <2>2 DEF IInv, Ids
  <2>4. txcb = gTxcb /\ gTxcb # None => gTxcb.sid \in alive'
    BY DEF IInv, Owner
  <2> QED BY <1>1, <2>1, <2>2, <2>3, <2>4, RefillKeeps
<1>2. CASE target # "candidate"
  <2>1. gTxcb' = txcb /\ cur_txid' = txids
    BY <1>2 DEF unlock
  <2> QED BY <1>2, <2>1 DEF IInv, Ids, Owner, ids
<1> QED BY <1>1, <1>2

LEMMA StartKeeps ==
  ASSUME IInv, NEW s \in Sessions, transaction_start(s)
  PROVE  IInv'
<1>1. s \in alive /\ lockedBy = NoSession /\ lockedBy' = s /\ UNCHANGED <<target, alive>>
  BY DEF transaction_start, lock_validate
<1>2. CASE /\ agt_cfg_new_transaction(target)
           /\ cur_txid' = [cur_txid EXCEPT ![target] = agt_cfg_txid']
           /\ gTxcb' = [txid |-> agt_cfg_txid', sid |-> s, undoQ |-> <<>>]
  <2>1. agt_cfg_txid' = agt_cfg_txid + 1 /\ txid_file' = agt_cfg_txid' /\ given' = agt_cfg_txid'
    BY <1>2 DEF agt_cfg_new_transaction, allocate_txid, IInv, Ids
  <2>2. Ids' /\ cur_txid'[target] = agt_cfg_txid'
    BY <1>2, <2>1 DEF IInv, Ids
  <2>3. Block(gTxcb') /\ gTxcb'.txid = agt_cfg_txid' /\ gTxcb'.sid = s
    BY <1>2 DEF Block
  <2> QED BY <1>1, <2>1, <2>2, <2>3 DEF IInv, Ids, Owner
<1>3. CASE UNCHANGED <<cur_txid, ids, gTxcb>>
  <2>1. NoSession \notin alive
    BY ParametersAssumption DEF IInv
  <2> QED BY <1>1, <1>3, <2>1 DEF IInv, Ids, Owner, ids
<1> QED BY <1>2, <1>3 DEF transaction_start

LEMMA EditKeeps ==
  ASSUME IInv, NEW s \in Sessions, edit_in_transaction(s)
  PROVE  IInv'
<1>1. gTxcb # None
  BY DEF edit_in_transaction, valid_transaction
<1>2. \E w, commits : passed(w, commits)
  <2>1. PICK e \in Edits : agt_val_apply_write(e)
    BY DEF edit_in_transaction
  <2> DEFINE before == InProgress(gTxcb.undoQ)
             after == apply_write_val(before, e)
  <2>2. CASE passed(attempt_commit(after), TRUE)
    BY <2>2
  <2>3. CASE passed(attempt_rollback(after), FALSE)
    BY <2>3
  <2>4. CASE passed(attempt_rollback(before), FALSE)
    BY <2>4
  <2>5. ASSUME NEW k, passed(attempt_rollback(callbacks(after, k)), FALSE)
        PROVE  \E w, commits : passed(w, commits)
    BY <2>5
  <2> HIDE DEF before, after
  <2> QED BY <2>1, <2>2, <2>3, <2>4, <2>5, Zenon DEF agt_val_apply_write, before, after
<1>3. PICK w, commits : passed(w, commits)
  BY <1>2
<1>4. CASE Restarted
  BY <1>4, RestartKeeps
<1>5. CASE ~Restarted
  <2>1. /\ gTxcb' = [gTxcb EXCEPT !.undoQ = Left(w.undoQ)]
        /\ UNCHANGED <<target, alive, cur_txid, ids>> /\ lockedBy' = lockedBy
    BY <1>3, <1>5 DEF passed
  <2> QED BY <1>1, <2>1, RecordsKeep
<1> QED BY <1>4, <1>5

LEMMA RollbackKeeps ==
  ASSUME IInv, NEW s \in Sessions, transaction_rollback(s)
  PROVE  IInv'
<1> DEFINE w == attempt_rollback(InProgress(gTxcb.undoQ))
<1>1. gTxcb # None
  BY DEF transaction_rollback, valid_transaction
<1>2. CASE Restarted
  BY <1>2, RestartKeeps
<1>3. CASE unlock(s, None, Cleared(cur_txid), w.tree) /\ UNCHANGED <<target, alive, ids>>
  <2>1. Cleared(cur_txid) \in [Datastores -> Nat]
    BY DEF Cleared, IInv, Ids
  <2> QED BY <1>3, <2>1, UnlockKeeps
<1>4. CASE /\ gTxcb' = [gTxcb EXCEPT !.undoQ = Left(w.undoQ)]
           /\ UNCHANGED <<target, alive, cur_txid, ids>> /\ lockedBy' = lockedBy
  BY <1>1, <1>4, RecordsKeep
<1>5. Restarted \/ <1>3!1 \/ <1>4!1
  BY DEF transaction_rollback
<1> QED BY <1>2, <1>3, <1>4, <1>5

LEMMA CommitKeeps ==
  ASSUME IInv, NEW s \in Sessions, commit(s)
  PROVE  IInv'
<1>1. /\ target = "candidate" /\ agt_cfg_new_transaction("running")
      /\ UNCHANGED <<target, alive, lockedBy>>
  BY DEF commit
<1>2. CASE /\ cfg_fill_candidate(tree, gTxcb)
           /\ cur_txid' = [Afterwards(cur_txid, "running") EXCEPT !["candidate"] = 0]
  <2>1. agt_cfg_txid' = agt_cfg_txid + 1 /\ txid_file' = agt_cfg_txid' /\ given' = agt_cfg_txid'
    BY <1>1 DEF agt_cfg_new_transaction, allocate_txid, IInv, Ids
  <2>2. Afterwards(cur_txid, "running") \in [Datastores -> Nat]
    <3>1. cur_txid \in [Datastores -> Nat] /\ agt_cfg_txid + 1 \in Nat
      BY DEF IInv, Ids
    <3> QED BY <3>1 DEF Afterwards
  <2>3. Ids' /\ agt_cfg_txid <= agt_cfg_txid' /\ cur_txid'["candidate"] = 0
    BY <1>2, <2>1, <2>2 DEF IInv, Ids, Datastores
  <2>4. alive' \subseteq Sessions /\ (gTxcb # None => gTxcb.sid \in alive') /\ target' = target
    BY <1>1 DEF IInv, Owner
  <2> QED BY <1>1, <1>2, <2>3, <2>4, RefillKeeps
<1>3. CASE cur_txid' = Afterwards(cur_txid, "running") /\ UNCHANGED gTxcb
  BY <1>1, <1>3, NewTransactionKeeps DEF Datastores
<1> QED BY <1>2, <1>3 DEF commit

LEMMA DiscardKeeps ==
  ASSUME IInv, NEW s \in Sessions, discard_changes(s)
  PROVE  IInv'
<1>1. /\ target = "candidate" /\ cfg_fill_candidate(saved, gTxcb)
      /\ cur_txid' = [cur_txid EXCEPT !["candidate"] = 0]
      /\ UNCHANGED <<target, alive, ids>>
  BY DEF discard_changes
<1>2. Ids' /\ agt_cfg_txid <= agt_cfg_txid' /\ cur_txid'["candidate"] = 0
  BY <1>1 DEF IInv, Ids, ids, Datastores
<1>3. alive' \subseteq Sessions /\ (gTxcb # None => gTxcb.sid \in alive') /\ target' = target
  BY <1>1 DEF IInv, Owner
<1> QED BY <1>1, <1>2, <1>3, RefillKeeps

LEMMA NextIInv == IInv /\ [Next]_vars => IInv'
<1> SUFFICES ASSUME IInv, [Next]_vars PROVE IInv'
  OBVIOUS
<1>1. CASE UNCHANGED vars
  BY <1>1 DEF vars, ids, IInv, Ids, Owner
<1>2. CASE restart
  BY <1>2, RestartKeeps DEF restart
<1>3. ASSUME NEW s \in Sessions, agt_ses_new_session(s) PROVE IInv'
  BY <1>3 DEF agt_ses_new_session, IInv, Ids, Owner, ids
<1>4. ASSUME NEW s \in Sessions, agt_ses_kill_session(s) PROVE IInv'
  BY <1>4, KillKeeps
<1>5. ASSUME NEW s \in Sessions, Lock(s) PROVE IInv'
  <2>1. NoSession \notin alive
    BY ParametersAssumption DEF IInv
  <2> QED BY <1>5, <2>1 DEF Lock, lock_validate, IInv, Ids, Owner, ids
<1>6. ASSUME NEW s \in Sessions, Unlock(s) PROVE IInv'
  <2>1. unlock(s, gTxcb, cur_txid, tree) /\ UNCHANGED <<target, alive, ids>>
    BY <1>6 DEF Unlock
  <2>2. cur_txid \in [Datastores -> Nat]
    BY DEF IInv, Ids
  <2> QED BY <2>1, <2>2, UnlockKeeps
<1>7. ASSUME NEW s \in Sessions, transaction_start(s) PROVE IInv'
  BY <1>7, StartKeeps
<1>8. ASSUME NEW s \in Sessions, transaction_commit(s) PROVE IInv'
  <2>1. unlock(s, None, Cleared(cur_txid), tree) /\ UNCHANGED <<target, alive, ids>>
    BY <1>8 DEF transaction_commit
  <2>2. Cleared(cur_txid) \in [Datastores -> Nat]
    BY DEF Cleared, IInv, Ids
  <2> QED BY <2>1, <2>2, UnlockKeeps
<1>9. ASSUME NEW s \in Sessions, transaction_rollback(s) PROVE IInv'
  BY <1>9, RollbackKeeps
<1>10. ASSUME NEW s \in Sessions, edit_config(s) PROVE IInv'
  <2>1. target \in Datastores
    BY DEF IInv
  <2> QED BY <1>10, <2>1, NewTransactionKeeps DEF edit_config
<1>11. ASSUME NEW s \in Sessions, edit_in_transaction(s) PROVE IInv'
  BY <1>11, EditKeeps
<1>12. ASSUME NEW s \in Sessions, NEW d \in Datastores, validate(s, d) PROVE IInv'
  BY <1>12, NewTransactionKeeps DEF validate
<1>13. ASSUME NEW s \in Sessions, commit(s) PROVE IInv'
  BY <1>13, CommitKeeps
<1>14. ASSUME NEW s \in Sessions, discard_changes(s) PROVE IInv'
  BY <1>14, DiscardKeeps
<1> QED BY <1>1, <1>2, <1>3, <1>4, <1>5, <1>6, <1>7, <1>8, <1>9, <1>10, <1>11,
           <1>12, <1>13, <1>14 DEF Next

LEMMA InvariantHolds == Spec => []IInv
  BY InitIInv, NextIInv, PTL DEF Spec

-----------------------------------------------------------------------------
(* Least and greatest elements *)

Less == {ss \in Nat \X Nat : ss[1] < ss[2]}

LEMMA LessIsWellFounded == IsWellFoundedOn(Less, Nat)
<1>1. OpToRel(<, Nat) = Less
  <2>1. ASSUME NEW p \in Nat \X Nat
        PROVE  p \in OpToRel(<, Nat) <=> p \in Less
    BY DEF OpToRel, Less
  <2>2. OpToRel(<, Nat) \subseteq Nat \X Nat /\ Less \subseteq Nat \X Nat
    BY DEF OpToRel, Less
  <2> QED BY <2>1, <2>2, Zenon
<1> QED BY <1>1, NatLessThanWellFounded, Zenon

\* A set of natural numbers that is not empty has a least element.
LEMMA LeastExists ==
  ASSUME NEW S \in SUBSET Nat, S # {}
  PROVE  \E x \in S : \A y \in S : x <= y
<1>1. PICK x \in S : \A y \in S : <<y, x>> \notin Less
  BY LessIsWellFounded, WFMin
<1>2. ASSUME NEW y \in S PROVE x <= y
  <2>1. <<y, x>> \notin Less
    BY <1>1, Zenon
  <2>2. ~(y < x)
    BY <2>1, SMT DEF Less
  <2> QED BY <2>2
<1> QED BY <1>2

\* The Max of a set of numbers is its greatest element.
LEMMA MaxIs ==
  ASSUME NEW S \in SUBSET Nat, NEW m \in S, \A y \in S : m >= y
  PROVE  Max(S) = m
<1>1. Max(S) \in S /\ \A y \in S : Max(S) >= y
  BY Zenon DEF Max
<1>2. Max(S) >= m /\ m >= Max(S) /\ m \in Nat /\ Max(S) \in Nat
  BY <1>1, Zenon
<1> QED BY <1>2, SMT

-----------------------------------------------------------------------------
(* Folds over undo records *)

\* A step of either of the two folds of the model.
Advance(committing, w, k) == IF committing THEN commit_edit(w, k) ELSE rollback_edit(w, k)

\* The function that FoldLeft picks: the fold of each set of positions.
IsFold(g, committing, w, list, n) ==
  g = [s \in SUBSET (1..n) |->
         IF s = {} THEN w ELSE Advance(committing, g[s \ {Max(s)}], list[Max(s)])]

LEMMA FoldExists ==
  ASSUME NEW committing, NEW w, NEW list, NEW n \in Nat
  PROVE  \E g : IsFold(g, committing, w, list, n)
<1> DEFINE Step(g, s) == IF s = {} THEN w ELSE Advance(committing, g[s \ {Max(s)}], list[Max(s)])
           G(g, k) == IsFold(g, committing, w, list, k)
           Bad == {k \in 0..n : ~\E g : G(g, k)}
<1>1. SUFFICES ASSUME Bad # {} PROVE FALSE
  <2>1. n \in 0..n
    OBVIOUS
  <2> QED BY <2>1
<1>2. Bad \in SUBSET Nat
  OBVIOUS
<1>3. PICK k \in Bad : \A y \in Bad : k <= y
  BY <1>1, <1>2, LeastExists
<1>4. CASE k = 0
  <2> DEFINE g == [s \in SUBSET (1..0) |-> w]
  <2>1. 1..0 = {}
    OBVIOUS
  <2>2. \A s \in SUBSET (1..0) : s = {}
    BY <2>1
  <2>3. G(g, 0)
    BY <2>2 DEF IsFold
  <2> QED BY <2>3, <1>3, <1>4
<1>5. CASE k # 0
  <2>0. k \in 0..n
    BY <1>3
  <2>1. k \in 1..n /\ k - 1 \in 0..n /\ ~(k <= k - 1)
    BY <2>0, <1>5
  <2>2. k \in 1..n /\ k - 1 \in 0..n /\ k - 1 \notin Bad
    <3> HIDE DEF Bad
    <3> QED BY <2>1, <1>3, Zenon
  <2>3. PICK g0 : G(g0, k - 1)
    BY <2>2
  <2>4. \A s \in SUBSET (1..(k-1)) : g0[s] = Step(g0, s)
    BY <2>3 DEF IsFold
  <2> DEFINE g == [s \in SUBSET (1..k) |->
                     IF k \in s THEN Advance(committing, g0[s \ {k}], list[k]) ELSE g0[s]]
  <2>5. ASSUME NEW s \in SUBSET (1..k) PROVE g[s] = Step(g, s)
    <3>1. CASE k \in s
      <4>1. Max(s) = k
        <5>1. (\A y \in s : k >= y) /\ s \in SUBSET Nat
          BY <2>2
        <5> QED BY <5>1, <3>1, MaxIs
      <4>2. s \ {k} \in SUBSET (1..k) /\ k \notin s \ {k} /\ s # {}
        BY <3>1
      <4>3. g[s \ {k}] = g0[s \ {k}]
        BY <4>2
      <4>4. g[s] = Advance(committing, g0[s \ {k}], list[k])
        BY <3>1
      <4> QED BY <4>1, <4>2, <4>3, <4>4
    <3>2. CASE k \notin s
      <4>1. s \in SUBSET (1..(k-1))
        <5>1. ASSUME NEW i \in s PROVE i \in 1..(k-1)
          <6>1. i \in 1..k /\ i # k
            BY <3>2
          <6> QED BY <6>1, <2>2
        <5> QED BY <5>1
      <4>2. g0[s] = Step(g0, s)
        BY <2>4, <4>1
      <4>3. g[s] = g0[s]
        BY <3>2
      <4>4. CASE s = {}
        BY <4>2, <4>3, <4>4
      <4>5. CASE s # {}
        <5>1. s \ {Max(s)} \in SUBSET (1..k) /\ k \notin s \ {Max(s)}
          BY <3>2
        <5>2. g[s \ {Max(s)}] = g0[s \ {Max(s)}]
          BY <5>1
        <5> QED BY <4>2, <4>3, <4>5, <5>2
      <4> QED BY <4>4, <4>5
    <3> QED BY <3>1, <3>2
  <2>6. G(g, k)
    BY <2>5 DEF IsFold
  <2> QED BY <2>6, <1>3
<1> QED BY <1>4, <1>5

\* It goes through the folds of the first 0, 1, ... elements.
Passes(g, committing, w, list, n) ==
  /\ g[1..0] = w
  /\ \A k \in 1..n : g[1..k] = Advance(committing, g[1..(k-1)], list[k])

LEMMA FoldSteps ==
  ASSUME NEW committing, NEW w, NEW list, NEW n \in Nat,
         NEW g, IsFold(g, committing, w, list, n)
  PROVE  Passes(g, committing, w, list, n)
<1> DEFINE Step(s) == IF s = {} THEN w ELSE Advance(committing, g[s \ {Max(s)}], list[Max(s)])
<1>1. \A s \in SUBSET (1..n) : g[s] = Step(s)
  BY DEF IsFold
<1>2. g[1..0] = w
  <2>1. 1..0 = {} /\ 1..0 \in SUBSET (1..n)
    OBVIOUS
  <2> QED BY <1>1, <2>1
<1>3. ASSUME NEW k \in 1..n PROVE g[1..k] = Advance(committing, g[1..(k-1)], list[k])
  <2>1. k \in 1..k /\ 1..k \in SUBSET (1..n) /\ 1..k \in SUBSET Nat /\ \A y \in 1..k : k >= y
    OBVIOUS
  <2>2. Max(1..k) = k
    BY <2>1, MaxIs
  <2>3. (1..k) \ {k} = 1..(k-1)
    OBVIOUS
  <2> QED BY <1>1, <2>1, <2>2, <2>3
<1> QED BY <1>2, <1>3 DEF Passes

\* The numbers up to n, when they follow from each other.
LEMMA Induction ==
  ASSUME NEW n \in Nat, NEW T, 0 \in T, \A k \in 1..n : k - 1 \in T => k \in T
  PROVE  n \in T
<1> DEFINE Bad == {k \in 0..n : k \notin T}
<1>1. SUFFICES ASSUME Bad # {} PROVE FALSE
  OBVIOUS
<1>2. Bad \in SUBSET Nat
  OBVIOUS
<1>3. PICK k \in Bad : \A y \in Bad : k <= y
  BY <1>1, <1>2, LeastExists
<1>4. k \in 1..n /\ k - 1 \in 0..n /\ ~(k <= k - 1)
  BY <1>3
<1>5. k - 1 \in T
  BY <1>3, <1>4
<1> QED BY <1>3, <1>4, <1>5

\* A pass over n records: what each record leaves.
IsPass(f, committing, w, n) ==
  f[0] = w /\ \A k \in 1..n : f[k] = Advance(committing, f[k-1], k)

LEMMA PassOf ==
  ASSUME NEW committing, NEW w, NEW list, NEW n \in Nat, list = [k \in 1..n |-> k],
         NEW g, IsFold(g, committing, w, list, n)
  PROVE  IsPass([k \in 0..n |-> g[1..k]], committing, w, n)
<1> DEFINE f == [k \in 0..n |-> g[1..k]]
<1>1. Passes(g, committing, w, list, n)
  BY FoldSteps, Zenon
<1>2. 0 \in 0..n /\ \A k \in 1..n : k \in 0..n /\ k - 1 \in 0..n /\ list[k] = k
  OBVIOUS
<1>3. f[0] = w
  BY <1>1, <1>2 DEF Passes
<1>4. ASSUME NEW k \in 1..n PROVE f[k] = Advance(committing, f[k-1], k)
  BY <1>1, <1>2 DEF Passes
<1> QED BY <1>3, <1>4 DEF IsPass

LEMMA CommitPass ==
  ASSUME NEW w, NEW q, Len(q) \in Nat
  PROVE  \E f : IsPass(f, TRUE, w, Len(q)) /\ FoldLeft(commit_edit, w, Each(q)) = f[Len(q)]
<1> DEFINE n == Len(q)
           G(g) == g = [s \in SUBSET (1..n) |->
                          IF s = {} THEN w ELSE commit_edit(g[s \ {Max(s)}], Each(q)[Max(s)])]
<1>1. PICK g : FoldLeft(commit_edit, w, Each(q)) = g[1..n] /\ g = CHOOSE f : G(f)
  <2>1. DOMAIN Each(q) = 1..n
    BY DEF Each
  <2> QED BY <2>1 DEF FoldLeft, MapThenFoldSet
<1>2. \A f : G(f) <=> IsFold(f, TRUE, w, Each(q), n)
  BY DEF IsFold, Advance
<1>3. IsFold(g, TRUE, w, Each(q), n)
  BY <1>1, <1>2, FoldExists
<1>4. IsPass([k \in 0..n |-> g[1..k]], TRUE, w, n)
  BY <1>3, PassOf DEF Each
<1>5. [k \in 0..n |-> g[1..k]][n] = g[1..n]
  OBVIOUS
<1> QED BY <1>1, <1>4, <1>5

LEMMA RollbackPass ==
  ASSUME NEW w, NEW q, Len(q) \in Nat
  PROVE  \E f : IsPass(f, FALSE, w, Len(q)) /\ FoldLeft(rollback_edit, w, Each(q)) = f[Len(q)]
<1> DEFINE n == Len(q)
           G(g) == g = [s \in SUBSET (1..n) |->
                          IF s = {} THEN w ELSE rollback_edit(g[s \ {Max(s)}], Each(q)[Max(s)])]
<1>1. PICK g : FoldLeft(rollback_edit, w, Each(q)) = g[1..n] /\ g = CHOOSE f : G(f)
  <2>1. DOMAIN Each(q) = 1..n
    BY DEF Each
  <2> QED BY <2>1 DEF FoldLeft, MapThenFoldSet
<1>2. \A f : G(f) <=> IsFold(f, FALSE, w, Each(q), n)
  BY DEF IsFold, Advance
<1>3. IsFold(g, FALSE, w, Each(q), n)
  BY <1>1, <1>2, FoldExists
<1>4. IsPass([k \in 0..n |-> g[1..k]], FALSE, w, n)
  BY <1>3, PassOf DEF Each
<1>5. [k \in 0..n |-> g[1..k]][n] = g[1..n]
  OBVIOUS
<1> QED BY <1>1, <1>4, <1>5

-----------------------------------------------------------------------------
(* Undo records and trees in progress *)

Lists(n) == [1..n -> UndoRecords]

\* w has n records, each of its type, and so has its tree.
IsWork(w, n) ==
  /\ w = [tree |-> w.tree, marked |-> w.marked, undoQ |-> w.undoQ,
          stale |-> w.stale, down |-> w.down]
  /\ w.tree \in Trees /\ w.marked \subseteq Nodes /\ w.undoQ \in Lists(n)

LEMMA ListsAre ==
  ASSUME NEW q
  PROVE  (q \in Seq(UndoRecords)) = (Len(q) \in Nat /\ q \in Lists(Len(q)))
  BY DEF Lists

\* Records of two lists that differ in how they point to their nodes.
LEMMA MovedTypes ==
  ASSUME NEW n \in Nat, NEW q \in Lists(n), NEW m, NEW place \in Places
  PROVE  Moved(q, m, place) \in Lists(n)
<1>1. ASSUME NEW k \in 1..n PROVE Moved(q, m, place)[k] \in UndoRecords
  <2>1. q[k] \in UndoRecords /\ k \in DOMAIN q
    BY DEF Lists
  <2>2. CASE q[k].node # m
    BY <2>1, <2>2 DEF Moved
  <2>3. CASE q[k].node = m
    <3>1. Moved(q, m, place)[k] =
            [q[k] EXCEPT !.newnode = IF @ = "tree" THEN place ELSE @,
                         !.curnode = IF @ = "tree" THEN place ELSE @]
      BY <2>1, <2>3 DEF Moved
    <3> QED BY <2>1, <3>1 DEF UndoRecords
  <2> QED BY <2>2, <2>3
<1>2. DOMAIN Moved(q, m, place) = 1..n
  BY DEF Moved, Lists
<1>3. Moved(q, m, place) = [k \in DOMAIN Moved(q, m, place) |-> Moved(q, m, place)[k]]
  BY DEF Moved
<1> QED BY <1>1, <1>2, <1>3 DEF Lists

LEMMA LeftTypes ==
  ASSUME NEW q \in Seq(UndoRecords)
  PROVE  Left(q) \in Seq(UndoRecords) /\ Len(Left(q)) = Len(q)
<1>1. ASSUME NEW k \in 1..Len(q)
      PROVE  [q[k] EXCEPT !.newnode = IF @ = "pdu" THEN "freed" ELSE @] \in UndoRecords
  <2>1. q[k] \in UndoRecords
    OBVIOUS
  <2> QED BY <2>1 DEF UndoRecords, Places
<1>2. DOMAIN q = 1..Len(q) /\ Len(q) \in Nat
  OBVIOUS
<1>3. Left(q) \in [1..Len(q) -> UndoRecords]
  BY <1>1, <1>2 DEF Left
<1> QED BY <1>2, <1>3

LEMMA FreedTypes ==
  ASSUME NEW q \in Seq(UndoRecords)
  PROVE  Freed(q) \in Seq(UndoRecords) /\ Len(Freed(q)) = Len(q)
<1>1. ASSUME NEW k \in 1..Len(q)
      PROVE  [q[k] EXCEPT !.newnode = IF @ = "tree" THEN "freed" ELSE @,
                          !.curnode = IF @ = "tree" THEN "freed" ELSE @] \in UndoRecords
  <2>1. q[k] \in UndoRecords
    OBVIOUS
  <2> QED BY <2>1 DEF UndoRecords, Places
<1>2. DOMAIN q = 1..Len(q) /\ Len(q) \in Nat
  OBVIOUS
<1>3. Freed(q) \in [1..Len(q) -> UndoRecords]
  BY <1>1, <1>2 DEF Freed
<1> QED BY <1>2, <1>3

LEMMA InProgressTypes ==
  ASSUME NEW q \in Seq(UndoRecords), tree \in Trees
  PROVE  IsWork(InProgress(q), Len(q))
  BY ListsAre DEF IsWork, InProgress

\* One record is given new contents.
LEMMA RecordChanged ==
  ASSUME NEW n \in Nat, NEW q \in Lists(n), NEW k \in 1..n, NEW r \in UndoRecords
  PROVE  [q EXCEPT ![k] = r] \in Lists(n)
  BY DEF Lists

LEMMA CommitEditTypes ==
  ASSUME NEW n \in Nat, NEW w, IsWork(w, n), NEW k \in 1..n
  PROVE  IsWork(commit_edit(w, k), n)
<1> DEFINE r == w.undoQ[k]
           deleted == r.free_curnode /\ r.curnode = "tree" /\ r.node \in w.marked
           q == IF deleted THEN Moved(w.undoQ, r.node, "freed") ELSE w.undoQ
           v == commit_edit(w, k)
<1>1. r \in UndoRecords /\ r.node \in Nodes
  BY DEF IsWork, Lists, UndoRecords
<1>2. q \in Lists(n)
  BY MovedTypes DEF IsWork, Places
<1>3. q[k] \in UndoRecords
  BY <1>2 DEF Lists
<1>4. [q[k] EXCEPT !.newnode_marker = FALSE, !.curnode = IF deleted THEN "none" ELSE @] \in UndoRecords
  BY <1>3 DEF UndoRecords, Places
<1> HIDE DEF q
<1>5. v.undoQ = [q EXCEPT ![k] = [q[k] EXCEPT !.newnode_marker = FALSE,
                                              !.curnode = IF deleted THEN "none" ELSE @]]
  BY <1>2 DEF commit_edit, IsWork, Lists, q
<1>6. v.undoQ \in Lists(n)
  BY <1>2, <1>4, <1>5, RecordChanged
<1>7. v.tree = IF deleted THEN [w.tree EXCEPT ![r.node] = None] ELSE w.tree
  BY DEF commit_edit, IsWork, Trees
<1>8. v.tree \in Trees
  BY <1>1, <1>7 DEF IsWork, Trees
<1>9. v.marked \subseteq Nodes
  BY DEF commit_edit, IsWork
<1>10. v = [tree |-> v.tree, marked |-> v.marked, undoQ |-> v.undoQ,
            stale |-> v.stale, down |-> v.down]
  <2>1. \E t, m, c, x : v = [w EXCEPT !.stale = x, !.tree = t, !.marked = m, !.undoQ = c]
    BY DEF commit_edit
  <2> HIDE DEF v
  <2> QED BY <2>1 DEF IsWork
<1> QED BY <1>6, <1>8, <1>9, <1>10 DEF IsWork

\* What a step of a pass does to record k stays with the node of the record.
Local(w, v, k, n) ==
  LET m == w.undoQ[k].node IN
  /\ v.marked \subseteq w.marked
  /\ \A j \in 1..n : v.undoQ[j].node = w.undoQ[j].node /\ v.undoQ[j].op = w.undoQ[j].op
  /\ \A j \in 1..n : w.undoQ[j].node # m => v.undoQ[j] = w.undoQ[j]
  /\ \A i \in Nodes : i # m => v.tree[i] = w.tree[i]

LEMMA LocalTwice ==
  ASSUME NEW n \in Nat, NEW k \in 1..n, NEW w, NEW v, NEW u, Local(w, v, k, n), Local(v, u, k, n)
  PROVE  Local(w, u, k, n)
  BY DEF Local

LEMMA MovedElsewhere ==
  ASSUME NEW n \in Nat, NEW q \in Lists(n), NEW m, NEW place, NEW k \in 1..n
  PROVE  /\ Moved(q, m, place)[k].node = q[k].node /\ Moved(q, m, place)[k].op = q[k].op
         /\ Moved(q, m, place)[k].curnode_clone = q[k].curnode_clone
         /\ Moved(q, m, place)[k].newnode_marker = q[k].newnode_marker
         /\ q[k].node # m => Moved(q, m, place)[k] = q[k]
         /\ q[k].node = m =>
              /\ Moved(q, m, place)[k].curnode =
                   IF q[k].curnode = "tree" THEN place ELSE q[k].curnode
              /\ Moved(q, m, place)[k].newnode =
                   IF q[k].newnode = "tree" THEN place ELSE q[k].newnode
<1>1. q[k] \in UndoRecords /\ k \in DOMAIN q
  BY DEF Lists
<1> QED BY <1>1 DEF Moved, UndoRecords

LEMMA CommitEditLocal ==
  ASSUME NEW n \in Nat, NEW w, IsWork(w, n), NEW k \in 1..n
  PROVE  LET r == w.undoQ[k]
             v == commit_edit(w, k)
         IN /\ Local(w, v, k, n)
            /\ ~(r.free_curnode /\ r.curnode = "tree" /\ r.node \in w.marked) =>
                 /\ v.tree = w.tree
                 /\ v.undoQ[k].curnode = r.curnode /\ v.undoQ[k].newnode = r.newnode
                 /\ v.undoQ[k].curnode_clone = r.curnode_clone
<1> DEFINE r == w.undoQ[k]
           deleted == r.free_curnode /\ r.curnode = "tree" /\ r.node \in w.marked
           q == IF deleted THEN Moved(w.undoQ, r.node, "freed") ELSE w.undoQ
           v == commit_edit(w, k)
<1>1. r \in UndoRecords /\ r.node \in Nodes /\ w.undoQ \in Lists(n)
  BY DEF IsWork, Lists, UndoRecords
<1>2. q \in Lists(n)
  BY MovedTypes DEF IsWork, Places
<1>3. \A j \in 1..n : /\ q[j].node = w.undoQ[j].node /\ q[j].op = w.undoQ[j].op
                      /\ w.undoQ[j].node # r.node => q[j] = w.undoQ[j]
  BY <1>1, MovedElsewhere
<1>4. ~deleted => q = w.undoQ
  OBVIOUS
<1> DEFINE c == [q[k] EXCEPT !.newnode_marker = FALSE, !.curnode = IF deleted THEN "none" ELSE @]
<1>5. v.undoQ = [q EXCEPT ![k] = c]
  <2> HIDE DEF q
  <2> QED BY <1>2 DEF commit_edit, IsWork, Lists, q
<1>6. v.tree = IF deleted THEN [w.tree EXCEPT ![r.node] = None] ELSE w.tree
  BY DEF commit_edit, IsWork, Trees
<1>7. v.marked \subseteq w.marked
  BY DEF commit_edit, IsWork
<1>8. /\ c.node = q[k].node /\ c.op = q[k].op
      /\ ~deleted => /\ c.curnode = q[k].curnode /\ c.newnode = q[k].newnode
                     /\ c.curnode_clone = q[k].curnode_clone
  <2>1. q[k] \in UndoRecords
    BY <1>2 DEF Lists
  <2> HIDE DEF q
  <2> QED BY <2>1 DEF UndoRecords
<1> HIDE DEF q, c
<1>9. v.undoQ[k] = c /\ \A j \in 1..n : j # k => v.undoQ[j] = q[j]
  BY <1>2, <1>5 DEF Lists
<1>10. Local(w, v, k, n)
  <2>1. \A j \in 1..n : v.undoQ[j].node = w.undoQ[j].node /\ v.undoQ[j].op = w.undoQ[j].op
    BY <1>3, <1>8, <1>9
  <2>2. \A j \in 1..n : w.undoQ[j].node # r.node => v.undoQ[j] = w.undoQ[j]
    BY <1>3, <1>9
  <2>3. \A i \in Nodes : i # r.node => v.tree[i] = w.tree[i]
    BY <1>1, <1>6 DEF IsWork, Trees
  <2> QED BY <1>7, <2>1, <2>2, <2>3 DEF Local
<1> QED BY <1>4, <1>6, <1>8, <1>9, <1>10

LEMMA ReverseEditTypes ==
  ASSUME NEW n \in Nat, NEW w, IsWork(w, n), NEW k \in 1..n
  PROVE  LET v == reverse_edit(w, k) IN
         /\ IsWork(v, n) /\ Local(w, v, k, n)
         /\ v.tree = w.tree /\ v.marked = w.marked /\ v.undoQ = w.undoQ
<1> DEFINE v == reverse_edit(w, k)
<1>1. v.tree = w.tree /\ v.marked = w.marked /\ v.undoQ = w.undoQ
  BY DEF reverse_edit, IsWork
<1>2. v = [tree |-> v.tree, marked |-> v.marked, undoQ |-> v.undoQ,
           stale |-> v.stale, down |-> v.down]
  <2>1. \E x, y : v = [w EXCEPT !.stale = x, !.down = y]
    BY DEF reverse_edit
  <2> HIDE DEF v
  <2> QED BY <2>1 DEF IsWork
<1> QED BY <1>1, <1>2 DEF IsWork, Local

\* A work whose tree, marks and records change stays one.
LEMMA WorkChanged ==
  ASSUME NEW n \in Nat, NEW w, IsWork(w, n), NEW v,
         \E x, y, t, m, c : v = [w EXCEPT !.stale = x, !.down = y, !.tree = t,
                                          !.marked = m, !.undoQ = c],
         v.tree \in Trees, v.marked \subseteq Nodes, v.undoQ \in Lists(n)
  PROVE  IsWork(v, n)
<1>1. v = [tree |-> v.tree, marked |-> v.marked, undoQ |-> v.undoQ,
           stale |-> v.stale, down |-> v.down]
  BY DEF IsWork
<1> QED BY <1>1 DEF IsWork

LEMMA RestoreCurnodeTypes ==
  ASSUME NEW n \in Nat, NEW w, IsWork(w, n), NEW k \in 1..n
  PROVE  LET r == w.undoQ[k]
             v == restore_curnode(w, k)
         IN /\ IsWork(v, n) /\ Local(w, v, k, n)
            /\ r.curnode = "none" => v = w
            /\ r.curnode = "tree" /\ r.node \notin w.marked /\ r.curnode_clone # None =>
                 v.tree[r.node] = r.curnode_clone /\ v.undoQ[k].curnode = "out"
            /\ r.curnode # "tree" => v.undoQ[k].curnode = r.curnode
<1> DEFINE r == w.undoQ[k]
           v == restore_curnode(w, k)
<1>1. /\ r \in UndoRecords /\ r.node \in Nodes /\ w.undoQ \in Lists(n)
      /\ r.curnode_clone \in Values \cup {None}
  BY DEF IsWork, Lists, UndoRecords
<1>2. CASE r.curnode = "none"
  <2>1. v = w
    BY <1>2 DEF restore_curnode
  <2> QED BY <1>2, <2>1 DEF Local
<1>3. CASE r.curnode = "freed"
  <2>1. v = [w EXCEPT !.stale = TRUE]
    BY <1>3 DEF restore_curnode
  <2>2. v.tree = w.tree /\ v.marked = w.marked /\ v.undoQ = w.undoQ
    BY <2>1 DEF IsWork
  <2>3. v = [w EXCEPT !.stale = TRUE, !.down = w.down, !.tree = w.tree,
                      !.marked = w.marked, !.undoQ = w.undoQ]
    BY <2>1 DEF IsWork
  <2>4. IsWork(v, n)
    BY <2>2, <2>3, WorkChanged DEF IsWork
  <2> QED BY <1>3, <2>2, <2>4 DEF Local
<1>4. CASE r.curnode \in {"tree", "out"} /\ r.node \in w.marked
  <2> DEFINE c == [r EXCEPT !.free_curnode = FALSE]
  <2>1. v = [w EXCEPT !.marked = @ \ {r.node}, !.undoQ = [@ EXCEPT ![k] = c]]
    BY <1>1, <1>4 DEF restore_curnode
  <2>2. c \in UndoRecords /\ c.node = r.node /\ c.op = r.op /\ c.curnode = r.curnode
    BY <1>1 DEF UndoRecords
  <2> HIDE DEF c
  <2>3. v.tree = w.tree /\ v.marked = w.marked \ {r.node} /\ v.undoQ = [w.undoQ EXCEPT ![k] = c]
    BY <2>1 DEF IsWork
  <2>4. v.undoQ \in Lists(n)
    BY <1>1, <2>2, <2>3, RecordChanged
  <2>5. v = [w EXCEPT !.stale = w.stale, !.down = w.down, !.tree = w.tree,
                      !.marked = w.marked \ {r.node}, !.undoQ = [w.undoQ EXCEPT ![k] = c]]
    BY <2>1 DEF IsWork
  <2>6. IsWork(v, n)
    BY <2>3, <2>4, <2>5, WorkChanged DEF IsWork
  <2>7. v.undoQ[k] = c /\ \A j \in 1..n : j # k => v.undoQ[j] = w.undoQ[j]
    BY <1>1, <2>3 DEF Lists
  <2>8. Local(w, v, k, n)
    BY <2>2, <2>3, <2>7 DEF Local
  <2> QED BY <1>4, <2>2, <2>6, <2>7, <2>8
<1>5. CASE r.curnode = "tree" /\ r.node \notin w.marked /\ r.curnode_clone # None
  <2> DEFINE q == Moved(w.undoQ, r.node, "out")
             c == [q[k] EXCEPT !.curnode_clone = None, !.free_curnode = TRUE]
  <2>1. q \in Lists(n)
    BY <1>1, MovedTypes DEF Places
  <2>2. \A j \in 1..n : /\ q[j].node = w.undoQ[j].node /\ q[j].op = w.undoQ[j].op
                        /\ w.undoQ[j].node # r.node => q[j] = w.undoQ[j]
    BY <1>1, MovedElsewhere
  <2>3. q[k].curnode = "out"
    BY <1>1, <1>5, MovedElsewhere
  <2>4. q[k] \in UndoRecords
    BY <2>1 DEF Lists
  <2> HIDE DEF q
  <2>5. v = [w EXCEPT !.tree = [@ EXCEPT ![r.node] = r.curnode_clone], !.undoQ = [q EXCEPT ![k] = c]]
    BY <1>1, <1>5, <2>1 DEF restore_curnode, Lists, q
  <2>6. c \in UndoRecords /\ c.node = q[k].node /\ c.op = q[k].op /\ c.curnode = "out"
    BY <2>3, <2>4 DEF UndoRecords
  <2> HIDE DEF c
  <2>7. v.tree = [w.tree EXCEPT ![r.node] = r.curnode_clone] /\ v.marked = w.marked
        /\ v.undoQ = [q EXCEPT ![k] = c]
    BY <2>5 DEF IsWork
  <2>8. v.undoQ \in Lists(n)
    BY <2>1, <2>6, <2>7, RecordChanged
  <2>9. v.tree \in Trees /\ v.tree[r.node] = r.curnode_clone
        /\ \A i \in Nodes : i # r.node => v.tree[i] = w.tree[i]
    BY <1>1, <2>7 DEF IsWork, Trees
  <2>10. v = [w EXCEPT !.stale = w.stale, !.down = w.down,
                       !.tree = [w.tree EXCEPT ![r.node] = r.curnode_clone],
                       !.marked = w.marked, !.undoQ = [q EXCEPT ![k] = c]]
    BY <2>5 DEF IsWork
  <2>11. IsWork(v, n)
    BY <2>7, <2>8, <2>9, <2>10, WorkChanged DEF IsWork
  <2>12. v.undoQ[k] = c /\ \A j \in 1..n : j # k => v.undoQ[j] = q[j]
    BY <2>1, <2>7 DEF Lists
  <2>13. Local(w, v, k, n)
    BY <2>2, <2>6, <2>7, <2>9, <2>12 DEF Local
  <2> QED BY <1>5, <2>6, <2>9, <2>11, <2>12, <2>13
<1>6. CASE r.curnode = "out" /\ r.node \notin w.marked /\ r.curnode_clone # None
  <2>1. v = [w EXCEPT !.down = TRUE]
    BY <1>6 DEF restore_curnode
  <2>2. v.tree = w.tree /\ v.marked = w.marked /\ v.undoQ = w.undoQ
    BY <2>1 DEF IsWork
  <2>3. v = [w EXCEPT !.stale = w.stale, !.down = TRUE, !.tree = w.tree,
                      !.marked = w.marked, !.undoQ = w.undoQ]
    BY <2>1 DEF IsWork
  <2>4. IsWork(v, n)
    BY <2>2, <2>3, WorkChanged DEF IsWork
  <2> QED BY <1>6, <2>2, <2>4 DEF Local
<1>7. CASE /\ r.curnode \notin {"none", "freed"}
           /\ ~(r.curnode \in {"tree", "out"} /\ r.node \in w.marked)
           /\ ~(r.curnode \in {"tree", "out"} /\ r.node \notin w.marked /\ r.curnode_clone # None)
  <2>1. v = w
    BY <1>7 DEF restore_curnode
  <2> QED BY <1>7, <2>1 DEF Local
<1> HIDE DEF v, r
<1>8. \/ r.curnode = "none" \/ r.curnode = "freed"
      \/ r.curnode \in {"tree", "out"} /\ r.node \in w.marked
      \/ r.curnode = "tree" /\ r.node \notin w.marked /\ r.curnode_clone # None
      \/ r.curnode = "out" /\ r.node \notin w.marked /\ r.curnode_clone # None
      \/ /\ r.curnode \notin {"none", "freed"}
         /\ ~(r.curnode \in {"tree", "out"} /\ r.node \in w.marked)
         /\ ~(r.curnode \in {"tree", "out"} /\ r.node \notin w.marked /\ r.curnode_clone # None)
  OBVIOUS
<1> QED BY <1>2, <1>3, <1>4, <1>5, <1>6, <1>7, <1>8 DEF v, r

LEMMA RemoveNewnodeTypes ==
  ASSUME NEW n \in Nat, NEW w, IsWork(w, n), NEW k \in 1..n
  PROVE  LET r == w.undoQ[k]
             v == remove_newnode(w, k)
         IN /\ IsWork(v, n) /\ Local(w, v, k, n)
            /\ r.newnode # "tree" \/ r.curnode # "none" => v = w
            /\ r.op = "create" /\ r.newnode = "tree" /\ r.curnode = "none" =>
                 v.tree[r.node] = None
            /\ r.curnode # "tree" => v.undoQ[k].curnode = r.curnode
<1> DEFINE r == w.undoQ[k]
           v == remove_newnode(w, k)
<1>1. r \in UndoRecords /\ r.node \in Nodes /\ w.undoQ \in Lists(n)
  BY DEF IsWork, Lists, UndoRecords
<1>2. CASE r.newnode # "tree" \/ r.curnode # "none" \/ (r.op = "merge" /\ ~r.newnode_marker)
  <2>1. v = w
    BY <1>2 DEF remove_newnode
  <2>2. r.op = "create" => r.op # "merge"
    OBVIOUS
  <2> QED BY <1>2, <2>1, <2>2 DEF Local
<1>3. CASE ~(r.newnode # "tree" \/ r.curnode # "none" \/ (r.op = "merge" /\ ~r.newnode_marker))
  <2> DEFINE q == Moved(w.undoQ, r.node, "out")
             c == [q[k] EXCEPT !.newnode = IF r.newnode_marker THEN "pdu" ELSE "out",
                               !.newnode_marker = FALSE]
  <2>1. q \in Lists(n)
    BY <1>1, MovedTypes DEF Places
  <2>2. \A j \in 1..n : /\ q[j].node = w.undoQ[j].node /\ q[j].op = w.undoQ[j].op
                        /\ w.undoQ[j].node # r.node => q[j] = w.undoQ[j]
    BY <1>1, MovedElsewhere
  <2>3. q[k].curnode = r.curnode
    BY <1>1, <1>3, MovedElsewhere
  <2>4. q[k] \in UndoRecords
    BY <2>1 DEF Lists
  <2> HIDE DEF q
  <2>5. v = [w EXCEPT !.tree = [@ EXCEPT ![r.node] = None], !.undoQ = [q EXCEPT ![k] = c]]
    BY <1>1, <1>3, <2>1 DEF remove_newnode, Lists, q
  <2>6. c \in UndoRecords /\ c.node = q[k].node /\ c.op = q[k].op /\ c.curnode = q[k].curnode
    BY <2>4 DEF UndoRecords, Places
  <2> HIDE DEF c
  <2>7. v.tree = [w.tree EXCEPT ![r.node] = None] /\ v.marked = w.marked
        /\ v.undoQ = [q EXCEPT ![k] = c]
    BY <2>5 DEF IsWork
  <2>8. v.undoQ \in Lists(n)
    BY <2>1, <2>6, <2>7, RecordChanged
  <2>9. v.tree \in Trees /\ v.tree[r.node] = None
        /\ \A i \in Nodes : i # r.node => v.tree[i] = w.tree[i]
    BY <1>1, <2>7 DEF IsWork, Trees
  <2>10. v = [w EXCEPT !.stale = w.stale, !.down = w.down,
                       !.tree = [w.tree EXCEPT ![r.node] = None],
                       !.marked = w.marked, !.undoQ = [q EXCEPT ![k] = c]]
    BY <2>5 DEF IsWork
  <2>11. IsWork(v, n)
    BY <2>7, <2>8, <2>9, <2>10, WorkChanged DEF IsWork
  <2>12. v.undoQ[k] = c /\ \A j \in 1..n : j # k => v.undoQ[j] = q[j]
    BY <2>1, <2>7 DEF Lists
  <2>13. Local(w, v, k, n)
    BY <2>2, <2>6, <2>7, <2>9, <2>12 DEF Local
  <2> QED BY <1>3, <2>3, <2>6, <2>9, <2>11, <2>12, <2>13
<1> QED BY <1>2, <1>3

-----------------------------------------------------------------------------
(* What the records know of the tree that trans-start found *)

\* Record k is the only one of its node.
Sole(w, k, n) == \A j \in 1..n : w.undoQ[j].node = w.undoQ[k].node => j = k

\* Of a node with one record: a create found no node, and the new one is in
\* the tree until it is removed; the clone of a set is the value found.
Remembers(r, t) ==
  /\ r.op = "create" => /\ base[r.node] = None /\ r.curnode = "none"
                        /\ r.newnode = "tree" \/ t[r.node] = None
  /\ r.op = "merge" /\ r.curnode = "tree" => /\ r.curnode_clone = base[r.node]
                                             /\ r.curnode_clone # None

Traced(w, n) ==
  /\ \A m \in Nodes : (\A k \in 1..n : w.undoQ[k].node # m) => w.tree[m] = base[m]
  /\ \A k \in 1..n : Sole(w, k, n) => Remembers(w.undoQ[k], w.tree)
  /\ \A m \in w.marked : \E k \in 1..n : w.undoQ[k].node = m /\ w.undoQ[k].op = "delete"

\* A step about record k keeps that if it does for record k.
LEMMA LocalKeepsTraced ==
  ASSUME NEW n \in Nat, NEW w, NEW v, NEW k \in 1..n, IsWork(w, n), IsWork(v, n),
         Local(w, v, k, n), Traced(w, n),
         Sole(w, k, n) => Remembers(v.undoQ[k], v.tree)
  PROVE  Traced(v, n)
<1>1. \A j \in 1..n : v.undoQ[j].node = w.undoQ[j].node /\ v.undoQ[j].op = w.undoQ[j].op
  BY DEF Local
<1>2. w.undoQ[k].node \in Nodes /\ \A j \in 1..n : w.undoQ[j].node \in Nodes
  BY DEF IsWork, Lists, UndoRecords
<1>3. ASSUME NEW m \in Nodes, \A j \in 1..n : v.undoQ[j].node # m PROVE v.tree[m] = base[m]
  <2>1. \A j \in 1..n : w.undoQ[j].node # m
    BY <1>1, <1>3
  <2>2. v.tree[m] = w.tree[m]
    BY <2>1 DEF Local
  <2> QED BY <2>1, <2>2 DEF Traced
<1>4. ASSUME NEW j \in 1..n, Sole(v, j, n) PROVE Remembers(v.undoQ[j], v.tree)
  <2>1. Sole(w, j, n)
    BY <1>1, <1>4 DEF Sole
  <2>2. CASE j = k
    BY <2>1, <2>2
  <2>3. CASE j # k
    <3>1. w.undoQ[k].node # w.undoQ[j].node
      BY <2>1, <2>3 DEF Sole
    <3>2. v.undoQ[j] = w.undoQ[j] /\ v.tree[w.undoQ[j].node] = w.tree[w.undoQ[j].node]
      BY <1>2, <3>1 DEF Local
    <3>3. Remembers(w.undoQ[j], w.tree)
      BY <2>1 DEF Traced
    <3> QED BY <3>2, <3>3 DEF Remembers
  <2> QED BY <2>2, <2>3
<1>5. ASSUME NEW m \in v.marked
      PROVE  \E j \in 1..n : v.undoQ[j].node = m /\ v.undoQ[j].op = "delete"
  <2>1. m \in w.marked
    BY DEF Local
  <2>2. PICK j \in 1..n : w.undoQ[j].node = m /\ w.undoQ[j].op = "delete"
    BY <2>1 DEF Traced
  <2> QED BY <1>1, <2>2
<1> QED BY <1>3, <1>4, <1>5 DEF Traced

\* A node that is marked has a delete, so a record that is no delete and the
\* only one of its node is about a node that is not.
LEMMA SoleNotMarked ==
  ASSUME NEW n \in Nat, NEW w, NEW k \in 1..n, Traced(w, n), Sole(w, k, n),
         w.undoQ[k].op # "delete"
  PROVE  w.undoQ[k].node \notin w.marked
  BY DEF Traced, Sole

LEMMA CommitEditTraced ==
  ASSUME NEW n \in Nat, NEW w, NEW k \in 1..n, IsWork(w, n), Traced(w, n)
  PROVE  Traced(commit_edit(w, k), n)
<1> DEFINE r == w.undoQ[k]
           v == commit_edit(w, k)
<1>1. IsWork(v, n) /\ Local(w, v, k, n)
  BY CommitEditTypes, CommitEditLocal
<1>2. ASSUME Sole(w, k, n) PROVE Remembers(v.undoQ[k], v.tree)
  <2>1. Remembers(r, w.tree)
    BY <1>2 DEF Traced
  <2>2. v.undoQ[k].op = r.op /\ v.undoQ[k].node = r.node
    BY <1>1 DEF Local
  <2>3. CASE r.op = "create" \/ r.op = "merge"
    <3>1. ~(r.free_curnode /\ r.curnode = "tree" /\ r.node \in w.marked)
      BY <1>2, <2>3, SoleNotMarked
    <3>2. /\ v.tree = w.tree
          /\ v.undoQ[k].curnode = r.curnode /\ v.undoQ[k].newnode = r.newnode
          /\ v.undoQ[k].curnode_clone = r.curnode_clone
      BY <3>1, CommitEditLocal
    <3> QED BY <2>1, <2>2, <3>2 DEF Remembers
  <2>4. CASE ~(r.op = "create" \/ r.op = "merge")
    BY <2>2, <2>4 DEF Remembers
  <2> QED BY <2>3, <2>4
<1> QED BY <1>1, <1>2, LocalKeepsTraced

\* The record is one that attempt_rollback can undo.
Reversible(r) == r.op = "create" \/ (r.op = "merge" /\ r.curnode = "tree")

LEMMA RollbackEditTypes ==
  ASSUME NEW n \in Nat, NEW w, NEW k \in 1..n, IsWork(w, n)
  PROVE  IsWork(rollback_edit(w, k), n) /\ Local(w, rollback_edit(w, k), k, n)
<1> DEFINE x == reverse_edit(w, k)
           u == restore_curnode(x, k)
           v == remove_newnode(u, k)
<1>1. IsWork(x, n) /\ Local(w, x, k, n)
  BY ReverseEditTypes
<1> HIDE DEF x
<1>2. IsWork(u, n) /\ Local(x, u, k, n)
  BY <1>1, RestoreCurnodeTypes
<1> HIDE DEF u
<1>3. IsWork(v, n) /\ Local(u, v, k, n)
  BY <1>2, RemoveNewnodeTypes
<1>4. Local(w, u, k, n)
  BY <1>1, <1>2, LocalTwice
<1>5. Local(w, v, k, n)
  BY <1>3, <1>4, LocalTwice
<1> QED BY <1>3, <1>5 DEF rollback_edit, u, x

LEMMA RollbackEditUndoes ==
  ASSUME NEW n \in Nat, NEW w, NEW k \in 1..n, IsWork(w, n), Traced(w, n), Sole(w, k, n)
  PROVE  LET r == w.undoQ[k]
             v == rollback_edit(w, k)
         IN /\ Remembers(v.undoQ[k], v.tree)
            /\ Reversible(r) => v.tree[r.node] = base[r.node]
<1> DEFINE r == w.undoQ[k]
           x == reverse_edit(w, k)
           u == restore_curnode(x, k)
           v == remove_newnode(u, k)
<1>1. IsWork(x, n) /\ x.tree = w.tree /\ x.marked = w.marked /\ x.undoQ = w.undoQ
  BY ReverseEditTypes
<1> HIDE DEF x
<1>2. /\ IsWork(u, n) /\ Local(x, u, k, n)
      /\ r.curnode = "none" => u = x
      /\ r.curnode = "tree" /\ r.node \notin w.marked /\ r.curnode_clone # None =>
           u.tree[r.node] = r.curnode_clone /\ u.undoQ[k].curnode = "out"
      /\ r.curnode # "tree" => u.undoQ[k].curnode = r.curnode
  BY <1>1, RestoreCurnodeTypes
<1> HIDE DEF u
<1>3. /\ IsWork(v, n) /\ Local(u, v, k, n)
      /\ u.undoQ[k].newnode # "tree" \/ u.undoQ[k].curnode # "none" => v = u
      /\ u.undoQ[k].op = "create" /\ u.undoQ[k].newnode = "tree" /\ u.undoQ[k].curnode = "none" =>
           v.tree[u.undoQ[k].node] = None
      /\ u.undoQ[k].curnode # "tree" => v.undoQ[k].curnode = u.undoQ[k].curnode
  BY <1>2, RemoveNewnodeTypes
<1> HIDE DEF v
<1>4. /\ u.undoQ[k].op = r.op /\ u.undoQ[k].node = r.node
      /\ v.undoQ[k].op = r.op /\ v.undoQ[k].node = r.node
  BY <1>1, <1>2, <1>3 DEF Local
<1>5. Remembers(r, w.tree) /\ (r.op # "delete" => r.node \notin w.marked)
  BY SoleNotMarked DEF Traced
<1>6. v = rollback_edit(w, k)
  BY DEF v, u, x, rollback_edit
<1>7. CASE r.op = "create"
  <2>1. base[r.node] = None /\ r.curnode = "none" /\ (r.newnode = "tree" \/ w.tree[r.node] = None)
    BY <1>5, <1>7 DEF Remembers
  <2>2. u = x
    BY <1>2, <2>1
  <2>3. v.tree[r.node] = None /\ v.undoQ[k].curnode = "none"
    BY <1>1, <1>3, <1>4, <1>7, <2>1, <2>2
  <2> QED BY <1>4, <1>6, <1>7, <2>1, <2>3 DEF Remembers
<1>8. CASE r.op = "merge" /\ r.curnode = "tree"
  <2>1. r.curnode_clone = base[r.node] /\ r.curnode_clone # None /\ r.node \notin w.marked
    BY <1>5, <1>8 DEF Remembers
  <2>2. u.tree[r.node] = base[r.node] /\ u.undoQ[k].curnode = "out"
    BY <1>2, <1>8, <2>1
  <2>3. v = u
    BY <1>3, <2>2
  <2> QED BY <1>4, <1>6, <1>8, <2>2, <2>3 DEF Remembers
<1>9. CASE r.op # "create" /\ ~(r.op = "merge" /\ r.curnode = "tree")
  <2>1. r.op = "merge" => v.undoQ[k].curnode # "tree"
    BY <1>2, <1>3, <1>9
  <2> QED BY <1>4, <1>6, <1>9, <2>1 DEF Remembers, Reversible
<1> QED BY <1>7, <1>8, <1>9

LEMMA RollbackEditTraced ==
  ASSUME NEW n \in Nat, NEW w, NEW k \in 1..n, IsWork(w, n), Traced(w, n)
  PROVE  Traced(rollback_edit(w, k), n)
  BY RollbackEditTypes, RollbackEditUndoes, LocalKeepsTraced

-----------------------------------------------------------------------------
(* Passes over all records *)

LEMMA PassKeeps ==
  ASSUME NEW f, NEW committing \in BOOLEAN, NEW w, NEW n \in Nat, IsPass(f, committing, w, n),
         IsWork(w, n)
  PROVE  IsWork(f[n], n) /\ (Traced(w, n) => Traced(f[n], n))
<1> DEFINE T == {k \in 0..n : IsWork(f[k], n) /\ (Traced(w, n) => Traced(f[k], n))}
<1>1. 0 \in T
  BY DEF IsPass
<1>2. ASSUME NEW k \in 1..n, k - 1 \in T PROVE k \in T
  <2>1. f[k] = Advance(committing, f[k-1], k) /\ IsWork(f[k-1], n)
        /\ (Traced(w, n) => Traced(f[k-1], n)) /\ k \in 0..n
    BY <1>2 DEF IsPass
  <2>2. IsWork(f[k], n)
    BY <2>1, CommitEditTypes, RollbackEditTypes DEF Advance
  <2>3. Traced(w, n) => Traced(f[k], n)
    BY <2>1, CommitEditTraced, RollbackEditTraced DEF Advance
  <2> QED BY <2>1, <2>2, <2>3
<1>3. n \in T
  <2> HIDE DEF T
  <2> QED BY <1>1, <1>2, Induction
<1> QED BY <1>3

LEMMA CallbacksKeep ==
  ASSUME NEW n \in Nat, NEW w, IsWork(w, n), Len(w.undoQ) = n, NEW refused \in 0..n
  PROVE  LET v == callbacks(w, refused) IN
         IsWork(v, n) /\ Len(v.undoQ) = n /\ (Traced(w, n) => Traced(v, n))
<1> DEFINE v == callbacks(w, refused)
           last == IF refused = 0 THEN Len(w.undoQ) ELSE refused
           c(k) == IF k > last THEN w.undoQ[k]
                   ELSE [w.undoQ[k] EXCEPT !.commit_res = IF k = refused THEN "failed" ELSE "ok"]
<1>0. w.undoQ \in Lists(n) /\ DOMAIN w.undoQ = 1..n
  BY DEF IsWork, Lists
<1>1. CASE target # "running"
  BY <1>1 DEF callbacks
<1>2. CASE target = "running"
  <2>1. /\ v.tree = w.tree /\ v.marked = w.marked
        /\ v.undoQ = [k \in 1..n |-> c(k)]
    BY <1>0, <1>2 DEF callbacks, IsWork
  <2>2. ASSUME NEW k \in 1..n
        PROVE  /\ c(k) \in UndoRecords /\ c(k).node = w.undoQ[k].node /\ c(k).op = w.undoQ[k].op
               /\ c(k).curnode = w.undoQ[k].curnode /\ c(k).newnode = w.undoQ[k].newnode
               /\ c(k).curnode_clone = w.undoQ[k].curnode_clone
    <3>1. w.undoQ[k] \in UndoRecords
      BY <1>0 DEF Lists
    <3> QED BY <3>1 DEF UndoRecords
  <2> HIDE DEF c
  <2>3. v.undoQ \in Lists(n) /\ \A k \in 1..n : v.undoQ[k] = c(k)
    BY <2>1, <2>2 DEF Lists
  <2>4. Len(v.undoQ) = n
    BY <2>1
  <2>5. \E x, y, t, m, q : v = [w EXCEPT !.stale = x, !.down = y, !.tree = t,
                                         !.marked = m, !.undoQ = q]
    <3>1. \E x, q : v = [w EXCEPT !.stale = x, !.undoQ = q]
      BY <1>2 DEF callbacks
    <3>2. PICK x, q : v = [w EXCEPT !.stale = x, !.undoQ = q]
      BY <3>1
    <3> HIDE DEF v
    <3>3. v = [w EXCEPT !.stale = x, !.down = w.down, !.tree = w.tree,
                        !.marked = w.marked, !.undoQ = q]
      BY <3>2 DEF IsWork
    <3> QED BY <3>3
  <2> HIDE DEF v
  <2>6. IsWork(v, n)
    BY <2>1, <2>3, <2>5, WorkChanged DEF IsWork
  <2>7. ASSUME Traced(w, n) PROVE Traced(v, n)
    <3>1. ASSUME NEW k \in 1..n, Sole(v, k, n) PROVE Remembers(v.undoQ[k], v.tree)
      <4>1. Sole(w, k, n)
        BY <2>2, <2>3, <3>1 DEF Sole
      <4>2. Remembers(w.undoQ[k], w.tree)
        BY <2>7, <4>1 DEF Traced
      <4> QED BY <2>1, <2>2, <2>3, <4>2 DEF Remembers
    <3>2. \A m \in Nodes : (\A k \in 1..n : v.undoQ[k].node # m) => v.tree[m] = base[m]
      BY <2>1, <2>2, <2>3, <2>7 DEF Traced
    <3>3. \A m \in v.marked : \E k \in 1..n : v.undoQ[k].node = m /\ v.undoQ[k].op = "delete"
      <4>1. \A m \in w.marked : \E k \in 1..n : w.undoQ[k].node = m /\ w.undoQ[k].op = "delete"
        BY <2>7 DEF Traced
      <4> QED BY <2>1, <2>2, <2>3, <4>1
    <3> QED BY <3>1, <3>2, <3>3 DEF Traced
  <2> QED BY <2>4, <2>6, <2>7 DEF v
<1> QED BY <1>1, <1>2

\* A work whose list has the length n.
Whole(w, n) == IsWork(w, n) /\ Len(w.undoQ) = n

LEMMA WholeIs ==
  ASSUME NEW n \in Nat, NEW w, IsWork(w, n)
  PROVE  Whole(w, n) = (w.undoQ \in Seq(UndoRecords) /\ Len(w.undoQ) = n)
  BY ListsAre DEF Whole, IsWork, Lists

LEMMA CommitKeepsWork ==
  ASSUME NEW n \in Nat, NEW w, Whole(w, n)
  PROVE  IsWork(attempt_commit(w), n) /\ (Traced(w, n) => Traced(attempt_commit(w), n))
<1> DEFINE v == callbacks(w, 0)
<1>1. IsWork(v, n) /\ (Traced(w, n) => Traced(v, n)) /\ Len(w.undoQ) = n
  BY CallbacksKeep DEF Whole
<1> HIDE DEF v
<1>2. PICK f : IsPass(f, TRUE, v, n) /\ FoldLeft(commit_edit, v, Each(w.undoQ)) = f[n]
  BY <1>1, CommitPass
<1>3. IsWork(f[n], n) /\ (Traced(v, n) => Traced(f[n], n))
  BY <1>1, <1>2, PassKeeps
<1> QED BY <1>1, <1>2, <1>3 DEF attempt_commit, v

LEMMA RollbackKeepsWork ==
  ASSUME NEW n \in Nat, NEW w, Whole(w, n)
  PROVE  IsWork(attempt_rollback(w), n) /\ (Traced(w, n) => Traced(attempt_rollback(w), n))
<1>1. IsWork(w, n) /\ Len(w.undoQ) = n
  BY DEF Whole
<1>2. PICK f : IsPass(f, FALSE, w, n) /\ FoldLeft(rollback_edit, w, Each(w.undoQ)) = f[n]
  BY <1>1, RollbackPass
<1>3. IsWork(f[n], n) /\ (Traced(w, n) => Traced(f[n], n))
  BY <1>1, <1>2, PassKeeps
<1> QED BY <1>2, <1>3 DEF attempt_rollback

\* Records that can be undone give each node the value that trans-start found.
LEMMA RollbackGivesBack ==
  ASSUME NEW n \in Nat, NEW w, Whole(w, n), Traced(w, n), Undoable(w.undoQ), base \in Trees
  PROVE  attempt_rollback(w).tree = base
<1>1. IsWork(w, n) /\ Len(w.undoQ) = n /\ w.undoQ \in Lists(n) /\ DOMAIN w.undoQ = 1..n
  BY DEF Whole, IsWork, Lists
<1>2. PICK f : IsPass(f, FALSE, w, n) /\ FoldLeft(rollback_edit, w, Each(w.undoQ)) = f[n]
  BY <1>1, RollbackPass
<1> DEFINE Done(v, k) == /\ IsWork(v, n) /\ Traced(v, n)
                         /\ \A j \in 1..n : v.undoQ[j].node = w.undoQ[j].node
                         /\ \A j \in 1..n : j > k => v.undoQ[j] = w.undoQ[j]
                         /\ \A j \in 1..k : v.tree[w.undoQ[j].node] = base[w.undoQ[j].node]
           T == {k \in 0..n : Done(f[k], k)}
<1>3. 0 \in T
  <2>1. f[0] = w
    BY <1>2 DEF IsPass
  <2> QED BY <1>1, <2>1
<1>4. ASSUME NEW k \in 1..n, k - 1 \in T PROVE k \in T
  <2> DEFINE u == f[k-1]
             v == f[k]
  <2>1. Done(u, k - 1)
    BY <1>4
  <2>2. v = rollback_edit(u, k)
    BY <1>2 DEF IsPass, Advance
  <2> HIDE DEF u, v
  <2>3. \A i, j \in 1..n : i # j => w.undoQ[i].node # w.undoQ[j].node
    BY <1>1 DEF Undoable
  <2>4. Sole(u, k, n) /\ u.undoQ[k] = w.undoQ[k] /\ Reversible(u.undoQ[k])
    BY <1>1, <2>1, <2>3 DEF Sole, Undoable, Reversible
  <2>5. IsWork(v, n) /\ Local(u, v, k, n) /\ Traced(v, n)
    BY <2>1, <2>2, RollbackEditTypes, RollbackEditTraced
  <2>6. v.tree[w.undoQ[k].node] = base[w.undoQ[k].node]
    BY <2>1, <2>2, <2>4, RollbackEditUndoes
  <2>7. \A j \in 1..n : w.undoQ[j].node \in Nodes
    BY <1>1 DEF Lists, UndoRecords
  <2>8. \A j \in 1..n : v.undoQ[j].node = w.undoQ[j].node
    BY <2>1, <2>5 DEF Local
  <2>9. ASSUME NEW j \in 1..n, j > k PROVE v.undoQ[j] = w.undoQ[j]
    BY <2>1, <2>3, <2>5, <2>9 DEF Local
  <2>10. ASSUME NEW j \in 1..k PROVE v.tree[w.undoQ[j].node] = base[w.undoQ[j].node]
    <3>1. CASE j = k
      BY <2>6, <3>1
    <3>2. CASE j # k
      <4>1. j \in 1..n /\ j \in 1..(k-1)
        BY <3>2
      <4>2. w.undoQ[j].node # u.undoQ[k].node
        BY <2>3, <2>4, <3>2, <4>1
      <4> QED BY <2>1, <2>5, <2>7, <4>1, <4>2 DEF Local
    <3> QED BY <3>1, <3>2
  <2>11. k \in 0..n
    OBVIOUS
  <2> QED BY <2>5, <2>8, <2>9, <2>10, <2>11 DEF v
<1>5. n \in T
  <2> HIDE DEF T
  <2> QED BY <1>3, <1>4, Induction
<1> DEFINE v == f[n]
<1>6. Done(v, n)
  BY <1>5
<1> HIDE DEF v
<1>7. ASSUME NEW m \in Nodes PROVE v.tree[m] = base[m]
  <2>1. CASE \A j \in 1..n : v.undoQ[j].node # m
    BY <1>6, <2>1 DEF Traced
  <2>2. CASE \E j \in 1..n : v.undoQ[j].node = m
    BY <1>6, <2>2
  <2> QED BY <2>1, <2>2
<1>8. v.tree = base
  BY <1>6, <1>7 DEF IsWork, Trees
<1> QED BY <1>2, <1>8 DEF attempt_rollback, v

-----------------------------------------------------------------------------
(* Steps on the open transaction *)

Tracked ==
  gTxcb # None /\ target = "running" =>
    Traced(InProgress(gTxcb.undoQ), Len(gTxcb.undoQ))

Sound == TypeOK /\ Tracked

\* An edit adds a record at the most, which remembers what the node was.
LEMMA ApplyKeepsWork ==
  ASSUME tree \in Trees, NEW q \in Seq(UndoRecords), NEW e \in Edits
  PROVE  LET before == InProgress(q)
             w == apply_write_val(before, e)
         IN \E m \in Nat : /\ m <= Len(q) + 1 /\ Whole(w, m)
                           /\ Traced(before, Len(q)) => Traced(w, m)
<1> DEFINE before == InProgress(q)
           w == apply_write_val(before, e)
           n == Len(q)
           r == undo_rec(e)
<1>1. IsWork(before, n) /\ Whole(before, n) /\ n \in Nat
  BY InProgressTypes DEF Whole, InProgress
<1>2. CASE e.val = tree[e.node]
  <2>1. w = before
    BY <1>2 DEF apply_write_val
  <2> QED BY <1>1, <2>1
<1>3. CASE e.val # tree[e.node]
  <2>1. /\ e.node \in Nodes /\ e.op \in {"create", "merge", "delete"} /\ e.val \in Values \cup {None}
        /\ (e.op = "create" => tree[e.node] = None)
    BY DEF Edits
  <2>2. tree[e.node] \in Values \cup {None}
    BY <2>1 DEF Trees
  <2>3. /\ r \in UndoRecords /\ r.node = e.node /\ r.op = e.op
        /\ r.newnode = (IF tree[e.node] = None THEN "tree" ELSE "pdu")
        /\ r.curnode = (IF tree[e.node] = None THEN "none" ELSE "tree")
        /\ r.curnode_clone = tree[e.node]
    BY <2>1, <2>2 DEF undo_rec, UndoRecords, Places
  <2> HIDE DEF r
  <2>4. w = [before EXCEPT !.undoQ = Append(q, r),
                           !.tree = IF e.op = "delete" THEN tree ELSE [tree EXCEPT ![e.node] = e.val],
                           !.marked = IF e.op = "delete" THEN {e.node} ELSE {}]
    BY <1>3, <2>1, <2>2 DEF apply_write_val, InProgress, r, Trees
  <2>5. /\ w.undoQ = Append(q, r)
        /\ w.tree = (IF e.op = "delete" THEN tree ELSE [tree EXCEPT ![e.node] = e.val])
        /\ w.marked = (IF e.op = "delete" THEN {e.node} ELSE {})
    BY <2>4 DEF InProgress
  <2>6. w.undoQ \in Seq(UndoRecords) /\ Len(w.undoQ) = n + 1 /\ w.undoQ[n+1] = r
        /\ \A k \in 1..n : w.undoQ[k] = q[k]
    BY <2>3, <2>5
  <2>7. w.tree \in Trees /\ w.marked \subseteq Nodes
    BY <2>1, <2>5 DEF Trees
  <2>8. Whole(w, n + 1)
    <3>1. w = [tree |-> w.tree, marked |-> w.marked, undoQ |-> w.undoQ, stale |-> w.stale, down |-> w.down]
      BY <2>4 DEF InProgress
    <3>2. w.undoQ \in Lists(n + 1)
      BY <2>6, ListsAre
    <3> QED BY <2>6, <2>7, <3>1, <3>2 DEF Whole, IsWork
  <2>9. ASSUME Traced(before, n) PROVE Traced(w, n + 1)
    <3> HIDE DEF w
    <3>0. /\ \A k \in 1..(n+1) : k \in 1..n \/ k = n + 1
          /\ n + 1 \in 1..(n+1) /\ \A k \in 1..n : k \in 1..(n+1) /\ k # n + 1
          /\ before.tree = tree /\ before.undoQ = q
          /\ \A i \in Nodes : i # e.node => w.tree[i] = tree[i]
      BY <2>1, <2>5 DEF InProgress, Trees
    <3> HIDE DEF before, n
    <3>1. ASSUME NEW i \in Nodes, \A k \in 1..(n+1) : w.undoQ[k].node # i PROVE w.tree[i] = base[i]
      <4>1. i # e.node /\ \A k \in 1..n : q[k].node # i
        BY <2>3, <2>6, <3>0, <3>1
      <4> QED BY <2>9, <3>0, <4>1 DEF Traced
    <3>2. ASSUME NEW k \in 1..(n+1), Sole(w, k, n + 1) PROVE Remembers(w.undoQ[k], w.tree)
      <4>1. CASE k = n + 1
        <5>1. \A j \in 1..n : q[j].node # e.node
          BY <2>3, <2>6, <3>0, <3>2, <4>1 DEF Sole
        <5>2. base[e.node] = tree[e.node]
          BY <2>1, <2>9, <3>0, <5>1 DEF Traced
        <5> QED BY <2>1, <2>3, <2>6, <4>1, <5>2 DEF Remembers
      <4>2. CASE k \in 1..n
        <5>1. Sole(before, k, n)
          BY <2>6, <3>0, <3>2, <4>2 DEF Sole
        <5>2. Remembers(q[k], tree)
          BY <2>9, <3>0, <4>2, <5>1 DEF Traced
        <5>3. q[k].node # e.node /\ q[k].node \in Nodes
          <6>1. q[k] \in UndoRecords
            BY <4>2 DEF n
          <6> QED BY <2>3, <2>6, <3>0, <3>2, <4>2, <6>1 DEF Sole, UndoRecords
        <5> QED BY <2>6, <3>0, <4>2, <5>2, <5>3 DEF Remembers
      <4> QED BY <3>0, <4>1, <4>2
    <3>3. ASSUME NEW i \in w.marked
          PROVE  \E k \in 1..(n+1) : w.undoQ[k].node = i /\ w.undoQ[k].op = "delete"
      BY <2>3, <2>5, <2>6, <3>0, <3>3
    <3> QED BY <3>1, <3>2, <3>3 DEF Traced
  <2>10. n + 1 \in Nat /\ n + 1 <= Len(q) + 1
    BY <1>1
  <2> QED BY <2>8, <2>9, <2>10
<1> QED BY <1>2, <1>3

\* What a pass leaves, at the end of the request.
LEMMA LeftTraced ==
  ASSUME NEW n \in Nat, NEW w, Whole(w, n), Traced(w, n),
         gTxcb'.undoQ = Left(w.undoQ), tree' = w.tree, base' = base,
         Len(Left(w.undoQ)) = n
  PROVE  Tracked'
<1> DEFINE q == Left(w.undoQ)
<1>1. DOMAIN w.undoQ = 1..n /\ w.undoQ \in Lists(n)
  BY DEF Whole, IsWork, Lists
<1>2. ASSUME NEW k \in 1..n
      PROVE  /\ q[k].node = w.undoQ[k].node /\ q[k].op = w.undoQ[k].op
             /\ q[k].curnode = w.undoQ[k].curnode /\ q[k].curnode_clone = w.undoQ[k].curnode_clone
             /\ w.undoQ[k].newnode = "tree" => q[k].newnode = "tree"
  <2>1. w.undoQ[k] \in UndoRecords
    BY <1>1 DEF Lists
  <2>2. q[k] = [w.undoQ[k] EXCEPT !.newnode = IF @ = "pdu" THEN "freed" ELSE @]
    BY <1>1 DEF Left
  <2> QED BY <2>1, <2>2 DEF UndoRecords
<1> HIDE DEF q
<1>3. \A i \in Nodes : (\A k \in 1..n : q[k].node # i) => tree'[i] = base'[i]
  BY <1>2 DEF Traced
<1>4. ASSUME NEW k \in 1..n, \A j \in 1..n : q[j].node = q[k].node => j = k
      PROVE  /\ q[k].op = "create" => /\ base'[q[k].node] = None /\ q[k].curnode = "none"
                                      /\ q[k].newnode = "tree" \/ tree'[q[k].node] = None
             /\ q[k].op = "merge" /\ q[k].curnode = "tree" =>
                  /\ q[k].curnode_clone = base'[q[k].node]
                  /\ q[k].curnode_clone # None
  <2>1. Sole(w, k, n)
    BY <1>2, <1>4 DEF Sole
  <2>2. Remembers(w.undoQ[k], w.tree)
    BY <2>1 DEF Traced
  <2> QED BY <1>2, <2>2 DEF Remembers
<1>5. gTxcb'.undoQ = q /\ Len(q) = n
  BY DEF q
<1> QED BY <1>3, <1>4, <1>5 DEF Tracked, Traced, InProgress, Sole, Remembers

\* The open transaction, of its type: what TypeOK says of gTxcb.
TxcbOK ==
  gTxcb # None =>
    /\ gTxcb.txid \in 1..MaxTxid /\ gTxcb.sid \in Sessions
    /\ gTxcb.undoQ \in Seq(UndoRecords) /\ Len(gTxcb.undoQ) <= MaxUndo

RestOK ==
  /\ target \in Datastores
  /\ alive \subseteq Sessions /\ lockedBy \in alive \cup {NoSession}
  /\ tree \in Trees /\ saved \in Trees /\ base \in Trees
  /\ dirty \in BOOLEAN
  /\ cur_txid \in [Datastores -> 0..MaxTxid]
  /\ {agt_cfg_txid, txid_file, given} \subseteq 0..MaxTxid

LEMMA TypesAre == TypeOK = (RestOK /\ TxcbOK)
  BY DEF TypeOK, RestOK, TxcbOK

LEMMA InitSound == Init => Sound
<1> SUFFICES ASSUME Init PROVE Sound
  OBVIOUS
<1>0. 0 \in 0..MaxTxid
  BY ParametersAssumption
<1>1. RestOK
  BY <1>0 DEF Init, RestOK
<1> QED BY <1>1, TypesAre DEF Init, Sound, TxcbOK, Tracked

LEMMA RestartSound == Sound /\ Restarted => Sound'
<1> SUFFICES ASSUME Sound, Restarted PROVE Sound'
  OBVIOUS
<1>0. 0 \in 0..MaxTxid /\ txid_file \in 0..MaxTxid
  BY ParametersAssumption DEF Sound, TypeOK
<1>1. RestOK'
  BY <1>0 DEF Sound, TypeOK, Restarted, RestOK
<1>2. gTxcb' = None
  BY DEF Restarted
<1>3. TypeOK' = (RestOK' /\ TxcbOK')
  BY DEF TypeOK, RestOK, TxcbOK
<1> QED BY <1>1, <1>2, <1>3 DEF Sound, TxcbOK, Tracked

\* What a pass leaves of the open transaction.
LEMMA PassedSound ==
  ASSUME IInv, Sound, gTxcb # None, NEW w, NEW n \in Nat, n <= MaxUndo, IsWork(w, n),
         target = "running" => Traced(w, n), NEW commits, passed(w, commits)
  PROVE  Sound'
<1>1. CASE Restarted
  BY <1>1, RestartSound
<1>2. CASE ~Restarted
  <2>1. /\ gTxcb' = [gTxcb EXCEPT !.undoQ = Left(w.undoQ)]
        /\ UNCHANGED <<target, alive, lockedBy, cur_txid, ids, base>>
        /\ tree' = w.tree /\ saved' \in {saved, w.tree} /\ dirty' \in {dirty, TRUE}
    BY <1>2 DEF passed, written
  <2>2. Whole(w, n) /\ w.undoQ \in Seq(UndoRecords) /\ Len(w.undoQ) = n
    <3>1. w.undoQ \in [1..n -> UndoRecords]
      BY DEF IsWork, Lists
    <3>2. w.undoQ \in Seq(UndoRecords) /\ Len(w.undoQ) = n
      BY <3>1
    <3> QED BY <3>2 DEF Whole
  <2>3. Left(w.undoQ) \in Seq(UndoRecords) /\ Len(Left(w.undoQ)) = n
    BY <2>2, LeftTypes
  <2>4. gTxcb' = [txid |-> gTxcb.txid, sid |-> gTxcb.sid, undoQ |-> Left(w.undoQ)]
    BY <2>1 DEF IInv, Owner, Block
  <2>5. TxcbOK'
    BY <2>3, <2>4 DEF Sound, TypeOK, TxcbOK
  <2>6. RestOK'
    BY <2>1 DEF Sound, TypeOK, RestOK, IsWork, ids
  <2>7. Tracked'
    <3>1. CASE target # "running"
      BY <2>1, <3>1 DEF Tracked
    <3>2. CASE target = "running"
      BY <2>1, <2>2, <2>3, <2>4, <3>2, LeftTraced
    <3> QED BY <3>1, <3>2
  <2>8. TypeOK'
    BY <2>5, <2>6 DEF TypeOK, RestOK, TxcbOK
  <2> QED BY <2>7, <2>8 DEF Sound
<1> QED BY <1>1, <1>2

LEMMA EditSound ==
  ASSUME IInv, Sound, NEW s \in Sessions, edit_in_transaction(s)
  PROVE  Sound'
<1>1. gTxcb # None /\ Len(gTxcb.undoQ) < MaxUndo
  BY DEF edit_in_transaction, valid_transaction
<1>2. PICK e \in Edits : agt_val_apply_write(e)
  BY DEF edit_in_transaction
<1> DEFINE q == gTxcb.undoQ
           l == Len(q)
           before == InProgress(q)
           w == apply_write_val(before, e)
<1>3. q \in Seq(UndoRecords) /\ tree \in Trees /\ l \in Nat
  BY <1>1 DEF Sound, TypeOK
<1>4. /\ IsWork(before, l) /\ Whole(before, l)
      /\ target = "running" => Traced(before, l)
  <2>1. IsWork(before, l)
    BY <1>3, InProgressTypes
  <2>2. Len(before.undoQ) = l
    BY DEF InProgress
  <2> QED BY <1>1, <2>1, <2>2 DEF Whole, Sound, Tracked
<1>5. PICK m \in Nat : m <= l + 1 /\ Whole(w, m) /\ (Traced(before, l) => Traced(w, m))
  BY <1>3, ApplyKeepsWork
<1>6. m <= MaxUndo /\ l <= MaxUndo
  BY <1>1, <1>3, <1>5, ParametersAssumption
<1> DEFINE Fine(v) == \E n \in Nat : /\ n <= MaxUndo /\ IsWork(v, n)
                                     /\ target = "running" => Traced(v, n)
<1> HIDE DEF before, w, l, q
<1>7. Fine(attempt_commit(w)) /\ Fine(attempt_rollback(w)) /\ Fine(attempt_rollback(before))
  <2>1. IsWork(attempt_commit(w), m) /\ (Traced(w, m) => Traced(attempt_commit(w), m))
    BY <1>5, CommitKeepsWork
  <2>2. IsWork(attempt_rollback(w), m) /\ (Traced(w, m) => Traced(attempt_rollback(w), m))
    BY <1>5, RollbackKeepsWork
  <2>3. IsWork(attempt_rollback(before), l) /\ (Traced(before, l) => Traced(attempt_rollback(before), l))
    BY <1>3, <1>4, RollbackKeepsWork
  <2> QED BY <1>3, <1>4, <1>5, <1>6, <2>1, <2>2, <2>3
<1>8. ASSUME NEW k \in 1..Len(w.undoQ) PROVE Fine(attempt_rollback(callbacks(w, k)))
  <2> DEFINE v == callbacks(w, k)
  <2>1. Len(w.undoQ) = m /\ IsWork(w, m) /\ k \in 0..m
    BY <1>5 DEF Whole
  <2>2. IsWork(v, m) /\ Len(v.undoQ) = m /\ (Traced(w, m) => Traced(v, m))
    BY <2>1, CallbacksKeep
  <2> HIDE DEF v
  <2>3. IsWork(attempt_rollback(v), m) /\ (Traced(v, m) => Traced(attempt_rollback(v), m))
    BY <2>2, RollbackKeepsWork DEF Whole
  <2> QED BY <1>4, <1>5, <1>6, <2>2, <2>3 DEF v
<1>9. \E v, commits : Fine(v) /\ passed(v, commits)
  <2>1. CASE passed(attempt_commit(w), TRUE)
    BY <1>7, <2>1
  <2>2. CASE passed(attempt_rollback(w), FALSE)
    BY <1>7, <2>2
  <2>3. CASE passed(attempt_rollback(before), FALSE)
    BY <1>7, <2>3
  <2>4. ASSUME NEW k \in 1..Len(w.undoQ), passed(attempt_rollback(callbacks(w, k)), FALSE)
        PROVE  \E v, commits : Fine(v) /\ passed(v, commits)
    BY <1>8, <2>4
  <2> HIDE DEF Fine
  <2> QED BY <1>2, <2>1, <2>2, <2>3, <2>4, Zenon DEF agt_val_apply_write, before, w, q
<1>10. PICK v, commits : Fine(v) /\ passed(v, commits)
  BY <1>9
<1> QED BY <1>1, <1>10, PassedSound

\* What a step does not touch is traced as before.
LEMMA TrackedStays ==
  ASSUME Tracked, UNCHANGED <<target, tree, base>>, gTxcb' \in {None, gTxcb}
  PROVE  Tracked'
<1> SUFFICES ASSUME gTxcb' # None, target' = "running" PROVE Tracked'
  BY DEF Tracked
<1>1. gTxcb' = gTxcb
  OBVIOUS
<1> QED BY <1>1 DEF Tracked, Traced, InProgress, Sole, Remembers

LEMMA OthersTracked ==
  ASSUME target' # "running" \/ gTxcb' = None
  PROVE  Tracked'
  BY DEF Tracked

LEMMA TypesThere ==
  ASSUME RestOK', TxcbOK', Tracked'
  PROVE  Sound'
  BY DEF Sound, TypeOK, RestOK, TxcbOK

LEMMA TxcbStays ==
  ASSUME Sound, gTxcb' \in {None, gTxcb}
  PROVE  TxcbOK'
  BY DEF Sound, TypeOK, TxcbOK

\* <candidate> is refilled: the records lose the nodes that were in it.
LEMMA RefillTxcb ==
  ASSUME IInv, Sound, NEW c, NEW txcb \in {None, gTxcb}, cfg_fill_candidate(c, txcb)
  PROVE  TxcbOK'
<1>1. CASE txcb = None
  BY <1>1 DEF cfg_fill_candidate, TxcbOK
<1>2. CASE txcb # None
  <2>1. txcb = gTxcb /\ gTxcb # None
    BY <1>2
  <2>2. gTxcb' = [txid |-> gTxcb.txid, sid |-> gTxcb.sid, undoQ |-> Freed(gTxcb.undoQ)]
    BY <1>2, <2>1 DEF cfg_fill_candidate, IInv, Owner, Block
  <2>3. Freed(gTxcb.undoQ) \in Seq(UndoRecords) /\ Len(Freed(gTxcb.undoQ)) = Len(gTxcb.undoQ)
    BY <2>1, FreedTypes DEF Sound, TypeOK
  <2> QED BY <2>1, <2>2, <2>3 DEF Sound, TypeOK, TxcbOK
<1> QED BY <1>1, <1>2

LEMMA ClearedTypes ==
  ASSUME NEW txids \in [Datastores -> 0..MaxTxid]
  PROVE  Cleared(txids) \in [Datastores -> 0..MaxTxid]
<1>1. 0 \in 0..MaxTxid
  BY ParametersAssumption
<1> QED BY <1>1 DEF Cleared

LEMMA ResetTypes ==
  ASSUME NEW txids \in [Datastores -> 0..MaxTxid]
  PROVE  [txids EXCEPT !["candidate"] = 0] \in [Datastores -> 0..MaxTxid]
<1>1. 0 \in 0..MaxTxid
  BY ParametersAssumption
<1> QED BY <1>1

\* A request with a transaction of its own.
LEMMA NewTransactionTypes ==
  ASSUME Sound, NEW d \in Datastores, agt_cfg_new_transaction(d)
  PROVE  /\ cur_txid[d] = 0 /\ agt_cfg_txid' = agt_cfg_txid + 1
         /\ agt_cfg_txid' \in 1..MaxTxid
         /\ {agt_cfg_txid, txid_file, given}' \subseteq 0..MaxTxid
         /\ Afterwards(cur_txid, d) \in [Datastores -> 0..MaxTxid]
<1>1. /\ cur_txid[d] = 0 /\ agt_cfg_txid < MaxTxid /\ agt_cfg_txid' = agt_cfg_txid + 1
      /\ txid_file' = agt_cfg_txid' /\ given' \in {agt_cfg_txid', given}
  BY DEF agt_cfg_new_transaction, allocate_txid
<1>2. agt_cfg_txid \in 0..MaxTxid /\ given \in 0..MaxTxid /\ MaxTxid \in Nat
      /\ cur_txid \in [Datastores -> 0..MaxTxid]
  BY ParametersAssumption DEF Sound, TypeOK
<1>3. agt_cfg_txid + 1 \in 1..MaxTxid /\ agt_cfg_txid + 1 \in 0..MaxTxid
  BY <1>1, <1>2
<1>4. Afterwards(cur_txid, d) \in [Datastores -> 0..MaxTxid]
  BY <1>2, <1>3 DEF Afterwards
<1> QED BY <1>1, <1>2, <1>3, <1>4

LEMMA UnlockSound ==
  ASSUME IInv, Sound, NEW s \in Sessions, NEW txcb \in {None, gTxcb}, NEW txids, NEW contents,
         unlock(s, txcb, txids, contents), txids \in [Datastores -> 0..MaxTxid],
         contents \in Trees, txcb = None \/ contents = tree,
         UNCHANGED <<target, alive, saved, ids, base>>
  PROVE  Sound'
<1>1. lockedBy' = NoSession
  BY DEF unlock
<1>2. CASE target = "candidate"
  <2>1. cfg_fill_candidate(saved, txcb) /\ cur_txid' = [txids EXCEPT !["candidate"] = 0]
    BY <1>2 DEF unlock
  <2>2. cur_txid' \in [Datastores -> 0..MaxTxid]
    BY <2>1, ResetTypes
  <2>3. RestOK'
    BY <1>1, <2>1, <2>2 DEF cfg_fill_candidate, Sound, TypeOK, RestOK, ids
  <2>4. Tracked'
    BY <1>2, OthersTracked
  <2> QED BY <2>1, <2>3, <2>4, RefillTxcb, TypesThere
<1>3. CASE target # "candidate"
  <2>1. tree' = contents /\ gTxcb' = txcb /\ cur_txid' = txids /\ dirty' = dirty
    BY <1>3 DEF unlock
  <2>2. RestOK'
    BY <1>1, <2>1 DEF Sound, TypeOK, RestOK, ids
  <2>3. Tracked'
    BY <2>1, TrackedStays, OthersTracked DEF Sound
  <2> QED BY <2>1, <2>2, <2>3, TxcbStays, TypesThere
<1> QED BY <1>2, <1>3

LEMMA KillSound ==
  ASSUME IInv, Sound, NEW s \in Sessions, agt_ses_kill_session(s)
  PROVE  Sound'
<1> DEFINE txcb == agt_cfg_release_trans(s)
           txids == IF txcb = None THEN Cleared(cur_txid) ELSE cur_txid
<1>1. /\ alive' = alive \ {s} /\ lockedBy' = cfg_release_locks(s)
      /\ UNCHANGED <<target, saved, ids, base>>
  BY DEF agt_ses_kill_session
<1>2. txcb \in {None, gTxcb}
  BY DEF agt_cfg_release_trans
<1>3. txids \in [Datastores -> 0..MaxTxid]
  BY ClearedTypes DEF Sound, TypeOK
<1>4. alive' \subseteq Sessions /\ lockedBy' \in alive' \cup {NoSession}
  BY <1>1 DEF cfg_release_locks, Sound, TypeOK
<1> HIDE DEF txids
<1>5. CASE lockedBy = s /\ target = "candidate"
  <2>1. cfg_fill_candidate(saved, txcb) /\ cur_txid' = [txids EXCEPT !["candidate"] = 0]
    BY <1>5 DEF agt_ses_kill_session, txids
  <2>2. cur_txid' \in [Datastores -> 0..MaxTxid]
    BY <1>3, <2>1, ResetTypes
  <2>3. RestOK'
    BY <1>1, <1>4, <2>1, <2>2 DEF cfg_fill_candidate, Sound, TypeOK, RestOK, ids
  <2>4. Tracked'
    BY <1>1, <1>5, OthersTracked
  <2> QED BY <1>2, <2>1, <2>3, <2>4, RefillTxcb, TypesThere
<1>6. CASE ~(lockedBy = s /\ target = "candidate")
  <2>1. gTxcb' = txcb /\ cur_txid' = txids /\ UNCHANGED <<tree, dirty>>
    BY <1>6 DEF agt_ses_kill_session, txids
  <2>2. RestOK'
    BY <1>1, <1>3, <1>4, <2>1 DEF Sound, TypeOK, RestOK, ids
  <2>3. Tracked'
    BY <1>1, <1>2, <2>1, TrackedStays DEF Sound
  <2> QED BY <1>2, <2>1, <2>2, <2>3, TxcbStays, TypesThere
<1> QED BY <1>5, <1>6

LEMMA StartSound ==
  ASSUME IInv, Sound, NEW s \in Sessions, transaction_start(s)
  PROVE  Sound'
<1>1. s \in alive /\ lockedBy' = s /\ UNCHANGED <<target, alive, tree, dirty, saved>>
  BY DEF transaction_start, lock_validate
<1>2. CASE /\ agt_cfg_new_transaction(target)
           /\ cur_txid' = [cur_txid EXCEPT ![target] = agt_cfg_txid']
           /\ gTxcb' = [txid |-> agt_cfg_txid', sid |-> s, undoQ |-> <<>>]
           /\ base' = tree
  <2>1. agt_cfg_txid' \in 1..MaxTxid /\ {agt_cfg_txid, txid_file, given}' \subseteq 0..MaxTxid
    BY <1>2, NewTransactionTypes DEF Sound, TypeOK
  <2>2. agt_cfg_txid' \in 0..MaxTxid
    BY <2>1
  <2>3. cur_txid' \in [Datastores -> 0..MaxTxid]
    BY <1>2, <2>2 DEF Sound, TypeOK
  <2>4. RestOK'
    BY <1>1, <1>2, <2>1, <2>3 DEF Sound, TypeOK, RestOK
  <2>5. <<>> \in Seq(UndoRecords) /\ Len(<<>>) = 0 /\ 0 <= MaxUndo
    BY ParametersAssumption
  <2>6. TxcbOK'
    BY <1>2, <2>1, <2>5 DEF TxcbOK
  <2>7. Tracked'
    <3>1. gTxcb'.undoQ = <<>> /\ \A k : k \notin 1..Len(<<>>)
      BY <1>2
    <3> QED BY <1>1, <1>2, <3>1 DEF Tracked, Traced, InProgress
  <2> QED BY <2>4, <2>6, <2>7, TypesThere
<1>3. CASE UNCHANGED <<cur_txid, ids, gTxcb, base>>
  <2>1. RestOK'
    BY <1>1, <1>3 DEF Sound, TypeOK, RestOK, ids
  <2>2. Tracked'
    BY <1>1, <1>3, TrackedStays DEF Sound
  <2> QED BY <1>3, <2>1, <2>2, TxcbStays, TypesThere
<1> QED BY <1>2, <1>3 DEF transaction_start

LEMMA RollbackSound ==
  ASSUME IInv, Sound, NEW s \in Sessions, transaction_rollback(s)
  PROVE  Sound'
<1> DEFINE q == gTxcb.undoQ
           l == Len(q)
           before == InProgress(q)
           w == attempt_rollback(before)
<1>1. gTxcb # None
  BY DEF transaction_rollback, valid_transaction
<1>2. q \in Seq(UndoRecords) /\ tree \in Trees /\ l \in Nat /\ l <= MaxUndo
      /\ (target = "running" => Traced(before, l))
  BY <1>1 DEF Sound, TypeOK, Tracked
<1>3. Whole(before, l)
  <2>1. IsWork(before, l)
    BY <1>2, InProgressTypes
  <2> QED BY <2>1 DEF Whole, InProgress
<1> HIDE DEF before
<1>4. IsWork(w, l) /\ (target = "running" => Traced(w, l))
  BY <1>2, <1>3, RollbackKeepsWork
<1>5. CASE unlock(s, None, Cleared(cur_txid), w.tree) /\ UNCHANGED <<target, alive, saved, ids, base>>
  <2>1. Cleared(cur_txid) \in [Datastores -> 0..MaxTxid]
    BY ClearedTypes DEF Sound, TypeOK
  <2>2. w.tree \in Trees
    BY <1>4 DEF IsWork
  <2> QED BY <1>5, <2>1, <2>2, UnlockSound
<1>6. CASE passed(w, FALSE)
  BY <1>1, <1>2, <1>4, <1>6, PassedSound
<1>7. Restarted \/ <1>5!1 \/ passed(w, FALSE)
  BY DEF transaction_rollback, passed, before
<1> QED BY <1>5, <1>6, <1>7, RestartSound

\* The open transaction has <running> to itself.
LEMMA NoneOpen ==
  ASSUME IInv, agt_cfg_new_transaction(target)
  PROVE  target = "running" => gTxcb = None
  BY DEF IInv, Owner, agt_cfg_new_transaction

LEMMA EditConfigSound ==
  ASSUME IInv, Sound, NEW s \in Sessions, edit_config(s)
  PROVE  Sound'
<1>1. target \in Datastores /\ agt_cfg_new_transaction(target)
      /\ cur_txid' = Afterwards(cur_txid, target)
      /\ UNCHANGED <<target, alive, lockedBy, gTxcb, base>>
  BY DEF edit_config, Sound, TypeOK
<1>2. tree' \in Trees /\ saved' \in Trees /\ dirty' \in BOOLEAN
  <2>1. CASE \E e \in Edits : written([tree EXCEPT ![e.node] = e.val])
    <3>1. PICK e \in Edits : written([tree EXCEPT ![e.node] = e.val])
      BY <2>1
    <3>2. [tree EXCEPT ![e.node] = e.val] \in Trees
      BY DEF Edits, Trees, Sound, TypeOK
    <3> QED BY <3>1, <3>2 DEF written, Sound, TypeOK
  <2>2. CASE UNCHANGED <<tree, saved, dirty>>
    BY <2>2 DEF Sound, TypeOK
  <2> QED BY <2>1, <2>2 DEF edit_config
<1>3. /\ {agt_cfg_txid, txid_file, given}' \subseteq 0..MaxTxid
      /\ cur_txid' \in [Datastores -> 0..MaxTxid]
  BY <1>1, NewTransactionTypes
<1>4. RestOK'
  BY <1>1, <1>2, <1>3 DEF Sound, TypeOK, RestOK
<1>5. Tracked'
  BY <1>1, NoneOpen, OthersTracked
<1> QED BY <1>1, <1>4, <1>5, TxcbStays, TypesThere

LEMMA ValidateSound ==
  ASSUME IInv, Sound, NEW s \in Sessions, NEW d \in Datastores, validate(s, d)
  PROVE  Sound'
<1>1. agt_cfg_new_transaction(d) /\ cur_txid' = Afterwards(cur_txid, d)
      /\ UNCHANGED <<target, alive, lockedBy, tree, dirty, saved, gTxcb, base>>
  BY DEF validate
<1>2. /\ {agt_cfg_txid, txid_file, given}' \subseteq 0..MaxTxid
      /\ cur_txid' \in [Datastores -> 0..MaxTxid]
  BY <1>1, NewTransactionTypes
<1>3. RestOK'
  BY <1>1, <1>2 DEF Sound, TypeOK, RestOK
<1>4. Tracked'
  BY <1>1, TrackedStays DEF Sound
<1> QED BY <1>1, <1>3, <1>4, TxcbStays, TypesThere

LEMMA CommitSound ==
  ASSUME IInv, Sound, NEW s \in Sessions, commit(s)
  PROVE  Sound'
<1>1. /\ target = "candidate" /\ agt_cfg_new_transaction("running") /\ "running" \in Datastores
      /\ UNCHANGED <<target, alive, lockedBy, base>>
  BY DEF commit, Datastores
<1>2. /\ {agt_cfg_txid, txid_file, given}' \subseteq 0..MaxTxid
      /\ Afterwards(cur_txid, "running") \in [Datastores -> 0..MaxTxid]
  BY <1>1, NewTransactionTypes
<1>3. Tracked'
  BY <1>1, OthersTracked
<1>4. CASE /\ saved' = tree
           /\ cfg_fill_candidate(tree, gTxcb)
           /\ cur_txid' = [Afterwards(cur_txid, "running") EXCEPT !["candidate"] = 0]
  <2>1. cur_txid' \in [Datastores -> 0..MaxTxid]
    BY <1>2, <1>4, ResetTypes
  <2>2. RestOK'
    BY <1>1, <1>2, <1>4, <2>1 DEF cfg_fill_candidate, Sound, TypeOK, RestOK
  <2> QED BY <1>3, <1>4, <2>2, RefillTxcb, TypesThere
<1>5. CASE /\ cur_txid' = Afterwards(cur_txid, "running")
           /\ UNCHANGED <<tree, dirty, saved, gTxcb>>
  <2>1. RestOK'
    BY <1>1, <1>2, <1>5 DEF Sound, TypeOK, RestOK
  <2> QED BY <1>3, <1>5, <2>1, TxcbStays, TypesThere
<1> QED BY <1>4, <1>5 DEF commit

LEMMA DiscardSound ==
  ASSUME IInv, Sound, NEW s \in Sessions, discard_changes(s)
  PROVE  Sound'
<1>1. /\ target = "candidate" /\ cfg_fill_candidate(saved, gTxcb)
      /\ cur_txid' = [cur_txid EXCEPT !["candidate"] = 0]
      /\ UNCHANGED <<target, alive, lockedBy, saved, ids, base>>
  BY DEF discard_changes
<1>2. cur_txid' \in [Datastores -> 0..MaxTxid]
  BY <1>1, ResetTypes DEF Sound, TypeOK
<1>3. RestOK'
  BY <1>1, <1>2 DEF cfg_fill_candidate, Sound, TypeOK, RestOK, ids
<1>4. Tracked'
  BY <1>1, OthersTracked
<1> QED BY <1>1, <1>3, <1>4, RefillTxcb, TypesThere

LEMMA NextSound == IInv /\ Sound /\ [Next]_vars => Sound'
<1> SUFFICES ASSUME IInv, Sound, [Next]_vars PROVE Sound'
  OBVIOUS
<1>1. CASE UNCHANGED vars
  <2>1. RestOK'
    BY <1>1 DEF vars, ids, Sound, TypeOK, RestOK
  <2>2. Tracked'
    BY <1>1, TrackedStays DEF vars, Sound
  <2>3. TxcbOK'
    BY <1>1, TxcbStays DEF vars
  <2> QED BY <2>1, <2>2, <2>3, TypesThere
<1>2. CASE restart
  BY <1>2, RestartSound DEF restart
<1>3. ASSUME NEW s \in Sessions, agt_ses_new_session(s) \/ Lock(s) PROVE Sound'
  <2>1. /\ UNCHANGED <<target, tree, dirty, saved, cur_txid, ids, gTxcb, base>>
        /\ alive' \subseteq Sessions /\ lockedBy' \in alive' \cup {NoSession}
    BY <1>3 DEF agt_ses_new_session, Lock, lock_validate, Sound, TypeOK
  <2>2. RestOK'
    BY <2>1 DEF Sound, TypeOK, RestOK, ids
  <2>3. Tracked' /\ TxcbOK'
    BY <2>1, TrackedStays, TxcbStays DEF Sound
  <2> QED BY <2>2, <2>3, TypesThere
<1>4. ASSUME NEW s \in Sessions, agt_ses_kill_session(s) PROVE Sound'
  BY <1>4, KillSound
<1>5. ASSUME NEW s \in Sessions, Unlock(s) PROVE Sound'
  <2>1. unlock(s, gTxcb, cur_txid, tree) /\ UNCHANGED <<target, alive, saved, ids, base>>
    BY <1>5 DEF Unlock
  <2>2. cur_txid \in [Datastores -> 0..MaxTxid] /\ tree \in Trees
    BY DEF Sound, TypeOK
  <2> QED BY <2>1, <2>2, UnlockSound
<1>6. ASSUME NEW s \in Sessions, transaction_start(s) PROVE Sound'
  BY <1>6, StartSound
<1>7. ASSUME NEW s \in Sessions, transaction_commit(s) PROVE Sound'
  <2>1. unlock(s, None, Cleared(cur_txid), tree) /\ UNCHANGED <<target, alive, saved, ids, base>>
    BY <1>7 DEF transaction_commit
  <2>2. Cleared(cur_txid) \in [Datastores -> 0..MaxTxid] /\ tree \in Trees
    BY ClearedTypes DEF Sound, TypeOK
  <2> QED BY <2>1, <2>2, UnlockSound
<1>8. ASSUME NEW s \in Sessions, transaction_rollback(s) PROVE Sound'
  BY <1>8, RollbackSound
<1>9. ASSUME NEW s \in Sessions, edit_config(s) PROVE Sound'
  BY <1>9, EditConfigSound
<1>10. ASSUME NEW s \in Sessions, edit_in_transaction(s) PROVE Sound'
  BY <1>10, EditSound
<1>11. ASSUME NEW s \in Sessions, NEW d \in Datastores, validate(s, d) PROVE Sound'
  BY <1>11, ValidateSound
<1>12. ASSUME NEW s \in Sessions, commit(s) PROVE Sound'
  BY <1>12, CommitSound
<1>13. ASSUME NEW s \in Sessions, discard_changes(s) PROVE Sound'
  BY <1>13, DiscardSound
<1> QED BY <1>1, <1>2, <1>3, <1>4, <1>5, <1>6, <1>7, <1>8, <1>9, <1>10, <1>11,
           <1>12, <1>13 DEF Next

LEMMA SoundHolds == Spec => []Sound
<1>1. Init => Sound
  BY InitSound
<1>2. IInv /\ Sound /\ [Next]_vars => Sound'
  BY NextSound
<1> QED BY <1>1, <1>2, InvariantHolds, PTL DEF Spec

-----------------------------------------------------------------------------
(* The theorems *)

\* Whatever order sessions start and end, lose their lock and make requests
\* in, an open transaction has a live owner, who can close it, and on
\* <running> its datastore (gTxcb, agt_ses_kill_session).
THEOREM TransactionsOwned == Spec => []TransactionOwned
<1>1. IInv => TransactionOwned
  BY DEF IInv, Owner, TransactionOwned
<1> QED BY <1>1, InvariantHolds, PTL

\* An id is never given out twice, however often the server crashes and starts
\* again from its file (allocate_txid, agt_cfg_init_transactions).
THEOREM FreshTxids == Spec => TxidsFresh
<1>1. ASSUME IInv, [Next]_vars PROVE [\A d \in Opened : cur_txid'[d] > given]_vars
  <2> SUFFICES ASSUME Next, NEW d \in Opened PROVE cur_txid'[d] > given
    BY <1>1
  <2>1. d \in Datastores /\ cur_txid'[d] # 0 /\ cur_txid'[d] # cur_txid[d]
    BY DEF Opened
  <2>2. cur_txid \in [Datastores -> Nat] /\ agt_cfg_txid \in Nat /\ given = agt_cfg_txid
    BY <1>1 DEF IInv, Ids
  <2>3. ASSUME NEW x \in Datastores, agt_cfg_new_transaction(x),
               cur_txid' = Afterwards(cur_txid, x)
        PROVE  cur_txid'[d] > given
    BY <2>1, <2>2, <2>3 DEF Afterwards, agt_cfg_new_transaction, allocate_txid
  <2>4. ASSUME NEW s, NEW txcb, NEW txids, NEW contents, unlock(s, txcb, txids, contents),
               txids \in {cur_txid, Cleared(cur_txid)}
        PROVE  FALSE
    BY <2>1, <2>2, <2>4 DEF unlock, Cleared, Datastores
  <2>5. ~Restarted
    BY <2>1 DEF Restarted
  <2>6. ~UNCHANGED cur_txid
    BY <2>1
  <2>7. CASE \E s \in Sessions : agt_ses_kill_session(s)
    BY <2>1, <2>2, <2>7 DEF agt_ses_kill_session, Cleared, Datastores
  <2>8. CASE \E s \in Sessions : transaction_start(s)
    <3>1. cur_txid' = [cur_txid EXCEPT ![target] = agt_cfg_txid'] /\ agt_cfg_txid' = agt_cfg_txid + 1
      BY <2>6, <2>8 DEF transaction_start, agt_cfg_new_transaction, allocate_txid
    <3> QED BY <2>1, <2>2, <3>1
  <2>9. CASE \E s \in Sessions : commit(s)
    <3>1. /\ agt_cfg_new_transaction("running")
          /\ \/ cur_txid' = [Afterwards(cur_txid, "running") EXCEPT !["candidate"] = 0]
             \/ cur_txid' = Afterwards(cur_txid, "running")
      BY <2>9 DEF commit
    <3> QED BY <2>1, <2>2, <3>1 DEF Afterwards, agt_cfg_new_transaction, allocate_txid
  <2>10. CASE \E s \in Sessions : edit_config(s)
    BY <1>1, <2>3, <2>10 DEF edit_config, IInv
  <2>11. CASE \E s \in Sessions, x \in Datastores : validate(s, x)
    BY <2>3, <2>11 DEF validate
  <2>12. CASE \E s \in Sessions : discard_changes(s)
    BY <2>1, <2>2, <2>12 DEF discard_changes, Datastores
  <2>13. CASE \E s \in Sessions : Unlock(s) \/ transaction_commit(s) \/ transaction_rollback(s)
    BY <2>4, <2>5, <2>6, <2>13 DEF Unlock, transaction_commit, transaction_rollback
  <2>14. ~ \E s \in Sessions : edit_in_transaction(s)
    BY <2>5, <2>6 DEF edit_in_transaction, agt_val_apply_write, passed
  <2>15. ~ \E s \in Sessions : agt_ses_new_session(s) \/ Lock(s)
    BY <2>6 DEF agt_ses_new_session, Lock
  <2> QED BY <2>5, <2>7, <2>8, <2>9, <2>10, <2>11, <2>12, <2>13, <2>14, <2>15 DEF Next, restart
<1> QED BY <1>1, InvariantHolds, PTL DEF Spec, TxidsFresh

\* While the open transaction has its datastore, no other session changes a
\* node of it, whatever its requests (agt_cfg_new_transaction, cfg_ok_to_write).
THEOREM TransactionsIsolated == Spec => Isolation
<1>1. ASSUME IInv, Next, gTxcb # None, cur_txid[target] = gTxcb.txid, tree' # tree
      PROVE  StepOfOwner \/ restart
  <2>1. cur_txid[target] # 0 /\ gTxcb.sid \in Sessions /\ gTxcb.sid # NoSession
    BY <1>1, ParametersAssumption DEF IInv, Owner
  <2>2. target = "candidate" => lockedBy = gTxcb.sid
    BY <1>1 DEF IInv, Owner
  <2>3. ASSUME NEW s \in Sessions, agt_ses_kill_session(s) PROVE StepOfOwner
    BY <1>1, <2>2, <2>3 DEF agt_ses_kill_session, StepOfOwner
  <2>4. ASSUME NEW s \in Sessions, Unlock(s) PROVE StepOfOwner
    <3>1. target = "candidate" /\ lockedBy = s
      BY <1>1, <2>4 DEF Unlock, unlock, IInv, Datastores
    <3> QED BY <2>2, <2>4, <3>1 DEF StepOfOwner
  <2>5. ASSUME NEW s \in Sessions,
               transaction_commit(s) \/ transaction_rollback(s) \/ edit_in_transaction(s)
        PROVE  StepOfOwner
    <3>1. s = gTxcb.sid
      BY <2>5 DEF transaction_commit, transaction_rollback, edit_in_transaction, valid_transaction
    <3> QED BY <2>5, <3>1 DEF StepOfOwner
  <2>6. ASSUME NEW s \in Sessions, commit(s) \/ discard_changes(s) PROVE StepOfOwner
    <3>1. target = "candidate" /\ cfg_ok_to_write(s)
      BY <2>6 DEF commit, discard_changes
    <3>2. s = gTxcb.sid
      BY <2>1, <2>2, <3>1 DEF cfg_ok_to_write
    <3> QED BY <2>6, <3>2 DEF StepOfOwner
  <2>7. ~ \E s \in Sessions : edit_config(s)
    BY <2>1 DEF edit_config, agt_cfg_new_transaction
  <2>8. ~ \E s \in Sessions :
            agt_ses_new_session(s) \/ Lock(s) \/ transaction_start(s)
            \/ \E d \in Datastores : validate(s, d)
    BY <1>1 DEF agt_ses_new_session, Lock, transaction_start, validate
  <2> QED BY <1>1, <2>3, <2>4, <2>5, <2>6, <2>7, <2>8 DEF Next
<1>2. IInv /\ [Next]_vars =>
        [gTxcb # None /\ cur_txid[target] = gTxcb.txid /\ tree' # tree
           => StepOfOwner \/ restart]_vars
  BY <1>1
<1> QED BY <1>2, InvariantHolds, PTL DEF Spec, Isolation

\* The undo records keep their types over any number of requests and passes,
\* and the ids stay within their bound (agt_val_apply_write, attempt_commit,
\* attempt_rollback).
THEOREM TransactionTypes == Spec => []TypeOK
<1>1. Sound => TypeOK
  BY DEF Sound
<1> QED BY <1>1, SoundHolds, PTL

\* trans-rollback gives back what trans-start found, after any number of
\* requests, refused ones too, if attempt_rollback can undo the records: a
\* record that is the only one of its node still has the value that was there
\* (rollback_edit, restore_curnode, remove_newnode).
THEOREM RollbacksRestore == Spec => RollbackRestores
<1>1. ASSUME IInv, Sound, gTxcb # None, gTxcb' = None, target = "running", alive' = alive,
             transaction_rollback(gTxcb.sid), Undoable(gTxcb.undoQ)
      PROVE  tree' = base
  <2> DEFINE q == gTxcb.undoQ
             n == Len(q)
             before == InProgress(q)
  <2>1. ~Restarted
    BY <1>1 DEF IInv, Owner, Restarted
  <2>2. tree' = attempt_rollback(before).tree
    BY <1>1, <2>1 DEF transaction_rollback, unlock
  <2>3. Whole(before, n) /\ Traced(before, n) /\ n \in Nat
    <3>1. q \in Seq(UndoRecords) /\ tree \in Trees /\ n \in Nat /\ Traced(before, n)
      BY <1>1 DEF Sound, TypeOK, Tracked
    <3>2. IsWork(before, n)
      BY <3>1, InProgressTypes
    <3> QED BY <3>1, <3>2 DEF Whole, InProgress
  <2>4. Undoable(before.undoQ) /\ base \in Trees
    BY <1>1 DEF InProgress, Sound, TypeOK
  <2> HIDE DEF before
  <2> QED BY <2>2, <2>3, <2>4, RollbackGivesBack
<1>2. IInv /\ Sound /\ [Next]_vars =>
        [(/\ gTxcb # None /\ gTxcb' = None /\ target = "running" /\ alive' = alive
          /\ transaction_rollback(gTxcb.sid) /\ Undoable(gTxcb.undoQ))
           => tree' = base]_vars
  BY <1>1
<1> QED BY <1>2, InvariantHolds, SoundHolds, PTL DEF Spec, RollbackRestores
=============================================================================
