------------------------- MODULE ConfigLocksProofs -------------------------
(***************************************************************************)
(* Proofs about ConfigLocks for every set of sessions, every tree of nodes *)
(* and every number of slots, blocks and lock ids.                         *)
(***************************************************************************)
EXTENDS ConfigLocks, TLAPS

\* Ids are given out in increasing order until the counter is reset, and it is
\* reset only when <running> has no partial lock.
IdsBelowLast == \A p \in plockQ : p.id \in 1..lastId

\* What came from another tree came with all that was below it.
ClonedBelow == \A n \in RunNodes : Above[n] \cap cloned # {} => n \in cloned

\* Where no array came from another tree, a lock has at most one slot of a node.
DistinctSlots ==
    \A n \in RunNodes \ cloned : \A i, j \in Slots :
        plock[n][i] = plock[n][j] /\ plock[n][i] # NoBlock => i = j

\* No node of a lock is above another one.
Antichain == \A p \in plockQ : \A n \in p.nodes : Above[n] \cap p.nodes = {}

\* No lapsed slot is remembered for an id that can be given out again.
LapsedQueued == \A l \in lapsed : \E p \in plockQ : p.id = l[1]

\* What a write of <running> can disturb.
SlotInv ==
    /\ LocksKeepTheirSlots
    /\ SlotsAreLocks
    /\ NodeNotShared
    /\ ClonedBelow
    /\ DistinctSlots
    /\ LapsedQueued

\* What only the lock operations and the ends of sessions touch.
QueueInv ==
    /\ GlobalLockHasLiveOwner
    /\ PartialLockHasLiveOwner
    /\ PartialLocksKeepRunningReserved
    /\ UniqueLocks
    /\ IdsBelowLast
    /\ Antichain

\* The strengthening of the lock-table invariants that every step preserves.
LockInv == TypeOK /\ QueueInv /\ SlotInv

USE NoSessionAssumption, NoBlockAssumption, SubtreeAssumption, BoundsAssumption

-----------------------------------------------------------------------------
(* Lemmas about the tree of nodes. *)

\* The running datastore is one of the datastores.
LEMMA RunningIsDatastore == "running" \in Datastores /\ "candidate" \in Datastores
BY DEF Datastores

\* m is above n iff n is in its subtree and is not m.
LEMMA AboveDef ==
    ASSUME NEW n \in Nodes
    PROVE  /\ Above[n] \subseteq Nodes
           /\ \A m \in Nodes : m \in Above[n] <=> n \in Subtree[m] /\ m # n
BY DEF Above

\* What is above a node that is above n is above n.
LEMMA AboveTransitive ==
    ASSUME NEW n \in Nodes, NEW m \in Above[n], NEW k \in Above[m]
    PROVE  k \in Above[n]
<1>1. m \in Nodes /\ n \in Subtree[m] /\ m # n
  BY AboveDef
<1>2. k \in Nodes /\ m \in Subtree[k]
  BY <1>1, AboveDef
<1>3. n \in Subtree[k]
  BY <1>1, <1>2
<1>4. k # n
  BY <1>1, <1>2
<1> QED
  BY <1>2, <1>3, <1>4, AboveDef

\* Of two nodes above a third, or the third itself, one is above the other.
LEMMA AboveChain ==
    ASSUME NEW n \in Nodes, NEW t \in Nodes, n \in Subtree[t], NEW m \in Above[n]
    PROVE  m \in Subtree[t] \/ m \in Above[t]
<1>1. m \in Nodes /\ n \in Subtree[m]
  BY AboveDef
<1>2. m \in Subtree[t] \/ t \in Subtree[m]
  BY <1>1
<1>3. CASE t \in Subtree[m] /\ m # t
  BY <1>1, <1>3, AboveDef
<1> QED
  BY <1>1, <1>2, <1>3

\* A tree consists of nodes, and has what is above them.
LEMMA TreeDef ==
    ASSUME NEW T
    PROVE  T \in Trees <=> T \subseteq Nodes /\ \A n \in T : Above[n] \subseteq T
BY DEF Trees

\* Nothing above n is in the subtree of n.
LEMMA AboveOutside ==
    ASSUME NEW n \in Nodes, NEW m \in Above[n]
    PROVE  m \notin Subtree[n]
<1>1. m \in Nodes /\ n \in Subtree[m] /\ m # n
  BY AboveDef
<1> QED
  BY <1>1

\* A tree without the subtrees of some nodes is a tree.
LEMMA TreeWithout ==
    ASSUME NEW T \in Trees, NEW tops \in SUBSET Nodes
    PROVE  T \ UNION {Subtree[t] : t \in tops} \in Trees
<1> DEFINE gone == UNION {Subtree[t] : t \in tops}
<1>1. T \subseteq Nodes /\ \A n \in T : Above[n] \subseteq T
  BY TreeDef
<1>2. ASSUME NEW n \in T \ gone, NEW m \in Above[n] PROVE m \in T \ gone
  <2>1. m \in T /\ m \in Nodes /\ n \in Nodes /\ n \in Subtree[m]
    BY <1>1, <1>2, AboveDef
  <2>2. ASSUME NEW t \in tops, m \in Subtree[t] PROVE FALSE
    <3>1. n \in Subtree[t]
      BY <2>1, <2>2
    <3> QED
      BY <1>2, <3>1
  <2> QED
    BY <2>1, <2>2
<1>3. T \ gone \subseteq Nodes
  BY <1>1
<1> QED
  BY <1>2, <1>3, TreeDef

\* A tree whose subtree at n is replaced by nodes of another one, with what is above
\* n, is a tree.
LEMMA TreeWith ==
    ASSUME NEW C \in Trees, NEW U \in Trees, NEW n \in Nodes, Above[n] \subseteq C
    PROVE  (C \ Subtree[n]) \cup (U \cap Subtree[n]) \in Trees
<1> DEFINE new == (C \ Subtree[n]) \cup (U \cap Subtree[n])
<1>1. /\ C \subseteq Nodes /\ \A k \in C : Above[k] \subseteq C
      /\ U \subseteq Nodes /\ \A k \in U : Above[k] \subseteq U
  BY TreeDef
<1>2. ASSUME NEW k \in C \ Subtree[n], NEW m \in Above[k] PROVE m \in new
  <2>1. m \in C /\ m \in Nodes /\ k \in Nodes /\ k \in Subtree[m]
    BY <1>1, <1>2, AboveDef
  <2>2. m \notin Subtree[n]
    BY <1>2, <2>1
  <2> QED
    BY <2>1, <2>2
<1>3. ASSUME NEW k \in U \cap Subtree[n], NEW m \in Above[k] PROVE m \in new
  <2>1. m \in U /\ k \in Nodes
    BY <1>1, <1>3
  <2>2. m \in Subtree[n] \/ m \in Above[n]
    BY <1>3, <2>1, AboveChain
  <2>3. CASE m \in Above[n]
    BY <2>3, AboveOutside
  <2> QED
    BY <2>1, <2>2, <2>3
<1>4. new \subseteq Nodes
  BY <1>1
<1> QED
  BY <1>2, <1>3, <1>4, TreeDef

\* The nodes of <running> after a commit are a tree.
LEMMA CommitTree ==
    ASSUME RunNodes \in Trees, CandNodes \in Trees, NEW tops \in SUBSET Nodes,
           \A t \in tops : Above[t] \subseteq RunNodes
    PROVE  nodes_after_commit(tops) \in Trees
<1> DEFINE new == nodes_after_commit(tops)
<1>1. /\ CandNodes \subseteq Nodes /\ \A k \in CandNodes : Above[k] \subseteq CandNodes
      /\ RunNodes \subseteq Nodes /\ \A k \in RunNodes : Above[k] \subseteq RunNodes
  BY TreeDef
<1>2. ASSUME NEW n \in new, NEW m \in Above[n] PROVE m \in new
  <2>1. n \in CandNodes /\ m \in CandNodes /\ n \in Nodes
    BY <1>1 DEF nodes_after_commit
  <2>2. CASE n \in RunNodes
    BY <1>1, <2>1, <2>2 DEF nodes_after_commit
  <2>3. CASE n \notin RunNodes
    <3>1. PICK t \in tops : n \in Subtree[t]
      BY <2>3 DEF nodes_after_commit
    <3>2. m \in Subtree[t] \/ m \in Above[t]
      BY <2>1, <3>1, AboveChain
    <3> QED
      BY <2>1, <3>2 DEF nodes_after_commit
  <2> QED
    BY <2>2, <2>3
<1>3. new \subseteq Nodes
  BY <1>1 DEF nodes_after_commit
<1> QED
  BY <1>2, <1>3, TreeDef
-----------------------------------------------------------------------------
(* Lemmas about locks and slots. *)

\* An id that plock_cb_new gives out is in range and not below any id in use.
LEMMA NewLockId ==
    ASSUME LockInv
    PROVE  /\ plock_cb_new \in 0..MaxLockId
           /\ plock_cb_new # 0 =>
                /\ plock_cb_new \in LockIds
                /\ \A p \in plockQ : p.id < plock_cb_new
<1>1. lastId \in 0..MaxLockId /\ MaxLockId \in Nat
  BY DEF LockInv, TypeOK
<1>2. plock_cb_new \in 0..MaxLockId /\ (plock_cb_new # 0 => plock_cb_new \in LockIds)
  BY <1>1 DEF plock_cb_new, LockIds
<1>3. ASSUME plock_cb_new # 0, NEW p \in plockQ
      PROVE  p.id < plock_cb_new
  <2>1. p.id \in 1..lastId
    BY <1>3 DEF LockInv, QueueInv, IdsBelowLast
  <2>2. state["running"] = "PLOCK"
    BY <1>3 DEF LockInv, QueueInv, PartialLocksKeepRunningReserved
  <2> QED
    BY <1>1, <1>3, <2>1, <2>2 DEF plock_cb_new
<1> QED
  BY <1>2, <1>3

\* The nodes that pass partial_lock_validate are in no other session's lock, except
\* where it lapsed.
LEMMA ValidatedNodesFree ==
    ASSUME LockInv, NEW s \in Sessions, NEW nodes \in SUBSET Nodes,
           partial_lock_validate(s, nodes),
           NEW n \in nodes, NEW m \in Subtree[n], NEW q \in plockQ, m \in q.nodes,
           <<q.id, m>> \notin lapsed
    PROVE  q.sid = s
<1>1. m \in RunNodes /\ Holds(plock[m], q.block)
  BY DEF LockInv, SlotInv, LocksKeepTheirSlots
<1>2. OwnedBy(plock[m], s)
  BY <1>1 DEF partial_lock_validate, val_ok_to_partial_lock
<1> QED
  BY <1>1, <1>2 DEF OwnedBy

\* plock_make_final_result keeps some of the selected nodes, none above another.
LEMMA FinalResultPruned ==
    ASSUME NEW sel \in SUBSET Nodes
    PROVE  /\ plock_make_final_result(sel) \subseteq sel
           /\ \A n \in plock_make_final_result(sel) :
                 Above[n] \cap plock_make_final_result(sel) = {}
<1> DEFINE nodes == plock_make_final_result(sel)
<1>1. nodes \subseteq sel
  BY DEF plock_make_final_result
<1>2. ASSUME NEW n \in nodes, NEW m \in Above[n], m \in nodes PROVE FALSE
  <2>1. n \in Subtree[m] /\ m # n
    BY <1>1, <1>2, AboveDef
  <2> QED
    BY <1>1, <1>2, <2>1 DEF plock_make_final_result
<1> QED
  BY <1>1, <1>2

\* Arrays, blocks and slots of locks are what they are declared to be.
LEMMA LockTypesUsed ==
    ASSUME TypeOK
    PROVE  /\ \A p \in plockQ : /\ p.id \in LockIds /\ p.sid \in Sessions
                                /\ p.block \in Blocks /\ p.block # NoBlock
                                /\ p.nodes \in SUBSET Nodes
           /\ RunNodes \subseteq Nodes /\ CandNodes \subseteq Nodes
           /\ \A n \in RunNodes : plock[n] \in Arrays /\ Above[n] \subseteq RunNodes
           /\ \A n \in CandNodes : candPlock[n] \in Arrays
<1>1. \A p \in plockQ : /\ p.id \in LockIds /\ p.sid \in Sessions
                        /\ p.block \in Blocks /\ p.block # NoBlock
                        /\ p.nodes \in SUBSET Nodes
  BY DEF TypeOK, PartialLocks
<1>2. /\ RunNodes \subseteq Nodes /\ CandNodes \subseteq Nodes
      /\ \A n \in RunNodes : Above[n] \subseteq RunNodes
  BY TreeDef DEF TypeOK
<1>3. /\ \A n \in RunNodes : plock[n] \in Arrays
      /\ \A n \in CandNodes : candPlock[n] \in Arrays
  BY DEF TypeOK
<1> QED
  BY <1>1, <1>2, <1>3

\* An array without slots.
LEMMA NoSlotsDef ==
    /\ NoSlots \in Arrays
    /\ Fresh \in [Nodes -> Arrays]
    /\ \A b \in Blocks : ~Holds(NoSlots, b)
<1>1. NoSlots \in Arrays
  BY DEF NoSlots, Arrays
<1>2. Fresh \in [Nodes -> Arrays]
  BY <1>1 DEF Fresh
<1>3. \A b \in Blocks : ~Holds(NoSlots, b)
  BY DEF NoSlots, Holds
<1> QED
  BY <1>1, <1>2, <1>3
-----------------------------------------------------------------------------
(* Writes of <running>. *)

\* The arrays new are those of <running> but for the nodes of hit.
KeptOutside(new, hit) ==
    \A n \in Nodes \ hit : /\ n \in DOMAIN new <=> n \in RunNodes
                           /\ n \in RunNodes => new[n] = plock[n]

\* Arrays of a tree.
TreeArrays(new) == DOMAIN new \in Trees /\ new \in [DOMAIN new -> Arrays]

\* A write that keeps the arrays outside hit keeps what is said of slots: a lock that
\* loses one lapses there, and what came in is cloned.
LEMMA SetArraysStep ==
    ASSUME LockInv, NEW new, NEW hit, TreeArrays(new), KeptOutside(new, hit),
           set_arrays(new, hit), UNCHANGED plockQ
    PROVE  /\ RunNodes' \in Trees /\ plock' \in [RunNodes' -> Arrays]
           /\ lapsed' \subseteq LockIds \X Nodes
           /\ cloned' \subseteq RunNodes'
           /\ lapsed \subseteq lapsed'
           /\ SlotInv'
<1>1. /\ plock' = new
      /\ RunNodes' = DOMAIN new
      /\ plockQ' = plockQ
  BY DEF set_arrays, RunNodes
<1>2. \A l : l \in lapsed' <=>
          \/ l \in lapsed
          \/ \E p \in plockQ : \E n \in p.nodes \cap hit :
                /\ l = <<p.id, n>>
                /\ n \notin DOMAIN new \/ ~Holds(new[n], p.block)
  BY DEF set_arrays
<1>3. \A n : n \in cloned' <=>
          /\ n \in DOMAIN new
          /\ \E m \in Above[n] \cup {n} : IF m \in hit THEN new[m] # NoSlots ELSE m \in cloned
  BY DEF set_arrays
<1>4. /\ DOMAIN new \subseteq Nodes
      /\ \A n \in DOMAIN new : Above[n] \subseteq DOMAIN new
      /\ \A n \in DOMAIN new : new[n] \in Arrays
  BY TreeDef DEF TreeArrays
<1>5. \A p \in plockQ : p.id \in LockIds /\ p.nodes \in SUBSET Nodes
  BY LockTypesUsed DEF LockInv
<1>6. RunNodes' \in Trees /\ plock' \in [RunNodes' -> Arrays]
  BY <1>1 DEF TreeArrays
<1>7. lapsed' \subseteq LockIds \X Nodes
  BY <1>2, <1>5 DEF LockInv, TypeOK
<1>8. cloned' \subseteq RunNodes'
  BY <1>1, <1>3
<1>9. lapsed \subseteq lapsed'
  BY <1>2
<1>10. LocksKeepTheirSlots'
  <2> SUFFICES ASSUME NEW p \in plockQ, NEW n \in p.nodes, <<p.id, n>> \notin lapsed'
               PROVE  n \in DOMAIN new /\ Holds(new[n], p.block)
    BY <1>1 DEF LocksKeepTheirSlots
  <2>1. CASE n \in hit
    BY <1>2, <2>1
  <2>2. CASE n \notin hit
    <3>1. n \in RunNodes /\ Holds(plock[n], p.block)
      BY <1>9 DEF LockInv, SlotInv, LocksKeepTheirSlots
    <3>2. n \in Nodes \ hit
      BY <1>5, <2>2
    <3> QED
      BY <3>1, <3>2 DEF KeptOutside
  <2> QED
    BY <2>1, <2>2
\* A node that is not cloned afterwards has no slots, or those it had.
<1>11. ASSUME NEW n \in DOMAIN new \ cloned'
       PROVE  \/ new[n] = NoSlots
              \/ n \in RunNodes \ cloned /\ new[n] = plock[n]
  <2>1. CASE n \in hit
    BY <1>3, <2>1
  <2>2. CASE n \notin hit
    <3>1. n \notin cloned
      BY <1>3, <2>2
    <3>2. n \in Nodes \ hit
      BY <1>4, <2>2
    <3> QED
      BY <3>1, <3>2 DEF KeptOutside
  <2> QED
    BY <2>1, <2>2
<1>12. SlotsAreLocks'
  <2> SUFFICES ASSUME NEW n \in DOMAIN new \ cloned', NEW b \in Blocks, Holds(new[n], b)
               PROVE  \E p \in plockQ : p.block = b /\ n \in p.nodes
    BY <1>1 DEF SlotsAreLocks
  <2>1. n \in RunNodes \ cloned /\ Holds(plock[n], b)
    BY <1>11, NoSlotsDef
  <2> QED
    BY <2>1 DEF LockInv, SlotInv, SlotsAreLocks
<1>13. NodeNotShared'
  BY <1>1, <1>9 DEF LockInv, SlotInv, NodeNotShared
<1>14. ClonedBelow'
  <2> SUFFICES ASSUME NEW n \in DOMAIN new, NEW m \in Above[n], m \in cloned'
               PROVE  n \in cloned'
    BY <1>1 DEF ClonedBelow
  <2>1. PICK k \in Above[m] \cup {m} : IF k \in hit THEN new[k] # NoSlots ELSE k \in cloned
    BY <1>3
  <2>2. n \in Nodes
    BY <1>4
  <2>3. k \in Above[n]
    <3>1. CASE k = m
      BY <3>1
    <3>2. CASE k \in Above[m]
      BY <2>2, <3>2, AboveTransitive
    <3> QED
      BY <2>1, <3>1, <3>2
  <2>4. k \in Above[n] \cup {n}
    BY <2>3
  <2> QED
    BY <1>3, <2>1, <2>4
<1>15. DistinctSlots'
  <2> SUFFICES ASSUME NEW n \in DOMAIN new \ cloned', NEW i \in Slots, NEW j \in Slots,
                      new[n][i] = new[n][j], new[n][i] # NoBlock
               PROVE  i = j
    BY <1>1 DEF DistinctSlots
  <2>1. CASE new[n] = NoSlots
    BY <2>1 DEF NoSlots
  <2>2. CASE n \in RunNodes \ cloned /\ new[n] = plock[n]
    BY <2>2 DEF LockInv, SlotInv, DistinctSlots
  <2> QED
    BY <1>11, <2>1, <2>2
<1>16. LapsedQueued'
  <2> SUFFICES ASSUME NEW l \in lapsed' PROVE \E p \in plockQ : p.id = l[1]
    BY <1>1 DEF LapsedQueued
  <2>1. CASE l \in lapsed
    BY <2>1 DEF LockInv, SlotInv, LapsedQueued
  <2>2. CASE l \notin lapsed
    <3>1. PICK p \in plockQ : \E n \in p.nodes \cap hit : l = <<p.id, n>>
      BY <1>2, <2>2
    <3> QED
      BY <3>1
  <2> QED
    BY <2>1, <2>2
<1>17. SlotInv'
  BY <1>10, <1>12, <1>13, <1>14, <1>15, <1>16 DEF SlotInv
<1> QED
  BY <1>6, <1>7, <1>8, <1>9, <1>17

\* The effect of a write of <running> on what LockInv says: the rest of the conclusion
\* of SetArraysStep, for steps that leave the lock tables alone.
RunningWritten ==
    /\ RunNodes' \in Trees /\ plock' \in [RunNodes' -> Arrays]
    /\ lapsed' \subseteq LockIds \X Nodes
    /\ cloned' \subseteq RunNodes'
    /\ lapsed \subseteq lapsed'
    /\ SlotInv'

\* Loading the backup over arrays that are those of <running> but for hit.
LEMMA BackupLoaded ==
    ASSUME LockInv, NEW cur, NEW hit, NEW T \in Trees, TreeArrays(cur), KeptOutside(cur, hit),
           backup_loaded(cur, hit, T), UNCHANGED plockQ
    PROVE  RunningWritten
<1>1. PICK tops \in SUBSET (Roots \cap T \cap DOMAIN cur) :
          set_arrays([n \in T |-> array_after(n, cur, tops, Fresh)], moved(cur, tops, T) \cup hit)
  BY DEF backup_loaded
<1> DEFINE new == [n \in T |-> array_after(n, cur, tops, Fresh)]
           all == moved(cur, tops, T) \cup hit
<1>2. T \subseteq Nodes
  BY TreeDef
<1>3. TreeArrays(new)
  <2>1. ASSUME NEW n \in T PROVE array_after(n, cur, tops, Fresh) \in Arrays
    <3>1. Fresh[n] \in Arrays
      BY <1>2, NoSlotsDef
    <3> QED
      BY <3>1 DEF array_after, TreeArrays
  <2> QED
    BY <2>1 DEF TreeArrays
<1>4. KeptOutside(new, all)
  <2> SUFFICES ASSUME NEW n \in Nodes \ all
               PROVE  n \in T /\ n \in RunNodes /\ new[n] = plock[n]
    BY DEF KeptOutside
  <2>1. n \in T /\ n \in DOMAIN cur /\ Above[n] \cap tops = {}
    BY DEF moved
  <2>2. new[n] = cur[n]
    BY <2>1 DEF array_after
  <2>3. n \in RunNodes /\ cur[n] = plock[n]
    BY <2>1 DEF KeptOutside
  <2> QED
    BY <2>1, <2>2, <2>3
<1>5. set_arrays(new, all)
  BY <1>1
<1> HIDE DEF new, all
<1> QED
  BY <1>3, <1>4, <1>5, SetArraysStep DEF RunningWritten

\* A write that puts arrays of the source tree at the nodes tried, and undoes it.
LEMMA RolledBackArrays ==
    ASSUME NEW cur, NEW tried, NEW src, TreeArrays(cur),
           \A n \in tried \cap DOMAIN cur : src[n] \in Arrays
    PROVE  /\ TreeArrays(rolled_back(cur, tried, src))
           /\ DOMAIN rolled_back(cur, tried, src) = DOMAIN cur
           /\ \A n \in DOMAIN cur \ tried : rolled_back(cur, tried, src)[n] = cur[n]
<1>1. DOMAIN rolled_back(cur, tried, src) = DOMAIN cur
  BY DEF rolled_back
<1>2. \A n \in DOMAIN cur \ tried : rolled_back(cur, tried, src)[n] = cur[n]
  BY DEF rolled_back
<1>3. \A n \in DOMAIN cur : rolled_back(cur, tried, src)[n] \in Arrays
  BY DEF rolled_back, TreeArrays
<1>4. rolled_back(cur, tried, src) \in [DOMAIN cur -> Arrays]
  BY <1>3 DEF rolled_back
<1> QED
  BY <1>1, <1>2, <1>4 DEF TreeArrays

LEMMA BackupRefused ==
    ASSUME LockInv, NEW cur, NEW hit, TreeArrays(cur), KeptOutside(cur, hit),
           backup_refused(cur, hit), UNCHANGED plockQ
    PROVE  RunningWritten
<1>1. PICK tried \in SUBSET (Roots \cap DOMAIN cur) :
          set_arrays(rolled_back(cur, tried, Fresh), tried \cup hit)
  BY DEF backup_refused
<1> DEFINE new == rolled_back(cur, tried, Fresh)
           all == tried \cup hit
<1>2. \A n \in tried \cap DOMAIN cur : Fresh[n] \in Arrays
  <2>1. tried \subseteq Nodes
    BY DEF Roots
  <2> QED
    BY <2>1, NoSlotsDef
<1>3. /\ TreeArrays(new)
      /\ DOMAIN new = DOMAIN cur
      /\ \A n \in DOMAIN cur \ tried : new[n] = cur[n]
  BY <1>2, RolledBackArrays
<1>4. KeptOutside(new, all)
  <2> HIDE DEF new
  <2> QED
    BY <1>3 DEF KeptOutside
<1>5. set_arrays(new, all)
  BY <1>1
<1> HIDE DEF new, all
<1> QED
  BY <1>3, <1>4, <1>5, SetArraysStep DEF RunningWritten

\* The arrays of <running>, and those after the edits of a commit.
LEMMA RunningArrays ==
    ASSUME LockInv
    PROVE  TreeArrays(plock) /\ KeptOutside(plock, {})
BY DEF LockInv, TypeOK, TreeArrays, KeptOutside, RunNodes

LEMMA CommitArrays ==
    ASSUME LockInv, NEW tops \in SUBSET CandNodes, \A t \in tops : Above[t] \subseteq RunNodes
    PROVE  /\ TreeArrays(arrays_after_commit(tops))
           /\ KeptOutside(arrays_after_commit(tops),
                          moved(plock, tops, DOMAIN arrays_after_commit(tops)))
<1> DEFINE new == arrays_after_commit(tops)
           N == nodes_after_commit(tops)
<1>1. DOMAIN new = N /\ \A n \in N : new[n] = array_after(n, plock, tops, candPlock)
  BY DEF arrays_after_commit
<1>2. /\ RunNodes \subseteq Nodes /\ CandNodes \subseteq Nodes
      /\ \A n \in RunNodes : plock[n] \in Arrays
      /\ \A n \in CandNodes : candPlock[n] \in Arrays
  BY LockTypesUsed DEF LockInv
<1>3. N \in Trees
  BY <1>2, CommitTree DEF LockInv, TypeOK
<1>4. ASSUME NEW n \in N PROVE array_after(n, plock, tops, candPlock) \in Arrays
  <2>1. n \in CandNodes
    BY <1>4 DEF nodes_after_commit
  <2> QED
    BY <1>2, <2>1 DEF array_after, RunNodes
<1>5. TreeArrays(new)
  <2>1. new \in [N -> Arrays]
    BY <1>4 DEF arrays_after_commit
  <2> QED
    BY <1>1, <1>3, <2>1 DEF TreeArrays
<1>6. KeptOutside(new, moved(plock, tops, N))
  <2> SUFFICES ASSUME NEW n \in Nodes \ moved(plock, tops, N)
               PROVE  n \in N /\ n \in RunNodes /\ new[n] = plock[n]
    BY <1>1 DEF KeptOutside
  <2>1. n \in N /\ n \in DOMAIN plock /\ Above[n] \cap tops = {}
    BY DEF moved
  <2> QED
    BY <1>1, <2>1 DEF array_after, RunNodes
<1> QED
  BY <1>1, <1>5, <1>6
-----------------------------------------------------------------------------
(* The lock tables are inductive. *)

LEMMA InitLockInv == Init => LockInv
<1> SUFFICES ASSUME Init PROVE LockInv
  OBVIOUS
<1> USE DEF Init
<1>1. PICK T \in Trees : plock = [n \in T |-> NoSlots]
  OBVIOUS
<1>2. RunNodes = T /\ CandNodes = T /\ \A n \in T : plock[n] = NoSlots
  BY <1>1 DEF RunNodes, CandNodes
<1>3. TypeOK
  <2>1. state \in [Datastores -> LockStates]
    BY DEF LockStates
  <2>2. plock \in [T -> Arrays] /\ candPlock \in [T -> Arrays]
    BY <1>1, NoSlotsDef
  <2>3. 0 \in 0..MaxLockId
    OBVIOUS
  <2> QED
    BY <1>2, <2>1, <2>2, <2>3 DEF TypeOK
<1>4. GlobalLockHasLiveOwner
  BY DEF GlobalLockHasLiveOwner
<1>5. QueueInv
  BY <1>4 DEF QueueInv, PartialLockHasLiveOwner, PartialLocksKeepRunningReserved,
              UniqueLocks, IdsBelowLast, Antichain
<1>6. SlotsAreLocks
  BY <1>2, NoSlotsDef DEF SlotsAreLocks
<1>7. DistinctSlots
  BY <1>2 DEF DistinctSlots, NoSlots
<1>8. SlotInv
  BY <1>6, <1>7 DEF SlotInv, LocksKeepTheirSlots, NodeNotShared, ClonedBelow, LapsedQueued
<1> QED
  BY <1>3, <1>5, <1>8 DEF LockInv

\* The types of <candidate>.
CandTypes ==
    /\ CandNodes \in Trees /\ candPlock \in [CandNodes -> Arrays]
    /\ marked \subseteq CandNodes
    /\ dirty \in BOOLEAN
    /\ editors \subseteq Sessions

LEMMA CandTypesKept ==
    ASSUME TypeOK, UNCHANGED candVars
    PROVE  CandTypes'
BY DEF TypeOK, CandTypes, CandNodes, candVars

\* Refilling the candidate from <running> keeps the types.
LEMMA FillTypes ==
    ASSUME RunNodes' \in Trees, plock' \in [RunNodes' -> Arrays],
           cfg_fill_candidate_from_running
    PROVE  CandTypes'
BY DEF CandTypes, CandNodes, RunNodes, cfg_fill_candidate_from_running

LEMMA QueueKept ==
    ASSUME LockInv, UNCHANGED <<alive, lockVars, plockQ, lastId>>
    PROVE  QueueInv'
BY DEF LockInv, QueueInv, lockVars, GlobalLockHasLiveOwner, PartialLockHasLiveOwner,
       PartialLocksKeepRunningReserved, UniqueLocks, IdsBelowLast, Antichain

LEMMA SlotsKept ==
    ASSUME LockInv, UNCHANGED <<plockQ, slotVars>>
    PROVE  SlotInv'
BY DEF LockInv, SlotInv, slotVars, RunNodes, LocksKeepTheirSlots, SlotsAreLocks,
       NodeNotShared, ClonedBelow, DistinctSlots, LapsedQueued

\* Steps that touch neither the sessions nor the lock tables.
LEMMA CandidateStep ==
    ASSUME LockInv, UNCHANGED <<alive, lockVars, partialVars, ccActive>>,
           CandTypes', badFlags' \in BOOLEAN
    PROVE  LockInv'
<1>1. UNCHANGED <<alive, lockVars, plockQ, lastId>> /\ UNCHANGED <<plockQ, slotVars>>
  BY DEF partialVars
<1>2. QueueInv' /\ SlotInv'
  BY <1>1, QueueKept, SlotsKept
<1>3. TypeOK'
  BY DEF LockInv, TypeOK, CandTypes, lockVars, partialVars, slotVars, RunNodes
<1> QED
  BY <1>2, <1>3 DEF LockInv

\* Steps that write <running> and leave the sessions and the locks alone.
LEMMA WriteStep ==
    ASSUME LockInv, UNCHANGED <<alive, lockVars, plockQ, lastId>>, RunningWritten,
           CandTypes', badFlags' \in BOOLEAN, ccActive' \in BOOLEAN
    PROVE  LockInv'
<1>1. QueueInv'
  BY QueueKept
<1>2. TypeOK'
  BY DEF LockInv, TypeOK, CandTypes, lockVars, RunningWritten
<1> QED
  BY <1>1, <1>2 DEF LockInv, RunningWritten

LEMMA NewSessionStep ==
    ASSUME LockInv, NEW s \in Sessions, agt_ses_new_session(s)
    PROVE  LockInv'
<1>1. /\ alive' = alive \cup {s}
      /\ UNCHANGED <<lockVars, partialVars, candVars, badFlags, ccActive>>
  BY DEF agt_ses_new_session
<1>2. TypeOK'
  BY <1>1 DEF LockInv, TypeOK, lockVars, partialVars, slotVars, candVars, RunNodes, CandNodes
<1>3. GlobalLockHasLiveOwner' /\ PartialLockHasLiveOwner'
  BY <1>1 DEF LockInv, QueueInv, GlobalLockHasLiveOwner, PartialLockHasLiveOwner, lockVars,
              partialVars
<1>4. QueueInv'
  BY <1>1, <1>3 DEF LockInv, QueueInv, lockVars, partialVars, PartialLocksKeepRunningReserved,
                    UniqueLocks, IdsBelowLast, Antichain
<1>5. SlotInv'
  BY <1>1, SlotsKept DEF partialVars
<1> QED
  BY <1>2, <1>4, <1>5 DEF LockInv

LEMMA LockStep ==
    ASSUME LockInv, NEW s \in Sessions, NEW d \in Datastores, Lock(s, d)
    PROVE  LockInv'
<1>1. /\ s \in alive /\ state[d] = "READY"
      /\ state' = [state EXCEPT ![d] = "FLOCK"]
      /\ lockedBy' = [lockedBy EXCEPT ![d] = s]
      /\ UNCHANGED <<alive, partialVars, candVars, badFlags, ccActive>>
  BY DEF Lock, lock_validate, cfg_ok_to_lock
<1>2. TypeOK'
  BY <1>1 DEF LockInv, TypeOK, LockStates, partialVars, slotVars, candVars, RunNodes, CandNodes
<1>3. GlobalLockHasLiveOwner'
  BY <1>1, NoSessionAssumption DEF LockInv, QueueInv, GlobalLockHasLiveOwner, TypeOK
<1>4. PartialLocksKeepRunningReserved'
  BY <1>1 DEF LockInv, QueueInv, PartialLocksKeepRunningReserved, TypeOK, partialVars
<1>5. QueueInv'
  BY <1>1, <1>3, <1>4 DEF LockInv, QueueInv, partialVars, PartialLockHasLiveOwner,
                          UniqueLocks, IdsBelowLast, Antichain
<1>6. SlotInv'
  BY <1>1, SlotsKept DEF partialVars
<1> QED
  BY <1>2, <1>5, <1>6 DEF LockInv

LEMMA UnlockStep ==
    ASSUME LockInv, NEW s \in Sessions, NEW d \in Datastores, Unlock(s, d)
    PROVE  LockInv'
<1>1. /\ state[d] = "FLOCK"
      /\ state' = [state EXCEPT ![d] = "READY"]
      /\ lockedBy' = [lockedBy EXCEPT ![d] = NoSession]
      /\ UNCHANGED <<alive, partialVars, badFlags, ccActive>>
      /\ cfg_fill_candidate_from_running \/ UNCHANGED candVars
  BY DEF Unlock, cfg_ok_to_unlock
<1>2. TypeOK'
  <2>1. RunNodes' \in Trees /\ plock' \in [RunNodes' -> Arrays]
    BY <1>1 DEF LockInv, TypeOK, partialVars, slotVars, RunNodes
  <2>2. CandTypes'
    BY <1>1, <2>1, FillTypes, CandTypesKept DEF LockInv
  <2> QED
    BY <1>1, <2>1, <2>2
       DEF LockInv, TypeOK, LockStates, partialVars, slotVars, CandTypes, RunNodes
<1>3. GlobalLockHasLiveOwner'
  BY <1>1 DEF LockInv, QueueInv, GlobalLockHasLiveOwner, TypeOK
<1>4. PartialLocksKeepRunningReserved'
  BY <1>1, RunningIsDatastore
     DEF LockInv, QueueInv, PartialLocksKeepRunningReserved, TypeOK, partialVars
<1>5. QueueInv'
  BY <1>1, <1>3, <1>4 DEF LockInv, QueueInv, partialVars, PartialLockHasLiveOwner,
                          UniqueLocks, IdsBelowLast, Antichain
<1>6. SlotInv'
  BY <1>1, SlotsKept DEF partialVars
<1> QED
  BY <1>2, <1>5, <1>6 DEF LockInv

\* The first free slot of an array gets the block; the others are as they were.
LEMMA SlotSet ==
    ASSUME NEW a \in Arrays, NEW b \in Blocks, Holds(a, NoBlock)
    PROVE  /\ val_set_partial_lock(a, b) \in Arrays
           /\ \E i \in Slots : /\ a[i] = NoBlock /\ val_set_partial_lock(a, b)[i] = b
                               /\ \A j \in Slots \ {i} : val_set_partial_lock(a, b)[j] = a[j]
<1> DEFINE i == CHOOSE j \in Slots : a[j] = NoBlock
<1>1. i \in Slots /\ a[i] = NoBlock
  BY DEF Holds
<1>2. val_set_partial_lock(a, b) = [a EXCEPT ![i] = b]
  BY DEF val_set_partial_lock
<1> HIDE DEF i
<1>3. [a EXCEPT ![i] = b] \in Arrays
  BY <1>1 DEF Arrays
<1>4. [a EXCEPT ![i] = b][i] = b /\ \A j \in Slots \ {i} : [a EXCEPT ![i] = b][j] = a[j]
  BY <1>1 DEF Arrays
<1> QED
  BY <1>1, <1>2, <1>3, <1>4

\* A granted partial lock: the new entry has a fresh id and a fresh block, and its
\* nodes were free.
LEMMA PartialLockStep ==
    ASSUME LockInv, NEW s \in Sessions, NEW sel \in SUBSET RunNodes, PartialLock(s, sel)
    PROVE  LockInv'
<1> DEFINE nodes == plock_make_final_result(sel)
<1>1. PICK b \in Blocks \ {p.block : p \in plockQ} :
        /\ plockQ' = plockQ \cup {[id |-> plock_cb_new, sid |-> s, block |-> b, nodes |-> nodes]}
        /\ plock' = [n \in RunNodes |->
                        IF n \in nodes THEN val_set_partial_lock(plock[n], b) ELSE plock[n]]
  BY DEF PartialLock
<1> DEFINE new == [id |-> plock_cb_new, sid |-> s, block |-> b, nodes |-> nodes]
<1>2. /\ lastId' = plock_cb_new
      /\ state' = [state EXCEPT !["running"] = "PLOCK"]
      /\ UNCHANGED <<alive, lockedBy, lapsed, cloned, candVars, badFlags, ccActive>>
      /\ s \in alive
      /\ partial_lock_validate(s, nodes)
      /\ state["running"] # "FLOCK"
  BY DEF PartialLock, cfg_ok_to_partial_lock
<1>3. /\ plock_cb_new \in LockIds
      /\ plock_cb_new \in 0..MaxLockId
      /\ \A p \in plockQ : p.id < plock_cb_new
  BY NewLockId DEF PartialLock
<1>4. /\ \A p \in plockQ : /\ p.id \in LockIds /\ p.sid \in Sessions
                           /\ p.block \in Blocks /\ p.block # NoBlock
                           /\ p.nodes \in SUBSET Nodes
      /\ RunNodes \subseteq Nodes
      /\ \A n \in RunNodes : plock[n] \in Arrays /\ Above[n] \subseteq RunNodes
  BY LockTypesUsed DEF LockInv
<1>5. /\ nodes \subseteq RunNodes /\ nodes # {}
      /\ \A n \in nodes : Above[n] \cap nodes = {}
  <2>1. sel \in SUBSET Nodes
    BY <1>4
  <2> QED
    BY <1>2, <2>1, FinalResultPruned DEF partial_lock_validate
<1> HIDE DEF nodes
<1>6. \A n \in nodes : Holds(plock[n], NoBlock) /\ OwnedBy(plock[n], s)
  BY <1>2, <1>4, <1>5 DEF partial_lock_validate, val_ok_to_partial_lock
<1>7. b \in Blocks /\ b # NoBlock /\ \A p \in plockQ : p.block # b
  OBVIOUS
<1>8. /\ plockQ' = plockQ \cup {new}
      /\ new.id = plock_cb_new /\ new.sid = s /\ new.block = b /\ new.nodes = nodes
  BY <1>1
<1>9. RunNodes' = RunNodes
  BY <1>1 DEF RunNodes
\* What the arrays are afterwards: one free slot of each node has got the block.
<1>10. ASSUME NEW n \in RunNodes
       PROVE  /\ plock'[n] \in Arrays
              /\ n \in nodes =>
                   \E i \in Slots : /\ plock[n][i] = NoBlock /\ plock'[n][i] = b
                                    /\ \A j \in Slots \ {i} : plock'[n][j] = plock[n][j]
              /\ n \notin nodes => plock'[n] = plock[n]
  <2>1. CASE n \in nodes
    <3>1. plock'[n] = val_set_partial_lock(plock[n], b)
      BY <1>1, <2>1
    <3>2. plock[n] \in Arrays /\ Holds(plock[n], NoBlock)
      BY <1>4, <1>6, <2>1
    <3> QED
      BY <2>1, <3>1, <3>2, <1>7, SlotSet
  <2>2. CASE n \notin nodes
    BY <1>1, <1>4, <2>2
  <2> QED
    BY <2>1, <2>2
\* What was held still is, and only the new block is new.
<1>11. ASSUME NEW n \in RunNodes, NEW c \in Blocks
       PROVE  /\ Holds(plock[n], c) => Holds(plock'[n], c)
              /\ Holds(plock'[n], c) => Holds(plock[n], c) \/ (c = b /\ n \in nodes)
  BY <1>7, <1>10 DEF Holds
<1>12. TypeOK'
  <2>1. new \in PartialLocks
    BY <1>3, <1>4, <1>5, <1>7 DEF PartialLocks
  <2>2. state' \in [Datastores -> LockStates]
    BY <1>2 DEF LockInv, TypeOK, LockStates
  <2>3. plock' \in [RunNodes' -> Arrays] /\ RunNodes' \in Trees
    <3>1. \A n \in RunNodes : plock'[n] \in Arrays
      BY <1>10
    <3>2. plock' \in [RunNodes -> Arrays]
      BY <1>1, <3>1
    <3> QED
      BY <1>9, <3>2 DEF LockInv, TypeOK
  <2>4. plockQ' \subseteq PartialLocks
    BY <1>8, <2>1 DEF LockInv, TypeOK
  <2>5. cloned' \subseteq RunNodes'
    BY <1>2, <1>9 DEF LockInv, TypeOK
  <2> HIDE DEF new
  <2> QED
    BY <1>2, <1>3, <2>2, <2>3, <2>4, <2>5 DEF LockInv, TypeOK, candVars, CandNodes
<1> HIDE DEF new
<1>13. GlobalLockHasLiveOwner'
  BY <1>2, RunningIsDatastore DEF LockInv, QueueInv, GlobalLockHasLiveOwner, TypeOK
<1>14. PartialLockHasLiveOwner'
  BY <1>2, <1>8 DEF LockInv, QueueInv, PartialLockHasLiveOwner
<1>15. PartialLocksKeepRunningReserved'
  BY <1>2, RunningIsDatastore DEF LockInv, PartialLocksKeepRunningReserved, TypeOK
<1>16. UniqueLocks'
  <2>1. \A p \in plockQ : p.id # plock_cb_new /\ p.block # b
    BY <1>3, <1>4, <1>7 DEF LockIds
  <2> QED
    BY <1>8, <2>1 DEF LockInv, QueueInv, UniqueLocks
<1>17. IdsBelowLast'
  BY <1>2, <1>3, <1>4, <1>8 DEF LockInv, QueueInv, IdsBelowLast, TypeOK, LockIds
<1>18. Antichain'
  BY <1>5, <1>8 DEF LockInv, QueueInv, Antichain
<1>19. QueueInv'
  BY <1>13, <1>14, <1>15, <1>16, <1>17, <1>18 DEF QueueInv
<1>20. LocksKeepTheirSlots'
  <2>1. ASSUME NEW p \in plockQ, NEW n \in p.nodes, <<p.id, n>> \notin lapsed
        PROVE  n \in RunNodes /\ Holds(plock'[n], p.block)
    <3>1. n \in RunNodes /\ Holds(plock[n], p.block)
      BY <2>1 DEF LockInv, SlotInv, LocksKeepTheirSlots
    <3> QED
      BY <1>4, <1>11, <3>1
  <2>2. ASSUME NEW n \in nodes PROVE n \in RunNodes /\ Holds(plock'[n], b)
    BY <1>5, <1>10 DEF Holds
  <2> QED
    BY <1>2, <1>8, <1>9, <2>1, <2>2 DEF LocksKeepTheirSlots
<1>21. SlotsAreLocks'
  <2> SUFFICES ASSUME NEW n \in RunNodes \ cloned, NEW c \in Blocks, Holds(plock'[n], c)
               PROVE  \E p \in plockQ' : p.block = c /\ n \in p.nodes
    BY <1>2, <1>9 DEF SlotsAreLocks
  <2>1. CASE Holds(plock[n], c)
    BY <1>8, <2>1 DEF LockInv, SlotInv, SlotsAreLocks
  <2>2. CASE c = b /\ n \in nodes
    BY <1>8, <2>2
  <2> QED
    BY <1>11, <2>1, <2>2
<1>22. NodeNotShared'
  <2>1. ASSUME NEW q \in plockQ, NEW n \in nodes, n \in q.nodes, <<q.id, n>> \notin lapsed
        PROVE  q.sid = s
    <3>1. Holds(plock[n], q.block)
      BY <2>1 DEF LockInv, SlotInv, LocksKeepTheirSlots
    <3> QED
      BY <1>6, <3>1 DEF OwnedBy
  <2> QED
    BY <1>2, <1>8, <2>1 DEF LockInv, SlotInv, NodeNotShared
<1>23. ClonedBelow'
  BY <1>2, <1>9 DEF LockInv, SlotInv, ClonedBelow
<1>24. DistinctSlots'
  <2> SUFFICES ASSUME NEW n \in RunNodes \ cloned, NEW i \in Slots, NEW j \in Slots,
                      plock'[n][i] = plock'[n][j], plock'[n][i] # NoBlock
               PROVE  i = j
    BY <1>2, <1>9 DEF DistinctSlots
  <2>1. ASSUME NEW k \in Slots, NEW l \in Slots, plock[n][k] = plock[n][l],
               plock[n][k] # NoBlock
        PROVE  k = l
    BY <2>1 DEF LockInv, SlotInv, DistinctSlots
  <2>2. \A k \in Slots : plock[n][k] # b
    BY <1>7 DEF LockInv, SlotInv, SlotsAreLocks, Holds
  <2>3. CASE n \in nodes
    <3>1. PICK k \in Slots : /\ plock[n][k] = NoBlock /\ plock'[n][k] = b
                             /\ \A l \in Slots \ {k} : plock'[n][l] = plock[n][l]
      BY <1>10, <2>3
    <3> QED
      BY <2>1, <2>2, <3>1
  <2>4. CASE n \notin nodes
    BY <1>10, <2>1, <2>4
  <2> QED
    BY <2>3, <2>4
<1>25. LapsedQueued'
  BY <1>2, <1>8 DEF LockInv, SlotInv, LapsedQueued
<1>26. SlotInv'
  BY <1>20, <1>21, <1>22, <1>23, <1>24, <1>25 DEF SlotInv
<1> QED
  BY <1>12, <1>19, <1>26 DEF LockInv

\* A refused or backed out partial lock spends an id and nothing else.
LEMMA LockIdSpentStep ==
    ASSUME LockInv, NEW s \in Sessions, NEW sel \in SUBSET RunNodes,
           PartialLockDenied(s, sel) \/ PartialLockBackedOut(s, sel)
    PROVE  LockInv'
<1>1. /\ lastId' = plock_cb_new
      /\ UNCHANGED <<alive, lockedBy, plockQ, slotVars, candVars, badFlags, ccActive>>
      /\ \/ state' = state
         \/ /\ state["running"] # "FLOCK"
            /\ state' = [state EXCEPT !["running"] =
                            IF plockQ = {} THEN "READY" ELSE "PLOCK"]
  BY DEF PartialLockDenied, PartialLockBackedOut, cfg_ok_to_partial_lock, lockVars
<1>2. plock_cb_new \in 0..MaxLockId /\ \A p \in plockQ : p.id < plock_cb_new
  BY NewLockId DEF PartialLockDenied, PartialLockBackedOut
<1>3. TypeOK'
  <2>1. state' \in [Datastores -> LockStates]
    BY <1>1 DEF LockInv, TypeOK, LockStates
  <2> QED
    BY <1>1, <1>2, <2>1 DEF LockInv, TypeOK, slotVars, candVars, RunNodes, CandNodes
<1>4. GlobalLockHasLiveOwner'
  BY <1>1, RunningIsDatastore DEF LockInv, QueueInv, GlobalLockHasLiveOwner, TypeOK
<1>5. PartialLocksKeepRunningReserved'
  BY <1>1, RunningIsDatastore DEF LockInv, QueueInv, PartialLocksKeepRunningReserved, TypeOK
<1>6. IdsBelowLast'
  <2>1. \A p \in plockQ : p.id \in LockIds
    BY LockTypesUsed DEF LockInv
  <2> QED
    BY <1>1, <1>2, <2>1 DEF IdsBelowLast, LockIds
<1>7. QueueInv'
  BY <1>1, <1>4, <1>5, <1>6
     DEF LockInv, QueueInv, PartialLockHasLiveOwner, UniqueLocks, Antichain
<1>8. SlotInv'
  BY <1>1, SlotsKept
<1> QED
  BY <1>3, <1>7, <1>8 DEF LockInv

\* Taking locks out of the queue, their slots out of <running> and their blocks back:
\* cfg_delete_partial_lock and cfg_release_partial_locks.
LEMMA RemovePlocks ==
    ASSUME LockInv, NEW gone \in SUBSET plockQ, free_partial_locks(gone), lastId' = lastId
    PROVE  /\ plockQ' = plockQ \ gone
           /\ RunNodes' \in Trees /\ plock' \in [RunNodes' -> Arrays]
           /\ lapsed' \subseteq lapsed
           /\ cloned' \subseteq RunNodes'
           /\ UniqueLocks' /\ IdsBelowLast' /\ Antichain'
           /\ SlotInv'
<1> DEFINE bs == {p.block : p \in gone}
<1>1. /\ plockQ' = plockQ \ gone
      /\ plock' = val_clear_partial_lock(bs)
      /\ lapsed' = {l \in lapsed : \A p \in gone : p.id # l[1]}
      /\ cloned' = cloned
  BY DEF free_partial_locks
<1>2. /\ \A p \in plockQ : /\ p.id \in LockIds /\ p.sid \in Sessions
                           /\ p.block \in Blocks /\ p.block # NoBlock
                           /\ p.nodes \in SUBSET Nodes
      /\ RunNodes \subseteq Nodes
      /\ \A n \in RunNodes : plock[n] \in Arrays /\ Above[n] \subseteq RunNodes
  BY LockTypesUsed DEF LockInv
<1>3. RunNodes' = RunNodes
  BY <1>1 DEF RunNodes, val_clear_partial_lock
\* A slot that is cleared had the block of one of gone; one that is not has kept what
\* it had, and if that is such a block, the node above or another slot has it too.
<1>4. ASSUME NEW n \in RunNodes, NEW i \in Slots
      PROVE  /\ plock'[n][i] = plock[n][i] \/ (plock'[n][i] = NoBlock /\ plock[n][i] \in bs)
             /\ plock'[n][i] = plock[n][i] /\ plock[n][i] \in bs /\ NoBlock \notin bs =>
                  \/ i # CHOOSE j \in Slots : plock[n][j] = plock[n][i]
                  \/ \E m \in Above[n] \cap RunNodes : Holds(plock[m], plock[n][i])
  <2>1. plock'[n][i] = IF /\ plock[n][i] \in bs
                          /\ i = CHOOSE j \in Slots : plock[n][j] = plock[n][i]
                          /\ \A m \in Above[n] \cap RunNodes : ~Holds(plock[m], plock[n][i])
                       THEN NoBlock ELSE plock[n][i]
    BY <1>1 DEF val_clear_partial_lock
  <2> QED
    BY <2>1
<1>5. RunNodes' \in Trees /\ plock' \in [RunNodes' -> Arrays]
  <2>1. ASSUME NEW n \in RunNodes, NEW i \in Slots
        PROVE  plock'[n][i] \in Blocks \cup {NoBlock}
    BY <1>2, <1>4 DEF Arrays
  <2>2. ASSUME NEW n \in RunNodes PROVE plock'[n] \in Arrays
    <3>1. DOMAIN plock'[n] = Slots /\ plock'[n] = [i \in Slots |-> plock'[n][i]]
      BY <1>1 DEF val_clear_partial_lock
    <3> QED
      BY <2>1, <3>1 DEF Arrays
  <2>3. plock' \in [RunNodes -> Arrays]
    BY <1>1, <2>2 DEF val_clear_partial_lock
  <2> QED
    BY <1>3, <2>3 DEF LockInv, TypeOK
<1>6. lapsed' \subseteq lapsed
  BY <1>1
<1>7. cloned' \subseteq RunNodes'
  BY <1>1, <1>3 DEF LockInv, TypeOK
<1>8. UniqueLocks' /\ IdsBelowLast' /\ Antichain'
  BY <1>1 DEF LockInv, QueueInv, UniqueLocks, IdsBelowLast, Antichain
<1>9. \A p \in plockQ \ gone : p.block \notin bs /\ \A g \in gone : g.id # p.id
  BY DEF LockInv, QueueInv, UniqueLocks
<1>10. NoBlock \notin bs
  BY <1>2
\* A lock that stays has not lapsed anew.
<1>11. ASSUME NEW p \in plockQ \ gone, NEW n \in Nodes, <<p.id, n>> \in lapsed
       PROVE  <<p.id, n>> \in lapsed'
  <2>1. <<p.id, n>>[1] = p.id
    OBVIOUS
  <2> QED
    BY <1>1, <1>9, <1>11, <2>1
<1>12. LocksKeepTheirSlots'
  <2> SUFFICES ASSUME NEW p \in plockQ \ gone, NEW n \in p.nodes, <<p.id, n>> \notin lapsed'
               PROVE  n \in RunNodes /\ Holds(plock'[n], p.block)
    BY <1>1, <1>3 DEF LocksKeepTheirSlots
  <2>1. <<p.id, n>> \notin lapsed
    BY <1>2, <1>11
  <2>2. n \in RunNodes /\ Holds(plock[n], p.block)
    BY <2>1 DEF LockInv, SlotInv, LocksKeepTheirSlots
  <2>3. PICK i \in Slots : plock[n][i] = p.block
    BY <2>2 DEF Holds
  <2>4. plock'[n][i] = p.block
    BY <1>4, <1>9, <2>2, <2>3
  <2> QED
    BY <2>2, <2>4 DEF Holds
\* Where nothing is cloned the locks gone have no slot left.
<1>13. SlotsAreLocks'
  <2> SUFFICES ASSUME NEW n \in RunNodes \ cloned, NEW b \in Blocks, Holds(plock'[n], b)
               PROVE  \E p \in plockQ \ gone : p.block = b /\ n \in p.nodes
    BY <1>1, <1>3 DEF SlotsAreLocks
  <2>1. PICK i \in Slots : plock'[n][i] = b
    BY DEF Holds
  <2>2. plock[n][i] = b
    BY <1>4, <2>1, NoBlockAssumption
  <2>3. Holds(plock[n], b)
    BY <2>2 DEF Holds
  <2>4. PICK p \in plockQ : p.block = b /\ n \in p.nodes
    BY <2>3 DEF LockInv, SlotInv, SlotsAreLocks
  <2>5. ASSUME p \in gone PROVE FALSE
    <3>1. b \in bs
      BY <2>4, <2>5
    <3>2. \/ i # CHOOSE j \in Slots : plock[n][j] = b
          \/ \E m \in Above[n] \cap RunNodes : Holds(plock[m], b)
      BY <1>4, <1>10, <2>1, <2>2, <3>1
    <3>3. CASE i # CHOOSE j \in Slots : plock[n][j] = b
      <4>1. PICK j \in Slots : plock[n][j] = b /\ i # j
        BY <2>2, <3>3
      <4> QED
        BY <2>2, <4>1, NoBlockAssumption DEF LockInv, SlotInv, DistinctSlots
    <3>4. CASE \E m \in Above[n] \cap RunNodes : Holds(plock[m], b)
      <4>1. PICK m \in Above[n] \cap RunNodes : Holds(plock[m], b)
        BY <3>4
      <4>2. m \notin cloned
        BY DEF LockInv, SlotInv, ClonedBelow
      <4>3. PICK q \in plockQ : q.block = b /\ m \in q.nodes
        BY <4>1, <4>2 DEF LockInv, SlotInv, SlotsAreLocks
      <4>4. q = p
        BY <2>4, <4>3 DEF LockInv, QueueInv, UniqueLocks
      <4> QED
        BY <2>4, <4>3, <4>4 DEF LockInv, QueueInv, Antichain
    <3> QED
      BY <3>2, <3>3, <3>4
  <2> QED
    BY <2>4, <2>5
<1>14. NodeNotShared'
  <2> SUFFICES ASSUME NEW p \in plockQ \ gone, NEW q \in plockQ \ gone, p.sid # q.sid,
                      NEW n \in p.nodes \cap q.nodes
               PROVE  <<p.id, n>> \in lapsed' \/ <<q.id, n>> \in lapsed'
    BY <1>1 DEF NodeNotShared
  <2>1. <<p.id, n>> \in lapsed \/ <<q.id, n>> \in lapsed
    BY DEF LockInv, SlotInv, NodeNotShared
  <2>2. n \in Nodes
    BY <1>2
  <2> QED
    BY <1>11, <2>1, <2>2
<1>15. ClonedBelow'
  BY <1>1, <1>3 DEF LockInv, SlotInv, ClonedBelow
<1>16. DistinctSlots'
  <2> SUFFICES ASSUME NEW n \in RunNodes \ cloned, NEW i \in Slots, NEW j \in Slots,
                      plock'[n][i] = plock'[n][j], plock'[n][i] # NoBlock
               PROVE  i = j
    BY <1>1, <1>3 DEF DistinctSlots
  <2>1. plock[n][i] = plock[n][j] /\ plock[n][i] # NoBlock
    BY <1>4
  <2> QED
    BY <2>1 DEF LockInv, SlotInv, DistinctSlots
<1>17. LapsedQueued'
  <2> SUFFICES ASSUME NEW l \in lapsed' PROVE \E p \in plockQ' : p.id = l[1]
    BY DEF LapsedQueued
  <2>1. PICK p \in plockQ : p.id = l[1]
    BY <1>6 DEF LockInv, SlotInv, LapsedQueued
  <2> QED
    BY <1>1, <2>1
<1>18. SlotInv'
  BY <1>12, <1>13, <1>14, <1>15, <1>16, <1>17 DEF SlotInv
<1> QED
  BY <1>1, <1>5, <1>6, <1>7, <1>8, <1>18

LEMMA PartialUnlockStep ==
    ASSUME LockInv, NEW s \in Sessions, NEW i \in LockIds, PartialUnlock(s, i)
    PROVE  LockInv'
<1>1. PICK p \in plockQ : cfg_delete_partial_lock(p)
  BY DEF PartialUnlock
<1>2. UNCHANGED <<alive, lockedBy, lastId, candVars, badFlags, ccActive>>
  BY DEF PartialUnlock
<1>3. /\ free_partial_locks({p})
      /\ state' = [state EXCEPT !["running"] = IF plockQ = {p} THEN "READY" ELSE "PLOCK"]
  BY <1>1 DEF cfg_delete_partial_lock
<1>4. state["running"] = "PLOCK"
  BY DEF LockInv, QueueInv, PartialLocksKeepRunningReserved
<1>5. {p} \in SUBSET plockQ /\ lastId' = lastId
  BY <1>2
<1>6. /\ plockQ' = plockQ \ {p}
      /\ RunNodes' \in Trees /\ plock' \in [RunNodes' -> Arrays]
      /\ lapsed' \subseteq lapsed
      /\ cloned' \subseteq RunNodes'
      /\ UniqueLocks' /\ IdsBelowLast' /\ Antichain'
      /\ SlotInv'
  BY <1>3, <1>5, RemovePlocks
<1>7. TypeOK'
  <2>1. state' \in [Datastores -> LockStates]
    BY <1>3 DEF LockInv, TypeOK, LockStates
  <2> QED
    BY <1>2, <1>6, <2>1 DEF LockInv, TypeOK, candVars, CandNodes
<1>8. GlobalLockHasLiveOwner'
  BY <1>2, <1>3, <1>4, RunningIsDatastore DEF LockInv, QueueInv, GlobalLockHasLiveOwner, TypeOK
<1>9. PartialLockHasLiveOwner'
  BY <1>2, <1>6 DEF LockInv, QueueInv, PartialLockHasLiveOwner
<1>10. PartialLocksKeepRunningReserved'
  BY <1>3, <1>6, RunningIsDatastore DEF LockInv, PartialLocksKeepRunningReserved, TypeOK
<1> QED
  BY <1>6, <1>7, <1>8, <1>9, <1>10 DEF LockInv, QueueInv

\* The end of a session takes all of its locks out of the tables.
LEMMA FreeSessionStep ==
    ASSUME LockInv, NEW s \in Sessions, agt_ses_free_session(s)
    PROVE  LockInv'
<1> DEFINE held == {d \in Datastores : lockedBy[d] = s}
           gone == {p \in plockQ : p.sid = s}
<1>1. /\ alive' = alive \ {s}
      /\ free_partial_locks(gone)
      /\ UNCHANGED <<lastId, badFlags, ccActive>>
      /\ state' = [d \in Datastores |-> IF d \in held THEN "READY" ELSE state[d]]
      /\ lockedBy' = [d \in Datastores |-> IF d \in held THEN NoSession ELSE lockedBy[d]]
      /\ cfg_fill_candidate_from_running \/ UNCHANGED candVars
  BY DEF agt_ses_free_session, cfg_release_locks, cfg_release_partial_locks
<1>2. gone \in SUBSET plockQ /\ lastId' = lastId
  BY <1>1
<1>3. /\ plockQ' = plockQ \ gone
      /\ RunNodes' \in Trees /\ plock' \in [RunNodes' -> Arrays]
      /\ lapsed' \subseteq lapsed
      /\ cloned' \subseteq RunNodes'
      /\ UniqueLocks' /\ IdsBelowLast' /\ Antichain'
      /\ SlotInv'
  <2>1. free_partial_locks(gone)
    BY <1>1
  <2> HIDE DEF gone
  <2> QED
    BY <1>2, <2>1, RemovePlocks
<1>4. TypeOK'
  <2>1. /\ state' \in [Datastores -> LockStates]
        /\ lockedBy' \in [Datastores -> Sessions \cup {NoSession}]
        /\ alive' \subseteq Sessions
    BY <1>1 DEF LockInv, TypeOK, LockStates
  <2>2. CandTypes'
    BY <1>1, <1>3, FillTypes, CandTypesKept DEF LockInv
  <2> QED
    BY <1>1, <1>3, <2>1, <2>2 DEF LockInv, TypeOK, CandTypes
<1>5. GlobalLockHasLiveOwner'
  BY <1>1, NoSessionAssumption DEF LockInv, QueueInv, GlobalLockHasLiveOwner, TypeOK
<1>6. PartialLockHasLiveOwner'
  BY <1>1, <1>3 DEF LockInv, QueueInv, PartialLockHasLiveOwner
<1>7. PartialLocksKeepRunningReserved'
  <2> SUFFICES ASSUME plockQ' # {} PROVE state'["running"] = "PLOCK"
    BY DEF PartialLocksKeepRunningReserved
  <2>1. state["running"] = "PLOCK"
    BY <1>3 DEF LockInv, QueueInv, PartialLocksKeepRunningReserved
  <2>2. "running" \notin held
    BY <2>1, RunningIsDatastore, NoSessionAssumption
       DEF LockInv, QueueInv, GlobalLockHasLiveOwner
  <2> QED
    BY <1>1, <2>1, <2>2, RunningIsDatastore
<1> QED
  BY <1>3, <1>4, <1>5, <1>6, <1>7 DEF LockInv, QueueInv

\* The edits of <candidate>.
LEMMA EditStep ==
    ASSUME LockInv, NEW s \in Sessions, edit_config(s),
           CandNodes' \in Trees, candPlock' \in [CandNodes' -> Arrays], marked' \subseteq CandNodes'
    PROVE  LockInv'
<1>1. /\ UNCHANGED <<alive, lockVars, partialVars, ccActive>>
      /\ badFlags' = badFlags /\ dirty' = TRUE /\ editors' = editors \cup {s}
  BY DEF edit_config
<1>2. CandTypes' /\ badFlags' \in BOOLEAN
  BY <1>1 DEF CandTypes, LockInv, TypeOK
<1> QED
  BY <1>1, <1>2, CandidateStep

LEMMA EditValuesStep ==
    ASSUME LockInv, NEW s \in Sessions, NEW N \in SUBSET CandNodes, edit_values(s, N)
    PROVE  LockInv'
<1>1. edit_config(s) /\ candPlock' = candPlock /\ marked' = marked \cup N
  BY DEF edit_values
<1>2. CandNodes' = CandNodes
  BY <1>1 DEF CandNodes
<1> QED
  BY <1>1, <1>2, EditStep DEF LockInv, TypeOK

LEMMA PutSubtreeStep ==
    ASSUME LockInv, NEW s \in Sessions, NEW n \in Nodes, NEW U \in Trees,
           NEW T, T = U \cap Subtree[n], put_subtree(s, n, T)
    PROVE  LockInv'
<1> DEFINE new == (CandNodes \ Subtree[n]) \cup T
<1>1. /\ edit_config(s) /\ n \in T /\ Above[n] \subseteq CandNodes
      /\ candPlock' = [m \in new |-> IF m \in T THEN NoSlots ELSE candPlock[m]]
      /\ marked' = (marked \ Subtree[n]) \cup {n}
  BY DEF put_subtree
<1>2. new \in Trees
  BY <1>1, TreeWith DEF LockInv, TypeOK
<1>3. \A m \in CandNodes : candPlock[m] \in Arrays
  BY LockTypesUsed DEF LockInv
<1>4. candPlock' \in [new -> Arrays]
  BY <1>1, <1>3, NoSlotsDef
<1>5. CandNodes' = new
  BY <1>1 DEF CandNodes
<1>6. marked' \subseteq new
  BY <1>1 DEF LockInv, TypeOK
<1> QED
  BY <1>1, <1>2, <1>4, <1>5, <1>6, EditStep

LEMMA DeleteSubtreeStep ==
    ASSUME LockInv, NEW s \in Sessions, NEW n \in CandNodes, delete_subtree(s, n)
    PROVE  LockInv'
<1> DEFINE new == CandNodes \ Subtree[n]
<1>1. PICK up \in SUBSET Above[n] :
        /\ edit_config(s)
        /\ candPlock' = [m \in new |-> candPlock[m]]
        /\ marked' = (marked \ Subtree[n]) \cup up
  BY DEF delete_subtree
<1>2. CandNodes \in Trees /\ n \in Nodes /\ Above[n] \subseteq CandNodes
  BY TreeDef DEF LockInv, TypeOK
<1>3. new \in Trees
  <2>1. {n} \in SUBSET Nodes /\ UNION {Subtree[t] : t \in {n}} = Subtree[n]
    BY <1>2
  <2>2. CandNodes \ UNION {Subtree[t] : t \in {n}} \in Trees
    BY <1>2, <2>1, TreeWithout
  <2> QED
    BY <2>1, <2>2
<1>4. candPlock' \in [new -> Arrays]
  BY <1>1 DEF LockInv, TypeOK
<1>5. CandNodes' = new
  BY <1>1 DEF CandNodes
<1>6. marked' \subseteq new
  <2>1. up \subseteq new
    BY <1>1, <1>2, AboveOutside
  <2> QED
    BY <1>1, <2>1 DEF LockInv, TypeOK
<1> QED
  BY <1>1, <1>3, <1>4, <1>5, <1>6, EditStep

\* <candidate> filled anew from <running>, and <running> left alone.
LEMMA FillStep ==
    ASSUME LockInv, UNCHANGED <<alive, lockVars, partialVars, ccActive, badFlags>>,
           cfg_fill_candidate_from_running
    PROVE  LockInv'
<1>1. RunNodes' \in Trees /\ plock' \in [RunNodes' -> Arrays]
  BY DEF LockInv, TypeOK, partialVars, slotVars, RunNodes
<1>2. CandTypes'
  BY <1>1, FillTypes
<1>3. badFlags' \in BOOLEAN
  BY DEF LockInv, TypeOK
<1> QED
  BY <1>2, <1>3, CandidateStep

LEMMA CopyConfigStep ==
    ASSUME LockInv, NEW s \in Sessions, NEW src \in Datastores \ {"candidate"},
           copy_config_candidate(s, src)
    PROVE  LockInv'
<1>1. UNCHANGED <<alive, lockVars, partialVars, ccActive>>
  BY DEF copy_config_candidate
<1>2. CASE cfg_fill_candidate_from_running /\ UNCHANGED badFlags
  BY <1>1, <1>2, FillStep
<1>3. CASE cfg_fill_candidate_from_startup(s)
  <2>1. PICK T \in Trees : candPlock' = [n \in T |-> NoSlots]
    BY <1>3 DEF cfg_fill_candidate_from_startup
  <2>2. CandNodes' = T /\ candPlock' \in [T -> Arrays]
    BY <2>1, NoSlotsDef DEF CandNodes
  <2>3. CandTypes' /\ badFlags' \in BOOLEAN
    BY <1>3, <2>2 DEF CandTypes, cfg_fill_candidate_from_startup
  <2> QED
    BY <1>1, <2>3, CandidateStep
<1> QED
  BY <1>2, <1>3 DEF copy_config_candidate

\* What a commit leaves of <candidate> when it fails late.
LEMMA LateFailure ==
    ASSUME LockInv, NEW tops \in SUBSET CandNodes, candidate_after_commit(tops)
    PROVE  CandTypes'
<1> DEFINE movers == tops \ (Leafs \cap RunNodes)
           went == UNION {Subtree[t] : t \in movers}
           new == CandNodes \ went
<1>1. /\ candPlock' = [n \in new |-> IF n \in tops THEN plock[n] ELSE candPlock[n]]
      /\ marked' = marked \ (went \cup tops)
      /\ UNCHANGED <<dirty, editors>>
  BY DEF candidate_after_commit
<1>2. /\ CandNodes \subseteq Nodes
      /\ \A n \in RunNodes : plock[n] \in Arrays
      /\ \A n \in CandNodes : candPlock[n] \in Arrays
  BY LockTypesUsed DEF LockInv
<1>3. new \in Trees
  <2>1. movers \in SUBSET Nodes
    BY <1>2
  <2> QED
    BY <2>1, TreeWithout DEF LockInv, TypeOK
<1>4. ASSUME NEW n \in new PROVE IF n \in tops THEN plock[n] \in Arrays ELSE candPlock[n] \in Arrays
  <2>1. CASE n \in tops
    <3>1. n \in Subtree[n]
      BY <1>2, <1>4
    <3>2. n \notin movers
      BY <1>4, <3>1
    <3> QED
      BY <1>2, <2>1, <3>2
  <2> QED
    BY <1>2, <1>4, <2>1
<1>5. candPlock' \in [new -> Arrays]
  BY <1>1, <1>4
<1>6. CandNodes' = new
  BY <1>1 DEF CandNodes
<1>7. marked' \subseteq new
  BY <1>1 DEF LockInv, TypeOK
<1> QED
  BY <1>1, <1>3, <1>5, <1>6, <1>7 DEF CandTypes, LockInv, TypeOK

\* A commit keeps the locks as they are and writes <running>, however it ends.
LEMMA CommitStep ==
    ASSUME LockInv, NEW s \in Sessions, NEW confirmed \in BOOLEAN, commit(s, confirmed)
    PROVE  /\ UNCHANGED <<alive, lockVars, plockQ, lastId>>
           /\ state["running"] = "FLOCK" => lockedBy["running"] = s
           /\ RunningWritten
           /\ LockInv'
<1> DEFINE Backups == IF ccActive /\ confirmed THEN Trees ELSE Trees \cap SUBSET RunNodes
<1>1. /\ UNCHANGED <<alive, lockVars, plockQ, lastId>>
      /\ state["running"] = "FLOCK" => lockedBy["running"] = s
      /\ ccActive' \in BOOLEAN
  BY DEF commit, cfg_ok_to_write
<1>2. badFlags \in BOOLEAN /\ marked \subseteq CandNodes
  BY DEF LockInv, TypeOK
<1>3. PICK more \in SUBSET (IF badFlags THEN CandNodes \ marked ELSE {}) :
        LET reached == marked \cup more
            tops == {n \in reached : Above[n] \cap reached = {} /\ Above[n] \subseteq RunNodes}
            arrays == arrays_after_commit(tops)
            hit == moved(plock, tops, DOMAIN arrays)
        IN  \/ /\ set_arrays(arrays, hit)
               /\ cfg_fill_candidate_from_running
               /\ badFlags' = ((confirmed \/ HasStartup) /\ (badFlags \/ tops # reached))
            \/ /\ \/ \E T \in Backups : backup_loaded(arrays, hit, T)
                  \/ backup_refused(arrays, hit)
               /\ candidate_after_commit(tops)
               /\ badFlags' = TRUE
            \/ \E tried \in SUBSET (tops \cap RunNodes) :
                 \/ /\ set_arrays(rolled_back(plock, tried, candPlock), tried)
                    /\ badFlags' = (badFlags \/ reached # {} \/ RunNodes # CandNodes)
                    /\ UNCHANGED candVars
                 \/ /\ \E T \in Trees :
                         backup_loaded(rolled_back(plock, tried, candPlock), tried, T)
                    /\ badFlags' = TRUE
                    /\ UNCHANGED candVars
  BY DEF commit
<1> DEFINE reached == marked \cup more
           tops == {n \in reached : Above[n] \cap reached = {} /\ Above[n] \subseteq RunNodes}
           arrays == arrays_after_commit(tops)
           hit == moved(plock, tops, DOMAIN arrays)
<1>4. more \subseteq CandNodes
  OBVIOUS
<1>5. tops \in SUBSET CandNodes /\ \A t \in tops : Above[t] \subseteq RunNodes
  BY <1>2, <1>4
<1>6. plockQ' = plockQ
  BY <1>1
<1>7. Backups \subseteq Trees
  OBVIOUS
<1> HIDE DEF Backups
<1>8. \/ /\ set_arrays(arrays, hit)
         /\ cfg_fill_candidate_from_running
         /\ badFlags' = ((confirmed \/ HasStartup) /\ (badFlags \/ tops # reached))
      \/ /\ \/ \E T \in Backups : backup_loaded(arrays, hit, T)
            \/ backup_refused(arrays, hit)
         /\ candidate_after_commit(tops)
         /\ badFlags' = TRUE
      \/ \E tried \in SUBSET (tops \cap RunNodes) :
           \/ /\ set_arrays(rolled_back(plock, tried, candPlock), tried)
              /\ badFlags' = (badFlags \/ reached # {} \/ RunNodes # CandNodes)
              /\ UNCHANGED candVars
           \/ /\ \E T \in Trees : backup_loaded(rolled_back(plock, tried, candPlock), tried, T)
              /\ badFlags' = TRUE
              /\ UNCHANGED candVars
  BY <1>3
<1> HIDE DEF tops, reached
<1>9. TreeArrays(arrays) /\ KeptOutside(arrays, hit)
  BY <1>5, CommitArrays
<1> HIDE DEF arrays, hit
\* The edits are made.
<1>10. ASSUME set_arrays(arrays, hit), cfg_fill_candidate_from_running
      PROVE  RunningWritten /\ CandTypes'
  <2>1. RunningWritten
    BY <1>6, <1>9, <1>10, SetArraysStep DEF RunningWritten
  <2> QED
    BY <1>10, <2>1, FillTypes DEF RunningWritten
\* They are made, and the commit fails late.
<1>11. ASSUME \/ \E T \in Backups : backup_loaded(arrays, hit, T)
             \/ backup_refused(arrays, hit),
             candidate_after_commit(tops)
      PROVE  RunningWritten /\ CandTypes'
  <2>1. CandTypes'
    BY <1>5, <1>11, LateFailure
  <2>2. CASE backup_refused(arrays, hit)
    BY <1>6, <1>9, <2>1, <2>2, BackupRefused
  <2>3. CASE \E T \in Backups : backup_loaded(arrays, hit, T)
    <3>1. PICK T \in Trees : backup_loaded(arrays, hit, T)
      BY <1>7, <2>3
    <3> QED
      BY <1>6, <1>9, <2>1, <3>1, BackupLoaded
  <2> QED
    BY <1>11, <2>2, <2>3
\* They are undone.
<1>12. ASSUME NEW tried \in SUBSET (tops \cap RunNodes), UNCHANGED candVars,
              \/ set_arrays(rolled_back(plock, tried, candPlock), tried)
              \/ \E T \in Trees : backup_loaded(rolled_back(plock, tried, candPlock), tried, T)
       PROVE  RunningWritten /\ CandTypes'
  <2> DEFINE back == rolled_back(plock, tried, candPlock)
  <2>1. CandTypes'
    BY <1>12, CandTypesKept DEF LockInv
  <2>2. \A n \in tried \cap DOMAIN plock : candPlock[n] \in Arrays
    BY <1>5, LockTypesUsed DEF LockInv
  <2>3. TreeArrays(plock)
    BY RunningArrays
  <2>4. /\ TreeArrays(back)
        /\ DOMAIN back = DOMAIN plock
        /\ \A n \in DOMAIN plock \ tried : back[n] = plock[n]
    BY <2>2, <2>3, RolledBackArrays
  <2> HIDE DEF back
  <2>5. KeptOutside(back, tried)
    BY <2>4 DEF KeptOutside, RunNodes
  <2>6. CASE set_arrays(back, tried)
    BY <1>6, <2>1, <2>4, <2>5, <2>6, SetArraysStep DEF RunningWritten
  <2>7. CASE \E T \in Trees : backup_loaded(back, tried, T)
    <3>1. PICK T \in Trees : backup_loaded(back, tried, T)
      BY <2>7
    <3> QED
      BY <1>6, <2>1, <2>4, <2>5, <3>1, BackupLoaded
  <2>8. set_arrays(back, tried) \/ \E T \in Trees : backup_loaded(back, tried, T)
    BY <1>12 DEF back
  <2> QED
    BY <2>6, <2>7, <2>8
<1>13. badFlags' \in BOOLEAN
  BY <1>2, <1>8
<1>14. RunningWritten /\ CandTypes'
  BY <1>8, <1>10, <1>11, <1>12
<1> QED
  BY <1>1, <1>13, <1>14, WriteStep

\* So does the end of a pending commit that is given up.
LEMMA CancelStep ==
    ASSUME LockInv, agt_ncx_cancel_confirmed_commit
    PROVE  /\ UNCHANGED <<alive, lockVars, plockQ, lastId>>
           /\ RunningWritten
           /\ LockInv'
<1>1. /\ UNCHANGED <<alive, lockVars, plockQ, lastId>>
      /\ ccActive' \in BOOLEAN
      /\ \/ /\ \E T \in Trees : backup_loaded(plock, {}, T)
            /\ cfg_fill_candidate_from_running
            /\ badFlags' = FALSE
         \/ /\ backup_refused(plock, {})
            /\ UNCHANGED candVars
            /\ badFlags' = badFlags
  BY DEF agt_ncx_cancel_confirmed_commit
<1>2. TreeArrays(plock) /\ KeptOutside(plock, {})
  BY RunningArrays
<1>3. plockQ' = plockQ
  BY <1>1
<1>4. ASSUME NEW T \in Trees, backup_loaded(plock, {}, T), cfg_fill_candidate_from_running
      PROVE  RunningWritten /\ CandTypes'
  <2>1. RunningWritten
    BY <1>2, <1>3, <1>4, BackupLoaded
  <2> QED
    BY <1>4, <2>1, FillTypes DEF RunningWritten
<1>5. ASSUME backup_refused(plock, {}), UNCHANGED candVars
      PROVE  RunningWritten /\ CandTypes'
  <2>1. RunningWritten
    BY <1>2, <1>3, <1>5, BackupRefused
  <2> QED
    BY <1>5, <2>1, CandTypesKept DEF LockInv
<1>6. RunningWritten /\ CandTypes' /\ badFlags' \in BOOLEAN
  BY <1>1, <1>4, <1>5 DEF LockInv, TypeOK
<1> QED
  BY <1>1, <1>6, WriteStep
-----------------------------------------------------------------------------
(* The invariants. *)

\* Every step keeps what is said of the lock tables, whatever is written meanwhile.
THEOREM LockTablesCorrect == Spec => []LockInv
<1>1. LockInv /\ [Next]_vars => LockInv'
  <2> SUFFICES ASSUME LockInv, [Next]_vars PROVE LockInv'
    OBVIOUS
  <2>1. ASSUME NEW s \in Sessions, agt_ses_new_session(s) PROVE LockInv'
    BY <2>1, NewSessionStep
  <2>2. ASSUME NEW s \in Sessions, agt_ses_free_session(s) PROVE LockInv'
    BY <2>2, FreeSessionStep
  <2>3. ASSUME NEW s \in Sessions, NEW d \in Datastores, Lock(s, d) PROVE LockInv'
    BY <2>3, LockStep
  <2>4. ASSUME NEW s \in Sessions, NEW d \in Datastores, Unlock(s, d) PROVE LockInv'
    BY <2>4, UnlockStep
  <2>5. ASSUME NEW s \in Sessions, NEW sel \in SUBSET RunNodes, PartialLock(s, sel)
        PROVE  LockInv'
    BY <2>5, PartialLockStep
  <2>6. ASSUME NEW s \in Sessions, NEW sel \in SUBSET RunNodes,
               PartialLockDenied(s, sel) \/ PartialLockBackedOut(s, sel)
        PROVE  LockInv'
    BY <2>6, LockIdSpentStep
  <2>7. ASSUME NEW s \in Sessions, NEW i \in LockIds, PartialUnlock(s, i) PROVE LockInv'
    BY <2>7, PartialUnlockStep
  <2>8. ASSUME NEW s \in Sessions, NEW N \in SUBSET CandNodes, edit_values(s, N)
        PROVE  LockInv'
    BY <2>8, EditValuesStep
  <2>9. ASSUME NEW s \in Sessions, NEW n \in Nodes,
               \E T \in {U \cap Subtree[n] : U \in Trees} : put_subtree(s, n, T)
        PROVE  LockInv'
    <3>1. PICK T \in {U \cap Subtree[n] : U \in Trees} : put_subtree(s, n, T)
      BY <2>9
    <3>2. PICK U \in Trees : T = U \cap Subtree[n]
      OBVIOUS
    <3> QED
      BY <3>1, <3>2, PutSubtreeStep
  <2>10. ASSUME NEW s \in Sessions, NEW n \in CandNodes, delete_subtree(s, n) PROVE LockInv'
    BY <2>10, DeleteSubtreeStep
  <2>11. ASSUME NEW s \in Sessions, discard_changes(s) PROVE LockInv'
    <3>1. /\ UNCHANGED <<alive, lockVars, partialVars, ccActive, badFlags>>
          /\ cfg_fill_candidate_from_running
      BY <2>11 DEF discard_changes
    <3> QED
      BY <3>1, FillStep
  <2>12. ASSUME NEW s \in Sessions, NEW src \in Datastores \ {"candidate"},
                copy_config_candidate(s, src)
         PROVE  LockInv'
    BY <2>12, CopyConfigStep
  <2>13. ASSUME NEW s \in Sessions, NEW confirmed \in BOOLEAN, commit(s, confirmed)
         PROVE  LockInv'
    BY <2>13, CommitStep
  <2>14. CASE agt_ncx_cancel_confirmed_commit
    BY <2>14, CancelStep
  <2>15. CASE UNCHANGED vars
    <3>1. /\ UNCHANGED <<alive, lockVars, partialVars, ccActive>>
          /\ UNCHANGED candVars /\ UNCHANGED badFlags
      BY <2>15 DEF vars
    <3>2. CandTypes' /\ badFlags' \in BOOLEAN
      BY <3>1, CandTypesKept DEF LockInv, TypeOK
    <3> QED
      BY <3>1, <3>2, CandidateStep
  <2> QED
    BY <2>1, <2>2, <2>3, <2>4, <2>5, <2>6, <2>7, <2>8, <2>9, <2>10, <2>11, <2>12, <2>13,
       <2>14, <2>15
       DEF Next
<1> QED
  BY InitLockInv, <1>1, PTL DEF Spec

\* Types are kept: states, owners, lock ids, slots, and trees that stay trees under
\* every edit, commit and restore.
THEOREM LockTypes == Spec => []TypeOK
BY LockTablesCorrect, PTL DEF LockInv

\* The lock tables agree with each other and with the sessions that exist: no lock
\* outlives its session, a lock keeps its slot on a node unless a write of <running>
\* was at that node, no slot outlives its lock where nothing came from another tree,
\* and two sessions have a node only where one of the locks lapsed.
THEOREM LockTablesAgree == Spec => []LockTables
BY LockTablesCorrect, PTL DEF LockInv, QueueInv, SlotInv, LockTables

\* A clean candidate has nobody's edits, as long as the candidate is not filled from
\* <startup>.
CleanMeansUnchanged == ~dirty => editors = {}

CandidateInv == CleanMeansUnchanged /\ CandidateLockExclusive

LEMMA FillClean ==
    ASSUME cfg_fill_candidate_from_running PROVE CandidateInv'
BY DEF cfg_fill_candidate_from_running, CandidateInv, CleanMeansUnchanged,
       CandidateLockExclusive

\* An edit of the candidate is made by the holder of its lock, if it has one.
LEMMA EditByHolder ==
    ASSUME CandidateInv, NEW s \in Sessions, edit_config(s)
    PROVE  CandidateInv'
BY DEF edit_config, cfg_ok_to_write, lockVars, CandidateInv, CleanMeansUnchanged,
       CandidateLockExclusive

\* Steps that leave the lock of the candidate and its editors alone.
LEMMA CandidateInvKept ==
    ASSUME CandidateInv, UNCHANGED <<lockVars, dirty, editors>>
    PROVE  CandidateInv'
BY DEF lockVars, CandidateInv, CleanMeansUnchanged, CandidateLockExclusive

\* Without :startup, the holder of the candidate lock is the only session that has
\* edited the candidate since it was last filled.
THEOREM CandidateExclusion ==
    ASSUME HasStartup = FALSE
    PROVE  Spec => []CandidateLockExclusive
<1>1. Init => CandidateInv
  BY RunningIsDatastore DEF Init, CandidateInv, CleanMeansUnchanged, CandidateLockExclusive
<1>2. LockInv /\ CandidateInv /\ [Next]_vars => CandidateInv'
  <2> SUFFICES ASSUME LockInv, CandidateInv, [Next]_vars PROVE CandidateInv'
    OBVIOUS
  <2> USE DEF CandidateInv, CleanMeansUnchanged, CandidateLockExclusive
  <2>1. ASSUME NEW s \in Sessions, agt_ses_new_session(s) PROVE CandidateInv'
    BY <2>1 DEF agt_ses_new_session, lockVars, candVars
  <2>2. ASSUME NEW s \in Sessions, agt_ses_free_session(s) PROVE CandidateInv'
    <3>1. CASE lockedBy["candidate"] = s
      <4>1. cfg_fill_candidate_from_running
        BY <2>2, <3>1, RunningIsDatastore DEF agt_ses_free_session, cfg_release_locks
      <4> QED
        BY <4>1, FillClean
    <3>2. CASE lockedBy["candidate"] # s
      BY <2>2, <3>2, RunningIsDatastore
         DEF agt_ses_free_session, cfg_release_locks, candVars
    <3> QED
      BY <3>1, <3>2
  <2>3. ASSUME NEW s \in Sessions, NEW d \in Datastores, Lock(s, d) PROVE CandidateInv'
    BY <2>3, RunningIsDatastore
       DEF Lock, lock_validate, cfg_ok_to_lock, candVars, LockInv, TypeOK
  <2>4. ASSUME NEW s \in Sessions, NEW d \in Datastores, Unlock(s, d) PROVE CandidateInv'
    <3>1. CASE d = "candidate"
      BY <2>4, <3>1, FillClean DEF Unlock
    <3>2. CASE d # "candidate"
      BY <2>4, <3>2, RunningIsDatastore DEF Unlock, candVars, LockInv, TypeOK
    <3> QED
      BY <3>1, <3>2
  <2>5. ASSUME NEW s \in Sessions, NEW sel \in SUBSET RunNodes,
               \/ PartialLock(s, sel)
               \/ PartialLockDenied(s, sel)
               \/ PartialLockBackedOut(s, sel)
        PROVE  CandidateInv'
    <3>1. UNCHANGED <<lockedBy, dirty, editors>> /\ state'["candidate"] = state["candidate"]
      BY <2>5, RunningIsDatastore
         DEF PartialLock, PartialLockDenied, PartialLockBackedOut, candVars, lockVars,
             LockInv, TypeOK
    <3> QED
      BY <3>1
  <2>6. ASSUME NEW s \in Sessions, NEW i \in LockIds, PartialUnlock(s, i)
        PROVE  CandidateInv'
    BY <2>6, RunningIsDatastore
       DEF PartialUnlock, cfg_delete_partial_lock, candVars, LockInv, TypeOK
  <2>7. ASSUME NEW s \in Sessions, edit_config(s) PROVE CandidateInv'
    BY <2>7, EditByHolder
  <2>8. ASSUME NEW s \in Sessions, discard_changes(s) PROVE CandidateInv'
    BY <2>8, FillClean DEF discard_changes
  <2>9. ASSUME NEW s \in Sessions, NEW src \in Datastores \ {"candidate"},
               copy_config_candidate(s, src)
        PROVE  CandidateInv'
    <3>1. src = "running"
      BY <2>9 DEF Datastores
    <3> QED
      BY <2>9, <3>1, FillClean DEF copy_config_candidate
  <2>10. ASSUME NEW s \in Sessions, NEW confirmed \in BOOLEAN, commit(s, confirmed)
         PROVE  CandidateInv'
    <3>1. cfg_fill_candidate_from_running \/ UNCHANGED <<lockVars, dirty, editors>>
      BY <2>10 DEF commit, candidate_after_commit, candVars
    <3> QED
      BY <3>1, FillClean, CandidateInvKept
  <2>11. CASE agt_ncx_cancel_confirmed_commit
    <3>1. cfg_fill_candidate_from_running \/ UNCHANGED <<lockVars, dirty, editors>>
      BY <2>11 DEF agt_ncx_cancel_confirmed_commit, candVars
    <3> QED
      BY <3>1, FillClean, CandidateInvKept
  <2>12. CASE UNCHANGED vars
    BY <2>12 DEF vars, lockVars, candVars
  <2>13. ASSUME NEW s \in Sessions, NEW N, edit_values(s, N) PROVE CandidateInv'
    BY <2>7, <2>13 DEF edit_values
  <2>14. ASSUME NEW s \in Sessions, NEW n, NEW T, put_subtree(s, n, T) PROVE CandidateInv'
    BY <2>7, <2>14 DEF put_subtree
  <2>15. ASSUME NEW s \in Sessions, NEW n, delete_subtree(s, n) PROVE CandidateInv'
    BY <2>7, <2>15 DEF delete_subtree
  <2> HIDE DEF CandidateInv, CleanMeansUnchanged, CandidateLockExclusive
  <2> QED
    BY <2>1, <2>2, <2>3, <2>4, <2>5, <2>6, <2>8, <2>9, <2>10, <2>11, <2>12, <2>13, <2>14,
       <2>15
       DEF Next
<1> QED
  BY <1>1, <1>2, LockTablesCorrect, PTL DEF Spec, CandidateInv
-----------------------------------------------------------------------------
(* Refinement: every step is a step of AbstractLocks or leaves it as it is. *)

LEMMA InitRefines == Init => Locks!Init
BY DEF Init, Locks!Init, holder, shares

\* What session t has of node n, before and after a step.
LEMMA ShareDef ==
    ASSUME NEW t, NEW n
    PROVE  /\ <<t, n>> \in shares <=>
                \E p \in plockQ : p.sid = t /\ n \in p.nodes /\ <<p.id, n>> \notin lapsed
           /\ <<t, n>> \in shares' <=>
                \E p \in plockQ' : p.sid = t /\ n \in p.nodes /\ <<p.id, n>> \notin lapsed'
<1> DEFINE has(p) == {p.sid} \X {k \in p.nodes : <<p.id, k>> \notin lapsed}
           will(p) == {p.sid} \X {k \in p.nodes : <<p.id, k>> \notin lapsed'}
<1>1. \A p : <<t, n>> \in has(p) <=> p.sid = t /\ n \in p.nodes /\ <<p.id, n>> \notin lapsed
  OBVIOUS
<1>2. \A p : <<t, n>> \in will(p) <=> p.sid = t /\ n \in p.nodes /\ <<p.id, n>> \notin lapsed'
  OBVIOUS
<1>3. shares = UNION {has(p) : p \in plockQ} /\ shares' = UNION {will(p) : p \in plockQ'}
  BY DEF shares
<1> HIDE DEF has, will
<1>4. /\ <<t, n>> \in shares <=> \E p \in plockQ : <<t, n>> \in has(p)
      /\ <<t, n>> \in shares' <=> \E p \in plockQ' : <<t, n>> \in will(p)
  BY <1>3
<1> QED
  BY <1>1, <1>2, <1>4

\* A share is a pair.
LEMMA SharePairs ==
    /\ \A x \in shares : \E t, n : x = <<t, n>>
    /\ \A x \in shares' : \E t, n : x = <<t, n>>
<1> DEFINE has(p) == {p.sid} \X {k \in p.nodes : <<p.id, k>> \notin lapsed}
           will(p) == {p.sid} \X {k \in p.nodes : <<p.id, k>> \notin lapsed'}
<1>1. \A p : \A x \in has(p) \cup will(p) : \E t, n : x = <<t, n>>
  OBVIOUS
<1>2. shares = UNION {has(p) : p \in plockQ} /\ shares' = UNION {will(p) : p \in plockQ'}
  BY DEF shares
<1> HIDE DEF has, will
<1> QED
  BY <1>1, <1>2

\* Steps that change neither the sessions nor the lock tables do not show.
LEMMA HiddenStep ==
    ASSUME UNCHANGED <<alive, state, lockedBy, plockQ, lapsed>>
    PROVE  UNCHANGED Locks!vars
BY DEF Locks!vars, holder, shares

LEMMA LockRefines ==
    ASSUME LockInv, NEW s \in Sessions, NEW d \in Datastores, Lock(s, d)
    PROVE  Locks!GrantGlobal(s, d)
<1>1. holder[d] = NoSession /\ holder' = [holder EXCEPT ![d] = s]
  BY DEF Lock, lock_validate, cfg_ok_to_lock, holder, LockInv, TypeOK
<1>2. d = "running" => shares = {}
  <2>1. d = "running" => state["running"] # "PLOCK"
    BY DEF Lock, lock_validate, cfg_ok_to_lock
  <2>2. d = "running" => plockQ = {}
    BY <2>1 DEF LockInv, QueueInv, PartialLocksKeepRunningReserved
  <2>3. plockQ = {} => \A x \in shares : FALSE
    BY DEF shares
  <2> QED
    BY <2>2, <2>3
<1>3. UNCHANGED <<alive, shares>> /\ s \in alive
  BY DEF Lock, partialVars, slotVars, shares
<1> QED
  BY <1>1, <1>2, <1>3 DEF Locks!GrantGlobal

LEMMA UnlockRefines ==
    ASSUME LockInv, NEW s \in Sessions, NEW d \in Datastores, Unlock(s, d)
    PROVE  Locks!ReleaseGlobal(s, d)
<1>1. holder[d] = s /\ holder' = [holder EXCEPT ![d] = NoSession]
  BY DEF Unlock, cfg_ok_to_unlock, holder, LockInv, TypeOK
<1>2. UNCHANGED <<alive, shares>> /\ s \in alive
  BY DEF Unlock, partialVars, slotVars, shares
<1> QED
  BY <1>1, <1>2 DEF Locks!ReleaseGlobal

\* Setting the state of <running> between READY and PLOCK is invisible.
LEMMA HolderKept ==
    ASSUME LockInv, NEW x \in {"READY", "PLOCK"}, state["running"] # "FLOCK",
           state' = [state EXCEPT !["running"] = x], lockedBy' = lockedBy
    PROVE  holder' = holder
BY DEF holder, LockInv, TypeOK

LEMMA PartialLockRefines ==
    ASSUME LockInv, NEW s \in Sessions, NEW sel \in SUBSET RunNodes, PartialLock(s, sel)
    PROVE  \E nodes \in SUBSET Nodes : Locks!GrantPartial(s, nodes)
<1> DEFINE nodes == plock_make_final_result(sel)
<1>1. PICK b \in Blocks : plockQ' = plockQ \cup
        {[id |-> plock_cb_new, sid |-> s, block |-> b, nodes |-> nodes]}
  BY DEF PartialLock
<1> DEFINE new == [id |-> plock_cb_new, sid |-> s, block |-> b, nodes |-> nodes]
<1>2. /\ state' = [state EXCEPT !["running"] = "PLOCK"]
      /\ UNCHANGED <<alive, lockedBy, lapsed>>
      /\ s \in alive
      /\ partial_lock_validate(s, nodes)
      /\ state["running"] # "FLOCK"
      /\ plock_cb_new # 0
  BY DEF PartialLock, cfg_ok_to_partial_lock
<1>3. nodes \in SUBSET Nodes
  <2>1. sel \in SUBSET Nodes
    BY LockTypesUsed DEF LockInv
  <2> QED
    BY <2>1, FinalResultPruned
<1>4. /\ plockQ' = plockQ \cup {new}
      /\ new.id = plock_cb_new /\ new.sid = s /\ new.nodes = nodes
  BY <1>1
<1> HIDE DEF nodes, new
<1>5. holder' = holder /\ holder["running"] = NoSession
  BY <1>2, HolderKept, RunningIsDatastore DEF holder
\* The id has not lapsed anywhere.
<1>6. \A n : <<new.id, n>> \notin lapsed
  <2>1. \A p \in plockQ : p.id # plock_cb_new
    <3>1. plock_cb_new \in LockIds /\ \A p \in plockQ : p.id < plock_cb_new
      BY <1>2, NewLockId
    <3>2. \A p \in plockQ : p.id \in LockIds
      BY LockTypesUsed DEF LockInv
    <3> QED
      BY <3>1, <3>2 DEF LockIds
  <2>2. ASSUME NEW n, <<new.id, n>> \in lapsed PROVE FALSE
    <3>1. \E p \in plockQ : p.id = <<new.id, n>>[1]
      BY <2>2 DEF LockInv, SlotInv, LapsedQueued
    <3> QED
      BY <1>4, <2>1, <3>1
  <2> QED
    BY <2>2
<1>7. shares' = shares \cup ({s} \X nodes)
  <2>1. ASSUME NEW t, NEW n
        PROVE  <<t, n>> \in shares' <=> <<t, n>> \in shares \/ (t = s /\ n \in nodes)
    <3>1. <<t, n>> \in shares' <=>
            \E p \in plockQ \cup {new} : p.sid = t /\ n \in p.nodes /\ <<p.id, n>> \notin lapsed
      BY <1>2, <1>4, ShareDef
    <3>2. new.sid = t /\ n \in new.nodes /\ <<new.id, n>> \notin lapsed <=> t = s /\ n \in nodes
      BY <1>4, <1>6
    <3> QED
      BY <3>1, <3>2, ShareDef
  <2>2. \A x \in shares' : x \in shares \cup ({s} \X nodes)
    BY <2>1, SharePairs
  <2>3. \A x \in shares : x \in shares'
    BY <2>1, SharePairs
  <2>4. \A n \in nodes : <<s, n>> \in shares'
    BY <2>1
  <2> QED
    BY <2>2, <2>3, <2>4
<1>8. ASSUME NEW n \in nodes, NEW m \in Subtree[n], NEW t \in alive \ {s},
             <<t, m>> \in shares
      PROVE  FALSE
  <2>1. PICK q \in plockQ : q.sid = t /\ m \in q.nodes /\ <<q.id, m>> \notin lapsed
    BY <1>8, ShareDef
  <2> QED
    BY <1>2, <1>3, <2>1, ValidatedNodesFree
<1>9. Locks!GrantPartial(s, nodes)
  BY <1>2, <1>5, <1>7, <1>8 DEF Locks!GrantPartial
<1> QED
  BY <1>3, <1>9

\* A lock leaves the queue: its session's shares of nodes that none of its other
\* locks covers end.
LEMMA PartialUnlockRefines ==
    ASSUME LockInv, NEW s \in Sessions, NEW i \in LockIds, PartialUnlock(s, i)
    PROVE  \E nodes \in SUBSET Nodes : Locks!ReleasePartial(s, nodes)
<1>1. PICK p \in plockQ : p.sid = s /\ cfg_delete_partial_lock(p)
  BY DEF PartialUnlock
<1> DEFINE nodes == {n \in p.nodes : <<s, n>> \notin shares'}
<1>2. nodes \in SUBSET Nodes
  BY DEF LockInv, TypeOK, PartialLocks
<1>3. plockQ' = plockQ \ {p} /\ lapsed' = {l \in lapsed : p.id # l[1]}
  BY <1>1 DEF cfg_delete_partial_lock, free_partial_locks
\* The other locks keep what they have.
<1>4. ASSUME NEW q \in plockQ \ {p}, NEW n PROVE <<q.id, n>> \in lapsed' <=> <<q.id, n>> \in lapsed
  <2>1. q.id # p.id
    BY DEF LockInv, QueueInv, UniqueLocks
  <2>2. <<q.id, n>>[1] = q.id
    OBVIOUS
  <2> QED
    BY <1>3, <2>1, <2>2
<1>5. shares' = shares \ ({s} \X nodes)
  <2>1. ASSUME NEW t, NEW n
        PROVE  <<t, n>> \in shares' <=>
                 \E q \in plockQ \ {p} : q.sid = t /\ n \in q.nodes /\ <<q.id, n>> \notin lapsed
    BY <1>3, <1>4, ShareDef
  <2>2. ASSUME NEW x \in shares' PROVE x \in shares /\ x \notin {s} \X nodes
    <3>1. PICK t, n : x = <<t, n>>
      BY SharePairs
    <3>2. x \in shares
      BY <2>1, <3>1, ShareDef
    <3> QED
      BY <3>1, <3>2
  <2>3. ASSUME NEW x \in shares, x \notin shares' PROVE x \in {s} \X nodes
    <3>1. PICK t, n : x = <<t, n>>
      BY SharePairs
    <3>2. PICK q \in plockQ : q.sid = t /\ n \in q.nodes /\ <<q.id, n>> \notin lapsed
      BY <3>1, ShareDef
    <3>3. q = p
      BY <2>1, <2>3, <3>1, <3>2
    <3> QED
      BY <1>1, <2>3, <3>1, <3>2, <3>3
  <2> QED
    BY <2>2, <2>3
<1>6. holder' = holder
  <2>1. state["running"] = "PLOCK"
    BY DEF LockInv, QueueInv, PartialLocksKeepRunningReserved
  <2> QED
    BY <1>1, <2>1, HolderKept DEF cfg_delete_partial_lock, PartialUnlock
<1>7. s \in alive /\ alive' = alive
  BY DEF PartialUnlock
<1>8. Locks!ReleasePartial(s, nodes)
  BY <1>5, <1>6, <1>7 DEF Locks!ReleasePartial
<1> QED
  BY <1>2, <1>8

LEMMA FreeSessionRefines ==
    ASSUME LockInv, NEW s \in Sessions, agt_ses_free_session(s)
    PROVE  Locks!End(s)
<1> DEFINE gone == {p \in plockQ : p.sid = s}
<1>1. /\ s \in alive
      /\ alive' = alive \ {s}
      /\ plockQ' = plockQ \ gone
      /\ lapsed' = {l \in lapsed : \A p \in gone : p.id # l[1]}
      /\ state' = [d \in Datastores |-> IF lockedBy[d] = s THEN "READY" ELSE state[d]]
      /\ lockedBy' = [d \in Datastores |-> IF lockedBy[d] = s THEN NoSession ELSE lockedBy[d]]
  BY DEF agt_ses_free_session, cfg_release_locks, cfg_release_partial_locks, free_partial_locks
<1>2. holder' = [d \in Datastores |-> IF holder[d] = s THEN NoSession ELSE holder[d]]
  <2> SUFFICES ASSUME NEW d \in Datastores
               PROVE  holder'[d] = IF holder[d] = s THEN NoSession ELSE holder[d]
    BY DEF holder
  <2> QED
    BY <1>1, NoSessionAssumption DEF holder, LockInv, QueueInv, GlobalLockHasLiveOwner
<1>3. ASSUME NEW q \in plockQ \ gone, NEW n
      PROVE  <<q.id, n>> \in lapsed' <=> <<q.id, n>> \in lapsed
  <2>1. \A p \in gone : q.id # p.id
    BY DEF LockInv, QueueInv, UniqueLocks
  <2>2. <<q.id, n>>[1] = q.id
    OBVIOUS
  <2> QED
    BY <1>1, <2>1, <2>2
<1>4. \A q : q \in plockQ' <=> q \in plockQ /\ q.sid # s
  BY <1>1
<1>5. ASSUME NEW t, NEW n
      PROVE  <<t, n>> \in shares' <=> <<t, n>> \in shares /\ t # s
  <2>1. <<t, n>> \in shares <=>
          \E p \in plockQ : p.sid = t /\ n \in p.nodes /\ <<p.id, n>> \notin lapsed
    BY ShareDef
  <2>2. <<t, n>> \in shares' <=>
          \E p \in plockQ' : p.sid = t /\ n \in p.nodes /\ <<p.id, n>> \notin lapsed'
    BY ShareDef
  <2>3. \A q \in plockQ' : <<q.id, n>> \in lapsed' <=> <<q.id, n>> \in lapsed
    BY <1>1, <1>3
  <2> QED
    BY <1>4, <2>1, <2>2, <2>3
<1>6. shares' = {x \in shares : x[1] # s}
  <2>1. ASSUME NEW x PROVE x \in shares' <=> x \in shares /\ x[1] # s
    <3>1. CASE \E t, n : x = <<t, n>>
      BY <1>5, <3>1
    <3>2. CASE ~\E t, n : x = <<t, n>>
      BY <3>2, SharePairs
    <3> QED
      BY <3>1, <3>2
  <2> QED
    BY <2>1
<1> QED
  BY <1>1, <1>2, <1>6 DEF Locks!End

\* A write of <running> ends no session and gives no lock: parts of <running> may stop
\* being held, and only while nobody holds it as a whole.
LEMMA WriteRefines ==
    ASSUME LockInv, UNCHANGED <<alive, lockVars, plockQ>>, lapsed \subseteq lapsed'
    PROVE  Locks!Overwrite \/ UNCHANGED Locks!vars
<1>1. UNCHANGED <<alive, holder>> /\ plockQ' = plockQ
  BY DEF lockVars, holder
<1>2. shares' \subseteq shares
  BY <1>1 DEF shares
<1>3. CASE plockQ = {}
  BY <1>1, <1>3 DEF shares, Locks!vars
<1>4. CASE plockQ # {}
  <2>1. state["running"] = "PLOCK"
    BY <1>4 DEF LockInv, QueueInv, PartialLocksKeepRunningReserved
  <2>2. holder["running"] = NoSession
    BY <2>1, RunningIsDatastore DEF holder
  <2> QED
    BY <1>1, <1>2, <2>2 DEF Locks!Overwrite
<1> QED
  BY <1>3, <1>4

\* The lock tables of netconfd keep the promise of AbstractLocks: grants, releases and
\* ended sessions are its steps, a commit or a restore can only end the hold on nodes
\* of <running>, everything else leaves it unchanged.
THEOREM LocksImplementPromise == Spec => ImplementsLocks
<1>1. LockInv /\ [Next]_vars => [Locks!Next]_(Locks!vars)
  <2> SUFFICES ASSUME LockInv, [Next]_vars PROVE Locks!Next \/ UNCHANGED Locks!vars
    OBVIOUS
  <2>1. ASSUME NEW s \in Sessions, agt_ses_new_session(s) PROVE Locks!Begin(s)
    BY <2>1 DEF agt_ses_new_session, lockVars, partialVars, slotVars, Locks!Begin, holder, shares
  <2>2. ASSUME NEW s \in Sessions, NEW sel \in SUBSET RunNodes, PartialLock(s, sel)
        PROVE  \E nodes \in SUBSET Nodes : Locks!GrantPartial(s, nodes)
    BY <2>2, PartialLockRefines
  <2>3. ASSUME NEW s \in Sessions, NEW sel \in SUBSET RunNodes,
               PartialLockDenied(s, sel) \/ PartialLockBackedOut(s, sel)
        PROVE  UNCHANGED Locks!vars
    <3>1. CASE PartialLockDenied(s, sel)
      BY <3>1, HiddenStep DEF PartialLockDenied, lockVars, slotVars
    <3>2. CASE PartialLockBackedOut(s, sel)
      <4>1. holder' = holder
        BY <3>2, HolderKept DEF PartialLockBackedOut, cfg_ok_to_partial_lock
      <4> QED
        BY <3>2, <4>1 DEF PartialLockBackedOut, slotVars, Locks!vars, shares
    <3> QED
      BY <2>3, <3>1, <3>2
  <2>4. ASSUME \E s \in Sessions :
                 \/ edit_config(s)
                 \/ discard_changes(s)
                 \/ \E src \in Datastores \ {"candidate"} : copy_config_candidate(s, src)
        PROVE  UNCHANGED Locks!vars
    BY <2>4, HiddenStep
       DEF edit_config, discard_changes, copy_config_candidate, lockVars, partialVars, slotVars
  <2>5. ASSUME \E s \in Sessions :
                 \/ \E N \in SUBSET CandNodes : edit_values(s, N)
                 \/ \E n \in Nodes : \E T \in {U \cap Subtree[n] : U \in Trees} :
                       put_subtree(s, n, T)
                 \/ \E n \in CandNodes : delete_subtree(s, n)
        PROVE  UNCHANGED Locks!vars
    BY <2>4, <2>5 DEF edit_values, put_subtree, delete_subtree
  <2>6. ASSUME NEW s \in Sessions, NEW confirmed \in BOOLEAN, commit(s, confirmed)
        PROVE  Locks!Next \/ UNCHANGED Locks!vars
    <3>1. UNCHANGED <<alive, lockVars, plockQ>> /\ lapsed \subseteq lapsed'
      BY <2>6, CommitStep DEF RunningWritten
    <3> QED
      BY <3>1, WriteRefines DEF Locks!Next
  <2>7. CASE agt_ncx_cancel_confirmed_commit
    <3>1. UNCHANGED <<alive, lockVars, plockQ>> /\ lapsed \subseteq lapsed'
      BY <2>7, CancelStep DEF RunningWritten
    <3> QED
      BY <3>1, WriteRefines DEF Locks!Next
  <2>8. CASE UNCHANGED vars
    BY <2>8, HiddenStep DEF vars, lockVars, partialVars, slotVars
  <2>9. \/ \E s \in Sessions :
           \/ agt_ses_new_session(s)
           \/ agt_ses_free_session(s)
           \/ \E d \in Datastores : Lock(s, d) \/ Unlock(s, d)
           \/ \E sel \in SUBSET RunNodes : PartialLock(s, sel)
           \/ \E i \in LockIds : PartialUnlock(s, i)
        \/ Locks!Next
        \/ UNCHANGED Locks!vars
    BY <2>3, <2>4, <2>5, <2>6, <2>7, <2>8 DEF Next
  <2> QED
    BY <2>1, <2>2, <2>9, LockRefines, UnlockRefines, PartialUnlockRefines, FreeSessionRefines
       DEF Locks!Next
<1> QED
  BY InitRefines, <1>1, LockTablesCorrect, PTL DEF Spec, ImplementsLocks, Locks!Spec
=============================================================================
