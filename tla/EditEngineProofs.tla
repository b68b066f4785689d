-------------------------- MODULE EditEngineProofs --------------------------
(***************************************************************************)
(* Theorems about EditEngine, for every schema, every number of nodes, of  *)
(* edits and of values, when a request writes to one case of the choice at *)
(* most (~TwoCases).                                                       *)
(***************************************************************************)
EXTENDS EditEngine, FiniteSetTheorems, WellFoundedInduction, TLAPS

IdSet == Nodes \X Nat
Instance == [node : Nodes, born : Nat, val : Stored \ {None}, deleted : BOOLEAN]
Edits == [op : Ops \cup {"commit"}, node : Nodes, val : Stored]
Actions == {"add", "set", "replace", "delete", "delete_default"}
Undos == [editop : Ops, edit_action : Actions, node : Nodes, val : Stored,
          newnode : SUBSET IdSet, curnode : SUBSET IdSet, curnode_clone : SUBSET Stored,
          free_curnode : BOOLEAN, extra_deleteQ : SUBSET IdSet,
          commit_res : {"skipped", "ok", "failed"}]

\* Instances have an id of their own, and a node has one that is visible.
Forms(t) == t \subseteq Instance /\ \A i, j \in t : Id(i) = Id(j) => i = j
OneEach(t) == \A i, j \in Visible(t) : i.node = j.node => i = j
Has(t, id) == \E i \in t : Id(i) = id

-----------------------------------------------------------------------------
(* The invariant *)

\* What a request is: an edit per node, and one case is written.
Requested(req) ==
  /\ \A k \in 1..Len(req) : /\ req[k].op \in Deletes <=> req[k].val = None
                            /\ req[k].val = Default => Schema[req[k].node].hasDefault
  /\ \A j, k \in 1..Len(req) : req[j].node = req[k].node => j = k
  /\ \A j, k \in 1..Len(req) :
       req[j].op \notin Deletes /\ req[k].op \notin Deletes =>
         \/ None \in {Schema[req[j].node].case, Schema[req[k].node].case}
         \/ Schema[req[j].node].case = Schema[req[k].node].case

Drops(r) == r.edit_action \in {"delete", "replace"}
Sets(r) == r.edit_action \in {"set", "delete_default"}
Erases(r) == r.editop \in Deletes

\* What the k-th undo record says of the contents "bef" that the request
\* found.
Record(r, k, bef) ==
  /\ r.val = Default => Schema[r.node].hasDefault
  /\ r.free_curnode = Drops(r)
  /\ Erases(r) <=> r.edit_action \in {"delete", "delete_default"}
  /\ ~Erases(r) => r.val # None
  /\ r.edit_action = "delete" => ~Schema[r.node].hasDefault
  /\ r.edit_action = "delete_default" => Schema[r.node].hasDefault
  /\ r.newnode = IF r.edit_action \in {"add", "replace"} THEN {<<r.node, k>>} ELSE {}
  /\ r.edit_action = "add" => r.curnode = {} /\ r.curnode_clone = {} /\ bef[r.node] = None
  /\ r.edit_action # "add" =>
       /\ r.curnode = {<<r.node, 0>>} /\ bef[r.node] # None
       /\ r.curnode_clone = IF Schema[r.node].leaf THEN {bef[r.node]} ELSE {}
  /\ Sets(r) => Schema[r.node].leaf
  /\ \A id \in r.extra_deleteQ : id[2] = 0 /\ bef[id[1]] # None

Records(u, bef) ==
  /\ \A k \in 1..Len(u) : Record(u[k], k, bef)
  /\ \A k, l \in 1..Len(u) : u[k].node = u[l].node => k = l
  /\ \A k, l \in 1..Len(u) : \A id \in u[l].extra_deleteQ : id[1] # u[k].node

\* The tree differs from the one that the request found only where an undo
\* record from the p-th on, or the list of dead nodes, tells.
Restorable(t, bef, u, p, dead) ==
  /\ \A n \in Nodes : bef[n] # None => Has(t, <<n, 0>>)
  /\ \A i \in t : i.born = 0 => bef[i.node] # None
  /\ \A i \in t : i.born # 0 => i.born \in p..Len(u) /\ u[i.born].newnode = {Id(i)}
  /\ \A i \in t : i.born = 0 /\ i.val # bef[i.node] =>
                    \E k \in p..Len(u) : u[k].node = i.node /\ Sets(u[k])
  /\ \A i \in t : i.deleted => \/ Id(i) \in dead
                               \/ \E k \in p..Len(u) : Id(i) \in u[k].extra_deleteQ
                               \/ \E k \in p..Len(u) : Id(i) \in u[k].curnode /\ Drops(u[k])

\* Contents with a default filled in and one case.
Sane(c) ==
  \A n \in Nodes :
    /\ c[n] = Default => Schema[n].hasDefault
    /\ c[n] = None => ~Schema[n].hasDefault
    /\ \A m \in Nodes : c[n] # None /\ c[m] # None /\ Schema[n].case # None
                           => Schema[m].case \in {None, Schema[n].case}

Extras(u) == UNION {u[k].extra_deleteQ : k \in 1..Len(u)}
Gone(u, dead) == {id[1] : id \in Extras(u) \cup dead}

\* The tree while it has what the records say was done.
Forward(t, bef, u, dead) ==
  /\ OneEach(t)
  /\ \A i \in t : Id(i) \in Extras(u) \cup dead => i.deleted
  /\ \A k \in 1..Len(u) : \A id \in u[k].newnode : Has(t, id)
  /\ \A id \in dead : Has(t, id)
  /\ Sane(Contents(t))
  /\ \A n \in Gone(u, dead) : ValueOf(t, n) = None
  /\ \A n \in Nodes \ Gone(u, dead) :
       (\A k \in 1..Len(u) : u[k].node # n) => ValueOf(t, n) = bef[n]
  /\ \A k \in 1..Len(u) : u[k].node \notin Gone(u, dead) =>
       ValueOf(t, u[k].node) = told(u[k].node, Erases(u[k]), u[k].val)
  /\ \A id \in dead : Schema[id[1]].when # None /\ ValueOf(t, Schema[id[1]].when) = None

\* A commit brings the tree to the contents of <candidate>.
Candidate(t, req, p) ==
  \E cand \in Legal :
    /\ \A k \in 1..Len(req) : \/ req[k].op = "delete" /\ cand[req[k].node] = None
                              \/ req[k].op = "commit" /\ cand[req[k].node] = req[k].val
    /\ \A n \in Nodes : ValueOf(t, n) = cand[n] \/ \E k \in p..Len(req) : req[k].node = n

\* The contents after 0, 1, ... edits of the abstract specification
AreResults(h, c, edits) ==
  /\ h[0] = c
  /\ \A k \in 1..Len(edits) : h[k] = AE!Edited(h[k-1], edits[k])
  /\ FoldLeft(AE!Edited, c, edits) = h[Len(edits)]
Results(c, edits) == CHOOSE h : AreResults(h, c, edits)
Made(k) == Results(before, request)[k]
Agrees(t, c, dead) == \A n \in Nodes : (\A id \in dead : id[1] # n) => ValueOf(t, n) = c[n]

Types ==
  /\ target \in {"running", "candidate"}
  /\ Forms(tree) /\ sil \in [Nodes -> Stored]
  /\ phase \in {"idle", "apply", "commit", "rollback", "aborted"}
  /\ request \in Seq(Edits) /\ pos \in Nat \ {0}
  /\ undoQ \in Seq(Undos) /\ deadnodeQ \subseteq IdSet
  /\ answer \in {"ok", "error"} /\ before \in Legal /\ untold \subseteq Nodes

AtRest ==
  /\ request = <<>> /\ pos = 1 /\ undoQ = <<>> /\ deadnodeQ = {}
  /\ tree = Instances(before) /\ \A n \in Nodes \ untold : sil[n] = before[n]

InRequest ==
  /\ request # <<>> /\ Requested(request) /\ Records(undoQ, before)
  /\ Restorable(tree, before, undoQ, IF phase = "rollback" THEN pos ELSE 1, deadnodeQ)

InApply ==
  /\ pos <= Len(request) + 1
  /\ Forward(tree, before, undoQ, deadnodeQ)
  /\ \A k \in 1..Len(undoQ) : \E j \in 1..(pos - 1) :
       request[j].node = undoQ[k].node /\ (request[j].op \in Deletes <=> Erases(undoQ[k]))
  /\ \A k \in 1..Len(request), id \in Extras(undoQ) :
       request[k].node = id[1] => request[k].op \in Deletes
  /\ untold = {} /\ sil = before /\ \A k \in 1..Len(undoQ) : undoQ[k].commit_res = "skipped"
  /\ target = "candidate" => deadnodeQ = {} /\ Candidate(tree, request, pos)
  /\ deadnodeQ = {} => Contents(tree) = Made(pos - 1)
  /\ deadnodeQ # {} => pos = Len(request) + 1 /\ Agrees(tree, Made(Len(request)), deadnodeQ)

InCommit ==
  /\ pos <= Len(undoQ) + 1 /\ untold = {}
  /\ Forward(tree, before, undoQ, deadnodeQ)
  /\ \A k \in 1..Len(undoQ) : undoQ[k].commit_res = IF k < pos THEN "ok" ELSE "skipped"
  /\ \A n \in Nodes : (\A k \in 1..(pos - 1) : undoQ[k].node # n) => sil[n] = before[n]
  /\ \A k \in 1..(pos - 1) :
       sil[undoQ[k].node] = told(undoQ[k].node, Erases(undoQ[k]), undoQ[k].val)
  /\ IsLegal(Contents(tree))
  /\ Agrees(tree, Made(Len(request)), deadnodeQ)

InRollback ==
  /\ pos <= Len(undoQ) + 1 /\ deadnodeQ = {}
  /\ \A n \in Nodes \ untold :
       \/ sil[n] = before[n]
       \/ \E k \in pos..Len(undoQ) : undoQ[k].commit_res = "ok" /\ undoQ[k].node = n

IInv ==
  /\ Types
  /\ phase = "idle" => AtRest
  /\ phase # "idle" => InRequest
  /\ phase \in {"apply", "aborted"} => InApply
  /\ phase = "commit" => InCommit
  /\ phase = "rollback" => InRollback

-----------------------------------------------------------------------------
(* Least and greatest elements *)

Less == {ss \in Nat \X Nat : ss[1] < ss[2]}

LEMMA LessIsWellFounded == IsWellFoundedOn(Less, Nat)
<1>1. OpToRel(<, Nat) = Less
  <2>1. ASSUME NEW p \in Nat \X Nat
        PROVE  p \in OpToRel(<, Nat) <=> p \in Less
    BY DEF OpToRel, Less
  <2>2. OpToRel(<, Nat) \subseteq Nat \X Nat /\ Less \subseteq Nat \X Nat
    BY DEF OpToRel, Less
  <2> QED BY <2>1, <2>2, Zenon
<1> QED BY <1>1, NatLessThanWellFounded, Zenon

\* A set of natural numbers that is not empty has a least element.
LEMMA LeastExists ==
  ASSUME NEW S \in SUBSET Nat, S # {}
  PROVE  \E x \in S : \A y \in S : x <= y
<1>1. PICK x \in S : \A y \in S : <<y, x>> \notin Less
  BY LessIsWellFounded, WFMin
<1>2. ASSUME NEW y \in S PROVE x <= y
  <2>1. <<y, x>> \notin Less
    BY <1>1, Zenon
  <2>2. ~(y < x)
    BY <2>1, SMT DEF Less
  <2> QED BY <2>2
<1> QED BY <1>2

\* The Max of a set of numbers is its greatest element.
LEMMA MaxIs ==
  ASSUME NEW S \in SUBSET Nat, NEW m \in S, \A y \in S : m >= y
  PROVE  Max(S) = m
<1>1. Max(S) \in S /\ \A y \in S : Max(S) >= y
  BY Zenon DEF Max
<1>2. Max(S) >= m /\ m >= Max(S) /\ m \in Nat /\ Max(S) \in Nat
  BY <1>1, Zenon
<1> QED BY <1>2, SMT

-----------------------------------------------------------------------------
(* Folds *)

\* A step of either of the two folds of the model: that of an edit of the
\* abstract specification, or of a node of a walk over the nodes in S.
Advance(walking, S, c, e) ==
  IF walking THEN IF e \in S THEN Append(c, e) ELSE c ELSE AE!Edited(c, e)

\* The function that FoldLeft picks: the fold of each set of positions.
IsFold(g, walking, S, c, edits, k) ==
  g = [s \in SUBSET (1..k) |->
         IF s = {} THEN c ELSE Advance(walking, S, g[s \ {Max(s)}], edits[Max(s)])]

LEMMA FoldExists ==
  ASSUME NEW walking, NEW S, NEW c, NEW edits, NEW n \in Nat
  PROVE  \E g : IsFold(g, walking, S, c, edits, n)
<1> DEFINE Step(g, s) == IF s = {} THEN c ELSE Advance(walking, S, g[s \ {Max(s)}], edits[Max(s)])
           G(g, k) == IsFold(g, walking, S, c, edits, k)
           Bad == {k \in 0..n : ~\E g : G(g, k)}
<1>1. SUFFICES ASSUME Bad # {} PROVE FALSE
  <2>1. n \in 0..n
    OBVIOUS
  <2> QED BY <2>1
<1>2. Bad \in SUBSET Nat
  OBVIOUS
<1>3. PICK k \in Bad : \A y \in Bad : k <= y
  BY <1>1, <1>2, LeastExists
<1>4. CASE k = 0
  <2> DEFINE g == [s \in SUBSET (1..0) |-> c]
  <2>1. 1..0 = {}
    OBVIOUS
  <2>2. \A s \in SUBSET (1..0) : s = {}
    BY <2>1
  <2>3. G(g, 0)
    BY <2>2 DEF IsFold
  <2> QED BY <2>3, <1>3, <1>4
<1>5. CASE k # 0
  <2>0. k \in 0..n
    BY <1>3
  <2>1. k \in 1..n /\ k - 1 \in 0..n /\ ~(k <= k - 1)
    BY <2>0, <1>5
  <2>2. k \in 1..n /\ k - 1 \in 0..n /\ k - 1 \notin Bad
    <3> HIDE DEF Bad
    <3> QED BY <2>1, <1>3, Zenon
  <2>3. PICK g0 : G(g0, k - 1)
    BY <2>2
  <2>4. \A s \in SUBSET (1..(k-1)) : g0[s] = Step(g0, s)
    BY <2>3 DEF IsFold
  <2> DEFINE g == [s \in SUBSET (1..k) |->
                     IF k \in s THEN Advance(walking, S, g0[s \ {k}], edits[k]) ELSE g0[s]]
  <2>5. ASSUME NEW s \in SUBSET (1..k) PROVE g[s] = Step(g, s)
    <3>1. CASE k \in s
      <4>1. Max(s) = k
        <5>1. (\A y \in s : k >= y) /\ s \in SUBSET Nat
          BY <2>2
        <5> QED BY <5>1, <3>1, MaxIs
      <4>2. s \ {k} \in SUBSET (1..k) /\ k \notin s \ {k} /\ s # {}
        BY <3>1
      <4>3. g[s \ {k}] = g0[s \ {k}]
        BY <4>2
      <4>4. g[s] = Advance(walking, S, g0[s \ {k}], edits[k])
        BY <3>1
      <4> QED BY <4>1, <4>2, <4>3, <4>4
    <3>2. CASE k \notin s
      <4>1. s \in SUBSET (1..(k-1))
        <5>1. ASSUME NEW i \in s PROVE i \in 1..(k-1)
          <6>1. i \in 1..k /\ i # k
            BY <3>2
          <6> QED BY <6>1, <2>2
        <5> QED BY <5>1
      <4>2. g0[s] = Step(g0, s)
        BY <2>4, <4>1
      <4>3. g[s] = g0[s]
        BY <3>2
      <4>4. CASE s = {}
        BY <4>2, <4>3, <4>4
      <4>5. CASE s # {}
        <5>1. s \ {Max(s)} \in SUBSET (1..k) /\ k \notin s \ {Max(s)}
          BY <3>2
        <5>2. g[s \ {Max(s)}] = g0[s \ {Max(s)}]
          BY <5>1
        <5> QED BY <4>2, <4>3, <4>5, <5>2
      <4> QED BY <4>4, <4>5
    <3> QED BY <3>1, <3>2
  <2>6. G(g, k)
    BY <2>5 DEF IsFold
  <2> QED BY <2>6, <1>3
<1> QED BY <1>4, <1>5

\* It goes through the folds of the first 0, 1, ... elements.
Passes(g, walking, S, c, edits, n) ==
  /\ g[1..0] = c
  /\ \A k \in 1..n : g[1..k] = Advance(walking, S, g[1..(k-1)], edits[k])

LEMMA FoldSteps ==
  ASSUME NEW walking, NEW S, NEW c, NEW edits, NEW n \in Nat,
         NEW g, IsFold(g, walking, S, c, edits, n)
  PROVE  Passes(g, walking, S, c, edits, n)
<1> DEFINE Step(s) == IF s = {} THEN c ELSE Advance(walking, S, g[s \ {Max(s)}], edits[Max(s)])
<1>1. \A s \in SUBSET (1..n) : g[s] = Step(s)
  BY DEF IsFold
<1>2. g[1..0] = c
  <2>1. 1..0 = {} /\ 1..0 \in SUBSET (1..n)
    OBVIOUS
  <2> QED BY <1>1, <2>1
<1>3. ASSUME NEW k \in 1..n PROVE g[1..k] = Advance(walking, S, g[1..(k-1)], edits[k])
  <2>1. k \in 1..k /\ 1..k \in SUBSET (1..n) /\ 1..k \in SUBSET Nat /\ \A y \in 1..k : k >= y
    OBVIOUS
  <2>2. Max(1..k) = k
    BY <2>1, MaxIs
  <2>3. (1..k) \ {k} = 1..(k-1)
    OBVIOUS
  <2> QED BY <1>1, <2>1, <2>2, <2>3
<1> QED BY <1>2, <1>3 DEF Passes

\* The fold of a list of edits goes through the contents after each of them.
LEMMA FoldIsResults ==
  ASSUME NEW c, NEW edits, Len(edits) \in Nat, DOMAIN edits = 1..Len(edits)
  PROVE  AreResults(Results(c, edits), c, edits)
<1> DEFINE n == Len(edits)
           G(g) == g = [s \in SUBSET (1..n) |->
                          IF s = {} THEN c ELSE AE!Edited(g[s \ {Max(s)}], edits[Max(s)])]
<1>1. PICK g : FoldLeft(AE!Edited, c, edits) = g[1..n] /\ g = CHOOSE f : G(f)
  <2>1. DOMAIN edits = 1..n
    OBVIOUS
  <2> QED BY <2>1 DEF FoldLeft, MapThenFoldSet
<1>2. \A f : G(f) <=> IsFold(f, FALSE, {}, c, edits, n)
  BY DEF IsFold, Advance
<1>3. G(g)
  BY <1>1, <1>2, FoldExists
<1>4. /\ g[1..0] = c
      /\ \A k \in 1..n : g[1..k] = AE!Edited(g[1..(k-1)], edits[k])
  <2>1. IsFold(g, FALSE, {}, c, edits, n)
    BY <1>2, <1>3
  <2>2. Passes(g, FALSE, {}, c, edits, n)
    BY <2>1, FoldSteps, Zenon
  <2> QED BY <2>2 DEF Advance, Passes
<1> DEFINE h == [k \in 0..n |-> g[1..k]]
<1>5. /\ 0 \in 0..n /\ n \in 0..n
      /\ \A k \in 1..n : k \in 0..n /\ k - 1 \in 0..n
  OBVIOUS
<1>6. AreResults(h, c, edits)
  <2>1. h[0] = c
    BY <1>4, <1>5
  <2>2. \A k \in 1..n : h[k] = AE!Edited(h[k-1], edits[k])
    BY <1>4, <1>5
  <2>3. FoldLeft(AE!Edited, c, edits) = h[n]
    BY <1>1, <1>5
  <2> QED BY <2>1, <2>2, <2>3 DEF AreResults
<1> HIDE DEF h
<1> QED BY <1>6 DEF Results

\* InSchemaOrder lists the nodes of a set, each of them once.
LEMMA WalkListsNodes ==
  ASSUME NEW S \in SUBSET Nodes
  PROVE  LET walk == InSchemaOrder(S)
         IN  /\ walk \in Seq(S)
             /\ \A n \in S : \E i \in 1..Len(walk) : walk[i] = n
             /\ \A i, j \in 1..Len(walk) : walk[i] = walk[j] => i = j
<1> DEFINE n == Len(SchemaOrder)
           G(g) == g = [s \in SUBSET (1..n) |->
                          IF s = {} THEN <<>>
                          ELSE IF SchemaOrder[Max(s)] \in S
                               THEN Append(g[s \ {Max(s)}], SchemaOrder[Max(s)])
                               ELSE g[s \ {Max(s)}]]
<1>0. n \in Nat /\ DOMAIN SchemaOrder = 1..n
      /\ \A k \in 1..n : SchemaOrder[k] \in Nodes
  BY OrderAssumption
<1>1. PICK g : InSchemaOrder(S) = g[1..n] /\ g = CHOOSE f : G(f)
  BY <1>0 DEF InSchemaOrder, FoldLeft, MapThenFoldSet
<1>2. \A f : G(f) <=> IsFold(f, TRUE, S, <<>>, SchemaOrder, n)
  BY DEF IsFold, Advance
<1>3. G(g)
  BY <1>0, <1>1, <1>2, FoldExists
<1>4. /\ g[1..0] = <<>>
      /\ \A k \in 1..n : g[1..k] = IF SchemaOrder[k] \in S
                                   THEN Append(g[1..(k-1)], SchemaOrder[k]) ELSE g[1..(k-1)]
  <2>1. IsFold(g, TRUE, S, <<>>, SchemaOrder, n)
    BY <1>2, <1>3
  <2>2. Passes(g, TRUE, S, <<>>, SchemaOrder, n)
    BY <1>0, <2>1, FoldSteps, Zenon
  <2> QED BY <2>2 DEF Advance, Passes
<1> DEFINE Lists(w, k) ==
             /\ w \in Seq(S)
             /\ \A i \in 1..Len(w) : \E j \in 1..k : SchemaOrder[j] = w[i]
             /\ \A j \in 1..k : SchemaOrder[j] \in S => \E i \in 1..Len(w) : w[i] = SchemaOrder[j]
             /\ \A i, j \in 1..Len(w) : w[i] = w[j] => i = j
           Bad == {k \in 0..n : ~Lists(g[1..k], k)}
<1>5. Lists(g[1..0], 0)
  BY <1>4
<1>6. ASSUME NEW k \in 1..n, Lists(g[1..(k-1)], k-1) PROVE Lists(g[1..k], k)
  <2> DEFINE v == g[1..(k-1)]
             w == g[1..k]
  <2>1. \A j \in 1..(k-1) : SchemaOrder[j] # SchemaOrder[k]
    BY OrderAssumption, <1>0
  <2>2. CASE SchemaOrder[k] \in S
    <3>1. w = Append(v, SchemaOrder[k])
      BY <1>4, <2>2
    <3> HIDE DEF w
    <3>2. v \in Seq(S) /\ Len(v) \in Nat
      BY <1>6
    <3> HIDE DEF v
    <3>3. w \in Seq(S) /\ Len(w) = Len(v) + 1 /\ w[Len(v)+1] = SchemaOrder[k]
          /\ \A i \in 1..Len(v) : w[i] = v[i]
      BY <3>1, <3>2, <2>2
    <3>4. ASSUME NEW i \in 1..Len(w) PROVE i \in 1..Len(v) \/ i = Len(v) + 1
      BY <3>2, <3>3
    <3>5. \A j \in 1..k : j \in 1..(k-1) \/ j = k
      OBVIOUS
    <3>6. \A i \in 1..Len(v) : v[i] # SchemaOrder[k]
      <4>1. \A i \in 1..Len(v) : \E j \in 1..(k-1) : SchemaOrder[j] = v[i]
        BY <1>6 DEF v
      <4> QED BY <4>1, <2>1
    <3>7. \A i \in 1..Len(w) : \E j \in 1..k : SchemaOrder[j] = w[i]
      <4>1. \A i \in 1..Len(v) : \E j \in 1..(k-1) : SchemaOrder[j] = v[i]
        BY <1>6 DEF v
      <4>2. \A j \in 1..(k-1) : j \in 1..k
        OBVIOUS
      <4>3. k \in 1..k
        OBVIOUS
      <4> QED BY <4>1, <4>2, <4>3, <3>3, <3>4
    <3>8. \A j \in 1..k : SchemaOrder[j] \in S => \E i \in 1..Len(w) : w[i] = SchemaOrder[j]
      <4>1. \A j \in 1..(k-1) : SchemaOrder[j] \in S => \E i \in 1..Len(v) : v[i] = SchemaOrder[j]
        BY <1>6 DEF v
      <4>2. \A i \in 1..Len(v) : i \in 1..Len(w)
        BY <3>2, <3>3
      <4>3. Len(v) + 1 \in 1..Len(w)
        BY <3>2, <3>3
      <4> QED BY <4>1, <4>2, <4>3, <3>3, <3>5
    <3>9. \A i, j \in 1..Len(w) : w[i] = w[j] => i = j
      <4>1. \A i, j \in 1..Len(v) : v[i] = v[j] => i = j
        BY <1>6 DEF v
      <4> QED BY <4>1, <3>3, <3>4, <3>6
    <3> QED BY <3>3, <3>7, <3>8, <3>9 DEF w
  <2>3. CASE SchemaOrder[k] \notin S
    <3>1. w = v
      BY <1>4, <2>3
    <3>5. \A j \in 1..k : j \in 1..(k-1) \/ j = k
      OBVIOUS
    <3>6. \A j \in 1..(k-1) : j \in 1..k
      OBVIOUS
    <3> HIDE DEF w
    <3>7. Lists(v, k)
      <4> HIDE DEF v
      <4>1. Lists(v, k-1)
        BY <1>6 DEF v
      <4> QED BY <4>1, <3>5, <3>6, <2>3
    <3> QED BY <3>1, <3>7 DEF w
  <2> QED BY <2>2, <2>3
<1>7. Bad = {}
  <2>1. SUFFICES ASSUME Bad # {} PROVE FALSE
    OBVIOUS
  <2>2. Bad \in SUBSET Nat
    OBVIOUS
  <2>3. PICK k \in Bad : \A y \in Bad : k <= y
    <3> HIDE DEF Bad
    <3> QED BY <2>1, <2>2, LeastExists
  <2> HIDE DEF Lists
  <2>4. k \in 0..n /\ ~Lists(g[1..k], k)
    BY <2>3
  <2>5. CASE k = 0
    BY <2>4, <2>5, <1>5
  <2>6. CASE k # 0
    <3>1. k \in 1..n /\ k - 1 \in 0..n /\ ~(k <= k - 1)
      BY <2>4, <2>6, <1>0
    <3>2. k - 1 \notin Bad
      <4> HIDE DEF Bad
      <4> QED BY <3>1, <2>3, Zenon
    <3>3. Lists(g[1..(k-1)], k-1)
      BY <3>1, <3>2
    <3> QED BY <3>1, <3>3, <1>6, <2>4
  <2> QED BY <2>5, <2>6
<1>8. Lists(g[1..n], n)
  <2>1. n \in 0..n
    BY <1>0
  <2> HIDE DEF Lists
  <2> QED BY <1>7, <2>1
<1>9. \A m \in S : \E j \in 1..n : SchemaOrder[j] = m
  BY OrderAssumption
<1> DEFINE w == g[1..n]
<1>10. InSchemaOrder(S) = w
  BY <1>1
<1>11. w \in Seq(S) /\ \A i, j \in 1..Len(w) : w[i] = w[j] => i = j
  BY <1>8
<1>12. \A m \in S : \E i \in 1..Len(w) : w[i] = m
  <2>1. \A j \in 1..n : SchemaOrder[j] \in S => \E i \in 1..Len(w) : w[i] = SchemaOrder[j]
    BY <1>8
  <2> QED BY <2>1, <1>9
<1> HIDE DEF w
<1> QED BY <1>10, <1>11, <1>12

-----------------------------------------------------------------------------
(* Marked and changed instances *)

\* An instance and what it was made from
Like(i, j) == i.node = j.node /\ i.born = j.born /\ Id(i) = Id(j)

LEMMA IdOf ==
  ASSUME NEW i, NEW j, Id(i) = Id(j)
  PROVE  i.node = j.node /\ i.born = j.born /\ Like(i, j)
<1>1. Id(i)[1] = Id(j)[1] /\ Id(i)[2] = Id(j)[2]
  OBVIOUS
<1>2. Id(i)[1] = i.node /\ Id(j)[1] = j.node /\ Id(i)[2] = i.born /\ Id(j)[2] = j.born
  BY DEF Id
<1> QED BY <1>1, <1>2 DEF Like

LEMMA IdIs ==
  ASSUME NEW i
  PROVE  Id(i) = <<i.node, i.born>> /\ Id(i)[1] = i.node /\ Id(i)[2] = i.born
BY DEF Id

Marked(i, j, ids, flag) ==
  /\ Like(i, j) /\ i \in Instance /\ i.val = j.val
  /\ i.deleted = IF Id(j) \in ids THEN flag ELSE j.deleted
  /\ Id(j) \notin ids => i = j

LEMMA MarkedFrom ==
  ASSUME NEW t, Forms(t), NEW ids, NEW flag \in BOOLEAN, NEW i \in Mark(t, ids, flag)
  PROVE  \E j \in t : Marked(i, j, ids, flag)
<1>1. PICK j \in t : i = IF Id(j) \in ids THEN [j EXCEPT !.deleted = flag] ELSE j
  BY DEF Mark
<1>2. j \in Instance
  BY DEF Forms
<1>3. CASE Id(j) \in ids
  <2>1. i = [j EXCEPT !.deleted = flag]
    BY <1>1, <1>3
  <2>2. /\ i.node = j.node /\ i.born = j.born /\ i.val = j.val /\ i.deleted = flag
        /\ i \in Instance
    BY <2>1, <1>2 DEF Instance
  <2> QED BY <2>2, <1>3 DEF Like, Id, Marked
<1>4. CASE Id(j) \notin ids
  BY <1>1, <1>2, <1>4 DEF Like, Marked
<1> QED BY <1>3, <1>4

LEMMA MarkedTo ==
  ASSUME NEW t, Forms(t), NEW ids, NEW flag \in BOOLEAN, NEW j \in t
  PROVE  \E i \in Mark(t, ids, flag) : Marked(i, j, ids, flag)
<1>1. j \in Instance
  BY DEF Forms
<1> DEFINE i == IF Id(j) \in ids THEN [j EXCEPT !.deleted = flag] ELSE j
<1>2. i \in Mark(t, ids, flag)
  BY DEF Mark
<1>3. CASE Id(j) \in ids
  <2>1. i = [j EXCEPT !.deleted = flag]
    BY <1>3
  <2> HIDE DEF i
  <2>2. /\ i.node = j.node /\ i.born = j.born /\ i.val = j.val /\ i.deleted = flag
        /\ i \in Instance
    BY <2>1, <1>1 DEF Instance
  <2> QED BY <2>2, <1>2, <1>3 DEF Like, Id, Marked
<1>4. CASE Id(j) \notin ids
  BY <1>1, <1>2, <1>4 DEF Like, Marked
<1> QED BY <1>3, <1>4

LEMMA MarkForms ==
  ASSUME NEW t, Forms(t), NEW ids, NEW flag \in BOOLEAN
  PROVE  Forms(Mark(t, ids, flag))
<1> DEFINE m == Mark(t, ids, flag)
<1>1. m \subseteq Instance
  BY MarkedFrom DEF Marked
<1>2. ASSUME NEW i \in m, NEW k \in m, Id(i) = Id(k) PROVE i = k
  <2>1. PICK j \in t : i = IF Id(j) \in ids THEN [j EXCEPT !.deleted = flag] ELSE j
    BY DEF Mark
  <2>2. PICK l \in t : k = IF Id(l) \in ids THEN [l EXCEPT !.deleted = flag] ELSE l
    BY DEF Mark
  <2>3. j \in Instance /\ l \in Instance
    BY DEF Forms
  <2>4. Id(i) = Id(j)
    BY <2>1, <2>3 DEF Id, Instance
  <2>5. Id(k) = Id(l)
    BY <2>2, <2>3 DEF Id, Instance
  <2>6. j = l
    BY <2>4, <2>5, <1>2 DEF Forms
  <2> QED BY <2>1, <2>2, <2>6
<1> QED BY <1>1, <1>2 DEF Forms

LEMMA MergedFrom ==
  ASSUME NEW t, Forms(t), NEW ids, NEW v \in Stored \ {None}, NEW i \in val_merge(t, ids, v)
  PROVE  \E j \in t : /\ Like(i, j) /\ i \in Instance /\ i.deleted = j.deleted
                      /\ i.val = IF Id(j) \in ids THEN v ELSE j.val
                      /\ Id(j) \notin ids => i = j
<1>1. PICK j \in t : i = IF Id(j) \in ids THEN [j EXCEPT !.val = v] ELSE j
  BY DEF val_merge
<1>2. j \in Instance
  BY DEF Forms
<1>3. CASE Id(j) \in ids
  <2>1. i = [j EXCEPT !.val = v]
    BY <1>1, <1>3
  <2>2. /\ i.node = j.node /\ i.born = j.born /\ i.val = v /\ i.deleted = j.deleted
        /\ i \in Instance
    BY <2>1, <1>2 DEF Instance
  <2> QED BY <2>2, <1>3 DEF Like, Id
<1>4. CASE Id(j) \notin ids
  BY <1>1, <1>2, <1>4 DEF Like
<1> QED BY <1>3, <1>4

LEMMA MergedTo ==
  ASSUME NEW t, Forms(t), NEW ids, NEW v \in Stored \ {None}, NEW j \in t
  PROVE  \E i \in val_merge(t, ids, v) :
           /\ Like(i, j) /\ i \in Instance /\ i.deleted = j.deleted
           /\ i.val = IF Id(j) \in ids THEN v ELSE j.val
           /\ Id(j) \notin ids => i = j
<1>1. j \in Instance
  BY DEF Forms
<1> DEFINE i == IF Id(j) \in ids THEN [j EXCEPT !.val = v] ELSE j
<1>2. i \in val_merge(t, ids, v)
  BY DEF val_merge
<1>3. CASE Id(j) \in ids
  <2>1. i = [j EXCEPT !.val = v]
    BY <1>3
  <2> HIDE DEF i
  <2>2. /\ i.node = j.node /\ i.born = j.born /\ i.val = v /\ i.deleted = j.deleted
        /\ i \in Instance
    BY <2>1, <1>1 DEF Instance
  <2> QED BY <2>2, <1>2, <1>3 DEF Like, Id
<1>4. CASE Id(j) \notin ids
  BY <1>1, <1>2, <1>4 DEF Like
<1> QED BY <1>3, <1>4

LEMMA MergeForms ==
  ASSUME NEW t, Forms(t), NEW ids, NEW v \in Stored \ {None}
  PROVE  Forms(val_merge(t, ids, v))
<1> DEFINE m == val_merge(t, ids, v)
<1>1. m \subseteq Instance
  BY MergedFrom
<1>2. ASSUME NEW i \in m, NEW k \in m, Id(i) = Id(k) PROVE i = k
  <2>1. PICK j \in t : i = IF Id(j) \in ids THEN [j EXCEPT !.val = v] ELSE j
    BY DEF val_merge
  <2>2. PICK l \in t : k = IF Id(l) \in ids THEN [l EXCEPT !.val = v] ELSE l
    BY DEF val_merge
  <2>3. j \in Instance /\ l \in Instance
    BY DEF Forms
  <2>4. Id(i) = Id(j)
    BY <2>1, <2>3 DEF Id, Instance
  <2>5. Id(k) = Id(l)
    BY <2>2, <2>3 DEF Id, Instance
  <2>6. j = l
    BY <2>4, <2>5, <1>2 DEF Forms
  <2> QED BY <2>1, <2>2, <2>6
<1> QED BY <1>1, <1>2 DEF Forms

LEMMA RemoveForms ==
  ASSUME NEW t, Forms(t), NEW ids
  PROVE  Forms(val_remove_child(t, ids))
BY DEF Forms, val_remove_child

LEMMA AddForms ==
  ASSUME NEW t, Forms(t), NEW i \in Instance, ~Has(t, Id(i))
  PROVE  Forms(t \cup {i})
BY DEF Forms, Has

-----------------------------------------------------------------------------
(* The visible instance of a node *)

LEMMA OneVisible ==
  ASSUME NEW t, Forms(t), OneEach(t), NEW i \in Visible(t)
  PROVE  Current(t, i.node) = {i} /\ ValueOf(t, i.node) = i.val /\ i.val # None
<1>1. Current(t, i.node) = {i}
  BY DEF Current, OneEach
<1>2. i \in Instance
  BY DEF Forms, Visible
<1> QED BY <1>1, <1>2 DEF ValueOf, Instance

LEMMA NoneVisible ==
  ASSUME NEW t, NEW n, \A i \in Visible(t) : i.node # n
  PROVE  Current(t, n) = {} /\ ValueOf(t, n) = None
BY DEF Current, ValueOf

LEMMA SomeVisible ==
  ASSUME NEW t, Forms(t), OneEach(t), NEW n, ValueOf(t, n) # None \/ Current(t, n) # {}
  PROVE  \E i \in Visible(t) : i.node = n /\ i.val = ValueOf(t, n) /\ Current(t, n) = {i}
                               /\ ValueOf(t, n) # None
<1>1. Current(t, n) # {}
  BY DEF ValueOf
<1>2. PICK i \in Visible(t) : i.node = n
  BY <1>1 DEF Current
<1> QED BY <1>2, OneVisible

LEMMA ValueType ==
  ASSUME NEW t, Forms(t), OneEach(t), NEW n
  PROVE  ValueOf(t, n) \in Stored
<1>1. CASE ValueOf(t, n) = None
  BY <1>1 DEF Stored
<1>2. CASE ValueOf(t, n) # None
  <2>1. PICK i \in Visible(t) : i.val = ValueOf(t, n)
    BY <1>2, SomeVisible
  <2>2. i \in Instance
    BY DEF Forms, Visible
  <2> QED BY <2>1, <2>2 DEF Instance
<1> QED BY <1>1, <1>2

\* Values after instances were marked, added or changed
LEMMA MarkedVisible ==
  ASSUME NEW t, Forms(t), NEW ids
  PROVE  Visible(VAL_MARK_DELETED(t, ids)) = {i \in Visible(t) : Id(i) \notin ids}
<1> DEFINE m == VAL_MARK_DELETED(t, ids)
<1>1. ASSUME NEW i \in Visible(m) PROVE i \in Visible(t) /\ Id(i) \notin ids
  <2>1. i \in Mark(t, ids, TRUE) /\ ~i.deleted
    BY DEF Visible, VAL_MARK_DELETED
  <2>2. PICK j \in t : Marked(i, j, ids, TRUE)
    BY <2>1, MarkedFrom, TRUE \in BOOLEAN, Zenon
  <2> QED BY <2>1, <2>2 DEF Visible, Marked
<1>2. ASSUME NEW j \in Visible(t), Id(j) \notin ids PROVE j \in Visible(m)
  <2>1. j \in t /\ ~j.deleted
    BY DEF Visible
  <2>2. j \in Mark(t, ids, TRUE)
    <3>1. PICK i \in Mark(t, ids, TRUE) : Marked(i, j, ids, TRUE)
      BY <2>1, MarkedTo, TRUE \in BOOLEAN, Zenon
    <3> QED BY <3>1, <1>2 DEF Marked
  <2> QED BY <2>1, <2>2 DEF Visible, VAL_MARK_DELETED
<1> QED BY <1>1, <1>2

LEMMA MarkedValues ==
  ASSUME NEW t, Forms(t), OneEach(t), NEW ids
  PROVE  LET m == VAL_MARK_DELETED(t, ids)
         IN  /\ Forms(m) /\ OneEach(m)
             /\ \A i \in Visible(t) : Id(i) \in ids => ValueOf(m, i.node) = None
             /\ \A n : (\A i \in Visible(t) : Id(i) \in ids => i.node # n)
                         => ValueOf(m, n) = ValueOf(t, n)
<1> DEFINE m == VAL_MARK_DELETED(t, ids)
<1>1. Visible(m) = {i \in Visible(t) : Id(i) \notin ids}
  BY MarkedVisible
<1>2. Forms(m)
  BY MarkForms DEF VAL_MARK_DELETED
<1> HIDE DEF m
<1>3. OneEach(m)
  BY <1>1 DEF OneEach
<1>4. ASSUME NEW i \in Visible(t), Id(i) \in ids PROVE ValueOf(m, i.node) = None
  <2>1. \A k \in Visible(m) : k.node # i.node
    BY <1>1, <1>4 DEF OneEach
  <2> QED BY <2>1, NoneVisible
<1>5. ASSUME NEW n, \A i \in Visible(t) : Id(i) \in ids => i.node # n
      PROVE  ValueOf(m, n) = ValueOf(t, n)
  <2>1. Current(m, n) = Current(t, n)
    BY <1>1, <1>5 DEF Current
  <2> QED BY <2>1 DEF ValueOf
<1> QED BY <1>2, <1>3, <1>4, <1>5 DEF m

LEMMA AddedValues ==
  ASSUME NEW t, Forms(t), OneEach(t), NEW new \in Instance, ~new.deleted, ~Has(t, Id(new)),
         ValueOf(t, new.node) = None
  PROVE  LET m == t \cup {new}
         IN  /\ Forms(m) /\ OneEach(m)
             /\ ValueOf(m, new.node) = new.val
             /\ \A n : n # new.node => ValueOf(m, n) = ValueOf(t, n)
<1> DEFINE m == t \cup {new}
<1>1. Forms(m)
  BY AddForms
<1>2. Visible(m) = Visible(t) \cup {new}
  BY DEF Visible
<1>3. \A i \in Visible(t) : i.node # new.node
  BY OneVisible
<1> HIDE DEF m
<1>4. OneEach(m)
  BY <1>2, <1>3 DEF OneEach
<1>5. ValueOf(m, new.node) = new.val
  BY <1>1, <1>2, <1>4, OneVisible
<1>6. ASSUME NEW n, n # new.node PROVE ValueOf(m, n) = ValueOf(t, n)
  <2>1. Current(m, n) = Current(t, n)
    BY <1>2, <1>6 DEF Current
  <2> QED BY <2>1 DEF ValueOf
<1> QED BY <1>1, <1>4, <1>5, <1>6 DEF m

LEMMA MergedValues ==
  ASSUME NEW t, Forms(t), OneEach(t), NEW i \in Visible(t), NEW v \in Stored \ {None}
  PROVE  LET m == val_merge(t, {Id(i)}, v)
         IN  /\ Forms(m) /\ OneEach(m)
             /\ ValueOf(m, i.node) = v
             /\ \A n : n # i.node => ValueOf(m, n) = ValueOf(t, n)
<1> DEFINE m == val_merge(t, {Id(i)}, v)
<1>1. Forms(m)
  BY MergeForms
<1>0. i \in t /\ ~i.deleted
  BY DEF Visible
<1>2. PICK c \in m : Like(c, i) /\ c.deleted = i.deleted /\ c.val = v
  BY <1>0, MergedTo
<1>3. c \in Visible(m) /\ c.node = i.node
  BY <1>0, <1>2 DEF Visible, Like
<1>4. ASSUME NEW k \in Visible(m) PROVE k = c \/ (k \in Visible(t) /\ k.node # i.node)
  <2>1. k \in m /\ ~k.deleted
    BY DEF Visible
  <2>2. PICK j \in t : /\ Like(k, j) /\ k.deleted = j.deleted
                       /\ Id(j) \notin {Id(i)} => k = j
    BY <2>1, MergedFrom
  <2>3. CASE Id(j) = Id(i)
    <3>1. Id(k) = Id(c)
      BY <2>2, <2>3, <1>2 DEF Like
    <3> QED BY <3>1, <2>1, <1>1 DEF Forms
  <2>4. CASE Id(j) # Id(i)
    <3>1. k \in Visible(t) /\ k # i
      BY <2>1, <2>2, <2>4 DEF Visible
    <3> QED BY <3>1 DEF OneEach
  <2> QED BY <2>3, <2>4
<1>5. ASSUME NEW k \in Visible(t), k.node # i.node PROVE k \in Visible(m)
  <2>1. k \in t /\ ~k.deleted /\ Id(k) # Id(i)
    BY <1>5, IdOf DEF Visible
  <2>2. k \in m
    BY <2>1, MergedTo
  <2> QED BY <2>1, <2>2 DEF Visible
<1> HIDE DEF m
<1>6. OneEach(m)
  BY <1>3, <1>4 DEF OneEach
<1>7. ValueOf(m, i.node) = v
  BY <1>1, <1>2, <1>3, <1>6, OneVisible
<1>8. ASSUME NEW n, n # i.node PROVE ValueOf(m, n) = ValueOf(t, n)
  <2>1. Current(m, n) = Current(t, n)
    BY <1>3, <1>4, <1>5, <1>8 DEF Current
  <2> QED BY <2>1 DEF ValueOf
<1> QED BY <1>1, <1>6, <1>7, <1>8 DEF m

\* The tree of contents
LEMMA InstancesOf ==
  ASSUME NEW c \in [Nodes -> Stored]
  PROVE  /\ Forms(Instances(c)) /\ OneEach(Instances(c))
         /\ \A i \in Instances(c) : i.born = 0 /\ ~i.deleted /\ i.val = c[i.node] /\ i.val # None
         /\ \A n \in Nodes : c[n] # None => Has(Instances(c), <<n, 0>>)
         /\ \A n \in Nodes : ValueOf(Instances(c), n) = c[n]
         /\ Contents(Instances(c)) = c
<1> DEFINE t == Instances(c)
<1>1. ASSUME NEW i \in t
      PROVE  /\ i \in Instance /\ i.born = 0 /\ ~i.deleted /\ i.val = c[i.node] /\ i.val # None
             /\ i = [node |-> i.node, born |-> 0, val |-> c[i.node], deleted |-> FALSE]
  <2>1. PICK n \in Nodes : c[n] # None /\ i = [node |-> n, born |-> 0, val |-> c[n], deleted |-> FALSE]
    BY DEF Instances
  <2>2. c[n] \in Stored
    OBVIOUS
  <2> QED BY <2>1, <2>2 DEF Instance
<1>2. ASSUME NEW n \in Nodes, c[n] # None
      PROVE  \E i \in t : i.node = n /\ Id(i) = <<n, 0>>
  <2> DEFINE i == [node |-> n, born |-> 0, val |-> c[n], deleted |-> FALSE]
  <2>1. i \in t
    BY <1>2 DEF Instances
  <2>2. Id(i) = <<n, 0>> /\ i.node = n
    BY DEF Id
  <2> QED BY <2>1, <2>2
<1> HIDE DEF t
<1>3. Forms(t)
  <2>1. ASSUME NEW i \in t, NEW j \in t, Id(i) = Id(j) PROVE i = j
    BY <2>1, <1>1, IdOf
  <2> QED BY <2>1, <1>1 DEF Forms
<1>4. Visible(t) = t
  BY <1>1 DEF Visible
<1>5. OneEach(t)
  BY <1>1, <1>4 DEF OneEach
<1>6. ASSUME NEW n \in Nodes PROVE ValueOf(t, n) = c[n]
  <2>1. CASE c[n] = None
    <3>1. \A i \in Visible(t) : i.node # n
      BY <2>1, <1>1, <1>4
    <3> QED BY <3>1, <2>1, NoneVisible
  <2>2. CASE c[n] # None
    <3>1. PICK i \in t : i.node = n
      BY <2>2, <1>2
    <3> QED BY <3>1, <1>1, <1>3, <1>4, <1>5, OneVisible
  <2> QED BY <2>1, <2>2
<1>7. Contents(t) = c
  BY <1>6 DEF Contents
<1>8. \A n \in Nodes : c[n] # None => Has(t, <<n, 0>>)
  BY <1>2 DEF Has
<1> QED BY <1>1, <1>3, <1>5, <1>6, <1>7, <1>8 DEF t

-----------------------------------------------------------------------------
(* What the invariant implies *)

\* A list with an element per node is no longer than there are nodes.
LEMMA ListBounded ==
  ASSUME NEW u, Len(u) \in Nat, \A k \in 1..Len(u) : u[k].node \in Nodes,
         \A j, k \in 1..Len(u) : u[j].node = u[k].node => j = k
  PROVE  Cardinality(Nodes) \in Nat /\ Len(u) <= Cardinality(Nodes)
<1> DEFINE f == [k \in 1..Len(u) |-> u[k].node]
<1>1. f \in Injection(1..Len(u), Nodes)
  BY DEF Injection, IsInjective
<1>2. IsFiniteSet(Nodes)
  BY OrderAssumption
<1>3. Cardinality(1..Len(u)) <= Cardinality(Nodes)
  BY <1>1, <1>2, FS_Injection
<1>4. Cardinality(1..Len(u)) = Len(u)
  <2> DEFINE m == Len(u)
  <2>0. m \in Int /\ 1 \in Int
    OBVIOUS
  <2> HIDE DEF m
  <2>1. Cardinality(1..m) = IF 1 > m THEN 0 ELSE m - 1 + 1
    BY <2>0, FS_Interval
  <2>2. Cardinality(1..m) = m
    <3>1. m \in Nat
      BY DEF m
    <3> QED BY <2>1, <3>1
  <2> QED BY <2>2 DEF m
<1>5. Cardinality(Nodes) \in Nat
  BY <1>2, FS_CardinalityType
<1> QED BY <1>3, <1>4, <1>5

LEMMA InTypeOK ==
  ASSUME IInv
  PROVE  TypeOK
<1> USE DEF IInv
<1> DEFINE N == Cardinality(Nodes)
<1>1. N \in Nat
  BY OrderAssumption, FS_CardinalityType
<1>2. /\ Len(request) \in Nat /\ DOMAIN request = 1..Len(request)
      /\ \A k \in 1..Len(request) : request[k] \in Edits
  BY DEF Types
<1>3. /\ Len(undoQ) \in Nat /\ DOMAIN undoQ = 1..Len(undoQ)
      /\ \A k \in 1..Len(undoQ) : undoQ[k] \in Undos
  BY DEF Types
<1>4. ASSUME phase # "idle" PROVE Len(request) <= N
  <2>1. \A k \in 1..Len(request) : request[k].node \in Nodes
    BY <1>2 DEF Edits
  <2>2. \A j, k \in 1..Len(request) : request[j].node = request[k].node => j = k
    BY <1>4 DEF InRequest, Requested
  <2> QED BY <2>1, <2>2, <1>2, ListBounded
<1>5. ASSUME phase # "idle" PROVE Len(undoQ) <= N
  <2>1. \A k \in 1..Len(undoQ) : undoQ[k].node \in Nodes
    BY <1>3 DEF Undos
  <2>2. \A j, k \in 1..Len(undoQ) : undoQ[j].node = undoQ[k].node => j = k
    BY <1>5 DEF InRequest, Records
  <2> QED BY <2>1, <2>2, <1>3, ListBounded
<1>6. CASE phase = "idle"
  <2>1. undoQ = <<>> /\ deadnodeQ = {} /\ pos = 1 /\ tree = Instances(before)
    BY <1>6 DEF AtRest
  <2>2. \A i \in tree : i.born = 0 /\ i \in Instance
    <3>1. before \in [Nodes -> Stored]
      BY DEF Types, Legal
    <3> QED BY <2>1, <3>1, InstancesOf DEF Forms
  <2>3. tree \subseteq [node : Nodes, born : 0..N, val : Stored \ {None}, deleted : BOOLEAN]
    BY <2>2, <1>1 DEF Instance
  <2> QED BY <2>1, <2>3, <1>1, <1>2 DEF TypeOK, Types, Edits, Legal
<1>7. CASE phase # "idle"
  <2>1. \A i \in tree : i.born \in 0..N /\ i \in Instance
    <3>1. ASSUME NEW i \in tree PROVE i.born \in 0..N /\ i \in Instance
      <4>1. i \in Instance /\ i.born \in Nat
        BY DEF Types, Forms, Instance
      <4>2. i.born # 0 => i.born \in (IF phase = "rollback" THEN pos ELSE 1)..Len(undoQ)
        BY <1>7 DEF InRequest, Restorable
      <4>3. pos \in Nat
        BY DEF Types
      <4> QED BY <4>1, <4>2, <4>3, <1>1, <1>3, <1>5, <1>7
    <3> QED BY <3>1
  <2>2. tree \subseteq [node : Nodes, born : 0..N, val : Stored \ {None}, deleted : BOOLEAN]
    BY <2>1 DEF Instance
  <2>3. pos \in 1..(N + 1)
    <3>1. pos <= Len(request) + 1 \/ pos <= Len(undoQ) + 1
      BY <1>7 DEF Types, InApply, InCommit, InRollback
    <3>2. pos \in Nat /\ pos # 0
      BY DEF Types
    <3> QED BY <3>1, <3>2, <1>1, <1>2, <1>3, <1>4, <1>5, <1>7
  <2>4. \A k \in 1..Len(undoQ) : /\ undoQ[k].node \in Nodes
                                 /\ undoQ[k].commit_res \in {"skipped", "ok", "failed"}
    BY <1>3 DEF Undos
  <2> DEFINE ids == {Id(i) : i \in tree}
  <2>5. \A n \in Nodes : before[n] # None => <<n, 0>> \in ids
    <3>1. \A n \in Nodes : before[n] # None => Has(tree, <<n, 0>>)
      BY <1>7 DEF InRequest, Restorable
    <3> QED BY <3>1 DEF Has
  <2>6. ASSUME NEW k \in 1..Len(undoQ) PROVE undoQ[k].curnode \cup undoQ[k].extra_deleteQ \subseteq ids
    <3>1. Record(undoQ[k], k, before)
      BY <1>7 DEF InRequest, Records
    <3>2. undoQ[k].node \in Nodes /\ undoQ[k].extra_deleteQ \subseteq IdSet
      BY <1>3 DEF Undos
    <3>3. undoQ[k].curnode \subseteq ids
      BY <3>1, <3>2, <2>5 DEF Record
    <3>4. ASSUME NEW id \in undoQ[k].extra_deleteQ PROVE id \in ids
      <4>1. id[2] = 0 /\ before[id[1]] # None /\ id \in IdSet
        BY <3>1, <3>2 DEF Record
      <4>2. id = <<id[1], 0>> /\ id[1] \in Nodes
        BY <4>1 DEF IdSet
      <4> QED BY <4>1, <4>2, <2>5
    <3> QED BY <3>3, <3>4
  <2>7. ASSUME phase # "rollback"
        PROVE  /\ \A k \in 1..Len(undoQ) : undoQ[k].newnode \subseteq ids
               /\ deadnodeQ \subseteq ids
    <3>1. Forward(tree, before, undoQ, deadnodeQ)
      BY <1>7, <2>7 DEF Types, InApply, InCommit
    <3> QED BY <3>1 DEF Forward, Has
  <2>8. deadnodeQ \subseteq ids
    BY <2>7 DEF InRollback
  <2> HIDE DEF ids
  <2>9. \A k \in DOMAIN undoQ :
          /\ undoQ[k].node \in Nodes
          /\ undoQ[k].commit_res \in {"skipped", "ok", "failed"}
          /\ undoQ[k].curnode \cup undoQ[k].extra_deleteQ \subseteq {Id(i) : i \in tree}
          /\ phase # "rollback" => undoQ[k].newnode \subseteq {Id(i) : i \in tree}
    BY <1>3, <2>4, <2>6, <2>7 DEF ids
  <2>10. deadnodeQ \subseteq {Id(i) : i \in tree}
    BY <2>8 DEF ids
  <2>11. \A k \in DOMAIN request :
           request[k] \in [op : Ops \cup {"commit"}, node : Nodes, val : Stored]
    BY <1>2 DEF Edits
  <2> QED BY <2>2, <2>3, <2>9, <2>10, <2>11 DEF TypeOK, Types, Legal
<1> QED BY <1>6, <1>7

LEMMA InSettled ==
  ASSUME IInv
  PROVE  TreeSettled /\ InstrumentationInStep
<1>1. SUFFICES ASSUME phase = "idle"
               PROVE  /\ IsLegal(Contents(tree)) /\ tree = Instances(Contents(tree))
                      /\ \A n \in Nodes \ untold : sil[n] = ValueOf(tree, n)
  BY DEF TreeSettled, InstrumentationInStep
<1>2. before \in Legal /\ before \in [Nodes -> Stored] /\ IsLegal(before)
  BY DEF IInv, Types, Legal
<1>3. tree = Instances(before) /\ \A n \in Nodes \ untold : sil[n] = before[n]
  BY <1>1 DEF IInv, AtRest
<1>4. Contents(tree) = before /\ \A n \in Nodes : ValueOf(tree, n) = before[n]
  BY <1>2, <1>3, InstancesOf
<1> QED BY <1>2, <1>3, <1>4

-----------------------------------------------------------------------------
(* The rollback keeps the invariant *)

LEMMA ValsOf ==
  ASSUME NEW t, Forms(t), NEW i \in t
  PROVE  Vals(t, {Id(i)}) = {i.val} /\ The(Vals(t, {Id(i)})) = i.val
<1>1. Vals(t, {Id(i)}) = {i.val}
  BY DEF Vals, Forms
<1> QED BY <1>1 DEF The

\* The records have the types of their set.
LEMMA UndoTypes ==
  ASSUME Types
  PROVE  /\ Len(undoQ) \in Nat /\ DOMAIN undoQ = 1..Len(undoQ)
         /\ \A k \in 1..Len(undoQ) : undoQ[k] \in Undos /\ undoQ[k].node \in Nodes
                                     /\ undoQ[k].extra_deleteQ \subseteq IdSet
                                     /\ undoQ[k].val \in Stored
         /\ before \in [Nodes -> Stored] /\ IsLegal(before)
         /\ tree \subseteq Instance
         /\ \A i \in tree : i.node \in Nodes /\ i.born \in Nat /\ i.val \in Stored \ {None}
                            /\ i.deleted \in BOOLEAN
<1>1. Len(undoQ) \in Nat /\ DOMAIN undoQ = 1..Len(undoQ)
      /\ \A k \in 1..Len(undoQ) : undoQ[k] \in Undos
  BY DEF Types
<1>2. \A r \in Undos : r.node \in Nodes /\ r.extra_deleteQ \subseteq IdSet /\ r.val \in Stored
  BY DEF Undos
<1>3. before \in [Nodes -> Stored] /\ IsLegal(before)
  BY DEF Types, Legal
<1>4. tree \subseteq Instance
  BY DEF Types, Forms
<1>5. \A i \in tree : i.node \in Nodes /\ i.born \in Nat /\ i.val \in Stored \ {None}
                     /\ i.deleted \in BOOLEAN
  BY <1>4 DEF Instance
<1> QED BY <1>1, <1>2, <1>3, <1>4, <1>5

\* What restore_curnode makes of the tree
LEMMA CurnodeRestored ==
  ASSUME IInv, phase = "rollback", pos <= Len(undoQ)
  PROVE  LET t == restore_curnode(tree)
         IN  /\ Forms(t)
             /\ \A j \in tree : Has(t, Id(j))
             /\ \A i \in t : \E j \in tree :
                  /\ Like(i, j)
                  /\ i.deleted => j.deleted
                  /\ Id(j) \notin undo.curnode => i = j
                  /\ Id(j) \in undo.curnode /\ Drops(undo) => ~i.deleted
                  /\ Id(j) \in undo.curnode /\ Sets(undo) => i.val = before[i.node]
                  /\ i.val = j.val \/ i.val = before[i.node]
<1> DEFINE r == undo
           n == undo.node
           t == restore_curnode(tree)
           P(i, j) == /\ Like(i, j)
                      /\ i.deleted => j.deleted
                      /\ Id(j) \notin r.curnode => i = j
                      /\ Id(j) \in r.curnode /\ Drops(r) => ~i.deleted
                      /\ Id(j) \in r.curnode /\ Sets(r) => i.val = before[i.node]
                      /\ i.val = j.val \/ i.val = before[i.node]
<1>1. Types /\ Forms(tree) /\ pos \in 1..Len(undoQ)
  BY UndoTypes DEF IInv, Types
<1>2. /\ r \in Undos /\ n \in Nodes /\ before \in [Nodes -> Stored]
  BY <1>1, UndoTypes DEF undo
<1>3. Record(r, pos, before) /\ Records(undoQ, before)
  BY <1>1 DEF IInv, InRequest, Records, undo
<1>4. Restorable(tree, before, undoQ, pos, {})
  BY DEF IInv, InRequest, InRollback
<1> DEFINE marked == \E i \in tree : Id(i) \in r.curnode /\ i.deleted
<1>5. CASE marked
  <2>1. t = Mark(tree, r.curnode, FALSE)
    BY <1>5 DEF restore_curnode, VAL_UNMARK_DELETED
  <2>2. Forms(t)
    BY <1>1, <2>1, MarkForms
  <2>3. ASSUME NEW j \in tree PROVE Has(t, Id(j))
    <3>1. PICK i \in t : Marked(i, j, r.curnode, FALSE)
      BY <1>1, <2>1, MarkedTo, FALSE \in BOOLEAN, Zenon
    <3> QED BY <3>1 DEF Marked, Like, Has
  <2>4. \A j \in tree : Id(j) \in r.curnode => ~Sets(r)
    <3>1. ASSUME Sets(r) PROVE FALSE
      <4>1. PICK j \in tree : Id(j) \in r.curnode /\ j.deleted
        BY <1>5
      <4>2. r.curnode = {<<n, 0>>}
        BY <1>3, <3>1 DEF Record, Sets
      <4>3. Id(j) = <<n, 0>> /\ j.node = n
        BY <4>1, <4>2 DEF Id
      <4>4. \/ \E k \in pos..Len(undoQ) : Id(j) \in undoQ[k].extra_deleteQ
            \/ \E k \in pos..Len(undoQ) : Id(j) \in undoQ[k].curnode /\ Drops(undoQ[k])
        BY <1>4, <4>1 DEF Restorable
      <4>5. \A k \in pos..Len(undoQ) : k \in 1..Len(undoQ)
        BY <1>1
      <4>6. ASSUME NEW k \in pos..Len(undoQ), Id(j) \in undoQ[k].extra_deleteQ PROVE FALSE
        <5>1. Id(j)[1] # undoQ[pos].node
          BY <4>5, <4>6, <1>1, <1>3 DEF Records
        <5> QED BY <5>1, <4>3 DEF undo
      <4>7. ASSUME NEW k \in pos..Len(undoQ), Id(j) \in undoQ[k].curnode, Drops(undoQ[k]) PROVE FALSE
        <5>1. Record(undoQ[k], k, before)
          BY <4>5, <1>3 DEF Records
        <5>2. Id(j) = <<undoQ[k].node, 0>>
          BY <5>1, <4>7 DEF Record, Drops
        <5>3. undoQ[k].node = undoQ[pos].node
          BY <5>2, <4>3 DEF undo
        <5>4. k = pos
          BY <5>3, <4>5, <1>1, <1>3 DEF Records
        <5> QED BY <5>4, <4>7, <3>1 DEF Drops, Sets, undo
      <4> QED BY <4>4, <4>6, <4>7
    <3> QED BY <3>1
  <2>5. ASSUME NEW i \in t PROVE \E j \in tree : P(i, j)
    <3>1. PICK j \in tree : Marked(i, j, r.curnode, FALSE)
      BY <1>1, <2>1, MarkedFrom, FALSE \in BOOLEAN, Zenon
    <3>2. P(i, j)
      BY <3>1, <2>4 DEF Marked
    <3> QED BY <3>2
  <2> HIDE DEF P, t
  <2>6. (\A i \in t : \E j \in tree : P(i, j)) /\ Forms(t) /\ \A j \in tree : Has(t, Id(j))
    BY <2>2, <2>3, <2>5
  <2> QED BY <2>6 DEF P, t
<1>6. CASE ~marked /\ r.curnode_clone # {}
  <2>1. r.curnode_clone = {before[n]} /\ before[n] # None /\ r.curnode = {<<n, 0>>}
    BY <1>3, <1>6 DEF Record
  <2>2. The(r.curnode_clone) = before[n] /\ before[n] \in Stored \ {None}
    BY <2>1, <1>2 DEF The
  <2>3. t = val_merge(tree, r.curnode, before[n])
    BY <1>6, <2>2 DEF restore_curnode
  <2>4. Forms(t)
    BY <1>1, <2>2, <2>3, MergeForms
  <2>5. ASSUME NEW j \in tree PROVE Has(t, Id(j))
    <3>1. PICK i \in t : Like(i, j)
      BY <1>1, <2>2, <2>3, MergedTo
    <3> QED BY <3>1 DEF Like, Has
  <2>6. ASSUME NEW i \in t PROVE \E j \in tree : P(i, j)
    <3>1. PICK j \in tree : /\ Like(i, j) /\ i.deleted = j.deleted
                            /\ i.val = IF Id(j) \in r.curnode THEN before[n] ELSE j.val
                            /\ Id(j) \notin r.curnode => i = j
      BY <1>1, <2>2, <2>3, MergedFrom
    <3>2. Id(j) \in r.curnode => i.node = n /\ ~j.deleted
      BY <3>1, <2>1, <1>6, IdIs DEF Like
    <3>3. P(i, j)
      BY <3>1, <3>2
    <3> QED BY <3>3
  <2> HIDE DEF P, t
  <2>7. (\A i \in t : \E j \in tree : P(i, j)) /\ Forms(t) /\ \A j \in tree : Has(t, Id(j))
    BY <2>4, <2>5, <2>6
  <2> QED BY <2>7 DEF P, t
<1>7. CASE ~marked /\ r.curnode_clone = {}
  <2>1. t = tree
    BY <1>7 DEF restore_curnode
  <2>2. ~Sets(r) \/ r.curnode = {}
    BY <1>3, <1>7 DEF Record, Sets
  <2>3. ASSUME NEW i \in t PROVE P(i, i)
    BY <2>1, <2>2, <1>7 DEF Like
  <2>4. \A j \in tree : Has(t, Id(j))
    BY <2>1 DEF Has
  <2> HIDE DEF P, t
  <2>5. (\A i \in t : \E j \in tree : P(i, j)) /\ Forms(t) /\ \A j \in tree : Has(t, Id(j))
    BY <2>1, <2>3, <2>4, <1>1
  <2> QED BY <2>5 DEF P, t
<1> QED BY <1>5, <1>6, <1>7

\* What the callbacks of a reverse edit make of the instrumentation
LEMMA ReverseKeepsValues ==
  ASSUME IInv, phase = "rollback", pos <= Len(undoQ), reverse_edit
  PROVE  /\ sil' \in [Nodes -> Stored] /\ untold' \subseteq Nodes
         /\ \A n \in Nodes \ untold' :
              \/ sil'[n] = before[n]
              \/ \E k \in (pos+1)..Len(undoQ) : undoQ[k].commit_res = "ok" /\ undoQ[k].node = n
<1> DEFINE r == undo
           Left(n) == \E k \in (pos+1)..Len(undoQ) : undoQ[k].commit_res = "ok" /\ undoQ[k].node = n
<1>1. Types /\ Forms(tree) /\ pos \in 1..Len(undoQ) /\ Len(undoQ) \in Nat
  BY UndoTypes DEF IInv, Types
<1>2. /\ r \in Undos /\ r.node \in Nodes /\ before \in [Nodes -> Stored] /\ IsLegal(before)
      /\ r.extra_deleteQ \subseteq IdSet /\ r.val \in Stored /\ r = undoQ[pos]
      /\ r.edit_action \in Actions
  BY <1>1, UndoTypes DEF undo, Undos
<1>3. Record(r, pos, before) /\ Records(undoQ, before)
  BY <1>1 DEF IInv, InRequest, Records, undo
<1>4. Restorable(tree, before, undoQ, pos, {})
  BY DEF IInv, InRequest, InRollback
<1>5. \A n \in Nodes \ untold : \/ sil[n] = before[n]
                                \/ \E k \in pos..Len(undoQ) : undoQ[k].commit_res = "ok" /\ undoQ[k].node = n
  BY DEF IInv, InRollback
<1>6. ASSUME NEW n \in Nodes \ untold, n # r.node PROVE sil[n] = before[n] \/ Left(n)
  <2>1. CASE sil[n] = before[n]
    BY <2>1
  <2>2. CASE \E k \in pos..Len(undoQ) : undoQ[k].commit_res = "ok" /\ undoQ[k].node = n
    <3>1. PICK k \in pos..Len(undoQ) : undoQ[k].commit_res = "ok" /\ undoQ[k].node = n
      BY <2>2
    <3>2. k # pos
      BY <3>1, <1>2, <1>6
    <3>3. k \in (pos+1)..Len(undoQ)
      BY <3>2, <1>1
    <3> QED BY <3>1, <3>3
  <2> QED BY <2>1, <2>2, <1>5
\* The instance of a node that was there, and its value
<1>7. ASSUME NEW n \in Nodes, before[n] # None
      PROVE  LET v == The(Vals(tree, {<<n, 0>>}))
             IN  /\ v \in Stored
                 /\ (\A k \in pos..Len(undoQ) : undoQ[k].node = n => ~Sets(undoQ[k])) => v = before[n]
  <2>1. PICK i \in tree : Id(i) = <<n, 0>>
    BY <1>4, <1>7 DEF Restorable, Has
  <2>2. i.node = n /\ i.born = 0 /\ i.val \in Stored
    BY <2>1, <1>1, IdIs, UndoTypes
  <2>3. The(Vals(tree, {<<n, 0>>})) = i.val
    BY <2>1, <1>1, ValsOf
  <2>4. i.val # before[n] => \E k \in pos..Len(undoQ) : undoQ[k].node = n /\ Sets(undoQ[k])
    BY <2>2, <1>4 DEF Restorable
  <2> QED BY <2>2, <2>3, <2>4
<1>8. \A k \in pos..Len(undoQ) : k \in 1..Len(undoQ)
  BY <1>1
<1>9. reversed \in Stored /\ (r.edit_action # "delete_default" => reversed = before[r.node])
  <2>0. r.val \in Stored /\ None \in Stored /\ Default \in Stored /\ Default # None
    BY <1>2, SchemaAssumption DEF Stored
  <2>1. CASE r.edit_action = "add"
    <3>1. before[r.node] = None /\ ~Schema[r.node].hasDefault
      BY <2>1, <1>2, <1>3 DEF Record, IsLegal
    <3>2. reversed = None
      BY <2>1, <3>1 DEF reversed, told
    <3> QED BY <3>1, <3>2, <2>0
  <2>2. CASE r.edit_action = "set"
    <3>1. r.curnode_clone = {before[r.node]}
      BY <2>2, <1>3 DEF Record, Sets
    <3>2. reversed = The({before[r.node]})
      BY <2>2, <3>1 DEF reversed
    <3>3. reversed = before[r.node]
      BY <3>2 DEF The
    <3> QED BY <3>3, <1>2
  <2>3. CASE r.edit_action \notin {"add", "set"}
    <3>1. r.curnode = {<<r.node, 0>>} /\ before[r.node] # None
      BY <2>3, <1>3 DEF Record
    <3>2. reversed = The(Vals(tree, {<<r.node, 0>>}))
      BY <2>3, <3>1 DEF reversed
    <3>3. reversed \in Stored
      BY <3>1, <3>2, <1>2, <1>7
    <3>4. ASSUME r.edit_action # "delete_default" PROVE reversed = before[r.node]
      <4>1. ASSUME NEW k \in pos..Len(undoQ), undoQ[k].node = r.node PROVE ~Sets(undoQ[k])
        <5>1. k = pos
          BY <4>1, <1>1, <1>2, <1>3, <1>8 DEF Records
        <5> QED BY <5>1, <2>3, <3>4, <1>2 DEF Sets
      <4> QED BY <4>1, <3>1, <3>2, <1>2, <1>7
    <3> QED BY <3>3, <3>4
  <2> QED BY <2>1, <2>2, <2>3
<1>10. CASE untold' = untold \cup {r.node} /\ sil' = sil
  BY <1>10, <1>1, <1>2, <1>6 DEF Types
<1>11. ASSUME NEW created \in SUBSET r.extra_deleteQ,
              sil' = [n \in Nodes |->
                    IF n = r.node THEN reversed
                    ELSE IF \E id \in created : id[1] = n
                         THEN The(Vals(tree, {id \in created : id[1] = n}))
                         ELSE sil[n]],
              untold' = IF r.edit_action = "delete_default" THEN untold \cup {r.node} ELSE untold
       PROVE  /\ sil' \in [Nodes -> Stored] /\ untold' \subseteq Nodes
              /\ \A n \in Nodes \ untold' : sil'[n] = before[n] \/ Left(n)
  <2>1. ASSUME NEW id \in created
        PROVE  /\ id[1] \in Nodes /\ before[id[1]] # None /\ {d \in created : d[1] = id[1]} = {<<id[1], 0>>}
               /\ \A k \in pos..Len(undoQ) : undoQ[k].node # id[1]
    <3>1. \A d \in created : d[2] = 0 /\ before[d[1]] # None /\ d \in IdSet
      BY <1>2, <1>3 DEF Record
    <3>2. \A d \in created : d = <<d[1], 0>>
      BY <3>1 DEF IdSet
    <3>3. \A k \in 1..Len(undoQ) : id[1] # undoQ[k].node
      BY <1>1, <1>2, <1>3 DEF Records
    <3> QED BY <3>1, <3>2, <3>3, <1>8 DEF IdSet
  <2>2. ASSUME NEW n \in Nodes
        PROVE  sil'[n] \in Stored /\ (n \notin untold' => sil'[n] = before[n] \/ Left(n))
    <3>1. CASE n = r.node
      <4>1. sil'[n] = reversed
        BY <1>11, <3>1
      <4> QED BY <4>1, <3>1, <1>9, <1>11
    <3>2. CASE n # r.node /\ \E id \in created : id[1] = n
      <4>1. sil'[n] = The(Vals(tree, {id \in created : id[1] = n}))
        BY <1>11, <3>2
      <4>2. /\ before[n] # None /\ {d \in created : d[1] = n} = {<<n, 0>>}
            /\ \A k \in pos..Len(undoQ) : undoQ[k].node # n
        BY <3>2, <2>1
      <4>3. sil'[n] \in Stored /\ sil'[n] = before[n]
        BY <4>1, <4>2, <1>7
      <4> QED BY <4>3
    <3>3. CASE n # r.node /\ ~\E id \in created : id[1] = n
      <4>1. sil'[n] = sil[n]
        BY <1>11, <3>3
      <4>2. n \notin untold' => n \notin untold
        BY <1>11
      <4> QED BY <4>1, <4>2, <3>3, <1>1, <1>6 DEF Types
    <3> QED BY <3>1, <3>2, <3>3
  <2>3. sil' = [n \in Nodes |-> sil'[n]]
    BY <1>11
  <2>4. untold' \subseteq Nodes
    BY <1>1, <1>2, <1>11 DEF Types
  <2> QED BY <2>2, <2>3, <2>4
<1> QED BY <1>10, <1>11 DEF reverse_edit

\* What rollback_edit makes of the tree
LEMMA RollbackRestores ==
  ASSUME IInv, phase = "rollback", pos <= Len(undoQ)
  PROVE  Forms(rollback_tree) /\ Restorable(rollback_tree, before, undoQ, pos + 1, {})
<1> DEFINE r == undo
           n == undo.node
           t == restore_curnode(tree)
           u == val_remove_child(t, r.newnode)
           w == Mark(u, r.extra_deleteQ, FALSE)
<1>1. Types /\ Forms(tree) /\ pos \in 1..Len(undoQ) /\ Len(undoQ) \in Nat
  BY UndoTypes DEF IInv, Types
<1>2. r \in Undos /\ n \in Nodes /\ before \in [Nodes -> Stored] /\ r = undoQ[pos]
      /\ r.edit_action \in Actions
  BY <1>1, UndoTypes DEF undo, Undos
<1>3. Record(r, pos, before) /\ Records(undoQ, before)
  BY <1>1 DEF IInv, InRequest, Records, undo
<1>4. Restorable(tree, before, undoQ, pos, {})
  BY DEF IInv, InRequest, InRollback
<1>5. Forms(t) /\ \A j \in tree : Has(t, Id(j))
  BY CurnodeRestored
<1>6. ASSUME NEW i \in t
      PROVE  \E j \in tree : /\ Like(i, j)
                             /\ i.deleted => j.deleted
                             /\ Id(j) \notin r.curnode => i = j
                             /\ Id(j) \in r.curnode /\ Drops(r) => ~i.deleted
                             /\ Id(j) \in r.curnode /\ Sets(r) => i.val = before[i.node]
                             /\ i.val = j.val \/ i.val = before[i.node]
  BY CurnodeRestored
<1> HIDE DEF t
<1>7. Forms(u)
  BY <1>5, RemoveForms
<1>8. rollback_tree = w
  BY DEF rollback_tree, VAL_UNMARK_DELETED, t
<1>9. Forms(w)
  BY <1>7, MarkForms
<1>10. \A k \in pos..Len(undoQ) : k = pos \/ k \in (pos+1)..Len(undoQ)
  BY <1>1
<1>11. ASSUME NEW i \in w
       PROVE  \E j \in tree :
                /\ Like(i, j)
                /\ Id(j) \notin r.newnode
                /\ i.deleted => j.deleted /\ Id(j) \notin r.extra_deleteQ
                /\ i.deleted => ~(Id(j) \in r.curnode /\ Drops(r))
                /\ i.val # before[i.node] => i.val = j.val /\ ~(Id(j) \in r.curnode /\ Sets(r))
  <2>1. PICK x \in u : Marked(i, x, r.extra_deleteQ, FALSE)
    BY <1>7, MarkedFrom, FALSE \in BOOLEAN, Zenon
  <2>2. x \in t /\ Id(x) \notin r.newnode
    BY DEF val_remove_child
  <2>3. PICK j \in tree : /\ Like(x, j)
                          /\ x.deleted => j.deleted
                          /\ Id(j) \notin r.curnode => x = j
                          /\ Id(j) \in r.curnode /\ Drops(r) => ~x.deleted
                          /\ Id(j) \in r.curnode /\ Sets(r) => x.val = before[x.node]
                          /\ x.val = j.val \/ x.val = before[x.node]
    BY <2>2, <1>6
  <2>4. /\ i.node = x.node /\ i.val = x.val /\ Id(i) = Id(x) /\ Id(x) = Id(j) /\ Like(i, j)
        /\ i.deleted => x.deleted /\ Id(x) \notin r.extra_deleteQ
    BY <2>1, <2>3 DEF Marked, Like
  <2> QED BY <2>2, <2>3, <2>4
<1>12. ASSUME NEW m \in Nodes, before[m] # None PROVE Has(w, <<m, 0>>)
  <2>1. PICK j \in tree : Id(j) = <<m, 0>>
    BY <1>4, <1>12 DEF Restorable, Has
  <2>2. PICK x \in t : Id(x) = <<m, 0>>
    BY <2>1, <1>5 DEF Has
  <2>3. <<m, 0>> \notin r.newnode
    BY <1>1, <1>3 DEF Record
  <2>4. x \in u
    BY <2>2, <2>3 DEF val_remove_child
  <2>5. PICK i \in w : Marked(i, x, r.extra_deleteQ, FALSE)
    BY <2>4, <1>7, MarkedTo, FALSE \in BOOLEAN, Zenon
  <2> QED BY <2>2, <2>5 DEF Marked, Like, Has
<1>13. ASSUME NEW i \in w
       PROVE  /\ i.born = 0 => before[i.node] # None
              /\ i.born # 0 => i.born \in (pos+1)..Len(undoQ) /\ undoQ[i.born].newnode = {Id(i)}
              /\ i.born = 0 /\ i.val # before[i.node] =>
                   \E k \in (pos+1)..Len(undoQ) : undoQ[k].node = i.node /\ Sets(undoQ[k])
              /\ i.deleted =>
                   \/ \E k \in (pos+1)..Len(undoQ) : Id(i) \in undoQ[k].extra_deleteQ
                   \/ \E k \in (pos+1)..Len(undoQ) : Id(i) \in undoQ[k].curnode /\ Drops(undoQ[k])
  <2>1. PICK j \in tree :
                /\ Like(i, j)
                /\ Id(j) \notin r.newnode
                /\ i.deleted => j.deleted /\ Id(j) \notin r.extra_deleteQ
                /\ i.deleted => ~(Id(j) \in r.curnode /\ Drops(r))
                /\ i.val # before[i.node] => i.val = j.val /\ ~(Id(j) \in r.curnode /\ Sets(r))
    BY <1>11
  <2>2. i.node = j.node /\ i.born = j.born /\ Id(i) = Id(j)
    BY <2>1 DEF Like
  <2>3. i.born = 0 => before[i.node] # None
    BY <2>2, <1>4 DEF Restorable
  <2>4. ASSUME i.born # 0 PROVE i.born \in (pos+1)..Len(undoQ) /\ undoQ[i.born].newnode = {Id(i)}
    <3>1. j.born \in pos..Len(undoQ) /\ undoQ[j.born].newnode = {Id(j)}
      BY <2>2, <2>4, <1>4 DEF Restorable
    <3>2. j.born # pos
      BY <3>1, <2>1, <1>2
    <3> QED BY <3>1, <3>2, <2>2, <1>10
  <2>5. ASSUME i.born = 0, i.val # before[i.node]
        PROVE  \E k \in (pos+1)..Len(undoQ) : undoQ[k].node = i.node /\ Sets(undoQ[k])
    <3>1. PICK k \in pos..Len(undoQ) : undoQ[k].node = j.node /\ Sets(undoQ[k])
      BY <2>1, <2>2, <2>5, <1>4 DEF Restorable
    <3>2. ASSUME k = pos PROVE FALSE
      <4>1. r.node = j.node /\ Sets(r)
        BY <3>1, <3>2, <1>2
      <4>2. r.curnode = {<<j.node, 0>>}
        BY <4>1, <1>3 DEF Record, Sets
      <4>3. Id(j) \in r.curnode
        BY <4>2, <2>2, <2>5, IdIs
      <4> QED BY <4>1, <4>3, <2>1, <2>5
    <3> QED BY <3>1, <3>2, <2>2, <1>10
  <2>6. ASSUME i.deleted
        PROVE  \/ \E k \in (pos+1)..Len(undoQ) : Id(i) \in undoQ[k].extra_deleteQ
               \/ \E k \in (pos+1)..Len(undoQ) : Id(i) \in undoQ[k].curnode /\ Drops(undoQ[k])
    <3>1. \/ \E k \in pos..Len(undoQ) : Id(j) \in undoQ[k].extra_deleteQ
          \/ \E k \in pos..Len(undoQ) : Id(j) \in undoQ[k].curnode /\ Drops(undoQ[k])
      BY <2>1, <2>6, <1>4 DEF Restorable
    <3> QED BY <3>1, <2>1, <2>2, <2>6, <1>2, <1>10
  <2> QED BY <2>3, <2>4, <2>5, <2>6
<1> HIDE DEF w
<1>14. Restorable(w, before, undoQ, pos + 1, {})
  BY <1>12, <1>13 DEF Restorable
<1> QED BY <1>8, <1>9, <1>14

LEMMA RollbackEditStep ==
  ASSUME IInv, rollback_edit
  PROVE  IInv'
<1> USE DEF IInv
<1>1. /\ phase = "rollback" /\ pos <= Len(undoQ) /\ tree' = rollback_tree /\ pos' = pos + 1
      /\ target' = target /\ phase' = phase /\ request' = request /\ undoQ' = undoQ
      /\ deadnodeQ' = deadnodeQ /\ answer' = answer /\ before' = before
      /\ IF undo.commit_res = "ok" THEN reverse_edit ELSE sil' = sil /\ untold' = untold
  BY DEF rollback_edit, txcb
<1>2. Forms(tree') /\ Restorable(tree', before', undoQ', pos', {})
  <2>1. Forms(rollback_tree) /\ Restorable(rollback_tree, before, undoQ, pos + 1, {})
    BY <1>1, RollbackRestores
  <2> QED BY <1>1, <2>1
<1>3. pos \in 1..Len(undoQ) /\ Len(undoQ) \in Nat
  BY <1>1, UndoTypes DEF Types
<1>4. /\ sil' \in [Nodes -> Stored] /\ untold' \subseteq Nodes
      /\ \A n \in Nodes \ untold' :
           \/ sil'[n] = before[n]
           \/ \E k \in (pos+1)..Len(undoQ) : undoQ[k].commit_res = "ok" /\ undoQ[k].node = n
  <2>1. CASE undo.commit_res = "ok"
    BY <2>1, <1>1, ReverseKeepsValues
  <2>2. CASE undo.commit_res # "ok"
    <3>1. sil' = sil /\ untold' = untold
      BY <1>1, <2>2
    <3>2. \A n \in Nodes \ untold : \/ sil[n] = before[n]
                                    \/ \E k \in pos..Len(undoQ) : undoQ[k].commit_res = "ok" /\ undoQ[k].node = n
      BY <1>1 DEF InRollback
    <3>3. \A k \in pos..Len(undoQ) : k = pos \/ k \in (pos+1)..Len(undoQ)
      BY <1>3
    <3>4. undoQ[pos].commit_res # "ok"
      BY <2>2 DEF undo
    <3> QED BY <3>1, <3>2, <3>3, <3>4 DEF Types
  <2> QED BY <2>1, <2>2
<1>5. deadnodeQ = {} /\ InRequest
  BY <1>1 DEF InRollback
<1>6. Types'
  BY <1>1, <1>2, <1>3, <1>4 DEF Types
<1>7. InRequest'
  BY <1>1, <1>2, <1>5 DEF InRequest
<1>8. pos' <= Len(undoQ') + 1
  BY <1>1, <1>3
<1>9. InRollback'
  BY <1>1, <1>4, <1>5, <1>8 DEF InRollback
<1> QED BY <1>1, <1>6, <1>7, <1>9

\* When the rollback is through, everything is as it was.
LEMMA RollbackDone ==
  ASSUME IInv, phase = "rollback", pos > Len(undoQ)
  PROVE  tree = Instances(before) /\ \A n \in Nodes \ untold : sil[n] = before[n]
<1>1. Types /\ Forms(tree) /\ pos \in Nat /\ Len(undoQ) \in Nat /\ before \in [Nodes -> Stored]
  BY UndoTypes DEF IInv, Types
<1>2. pos..Len(undoQ) = {}
  BY <1>1
<1>3. Restorable(tree, before, undoQ, pos, {})
  BY DEF IInv, InRequest, InRollback
<1>4. \A i \in tree : i.born = 0 /\ before[i.node] # None /\ i.val = before[i.node] /\ ~i.deleted
  BY <1>2, <1>3 DEF Restorable
<1>5. ASSUME NEW i \in tree PROVE i \in Instances(before)
  <2>1. i \in Instance /\ i.node \in Nodes
    BY <1>1, UndoTypes
  <2>2. i = [node |-> i.node, born |-> 0, val |-> before[i.node], deleted |-> FALSE]
    BY <2>1, <1>4 DEF Instance
  <2> QED BY <2>1, <2>2, <1>4 DEF Instances
<1>6. ASSUME NEW i \in Instances(before) PROVE i \in tree
  <2>1. PICK n \in Nodes : before[n] # None /\ i = [node |-> n, born |-> 0, val |-> before[n], deleted |-> FALSE]
    BY DEF Instances
  <2>2. PICK j \in tree : Id(j) = <<n, 0>>
    BY <2>1, <1>3 DEF Restorable, Has
  <2>3. j.node = n /\ j \in Instance
    BY <2>2, <1>1, IdIs, UndoTypes
  <2>4. j = i
    BY <2>1, <2>3, <1>4 DEF Instance
  <2> QED BY <2>4
<1>7. \A n \in Nodes \ untold : sil[n] = before[n]
  BY <1>2 DEF IInv, InRollback
<1> QED BY <1>5, <1>6, <1>7

-----------------------------------------------------------------------------
(* The end of a request *)

\* The tree that is left, when it is clean, is that of its contents.
LEMMA SettledIs ==
  ASSUME NEW t, Forms(t), OneEach(t), Visible(t) = t
  PROVE  settled(t) = Instances(Contents(t)) /\ Contents(t) \in [Nodes -> Stored]
<1>1. Contents(t) \in [Nodes -> Stored]
  BY ValueType DEF Contents
<1>2. ASSUME NEW i \in t
      PROVE  /\ [i EXCEPT !.born = 0] = [node |-> i.node, born |-> 0, val |-> Contents(t)[i.node], deleted |-> FALSE]
             /\ i.node \in Nodes /\ Contents(t)[i.node] # None
  <2>1. i \in Instance /\ i.deleted = FALSE
    BY DEF Forms, Visible, Instance
  <2>2. i.node \in Nodes
    BY <2>1 DEF Instance
  <2>3. ValueOf(t, i.node) = i.val /\ i.val # None
    BY OneVisible
  <2>4. Contents(t)[i.node] = i.val
    BY <2>2, <2>3 DEF Contents
  <2>5. [i EXCEPT !.born = 0] = [node |-> i.node, born |-> 0, val |-> i.val, deleted |-> i.deleted]
    BY <2>1 DEF Instance
  <2>6. [i EXCEPT !.born = 0] = [node |-> i.node, born |-> 0, val |-> Contents(t)[i.node], deleted |-> FALSE]
    BY <2>1, <2>4, <2>5
  <2> QED BY <2>2, <2>3, <2>4, <2>6
<1>3. ASSUME NEW n \in Nodes, Contents(t)[n] # None PROVE \E i \in t : i.node = n
  <2>1. ValueOf(t, n) # None
    BY <1>3 DEF Contents
  <2> QED BY <2>1, SomeVisible
<1>4. settled(t) \subseteq Instances(Contents(t))
  BY <1>2 DEF settled, Instances
<1>5. Instances(Contents(t)) \subseteq settled(t)
  <2>1. ASSUME NEW x \in Instances(Contents(t)) PROVE x \in settled(t)
    <3>1. PICK n \in Nodes : /\ Contents(t)[n] # None
                             /\ x = [node |-> n, born |-> 0, val |-> Contents(t)[n], deleted |-> FALSE]
      BY DEF Instances
    <3>2. PICK i \in t : i.node = n
      BY <3>1, <1>3
    <3>3. x = [i EXCEPT !.born = 0]
      BY <3>1, <3>2, <1>2
    <3> QED BY <3>3 DEF settled
  <2> QED BY <2>1
<1> QED BY <1>1, <1>4, <1>5

LEMMA FinishStep ==
  ASSUME IInv, NEW t, NEW ans \in {"ok", "error"}, NEW missed \in SUBSET Nodes,
         Forms(t), OneEach(t), Visible(t) = t, IsLegal(Contents(t)),
         \A n \in Nodes \ (untold \cup missed) : sil[n] = ValueOf(t, n),
         finish(t, ans, missed), target' = target, sil' = sil
  PROVE  IInv' /\ tree' = Instances(Contents(t)) /\ Contents(tree') = Contents(t)
<1>1. /\ phase' = "idle" /\ request' = <<>> /\ pos' = 1 /\ tree' = settled(t)
      /\ before' = Contents(t) /\ undoQ' = <<>> /\ deadnodeQ' = {} /\ answer' = ans
      /\ untold' = untold \cup missed
  BY DEF finish
<1>2. tree' = Instances(Contents(t)) /\ Contents(t) \in [Nodes -> Stored]
  BY <1>1, SettledIs
<1>3. Forms(tree') /\ Contents(tree') = Contents(t)
  BY <1>2, InstancesOf
<1>4. before' \in Legal
  BY <1>1, <1>2 DEF Legal
<1>5. request' \in Seq(Edits) /\ undoQ' \in Seq(Undos)
  BY <1>1
<1>6. Types'
  BY <1>1, <1>3, <1>4, <1>5 DEF IInv, Types
<1>7. \A n \in Nodes \ untold' : sil'[n] = before'[n]
  BY <1>1 DEF Contents
<1>8. AtRest'
  BY <1>1, <1>2, <1>7 DEF AtRest
<1> QED BY <1>1, <1>2, <1>3, <1>6, <1>8 DEF IInv

LEMMA RollbackDoneStep ==
  ASSUME IInv, rollback_done
  PROVE  IInv' /\ Contents(tree') = before
<1>1. /\ phase = "rollback" /\ pos > Len(undoQ) /\ finish(tree, "error", {})
      /\ target' = target /\ sil' = sil
  BY DEF rollback_done
<1>2. tree = Instances(before) /\ \A n \in Nodes \ untold : sil[n] = before[n]
  BY <1>1, RollbackDone
<1>3. before \in [Nodes -> Stored] /\ IsLegal(before)
  BY DEF IInv, Types, Legal
<1>4. /\ Forms(tree) /\ OneEach(tree) /\ Contents(tree) = before
      /\ \A i \in tree : ~i.deleted
      /\ \A n \in Nodes : ValueOf(tree, n) = before[n]
  BY <1>2, <1>3, InstancesOf
<1>5. Visible(tree) = tree
  BY <1>4 DEF Visible
<1>6. \A n \in Nodes \ (untold \cup {}) : sil[n] = ValueOf(tree, n)
  BY <1>2, <1>4
<1> QED BY <1>1, <1>3, <1>4, <1>5, <1>6, FinishStep

\* commit_edit drops the instances that are marked as deleted, and no other.
LEMMA CommitDrops ==
  ASSUME IInv, phase = "commit"
  PROVE  commit_edit(val_remove_child(tree, deadnodeQ)) = Visible(tree)
<1>1. Types /\ Forms(tree) /\ Len(undoQ) \in Nat /\ DOMAIN undoQ = 1..Len(undoQ)
  BY UndoTypes DEF IInv, Types
<1>2. Restorable(tree, before, undoQ, 1, deadnodeQ) /\ Records(undoQ, before)
  BY DEF IInv, InRequest
<1>3. \A i \in tree : Id(i) \in Extras(undoQ) \cup deadnodeQ => i.deleted
  BY DEF IInv, InCommit, Forward
<1>4. extras = Extras(undoQ)
  BY <1>1 DEF extras, Extras
<1>5. \A k \in 1..Len(undoQ) : undoQ[k].free_curnode = Drops(undoQ[k])
  BY <1>2 DEF Records, Record
<1> DEFINE u == val_remove_child(tree, deadnodeQ)
           D == extras \cup {Id(i) : i \in {x \in u : x.deleted /\ Id(x) \in replaced}}
<1>6. commit_edit(u) = {i \in u : Id(i) \notin D}
  BY DEF commit_edit, val_remove_child
<1>7. u = {i \in tree : Id(i) \notin deadnodeQ}
  BY DEF val_remove_child
<1> HIDE DEF u
<1>8. ASSUME NEW i \in tree, i.deleted, Id(i) \notin deadnodeQ PROVE Id(i) \in D
  <2>1. CASE \E k \in 1..Len(undoQ) : Id(i) \in undoQ[k].extra_deleteQ
    BY <2>1, <1>4 DEF Extras
  <2>2. CASE \E k \in 1..Len(undoQ) : Id(i) \in undoQ[k].curnode /\ Drops(undoQ[k])
    <3>1. Id(i) \in replaced
      BY <2>2, <1>1, <1>5 DEF replaced
    <3>2. i \in u
      BY <1>7, <1>8
    <3> QED BY <3>1, <3>2, <1>8
  <2> QED BY <2>1, <2>2, <1>2, <1>8 DEF Restorable
<1>9. ASSUME NEW i \in tree, Id(i) \in D PROVE i.deleted
  <2>1. CASE Id(i) \in extras
    BY <2>1, <1>3, <1>4
  <2>2. CASE \E x \in u : x.deleted /\ Id(x) = Id(i)
    <3>1. PICK x \in tree : x.deleted /\ Id(x) = Id(i)
      BY <2>2, <1>7
    <3> QED BY <3>1, <1>1 DEF Forms
  <2> QED BY <2>1, <2>2, <1>9
<1> HIDE DEF D
<1>10. {i \in u : Id(i) \notin D} = Visible(tree)
  BY <1>3, <1>7, <1>8, <1>9 DEF Visible
<1> QED BY <1>6, <1>10 DEF u

LEMMA CommitDoneStep ==
  ASSUME IInv, commit_done
  PROVE  IInv' /\ Contents(tree') = Contents(tree)
<1> DEFINE missed == {id[1] : id \in extras \cup deadnodeQ}
           t == Visible(tree)
<1>1. /\ phase = "commit" /\ pos > Len(undoQ) /\ target' = target /\ sil' = sil
      /\ finish(commit_edit(val_remove_child(tree, deadnodeQ)), "ok", missed)
  BY DEF commit_done
<1>2. finish(t, "ok", missed)
  BY <1>1, CommitDrops
<1>3. /\ Types /\ Forms(tree) /\ Len(undoQ) \in Nat /\ DOMAIN undoQ = 1..Len(undoQ)
      /\ \A k \in 1..Len(undoQ) : undoQ[k].node \in Nodes /\ undoQ[k].extra_deleteQ \subseteq IdSet
  BY UndoTypes DEF IInv, Types
<1>4. InCommit /\ Forward(tree, before, undoQ, deadnodeQ) /\ IsLegal(Contents(tree)) /\ untold = {}
  BY <1>1 DEF IInv, InCommit
<1>5. Visible(t) = t /\ Forms(t) /\ OneEach(t)
  BY <1>3, <1>4 DEF Visible, Forms, Forward, OneEach
<1>6. \A n : ValueOf(t, n) = ValueOf(tree, n)
  BY <1>5 DEF ValueOf, Current
<1>7. Contents(t) = Contents(tree)
  BY <1>6 DEF Contents
<1>8. missed = Gone(undoQ, deadnodeQ)
  BY <1>3 DEF extras, Extras, Gone
<1>9. missed \in SUBSET Nodes
  <2>1. \A id \in extras \cup deadnodeQ : id \in IdSet
    BY <1>3 DEF extras, Types
  <2> QED BY <2>1 DEF IdSet
<1> HIDE DEF t, missed
<1>10. ASSUME NEW n \in Nodes \ missed PROVE sil[n] = ValueOf(t, n)
  <2>0. pos = Len(undoQ) + 1 /\ pos - 1 = Len(undoQ)
    <3>1. pos \in Nat /\ pos <= Len(undoQ) + 1
      BY <1>3, <1>4 DEF Types, InCommit
    <3> QED BY <3>1, <1>1, <1>3
  <2>1. CASE \E k \in 1..Len(undoQ) : undoQ[k].node = n
    <3>1. PICK k \in 1..Len(undoQ) : undoQ[k].node = n
      BY <2>1
    <3>2. ValueOf(tree, n) = told(n, Erases(undoQ[k]), undoQ[k].val)
      BY <3>1, <1>4, <1>8, <1>10 DEF Forward
    <3>3. sil[n] = told(n, Erases(undoQ[k]), undoQ[k].val)
      BY <3>1, <2>0, <1>4 DEF InCommit
    <3> QED BY <3>2, <3>3, <1>6
  <2>2. CASE \A k \in 1..Len(undoQ) : undoQ[k].node # n
    <3>1. ValueOf(tree, n) = before[n]
      BY <2>2, <1>4, <1>8, <1>10 DEF Forward
    <3>2. sil[n] = before[n]
      BY <2>0, <2>2, <1>4, <1>10 DEF InCommit
    <3> QED BY <3>1, <3>2, <1>6
  <2> QED BY <2>1, <2>2
<1>11. \A n \in Nodes \ (untold \cup missed) : sil[n] = ValueOf(t, n)
  BY <1>10
<1> QED BY <1>1, <1>2, <1>4, <1>5, <1>7, <1>9, <1>11, FinishStep

-----------------------------------------------------------------------------
(* The commit phase *)

\* Two lists of undo records that differ in the results of the commit
Same(r, s) ==
  /\ r.editop = s.editop /\ r.edit_action = s.edit_action /\ r.node = s.node /\ r.val = s.val
  /\ r.newnode = s.newnode /\ r.curnode = s.curnode /\ r.curnode_clone = s.curnode_clone
  /\ r.free_curnode = s.free_curnode /\ r.extra_deleteQ = s.extra_deleteQ

LEMMA SameRecords ==
  ASSUME NEW u, NEW v, Len(u) \in Nat, Len(u) = Len(v), \A k \in 1..Len(u) : Same(u[k], v[k]), NEW bef
  PROVE  /\ Records(u, bef) => Records(v, bef)
         /\ \A t, dead : Restorable(t, bef, u, 1, dead) => Restorable(t, bef, v, 1, dead)
         /\ \A t, dead : Forward(t, bef, u, dead) => Forward(t, bef, v, dead)
<1>1. \A k \in 1..Len(u) : /\ Drops(u[k]) <=> Drops(v[k])
                           /\ Sets(u[k]) <=> Sets(v[k])
                           /\ Erases(u[k]) <=> Erases(v[k])
  BY DEF Same, Drops, Sets, Erases
<1>2. ASSUME Records(u, bef) PROVE Records(v, bef)
  <2>1. ASSUME NEW k \in 1..Len(u) PROVE Record(v[k], k, bef)
    <3>1. Record(u[k], k, bef) /\ Same(u[k], v[k])
      BY <1>2 DEF Records
    <3>2. v[k].free_curnode = Drops(v[k])
      BY <3>1 DEF Record, Same, Drops
    <3> QED BY <3>1, <3>2, <1>1 DEF Record, Same
  <2>2. \A k, l \in 1..Len(v) : v[k].node = v[l].node => k = l
    BY <1>2 DEF Records, Same
  <2>3. \A k, l \in 1..Len(v) : \A id \in v[l].extra_deleteQ : id[1] # v[k].node
    BY <1>2 DEF Records, Same
  <2> QED BY <2>1, <2>2, <2>3 DEF Records
<1>3. ASSUME NEW t, NEW dead, Restorable(t, bef, u, 1, dead) PROVE Restorable(t, bef, v, 1, dead)
  <2>1. \A i \in t : i.born # 0 => i.born \in 1..Len(v) /\ v[i.born].newnode = {Id(i)}
    BY <1>3 DEF Restorable, Same
  <2>2. \A i \in t : i.born = 0 /\ i.val # bef[i.node] =>
                    \E k \in 1..Len(v) : v[k].node = i.node /\ Sets(v[k])
    BY <1>1, <1>3 DEF Restorable, Same
  <2>3. \A i \in t : i.deleted => \/ Id(i) \in dead
                                  \/ \E k \in 1..Len(v) : Id(i) \in v[k].extra_deleteQ
                                  \/ \E k \in 1..Len(v) : Id(i) \in v[k].curnode /\ Drops(v[k])
    BY <1>1, <1>3 DEF Restorable, Same
  <2> QED BY <2>1, <2>2, <2>3, <1>3 DEF Restorable
<1>4. Extras(u) = Extras(v)
  BY DEF Extras, Same
<1>5. ASSUME NEW t, NEW dead, Forward(t, bef, u, dead) PROVE Forward(t, bef, v, dead)
  <2>1. Gone(u, dead) = Gone(v, dead)
    BY <1>4 DEF Gone
  <2>2. \A k \in 1..Len(v) : \A id \in v[k].newnode : Has(t, id)
    BY <1>5 DEF Forward, Same
  <2>3. \A n \in Nodes \ Gone(v, dead) :
          (\A k \in 1..Len(v) : v[k].node # n) => ValueOf(t, n) = bef[n]
    <3>1. \A n \in Nodes \ Gone(u, dead) :
             (\A k \in 1..Len(u) : u[k].node # n) => ValueOf(t, n) = bef[n]
      BY <1>5 DEF Forward
    <3> QED BY <3>1, <2>1 DEF Same
  <2>4. \A k \in 1..Len(v) : v[k].node \notin Gone(v, dead) =>
          ValueOf(t, v[k].node) = told(v[k].node, Erases(v[k]), v[k].val)
    <3>1. ASSUME NEW k \in 1..Len(v), v[k].node \notin Gone(v, dead)
          PROVE  ValueOf(t, v[k].node) = told(v[k].node, Erases(v[k]), v[k].val)
      <4>1. Same(u[k], v[k]) /\ u[k].node \notin Gone(u, dead)
        BY <3>1, <2>1 DEF Same
      <4>2. ValueOf(t, u[k].node) = told(u[k].node, Erases(u[k]), u[k].val)
        BY <4>1, <1>5 DEF Forward
      <4>3. u[k].node = v[k].node /\ u[k].val = v[k].val /\ Erases(u[k]) = Erases(v[k])
        BY <4>1 DEF Same, Erases
      <4> QED BY <4>2, <4>3
    <3> QED BY <3>1
  <2> QED BY <2>1, <2>2, <2>3, <2>4, <1>4, <1>5 DEF Forward
<1> QED BY <1>2, <1>3, <1>5

\* The result of a commit is written to its record.
LEMMA ResultWritten ==
  ASSUME Types, pos \in 1..Len(undoQ), NEW res \in {"ok", "failed"},
         undoQ' = [undoQ EXCEPT ![pos].commit_res = res]
  PROVE  /\ undoQ' \in Seq(Undos) /\ Len(undoQ') = Len(undoQ)
         /\ \A k \in 1..Len(undoQ) : Same(undoQ[k], undoQ'[k])
         /\ undoQ'[pos].commit_res = res
         /\ \A k \in 1..Len(undoQ) : k # pos => undoQ'[k] = undoQ[k]
<1>1. undoQ \in Seq(Undos) /\ \A k \in 1..Len(undoQ) : undoQ[k] \in Undos
  BY DEF Types
<1> DEFINE r == [undoQ[pos] EXCEPT !.commit_res = res]
<1>2. undoQ' = [undoQ EXCEPT ![pos] = r]
  OBVIOUS
<1>3. r \in Undos /\ Same(undoQ[pos], r) /\ r.commit_res = res
  <2>1. undoQ[pos] \in Undos
    BY <1>1
  <2>2. r \in Undos /\ r.commit_res = res
    BY <2>1 DEF Undos
  <2>3. Same(undoQ[pos], r)
    BY <2>1 DEF Undos, Same
  <2> QED BY <2>2, <2>3
<1> HIDE DEF r
<1>4. undoQ' \in Seq(Undos) /\ Len(undoQ') = Len(undoQ) /\ undoQ'[pos] = r
      /\ \A k \in 1..Len(undoQ) : k # pos => undoQ'[k] = undoQ[k]
  <2> HIDE DEF Undos
  <2> QED BY <1>1, <1>2, <1>3
<1>5. \A k \in 1..Len(undoQ) : Same(undoQ[k], undoQ[k])
  BY DEF Same
<1> QED BY <1>3, <1>4, <1>5

\* What attempt_rollback starts from
LEMMA RollbackStarts ==
  ASSUME NEW t, NEW u, NEW bef, NEW dead, Forms(t), Restorable(t, bef, u, 1, dead)
  PROVE  LET m == VAL_UNMARK_DELETED(t, dead) IN Forms(m) /\ Restorable(m, bef, u, 1, {})
<1> DEFINE m == Mark(t, dead, FALSE)
<1>1. Forms(m)
  BY MarkForms
<1>2. ASSUME NEW j \in t PROVE Has(m, Id(j))
  <2>1. PICK i \in m : Marked(i, j, dead, FALSE)
    BY MarkedTo, FALSE \in BOOLEAN, Zenon
  <2> QED BY <2>1 DEF Marked, Like, Has
<1>3. ASSUME NEW i \in m
      PROVE  \E j \in t : i.node = j.node /\ i.born = j.born /\ Id(i) = Id(j) /\ i.val = j.val
                          /\ (i.deleted => j.deleted /\ Id(j) \notin dead)
  <2>1. PICK j \in t : Marked(i, j, dead, FALSE)
    BY MarkedFrom, FALSE \in BOOLEAN, Zenon
  <2> QED BY <2>1 DEF Marked, Like
<1>4. \A n \in Nodes : bef[n] # None => Has(m, <<n, 0>>)
  BY <1>2 DEF Restorable, Has
<1>5. ASSUME NEW i \in m
      PROVE  /\ i.born = 0 => bef[i.node] # None
             /\ i.born # 0 => i.born \in 1..Len(u) /\ u[i.born].newnode = {Id(i)}
             /\ i.born = 0 /\ i.val # bef[i.node] => \E k \in 1..Len(u) : u[k].node = i.node /\ Sets(u[k])
             /\ i.deleted => \/ \E k \in 1..Len(u) : Id(i) \in u[k].extra_deleteQ
                             \/ \E k \in 1..Len(u) : Id(i) \in u[k].curnode /\ Drops(u[k])
  <2>1. PICK j \in t : i.node = j.node /\ i.born = j.born /\ Id(i) = Id(j) /\ i.val = j.val
                       /\ (i.deleted => j.deleted /\ Id(j) \notin dead)
    BY <1>3
  <2> QED BY <2>1 DEF Restorable
<1> HIDE DEF m
<1>6. Restorable(m, bef, u, 1, {})
  BY <1>4, <1>5 DEF Restorable
<1> QED BY <1>1, <1>6 DEF m, VAL_UNMARK_DELETED

LEMMA AttemptCommitStep ==
  ASSUME IInv, attempt_commit
  PROVE  IInv'
<1>1. /\ phase = "commit" /\ pos <= Len(undoQ)
      /\ target' = target /\ request' = request /\ answer' = answer /\ before' = before
      /\ untold' = untold
  BY DEF attempt_commit, history
<1>2. /\ Types /\ Forms(tree) /\ pos \in 1..Len(undoQ) /\ Len(undoQ) \in Nat
      /\ undo \in Undos /\ undo.node \in Nodes /\ undo.val \in Stored
  BY <1>1, UndoTypes DEF IInv, Types, undo
<1>3. /\ InCommit /\ InRequest /\ Records(undoQ, before) /\ untold = {}
      /\ Restorable(tree, before, undoQ, 1, deadnodeQ)
      /\ Forward(tree, before, undoQ, deadnodeQ)
  BY <1>1 DEF IInv, InCommit, InRequest
<1>4. CASE /\ undoQ' = [undoQ EXCEPT ![pos].commit_res = "ok"]
           /\ sil' = [sil EXCEPT ![undo.node] = told(undo.node, undo.editop \in Deletes, undo.val)]
           /\ pos' = pos + 1
           /\ phase' = phase /\ tree' = tree /\ deadnodeQ' = deadnodeQ
  <2>1. /\ undoQ' \in Seq(Undos) /\ Len(undoQ') = Len(undoQ)
        /\ \A k \in 1..Len(undoQ) : Same(undoQ[k], undoQ'[k])
        /\ undoQ'[pos].commit_res = "ok"
        /\ \A k \in 1..Len(undoQ) : k # pos => undoQ'[k] = undoQ[k]
    BY <1>2, <1>4, ResultWritten
  <2>2. told(undo.node, undo.editop \in Deletes, undo.val) \in Stored
    BY <1>2 DEF told, Stored
  <2>3. sil' \in [Nodes -> Stored]
    BY <1>2, <1>4, <2>2 DEF Types
  <2>4. Types'
    BY <1>1, <1>2, <1>4, <2>1, <2>3 DEF Types
  <2>5. Records(undoQ', before) /\ Restorable(tree, before, undoQ', 1, deadnodeQ)
        /\ Forward(tree, before, undoQ', deadnodeQ)
    BY <2>1, <1>2, <1>3, SameRecords
  <2>6. InRequest'
    BY <1>1, <1>3, <1>4, <2>5 DEF InRequest
  <2>7. ASSUME NEW k \in 1..Len(undoQ')
        PROVE  undoQ'[k].commit_res = IF k < pos' THEN "ok" ELSE "skipped"
    <3>1. CASE k = pos
      BY <3>1, <1>2, <1>4, <2>1
    <3>2. CASE k # pos
      <4>1. undoQ'[k].commit_res = IF k < pos THEN "ok" ELSE "skipped"
        BY <3>2, <2>1, <1>3 DEF InCommit
      <4>2. k < pos <=> k < pos'
        BY <3>2, <1>2, <1>4, <2>1
      <4> QED BY <4>1, <4>2
    <3> QED BY <3>1, <3>2
  <2>8. \A k \in 1..(pos' - 1) : k = pos \/ k \in 1..(pos - 1)
    BY <1>2, <1>4
  <2>9. \A k \in 1..(pos - 1) : k \in 1..(pos' - 1) /\ k \in 1..Len(undoQ) /\ k # pos
    BY <1>2, <1>4
  <2>10. pos \in 1..(pos' - 1)
    BY <1>2, <1>4
  <2>11. ASSUME NEW n \in Nodes, \A k \in 1..(pos' - 1) : undoQ'[k].node # n PROVE sil'[n] = before[n]
    <3>1. \A k \in 1..(pos - 1) : undoQ[k].node # n
      BY <2>1, <2>9, <2>11
    <3>2. undo.node # n
      BY <2>1, <2>10, <2>11, <1>2 DEF Same, undo
    <3>3. sil'[n] = sil[n]
      BY <3>2, <1>2, <1>4 DEF Types
    <3> QED BY <3>1, <3>3, <1>3 DEF InCommit
  <2>12. ASSUME NEW k \in 1..(pos' - 1)
         PROVE  sil'[undoQ'[k].node] = told(undoQ'[k].node, Erases(undoQ'[k]), undoQ'[k].val)
    <3>1. CASE k = pos
      <4>1. undoQ'[k].node = undo.node /\ undoQ'[k].val = undo.val
            /\ Erases(undoQ'[k]) = (undo.editop \in Deletes)
        BY <3>1, <2>1, <1>2 DEF Same, undo, Erases
      <4>2. sil'[undo.node] = told(undo.node, undo.editop \in Deletes, undo.val)
        BY <1>2, <1>4 DEF Types
      <4> QED BY <4>1, <4>2
    <3>2. CASE k \in 1..(pos - 1)
      <4>1. undoQ'[k] = undoQ[k] /\ k \in 1..Len(undoQ) /\ k # pos
        BY <3>2, <2>1, <2>9
      <4>2. undoQ[k].node # undo.node
        BY <4>1, <1>2, <1>3 DEF Records, undo
      <4>3. sil'[undoQ[k].node] = sil[undoQ[k].node]
        BY <4>1, <4>2, <1>2, <1>4, UndoTypes DEF Types
      <4> QED BY <3>2, <4>1, <4>3, <1>3 DEF InCommit
    <3> QED BY <3>1, <3>2, <2>8
  <2>13. pos' <= Len(undoQ') + 1
    BY <1>2, <1>4, <2>1
  <2>14. IsLegal(Contents(tree')) /\ Agrees(tree', Made(Len(request))', deadnodeQ')
    <3>1. Made(Len(request))' = Made(Len(request))
      BY <1>1 DEF Made
    <3> QED BY <3>1, <1>3, <1>4 DEF InCommit
  <2>15. InCommit'
    <3> QED BY <1>1, <1>3, <1>4, <2>5, <2>7, <2>11, <2>12, <2>13, <2>14 DEF InCommit
  <2> QED BY <1>1, <1>4, <2>4, <2>6, <2>15 DEF IInv
<1>5. CASE /\ undoQ' = [undoQ EXCEPT ![pos].commit_res = "failed"]
           /\ attempt_rollback
           /\ sil' = sil
  <2>0. /\ phase' = "rollback" /\ pos' = 1
        /\ tree' = VAL_UNMARK_DELETED(tree, deadnodeQ) /\ deadnodeQ' = {}
    BY <1>5 DEF attempt_rollback
  <2>1. /\ undoQ' \in Seq(Undos) /\ Len(undoQ') = Len(undoQ)
        /\ \A k \in 1..Len(undoQ) : Same(undoQ[k], undoQ'[k])
        /\ \A k \in 1..Len(undoQ) : k # pos => undoQ'[k] = undoQ[k]
    BY <1>2, <1>5, ResultWritten
  <2>2. Records(undoQ', before) /\ Restorable(tree, before, undoQ', 1, deadnodeQ)
    BY <2>1, <1>2, <1>3, SameRecords
  <2>3. Forms(tree') /\ Restorable(tree', before, undoQ', 1, {})
    BY <1>2, <2>0, <2>2, RollbackStarts
  <2>4. Types'
    BY <1>1, <1>2, <1>5, <2>0, <2>1, <2>3 DEF Types
  <2>5. InRequest'
    BY <1>1, <1>3, <2>0, <2>2, <2>3 DEF InRequest
  <2>6. ASSUME NEW n \in Nodes
        PROVE  \/ sil'[n] = before[n]
               \/ \E k \in 1..Len(undoQ') : undoQ'[k].commit_res = "ok" /\ undoQ'[k].node = n
    <3>1. CASE \A k \in 1..(pos - 1) : undoQ[k].node # n
      BY <3>1, <1>3, <1>5 DEF InCommit
    <3>2. CASE \E k \in 1..(pos - 1) : undoQ[k].node = n
      <4>1. PICK k \in 1..(pos - 1) : undoQ[k].node = n
        BY <3>2
      <4>2. k \in 1..Len(undoQ) /\ k # pos /\ k < pos
        BY <1>2
      <4>3. undoQ'[k] = undoQ[k] /\ undoQ[k].commit_res = "ok" /\ k \in 1..Len(undoQ')
        BY <4>2, <2>1, <1>3 DEF InCommit
      <4> QED BY <4>1, <4>3
    <3> QED BY <3>1, <3>2
  <2>7. InRollback'
    BY <1>1, <1>2, <2>0, <2>1, <2>6 DEF InRollback
  <2> QED BY <2>0, <2>4, <2>5, <2>7 DEF IInv
<1> QED BY <1>4, <1>5 DEF attempt_commit

-----------------------------------------------------------------------------
(* The checks *)

\* Instances that are marked are accounted for by the list of dead nodes.
LEMMA MarkKeepsRestorable ==
  ASSUME NEW t, NEW u, NEW bef, NEW dead, NEW ids, Forms(t), Restorable(t, bef, u, 1, dead)
  PROVE  Restorable(VAL_MARK_DELETED(t, ids), bef, u, 1, dead \cup ids)
<1> DEFINE m == Mark(t, ids, TRUE)
<1>1. ASSUME NEW j \in t PROVE Has(m, Id(j))
  <2>1. PICK i \in m : Marked(i, j, ids, TRUE)
    BY MarkedTo, TRUE \in BOOLEAN, Zenon
  <2> QED BY <2>1 DEF Marked, Like, Has
<1>2. \A n \in Nodes : bef[n] # None => Has(m, <<n, 0>>)
  BY <1>1 DEF Restorable, Has
<1>3. ASSUME NEW i \in m
      PROVE  /\ i.born = 0 => bef[i.node] # None
             /\ i.born # 0 => i.born \in 1..Len(u) /\ u[i.born].newnode = {Id(i)}
             /\ i.born = 0 /\ i.val # bef[i.node] => \E k \in 1..Len(u) : u[k].node = i.node /\ Sets(u[k])
             /\ i.deleted => \/ Id(i) \in dead \cup ids
                             \/ \E k \in 1..Len(u) : Id(i) \in u[k].extra_deleteQ
                             \/ \E k \in 1..Len(u) : Id(i) \in u[k].curnode /\ Drops(u[k])
  <2>1. PICK j \in t : Marked(i, j, ids, TRUE)
    BY MarkedFrom, TRUE \in BOOLEAN, Zenon
  <2>2. i.node = j.node /\ i.born = j.born /\ Id(i) = Id(j) /\ i.val = j.val
        /\ (i.deleted => j.deleted \/ Id(i) \in ids)
    BY <2>1 DEF Marked, Like
  <2> QED BY <2>2 DEF Restorable
<1> HIDE DEF m
<1>4. Restorable(m, bef, u, 1, dead \cup ids)
  BY <1>2, <1>3 DEF Restorable
<1> QED BY <1>4 DEF m, VAL_MARK_DELETED

\* Instances that are there stay there, and one that is marked as deleted
\* stays marked.
LEMMA MarkKeepsIds ==
  ASSUME NEW t, NEW ids, Forms(t)
  PROVE  /\ \A id : Has(t, id) => Has(VAL_MARK_DELETED(t, ids), id)
         /\ \A i \in VAL_MARK_DELETED(t, ids) :
              /\ Id(i) \in ids => i.deleted
              /\ \E j \in t : Id(i) = Id(j) /\ i.node = j.node /\ i.born = j.born /\ i.val = j.val
                              /\ (j.deleted => i.deleted)
<1> DEFINE m == Mark(t, ids, TRUE)
<1>1. ASSUME NEW j \in t PROVE Has(m, Id(j))
  <2>1. PICK i \in m : Marked(i, j, ids, TRUE)
    BY MarkedTo, TRUE \in BOOLEAN, Zenon
  <2> QED BY <2>1 DEF Marked, Like, Has
<1>2. ASSUME NEW i \in m
      PROVE /\ Id(i) \in ids => i.deleted
            /\ \E j \in t : Id(i) = Id(j) /\ i.node = j.node /\ i.born = j.born /\ i.val = j.val
                            /\ (j.deleted => i.deleted)
  <2>1. PICK j \in t : Marked(i, j, ids, TRUE)
    BY MarkedFrom, TRUE \in BOOLEAN, Zenon
  <2>2. i.node = j.node /\ i.born = j.born /\ Id(i) = Id(j) /\ i.val = j.val
        /\ (j.deleted \/ Id(i) \in ids => i.deleted)
    BY <2>1 DEF Marked, Like
  <2> QED BY <2>2
<1>3. \A id : Has(t, id) => Has(m, id)
  BY <1>1 DEF Has
<1> QED BY <1>2, <1>3 DEF VAL_MARK_DELETED

LEMMA DeadStep ==
  ASSUME IInv, delete_dead_nodes
  PROVE  IInv'
<1> DEFINE F == falseWhens(tree)
           dead == deadnodeQ
<1>1. /\ phase = "apply" /\ pos > Len(request) /\ target = "running" /\ F # {}
      /\ deadnodeQ' = dead \cup F /\ tree' = VAL_MARK_DELETED(tree, F)
      /\ target' = target /\ sil' = sil /\ phase' = phase /\ request' = request /\ pos' = pos
      /\ undoQ' = undoQ /\ answer' = answer /\ before' = before /\ untold' = untold
  BY DEF delete_dead_nodes, applied, history
<1>2. /\ Types /\ Forms(tree) /\ Len(undoQ) \in Nat /\ tree \subseteq Instance
      /\ pos \in Nat /\ Len(request) \in Nat
      /\ \A i \in tree : i.node \in Nodes /\ i.born \in Nat /\ i.val \in Stored \ {None}
  BY UndoTypes DEF IInv, Types
<1>3. /\ InApply /\ InRequest /\ Restorable(tree, before, undoQ, 1, dead)
      /\ Forward(tree, before, undoQ, dead)
  BY <1>1 DEF IInv, InRequest, InApply
<1>4. OneEach(tree) /\ Sane(Contents(tree))
  BY <1>3 DEF Forward
<1>5. ASSUME NEW id \in F
      PROVE  \E i \in Visible(tree) : /\ id = Id(i) /\ id[1] = i.node /\ id \in IdSet
                                      /\ Schema[i.node].when # None
                                      /\ ValueOf(tree, Schema[i.node].when) = None
  <2>1. PICK i \in Visible(tree) : /\ id = Id(i) /\ Schema[i.node].when # None
                                   /\ ValueOf(tree, Schema[i.node].when) = None
    BY DEF falseWhens
  <2>2. i \in tree
    BY DEF Visible
  <2> QED BY <2>1, <2>2, <1>2, IdIs DEF IdSet
<1>6. ASSUME NEW i \in Visible(tree), Schema[i.node].when # None,
             ValueOf(tree, Schema[i.node].when) = None
      PROVE  Id(i) \in F
  BY <1>6 DEF falseWhens
<1> HIDE DEF F
<1>7. /\ Forms(tree') /\ OneEach(tree')
      /\ \A i \in Visible(tree) : Id(i) \in F => ValueOf(tree', i.node) = None
      /\ \A n : (\A i \in Visible(tree) : Id(i) \in F => i.node # n)
                   => ValueOf(tree', n) = ValueOf(tree, n)
  BY <1>1, <1>2, <1>4, MarkedValues
<1>8. ASSUME NEW n, \A id \in F : id[1] # n PROVE ValueOf(tree', n) = ValueOf(tree, n)
  <2>1. ASSUME NEW i \in Visible(tree), Id(i) \in F PROVE i.node # n
    BY <2>1, <1>8, IdIs
  <2> QED BY <2>1, <1>7
<1>9. ASSUME NEW id \in F PROVE ValueOf(tree', id[1]) = None
  BY <1>5, <1>7
<1>10. \A n : ValueOf(tree', n) = None \/ ValueOf(tree', n) = ValueOf(tree, n)
  BY <1>8, <1>9
<1>11. Restorable(tree', before, undoQ, 1, dead \cup F)
  BY <1>1, <1>2, <1>3, MarkKeepsRestorable
<1>12. /\ \A id : Has(tree, id) => Has(tree', id)
       /\ \A i \in tree' :
            /\ Id(i) \in F => i.deleted
            /\ \E j \in tree : Id(i) = Id(j) /\ i.node = j.node /\ i.born = j.born /\ i.val = j.val
                               /\ (j.deleted => i.deleted)
  BY <1>1, <1>2, MarkKeepsIds
<1>13. Forward(tree', before, undoQ, dead \cup F)
  <2>1. \A i \in tree' : Id(i) \in Extras(undoQ) \cup (dead \cup F) => i.deleted
    BY <1>3, <1>12 DEF Forward
  <2>2. \A k \in 1..Len(undoQ) : \A id \in undoQ[k].newnode : Has(tree', id)
    BY <1>3, <1>12 DEF Forward
  <2>3. \A id \in dead \cup F : Has(tree', id)
    <3>1. \A id \in F : Has(tree, id)
      BY <1>5 DEF Has, Visible
    <3> QED BY <3>1, <1>3, <1>12 DEF Forward
  <2>4. Sane(Contents(tree'))
    <3> DEFINE c == Contents(tree)
               e == Contents(tree')
    <3>1. \A n \in Nodes : e[n] = None \/ e[n] = c[n]
      BY <1>10 DEF Contents
    <3>2. ASSUME NEW n \in Nodes, e[n] = None PROVE ~Schema[n].hasDefault
      <4>1. CASE \E id \in F : id[1] = n
        <5>1. Schema[n].when # None
          BY <4>1, <1>5
        <5> QED BY <5>1, SchemaAssumption
      <4>2. CASE \A id \in F : id[1] # n
        <5>1. c[n] = None
          BY <4>2, <1>8, <3>2 DEF Contents
        <5> QED BY <5>1, <1>4 DEF Sane
      <4> QED BY <4>1, <4>2
    <3>3. None # Default
      BY SchemaAssumption
    <3> HIDE DEF c, e
    <3>4. Sane(e)
      BY <3>1, <3>2, <3>3, <1>4 DEF Sane, c
    <3> QED BY <3>4 DEF e
  <2>5. ASSUME NEW n \in Gone(undoQ, dead \cup F) PROVE ValueOf(tree', n) = None
    <3>1. n \in Gone(undoQ, dead) \/ \E id \in F : id[1] = n
      BY DEF Gone
    <3>2. n \in Gone(undoQ, dead) => ValueOf(tree, n) = None
      BY <1>3 DEF Forward
    <3> QED BY <3>1, <3>2, <1>9, <1>10
  <2>6. ASSUME NEW n, n \notin Gone(undoQ, dead \cup F)
        PROVE  n \notin Gone(undoQ, dead) /\ ValueOf(tree', n) = ValueOf(tree, n)
    <3>1. n \notin Gone(undoQ, dead) /\ \A id \in F : id[1] # n
      BY <2>6 DEF Gone
    <3> QED BY <3>1, <1>8
  <2>7. \A n \in Nodes \ Gone(undoQ, dead \cup F) :
          (\A k \in 1..Len(undoQ) : undoQ[k].node # n) => ValueOf(tree', n) = before[n]
    BY <2>6, <1>3 DEF Forward
  <2>8. \A k \in 1..Len(undoQ) : undoQ[k].node \notin Gone(undoQ, dead \cup F) =>
          ValueOf(tree', undoQ[k].node) = told(undoQ[k].node, Erases(undoQ[k]), undoQ[k].val)
    BY <2>6, <1>3 DEF Forward
  <2>9. \A id \in dead \cup F : Schema[id[1]].when # None /\ ValueOf(tree', Schema[id[1]].when) = None
    <3>1. \A id \in dead : Schema[id[1]].when # None /\ ValueOf(tree, Schema[id[1]].when) = None
      BY <1>3 DEF Forward
    <3> QED BY <3>1, <1>5, <1>10
  <2> QED BY <2>1, <2>2, <2>3, <2>4, <2>5, <2>7, <2>8, <2>9, <1>7 DEF Forward
<1>14. dead \cup F \subseteq IdSet
  BY <1>2, <1>5 DEF Types
<1>15. Types'
  BY <1>1, <1>2, <1>7, <1>14 DEF Types
<1>16. InRequest'
  BY <1>1, <1>3, <1>11 DEF InRequest
<1>17. pos = Len(request) + 1 /\ pos - 1 = Len(request)
  BY <1>1, <1>2, <1>3 DEF InApply
<1>18. Agrees(tree', Made(Len(request)), dead \cup F)
  <2>1. Agrees(tree, Made(Len(request)), dead)
    <3>1. CASE dead = {}
      <4>1. Contents(tree) = Made(Len(request))
        BY <3>1, <1>3, <1>17 DEF InApply
      <4> QED BY <4>1 DEF Agrees, Contents
    <3>2. CASE dead # {}
      BY <3>2, <1>3 DEF InApply
    <3> QED BY <3>1, <3>2
  <2> QED BY <2>1, <1>8 DEF Agrees
<1>19. InApply'
  <2>1. Made(Len(request))' = Made(Len(request))
    BY <1>1 DEF Made
  <2>2. deadnodeQ' # {}
    BY <1>1
  <2>3. Forward(tree', before', undoQ', deadnodeQ')
    BY <1>1, <1>13
  <2>4. Agrees(tree', Made(Len(request))', deadnodeQ')
    BY <1>1, <1>18, <2>1
  <2> QED BY <1>1, <1>3, <1>17, <2>2, <2>3, <2>4 DEF InApply
<1> QED BY <1>1, <1>15, <1>16, <1>19 DEF IInv

\* The contents pass the checks when no when-stmt is false.
LEMMA CheckPassedStep ==
  ASSUME IInv, check_passed
  PROVE  IInv'
<1>1. /\ phase = "apply" /\ pos > Len(request) /\ (target = "running" => falseWhens(tree) = {})
      /\ phase' = "commit" /\ pos' = 1
      /\ target' = target /\ tree' = tree /\ sil' = sil /\ request' = request
      /\ undoQ' = undoQ /\ deadnodeQ' = deadnodeQ /\ answer' = answer
      /\ before' = before /\ untold' = untold
  BY DEF check_passed, applied, history, txcb
<1>2. /\ Types /\ Forms(tree) /\ Len(undoQ) \in Nat
      /\ pos \in Nat /\ Len(request) \in Nat /\ target \in {"running", "candidate"}
  BY UndoTypes DEF IInv, Types
<1>3. InApply /\ InRequest /\ Forward(tree, before, undoQ, deadnodeQ)
  BY <1>1 DEF IInv, InApply
<1>4. pos = Len(request) + 1 /\ pos - 1 = Len(request)
  BY <1>1, <1>2, <1>3 DEF InApply
<1>5. OneEach(tree) /\ Sane(Contents(tree))
  BY <1>3 DEF Forward
<1>6. IsLegal(Contents(tree))
  <2>1. CASE target = "running"
    <3> DEFINE c == Contents(tree)
    <3>1. ASSUME NEW n \in Nodes, c[n] # None, Schema[n].when # None PROVE c[Schema[n].when] # None
      <4>0. ValueOf(tree, n) # None
        BY <3>1 DEF Contents
      <4>1. PICK i \in Visible(tree) : i.node = n
        BY <4>0, <1>2, <1>5, SomeVisible
      <4>2. Id(i) \notin falseWhens(tree)
        BY <1>1, <2>1
      <4>3. ValueOf(tree, Schema[n].when) # None
        BY <4>1, <4>2, <3>1 DEF falseWhens
      <4>4. Schema[n].when \in Nodes
        BY <3>1, SchemaAssumption
      <4> QED BY <4>3, <4>4 DEF Contents
    <3> HIDE DEF c
    <3>2. Sane(c)
      BY <1>5 DEF c
    <3>3. IsLegal(c)
      BY <3>1, <3>2 DEF IsLegal, Sane
    <3> QED BY <3>3 DEF c
  <2>2. CASE target = "candidate"
    <3>1. PICK cand \in Legal : \A n \in Nodes : ValueOf(tree, n) = cand[n] \/ \E k \in pos..Len(request) : request[k].node = n
      BY <2>2, <1>3 DEF InApply, Candidate
    <3>2. pos..Len(request) = {}
      BY <1>1, <1>2
    <3>3. cand \in [Nodes -> Stored] /\ IsLegal(cand)
      BY DEF Legal
    <3>4. Contents(tree) = cand
      BY <3>1, <3>2, <3>3 DEF Contents
    <3> QED BY <3>3, <3>4
  <2> QED BY <2>1, <2>2, <1>2
<1>7. Agrees(tree, Made(Len(request)), deadnodeQ)
  <2>1. CASE deadnodeQ = {}
    <3>1. Contents(tree) = Made(Len(request))
      BY <2>1, <1>3, <1>4 DEF InApply
    <3> QED BY <3>1 DEF Agrees, Contents
  <2>2. CASE deadnodeQ # {}
    BY <2>2, <1>3 DEF InApply
  <2> QED BY <2>1, <2>2
<1>8. Made(Len(request))' = Made(Len(request))
  BY <1>1 DEF Made
<1>9. \A k \in 1..Len(undoQ) : undoQ[k].commit_res = IF k < 1 THEN "ok" ELSE "skipped"
  BY <1>2, <1>3 DEF InApply
<1>10. InCommit'
  <2>1. \A k \in 1..(1-1) : FALSE
    OBVIOUS
  <2>2. 1 <= Len(undoQ) + 1
    BY <1>2
  <2>3. sil = before /\ untold = {}
    BY <1>3 DEF InApply
  <2> QED BY <2>1, <2>2, <2>3, <1>1, <1>3, <1>6, <1>7, <1>8, <1>9 DEF InCommit
<1>11. Types'
  BY <1>1, <1>2 DEF Types
<1>12. InRequest'
  BY <1>1, <1>3 DEF InRequest
<1> QED BY <1>1, <1>10, <1>11, <1>12 DEF IInv

\* A refusal starts the rollback, or aborts the server.
LEMMA AttemptRollbackStep ==
  ASSUME IInv, phase = "apply", attempt_rollback, target' = target, sil' = sil, request' = request,
         undoQ' = undoQ, answer' = answer, before' = before, untold' = untold
  PROVE  IInv'
<1>1. /\ phase' = "rollback" /\ pos' = 1
      /\ tree' = VAL_UNMARK_DELETED(tree, deadnodeQ) /\ deadnodeQ' = {}
  BY DEF attempt_rollback
<1>2. Types /\ Forms(tree) /\ Len(undoQ) \in Nat
  BY UndoTypes DEF IInv, Types
<1>3. InApply /\ InRequest /\ Restorable(tree, before, undoQ, 1, deadnodeQ)
  BY DEF IInv, InRequest
<1>4. Forms(tree') /\ Restorable(tree', before, undoQ, 1, {})
  BY <1>1, <1>2, <1>3, RollbackStarts
<1>5. Types'
  BY <1>1, <1>2, <1>4 DEF Types
<1>6. InRequest'
  BY <1>1, <1>3, <1>4 DEF InRequest
<1>7. InRollback'
  BY <1>1, <1>2, <1>3 DEF InRollback, InApply
<1> QED BY <1>1, <1>5, <1>6, <1>7 DEF IInv

LEMMA RefusedStep ==
  ASSUME IInv, apply_refused \/ check_refused
  PROVE  IInv'
<1>1. CASE apply_refused
  <2>1. /\ phase = "apply" /\ target' = target /\ sil' = sil /\ request' = request
        /\ undoQ' = undoQ /\ answer' = answer /\ before' = before /\ untold' = untold
    BY <1>1 DEF apply_refused, applying, history
  <2>2. CASE attempt_rollback
    BY <2>1, <2>2, AttemptRollbackStep
  <2>3. CASE phase' = "aborted" /\ pos' = pos /\ tree' = tree /\ deadnodeQ' = deadnodeQ
    <3>1. Types'
      BY <2>1, <2>3 DEF IInv, Types
    <3>2. InRequest'
      BY <2>1, <2>3 DEF IInv, InRequest
    <3>3. Made(pos - 1)' = Made(pos - 1) /\ Made(Len(request))' = Made(Len(request))
      BY <2>1, <2>3 DEF Made
    <3>4. InApply'
      BY <2>1, <2>3, <3>3 DEF IInv, InApply
    <3> QED BY <2>3, <3>1, <3>2, <3>4 DEF IInv
  <2> QED BY <1>1, <2>2, <2>3 DEF apply_refused
<1>2. CASE check_refused
  BY <1>2, AttemptRollbackStep DEF check_refused, applied, history
<1> QED BY <1>1, <1>2

-----------------------------------------------------------------------------
(* The apply phase *)

LEMMA EditedSane ==
  ASSUME NEW c \in [Nodes -> Stored], Sane(c), NEW e \in Edits,
         e.op \in Deletes <=> e.val = None, e.val = Default => Schema[e.node].hasDefault
  PROVE  Sane(AE!Edited(c, e)) /\ AE!Edited(c, e) \in [Nodes -> Stored]
<1> DEFINE x == e.node
           f == AE!Edited(c, e)
           Other(n) == Schema[x].case # None /\ Schema[n].case \notin {None, Schema[x].case}
<1>1. x \in Nodes /\ e.val \in Stored /\ e.op \in Ops \cup {"commit"}
  BY DEF Edits
<1>2. None \in Stored /\ Default \in Stored /\ None # Default
  BY SchemaAssumption DEF Stored
<1>3. \A n \in Nodes : Schema[n].hasDefault => Schema[n].case = None
  BY SchemaAssumption
<1>4. CASE e.op \notin Deletes
  <2>1. e.op \in AE!Written
    BY <1>1, <1>4 DEF Ops, Deletes, AE!Written
  <2>2. f = [n \in Nodes |-> IF n = x THEN e.val ELSE IF Other(n) THEN None ELSE c[n]]
    BY <2>1 DEF AE!Edited
  <2>3. e.val # None
    BY <1>4
  <2> HIDE DEF f
  <2>4. \A n \in Nodes : f[n] = IF n = x THEN e.val ELSE IF Other(n) THEN None ELSE c[n]
    BY <2>2
  <2>5. f \in [Nodes -> Stored]
    BY <2>2, <1>1, <1>2
  <2>6. \A n \in Nodes : f[n] = Default => Schema[n].hasDefault
    BY <2>4, <1>2 DEF Sane
  <2>7. \A n \in Nodes : f[n] = None => ~Schema[n].hasDefault
    BY <2>3, <2>4, <1>3 DEF Sane
  <2>8. ASSUME NEW n \in Nodes, NEW m \in Nodes, f[n] # None, f[m] # None, Schema[n].case # None
        PROVE  Schema[m].case \in {None, Schema[n].case}
    <3>1. CASE n = x
      BY <3>1, <2>4, <2>8
    <3>2. CASE n # x /\ m = x
      BY <3>2, <2>4, <2>8
    <3>3. CASE n # x /\ m # x
      <4>1. c[n] # None /\ c[m] # None
        BY <3>3, <2>4, <2>8
      <4> QED BY <4>1, <2>8 DEF Sane
    <3> QED BY <3>1, <3>2, <3>3
  <2>9. Sane(f)
    BY <2>6, <2>7, <2>8 DEF Sane
  <2> QED BY <2>5, <2>9 DEF f
<1>5. CASE e.op \in Deletes
  <2>1. e.op \notin AE!Written
    BY <1>5 DEF Deletes, AE!Written
  <2>2. f = [c EXCEPT ![x] = IF Schema[x].hasDefault THEN Default ELSE None]
    BY <2>1 DEF AE!Edited
  <2> HIDE DEF f
  <2>4. \A n \in Nodes : f[n] = IF n = x THEN IF Schema[x].hasDefault THEN Default ELSE None ELSE c[n]
    BY <2>2
  <2>5. f \in [Nodes -> Stored]
    BY <2>2, <1>1, <1>2
  <2>6. \A n \in Nodes : f[n] = Default => Schema[n].hasDefault
    BY <2>4, <1>2 DEF Sane
  <2>7. \A n \in Nodes : f[n] = None => ~Schema[n].hasDefault
    BY <2>4, <1>2 DEF Sane
  <2>8. ASSUME NEW n \in Nodes, NEW m \in Nodes, f[n] # None, f[m] # None, Schema[n].case # None
        PROVE  Schema[m].case \in {None, Schema[n].case}
    <3>1. CASE n = x
      BY <3>1, <2>4, <2>8, <1>1, <1>3
    <3>2. CASE m = x
      BY <3>2, <2>4, <2>8, <1>1, <1>3
    <3>3. CASE n # x /\ m # x
      <4>1. c[n] # None /\ c[m] # None
        BY <3>3, <2>4, <2>8
      <4> QED BY <4>1, <2>8 DEF Sane
    <3> QED BY <3>1, <3>2, <3>3
  <2>9. Sane(f)
    BY <2>6, <2>7, <2>8 DEF Sane
  <2> QED BY <2>5, <2>9 DEF f
<1> QED BY <1>4, <1>5

\* What an edit does to the contents, node by node
LEMMA EditedIs ==
  ASSUME NEW c \in [Nodes -> Stored], NEW e \in Edits, NEW n \in Nodes
  PROVE  /\ e.op \notin Deletes =>
              AE!Edited(c, e)[n] =
                IF n = e.node THEN e.val
                ELSE IF Schema[e.node].case # None /\ Schema[n].case \notin {None, Schema[e.node].case}
                     THEN None ELSE c[n]
         /\ e.op \in Deletes =>
              AE!Edited(c, e)[n] = IF n = e.node
                                   THEN IF Schema[e.node].hasDefault THEN Default ELSE None
                                   ELSE c[n]
         /\ DOMAIN AE!Edited(c, e) = Nodes
<1>1. e.op \in Ops \cup {"commit"} /\ e.node \in Nodes
  BY DEF Edits
<1>2. e.op \notin Deletes <=> e.op \in AE!Written
  BY <1>1 DEF Ops, Deletes, AE!Written
<1>3. CASE e.op \notin Deletes
  BY <1>2, <1>3 DEF AE!Edited
<1>4. CASE e.op \in Deletes
  BY <1>1, <1>2, <1>4 DEF AE!Edited
<1> QED BY <1>3, <1>4

LEMMA EditedCandidate ==
  ASSUME NEW t, NEW t2, NEW req \in Seq(Edits), NEW p \in 1..Len(req), Requested(req),
         Candidate(t, req, p), Contents(t) \in [Nodes -> Stored],
         Contents(t2) = AE!Edited(Contents(t), req[p])
  PROVE  Candidate(t2, req, p + 1)
<1> DEFINE e == req[p]
           c == Contents(t)
<1>1. e \in Edits /\ e.node \in Nodes
  <2>1. e \in Edits
    OBVIOUS
  <2> QED BY <2>1 DEF Edits
<1>2. PICK cand \in Legal :
        /\ \A k \in 1..Len(req) : \/ req[k].op = "delete" /\ cand[req[k].node] = None
                                  \/ req[k].op = "commit" /\ cand[req[k].node] = req[k].val
        /\ \A n \in Nodes : ValueOf(t, n) = cand[n] \/ \E k \in p..Len(req) : req[k].node = n
  BY DEF Candidate
<1>3. cand \in [Nodes -> Stored] /\ IsLegal(cand)
  BY DEF Legal
<1>4. \/ e.op = "delete" /\ cand[e.node] = None
      \/ e.op = "commit" /\ cand[e.node] = e.val /\ e.val # None
  <2>1. \/ e.op = "delete" /\ cand[e.node] = None
        \/ e.op = "commit" /\ cand[e.node] = e.val
    BY <1>2
  <2>2. e.op \in Deletes <=> e.val = None
    BY DEF Requested
  <2> QED BY <2>1, <2>2 DEF Deletes
<1>5. ASSUME NEW n \in Nodes
      PROVE  ValueOf(t2, n) = cand[n] \/ \E k \in (p+1)..Len(req) : req[k].node = n
  <2>0. ValueOf(t2, n) = AE!Edited(c, e)[n] /\ c[n] = ValueOf(t, n)
    <3>1. ValueOf(t2, n) = Contents(t2)[n]
      BY DEF Contents
    <3> QED BY <3>1 DEF Contents
  <2>1. CASE n = e.node
    <3>1. CASE e.op = "delete"
      <4>1. cand[n] = None /\ ~Schema[n].hasDefault
        BY <3>1, <2>1, <1>3, <1>4 DEF IsLegal
      <4>2. AE!Edited(c, e)[n] = None
        BY <4>1, <3>1, <2>1, <1>1, EditedIs DEF Deletes
      <4> QED BY <4>1, <4>2, <2>0
    <3>2. CASE e.op = "commit"
      <4>1. AE!Edited(c, e)[n] = e.val
        BY <3>2, <2>1, <1>1, EditedIs DEF Deletes
      <4> QED BY <4>1, <3>2, <2>0, <2>1, <1>4
    <3> QED BY <3>1, <3>2, <1>4
  <2>2. CASE n # e.node
    <3>0. ValueOf(t, n) = cand[n] \/ \E k \in (p+1)..Len(req) : req[k].node = n
      <4>1. \A k \in p..Len(req) : k = p \/ k \in (p+1)..Len(req)
        OBVIOUS
      <4> QED BY <4>1, <2>2, <1>2
    <3>1. CASE e.op = "delete"
      <4>1. AE!Edited(c, e)[n] = c[n]
        BY <3>1, <2>2, <1>1, EditedIs DEF Deletes
      <4> QED BY <4>1, <3>0, <2>0
    <3>2. CASE e.op = "commit"
      <4>1. AE!Edited(c, e)[n] =
              IF Schema[e.node].case # None /\ Schema[n].case \notin {None, Schema[e.node].case}
              THEN None ELSE c[n]
        BY <3>2, <2>2, <1>1, EditedIs DEF Deletes
      <4>2. CASE Schema[e.node].case # None /\ Schema[n].case \notin {None, Schema[e.node].case}
        <5>1. cand[e.node] # None
          BY <3>2, <1>4
        <5>2. cand[n] = None
          BY <5>1, <4>2, <1>1, <1>3 DEF IsLegal
        <5> QED BY <5>2, <4>1, <4>2, <2>0
      <4>3. CASE ~(Schema[e.node].case # None /\ Schema[n].case \notin {None, Schema[e.node].case})
        BY <4>1, <4>3, <3>0, <2>0
      <4> QED BY <4>2, <4>3
    <3> QED BY <3>1, <3>2, <1>4
  <2> QED BY <2>1, <2>2
<1> QED BY <1>2, <1>5 DEF Candidate

\* What is known of the node of the next edit
LEMMA NextEdit ==
  ASSUME IInv, applying
  PROVE  /\ pos \in 1..Len(request) /\ edit \in Edits /\ edit.node \in Nodes /\ deadnodeQ = {}
         /\ edit.op \in Deletes <=> edit.val = None
         /\ edit.val = Default => Schema[edit.node].hasDefault
         /\ \A k \in 1..Len(undoQ) : undoQ[k].node # edit.node
         /\ ~Has(tree, newId)
         /\ edit.op \notin Deletes \/ curval # {} => \A id \in Extras(undoQ) : id[1] # edit.node
         /\ edit.op \notin Deletes /\ curval = {} => before[edit.node] = None
         /\ curval # {} =>
              \E i \in Visible(tree) : /\ curval = {i} /\ Id(i) = <<edit.node, 0>>
                                       /\ i.node = edit.node
                                       /\ i.val = before[edit.node] /\ i.val # None
                                       /\ i.val = ValueOf(tree, edit.node)
<1> DEFINE e == edit
<1>1. /\ phase = "apply" /\ pos <= Len(request) /\ Types /\ Forms(tree)
      /\ pos \in Nat \ {0} /\ Len(request) \in Nat /\ Len(undoQ) \in Nat
      /\ request \in Seq(Edits)
  BY UndoTypes DEF applying, IInv, Types
<1>2. pos \in 1..Len(request)
  BY <1>1
<1>3. e \in Edits /\ e.node \in Nodes
  <2>1. e \in Edits
    BY <1>1, <1>2 DEF edit
  <2> QED BY <2>1 DEF Edits
<1>4. /\ InApply /\ InRequest /\ Requested(request) /\ Records(undoQ, before)
      /\ Restorable(tree, before, undoQ, 1, deadnodeQ)
      /\ Forward(tree, before, undoQ, deadnodeQ)
  BY <1>1 DEF IInv, InRequest, InApply
<1>5. deadnodeQ = {}
  BY <1>1, <1>4 DEF InApply
<1>6. /\ e.op \in Deletes <=> e.val = None
      /\ e.val = Default => Schema[e.node].hasDefault
  BY <1>2, <1>4 DEF Requested, edit
<1>7. ASSUME NEW k \in 1..Len(undoQ) PROVE undoQ[k].node # e.node
  <2>1. PICK j \in 1..(pos - 1) : request[j].node = undoQ[k].node
    BY <1>4 DEF InApply
  <2>2. j \in 1..Len(request) /\ j # pos
    BY <1>1
  <2> QED BY <2>1, <2>2, <1>2, <1>4 DEF Requested, edit
<1>8. ~Has(tree, newId)
  <2>1. ASSUME NEW i \in tree, Id(i) = newId PROVE FALSE
    <3>1. i.born = Len(undoQ) + 1
      BY <2>1, IdIs DEF newId
    <3>2. i.born \in 1..Len(undoQ)
      BY <3>1, <1>1, <1>4 DEF Restorable
    <3> QED BY <3>1, <3>2, <1>1
  <2> QED BY <2>1 DEF Has
<1>9. ASSUME NEW id \in Extras(undoQ), id[1] = e.node
      PROVE  e.op \in Deletes /\ curval = {}
  <2>1. e.op \in Deletes
    BY <1>2, <1>4, <1>9 DEF InApply, edit
  <2>2. e.node \in Gone(undoQ, deadnodeQ)
    BY <1>9 DEF Gone
  <2>3. ValueOf(tree, e.node) = None
    BY <2>2, <1>4 DEF Forward
  <2>4. Current(tree, e.node) = {}
    BY <2>3, <1>1, <1>4, SomeVisible DEF Forward
  <2> QED BY <2>1, <2>4 DEF curval
<1>10. ASSUME \A id \in Extras(undoQ) : id[1] # e.node
       PROVE  ValueOf(tree, e.node) = before[e.node]
  <2>1. e.node \notin Gone(undoQ, deadnodeQ)
    BY <1>5, <1>10 DEF Gone
  <2> QED BY <2>1, <1>3, <1>4, <1>7 DEF Forward
<1>11. ASSUME e.op \notin Deletes, curval = {} PROVE before[e.node] = None
  <2>1. ValueOf(tree, e.node) = None
    BY <1>11 DEF ValueOf, curval
  <2> QED BY <2>1, <1>9, <1>10, <1>11
<1>12. ASSUME curval # {}
       PROVE  \E i \in Visible(tree) : /\ curval = {i} /\ Id(i) = <<e.node, 0>>
                                       /\ i.node = e.node
                                       /\ i.val = before[e.node] /\ i.val # None
                                       /\ i.val = ValueOf(tree, e.node)
  <2>1. PICK i \in Visible(tree) : i.node = e.node /\ i.val = ValueOf(tree, e.node) /\ curval = {i}
                                   /\ ValueOf(tree, e.node) # None
    BY <1>1, <1>4, <1>12, SomeVisible DEF Forward, curval
  <2>2. i.born = 0
    <3>1. ASSUME i.born # 0 PROVE FALSE
      <4>1. i.born \in 1..Len(undoQ) /\ undoQ[i.born].newnode = {Id(i)}
        BY <2>1, <3>1, <1>4 DEF Restorable, Visible
      <4>2. Record(undoQ[i.born], i.born, before)
        BY <4>1, <1>4 DEF Records
      <4>3. Id(i) = <<undoQ[i.born].node, i.born>>
        BY <4>1, <4>2 DEF Record
      <4>4. undoQ[i.born].node = e.node
        BY <4>3, <2>1, IdIs
      <4> QED BY <4>1, <4>4, <1>7
    <3> QED BY <3>1
  <2>3. Id(i) = <<e.node, 0>>
    BY <2>1, <2>2, IdIs
  <2>4. ValueOf(tree, e.node) = before[e.node]
    BY <1>9, <1>10, <1>12
  <2> QED BY <2>1, <2>3, <2>4
<1>13. e.op \notin Deletes \/ curval # {} => \A id \in Extras(undoQ) : id[1] # e.node
  BY <1>9
<1> QED BY <1>2, <1>3, <1>5, <1>6, <1>7, <1>8, <1>11, <1>12, <1>13

\* A visible instance of another case was there when the request came, and
\* is not of a node that the request has edited.
Conflicts(n) == /\ Schema[edit.node].case # None
                /\ Schema[n].case \notin {None, Schema[edit.node].case}

LEMMA OtherCase ==
  ASSUME IInv, applying, edit.op \notin Deletes, NEW i \in otherCases
  PROVE  /\ i \in Visible(tree) /\ Id(i) \in IdSet /\ Id(i) = <<i.node, 0>> /\ i.node \in Nodes
         /\ before[i.node] # None /\ i.node # edit.node /\ Conflicts(i.node)
         /\ \A k \in 1..Len(undoQ) : undoQ[k].node # i.node
<1>1. /\ pos \in 1..Len(request) /\ edit = request[pos] /\ edit.node \in Nodes /\ deadnodeQ = {}
  BY NextEdit DEF edit
<1>2. Types /\ Forms(tree) /\ i \in Visible(tree) /\ i \in tree /\ Len(undoQ) \in Nat
  BY UndoTypes DEF IInv, Types, otherCases, Visible
<1>3. i.node \in Nodes /\ i.born \in Nat /\ i.val # None
  BY <1>2, UndoTypes
<1>4. Conflicts(i.node) /\ i.node # edit.node
  BY DEF otherCases, Conflicts
<1>5. /\ InApply /\ InRequest /\ Requested(request) /\ Records(undoQ, before)
      /\ Restorable(tree, before, undoQ, 1, {})
      /\ Forward(tree, before, undoQ, {})
  BY <1>1 DEF IInv, InRequest, InApply, applying
<1>6. ValueOf(tree, i.node) = i.val
  BY <1>2, <1>5, OneVisible DEF Forward
<1>7. i.node \notin Gone(undoQ, {})
  BY <1>3, <1>5, <1>6 DEF Forward
<1>8. ASSUME NEW k \in 1..Len(undoQ), undoQ[k].node = i.node PROVE FALSE
  <2>1. PICK j \in 1..(pos - 1) :
          request[j].node = undoQ[k].node /\ (request[j].op \in Deletes <=> Erases(undoQ[k]))
    BY <1>5 DEF InApply
  <2>2. ValueOf(tree, i.node) = told(i.node, Erases(undoQ[k]), undoQ[k].val)
    BY <1>5, <1>7, <1>8 DEF Forward
  <2>3. ~Schema[i.node].hasDefault
    BY <1>3, <1>4, SchemaAssumption DEF Conflicts
  <2>4. ~Erases(undoQ[k])
    BY <2>2, <2>3, <1>3, <1>6 DEF told
  <2>5. j \in 1..Len(request) /\ request[j].op \notin Deletes /\ request[j].node = i.node
    BY <2>1, <2>4, <1>1, <1>8
  <2>6. \/ None \in {Schema[request[j].node].case, Schema[request[pos].node].case}
        \/ Schema[request[j].node].case = Schema[request[pos].node].case
    BY <2>5, <1>1, <1>5 DEF Requested
  <2> QED BY <2>5, <2>6, <1>1, <1>4 DEF Conflicts
<1>9. i.born = 0
  <2>1. ASSUME i.born # 0 PROVE FALSE
    <3>1. i.born \in 1..Len(undoQ) /\ undoQ[i.born].newnode = {Id(i)}
      BY <2>1, <1>2, <1>5 DEF Restorable
    <3>2. Record(undoQ[i.born], i.born, before)
      BY <3>1, <1>5 DEF Records
    <3>3. Id(i) = <<undoQ[i.born].node, i.born>>
      BY <3>1, <3>2 DEF Record
    <3>4. undoQ[i.born].node = i.node
      BY <3>3, IdIs
    <3> QED BY <3>1, <3>4, <1>8
  <2> QED BY <2>1
<1>10. before[i.node] # None
  BY <1>2, <1>5, <1>9 DEF Restorable
<1> QED BY <1>2, <1>3, <1>4, <1>8, <1>9, <1>10, IdIs DEF IdSet

\* An undo record accounts for what was marked as deleted ...
LEMMA AppendRestorable ==
  ASSUME NEW t, NEW bef, NEW u \in Seq(Undos), NEW ids, NEW r \in Undos,
         Restorable(t, bef, u, 1, ids),
         \A id \in ids : id \in r.extra_deleteQ \/ (id \in r.curnode /\ Drops(r))
  PROVE  Restorable(t, bef, Append(u, r), 1, {})
<1> DEFINE v == Append(u, r)
           N == Len(u) + 1
<1>1. Len(u) \in Nat
  OBVIOUS
<1>2. Len(v) = N /\ v[N] = r /\ \A k \in 1..Len(u) : v[k] = u[k]
  OBVIOUS
<1>3. \A k \in 1..Len(u) : k \in 1..N
  BY <1>1
<1>4. N \in 1..N
  BY <1>1
<1> HIDE DEF v, N
<1>5. \A k \in 1..Len(u) : k \in 1..Len(v) /\ v[k] = u[k]
  BY <1>2, <1>3
<1>6. N \in 1..Len(v)
  BY <1>2, <1>4
<1>7. ASSUME NEW i \in t, i.deleted
      PROVE  \/ \E k \in 1..Len(v) : Id(i) \in v[k].extra_deleteQ
             \/ \E k \in 1..Len(v) : Id(i) \in v[k].curnode /\ Drops(v[k])
  <2>1. \/ Id(i) \in ids
        \/ \E k \in 1..Len(u) : Id(i) \in u[k].extra_deleteQ
        \/ \E k \in 1..Len(u) : Id(i) \in u[k].curnode /\ Drops(u[k])
    BY <1>7 DEF Restorable
  <2> QED BY <2>1, <1>2, <1>5, <1>6
<1>8. \A i \in t : i.born # 0 => i.born \in 1..Len(v) /\ v[i.born].newnode = {Id(i)}
  BY <1>5 DEF Restorable
<1>9. \A i \in t : i.born = 0 /\ i.val # bef[i.node] =>
                     \E k \in 1..Len(v) : v[k].node = i.node /\ Sets(v[k])
  BY <1>5 DEF Restorable
<1>10. Restorable(t, bef, v, 1, {})
  BY <1>7, <1>8, <1>9 DEF Restorable
<1> QED BY <1>10 DEF v

\* ... for the instance that was added ...
LEMMA AddRestorable ==
  ASSUME NEW t, NEW bef, NEW u, NEW new, Restorable(t, bef, u, 1, {}),
         new.born # 0, new.born \in 1..Len(u), u[new.born].newnode = {Id(new)}, ~new.deleted
  PROVE  Restorable(t \cup {new}, bef, u, 1, {})
<1>1. \A n \in Nodes : bef[n] # None => Has(t \cup {new}, <<n, 0>>)
  BY DEF Restorable, Has
<1> QED BY <1>1 DEF Restorable

\* ... and for a value that was changed.
LEMMA MergeRestorable ==
  ASSUME NEW t, NEW bef, NEW u, NEW i0 \in t, NEW v \in Stored \ {None}, Forms(t),
         Restorable(t, bef, u, 1, {}), NEW k0 \in 1..Len(u), u[k0].node = i0.node, Sets(u[k0])
  PROVE  Restorable(val_merge(t, {Id(i0)}, v), bef, u, 1, {})
<1> DEFINE m == val_merge(t, {Id(i0)}, v)
<1>1. ASSUME NEW j \in t PROVE Has(m, Id(j))
  <2>1. PICK i \in m : Like(i, j)
    BY MergedTo
  <2> QED BY <2>1 DEF Like, Has
<1>2. ASSUME NEW i \in m
      PROVE  /\ i.born = 0 => bef[i.node] # None
             /\ i.born # 0 => i.born \in 1..Len(u) /\ u[i.born].newnode = {Id(i)}
             /\ i.born = 0 /\ i.val # bef[i.node] => \E k \in 1..Len(u) : u[k].node = i.node /\ Sets(u[k])
             /\ i.deleted => \/ \E k \in 1..Len(u) : Id(i) \in u[k].extra_deleteQ
                             \/ \E k \in 1..Len(u) : Id(i) \in u[k].curnode /\ Drops(u[k])
  <2>1. PICK j \in t : /\ Like(i, j) /\ i.deleted = j.deleted
                       /\ i.val = IF Id(j) \in {Id(i0)} THEN v ELSE j.val
    BY MergedFrom
  <2>2. i.node = j.node /\ i.born = j.born /\ Id(i) = Id(j)
    BY <2>1 DEF Like
  <2>3. CASE Id(j) = Id(i0)
    <3>1. i.node = i0.node
      BY <2>2, <2>3, IdOf
    <3> QED BY <3>1, <2>1, <2>2 DEF Restorable
  <2>4. CASE Id(j) # Id(i0)
    BY <2>1, <2>2, <2>4 DEF Restorable
  <2> QED BY <2>3, <2>4
<1>3. \A n \in Nodes : bef[n] # None => Has(m, <<n, 0>>)
  BY <1>1 DEF Restorable, Has
<1> HIDE DEF m
<1>4. Restorable(m, bef, u, 1, {})
  BY <1>2, <1>3 DEF Restorable
<1> QED BY <1>4 DEF m

LEMMA AppendRecords ==
  ASSUME NEW u \in Seq(Undos), NEW bef, NEW r \in Undos, Records(u, bef), Record(r, Len(u) + 1, bef),
         \A k \in 1..Len(u) : u[k].node # r.node,
         \A id \in Extras(u) : id[1] # r.node,
         \A id \in r.extra_deleteQ : id[1] # r.node /\ \A k \in 1..Len(u) : id[1] # u[k].node
  PROVE  /\ Records(Append(u, r), bef) /\ Append(u, r) \in Seq(Undos)
         /\ Extras(Append(u, r)) = Extras(u) \cup r.extra_deleteQ
<1> DEFINE v == Append(u, r)
           N == Len(u) + 1
<1>1. Len(u) \in Nat
  OBVIOUS
<1>2. v \in Seq(Undos) /\ Len(v) = N /\ v[N] = r /\ \A k \in 1..Len(u) : v[k] = u[k]
  OBVIOUS
<1>3. \A k \in 1..N : k \in 1..Len(u) \/ k = N
  BY <1>1
<1>4. N \in 1..N /\ \A k \in 1..Len(u) : k \in 1..N /\ k # N
  BY <1>1
<1>5. Record(r, N, bef)
  OBVIOUS
<1> HIDE DEF v, N
<1>6. \A k \in 1..Len(v) : Record(v[k], k, bef)
  BY <1>2, <1>3, <1>5 DEF Records
<1>7. \A k, l \in 1..Len(v) : v[k].node = v[l].node => k = l
  BY <1>2, <1>3 DEF Records
<1>8. \A k, l \in 1..Len(v) : \A id \in v[l].extra_deleteQ : id[1] # v[k].node
  <2>1. \A l \in 1..Len(u) : \A id \in u[l].extra_deleteQ : id[1] # r.node
    BY DEF Extras
  <2> QED BY <2>1, <1>2, <1>3 DEF Records
<1>9. Extras(v) = Extras(u) \cup r.extra_deleteQ
  BY <1>2, <1>3, <1>4 DEF Extras
<1>10. Records(v, bef)
  BY <1>6, <1>7, <1>8 DEF Records
<1> QED BY <1>2, <1>9, <1>10 DEF v

\* An edit of the request that was applied, with its record or without one
LEMMA AppliedStep ==
  ASSUME IInv, applying, pos' = pos + 1,
         target' = target, sil' = sil, phase' = phase, request' = request,
         deadnodeQ' = deadnodeQ, answer' = answer, before' = before, untold' = untold,
         Forms(tree'), undoQ' \in Seq(Undos), Records(undoQ', before),
         Restorable(tree', before, undoQ', 1, {}), Forward(tree', before, undoQ', {}),
         \A k \in 1..Len(undoQ') :
           \/ k \in 1..Len(undoQ) /\ undoQ'[k] = undoQ[k]
           \/ /\ undoQ'[k].node = edit.node /\ (edit.op \in Deletes <=> Erases(undoQ'[k]))
              /\ undoQ'[k].commit_res = "skipped",
         \A id \in Extras(undoQ') : id \in Extras(undoQ) \/ (edit.op \notin Deletes /\ Conflicts(id[1])),
         \A n \in Nodes : ValueOf(tree', n) = AE!Edited(Contents(tree), edit)[n]
  PROVE  IInv'
<1>1. /\ phase = "apply" /\ pos \in 1..Len(request) /\ edit \in Edits /\ deadnodeQ = {}
      /\ edit = request[pos] /\ pos \in Nat \ {0} /\ Len(request) \in Nat
  BY NextEdit DEF applying, edit, IInv, Types
<1>2. /\ Types /\ InApply /\ InRequest /\ Requested(request)
      /\ Forward(tree, before, undoQ, {})
  BY <1>1 DEF IInv, InRequest, InApply
<1>3. Contents(tree) \in [Nodes -> Stored]
  BY <1>2, ValueType DEF Contents, Types, Forward
<1>4. Contents(tree') = AE!Edited(Contents(tree), edit)
  <2>1. DOMAIN AE!Edited(Contents(tree), edit) = Nodes
        /\ AE!Edited(Contents(tree), edit) = [n \in Nodes |-> AE!Edited(Contents(tree), edit)[n]]
    BY <1>1, <1>3, EditedIs DEF AE!Edited
  <2> QED BY <2>1 DEF Contents
<1>5. Types'
  BY <1>1, <1>2 DEF Types
<1>6. InRequest'
  BY <1>1, <1>2 DEF InRequest
<1>7. Contents(tree') = Made(pos)
  <2>1. Made(pos) = AE!Edited(Made(pos - 1), request[pos])
    <3>1. DOMAIN request = 1..Len(request)
      BY <1>2 DEF Types
    <3>2. AreResults(Results(before, request), before, request)
      BY <3>1, <1>1, FoldIsResults
    <3> QED BY <3>2, <1>1 DEF Made, AreResults
  <2>2. Made(pos - 1) = Contents(tree)
    BY <1>1, <1>2 DEF InApply
  <2> QED BY <2>1, <2>2, <1>1, <1>4
<1>8. \A k \in 1..Len(undoQ') : \E j \in 1..(pos' - 1) :
        request[j].node = undoQ'[k].node /\ (request[j].op \in Deletes <=> Erases(undoQ'[k]))
  <2>1. ASSUME NEW k \in 1..Len(undoQ') PROVE
          \E j \in 1..(pos' - 1) :
            request[j].node = undoQ'[k].node /\ (request[j].op \in Deletes <=> Erases(undoQ'[k]))
    <3>1. \A j \in 1..(pos - 1) : j \in 1..(pos' - 1)
      BY <1>1
    <3>2. pos \in 1..(pos' - 1)
      BY <1>1
    <3>3. CASE k \in 1..Len(undoQ) /\ undoQ'[k] = undoQ[k]
      BY <3>1, <3>3, <1>2 DEF InApply
    <3>4. CASE undoQ'[k].node = edit.node /\ (edit.op \in Deletes <=> Erases(undoQ'[k]))
      BY <3>2, <3>4, <1>1
    <3> QED BY <3>3, <3>4
  <2> QED BY <2>1
<1>9. ASSUME NEW k \in 1..Len(request), NEW id \in Extras(undoQ'), request[k].node = id[1]
      PROVE  request[k].op \in Deletes
  <2>1. CASE id \in Extras(undoQ)
    BY <2>1, <1>2, <1>9 DEF InApply
  <2>2. CASE edit.op \notin Deletes /\ Conflicts(id[1])
    <3>1. request[k].op \notin Deletes => \/ None \in {Schema[request[k].node].case, Schema[request[pos].node].case}
                                          \/ Schema[request[k].node].case = Schema[request[pos].node].case
      BY <2>2, <1>1, <1>2 DEF Requested
    <3> QED BY <3>1, <2>2, <1>1, <1>9 DEF Conflicts
  <2> QED BY <2>1, <2>2
<1>10. \A k \in 1..Len(undoQ') : undoQ'[k].commit_res = "skipped"
  BY <1>2 DEF InApply
<1>11. target = "candidate" => Candidate(tree', request, pos + 1)
  <2>1. ASSUME target = "candidate" PROVE Candidate(tree', request, pos + 1)
    <3>1. Candidate(tree, request, pos)
      BY <2>1, <1>2 DEF InApply
    <3>2. Contents(tree') = AE!Edited(Contents(tree), request[pos])
      BY <1>1, <1>4
    <3> QED BY <3>1, <3>2, <1>1, <1>2, <1>3, EditedCandidate DEF Types
  <2> QED BY <2>1
<1>12. pos' <= Len(request') + 1
  BY <1>1
<1>13. Contents(tree') = Made(pos - 1)'
  <2>1. pos' - 1 = pos
    BY <1>1
  <2>2. Made(pos - 1)' = Made(pos)
    BY <2>1 DEF Made
  <2> QED BY <2>2, <1>7
<1>14. untold = {} /\ sil = before
  BY <1>2 DEF InApply
<1>15. InApply'
  BY <1>1, <1>8, <1>9, <1>10, <1>11, <1>12, <1>13, <1>14 DEF InApply
<1> QED BY <1>1, <1>5, <1>6, <1>15 DEF IInv

\* An edit that changes the tree, with the undo record that it leaves
LEMMA RecordedStep ==
  ASSUME IInv, applying, edit.op \notin Deletes \/ curval # {}, pos' = pos + 1,
         target' = target, sil' = sil, phase' = phase, request' = request,
         deadnodeQ' = deadnodeQ, answer' = answer, before' = before, untold' = untold,
         NEW r \in Undos, undoQ' = Append(undoQ, r), Record(r, Len(undoQ) + 1, before),
         r.node = edit.node, r.val = edit.val, Erases(r) <=> edit.op \in Deletes,
         r.commit_res = "skipped",
         \A id \in r.extra_deleteQ : edit.op \notin Deletes /\ \E i \in otherCases : id = Id(i),
         Forms(tree'), OneEach(tree'), Restorable(tree', before, undoQ', 1, {}),
         \A i \in tree' : Id(i) \in Extras(undoQ) \cup r.extra_deleteQ => i.deleted,
         \A id : Has(tree, id) => Has(tree', id),
         \A id \in r.newnode : Has(tree', id),
         ValueOf(tree', edit.node) = told(edit.node, edit.op \in Deletes, edit.val),
         \A n \in Nodes : n # edit.node =>
           ValueOf(tree', n) = IF edit.op \notin Deletes /\ Conflicts(n) THEN None ELSE ValueOf(tree, n)
  PROVE  IInv'
<1>1. /\ pos \in 1..Len(request) /\ edit \in Edits /\ edit.node \in Nodes /\ deadnodeQ = {}
      /\ (edit.op \in Deletes <=> edit.val = None)
      /\ (edit.val = Default => Schema[edit.node].hasDefault)
      /\ \A k \in 1..Len(undoQ) : undoQ[k].node # edit.node
      /\ \A id \in Extras(undoQ) : id[1] # edit.node
  BY NextEdit
<1>2. /\ Types /\ InRequest /\ Records(undoQ, before) /\ undoQ \in Seq(Undos) /\ Forms(tree)
      /\ Len(undoQ) \in Nat
  BY DEF IInv, Types, InRequest, applying
<1>3. Forward(tree, before, undoQ, {})
  BY <1>1 DEF IInv, InApply, applying
<1>4. ASSUME NEW id \in r.extra_deleteQ
      PROVE  /\ edit.op \notin Deletes /\ Conflicts(id[1]) /\ id[1] \in Nodes /\ id[1] # edit.node
             /\ \A k \in 1..Len(undoQ) : id[1] # undoQ[k].node
  <2>1. PICK i \in otherCases : id = Id(i) /\ edit.op \notin Deletes
    OBVIOUS
  <2>2. id[1] = i.node
    BY <2>1, IdIs
  <2> QED BY <2>1, <2>2, OtherCase
<1>5. /\ Records(undoQ', before) /\ undoQ' \in Seq(Undos)
      /\ Extras(undoQ') = Extras(undoQ) \cup r.extra_deleteQ
  BY <1>1, <1>2, <1>4, AppendRecords
<1>6. /\ Len(undoQ') = Len(undoQ) + 1 /\ undoQ'[Len(undoQ) + 1] = r
      /\ \A k \in 1..Len(undoQ) : undoQ'[k] = undoQ[k]
  BY <1>2
<1>7. \A k \in 1..Len(undoQ') : k \in 1..Len(undoQ) \/ k = Len(undoQ) + 1
  BY <1>2, <1>6
<1>8. ASSUME NEW n \in Nodes PROVE ValueOf(tree', n) = AE!Edited(Contents(tree), edit)[n]
  <2>1. Contents(tree) \in [Nodes -> Stored] /\ Contents(tree)[n] = ValueOf(tree, n)
    BY <1>2, <1>3, ValueType DEF Contents, Forward
  <2> DEFINE c == Contents(tree)
  <2>2. CASE edit.op \notin Deletes
    <3>1. AE!Edited(c, edit)[n] = IF n = edit.node THEN edit.val ELSE IF Conflicts(n) THEN None ELSE c[n]
      BY <2>1, <2>2, <1>1, EditedIs DEF Conflicts
    <3>2. CASE n = edit.node
      BY <3>1, <3>2, <2>2 DEF told
    <3>3. CASE n # edit.node
      BY <3>1, <3>3, <2>1, <2>2
    <3> QED BY <3>2, <3>3
  <2>3. CASE edit.op \in Deletes
    <3>1. AE!Edited(c, edit)[n] = IF n = edit.node THEN IF Schema[edit.node].hasDefault THEN Default ELSE None ELSE c[n]
      BY <2>1, <2>3, <1>1, EditedIs
    <3>2. CASE n = edit.node
      BY <3>1, <3>2, <2>3 DEF told
    <3>3. CASE n # edit.node
      BY <3>1, <3>3, <2>1, <2>3
    <3> QED BY <3>2, <3>3
  <2> QED BY <2>2, <2>3
<1>9. Forward(tree', before, undoQ', {})
  <2> DEFINE G == Gone(undoQ, {})
             H == Gone(undoQ', {})
  <2>1. \A n : n \in H <=> n \in G \/ \E id \in r.extra_deleteQ : id[1] = n
    BY <1>5 DEF Gone
  <2>2. edit.node \notin H
    BY <2>1, <1>1, <1>4 DEF Gone
  <2>3. \A i \in tree' : Id(i) \in Extras(undoQ') \cup {} => i.deleted
    BY <1>5
  <2>4. \A k \in 1..Len(undoQ') : \A id \in undoQ'[k].newnode : Has(tree', id)
    BY <1>3, <1>6, <1>7 DEF Forward
  <2>5. Sane(Contents(tree'))
    <3>1. Contents(tree) \in [Nodes -> Stored] /\ Sane(Contents(tree))
      BY <1>2, <1>3, ValueType DEF Contents, Forward
    <3>2. Sane(AE!Edited(Contents(tree), edit)) /\ AE!Edited(Contents(tree), edit) \in [Nodes -> Stored]
      BY <3>1, <1>1, EditedSane
    <3>3. Contents(tree') = AE!Edited(Contents(tree), edit)
      BY <3>2, <1>8 DEF Contents
    <3> QED BY <3>2, <3>3
  <2>6. ASSUME NEW n \in H PROVE ValueOf(tree', n) = None
    <3>0. n \in Nodes /\ n # edit.node
      <4>0. \A id \in Extras(undoQ) : id \in IdSet
        BY <1>2, UndoTypes DEF Extras
      <4>1. \A id \in Extras(undoQ) : id[1] \in Nodes
        BY <4>0 DEF IdSet
      <4>2. n \in G => n \in Nodes
        BY <4>1 DEF Gone
      <4>3. n \in G \/ \E id \in r.extra_deleteQ : id[1] = n
        BY <2>1
      <4>4. n # edit.node
        <5> HIDE DEF H
        <5> QED BY <2>2
      <4> HIDE DEF G, H
      <4> QED BY <4>2, <4>3, <4>4, <1>4
    <3>1. CASE n \in G
      <4>1. ValueOf(tree, n) = None
        BY <3>1, <1>3 DEF Forward
      <4> QED BY <4>1, <3>0
    <3>2. CASE \E id \in r.extra_deleteQ : id[1] = n
      BY <3>0, <3>2, <1>4
    <3> QED BY <3>1, <3>2, <2>1
\* A node that conflicts with the edit and was visible is an extra delete.
  <2>7. ASSUME NEW n \in Nodes \ H, n # edit.node PROVE ValueOf(tree', n) = ValueOf(tree, n)
    <3>1. CASE edit.op \notin Deletes /\ Conflicts(n)
      <4>1. ASSUME ValueOf(tree, n) # None PROVE FALSE
        <5>1. PICK i \in Visible(tree) : i.node = n
          BY <4>1, <1>2, <1>3, SomeVisible DEF Forward
        <5>2. ValueOf(tree', n) = None
          BY <3>1, <2>7
        <5>3. Id(i) \in r.extra_deleteQ \/ ValueOf(tree', n) # None
          <6>1. PICK j \in tree' : Id(j) = Id(i)
            BY <5>1 DEF Has, Visible
          <6>2. CASE ~j.deleted
            <7>1. j \in Visible(tree') /\ j.node = n
              BY <6>1, <6>2, <5>1, IdOf DEF Visible
            <7> QED BY <7>1, OneVisible
          <6>3. CASE j.deleted
            <7>1. \/ \E k \in 1..Len(undoQ') : Id(j) \in undoQ'[k].extra_deleteQ
                  \/ \E k \in 1..Len(undoQ') : Id(j) \in undoQ'[k].curnode /\ Drops(undoQ'[k])
              BY <6>1, <6>3 DEF Restorable
            <7>2. ASSUME NEW k \in 1..Len(undoQ'), Id(j) \in undoQ'[k].extra_deleteQ PROVE n \in H
              BY <7>2, <6>1, <5>1, IdIs DEF Gone, Extras
            <7>3. ASSUME NEW k \in 1..Len(undoQ'), Id(j) \in undoQ'[k].curnode PROVE FALSE
              <8>1. Record(undoQ'[k], k, before)
                BY <1>5 DEF Records
              <8>2. undoQ'[k].node = n
                <9>1. Id(j) = <<undoQ'[k].node, 0>>
                  BY <8>1, <7>3 DEF Record
                <9> QED BY <9>1, <6>1, <5>1, IdIs
              <8>3. k \in 1..Len(undoQ) /\ undoQ[k].node = n
                BY <8>2, <2>7, <1>6, <1>7
              <8>4. \A q \in 1..Len(undoQ) : undoQ[q].node # n
                <9>1. i \in otherCases
                  BY <5>1, <3>1 DEF otherCases, Conflicts
                <9> QED BY <9>1, <3>1, <5>1, OtherCase
              <8> QED BY <8>3, <8>4
            <7> QED BY <7>1, <7>2, <7>3, <2>7
          <6> QED BY <6>2, <6>3
        <5>4. Id(i) \notin r.extra_deleteQ
          BY <5>1, <2>1, <2>7, IdIs
        <5> QED BY <5>2, <5>3, <5>4
      <4> QED BY <4>1, <3>1, <2>7
    <3>2. CASE ~(edit.op \notin Deletes /\ Conflicts(n))
      BY <3>2, <2>7
    <3> QED BY <3>1, <3>2
  <2>8. ASSUME NEW n \in Nodes \ H, \A k \in 1..Len(undoQ') : undoQ'[k].node # n
        PROVE  ValueOf(tree', n) = before[n]
    <3>1. n # edit.node /\ \A k \in 1..Len(undoQ) : undoQ[k].node # n
      <4>1. Len(undoQ) + 1 \in 1..Len(undoQ') /\ \A k \in 1..Len(undoQ) : k \in 1..Len(undoQ')
        BY <1>2, <1>6
      <4> QED BY <4>1, <2>8, <1>6
    <3>2. n \notin G
      BY <2>1, <2>8
    <3>3. ValueOf(tree, n) = before[n]
      BY <3>1, <3>2, <1>3 DEF Forward
    <3> QED BY <3>1, <3>3, <2>7, <2>8
  <2>9. ASSUME NEW k \in 1..Len(undoQ'), undoQ'[k].node \notin H
        PROVE  ValueOf(tree', undoQ'[k].node) = told(undoQ'[k].node, Erases(undoQ'[k]), undoQ'[k].val)
    <3>1. CASE k \in 1..Len(undoQ)
      <4>1. undoQ'[k] = undoQ[k] /\ undoQ[k].node # edit.node /\ undoQ[k].node \in Nodes
        BY <3>1, <1>1, <1>2, <1>6, UndoTypes
      <4>2. undoQ[k].node \notin G
        BY <4>1, <2>1, <2>9
      <4>3. ValueOf(tree, undoQ[k].node) = told(undoQ[k].node, Erases(undoQ[k]), undoQ[k].val)
        BY <4>2, <3>1, <1>3 DEF Forward
      <4> QED BY <4>1, <4>3, <2>7, <2>9
    <3>2. CASE k = Len(undoQ) + 1
      <4>1. undoQ'[k] = r /\ Erases(r) = (edit.op \in Deletes)
        BY <3>2, <1>6 DEF Erases
      <4> QED BY <4>1
    <3> QED BY <3>1, <3>2, <1>7
  <2>10. \A id \in {} : Has(tree', id) /\ Schema[id[1]].when # None /\ ValueOf(tree', Schema[id[1]].when) = None
    OBVIOUS
  <2> QED BY <2>3, <2>4, <2>5, <2>6, <2>8, <2>9, <2>10 DEF Forward
<1>10. \A k \in 1..Len(undoQ') :
           \/ k \in 1..Len(undoQ) /\ undoQ'[k] = undoQ[k]
           \/ /\ undoQ'[k].node = edit.node /\ (edit.op \in Deletes <=> Erases(undoQ'[k]))
              /\ undoQ'[k].commit_res = "skipped"
  BY <1>6, <1>7
<1>11. \A id \in Extras(undoQ') : id \in Extras(undoQ) \/ (edit.op \notin Deletes /\ Conflicts(id[1]))
  BY <1>4, <1>5
<1> QED BY <1>5, <1>8, <1>9, <1>10, <1>11, AppliedStep

\* The undo record of the edit
RecordMade(r, action, newnode, extra) ==
  /\ r \in Undos /\ r.edit_action = action /\ r.node = edit.node /\ r.val = edit.val
  /\ r.newnode = newnode /\ r.extra_deleteQ = extra /\ r.commit_res = "skipped"
  /\ r.free_curnode = Drops(r) /\ (Erases(r) <=> edit.op \in Deletes)
  /\ curval = {} => r.curnode = {} /\ r.curnode_clone = {}
  /\ curval # {} =>
       /\ r.curnode = {<<edit.node, 0>>}
       /\ r.curnode_clone = IF Schema[edit.node].leaf THEN {before[edit.node]} ELSE {}

LEMMA NewRecord ==
  ASSUME IInv, applying, NEW action \in Actions, NEW newnode \in SUBSET IdSet, NEW extra \in SUBSET IdSet
  PROVE  RecordMade(undo_rec(action, newnode, extra), action, newnode, extra)
<1> DEFINE r == undo_rec(action, newnode, extra)
<1>1. /\ r.editop = cvt_editop /\ r.edit_action = action /\ r.node = edit.node /\ r.val = edit.val
      /\ r.newnode = newnode /\ r.curnode = {Id(i) : i \in curval}
      /\ r.curnode_clone = (IF Schema[edit.node].leaf THEN {i.val : i \in curval} ELSE {})
      /\ r.free_curnode = (action \in {"delete", "replace"})
      /\ r.extra_deleteQ = extra /\ r.commit_res = "skipped"
  BY DEF undo_rec
<1>2. edit \in Edits /\ edit.op \in Ops \cup {"commit"} /\ edit.node \in Nodes /\ edit.val \in Stored
  BY NextEdit DEF Edits
<1>3. cvt_editop \in Ops /\ (cvt_editop \in Deletes <=> edit.op \in Deletes)
  BY <1>2 DEF cvt_editop, Ops, Deletes
<1>4. before \in [Nodes -> Stored]
  BY DEF IInv, Types, Legal
<1>5. curval = {} => r.curnode = {} /\ r.curnode_clone = {}
  BY <1>1
<1>6. ASSUME curval # {}
      PROVE  /\ r.curnode = {<<edit.node, 0>>}
             /\ r.curnode_clone = IF Schema[edit.node].leaf THEN {before[edit.node]} ELSE {}
  <2>1. PICK i \in Visible(tree) : curval = {i} /\ Id(i) = <<edit.node, 0>> /\ i.val = before[edit.node]
    BY <1>6, NextEdit
  <2>2. {Id(j) : j \in curval} = {Id(i)} /\ {j.val : j \in curval} = {i.val}
    BY <2>1
  <2> QED BY <2>1, <2>2, <1>1
<1>7. r.curnode \in SUBSET IdSet /\ r.curnode_clone \in SUBSET Stored
  <2>1. <<edit.node, 0>> \in IdSet /\ before[edit.node] \in Stored
    BY <1>2, <1>4 DEF IdSet
  <2> QED BY <2>1, <1>5, <1>6
<1>8. r = [editop |-> r.editop, edit_action |-> r.edit_action, node |-> r.node, val |-> r.val,
           newnode |-> r.newnode, curnode |-> r.curnode, curnode_clone |-> r.curnode_clone,
           free_curnode |-> r.free_curnode, extra_deleteQ |-> r.extra_deleteQ,
           commit_res |-> r.commit_res]
  BY DEF undo_rec
<1> HIDE DEF r
<1>9. r.free_curnode \in BOOLEAN /\ r.free_curnode = Drops(r)
  BY <1>1 DEF Drops
<1>10. r \in Undos
  BY <1>1, <1>2, <1>3, <1>7, <1>8, <1>9 DEF Undos
<1>11. RecordMade(r, action, newnode, extra)
  BY <1>1, <1>3, <1>5, <1>6, <1>9, <1>10 DEF Erases, RecordMade
<1> QED BY <1>11 DEF r

LEMMA AddStep ==
  ASSUME IInv, apply_write_val, add_child_node
  PROVE  IInv'
<1> DEFINE extra == {Id(i) : i \in otherCases}
           r == undo_rec("add", {newId}, extra)
           t == VAL_MARK_DELETED(tree, extra)
           e == edit
           new == newInstance
<1>1. /\ applying /\ edit.op \notin Deletes /\ curval = {} /\ pos' = pos + 1
      /\ target' = target /\ sil' = sil /\ phase' = phase /\ request' = request
      /\ deadnodeQ' = deadnodeQ /\ answer' = answer /\ before' = before /\ untold' = untold
  BY DEF apply_write_val, add_child_node, history
<1>2. undoQ' = Append(undoQ, r) /\ tree' = t \cup {new}
  BY DEF add_child_node, add_undo_node
<1>3. /\ e \in Edits /\ e.node \in Nodes /\ deadnodeQ = {} /\ e.val # None
      /\ e.val = Default => Schema[e.node].hasDefault
      /\ ~Has(tree, newId) /\ before[e.node] = None
  BY <1>1, NextEdit
<1>4. /\ Types /\ Forms(tree) /\ undoQ \in Seq(Undos) /\ Len(undoQ) \in Nat
      /\ Forward(tree, before, undoQ, {}) /\ OneEach(tree) /\ Restorable(tree, before, undoQ, 1, {})
  BY <1>1, <1>3 DEF IInv, Types, InApply, InRequest, Forward, applying
<1>5. ASSUME NEW id \in extra
      PROVE  \E i \in otherCases : /\ id = Id(i) /\ id \in IdSet /\ id[2] = 0 /\ id[1] = i.node
                                   /\ before[id[1]] # None /\ id[1] # e.node /\ Conflicts(id[1])
                                   /\ i \in Visible(tree)
  <2>1. PICK i \in otherCases : id = Id(i)
    OBVIOUS
  <2>2. /\ i \in Visible(tree) /\ Id(i) \in IdSet /\ Id(i) = <<i.node, 0>>
        /\ before[i.node] # None /\ i.node # e.node /\ Conflicts(i.node)
    BY <1>1, OtherCase
  <2> QED BY <2>1, <2>2
<1>6. newId \in IdSet /\ new \in Instance /\ Id(new) = newId /\ ~new.deleted /\ new.node = e.node
      /\ new.val = e.val /\ new.born = Len(undoQ) + 1
  <2>1. newId = <<e.node, Len(undoQ) + 1>> /\ newId[2] = Len(undoQ) + 1
    BY DEF newId
  <2>2. e.val \in Stored \ {None} /\ Len(undoQ) + 1 \in Nat
    BY <1>3, <1>4 DEF Edits
  <2> QED BY <2>1, <2>2, <1>3 DEF newInstance, Instance, IdSet, Id
<1>7. /\ r \in Undos /\ r.edit_action = "add" /\ r.node = e.node /\ r.val = e.val
      /\ r.newnode = {newId} /\ r.extra_deleteQ = extra /\ r.commit_res = "skipped"
      /\ r.free_curnode = Drops(r) /\ (Erases(r) <=> e.op \in Deletes)
      /\ r.curnode = {} /\ r.curnode_clone = {}
  <2>1. extra \in SUBSET IdSet /\ {newId} \in SUBSET IdSet /\ "add" \in Actions
    BY <1>5, <1>6 DEF Actions
  <2> HIDE DEF extra
  <2>2. RecordMade(undo_rec("add", {newId}, extra), "add", {newId}, extra)
    BY <2>1, <1>1, NewRecord, Zenon
  <2> QED BY <2>2, <1>1 DEF RecordMade
<1>7a. \A n : Conflicts(n) => \A i \in Visible(tree) : i.node = n => Id(i) \in extra
  BY DEF Conflicts, otherCases
<1>7b. \A id \in extra : \E i \in otherCases : id = Id(i)
  OBVIOUS
<1> HIDE DEF r, extra, new, t
<1>8. Record(r, Len(undoQ) + 1, before)
  <2>1. r.newnode = {<<r.node, Len(undoQ) + 1>>}
    BY <1>7 DEF newId
  <2>2. \A id \in r.extra_deleteQ : id[2] = 0 /\ before[id[1]] # None
    BY <1>5, <1>7
  <2>3. ~Erases(r) /\ ~Sets(r)
    BY <1>1, <1>7 DEF Sets
  <2> QED BY <2>1, <2>2, <2>3, <1>3, <1>7 DEF Record
<1>9. /\ Forms(t) /\ OneEach(t)
      /\ \A i \in Visible(tree) : Id(i) \in extra => ValueOf(t, i.node) = None
      /\ \A n : (\A i \in Visible(tree) : Id(i) \in extra => i.node # n)
                  => ValueOf(t, n) = ValueOf(tree, n)
  BY <1>4, MarkedValues DEF t
<1>10. ValueOf(t, e.node) = None
  <2>1. ValueOf(tree, e.node) = None
    BY <1>1 DEF curval, ValueOf
  <2>2. \A i \in Visible(tree) : Id(i) \in extra => i.node # e.node
    BY <1>5, IdIs
  <2> QED BY <2>1, <2>2, <1>9
<1>11. /\ \A id : Has(tree, id) => Has(t, id)
       /\ \A i \in t : /\ Id(i) \in extra => i.deleted
                       /\ \E j \in tree : Id(i) = Id(j) /\ (j.deleted => i.deleted)
  BY <1>4, MarkKeepsIds DEF t
<1>12. ~Has(t, Id(new))
  BY <1>3, <1>6, <1>11 DEF Has
<1>13. /\ Forms(tree') /\ OneEach(tree') /\ ValueOf(tree', e.node) = e.val
       /\ \A n : n # e.node => ValueOf(tree', n) = ValueOf(t, n)
  BY <1>2, <1>6, <1>9, <1>10, <1>12, AddedValues
<1>14. Restorable(tree', before, undoQ', 1, {})
  <2>1. Restorable(t, before, undoQ, 1, {} \cup extra)
    BY <1>4, MarkKeepsRestorable DEF t
  <2>2. Restorable(t, before, undoQ, 1, extra)
    BY <2>1
  <2>3. Restorable(t, before, undoQ', 1, {})
    BY <2>2, <1>2, <1>4, <1>7, AppendRestorable
  <2>4. new.born # 0 /\ new.born \in 1..Len(undoQ') /\ undoQ'[new.born] = r
    BY <1>2, <1>4, <1>6
  <2> QED BY <2>3, <2>4, <1>2, <1>6, <1>7, AddRestorable
<1>15. \A i \in tree' : Id(i) \in Extras(undoQ) \cup r.extra_deleteQ => i.deleted
  <2>1. ASSUME NEW i \in t, Id(i) \in Extras(undoQ) \cup extra PROVE i.deleted
    BY <2>1, <1>4, <1>11 DEF Forward
  <2>2. Id(new) \notin Extras(undoQ) \cup extra
    <3>1. newId[1] = e.node
      BY DEF newId
    <3>2. \A id \in Extras(undoQ) : id[1] # e.node
      BY <1>1, NextEdit
    <3> QED BY <3>1, <3>2, <1>5, <1>6
  <2> QED BY <2>1, <2>2, <1>2, <1>7
<1>16. (\A id : Has(tree, id) => Has(tree', id)) /\ \A id \in r.newnode : Has(tree', id)
  <2>1. ASSUME NEW id, Has(tree, id) PROVE Has(tree', id)
    <3>1. Has(t, id)
      BY <1>11, <2>1
    <3> QED BY <3>1, <1>2 DEF Has
  <2>2. new \in tree' /\ Id(new) = newId /\ r.newnode = {newId}
    BY <1>2, <1>6, <1>7
  <2>3. \A id \in r.newnode : Has(tree', id)
    BY <2>2 DEF Has
  <2> QED BY <2>1, <2>3
<1>17. ASSUME NEW n \in Nodes, n # e.node
       PROVE  ValueOf(tree', n) = IF e.op \notin Deletes /\ Conflicts(n) THEN None ELSE ValueOf(tree, n)
  <2>1. CASE Conflicts(n)
    <3>1. CASE \E i \in Visible(tree) : i.node = n
      BY <3>1, <2>1, <1>1, <1>7a, <1>9, <1>13, <1>17
    <3>2. CASE \A i \in Visible(tree) : i.node # n
      <4>1. ValueOf(tree, n) = None
        BY <3>2, NoneVisible
      <4> QED BY <4>1, <3>2, <2>1, <1>1, <1>9, <1>13, <1>17
    <3> QED BY <3>1, <3>2
  <2>2. CASE ~Conflicts(n)
    <3>1. \A i \in Visible(tree) : Id(i) \in extra => i.node # n
      BY <2>2, <1>5, IdIs
    <3> QED BY <3>1, <2>2, <1>9, <1>13, <1>17
  <2> QED BY <2>1, <2>2
<1>18. ValueOf(tree', e.node) = told(e.node, e.op \in Deletes, e.val)
  BY <1>1, <1>13 DEF told
<1>19. \A id \in r.extra_deleteQ : e.op \notin Deletes /\ \E i \in otherCases : id = Id(i)
  BY <1>1, <1>7, <1>7b
<1> QED BY <1>1, <1>2, <1>7, <1>8, <1>13, <1>14, <1>15, <1>16, <1>17, <1>18, <1>19, RecordedStep

\* The instance that an edit changes, when there is one: then no node of
\* another case has a value.
LEMMA HasCurrent ==
  ASSUME IInv, applying, curval # {}
  PROVE  /\ \E i \in Visible(tree) : /\ {Id(j) : j \in curval} = {Id(i)} /\ Id(i) = <<edit.node, 0>>
                                     /\ i.node = edit.node /\ before[edit.node] # None
         /\ \A n \in Nodes : Conflicts(n) => ValueOf(tree, n) = None
<1>1. PICK i \in Visible(tree) : /\ curval = {i} /\ Id(i) = <<edit.node, 0>> /\ i.node = edit.node
                                 /\ i.val = before[edit.node] /\ i.val # None
                                 /\ i.val = ValueOf(tree, edit.node)
  BY NextEdit
<1>2. {Id(j) : j \in curval} = {Id(i)}
  BY <1>1
<1>3. ASSUME NEW n \in Nodes, Conflicts(n) PROVE ValueOf(tree, n) = None
  <2>1. edit.node \in Nodes /\ deadnodeQ = {}
    BY NextEdit
  <2>2. Sane(Contents(tree))
    BY <2>1 DEF IInv, InApply, applying, Forward
  <2>3. Contents(tree)[n] = ValueOf(tree, n) /\ Contents(tree)[edit.node] = ValueOf(tree, edit.node)
    BY <2>1 DEF Contents
  <2> QED BY <1>1, <1>3, <2>1, <2>2, <2>3 DEF Sane, Conflicts
<1> QED BY <1>1, <1>2, <1>3

\* The value of a leaf was set, by an edit or to its default.
LEMMA SetStep ==
  ASSUME IInv, applying, curval # {}, pos' = pos + 1,
         target' = target, sil' = sil, phase' = phase, request' = request,
         deadnodeQ' = deadnodeQ, answer' = answer, before' = before, untold' = untold,
         NEW action \in {"set", "delete_default"}, undoQ' = Append(undoQ, undo_rec(action, {}, {})),
         NEW v \in Stored \ {None}, tree' = val_merge(tree, {Id(i) : i \in curval}, v),
         v = told(edit.node, edit.op \in Deletes, edit.val), Schema[edit.node].leaf,
         action = "delete_default" <=> edit.op \in Deletes,
         edit.op \in Deletes => Schema[edit.node].hasDefault
  PROVE  IInv'
<1> DEFINE r == undo_rec(action, {}, {})
           e == edit
<1>1. /\ e \in Edits /\ e.node \in Nodes /\ deadnodeQ = {}
      /\ e.op \in Deletes <=> e.val = None
      /\ e.val = Default => Schema[e.node].hasDefault
      /\ \A id \in Extras(undoQ) : id[1] # e.node
  BY NextEdit
<1>2. /\ Types /\ Forms(tree) /\ undoQ \in Seq(Undos) /\ Len(undoQ) \in Nat
      /\ Forward(tree, before, undoQ, {}) /\ OneEach(tree) /\ Restorable(tree, before, undoQ, 1, {})
  BY <1>1 DEF IInv, Types, InApply, InRequest, Forward, applying
<1>3. PICK i \in Visible(tree) : /\ {Id(j) : j \in curval} = {Id(i)} /\ Id(i) = <<e.node, 0>>
                                 /\ i.node = e.node /\ before[e.node] # None
  BY HasCurrent
<1>4. \A n \in Nodes : Conflicts(n) => ValueOf(tree, n) = None
  BY HasCurrent
<1>5. /\ r \in Undos /\ r.edit_action = action /\ r.node = e.node /\ r.val = e.val
      /\ r.newnode = {} /\ r.extra_deleteQ = {} /\ r.commit_res = "skipped"
      /\ r.free_curnode = Drops(r) /\ (Erases(r) <=> e.op \in Deletes)
      /\ r.curnode = {<<e.node, 0>>}
      /\ r.curnode_clone = IF Schema[e.node].leaf THEN {before[e.node]} ELSE {}
  <2>1. action \in Actions /\ {} \in SUBSET IdSet
    BY DEF Actions
  <2>2. RecordMade(undo_rec(action, {}, {}), action, {}, {})
    BY <2>1, NewRecord, Zenon
  <2> QED BY <2>2 DEF RecordMade
<1> HIDE DEF r
<1>6. Record(r, Len(undoQ) + 1, before)
  BY <1>1, <1>3, <1>5 DEF Record, Drops
<1>7. i \in tree /\ tree' = val_merge(tree, {Id(i)}, v)
  BY <1>3 DEF Visible
<1>8. /\ Forms(tree') /\ OneEach(tree') /\ ValueOf(tree', e.node) = v
      /\ \A n : n # e.node => ValueOf(tree', n) = ValueOf(tree, n)
  <2> DEFINE m == val_merge(tree, {Id(i)}, v)
  <2>1. /\ Forms(m) /\ OneEach(m) /\ ValueOf(m, i.node) = v
        /\ \A n : n # i.node => ValueOf(m, n) = ValueOf(tree, n)
    <3>1. Forms(tree) /\ OneEach(tree) /\ i \in Visible(tree) /\ v \in Stored \ {None}
      BY <1>2, <1>3
    <3> QED BY ONLY <3>1, MergedValues
  <2> HIDE DEF m
  <2> QED BY <2>1, <1>3, <1>7 DEF m
<1>9. Restorable(tree', before, undoQ', 1, {})
  <2>1. Restorable(tree, before, undoQ', 1, {})
    BY <1>2, <1>5, AppendRestorable DEF r
  <2>2. Len(undoQ) + 1 \in 1..Len(undoQ') /\ undoQ'[Len(undoQ) + 1] = r
    BY <1>2 DEF r
  <2>3. Sets(r)
    BY <1>5 DEF Sets
  <2>4. \E k \in 1..Len(undoQ') : undoQ'[k].node = i.node /\ Sets(undoQ'[k])
    BY <2>2, <2>3, <1>3, <1>5
  <2>5. Restorable(val_merge(tree, {Id(i)}, v), before, undoQ', 1, {})
    BY <2>1, <2>4, <1>2, <1>7, MergeRestorable
  <2> QED BY <2>5, <1>7
<1>10. \A k \in tree' : Id(k) \in Extras(undoQ) \cup r.extra_deleteQ => k.deleted
  <2>1. ASSUME NEW k \in tree', Id(k) \in Extras(undoQ) PROVE k.deleted
    <3>1. PICK j \in tree : Like(k, j) /\ k.deleted = j.deleted
      BY <1>2, <1>7, MergedFrom
    <3> QED BY <3>1, <2>1, <1>2 DEF Forward, Like
  <2> QED BY <2>1, <1>5
<1>11. ASSUME NEW id, Has(tree, id) PROVE Has(tree', id)
  <2>1. PICK j \in tree : Id(j) = id
    BY <1>11 DEF Has
  <2>2. PICK k \in val_merge(tree, {Id(i)}, v) : Like(k, j)
    BY <1>2, MergedTo
  <2>3. k \in tree'
    BY <2>2, <1>7
  <2> QED BY <2>1, <2>2, <2>3 DEF Has, Like
<1>12. \A n \in Nodes : n # e.node =>
         ValueOf(tree', n) = IF e.op \notin Deletes /\ Conflicts(n) THEN None ELSE ValueOf(tree, n)
  BY <1>4, <1>8
<1>13. (\A id \in r.newnode : Has(tree', id))
       /\ \A id \in r.extra_deleteQ : e.op \notin Deletes /\ \E j \in otherCases : id = Id(j)
  BY <1>5
<1>14. undoQ' = Append(undoQ, r)
  BY DEF r
<1> QED BY <1>5, <1>6, <1>8, <1>9, <1>10, <1>11, <1>12, <1>13, <1>14, RecordedStep

\* An instance was marked as deleted and maybe another one put in its place.
LEMMA DropStep ==
  ASSUME IInv, applying, curval # {}, pos' = pos + 1,
         target' = target, sil' = sil, phase' = phase, request' = request,
         deadnodeQ' = deadnodeQ, answer' = answer, before' = before, untold' = untold,
         \/ /\ edit.op \notin Deletes
            /\ undoQ' = Append(undoQ, undo_rec("replace", {newId}, {}))
            /\ tree' = VAL_MARK_DELETED(tree, {Id(i) : i \in curval}) \cup {newInstance}
         \/ /\ edit.op \in Deletes /\ ~Schema[edit.node].hasDefault
            /\ undoQ' = Append(undoQ, undo_rec("delete", {}, {}))
            /\ tree' = VAL_MARK_DELETED(tree, {Id(i) : i \in curval})
  PROVE  IInv'
<1> DEFINE e == edit
           action == IF e.op \in Deletes THEN "delete" ELSE "replace"
           added == IF e.op \in Deletes THEN {} ELSE {newId}
           r == undo_rec(action, added, {})
           ids == {Id(i) : i \in curval}
           t == VAL_MARK_DELETED(tree, ids)
           new == newInstance
<1>1. /\ e \in Edits /\ e.node \in Nodes /\ deadnodeQ = {} /\ ~Has(tree, newId)
      /\ e.op \in Deletes <=> e.val = None
      /\ e.val = Default => Schema[e.node].hasDefault
      /\ \A id \in Extras(undoQ) : id[1] # e.node
  BY NextEdit
<1>2. /\ Types /\ Forms(tree) /\ undoQ \in Seq(Undos) /\ Len(undoQ) \in Nat
      /\ Forward(tree, before, undoQ, {}) /\ OneEach(tree) /\ Restorable(tree, before, undoQ, 1, {})
  BY <1>1 DEF IInv, Types, InApply, InRequest, Forward, applying
<1>3. PICK i \in Visible(tree) : /\ ids = {Id(i)} /\ Id(i) = <<e.node, 0>>
                                 /\ i.node = e.node /\ before[e.node] # None
  BY HasCurrent
<1>4. \A n \in Nodes : Conflicts(n) => ValueOf(tree, n) = None
  BY HasCurrent
<1>5. newId \in IdSet /\ new.born = Len(undoQ) + 1 /\ newId = <<e.node, Len(undoQ) + 1>>
      /\ Id(new) = newId /\ ~new.deleted /\ new.node = e.node /\ new.val = e.val
      /\ (e.op \notin Deletes => new \in Instance)
  <2>1. newId = <<e.node, Len(undoQ) + 1>> /\ newId[2] = Len(undoQ) + 1
    BY DEF newId
  <2>2. e.op \notin Deletes => e.val \in Stored \ {None}
    BY <1>1 DEF Edits
  <2>3. Len(undoQ) + 1 \in Nat
    BY <1>2
  <2> QED BY <2>1, <2>2, <2>3, <1>1 DEF newInstance, Instance, IdSet, Id
<1>6. /\ undoQ' = Append(undoQ, r) /\ (e.op \in Deletes => ~Schema[e.node].hasDefault)
      /\ tree' = IF e.op \in Deletes THEN t ELSE t \cup {new}
  OBVIOUS
<1>7. /\ r \in Undos /\ r.edit_action = action /\ r.node = e.node /\ r.val = e.val
      /\ r.newnode = added /\ r.extra_deleteQ = {} /\ r.commit_res = "skipped"
      /\ r.free_curnode = Drops(r) /\ (Erases(r) <=> e.op \in Deletes)
      /\ r.curnode = {<<e.node, 0>>}
      /\ r.curnode_clone = IF Schema[e.node].leaf THEN {before[e.node]} ELSE {}
  <2>1. action \in Actions /\ added \in SUBSET IdSet /\ {} \in SUBSET IdSet
    BY <1>5 DEF Actions
  <2> HIDE DEF action, added
  <2>2. RecordMade(undo_rec(action, added, {}), action, added, {})
    BY <2>1, NewRecord, Zenon
  <2> QED BY <2>2 DEF RecordMade
<1>8. action = (IF e.op \in Deletes THEN "delete" ELSE "replace")
      /\ added = (IF e.op \in Deletes THEN {} ELSE {newId})
  OBVIOUS
<1> HIDE DEF r, action, added, new
<1>9. Record(r, Len(undoQ) + 1, before)
  <2>1. Drops(r) /\ ~Sets(r)
    BY <1>7, <1>8 DEF Drops, Sets
  <2>2. r.newnode = IF r.edit_action \in {"add", "replace"} THEN {<<r.node, Len(undoQ) + 1>>} ELSE {}
    BY <1>5, <1>7, <1>8
  <2> QED BY <2>1, <2>2, <1>1, <1>3, <1>6, <1>7, <1>8 DEF Record
<1>10. /\ Forms(t) /\ OneEach(t)
       /\ \A j \in Visible(tree) : Id(j) \in ids => ValueOf(t, j.node) = None
       /\ \A n : (\A j \in Visible(tree) : Id(j) \in ids => j.node # n)
                   => ValueOf(t, n) = ValueOf(tree, n)
  <2> HIDE DEF ids
  <2> QED BY <1>2, MarkedValues DEF t
<1>11. /\ ValueOf(t, e.node) = None
       /\ \A n : n # e.node => ValueOf(t, n) = ValueOf(tree, n)
  <2>1. ASSUME NEW n, n # e.node, NEW j \in Visible(tree), Id(j) \in ids PROVE j.node # n
    <3>1. Id(j) = Id(i)
      BY <2>1, <1>3
    <3> QED BY <3>1, <2>1, <1>3, IdOf
  <2>2. Id(i) \in ids
    BY <1>3
  <2> HIDE DEF t, ids
  <2> QED BY <2>1, <2>2, <1>3, <1>10
<1>12. /\ \A id : Has(tree, id) => Has(t, id)
       /\ \A k \in t : /\ Id(k) \in ids => k.deleted
                       /\ \E j \in tree : Id(k) = Id(j) /\ (j.deleted => k.deleted)
  <2> HIDE DEF ids
  <2> QED BY <1>2, MarkKeepsIds DEF t
<1>13. Restorable(t, before, undoQ', 1, {})
  <2>1. Restorable(t, before, undoQ, 1, {} \cup ids)
    <3> HIDE DEF ids
    <3> QED BY <1>2, MarkKeepsRestorable DEF t
  <2>2. Restorable(t, before, undoQ, 1, ids)
    BY <2>1
  <2>3. \A id \in ids : id \in r.curnode /\ Drops(r)
    BY <1>3, <1>7, <1>8 DEF Drops
  <2> HIDE DEF t, ids
  <2> QED BY <2>2, <2>3, <1>2, <1>6, <1>7, AppendRestorable
<1> HIDE DEF t, ids
<1>14. ~Has(t, Id(new))
  BY <1>1, <1>5, <1>12 DEF Has
<1>15. CASE e.op \notin Deletes
  <2>1. tree' = t \cup {new} /\ r.newnode = {newId}
    BY <1>6, <1>7, <1>8, <1>15
  <2>2. /\ Forms(tree') /\ OneEach(tree') /\ ValueOf(tree', e.node) = e.val
        /\ \A n : n # e.node => ValueOf(tree', n) = ValueOf(tree, n)
    <3> DEFINE m == t \cup {new}
    <3>1. new \in Instance /\ ValueOf(t, new.node) = None
      BY <1>5, <1>11, <1>15
    <3>2. /\ Forms(m) /\ OneEach(m) /\ ValueOf(m, new.node) = new.val
          /\ \A n : n # new.node => ValueOf(m, n) = ValueOf(t, n)
      BY <3>1, <1>5, <1>10, <1>14, AddedValues
    <3> HIDE DEF m
    <3>3. tree' = m
      BY <2>1 DEF m
    <3> QED BY <3>2, <3>3, <1>5, <1>11
  <2>3. Restorable(tree', before, undoQ', 1, {})
    <3>1. new.born # 0 /\ new.born \in 1..Len(undoQ') /\ undoQ'[new.born] = r
      BY <1>2, <1>5, <1>6
    <3> QED BY <3>1, <2>1, <1>5, <1>13, AddRestorable
  <2>4. \A k \in tree' : Id(k) \in Extras(undoQ) \cup r.extra_deleteQ => k.deleted
    <3>1. ASSUME NEW k \in t, Id(k) \in Extras(undoQ) PROVE k.deleted
      BY <3>1, <1>2, <1>12 DEF Forward
    <3>2. newId[1] = e.node
      BY <1>5
    <3>3. Id(new) \notin Extras(undoQ)
      BY <3>2, <1>1, <1>5
    <3> QED BY <3>1, <3>3, <2>1, <1>7
  <2>5. ASSUME NEW id, Has(tree, id) PROVE Has(tree', id)
    <3>1. Has(t, id)
      BY <2>5, <1>12
    <3> QED BY <3>1, <2>1 DEF Has
  <2>6. \A id \in r.newnode : Has(tree', id)
    <3>1. new \in tree' /\ Id(new) = newId
      BY <2>1, <1>5
    <3> QED BY <3>1, <2>1 DEF Has
  <2>7. ValueOf(tree', e.node) = told(e.node, e.op \in Deletes, e.val)
    BY <2>2, <1>15 DEF told
  <2>8. \A n \in Nodes : n # e.node =>
          ValueOf(tree', n) = IF e.op \notin Deletes /\ Conflicts(n) THEN None ELSE ValueOf(tree, n)
    BY <2>2, <1>4
  <2>9. \A id \in r.extra_deleteQ : e.op \notin Deletes /\ \E j \in otherCases : id = Id(j)
    BY <1>7
  <2> QED BY <2>2, <2>3, <2>4, <2>5, <2>6, <2>7, <2>8, <2>9, <1>6, <1>7, <1>9, RecordedStep
<1>16. CASE e.op \in Deletes
  <2>1. tree' = t /\ r.newnode = {}
    BY <1>6, <1>7, <1>8, <1>16
  <2>2. /\ Forms(tree') /\ OneEach(tree') /\ ValueOf(tree', e.node) = None
        /\ \A n : n # e.node => ValueOf(tree', n) = ValueOf(tree, n)
        /\ Restorable(tree', before, undoQ', 1, {})
        /\ \A id : Has(tree, id) => Has(tree', id)
    BY <2>1, <1>10, <1>11, <1>12, <1>13
  <2>3. \A k \in tree' : Id(k) \in Extras(undoQ) \cup r.extra_deleteQ => k.deleted
    BY <2>1, <1>2, <1>7, <1>12 DEF Forward
  <2>4. ValueOf(tree', e.node) = told(e.node, e.op \in Deletes, e.val)
    BY <2>2, <1>6, <1>16 DEF told
  <2>5. \A n \in Nodes : n # e.node =>
          ValueOf(tree', n) = IF e.op \notin Deletes /\ Conflicts(n) THEN None ELSE ValueOf(tree, n)
    BY <2>2, <1>16
  <2>6. \A id \in r.extra_deleteQ : e.op \notin Deletes /\ \E j \in otherCases : id = Id(j)
    BY <1>7
  <2>7. \A id \in r.newnode : Has(tree', id)
    BY <2>1
  <2> QED BY <2>2, <2>3, <2>4, <2>5, <2>6, <2>7, <1>6, <1>7, <1>9, RecordedStep
<1> QED BY <1>15, <1>16

\* An edit that changes nothing leaves no record.
LEMMA NoChangeStep ==
  ASSUME IInv, applying, pos' = pos + 1,
         target' = target, sil' = sil, phase' = phase, request' = request,
         deadnodeQ' = deadnodeQ, answer' = answer, before' = before, untold' = untold,
         tree' = tree, undoQ' = undoQ,
         ~agt_apply_this_node \/ (edit.op \in Deletes /\ curval = {})
  PROVE  IInv'
<1> DEFINE e == edit
<1>1. /\ e \in Edits /\ e.node \in Nodes /\ deadnodeQ = {}
      /\ e.op \in Deletes <=> e.val = None
  BY NextEdit
<1>2. /\ Types /\ Forms(tree) /\ undoQ \in Seq(Undos) /\ Records(undoQ, before)
      /\ Forward(tree, before, undoQ, {}) /\ OneEach(tree) /\ Restorable(tree, before, undoQ, 1, {})
  BY <1>1 DEF IInv, Types, InApply, InRequest, Forward, applying
<1>3. \A n \in Nodes : Contents(tree)[n] = ValueOf(tree, n)
  BY DEF Contents
<1>4. Contents(tree) \in [Nodes -> Stored] /\ Sane(Contents(tree))
  BY <1>2, ValueType DEF Contents, Forward
<1>5. ASSUME NEW n \in Nodes PROVE ValueOf(tree, n) = AE!Edited(Contents(tree), e)[n]
  <2>1. CASE ~agt_apply_this_node
    <3>1. e.op \notin Deletes /\ ValueOf(tree, e.node) = e.val
      BY <2>1 DEF agt_apply_this_node, Deletes
    <3>2. curval # {}
      BY <3>1, <1>1 DEF curval, ValueOf
    <3>3. Conflicts(n) => ValueOf(tree, n) = None
      BY <3>2, HasCurrent
    <3>4. AE!Edited(Contents(tree), e)[n] =
            IF n = e.node THEN e.val
            ELSE IF Schema[e.node].case # None /\ Schema[n].case \notin {None, Schema[e.node].case}
                 THEN None ELSE Contents(tree)[n]
      BY <3>1, <1>1, <1>4, EditedIs
    <3> QED BY <3>1, <3>3, <3>4, <1>3 DEF Conflicts
  <2>2. CASE e.op \in Deletes /\ curval = {}
    <3>1. ValueOf(tree, e.node) = None
      BY <2>2 DEF curval, ValueOf
    <3>2. ~Schema[e.node].hasDefault
      BY <3>1, <1>1, <1>3, <1>4 DEF Sane
    <3>3. AE!Edited(Contents(tree), e)[n] =
            IF n = e.node THEN IF Schema[e.node].hasDefault THEN Default ELSE None
            ELSE Contents(tree)[n]
      BY <2>2, <1>1, <1>4, EditedIs
    <3> QED BY <3>1, <3>2, <3>3, <1>3
  <2> QED BY <2>1, <2>2
<1>6. /\ Forms(tree') /\ undoQ' \in Seq(Undos) /\ Records(undoQ', before)
      /\ Forward(tree', before, undoQ', {}) /\ Restorable(tree', before, undoQ', 1, {})
      /\ \A n \in Nodes : ValueOf(tree', n) = AE!Edited(Contents(tree), edit)[n]
  BY <1>2, <1>5
<1>7. \A k \in 1..Len(undoQ') : k \in 1..Len(undoQ) /\ undoQ'[k] = undoQ[k]
  OBVIOUS
<1>8. \A id \in Extras(undoQ') : id \in Extras(undoQ)
  OBVIOUS
<1> QED BY <1>6, <1>7, <1>8, AppliedStep

\* The edits of a request one by one: apply_write_val.
LEMMA ApplyStep ==
  ASSUME IInv, apply_write_val
  PROVE  IInv'
<1>1. /\ applying /\ pos' = pos + 1
      /\ target' = target /\ sil' = sil /\ phase' = phase /\ request' = request
      /\ deadnodeQ' = deadnodeQ /\ answer' = answer /\ before' = before /\ untold' = untold
  BY DEF apply_write_val, history
<1>2. CASE skip_node
  BY <1>1, <1>2, NoChangeStep DEF skip_node
<1>3. CASE add_child_node
  BY <1>3, AddStep
<1>4. CASE set_leaf
  <2>1. /\ edit.op \notin Deletes /\ curval # {} /\ Schema[edit.node].leaf
        /\ undoQ' = Append(undoQ, undo_rec("set", {}, {}))
        /\ tree' = val_merge(tree, {Id(i) : i \in curval}, edit.val)
    BY <1>4 DEF set_leaf, add_undo_node
  <2>2. edit.val \in Stored \ {None}
    BY <1>1, <2>1, NextEdit DEF Edits
  <2>3. edit.val = told(edit.node, edit.op \in Deletes, edit.val)
    BY <2>1 DEF told
  <2>4. "set" \in {"set", "delete_default"} /\ ("set" = "delete_default" <=> edit.op \in Deletes)
    BY <2>1
  <2> QED BY <1>1, <2>1, <2>2, <2>3, <2>4, SetStep
<1>5. CASE replace_complex
  BY <1>1, <1>5, DropStep DEF replace_complex, add_undo_node
<1>6. CASE delete_node /\ Schema[edit.node].hasDefault
  <2>1. /\ edit.op \in Deletes /\ curval # {} /\ Schema[edit.node].leaf
        /\ undoQ' = Append(undoQ, undo_rec("delete_default", {}, {}))
        /\ tree' = val_merge(tree, {Id(i) : i \in curval}, Default)
    <3>1. edit.node \in Nodes
      BY <1>1, NextEdit
    <3> QED BY <3>1, <1>6, SchemaAssumption DEF delete_node, add_undo_node
  <2>2. Default \in Stored \ {None}
    BY SchemaAssumption DEF Stored
  <2>3. Default = told(edit.node, edit.op \in Deletes, edit.val)
    BY <2>1, <1>6 DEF told
  <2>4. "delete_default" \in {"set", "delete_default"}
        /\ ("delete_default" = "delete_default" <=> edit.op \in Deletes)
    BY <2>1
  <2> QED BY <1>1, <1>6, <2>1, <2>2, <2>3, <2>4, SetStep
<1>7. CASE delete_node /\ ~Schema[edit.node].hasDefault
  BY <1>1, <1>7, DropStep DEF delete_node, add_undo_node
<1>8. CASE delete_nothing
  BY <1>1, <1>8, NoChangeStep DEF delete_nothing
<1> QED BY <1>2, <1>3, <1>4, <1>5, <1>6, <1>7, <1>8 DEF apply_write_val

-----------------------------------------------------------------------------
(* A request comes *)

LEMMA BeginStep ==
  ASSUME IInv, ready, NEW edits \in Seq(Edits), begin(edits), Requested(edits),
         target = "candidate" => Candidate(tree, edits, 1)
  PROVE  IInv'
<1>1. /\ edits # <<>> /\ request' = edits /\ phase' = "apply"
      /\ target' = target /\ tree' = tree /\ sil' = sil /\ pos' = pos /\ undoQ' = undoQ
      /\ deadnodeQ' = deadnodeQ /\ answer' = answer /\ before' = before /\ untold' = untold
  BY DEF begin, txcb, history
<1>2. /\ Types /\ AtRest /\ untold = {} /\ before \in Legal
      /\ pos = 1 /\ undoQ = <<>> /\ deadnodeQ = {} /\ tree = Instances(before)
  BY DEF ready, IInv, AtRest, Types
<1>3. before \in [Nodes -> Stored] /\ IsLegal(before)
  BY <1>2 DEF Legal
<1>4. sil = before
  <2>1. sil \in [Nodes -> Stored] /\ \A n \in Nodes : sil[n] = before[n]
    BY <1>2 DEF Types, AtRest
  <2> QED BY <2>1, <1>3
<1>5. /\ Forms(tree) /\ OneEach(tree)
      /\ \A i \in tree : i.born = 0 /\ ~i.deleted /\ i.val = before[i.node] /\ i.val # None
      /\ \A n \in Nodes : before[n] # None => Has(tree, <<n, 0>>)
      /\ \A n \in Nodes : ValueOf(tree, n) = before[n]
      /\ Contents(tree) = before
  BY <1>2, <1>3, InstancesOf
<1>6. Len(undoQ) = 0 /\ 1..Len(undoQ) = {} /\ Extras(undoQ) = {} /\ Gone(undoQ, {}) = {}
  <2>1. Len(undoQ) = 0 /\ 1..Len(undoQ) = {}
    BY <1>2
  <2>2. Extras(undoQ) = {}
    BY <2>1 DEF Extras
  <2> QED BY <2>1, <2>2 DEF Gone
<1>7. Records(undoQ, before) /\ Restorable(tree, before, undoQ, 1, {})
  BY <1>5, <1>6 DEF Records, Restorable
<1>8. Forward(tree, before, undoQ, {})
  <2>1. Sane(before)
    BY <1>3 DEF Sane, IsLegal
  <2> QED BY <2>1, <1>5, <1>6 DEF Forward
<1>9. Results(before, edits)[0] = before
  <2>1. Len(edits) \in Nat /\ DOMAIN edits = 1..Len(edits)
    OBVIOUS
  <2> QED BY <2>1, FoldIsResults DEF AreResults
<1>10. Types'
  BY <1>1, <1>2 DEF Types
<1>11. InRequest'
  BY <1>1, <1>2, <1>7 DEF InRequest
<1>12. InApply'
  <2>1. pos' <= Len(request') + 1
    <3>1. Len(edits) \in Nat
      OBVIOUS
    <3> QED BY <3>1, <1>1, <1>2
  <2>2. Contents(tree') = Results(before', request')[pos' - 1]
    BY <1>1, <1>2, <1>5, <1>9
  <2>3. Forward(tree', before', undoQ', deadnodeQ')
    BY <1>1, <1>2, <1>8
  <2>4. 1..Len(undoQ') = {} /\ Extras(undoQ') = {} /\ deadnodeQ' = {} /\ sil' = before'
    BY <1>1, <1>2, <1>4, <1>6
  <2>5. target' = "candidate" => Candidate(tree', request', pos')
    BY <1>1, <1>2
  <2>6. untold' = {}
    BY <1>1, <1>2
  <2> QED BY <2>1, <2>2, <2>3, <2>4, <2>5, <2>6 DEF InApply, Made
<1> QED BY <1>1, <1>10, <1>11, <1>12 DEF IInv

\* An edit-config has an edit per node, and writes to one case.
LEMMA EditConfigStep ==
  ASSUME IInv, ~TwoCases, edit_config_invoke
  PROVE  IInv'
<1>1. PICK s \in EditConfigs(Contents(tree)) : begin(s)
  BY DEF edit_config_invoke
<1>2. PICK k \in 1..MaxEdits : s \in [1..k -> EditsOf(Contents(tree))]
  BY DEF EditConfigs
<1>3. k \in Nat /\ Len(s) = k /\ s \in Seq(EditsOf(Contents(tree)))
  BY <1>2, BoundsAssumption
<1>4. ASSUME NEW e \in EditsOf(Contents(tree))
      PROVE  e \in Edits /\ e.val # Default /\ (e.op \in Deletes <=> e.val = None)
  <2>1. /\ e \in [op : Ops, node : Nodes, val : Values \cup {None}]
        /\ (e.val = None) = (e.op \in Deletes)
    BY DEF EditsOf
  <2>2. e \in Edits
    BY <2>1 DEF Edits, Stored
  <2> QED BY <2>1, <2>2, SchemaAssumption
<1>5. s \in Seq(Edits)
  BY <1>3, <1>4
<1>6. Requested(s)
  <2>0. \A j \in 1..Len(s) : s[j] \in EditsOf(Contents(tree))
    BY <1>2, <1>3
  <2>1. \A j \in 1..Len(s) : /\ s[j].op \in Deletes <=> s[j].val = None
                             /\ s[j].val = Default => Schema[s[j].node].hasDefault
    BY <2>0, <1>4
  <2>2. \A j, l \in 1..Len(s) : s[j].node = s[l].node => j = l
    BY <1>2, <1>3 DEF EditConfigs
  <2>3. ASSUME NEW j \in 1..Len(s), NEW l \in 1..Len(s), s[j].op \notin Deletes, s[l].op \notin Deletes,
               None \notin {Schema[s[j].node].case, Schema[s[l].node].case}
        PROVE  Schema[s[j].node].case = Schema[s[l].node].case
    <3>1. s[j] \in ToSet(s) /\ s[l] \in ToSet(s)
      BY <1>3 DEF ToSet
    <3>2. Schema[s[j].node].case \in CasesWritten(s) /\ Schema[s[l].node].case \in CasesWritten(s)
      BY <3>1, <2>3 DEF CasesWritten
    <3>3. \A g, h \in CasesWritten(s) : g = h
      BY <1>1 DEF EditConfigs
    <3> QED BY <3>2, <3>3
  <2> QED BY <2>1, <2>2, <2>3 DEF Requested
<1>7. ready /\ target = "running"
  BY DEF edit_config_invoke
<1> QED BY <1>1, <1>5, <1>6, <1>7, BeginStep

\* The walk of a commit has an edit for each node that differs.
Walks(walk, S) ==
  /\ walk \in Seq(S)
  /\ \A n \in S : \E i \in 1..Len(walk) : walk[i] = n
  /\ \A i, j \in 1..Len(walk) : walk[i] = walk[j] => i = j

WalksOf(s, deletes, writes, D, W, c, cand) ==
  /\ D \in Nat /\ W \in Nat
  /\ Walks(deletes, {n \in Nodes : c[n] # None /\ cand[n] = None}) /\ Len(deletes) = D
  /\ Walks(writes, {n \in Nodes : cand[n] # None /\ cand[n] # c[n]}) /\ Len(writes) = W
  /\ s \in Seq(Edits) /\ Len(s) = D + W
  /\ \A k \in 1..D : s[k].op = "delete" /\ s[k].node = deletes[k] /\ s[k].val = None
  /\ \A k \in 1..W : /\ s[D + k].op = "commit" /\ s[D + k].node = writes[k]
                     /\ s[D + k].val = cand[writes[k]]

LEMMA CommitEditsAre ==
  ASSUME NEW c, NEW cand \in Legal
  PROVE  \E deletes, writes, D, W : WalksOf(CommitEdits(c, cand), deletes, writes, D, W, c, cand)
<1> DEFINE S == {n \in Nodes : c[n] # None /\ cand[n] = None}
           T == {n \in Nodes : cand[n] # None /\ cand[n] # c[n]}
           deletes == InSchemaOrder(S)
           writes == InSchemaOrder(T)
           D == Len(deletes)
           W == Len(writes)
           d == [k \in 1..D |-> [op |-> "delete", node |-> deletes[k], val |-> None]]
           w == [k \in 1..W |-> [op |-> "commit", node |-> writes[k], val |-> cand[writes[k]]]]
<1>1. S \in SUBSET Nodes /\ T \in SUBSET Nodes
  OBVIOUS
<1>2. CommitEdits(c, cand) = d \o w
  BY DEF CommitEdits
<1> HIDE DEF S, T
<1>3. Walks(deletes, S) /\ Walks(writes, T)
  BY <1>1, WalkListsNodes DEF Walks
<1> HIDE DEF deletes, writes
<1>4. /\ D \in Nat /\ W \in Nat
      /\ \A k \in 1..D : deletes[k] \in Nodes
      /\ \A k \in 1..W : writes[k] \in Nodes
  BY <1>1, <1>3 DEF Walks
<1>5. d \in Seq(Edits) /\ Len(d) = D
  <2>1. None \in Stored /\ "delete" \in Ops \cup {"commit"}
    BY DEF Stored, Ops
  <2>2. ASSUME NEW k \in 1..D PROVE [op |-> "delete", node |-> deletes[k], val |-> None] \in Edits
    BY <2>1, <1>4 DEF Edits
  <2>3. d \in [1..D -> Edits]
    BY <2>2
  <2> HIDE DEF d, D
  <2> QED BY <2>3, <1>4
<1>6. w \in Seq(Edits) /\ Len(w) = W
  <2>1. cand \in [Nodes -> Stored] /\ "commit" \in Ops \cup {"commit"}
    BY DEF Legal
  <2>2. ASSUME NEW k \in 1..W PROVE [op |-> "commit", node |-> writes[k], val |-> cand[writes[k]]] \in Edits
    <3>0. writes[k] \in Nodes
      BY <1>4, Zenon
    <3>1. cand[writes[k]] \in Stored /\ writes[k] \in Nodes
      BY ONLY <3>0, <2>1
    <3> QED BY <3>1, <2>1 DEF Edits
  <2>3. w \in [1..W -> Edits]
    BY <2>2
  <2> HIDE DEF w, W
  <2> QED BY <2>3, <1>4
<1>7. /\ \A k \in 1..D : d[k].op = "delete" /\ d[k].node = deletes[k] /\ d[k].val = None
      /\ \A k \in 1..W : w[k].op = "commit" /\ w[k].node = writes[k] /\ w[k].val = cand[writes[k]]
  OBVIOUS
<1> HIDE DEF d, w, D, W
<1>8. d \o w \in Seq(Edits) /\ Len(d \o w) = D + W
  BY <1>4, <1>5, <1>6
<1>9. (\A k \in 1..D : (d \o w)[k] = d[k]) /\ (\A k \in 1..W : (d \o w)[D + k] = w[k])
  BY <1>4, <1>5, <1>6
<1>10. /\ Walks(deletes, S) /\ Len(deletes) = D /\ Walks(writes, T) /\ Len(writes) = W
  BY <1>3 DEF D, W
<1> DEFINE s == d \o w
<1>12. s \in Seq(Edits) /\ Len(s) = D + W
  BY <1>8
<1>13. /\ \A k \in 1..D : s[k].op = "delete" /\ s[k].node = deletes[k] /\ s[k].val = None
       /\ \A k \in 1..W : /\ s[D + k].op = "commit" /\ s[D + k].node = writes[k]
                          /\ s[D + k].val = cand[writes[k]]
  <2>1. (\A k \in 1..D : s[k] = d[k]) /\ (\A k \in 1..W : s[D + k] = w[k])
    BY <1>9
  <2> HIDE DEF s
  <2>2. \A k \in 1..D : s[k].op = "delete" /\ s[k].node = deletes[k] /\ s[k].val = None
    BY <2>1, <1>7
  <2>3. ASSUME NEW k \in 1..W
        PROVE  s[D + k].op = "commit" /\ s[D + k].node = writes[k] /\ s[D + k].val = cand[writes[k]]
    BY <2>1, <1>7
  <2> QED BY <2>2, <2>3
<1>14. CommitEdits(c, cand) = s
  BY <1>2
<1> HIDE DEF s
<1>15. WalksOf(s, deletes, writes, D, W, c, cand)
  BY <1>4, <1>10, <1>12, <1>13 DEF WalksOf, S, T
<1> QED BY <1>14, <1>15

LEMMA CommitInvokeStep ==
  ASSUME IInv, commit_invoke
  PROVE  IInv'
<1> DEFINE c == Contents(tree)
<1>1. PICK cand \in Legal : begin(CommitEdits(c, cand))
  BY DEF commit_invoke
<1>2. ready /\ target = "candidate"
  BY DEF commit_invoke
<1> DEFINE s == CommitEdits(c, cand)
<1>3. PICK deletes, writes, D, W : WalksOf(s, deletes, writes, D, W, c, cand)
  BY CommitEditsAre
<1>4. begin(s)
  BY <1>1
<1>5. \A n \in Nodes : c[n] = ValueOf(tree, n)
  BY DEF Contents
<1> HIDE DEF s, c
<1>6. /\ D \in Nat /\ W \in Nat /\ s \in Seq(Edits) /\ Len(s) = D + W
      /\ deletes \in Seq({n \in Nodes : c[n] # None /\ cand[n] = None}) /\ Len(deletes) = D
      /\ writes \in Seq({n \in Nodes : cand[n] # None /\ cand[n] # c[n]}) /\ Len(writes) = W
  BY <1>3 DEF WalksOf, Walks
<1>7. ASSUME NEW k \in 1..D
      PROVE  /\ k \in 1..Len(s) /\ s[k].op = "delete" /\ s[k].node = deletes[k] /\ s[k].val = None
             /\ deletes[k] \in Nodes /\ cand[deletes[k]] = None
  <2>1. k \in 1..Len(s) /\ k \in 1..Len(deletes)
    BY <1>6
  <2>2. s[k].op = "delete" /\ s[k].node = deletes[k] /\ s[k].val = None
    BY <1>3 DEF WalksOf
  <2> QED BY <2>1, <2>2, <1>6
<1>8. ASSUME NEW k \in 1..W
      PROVE  /\ D + k \in 1..Len(s) /\ s[D + k].op = "commit" /\ s[D + k].node = writes[k]
             /\ s[D + k].val = cand[writes[k]] /\ writes[k] \in Nodes /\ cand[writes[k]] # None
  <2>1. D + k \in 1..Len(s) /\ k \in 1..Len(writes)
    BY <1>6
  <2>2. s[D + k].op = "commit" /\ s[D + k].node = writes[k] /\ s[D + k].val = cand[writes[k]]
    BY <1>3 DEF WalksOf
  <2> QED BY <2>1, <2>2, <1>6
<1>9. ASSUME NEW k \in 1..Len(s) PROVE k \in 1..D \/ \E l \in 1..W : k = D + l
  <2>1. k \in 1..D \/ (k - D \in 1..W /\ k = D + (k - D))
    BY <1>6
  <2> QED BY <2>1
<1>10. cand \in [Nodes -> Stored] /\ IsLegal(cand)
  BY DEF Legal
<1>11. ASSUME NEW k \in 1..Len(s)
       PROVE  \/ /\ k \in 1..D /\ s[k].op = "delete" /\ s[k].val = None /\ s[k].node \in Nodes
                 /\ cand[s[k].node] = None
              \/ /\ s[k].op = "commit" /\ s[k].node \in Nodes /\ s[k].val = cand[s[k].node]
                 /\ s[k].val # None
                 /\ \E l \in 1..W : k = D + l /\ s[k].node = writes[l]
  <2>1. CASE k \in 1..D
    BY <2>1, <1>7
  <2>2. CASE \E l \in 1..W : k = D + l
    <3>1. PICK l \in 1..W : k = D + l
      BY <2>2
    <3> QED BY <3>1, <1>8
  <2> QED BY <2>1, <2>2, <1>9
<1>12. ASSUME NEW k \in 1..Len(s)
       PROVE  /\ s[k].op \in Deletes <=> s[k].val = None
              /\ s[k].op \in Deletes <=> cand[s[k].node] = None
              /\ s[k].val = Default => Schema[s[k].node].hasDefault
              /\ s[k].node \in Nodes
  BY <1>10, <1>11, SchemaAssumption DEF Deletes, IsLegal
<1>13. ASSUME NEW j \in 1..Len(s), NEW k \in 1..Len(s), s[j].node = s[k].node PROVE j = k
  <2>1. CASE cand[s[j].node] = None
    <3>1. j \in 1..D /\ k \in 1..D
      BY <2>1, <1>11, <1>13
    <3>2. deletes[j] = deletes[k]
      BY <3>1, <1>7, <1>13
    <3>3. j \in 1..Len(deletes) /\ k \in 1..Len(deletes)
      BY <3>1, <1>6
    <3> QED BY <3>2, <3>3, <1>3 DEF WalksOf, Walks
  <2>2. CASE cand[s[j].node] # None
    <3>1. PICK l \in 1..W : j = D + l /\ s[j].node = writes[l]
      BY <2>2, <1>11
    <3>2. PICK m \in 1..W : k = D + m /\ s[k].node = writes[m]
      BY <2>2, <1>11, <1>13
    <3>3. l \in 1..Len(writes) /\ m \in 1..Len(writes) /\ writes[l] = writes[m]
      BY <3>1, <3>2, <1>6, <1>13
    <3>4. l = m
      BY <3>3, <1>3 DEF WalksOf, Walks
    <3> QED BY <3>1, <3>2, <3>4
  <2> QED BY <2>1, <2>2
<1>14. ASSUME NEW j \in 1..Len(s), NEW k \in 1..Len(s), s[j].op \notin Deletes, s[k].op \notin Deletes
       PROVE  \/ None \in {Schema[s[j].node].case, Schema[s[k].node].case}
              \/ Schema[s[j].node].case = Schema[s[k].node].case
  <2>1. cand[s[j].node] # None /\ cand[s[k].node] # None /\ s[j].node \in Nodes /\ s[k].node \in Nodes
    BY <1>12, <1>14
  <2> QED BY <2>1, <1>10 DEF IsLegal
<1>15. Requested(s)
  BY <1>12, <1>13, <1>14 DEF Requested
<1>16. Candidate(tree, s, 1)
  <2>1. ASSUME NEW k \in 1..Len(s)
        PROVE  \/ s[k].op = "delete" /\ cand[s[k].node] = None
               \/ s[k].op = "commit" /\ cand[s[k].node] = s[k].val
    BY <1>11
  <2>2. ASSUME NEW n \in Nodes, ValueOf(tree, n) # cand[n]
        PROVE  \E k \in 1..Len(s) : s[k].node = n
    <3>1. c[n] # cand[n]
      BY <2>2, <1>5
    <3>2. CASE cand[n] = None
      <4>1. PICK k \in 1..Len(deletes) : deletes[k] = n
        BY <3>1, <3>2, <1>3 DEF WalksOf, Walks
      <4>2. k \in 1..D
        BY <4>1, <1>6
      <4> QED BY <4>1, <4>2, <1>7
    <3>3. CASE cand[n] # None
      <4>1. PICK k \in 1..Len(writes) : writes[k] = n
        BY <3>1, <3>3, <1>3 DEF WalksOf, Walks
      <4>2. k \in 1..W
        BY <4>1, <1>6
      <4> QED BY <4>1, <4>2, <1>8
    <3> QED BY <3>2, <3>3
  <2> QED BY <2>1, <2>2 DEF Candidate
<1> QED BY <1>2, <1>4, <1>6, <1>15, <1>16, BeginStep

-----------------------------------------------------------------------------
(* The theorems *)

LEMMA InitHolds ==
  ASSUME Init
  PROVE  IInv
<1>1. PICK c \in Legal : tree = Instances(c) /\ sil = c /\ before = c
  BY DEF Init
<1>2. c \in [Nodes -> Stored]
  BY DEF Legal
<1>3. Forms(tree)
  BY <1>1, <1>2, InstancesOf
<1>4. request \in Seq(Edits) /\ undoQ \in Seq(Undos) /\ pos \in Nat \ {0}
  BY DEF Init
<1>5. Types
  BY <1>1, <1>2, <1>3, <1>4 DEF Init, Types
<1>6. AtRest
  BY <1>1 DEF Init, AtRest
<1> QED BY <1>5, <1>6 DEF IInv, Init

LEMMA StutterStep ==
  ASSUME IInv, UNCHANGED vars
  PROVE  IInv'
<1>1. /\ target' = target /\ tree' = tree /\ sil' = sil /\ phase' = phase /\ request' = request
      /\ pos' = pos /\ undoQ' = undoQ /\ deadnodeQ' = deadnodeQ /\ answer' = answer
      /\ before' = before /\ untold' = untold
  BY DEF vars, txcb, history
<1> QED BY <1>1 DEF IInv, Types, AtRest, InRequest, InApply, InCommit, InRollback, Made

LEMMA StepKeepsIInv ==
  ASSUME IInv, ~TwoCases, [Next]_vars
  PROVE  IInv'
<1>1. CASE edit_config_invoke
  BY <1>1, EditConfigStep
<1>2. CASE commit_invoke
  BY <1>2, CommitInvokeStep
<1>3. CASE apply_write_val
  BY <1>3, ApplyStep
<1>4. CASE apply_refused \/ check_refused
  BY <1>4, RefusedStep
<1>5. CASE delete_dead_nodes
  BY <1>5, DeadStep
<1>6. CASE check_passed
  BY <1>6, CheckPassedStep
<1>7. CASE attempt_commit
  BY <1>7, AttemptCommitStep
<1>8. CASE commit_done
  BY <1>8, CommitDoneStep
<1>9. CASE rollback_edit
  BY <1>9, RollbackEditStep
<1>10. CASE rollback_done
  BY <1>10, RollbackDoneStep
<1>11. CASE UNCHANGED vars
  BY <1>11, StutterStep
<1> QED BY <1>1, <1>2, <1>3, <1>4, <1>5, <1>6, <1>7, <1>8, <1>9, <1>10, <1>11 DEF Next

\* Types, for every schema: TypeOK is an invariant (agt_val.c leaves ids in
\* its queues of instances that the tree holds).
THEOREM EditTypesCorrect ==
  ASSUME ~TwoCases
  PROVE  Spec => []TypeOK
<1>1. Init => IInv
  BY InitHolds
<1>2. IInv /\ [Next]_vars => IInv'
  BY StepKeepsIInv
<1>3. IInv => TypeOK
  BY InTypeOK
<1> QED BY <1>1, <1>2, <1>3, PTL DEF Spec

\* After a request, made or undone, the tree is one that the checks let pass,
\* with one instance of a node and none marked as deleted (commit_edit,
\* finish_extra_deletes, rollback_edit).
THEOREM EditTreeSettled ==
  ASSUME ~TwoCases
  PROVE  Spec => []TreeSettled
<1>1. Init => IInv
  BY InitHolds
<1>2. IInv /\ [Next]_vars => IInv'
  BY StepKeepsIInv
<1>3. IInv => TreeSettled
  BY InSettled
<1> QED BY <1>1, <1>2, <1>3, PTL DEF Spec

\* After a request, the instrumentation has the values of the tree, but for
\* the nodes of which it was not told (attempt_commit, reverse_edit).
THEOREM EditInstrumentationInStep ==
  ASSUME ~TwoCases
  PROVE  Spec => []InstrumentationInStep
<1>1. Init => IInv
  BY InitHolds
<1>2. IInv /\ [Next]_vars => IInv'
  BY StepKeepsIInv
<1>3. IInv => InstrumentationInStep
  BY InSettled
<1> QED BY <1>1, <1>2, <1>3, PTL DEF Spec

\* What the client sees are the contents that the last request left.
LEMMA SeenIsBefore ==
  ASSUME IInv
  PROVE  /\ (IF phase = "idle" THEN Contents(tree) ELSE before) = before
         /\ phase = "idle" => request = <<>>
         /\ phase # "idle" => request # <<>>
<1>1. before \in [Nodes -> Stored]
  BY DEF IInv, Types, Legal
<1>2. CASE phase = "idle"
  <2>1. tree = Instances(before) /\ request = <<>>
    BY <1>2 DEF IInv, AtRest
  <2> QED BY <2>1, <1>1, <1>2, InstancesOf
<1>3. CASE phase # "idle"
  BY <1>3 DEF IInv, InRequest
<1> QED BY <1>2, <1>3

\* At the end of a commit, the tree has what the edits make, without the
\* nodes whose when-stmt is false.
LEMMA CommittedIsAfter ==
  ASSUME IInv, phase = "commit"
  PROVE  Contents(tree) = AE!Pruned(FoldLeft(AE!Edited, before, request))
<1> DEFINE M == FoldLeft(AE!Edited, before, request)
           v(n) == ValueOf(tree, n)
<1>1. /\ Forward(tree, before, undoQ, deadnodeQ) /\ IsLegal(Contents(tree))
      /\ Agrees(tree, Made(Len(request)), deadnodeQ)
  BY DEF IInv, InCommit
<1>2. Made(Len(request)) = M
  <2>1. request \in Seq(Edits)
    BY DEF IInv, Types
  <2>2. Len(request) \in Nat /\ DOMAIN request = 1..Len(request)
    BY <2>1
  <2> QED BY <2>2, FoldIsResults DEF AreResults, Made
<1> HIDE DEF M
<1>3. \A n \in Nodes : Contents(tree)[n] = v(n)
  BY DEF Contents
<1>4. ASSUME NEW n \in Nodes
      PROVE  v(n) = IF Schema[n].when # None /\ M[Schema[n].when] = None THEN None ELSE M[n]
  <2>1. ASSUME NEW m \in Nodes, Schema[m].when = None PROVE v(m) = M[m]
    <3>1. \A id \in deadnodeQ : id[1] # m
      BY <2>1, <1>1 DEF Forward
    <3> QED BY <3>1, <1>1, <1>2 DEF Agrees
  <2>2. CASE Schema[n].when = None
    BY <2>1, <2>2
  <2>3. CASE Schema[n].when # None
    <3> DEFINE w == Schema[n].when
    <3>1. w \in Nodes /\ Schema[w].when = None
      BY <2>3, SchemaAssumption
    <3>2. v(w) = M[w]
      BY <2>1, <3>1
    <3>3. CASE M[w] = None
      <4>1. Contents(tree)[w] = None
        BY <3>1, <3>2, <3>3, <1>3
      <4>2. Contents(tree)[n] = None
        BY <4>1, <2>3, <1>1 DEF IsLegal
      <4> QED BY <4>2, <3>3, <2>3, <1>3
    <3>4. CASE M[w] # None
      <4>1. \A id \in deadnodeQ : id[1] # n
        BY <3>2, <3>4, <1>1 DEF Forward
      <4>2. v(n) = M[n]
        BY <4>1, <1>1, <1>2 DEF Agrees
      <4> QED BY <4>2, <3>4
    <3> QED BY <3>3, <3>4
  <2> QED BY <2>2, <2>3
<1>5. Contents(tree) = AE!Pruned(M)
  BY <1>4 DEF Contents, AE!Pruned
<1> QED BY <1>5 DEF M

LEMMA StepIsAtomic ==
  ASSUME IInv, IInv', [Next]_vars
  PROVE  [AE!Step]_(AE!avars)
<1> DEFINE seen == IF phase = "idle" THEN Contents(tree) ELSE before
<1>1. seen = before /\ seen' = before'
  <2>1. seen = before
    BY SeenIsBefore
  <2>2. seen' = before'
    <3>1. before' \in [Nodes -> Stored]
      BY DEF IInv, Types, Legal
    <3>2. CASE phase' = "idle"
      <4>1. tree' = Instances(before')
        BY <3>2 DEF IInv, AtRest
      <4>2. Contents(tree') = before'
        BY <3>1, <4>1, InstancesOf
      <4> QED BY <3>2, <4>2
    <3>3. CASE phase' # "idle"
      BY <3>3
    <3> QED BY <3>2, <3>3
  <2> QED BY <2>1, <2>2
<1>2. ASSUME NEW edits, ready, begin(edits) PROVE AE!Step
  <2>1. edits # <<>> /\ request' = edits /\ before' = before /\ answer' = answer /\ phase = "idle"
    BY <1>2 DEF begin, history, ready
  <2>2. request = <<>>
    BY <2>1, SeenIsBefore
  <2> QED BY <2>1, <2>2, <1>1 DEF AE!Step, AE!Begin, AE!Idle
<1>3. CASE edit_config_invoke \/ commit_invoke
  BY <1>2, <1>3 DEF edit_config_invoke, commit_invoke
<1>4. CASE \/ apply_write_val \/ apply_refused \/ delete_dead_nodes \/ check_refused \/ check_passed
           \/ attempt_commit \/ rollback_edit \/ UNCHANGED vars
  <2>1. request' = request /\ answer' = answer /\ before' = before
    BY <1>4 DEF apply_write_val, apply_refused, delete_dead_nodes, check_refused, check_passed,
                attempt_commit, rollback_edit, vars, history
  <2> QED BY <2>1, <1>1 DEF AE!avars
<1>5. CASE commit_done
  <2>1. phase = "commit" /\ phase' = "idle" /\ request' = <<>> /\ answer' = "ok"
    BY <1>5 DEF commit_done, finish
  <2>2. Contents(tree') = Contents(tree)
    BY <1>5, CommitDoneStep
  <2>3. seen' = AE!Pruned(FoldLeft(AE!Edited, before, request))
    BY <2>1, <2>2, CommittedIsAfter
  <2>4. request # <<>>
    BY <2>1, SeenIsBefore
  <2>5. AE!After(before, request) = AE!Pruned(FoldLeft(AE!Edited, before, request))
    BY DEF AE!After, FoldLeft, AE!FoldLeft, MapThenFoldSet, AE!MapThenFoldSet, Max, AE!Max
  <2>6. seen' = AE!After(seen, request)
    <3> HIDE DEF seen
    <3> QED BY <2>3, <2>5, <1>1, Zenon
  <2>7. AE!Succeed
    BY <2>1, <2>4, <2>6 DEF AE!Succeed, AE!Idle
  <2> QED BY <2>7 DEF AE!Step
<1>6. CASE rollback_done
  <2>1. phase = "rollback" /\ phase' = "idle" /\ request' = <<>> /\ answer' = "error"
    BY <1>6 DEF rollback_done, finish
  <2>2. seen' = before
    BY <1>6, <2>1, RollbackDoneStep
  <2>3. request # <<>>
    BY <2>1, SeenIsBefore
  <2> QED BY <2>1, <2>2, <2>3, <1>1 DEF AE!Step, AE!Fail, AE!Idle
<1> QED BY <1>3, <1>4, <1>5, <1>6 DEF Next

\* A request is made in full, with its defaults and when-stmts, or answered
\* with an error and undone in full: the edits one by one, the checks, the
\* callbacks and the rollback implement the atomic edit.
THEOREM EditsImplementAtomic ==
  ASSUME ~TwoCases
  PROVE  Spec => EditsAreAtomic
<1>1. Init => IInv
  BY InitHolds
<1>2. IInv /\ [Next]_vars => IInv'
  BY StepKeepsIInv
<1>3. IInv /\ IInv' /\ [Next]_vars => [AE!Step]_(AE!avars)
  BY StepIsAtomic
<1>4. Init => AE!Idle /\ answer = "ok"
  BY DEF Init, AE!Idle
<1> QED BY <1>1, <1>2, <1>3, <1>4, PTL DEF Spec, EditsAreAtomic, AE!AtomicSpec
=============================================================================
