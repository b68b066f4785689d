----------------------------- MODULE EditEngine -----------------------------
(***************************************************************************)
(* How agt_val.c edits <running>: the edits of one request are applied to  *)
(* the tree one by one, each leaving an undo record; the tree is checked;  *)
(* the instrumentation (SIL) callbacks commit them one by one; and when a  *)
(* callback or a check refuses, what was done is undone, in the tree and,  *)
(* by further callbacks, in the instrumentation.                           *)
(*                                                                         *)
(* The tree is the set of the children of one container, each an instance  *)
(* of a node: a leaf, or a complex node whose value is opaque. An instance *)
(* that an edit replaces or deletes stays, marked as deleted, until the    *)
(* request ends. "born" tells the instances of a node apart: 0 is the one  *)
(* that was there, k the one that the k-th undo record added.              *)
(*                                                                         *)
(* A server edits <running> either by edit-config or by commit, depending  *)
(* on --target. Edits with an insert attribute, lists of entries and       *)
(* virtual nodes are not modelled, nor is the backup file that commit      *)
(* loads when a callback refused the rollback (see ConfirmedCommit).       *)
(***************************************************************************)
EXTENDS Integers, Sequences, FiniteSets, SequencesExt

CONSTANTS Nodes, Values, None, Default, Schema,
    SchemaOrder,   \* the nodes in the order of the tree
    MaxEdits,      \* edits in an edit-config (a bound)
    TwoCases       \* an edit-config may write to two cases of the choice

ASSUME SchemaAssumption ==
    /\ None \notin Nodes \cup Values /\ Default \notin Values \cup {None}
    /\ \A n \in Nodes :
         /\ Schema[n].leaf \in BOOLEAN /\ Schema[n].hasDefault \in BOOLEAN
         /\ Schema[n].hasDefault => Schema[n].leaf /\ Schema[n].case = None /\ Schema[n].when = None
         /\ Schema[n].when \in Nodes \cup {None}
         /\ Schema[n].when # None => Schema[Schema[n].when].when = None

ASSUME OrderAssumption ==
    /\ IsFiniteSet(Nodes)
    /\ SchemaOrder \in Seq(Nodes)
    /\ \A n \in Nodes : \E k \in 1..Len(SchemaOrder) : SchemaOrder[k] = n
    /\ \A j, k \in 1..Len(SchemaOrder) : SchemaOrder[j] = SchemaOrder[k] => j = k

ASSUME BoundsAssumption == MaxEdits \in Nat /\ TwoCases \in BOOLEAN

VARIABLES
    target,     \* agt_targ: how this server edits <running>
    tree,       \* instances in the childQ
    sil,        \* the value of each node that the instrumentation works with
    phase,
    request,    \* the edits of the request, in the order of the walk
    pos,        \* the edit, or the undo record, that is next
    undoQ, deadnodeQ,
    answer,     \* how the last request was answered
    before,     \* the contents when the request came (for the properties)
    untold      \* nodes of which the instrumentation was told something else,
                \* or nothing (for the properties)

txcb == <<undoQ, deadnodeQ>>
history == <<before, untold>>
vars == <<target, tree, sil, phase, request, pos, txcb, answer, history>>

Ops == {"create", "merge", "replace", "delete", "remove"}
Deletes == {"delete", "remove"}
Stored == Values \cup {None, Default}

Id(i) == <<i.node, i.born>>
Visible(t) == {i \in t : ~i.deleted}

\* val_first_child_match: one at most
Current(t, n) == {i \in Visible(t) : i.node = n}

ValueOf(t, n) == IF Current(t, n) = {} THEN None ELSE (CHOOSE i \in Current(t, n) : TRUE).val
Contents(t) == [n \in Nodes |-> ValueOf(t, n)]

\* Contents that pass the checks: a default is filled in, one case at most,
\* and no node with a false when-stmt.
IsLegal(c) ==
  \A n \in Nodes :
    /\ c[n] = Default => Schema[n].hasDefault
    /\ c[n] = None => ~Schema[n].hasDefault
    /\ c[n] # None /\ Schema[n].when # None => c[Schema[n].when] # None
    /\ \A m \in Nodes : c[n] # None /\ c[m] # None /\ Schema[n].case # None
                           => Schema[m].case \in {None, Schema[n].case}

Legal == {c \in [Nodes -> Stored] : IsLegal(c)}

Instances(c) ==
  {[node |-> n, born |-> 0, val |-> c[n], deleted |-> FALSE] : n \in {x \in Nodes : c[x] # None}}

Init ==
  /\ target \in {"running", "candidate"}
  /\ \E c \in Legal : tree = Instances(c) /\ sil = c /\ before = c
  /\ phase = "idle" /\ request = <<>> /\ pos = 1
  /\ undoQ = <<>> /\ deadnodeQ = {}
  /\ answer = "ok" /\ untold = {}

-----------------------------------------------------------------------------
(* val.c: marking, removing and changing instances in place *)

Mark(t, ids, flag) == {IF Id(i) \in ids THEN [i EXCEPT !.deleted = flag] ELSE i : i \in t}
VAL_MARK_DELETED(t, ids) == Mark(t, ids, TRUE)
VAL_UNMARK_DELETED(t, ids) == Mark(t, ids, FALSE)
val_remove_child(t, ids) == {i \in t : Id(i) \notin ids}
val_merge(t, ids, v) == {IF Id(i) \in ids THEN [i EXCEPT !.val = v] ELSE i : i \in t}
Vals(t, ids) == {i.val : i \in {x \in t : Id(x) \in ids}}
The(S) == CHOOSE x \in S : TRUE

-----------------------------------------------------------------------------
(* Requests *)

\* What the VALIDATE pass lets through (agt_check_editop, with the default
\* "explicit" handling of defaults). A complex node that is merged into one
\* that exists is not edited itself, its children are.
agt_check_editop(c, e) ==
  CASE e.op = "create" -> c[e.node] \in {None, Default}
    [] e.op = "delete" -> c[e.node] \notin {None, Default}
    [] e.op = "merge" -> Schema[e.node].leaf \/ c[e.node] = None
    [] OTHER -> TRUE

EditsOf(c) ==
  {e \in [op : Ops, node : Nodes, val : Values \cup {None}] :
     /\ (e.val = None) = (e.op \in Deletes)
     /\ agt_check_editop(c, e)}

CasesWritten(edits) ==
  {Schema[e.node].case : e \in {x \in ToSet(edits) : x.op \notin Deletes}} \ {None}

EditConfigs(c) ==
  {s \in UNION {[1..k -> EditsOf(c)] : k \in 1..MaxEdits} :
     /\ \A j, k \in DOMAIN s : j # k => s[j].node # s[k].node
     /\ TwoCases \/ \A g, h \in CasesWritten(s) : g = h}

\* The nodes of a set, in schema order.
InSchemaOrder(S) ==
  FoldLeft(LAMBDA walk, n : IF n \in S THEN Append(walk, n) ELSE walk, <<>>, SchemaOrder)

\* The walk of a commit: apply_commit_deletes comes first, then the nodes
\* that differ, in schema order. (A dirty node with the value it already
\* has in <running> is left out.)
CommitEdits(c, cand) ==
  LET deletes == InSchemaOrder({n \in Nodes : c[n] # None /\ cand[n] = None})
      writes == InSchemaOrder({n \in Nodes : cand[n] # None /\ cand[n] # c[n]})
  IN [k \in 1..Len(deletes) |-> [op |-> "delete", node |-> deletes[k], val |-> None]]
     \o [k \in 1..Len(writes) |-> [op |-> "commit", node |-> writes[k], val |-> cand[writes[k]]]]

\* A bound: no more requests once the instrumentation is out of step.
ready == phase = "idle" /\ untold = {}

begin(edits) ==
  /\ edits # <<>>
  /\ request' = edits
  /\ phase' = "apply"
  /\ UNCHANGED <<target, tree, sil, pos, txcb, answer, history>>

edit_config_invoke ==
  /\ ready /\ target = "running"
  /\ \E s \in EditConfigs(Contents(tree)) : begin(s)

commit_invoke ==
  /\ ready /\ target = "candidate"
  /\ \E cand \in Legal : begin(CommitEdits(Contents(tree), cand))

-----------------------------------------------------------------------------
(* The apply phase *)

edit == request[pos]
applying == phase = "apply" /\ pos <= Len(request)
curval == Current(tree, edit.node)

\* FALSE: a merge or replace that changes nothing
agt_apply_this_node ==
  edit.op \in {"merge", "replace"} => ValueOf(tree, edit.node) # edit.val

\* cvt_editop: what a commit does to this node
cvt_editop == IF edit.op # "commit" THEN edit.op ELSE IF curval = {} THEN "create" ELSE "replace"

\* add_child_clean: visible nodes of the other cases of the choice
otherCases ==
  {i \in Visible(tree) : /\ Schema[edit.node].case # None
                         /\ Schema[i.node].case \notin {None, Schema[edit.node].case}}

\* newnode is in the tree for the actions "add" and "replace" only, and
\* then its place in the source holds newnode_marker.
undo_rec(action, newnode, extra) ==
  [editop |-> cvt_editop, edit_action |-> action, node |-> edit.node, val |-> edit.val,
   newnode |-> newnode,
   curnode |-> {Id(i) : i \in curval},
   curnode_clone |-> IF Schema[edit.node].leaf THEN {i.val : i \in curval} ELSE {},
   free_curnode |-> action \in {"delete", "replace"},
   extra_deleteQ |-> extra,
   commit_res |-> "skipped"]

newId == <<edit.node, Len(undoQ) + 1>>
newInstance == [node |-> edit.node, born |-> newId[2], val |-> edit.val, deleted |-> FALSE]

add_undo_node(action, newnode, extra) == undoQ' = Append(undoQ, undo_rec(action, newnode, extra))

\* Mutant: the nodes of the other cases are removed at once.
add_child_node_Removes ==
  /\ edit.op \notin Deletes /\ curval = {}
  /\ LET extra == {Id(i) : i \in otherCases}
     IN /\ add_undo_node("add", {newId}, extra)
        /\ tree' = val_remove_child(tree, extra) \cup {newInstance}

add_child_node ==
  /\ edit.op \notin Deletes /\ curval = {}
  /\ LET extra == {Id(i) : i \in otherCases}
     IN /\ add_undo_node("add", {newId}, extra)
        /\ tree' = VAL_MARK_DELETED(tree, extra) \cup {newInstance}

set_leaf ==
  /\ edit.op \notin Deletes /\ curval # {} /\ Schema[edit.node].leaf
  /\ add_undo_node("set", {}, {})
  /\ tree' = val_merge(tree, {Id(i) : i \in curval}, edit.val)

replace_complex ==
  /\ edit.op \notin Deletes /\ curval # {} /\ ~Schema[edit.node].leaf
  /\ add_undo_node("replace", {newId}, {})
  /\ tree' = VAL_MARK_DELETED(tree, {Id(i) : i \in curval}) \cup {newInstance}

delete_node ==
  /\ edit.op \in Deletes /\ curval # {}
  /\ LET cur == {Id(i) : i \in curval}
     IN IF Schema[edit.node].hasDefault
        THEN /\ add_undo_node("delete_default", {}, {})
             /\ tree' = val_merge(tree, cur, Default)   \* val_delete_default_leaf
        ELSE /\ add_undo_node("delete", {}, {})
             /\ tree' = VAL_MARK_DELETED(tree, cur)

\* The APPLY callback was called, but there is nothing to delete and no
\* undo record: no other callback will follow.
delete_nothing ==
  /\ edit.op \in Deletes /\ curval = {}
  /\ UNCHANGED <<tree, undoQ>>

skip_node ==
  /\ ~agt_apply_this_node
  /\ UNCHANGED <<tree, undoQ>>

apply_write_val ==
  /\ applying
  /\ \/ skip_node
     \/ agt_apply_this_node
          /\ (add_child_node \/ set_leaf \/ replace_complex \/ delete_node \/ delete_nothing)
  /\ pos' = pos + 1
  /\ UNCHANGED <<target, sil, phase, request, deadnodeQ, answer, history>>

\* attempt_rollback: the nodes that a when-stmt removed come back first
attempt_rollback ==
  /\ phase' = "rollback" /\ pos' = 1
  /\ tree' = VAL_UNMARK_DELETED(tree, deadnodeQ) /\ deadnodeQ' = {}

\* A callback refuses to apply the edit. apply_commit_deletes asserts that
\* none does.
apply_refused ==
  /\ applying /\ agt_apply_this_node
  /\ IF target = "candidate" /\ edit.op = "delete"
     THEN phase' = "aborted" /\ UNCHANGED <<pos, tree, deadnodeQ>>
     ELSE attempt_rollback
  /\ UNCHANGED <<target, sil, request, undoQ, answer, history>>

-----------------------------------------------------------------------------
(* The checks of an edit-config; those of a commit were made on <candidate> *)

falseWhens(t) == {Id(i) : i \in {x \in Visible(t) :
                    Schema[x.node].when # None /\ ValueOf(t, Schema[x.node].when) = None}}

applied == phase = "apply" /\ pos > Len(request)

\* One pass of the loop over delete_dead_nodes in agt_val_apply_write
delete_dead_nodes ==
  /\ applied /\ target = "running" /\ falseWhens(tree) # {}
  /\ deadnodeQ' = deadnodeQ \cup falseWhens(tree)
  /\ tree' = VAL_MARK_DELETED(tree, falseWhens(tree))
  /\ UNCHANGED <<target, sil, phase, request, pos, undoQ, answer, history>>

\* A false when-stmt may not be acted on (access control, partial locks),
\* or agt_val_root_check fails.
check_refused ==
  /\ applied /\ target = "running"
  /\ attempt_rollback
  /\ UNCHANGED <<target, sil, request, undoQ, answer, history>>

check_passed ==
  /\ applied /\ (target = "running" => falseWhens(tree) = {})
  /\ phase' = "commit" /\ pos' = 1
  /\ UNCHANGED <<target, tree, sil, request, txcb, answer, history>>

-----------------------------------------------------------------------------
(* The commit phase *)

undo == undoQ[pos]

\* What a callback is told of an edit, and makes of it: a leaf with a
\* default that is deleted gets its default back.
told(n, deleted, v) == IF ~deleted THEN v ELSE IF Schema[n].hasDefault THEN Default ELSE None

attempt_commit ==
  /\ phase = "commit" /\ pos <= Len(undoQ)
  /\ \/ /\ undoQ' = [undoQ EXCEPT ![pos].commit_res = "ok"]
        /\ sil' = [sil EXCEPT ![undo.node] = told(undo.node, undo.editop \in Deletes, undo.val)]
        /\ pos' = pos + 1
        /\ UNCHANGED <<phase, tree, deadnodeQ>>
     \/ /\ undoQ' = [undoQ EXCEPT ![pos].commit_res = "failed"]
        /\ attempt_rollback
        /\ UNCHANGED sil
  /\ UNCHANGED <<target, request, answer, history>>

\* commit_edit, for every undo record: the nodes that it drops, and those
\* of them of which no callback was told
extras == UNION {undoQ[k].extra_deleteQ : k \in DOMAIN undoQ}
replaced == UNION {undoQ[k].curnode : k \in {j \in DOMAIN undoQ : undoQ[j].free_curnode}}
commit_edit_KeepsExtra(t) ==   \* Mutant: finish_extra_deletes is not called.
  val_remove_child(t, {Id(i) : i \in {x \in t : x.deleted /\ Id(x) \in replaced}})
commit_edit(t) ==
  val_remove_child(t, extras \cup {Id(i) : i \in {x \in t : x.deleted /\ Id(x) \in replaced}})

\* The ids of the next request start again.
settled(t) == {[i EXCEPT !.born = 0] : i \in t}

finish(t, ans, missed) ==
  /\ phase' = "idle" /\ request' = <<>> /\ pos' = 1
  /\ tree' = settled(t) /\ before' = Contents(t)
  /\ undoQ' = <<>> /\ deadnodeQ' = {}
  /\ answer' = ans
  /\ untold' = untold \cup missed

commit_done ==
  /\ phase = "commit" /\ pos > Len(undoQ)
  /\ finish(commit_edit(val_remove_child(tree, deadnodeQ)), "ok",
            {id[1] : id \in extras \cup deadnodeQ})
  /\ UNCHANGED <<target, sil>>

-----------------------------------------------------------------------------
(* The rollback *)

\* reverse_edit: what the callbacks are told of an edit they had committed
reversed_NewValue ==   \* Mutant: the old and the new value are not swapped.
  CASE undo.edit_action = "add" -> told(undo.node, TRUE, None)
    [] undo.edit_action = "set" -> undo.val
    [] OTHER -> The(Vals(tree, undo.curnode))
reversed ==
  CASE undo.edit_action = "add" -> told(undo.node, TRUE, None)
    [] undo.edit_action = "set" -> The(undo.curnode_clone)
    [] OTHER -> The(Vals(tree, undo.curnode))

\* The callbacks for the node and for the extra deletes, up to the first
\* that refuses
reverse_edit ==
  \/ /\ untold' = untold \cup {undo.node}
     /\ UNCHANGED sil
  \/ \E created \in SUBSET undo.extra_deleteQ :
       /\ sil' = [n \in Nodes |->
                    IF n = undo.node THEN reversed
                    ELSE IF \E id \in created : id[1] = n
                         THEN The(Vals(tree, {id \in created : id[1] = n}))
                         ELSE sil[n]]
       /\ untold' = IF undo.edit_action = "delete_default" THEN untold \cup {undo.node} ELSE untold

\* A node marked as deleted is there again, a leaf gets its old value back
restore_curnode_NoClone(t) == VAL_UNMARK_DELETED(t, undo.curnode)   \* Mutant: the value is kept.
restore_curnode(t) ==
  IF \E i \in t : Id(i) \in undo.curnode /\ i.deleted
  THEN VAL_UNMARK_DELETED(t, undo.curnode)
  ELSE IF undo.curnode_clone # {} THEN val_merge(t, undo.curnode, The(undo.curnode_clone)) ELSE t

rollback_tree ==
  VAL_UNMARK_DELETED(val_remove_child(restore_curnode(tree), undo.newnode), undo.extra_deleteQ)

rollback_edit ==
  /\ phase = "rollback" /\ pos <= Len(undoQ)
  /\ IF undo.commit_res = "ok" THEN reverse_edit ELSE UNCHANGED <<sil, untold>>
  /\ tree' = rollback_tree
  /\ pos' = pos + 1
  /\ UNCHANGED <<target, phase, request, txcb, answer, before>>

rollback_done ==
  /\ phase = "rollback" /\ pos > Len(undoQ)
  /\ finish(tree, "error", {})
  /\ UNCHANGED <<target, sil>>

Next ==
  \/ edit_config_invoke \/ commit_invoke
  \/ apply_write_val \/ apply_refused
  \/ delete_dead_nodes \/ check_refused \/ check_passed
  \/ attempt_commit \/ commit_done
  \/ rollback_edit \/ rollback_done

Spec == Init /\ [][Next]_vars

-----------------------------------------------------------------------------
(* Properties *)

\* Types.
TypeOK ==
  /\ target \in {"running", "candidate"}
  /\ tree \subseteq [node : Nodes, born : 0..Cardinality(Nodes), val : Stored \ {None},
                     deleted : BOOLEAN]
  /\ sil \in [Nodes -> Stored]
  /\ phase \in {"idle", "apply", "commit", "rollback", "aborted"}
  /\ \A k \in DOMAIN request :
       request[k] \in [op : Ops \cup {"commit"}, node : Nodes, val : Stored]
  /\ pos \in 1..(Cardinality(Nodes) + 1)
  /\ \A k \in DOMAIN undoQ :
       /\ undoQ[k].node \in Nodes
       /\ undoQ[k].commit_res \in {"skipped", "ok", "failed"}
       /\ undoQ[k].curnode \cup undoQ[k].extra_deleteQ \subseteq {Id(i) : i \in tree}
       /\ phase # "rollback" => undoQ[k].newnode \subseteq {Id(i) : i \in tree}
  /\ deadnodeQ \subseteq {Id(i) : i \in tree}
  /\ answer \in {"ok", "error"}
  /\ before \in [Nodes -> Stored] /\ untold \subseteq Nodes

\* After a request, made or undone, the tree holds one instance of a node,
\* none that is marked as deleted, one case of the choice, and no node with
\* a false when-stmt (commit_edit, finish_extra_deletes, rollback_edit).
TreeSettled ==
  phase = "idle" => IsLegal(Contents(tree)) /\ tree = Instances(Contents(tree))

\* After a request, whichever callbacks were made and refused, the
\* instrumentation works with the values of the tree, but for the nodes
\* that were removed without a callback, whose reverse edit was refused, or
\* that a reverse edit gave a wrong value (attempt_commit, reverse_edit).
InstrumentationInStep ==
  phase = "idle" => \A n \in Nodes \ untold : sil[n] = ValueOf(tree, n)

\* A request is made in full, or answered with an error and undone in full.
AE == INSTANCE AtomicEdit
        WITH contents <- IF phase = "idle" THEN Contents(tree) ELSE before
EditsAreAtomic == AE!AtomicSpec
=============================================================================
