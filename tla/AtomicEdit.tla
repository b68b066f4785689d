----------------------------- MODULE AtomicEdit -----------------------------
(***************************************************************************)
(* What an edit of a datastore promises: a request is a list of edits, and *)
(* it is answered once, with "ok" after all of them were made, or with     *)
(* "error" and the datastore as it was.                                    *)
(***************************************************************************)
EXTENDS Sequences, SequencesExt

CONSTANTS
    Nodes,
    Values,    \* what a client can write
    None,      \* the node is not there
    Default,   \* the value of a node that is set by default
    Schema     \* for a node: leaf, hasDefault, case and when

VARIABLES contents, request, answer

avars == <<contents, request, answer>>

Written == {"create", "merge", "replace", "commit"}

\* One edit: a node of another case gives way, and a leaf with a default
\* is never without a value.
Edited(c, e) ==
  IF e.op \in Written
  THEN [n \in Nodes |->
          IF n = e.node THEN e.val
          ELSE IF Schema[e.node].case # None /\ Schema[n].case \notin {None, Schema[e.node].case}
               THEN None
               ELSE c[n]]
  ELSE [c EXCEPT ![e.node] = IF Schema[e.node].hasDefault THEN Default ELSE None]

\* A node whose when-stmt is false is not there (no node that one names has
\* a when-stmt of its own).
Pruned(c) ==
  [n \in Nodes |-> IF Schema[n].when # None /\ c[Schema[n].when] = None THEN None ELSE c[n]]

After(c, edits) == Pruned(FoldLeft(Edited, c, edits))

Idle == request = <<>>

Begin(edits) ==
  /\ Idle
  /\ request' = edits
  /\ UNCHANGED <<contents, answer>>

Succeed ==
  /\ ~Idle
  /\ contents' = After(contents, request)
  /\ answer' = "ok"
  /\ request' = <<>>

Fail ==
  /\ ~Idle
  /\ answer' = "error"
  /\ request' = <<>>
  /\ UNCHANGED contents

Step == (request' # <<>> /\ Begin(request')) \/ Succeed \/ Fail

AtomicSpec == Idle /\ answer = "ok" /\ [][Step]_avars
=============================================================================
