---------------------------- MODULE MCEditEngine ----------------------------
(* Instances of EditEngine for TLC: a leaf x, a leaf w that is there when x *)
(* is, a leaf a and a complex node b in two cases of a choice, and a leaf d *)
(* with a default.                                                          *)
EXTENDS EditEngine

CONSTANTS x, w, a, b, d, A, B

node(leaf, hasDefault, case, when) ==
  [leaf |-> leaf, hasDefault |-> hasDefault, case |-> case, when |-> when]

MCSchema == x :> node(TRUE, FALSE, None, None) @@ w :> node(TRUE, FALSE, None, x)
            @@ a :> node(TRUE, FALSE, A, None) @@ b :> node(FALSE, FALSE, B, None)
            @@ d :> node(TRUE, TRUE, None, None)

MCSchemaOrder == <<x, w, a, b, d>>
=============================================================================
