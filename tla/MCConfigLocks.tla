--------------------------- MODULE MCConfigLocks ---------------------------
(* Instances of ConfigLocks for TLC: a container "sys" with two leafs. *)
EXTENDS ConfigLocks, TLC

CONSTANTS sys, leaf_a, leaf_b

MCNodes == {sys, leaf_a, leaf_b}
MCSubtree == [n \in MCNodes |-> IF n = sys THEN MCNodes ELSE {n}]

\* The same with one leaf.
SmallNodes == {sys, leaf_a}
SmallSubtree == [n \in SmallNodes |-> IF n = sys THEN SmallNodes ELSE {n}]

\* Session ids, blocks of memory and leafs are only compared for equality.
Symmetry == Permutations(Sessions) \cup Permutations(Blocks) \cup Permutations({leaf_a, leaf_b})
SmallSymmetry == Permutations(Sessions) \cup Permutations(Blocks)
=============================================================================
