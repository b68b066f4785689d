--------------------------- MODULE MCTransactions ---------------------------
(* Two sessions, two leaves with two values, three transaction ids.   *)
EXTENDS Transactions

CONSTANTS s1, s2, n1, n2, v1, v2

MCSessions == {s1, s2}
MCNodes == {n1, n2}
MCValues == {v1, v2}
MCSymmetry == Permutations(MCSessions) \cup Permutations(MCNodes) \cup Permutations(MCValues)
=============================================================================
