------------------------- MODULE MCConfirmedCommit -------------------------
(* Instances of ConfirmedCommit for TLC. *)
EXTENDS ConfirmedCommit, TLC

\* Sessions, persist-ids and all configurations but that of the factory are only
\* compared for equality.
MCSymmetry ==
    Permutations(Sessions) \cup Permutations(Configs \ {FactoryConfig})
        \cup Permutations(PersistIds)
=============================================================================
