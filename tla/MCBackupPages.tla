---------------------------- MODULE MCBackupPages ----------------------------
(***************************************************************************)
(* Instances of BackupPages for TLC.                                       *)
(***************************************************************************)
EXTENDS BackupPages, TLC

CONSTANTS a, b, i1, i2, n1, n2

\* Two requests at once.
TwoWorkers == {a, b}

TwoSets == {i1, i2}
FirstSet == {i1}

\* At most two tokens.
TwoTokens == {n1, n2}

\* Neither workers nor nonces are told apart.
Symmetric == Permutations(TwoWorkers) \cup Permutations(TwoTokens)
=============================================================================
