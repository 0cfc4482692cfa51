---------------------------- MODULE MCBackupTool ----------------------------
(***************************************************************************)
(* Instances of BackupTool: which invocations run side by side, and which  *)
(* sets were published before the first step.                              *)
(***************************************************************************)
EXTENDS BackupTool, TLC

CONSTANTS
  Companies,  \* sets of invocations that may meet
  p1, p2, p3

VARIABLE company  \* those that meet in this behaviour; the others never start

\* A full restore, the nightly run, and a prune by hand.
JobsOnce == p1 :> "restore-full" @@ p2 :> "nightly" @@ p3 :> "prune"
RestoreOrPrune == {{p1, p2}, {p2, p3}}
RestoreAlone == {{p1, p2}}
\* Two full restores.
JobsTwoRestores == p1 :> "restore-full" @@ p2 :> "restore-full"

NoSets == {}
OldSet == {<<0, 0>>}
OldSets == {<<0, 0>>, <<0, 1>>}
NewerSet == {<<0, 1>>}

\* Versions are only ever compared.
VersionSymmetry == Permutations(Versions)

MCInit == company \in Companies /\ Init
MCNext ==
  /\ UNCHANGED company
  /\ \/ Tick \/ AppWrite \/ PowerLoss
     \/ \E i \in Ids : Rot(i)
     \/ \E p \in company : Kill(p) \/ Step(p)
MCSpec == MCInit /\ [][MCNext]_<<company, vars>>
MCFairSpec == MCSpec /\ \A p \in Procs : WF_vars(p \in company /\ Step(p))
=============================================================================
