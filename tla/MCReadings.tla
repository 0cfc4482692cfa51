----------------------------- MODULE MCReadings -----------------------------
(***************************************************************************)
(* Instances for TLC of what uploaded documents are read into, ReportText, *)
(* and of what the missed-opportunities pages keep of theirs, MissedOps.   *)
(* They have no state in common, so each behaviour is one of one of them.  *)
(***************************************************************************)
EXTENDS ReportText, MissedOps, TLC

CONSTANTS
  Parts,  \* of {"text", "missed"}
  a, b, w1, d1, d2

VARIABLE part

AllFormats == {"gift_cards", "bonus_club", "segments", "ranking", "sales"}

MCWorkers == {a, b}
Symmetric == Permutations(MCWorkers)

OneWeek == {w1}
TwoDays == {d1, d2}
LegacyDay == {<<w1, d1>>}

\* At most four uploads, each of a file with a name of its own.
FourUploads == 1..4
DistinctNames == [t \in 0..4 |-> t]

Init ==
  /\ part \in Parts
  /\ TextInit /\ (part = "text" \/ format = "sales")
  /\ MissedInit

Next ==
  /\ UNCHANGED part
  /\ \/ part = "text" /\ TextNext /\ UNCHANGED missedVars
     \/ part = "missed" /\ MissedNext /\ UNCHANGED textVars

Spec == Init /\ [][Next]_<<part, textVars, missedVars>>
=============================================================================
