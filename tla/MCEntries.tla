----------------------------- MODULE MCEntries -----------------------------
(***************************************************************************)
(* Instances for TLC of the modules of what people enter and write over:   *)
(* MonthSaves, PartiesImports, Reviews and ScheduleStatus.  They have no   *)
(* state in common, so each behaviour is one of one of them, and a run     *)
(* says which.                                                             *)
(***************************************************************************)
EXTENDS MonthSaves, PartiesImports, Reviews, ScheduleStatus

CONSTANTS
  Parts,  \* of {"months", "imports", "reviews", "status"}
  f1, f2, s1, s2, t1, t2, c1, c2

VARIABLE part

TwoWeeks == 1..2
TwoFigures == {f1, f2}
TwoSavers == {s1, s2}

ThreeImports == 1..3
\* Two reports of the first week that differ, and one of the first two.
SomeDocuments ==
  {[week |-> 1, rows |-> <<1>>], [week |-> 1, rows |-> <<2>>], [week |-> 2, rows |-> <<1, 1>>]}

TwoTabs == {t1, t2}
Notes(text) == [type |-> "notes", on |-> "unset", text |-> text]
Data == [type |-> "data", on |-> "unset", text |-> 0]
\* Two notes about a table; the edits are numbered from 1.
NotesAround == <<Notes(-1), Data, Notes(-2)>>

TwoCommands == {c1, c2}

Init ==
  /\ part \in Parts
  /\ MonthInit
  /\ ImportsInit
  /\ ReviewsInit
  /\ StatusInit

Next ==
  /\ UNCHANGED part
  /\ \/ part = "months" /\ MonthNext /\ UNCHANGED <<importVars, reviewVars, statusVars>>
     \/ part = "imports" /\ ImportsNext /\ UNCHANGED <<monthVars, reviewVars, statusVars>>
     \/ part = "reviews" /\ ReviewsNext /\ UNCHANGED <<monthVars, importVars, statusVars>>
     \/ part = "status" /\ StatusNext /\ UNCHANGED <<monthVars, importVars, reviewVars>>

vars == <<part, monthVars, importVars, reviewVars, statusVars>>

Spec == Init /\ [][Next]_vars /\ MonthFairness
=============================================================================
