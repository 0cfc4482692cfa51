--------------------------- MODULE MCReportUploads ---------------------------
(***************************************************************************)
(* Instances of ReportUploads: the documents uploaded and the weeks their  *)
(* periods fall in.                                                        *)
(***************************************************************************)
EXTENDS ReportUploads, TLC

CONSTANTS s1, s2, d1, d2, n1, n2

\* All PDFs are given the same name.
Doc(kind, period, dpt) ==
  [kind |-> kind, name |-> n1, period |-> period, dpt |-> dpt, readable |-> TRUE, partial |-> FALSE]

AllKinds == {"weekly_sales", "gift_cards"}

\* Weekly sales of two periods, and the gift cards of the first one.
Dependent == <<Doc("weekly_sales", 1, d1),
               Doc("weekly_sales", 2, d2),
               Doc("gift_cards", 1, d1)>>

\* The second weekly sales report is of the same week.
Replaced == <<Doc("weekly_sales", 1, d1), Doc("weekly_sales", 1, d2), Doc("gift_cards", 1, d1)>>

OneCalendar == s1 :> <<5, 6>>
\* Starting the fiscal year a week later moves every period one week back.
ShiftedWeeks == s1 :> <<5, 6>> @@ s2 :> <<4, 5>>

\* Workers are interchangeable.
WorkerSymmetry == Permutations(Workers)

None == {}
First == {1}
=============================================================================
