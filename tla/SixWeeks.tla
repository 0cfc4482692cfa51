------------------------------ MODULE SixWeeks ------------------------------
(***************************************************************************)
(* apps/reports/dashboard.py: figures by week, as the assistant's context  *)
(* builds them.                                                            *)
(*                                                                         *)
(* A day is a number of days from some Monday and a week the number of     *)
(* weeks from it, so that two days are of one week exactly when their ISO  *)
(* labels are equal.  A report, to this module, is a record:               *)
(*   label, end, start  a week it names, its last and its first day        *)
(*   payload, nested    figures by name, of the payload and of its metrics *)
(*   rows               a sequence of figures by name, the raw rows        *)
(***************************************************************************)
EXTENDS Integers, SequencesExt

CONSTANTS WindowSize, Unknown

ASSUME WindowAssumption == WindowSize \in Nat \ {0} /\ Unknown \notin Int

WeekOfDay(day) == day \div 7

\* WindowSize weeks, the last one that of the reference day.
WeekWindow(reference) ==
  [i \in 1..WindowSize |-> WeekOfDay(reference) - (WindowSize - i)]

\* Mutant: the first day names the week, before the last day does.
WeekOf_Start(report, today) ==
  CASE report.label # Unknown -> report.label
    [] report.label = Unknown /\ report.start # Unknown -> WeekOfDay(report.start)
    [] OTHER -> WeekOfDay(today)

\* The first of the candidates that names a week, and today's week otherwise.
WeekOf(report, today) ==
  CASE report.label # Unknown -> report.label
    [] report.label = Unknown /\ report.end # Unknown -> WeekOfDay(report.end)
    [] report.label = Unknown /\ report.end = Unknown /\ report.start # Unknown -> WeekOfDay(report.start)
    [] OTHER -> WeekOfDay(today)

\* The payload's figures, replaced by those of its metrics; a raw row adds the
\* names that neither the payload nor an earlier row has.
CollectMetrics(report) ==
  LET sources == <<report.nested, report.payload>> \o report.rows
      naming(m) == {i \in DOMAIN sources : m \in DOMAIN sources[i]}
  IN  [m \in UNION {DOMAIN source : source \in Range(sources)} |-> sources[Min(naming(m))][m]]

\* Mutant: weeks outside the window can be selected.
SelectedWeeks_Any(window, selection) ==
  IF selection = {} THEN Range(window) ELSE selection

\* A selection of no week at all is read as all weeks, as None is.
SelectedWeeks(window, selection) ==
  IF selection = {} THEN Range(window) ELSE Range(window) \cap selection

\* Reports come as a function from what the caller has to reports as above.
\* Those that count:
Filtered(views, selection, reference, today) ==
  {r \in DOMAIN views : WeekOf(views[r], today) \in SelectedWeeks(WeekWindow(reference), selection)}

\* metric_totals[metric], over any set of reports.
Total(rs, views, metric) ==
  SumFunction([r \in {r \in rs : metric \in DOMAIN CollectMetrics(views[r])} |-> CollectMetrics(views[r])[metric]])

Dashboard(views, selection, reference, today) ==
  LET window == WeekWindow(reference)
      counted == Filtered(views, selection, reference, today)
      metrics == UNION {DOMAIN CollectMetrics(views[r]) : r \in counted}
      OfWeek(w) == {r \in counted : WeekOf(views[r], today) = w}
  IN  [weeks   |-> window,
       reports |-> counted,
       totals  |-> [m \in metrics |-> Total(counted, views, m)],
       trends  |-> [m \in metrics |-> [i \in 1..WindowSize |-> Total(OfWeek(window[i]), views, m)]]]
=============================================================================
