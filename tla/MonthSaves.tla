----------------------------- MODULE MonthSaves -----------------------------
(***************************************************************************)
(* apps/reports/payroll_views.py and parties_views.py, index: the entries  *)
(* of a month are posted together and stored week by week, in the order of *)
(* the weeks, in one transaction.  The database reads what is committed    *)
(* (READ COMMITTED) and lets nobody write a row, or insert its key, that   *)
(* an open transaction has written.  The two grids have tables of their    *)
(* own; a month has weeks of its own.                                      *)
(***************************************************************************)
EXTENDS Integers, FiniteSets

CONSTANTS
  Weeks,    \* 1..n, the weeks of a month
  Figures,  \* what can be entered for a week
  Savers,   \* the processes that serve the saves
  Blank,    \* a week without an entry
  Invalid   \* an entry that is no number

ASSUME MonthAssumption == IsFiniteSet(Weeks) /\ Weeks = 1..Cardinality(Weeks)
ASSUME EntriesAssumption == Blank \notin Figures /\ Invalid \notin Figures /\ Blank # Invalid

VARIABLES
  rows,  \* the committed entry of each week
  saves  \* for each process: [form, next, marks, filled]

monthVars == <<rows, saves>>

Forms == [Weeks -> Figures \union {Blank, Invalid}]

\* Blank is a value of its own.
ASSUME BlankAssumption == Blank \notin Forms

\* next is the week at hand, 0 when nothing is being saved; marks is what the
\* transaction has written.  filled is kept for Ledger only: the weeks other
\* saves have filled in since this one began.
NotSaving == [form |-> [w \in Weeks |-> Blank], next |-> 0,
               marks |-> [w \in {} |-> Blank], filled |-> {}]

MonthInit ==
  /\ rows = [w \in Weeks |-> Blank]
  /\ saves = [s \in Savers |-> NotSaving]

Entry(s) == saves[s].form[saves[s].next]
AtWeek(s) == saves[s].next \in Weeks

\* No other open transaction has written the row, or its key.
Free(s, w) == \A t \in Savers \ {s} : w \notin DOMAIN saves[t].marks

BeginSave(s, form) ==
  /\ saves[s].next = 0
  /\ saves' = [saves EXCEPT ![s] = [NotSaving EXCEPT !.form = form, !.next = 1]]
  /\ UNCHANGED rows

\* ValueError: the transaction is rolled back.
RejectSave(s) ==
  /\ AtWeek(s)
  /\ Entry(s) = Invalid
  /\ saves' = [saves EXCEPT ![s] = NotSaving]
  /\ UNCHANGED rows

\* The deletion of a blank week that has no committed row finds nothing.
PassOver(s) ==
  /\ AtWeek(s)
  /\ Entry(s) = Blank
  /\ rows[saves[s].next] = Blank
  /\ saves' = [saves EXCEPT ![s].next = @ + 1]
  /\ UNCHANGED rows

WithEntry(s) ==
  [w \in {saves[s].next} \union DOMAIN saves[s].marks |->
     IF w = saves[s].next THEN Entry(s) ELSE saves[s].marks[w]]

\* Mutant: outside a transaction the entry is stored at once.
MarkWeek_AutoCommit(s) ==
  /\ AtWeek(s)
  /\ Entry(s) # Invalid
  /\ Entry(s) = Blank => rows[saves[s].next] # Blank
  /\ rows' = [rows EXCEPT ![saves[s].next] = Entry(s)]
  /\ saves' = [saves EXCEPT ![s].next = @ + 1]

\* update_or_create, or the deletion of a committed row: they wait for whoever
\* has written the row.
MarkWeek(s) ==
  /\ AtWeek(s)
  /\ Entry(s) # Invalid
  /\ Entry(s) = Blank => rows[saves[s].next] # Blank
  /\ Free(s, saves[s].next)
  /\ saves' = [saves EXCEPT ![s].next = @ + 1, ![s].marks = WithEntry(s)]
  /\ UNCHANGED rows

CommitSave(s) ==
  LET marks == saves[s].marks
      entered == {w \in DOMAIN marks : marks[w] # Blank}
  IN
  /\ saves[s].next = Cardinality(Weeks) + 1
  /\ rows' = [w \in Weeks |-> IF w \in DOMAIN marks THEN marks[w] ELSE rows[w]]
  /\ saves' = [t \in Savers |->
       IF t = s \/ saves[t].next = 0 THEN NotSaving
       ELSE [saves[t] EXCEPT !.filled = @ \union entered]]

\* The worker or the connection is lost: the database rolls back.
KillSave(s) ==
  /\ saves[s].next > 0
  /\ saves' = [saves EXCEPT ![s] = NotSaving]
  /\ UNCHANGED rows

SaveStep(s) == RejectSave(s) \/ PassOver(s) \/ MarkWeek(s) \/ CommitSave(s)

MonthNext ==
  \E s \in Savers :
    \/ \E form \in Forms : BeginSave(s, form)
    \/ SaveStep(s)
    \/ KillSave(s)

\* A worker goes on with its request, and the database serves those who wait
\* for a row in turn.
MonthFairness == \A s \in Savers : SF_monthVars(SaveStep(s))

MonthSpec == MonthInit /\ [][MonthNext]_monthVars /\ MonthFairness

(***************************************************************************)
(* Properties                                                              *)
(***************************************************************************)
L == INSTANCE Ledger WITH
       pending <- [s \in Savers |-> IF saves[s].next = 0 THEN Blank ELSE saves[s].form],
       filled <- [s \in Savers |-> saves[s].filled]

\* However the weeks of two saves interleave, and wherever one fails, each save
\* of a month takes effect as a whole or not at all, and none waits for ever:
\* the transaction of index, and its order of weeks, make it one step of Ledger.
SavesAreAtomic == L!Spec
=============================================================================
