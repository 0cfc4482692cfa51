------------------------------- MODULE Ledger -------------------------------
(***************************************************************************)
(* What saving a month promises: each save takes effect at one moment, as  *)
(* a whole or not at all.  The one liberty: a week left blank may keep     *)
(* what another save has filled in since this one began.                   *)
(***************************************************************************)
EXTENDS Integers, FiniteSets

CONSTANTS
  Weeks,    \* the weeks of a month
  Figures,  \* what can be entered for a week
  Savers,   \* the processes that serve the saves
  Blank,    \* a week without an entry
  Invalid   \* an entry that is no number

VARIABLES
  rows,     \* the stored entry of each week
  pending,  \* the forms being saved
  filled    \* for each, the weeks other saves have filled in since it began

vars == <<rows, pending, filled>>

Forms == [Weeks -> Figures \union {Blank, Invalid}]

Saving(s) == pending[s] \in Forms

Init ==
  /\ rows = [w \in Weeks |-> Blank]
  /\ pending = [s \in Savers |-> Blank]
  /\ filled = [s \in Savers |-> {}]

Begin(s, form) ==
  /\ ~Saving(s)
  /\ pending' = [pending EXCEPT ![s] = form]
  /\ filled' = [filled EXCEPT ![s] = {}]
  /\ UNCHANGED rows

\* The whole month at once, but for blank weeks others have filled in.
Take(s) ==
  /\ Saving(s)
  /\ Invalid \notin {pending[s][w] : w \in Weeks}
  /\ \E kept \in SUBSET {w \in filled[s] : pending[s][w] = Blank} :
       rows' = [w \in Weeks |-> IF w \in kept THEN rows[w] ELSE pending[s][w]]
  /\ filled' = [t \in Savers |->
       IF t = s \/ ~Saving(t) THEN {}
       ELSE filled[t] \union {w \in Weeks : pending[s][w] # Blank}]
  /\ pending' = [pending EXCEPT ![s] = Blank]

Fail(s) ==
  /\ Saving(s)
  /\ pending' = [pending EXCEPT ![s] = Blank]
  /\ filled' = [filled EXCEPT ![s] = {}]
  /\ UNCHANGED rows

End(s) == Take(s) \/ Fail(s)

Next == \E s \in Savers : End(s) \/ \E form \in Forms : Begin(s, form)

\* Every save ends.
Spec == Init /\ [][Next]_vars /\ \A s \in Savers : WF_vars(End(s))
=============================================================================
