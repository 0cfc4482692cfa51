---------------------------- MODULE MCAssistant ----------------------------
(***************************************************************************)
(* Instances of Assistant for TLC.                                         *)
(***************************************************************************)
EXTENDS Assistant

CONSTANTS tab1, tab2

MCTabs == {tab1, tab2}

MCLibrary == ({"gift_cards"} \X (1..3)) \cup ({"weekly_sales"} \X (1..2))
MCLines == [r \in MCLibrary |-> IF Kind(r) = "weekly_sales" THEN 3 ELSE 2]

\* Weeks 1 and 2 end in January, week 3 in February.
MCMonth == <<<<2026, 1>>, <<2026, 1>>, <<2026, 2>>>>

\* Tom has no number in week 1; Ann has one.
MCAssociates ==
  <<{[key |-> "tom", name |-> "tom", count |-> 1], [key |-> "n7", name |-> "ann", count |-> 2]},
    {[key |-> "n7", name |-> "ann", count |-> 4]},
    {[key |-> "n7", name |-> "ann", count |-> 8]}>>

MCSales ==
  [w \in 1..3 |-> [payload |-> [sales |-> w], nested |-> [sales |-> 10 * w],
                   rows |-> <<[traffic |-> w, sales |-> 5], [traffic |-> 100]>>]]

MonthQuestion == [words |-> {"gift", "card"}, month |-> 1, year |-> None, names |-> {"ann"}]
SalesQuestion == [words |-> {"sales"}, month |-> None, year |-> None, names |-> {}]
MCQuestions == {MonthQuestion, SalesQuestion}

MCTurnSize == [user |-> 1, assistant |-> 2]
=============================================================================
