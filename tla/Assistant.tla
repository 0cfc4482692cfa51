----------------------------- MODULE Assistant -----------------------------
(***************************************************************************)
(* The assistant: agent/views.py and the script of agent/chat.html, and    *)
(* apps/core/ai.py.                                                        *)
(*                                                                         *)
(* A browser's tabs keep a conversation each and share one stored copy of  *)
(* the last one.  A question goes to the server with the tab's             *)
(* conversation; the server builds a context from the stored reports and   *)
(* asks an external model.  Its answer is appended to whatever the tab's   *)
(* conversation has become.  The queries of a context are one step here;   *)
(* the code runs them without a transaction.                               *)
(***************************************************************************)
EXTENDS SixWeeks

CONSTANTS
  Tabs,
  Questions,   \* [words, month, year, names]: the words of a question that matter, the
               \* month and year it names, the associates whose name is in it
  MaxAsked,    \* bounds the questions asked
  Library,     \* reports that may be uploaded: <<kind, week>>, one for each fiscal week
  Lines,       \* rows of each report
  Associates,  \* [key, name, count]: the associates of each week's gift-card report
  Sales,       \* [payload, nested, rows]: figures of each week's sales report
  Month,       \* <<year, month>> in which each week ends
  ChatLimit, TrendWeeks, RowLimit,
  Capacity,    \* CHAT_DATA_CONTEXT_MAX_CHARS, in rows
  RecordSize,  \* the length of a report without its rows, in rows
  HistorySize, \* CHAT_HISTORY_MAX_CHARS
  TurnSize,    \* the length of a question and of an answer
  SentTurns, SavedTurns,
  None

ASSUME LimitAssumption ==
  /\ {ChatLimit, TrendWeeks, RowLimit} \subseteq Nat \ {0}
  /\ {MaxAsked, Capacity, RecordSize, HistorySize} \subseteq Nat
  /\ WindowSize <= ChatLimit
\* Weeks are numbered through.
ASSUME LibraryAssumption ==
  /\ IsFiniteSet(Library)
  /\ \A r \in Library : r = <<r[1], r[2]>> /\ r[2] \in Int
\* Figures are numbers, and finitely many associates are in a report.
ASSUME FiguresAssumption ==
  /\ \A r \in Library : r[1] = "gift_cards" =>
       IsFiniteSet(Associates[r[2]]) /\ \A a \in Associates[r[2]] : a.count \in Int
  /\ \A r \in Library : r[1] = "weekly_sales" =>
       LET given == Sales[r[2]] IN
       /\ \A figures \in {given.payload, given.nested} \cup Range(given.rows) :
            \A m \in DOMAIN figures : figures[m] \in Int
       /\ given.rows \in Seq(Range(given.rows))
ASSUME TurnAssumption == SentTurns \in Nat \ {0} /\ SavedTurns \in Nat /\ SavedTurns % 2 = 0

VARIABLES
  reports,  \* the summaries stored
  enabled,  \* AIIntegrationSettings.enabled
  history,  \* conversationHistory of each tab
  storage,  \* localStorage
  req,      \* questions under way
  asked     \* how many questions have been asked

vars == <<reports, enabled, history, storage, req, asked>>

(***************************************************************************)
(* build_bearbiz_chat_context                                              *)
(***************************************************************************)
Kinds == <<"bonus_club", "gift_cards", "parties", "ranking", "segments", "weekly_sales">>
Rank(kind) == CHOOSE i \in DOMAIN Kinds : Kinds[i] = kind
Kind(r) == r[1]
Week(r) == r[2]

\* report_records.sort: a Parties record has no period and goes to the end.
Newer(r, s) ==
  LET dated(x) == Kind(x) # "parties" IN
  \/ dated(r) /\ ~dated(s)
  \/ dated(r) = dated(s) /\ \/ Week(r) > Week(s)
                            \/ Week(r) = Week(s) /\ Rank(Kind(r)) > Rank(Kind(s))
First(rs, n) == {r \in rs : Cardinality({s \in rs : Newer(s, r)}) < n}
Newest(kind, stored) == First({r \in stored : Kind(r) = kind}, ChatLimit)
Records(stored) == UNION {Newest(kind, stored) : kind \in Range(Kinds)}

\* _fit_chat_context: rows go one at a time, from the end of the first report
\* that has more than one, until the context fits.
Shown(r) == Min({Lines[r], RowLimit})
Spare(r) == Max({Shown(r) - 1, 0})
Trimmed(details, n) ==
  [r \in details |->
     LET before == MapThenSumSet(Spare, {s \in details : Newer(s, r)})
     IN  Shown(r) - Min({Spare(r), Max({n - before, 0})})]
Size(recent, details) ==
  RecordSize * (Cardinality(recent) + Cardinality(DOMAIN details))
    + MapThenSumSet(LAMBDA r : details[r], DOMAIN details)
Fitted(recent, details) ==
  LET cuts == {n \in 0..MapThenSumSet(Spare, details) : Size(recent, Trimmed(details, n)) <= Capacity}
  IN  IF cuts = {} THEN <<>> ELSE Trimmed(details, Min(cuts))

\* _requested_month: a month without a year is of the latest report's year.
RequestedMonth(q, gifts) ==
  LET latest == Month[Max({Week(r) : r \in gifts})] IN
  CASE gifts = {} -> None
    [] gifts # {} /\ q.month = None -> latest
    [] OTHER -> <<IF q.year = None THEN latest[1] ELSE q.year, q.month>>

\* The rows of a month, and the sum for each associate: one is known by number
\* or else by name, and named as in the latest report.
MonthRows(gifts, month) ==
  UNION {{<<r, a>> : a \in Associates[Week(r)]} : r \in {g \in gifts : Month[Week(g)] = month}}
NameOf(rows, key) ==
  LET named == {x \in rows : x[2].key = key}
  IN  (CHOOSE x \in named : \A y \in named : Week(x[1]) >= Week(y[1]))[2].name

\* Mutant: a later report replaces the figures of an earlier one.
Totals_Replaced(rows, keys) ==
  [key \in keys |-> (CHOOSE x \in rows : x[2].key = key)[2].count]

Totals(rows, keys) ==
  [key \in keys |-> SumFunction([x \in {x \in rows : x[2].key = key} |-> x[2].count])]

\* _question_report_types
Mentions ==
  [gift_cards |-> {"gift", "gc"}, weekly_sales |-> {"weekly", "sales", "trend"},
   ranking |-> {"rank"}, segments |-> {"segment", "manager"}]
QuestionKinds(words) ==
  {kind \in DOMAIN Mentions : words \cap Mentions[kind] # {}}
    \cup (IF {"bonus", "club"} \subseteq words THEN {"bonus_club"} ELSE {})

\* _build_deterministic_query
AsksMonth(words) == "gift" \in words /\ words \cap {"card", "gc"} # {}
AsksTrend(words) == {"bonus", "club"} \subseteq words /\ words \cap {"trend", "weekly", "week"} # {}
MonthQuery(q, stored) ==
  LET gifts == Newest("gift_cards", stored)
      month == RequestedMonth(q, gifts)
      rows == MonthRows(gifts, month)
      requested == {key \in {x[2].key : x \in rows} : NameOf(rows, key) \in q.names}
  IN  [status |-> IF Cardinality(requested) = 1 THEN "ok" ELSE "ambiguous_or_missing",
       month |-> month, totals |-> Totals(rows, requested)]
TrendQuery(stored) ==
  LET weeks == First(Newest("bonus_club", stored), TrendWeeks)
  IN  [status |-> IF weeks = {} THEN "missing" ELSE "ok", month |-> None,
       totals |-> [r \in weeks |-> Lines[r]]]
Query(q, stored) ==
  CASE AsksMonth(q.words) -> MonthQuery(q, stored)
    [] ~AsksMonth(q.words) /\ AsksTrend(q.words) -> TrendQuery(stored)
    [] OTHER -> [status |-> "use_report_details", month |-> None, totals |-> <<>>]

\* The details of the kinds a question names, or an overview of all kinds.
Context(q, stored) ==
  LET kinds == QuestionKinds(q.words)
      relevant == {r \in Records(stored) : Kind(r) \in kinds}
      recent == First(IF kinds = {} THEN Records(stored) ELSE relevant, ChatLimit)
  IN  [recent |-> recent, details |-> Fitted(recent, First(relevant, Min({ChatLimit, 12}))), query |-> Query(q, stored)]

\* What build_six_week_dashboard is given.
SalesViews(rs) ==
  [r \in rs |->
     [label |-> Unknown, end |-> 7 * Week(r) + 5, start |-> 7 * Week(r) - 1,
      payload |-> Sales[Week(r)].payload, nested |-> Sales[Week(r)].nested, rows |-> Sales[Week(r)].rows]]
LatestEnd(stored, today) ==
  LET ends == {7 * Week(r) + 5 : r \in {s \in Records(stored) : Kind(s) # "parties"}}
  IN  IF ends = {} THEN today ELSE Max(ends)
ChatDashboard(stored, selection, today) ==
  Dashboard(SalesViews(Newest("weekly_sales", stored)), selection, LatestEnd(stored, today), today)

(***************************************************************************)
(* Conversations                                                           *)
(***************************************************************************)
Turn(role, n) == [role |-> role, of |-> n]
Pair(n) == <<Turn("user", n), Turn("assistant", n)>>
LastTurns(turns, n) == SubSeq(turns, Max({1, Len(turns) - n + 1}), Len(turns))

\* _sanitize_chat_history: the oldest of the turns take the room first.
Sanitized(turns) ==
  FoldLeft(LAMBDA acc, t :
             LET cut == Min({TurnSize[t.role], HistorySize - acc.used})
             IN  IF cut <= 0 THEN acc
                 ELSE [used |-> acc.used + cut, turns |-> Append(acc.turns, t)],
           [used |-> 0, turns |-> <<>>], LastTurns(turns, SentTurns)).turns

NoRequest == [tab |-> None, pc |-> "none", question |-> None, sent |-> <<>>, read |-> {}]
At(n, pc) == req[n].pc = pc
Drop(n) == req' = [req EXCEPT ![n] = NoRequest]

Init ==
  /\ reports \in SUBSET Library
  /\ enabled \in BOOLEAN
  /\ history = [t \in Tabs |-> <<>>]
  /\ storage = <<>>
  /\ req = [n \in 1..MaxAsked |-> NoRequest]
  /\ asked = 0

\* Deletes are left out: they lead to sets of reports that Init has.
Upload(r) == r \notin reports /\ reports' = reports \cup {r} /\ UNCHANGED <<enabled, history, storage, req, asked>>
SaveAISettings == enabled' = ~enabled /\ UNCHANGED <<reports, history, storage, req, asked>>

\* Nothing keeps a tab from asking again before the answer is there.
Ask(t, q) ==
  /\ asked < MaxAsked
  /\ asked' = asked + 1
  /\ req' = [req EXCEPT ![asked'] =
       [tab |-> t, pc |-> "sent", question |-> q, sent |-> history[t], read |-> {}]]
  /\ UNCHANGED <<reports, enabled, history, storage>>

\* The context is built from the reports read; a disabled assistant answers
\* with an error.
Build(n) ==
  /\ At(n, "sent")
  /\ req' = [req EXCEPT ![n].pc = IF enabled THEN "asking" ELSE "answered",
                        ![n].sent = Sanitized(@), ![n].read = reports]
  /\ UNCHANGED <<reports, enabled, history, storage, asked>>

\* The model's answer, or the text of an error: HTTP status, no connection, no
\* usable content.
Answer(n) ==
  /\ At(n, "asking")
  /\ req' = [req EXCEPT ![n].pc = "answered", ![n].read = {}]
  /\ UNCHANGED <<reports, enabled, history, storage, asked>>

\* Mutant: the server waits for the model for ever.
WorkerTimeout_Never(n) ==
  /\ At(n, "asking")
  /\ FALSE
  /\ UNCHANGED vars

\* The server's timeout kills a worker that waits for the model: the fetch
\* fails, and the script does not go on.
WorkerTimeout(n) ==
  /\ At(n, "asking")
  /\ Drop(n)
  /\ UNCHANGED <<reports, enabled, history, storage, asked>>

Receive(n) ==
  LET t == req[n].tab IN
  /\ At(n, "answered")
  /\ history' = [history EXCEPT ![t] = @ \o Pair(n)]
  /\ storage' = LastTurns(history'[t], SavedTurns)
  /\ Drop(n)
  /\ UNCHANGED <<reports, enabled, asked>>

\* Mutant: the stored copy is left to the next answer.
NewChat_KeepsStorage(t) ==
  /\ history' = [history EXCEPT ![t] = <<>>]
  /\ UNCHANGED <<reports, enabled, storage, req, asked>>

\* Questions under way go on, and their answers open the new chat.
NewChat(t) ==
  /\ history' = [history EXCEPT ![t] = <<>>]
  /\ storage' = <<>>
  /\ UNCHANGED <<reports, enabled, req, asked>>

\* The page forgets its questions and takes the stored conversation.
Reload(t) ==
  /\ history' = [history EXCEPT ![t] = LastTurns(storage, SavedTurns)]
  /\ req' = [n \in DOMAIN req |-> IF req[n].tab = t THEN NoRequest ELSE req[n]]
  /\ UNCHANGED <<reports, enabled, storage, asked>>

Serve(n) == Build(n) \/ Answer(n) \/ WorkerTimeout(n) \/ Receive(n)

Next ==
  \/ \E r \in Library : Upload(r)
  \/ SaveAISettings
  \/ \E t \in Tabs : (\E q \in Questions : Ask(t, q)) \/ NewChat(t) \/ Reload(t)
  \/ \E n \in 1..MaxAsked : Serve(n)

\* The server takes every request and ends it, in time or by its timeout, and
\* the browser takes what it sends.
Fairness == \A n \in 1..MaxAsked : WF_vars(Build(n)) /\ WF_vars(WorkerTimeout(n)) /\ WF_vars(Receive(n))

Spec == Init /\ [][Next]_vars /\ Fairness

(***************************************************************************)
(* Properties                                                              *)
(***************************************************************************)
\* In a conversation every question is followed by its answer.
Whole(turns) ==
  /\ Len(turns) % 2 = 0
  /\ \A i \in DOMAIN turns :
       IF i % 2 = 1 THEN turns[i].role = "user" /\ turns[i + 1] = Turn("assistant", turns[i].of)
       ELSE turns[i].role = "assistant"

\* Whatever tabs ask at once, reload or begin anew, conversations stay whole,
\* and the stored one is the end of a tab's: never a mixture, and never one
\* that a new chat has done away with everywhere (chat.html).
StoredChat ==
  /\ \A t \in Tabs : Whole(history[t])
  /\ storage # <<>> => \E t \in Tabs : storage = LastTurns(history[t], SavedTurns)

\* For every selection of weeks, the six-week figures a context is built with
\* are of the sales reports stored for these weeks: of all of them, though only
\* the latest reports are read, and of no other (build_bearbiz_chat_context,
\* build_six_week_dashboard).
ShowsWeeks(stored, selection) ==
  LET d == ChatDashboard(stored, selection, 0) IN
  d.reports = {r \in stored : Kind(r) = "weekly_sales" /\ Week(r) \in Range(d.weeks)
                               /\ (selection = {} \/ Week(r) \in selection)}
DashboardShowsWeeks ==
  \A n \in 1..MaxAsked : At(n, "asking") =>
    \A selection \in SUBSET {Week(r) : r \in req[n].read} : ShowsWeeks(req[n].read, selection)

\* And the total of a figure is the sum of its weeks.
AddsUp(stored, selection) ==
  LET d == ChatDashboard(stored, selection, 0) IN
  \A m \in DOMAIN d.totals : d.totals[m] = SumFunction(d.trends[m])
DashboardAddsUp ==
  \A n \in 1..MaxAsked : At(n, "asking") =>
    \A selection \in SUBSET {Week(r) : r \in req[n].read} : AddsUp(req[n].read, selection)

\* The query's figures are the sums of what is stored for its month.
Gifts(stored) == {r \in stored : Kind(r) = "gift_cards"}
GiftCount(r, key) == SumFunction([a \in {a \in Associates[Week(r)] : a.key = key} |-> a.count])
Exact(query, stored) ==
  \A key \in DOMAIN query.totals :
    query.totals[key] =
      SumFunction([r \in {r \in Gifts(stored) : Month[Week(r)] = query.month} |-> GiftCount(r, key)])
Answered(n) == Context(req[n].question, req[n].read).query
MonthFound(n) == At(n, "asking") /\ AsksMonth(req[n].question.words) /\ Answered(n).status = "ok"

\* A month's figures for an associate are exact when the month's reports are
\* among the latest ones the context reads.
RecentMonthExact ==
  \A n \in 1..MaxAsked : MonthFound(n) =>
    LET gifts == Gifts(req[n].read)
    IN  {r \in gifts : Month[Week(r)] = Answered(n).month} \subseteq First(gifts, ChatLimit)
          => Exact(Answered(n), req[n].read)

\* A question does not stay without an answer for ever: it is answered, or the
\* server has given it up.
QuestionsEnd == \A n \in 1..MaxAsked : ~At(n, "none") ~> At(n, "none")

\* "Return labeled, exact data for common report questions": the figures a month
\* is answered with are those of all the reports of that month that are stored.
MonthExact == \A n \in 1..MaxAsked : MonthFound(n) => Exact(Answered(n), req[n].read)
=============================================================================
