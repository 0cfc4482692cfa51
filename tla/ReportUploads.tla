---------------------------- MODULE ReportUploads ----------------------------
(***************************************************************************)
(* apps/reports/views.py: uploaded reports and the weekly figures parsed   *)
(* from them.                                                              *)
(*                                                                         *)
(* Each member of Workers is a gunicorn worker, which serves one request   *)
(* at a time: an upload, the detail page of an upload, a report page, or a *)
(* delete.  Every ORM statement commits on its own (update_or_create and   *)
(* delete are transactions of their own), so requests interleave between   *)
(* statements, and a worker can be killed between any two.                 *)
(***************************************************************************)
EXTENDS Naturals, FiniteSets

CONSTANTS
  Workers,    \* gunicorn workers
  Uploads,    \* primary keys of the uploads ever made
  Document,   \* the PDF of each: its kind, name, period, dpt, readable, partial
  Kinds,      \* report types
  Names,      \* file names: those PDFs are given and those storage makes up
  Periods,    \* reporting periods, each identified by its last day
  Starts,     \* fiscal-year starts the settings page may save
  WeekOf,     \* the fiscal year and week of a period, for each start
  Dpts,       \* dollars per transaction a weekly sales report can state
  NoDpt,      \* the figure is missing
  NoSummary,  \* no summary row
  Old,        \* uploads whose summary an earlier release stored
  NoUpload    \* a worker that serves no request

Documents ==
  [kind : Kinds, name : Names, period : Periods, dpt : Dpts, readable : BOOLEAN, partial : BOOLEAN]
Weeks == {WeekOf[s][d] : s \in Starts, d \in Periods}
\* Figures, of the document they were read from.
Summaries == [of : Uploads, week : Weeks, dpt : Dpts \cup {NoDpt}, old : BOOLEAN]

ASSUME KindAssumption == {"weekly_sales", "gift_cards"} \subseteq Kinds
ASSUME UploadAssumption == Uploads \subseteq Nat /\ Old \subseteq Uploads
ASSUME DocumentAssumption == Document \in [Uploads -> Documents]
ASSUME OldAssumption ==
  \A u, v \in Old : Document[u].kind = Document[v].kind /\ Document[u].name = Document[v].name => u = v
ASSUME WeekAssumption == WeekOf \in [Starts -> [Periods -> Nat]]
ASSUME ValueAssumption == NoDpt \notin Dpts /\ NoSummary \notin Summaries /\ NoUpload \notin Uploads

VARIABLES
  row,        \* ReportUpload: "new" before it exists, "gone" once deleted
  name,       \* the file name it was stored under
  media,      \* media storage, by path: the upload whose PDF is there
  summary,    \* the summary row that belongs to it
  start,      \* FiscalYearSettings.fiscal_year_start_date
  req,        \* what each worker is doing
  disturbed,  \* uploads a request on which was killed or answered 500
  taken       \* uploads whose file the delete of another one removed

vars == <<row, name, media, summary, start, req, disturbed, taken>>
files == <<name, media, taken>>

Exists(u) == row[u] \in {"pending", "parsed", "failed"}
Kind(u) == Document[u].kind
Period(u) == Document[u].period

\* report_upload_path: reports/{report_type}/{filename}.
Paths == Kinds \X Names
Path(u) == <<Kind(u), name[u]>>
Free(p) == media[p] = NoUpload
HasFile(u) == media[Path(u)] = u

Pcs == {"idle", "insert", "parse", "store", "mark", "fail", "show", "refresh",
        "unlink", "collect", "drop"}
\* A request in progress: the upload it works on, whether a page is to be
\* shown after parsing, the document it has parsed, the week and DPT it has in
\* memory, and whether a delete has found a summary to cascade to.
Requests == [pc : Pcs, upload : Uploads \cup {NoUpload}, view : BOOLEAN, of : Uploads \cup {NoUpload},
             week : Weeks \cup {0}, dpt : Dpts \cup {NoDpt}, seen : BOOLEAN]
Idle == [pc |-> "idle", upload |-> NoUpload, view |-> FALSE, of |-> NoUpload, week |-> 0, dpt |-> NoDpt, seen |-> FALSE]

At(w, where) == req[w].pc = where
Of(w) == req[w].upload
Goto(w, next) == req' = [req EXCEPT ![w].pc = next]
Answer(w) == req' = [req EXCEPT ![w] = Idle]
Accept(w, u, next, view) ==
  /\ At(w, "idle")
  /\ req' = [req EXCEPT ![w] = [Idle EXCEPT !.pc = next, !.upload = u, !.view = view]]
\* A request that parsed an upload for a page goes on to show it.
AfterParse(w) == IF req[w].view THEN Goto(w, "show") ELSE Answer(w)

Init ==
  /\ start \in Starts
  /\ row = [u \in Uploads |-> IF u \in Old THEN "parsed" ELSE "new"]
  /\ name = [u \in Uploads |-> Document[u].name]
  /\ media = [p \in Paths |-> IF \E u \in Old : Path(u) = p THEN CHOOSE u \in Old : Path(u) = p ELSE NoUpload]
  /\ summary = [u \in Uploads |->
                  IF u \in Old THEN [of |-> u, week |-> WeekOf[start][Period(u)], dpt |-> NoDpt, old |-> TRUE]
                  ELSE NoSummary]
  /\ req = [w \in Workers |-> Idle]
  /\ disturbed = {}
  /\ taken = {}

(***************************************************************************)
(* The summary tables                                                      *)
(***************************************************************************)
\* unique_..._fiscal_period: one summary of a kind per fiscal year and week.
Taken(u, week) ==
  \E v \in Uploads \ {u} : Kind(v) = Kind(u) /\ summary[v] # NoSummary /\ summary[v].week = week

\* update_or_create(report_upload=upload) succeeds: the upload still exists
\* (foreign key) and no other upload has the week (unique constraint).
CanStore(u, week) == Exists(u) /\ ~Taken(u, week)
Store(u, of, week, dpt) ==
  summary' = [summary EXCEPT ![u] = [of |-> of, week |-> week, dpt |-> dpt, old |-> FALSE]]

\* _gift_cards_weekly_sales_dpt: of the weekly sales summaries of the same
\* period the one with the latest week, then the latest id.
WeeklyFor(period) ==
  {v \in Uploads : Kind(v) = "weekly_sales" /\ summary[v] # NoSummary /\ Period(summary[v].of) = period}
Before(v, x) == summary[v].week < summary[x].week \/ (summary[v].week = summary[x].week /\ v <= x)
WeeklyDpts(period) ==
  LET weekly == WeeklyFor(period)
      latest == {x \in weekly : \A v \in weekly : Before(v, x)}
  IN IF latest = {} THEN {NoDpt} ELSE {Document[summary[x].of].dpt : x \in latest}

(***************************************************************************)
(* report_history, POST                                                    *)
(***************************************************************************)
\* form.save: the file goes to storage before the row is inserted.  It keeps the
\* name it was given unless a file of that name is there; then it gets another.
Named(u, n) == Free(<<Kind(u), n>>) /\ (Free(<<Kind(u), Document[u].name>>) => n = Document[u].name)

StoreFile(w, u) ==
  /\ row[u] = "new" /\ u \notin disturbed /\ \A x \in Workers : Of(x) # u
  /\ \E n \in Names :
       /\ Named(u, n)
       /\ name' = [name EXCEPT ![u] = n]
       /\ media' = [media EXCEPT ![<<Kind(u), n>>] = u]
  /\ Accept(w, u, "insert", FALSE)
  /\ UNCHANGED <<row, summary, start, disturbed, taken>>

InsertRow(w) ==
  /\ At(w, "insert")
  /\ row' = [row EXCEPT ![Of(w)] = "pending"]
  /\ Goto(w, "parse")
  /\ UNCHANGED <<files, summary, start, disturbed>>

(***************************************************************************)
(* _parse_and_store_summary                                                *)
(***************************************************************************)
\* Mutant: text is extracted outside the try block.
Extract_Untried(w) ==
  LET pdf == media[Path(Of(w))] IN
  /\ At(w, "parse")
  /\ IF pdf # NoUpload /\ Document[pdf].readable
     THEN req' = [req EXCEPT ![w].pc = "store", ![w].of = pdf, ![w].week = WeekOf[start][Period(pdf)]]
     ELSE Answer(w)
  /\ UNCHANGED <<row, files, summary, start, disturbed>>

\* The file of the upload's path is read.  The parser takes the week from the fiscal settings of the moment.
Extract(w) ==
  LET pdf == media[Path(Of(w))] IN
  /\ At(w, "parse")
  /\ IF pdf # NoUpload /\ Document[pdf].readable
     THEN req' = [req EXCEPT ![w].pc = "store", ![w].of = pdf, ![w].week = WeekOf[start][Period(pdf)]]
     ELSE Goto(w, "fail")
  /\ UNCHANGED <<row, files, summary, start, disturbed>>

\* Mutant: update_or_create looks the summary up by its week.
StoreSummary_ByWeek(w) ==
  LET u == Of(w) IN
  /\ At(w, "store")
  /\ IF Exists(u)
     THEN /\ summary' = [v \in Uploads |->
               IF v = u THEN [of |-> req[w].of, week |-> req[w].week, dpt |-> NoDpt, old |-> FALSE]
               ELSE IF Kind(v) = Kind(u) /\ summary[v] # NoSummary /\ summary[v].week = req[w].week
               THEN NoSummary ELSE summary[v]]
          /\ Goto(w, "mark")
     ELSE Goto(w, "fail") /\ UNCHANGED summary
  /\ UNCHANGED <<row, files, start, disturbed>>

\* update_or_create; for weekly sales the assistant's answer comes first.
StoreSummary(w) ==
  /\ At(w, "store")
  /\ IF CanStore(Of(w), req[w].week)
     THEN Store(Of(w), req[w].of, req[w].week, NoDpt) /\ Goto(w, "mark")
     ELSE UNCHANGED summary /\ Goto(w, "fail")
  /\ UNCHANGED <<row, files, start, disturbed>>

\* save(update_fields=...) updates a row and never inserts one: for an upload
\* deleted meanwhile it raises, first here, then again in the except block.
MarkParsed(w) ==
  /\ At(w, "mark")
  /\ IF Exists(Of(w))
     THEN row' = [row EXCEPT ![Of(w)] = "parsed"] /\ AfterParse(w)
     ELSE UNCHANGED row /\ Goto(w, "fail")
  /\ UNCHANGED <<files, summary, start, disturbed>>

\* Mutant: save() without update_fields inserts a row that is not there.
MarkFailed_PlainSave(w) ==
  /\ At(w, "fail")
  /\ row' = [row EXCEPT ![Of(w)] = "failed"]
  /\ AfterParse(w)
  /\ UNCHANGED <<files, summary, start, disturbed>>

MarkFailed(w) ==
  /\ At(w, "fail")
  /\ IF Exists(Of(w))
     THEN row' = [row EXCEPT ![Of(w)] = "failed"] /\ AfterParse(w)
     ELSE UNCHANGED row /\ Answer(w)
  /\ UNCHANGED <<files, summary, start, disturbed>>

(***************************************************************************)
(* report_detail, and the report pages                                     *)
(***************************************************************************)
\* The detail page parses a failed gift-card or bonus-club upload again.
OpenDetail(w, u) ==
  /\ Exists(u)
  /\ IF Kind(u) \in {"gift_cards", "bonus_club"} /\ row[u] = "failed"
     THEN Accept(w, u, "parse", TRUE) ELSE Accept(w, u, "show", TRUE)
  /\ UNCHANGED <<row, files, summary, start, disturbed>>

\* A report page shows the summary of each upload in the same way.
OpenReport(w, u) ==
  /\ summary[u] # NoSummary
  /\ Accept(w, u, "show", TRUE)
  /\ UNCHANGED <<row, files, summary, start, disturbed>>

\* A summary of an earlier parser, an incomplete one, or one that still waits
\* for the weekly sales report is parsed anew from its stored text.
NeedsRefresh(u) ==
  \/ summary[u].old
  \/ Kind(u) # "weekly_sales" /\ Document[summary[u].of].partial
  \/ Kind(u) = "gift_cards" /\ summary[u].dpt = NoDpt

\* _summary_for_upload up to the update_or_create of _refresh_..._if_needed.
Show(w) ==
  LET u == Of(w)
      pdf == summary[u].of IN
  /\ At(w, "show")
  /\ IF summary[u] # NoSummary /\ NeedsRefresh(u)
     THEN \E d \in IF Kind(u) = "gift_cards" THEN WeeklyDpts(Period(pdf)) ELSE {NoDpt} :
            req' = [req EXCEPT ![w].pc = "refresh", ![w].of = pdf, ![w].dpt = d,
                               ![w].week = WeekOf[start][Period(pdf)]]
     ELSE Answer(w)
  /\ UNCHANGED <<row, files, summary, start, disturbed>>

\* A refresh that cannot be stored answers 500.
StoreRefresh(w) ==
  LET u == Of(w) IN
  /\ At(w, "refresh")
  /\ IF CanStore(u, req[w].week)
     THEN Store(u, req[w].of, req[w].week, req[w].dpt) /\ UNCHANGED disturbed
     ELSE UNCHANGED summary /\ disturbed' = disturbed \cup {u}
  /\ Answer(w)
  /\ UNCHANGED <<row, files, start>>

(***************************************************************************)
(* report_delete                                                           *)
(***************************************************************************)
BeginDelete(w, u) ==
  /\ Exists(u)
  /\ Accept(w, u, "unlink", FALSE)
  /\ UNCHANGED <<row, files, summary, start, disturbed>>

\* Mutant: the file of an upload that failed to parse is left alone.
Unlink_KeepsFailed(w) ==
  LET p == Path(Of(w)) IN
  /\ At(w, "unlink")
  /\ media' = [media EXCEPT ![p] = IF row[Of(w)] = "failed" THEN @ ELSE NoUpload]
  /\ Goto(w, "collect")
  /\ UNCHANGED <<row, name, summary, start, disturbed, taken>>

\* source_file.delete removes what is at the path, another upload's file when
\* this one's is gone already and its name was used again.
Unlink(w) ==
  LET p == Path(Of(w)) IN
  /\ At(w, "unlink")
  /\ media' = [media EXCEPT ![p] = NoUpload]
  /\ taken' = taken \cup ({media[p]} \ {Of(w), NoUpload})
  /\ Goto(w, "collect")
  /\ UNCHANGED <<row, name, summary, start, disturbed>>

\* upload.delete(): the summaries found are deleted first, the upload next,
\* in one transaction.
Collect(w) ==
  /\ At(w, "collect")
  /\ req' = [req EXCEPT ![w].pc = "drop", ![w].seen = summary[Of(w)] # NoSummary]
  /\ UNCHANGED <<row, files, summary, start, disturbed>>

\* A summary stored in between violates the foreign key: the transaction is
\* undone and the request answers 500, with the file already removed.
Drop(w) ==
  LET u == Of(w) IN
  /\ At(w, "drop")
  /\ IF summary[u] # NoSummary /\ ~req[w].seen
     THEN UNCHANGED <<row, summary>> /\ disturbed' = disturbed \cup {u}
     ELSE /\ row' = [row EXCEPT ![u] = "gone"]
          /\ summary' = [summary EXCEPT ![u] = NoSummary]
          /\ UNCHANGED disturbed
  /\ Answer(w)
  /\ UNCHANGED <<files, start>>

(***************************************************************************)
(* settings_page, and the server                                           *)
(***************************************************************************)
SaveFiscalSettings ==
  /\ start' \in Starts \ {start}
  /\ UNCHANGED <<row, files, summary, req, disturbed>>

\* gunicorn kills a worker that exceeds its timeout and starts another one.
KillWorker(w) ==
  /\ ~At(w, "idle")
  /\ disturbed' = disturbed \cup {Of(w)}
  /\ Answer(w)
  /\ UNCHANGED <<row, files, summary, start>>

Handle(w) ==
  \/ InsertRow(w) \/ Extract(w) \/ StoreSummary(w) \/ MarkParsed(w) \/ MarkFailed(w)
  \/ Show(w) \/ StoreRefresh(w) \/ Unlink(w) \/ Collect(w) \/ Drop(w)
Request(w, u) == StoreFile(w, u) \/ OpenDetail(w, u) \/ OpenReport(w, u) \/ BeginDelete(w, u)

Next ==
  \/ SaveFiscalSettings
  \/ \E w \in Workers : Handle(w) \/ KillWorker(w)
  \/ \E w \in Workers, u \in Uploads : Request(w, u)

Spec == Init /\ [][Next]_vars

(***************************************************************************)
(* Properties                                                              *)
(***************************************************************************)
\* Every variable holds a value of its kind; a busy worker has an upload, and
\* one about to store figures has their week and their document.
TypeOK ==
  /\ row \in [Uploads -> {"new", "pending", "parsed", "failed", "gone"}]
  /\ name \in [Uploads -> Names]
  /\ media \in [Paths -> Uploads \cup {NoUpload}]
  /\ summary \in [Uploads -> Summaries \cup {NoSummary}]
  /\ start \in Starts
  /\ req \in [Workers -> Requests]
  /\ \A w \in Workers : ~At(w, "idle") => Of(w) \in Uploads
  /\ \A w \in Workers : req[w].pc \in {"store", "refresh"} => req[w].week \in Weeks /\ req[w].of \in Uploads
  /\ disturbed \in SUBSET Uploads /\ taken \in SUBSET Uploads

Working(u, pcs) == \E w \in Workers : req[w].pc \in pcs /\ Of(w) = u

\* An upload marked parsed has its figures, whatever other uploads of the same
\* week, repeated parses and deletes do meanwhile (_parse_and_store_summary).
ParsedHasSummary == \A u \in Uploads : row[u] = "parsed" => summary[u] # NoSummary

\* No figures outlive their upload: a parse or a refresh that a delete overtakes
\* stores nothing (report_delete against update_or_create).
SummaryHasUpload == \A u \in Uploads : summary[u] # NoSummary => Exists(u)

\* A delete of the upload is under way or broke off, or its file went with the
\* delete of another upload.
FileLost(u) == Working(u, {"collect", "drop"}) \/ u \in disturbed \cup taken

\* Figures are read from the PDF that was uploaded for them, although names of
\* files are used again, unless the upload has lost its file.
FiguresAreOwn == \A u \in Uploads : summary[u] # NoSummary => summary[u].of = u \/ FileLost(u)

\* An upload and its figures say the same of each other.
FiguresMatchRows == ParsedHasSummary /\ SummaryHasUpload /\ FiguresAreOwn

\* An upload stays pending only while a request parses it, or because that
\* request was killed: every way to fail records the failure.
PendingExplained ==
  \A u \in Uploads : row[u] = "pending" =>
    Working(u, {"parse", "store", "mark", "fail"}) \/ u \in disturbed

\* A file without a row is an upload in progress or one that was killed: a
\* delete, complete or not, never leaves a file nobody can reach.
OrphanFileExplained ==
  \A p \in Paths : ~Free(p) /\ ~Exists(media[p]) => Working(media[p], {"insert"}) \/ media[p] \in disturbed

\* What is stored is where its upload's row says.
FilesInPlace == \A p \in Paths : ~Free(p) => Path(media[p]) = p

\* An upload that is listed can be downloaded, unless it has lost its file.
MissingFileExplained == \A u \in Uploads : Exists(u) /\ ~HasFile(u) => FileLost(u)

\* Files and rows part only under a request, after one that broke off, or when the
\* delete of another upload takes the file (report_delete; OriginalKept is about
\* that).
FilesMatchRows == OrphanFileExplained /\ FilesInPlace /\ MissingFileExplained

\* The page of an upload offers to "Download original PDF"
\* (templates/reports/detail.html:6): an upload that is listed has its file unless
\* a delete of it is under way or broke off.  The code removes whatever is at the
\* path (views.py:732), and a path is used again once it is free (models.py:33-34).
OriginalKept ==
  \A u \in Uploads : Exists(u) /\ ~HasFile(u) => Working(u, {"collect", "drop"}) \/ u \in disturbed

\* A gift-card page that has been shown gives the DPT of the week's weekly sales
\* report, as test_report_routes.py:1336 has it.  The code never reads a DPT again
\* once it has one (views.py:1880-1881), whatever becomes of the report it is from.
PageShowsWeeksDpt ==
  [][\A w \in Workers :
       LET u == Of(w) IN
       /\ At(w, "show") /\ req'[w] = Idle /\ u \notin disturbed'
       /\ Kind(u) = "gift_cards" /\ summary[u] # NoSummary /\ WeeklyFor(Period(summary[u].of)) # {}
       => summary[u].dpt \in WeeklyDpts(Period(summary[u].of))]_vars

\* An upload that was deleted never comes back, although requests that loaded
\* it before still save it afterwards (save(update_fields=...)).
DeletedStaysDeleted == [][\A u \in Uploads : row[u] = "gone" => row'[u] = "gone"]_vars
=============================================================================
