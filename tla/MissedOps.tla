------------------------------ MODULE MissedOps ------------------------------
(***************************************************************************)
(* apps/reports/missed_opportunities_views.py, segment_views.py and        *)
(* gantt_views.py: three importers that share a week.                      *)
(*                                                                         *)
(* The missed-opportunity (MO) report of a week names its opportunity      *)
(* days; the segment and Gantt importers read it and accept PDFs for those *)
(* days only.  Each keeps a history of imports beside the data, and a      *)
(* delete of an import decides from that history whether the data goes     *)
(* with it.  Requests interleave between the statements that see each      *)
(* other's commits; a transaction is one action where its own row locks    *)
(* make it so, and two where another commit can come in between.           *)
(***************************************************************************)
EXTENDS Naturals

CONSTANTS
  Workers,      \* gunicorn workers
  Weeks,        \* fiscal year and week
  Days,         \* days of the week
  Stamps,       \* values of uploaded_at, in order; bounds the number of uploads
  Name,         \* source_name of the upload of each time (one for its days together,
                \* as names are compared within a day only); Name[0] of legacy data
  Legacy,       \* segment reports stored before imports were recorded
  Nothing       \* no row, no import

Slots == Weeks \X Days
Marks == Stamps \cup {0, Nothing}

\* One line of an upload history: a file read, or one that could not be read.
\* A segment or Gantt upload has a line for each of its days.
ParsedReports == [kind : {"mo"}, at : Stamps, week : Weeks]
                 \cup [kind : {"segment", "gantt"}, at : Stamps, week : Weeks, day : Days]
Failed == [kind : {"failed"}, at : Stamps]
Imports == ParsedReports \cup Failed
Reports == [at : Stamps, days : SUBSET Days]

ASSUME StampAssumption == Stamps \subseteq Nat \ {0}
ASSUME LegacyAssumption == Legacy \subseteq Slots
ASSUME NothingAssumption == Nothing \notin Reports \cup Imports \cup Stamps \cup Weeks \cup {0}

VARIABLES
  report,   \* MissedOpportunityReport: the upload it is of, and its opportunity days
  segment,  \* SegmentReport: the upload it is of (0: legacy)
  gantt,    \* GanttReport: likewise
  imports,  \* MissedOpportunityImport, SegmentReportImport and GanttImport
  req,      \* what each worker is doing
  last      \* uploaded_at of the latest import

missedVars == <<report, segment, gantt, imports, req, last>>

\* A request in progress: its week, days and time, the rows its DELETE found,
\* the import it deletes, and whether it found a newer one.
Requests == [pc : {"idle", "report", "segments", "fill", "gantts", "erase"},
             week : Weeks \cup {Nothing}, days : SUBSET Days, at : Stamps \cup {0},
             found : [Days -> Marks], import : Imports \cup {Nothing}, newer : BOOLEAN]
Idle == [pc |-> "idle", week |-> Nothing, days |-> {}, at |-> 0,
         found |-> [d \in Days |-> Nothing], import |-> Nothing, newer |-> FALSE]

At(x, where) == req[x].pc = where
Answer(x) == req' = [req EXCEPT ![x] = Idle]
Accept(x, request) == At(x, "idle") /\ req' = [req EXCEPT ![x] = request]

\* auto_now_add
Stamp == last' = last + 1 /\ last' \in Stamps

Lines(kind, at, w, ds) == [kind : {kind}, at : {at}, week : {w}, day : ds]

MissedInit ==
  /\ report = [w \in Weeks |-> Nothing]
  /\ segment = [s \in Slots |-> IF s \in Legacy THEN 0 ELSE Nothing]
  /\ gantt = [s \in Slots |-> Nothing]
  /\ imports = {}
  /\ req = [x \in Workers |-> Idle]
  /\ last = 0

(***************************************************************************)
(* MO reports                                                              *)
(***************************************************************************)
\* The import is stamped first and the report is stored next; both become
\* visible together, when the transaction commits.
BeginReport(x, w, ds) ==
  /\ Stamp
  /\ Accept(x, [Idle EXCEPT !.pc = "report", !.week = w, !.days = ds, !.at = last'])
  /\ UNCHANGED <<report, segment, gantt, imports>>

StoreReport(x) ==
  /\ At(x, "report")
  /\ report' = [report EXCEPT ![req[x].week] = [at |-> req[x].at, days |-> req[x].days]]
  /\ imports' = imports \cup {[kind |-> "mo", at |-> req[x].at, week |-> req[x].week]}
  /\ Answer(x)
  /\ UNCHANGED <<segment, gantt, last>>

\* Mutant: the except block leaves parse_status at its default.
UnreadableReport_Pending(x) ==
  /\ At(x, "idle")
  /\ Stamp
  /\ imports' = imports \cup {[kind |-> "pending", at |-> last']}
  /\ UNCHANGED <<report, segment, gantt, req>>

UnreadableReport(x) ==
  /\ At(x, "idle")
  /\ Stamp
  /\ imports' = imports \cup {[kind |-> "failed", at |-> last']}
  /\ UNCHANGED <<report, segment, gantt, req>>

(***************************************************************************)
(* Segments                                                                *)
(***************************************************************************)
\* The opportunity days are read, then the PDFs, one for each of those days.
BeginSegments(x, w) ==
  /\ report[w] # Nothing
  /\ report[w].days # {}
  /\ Accept(x, [Idle EXCEPT !.pc = "segments", !.week = w, !.days = report[w].days])
  /\ UNCHANGED <<report, segment, gantt, imports, last>>

\* The DELETE of the week's segments finds the rows committed so far.
ClearSegments(x) ==
  /\ At(x, "segments")
  /\ req' = [req EXCEPT ![x].pc = "fill", ![x].found = [d \in Days |-> segment[<<req[x].week, d>>]]]
  /\ UNCHANGED <<report, segment, gantt, imports, last>>

\* What the week's segments are once the rows found are gone and those of the
\* request's days are in.
Filled(r, at) ==
  [s \in Slots |-> IF s[1] # r.week THEN segment[s]
                   ELSE IF s[2] \in r.days THEN at
                   ELSE IF segment[s] = r.found[s[2]] THEN Nothing ELSE segment[s]]

\* unique_segment_report_period_day: a segment committed since then for one of
\* the days makes the INSERT fail, and the transaction is undone.
FillSegments(x) ==
  LET r == req[x] IN
  /\ At(x, "fill")
  /\ IF \E d \in r.days : segment[<<r.week, d>>] \notin {Nothing, r.found[d]}
     THEN UNCHANGED <<segment, imports, last>>
     ELSE /\ Stamp
          /\ segment' = Filled(r, last')
          /\ imports' = imports \cup Lines("segment", last', r.week, r.days)
  /\ Answer(x)
  /\ UNCHANGED <<report, gantt>>

(***************************************************************************)
(* Gantts                                                                  *)
(***************************************************************************)
BeginGantts(x, w, ds) ==
  /\ report[w] # Nothing
  /\ ds \subseteq report[w].days /\ ds # {}
  /\ Accept(x, [Idle EXCEPT !.pc = "gantts", !.week = w, !.days = ds])
  /\ UNCHANGED <<report, segment, gantt, imports, last>>

\* update_or_create locks the row of each day: uploads of a day take turns.
StoreGantts(x) ==
  LET r == req[x] IN
  /\ At(x, "gantts")
  /\ Stamp
  /\ gantt' = [s \in Slots |-> IF s[1] = r.week /\ s[2] \in r.days THEN last' ELSE gantt[s]]
  /\ imports' = imports \cup Lines("gantt", last', r.week, r.days)
  /\ Answer(x)
  /\ UNCHANGED <<report, segment>>

(***************************************************************************)
(* Deletes                                                                 *)
(***************************************************************************)
\* Mutant: the day is not compared.
Sibling_AnyDay(i, j) ==
  /\ j.kind = i.kind /\ i.kind \in {"mo", "segment"}
  /\ j.week = i.week

\* Parsed imports of the same week, and for segments of the same day.
Sibling(i, j) ==
  /\ j.kind = i.kind /\ i.kind \in {"mo", "segment"}
  /\ j.week = i.week
  /\ i.kind = "segment" => j.day = i.day

BeginDelete(x, i) ==
  /\ i \in imports
  /\ Accept(x, [Idle EXCEPT !.pc = "erase", !.import = i,
                            !.newer = \E j \in imports : Sibling(i, j) /\ j.at > i.at])
  /\ UNCHANGED <<report, segment, gantt, imports, last>>

SameName(at, i) == at # Nothing /\ Name[at] = Name[i.at]
Erasing(x, kind) == At(x, "erase") /\ req[x].import.kind = kind
DropImport(x) == imports' = imports \ {req[x].import} /\ Answer(x)

\* Mutant: the file name is not compared.
EraseReport_AnyName(x) ==
  LET i == req[x].import IN
  /\ Erasing(x, "mo")
  /\ report' = IF req[x].newer THEN report ELSE [report EXCEPT ![i.week] = Nothing]
  /\ DropImport(x)
  /\ UNCHANGED <<segment, gantt, last>>

EraseReport(x) ==
  LET i == req[x].import IN
  /\ Erasing(x, "mo")
  /\ report' = IF ~req[x].newer /\ report[i.week] # Nothing /\ SameName(report[i.week].at, i)
               THEN [report EXCEPT ![i.week] = Nothing] ELSE report
  /\ DropImport(x)
  /\ UNCHANGED <<segment, gantt, last>>

EraseSegment(x) ==
  LET i == req[x].import  s == <<i.week, i.day>> IN
  /\ Erasing(x, "segment")
  /\ segment' = IF ~req[x].newer /\ SameName(segment[s], i) THEN [segment EXCEPT ![s] = Nothing] ELSE segment
  /\ DropImport(x)
  /\ UNCHANGED <<report, gantt, last>>

\* Whichever import the day's Gantt is of.
EraseGantt(x) ==
  LET i == req[x].import IN
  /\ Erasing(x, "gantt")
  /\ gantt' = [gantt EXCEPT ![<<i.week, i.day>>] = Nothing]
  /\ DropImport(x)
  /\ UNCHANGED <<report, segment, last>>

\* A failed import has no data.
EraseFailed(x) ==
  /\ Erasing(x, "failed")
  /\ DropImport(x)
  /\ UNCHANGED <<report, segment, gantt, last>>

\* Segments without imports are offered one by one while no import is listed.
DeleteLegacy(x, s) ==
  /\ At(x, "idle")
  /\ segment[s] = 0
  /\ segment' = [segment EXCEPT ![s] = Nothing]
  /\ UNCHANGED <<report, gantt, imports, req, last>>

(***************************************************************************)
(* A worker killed, or a statement that fails: nothing is committed        *)
(***************************************************************************)
KillWorker(x) ==
  /\ ~At(x, "idle")
  /\ Answer(x)
  /\ UNCHANGED <<report, segment, gantt, imports, last>>

Upload(x, w) ==
  \/ BeginSegments(x, w)
  \/ \E ds \in SUBSET Days : BeginReport(x, w, ds) \/ BeginGantts(x, w, ds)
Store(x) == StoreReport(x) \/ ClearSegments(x) \/ FillSegments(x) \/ StoreGantts(x)
Erase(x) == EraseReport(x) \/ EraseSegment(x) \/ EraseGantt(x) \/ EraseFailed(x)

MissedNext == \E x \in Workers :
  \/ UnreadableReport(x)
  \/ \E w \in Weeks : Upload(x, w)
  \/ Store(x)
  \/ \E i \in imports : BeginDelete(x, i)
  \/ Erase(x)
  \/ \E s \in Slots : DeleteLegacy(x, s)
  \/ KillWorker(x)

MissedSpec == MissedInit /\ [][MissedNext]_missedVars

(***************************************************************************)
(* Properties                                                              *)
(***************************************************************************)
\* Every variable holds a value of its kind, and a request under way has what
\* it works with.
TypeOK ==
  /\ report \in [Weeks -> Reports \cup {Nothing}]
  /\ segment \in [Slots -> Marks]
  /\ gantt \in [Slots -> Stamps \cup {Nothing}]
  /\ imports \in SUBSET Imports
  /\ req \in [Workers -> Requests]
  /\ last \in Stamps \cup {0}
  /\ \A x \in Workers : req[x].pc \in {"report", "segments", "fill", "gantts"} => req[x].week \in Weeks
  /\ \A x \in Workers : At(x, "report") => req[x].at \in Stamps
  /\ \A x \in Workers : At(x, "erase") => req[x].import \in Imports

Line(kind, s, at) == [kind |-> kind, at |-> at, week |-> s[1], day |-> s[2]]

\* Stored segments can always be deleted from the page: the import they came
\* from is still listed, whatever uploads and deletes of the day interleaved
\* (the newer check and the name filter of segment_views.index).
SegmentListed == \A s \in Slots : segment[s] \in Stamps => Line("segment", s, segment[s]) \in imports

\* The same for Gantts (gantt_views.index).
GanttListed == \A s \in Slots : gantt[s] # Nothing => Line("gantt", s, gantt[s]) \in imports

\* Whatever is stored for a week's days is listed to be deleted by.
DataListed == SegmentListed /\ GanttListed

\* Worker x's delete of an import of a kind ends.
Ends(x, kind) == Erasing(x, kind) /\ At(x, "idle")'

\* Deleting an MO or segment import never removes what another upload stored,
\* also when one comes in between the newer check and the delete, as long as
\* the files have different names (source_name in both views).
OwnDataErased ==
  [][\A x \in Workers :
       /\ Ends(x, "mo") => \A w \in Weeks :
            report'[w] = report[w] \/ report[w].at = req[x].import.at
       /\ Ends(x, "segment") => \A s \in Slots :
            segment'[s] = segment[s] \/ segment[s] = req[x].import.at]_missedVars

\* "Deleted the selected MO report data.", says the page whichever import is
\* deleted: a week's report is there only while an import of the week is listed.
ReportListed == \A w \in Weeks : report[w] # Nothing => \E i \in imports : i.kind = "mo" /\ i.week = w
=============================================================================
