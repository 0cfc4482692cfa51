-------------------------- MODULE MissedOps_proofs --------------------------
(***************************************************************************)
(* Proofs about MissedOps, for any number of workers, weeks, days and      *)
(* uploads.                                                                *)
(***************************************************************************)
EXTENDS MissedOps, TLAPS

Slot(i) == <<i.week, i.day>>

\* Whatever carries a time was stamped by now.
StampsPast ==
  /\ \A i \in imports : i.at <= last
  /\ \A s \in Slots : segment[s] \in Stamps => segment[s] <= last
  /\ \A x \in Workers : At(x, "erase") => req[x].import.at <= last
  /\ \A x \in Workers : At(x, "report") => req[x].at <= last

\* The segments of a day are those of the day's newest import.
SegmentNewest ==
  \A s \in Slots, i \in imports :
    segment[s] \in Stamps /\ i.kind = "segment" /\ Slot(i) = s => i.at <= segment[s]

\* A delete of the import the stored segments came from knows there is no newer
\* one, however long ago it asked.
EraseInformed ==
  \A x \in Workers :
    Erasing(x, "segment") /\ segment[Slot(req[x].import)] = req[x].import.at => ~req[x].newer

IInv ==
  /\ TypeOK
  /\ StampsPast
  /\ SegmentNewest
  /\ EraseInformed
  /\ SegmentListed
  /\ GanttListed

LEMMA IdleTyped == Idle \in Requests
BY DEF Idle, Requests, Marks

\* Giving a worker a request changes that worker only.
LEMMA Replaced ==
  ASSUME TypeOK, NEW x \in Workers, NEW r \in Requests, req' = [req EXCEPT ![x] = r]
  PROVE  /\ req' \in [Workers -> Requests]
         /\ req'[x] = r
         /\ \A y \in Workers \ {x} : req'[y] = req[y]
BY DEF TypeOK

\* Answering makes a worker idle.
LEMMA Answered ==
  ASSUME TypeOK, NEW x \in Workers, Answer(x)
  PROVE  /\ req' \in [Workers -> Requests]
         /\ req'[x] = Idle /\ req'[x].pc = "idle"
         /\ \A y \in Workers \ {x} : req'[y] = req[y]
BY IdleTyped, Replaced DEF Answer, Idle

\* The lines of an upload are imports; they are never those of an MO report.
LEMMA LinesTyped ==
  ASSUME NEW kind \in {"segment", "gantt"}, NEW at \in Stamps, NEW w \in Weeks, NEW ds \in SUBSET Days
  PROVE  /\ Lines(kind, at, w, ds) \subseteq Imports
         /\ \A i \in Lines(kind, at, w, ds) : i.kind = kind /\ i.at = at /\ i.week = w /\ i.day \in ds
         /\ \A d \in ds : Line(kind, <<w, d>>, at) \in Lines(kind, at, w, ds)
BY DEF Lines, Line, Imports, ParsedReports

LEMMA ImportsTyped ==
  ASSUME NEW i \in Imports
  PROVE  /\ i.at \in Stamps
         /\ i.kind = "mo" => i.week \in Weeks
         /\ i.kind \in {"segment", "gantt"} => Slot(i) \in Slots /\ i = Line(i.kind, Slot(i), i.at)
         /\ i.kind \in {"mo", "segment", "gantt", "failed"}
         /\ i # Nothing
BY NothingAssumption DEF Imports, ParsedReports, Failed, Slot, Slots, Line

\* The steps that leave the stored data and the imports alone, and what they
\* leave the worker with.
Quiet(x) ==
  \/ \E w \in Weeks, ds \in SUBSET Days : BeginReport(x, w, ds) \/ BeginGantts(x, w, ds)
  \/ \E w \in Weeks : BeginSegments(x, w)
  \/ ClearSegments(x)
  \/ KillWorker(x)

LEMMA Quieted ==
  ASSUME TypeOK, NEW x \in Workers, Quiet(x)
  PROVE  /\ UNCHANGED <<report, segment, gantt, imports>>
         /\ last' \in Stamps \cup {0} /\ last' >= last
         /\ req' \in [Workers -> Requests]
         /\ req'[x].pc # "erase"
         /\ req'[x].pc \in {"report", "segments", "fill", "gantts"} => req'[x].week \in Weeks
         /\ req'[x].pc = "report" => req'[x].at \in Stamps /\ req'[x].at = last'
         /\ \A y \in Workers \ {x} : req'[y] = req[y]
<1>1. last \in Nat /\ (Stamp => last' = last + 1 /\ last' \in Stamps)
    BY StampAssumption DEF Stamp, TypeOK
<1>2. CASE \E w \in Weeks, ds \in SUBSET Days : BeginReport(x, w, ds)
    <2>1. PICK w \in Weeks, ds \in SUBSET Days : BeginReport(x, w, ds)
        BY <1>2
    <2> DEFINE r == [Idle EXCEPT !.pc = "report", !.week = w, !.days = ds, !.at = last']
    <2>2. last' = last + 1 /\ last' \in Stamps
        BY <1>1, <2>1 DEF BeginReport
    <2>3. r \in Requests /\ r.pc = "report" /\ r.week = w /\ r.at = last'
        BY <2>2, IdleTyped DEF Idle, Requests
    <2>4. req' = [req EXCEPT ![x] = r] /\ UNCHANGED <<report, segment, gantt, imports>>
        BY <2>1 DEF BeginReport, Accept
    <2> HIDE DEF r
    <2>5. last' >= last
        BY <1>1, <2>2
    <2> QED BY <2>2, <2>3, <2>4, <2>5, Replaced
<1>3. CASE \E w \in Weeks, ds \in SUBSET Days : BeginGantts(x, w, ds)
    <2>1. PICK w \in Weeks, ds \in SUBSET Days : BeginGantts(x, w, ds)
        BY <1>3
    <2> DEFINE r == [Idle EXCEPT !.pc = "gantts", !.week = w, !.days = ds]
    <2>3. r \in Requests /\ r.pc = "gantts" /\ r.week = w
        BY IdleTyped DEF Idle, Requests
    <2>4. req' = [req EXCEPT ![x] = r] /\ UNCHANGED <<report, segment, gantt, imports, last>>
        BY <2>1 DEF BeginGantts, Accept
    <2> HIDE DEF r
    <2> QED BY <1>1, <2>3, <2>4, Replaced DEF TypeOK
<1>4. CASE \E w \in Weeks : BeginSegments(x, w)
    <2>1. PICK w \in Weeks : BeginSegments(x, w)
        BY <1>4
    <2> DEFINE r == [Idle EXCEPT !.pc = "segments", !.week = w, !.days = report[w].days]
    <2>2. report[w] \in Reports
        BY <2>1 DEF BeginSegments, TypeOK
    <2>3. r \in Requests /\ r.pc = "segments" /\ r.week = w
        BY <2>2, IdleTyped DEF Idle, Requests, Reports
    <2>4. req' = [req EXCEPT ![x] = r] /\ UNCHANGED <<report, segment, gantt, imports, last>>
        BY <2>1 DEF BeginSegments, Accept
    <2> HIDE DEF r
    <2> QED BY <1>1, <2>3, <2>4, Replaced DEF TypeOK
<1>5. CASE ClearSegments(x)
    <2> DEFINE found == [d \in Days |-> segment[<<req[x].week, d>>]]
               r == [req[x] EXCEPT !.pc = "fill", !.found = found]
    <2>1. req[x] \in Requests /\ req[x].week \in Weeks
        BY <1>5 DEF ClearSegments, At, TypeOK
    <2>2. found \in [Days -> Marks]
        BY <2>1 DEF TypeOK, Slots
    <2> HIDE DEF found
    <2>3. r \in Requests /\ r.pc = "fill" /\ r.week = req[x].week
        BY <2>1, <2>2 DEF Requests
    <2>4. req' = [req EXCEPT ![x] = r] /\ UNCHANGED <<report, segment, gantt, imports, last>>
        BY <1>5 DEF ClearSegments, found
    <2> HIDE DEF r
    <2> QED BY <1>1, <2>1, <2>3, <2>4, Replaced DEF TypeOK
<1>6. CASE KillWorker(x)
    BY <1>1, <1>6, Answered DEF KillWorker, TypeOK
<1> QED BY <1>2, <1>3, <1>4, <1>5, <1>6 DEF Quiet

\* A delete asks the history and changes nothing yet.
LEMMA DeleteBegun ==
  ASSUME TypeOK, NEW x \in Workers, NEW i \in imports, BeginDelete(x, i)
  PROVE  /\ UNCHANGED <<report, segment, gantt, imports, last>>
         /\ req' \in [Workers -> Requests]
         /\ req'[x].pc = "erase" /\ req'[x].import = i /\ i \in Imports
         /\ req'[x].newer = (\E j \in imports : Sibling(i, j) /\ j.at > i.at)
         /\ \A y \in Workers \ {x} : req'[y] = req[y]
<1> DEFINE newer == \E j \in imports : Sibling(i, j) /\ j.at > i.at
           r == [Idle EXCEPT !.pc = "erase", !.import = i, !.newer = newer]
<1>1. i \in Imports
    BY DEF TypeOK
<1>2. newer \in BOOLEAN
    OBVIOUS
<1>3. req' = [req EXCEPT ![x] = r] /\ UNCHANGED <<report, segment, gantt, imports, last>>
    BY DEF BeginDelete, Accept
<1> HIDE DEF newer
<1>4. r \in Requests /\ r.pc = "erase" /\ r.import = i /\ r.newer = newer
    BY <1>1, <1>2, IdleTyped DEF Idle, Requests
<1> HIDE DEF r
<1>5. req' \in [Workers -> Requests] /\ req'[x] = r /\ \A y \in Workers \ {x} : req'[y] = req[y]
    BY <1>3, <1>4, Replaced
<1> QED BY <1>1, <1>3, <1>4, <1>5 DEF newer

(***************************************************************************)
(* Storing                                                                 *)
(***************************************************************************)
LEMMA ReportStored ==
  ASSUME TypeOK, NEW x \in Workers, StoreReport(x)
  PROVE  /\ UNCHANGED <<segment, gantt, last>>
         /\ report' \in [Weeks -> Reports \cup {Nothing}]
         /\ imports \subseteq imports' /\ imports' \in SUBSET Imports
         /\ \A i \in imports' \ imports : i.kind = "mo" /\ i.at = req[x].at
<1>1. req[x] \in Requests /\ req[x].week \in Weeks /\ req[x].at \in Stamps
    BY DEF StoreReport, At, TypeOK
<1> DEFINE i == [kind |-> "mo", at |-> req[x].at, week |-> req[x].week]
<1>2. i \in Imports /\ i.kind = "mo" /\ i.at = req[x].at
    BY <1>1 DEF Imports, ParsedReports
<1>3. [at |-> req[x].at, days |-> req[x].days] \in Reports
    BY <1>1 DEF Reports, Requests
<1>4. imports' = imports \cup {i}
    BY DEF StoreReport
<1> HIDE DEF i
<1>5. report' \in [Weeks -> Reports \cup {Nothing}]
    BY <1>1, <1>3 DEF StoreReport, TypeOK
<1> QED BY <1>2, <1>4, <1>5 DEF StoreReport, TypeOK

LEMMA ReportUnread ==
  ASSUME TypeOK, NEW x \in Workers, UnreadableReport(x)
  PROVE  /\ UNCHANGED <<report, segment, gantt, req>>
         /\ last' = last + 1 /\ last' \in Stamps
         /\ imports \subseteq imports' /\ imports' \in SUBSET Imports
         /\ \A i \in imports' \ imports : i.kind = "failed" /\ i.at = last'
<1> DEFINE i == [kind |-> "failed", at |-> last']
<1>1. last' = last + 1 /\ last' \in Stamps
    BY DEF UnreadableReport, Stamp
<1>2. i \in Imports /\ i.kind = "failed" /\ i.at = last'
    BY <1>1 DEF Imports, Failed
<1>3. imports' = imports \cup {i}
    BY DEF UnreadableReport
<1> HIDE DEF i
<1> QED BY <1>1, <1>2, <1>3 DEF UnreadableReport, TypeOK

\* Segments are stored for every day of the request or for none, and a row that
\* is not theirs stays as it was or goes.
LEMMA SegmentsFilled ==
  ASSUME TypeOK, NEW x \in Workers, FillSegments(x)
  PROVE  /\ UNCHANGED <<report, gantt>>
         /\ segment' \in [Slots -> Marks]
         /\ imports \subseteq imports' /\ imports' \in SUBSET Imports
         /\ \/ UNCHANGED <<segment, imports, last>>
            \/ /\ last' = last + 1 /\ last' \in Stamps
               /\ \A s \in Slots :
                    \/ segment'[s] = last' /\ Line("segment", s, last') \in imports'
                    \/ segment'[s] \in {segment[s], Nothing} /\ s \notin {Slot(i) : i \in imports' \ imports}
               /\ \A i \in imports' \ imports : i.kind = "segment" /\ i.at = last'
<1> DEFINE r == req[x]
           lines == Lines("segment", last', r.week, r.days)
<1>1. r \in Requests /\ r.week \in Weeks /\ r.days \in SUBSET Days
    BY DEF FillSegments, At, TypeOK, Requests
<1>2. CASE UNCHANGED <<segment, imports, last>>
    BY <1>2 DEF FillSegments, TypeOK
<1>3. CASE Stamp /\ segment' = Filled(r, last') /\ imports' = imports \cup lines
    <2>1. last' = last + 1 /\ last' \in Stamps
        BY <1>3 DEF Stamp
    <2>2. /\ lines \subseteq Imports
          /\ \A i \in lines : i.kind = "segment" /\ i.at = last' /\ i.week = r.week /\ i.day \in r.days
          /\ \A d \in r.days : Line("segment", <<r.week, d>>, last') \in lines
        BY <1>1, <2>1, LinesTyped
    <2> HIDE DEF lines
    <2>3. segment' \in [Slots -> Marks]
        BY <1>3, <2>1 DEF Filled, Marks, TypeOK
    <2>4. ASSUME NEW s \in Slots, s[1] = r.week, s[2] \in r.days
          PROVE  segment'[s] = last' /\ Line("segment", s, last') \in imports'
        <3>1. s = <<r.week, s[2]>>
            BY <2>4 DEF Slots
        <3> QED BY <1>3, <2>2, <2>4, <3>1 DEF Filled
    <2>5. ASSUME NEW s \in Slots, ~(s[1] = r.week /\ s[2] \in r.days)
          PROVE  segment'[s] \in {segment[s], Nothing} /\ s \notin {Slot(i) : i \in imports' \ imports}
        BY <1>3, <2>2, <2>5 DEF Filled, Slot
    <2> HIDE DEF r
    <2> QED BY <1>3, <2>1, <2>2, <2>3, <2>4, <2>5 DEF FillSegments, TypeOK
<1> QED BY <1>2, <1>3 DEF FillSegments

\* Gantts are stored with their lines, and the other days stay as they are.
LEMMA GanttsStored ==
  ASSUME TypeOK, NEW x \in Workers, StoreGantts(x)
  PROVE  /\ UNCHANGED <<report, segment>>
         /\ gantt' \in [Slots -> Stamps \cup {Nothing}]
         /\ imports \subseteq imports' /\ imports' \in SUBSET Imports
         /\ last' = last + 1 /\ last' \in Stamps
         /\ \A s \in Slots :
               gantt'[s] = gantt[s] \/ (gantt'[s] = last' /\ Line("gantt", s, last') \in imports')
         /\ \A i \in imports' \ imports : i.kind = "gantt" /\ i.at = last'
<1> DEFINE r == req[x]
           lines == Lines("gantt", last', r.week, r.days)
<1>1. r \in Requests /\ r.week \in Weeks /\ r.days \in SUBSET Days
    BY DEF StoreGantts, At, TypeOK, Requests
<1>2. last' = last + 1 /\ last' \in Stamps
    BY DEF StoreGantts, Stamp
<1>3. /\ lines \subseteq Imports
      /\ \A i \in lines : i.kind = "gantt" /\ i.at = last'
      /\ \A d \in r.days : Line("gantt", <<r.week, d>>, last') \in lines
    BY <1>1, <1>2, LinesTyped
<1>4. imports' = imports \cup lines
      /\ gantt' = [s \in Slots |-> IF s[1] = r.week /\ s[2] \in r.days THEN last' ELSE gantt[s]]
    BY DEF StoreGantts
<1> HIDE DEF lines, r
<1>5. gantt' \in [Slots -> Stamps \cup {Nothing}]
    BY <1>2, <1>4 DEF TypeOK
<1>6. ASSUME NEW s \in Slots
      PROVE  gantt'[s] = gantt[s] \/ (gantt'[s] = last' /\ Line("gantt", s, last') \in imports')
    <2>1. CASE s[1] = r.week /\ s[2] \in r.days
        <3>1. s = <<r.week, s[2]>>
            BY <2>1 DEF Slots
        <3> QED BY <1>3, <1>4, <2>1, <3>1
    <2> QED BY <1>4, <1>6, <2>1
<1> QED BY <1>2, <1>3, <1>4, <1>5, <1>6 DEF StoreGantts, TypeOK

(***************************************************************************)
(* Deleting                                                                *)
(***************************************************************************)
\* A delete takes out its own line, and at most the data of that line's day.
LEMMA Erased ==
  ASSUME TypeOK, NEW x \in Workers, Erase(x)
  PROVE  /\ UNCHANGED last /\ req[x].pc = "erase" /\ req[x].import \in Imports
         /\ Answer(x)
         /\ imports' = imports \ {req[x].import}
         /\ report' \in [Weeks -> Reports \cup {Nothing}]
         /\ segment' \in [Slots -> Marks] /\ gantt' \in [Slots -> Stamps \cup {Nothing}]
         /\ \A s \in Slots : segment'[s] \in {segment[s], Nothing} /\ gantt'[s] \in {gantt[s], Nothing}
         /\ \A s \in Slots :
               Erasing(x, "segment") /\ Slot(req[x].import) = s /\ segment[s] = req[x].import.at /\ ~req[x].newer
               => segment'[s] = Nothing
         /\ \A s \in Slots : Erasing(x, "gantt") /\ Slot(req[x].import) = s => gantt'[s] = Nothing
<1> DEFINE i == req[x].import
<1>1. req[x].pc = "erase" /\ i \in Imports
    BY DEF Erase, EraseReport, EraseSegment, EraseGantt, EraseFailed, Erasing, At, TypeOK
<1>2. /\ UNCHANGED last /\ Answer(x) /\ imports' = imports \ {i}
    BY DEF Erase, EraseReport, EraseSegment, EraseGantt, EraseFailed, DropImport
<1>3. CASE EraseReport(x)
    <2>1. i.kind = "mo" /\ UNCHANGED <<segment, gantt>>
        BY <1>3 DEF EraseReport, Erasing
    <2>2. i.week \in Weeks
        BY <1>1, <2>1, ImportsTyped
    <2>3. report' \in [Weeks -> Reports \cup {Nothing}]
        BY <1>3, <2>2 DEF EraseReport, TypeOK
    <2> QED BY <1>1, <1>2, <2>1, <2>3 DEF Erasing, TypeOK
<1>4. CASE EraseSegment(x)
    <2>1. i.kind = "segment" /\ UNCHANGED <<report, gantt>>
        BY <1>4 DEF EraseSegment, Erasing
    <2>2. Slot(i) \in Slots /\ i.at # Nothing
        BY <1>1, <2>1, ImportsTyped, NothingAssumption
    <2>3. segment' = IF ~req[x].newer /\ SameName(segment[Slot(i)], i)
                     THEN [segment EXCEPT ![Slot(i)] = Nothing] ELSE segment
        BY <1>4 DEF EraseSegment, Slot
    <2>4. segment' \in [Slots -> Marks] /\ \A s \in Slots : segment'[s] \in {segment[s], Nothing}
        BY <2>2, <2>3 DEF TypeOK, Marks
    <2>5. segment[Slot(i)] = i.at /\ ~req[x].newer => segment'[Slot(i)] = Nothing
        BY <2>2, <2>3 DEF SameName, TypeOK
    <2> QED BY <1>1, <1>2, <2>1, <2>4, <2>5 DEF Erasing, TypeOK
<1>5. CASE EraseGantt(x)
    <2>1. i.kind = "gantt" /\ UNCHANGED <<report, segment>>
        BY <1>5 DEF EraseGantt, Erasing
    <2>2. Slot(i) \in Slots
        BY <1>1, <2>1, ImportsTyped
    <2>3. gantt' = [gantt EXCEPT ![Slot(i)] = Nothing]
        BY <1>5 DEF EraseGantt, Slot
    <2>4. gantt' \in [Slots -> Stamps \cup {Nothing}] /\ gantt'[Slot(i)] = Nothing
          /\ \A s \in Slots : gantt'[s] \in {gantt[s], Nothing}
        BY <2>2, <2>3 DEF TypeOK
    <2> QED BY <1>1, <1>2, <2>1, <2>4 DEF Erasing, TypeOK
<1>6. CASE EraseFailed(x)
    BY <1>1, <1>2, <1>6 DEF EraseFailed, Erasing, TypeOK
<1> QED BY <1>3, <1>4, <1>5, <1>6 DEF Erase

LEMMA LegacyDeleted ==
  ASSUME TypeOK, NEW x \in Workers, NEW s \in Slots, DeleteLegacy(x, s)
  PROVE  /\ UNCHANGED <<report, gantt, imports, req, last>>
         /\ segment' \in [Slots -> Marks]
         /\ \A t \in Slots : segment'[t] \in {segment[t], Nothing}
BY DEF DeleteLegacy, TypeOK, Marks

(***************************************************************************)
(* The invariant                                                           *)
(***************************************************************************)
LEMMA TypeStep == TypeOK /\ [MissedNext]_missedVars => TypeOK'
<1> SUFFICES ASSUME TypeOK, [MissedNext]_missedVars PROVE TypeOK'
    OBVIOUS
<1>1. CASE UNCHANGED missedVars
    BY <1>1 DEF missedVars, TypeOK, At
<1>2. ASSUME NEW x \in Workers, Quiet(x) PROVE TypeOK'
    BY <1>2, Quieted DEF TypeOK, At
<1>3. ASSUME NEW x \in Workers, NEW i \in imports, BeginDelete(x, i) PROVE TypeOK'
    BY <1>3, DeleteBegun DEF TypeOK, At
<1>4. ASSUME NEW x \in Workers, StoreReport(x) PROVE TypeOK'
    BY <1>4, ReportStored, Answered DEF StoreReport, TypeOK, At
<1>5. ASSUME NEW x \in Workers, UnreadableReport(x) PROVE TypeOK'
    BY <1>5, ReportUnread DEF TypeOK, At
<1>6. ASSUME NEW x \in Workers, FillSegments(x) PROVE TypeOK'
    <2>1. last' \in Stamps \cup {0}
        BY <1>6, SegmentsFilled DEF TypeOK
    <2> QED BY <1>6, <2>1, SegmentsFilled, Answered DEF FillSegments, TypeOK, At
<1>7. ASSUME NEW x \in Workers, StoreGantts(x) PROVE TypeOK'
    BY <1>7, GanttsStored, Answered DEF StoreGantts, TypeOK, At
<1>8. ASSUME NEW x \in Workers, Erase(x) PROVE TypeOK'
    BY <1>8, Erased, Answered DEF TypeOK, At
<1>9. ASSUME NEW x \in Workers, NEW s \in Slots, DeleteLegacy(x, s) PROVE TypeOK'
    BY <1>9, LegacyDeleted DEF TypeOK, At
<1> QED BY <1>1, <1>2, <1>3, <1>4, <1>5, <1>6, <1>7, <1>8, <1>9 DEF MissedNext, Quiet, Upload, Store

LEMMA Initial == MissedInit => IInv
<1> SUFFICES ASSUME MissedInit PROVE IInv
    OBVIOUS
<1>1. TypeOK
    BY IdleTyped DEF MissedInit, TypeOK, Marks, At, Idle
<1>2. StampsPast /\ SegmentNewest /\ EraseInformed /\ SegmentListed /\ GanttListed
    BY StampAssumption, NothingAssumption DEF MissedInit, StampsPast, SegmentNewest, EraseInformed, SegmentListed,
       GanttListed, Erasing, At, Idle
<1> QED BY <1>1, <1>2 DEF IInv

\* Time only moves forward, and what is new is stamped with the new time.
LEMMA StampsKept ==
  ASSUME TypeOK, StampsPast, last' \in Nat, last' >= last,
         \A y \in Workers : At(y, "erase")' =>
           (At(y, "erase") /\ req'[y] = req[y]) \/ req'[y].import \in imports,
         \A y \in Workers : At(y, "report")' =>
           (At(y, "report") /\ req'[y] = req[y]) \/ req'[y].at = last',
         \A i \in imports' \ imports : i.at <= last',
         \A s \in Slots : segment'[s] \in {segment[s], Nothing, last'}
  PROVE  StampsPast'
<1>1. last \in Nat /\ Stamps \subseteq Nat /\ Nothing \notin Stamps
    BY StampAssumption, NothingAssumption DEF TypeOK
<1>2. \A n \in Nat : n <= last => n <= last'
    BY <1>1
<1>3. \A i \in Imports : i.at \in Nat
    BY <1>1, ImportsTyped
<1>4. ASSUME NEW i \in imports' PROVE i.at <= last'
    <2>1. CASE i \in imports
        BY <1>2, <1>3, <2>1 DEF TypeOK, StampsPast
    <2> QED BY <1>4, <2>1
<1>5. ASSUME NEW s \in Slots, segment'[s] \in Stamps PROVE segment'[s] <= last'
    <2>1. CASE segment'[s] = segment[s]
        BY <1>1, <1>2, <1>5, <2>1 DEF StampsPast
    <2>2. CASE segment'[s] = last'
        BY <2>2
    <2> QED BY <1>1, <1>5, <2>1, <2>2
<1>6. ASSUME NEW y \in Workers, At(y, "erase")' PROVE req'[y].import.at <= last'
    <2>1. CASE At(y, "erase") /\ req'[y] = req[y]
        BY <1>2, <1>3, <2>1 DEF TypeOK, StampsPast
    <2>2. CASE req'[y].import \in imports
        BY <1>2, <1>3, <2>2 DEF TypeOK, StampsPast
    <2> QED BY <1>6, <2>1, <2>2
<1>7. ASSUME NEW y \in Workers, At(y, "report")' PROVE req'[y].at <= last'
    <2>1. CASE At(y, "report") /\ req'[y] = req[y]
        BY <1>1, <1>2, <2>1 DEF TypeOK, StampsPast
    <2> QED BY <1>7, <2>1
<1> QED BY <1>4, <1>5, <1>6, <1>7 DEF StampsPast

\* Segments keep their newest import when none of their day is added and none
\* but their own day's segments change.
LEMMA Inductive == IInv /\ [MissedNext]_missedVars => IInv'
<1> SUFFICES ASSUME IInv, [MissedNext]_missedVars PROVE IInv'
    OBVIOUS
<1>0. TypeOK /\ TypeOK' /\ StampsPast
    BY TypeStep DEF IInv
<1>a. last \in Nat /\ last' \in Nat /\ Stamps \subseteq Nat /\ Nothing \notin Stamps /\ 0 \notin Stamps
    BY <1>0, StampAssumption, NothingAssumption DEF TypeOK
<1>b. \A i \in imports : i.at \in Nat /\ i.at \in Stamps /\ i \in Imports
    BY <1>0, <1>a, ImportsTyped DEF TypeOK
<1>c. \A n \in Nat : n + 1 >= n
    OBVIOUS
<1>1. CASE UNCHANGED missedVars
    BY <1>1 DEF missedVars, IInv, TypeOK, StampsPast, SegmentNewest, EraseInformed, SegmentListed, GanttListed, Erasing, At
<1>2. ASSUME NEW x \in Workers, Quiet(x) PROVE IInv'
    <2>1. UNCHANGED <<report, segment, gantt, imports>> /\ last' >= last /\ req'[x].pc # "erase"
          /\ (req'[x].pc = "report" => req'[x].at = last')
          /\ \A y \in Workers \ {x} : req'[y] = req[y]
        BY <1>0, <1>2, Quieted
    <2>2. \A y \in Workers : At(y, "erase")' => At(y, "erase") /\ req'[y] = req[y]
        BY <2>1 DEF At
    <2>3. \A y \in Workers : At(y, "report")' => (At(y, "report") /\ req'[y] = req[y]) \/ req'[y].at = last'
        BY <2>1 DEF At
    <2>4. StampsPast'
        BY <1>0, <1>a, <2>1, <2>2, <2>3, StampsKept
    <2>5. EraseInformed'
        BY <2>1, <2>2 DEF IInv, EraseInformed, Erasing
    <2>6. SegmentNewest' /\ SegmentListed' /\ GanttListed'
        BY <2>1 DEF IInv, SegmentNewest, SegmentListed, GanttListed
    <2> QED BY <1>0, <2>4, <2>5, <2>6 DEF IInv
<1>3. ASSUME NEW x \in Workers, NEW i \in imports, BeginDelete(x, i) PROVE IInv'
    <2>1. /\ UNCHANGED <<report, segment, gantt, imports, last>>
          /\ req'[x].pc = "erase" /\ req'[x].import = i /\ i \in Imports
          /\ req'[x].newer = (\E j \in imports : Sibling(i, j) /\ j.at > i.at)
          /\ \A y \in Workers \ {x} : req'[y] = req[y]
        BY <1>0, <1>3, DeleteBegun
    <2>2. StampsPast'
        BY <2>1 DEF IInv, StampsPast, At
    <2>3. ASSUME i.kind = "segment", segment[Slot(i)] = i.at, NEW j \in imports, Sibling(i, j), j.at > i.at
          PROVE  FALSE
        <3>1. Slot(i) \in Slots /\ Slot(j) = Slot(i) /\ j.kind = "segment"
            BY <2>1, <2>3, ImportsTyped DEF Sibling, Slot
        <3>2. j.at <= i.at
            BY <1>b, <2>3, <3>1 DEF IInv, SegmentNewest
        <3> QED BY <1>b, <2>3, <3>2
    <2>4. EraseInformed'
        BY <2>1, <2>3 DEF IInv, EraseInformed, Erasing, At
    <2>5. SegmentNewest' /\ SegmentListed' /\ GanttListed'
        BY <2>1 DEF IInv, SegmentNewest, SegmentListed, GanttListed
    <2> QED BY <1>0, <2>2, <2>4, <2>5 DEF IInv
<1>4. ASSUME NEW x \in Workers, StoreReport(x) \/ UnreadableReport(x) PROVE IInv'
    <2>1. UNCHANGED <<segment, gantt>> /\ imports \subseteq imports' /\ last' >= last
          /\ (\A i \in imports' \ imports : i.kind \in {"mo", "failed"} /\ i.at <= last')
          /\ \A y \in Workers : req'[y].pc = "idle" \/ req'[y] = req[y]
        <3>1. CASE StoreReport(x)
            <4>1. req[x].at <= last
                BY <1>0, <3>1 DEF StampsPast, StoreReport
            <4>2. \A y \in Workers : req'[y].pc = "idle" \/ req'[y] = req[y]
                BY <1>0, <3>1, Answered DEF StoreReport
            <4> QED BY <1>0, <1>a, <3>1, <4>1, <4>2, ReportStored
        <3>2. CASE UnreadableReport(x)
            <4>1. last' = last + 1 /\ UNCHANGED <<segment, gantt, req>> /\ imports \subseteq imports'
                  /\ \A i \in imports' \ imports : i.kind = "failed" /\ i.at = last'
                BY <1>0, <3>2, ReportUnread
            <4> QED BY <1>a, <4>1
        <3> QED BY <1>4, <3>1, <3>2
    <2>2. StampsPast'
        BY <1>0, <1>a, <2>1, StampsKept DEF At
    <2>3. EraseInformed'
        BY <2>1 DEF IInv, EraseInformed, Erasing, At
    <2>4. SegmentNewest' /\ SegmentListed' /\ GanttListed'
        BY <2>1 DEF IInv, SegmentNewest, SegmentListed, GanttListed
    <2> QED BY <1>0, <2>2, <2>3, <2>4 DEF IInv
<1>5. ASSUME NEW x \in Workers, FillSegments(x) PROVE IInv'
    <2>1. \A y \in Workers : req'[y].pc = "idle" \/ req'[y] = req[y]
        BY <1>0, <1>5, Answered DEF FillSegments
    <2>2. UNCHANGED <<report, gantt>> /\ imports \subseteq imports'
        BY <1>0, <1>5, SegmentsFilled
    <2>3. GanttListed'
        BY <2>2 DEF IInv, GanttListed
    <2>4. CASE UNCHANGED <<segment, imports, last>>
        <3>1. StampsPast' /\ EraseInformed'
            BY <2>1, <2>4 DEF IInv, StampsPast, EraseInformed, Erasing, At
        <3>2. SegmentNewest' /\ SegmentListed'
            BY <2>4 DEF IInv, SegmentNewest, SegmentListed
        <3> QED BY <1>0, <2>3, <3>1, <3>2 DEF IInv
    <2>5. CASE ~UNCHANGED <<segment, imports, last>>
        <3>1. /\ last' = last + 1 /\ last' \in Stamps
              /\ \A s \in Slots :
                    \/ segment'[s] = last' /\ Line("segment", s, last') \in imports'
                    \/ segment'[s] \in {segment[s], Nothing} /\ s \notin {Slot(i) : i \in imports' \ imports}
              /\ \A i \in imports' \ imports : i.kind = "segment" /\ i.at = last'
            BY <1>0, <1>5, <2>5, SegmentsFilled
        <3>2. last' > last /\ last' >= last
            BY <1>a, <3>1
        <3>3. StampsPast'
            BY <1>0, <1>a, <2>1, <3>1, <3>2, StampsKept DEF At
        <3>4. EraseInformed'
            <4>1. SUFFICES ASSUME NEW y \in Workers, Erasing(y, "segment")',
                                  segment'[Slot(req'[y].import)] = req'[y].import.at
                           PROVE  ~req'[y].newer
                BY DEF EraseInformed
            <4>2. req'[y] = req[y] /\ Erasing(y, "segment")
                BY <2>1, <4>1 DEF Erasing, At
            <4> DEFINE i == req[y].import
            <4>3. i \in Imports /\ Slot(i) \in Slots /\ i.at \in Stamps /\ i.at <= last
                BY <1>0, <4>2, ImportsTyped DEF TypeOK, StampsPast, Erasing
            <4>4. segment'[Slot(i)] # last' /\ segment'[Slot(i)] # Nothing
                BY <1>a, <3>2, <4>1, <4>2, <4>3
            <4>5. segment[Slot(i)] = i.at
                BY <3>1, <4>1, <4>2, <4>3, <4>4
            <4> QED BY <4>2, <4>5 DEF IInv, EraseInformed
        <3>5. SegmentListed'
            <4>1. ASSUME NEW s \in Slots, segment'[s] \in Stamps
                  PROVE  Line("segment", s, segment'[s]) \in imports'
                BY <1>a, <2>2, <3>1, <4>1 DEF IInv, SegmentListed
            <4> QED BY <4>1 DEF SegmentListed
        <3>6. SegmentNewest'
            <4>1. ASSUME NEW s \in Slots, NEW i \in imports', segment'[s] \in Stamps,
                         i.kind = "segment", Slot(i) = s
                  PROVE  i.at <= segment'[s]
                <5>1. i.at <= last'
                    BY <3>3 DEF StampsPast
                <5>2. CASE segment'[s] = last'
                    BY <5>1, <5>2
                <5>3. CASE segment'[s] # last'
                    <6>1. segment'[s] = segment[s] /\ i \in imports
                        BY <1>a, <3>1, <4>1, <5>3
                    <6> QED BY <4>1, <6>1 DEF IInv, SegmentNewest
                <5> QED BY <5>2, <5>3
            <4> QED BY <4>1 DEF SegmentNewest
        <3> QED BY <1>0, <2>3, <3>3, <3>4, <3>5, <3>6 DEF IInv
    <2> QED BY <2>4, <2>5
<1>6. ASSUME NEW x \in Workers, StoreGantts(x) PROVE IInv'
    <2>1. \A y \in Workers : req'[y].pc = "idle" \/ req'[y] = req[y]
        BY <1>0, <1>6, Answered DEF StoreGantts
    <2>2. /\ UNCHANGED segment /\ imports \subseteq imports' /\ last' = last + 1
          /\ \A s \in Slots :
                gantt'[s] = gantt[s] \/ (gantt'[s] = last' /\ Line("gantt", s, last') \in imports')
          /\ \A i \in imports' \ imports : i.kind = "gantt" /\ i.at = last'
        BY <1>0, <1>6, GanttsStored
    <2>3. last' >= last /\ last' <= last'
        BY <1>a, <2>2
    <2>4. StampsPast'
        BY <1>0, <1>a, <2>1, <2>2, <2>3, StampsKept DEF At
    <2>5. EraseInformed'
        BY <2>1, <2>2 DEF IInv, EraseInformed, Erasing, At
    <2>6. SegmentNewest' /\ SegmentListed'
        BY <2>2 DEF IInv, SegmentNewest, SegmentListed
    <2>7. GanttListed'
        BY <2>2 DEF IInv, GanttListed
    <2> QED BY <1>0, <2>4, <2>5, <2>6, <2>7 DEF IInv
<1>7. ASSUME NEW x \in Workers, Erase(x) PROVE IInv'
    <2> DEFINE i == req[x].import
    <2>1. /\ UNCHANGED last /\ req[x].pc = "erase" /\ i \in Imports
          /\ imports' = imports \ {i}
          /\ \A s \in Slots : segment'[s] \in {segment[s], Nothing} /\ gantt'[s] \in {gantt[s], Nothing}
          /\ \A s \in Slots :
               Erasing(x, "segment") /\ Slot(i) = s /\ segment[s] = i.at /\ ~req[x].newer => segment'[s] = Nothing
          /\ \A s \in Slots : Erasing(x, "gantt") /\ Slot(i) = s => gantt'[s] = Nothing
        BY <1>0, <1>7, Erased
    <2>2. \A y \in Workers : req'[y].pc = "idle" \/ req'[y] = req[y]
        BY <1>0, <1>7, Erased, Answered
    <2>3. StampsPast'
        BY <1>0, <1>a, <2>1, <2>2, StampsKept DEF At
    <2>4. EraseInformed'
        <3>1. ASSUME NEW y \in Workers, Erasing(y, "segment")',
                     segment'[Slot(req'[y].import)] = req'[y].import.at
              PROVE  ~req'[y].newer
            <4>1. req'[y] = req[y] /\ Erasing(y, "segment")
                BY <2>2, <3>1 DEF Erasing, At
            <4>2. req[y].import \in Imports /\ Slot(req[y].import) \in Slots /\ req[y].import.at # Nothing
                BY <1>0, <1>a, <4>1, ImportsTyped DEF TypeOK, Erasing
            <4>3. segment[Slot(req[y].import)] = req[y].import.at
                BY <2>1, <3>1, <4>1, <4>2
            <4> QED BY <4>1, <4>3 DEF IInv, EraseInformed
        <3> QED BY <3>1 DEF EraseInformed
    <2>5. SegmentNewest'
        BY <1>a, <2>1 DEF IInv, SegmentNewest
    <2>6. SegmentListed'
        <3>1. ASSUME NEW s \in Slots, segment'[s] \in Stamps, Line("segment", s, segment'[s]) = i
              PROVE  FALSE
            <4>1. i.kind = "segment" /\ i.at = segment'[s] /\ segment'[s] = segment[s]
                BY <1>a, <2>1, <3>1 DEF Line
            <4>2. Slot(i) = s
                BY <3>1 DEF Line, Slot, Slots
            <4>3. Erasing(x, "segment")
                BY <2>1, <4>1 DEF Erasing, At
            <4>4. ~req[x].newer
                BY <4>1, <4>2, <4>3 DEF IInv, EraseInformed
            <4> QED BY <1>a, <2>1, <3>1, <4>1, <4>2, <4>3, <4>4
        <3>2. ASSUME NEW s \in Slots, segment'[s] \in Stamps
              PROVE  Line("segment", s, segment'[s]) \in imports'
            BY <1>a, <2>1, <3>1, <3>2 DEF IInv, SegmentListed
        <3> QED BY <3>2 DEF SegmentListed
    <2>7. GanttListed'
        <3>1. ASSUME NEW s \in Slots, gantt'[s] # Nothing, Line("gantt", s, gantt'[s]) = i
              PROVE  FALSE
            <4>1. i.kind = "gantt" /\ Slot(i) = s
                BY <3>1 DEF Line, Slot, Slots
            <4> QED BY <2>1, <3>1, <4>1 DEF Erasing, At
        <3>2. ASSUME NEW s \in Slots, gantt'[s] # Nothing
              PROVE  Line("gantt", s, gantt'[s]) \in imports'
            BY <2>1, <3>1, <3>2 DEF IInv, GanttListed
        <3> QED BY <3>2 DEF GanttListed
    <2> QED BY <1>0, <2>3, <2>4, <2>5, <2>6, <2>7 DEF IInv
<1>8. ASSUME NEW x \in Workers, NEW s \in Slots, DeleteLegacy(x, s) PROVE IInv'
    <2>1. /\ UNCHANGED <<report, gantt, imports, req, last>>
          /\ \A t \in Slots : segment'[t] \in {segment[t], Nothing}
        BY <1>0, <1>8, LegacyDeleted
    <2>2. StampsPast' /\ SegmentNewest' /\ SegmentListed' /\ GanttListed'
        BY <1>a, <2>1 DEF IInv, StampsPast, SegmentNewest, SegmentListed, GanttListed, At
    <2>3. EraseInformed'
        <3>1. ASSUME NEW y \in Workers, Erasing(y, "segment") PROVE
                Slot(req[y].import) \in Slots /\ req[y].import.at # Nothing
            BY <1>0, <1>a, <3>1, ImportsTyped DEF TypeOK, Erasing
        <3> QED BY <2>1, <3>1 DEF IInv, EraseInformed, Erasing, At
    <2> QED BY <1>0, <2>2, <2>3 DEF IInv
<1> QED BY <1>1, <1>2, <1>3, <1>4, <1>5, <1>6, <1>7, <1>8 DEF MissedNext, Quiet, Upload, Store

THEOREM Invariance == MissedSpec => []IInv
<1> QED BY Initial, Inductive, PTL DEF MissedSpec

\* Every reachable state is well typed.
THEOREM TypeCorrect == MissedSpec => []TypeOK
<1>1. IInv => TypeOK
    BY DEF IInv
<1> QED BY <1>1, Invariance, PTL

\* What is stored of segments and Gantts is always listed in the history that
\* can delete it.
THEOREM DataCanBeDeleted == MissedSpec => []DataListed
<1>1. IInv => DataListed
    BY DEF IInv, DataListed
<1> QED BY <1>1, Invariance, PTL

(***************************************************************************)
(* Whose data a delete removes                                             *)
(***************************************************************************)
\* No two uploads have a file name in common.
DistinctNames == \A t, u \in Stamps \cup {0} : Name[t] = Name[u] => t = u

\* When files have names of their own, a delete of an MO report or of segments
\* removes nothing that another upload stored.
THEOREM DeletesRemoveTheirOwn ==
  ASSUME DistinctNames
  PROVE  MissedSpec => OwnDataErased
<1> DEFINE Own == \A x \in Workers :
             /\ Ends(x, "mo") => \A w \in Weeks :
                  report'[w] = report[w] \/ report[w].at = req[x].import.at
             /\ Ends(x, "segment") => \A s \in Slots :
                  segment'[s] = segment[s] \/ segment[s] = req[x].import.at
<1>1. ASSUME TypeOK, [MissedNext]_missedVars PROVE Own
    <2> SUFFICES ASSUME NEW x \in Workers, At(x, "erase"), At(x, "idle")'
                 PROVE  /\ Erasing(x, "mo") => \A w \in Weeks :
                             report'[w] = report[w] \/ report[w].at = req[x].import.at
                        /\ Erasing(x, "segment") => \A s \in Slots :
                             segment'[s] = segment[s] \/ segment[s] = req[x].import.at
        BY DEF Ends, Erasing
    <2> DEFINE i == req[x].import
    <2>1. i \in Imports /\ req'[x] # req[x]
        BY <1>1 DEF TypeOK, At
    <2>2. CASE UNCHANGED <<report, segment>>
        BY <2>2
    <2>3. ASSUME NEW y \in Workers, StoreReport(y) \/ FillSegments(y) PROVE FALSE
        <3>1. req[y].pc # "erase" /\ \A z \in Workers \ {y} : req'[z] = req[z]
            BY <1>1, <2>3, Answered DEF StoreReport, FillSegments, At
        <3> QED BY <2>1, <3>1 DEF At
    <2>4. ASSUME NEW y \in Workers, UnreadableReport(y) \/ \E s \in Slots : DeleteLegacy(y, s) PROVE FALSE
        BY <2>1, <2>4 DEF UnreadableReport, DeleteLegacy
    <2>5. CASE EraseReport(x)
        <3>1. i.kind = "mo" /\ i.at \in Stamps /\ UNCHANGED segment
            BY <2>1, <2>5, ImportsTyped DEF EraseReport, Erasing
        <3>2. ASSUME NEW w \in Weeks, report'[w] # report[w] PROVE report[w].at = i.at
            <4>1. report[w] # Nothing /\ SameName(report[w].at, i)
                BY <1>1, <2>5, <3>2 DEF EraseReport, TypeOK
            <4>2. report[w].at \in Stamps
                BY <1>1, <4>1 DEF TypeOK, Reports
            <4> QED BY <3>1, <4>1, <4>2 DEF SameName, DistinctNames
        <3> QED BY <3>1, <3>2 DEF Erasing
    <2>6. CASE EraseSegment(x)
        <3>1. i.kind = "segment" /\ i.at \in Stamps /\ UNCHANGED report
            BY <2>1, <2>6, ImportsTyped DEF EraseSegment, Erasing
        <3>2. ASSUME NEW s \in Slots, segment'[s] # segment[s] PROVE segment[s] = i.at
            <4>1. SameName(segment[s], i)
                BY <1>1, <2>6, <3>2 DEF EraseSegment, TypeOK
            <4>2. segment[s] \in Stamps \cup {0}
                BY <1>1, <4>1 DEF TypeOK, Marks, SameName
            <4> QED BY <3>1, <4>1, <4>2 DEF SameName, DistinctNames
        <3> QED BY <3>1, <3>2 DEF Erasing
    <2>7. ASSUME NEW y \in Workers, Erase(y) PROVE y = x \/ UNCHANGED <<report, segment>>
        <3>1. \A z \in Workers \ {y} : req'[z] = req[z]
            BY <1>1, <2>7, Erased, Answered
        <3> QED BY <2>1, <3>1
    <2>8. Erase(x) => EraseReport(x) \/ EraseSegment(x) \/ UNCHANGED <<report, segment>>
        BY DEF Erase, EraseGantt, EraseFailed
    <2>9. ASSUME NEW y \in Workers, Quiet(y) \/ StoreGantts(y) \/ \E j \in imports : BeginDelete(y, j)
          PROVE  UNCHANGED <<report, segment>>
        BY <1>1, <2>9, Quieted DEF StoreGantts, BeginDelete
    <2> QED BY <1>1, <2>2, <2>3, <2>4, <2>5, <2>6, <2>7, <2>8, <2>9 DEF MissedNext, Upload, Store, Quiet, missedVars
<1>2. Own => [Own]_missedVars
    OBVIOUS
<1> HIDE DEF Own
<1>3. MissedSpec => [][Own]_missedVars
    BY <1>1, <1>2, TypeCorrect, PTL DEF MissedSpec
<1> QED BY <1>3 DEF OwnDataErased, Own
=============================================================================
