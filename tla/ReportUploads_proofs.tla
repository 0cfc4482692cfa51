------------------------ MODULE ReportUploads_proofs ------------------------
(***************************************************************************)
(* Proofs about ReportUploads, for any number of workers and uploads, any  *)
(* documents and any fiscal calendar.                                      *)
(***************************************************************************)
EXTENDS ReportUploads, TLAPS

\* A worker that has stored a file has that upload to itself; everybody else
\* works on an upload that has had a row.
InsertAlone ==
  /\ \A w \in Workers : At(w, "insert") => row[Of(w)] = "new"
  /\ \A w, x \in Workers : At(w, "insert") /\ At(x, "insert") /\ Of(w) = Of(x) => w = x
  /\ \A w \in Workers : ~At(w, "insert") /\ ~At(w, "idle") => row[Of(w)] # "new"

\* It has its file, unless that was taken.
InsertHasFile == \A w \in Workers : At(w, "insert") => HasFile(Of(w)) \/ FileLost(Of(w))

\* Between storing the figures and marking the upload parsed, the figures stay
\* unless the upload goes.
MarkAfterStore ==
  \A w \in Workers : At(w, "mark") /\ Exists(Of(w)) => summary[Of(w)] # NoSummary

\* A delete that has got past the file has removed it.
Unlinked == \A w \in Workers : req[w].pc \in {"collect", "drop"} => ~HasFile(Of(w))

\* The figures a request is about to store are of its upload, unless that has
\* lost its file.
FiguresInHand ==
  \A w \in Workers : req[w].pc \in {"store", "refresh"} /\ Exists(Of(w)) =>
    req[w].of = Of(w) \/ FileLost(Of(w))

IInv ==
  /\ TypeOK
  /\ InsertAlone
  /\ InsertHasFile
  /\ Unlinked
  /\ SummaryHasUpload
  /\ MarkAfterStore
  /\ ParsedHasSummary
  /\ PendingExplained
  /\ OrphanFileExplained
  /\ FilesInPlace
  /\ MissingFileExplained
  /\ FiguresInHand
  /\ FiguresAreOwn

\* Every week the parser can compute, and the request of an idle worker, are of
\* their kinds.
LEMMA WellTyped ==
  /\ Idle \in Requests
  /\ \A s \in Starts, u \in Uploads : WeekOf[s][Period(u)] \in Weeks
  /\ \A u \in Uploads : Kind(u) \in Kinds /\ Document[u].name \in Names
BY DocumentAssumption DEF Idle, Requests, Pcs, Weeks, Documents, Period, Kind

\* Requests that open a page or start a delete.
Opens(w, u) == OpenDetail(w, u) \/ OpenReport(w, u) \/ BeginDelete(w, u)

\* They find an existing upload and change nothing but the worker.
LEMMA Opened ==
  ASSUME TypeOK, SummaryHasUpload, NEW w \in Workers, NEW u \in Uploads, Opens(w, u)
  PROVE  /\ Exists(u)
         /\ UNCHANGED <<row, files, summary, start, disturbed>>
         /\ req[w].pc = "idle"
         /\ req'[w].pc \in {"parse", "show", "unlink"}
         /\ req'[w].upload = u
         /\ \A x \in Workers \ {w} : req'[x] = req[x]
         /\ req' \in [Workers -> Requests]
<1>1. /\ Exists(u)
      /\ UNCHANGED <<row, files, summary, start, disturbed>>
      /\ \E next \in {"parse", "show", "unlink"}, view \in BOOLEAN : Accept(w, u, next, view)
    BY DEF Opens, OpenDetail, OpenReport, BeginDelete, SummaryHasUpload
<1>2. PICK next \in {"parse", "show", "unlink"}, view \in BOOLEAN : Accept(w, u, next, view)
    BY <1>1
<1>3. [Idle EXCEPT !.pc = next, !.upload = u, !.view = view] \in Requests
    BY WellTyped DEF Idle, Requests, Pcs
<1> QED BY <1>1, <1>2, <1>3 DEF Accept, At, TypeOK, Idle

\* What showing a page reads, and what it takes along to store.
LEMMA Shown ==
  ASSUME TypeOK, NEW w \in Workers, Show(w)
  PROVE  /\ UNCHANGED <<row, files, summary, start, disturbed>>
         /\ req[w].pc = "show"
         /\ \A x \in Workers \ {w} : req'[x] = req[x]
         /\ req' \in [Workers -> Requests]
         /\ \/ req'[w] = Idle
            \/ /\ req'[w].pc = "refresh" /\ req'[w].upload = req[w].upload /\ req'[w].week \in Weeks
               /\ summary[Of(w)] # NoSummary /\ req'[w].of = summary[Of(w)].of /\ req'[w].of \in Uploads
<1> DEFINE u == Of(w)
           pdf == summary[u].of
           week == WeekOf[start][Period(pdf)]
           refreshed(d) == [req EXCEPT ![w].pc = "refresh", ![w].of = pdf, ![w].dpt = d, ![w].week = week]
<1>1. req[w] \in Requests /\ req[w].pc = "show" /\ u \in Uploads /\ start \in Starts
    BY DEF Show, TypeOK, At
<1>2. UNCHANGED <<row, files, summary, start, disturbed>>
    BY DEF Show
<1>3. CASE Answer(w)
    BY <1>1, <1>2, <1>3, WellTyped DEF Answer, TypeOK
<1>4. CASE /\ summary[u] # NoSummary
           /\ \E d \in IF Kind(u) = "gift_cards" THEN WeeklyDpts(Period(pdf)) ELSE {NoDpt} : req' = refreshed(d)
    <2>1. PICK d \in IF Kind(u) = "gift_cards" THEN WeeklyDpts(Period(pdf)) ELSE {NoDpt} : req' = refreshed(d)
        BY <1>4
    <2>2. \A v \in Uploads : summary[v] # NoSummary => summary[v].of \in Uploads
        BY DEF TypeOK, Summaries
    <2>3. \A v \in WeeklyFor(Period(pdf)) : Document[summary[v].of].dpt \in Dpts
        BY <2>2, DocumentAssumption DEF Documents, WeeklyFor
    <2>4. d \in Dpts \cup {NoDpt}
        BY <2>1, <2>3 DEF WeeklyDpts
    <2>5. pdf \in Uploads /\ week \in Weeks
        BY <1>1, <1>4, <2>2, WellTyped
    <2> HIDE DEF u, pdf, week
    <2>6. /\ req'[w] = [req[w] EXCEPT !.pc = "refresh", !.of = pdf, !.dpt = d, !.week = week]
          /\ \A x \in Workers \ {w} : req'[x] = req[x]
          /\ req' \in [Workers -> Requests]
        BY <2>1, <2>4, <2>5, <1>1 DEF TypeOK, Requests, Pcs
    <2>7. /\ req'[w].pc = "refresh" /\ req'[w].upload = req[w].upload
          /\ req'[w].week = week /\ req'[w].of = pdf
        BY <2>6, <1>1 DEF Requests
    <2> QED BY <1>1, <1>2, <1>4, <2>5, <2>6, <2>7 DEF u, pdf
<1> QED BY <1>3, <1>4 DEF Show

\* update_or_create stores a well-formed summary of an existing upload.
LEMMA Stored ==
  ASSUME TypeOK, NEW w \in Workers, StoreSummary(w)
  PROVE  /\ UNCHANGED <<row, files, start, disturbed>>
         /\ req[w].pc = "store"
         /\ req' \in [Workers -> Requests]
         /\ \A x \in Workers \ {w} : req'[x] = req[x]
         /\ req'[w].upload = req[w].upload
         /\ \/ summary' = summary /\ req'[w].pc = "fail"
            \/ /\ req'[w].pc = "mark" /\ Exists(Of(w))
               /\ \A v \in Uploads \ {Of(w)} : summary'[v] = summary[v]
               /\ summary'[Of(w)] \in Summaries /\ summary'[Of(w)].of = req[w].of
         /\ summary' \in [Uploads -> Summaries \cup {NoSummary}]
<1>1. req[w] \in Requests /\ req[w].pc = "store" /\ Of(w) \in Uploads /\ req[w].week \in Weeks /\ req[w].of \in Uploads
    BY DEF StoreSummary, TypeOK, At
<1>2. [of |-> req[w].of, week |-> req[w].week, dpt |-> NoDpt, old |-> FALSE] \in Summaries
    BY <1>1 DEF Summaries
<1>3. \A pc \in Pcs : Goto(w, pc) =>
        /\ req' \in [Workers -> Requests] /\ req'[w].pc = pc
        /\ req'[w].upload = req[w].upload
        /\ \A x \in Workers \ {w} : req'[x] = req[x]
    BY <1>1 DEF Goto, TypeOK, Requests
<1>4. "mark" \in Pcs /\ "fail" \in Pcs
    BY DEF Pcs
<1>5. CASE CanStore(Of(w), req[w].week)
    <2>1. Exists(Of(w)) /\ Goto(w, "mark")
        BY <1>5 DEF StoreSummary, CanStore
    <2>2. /\ summary'[Of(w)] = [of |-> req[w].of, week |-> req[w].week, dpt |-> NoDpt, old |-> FALSE]
          /\ \A v \in Uploads \ {Of(w)} : summary'[v] = summary[v]
          /\ summary' \in [Uploads -> Summaries \cup {NoSummary}]
        BY <1>1, <1>2, <1>5 DEF StoreSummary, Store, TypeOK
    <2> QED BY <1>1, <1>2, <1>3, <1>4, <2>1, <2>2 DEF StoreSummary
<1>6. CASE ~CanStore(Of(w), req[w].week)
    BY <1>1, <1>3, <1>4, <1>6 DEF StoreSummary, TypeOK
<1> QED BY <1>5, <1>6

\* The same of a refresh, which may fail.
LEMMA Refreshed ==
  ASSUME TypeOK, NEW w \in Workers, StoreRefresh(w)
  PROVE  /\ UNCHANGED <<row, files, start>>
         /\ req[w].pc = "refresh"
         /\ req'[w] = Idle /\ req' \in [Workers -> Requests]
         /\ \A x \in Workers \ {w} : req'[x] = req[x]
         /\ disturbed \subseteq disturbed' /\ disturbed' \in SUBSET Uploads
         /\ \/ summary' = summary
            \/ /\ Exists(Of(w))
               /\ \A v \in Uploads \ {Of(w)} : summary'[v] = summary[v]
               /\ summary'[Of(w)] \in Summaries /\ summary'[Of(w)].of = req[w].of
         /\ summary' \in [Uploads -> Summaries \cup {NoSummary}]
<1>1. req[w] \in Requests /\ req[w].pc = "refresh" /\ Of(w) \in Uploads /\ req[w].week \in Weeks /\ req[w].of \in Uploads
    BY DEF StoreRefresh, TypeOK, At
<1>2. [of |-> req[w].of, week |-> req[w].week, dpt |-> req[w].dpt, old |-> FALSE] \in Summaries
    BY <1>1 DEF Summaries, Requests
<1>3. /\ req'[w] = Idle /\ req' \in [Workers -> Requests]
      /\ \A x \in Workers \ {w} : req'[x] = req[x]
    BY <1>1, WellTyped DEF StoreRefresh, Answer, TypeOK
<1>4. CASE CanStore(Of(w), req[w].week)
    <2>1. Exists(Of(w))
        BY <1>4 DEF CanStore
    <2>2. /\ summary'[Of(w)] = [of |-> req[w].of, week |-> req[w].week, dpt |-> req[w].dpt, old |-> FALSE]
          /\ \A v \in Uploads \ {Of(w)} : summary'[v] = summary[v]
          /\ summary' \in [Uploads -> Summaries \cup {NoSummary}]
        BY <1>1, <1>2, <1>4 DEF StoreRefresh, Store, TypeOK
    <2>3. disturbed' = disturbed /\ disturbed \in SUBSET Uploads
        BY <1>4 DEF StoreRefresh, TypeOK
    <2> QED BY <1>1, <1>2, <1>3, <2>1, <2>2, <2>3 DEF StoreRefresh
<1>5. CASE ~CanStore(Of(w), req[w].week)
    BY <1>1, <1>3, <1>5 DEF StoreRefresh, TypeOK
<1> QED BY <1>4, <1>5

\* The two ways a parse ends.
Marks(w) == MarkParsed(w) \/ MarkFailed(w)

\* They settle an upload that exists and insert none.
LEMMA Marked ==
  ASSUME TypeOK, NEW w \in Workers, Marks(w)
  PROVE  /\ UNCHANGED <<files, summary, start, disturbed>>
         /\ req[w].pc \in {"mark", "fail"}
         /\ \A x \in Workers \ {w} : req'[x] = req[x]
         /\ req' \in [Workers -> Requests]
         /\ \/ req'[w] = Idle
            \/ req'[w].pc \in {"show", "fail"} /\ req'[w].upload = req[w].upload
         /\ \/ ~Exists(Of(w)) /\ row' = row
            \/ /\ Exists(Of(w))
               /\ row'[Of(w)] = IF req[w].pc = "mark" THEN "parsed" ELSE "failed"
               /\ \A v \in Uploads \ {Of(w)} : row'[v] = row[v]
         /\ row' \in [Uploads -> {"new", "pending", "parsed", "failed", "gone"}]
<1>1. req[w] \in Requests /\ req[w].pc \in {"mark", "fail"} /\ Of(w) \in Uploads
    BY DEF Marks, MarkParsed, MarkFailed, TypeOK, At
<1>2. Goto(w, "show") \/ Goto(w, "fail") \/ Answer(w)
    BY DEF Marks, MarkParsed, MarkFailed, AfterParse
<1>3. /\ \A x \in Workers \ {w} : req'[x] = req[x]
      /\ req' \in [Workers -> Requests]
      /\ \/ req'[w] = Idle
         \/ req'[w].pc \in {"show", "fail"} /\ req'[w].upload = req[w].upload
    <2>1. CASE Goto(w, "show") \/ Goto(w, "fail")
        BY <1>1, <2>1 DEF Goto, TypeOK, Requests, Pcs
    <2>2. CASE Answer(w)
        BY <1>1, <2>2, WellTyped DEF Answer, TypeOK
    <2> QED BY <1>2, <2>1, <2>2
<1>4. /\ \/ ~Exists(Of(w)) /\ row' = row
         \/ /\ Exists(Of(w))
            /\ row'[Of(w)] = IF req[w].pc = "mark" THEN "parsed" ELSE "failed"
            /\ \A v \in Uploads \ {Of(w)} : row'[v] = row[v]
      /\ row' \in [Uploads -> {"new", "pending", "parsed", "failed", "gone"}]
    BY <1>1 DEF Marks, MarkParsed, MarkFailed, At, TypeOK
<1>5. UNCHANGED <<files, summary, start, disturbed>>
    BY DEF Marks, MarkParsed, MarkFailed
<1> QED BY <1>1, <1>3, <1>4, <1>5

\* As long as the files stay, so does who has one.
LEMMA SameFiles ==
  UNCHANGED files => \A u \in Uploads : Path(u)' = Path(u) /\ (HasFile(u)' <=> HasFile(u))
BY DEF files, Path, HasFile, Kind

\* A file stored for an upload is its own, at a path that was free.
LEMMA FileStored ==
  ASSUME TypeOK, OrphanFileExplained, FilesInPlace, NEW w \in Workers, NEW u \in Uploads, StoreFile(w, u)
  PROVE  /\ UNCHANGED <<row, summary, start, disturbed, taken>>
         /\ row[u] = "new" /\ HasFile(u)' /\ \A x \in Workers : Of(x) # u
         /\ \A v \in Uploads \ {u} : Path(v)' = Path(v) /\ (HasFile(v)' <=> HasFile(v))
         /\ FilesInPlace'
         /\ \A p \in Paths : media'[p] \in {media[p], u}
         /\ req[w].pc = "idle" /\ req'[w].pc = "insert" /\ req'[w].upload = u
         /\ \A x \in Workers \ {w} : req'[x] = req[x]
         /\ req' \in [Workers -> Requests]
         /\ name' \in [Uploads -> Names] /\ media' \in [Paths -> Uploads \cup {NoUpload}]
<1>1. PICK n \in Names : /\ media[<<Kind(u), n>>] = NoUpload
                        /\ name' = [name EXCEPT ![u] = n] /\ media' = [media EXCEPT ![<<Kind(u), n>>] = u]
    BY DEF StoreFile, Named, Free
<1>2. PICK p \in Paths : p = <<Kind(u), n>>
    BY WellTyped DEF Paths
<1>3. \A v \in Uploads : name[v] \in Names /\ Path(v) = <<Kind(v), name[v]>> /\ Path(v)' = <<Kind(v), name'[v]>>
    BY DEF TypeOK, Path, Kind
<1>4. Path(u)' = p /\ \A v \in Uploads \ {u} : Path(v)' = Path(v)
    BY <1>1, <1>2, <1>3 DEF TypeOK
<1>5. media[p] = NoUpload /\ media'[p] = u /\ \A q \in Paths \ {p} : media'[q] = media[q]
    BY <1>1, <1>2 DEF TypeOK
<1>6. \A v \in Uploads : Path(v) \in Paths /\ (HasFile(v) <=> media[Path(v)] = v)
                         /\ (HasFile(v)' <=> media'[Path(v)'] = v)
    BY <1>3, WellTyped DEF Paths, HasFile
<1>7. u # NoUpload /\ \A v \in Uploads : v # NoUpload
    BY ValueAssumption
<1>8. HasFile(u)' /\ \A v \in Uploads \ {u} : HasFile(v)' <=> HasFile(v)
    BY <1>4, <1>5, <1>6, <1>7
<1>9. row[u] = "new" /\ u \notin disturbed /\ \A x \in Workers : Of(x) # u
    BY DEF StoreFile
<1>10. \A q \in Paths : media[q] # u
    BY <1>7, <1>9 DEF OrphanFileExplained, Free, Working, Exists
<1>11. FilesInPlace'
    <2>1. ASSUME NEW q \in Paths, NEW v \in Uploads, media'[q] = v
          PROVE  Path(v)' = q
        <3>1. media[q] = v => Path(v) = q
            BY <1>7 DEF FilesInPlace, Free
        <3> QED BY <1>4, <1>5, <1>10, <2>1, <3>1
    <2>2. \A q \in Paths : media'[q] # NoUpload => media'[q] \in Uploads
        BY <1>5 DEF TypeOK
    <2> QED BY <2>1, <2>2 DEF FilesInPlace, Free, Path
<1>12. /\ req[w].pc = "idle" /\ req'[w].pc = "insert" /\ req'[w].upload = u
       /\ \A x \in Workers \ {w} : req'[x] = req[x]
       /\ req' \in [Workers -> Requests]
    BY WellTyped DEF StoreFile, Accept, At, TypeOK, Requests, Pcs, Idle
<1>13. UNCHANGED <<row, summary, start, disturbed, taken>>
    BY DEF StoreFile
<1>14. name' \in [Uploads -> Names] /\ media' \in [Paths -> Uploads \cup {NoUpload}]
    BY <1>1 DEF TypeOK
<1>15. \A q \in Paths : media'[q] \in {media[q], u}
    BY <1>5
<1> QED BY <1>4, <1>8, <1>9, <1>11, <1>12, <1>13, <1>14, <1>15

\* A delete takes the file at its path away, and whose it was is known.
LEMMA FileRemoved ==
  ASSUME TypeOK, FilesInPlace, NEW w \in Workers, Unlink(w)
  PROVE  /\ UNCHANGED <<row, summary, start, disturbed>>
         /\ req[w].pc = "unlink" /\ req'[w].pc = "collect" /\ req'[w].upload = req[w].upload
         /\ \A x \in Workers \ {w} : req'[x] = req[x]
         /\ req' \in [Workers -> Requests]
         /\ taken \subseteq taken' /\ taken' \in SUBSET Uploads
         /\ name' = name /\ media' \in [Paths -> Uploads \cup {NoUpload}]
         /\ \A p \in Paths : media'[p] \in {media[p], NoUpload}
         /\ \A v \in Uploads : /\ v = Of(w) => ~HasFile(v)'
                               /\ HasFile(v)' => HasFile(v)
                               /\ HasFile(v) => HasFile(v)' \/ v = Of(w) \/ v \in taken'
         /\ FilesInPlace'
<1>1. PICK u, p : u = Of(w) /\ p = Path(u)
    OBVIOUS
<1>2. u \in Uploads /\ req[w].pc = "unlink" /\ req[w] \in Requests
    BY <1>1 DEF Unlink, TypeOK, At
<1>3. /\ name' = name /\ media' = [media EXCEPT ![p] = NoUpload]
      /\ taken' = taken \cup ({media[p]} \ {u, NoUpload})
      /\ UNCHANGED <<row, summary, start, disturbed>>
    BY <1>1 DEF Unlink
<1>4. \A v \in Uploads : /\ Path(v)' = Path(v) /\ Path(v) \in Paths
                         /\ (HasFile(v) <=> media[Path(v)] = v) /\ (HasFile(v)' <=> media'[Path(v)] = v)
    BY <1>3, WellTyped DEF Path, Paths, Kind, HasFile, TypeOK
<1>5. p \in Paths /\ media'[p] = NoUpload /\ \A q \in Paths \ {p} : media'[q] = media[q]
    BY <1>1, <1>2, <1>3, <1>4 DEF TypeOK
<1>6. \A v \in Uploads : v # NoUpload
    BY ValueAssumption
<1>7. ~HasFile(u)'
    BY <1>1, <1>2, <1>4, <1>5, <1>6
<1>8. \A v \in Uploads : /\ v = u => ~HasFile(v)'
                         /\ HasFile(v)' => HasFile(v)
                         /\ HasFile(v) => HasFile(v)' \/ v = u \/ v \in taken'
    BY <1>3, <1>4, <1>5, <1>6, <1>7
<1>9. FilesInPlace'
    <2>1. ASSUME NEW q \in Paths, NEW v \in Uploads, media'[q] = v
          PROVE  Path(v)' = q
        <3>1. media[q] = v
            BY <1>5, <1>6, <2>1
        <3>2. Path(v) = q
            BY <1>6, <3>1 DEF FilesInPlace, Free
        <3> QED BY <1>4, <3>2
    <2>2. \A q \in Paths : media'[q] # NoUpload => media'[q] \in Uploads
        BY <1>5 DEF TypeOK
    <2> QED BY <2>1, <2>2 DEF FilesInPlace, Free, Path
<1>10. /\ req'[w].pc = "collect" /\ req'[w].upload = req[w].upload
       /\ \A x \in Workers \ {w} : req'[x] = req[x]
       /\ req' \in [Workers -> Requests]
    BY <1>2 DEF Unlink, Goto, TypeOK, Requests, Pcs
<1>11. media' \in [Paths -> Uploads \cup {NoUpload}] /\ taken \subseteq taken' /\ taken' \in SUBSET Uploads
    BY <1>3, <1>5 DEF TypeOK
<1>12. \A q \in Paths : media'[q] \in {media[q], NoUpload}
    BY <1>5
<1>13. UNCHANGED <<row, summary, start, disturbed>> /\ name' = name /\ req[w].pc = "unlink"
    BY <1>2, <1>3
<1> QED BY <1>1, <1>8, <1>9, <1>10, <1>11, <1>12, <1>13

\* Every action keeps the types.
LEMMA TypeStep ==
  TypeOK /\ InsertAlone /\ SummaryHasUpload /\ OrphanFileExplained /\ FilesInPlace /\ [Next]_vars => TypeOK'
<1> SUFFICES ASSUME TypeOK, InsertAlone, SummaryHasUpload, OrphanFileExplained, FilesInPlace, [Next]_vars
             PROVE  TypeOK'
    OBVIOUS
<1> USE DEF TypeOK, At, Of, Requests, Pcs, Idle, Summaries, files
<1>1. ASSUME NEW w \in Workers, InsertRow(w) PROVE TypeOK'
    BY <1>1, WellTyped DEF InsertRow, Goto
<1>2. ASSUME NEW w \in Workers, Extract(w) PROVE TypeOK'
    <2>1. PICK pdf : pdf = media[Path(Of(w))]
        OBVIOUS
    <2>2. Path(Of(w)) \in Paths /\ pdf \in Uploads \cup {NoUpload}
        BY <1>2, <2>1, WellTyped DEF Extract, Path, Paths
    <2>3. CASE /\ pdf # NoUpload
               /\ req' = [req EXCEPT ![w].pc = "store", ![w].of = pdf, ![w].week = WeekOf[start][Period(pdf)]]
        <3>1. WeekOf[start][Period(pdf)] \in Weeks
            BY <2>2, <2>3, WellTyped
        <3> QED
            BY <1>2, <2>2, <2>3, <3>1 DEF Extract
    <2>4. CASE Goto(w, "fail")
        BY <1>2, <2>4 DEF Extract, Goto
    <2> QED
        BY <1>2, <2>1, <2>3, <2>4 DEF Extract
<1>3. ASSUME NEW w \in Workers, StoreSummary(w) PROVE TypeOK'
    BY <1>3, Stored
<1>4. ASSUME NEW w \in Workers, Marks(w) PROVE TypeOK'
    BY <1>4, Marked
<1>5. ASSUME NEW w \in Workers, Show(w) PROVE TypeOK'
    BY <1>5, Shown
<1>6. ASSUME NEW w \in Workers, StoreRefresh(w) PROVE TypeOK'
    BY <1>6, Refreshed
<1>7. ASSUME NEW w \in Workers, Unlink(w) PROVE TypeOK'
    BY <1>7, FileRemoved
<1>8. ASSUME NEW w \in Workers, Collect(w) PROVE TypeOK'
    <2>1. req' \in [Workers -> Requests] /\ req'[w].upload = req[w].upload /\ req'[w].pc = "drop"
        <3>1. req[w].upload \in Uploads /\ req[w] \in Requests
            BY <1>8 DEF Collect
        <3>2. req' = [req EXCEPT ![w] = [req[w] EXCEPT !.pc = "drop", !.seen = summary[Of(w)] # NoSummary]]
            BY <1>8 DEF Collect
        <3>3. [req[w] EXCEPT !.pc = "drop", !.seen = summary[Of(w)] # NoSummary] \in Requests
            BY <3>1
        <3> QED
            BY <3>2, <3>3
    <2>2. \A x \in Workers \ {w} : req'[x] = req[x]
        BY <1>8 DEF Collect
    <2>3. UNCHANGED <<row, files, summary, start, disturbed>> /\ Of(w) \in Uploads
        BY <1>8 DEF Collect
    <2> QED
        BY <2>1, <2>2, <2>3
<1>9. ASSUME NEW w \in Workers, Drop(w) PROVE TypeOK'
    BY <1>9, WellTyped DEF Drop, Answer
<1>10. ASSUME NEW w \in Workers, KillWorker(w) PROVE TypeOK'
    BY <1>10, WellTyped DEF KillWorker, Answer
<1>11. ASSUME NEW w \in Workers, NEW u \in Uploads, StoreFile(w, u) PROVE TypeOK'
    <2>1. /\ UNCHANGED <<row, summary, start, disturbed, taken>>
          /\ req'[w].pc = "insert" /\ req'[w].upload = u /\ \A x \in Workers \ {w} : req'[x] = req[x]
          /\ req' \in [Workers -> Requests]
          /\ name' \in [Uploads -> Names] /\ media' \in [Paths -> Uploads \cup {NoUpload}]
        <3> HIDE DEF TypeOK, At, Of, Requests, Pcs, Idle, Summaries, files
        <3> QED BY <1>11, FileStored
    <2> QED
        BY <2>1
<1>12. ASSUME NEW w \in Workers, NEW u \in Uploads, Opens(w, u) PROVE TypeOK'
    BY <1>12, Opened
<1>13. CASE SaveFiscalSettings
    BY <1>13 DEF SaveFiscalSettings
<1>14. CASE UNCHANGED vars
    BY <1>14 DEF vars
<1> QED BY <1>1, <1>2, <1>3, <1>4, <1>5, <1>6, <1>7, <1>8, <1>9, <1>10, <1>11,
       <1>12, <1>13, <1>14
    DEF Next, Handle, Request, Opens, Marks

\* A file belongs to one upload request until its row is inserted.
LEMMA InsertStep ==
  TypeOK /\ SummaryHasUpload /\ OrphanFileExplained /\ FilesInPlace /\ InsertAlone /\ [Next]_vars => InsertAlone'
<1> SUFFICES ASSUME TypeOK, SummaryHasUpload, OrphanFileExplained, FilesInPlace, InsertAlone, [Next]_vars PROVE InsertAlone'
    OBVIOUS
<1> USE ValueAssumption DEF TypeOK, InsertAlone, At, Of, Exists, Requests, Idle
<1>1. ASSUME NEW w \in Workers, InsertRow(w) PROVE InsertAlone'
    BY <1>1 DEF InsertRow, Goto
<1>2. ASSUME NEW w \in Workers, Extract(w) PROVE InsertAlone'
    BY <1>2 DEF Extract, Goto
<1>3. ASSUME NEW w \in Workers, StoreSummary(w) PROVE InsertAlone'
    BY <1>3, Stored
<1>4. ASSUME NEW w \in Workers, Marks(w) PROVE InsertAlone'
    <2>1. \A v \in Uploads : row'[v] = "new" <=> row[v] = "new"
        BY <1>4, Marked
    <2>2. \A x \in Workers : req'[x].pc # "idle" => req'[x].upload = req[x].upload /\ req[x].pc # "idle"
        BY <1>4, Marked
    <2>3. \A x \in Workers : req'[x].pc = "insert" <=> req[x].pc = "insert"
        BY <1>4, Marked
    <2> QED BY <2>1, <2>2, <2>3
<1>5. ASSUME NEW w \in Workers, Show(w) PROVE InsertAlone'
    BY <1>5, Shown
<1>6. ASSUME NEW w \in Workers, StoreRefresh(w) PROVE InsertAlone'
    BY <1>6, Refreshed
<1>7. ASSUME NEW w \in Workers, Unlink(w) PROVE InsertAlone'
    <2>1. /\ row' = row /\ req[w].pc = "unlink" /\ req'[w].pc = "collect" /\ req'[w].upload = req[w].upload
          /\ \A x \in Workers \ {w} : req'[x] = req[x]
        <3> HIDE DEF TypeOK, InsertAlone, At, Of, Exists, Requests, Idle
        <3> QED BY <1>7, FileRemoved
    <2> QED BY <2>1
<1>8. ASSUME NEW w \in Workers, Collect(w) PROVE InsertAlone'
    BY <1>8 DEF Collect
<1>9. ASSUME NEW w \in Workers, Drop(w) PROVE InsertAlone'
    BY <1>9 DEF Drop, Answer
<1>10. ASSUME NEW w \in Workers, KillWorker(w) PROVE InsertAlone'
    BY <1>10 DEF KillWorker, Answer
<1>11. ASSUME NEW w \in Workers, NEW u \in Uploads, StoreFile(w, u) PROVE InsertAlone'
    <2>1. /\ row' = row /\ row[u] = "new" /\ \A x \in Workers : req[x].upload # u
          /\ req'[w].pc = "insert" /\ req'[w].upload = u /\ \A x \in Workers \ {w} : req'[x] = req[x]
        <3> HIDE DEF TypeOK, InsertAlone, At, Exists, Requests, Idle
        <3> QED BY <1>11, FileStored
    <2> QED BY <2>1
<1>12. ASSUME NEW w \in Workers, NEW u \in Uploads, Opens(w, u) PROVE InsertAlone'
    BY <1>12, Opened
<1>13. CASE SaveFiscalSettings
    BY <1>13 DEF SaveFiscalSettings
<1>14. CASE UNCHANGED vars
    BY <1>14 DEF vars
<1> QED BY <1>1, <1>2, <1>3, <1>4, <1>5, <1>6, <1>7, <1>8, <1>9, <1>10, <1>11,
       <1>12, <1>13, <1>14
    DEF Next, Handle, Request, Opens, Marks

\* The foreign key: no summary without its upload.
LEMMA SummaryStep == TypeOK /\ SummaryHasUpload /\ [Next]_vars => SummaryHasUpload'
<1> SUFFICES ASSUME TypeOK, SummaryHasUpload, [Next]_vars PROVE SummaryHasUpload'
    OBVIOUS
<1> USE DEF TypeOK, SummaryHasUpload, At, Of, Exists
<1>1. ASSUME NEW w \in Workers, InsertRow(w) PROVE SummaryHasUpload'
    BY <1>1 DEF InsertRow, Goto
<1>2. ASSUME NEW w \in Workers, Extract(w) PROVE SummaryHasUpload'
    BY <1>2 DEF Extract, Goto
<1>3. ASSUME NEW w \in Workers, StoreSummary(w) PROVE SummaryHasUpload'
    BY <1>3, Stored
<1>4. ASSUME NEW w \in Workers, Marks(w) PROVE SummaryHasUpload'
    BY <1>4, Marked
<1>5. ASSUME NEW w \in Workers, Show(w) PROVE SummaryHasUpload'
    BY <1>5, Shown
<1>6. ASSUME NEW w \in Workers, StoreRefresh(w) PROVE SummaryHasUpload'
    BY <1>6, Refreshed
<1>7. ASSUME NEW w \in Workers, Unlink(w) PROVE SummaryHasUpload'
    BY <1>7 DEF Unlink, Goto
<1>8. ASSUME NEW w \in Workers, Collect(w) PROVE SummaryHasUpload'
    BY <1>8 DEF Collect
<1>9. ASSUME NEW w \in Workers, Drop(w) PROVE SummaryHasUpload'
    BY <1>9 DEF Drop, Answer
<1>10. ASSUME NEW w \in Workers, KillWorker(w) PROVE SummaryHasUpload'
    BY <1>10 DEF KillWorker, Answer
<1>11. ASSUME NEW w \in Workers, NEW u \in Uploads, StoreFile(w, u) PROVE SummaryHasUpload'
    BY <1>11 DEF StoreFile, Accept
<1>12. ASSUME NEW w \in Workers, NEW u \in Uploads, Opens(w, u) PROVE SummaryHasUpload'
    BY <1>12, Opened
<1>13. CASE SaveFiscalSettings
    BY <1>13 DEF SaveFiscalSettings
<1>14. CASE UNCHANGED vars
    BY <1>14 DEF vars
<1> QED BY <1>1, <1>2, <1>3, <1>4, <1>5, <1>6, <1>7, <1>8, <1>9, <1>10, <1>11,
       <1>12, <1>13, <1>14
    DEF Next, Handle, Request, Opens, Marks

\* What a request has stored is still there when it marks the upload.
LEMMA MarkStep == TypeOK /\ SummaryHasUpload /\ InsertAlone /\ MarkAfterStore /\ [Next]_vars => MarkAfterStore'
<1> SUFFICES ASSUME TypeOK, SummaryHasUpload, InsertAlone, MarkAfterStore, [Next]_vars PROVE MarkAfterStore'
    OBVIOUS
<1> USE ValueAssumption DEF TypeOK, InsertAlone, MarkAfterStore, At, Of,
       Exists, Requests, Idle, Summaries
<1>1. ASSUME NEW w \in Workers, InsertRow(w) PROVE MarkAfterStore'
    BY <1>1 DEF InsertRow, Goto
<1>2. ASSUME NEW w \in Workers, Extract(w) PROVE MarkAfterStore'
    BY <1>2 DEF Extract, Goto
<1>3. ASSUME NEW w \in Workers, StoreSummary(w) PROVE MarkAfterStore'
    BY <1>3, Stored
<1>4. ASSUME NEW w \in Workers, Marks(w) PROVE MarkAfterStore'
    BY <1>4, Marked
<1>5. ASSUME NEW w \in Workers, Show(w) PROVE MarkAfterStore'
    BY <1>5, Shown
<1>6. ASSUME NEW w \in Workers, StoreRefresh(w) PROVE MarkAfterStore'
    BY <1>6, Refreshed
<1>7. ASSUME NEW w \in Workers, Unlink(w) PROVE MarkAfterStore'
    BY <1>7 DEF Unlink, Goto
<1>8. ASSUME NEW w \in Workers, Collect(w) PROVE MarkAfterStore'
    BY <1>8 DEF Collect
<1>9. ASSUME NEW w \in Workers, Drop(w) PROVE MarkAfterStore'
    BY <1>9 DEF Drop, Answer
<1>10. ASSUME NEW w \in Workers, KillWorker(w) PROVE MarkAfterStore'
    BY <1>10 DEF KillWorker, Answer
<1>11. ASSUME NEW w \in Workers, NEW u \in Uploads, StoreFile(w, u) PROVE MarkAfterStore'
    BY <1>11 DEF StoreFile, Accept
<1>12. ASSUME NEW w \in Workers, NEW u \in Uploads, Opens(w, u) PROVE MarkAfterStore'
    BY <1>12, Opened
<1>13. CASE SaveFiscalSettings
    BY <1>13 DEF SaveFiscalSettings
<1>14. CASE UNCHANGED vars
    BY <1>14 DEF vars
<1> QED BY <1>1, <1>2, <1>3, <1>4, <1>5, <1>6, <1>7, <1>8, <1>9, <1>10, <1>11,
       <1>12, <1>13, <1>14
    DEF Next, Handle, Request, Opens, Marks

\* Parsed uploads keep their figures.
LEMMA ParsedStep == TypeOK /\ SummaryHasUpload /\ InsertAlone /\ MarkAfterStore /\ ParsedHasSummary /\ [Next]_vars => ParsedHasSummary'
<1> SUFFICES ASSUME TypeOK, SummaryHasUpload, InsertAlone, MarkAfterStore, ParsedHasSummary, [Next]_vars PROVE ParsedHasSummary'
    OBVIOUS
<1> USE ValueAssumption DEF TypeOK, InsertAlone, MarkAfterStore,
       ParsedHasSummary, At, Of, Exists, Requests, Idle, Summaries
<1>1. ASSUME NEW w \in Workers, InsertRow(w) PROVE ParsedHasSummary'
    BY <1>1 DEF InsertRow, Goto
<1>2. ASSUME NEW w \in Workers, Extract(w) PROVE ParsedHasSummary'
    BY <1>2 DEF Extract, Goto
<1>3. ASSUME NEW w \in Workers, StoreSummary(w) PROVE ParsedHasSummary'
    BY <1>3, Stored
<1>4. ASSUME NEW w \in Workers, Marks(w) PROVE ParsedHasSummary'
    BY <1>4, Marked
<1>5. ASSUME NEW w \in Workers, Show(w) PROVE ParsedHasSummary'
    BY <1>5, Shown
<1>6. ASSUME NEW w \in Workers, StoreRefresh(w) PROVE ParsedHasSummary'
    BY <1>6, Refreshed
<1>7. ASSUME NEW w \in Workers, Unlink(w) PROVE ParsedHasSummary'
    BY <1>7 DEF Unlink, Goto
<1>8. ASSUME NEW w \in Workers, Collect(w) PROVE ParsedHasSummary'
    BY <1>8 DEF Collect
<1>9. ASSUME NEW w \in Workers, Drop(w) PROVE ParsedHasSummary'
    BY <1>9 DEF Drop, Answer
<1>10. ASSUME NEW w \in Workers, KillWorker(w) PROVE ParsedHasSummary'
    BY <1>10 DEF KillWorker, Answer
<1>11. ASSUME NEW w \in Workers, NEW u \in Uploads, StoreFile(w, u) PROVE ParsedHasSummary'
    BY <1>11 DEF StoreFile, Accept
<1>12. ASSUME NEW w \in Workers, NEW u \in Uploads, Opens(w, u) PROVE ParsedHasSummary'
    BY <1>12, Opened
<1>13. CASE SaveFiscalSettings
    BY <1>13 DEF SaveFiscalSettings
<1>14. CASE UNCHANGED vars
    BY <1>14 DEF vars
<1> QED BY <1>1, <1>2, <1>3, <1>4, <1>5, <1>6, <1>7, <1>8, <1>9, <1>10, <1>11,
       <1>12, <1>13, <1>14
    DEF Next, Handle, Request, Opens, Marks

\* Every way out of a parse settles the upload.
LEMMA PendingStep == TypeOK /\ SummaryHasUpload /\ InsertAlone /\ Unlinked /\ PendingExplained /\ [Next]_vars => PendingExplained'
<1> SUFFICES ASSUME TypeOK, SummaryHasUpload, InsertAlone, Unlinked, PendingExplained, [Next]_vars PROVE PendingExplained'
    OBVIOUS
<1> USE ValueAssumption DEF TypeOK, InsertAlone, Unlinked, PendingExplained,
       Working, At, Of, Exists, Requests, Idle
<1>1. ASSUME NEW w \in Workers, InsertRow(w) PROVE PendingExplained'
    BY <1>1 DEF InsertRow, Goto
<1>2. ASSUME NEW w \in Workers, Extract(w) PROVE PendingExplained'
    BY <1>2 DEF Extract, Goto
<1>3. ASSUME NEW w \in Workers, StoreSummary(w) PROVE PendingExplained'
    BY <1>3, Stored
<1>4. ASSUME NEW w \in Workers, Marks(w) PROVE PendingExplained'
    BY <1>4, Marked
<1>5. ASSUME NEW w \in Workers, Show(w) PROVE PendingExplained'
    BY <1>5, Shown
<1>6. ASSUME NEW w \in Workers, StoreRefresh(w) PROVE PendingExplained'
    BY <1>6, Refreshed
<1>7. ASSUME NEW w \in Workers, Unlink(w) PROVE PendingExplained'
    BY <1>7 DEF Unlink, Goto
<1>8. ASSUME NEW w \in Workers, Collect(w) PROVE PendingExplained'
    BY <1>8 DEF Collect
<1>9. ASSUME NEW w \in Workers, Drop(w) PROVE PendingExplained'
    BY <1>9 DEF Drop, Answer
<1>10. ASSUME NEW w \in Workers, KillWorker(w) PROVE PendingExplained'
    BY <1>10 DEF KillWorker, Answer
<1>11. ASSUME NEW w \in Workers, NEW u \in Uploads, StoreFile(w, u) PROVE PendingExplained'
    BY <1>11 DEF StoreFile, Accept
<1>12. ASSUME NEW w \in Workers, NEW u \in Uploads, Opens(w, u) PROVE PendingExplained'
    BY <1>12, Opened
<1>13. CASE SaveFiscalSettings
    BY <1>13 DEF SaveFiscalSettings
<1>14. CASE UNCHANGED vars
    BY <1>14 DEF vars
<1> QED BY <1>1, <1>2, <1>3, <1>4, <1>5, <1>6, <1>7, <1>8, <1>9, <1>10, <1>11,
       <1>12, <1>13, <1>14
    DEF Next, Handle, Request, Opens, Marks

\* Files stay where they were stored.
LEMMA PlaceStep ==
  TypeOK /\ SummaryHasUpload /\ OrphanFileExplained /\ FilesInPlace /\ [Next]_vars => FilesInPlace'
<1> SUFFICES ASSUME TypeOK, SummaryHasUpload, OrphanFileExplained, FilesInPlace, [Next]_vars PROVE FilesInPlace'
    OBVIOUS
<1>0. UNCHANGED files => FilesInPlace'
    BY DEF FilesInPlace, files, Path, Kind, Free
<1> USE <1>0 DEF files
<1>1. ASSUME NEW w \in Workers, InsertRow(w) PROVE FilesInPlace'
    BY <1>1 DEF InsertRow, Goto
<1>2. ASSUME NEW w \in Workers, Extract(w) PROVE FilesInPlace'
    BY <1>2 DEF Extract, Goto
<1>3. ASSUME NEW w \in Workers, StoreSummary(w) PROVE FilesInPlace'
    BY <1>3, Stored
<1>4. ASSUME NEW w \in Workers, Marks(w) PROVE FilesInPlace'
    BY <1>4, Marked
<1>5. ASSUME NEW w \in Workers, Show(w) PROVE FilesInPlace'
    BY <1>5, Shown
<1>6. ASSUME NEW w \in Workers, StoreRefresh(w) PROVE FilesInPlace'
    BY <1>6, Refreshed
<1>7. ASSUME NEW w \in Workers, Unlink(w) PROVE FilesInPlace'
    BY <1>7, FileRemoved
<1>8. ASSUME NEW w \in Workers, Collect(w) PROVE FilesInPlace'
    BY <1>8 DEF Collect
<1>9. ASSUME NEW w \in Workers, Drop(w) PROVE FilesInPlace'
    BY <1>9 DEF Drop, Answer
<1>10. ASSUME NEW w \in Workers, KillWorker(w) PROVE FilesInPlace'
    BY <1>10 DEF KillWorker, Answer
<1>11. ASSUME NEW w \in Workers, NEW u \in Uploads, StoreFile(w, u) PROVE FilesInPlace'
    BY <1>11, FileStored
<1>12. ASSUME NEW w \in Workers, NEW u \in Uploads, Opens(w, u) PROVE FilesInPlace'
    BY <1>12, Opened
<1>13. CASE SaveFiscalSettings
    BY <1>13 DEF SaveFiscalSettings
<1>14. CASE UNCHANGED vars
    BY <1>14 DEF vars
<1> QED BY <1>1, <1>2, <1>3, <1>4, <1>5, <1>6, <1>7, <1>8, <1>9, <1>10, <1>11,
       <1>12, <1>13, <1>14
    DEF Next, Handle, Request, Opens, Marks

\* A delete removes the file before the row.
LEMMA OrphanStep ==
  TypeOK /\ SummaryHasUpload /\ InsertAlone /\ Unlinked /\ FilesInPlace /\ OrphanFileExplained /\ [Next]_vars => OrphanFileExplained'
<1> SUFFICES ASSUME TypeOK, SummaryHasUpload, InsertAlone, Unlinked, FilesInPlace, OrphanFileExplained, [Next]_vars PROVE OrphanFileExplained'
    OBVIOUS
<1>0. \A p \in Paths : media[p] # NoUpload => HasFile(media[p]) /\ media[p] \in Uploads
    BY DEF TypeOK, FilesInPlace, Free, HasFile
<1> USE ValueAssumption, <1>0 DEF TypeOK, InsertAlone, Unlinked, OrphanFileExplained, Working, At, Of, Exists, Free,
       Requests, Idle, files
<1>1. ASSUME NEW w \in Workers, InsertRow(w) PROVE OrphanFileExplained'
    BY <1>1 DEF InsertRow, Goto
<1>2. ASSUME NEW w \in Workers, Extract(w) PROVE OrphanFileExplained'
    BY <1>2 DEF Extract, Goto
<1>3. ASSUME NEW w \in Workers, StoreSummary(w) PROVE OrphanFileExplained'
    BY <1>3, Stored
<1>4. ASSUME NEW w \in Workers, Marks(w) PROVE OrphanFileExplained'
    BY <1>4, Marked
<1>5. ASSUME NEW w \in Workers, Show(w) PROVE OrphanFileExplained'
    BY <1>5, Shown
<1>6. ASSUME NEW w \in Workers, StoreRefresh(w) PROVE OrphanFileExplained'
    BY <1>6, Refreshed
<1>7. ASSUME NEW w \in Workers, Unlink(w) PROVE OrphanFileExplained'
    BY <1>7, FileRemoved
<1>8. ASSUME NEW w \in Workers, Collect(w) PROVE OrphanFileExplained'
    BY <1>8 DEF Collect
<1>9. ASSUME NEW w \in Workers, Drop(w) PROVE OrphanFileExplained'
    BY <1>9 DEF Drop, Answer
<1>10. ASSUME NEW w \in Workers, KillWorker(w) PROVE OrphanFileExplained'
    BY <1>10 DEF KillWorker, Answer
<1>11. ASSUME NEW w \in Workers, NEW u \in Uploads, StoreFile(w, u) PROVE OrphanFileExplained'
    BY <1>11, FileStored
<1>12. ASSUME NEW w \in Workers, NEW u \in Uploads, Opens(w, u) PROVE OrphanFileExplained'
    BY <1>12, Opened
<1>13. CASE SaveFiscalSettings
    BY <1>13 DEF SaveFiscalSettings
<1>14. CASE UNCHANGED vars
    BY <1>14 DEF vars
<1> QED BY <1>1, <1>2, <1>3, <1>4, <1>5, <1>6, <1>7, <1>8, <1>9, <1>10, <1>11,
       <1>12, <1>13, <1>14
    DEF Next, Handle, Request, Opens, Marks

\* An upload that has lost its file has lost it for good.
LEMMA LostStep ==
  TypeOK /\ SummaryHasUpload /\ OrphanFileExplained /\ FilesInPlace /\ [Next]_vars =>
    \A u \in Uploads : FileLost(u) /\ row'[u] # "gone" => FileLost(u)'
<1> SUFFICES ASSUME TypeOK, SummaryHasUpload, OrphanFileExplained, FilesInPlace, [Next]_vars
             PROVE  \A v \in Uploads : FileLost(v) /\ row'[v] # "gone" => FileLost(v)'
    OBVIOUS
<1> USE DEF TypeOK, FileLost, Working, At, Of, Requests, Idle, files
<1>1. ASSUME NEW w \in Workers, InsertRow(w) PROVE \A v \in Uploads : FileLost(v) /\ row'[v] # "gone" => FileLost(v)'
    BY <1>1 DEF InsertRow, Goto
<1>2. ASSUME NEW w \in Workers, Extract(w) PROVE \A v \in Uploads : FileLost(v) /\ row'[v] # "gone" => FileLost(v)'
    BY <1>2 DEF Extract, Goto
<1>3. ASSUME NEW w \in Workers, StoreSummary(w) PROVE \A v \in Uploads : FileLost(v) /\ row'[v] # "gone" => FileLost(v)'
    BY <1>3, Stored
<1>4. ASSUME NEW w \in Workers, Marks(w) PROVE \A v \in Uploads : FileLost(v) /\ row'[v] # "gone" => FileLost(v)'
    BY <1>4, Marked
<1>5. ASSUME NEW w \in Workers, Show(w) PROVE \A v \in Uploads : FileLost(v) /\ row'[v] # "gone" => FileLost(v)'
    BY <1>5, Shown
<1>6. ASSUME NEW w \in Workers, StoreRefresh(w) PROVE \A v \in Uploads : FileLost(v) /\ row'[v] # "gone" => FileLost(v)'
    BY <1>6, Refreshed
<1>7. ASSUME NEW w \in Workers, Unlink(w) PROVE \A v \in Uploads : FileLost(v) /\ row'[v] # "gone" => FileLost(v)'
    BY <1>7, FileRemoved
<1>8. ASSUME NEW w \in Workers, Collect(w) PROVE \A v \in Uploads : FileLost(v) /\ row'[v] # "gone" => FileLost(v)'
    BY <1>8 DEF Collect
<1>9. ASSUME NEW w \in Workers, Drop(w) PROVE \A v \in Uploads : FileLost(v) /\ row'[v] # "gone" => FileLost(v)'
    BY <1>9 DEF Drop, Answer
<1>10. ASSUME NEW w \in Workers, KillWorker(w) PROVE \A v \in Uploads : FileLost(v) /\ row'[v] # "gone" => FileLost(v)'
    BY <1>10 DEF KillWorker, Answer
<1>11. ASSUME NEW w \in Workers, NEW u \in Uploads, StoreFile(w, u) PROVE \A v \in Uploads : FileLost(v) /\ row'[v] # "gone" => FileLost(v)'
    BY <1>11, FileStored
<1>12. ASSUME NEW w \in Workers, NEW u \in Uploads, Opens(w, u) PROVE \A v \in Uploads : FileLost(v) /\ row'[v] # "gone" => FileLost(v)'
    BY <1>12, Opened
<1>13. CASE SaveFiscalSettings
    BY <1>13 DEF SaveFiscalSettings
<1>14. CASE UNCHANGED vars
    BY <1>14 DEF vars
<1> QED BY <1>1, <1>2, <1>3, <1>4, <1>5, <1>6, <1>7, <1>8, <1>9, <1>10, <1>11,
       <1>12, <1>13, <1>14
    DEF Next, Handle, Request, Opens, Marks

\* An upload is listed only by the request that stored its file.
LEMMA ListedStep ==
  TypeOK /\ SummaryHasUpload /\ OrphanFileExplained /\ FilesInPlace /\ [Next]_vars =>
    \A v \in Uploads : Exists(v)' /\ ~Exists(v) => \E x \in Workers : At(x, "insert") /\ Of(x) = v /\ UNCHANGED files
<1> DEFINE listed == \A v \in Uploads : Exists(v)' /\ ~Exists(v) =>
                       \E x \in Workers : At(x, "insert") /\ Of(x) = v /\ UNCHANGED files
<1> SUFFICES ASSUME TypeOK, SummaryHasUpload, OrphanFileExplained, FilesInPlace, [Next]_vars
             PROVE  listed
    OBVIOUS
<1> USE DEF TypeOK, At, Of, Exists, Requests, Idle, files
<1>1. ASSUME NEW w \in Workers, InsertRow(w) PROVE listed
    BY <1>1 DEF InsertRow, Goto
<1>2. ASSUME NEW w \in Workers, Extract(w) PROVE listed
    BY <1>2 DEF Extract, Goto
<1>3. ASSUME NEW w \in Workers, StoreSummary(w) PROVE listed
    BY <1>3, Stored
<1>4. ASSUME NEW w \in Workers, Marks(w) PROVE listed
    BY <1>4, Marked
<1>5. ASSUME NEW w \in Workers, Show(w) PROVE listed
    BY <1>5, Shown
<1>6. ASSUME NEW w \in Workers, StoreRefresh(w) PROVE listed
    BY <1>6, Refreshed
<1>7. ASSUME NEW w \in Workers, Unlink(w) PROVE listed
    BY <1>7, FileRemoved
<1>8. ASSUME NEW w \in Workers, Collect(w) PROVE listed
    BY <1>8 DEF Collect
<1>9. ASSUME NEW w \in Workers, Drop(w) PROVE listed
    BY <1>9 DEF Drop, Answer
<1>10. ASSUME NEW w \in Workers, KillWorker(w) PROVE listed
    BY <1>10 DEF KillWorker, Answer
<1>11. ASSUME NEW w \in Workers, NEW u \in Uploads, StoreFile(w, u) PROVE listed
    BY <1>11, FileStored
<1>12. ASSUME NEW w \in Workers, NEW u \in Uploads, Opens(w, u) PROVE listed
    BY <1>12, Opened
<1>13. CASE SaveFiscalSettings
    BY <1>13 DEF SaveFiscalSettings
<1>14. CASE UNCHANGED vars
    BY <1>14 DEF vars
<1> QED BY <1>1, <1>2, <1>3, <1>4, <1>5, <1>6, <1>7, <1>8, <1>9, <1>10, <1>11,
       <1>12, <1>13, <1>14
    DEF Next, Handle, Request, Opens, Marks

\* Only a delete removes a file, its own or one that is then known as taken.
LEMMA RemovedStep ==
  TypeOK /\ SummaryHasUpload /\ OrphanFileExplained /\ FilesInPlace /\ [Next]_vars =>
    \A v \in Uploads : HasFile(v) /\ ~HasFile(v)' => FileLost(v)'
<1> DEFINE removed == \A v \in Uploads : HasFile(v) /\ ~HasFile(v)' => FileLost(v)'
<1> SUFFICES ASSUME TypeOK, SummaryHasUpload, OrphanFileExplained, FilesInPlace, [Next]_vars
             PROVE  removed
    OBVIOUS
<1>0. UNCHANGED files => removed
    BY SameFiles
<1> HIDE DEF removed
<1>1. ASSUME NEW w \in Workers, InsertRow(w) PROVE removed
    BY <1>0, <1>1 DEF files, InsertRow
<1>2. ASSUME NEW w \in Workers, Extract(w) PROVE removed
    BY <1>0, <1>2 DEF files, Extract
<1>3. ASSUME NEW w \in Workers, StoreSummary(w) PROVE removed
    BY <1>0, <1>3, Stored DEF files
<1>4. ASSUME NEW w \in Workers, Marks(w) PROVE removed
    BY <1>0, <1>4, Marked DEF files
<1>5. ASSUME NEW w \in Workers, Show(w) PROVE removed
    BY <1>0, <1>5, Shown DEF files
<1>6. ASSUME NEW w \in Workers, StoreRefresh(w) PROVE removed
    BY <1>0, <1>6, Refreshed DEF files
<1>7. ASSUME NEW w \in Workers, Unlink(w) PROVE removed
    <2>1. req'[w].pc = "collect" /\ Of(w)' = Of(w)
        BY <1>7, FileRemoved DEF Of
    <2>2. \A v \in Uploads \ {Of(w)} : HasFile(v) => HasFile(v)' \/ v \in taken'
        BY <1>7, FileRemoved
    <2> QED
        BY <2>1, <2>2 DEF removed, FileLost, Working
<1>8. ASSUME NEW w \in Workers, Collect(w) PROVE removed
    BY <1>0, <1>8 DEF files, Collect
<1>9. ASSUME NEW w \in Workers, Drop(w) PROVE removed
    BY <1>0, <1>9 DEF files, Drop
<1>10. ASSUME NEW w \in Workers, KillWorker(w) PROVE removed
    BY <1>0, <1>10 DEF files, KillWorker
<1>11. ASSUME NEW w \in Workers, NEW u \in Uploads, StoreFile(w, u) PROVE removed
    BY <1>11, FileStored DEF removed
<1>12. ASSUME NEW w \in Workers, NEW u \in Uploads, Opens(w, u) PROVE removed
    BY <1>0, <1>12, Opened DEF files
<1>13. CASE SaveFiscalSettings
    BY <1>0, <1>13 DEF files, SaveFiscalSettings
<1>14. CASE UNCHANGED vars
    BY <1>0, <1>14 DEF files, vars
<1> QED BY <1>1, <1>2, <1>3, <1>4, <1>5, <1>6, <1>7, <1>8, <1>9, <1>10, <1>11,
       <1>12, <1>13, <1>14
    DEF Next, Handle, Request, Opens, Marks

\* Only an upload that is being made gets a file.
LEMMA GainedStep ==
  TypeOK /\ SummaryHasUpload /\ OrphanFileExplained /\ FilesInPlace /\ [Next]_vars =>
    \A v \in Uploads : HasFile(v)' /\ ~HasFile(v) => row[v] = "new"
<1> DEFINE gained == \A v \in Uploads : HasFile(v)' /\ ~HasFile(v) => row[v] = "new"
<1> SUFFICES ASSUME TypeOK, SummaryHasUpload, OrphanFileExplained, FilesInPlace, [Next]_vars
             PROVE  gained
    OBVIOUS
<1>0. UNCHANGED files => gained
    BY SameFiles
<1> HIDE DEF gained
<1>1. ASSUME NEW w \in Workers, InsertRow(w) PROVE gained
    BY <1>0, <1>1 DEF files, InsertRow
<1>2. ASSUME NEW w \in Workers, Extract(w) PROVE gained
    BY <1>0, <1>2 DEF files, Extract
<1>3. ASSUME NEW w \in Workers, StoreSummary(w) PROVE gained
    BY <1>0, <1>3, Stored DEF files
<1>4. ASSUME NEW w \in Workers, Marks(w) PROVE gained
    BY <1>0, <1>4, Marked DEF files
<1>5. ASSUME NEW w \in Workers, Show(w) PROVE gained
    BY <1>0, <1>5, Shown DEF files
<1>6. ASSUME NEW w \in Workers, StoreRefresh(w) PROVE gained
    BY <1>0, <1>6, Refreshed DEF files
<1>7. ASSUME NEW w \in Workers, Unlink(w) PROVE gained
    <2>1. \A v \in Uploads : HasFile(v)' => HasFile(v)
        BY <1>7, FileRemoved
    <2> QED
        BY <2>1 DEF gained
<1>8. ASSUME NEW w \in Workers, Collect(w) PROVE gained
    BY <1>0, <1>8 DEF files, Collect
<1>9. ASSUME NEW w \in Workers, Drop(w) PROVE gained
    BY <1>0, <1>9 DEF files, Drop
<1>10. ASSUME NEW w \in Workers, KillWorker(w) PROVE gained
    BY <1>0, <1>10 DEF files, KillWorker
<1>11. ASSUME NEW w \in Workers, NEW u \in Uploads, StoreFile(w, u) PROVE gained
    BY <1>11, FileStored DEF gained
<1>12. ASSUME NEW w \in Workers, NEW u \in Uploads, Opens(w, u) PROVE gained
    BY <1>0, <1>12, Opened DEF files
<1>13. CASE SaveFiscalSettings
    BY <1>0, <1>13 DEF files, SaveFiscalSettings
<1>14. CASE UNCHANGED vars
    BY <1>0, <1>14 DEF files, vars
<1> QED BY <1>1, <1>2, <1>3, <1>4, <1>5, <1>6, <1>7, <1>8, <1>9, <1>10, <1>11,
       <1>12, <1>13, <1>14
    DEF Next, Handle, Request, Opens, Marks

\* Whose file a request has stored or removed does not change.
LEMMA WentStep ==
  TypeOK /\ SummaryHasUpload /\ OrphanFileExplained /\ FilesInPlace /\ [Next]_vars =>
    \A x \in Workers :
      /\ req'[x].pc = "insert" => \/ req[x].pc = "insert" /\ req'[x].upload = req[x].upload
                                 \/ \E u \in Uploads : StoreFile(x, u) /\ req'[x].upload = u
      /\ req'[x].pc \in {"collect", "drop"} =>
           /\ req'[x].upload = req[x].upload
           /\ req[x].pc \in {"collect", "drop"} \/ Unlink(x)
<1> DEFINE went == \A x \in Workers :
      /\ req'[x].pc = "insert" => \/ req[x].pc = "insert" /\ req'[x].upload = req[x].upload
                                 \/ \E u \in Uploads : StoreFile(x, u) /\ req'[x].upload = u
      /\ req'[x].pc \in {"collect", "drop"} =>
           /\ req'[x].upload = req[x].upload
           /\ req[x].pc \in {"collect", "drop"} \/ Unlink(x)
<1> SUFFICES ASSUME TypeOK, SummaryHasUpload, OrphanFileExplained, FilesInPlace, [Next]_vars
             PROVE  went
    OBVIOUS
<1> USE DEF TypeOK, Requests, Idle, At
<1>1. ASSUME NEW w \in Workers, InsertRow(w) PROVE went
    BY <1>1 DEF InsertRow, Goto
<1>2. ASSUME NEW w \in Workers, Extract(w) PROVE went
    BY <1>2 DEF Extract, Goto
<1>3. ASSUME NEW w \in Workers, StoreSummary(w) PROVE went
    BY <1>3, Stored
<1>4. ASSUME NEW w \in Workers, Marks(w) PROVE went
    BY <1>4, Marked
<1>5. ASSUME NEW w \in Workers, Show(w) PROVE went
    BY <1>5, Shown
<1>6. ASSUME NEW w \in Workers, StoreRefresh(w) PROVE went
    BY <1>6, Refreshed
<1>7. ASSUME NEW w \in Workers, Unlink(w) PROVE went
    BY <1>7, FileRemoved
<1>8. ASSUME NEW w \in Workers, Collect(w) PROVE went
    BY <1>8 DEF Collect
<1>9. ASSUME NEW w \in Workers, Drop(w) PROVE went
    BY <1>9 DEF Drop, Answer
<1>10. ASSUME NEW w \in Workers, KillWorker(w) PROVE went
    BY <1>10 DEF KillWorker, Answer
<1>11. ASSUME NEW w \in Workers, NEW u \in Uploads, StoreFile(w, u) PROVE went
    BY <1>11, FileStored
<1>12. ASSUME NEW w \in Workers, NEW u \in Uploads, Opens(w, u) PROVE went
    BY <1>12, Opened
<1>13. CASE SaveFiscalSettings
    BY <1>13 DEF SaveFiscalSettings
<1>14. CASE UNCHANGED vars
    BY <1>14 DEF vars
<1> QED BY <1>1, <1>2, <1>3, <1>4, <1>5, <1>6, <1>7, <1>8, <1>9, <1>10, <1>11,
       <1>12, <1>13, <1>14
    DEF Next, Handle, Request, Opens, Marks

LEMMA InsertFileStep ==
  TypeOK /\ SummaryHasUpload /\ OrphanFileExplained /\ FilesInPlace /\ InsertAlone /\ InsertAlone' /\ TypeOK'
    /\ InsertHasFile /\ [Next]_vars => InsertHasFile'
<1> SUFFICES ASSUME TypeOK, SummaryHasUpload, OrphanFileExplained, FilesInPlace, InsertAlone, InsertAlone', TypeOK',
                    InsertHasFile, [Next]_vars, NEW x \in Workers, req'[x].pc = "insert"
             PROVE  (HasFile(Of(x)) \/ FileLost(Of(x)))'
    BY DEF InsertHasFile, At
<1>1. PICK u : u = Of(x)'
    OBVIOUS
<1>2. u \in Uploads /\ row'[u] = "new"
    BY <1>1 DEF InsertAlone, At, TypeOK
<1>3. HasFile(u)' \/ FileLost(u)'
    <2>1. CASE req[x].pc = "insert" /\ req'[x].upload = req[x].upload
        <3>1. HasFile(u) \/ FileLost(u)
            BY <1>1, <2>1 DEF InsertHasFile, At, Of
        <3>2. HasFile(u) => HasFile(u)' \/ FileLost(u)'
            BY <1>2, RemovedStep
        <3>3. FileLost(u) => FileLost(u)'
            BY <1>2, LostStep
        <3> QED BY <3>1, <3>2, <3>3
    <2>2. CASE \E v \in Uploads : StoreFile(x, v) /\ req'[x].upload = v
        <3>1. StoreFile(x, u)
            BY <1>1, <2>2 DEF Of
        <3> QED BY <1>2, <3>1, FileStored
    <2> QED BY <2>1, <2>2, WentStep
<1> QED BY <1>1, <1>3

\* The file of an upload comes before its row, so a delete never meets a new one.
LEMMA UnlinkedStep ==
  TypeOK /\ InsertAlone /\ SummaryHasUpload /\ OrphanFileExplained /\ FilesInPlace /\ Unlinked /\ TypeOK'
    /\ [Next]_vars => Unlinked'
<1> SUFFICES ASSUME TypeOK, InsertAlone, SummaryHasUpload, OrphanFileExplained, FilesInPlace, Unlinked, TypeOK',
                    [Next]_vars, NEW x \in Workers, req'[x].pc \in {"collect", "drop"}
             PROVE  ~HasFile(Of(x))'
    BY DEF Unlinked
<1>1. PICK u : u = Of(x)'
    OBVIOUS
<1>2. u = Of(x) /\ u \in Uploads /\ (req[x].pc \in {"collect", "drop"} \/ Unlink(x))
    BY <1>1, WentStep DEF Of, TypeOK, At
<1>3. ~HasFile(u)'
    <2>1. CASE req[x].pc \in {"collect", "drop"}
        <3>1. ~HasFile(u) /\ row[u] # "new"
            BY <1>2, <2>1 DEF Unlinked, InsertAlone, At
        <3> QED BY <1>2, <3>1, GainedStep
    <2>2. CASE Unlink(x)
        BY <1>2, <2>2, FileRemoved
    <2> QED BY <1>2, <2>1, <2>2
<1> QED BY <1>1, <1>3

\* A listed upload has its file from the request that stored it.
LEMMA MissingStep ==
  TypeOK /\ SummaryHasUpload /\ InsertHasFile /\ OrphanFileExplained /\ FilesInPlace /\ MissingFileExplained
    /\ [Next]_vars => MissingFileExplained'
<1> SUFFICES ASSUME TypeOK, SummaryHasUpload, InsertHasFile, OrphanFileExplained, FilesInPlace, MissingFileExplained,
                    [Next]_vars, NEW u \in Uploads, Exists(u)', ~HasFile(u)'
             PROVE  FileLost(u)'
    BY DEF MissingFileExplained
<1>1. row'[u] # "gone"
    BY DEF Exists
<1>2. FileLost(u) => FileLost(u)'
    BY <1>1, LostStep
<1>3. HasFile(u) => FileLost(u)'
    BY RemovedStep
<1>4. ~HasFile(u) => FileLost(u)
    <2>1. Exists(u) /\ ~HasFile(u) => FileLost(u)
        BY DEF MissingFileExplained
    <2>2. ~Exists(u) /\ ~HasFile(u) => FileLost(u)
        BY ListedStep DEF InsertHasFile
    <2> QED BY <2>1, <2>2
<1> QED BY <1>2, <1>3, <1>4

\* A request that parses an upload reads what is at its path; one that refreshes
\* figures keeps whose they are.
LEMMA HandStep ==
  TypeOK /\ SummaryHasUpload /\ InsertAlone /\ OrphanFileExplained /\ FilesInPlace /\ MissingFileExplained
    /\ FiguresAreOwn /\ FiguresInHand /\ [Next]_vars => FiguresInHand'
<1> SUFFICES ASSUME TypeOK, SummaryHasUpload, InsertAlone, OrphanFileExplained, FilesInPlace, MissingFileExplained,
                    FiguresAreOwn, FiguresInHand, [Next]_vars,
                    NEW x \in Workers, req'[x].pc \in {"store", "refresh"}, Exists(Of(x))'
             PROVE  req'[x].of = Of(x)' \/ FileLost(Of(x))'
    BY DEF FiguresInHand
<1> DEFINE own(w, of) == of = Of(w) \/ FileLost(Of(w))
           went == \/ req'[x] = req[x]
                   \/ Extract(x) /\ req'[x].pc = "store" /\ req'[x].upload = Of(x)
                   \/ Show(x) /\ req'[x].pc = "refresh" /\ req'[x].upload = Of(x)
<1>0. went
  <2> USE DEF TypeOK, Requests, Idle, At, Of
<2>1. ASSUME NEW w \in Workers, InsertRow(w) PROVE went
      BY <2>1 DEF InsertRow, Goto
  <2>2. ASSUME NEW w \in Workers, Extract(w) PROVE went
      <3>1. w # x => req'[x] = req[x]
          BY <2>2 DEF Extract, Goto
      <3>2. req'[w].upload = req[w].upload /\ req'[w].pc \in {"store", "fail"}
          BY <2>2 DEF Extract, Goto
      <3> QED
          BY <2>2, <3>1, <3>2
  <2>3. ASSUME NEW w \in Workers, StoreSummary(w) PROVE went
      BY <2>3, Stored
  <2>4. ASSUME NEW w \in Workers, Marks(w) PROVE went
      BY <2>4, Marked
  <2>5. ASSUME NEW w \in Workers, Show(w) PROVE went
      BY <2>5, Shown
  <2>6. ASSUME NEW w \in Workers, StoreRefresh(w) PROVE went
      BY <2>6, Refreshed
  <2>7. ASSUME NEW w \in Workers, Unlink(w) PROVE went
      BY <2>7, FileRemoved
  <2>8. ASSUME NEW w \in Workers, Collect(w) PROVE went
      BY <2>8 DEF Collect
  <2>9. ASSUME NEW w \in Workers, Drop(w) PROVE went
      BY <2>9 DEF Drop, Answer
  <2>10. ASSUME NEW w \in Workers, KillWorker(w) PROVE went
      BY <2>10 DEF KillWorker, Answer
  <2>11. ASSUME NEW w \in Workers, NEW u \in Uploads, StoreFile(w, u) PROVE went
      BY <2>11, FileStored
  <2>12. ASSUME NEW w \in Workers, NEW u \in Uploads, Opens(w, u) PROVE went
      BY <2>12, Opened
  <2>13. CASE SaveFiscalSettings
      BY <2>13 DEF SaveFiscalSettings
  <2>14. CASE UNCHANGED vars
      BY <2>14 DEF vars
  <2> QED BY <2>1, <2>2, <2>3, <2>4, <2>5, <2>6, <2>7, <2>8, <2>9, <2>10, <2>11,
         <2>12, <2>13, <2>14
      DEF Next, Handle, Request, Opens, Marks
<1> HIDE DEF went
<1>1. Of(x)' = Of(x)
    BY <1>0 DEF went, Of
<1>2. PICK u : u = Of(x)
    OBVIOUS
<1>3. u \in Uploads /\ row'[u] # "gone" /\ Exists(u)'
    BY <1>0, <1>1, <1>2 DEF went, TypeOK, At, Extract, Show, Exists, Of
<1>4. Exists(u)
    <2>1. req[x].pc # "insert" /\ req[x].pc # "idle"
        BY <1>0 DEF went, Extract, Show, At
    <2>2. row[u] # "new"
        BY <1>2, <2>1 DEF InsertAlone, At
    <2>3. ~Exists(u) => row[u] = "new"
        BY <1>3, ListedStep DEF InsertAlone
    <2> QED BY <2>2, <2>3
<1>5. FileLost(u) => FileLost(u)'
    BY <1>3, LostStep
<1>6. CASE req'[x] = req[x]
    BY <1>1, <1>2, <1>4, <1>5, <1>6 DEF FiguresInHand, Of
<1>7. CASE Extract(x) /\ req'[x].pc = "store"
    <2>1. req'[x].of = media[Path(u)]
        BY <1>2, <1>7 DEF Extract, Goto, TypeOK, Requests
    <2>2. HasFile(u) => req'[x].of = u
        BY <2>1 DEF HasFile
    <2>3. ~HasFile(u) => FileLost(u)
        BY <1>3, <1>4 DEF MissingFileExplained
    <2> QED BY <1>1, <1>2, <1>5, <2>2, <2>3
<1>8. CASE Show(x) /\ req'[x].pc = "refresh"
    <2>1. summary[u] # NoSummary /\ req'[x].of = summary[u].of
        BY <1>2, <1>8, Shown DEF Idle
    <2>2. summary[u].of = u \/ FileLost(u)
        BY <1>3, <2>1 DEF FiguresAreOwn
    <2> QED BY <1>1, <1>2, <1>5, <2>1, <2>2
<1> QED BY <1>0, <1>6, <1>7, <1>8 DEF went

\* What is stored is what the request has in hand.
LEMMA StoredStep ==
  TypeOK /\ SummaryHasUpload /\ OrphanFileExplained /\ FilesInPlace /\ [Next]_vars =>
    \A v \in Uploads : summary'[v] # NoSummary =>
      \/ summary'[v] = summary[v]
      \/ \E w \in Workers : /\ req[w].pc \in {"store", "refresh"} /\ Of(w) = v /\ Exists(v)
                            /\ summary'[v].of = req[w].of
<1> DEFINE stored == \A v \in Uploads : summary'[v] # NoSummary =>
             \/ summary'[v] = summary[v]
             \/ \E w \in Workers : /\ req[w].pc \in {"store", "refresh"} /\ Of(w) = v /\ Exists(v)
                                   /\ summary'[v].of = req[w].of
<1> SUFFICES ASSUME TypeOK, SummaryHasUpload, OrphanFileExplained, FilesInPlace, [Next]_vars
             PROVE  stored
    OBVIOUS
<1> USE DEF TypeOK
<1>1. ASSUME NEW w \in Workers, InsertRow(w) PROVE stored
    BY <1>1 DEF InsertRow, Goto
<1>2. ASSUME NEW w \in Workers, Extract(w) PROVE stored
    BY <1>2 DEF Extract, Goto
<1>3. ASSUME NEW w \in Workers, StoreSummary(w) PROVE stored
    BY <1>3, Stored
<1>4. ASSUME NEW w \in Workers, Marks(w) PROVE stored
    BY <1>4, Marked
<1>5. ASSUME NEW w \in Workers, Show(w) PROVE stored
    BY <1>5, Shown
<1>6. ASSUME NEW w \in Workers, StoreRefresh(w) PROVE stored
    BY <1>6, Refreshed
<1>7. ASSUME NEW w \in Workers, Unlink(w) PROVE stored
    BY <1>7, FileRemoved
<1>8. ASSUME NEW w \in Workers, Collect(w) PROVE stored
    BY <1>8 DEF Collect
<1>9. ASSUME NEW w \in Workers, Drop(w) PROVE stored
    BY <1>9 DEF Drop, Answer
<1>10. ASSUME NEW w \in Workers, KillWorker(w) PROVE stored
    BY <1>10 DEF KillWorker, Answer
<1>11. ASSUME NEW w \in Workers, NEW u \in Uploads, StoreFile(w, u) PROVE stored
    BY <1>11, FileStored
<1>12. ASSUME NEW w \in Workers, NEW u \in Uploads, Opens(w, u) PROVE stored
    BY <1>12, Opened
<1>13. CASE SaveFiscalSettings
    BY <1>13 DEF SaveFiscalSettings
<1>14. CASE UNCHANGED vars
    BY <1>14 DEF vars
<1> QED BY <1>1, <1>2, <1>3, <1>4, <1>5, <1>6, <1>7, <1>8, <1>9, <1>10, <1>11,
       <1>12, <1>13, <1>14
    DEF Next, Handle, Request, Opens, Marks

LEMMA OwnStep ==
  TypeOK /\ SummaryHasUpload /\ OrphanFileExplained /\ FilesInPlace /\ FiguresInHand /\ FiguresAreOwn
    /\ SummaryHasUpload' /\ [Next]_vars => FiguresAreOwn'
<1> SUFFICES ASSUME TypeOK, SummaryHasUpload, OrphanFileExplained, FilesInPlace, FiguresInHand, FiguresAreOwn,
                    SummaryHasUpload', [Next]_vars, NEW u \in Uploads, summary'[u] # NoSummary
             PROVE  summary'[u].of = u \/ FileLost(u)'
    BY DEF FiguresAreOwn
<1>1. row'[u] # "gone"
    BY DEF SummaryHasUpload, Exists
<1>2. FileLost(u) => FileLost(u)'
    BY <1>1, LostStep
<1>3. CASE summary'[u] = summary[u]
    BY <1>2, <1>3 DEF FiguresAreOwn
<1>4. ASSUME NEW w \in Workers, req[w].pc \in {"store", "refresh"}, Of(w) = u, Exists(u), summary'[u].of = req[w].of
      PROVE  summary'[u].of = u \/ FileLost(u)'
    BY <1>2, <1>4 DEF FiguresInHand
<1> QED BY <1>3, <1>4, StoredStep

\* The initial states.
LEMMA InitIInv == Init => IInv
<1> SUFFICES ASSUME Init PROVE IInv
    OBVIOUS
<1> USE DEF Init
<1>0. /\ \A u \in Uploads : Path(u) = <<Document[u].kind, Document[u].name>>
      /\ name \in [Uploads -> Names] /\ media \in [Paths -> Uploads \cup {NoUpload}]
      /\ \A p \in Paths : media[p] # NoUpload => media[p] \in Old /\ Path(media[p]) = p
      /\ \A u \in Old : media[Path(u)] = u
    <2>1. \A u \in Uploads : /\ name[u] = Document[u].name /\ Path(u) = <<Document[u].kind, Document[u].name>>
                             /\ Path(u) \in Paths
        BY WellTyped DEF Path, Kind, Paths
    <2>2. Old \subseteq Uploads /\ NoUpload \notin Uploads
        BY UploadAssumption, ValueAssumption
    <2>3. \A p \in Paths : IF \E u \in Old : Path(u) = p THEN media[p] \in Old /\ Path(media[p]) = p
                           ELSE media[p] = NoUpload
        OBVIOUS
    <2>4. \A u, v \in Old : Path(u) = Path(v) => u = v
        BY <2>1, <2>2, OldAssumption
    <2>5. media = [p \in Paths |-> media[p]] /\ name = [u \in Uploads |-> name[u]]
        OBVIOUS
    <2>6. name \in [Uploads -> Names]
        BY <2>1, <2>5, WellTyped
    <2>7. media \in [Paths -> Uploads \cup {NoUpload}]
        BY <2>2, <2>3, <2>5
    <2>8. \A p \in Paths : media[p] # NoUpload => media[p] \in Old /\ Path(media[p]) = p
        BY <2>3
    <2>9. \A u \in Old : media[Path(u)] = u
        BY <2>1, <2>2, <2>3, <2>4
    <2> QED BY <2>1, <2>6, <2>7, <2>8, <2>9
<1>1. TypeOK
    <2>1. \A u \in Uploads : WeekOf[start][Period(u)] \in Weeks
        BY WellTyped
    <2>2. summary \in [Uploads -> Summaries \cup {NoSummary}]
        BY <2>1 DEF Summaries
    <2>3. req \in [Workers -> Requests] /\ \A w \in Workers : At(w, "idle")
        BY WellTyped DEF At, Idle
    <2>4. /\ row \in [Uploads -> {"new", "pending", "parsed", "failed", "gone"}]
          /\ name \in [Uploads -> Names] /\ media \in [Paths -> Uploads \cup {NoUpload}]
        BY <1>0
    <2>5. start \in Starts /\ disturbed \in SUBSET Uploads /\ taken \in SUBSET Uploads
        OBVIOUS
    <2>6. \A w \in Workers : req[w].pc = "idle"
        BY DEF Idle
    <2> QED
        BY <2>2, <2>3, <2>4, <2>5, <2>6 DEF TypeOK, At
<1>2. \A w \in Workers : req[w].pc = "idle"
    BY DEF Idle
<1>3. InsertAlone /\ InsertHasFile /\ MarkAfterStore /\ Unlinked /\ FiguresInHand
    BY <1>2 DEF InsertAlone, InsertHasFile, Unlinked, MarkAfterStore, FiguresInHand, At
<1>4. SummaryHasUpload /\ ParsedHasSummary /\ PendingExplained /\ FiguresAreOwn
    <2>1. \A u \in Old : [of |-> u, week |-> WeekOf[start][Period(u)], dpt |-> NoDpt, old |-> TRUE] \in Summaries
        BY WellTyped, UploadAssumption DEF Summaries
    <2> QED
        BY <2>1, ValueAssumption, UploadAssumption
           DEF SummaryHasUpload, ParsedHasSummary, PendingExplained, FiguresAreOwn, Exists
<1>5. OrphanFileExplained /\ FilesInPlace /\ MissingFileExplained
    <2>1. \A u \in Uploads : Exists(u) <=> u \in Old
        BY DEF Exists
    <2> QED BY <1>0, <2>1, UploadAssumption DEF OrphanFileExplained, FilesInPlace, MissingFileExplained, Free, HasFile
<1> QED BY <1>1, <1>3, <1>4, <1>5 DEF IInv

\* The inductive invariant holds in every reachable state.
THEOREM Invariance == Spec => []IInv
<1>1. IInv /\ [Next]_vars => IInv'
  <2> SUFFICES ASSUME IInv, [Next]_vars PROVE IInv'
    OBVIOUS
  <2>1. /\ TypeOK /\ InsertAlone /\ InsertHasFile /\ Unlinked /\ SummaryHasUpload /\ MarkAfterStore /\ ParsedHasSummary
        /\ PendingExplained /\ OrphanFileExplained /\ FilesInPlace /\ MissingFileExplained
        /\ FiguresInHand /\ FiguresAreOwn
    BY DEF IInv
  <2>2. SummaryHasUpload' /\ TypeOK' /\ InsertAlone'
    BY <2>1, SummaryStep, TypeStep, InsertStep
  <2> QED
    BY <2>1, <2>2, InsertFileStep, UnlinkedStep, MarkStep, ParsedStep, PendingStep, PlaceStep, OrphanStep,
       MissingStep, HandStep, OwnStep DEF IInv
<1> QED BY <1>1, InitIInv, PTL DEF Spec

\* Type correctness.
THEOREM TypeCorrect == Spec => []TypeOK
<1>1. IInv => TypeOK
    BY DEF IInv
<1> QED BY <1>1, Invariance, PTL

\* An upload marked parsed always has its figures, no figures outlive their upload,
\* and they are read from its own file unless it has lost that, however parses,
\* refreshes and deletes of any uploads interleave and names of files are used again.
THEOREM FiguresFollowRows == Spec => []FiguresMatchRows
<1>1. IInv => FiguresMatchRows
    BY DEF IInv, FiguresMatchRows
<1> QED BY <1>1, Invariance, PTL

\* Every way to fail is recorded.
THEOREM FailuresAreRecorded == Spec => []PendingExplained
<1>1. IInv => PendingExplained
    BY DEF IInv
<1> QED BY <1>1, Invariance, PTL

\* Files are where their rows say, and files and rows come and go together, but for
\* broken-off requests and files that the delete of another upload has taken.
THEOREM FilesFollowRows == Spec => []FilesMatchRows
<1>1. IInv => FilesMatchRows
    BY DEF IInv, FilesMatchRows
<1> QED BY <1>1, Invariance, PTL

\* No request brings a deleted upload back.
THEOREM DeletedUploadsStayDeleted == Spec => DeletedStaysDeleted
<1>1. IInv /\ [Next]_vars => [\A u \in Uploads : row[u] = "gone" => row'[u] = "gone"]_vars
    <2> SUFFICES ASSUME IInv, Next, NEW u \in Uploads, row[u] = "gone" PROVE row'[u] = "gone"
        BY DEF vars
    <2> USE DEF IInv, TypeOK, InsertAlone, At, Of, Exists
    <2>1. ASSUME NEW w \in Workers, InsertRow(w) PROVE row'[u] = "gone"
        BY <2>1 DEF InsertRow
    <2>2. ASSUME NEW w \in Workers, MarkParsed(w) \/ MarkFailed(w) PROVE row'[u] = "gone"
        BY <2>2 DEF MarkParsed, MarkFailed
    <2>3. ASSUME NEW w \in Workers, Drop(w) PROVE row'[u] = "gone"
        BY <2>3 DEF Drop
    <2>4. ASSUME NEW w \in Workers, Extract(w) \/ StoreSummary(w) \/ Show(w) \/ StoreRefresh(w)
                                    \/ Unlink(w) \/ Collect(w) \/ KillWorker(w)
          PROVE row' = row
        BY <2>4 DEF Extract, StoreSummary, Show, StoreRefresh, Unlink, Collect, KillWorker
    <2>5. ASSUME NEW w \in Workers, NEW v \in Uploads, Request(w, v) PROVE row' = row
        BY <2>5 DEF Request, StoreFile, OpenDetail, OpenReport, BeginDelete
    <2>6. CASE SaveFiscalSettings
        BY <2>6 DEF SaveFiscalSettings
    <2> QED BY <2>1, <2>2, <2>3, <2>4, <2>5, <2>6 DEF Next, Handle
<1> QED BY <1>1, Invariance, PTL DEF Spec, DeletedStaysDeleted
=============================================================================
