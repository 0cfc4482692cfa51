# Formal models of Bearbiz

Bearbiz is a Django application (PostgreSQL, gunicorn with three workers) in
which a store manager uploads weekly workbooks and PDFs, keeps payroll, party
and product figures by hand, and reads dashboards made from them. Two shell
scripts back up and restore its database and media, from the command line, from
a nightly timer and from the settings page.

This directory holds TLA+ models of its stateful parts, TLC configurations that
check them on small instances, and TLAPS proofs. Every definition is translated
from the source; `PROJECT.json` names the lines each stands for.

| Part of the system | Modules | Model-checked | Proved |
| --- | --- | --- | --- |
| Backup tool and its nightly run | `BackupTool`, `Safekeeping`, `MCBackupTool`, `BackupTool_proofs` | 3 runs | 7 theorems |
| Backup page | `BackupPages`, `MCBackupPages`, `BackupPages_proofs` | 1 run | 4 theorems |
| Weekly report uploads | `ReportUploads`, `MCReportUploads`, `ReportUploads_proofs` | 2 runs | 5 theorems |
| Missed opportunities | `MissedOps`, `MCReadings`, `MissedOps_proofs` | 1 run, shared with the text readers | 3 theorems |
| Fiscal calendar | `FiscalCalendar`, `MCReportPages`, `Entries_proofs` | 1 run, shared with the report pages | 7 theorems |
| Assistant | `Assistant`, `SixWeeks`, `MCAssistant`, `Assistant_proofs` | 1 run | 4 theorems |
| Report text readers | `ReportText`, `MCReadings`, `ReportText_proofs` | the run of missed opportunities | 2 theorems |
| Report pages | `ReportPages`, `MCReportPages`, `ReportPages_proofs` | 2 runs | 5 theorems |
| Payroll and parties grids | `MonthSaves`, `Ledger`, `MCEntries`, `Entries_proofs` | 2 runs, of these four parts | 2 theorems |
| Parties imports | `PartiesImports`, `MCEntries`, `Entries_proofs` | | 1 theorem |
| Review templates and notes | `Reviews`, `MCEntries`, `Entries_proofs` | | 1 theorem |
| Status of the nightly timer | `ScheduleStatus`, `MCEntries`, `Entries_proofs` | | 1 theorem |

To check a run: `tlc -config BackupTool_restore.cfg MCBackupTool.tla`; to check
the proofs of a component: `tlapm BackupTool_proofs.tla`.

## Inventory

| Component | State it keeps | Operations | What is hard |
| --- | --- | --- | --- |
| Backup tool (`scripts/bearbiz-backup.sh`) | backup sets, `.partial-*` directories, the flock, the live database and media | backup, prune, verify, restore | concurrent invocations, a lock that ends early, `set -e` switched off, killed shells with surviving children |
| Nightly scheduler (`scripts/bearbiz-backup-schedule.sh`) | `status.json`, the timer, the same flock | run, enable, disable, status | read-modify-write of the status file, crash between `running` and the outcome |
| Backup pages (`apps/core/views.py`) | session, signed confirmation tokens, the table of consumed tokens | run, verify, upload, download, select, confirm, delete | the lock is probed, then dropped; a restore rewrites the table that makes tokens single-use |
| Weekly report uploads (`apps/reports/views.py`, `models.py`) | uploads with a parse status, stored files, one summary per fiscal week and kind | upload, reparse on read, delete | upsert keyed by upload beside a unique week, requests killed between two writes, delete racing a parse |
| Parties imports (`parties_views.py`) | the weeks each PDF was stored with, the imports and their conflict marks | import, delete | a week on record keeps its figures, differences are marked, the history is read before it is added to |
| Missed opportunities (`missed_opportunities_views.py`, `segment_views.py`, `gantt_views.py`) | reports, parsed imports, segments, gantts for one week | import, replace, delete | three importers agree on a week; deletes differ |
| Payroll and parties grids (`payroll_views.py`, `parties_views.py`) | a row for each week with an entry | transactional save of a month | blank deletes, rejected entries, two saves of one month |
| Review templates and notes (`core/views.py`, `reports/views.py`) | one JSON layout | read-modify-write from two kinds of pages | lost texts, places counted differently |
| Fiscal calendar (`core/fiscal.py`, `core/models.py`, `reports/fiscal.py`, `payroll_views.py`) | fiscal-year start settings | pure functions of a date | year boundaries, weeks 52/53 |
| Report pages (`reports/views.py`) | none, but they bring summaries up to date | windows of weeks, joins and totals of summaries, refresh | stale or mismatched weeks, totals that differ between pages |
| Report text readers (`reports/modules/*`) | none | PDF text to rows and a period | page breaks, blank cells, cells that share lines |
| Assistant (`core/ai.py`, `reports/dashboard.py`, `apps/agent`) | the conversation of each tab and a stored copy | ask, new chat, reload | answers that come late, limits of the context, the server's timeout |
| Product report, relabelling migrations | replaced in one transaction; run once | | |
| Navigation, forms, templates, admin | none | rendering | none |

The components meet in four places. The flock on `backup.lock` is shared by the
tool, the scheduler and the settings page's probe. The directory `BACKUP_ROOT`
is shared by the tool, the scheduler, the page's upload and the page's delete.
The database is shared by every request and by a restore, which replaces it as
a whole, the table of consumed confirmation tokens included. The media
directory is shared by uploads, deletes and a full restore.

### What makes each component correct

- **Backup tool.** Whoever writes a set holds the flock, and no backup removes
  the directory another one is writing. What is published by a plain backup is
  whole. Retention never goes below the number of sets to keep. A database or a
  media directory that is not whole can be blamed on a restore that is under
  way, was killed, or failed twice, or on two full restores at a time. Every
  invocation ends and the flock comes free.
- **Nightly scheduler.** It never runs beside another backup; what the status
  page shows is the outcome of the last run.
- **Backup page.** A confirmation is carried out once. An upload never replaces
  a set, and one that does not verify does not stay.
- **Weekly report uploads.** Status, file and figures of an upload agree, at any
  moment at which no request is working on it. One summary per kind and week.
  A deleted upload is gone for good.
- **Parties imports.** A week on record keeps its figures, and every import that
  disagrees is marked.
- **Missed opportunities.** What is stored can be found in a history and deleted
  from there; a delete does not touch the data of another upload.
- **Grids.** A month is saved as a whole or not at all, whoever else saves it.
- **Templates, notes.** What one user saves does not undo what another one
  saved elsewhere on the page.
- **Fiscal calendar.** Each day has one fiscal week, weeks follow one another
  without a gap, and the calendars derived from the settings agree with them.
- **Report pages.** Each figure is of the week its heading names, and two pages
  about the same weeks agree.
- **Report text readers.** Nobody gets another's figures, and no row is lost.
- **Assistant.** A conversation is questions and their answers, in turn. What the
  model is told adds up. Every question ends.

## The models

Each component's module is parameterised by its actors and its data. An `MC`
module names the instances for TLC, the `_proofs` module holds the
theorems; those of the fiscal calendar and of what `MCEntries` checks are in
`Entries_proofs`. Three `MC` modules take components that have no state in common
together: `MCReadings` (`ReportText`, `MissedOps`), `MCReportPages`
(`FiscalCalendar`, `ReportPages`) and `MCEntries` (`MonthSaves`, `PartiesImports`,
`Reviews`, `ScheduleStatus`). A behaviour of these is one of one component, of
those that the constant `Parts` names. `MCBackupTool` has `Companies`, the sets of
invocations that may meet; a behaviour has one of them. Definitions keep the names of the code, or the names of its steps.
An operator named `X_Something` beside `X` is a variant of `X` with one likely
bug in it; nothing refers to it, and a property is worth keeping if it
fails once `X` is replaced by the variant. `PROJECT.json` lists the pairs.

### BackupTool and Safekeeping

`Procs` are invocations of `scripts/bearbiz-backup.sh`, or of the `run` command
of the scheduler, each with a `Job`. `pc` stands for a line of the script: one
action is one command whose effect another process can see. They share `sets`
and `partial` (the directories below `BACKUP_ROOT`), `lock` (the flock), `db`
and `media`. Contents are versions, and what is wrong with a file is one of
`Truncated`, `Absent`, `Mixed` and `Empty`.

- *create_backup*: `PickId` (before the lock is taken, except at night),
  `AcquireLock` or `LockRefused`, `Prepare` (removal of every `.partial-*`,
  then `mktemp`), `Dump`, `Tar`, `Seal`, `Publish`, and `Abort` for the EXIT
  trap. `set -e` is off in the command substitution through which a restore
  calls it: there `DumpCutShort` and `TarCutShort` go on, and `CanAbort` is
  limited to the checks that call `fatal`.
- *prune_sets*: `ListSets`, then one `RemoveSet` for each victim, oldest last.
  By hand it takes no lock; at night it runs under the scheduler's.
- *restore_set*: `StartRestore` (verify), the safety backup through the actions
  above, `CheckSafety`, `Reset`, `BeginLoad`, `EndLoad` or `FailLoad`, with the
  same again for the rollback, then `BeginSwap`, `EndSwap`, `FailSwap` and
  `StagingFails` for the media. `Publish` releases the flock, since the subshell
  that took it ends there. The media are replaced by two runs of `mv` with no lock:
  those who are between them (`Swapping`) while another begins are `crossed`, and
  when one of these ends the directory holds its archive or a mixture.
- *Environment*: the clock (`Tick`), changes made by the application
  (`AppWrite`, also between dump and archive), damage on disk (`Rot`), a killed
  shell (`Kill`) whose children run on until they end (`Die`), and power loss.

`Safekeeping` is what this amounts to, without lines of a script: a copy that its
one holder makes and that becomes a set as a whole; sets that never change but
by damage and go only while `Keep` newer ones stay; and live data that belongs to
the application, and to restores once their safety backup is published
(`secured`). A load ends with all of one dump, and never over a database that
is whole again or that another restore has emptied. Media that are replaced become
the whole archive, unless two restores replaced them at a time (`replacing`,
`crossed`). What it leaves open is what the code does: two restores may take turns
with the live data or mix their media, a safety backup may be cut short, a copy
may be lost inside a set of its name. `BackupTool` implements it (`KeepsSafe`): the
holder is the flock's, the copy is the holder's partial directory between `Prepare`
and `Publish`, `secured` are the restores past `Publish`, and `replacing` those
`Swapping`. Most of the script is unseen by it. A restore that goes on although its
safety backup was refused, an ignored lock or a listing that counts wrongly each
break it.

### BackupPages

`Workers` serve `backup_action`. A selection and a confirmation begin with
`Probe`, which holds the flock for a moment (`_backup_in_progress`), and go on
with `Select` or with `Check` and `Consume`, where the token is entered in the
table of used ones. A delete is then `Remove` or `RemoveFails`; a restore starts
a tool. The tool is `BackupTool` in outline: `ToolLocks`, `ToolBacksUp` (and the
flock is given back), `ToolResets`, `ToolLoads` and `ToolRollsBack`. Loading
replaces `used` by what the dump knew, which is the point of the module. An
upload is `BeginUpload` (the identifier is free), `Rename`, `VerifyPasses` or
`VerifyFails` and `Discard`. `TimeLimit` is `subprocess.run(timeout=...)`, which
leaves the tool's children running; `KillWorker` is gunicorn's timeout.
`acted` and `forgotten` are history variables that no action reads.

### ReportUploads

Django commits each statement by itself here, so one statement is one action:
`StoreFile` and `InsertRow` for `form.save()`, `Extract`, `StoreSummary`,
`MarkParsed` and `MarkFailed` for `_parse_and_store_summary`, `OpenDetail`,
`OpenReport`, `Show` and `StoreRefresh` for the pages that parse again what they
show, `BeginDelete`, `Unlink`, `Collect` and `Drop` for `report_delete`.
A file is at a path, `<<kind, name>>` as in `reports/{type}/{filename}`: `StoreFile`
takes the document's own name if it is free and another one if it is not
(`Named`), and `Unlink` removes whatever is at the path of its upload's row. A name
that a delete has freed is thus used again, and a row whose delete broke off may
come to share its path with another upload (`taken`: those that lost their file to
it). What a page parses is what is at the path by then, which `of` in a summary
records. `CanStore` is the foreign key and the unique week together. `SaveFiscalSettings`
may change the calendar `WeekOf` at any moment, and `KillWorker` ends a request
between any two statements. The five kinds of report follow one path. They
differ in what `NeedsRefresh` says, in the reparse of failed gift-card and
bonus-club uploads, and in the DPT that gift cards take from weekly sales.

### MissedOps

`report`, `segment` and `gantt` hold, for a week or a day, the upload the stored
data is of; `imports` holds the three histories. The views use transactions. A
transaction is one action where its row locks make it atomic (`StoreGantts`),
and two where the time stamp or the rows a `DELETE` has found are older than its
commit (`BeginReport` and `StoreReport`; `ClearSegments` and `FillSegments`). A
delete is `BeginDelete`, which looks for newer imports, and one of the `Erase`
actions; `DeleteLegacy` removes a segment from before histories were kept.

### FiscalCalendar

The variables are `today` and the saved start date; the rest are functions of
them, one for each function of the code. Ordinals are those of Python's
`toordinal`. `BoundaryYear` and `BoundaryWeek` are the calendar without a start
date, `AnniversaryYear` and `AnniversaryWeek` the one with it, `CalculatedWeek`
what the parsers use, `PayrollStart`, `WeekEnding` and
`CurrentMonth` payroll's, `TargetAnchor` to `PeriodEnd` the dashboards'.
`NextDay` and `SaveFiscalSettings` are the steps.

### Assistant and SixWeeks

A tab's `history` is `conversationHistory`, `storage` the copy in the browser
that all tabs share. `Ask` posts a question with the tab's conversation; `Build`
makes the context from the reports stored at that moment and trims the
conversation (`Sanitized`); `Answer` is the external model's, or an error's
text; `WorkerTimeout` is gunicorn's; `Receive` appends question and answer to
what the conversation has become meanwhile. `Context` is
`build_bearbiz_chat_context`: the records (`Records`, `Fitted`), the month query
(`MonthQuery`, `Totals`), the trend query (`TrendQuery`) and the six-week
dashboard, whose figures are `SixWeeks`: `WeekWindow`, `WeekOf`, `CollectMetrics`,
`Filtered` and `Dashboard` of `reports/dashboard.py`.

### ReportText

The document is printed line by line (`BeginRow`, `PrintCells`, `SkipCell` for a
blank cell, `PageBreak` with or without the store's number before the footer), each
cell knowing its row and column, and each line is read as it comes by the reader of
its `format`: `ScanAssociates` (gift cards and bonus club), `ScanSegments`,
`ScanRanking` and `ScanSales`. An associates' row that is not complete takes any line
that looks like a number for its next value (`ValueOf`): a cell, the store's number
of a footer, or the whole line of another associate or of the totals, which is then
a value nobody can read (`NoCell`); only a number alone in its line, the word
Totals or the rest of a footer ends it (`Bare`). Printing in turn
lets a reader be compared with what was printed, at every point of every
document of the given size, without a set of documents. `ScanDates` and
`ScanRange` find the period.

### ReportPages

`reports` are the summaries in store; `Upload`, `Delete` and `Upgrade` (a release
with a new parse version) change them. The pages are operators: `Dashboard`,
`Review`, `Selected` and `YearReport` with its months and quarters,
`AssociateTotals` and `SegmentTotals`, `PerformanceRows` and `FindRow`. A page
that shows reports refreshes them one by one: `Open`, then `Skip`, or `ReadSales`
and `Store`, and `Close`. Figures are powers of two, so that a total tells which
reports are in it.

### MonthSaves and Ledger

`MonthSaves` is the `POST` of the payroll and the parties grid: `BeginSave`, then
for each week in order `PassOver` (blank and no row), `MarkWeek` (written or
deleted, after a wait for whoever has written the row), `RejectSave` (no
number), and `CommitSave`. `KillSave` is a lost worker. `Ledger` is what this
promises: each save is taken at one moment as a whole (`Take`), or not at all
(`Fail`). One liberty is in it because the code takes it: a blank week is
deleted only if its row is committed when it comes to it, so it may keep what
another save filled in since this one began. `MonthSaves` implements `Ledger`
with `pending` and `filled` read off the saves under way.

### PartiesImports, Reviews, ScheduleStatus

`PartiesImports`: `ReceiveImport` stores the upload, `ReadHistory` reads the
weeks on record, `StoreSummary` stores the merge (`Merged`), `MarkImport` the
status; `FailImport`, `MissUpload` (deleted meanwhile), `KillImport`,
`DeleteImport`. `Reviews`: pages of two kinds over one template.
On the settings page modules are cards: `MoveCard` drags one before another,
`DropModule` adds one from the library. `SubmitTemplate` posts the layout the page
was opened with in the order of its cards (`Posted`), with a text changed or with a
button, whose number is still that of the place its card was rendered at;
`SubmitButton` is a button without the page's script, `SubmitNote` one text and its
place on the review page; `SaveTemplate` and `SaveNote` come later, as each request
reads and writes in two statements. `ScheduleStatus`:
`Switch` (systemctl has been called), `StartRun` and `FinishRun`, and the report
of each in three steps, `ReadStatus`, `EmptyStatus` and `WriteStatus`, since
`write_text` empties the file first. The variables `filled`,
`raced`, `touched`, `sole` and `orderly` serve properties only: no action reads
them but to keep them.

## What the runs show

Passing runs:

| Run | Instance | Shows |
| --- | --- | --- |
| `BackupTool_restore` | A full restore and a nightly run, or that and a prune by hand; two old sets, of which the newer may be damaged, 2 versions, 2 seconds, 2 suffixes, keep 1 | The flock excludes writers, partial directories are neither stolen nor left over (`PartialsOwned`), published sets are whole; a broken database or media directory has the restore to blame, also when the nightly prune takes its sets away (`BrokenExplained`); however listings and removals of prunes interleave, a set goes only while a newer one is there (`PruneKeepsNewest`); each step is one of `Safekeeping` (`KeepsSafe`) |
| `BackupTool_live` | Two full restores at once, 1 version, 1 second, 3 suffixes, under fairness | Broken live data always has a restore to blame, or two that replaced the media at a time; each invocation ends and the flock comes free |
| `BackupPages_tokens` | 2 workers, 2 identifiers, 2 tokens | A confirmation is repeated only after a restore took its token out of the table; uploads replace nothing; sets that do not verify are accounted for |
| `ReportUploads_requests` | 2 workers; weekly sales of 2 periods under one file name and gift cards of one of them, a second name, one summary of an earlier release, 2 calendars | Status, file and figures agree, and figures are of the upload's own PDF (`FiguresMatchRows`, `FilesMatchRows`); failures are recorded; deleted uploads stay deleted |
| `Readings_history` | Documents of 4 rows of 3 cells, up to 3 page breaks, all 5 formats; or 2 workers, 4 uploads, a week of 2 days, a legacy segment | Nobody gets another's figures, and rows that are not torn have theirs in their columns (`OwnFigures`); rows within a reader's reach that no incomplete row takes for a value are read, and so is the period (`TextRead`). Stored segments and Gantts stay listed (`DataListed`); MO and segment deletes remove only their own data |
| `ReportPages_weeks` | Every day of 2020 to 2047, 7 settings; or 3 changes over 4 weeks in 2 fiscal and 2 calendar years; or 3 changes over 3 of these weeks, 2 pages being made | Weeks are numbered 1 to 53 and follow one another; payroll, dashboards and parsers agree with them where they should. The dashboard ends with its week; what is left of the fiscal year adds up in weeks, months and quarters (`YearAddsUp`); two pages give a person the same totals (`PagesAgree`). A page brings gift-card figures up to date (`ViewFillsFigures`) |
| `Assistant_chat` | 2 tabs, 2 questions, 5 reports of 3 weeks in 2 months, limits of 2 | Conversations stay whole and the stored one is the end of one of them (`StoredChat`); for every selection of weeks the figures are of the sales stored for these weeks (`DashboardShowsWeeks`) and add up; a month within the reports read is exact; every question ends |
| `Entries_pages` | 2 saves of 2 weeks with 2 figures; 3 imports of 3 documents; 2 pages and 2 edits of a layout of 3 modules, whose cards are dragged; 2 invocations of the schedule script | Month saves implement `Ledger` (`SavesAreAtomic`); recorded weeks differ only by a race, and every difference is marked (`HistoryAgrees`); texts are lost only to a copy made too early, or to a button pressed after a drag (`TextsKept`); the status tells of the timer what is true (`StatusTrue`) |

Runs that end in a counterexample (the quotations are in `PROJECT.json`):

| Run | Statement | What the code does |
| --- | --- | --- |
| `BackupTool_overlap` | The flock prevents overlap | A restore gives its flock back with the safety backup's subshell, before the database is touched: the nightly run archives while it is loading |
| `ReportUploads_dpt` | The gift-card page shows the DPT of the week's sales report | A DPT that is there is never read again, whatever becomes of the report it is from |
| `ReportPages_person` | The table has the selected person's figures | A report that does not list the person gives those of its first row |
| `Entries_note` | A note is saved in the module it was written in | The review page leaves out modules that are turned off and counts places without them; the save counts them all. The note lands in another module or nowhere |

The modules state more of what the repository says of the program and the code
does not keep. Nothing rests on these definitions. To see one fail, put it in the
place of the properties of the configuration named beside it (as `INVARIANTS`, or as
`PROPERTIES` where it begins with `[]`); TLC finds each of them violated:

| Definition | Configuration | Statement | What the code does |
| --- | --- | --- | --- |
| `CompleteMeansWhole` | `BackupTool_live` | A full restore that is complete has restored the media | Two of them move files into and out of the directory at a time, and both say they are complete over a mixture |
| `KeepsVerifiedSets` | `BackupTool_restore` | The newest verified sets are kept | Every directory counts, a damaged one too: a good set goes while fewer than `Keep` good ones are newer |
| `SafetySetStays` | `BackupTool_restore` | A restore that fails restores its safety backup | A prune may have removed that set meanwhile |
| `OriginalKept` | `ReportUploads_requests` | The original of a listed upload can be downloaded | A delete broke off after it removed its file, another upload took the name, and deleting the first one removes the file of the second |
| `ReportListed` | `Readings_history` | Deleting an import deletes its data | Two uploads are stamped in one order and stored in the other: with both deleted the report is still there, and in no list |
| `InColumns` | `Readings_history` | A row's figures are in its columns | The store number of a footer completes a row that a page break has cut |
| `OpensTodaysMonth` | `ReportPages_weeks` | Payroll opens with the month that has today | On days of the next year's first payroll week it opens with month 12 of the year that ends |
| `YearIsFiscal` | `ReportPages_weeks` | The year's table has the totals of the selected fiscal year | Rows are cut to the calendar year of the latest report |
| `MonthExact` | `Assistant_chat` | Common questions are answered with exact data | A month of which only some reports are among the latest is added up from these and given as the month |
| `RemovesItsModule` | `Entries_pages` | "Remove" removes the module of its card | After a drag it removes the module that stands where the card stood |
| `ConflictSurfaced` | `Entries_pages` | A later upload with other figures is marked a conflict | Two uploads that read the history before either stores are not |
| `FailureVisible` | `Entries_pages` | Failures leave their reason visible | It is lost to a report that was read before and written after it, or cut short |

### Bounds, and why they are enough

- *Two actors.* Each property of a shared resource speaks of one holder and one
  intruder, and each property of a row of one request and one other. The
  theorems have no bound on the actors.
- *BackupTool.* Two seconds and two suffixes give identifiers that collide, that
  follow one another, and that are older than the sets already there. Keep 1
  makes the nightly prune remove something. The two restores have one second
  and three suffixes, so that both safety sets fit beside the old set. The nightly
  prune and the one by hand have two old sets, so that a listing grows old both by a
  removal and by a new set. Once the
  suffixes are used up no new invocation could pick an identifier, which the
  script's endless loop would; invocations are few enough that it never
  matters.
- *BackupPages.* `Nonces` bounds the number of tokens. Two are enough for a
  restore and for another confirmation that the restore makes the database
  forget. Sets may be published without bound but for their identifiers.
- *ReportUploads.* `Uploads` bounds the uploads ever made. The two weekly sales
  reports have weeks of their own under each calendar, but compete for a week
  when the settings change between their parses. They share a file name; a second
  one is there for when it is taken.
- *MissedOps.* `Stamps` bounds the uploads. Four are needed for two segment
  uploads for different days, between two MO reports.
- *FiscalCalendar.* Weekdays and leap years recur every 28 years within a
  century; the seven settings are none, both ends of the year and the days
  around the 29th of February. The theorems cover all start dates, all
  boundaries but one (below) and all years, centuries included.

- *Assistant.* Two tabs and two questions are needed for an answer to meet a new
  chat, a reload or another tab's copy. The limits of 2 are below the number of
  reports, weeks and turns there are, so each of them cuts something off. Sales
  are of weeks 1 and 2 and gift cards of weeks 1 to 3, so that a week that can be
  selected lies outside the window.
- *ReportText.* Three rows give one before, one on and one after a page break;
  the fourth is an associates' totals. Three cells give a first, a middle and a
  last one. Rows of 3 and of 23 cells go through the same states of a reader,
  which counts cells and compares with the width.
- *ReportPages.* Four weeks lie in two fiscal and two calendar years, so that the
  later fiscal year is cut, and in more than one month and quarter of what is left;
  a dashboard of 2 leaves weeks out. Two pages being made need three of the weeks, and
  it matters only whether a gift-card report lists anybody. Three changes are two reports that belong
  together and a third that comes between, replaces or deletes one.
- *MCEntries.* Two weeks and two saves are the least for a mixture and for a
  wait in a circle; three imports are the least for a race beside a history.
  `MaxEdits` 2 is the edit that loses and the one that is lost; it also ends the
  dragging. `MaxCards` 3 is one card more than the layout has.

### Fairness and deadlock

`FairSpec` of `BackupTool` assumes weak fairness of each
invocation's own steps, the end of a killed shell's children included. The
script waits for nothing but its commands (the flock is taken with `-n`), and
`pg_dump`, `pg_restore`, `tar` and `rm` end. Nothing is assumed of the clock, of
kills, or of the application.

`Spec` of `Assistant` assumes that the server takes each request (`Build`), that
gunicorn's timeout ends one that waits for the external model
(`WorkerTimeout`), and that the browser takes what it is sent (`Receive`).
Nothing is assumed of the model: it may never answer.

`MonthSpec` assumes strong fairness of the steps of each save, as PostgreSQL
serves those who wait for a row in turn. Since all saves go through the weeks in
one order, nobody waits in a circle; `Ledger`'s fairness, that every save ends,
follows. It is only model-checked.

The other modules claim no liveness: their requests have no loops and wait on
nobody.

Deadlock is checked in `ReportUploads_requests` and `Assistant_chat`. In the others
the system may stop: invocations of the tool end and the model starts no
new ones, a database whose restore and rollback both failed leaves the page
nothing to do, a document ends, and the bounds on uploads, imports and edits
stop what needs new ones.

## What is proved

The `_proofs` modules prove, for all values of the constants that satisfy the
named assumptions of their module, every safety property the passing runs check,
the refinement of `Safekeeping`, and that of `Ledger` but for its fairness. Each
rests on an invariant that every step keeps and that holds at first. The
assumptions say of which kind the constants are and that the special values
(`None`, `NoDir`, `Truncated`, ...) differ from the ordinary ones. Some are more
than that:

- `MissedOps` proves `OwnDataErased` under the assumption that file names are
  distinct, stated in the theorem.
- `FiscalCalendar` excludes one boundary (`BoundaryAssumption`).
- `Assistant` reads at least as many reports of a kind as its dashboard has weeks
  (`LimitAssumption`; a question reads eight for six; the page itself is opened
  with four, of which only the names of figures are passed on), and stores one
  report for each kind and week, as the database does (`LibraryAssumption`).
  Figures are numbers and associates finitely many (`FiguresAssumption`).
- In `ReportPages` fiscal years follow each other (`YearsAssumption`, which
  `FiscalCalendar` proves of the settings as `WeeksAdvance`), and so do the months
  in which weeks end (`MonthsAssumption`).

The type invariants of `BackupTool`, `BackupPages`, `ReportUploads` and
`FiscalCalendar` are only proved, and so are those of the parts of `MCEntries`,
of `Assistant`, `ReportText` and `ReportPages`, whose runs check what is built on
them.

- **BackupTool** (`TypeCorrect`, `LockExcludesWriters`, `PartialsAreOwned`,
  `PublishedSetsAreWhole`, `BreakageIsExplained`, `RetentionHolds`,
  `ToolKeepsSafe`). The inductive invariant joins the
  checked invariants with `RestoreOnly` (the job of an invocation and where it
  can be) and `Filled` (what a partial directory holds once it is dumped and
  archived). That no partial directory is stolen rests on the flock: `Prepare`
  removes them all, and whoever has one holds the lock. Retention has an
  invariant of its own, `PruneInv`: each victim a prune has listed has at least
  `Keep` newer sets. Removing another victim cannot break it: if that one is
  newer, the `Keep` sets newer still are there. These sets are any directories,
  damaged ones included, as the script counts them. It therefore holds for prunes by
  hand as well, which take no lock, and for any number of them. The refinement
  maps every action to a step of `Safekeeping` or to none. It rests on these two
  invariants and on two more: whoever has the flock is where it is needed
  (`HolderLocked`), so that a restore past its safety backup has no copy to lose;
  and while someone loads, the database is half-loaded (`LoadingMixed`), so that
  a load does not end over what another restore has made of it.
- **BackupPages** (`TypeCorrect`, `DamagedSetsAccounted`, `RepeatsNeedARestore`,
  `UploadsAreSafe`). Repeats rest on `Remembered`: tokens acted upon and not
  forgotten are in the table.
- **ReportUploads** (`TypeCorrect`, `FiguresFollowRows`, `FailuresAreRecorded`,
  `FilesFollowRows`, `DeletedUploadsStayDeleted`). The strengthening says what
  a request between two statements may rely on: at most one request inserts an
  upload (`InsertAlone`), which still has the file it stored unless another row
  with its path took that away (`InsertHasFile`), a delete past `Unlink` has no
  file (`Unlinked`), a request about to mark an upload parsed has stored its
  summary (`MarkAfterStore`), and the figures in its hand are of its own upload's
  PDF, with the same exception (`FiguresInHand`).
- **MissedOps** (`TypeCorrect`, `DataCanBeDeleted`, `DeletesRemoveTheirOwn`). The
  strengthening orders time: stamps in use are
  past (`StampsPast`), no import of its day is newer than a stored segment
  (`SegmentNewest`), and a delete of the import the stored segments came from
  found no newer one (`EraseInformed`).
- **FiscalCalendar** (`CalendarTypeCorrect`, `WeeksAreNumbered`, `WeeksFollow`,
  `PayrollWeeksAgree`, `PayrollOpensWithToday`, `TargetWeekIsOver`,
  `CalculatorsAgree`). Payroll opens with the month that has today unless no month
  of this year or the next has it, or the next year's payroll has begun before its
  fiscal year; `OpensTodaysMonth`, which is false, is
  without these exceptions. They rest on `Bracket`: a day lies between the start of its
  fiscal year and the start of the next. These starts are 364 to 371 days apart,
  under any start date and any boundary.
- **MonthSaves** (`MonthInvariance`, `SavesImplementLedger`). The invariant says what
  a save knows at each week: what it has written is what its form says
  (`WrittenAsEntered`), and a week it passed over is blank in the form and has no
  row, unless another save has filled it in since (`OthersBlank`). At the commit
  this covers the whole month, so the commit is `Ledger`'s `Take`, with the weeks
  passed over that are filled by now as those kept. Every other step is `Begin`,
  `Fail` or unseen. `BlankAssumption` says that the value for "nothing pending"
  is no form. The locks are not needed for this; they are for the fairness half,
  which is only checked.
- **PartiesImports** (`HistoryStaysAgreed`). A summary is the merge of what its
  import read and of its PDF (`SummaryMerged`). What an import read is, week by
  week, what all summaries say, except those stored since it read (`raced`) and
  weeks over which two imports have raced before (`KnowsHistory`, `RaceOn`). So
  the summary it stores agrees with all of those; and the property itself is the
  third part of the invariant, as `KnowsHistory` of the next import rests on it.
- **Reviews** (`TextsStayKept`). What a request is about to save has every text
  it has seen, but those its own edit replaces (`FormKeeps`). A text that a save
  takes away was therefore never seen by it, or edited by it, or is that of the
  module a button hit on a page whose cards had been moved (`Mistaken`).
- **ScheduleStatus** (`StatusStaysTrue`). An invocation that overlaps another
  switch, or writes beside another, knows of it and spoils `orderly`
  (`OverlapNoticed`). Otherwise the timer is as the last switch left it
  (`TimerSwitched`), and what an invocation has read before it empties the file is
  what it will write back (`ReportTrue`).
- **ReportText** (`FiguresAreTheirOwn`, `RowsAreRead`). A reader in the middle of a
  row has exactly the cells of the row that have been printed, unless that row is
  torn (`InTheRow`): by a page break, a blank cell or an odd line. An associate's
  torn row may be completed by other numbers, and is kept then, but by no figure
  of another's row (`NoOthers`); a segments' or a ranking's one ends the table.
  `Fine` says that rows kept are in their order and, unless torn, have their own
  cells, `NotMissed` and `WholeKept` that a row that can be read is being read or
  has been, those aside that an incomplete row takes for a value (`Swallowed`). A document may have any number of rows, columns and breaks.
- **ReportPages** (`PagesStayTyped`, `DashboardEndsWithItsWeek`, `PagesGiveTheSame`,
  `ViewsFillTheirFigures`). The first two need that summaries can be put in
  order (`Numbered`, then `Positions`: a place in the order is the number of
  those before), and that `Through`, which compares fiscal years and weeks of
  years, is the order of weeks (`ThroughIsUpTo`). The last one follows a page's
  work list: a gift-card report shown without its figures is still to be read
  (`StillToRead`), its week's sales will then be found (`SalesFound`), and what
  one page has come after, no other page overwrites in ignorance (`SeenByAll`).
  The year's report (`YearsAddUp`) is about a loop: what it has gathered after
  each report is a function, shown to exist and to follow its equation
  (`GatheredExists`), and an invariant of the loop is shown with it
  (`GoesThrough`): the rows of a part and what is still being gathered cover the
  reports seen, in order, each of one period. These are the reports of the latest
  fiscal year that end in its latest calendar year; that the others are left out too is
  against `YearIsFiscal`. As later rows are of later periods
  (`PeriodsApart`), a month or quarter has one row; after the last report nothing
  is left over.
- **Assistant** (`ChatsStayWhole`, `DashboardShowsItsWeeks`,
  `DashboardTotalsAddUp`, `RecentMonthsAreExact`). `ChatInv` says that
  conversations are questions and answers in turn and that the stored copy is the
  end of one of them; an even limit (`TurnAssumption`) keeps that end whole. The
  dashboard needs more than its own code: only the latest reports of a kind are
  read, so a week shown might be missing. Reports of one kind that are newer than
  a report of the window are of as many different weeks, up to the last one; they
  are fewer than the window has weeks, hence fewer than are read (`ShownAreRead`).
  Totals are sums over sets of reports. What is needed of sums (the element taken
  first does not matter, disjoint parts add up, a renaming changes nothing) is
  shown by a smallest counterexample: an induction written out, since the
  library's rules of induction take an operator.

Only model-checked are:

- what holds eventually (`EveryInvocationEnds`, `LockComesFree`, `QuestionsEnd`,
  and the fairness in `SavesAreAtomic`), which TLAPS cannot prove;
- the counterexamples, those of the statements without a run among them.

## Observed

Behaviour met while modelling that no statement above is about.

- *Two backups in one second.* If the directory of an identifier appears after
  it was looked up, `mv "$temp" "$dir"` succeeds and puts the new set inside
  the old one, where no listing finds it (`Publish`).
- *Time limit.* The page's time limit kills the shell of a restore, not
  `pg_restore`. Killed between the reset and the load, it leaves the
  database empty without a rollback (`Kill` and `Die`).
- *Media.* When moving the originals out fails half-way, those already moved are
  deleted with their temporary directory (`FailSwap`).
- *The probe is a holder.* `_backup_in_progress` takes the flock, so two
  requests that probe at the same moment, or a nightly run that starts during a
  probe, are refused although no backup runs.
- *Discard.* An upload that does not verify removes what is published under its
  identifier by then, which can be another upload after a delete (`Discard`).
- *Leftovers.* A worker killed while unpacking an upload leaves its `.import-*`
  directory, which nothing removes.
- *After a restore* the session of the request itself may be gone from the
  database; the answer is then a 400 or a 500 although the restore succeeded.
- *MO deletes of one name.* Two imports of the same file name count as one
  source: a delete that found no newer import removes the report of an upload
  that came in between, if that has the same name.
- *Gantt deletes* remove the day's Gantt whichever import it is of: deleting an
  old import removes the data of a newer one, which stays listed (`EraseGantt`).
- *Segments of stale days.* A segment upload keeps the opportunity days it read
  before its PDFs were parsed; an MO report replaced meanwhile is not looked at
  again (`BeginSegments`, `FillSegments`).
- *Refresh after a change of settings.* A page that parses again a summary whose
  new week another upload still has runs into the unique constraint and answers
  500 (`StoreRefresh`).
- *Week 53.* With a start date, week 53 has one or two days. A dashboard about
  it shows a period of seven, which runs into week 1 of the next year. Payroll
  has no month for a 53rd week.
- *Reminders.* The payroll and parties reminders look for rows of the current
  fiscal year only. They are red for the first days of a year, until its first
  payroll week is entered, although the last completed week is there.
- *Boundary.* The rule "nearest" with December can put a boundary into the next
  January, and the days up to it into week 0. No form offers the boundary's
  fields and the defaults differ; `BoundaryAssumption` leaves this one out. The check of the
  weekday treats Monday (0) as missing.

*Backups*

- *A safety dump cut short* goes unnoticed, since errexit is off in the command
  substitution and verification reads a dump's table of contents only: the reset
  may be carried out with a safety backup that cannot be loaded (README.md:231
  promises one that is verified).
- *A confirmed restore can be carried out twice* with one token: it replaces the
  table its own token was entered in (tests/test_backup_page.py:282 expects once).

*Uploads and calendars*

- *Start dates changed later* do not reach weeks already parsed: a summary of the
  current parse version keeps the week of the old calendar when it is viewed
  (tests/test_report_routes.py:799 says viewing repairs it).
- *Two calendars without a start date*: parsers count from January 1 and settings
  and dashboards from the end of January (settings/page.html:131,
  reports/fiscal.py:92 describe one).

*Assistant*

- *Timeouts.* The server is started without `--timeout` (30 s by default;
  compose.portainer.yml:4), while the request to the model waits 60 s (ai.py:693):
  a slow answer ends as a broken connection, and three of them hold all workers.
- *Month names.* A month without a year resolves in January to the coming
  December.
- *Figures by name.* Of several raw rows with one name only the first one counts.
  The six-week figures are computed and then left out of what is sent.
- *Limits.* The cap on the context is measured on compact JSON, which is then sent
  indented; rows of the newest report are dropped first. The conversation's cap
  drops the newest turns once the older ones use it up.
- *An answer under way* when a new chat is begun opens the new chat.
- *Dates inside a source's name* are never found: the patterns are anchored.

*Report text*

- *Segments and ranking* stop at the first footer after a row or store: what is on
  later pages is lost. In segments a blank cell takes the first of the next row,
  in a ranking a value line that begins with three digits and has more to it is
  taken for a store.
- *Associates* whose row a page break cuts, or with a blank cell, are completed by
  the footer's store number or by the next line, if that is an associate or a total
  in one line (`ValueOf`), which is itself not read then; otherwise they are dropped
  without notice.
- *Weekly sales* with a label twice keep the later one.
- *Parties* rows are numbered by their place: a line that is not recognised moves
  all later weeks (parties.py:45).

*Report pages*

- *Two reports of one week* are added up in the report pages; in the performance
  page the last one wins (`PerformanceRows`).
- *The selected week* is ignored by the bonus and gift table, payroll, parties
  and the missed-opportunities module of the review.
- *Gift-card figures.* A page opened before the sales report came can overwrite a known
  figure by none. A refresh of a deleted upload answers 500.
- *Order.* "Newest week first" is said of rows that come oldest first, and the
  filter for the last week takes the last summary of its kind only.
- `views.py` 1441-1556 and 1658-1767 are not reached from any page.

*Entries*

- *Blank weeks* of a month's form may keep what another save filled in
  (`Ledger`). `get_or_create` may meet a row that is deleted at once; the save
  then ends with a 500, rolled back.
- *Parties.* An upload killed between its summary and its mark stays pending.
- *Templates.* The page posts modules without `enabled` as turned off, so the
  first save of a new template turns all of them off. A page's save of a template
  deleted meanwhile creates it again; a note's ends with a 500.
- *Schedule status.* A killed run leaves "running". A report cut short also forgets
  that the timer is enabled and when it last succeeded. `systemctl disable` may
  fail unnoticed while the status says disabled.
- *Products.* An upload finds its week by its number alone, across years.

## What is not modelled

- Commands that change nothing: `verify`, `list`, `latest`, `status`, dry runs,
  downloads, and the pages that only read.
- In `BackupTool`: a failing `mv` at the end of a restore's safety backup, and
  writes of the application to a half-loaded database.
- In `BackupPages`: the age of tokens and sessions, and the restore mode. A page
  may show any selection made before, and sets are complete ones.
- In `FiscalCalendar`: names of months, and periods chosen in a query string.
- In `Assistant`: the wording of prompts, the probe of the endpoint, the text
  about a sales report, and that the queries of one context run without a
  transaction.
- In `ReportText`: formats of numbers and dates, column headers, labels, and the
  layout of the payload. The parties, product and missed-opportunity readers go
  by the coordinates or the numbers of a line.
- In `ReportPages`: charts, PDF files, highlights and number formats.
- In `Reviews`: creating templates, their names and titles, and a note's page is
  posted in the order shown (it has no dragging).
- The product report is replaced in one transaction under the lock of its row, and
  the relabelling migrations run once before the server starts: no other step can
  come between.
- The missed-opportunities review joins what `MissedOps` stores and keeps nothing.
- Navigation, forms, templates and the admin render.

## Plan

Done, in this order: `BackupTool`, since it can lose everything; `ReportUploads`
and `MissedOps`, where most writes happen; `BackupPages`, which composes the
page with the tool in outline; `FiscalCalendar`, which `ReportUploads` takes as
its constant `WeekOf`; `Assistant` with `SixWeeks`; `ReportText`, what the
parsers do with a document; `ReportPages`, what is made of their figures; and
the entries, with the first refinement.

Then the proofs: first those of each component as it was modelled, last those of
`PartiesImports`, `ScheduleStatus`, `Reviews`, `ReportText`, `ReportPages` and
`Assistant`, and of these the totals and the year's report, which needed
inductions; and `Safekeeping`, which `BackupTool` implements.

Next:

1. The tool's outline in `BackupPages` as another refinement of `Safekeeping`, so
   that the two models of the tool need not be kept in step by hand.
2. `MissedOps` as a refinement: an abstract store in which each upload is taken as
   a whole, and what the three histories promise of it.
3. The join of the missed-opportunities review as operators.
