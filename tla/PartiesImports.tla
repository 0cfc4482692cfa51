--------------------------- MODULE PartiesImports ---------------------------
(***************************************************************************)
(* apps/reports/parties_views.py: an uploaded Parties PDF lists the weeks  *)
(* of a fiscal year.  Weeks that are on record already keep the figures    *)
(* recorded, and the import whose own differ is marked as a conflict.      *)
(* Imports of different fiscal years do not meet: there is one here.       *)
(***************************************************************************)
EXTENDS Integers, FiniteSets

CONSTANTS
  Imports,   \* the uploads, 1..n in the order of their rows
  Documents  \* what a PDF may hold: [week, rows], rows from weeks to figures

ASSUME ImportsAssumption == IsFiniteSet(Imports) /\ Imports = 1..Cardinality(Imports)

\* The week a PDF names is a number, and a week listed twice counts once.
ASSUME DocumentsAssumption ==
  \A doc \in Documents : doc.week \in Nat /\ doc.rows = [w \in DOMAIN doc.rows |-> doc.rows[w]]

VARIABLE imports  \* [step, doc, history, raced, rank, rows, status]

importVars == <<imports>>

\* history is what was read; rank is 0 until the summary is stored, and then its
\* place in the order of ids; rows is what it holds.  raced is kept for
\* HistoryAgrees only: the imports stored between this one's read and its store.
NotReceived == [step |-> "none", doc |-> <<>>, history |-> <<>>, raced |-> {}, rank |-> 0,
                rows |-> <<>>, status |-> "none"]

ImportsInit == imports = [i \in Imports |-> NotReceived]

\* The summaries: deleting an upload deletes its summary.
Stored == {i \in Imports : imports[i].rank > 0 /\ imports[i].status # "deleted"}

\* Ordered by fiscal week and id.
Precedes(i, j) ==
  \/ imports[i].doc.week < imports[j].doc.week
  \/ imports[i].doc.week = imports[j].doc.week /\ imports[i].rank <= imports[j].rank

\* Of each week the row of the first summary that lists it.
Listing(w) == {i \in Stored : w \in DOMAIN imports[i].rows}
History ==
  [w \in UNION {DOMAIN imports[i].rows : i \in Stored} |->
     imports[CHOOSE i \in Listing(w) : \A j \in Listing(w) : Precedes(i, j)].rows[w]]

\* Mutant: the PDF's figures replace those on record.
Merged_Incoming(history, incoming) ==
  [w \in DOMAIN history \union DOMAIN incoming |->
     IF w \in DOMAIN incoming THEN incoming[w] ELSE history[w]]

Merged(history, incoming) ==
  [w \in DOMAIN history \union DOMAIN incoming |->
     IF w \in DOMAIN history THEN history[w] ELSE incoming[w]]

Conflicts(history, incoming) ==
  {w \in DOMAIN history \intersect DOMAIN incoming : history[w] # incoming[w]}

ReceiveImport(i, doc) ==
  /\ imports[i].step = "none"
  /\ \A j \in 1..(i - 1) : imports[j].step # "none"
  /\ imports' = [imports EXCEPT ![i].step = "received", ![i].doc = doc, ![i].status = "pending"]

\* The PDF cannot be read or names no fiscal week.
FailImport(i) ==
  /\ imports[i].step = "received"
  /\ imports' = [imports EXCEPT ![i].step = "ended",
                                ![i].status = IF @ = "deleted" THEN @ ELSE "failed"]

ReadHistory(i) ==
  /\ imports[i].step = "received"
  /\ imports' = [imports EXCEPT ![i].step = "read", ![i].history = History]

StoreSummary(i) ==
  /\ imports[i].step = "read"
  /\ imports[i].status = "pending"
  /\ imports' = [j \in Imports |->
       IF j = i
       THEN [imports[i] EXCEPT !.step = "stored", !.rows = Merged(imports[i].history, imports[i].doc.rows),
                               !.rank = Cardinality({k \in Imports : imports[k].rank > 0}) + 1]
       ELSE [imports[j] EXCEPT !.raced = IF imports[j].step = "read" THEN @ \union {i} ELSE @]]

MarkImport(i) ==
  /\ imports[i].step = "stored"
  /\ imports[i].status = "pending"
  /\ imports' = [imports EXCEPT ![i].step = "ended",
       ![i].status = IF Conflicts(imports[i].history, imports[i].doc.rows) = {} THEN "parsed" ELSE "conflict"]

\* The upload is gone, and neither its summary nor its status can be stored.
MissUpload(i) ==
  /\ imports[i].step \in {"read", "stored"}
  /\ imports[i].status = "deleted"
  /\ imports' = [imports EXCEPT ![i].step = "ended"]

KillImport(i) ==
  /\ imports[i].step \in {"received", "read", "stored"}
  /\ imports' = [imports EXCEPT ![i].step = "ended"]

DeleteImport(i) ==
  /\ imports[i].status \notin {"none", "deleted"}
  /\ imports' = [imports EXCEPT ![i].status = "deleted"]

ImportsNext ==
  \E i \in Imports :
    \/ \E doc \in Documents : ReceiveImport(i, doc)
    \/ FailImport(i)
    \/ ReadHistory(i)
    \/ StoreSummary(i)
    \/ MarkImport(i)
    \/ MissUpload(i)
    \/ KillImport(i)
    \/ DeleteImport(i)

ImportsSpec == ImportsInit /\ [][ImportsNext]_importVars

(***************************************************************************)
(* Properties                                                              *)
(***************************************************************************)
Differ(i, j, w) ==
  /\ w \in DOMAIN imports[i].rows \intersect DOMAIN imports[j].rows
  /\ imports[i].rows[w] # imports[j].rows[w]

\* Two stored summaries give one week different figures only where one import
\* was stored while another had read the history and not stored its own.
AgreeUnlessRaced ==
  \A i, j \in Stored : \A w \in DOMAIN imports[i].rows :
    Differ(i, j, w) =>
      \E k \in Imports : \E l \in imports[k].raced :
        w \in DOMAIN imports[k].rows \intersect DOMAIN imports[l].rows

\* An import is marked as a conflict exactly if the summary stored for it gives
\* some week other figures than its own PDF.
DifferencesMarked ==
  \A i \in Stored : imports[i].status \in {"parsed", "conflict"} =>
    (imports[i].status = "conflict"
       <=> \E w \in DOMAIN imports[i].doc.rows : imports[i].rows[w] # imports[i].doc.rows[w])

\* However imports, deletions and lost workers follow each other, _parse lets a
\* week have two histories only by the race of two imports, and lets no PDF's
\* figures be passed over without the mark.
HistoryAgrees == AgreeUnlessRaced /\ DifferencesMarked

\* Of two PDFs with different figures of a week one is marked, as
\* tests/test_parties.py:206 has it: "later_parties_upload_surfaces_historical_conflict".
ConflictSurfaced ==
  \A i, j \in Stored : imports[i].status = "parsed" /\ imports[j].status = "parsed" =>
    \A w \in DOMAIN imports[i].doc.rows \intersect DOMAIN imports[j].doc.rows :
      imports[i].doc.rows[w] = imports[j].doc.rows[w]
=============================================================================
