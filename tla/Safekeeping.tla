----------------------------- MODULE Safekeeping -----------------------------
(***************************************************************************)
(* What the backup tool promises of the sets it keeps and of the live data *)
(* it touches, whoever runs it.  One invocation at a time makes a copy,    *)
(* and a copy becomes a set as a whole.  Sets never change, except that a  *)
(* disk damages them, and go only while enough newer ones stay.  The live  *)
(* data belongs to the application: only a restore that has published its  *)
(* own safety backup touches it, and with nothing but what sets hold.      *)
(***************************************************************************)
EXTENDS Naturals, FiniteSets

CONSTANTS
  Procs,      \* invocations of the tool
  Restorers,  \* those asked for a restore
  Ids,        \* <<second, suffix>> of each set there can be
  Versions,   \* complete states of the database and of the media directory
  Keep,       \* how many newer sets a set must have to go
  Empty,      \* a database that was reset
  Mixed,      \* half of one state and half of another
  Truncated,  \* a file cut short
  Absent,     \* no file
  NoDir,      \* no set, or no copy
  NoOne       \* nobody

VARIABLES
  sets,       \* the published sets
  db,         \* live database
  media,      \* live media directory
  holder,     \* who may make a copy
  work,       \* its copy so far
  secured,    \* the restores that have published their safety backup
  dump,       \* the dump each restore has last opened
  tree,       \* the archive each restore has last unpacked
  originals,  \* the media each restore has moved aside
  replacing,  \* the restores that are replacing the media directory
  crossed     \* those that did so while another one did

vars == <<sets, db, media, holder, work, secured, dump, tree, originals, replacing, crossed>>
copying == <<holder, work>>
opened == <<dump, tree, originals>>
swaps == <<replacing, crossed>>

Newer(i, j) == i[1] > j[1] \/ (i[1] = j[1] /\ i[2] > j[2])
NewerSets(i) == {j \in Ids : sets[j] # NoDir /\ Newer(j, i)}

Init ==
  /\ \A i \in Ids : sets[i] = NoDir \/ (sets[i].db \in Versions /\ sets[i].media \in Versions)
  /\ db \in Versions /\ media \in Versions
  /\ holder = NoOne /\ work = NoDir
  /\ secured = {}
  /\ dump \in [Procs -> Versions] /\ tree \in [Procs -> Versions] /\ originals \in [Procs -> Versions]
  /\ replacing = {} /\ crossed = {}

Hold(p) ==
  /\ holder = NoOne
  /\ holder' = p
  /\ UNCHANGED <<sets, db, media, work, secured, opened, swaps>>

Begin(p) ==
  /\ holder = p /\ work = NoDir
  /\ work' = [db |-> Absent, media |-> Absent]
  /\ UNCHANGED <<sets, db, media, holder, secured, opened, swaps>>

\* Only the safety backup of a restore may go on with a file cut short.
CutShort(p) == IF p \in Restorers THEN {Truncated} ELSE {}

Copy(p) ==
  /\ holder = p /\ work # NoDir
  /\ \/ \E file \in {db} \union CutShort(p) : work' = [work EXCEPT !.db = file]
     \/ \E file \in {media} \union CutShort(p) : work' = [work EXCEPT !.media = file]
  /\ UNCHANGED <<sets, db, media, holder, secured, opened, swaps>>

\* The copy becomes a set under a free identifier; if its own was taken in the
\* meantime, it is lost inside that set, which stays what it was.
Publish(p) ==
  /\ holder = p /\ work # NoDir /\ work.db # Absent
  /\ p \notin Restorers => Truncated \notin {work.db, work.media}
  /\ \E i \in Ids :
       IF sets[i] = NoDir
       THEN sets' = [sets EXCEPT ![i] = [db |-> work.db, media |-> work.media, good |-> TRUE, by |-> p]]
       ELSE UNCHANGED sets
  /\ work' = NoDir
  /\ holder' \in {p, NoOne}
  /\ UNCHANGED secured \/ (p \in Restorers /\ secured' = secured \union {p})
  /\ UNCHANGED <<db, media, opened, swaps>>

Retire(i) ==
  /\ sets[i] # NoDir
  /\ Cardinality(NewerSets(i)) >= Keep
  /\ sets' = [sets EXCEPT ![i] = NoDir]
  /\ UNCHANGED <<db, media, copying, secured, opened, swaps>>

Decay(i) ==
  /\ sets[i] # NoDir
  /\ sets' = [sets EXCEPT ![i].good = FALSE]
  /\ UNCHANGED <<db, media, copying, secured, opened, swaps>>

\* The application commits a change to a database that is whole.
Change ==
  /\ db \in Versions /\ db' \in Versions
  /\ UNCHANGED media \/ (media \in Versions /\ media' = db')
  /\ UNCHANGED <<sets, copying, secured, opened, swaps>>

-----------------------------------------------------------------------------
\* A restore goes on, or ends with what it does.
OnOrOut(p) == secured' \in {secured, secured \ {p}}

\* A restore opens the dump of a set, and may empty the database for it.
Open(p) ==
  /\ p \in secured
  /\ \E i \in Ids :
       /\ sets[i] # NoDir
       /\ dump' = [dump EXCEPT ![p] = IF sets[i].good THEN sets[i].db ELSE Truncated]
  /\ db' \in {db, Empty}
  /\ UNCHANGED <<sets, media, copying, secured, tree, originals, swaps>>

\* A load that has begun, or has failed, leaves a part of a dump.
Spoil(p) ==
  /\ p \in secured
  /\ db' = Mixed
  /\ OnOrOut(p)
  /\ UNCHANGED <<sets, media, copying, opened, swaps>>

\* A load ends with all of one dump, in a database that is still half-loaded: one
\* that is whole, or that another restore has emptied, is never loaded over.
Load(p) ==
  /\ p \in secured
  /\ db = Mixed /\ dump[p] # Truncated
  /\ db' = dump[p]
  /\ OnOrOut(p)
  /\ UNCHANGED <<sets, media, copying, opened, swaps>>

Unpack(p) ==
  /\ p \in secured
  /\ \E i \in Ids :
       /\ sets[i] # NoDir /\ sets[i].good /\ sets[i].media \notin {Truncated, Absent}
       /\ tree' = [tree EXCEPT ![p] = sets[i].media]
  /\ originals' = [originals EXCEPT ![p] = media]
  /\ media' = Mixed
  /\ replacing' = replacing \union {p}
  /\ crossed' = IF replacing = {} THEN crossed ELSE crossed \union replacing \union {p}
  /\ UNCHANGED <<sets, db, copying, secured, dump>>

\* All of the archive is in place, and nothing else but beside another restore; or
\* the originals are back, or neither.
Place(p) ==
  /\ p \in secured \intersect replacing
  /\ \/ /\ media' = tree[p] \/ (media' = Mixed /\ p \in crossed)
        /\ secured' = secured \ {p}
     \/ media' \in {originals[p], Mixed} /\ UNCHANGED secured
  /\ replacing' = replacing \ {p}
  /\ UNCHANGED <<sets, db, copying, opened, crossed>>

\* An invocation ends: it leaves no copy behind, and touches nothing more.
Stop(p) ==
  /\ IF holder = p THEN holder' = NoOne /\ work' = NoDir ELSE UNCHANGED copying
  /\ secured' = secured \ {p}
  /\ replacing' = replacing \ {p}
  /\ UNCHANGED <<sets, db, media, opened, crossed>>

PowerLoss ==
  /\ holder' = NoOne /\ work' = NoDir /\ secured' = {} /\ replacing' = {}
  /\ UNCHANGED <<sets, db, media, opened, crossed>>

Next ==
  \/ \E p \in Procs :
       \/ Hold(p) \/ Begin(p) \/ Copy(p) \/ Publish(p) \/ Stop(p)
       \/ Open(p) \/ Spoil(p) \/ Load(p) \/ Unpack(p) \/ Place(p)
  \/ \E i \in Ids : Retire(i) \/ Decay(i)
  \/ Change \/ PowerLoss

Spec == Init /\ [][Next]_vars
=============================================================================
