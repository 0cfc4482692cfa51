----------------------------- MODULE BackupTool -----------------------------
(***************************************************************************)
(* scripts/bearbiz-backup.sh: the guarded backup tool.                     *)
(*                                                                         *)
(* Each member of Procs is one invocation of the tool (or of `run` of      *)
(* scripts/bearbiz-backup-schedule.sh, which calls the tool with its lock  *)
(* already held).  All invocations share BACKUP_ROOT (the published sets   *)
(* and the .partial-* directories), the flock on backup.lock, the live     *)
(* PostgreSQL database and the live media directory.                       *)
(*                                                                         *)
(* The contents of a database or of a media tree are abstracted to a       *)
(* version.  The script's `set -e` matters: it aborts a plain backup, but  *)
(* is off in the command substitution in which `restore` takes its safety  *)
(* backup and in the conditions in which `restore` loads a dump.           *)
(***************************************************************************)
EXTENDS Naturals, FiniteSets

CONSTANTS
  Procs,      \* invocations of the tool
  Job,        \* what each invocation was asked to do
  Versions,   \* complete states of the database and of the media directory
  Seconds,    \* values `date` can return, one per second
  Suffixes,   \* the -N appended to an identifier taken in the same second
  PreSets,    \* identifiers of the sets published before the first step
  Rotting,    \* identifiers whose files can be damaged on disk
  Keep,       \* --keep / RETENTION_COUNT
  Empty,      \* the database right after DROP SCHEMA ... CREATE SCHEMA
  Mixed,      \* a half-loaded database, or a half-replaced media directory
  Truncated,  \* a dump or archive cut short whose table of contents reads
  Absent,     \* no such file in the directory
  NoDir,      \* no such directory
  NoOne       \* nobody holds the flock, nobody is loading

Jobs == {"backup", "backup-db", "nightly", "prune", "restore-db", "restore-full"}
Ids == Seconds \X Suffixes

Databases == Versions \cup {Empty, Mixed}
MediaTrees == Versions \cup {Mixed}
Dumps == Databases \cup {Truncated}
Archives == MediaTrees \cup {Truncated, Absent}
\* A published set: its files, whether they match SHA256SUMS, who published it.
SetRecords == [db : Dumps, media : Archives, good : BOOLEAN, by : Procs \cup {NoOne}]
\* An unfinished one.
PartialRecords == [db : Dumps \cup {Absent}, media : Archives]

ASSUME JobAssumption == Job \in [Procs -> Jobs]
ASSUME ClockAssumption ==
  Seconds \subseteq Nat /\ Suffixes \subseteq Nat /\ 0 \in Seconds \cap Suffixes /\ Keep \in Nat
ASSUME IdAssumption == PreSets \subseteq Ids /\ Rotting \subseteq Ids
ASSUME FiniteAssumption == IsFiniteSet(PreSets)
ASSUME ValueAssumption ==
  /\ Empty \notin Versions \cup {Mixed, Truncated, Absent}
  /\ Mixed \notin Versions \cup {Truncated, Absent}
  /\ Truncated \notin Versions \cup {Absent}
  /\ Absent \notin Versions
  /\ NoOne \notin Procs
ASSUME NoDirAssumption == NoDir \notin SetRecords \cup PartialRecords

VARIABLES
  pc,         \* where each invocation is
  id,         \* the identifier create_backup picked for its new set
  target,     \* the set a restore was asked for
  lock,       \* holder of the flock on backup.lock
  partial,    \* BACKUP_ROOT/.partial-<id>.XXXXXX of each invocation
  sets,       \* BACKUP_ROOT/<id>
  db,         \* live database
  loader,     \* whose pg_restore filled the schema since the last reset
  media,      \* live media directory
  src,        \* contents of the dump a restore has open
  staged,     \* contents of the archive a restore has unpacked
  saved,      \* original media a restore moved aside
  crossed,    \* restores that replaced the media while another one did
  victims,    \* sets a prune has listed and still has to remove
  abandoned,  \* invocations whose shell was killed while a child runs on
  now         \* the clock `date` reads

vars == <<pc, id, target, lock, partial, sets, db, loader, media, src, staged,
          saved, crossed, victims, abandoned, now>>
live == <<db, loader, media>>
store == <<partial, sets>>
locals == <<id, target, src, staged, saved, crossed, victims>>

(***************************************************************************)
(* Program counters                                                        *)
(***************************************************************************)
CreatePcs == {"pick", "lock", "prepare", "dump", "tar", "seal", "publish"}
WritePcs == {"prepare", "dump", "tar", "seal", "publish"}
PrunePcs == {"list", "remove"}
LoadPcs == {"load", "loading", "rbreset", "rbload", "rbloading"}
RestorePcs == {"check", "reset", "swap", "swapping"} \cup LoadPcs
Terminal == {"done", "failed", "lost", "killed"}
Pcs == {"start"} \cup CreatePcs \cup PrunePcs \cup RestorePcs \cup Terminal

IsRestore(p) == Job[p] \in {"restore-db", "restore-full"}
DbOnly(p) == Job[p] = "backup-db"
Present == {i \in Ids : sets[i] # NoDir}

\* list_ids sorts the directory names in reverse, newest first.
Newer(i, j) == i[1] > j[1] \/ (i[1] = j[1] /\ i[2] > j[2])

\* The shell itself takes the next step; a killed shell takes none.
Alive(p) == p \notin abandoned
\* create_backup of a restore runs in a subshell, which outlives the shell.
CanCreate(p) == IsRestore(p) \/ Alive(p)
\* Where an invocation goes when a child that outlives the shell ends.
Then(p, next) == IF Alive(p) THEN next ELSE "killed"

Goto(p, next) == pc' = [pc EXCEPT ![p] = next]
At(p, where) == pc[p] = where
Release(p) == lock' = IF lock = p THEN NoOne ELSE lock

Init ==
  /\ pc = [p \in Procs |-> IF Job[p] \in {"backup", "backup-db"} THEN "pick" ELSE "start"]
  /\ id \in [Procs -> {<<0, 0>>}]
  /\ target \in [Procs -> {<<0, 0>>}]
  /\ lock = NoOne
  /\ partial = [p \in Procs |-> NoDir]
  /\ \E v \in Versions :
       sets = [i \in Ids |-> IF i \in PreSets
                             THEN [db |-> v, media |-> v, good |-> TRUE, by |-> NoOne]
                             ELSE NoDir]
  /\ db \in Versions
  /\ loader = NoOne
  /\ media = db
  /\ src = [p \in Procs |-> db]
  /\ staged = [p \in Procs |-> media]
  /\ saved = [p \in Procs |-> media]
  /\ crossed = {}
  /\ victims = [p \in Procs |-> {}]
  /\ abandoned = {}
  /\ now = 0

(***************************************************************************)
(* create_backup                                                           *)
(***************************************************************************)
\* The identifier is the current second, with the first suffix whose
\* directory does not exist.  It is chosen before the lock is taken, except
\* under the nightly run, whose lock the scheduler already holds.
PickId(p) ==
  /\ At(p, "pick") /\ CanCreate(p)
  /\ \E k \in Suffixes :
       /\ sets[<<now, k>>] = NoDir
       /\ \A j \in Suffixes : j < k => sets[<<now, j>>] # NoDir
       /\ id' = [id EXCEPT ![p] = <<now, k>>]
  /\ Goto(p, IF Job[p] = "nightly" THEN "prepare" ELSE "lock")
  /\ UNCHANGED <<target, lock, store, live, src, staged, saved, crossed, victims, abandoned, now>>

\* Mutant: flock's exit status is ignored.
AcquireLock_Unguarded(p) ==
  /\ At(p, "lock") /\ CanCreate(p)
  /\ lock' = p
  /\ Goto(p, "prepare")
  /\ UNCHANGED <<locals, store, live, abandoned, now>>

AcquireLock(p) ==
  /\ At(p, "lock") /\ CanCreate(p)
  /\ lock = NoOne
  /\ lock' = p
  /\ Goto(p, "prepare")
  /\ UNCHANGED <<locals, store, live, abandoned, now>>

\* Mutant: `local safety=$(create_backup)`, which hides that it failed.
LockRefused_Hidden(p) ==
  /\ At(p, "lock") /\ CanCreate(p)
  /\ lock # NoOne
  /\ Goto(p, Then(p, IF IsRestore(p) THEN "check" ELSE "failed"))
  /\ UNCHANGED <<locals, lock, store, live, abandoned, now>>

\* flock -n fails: the invocation gives up at once.  In a restore it is the
\* subshell that exits, and the shell follows it under set -e.
LockRefused(p) ==
  /\ At(p, "lock") /\ CanCreate(p)
  /\ lock # NoOne
  /\ Goto(p, Then(p, "failed"))
  /\ UNCHANGED <<locals, lock, store, live, abandoned, now>>

\* cleanup_partial_sets, then mktemp of the invocation's own directory.
Prepare(p) ==
  /\ At(p, "prepare") /\ CanCreate(p)
  /\ partial' = [q \in Procs |-> IF q = p THEN [db |-> Absent, media |-> Absent] ELSE NoDir]
  /\ Goto(p, "dump")
  /\ UNCHANGED <<locals, lock, sets, live, abandoned, now>>

AfterDump(p) == IF DbOnly(p) THEN "seal" ELSE "tar"

\* pg_dump reads one snapshot of the database.
Dump(p) ==
  /\ At(p, "dump") /\ CanCreate(p)
  /\ partial' = [partial EXCEPT ![p].db = db]
  /\ Goto(p, AfterDump(p))
  /\ UNCHANGED <<locals, lock, sets, live, abandoned, now>>

Tar(p) ==
  /\ At(p, "tar") /\ CanCreate(p)
  /\ partial' = [partial EXCEPT ![p].media = media]
  /\ Goto(p, "seal")
  /\ UNCHANGED <<locals, lock, sets, live, abandoned, now>>

\* Mutant: set -e is off in every backup.
DumpCutShort_Always(p) ==
  /\ At(p, "dump")
  /\ partial' = [partial EXCEPT ![p].db = Truncated]
  /\ Goto(p, AfterDump(p))
  /\ UNCHANGED <<locals, lock, sets, live, abandoned, now>>

\* In the subshell of a restore set -e is off: a failing pg_dump or tar is
\* not noticed, and its truncated output stays in the directory.
DumpCutShort(p) ==
  /\ At(p, "dump") /\ IsRestore(p)
  /\ partial' = [partial EXCEPT ![p].db = Truncated]
  /\ Goto(p, "tar")
  /\ UNCHANGED <<locals, lock, sets, live, abandoned, now>>

TarCutShort(p) ==
  /\ At(p, "tar") /\ IsRestore(p)
  /\ partial' = [partial EXCEPT ![p].media = Truncated]
  /\ Goto(p, "seal")
  /\ UNCHANGED <<locals, lock, sets, live, abandoned, now>>

\* Without set -e only the checks of `fatal` count: the required commands and
\* verify_set_from_dir.  With it every command does.
CanAbort(p) ==
  /\ CanCreate(p)
  /\ \/ pc[p] \in {"prepare", "seal"}
     \/ pc[p] \in {"dump", "tar", "publish", "remove"} /\ ~IsRestore(p)

\* Mutants: no EXIT trap; a lock file that stays when its owner fails.
Abort_NoTrap(p) ==
  /\ CanAbort(p)
  /\ Release(p)
  /\ Goto(p, Then(p, "failed"))
  /\ UNCHANGED <<locals, store, live, abandoned, now>>
Abort_KeepsLock(p) ==
  /\ CanAbort(p)
  /\ partial' = [partial EXCEPT ![p] = NoDir]
  /\ Goto(p, Then(p, "failed"))
  /\ UNCHANGED <<locals, lock, sets, live, abandoned, now>>

\* A command fails: the EXIT trap removes the directory and the flock goes
\* with the (sub)shell.
Abort(p) ==
  /\ CanAbort(p)
  /\ partial' = [partial EXCEPT ![p] = NoDir]
  /\ Release(p)
  /\ Goto(p, Then(p, "failed"))
  /\ UNCHANGED <<locals, sets, live, abandoned, now>>

\* manifest.txt, SHA256SUMS and verify_set_from_dir: pg_restore --list reads
\* no more than the table of contents.
Seal(p) ==
  /\ At(p, "seal") /\ CanCreate(p)
  /\ Goto(p, "publish")
  /\ UNCHANGED <<locals, lock, store, live, abandoned, now>>

\* mv "$temp" "$dir".  If the directory appeared since the identifier was
\* picked, mv puts the new set inside the existing one, and succeeds.
Publish(p) ==
  /\ At(p, "publish") /\ CanCreate(p)
  /\ sets' = IF sets[id[p]] = NoDir
             THEN [sets EXCEPT ![id[p]] = [db |-> partial[p].db, media |-> partial[p].media,
                                           good |-> TRUE, by |-> p]]
             ELSE sets
  /\ partial' = [partial EXCEPT ![p] = NoDir]
  /\ IF Job[p] = "nightly"
     THEN Goto(p, "list") /\ UNCHANGED lock
     ELSE Goto(p, IF IsRestore(p) THEN Then(p, "check") ELSE "done") /\ Release(p)
  /\ UNCHANGED <<locals, live, abandoned, now>>

(***************************************************************************)
(* prune_sets and the scheduled run                                        *)
(***************************************************************************)
\* run_backup of the scheduler takes the same lock, without waiting.
StartNightly(p) ==
  /\ Job[p] = "nightly" /\ At(p, "start") /\ Alive(p)
  /\ IF lock = NoOne THEN lock' = p /\ Goto(p, "pick")
                     ELSE UNCHANGED lock /\ Goto(p, "failed")
  /\ UNCHANGED <<locals, store, live, abandoned, now>>

\* list_ids: every set beyond the Keep newest identifiers is to go.  A prune
\* of its own takes no lock.
ListSets(p) ==
  /\ At(p, "list") \/ (Job[p] = "prune" /\ At(p, "start"))
  /\ Alive(p)
  /\ victims' = [victims EXCEPT ![p] =
                   {i \in Present : Cardinality({j \in Present : Newer(j, i)}) >= Keep}]
  /\ Goto(p, "remove")
  /\ UNCHANGED <<id, target, lock, store, live, src, staged, saved, crossed, abandoned, now>>

\* Mutant: as many sets go as were listed, the oldest there are by then.
RemoveSet_OldestNow(p) ==
  /\ At(p, "remove") /\ Alive(p)
  /\ \E i \in Present, v \in victims[p] :
       /\ \A j \in Present : ~Newer(i, j)
       /\ sets' = [sets EXCEPT ![i] = NoDir]
       /\ victims' = [victims EXCEPT ![p] = @ \ {v}]
  /\ UNCHANGED <<pc, id, target, lock, partial, live, src, staged, saved, crossed, abandoned, now>>

RemoveSet(p) ==
  /\ At(p, "remove") /\ Alive(p)
  /\ \E i \in victims[p] :
       /\ \A j \in victims[p] : ~Newer(j, i)
       /\ sets' = [sets EXCEPT ![i] = NoDir]
       /\ victims' = [victims EXCEPT ![p] = @ \ {i}]
  /\ UNCHANGED <<pc, id, target, lock, partial, live, src, staged, saved, crossed, abandoned, now>>

PruneDone(p) ==
  /\ At(p, "remove") /\ Alive(p)
  /\ victims[p] = {}
  /\ Release(p)
  /\ Goto(p, "done")
  /\ UNCHANGED <<locals, store, live, abandoned, now>>

(***************************************************************************)
(* restore_set                                                             *)
(***************************************************************************)
\* verify_set of the requested set: the files are there and match their sums.
Restorable(p, i) ==
  /\ sets[i] # NoDir
  /\ sets[i].good
  /\ Job[p] = "restore-full" => sets[i].media # Absent

StartRestore(p) ==
  /\ IsRestore(p) /\ At(p, "start") /\ Alive(p)
  /\ \E i \in Ids :
       /\ Restorable(p, i)
       /\ target' = [target EXCEPT ![p] = i]
  /\ Goto(p, "pick")
  /\ UNCHANGED <<id, lock, store, live, src, staged, saved, crossed, victims, abandoned, now>>

RestoreRefused(p) ==
  /\ IsRestore(p) /\ At(p, "start") /\ Alive(p)
  /\ \E i \in Ids : ~Restorable(p, i)
  /\ Goto(p, "failed")
  /\ UNCHANGED <<locals, lock, store, live, abandoned, now>>

\* The flock went with the subshell of create_backup: from here on the
\* restore holds no lock.
CheckSafety(p) ==
  /\ At(p, "check") /\ Alive(p)
  /\ Goto(p, IF sets[id[p]] = NoDir THEN "failed" ELSE "reset")
  /\ UNCHANGED <<locals, lock, store, live, abandoned, now>>

Rollback(p) == pc[p] \in {"rbreset", "rbload", "rbloading"}
Dumpfile(p) == sets[IF Rollback(p) THEN id[p] ELSE target[p]]
\* Mutants: no rollback; a rollback repeated until it works.
LoadFailed_NoRollback(p) == "failed"
LoadFailed_Retry(p) == "rbreset"
LoadFailed(p) == IF Rollback(p) THEN "lost" ELSE "rbreset"
Loaded(p) == IF Rollback(p) THEN "failed"
             ELSE IF Job[p] = "restore-full" THEN "swap" ELSE "done"

\* postgres_reset_schema.  The redirection opens the dump first; the reset
\* may fail, and with set -e off pg_restore is tried all the same.
Reset(p) ==
  /\ pc[p] \in {"reset", "rbreset"} /\ Alive(p)
  /\ Dumpfile(p) # NoDir
  /\ src' = [src EXCEPT ![p] = IF Dumpfile(p).good THEN Dumpfile(p).db ELSE Truncated]
  /\ \/ db' = Empty /\ loader' = NoOne
     \/ UNCHANGED <<db, loader>>
  /\ Goto(p, IF Rollback(p) THEN "rbload" ELSE "load")
  /\ UNCHANGED <<id, target, lock, store, media, staged, saved, crossed, victims, abandoned, now>>

\* The set was removed since it was verified: nothing runs.
DumpGone(p) ==
  /\ pc[p] \in {"reset", "rbreset"} /\ Alive(p)
  /\ Dumpfile(p) = NoDir
  /\ Goto(p, LoadFailed(p))
  /\ UNCHANGED <<locals, lock, store, live, abandoned, now>>

\* pg_restore --exit-on-error: its first CREATE fails unless the schema is
\* empty.
BeginLoad(p) ==
  /\ pc[p] \in {"load", "rbload"} /\ Alive(p)
  /\ IF db = Empty
     THEN db' = Mixed /\ loader' = p /\ Goto(p, IF Rollback(p) THEN "rbloading" ELSE "loading")
     ELSE UNCHANGED <<db, loader>> /\ Goto(p, LoadFailed(p))
  /\ UNCHANGED <<locals, lock, store, media, abandoned, now>>

EndLoad(p) ==
  /\ pc[p] \in {"loading", "rbloading"}
  /\ loader = p
  /\ src[p] # Truncated
  /\ db' = src[p]
  /\ loader' = NoOne
  /\ Goto(p, Then(p, Loaded(p)))
  /\ UNCHANGED <<locals, lock, store, media, abandoned, now>>

\* pg_restore fails.  It leaves what it created, also in a schema that
\* another restore has reset and is loading.
FailLoad(p) ==
  /\ pc[p] \in {"loading", "rbloading"}
  /\ db' \in {db, Mixed}
  /\ loader' = IF loader = p THEN NoOne ELSE loader
  /\ Goto(p, Then(p, LoadFailed(p)))
  /\ UNCHANGED <<locals, lock, store, media, abandoned, now>>

(***************************************************************************)
(* safe_extract_media, seen from restore_set                               *)
(***************************************************************************)
Swapping == {p \in Procs : At(p, "swapping")}

\* The archive is staged; then whatever is there is moved out of the way, the
\* files another restore is putting there among them: no lock is held.
BeginSwap(p) ==
  /\ At(p, "swap") /\ Alive(p)
  /\ sets[target[p]] # NoDir /\ sets[target[p]].good
  /\ sets[target[p]].media \in MediaTrees
  /\ staged' = [staged EXCEPT ![p] = sets[target[p]].media]
  /\ saved' = [saved EXCEPT ![p] = media]
  /\ crossed' = IF Swapping = {} THEN crossed ELSE crossed \cup Swapping \cup {p}
  /\ media' = Mixed
  /\ Goto(p, "swapping")
  /\ UNCHANGED <<id, target, lock, store, db, loader, src, victims, abandoned, now>>

\* The archive cannot be staged: nothing live was touched.
StagingFails(p) ==
  /\ At(p, "swap") /\ Alive(p)
  /\ Goto(p, "rbreset")
  /\ UNCHANGED <<locals, lock, store, live, abandoned, now>>

\* Mutant: the files that cannot be moved in are passed over.
EndSwap_PassesOver(p) ==
  /\ At(p, "swapping")
  /\ media' \in {staged[p], Mixed}
  /\ Goto(p, Then(p, "done"))
  /\ UNCHANGED <<locals, lock, store, db, loader, abandoned, now>>

\* All of the staged files are moved in; mv runs on without its shell.  Beside
\* another restore's files they may be there together, and both report success.
EndSwap(p) ==
  /\ At(p, "swapping")
  /\ media' \in {staged[p]} \cup (IF p \in crossed THEN {Mixed} ELSE {})
  /\ Goto(p, Then(p, "done"))
  /\ UNCHANGED <<locals, lock, store, db, loader, abandoned, now>>

\* Moving the new files in fails: whatever is there is deleted, another restore's
\* files too, and the originals are moved back.  Moving the originals out fails: the
\* directory holding those already moved is deleted.
FailSwap(p) ==
  /\ At(p, "swapping") /\ Alive(p)
  /\ media' \in {saved[p], Mixed}
  /\ Goto(p, "rbreset")
  /\ UNCHANGED <<locals, lock, store, db, loader, abandoned, now>>

(***************************************************************************)
(* The world around the tool                                               *)
(***************************************************************************)
Tick ==
  /\ now' \in {s \in Seconds : s > now}
  /\ UNCHANGED <<pc, locals, lock, store, live, abandoned>>

\* The application commits a change, with or without a media file.
AppWrite ==
  /\ db \in Versions
  /\ db' \in Versions
  /\ media' \in IF media \in Versions THEN {media, db'} ELSE {media}
  /\ UNCHANGED <<pc, locals, lock, store, loader, abandoned, now>>

Rot(i) ==
  /\ i \in Rotting /\ sets[i] # NoDir /\ sets[i].good
  /\ sets' = [sets EXCEPT ![i].good = FALSE]
  /\ UNCHANGED <<pc, locals, lock, partial, live, abandoned, now>>

Started(p) == pc[p] \notin Terminal /\ pc[p] # "start"

\* subprocess.run(timeout=...) of the web pages kills the shell, and only it.
Kill(p) ==
  /\ Started(p) /\ Alive(p)
  /\ abandoned' = abandoned \cup {p}
  /\ UNCHANGED <<pc, locals, lock, store, live, now>>

\* Once no child of a killed shell is left, the flock it inherited is free.
Die(p) ==
  /\ ~Alive(p) /\ Started(p)
  /\ ~(IsRestore(p) /\ pc[p] \in CreatePcs) /\ pc[p] \notin {"loading", "rbloading"}
  /\ Release(p)
  /\ Goto(p, "killed")
  /\ UNCHANGED <<locals, store, live, abandoned, now>>

\* The host stops: every invocation is gone, the directories stay.
PowerLoss ==
  /\ \E p \in Procs : Started(p)
  /\ pc' = [p \in Procs |-> IF Started(p) THEN "killed" ELSE pc[p]]
  /\ lock' = NoOne
  /\ UNCHANGED <<locals, store, live, abandoned, now>>

Create(p) ==
  \/ PickId(p) \/ AcquireLock(p) \/ LockRefused(p) \/ Prepare(p) \/ Dump(p)
  \/ Tar(p) \/ DumpCutShort(p) \/ TarCutShort(p) \/ Abort(p) \/ Seal(p) \/ Publish(p)
Prune(p) == StartNightly(p) \/ ListSets(p) \/ RemoveSet(p) \/ PruneDone(p)
Restore(p) ==
  \/ StartRestore(p) \/ RestoreRefused(p) \/ CheckSafety(p) \/ Reset(p) \/ DumpGone(p)
  \/ BeginLoad(p) \/ EndLoad(p) \/ FailLoad(p)
  \/ BeginSwap(p) \/ StagingFails(p) \/ EndSwap(p) \/ FailSwap(p)
Step(p) == Create(p) \/ Prune(p) \/ Restore(p) \/ Die(p)
Environment ==
  \/ Tick \/ AppWrite \/ PowerLoss
  \/ \E i \in Ids : Rot(i)
  \/ \E p \in Procs : Kill(p)

Next == Environment \/ \E p \in Procs : Step(p)
Spec == Init /\ [][Next]_vars
\* Every command the tool runs ends, so an invocation that can go on does.
FairSpec == Spec /\ \A p \in Procs : WF_vars(Step(p))

(***************************************************************************)
(* Properties                                                              *)
(***************************************************************************)
\* Every variable holds a value of its kind.
TypeOK ==
  /\ pc \in [Procs -> Pcs]
  /\ id \in [Procs -> Ids] /\ target \in [Procs -> Ids]
  /\ lock \in Procs \cup {NoOne} /\ loader \in Procs \cup {NoOne}
  /\ partial \in [Procs -> PartialRecords \cup {NoDir}]
  /\ sets \in [Ids -> SetRecords \cup {NoDir}]
  /\ db \in Databases /\ media \in MediaTrees
  /\ src \in [Procs -> Dumps] /\ staged \in [Procs -> MediaTrees]
  /\ saved \in [Procs -> MediaTrees] /\ crossed \in SUBSET Procs
  /\ victims \in [Procs -> SUBSET Ids]
  /\ abandoned \in SUBSET Procs /\ now \in Seconds

\* Whoever is between taking the flock and publishing its set holds the flock,
\* and so do all of the nightly run's commands: no two of them overlap, also
\* when one was killed and its children run on (acquire_lock, run_backup).
Locked(p) == pc[p] \in WritePcs \/ (Job[p] = "nightly" /\ pc[p] \in {"pick", "list", "remove"})
LockHeldWhileWriting == \A p \in Procs : Locked(p) => lock = p

\* cleanup_partial_sets of one backup never removes the directory another one
\* is still writing.
TempNotStolen ==
  \A p \in Procs : pc[p] \in {"dump", "tar", "seal", "publish"} => partial[p] # NoDir

\* "cleans partial sets after failures": a .partial-* directory belongs to a
\* backup that is running or to one that was killed, never to one that ended
\* by itself.
LitterOnlyFromKilled ==
  \A p \in Procs : partial[p] # NoDir => pc[p] \in WritePcs \cup {"killed"}

\* Partial directories belong to those who write them: none is removed under
\* its writer, and none stays behind one that ended by itself.
PartialsOwned == TempNotStolen /\ LitterOnlyFromKilled

\* A set published by a plain or nightly backup holds all the files its mode
\* calls for, and none cut short: a failing pg_dump or tar never gets that far.
PublishedSetsWhole ==
  \A i \in Present : \A p \in Procs :
    sets[i].by = p /\ ~IsRestore(p) =>
      /\ sets[i].db # Truncated
      /\ sets[i].media # Truncated
      /\ sets[i].media = Absent <=> DbOnly(p)

\* An empty or half-loaded live database is always the work of a restore that
\* is still loading, that was killed, or whose rollback failed as well, or else
\* of one that loaded a snapshot taken of such a database.
BrokenDatabaseExplained ==
  db \notin Versions =>
    \E p \in Procs : \/ IsRestore(p) /\ pc[p] \in LoadPcs \cup {"lost", "killed"}
                     \/ src[p] \notin Versions

\* A damaged media directory is always the work of a restore that is replacing
\* it, or that broke off while or after doing so, of one that unpacked an archive
\* of such a directory, or of two that replaced it at the same time
\* (safe_extract_media): one that reports success and had the directory to itself
\* has put all of its archive in place.
BrokenMediaExplained ==
  media \notin Versions =>
    \E p \in Procs :
      \/ /\ IsRestore(p)
         /\ pc[p] \in {"swapping", "rbreset", "rbload", "rbloading", "failed", "lost", "killed"}
      \/ staged[p] \notin Versions
      \/ p \in crossed

\* Whatever is broken in the live system goes back to such a restore.
BrokenExplained == BrokenDatabaseExplained /\ BrokenMediaExplained

\* A prune removes a set only while Keep newer ones are there, damaged ones among
\* them, whatever other prunes and backups run, and although its listing is old by
\* then and neither it nor its removals are locked (prune_sets).
PruneKeepsNewest ==
  [][\A i \in Present : sets'[i] = NoDir =>
       Cardinality({j \in Ids : sets'[j] # NoDir /\ Newer(j, i)}) >= Keep]_vars

\* The copy being made, and the restores past their safety backup.
CopyPcs == {"dump", "tar", "seal", "publish"}
Work == IF lock # NoOne /\ pc[lock] \in CopyPcs THEN partial[lock] ELSE NoDir
Secured == {p \in Procs : pc[p] \in RestorePcs}
Restorers == {p \in Procs : IsRestore(p)}

Safe == INSTANCE Safekeeping WITH
  holder <- lock, work <- Work, secured <- Secured, dump <- src, tree <- staged, originals <- saved,
  replacing <- Swapping

\* Whatever invocations overlap, die or are killed, each step is one of
\* Safekeeping: one copy at a time and published as a whole, sets that only age
\* or give way to newer ones, and live data touched by nobody but the application
\* and restores whose safety backup is published (create_backup, restore_set).
KeepsSafe == Safe!Spec

\* No invocation waits for another one: each that starts comes to an end.
EveryInvocationEnds == \A p \in Procs : Started(p) ~> pc[p] \in Terminal

\* The flock does not stay taken, although children of killed shells keep it.
LockComesFree == []<>(lock = NoOne)

(***************************************************************************)
(* What the documentation and the messages promise                         *)
(***************************************************************************)
\* "uses a non-blocking flock lock to prevent overlap", "A backup or restore is
\* already running": no set is written while a restore rewrites the database.
NoBackupDuringRestore ==
  \A p, q \in Procs : ~(pc[p] \in {"tar", "seal", "publish"} /\ pc[q] \in LoadPcs)

\* "restore complete", says a full restore, which "restores PostgreSQL and media
\* files": when all have said so, and unpacked whole archives, the media is whole.
CompleteMeansWhole ==
  (\A p \in Procs : At(p, "done") /\ staged[p] \in Versions) => media \in Versions

\* "database restore failed; restoring safety backup": the set that was taken for
\* it is there when a restore has to go back to it.
SafetySetStays == \A p \in Procs : At(p, "rbreset") => sets[id[p]] # NoDir

\* "prunes to the newest seven verified sets": a set that matches its checksums
\* goes only while Keep newer ones that match theirs stay.
KeepsVerifiedSets ==
  [][\A i \in Present : sets[i].good /\ sets'[i] = NoDir =>
       Cardinality({j \in Ids : sets'[j] # NoDir /\ sets'[j].good /\ Newer(j, i)}) >= Keep]_vars
=============================================================================
