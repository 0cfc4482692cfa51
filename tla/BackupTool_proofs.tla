-------------------------- MODULE BackupTool_proofs --------------------------
(***************************************************************************)
(* Proofs about BackupTool, for any number of invocations of any kinds.    *)
(*                                                                         *)
(* IInv is the inductive invariant: the properties of BackupTool together  *)
(* with what the files of an unfinished set already hold at each line of   *)
(* create_backup, and that only a restore is at a line of restore_set.     *)
(***************************************************************************)
EXTENDS BackupTool, FiniteSetTheorems, TLAPS

\* Only restores run restore_set past the safety backup, and unpack archives.
RestoreOnly ==
  \A p \in Procs : pc[p] \in RestorePcs \cup {"lost"} => IsRestore(p)

\* What the directory of an unfinished set holds at each line.
Filled ==
  \A p \in Procs :
    /\ pc[p] \in {"tar", "seal", "publish"} =>
         /\ partial[p].db # Absent
         /\ ~IsRestore(p) => partial[p].db # Truncated
    /\ pc[p] \in {"dump", "tar"} => partial[p].media = Absent
    /\ pc[p] = "tar" => ~DbOnly(p)
    /\ pc[p] \in {"seal", "publish"} /\ ~IsRestore(p) =>
         /\ partial[p].media # Truncated
         /\ partial[p].media = Absent <=> DbOnly(p)

IInv ==
  /\ TypeOK
  /\ RestoreOnly
  /\ LockHeldWhileWriting
  /\ TempNotStolen
  /\ LitterOnlyFromKilled
  /\ Filled
  /\ PublishedSetsWhole
  /\ BrokenDatabaseExplained
  /\ BrokenMediaExplained

-----------------------------------------------------------------------------
\* Every step keeps every variable in its type.
LEMMA TypeStep == TypeOK /\ TempNotStolen /\ Filled /\ [Next]_vars => TypeOK'
<1> SUFFICES ASSUME TypeOK, TempNotStolen, Filled, [Next]_vars PROVE TypeOK'
    OBVIOUS
<1> USE ValueAssumption DEF At, Goto, Then, Alive, locals, store, live,
       Started, Terminal, LoadFailed, Loaded, Rollback, AfterDump, TypeOK,
       TempNotStolen, Filled, CanCreate, IsRestore, Release, Pcs, CreatePcs,
       PrunePcs, RestorePcs, LoadPcs, Ids, Databases, MediaTrees, Dumps,
       Archives, SetRecords, PartialRecords
<1>1. ASSUME NEW p \in Procs, PickId(p) PROVE TypeOK'
    BY <1>1 DEF PickId
<1>2. ASSUME NEW p \in Procs, AcquireLock(p) PROVE TypeOK'
    BY <1>2 DEF AcquireLock
<1>3. ASSUME NEW p \in Procs, LockRefused(p) PROVE TypeOK'
    BY <1>3 DEF LockRefused
<1>4. ASSUME NEW p \in Procs, Prepare(p) PROVE TypeOK'
    BY <1>4 DEF Prepare
<1>5. ASSUME NEW p \in Procs, Dump(p) PROVE TypeOK'
    BY <1>5 DEF Dump
<1>6. ASSUME NEW p \in Procs, Tar(p) PROVE TypeOK'
    BY <1>6 DEF Tar
<1>7. ASSUME NEW p \in Procs, DumpCutShort(p) PROVE TypeOK'
    BY <1>7 DEF DumpCutShort
<1>8. ASSUME NEW p \in Procs, TarCutShort(p) PROVE TypeOK'
    BY <1>8 DEF TarCutShort
<1>9. ASSUME NEW p \in Procs, Abort(p) PROVE TypeOK'
    BY <1>9 DEF Abort, CanAbort
<1>10. ASSUME NEW p \in Procs, Seal(p) PROVE TypeOK'
    BY <1>10 DEF Seal
<1>11. ASSUME NEW p \in Procs, Publish(p) PROVE TypeOK'
    BY <1>11 DEF Publish
<1>12. ASSUME NEW p \in Procs, StartNightly(p) PROVE TypeOK'
    BY <1>12 DEF StartNightly
<1>13. ASSUME NEW p \in Procs, ListSets(p) PROVE TypeOK'
    BY <1>13 DEF ListSets, Present
<1>14. ASSUME NEW p \in Procs, RemoveSet(p) PROVE TypeOK'
    BY <1>14 DEF RemoveSet
<1>15. ASSUME NEW p \in Procs, PruneDone(p) PROVE TypeOK'
    BY <1>15 DEF PruneDone
<1>16. ASSUME NEW p \in Procs, StartRestore(p) PROVE TypeOK'
    BY <1>16 DEF StartRestore
<1>17. ASSUME NEW p \in Procs, RestoreRefused(p) PROVE TypeOK'
    BY <1>17 DEF RestoreRefused
<1>18. ASSUME NEW p \in Procs, CheckSafety(p) PROVE TypeOK'
    BY <1>18 DEF CheckSafety
<1>19. ASSUME NEW p \in Procs, Reset(p) PROVE TypeOK'
    BY <1>19 DEF Reset, Dumpfile
<1>20. ASSUME NEW p \in Procs, DumpGone(p) PROVE TypeOK'
    BY <1>20 DEF DumpGone, Dumpfile
<1>21. ASSUME NEW p \in Procs, BeginLoad(p) PROVE TypeOK'
    BY <1>21 DEF BeginLoad
<1>22. ASSUME NEW p \in Procs, EndLoad(p) PROVE TypeOK'
    BY <1>22 DEF EndLoad
<1>23. ASSUME NEW p \in Procs, FailLoad(p) PROVE TypeOK'
    BY <1>23 DEF FailLoad
<1>24. ASSUME NEW p \in Procs, BeginSwap(p) PROVE TypeOK'
    BY <1>24 DEF BeginSwap, Swapping
<1>25. ASSUME NEW p \in Procs, StagingFails(p) PROVE TypeOK'
    BY <1>25 DEF StagingFails
<1>26. ASSUME NEW p \in Procs, EndSwap(p) PROVE TypeOK'
    BY <1>26 DEF EndSwap
<1>27. ASSUME NEW p \in Procs, FailSwap(p) PROVE TypeOK'
    BY <1>27 DEF FailSwap
<1>28. ASSUME NEW p \in Procs, Die(p) PROVE TypeOK'
    BY <1>28 DEF Die
<1>29. CASE Tick
    BY <1>29 DEF Tick
<1>30. CASE AppWrite
    BY <1>30 DEF AppWrite
<1>31. CASE PowerLoss
    BY <1>31 DEF PowerLoss
<1>32. ASSUME NEW i \in Ids, Rot(i) PROVE TypeOK'
    <2>1. sets[i] \in SetRecords
        BY <1>32 DEF Rot
    <2>2. [sets[i] EXCEPT !.good = FALSE] \in SetRecords
        BY <2>1 DEF SetRecords
    <2>3. sets' \in [Ids -> SetRecords \cup {NoDir}]
        BY <1>32, <2>2 DEF Rot
    <2> QED
        BY <1>32, <2>3 DEF Rot
<1>33. ASSUME NEW p \in Procs, Kill(p) PROVE TypeOK'
    BY <1>33 DEF Kill
<1>34. CASE UNCHANGED vars
    BY <1>34 DEF vars
<1> QED BY <1>1, <1>2, <1>3, <1>4, <1>5, <1>6, <1>7, <1>8, <1>9, <1>10,
       <1>11, <1>12, <1>13, <1>14, <1>15, <1>16, <1>17, <1>18, <1>19, <1>20,
       <1>21, <1>22, <1>23, <1>24, <1>25, <1>26, <1>27, <1>28, <1>29, <1>30,
       <1>31, <1>32, <1>33, <1>34
    DEF Next, Step, Create, Prune, Restore, Environment

\* No step takes an invocation that is not a restore into restore_set.
LEMMA RestoreOnlyStep == TypeOK /\ RestoreOnly /\ [Next]_vars => RestoreOnly'
<1> SUFFICES ASSUME TypeOK, RestoreOnly, [Next]_vars PROVE RestoreOnly'
    OBVIOUS
<1> USE DEF At, Goto, Then, Alive, locals, store, live, Started, Terminal,
       LoadFailed, Loaded, Rollback, AfterDump, TypeOK, RestoreOnly,
       IsRestore, RestorePcs, LoadPcs
<1>1. ASSUME NEW p \in Procs, Create(p) PROVE RestoreOnly'
    BY <1>1 DEF Create, PickId, AcquireLock, LockRefused, Prepare, Dump,
       Tar, DumpCutShort, TarCutShort, Abort, CanAbort, Seal, Publish
<1>2. ASSUME NEW p \in Procs, Prune(p) PROVE RestoreOnly'
    BY <1>2 DEF Prune, StartNightly, ListSets, RemoveSet, PruneDone
<1>3. ASSUME NEW p \in Procs, Restore(p) PROVE RestoreOnly'
    BY <1>3 DEF Restore, StartRestore, RestoreRefused, CheckSafety, Reset,
       DumpGone, BeginLoad, EndLoad, FailLoad, BeginSwap, StagingFails,
       EndSwap, FailSwap
<1>4. ASSUME NEW p \in Procs, Die(p) PROVE RestoreOnly'
    BY <1>4 DEF Die
<1>5. CASE Environment
    BY <1>5 DEF Environment, Tick, AppWrite, PowerLoss, Rot, Kill
<1>6. CASE UNCHANGED vars
    BY <1>6 DEF vars
<1> QED BY <1>1, <1>2, <1>3, <1>4, <1>5, <1>6
    DEF Next, Step

\* No step lets two invocations write, or one write without the flock.
LEMMA LockStep == TypeOK /\ LockHeldWhileWriting /\ [Next]_vars => LockHeldWhileWriting'
<1> SUFFICES ASSUME TypeOK, LockHeldWhileWriting, [Next]_vars PROVE LockHeldWhileWriting'
    OBVIOUS
<1> USE ValueAssumption DEF At, Goto, Then, Alive, locals, store, live,
       Started, Terminal, LoadFailed, Loaded, Rollback, AfterDump, TypeOK,
       LockHeldWhileWriting, Locked, WritePcs, CreatePcs, Release, IsRestore
<1>1. ASSUME NEW p \in Procs, PickId(p) PROVE LockHeldWhileWriting'
    BY <1>1 DEF PickId
<1>2. ASSUME NEW p \in Procs, AcquireLock(p) PROVE LockHeldWhileWriting'
    BY <1>2 DEF AcquireLock
<1>3. ASSUME NEW p \in Procs, LockRefused(p) PROVE LockHeldWhileWriting'
    BY <1>3 DEF LockRefused
<1>4. ASSUME NEW p \in Procs, Prepare(p) PROVE LockHeldWhileWriting'
    BY <1>4 DEF Prepare
<1>5. ASSUME NEW p \in Procs, Dump(p) PROVE LockHeldWhileWriting'
    BY <1>5 DEF Dump
<1>6. ASSUME NEW p \in Procs, Tar(p) PROVE LockHeldWhileWriting'
    BY <1>6 DEF Tar
<1>7. ASSUME NEW p \in Procs, DumpCutShort(p) PROVE LockHeldWhileWriting'
    BY <1>7 DEF DumpCutShort
<1>8. ASSUME NEW p \in Procs, TarCutShort(p) PROVE LockHeldWhileWriting'
    BY <1>8 DEF TarCutShort
<1>9. ASSUME NEW p \in Procs, Abort(p) PROVE LockHeldWhileWriting'
    BY <1>9 DEF Abort, CanAbort
<1>10. ASSUME NEW p \in Procs, Seal(p) PROVE LockHeldWhileWriting'
    BY <1>10 DEF Seal
<1>11. ASSUME NEW p \in Procs, Publish(p) PROVE LockHeldWhileWriting'
    BY <1>11 DEF Publish
<1>12. ASSUME NEW p \in Procs, StartNightly(p) PROVE LockHeldWhileWriting'
    BY <1>12 DEF StartNightly
<1>13. ASSUME NEW p \in Procs, ListSets(p) PROVE LockHeldWhileWriting'
    BY <1>13 DEF ListSets
<1>14. ASSUME NEW p \in Procs, RemoveSet(p) PROVE LockHeldWhileWriting'
    BY <1>14 DEF RemoveSet
<1>15. ASSUME NEW p \in Procs, PruneDone(p) PROVE LockHeldWhileWriting'
    BY <1>15 DEF PruneDone
<1>16. ASSUME NEW p \in Procs, Restore(p) PROVE LockHeldWhileWriting'
    BY <1>16 DEF Restore, StartRestore, RestoreRefused, CheckSafety, Reset,
       DumpGone, BeginLoad, EndLoad, FailLoad, BeginSwap, StagingFails,
       EndSwap, FailSwap
<1>17. ASSUME NEW p \in Procs, Die(p) PROVE LockHeldWhileWriting'
    BY <1>17 DEF Die
<1>18. CASE Environment
    BY <1>18 DEF Environment, Tick, AppWrite, PowerLoss, Rot, Kill
<1>19. CASE UNCHANGED vars
    BY <1>19 DEF vars
<1> QED BY <1>1, <1>2, <1>3, <1>4, <1>5, <1>6, <1>7, <1>8, <1>9, <1>10,
       <1>11, <1>12, <1>13, <1>14, <1>15, <1>16, <1>17, <1>18, <1>19
    DEF Next, Step, Create, Prune

\* Only the holder of the flock clears the .partial-* directories.
LEMMA TempStep == TypeOK /\ LockHeldWhileWriting /\ TempNotStolen /\ [Next]_vars => TempNotStolen'
<1> SUFFICES ASSUME TypeOK, LockHeldWhileWriting, TempNotStolen, [Next]_vars PROVE TempNotStolen'
    OBVIOUS
<1> USE NoDirAssumption, ValueAssumption DEF At, Goto, Then, Alive, locals,
       store, live, Started, Terminal, LoadFailed, Loaded, Rollback,
       AfterDump, TypeOK, LockHeldWhileWriting, TempNotStolen, Locked,
       WritePcs, IsRestore, Ids, Databases, MediaTrees, Dumps, Archives,
       SetRecords, PartialRecords
<1>1. ASSUME NEW p \in Procs, PickId(p) PROVE TempNotStolen'
    BY <1>1 DEF PickId
<1>2. ASSUME NEW p \in Procs, AcquireLock(p) PROVE TempNotStolen'
    BY <1>2 DEF AcquireLock
<1>3. ASSUME NEW p \in Procs, LockRefused(p) PROVE TempNotStolen'
    BY <1>3 DEF LockRefused
<1>4. ASSUME NEW p \in Procs, Prepare(p) PROVE TempNotStolen'
    BY <1>4 DEF Prepare
<1>5. ASSUME NEW p \in Procs, Dump(p) PROVE TempNotStolen'
    <2>1. partial[p] \in PartialRecords
        BY <1>5 DEF Dump
    <2>2. [partial[p] EXCEPT !.db = db] \in PartialRecords
        BY <2>1
    <2> QED
        BY <1>5, <2>2 DEF Dump
<1>6. ASSUME NEW p \in Procs, Tar(p) PROVE TempNotStolen'
    BY <1>6 DEF Tar
<1>7. ASSUME NEW p \in Procs, DumpCutShort(p) PROVE TempNotStolen'
    <2>1. partial[p] \in PartialRecords
        BY <1>7 DEF DumpCutShort
    <2>2. [partial[p] EXCEPT !.db = Truncated] \in PartialRecords
        BY <2>1
    <2> QED
        BY <1>7, <2>2 DEF DumpCutShort
<1>8. ASSUME NEW p \in Procs, TarCutShort(p) PROVE TempNotStolen'
    BY <1>8 DEF TarCutShort
<1>9. ASSUME NEW p \in Procs, Abort(p) PROVE TempNotStolen'
    BY <1>9 DEF Abort, CanAbort
<1>10. ASSUME NEW p \in Procs, Seal(p) PROVE TempNotStolen'
    BY <1>10 DEF Seal
<1>11. ASSUME NEW p \in Procs, Publish(p) PROVE TempNotStolen'
    BY <1>11 DEF Publish
<1>12. ASSUME NEW p \in Procs, Prune(p) PROVE TempNotStolen'
    BY <1>12 DEF Prune, StartNightly, ListSets, RemoveSet, PruneDone
<1>13. ASSUME NEW p \in Procs, Restore(p) PROVE TempNotStolen'
    BY <1>13 DEF Restore, StartRestore, RestoreRefused, CheckSafety, Reset,
       DumpGone, BeginLoad, EndLoad, FailLoad, BeginSwap, StagingFails,
       EndSwap, FailSwap
<1>14. ASSUME NEW p \in Procs, Die(p) PROVE TempNotStolen'
    BY <1>14 DEF Die
<1>15. CASE Environment
    BY <1>15 DEF Environment, Tick, AppWrite, PowerLoss, Rot, Kill
<1>16. CASE UNCHANGED vars
    BY <1>16 DEF vars
<1> QED BY <1>1, <1>2, <1>3, <1>4, <1>5, <1>6, <1>7, <1>8, <1>9, <1>10,
       <1>11, <1>12, <1>13, <1>14, <1>15, <1>16
    DEF Next, Step, Create

\* An invocation that ends by itself leaves no .partial-* directory.
LEMMA LitterStep == TypeOK /\ LitterOnlyFromKilled /\ [Next]_vars => LitterOnlyFromKilled'
<1> SUFFICES ASSUME TypeOK, LitterOnlyFromKilled, [Next]_vars PROVE LitterOnlyFromKilled'
    OBVIOUS
<1> USE DEF At, Goto, Then, Alive, locals, store, live, Started, Terminal,
       LoadFailed, Loaded, Rollback, AfterDump, TypeOK,
       LitterOnlyFromKilled, WritePcs, IsRestore
<1>1. ASSUME NEW p \in Procs, PickId(p) PROVE LitterOnlyFromKilled'
    BY <1>1 DEF PickId
<1>2. ASSUME NEW p \in Procs, AcquireLock(p) PROVE LitterOnlyFromKilled'
    BY <1>2 DEF AcquireLock
<1>3. ASSUME NEW p \in Procs, LockRefused(p) PROVE LitterOnlyFromKilled'
    BY <1>3 DEF LockRefused
<1>4. ASSUME NEW p \in Procs, Prepare(p) PROVE LitterOnlyFromKilled'
    BY <1>4 DEF Prepare
<1>5. ASSUME NEW p \in Procs, Dump(p) PROVE LitterOnlyFromKilled'
    BY <1>5 DEF Dump
<1>6. ASSUME NEW p \in Procs, Tar(p) PROVE LitterOnlyFromKilled'
    BY <1>6 DEF Tar
<1>7. ASSUME NEW p \in Procs, DumpCutShort(p) PROVE LitterOnlyFromKilled'
    BY <1>7 DEF DumpCutShort
<1>8. ASSUME NEW p \in Procs, TarCutShort(p) PROVE LitterOnlyFromKilled'
    BY <1>8 DEF TarCutShort
<1>9. ASSUME NEW p \in Procs, Abort(p) PROVE LitterOnlyFromKilled'
    BY <1>9 DEF Abort, CanAbort
<1>10. ASSUME NEW p \in Procs, Seal(p) PROVE LitterOnlyFromKilled'
    BY <1>10 DEF Seal
<1>11. ASSUME NEW p \in Procs, Publish(p) PROVE LitterOnlyFromKilled'
    BY <1>11 DEF Publish
<1>12. ASSUME NEW p \in Procs, Prune(p) PROVE LitterOnlyFromKilled'
    BY <1>12 DEF Prune, StartNightly, ListSets, RemoveSet, PruneDone
<1>13. ASSUME NEW p \in Procs, Restore(p) PROVE LitterOnlyFromKilled'
    BY <1>13 DEF Restore, StartRestore, RestoreRefused, CheckSafety, Reset,
       DumpGone, BeginLoad, EndLoad, FailLoad, BeginSwap, StagingFails,
       EndSwap, FailSwap
<1>14. ASSUME NEW p \in Procs, Die(p) PROVE LitterOnlyFromKilled'
    BY <1>14 DEF Die
<1>15. CASE Environment
    BY <1>15 DEF Environment, Tick, AppWrite, PowerLoss, Rot, Kill
<1>16. CASE UNCHANGED vars
    BY <1>16 DEF vars
<1> QED BY <1>1, <1>2, <1>3, <1>4, <1>5, <1>6, <1>7, <1>8, <1>9, <1>10,
       <1>11, <1>12, <1>13, <1>14, <1>15, <1>16
    DEF Next, Step, Create

\* Each line of create_backup leaves the files the next ones rely on.
LEMMA FilledStep == TypeOK /\ RestoreOnly /\ LockHeldWhileWriting /\ TempNotStolen /\ Filled /\ [Next]_vars => Filled'
<1> SUFFICES ASSUME TypeOK, RestoreOnly, LockHeldWhileWriting, TempNotStolen, Filled, [Next]_vars PROVE Filled'
    OBVIOUS
<1> USE ValueAssumption DEF At, Goto, Then, Alive, locals, store, live,
       Started, Terminal, LoadFailed, Loaded, Rollback, AfterDump, TypeOK,
       LockHeldWhileWriting, TempNotStolen, Locked, WritePcs, RestoreOnly,
       RestorePcs, Filled, IsRestore, DbOnly, Ids, Databases, MediaTrees,
       Dumps, Archives, SetRecords, PartialRecords
<1>1. ASSUME NEW p \in Procs, PickId(p) PROVE Filled'
    BY <1>1 DEF PickId
<1>2. ASSUME NEW p \in Procs, AcquireLock(p) PROVE Filled'
    BY <1>2 DEF AcquireLock
<1>3. ASSUME NEW p \in Procs, LockRefused(p) PROVE Filled'
    BY <1>3 DEF LockRefused
<1>4. ASSUME NEW p \in Procs, Prepare(p) PROVE Filled'
    BY <1>4 DEF Prepare
<1>5. ASSUME NEW p \in Procs, Dump(p) PROVE Filled'
    BY <1>5 DEF Dump
<1>6. ASSUME NEW p \in Procs, Tar(p) PROVE Filled'
    BY <1>6 DEF Tar
<1>7. ASSUME NEW p \in Procs, DumpCutShort(p) PROVE Filled'
    BY <1>7 DEF DumpCutShort
<1>8. ASSUME NEW p \in Procs, TarCutShort(p) PROVE Filled'
    BY <1>8 DEF TarCutShort
<1>9. ASSUME NEW p \in Procs, Abort(p) PROVE Filled'
    BY <1>9 DEF Abort, CanAbort
<1>10. ASSUME NEW p \in Procs, Seal(p) PROVE Filled'
    BY <1>10 DEF Seal
<1>11. ASSUME NEW p \in Procs, Publish(p) PROVE Filled'
    BY <1>11 DEF Publish
<1>12. ASSUME NEW p \in Procs, Prune(p) PROVE Filled'
    BY <1>12 DEF Prune, StartNightly, ListSets, RemoveSet, PruneDone
<1>13. ASSUME NEW p \in Procs, Restore(p) PROVE Filled'
    BY <1>13 DEF Restore, StartRestore, RestoreRefused, CheckSafety, Reset,
       DumpGone, BeginLoad, EndLoad, FailLoad, BeginSwap, StagingFails,
       EndSwap, FailSwap
<1>14. ASSUME NEW p \in Procs, Die(p) PROVE Filled'
    BY <1>14 DEF Die
<1>15. CASE Environment
    BY <1>15 DEF Environment, Tick, AppWrite, PowerLoss, Rot, Kill
<1>16. CASE UNCHANGED vars
    BY <1>16 DEF vars
<1> QED BY <1>1, <1>2, <1>3, <1>4, <1>5, <1>6, <1>7, <1>8, <1>9, <1>10,
       <1>11, <1>12, <1>13, <1>14, <1>15, <1>16
    DEF Next, Step, Create

\* What is published was sealed, and no later step changes its files.
LEMMA PublishedStep == TypeOK /\ TempNotStolen /\ Filled /\ PublishedSetsWhole /\ [Next]_vars => PublishedSetsWhole'
<1> SUFFICES ASSUME TypeOK, TempNotStolen, Filled, PublishedSetsWhole, [Next]_vars PROVE PublishedSetsWhole'
    OBVIOUS
<1>1. ASSUME sets' = sets PROVE PublishedSetsWhole'
    BY <1>1 DEF PublishedSetsWhole, Present
<1>2. ASSUME NEW p \in Procs, PickId(p) \/ AcquireLock(p) \/ LockRefused(p) \/ Prepare(p)
                               \/ Dump(p) \/ Tar(p) \/ DumpCutShort(p) \/ TarCutShort(p)
                               \/ Abort(p) \/ Seal(p)
      PROVE sets' = sets
    BY <1>2 DEF PickId, AcquireLock, LockRefused, Prepare, Dump, Tar, DumpCutShort,
       TarCutShort, Abort, Seal, store
<1>3. ASSUME NEW p \in Procs, Publish(p) PROVE PublishedSetsWhole'
    <2> DEFINE new == [db |-> partial[p].db, media |-> partial[p].media, good |-> TRUE, by |-> p]
    <2>1. CASE sets[id[p]] # NoDir
        <3>1. sets' = sets
            BY <1>3, <2>1 DEF Publish
        <3> QED
            BY <3>1, <1>1
    <2>2. CASE sets[id[p]] = NoDir
        <3>1. id[p] \in Ids /\ sets' = [sets EXCEPT ![id[p]] = new]
            BY <1>3, <2>2 DEF Publish, TypeOK
        <3>2. sets'[id[p]] = new /\ \A i \in Ids \ {id[p]} : sets'[i] = sets[i]
            BY <3>1 DEF TypeOK
        <3>3. ~IsRestore(p) => /\ partial[p].db # Truncated
                               /\ partial[p].media # Truncated
                               /\ partial[p].media = Absent <=> DbOnly(p)
            BY <1>3 DEF Publish, At, Filled
        <3>4. new.db = partial[p].db /\ new.media = partial[p].media /\ new.by = p
            OBVIOUS
        <3> HIDE DEF new
        <3> QED
            BY <3>2, <3>3, <3>4 DEF PublishedSetsWhole, Present
    <2> QED
        BY <2>1, <2>2
<1>4. ASSUME NEW p \in Procs, StartNightly(p) \/ ListSets(p) \/ PruneDone(p) \/ Die(p) \/ Kill(p)
      PROVE sets' = sets
    BY <1>4 DEF StartNightly, ListSets, PruneDone, Die, Kill, store
<1>5. ASSUME NEW p \in Procs, RemoveSet(p) PROVE PublishedSetsWhole'
    BY <1>5 DEF RemoveSet, TypeOK, PublishedSetsWhole, Present
<1>6. ASSUME NEW p \in Procs, Restore(p) PROVE sets' = sets
    BY <1>6 DEF Restore, StartRestore, RestoreRefused, CheckSafety, Reset, DumpGone, BeginLoad,
       EndLoad, FailLoad, BeginSwap, StagingFails, EndSwap, FailSwap, store
<1>7. ASSUME Tick \/ AppWrite \/ PowerLoss \/ UNCHANGED vars PROVE sets' = sets
    BY <1>7 DEF Tick, AppWrite, PowerLoss, vars, store
<1>8. ASSUME NEW i \in Ids, Rot(i) PROVE PublishedSetsWhole'
    <2>1. sets[i] \in SetRecords
        BY <1>8 DEF Rot, TypeOK
    <2>2. ASSUME NEW j \in Ids
          PROVE  /\ sets'[j] # NoDir => sets[j] # NoDir
                 /\ sets'[j] # NoDir => /\ sets'[j].db = sets[j].db
                                        /\ sets'[j].media = sets[j].media
                                        /\ sets'[j].by = sets[j].by
        BY <1>8, <2>1 DEF Rot, TypeOK, SetRecords
    <2> QED
        BY <2>2 DEF PublishedSetsWhole, Present
<1> QED BY <1>1, <1>2, <1>3, <1>4, <1>5, <1>6, <1>7, <1>8 DEF Next, Environment, Step, Create, Prune

\* Only a restore leaves the database empty or half loaded.
LEMMA BrokenStep == TypeOK /\ RestoreOnly /\ BrokenDatabaseExplained /\ [Next]_vars => BrokenDatabaseExplained'
<1> SUFFICES ASSUME TypeOK, RestoreOnly, BrokenDatabaseExplained, [Next]_vars PROVE BrokenDatabaseExplained'
    OBVIOUS
<1> USE ValueAssumption DEF At, Goto, Then, Alive, locals, store, live,
       Started, Terminal, LoadFailed, Loaded, Rollback, AfterDump, TypeOK,
       RestoreOnly, BrokenDatabaseExplained, IsRestore, RestorePcs, LoadPcs,
       CreatePcs
<1>1. ASSUME NEW p \in Procs, Create(p) PROVE BrokenDatabaseExplained'
    BY <1>1 DEF Create, PickId, AcquireLock, LockRefused, Prepare, Dump,
       Tar, DumpCutShort, TarCutShort, Abort, CanAbort, Seal, Publish
<1>2. ASSUME NEW p \in Procs, Prune(p) PROVE BrokenDatabaseExplained'
    BY <1>2 DEF Prune, StartNightly, ListSets, RemoveSet, PruneDone
<1>3. ASSUME NEW p \in Procs, StartRestore(p) PROVE BrokenDatabaseExplained'
    BY <1>3 DEF StartRestore
<1>4. ASSUME NEW p \in Procs, RestoreRefused(p) PROVE BrokenDatabaseExplained'
    BY <1>4 DEF RestoreRefused
<1>5. ASSUME NEW p \in Procs, CheckSafety(p) PROVE BrokenDatabaseExplained'
    BY <1>5 DEF CheckSafety
<1>6. ASSUME NEW p \in Procs, Reset(p) PROVE BrokenDatabaseExplained'
    BY <1>6 DEF Reset
<1>7. ASSUME NEW p \in Procs, DumpGone(p) PROVE BrokenDatabaseExplained'
    BY <1>7 DEF DumpGone
<1>8. ASSUME NEW p \in Procs, BeginLoad(p) PROVE BrokenDatabaseExplained'
    BY <1>8 DEF BeginLoad
<1>9. ASSUME NEW p \in Procs, EndLoad(p) PROVE BrokenDatabaseExplained'
    BY <1>9 DEF EndLoad
<1>10. ASSUME NEW p \in Procs, FailLoad(p) PROVE BrokenDatabaseExplained'
    BY <1>10 DEF FailLoad
<1>11. ASSUME NEW p \in Procs, BeginSwap(p) PROVE BrokenDatabaseExplained'
    BY <1>11 DEF BeginSwap
<1>12. ASSUME NEW p \in Procs, StagingFails(p) PROVE BrokenDatabaseExplained'
    BY <1>12 DEF StagingFails
<1>13. ASSUME NEW p \in Procs, EndSwap(p) PROVE BrokenDatabaseExplained'
    BY <1>13 DEF EndSwap
<1>14. ASSUME NEW p \in Procs, FailSwap(p) PROVE BrokenDatabaseExplained'
    BY <1>14 DEF FailSwap
<1>15. ASSUME NEW p \in Procs, Die(p) PROVE BrokenDatabaseExplained'
    BY <1>15 DEF Die
<1>16. CASE Tick
    BY <1>16 DEF Tick
<1>17. CASE AppWrite
    BY <1>17 DEF AppWrite
<1>18. CASE PowerLoss
    BY <1>18 DEF PowerLoss
<1>19. ASSUME NEW i \in Ids, Rot(i) PROVE BrokenDatabaseExplained'
    BY <1>19 DEF Rot
<1>20. ASSUME NEW p \in Procs, Kill(p) PROVE BrokenDatabaseExplained'
    BY <1>20 DEF Kill
<1>21. CASE UNCHANGED vars
    BY <1>21 DEF vars
<1> QED BY <1>1, <1>2, <1>3, <1>4, <1>5, <1>6, <1>7, <1>8, <1>9, <1>10,
       <1>11, <1>12, <1>13, <1>14, <1>15, <1>16, <1>17, <1>18, <1>19, <1>20,
       <1>21
    DEF Next, Step, Restore, Environment

\* Only a restore damages the media directory.
LEMMA BrokenMediaStep == TypeOK /\ RestoreOnly /\ BrokenMediaExplained /\ [Next]_vars => BrokenMediaExplained'
<1> SUFFICES ASSUME TypeOK, RestoreOnly, BrokenMediaExplained, [Next]_vars PROVE BrokenMediaExplained'
    OBVIOUS
<1> USE ValueAssumption DEF At, Goto, Then, Alive, locals, store, live, Started, Terminal,
       LoadFailed, Loaded, Rollback, TypeOK, RestoreOnly, BrokenMediaExplained, IsRestore,
       RestorePcs, LoadPcs
<1>1. ASSUME NEW p \in Procs, Create(p) PROVE BrokenMediaExplained'
    BY <1>1 DEF Create, PickId, AcquireLock, LockRefused, Prepare, Dump,
       Tar, DumpCutShort, TarCutShort, Abort, CanAbort, Seal, Publish
<1>2. ASSUME NEW p \in Procs, Prune(p) PROVE BrokenMediaExplained'
    BY <1>2 DEF Prune, StartNightly, ListSets, RemoveSet, PruneDone
<1>3. ASSUME NEW p \in Procs, StartRestore(p) \/ RestoreRefused(p) \/ CheckSafety(p)
      PROVE  BrokenMediaExplained'
    BY <1>3 DEF StartRestore, RestoreRefused, CheckSafety
<1>4. ASSUME NEW p \in Procs, Reset(p) \/ DumpGone(p) PROVE BrokenMediaExplained'
    BY <1>4 DEF Reset, DumpGone
<1>5. ASSUME NEW p \in Procs, BeginLoad(p) PROVE BrokenMediaExplained'
    BY <1>5 DEF BeginLoad
<1>6. ASSUME NEW p \in Procs, EndLoad(p) \/ FailLoad(p) PROVE BrokenMediaExplained'
    BY <1>6 DEF EndLoad, FailLoad
<1>7. ASSUME NEW p \in Procs, BeginSwap(p) PROVE BrokenMediaExplained'
    BY <1>7 DEF BeginSwap
<1>8. ASSUME NEW p \in Procs, StagingFails(p) PROVE BrokenMediaExplained'
    BY <1>8 DEF StagingFails
<1>9. ASSUME NEW p \in Procs, EndSwap(p) PROVE BrokenMediaExplained'
    BY <1>9 DEF EndSwap
<1>10. ASSUME NEW p \in Procs, FailSwap(p) PROVE BrokenMediaExplained'
    BY <1>10 DEF FailSwap
<1>11. ASSUME NEW p \in Procs, Die(p) \/ Kill(p) PROVE BrokenMediaExplained'
    BY <1>11 DEF Die, Kill
<1>12. CASE Tick \/ AppWrite \/ PowerLoss
    BY <1>12 DEF Tick, AppWrite, PowerLoss
<1>13. ASSUME NEW i \in Ids, Rot(i) PROVE BrokenMediaExplained'
    BY <1>13 DEF Rot
<1>14. CASE UNCHANGED vars
    BY <1>14 DEF vars
<1> QED BY <1>1, <1>2, <1>3, <1>4, <1>5, <1>6, <1>7, <1>8, <1>9, <1>10, <1>11, <1>12, <1>13, <1>14
    DEF Next, Step, Restore, Environment

-----------------------------------------------------------------------------
LEMMA InitIInv == Init => IInv
<1> SUFFICES ASSUME Init PROVE IInv
    OBVIOUS
<1> USE ClockAssumption, JobAssumption, ValueAssumption DEF Init
<1>1. TypeOK
  <2>1. <<0, 0>> \in Ids
      BY DEF Ids
  <2>2. \A v \in Versions : [db |-> v, media |-> v, good |-> TRUE, by |-> NoOne] \in SetRecords
      BY DEF SetRecords, Dumps, Databases, Archives, MediaTrees
  <2> QED
      BY <2>1, <2>2 DEF TypeOK, Pcs, CreatePcs, Databases, MediaTrees, Dumps
<1>2. RestoreOnly /\ LockHeldWhileWriting /\ TempNotStolen /\ LitterOnlyFromKilled /\ Filled
    BY DEF RestoreOnly, RestorePcs, LoadPcs, LockHeldWhileWriting, Locked, WritePcs, TempNotStolen,
           LitterOnlyFromKilled, Filled
<1>3. PublishedSetsWhole
    BY DEF PublishedSetsWhole, Present
<1>4. BrokenDatabaseExplained /\ BrokenMediaExplained
    BY DEF BrokenDatabaseExplained, BrokenMediaExplained
<1> QED
    BY <1>1, <1>2, <1>3, <1>4 DEF IInv

\* The inductive invariant holds in every reachable state.
THEOREM Invariance == Spec => []IInv
<1>1. IInv /\ [Next]_vars => IInv'
    BY TypeStep, RestoreOnlyStep, LockStep, TempStep, LitterStep, FilledStep, PublishedStep,
       BrokenStep, BrokenMediaStep DEF IInv
<1> QED
    BY InitIInv, <1>1, PTL DEF Spec

\* Every variable keeps to its type, whatever the invocations are.
THEOREM TypeCorrect == Spec => []TypeOK
    BY Invariance, PTL DEF IInv

\* The flock makes the writers of BACKUP_ROOT mutually exclusive, although it
\* is inherited by children and subshells that outlive a killed shell.
THEOREM LockExcludesWriters == Spec => []LockHeldWhileWriting
    BY Invariance, PTL DEF IInv

\* No backup loses its work directory to the cleanup of another one, and one
\* that succeeds, fails or is refused leaves no partial set behind.
THEOREM PartialsAreOwned == Spec => []PartialsOwned
    BY Invariance, PTL DEF IInv, PartialsOwned

\* Sets published by plain and nightly backups hold complete files.
THEOREM PublishedSetsAreWhole == Spec => []PublishedSetsWhole
    BY Invariance, PTL DEF IInv

\* A broken live database always goes back to a restore: one still loading,
\* one killed, one whose rollback failed, or one that loaded a bad snapshot.
\* A damaged media directory goes back to such a restore as well, or to one that
\* replaced the directory while another did (safe_extract_media holds no lock).
THEOREM BreakageIsExplained == Spec => []BrokenExplained
    BY Invariance, PTL DEF IInv, BrokenExplained

-----------------------------------------------------------------------------
\* What protects retention although prunes take no lock: each set on the list
\* of a prune keeps Keep newer ones, whoever removes what in the meantime.
NewerSets(i) == {j \in Present : Newer(j, i)}
PruneInv ==
  /\ IsFiniteSet(Present)
  /\ \A p \in Procs : \A i \in victims[p] : Cardinality(NewerSets(i)) >= Keep

\* Identifiers are strictly ordered.
LEMMA NewerOrder ==
  /\ \A i \in Ids : ~Newer(i, i)
  /\ \A i, j, k \in Ids : Newer(i, j) /\ Newer(j, k) => Newer(i, k)
<1>1. \A i \in Ids : i[1] \in Nat /\ i[2] \in Nat
    BY ClockAssumption DEF Ids
<1> QED
    BY <1>1 DEF Newer

\* Sets that stay present go on counting.
LEMMA MoreSets ==
  ASSUME NEW S, NEW T, IsFiniteSet(T), S \subseteq T, Cardinality(S) >= Keep
  PROVE  Cardinality(T) >= Keep
<1>1. Cardinality(S) \in Nat /\ Cardinality(T) \in Nat /\ Cardinality(S) <= Cardinality(T)
    BY FS_Subset, FS_CardinalityType
<1> QED
    BY <1>1, ClockAssumption

\* A removal leaves every listed set at least as many newer ones: those of the
\* set removed, if that one was counted.
LEMMA RemovalKeeps ==
  ASSUME TypeOK, PruneInv, NEW q \in Procs, NEW r \in victims[q], sets' = [sets EXCEPT ![r] = NoDir],
         NEW p \in Procs, NEW i \in victims[p]
  PROVE  Cardinality(NewerSets(i)') >= Keep
<1>1. r \in Ids /\ i \in Ids
    BY DEF TypeOK
<1>2. Present' = Present \ {r}
    BY <1>1 DEF TypeOK, Present
<1>3. IsFiniteSet(NewerSets(i)')
    BY <1>2, FS_Subset DEF PruneInv, NewerSets
<1>4. CASE Newer(r, i)
  <2>1. NewerSets(r) \subseteq NewerSets(i)'
      BY <1>1, <1>2, <1>4, NewerOrder DEF NewerSets, Present
  <2> QED
      BY <1>3, <2>1, MoreSets DEF PruneInv
<1>5. CASE ~Newer(r, i)
  <2>1. NewerSets(i) \subseteq NewerSets(i)'
      BY <1>2, <1>5 DEF NewerSets
  <2> QED
      BY <1>3, <2>1, MoreSets DEF PruneInv
<1> QED
    BY <1>4, <1>5

LEMMA PruneStep == TypeOK /\ PruneInv /\ [Next]_vars => PruneInv'
<1> SUFFICES ASSUME TypeOK, PruneInv, [Next]_vars PROVE PruneInv'
    OBVIOUS
<1>1. ASSUME NEW q \in Procs, ListSets(q) PROVE PruneInv'
  <2>1. Present' = Present /\ \A i : NewerSets(i)' = NewerSets(i)
      BY <1>1 DEF ListSets, store, Present, NewerSets
  <2>2. ASSUME NEW p \in Procs, NEW i \in victims'[p] PROVE Cardinality(NewerSets(i)) >= Keep
    <3>1. CASE p = q
      <4>1. victims'[q] = {j \in Present : Cardinality(NewerSets(j)) >= Keep}
          BY <1>1 DEF ListSets, TypeOK, NewerSets
      <4> QED
          BY <2>2, <3>1, <4>1
    <3>2. CASE p # q
      <4>1. victims'[p] = victims[p]
          BY <1>1, <3>2 DEF ListSets, TypeOK
      <4> QED
          BY <2>2, <4>1 DEF PruneInv
    <3> QED
        BY <3>1, <3>2
  <2> QED
      BY <2>1, <2>2 DEF PruneInv
<1>2. ASSUME NEW q \in Procs, RemoveSet(q) PROVE PruneInv'
  <2>1. PICK r \in victims[q] : /\ sets' = [sets EXCEPT ![r] = NoDir]
                                /\ victims' = [victims EXCEPT ![q] = @ \ {r}]
      BY <1>2 DEF RemoveSet
  <2>2. Present' \subseteq Present
      BY <2>1 DEF Present, TypeOK
  <2>3. IsFiniteSet(Present)'
      BY <2>2, FS_Subset DEF PruneInv
  <2>4. ASSUME NEW p \in Procs, NEW i \in victims'[p] PROVE Cardinality(NewerSets(i)') >= Keep
    <3>1. i \in victims[p]
        BY <2>1, <2>4 DEF TypeOK
    <3> QED
        BY <2>1, <3>1, RemovalKeeps
  <2> QED
      BY <2>3, <2>4 DEF PruneInv
<1>3. ASSUME NEW q \in Procs, Publish(q) PROVE PruneInv'
  <2>1. Present' \in {Present, Present \cup {id[q]}} /\ victims' = victims
      BY <1>3 DEF Publish, locals, Present, TypeOK
  <2>2. Present \subseteq Present' /\ IsFiniteSet(Present')
      BY <2>1, FS_AddElement DEF PruneInv
  <2>3. ASSUME NEW p \in Procs, NEW i \in victims[p] PROVE Cardinality(NewerSets(i)') >= Keep
    <3>1. NewerSets(i) \subseteq NewerSets(i)' /\ NewerSets(i)' \subseteq Present'
        BY <2>2 DEF NewerSets
    <3>2. IsFiniteSet(NewerSets(i)')
        BY <2>2, <3>1, FS_Subset
    <3> QED
        BY <3>1, <3>2, MoreSets DEF PruneInv
  <2> QED
      BY <2>1, <2>2, <2>3 DEF PruneInv
<1>4. ASSUME NEW j \in Ids, Rot(j) PROVE Present' = Present /\ victims' = victims
  <2>1. sets[j] # NoDir /\ sets[j] \in SetRecords
      BY <1>4 DEF Rot, TypeOK
  <2>2. [sets[j] EXCEPT !.good = FALSE] \in SetRecords
      BY <2>1 DEF SetRecords
  <2>3. sets'[j] # NoDir
      BY <1>4, <2>2, NoDirAssumption DEF Rot, TypeOK
  <2> QED
      BY <1>4, <2>1, <2>3 DEF Rot, TypeOK, Present, locals
<1>5. ASSUME NEW q \in Procs, Create(q), ~Publish(q) PROVE sets' = sets /\ victims' = victims
    BY <1>5 DEF Create, PickId, AcquireLock, LockRefused, Prepare, Dump, Tar, DumpCutShort, TarCutShort,
       Abort, Seal, store, locals
<1>6. ASSUME NEW q \in Procs, StartNightly(q) \/ PruneDone(q) \/ Die(q) \/ Kill(q)
      PROVE  sets' = sets /\ victims' = victims
    BY <1>6 DEF StartNightly, PruneDone, Die, Kill, store, locals
<1>7. ASSUME NEW q \in Procs, Restore(q) PROVE sets' = sets /\ victims' = victims
    BY <1>7 DEF Restore, StartRestore, RestoreRefused, CheckSafety, Reset, DumpGone, BeginLoad,
       EndLoad, FailLoad, BeginSwap, StagingFails, EndSwap, FailSwap, store, locals
<1>8. ASSUME Tick \/ AppWrite \/ PowerLoss \/ UNCHANGED vars PROVE sets' = sets /\ victims' = victims
    BY <1>8 DEF Tick, AppWrite, PowerLoss, vars, store, locals
<1>9. ASSUME Present' = Present, victims' = victims PROVE PruneInv'
    BY <1>9 DEF PruneInv, NewerSets
<1>10. ASSUME sets' = sets, victims' = victims PROVE PruneInv'
    BY <1>9, <1>10 DEF Present
<1> QED BY <1>1, <1>2, <1>3, <1>4, <1>5, <1>6, <1>7, <1>8, <1>9, <1>10
    DEF Next, Environment, Step, Prune

\* Only RemoveSet removes sets, and what it removes was on a list.
LEMMA OnlyListedRemoved ==
  ASSUME TypeOK, [Next]_vars, NEW i \in Present, sets'[i] = NoDir
  PROVE  \E q \in Procs : i \in victims[q] /\ sets' = [sets EXCEPT ![i] = NoDir]
<1>1. ASSUME NEW q \in Procs, RemoveSet(q) PROVE \E r \in victims[q] : r = i /\ sets' = [sets EXCEPT ![r] = NoDir]
  <2>1. PICK r \in victims[q] : sets' = [sets EXCEPT ![r] = NoDir]
      BY <1>1 DEF RemoveSet
  <2>2. r = i
      BY <2>1 DEF Present, TypeOK
  <2> QED
      BY <2>1, <2>2
<1>2. ASSUME NEW q \in Procs, Publish(q) PROVE FALSE
    BY <1>2 DEF Publish, Present, TypeOK
<1>3. ASSUME sets' = sets PROVE FALSE
    BY <1>3 DEF Present
<1>4. ASSUME NEW q \in Procs, Create(q), ~Publish(q) PROVE sets' = sets
    BY <1>4 DEF Create, PickId, AcquireLock, LockRefused, Prepare, Dump, Tar, DumpCutShort, TarCutShort,
       Abort, Seal, store
<1>5. ASSUME NEW q \in Procs, StartNightly(q) \/ ListSets(q) \/ PruneDone(q) \/ Die(q) \/ Kill(q)
      PROVE  sets' = sets
    BY <1>5 DEF StartNightly, ListSets, PruneDone, Die, Kill, store
<1>6. ASSUME NEW q \in Procs, Restore(q) PROVE sets' = sets
    BY <1>6 DEF Restore, StartRestore, RestoreRefused, CheckSafety, Reset, DumpGone, BeginLoad,
       EndLoad, FailLoad, BeginSwap, StagingFails, EndSwap, FailSwap, store
<1>7. ASSUME Tick \/ AppWrite \/ PowerLoss \/ UNCHANGED vars PROVE sets' = sets
    BY <1>7 DEF Tick, AppWrite, PowerLoss, vars, store
<1>8. ASSUME NEW j \in Ids, Rot(j) PROVE FALSE
  <2>1. sets[j] \in SetRecords
      BY <1>8 DEF Rot, TypeOK
  <2>2. [sets[j] EXCEPT !.good = FALSE] \in SetRecords
      BY <2>1 DEF SetRecords
  <2> QED
      BY <1>8, <2>2, NoDirAssumption DEF Rot, Present, TypeOK
<1> QED BY <1>1, <1>2, <1>3, <1>4, <1>5, <1>6, <1>7, <1>8 DEF Next, Environment, Step, Prune

LEMMA PruneInvariance == Spec => []PruneInv
<1>1. Init => PruneInv
  <2>1. ASSUME Init PROVE Present = PreSets
    <3>1. ASSUME NEW i \in PreSets PROVE sets[i] # NoDir
      <4>1. \A v \in Versions : [db |-> v, media |-> v, good |-> TRUE, by |-> NoOne] \in SetRecords
          BY DEF SetRecords, Dumps, Databases, Archives, MediaTrees
      <4> QED
          BY <2>1, <4>1, IdAssumption, NoDirAssumption DEF Init
    <3> QED
        BY <2>1, <3>1, IdAssumption DEF Init, Present
  <2> QED
      BY <2>1, FiniteAssumption DEF Init, PruneInv
<1> QED
    BY <1>1, PruneStep, TypeCorrect, PTL DEF Spec

\* Retention: no removal leaves fewer than Keep sets newer than the one removed,
\* for any number of prunes, backups and restores side by side.
THEOREM RetentionHolds == Spec => PruneKeepsNewest
<1>1. TypeOK /\ PruneInv /\ [Next]_vars =>
        (\A i \in Present : sets'[i] = NoDir =>
           Cardinality({j \in Ids : sets'[j] # NoDir /\ Newer(j, i)}) >= Keep)
  <2> SUFFICES ASSUME TypeOK, PruneInv, [Next]_vars, NEW i \in Present, sets'[i] = NoDir
               PROVE  Cardinality({j \in Ids : sets'[j] # NoDir /\ Newer(j, i)}) >= Keep
      OBVIOUS
  <2>1. PICK q \in Procs : i \in victims[q] /\ sets' = [sets EXCEPT ![i] = NoDir]
      BY OnlyListedRemoved
  <2>2. Cardinality(NewerSets(i)') >= Keep
      BY <2>1, RemovalKeeps
  <2> QED
      BY <2>2 DEF NewerSets, Present
<1> QED
    BY <1>1, PruneInvariance, TypeCorrect, PTL DEF Spec, PruneKeepsNewest


-----------------------------------------------------------------------------
(***************************************************************************)
(* Every step is one of Safekeeping.  Beyond IInv and PruneInv this needs  *)
(* that whoever holds the flock is where it is needed, and that while a    *)
(* pg_restore is loading, the database is nobody else's.                   *)
(***************************************************************************)
HolderLocked == lock # NoOne => Locked(lock)
LoadingMixed == loader # NoOne => db = Mixed

LEMMA HolderStep == TypeOK /\ LockHeldWhileWriting /\ HolderLocked /\ [Next]_vars => HolderLocked'
<1> SUFFICES ASSUME TypeOK, LockHeldWhileWriting, HolderLocked, [Next]_vars PROVE HolderLocked'
    OBVIOUS
<1> USE ValueAssumption DEF At, Goto, Then, Alive, locals, store, live, Started, Terminal, LoadFailed,
       Loaded, Rollback, AfterDump, TypeOK, HolderLocked, LockHeldWhileWriting, Locked, WritePcs,
       CreatePcs, Release, IsRestore
<1>1. ASSUME NEW p \in Procs, PickId(p) PROVE HolderLocked'
    BY <1>1 DEF PickId
<1>2. ASSUME NEW p \in Procs, AcquireLock(p) PROVE HolderLocked'
    BY <1>2 DEF AcquireLock
<1>3. ASSUME NEW p \in Procs, LockRefused(p) PROVE HolderLocked'
    BY <1>3 DEF LockRefused
<1>4. ASSUME NEW p \in Procs, Prepare(p) \/ Dump(p) \/ Tar(p) PROVE HolderLocked'
    BY <1>4 DEF Prepare, Dump, Tar
<1>5. ASSUME NEW p \in Procs, DumpCutShort(p) \/ TarCutShort(p) \/ Seal(p) PROVE HolderLocked'
    BY <1>5 DEF DumpCutShort, TarCutShort, Seal
<1>6. ASSUME NEW p \in Procs, Abort(p) PROVE HolderLocked'
    BY <1>6 DEF Abort, CanAbort
<1>7. ASSUME NEW p \in Procs, Publish(p) PROVE HolderLocked'
    BY <1>7 DEF Publish
<1>8. ASSUME NEW p \in Procs, StartNightly(p) PROVE HolderLocked'
    BY <1>8 DEF StartNightly
<1>9. ASSUME NEW p \in Procs, ListSets(p) \/ RemoveSet(p) PROVE HolderLocked'
    BY <1>9 DEF ListSets, RemoveSet
<1>10. ASSUME NEW p \in Procs, PruneDone(p) PROVE HolderLocked'
    BY <1>10 DEF PruneDone
<1>11. ASSUME NEW p \in Procs, Restore(p) PROVE HolderLocked'
    BY <1>11 DEF Restore, StartRestore, RestoreRefused, CheckSafety, Reset, DumpGone, BeginLoad,
       EndLoad, FailLoad, BeginSwap, StagingFails, EndSwap, FailSwap
<1>12. ASSUME NEW p \in Procs, Die(p) PROVE HolderLocked'
    BY <1>12 DEF Die
<1>13. CASE Environment \/ UNCHANGED vars
    BY <1>13 DEF Environment, Tick, AppWrite, PowerLoss, Rot, Kill, vars
<1> QED BY <1>1, <1>2, <1>3, <1>4, <1>5, <1>6, <1>7, <1>8, <1>9, <1>10, <1>11, <1>12, <1>13
    DEF Next, Step, Create, Prune

\* Whoever resets the schema or ends a load takes the database from the loader.
LEMMA LoaderStep == TypeOK /\ LoadingMixed /\ [Next]_vars => LoadingMixed'
<1> SUFFICES ASSUME TypeOK, LoadingMixed, [Next]_vars PROVE LoadingMixed'
    OBVIOUS
<1> USE ValueAssumption DEF locals, store, live, TypeOK, LoadingMixed
<1>1. ASSUME NEW p \in Procs, Create(p) PROVE LoadingMixed'
    BY <1>1 DEF Create, PickId, AcquireLock, LockRefused, Prepare, Dump, Tar, DumpCutShort, TarCutShort,
       Abort, Seal, Publish
<1>2. ASSUME NEW p \in Procs, Prune(p) PROVE LoadingMixed'
    BY <1>2 DEF Prune, StartNightly, ListSets, RemoveSet, PruneDone
<1>3. ASSUME NEW p \in Procs, Restore(p) PROVE LoadingMixed'
    BY <1>3 DEF Restore, StartRestore, RestoreRefused, CheckSafety, Reset, DumpGone, BeginLoad,
       EndLoad, FailLoad, BeginSwap, StagingFails, EndSwap, FailSwap
<1>4. ASSUME NEW p \in Procs, Die(p) PROVE LoadingMixed'
    BY <1>4 DEF Die
<1>5. CASE Environment \/ UNCHANGED vars
    BY <1>5 DEF Environment, Tick, AppWrite, PowerLoss, Rot, Kill, vars
<1> QED BY <1>1, <1>2, <1>3, <1>4, <1>5 DEF Next, Step

SafeInv == IInv /\ PruneInv /\ HolderLocked /\ LoadingMixed

\* How the mapped variables follow the steps of one invocation.
LEMMA SecuredSame ==
  ASSUME TypeOK, NEW p \in Procs, NEW where, Goto(p, where), where \in RestorePcs <=> pc[p] \in RestorePcs
  PROVE  Secured' = Secured
  BY DEF TypeOK, Goto, Secured

LEMMA SecuredJoined ==
  ASSUME TypeOK, NEW p \in Procs, NEW where, Goto(p, where), where \in RestorePcs
  PROVE  Secured' = Secured \union {p}
  BY DEF TypeOK, Goto, Secured

LEMMA SecuredLeft ==
  ASSUME TypeOK, NEW p \in Procs, NEW where, Goto(p, where), where \notin RestorePcs
  PROVE  Secured' = Secured \ {p}
  BY DEF TypeOK, Goto, Secured

LEMMA SwappingSame ==
  ASSUME TypeOK, NEW p \in Procs, NEW where, Goto(p, where), where = "swapping" <=> pc[p] = "swapping"
  PROVE  Swapping' = Swapping
  BY DEF TypeOK, Goto, At, Swapping

LEMMA SwappingLeft ==
  ASSUME TypeOK, NEW p \in Procs, NEW where, Goto(p, where), where # "swapping"
  PROVE  Swapping' = Swapping \ {p}
  BY DEF TypeOK, Goto, At, Swapping

LEMMA WorkOwned ==
  ASSUME TypeOK, LockHeldWhileWriting, NEW p \in Procs, pc[p] \in CopyPcs
  PROVE  lock = p /\ Work = partial[p] /\ partial[p] \in PartialRecords \union {NoDir}
  BY ValueAssumption DEF TypeOK, LockHeldWhileWriting, Locked, WritePcs, CopyPcs, Work

LEMMA WorkSame ==
  ASSUME TypeOK, NEW p \in Procs, NEW where, Goto(p, where), pc[p] \in CopyPcs <=> where \in CopyPcs,
         UNCHANGED <<lock, partial>>
  PROVE  Work' = Work
  BY DEF TypeOK, Goto, Work

LEMMA StepUnseen ==
  ASSUME TypeOK, NEW p \in Procs, NEW where, Goto(p, where),
         where \in RestorePcs <=> pc[p] \in RestorePcs, where \in CopyPcs <=> pc[p] \in CopyPcs,
         where = "swapping" <=> pc[p] = "swapping",
         UNCHANGED <<lock, partial, sets, db, media, src, staged, saved, crossed>>
  PROVE  UNCHANGED Safe!vars
  BY SecuredSame, SwappingSame, WorkSame DEF Safe!vars

\* An invocation that ends gives up the flock, and with it its copy.
LEMMA StepStops ==
  ASSUME TypeOK, NEW p \in Procs, NEW where, Goto(p, where), where \notin RestorePcs \union CopyPcs,
         lock = p => lock' = NoOne, lock # p => UNCHANGED lock /\ pc[p] \notin CopyPcs,
         \A q \in Procs : q # p => partial'[q] = partial[q],
         UNCHANGED <<sets, db, media, src, staged, saved, crossed>>
  PROVE  Safe!Stop(p)
  <1>1. Secured' = Secured \ {p} /\ Swapping' = Swapping \ {p}
    BY SecuredLeft, SwappingLeft DEF RestorePcs
  <1>2. CASE lock = p
    BY <1>1, <1>2 DEF Work, Safe!Stop, Safe!opened
  <1>3. CASE lock # p
    <2>1. Work' = Work
      BY <1>3 DEF Work, Goto, TypeOK
    <2> QED
      BY <1>1, <1>3, <2>1 DEF Safe!Stop, Safe!opened, Safe!copying
  <1> QED
    BY <1>2, <1>3

-----------------------------------------------------------------------------
LEMMA CreateIsSafe ==
  ASSUME SafeInv, NEW p \in Procs, Create(p)
  PROVE  [Safe!Next]_(Safe!vars)
  <1> USE DEF SafeInv, IInv
  <1>1. CASE PickId(p)
    <2>1. \E where \in {"prepare", "lock"} : Goto(p, where)
      BY <1>1 DEF PickId
    <2> QED
      BY <1>1, <2>1, StepUnseen DEF PickId, At, store, live, RestorePcs, LoadPcs, CopyPcs
  <1>2. CASE AcquireLock(p)
    <2>1. Secured' = Secured /\ Swapping' = Swapping
      BY <1>2, SecuredSame, SwappingSame DEF AcquireLock, At, RestorePcs, LoadPcs
    <2>2. Work = NoDir /\ Work' = NoDir
      BY <1>2 DEF AcquireLock, Work, Goto, TypeOK, CopyPcs
    <2> QED
      BY <1>2, <2>1, <2>2 DEF AcquireLock, locals, store, live, Safe!Hold, Safe!opened, Safe!swaps, Safe!Next
  <1>3. CASE LockRefused(p)
    <2>1. \E where \in {"failed", "killed"} : Goto(p, where)
      BY <1>3 DEF LockRefused, Then
    <2> QED
      BY <1>3, <2>1, StepUnseen DEF LockRefused, At, locals, store, live, RestorePcs, LoadPcs, CopyPcs
  <1>4. CASE Prepare(p)
    <2>1. lock = p
      BY <1>4 DEF Prepare, At, LockHeldWhileWriting, Locked, WritePcs
    <2>2. Secured' = Secured /\ Swapping' = Swapping
      BY <1>4, SecuredSame, SwappingSame DEF Prepare, At, RestorePcs, LoadPcs
    <2>3. Work = NoDir /\ Work' = [db |-> Absent, media |-> Absent]
      BY <1>4, <2>1, ValueAssumption DEF Prepare, At, Work, Goto, TypeOK, CopyPcs
    <2> QED
      BY <1>4, <2>1, <2>2, <2>3 DEF Prepare, locals, live, Safe!Begin, Safe!opened, Safe!swaps, Safe!Next
  <1>5. CASE Dump(p) \/ DumpCutShort(p) \/ Tar(p) \/ TarCutShort(p)
    <2>1. pc[p] \in {"dump", "tar"} /\ \E where \in {"tar", "seal"} : Goto(p, where)
      BY <1>5 DEF Dump, DumpCutShort, Tar, TarCutShort, At, AfterDump
    <2>2. lock = p /\ Work = partial[p] /\ Work # NoDir
      BY <2>1, WorkOwned DEF CopyPcs, TempNotStolen
    <2>3. Secured' = Secured /\ Swapping' = Swapping
      BY <2>1, SecuredSame, SwappingSame DEF RestorePcs, LoadPcs
    <2>4. UNCHANGED lock
      BY <1>5 DEF Dump, DumpCutShort, Tar, TarCutShort
    <2>5. Work' = partial'[p]
      BY <2>1, <2>2, <2>4, ValueAssumption DEF Work, Goto, TypeOK, CopyPcs
    <2>6. \/ \E file \in {db} \union Safe!CutShort(p) : Work' = [Work EXCEPT !.db = file]
          \/ \E file \in {media} \union Safe!CutShort(p) : Work' = [Work EXCEPT !.media = file]
      <3>1. \/ partial' = [partial EXCEPT ![p].db = db]
            \/ IsRestore(p) /\ partial' = [partial EXCEPT ![p].db = Truncated]
            \/ partial' = [partial EXCEPT ![p].media = media]
            \/ IsRestore(p) /\ partial' = [partial EXCEPT ![p].media = Truncated]
        BY <1>5 DEF Dump, DumpCutShort, Tar, TarCutShort
      <3>2. \/ partial'[p] = [partial[p] EXCEPT !.db = db]
            \/ IsRestore(p) /\ partial'[p] = [partial[p] EXCEPT !.db = Truncated]
            \/ partial'[p] = [partial[p] EXCEPT !.media = media]
            \/ IsRestore(p) /\ partial'[p] = [partial[p] EXCEPT !.media = Truncated]
        BY <3>1 DEF TypeOK
      <3> QED
        BY <2>2, <2>5, <3>2 DEF Safe!CutShort, Restorers
    <2>7. UNCHANGED <<sets, db, media, src, staged, saved, crossed>>
      BY <1>5 DEF Dump, DumpCutShort, Tar, TarCutShort, locals, live
    <2>8. Safe!Copy(p)
      BY <2>2, <2>3, <2>4, <2>6, <2>7 DEF Safe!Copy, Safe!opened, Safe!swaps
    <2> QED
      BY <2>8 DEF Safe!Next
  <1>6. CASE Abort(p)
    <2>1. \E where \in {"failed", "killed"} : Goto(p, where)
      BY <1>6 DEF Abort, Then
    <2>2. lock = p => lock' = NoOne
      BY <1>6 DEF Abort, Release
    <2>3. lock # p => UNCHANGED lock /\ pc[p] \notin CopyPcs
      BY <1>6, WorkOwned DEF Abort, Release
    <2>4. \A q \in Procs : q # p => partial'[q] = partial[q]
      BY <1>6 DEF Abort, TypeOK
    <2>5. Safe!Stop(p)
      BY <1>6, <2>1, <2>2, <2>3, <2>4, StepStops
      DEF Abort, locals, live, RestorePcs, LoadPcs, CopyPcs
    <2> QED
      BY <2>5 DEF Safe!Next
  <1>7. CASE Seal(p)
    BY <1>7, StepUnseen DEF Seal, At, locals, store, live, RestorePcs, LoadPcs, CopyPcs
  <1>8. CASE Publish(p)
    <2>1. pc[p] = "publish" /\ lock = p /\ Work = partial[p] /\ Work # NoDir
      BY <1>8, WorkOwned DEF Publish, At, CopyPcs, TempNotStolen
    <2>2. \E where \in {"list", "check", "killed", "done"} :
            Goto(p, where) /\ (where = "check" => IsRestore(p))
      BY <1>8 DEF Publish, Then
    <2>3. Work' = NoDir
      BY <1>8, <2>1, <2>2 DEF Publish, Release, Work, Goto, TypeOK, CopyPcs
    <2>4. /\ Secured' = Secured \/ (p \in Restorers /\ Secured' = Secured \union {p})
          /\ Swapping' = Swapping
      BY <2>1, <2>2, SecuredSame, SecuredJoined, SwappingSame DEF RestorePcs, LoadPcs, Restorers
    <2>5. lock' \in {p, NoOne}
      BY <1>8, <2>1 DEF Publish, Release
    <2>6. Work.db # Absent /\ (p \notin Restorers => Truncated \notin {Work.db, Work.media})
      BY <2>1 DEF Filled, Restorers
    <2>7. \E i \in Ids :
            IF sets[i] = NoDir
            THEN sets' = [sets EXCEPT ![i] = [db |-> Work.db, media |-> Work.media, good |-> TRUE, by |-> p]]
            ELSE UNCHANGED sets
      BY <1>8, <2>1 DEF Publish, TypeOK
    <2>8. UNCHANGED <<db, media, src, staged, saved, crossed>>
      BY <1>8 DEF Publish, locals, live
    <2>9. Safe!Publish(p)
      BY <2>1, <2>3, <2>4, <2>5, <2>6, <2>7, <2>8 DEF Safe!Publish, Safe!opened, Safe!swaps
    <2> QED
      BY <2>9 DEF Safe!Next
  <1> QED
    BY <1>1, <1>2, <1>3, <1>4, <1>5, <1>6, <1>7, <1>8 DEF Create

\* Safekeeping counts as this module does.
LEMMA SameCardinality == \A S : Safe!Cardinality(S) = Cardinality(S)
  BY DEF Safe!Cardinality, Cardinality

LEMMA PruneIsSafe ==
  ASSUME SafeInv, NEW p \in Procs, Prune(p)
  PROVE  [Safe!Next]_(Safe!vars)
  <1> USE DEF SafeInv, IInv
  <1>1. CASE StartNightly(p)
    <2>1. CASE lock = NoOne
      <3>1. lock' = p /\ Goto(p, "pick") /\ At(p, "start")
        BY <1>1, <2>1 DEF StartNightly
      <3>2. Secured' = Secured /\ Swapping' = Swapping
        BY <3>1, SecuredSame, SwappingSame DEF At, RestorePcs, LoadPcs
      <3>3. Work = NoDir /\ Work' = NoDir
        BY <2>1, <3>1 DEF Work, Goto, TypeOK, CopyPcs
      <3> QED
        BY <1>1, <2>1, <3>1, <3>2, <3>3
        DEF StartNightly, locals, store, live, Safe!Hold, Safe!opened, Safe!swaps, Safe!Next
    <2>2. CASE lock # NoOne
      BY <1>1, <2>2, StepUnseen
      DEF StartNightly, At, locals, store, live, RestorePcs, LoadPcs, CopyPcs
    <2> QED
      BY <2>1, <2>2
  <1>2. CASE ListSets(p)
    BY <1>2, StepUnseen DEF ListSets, At, store, live, RestorePcs, LoadPcs, CopyPcs
  <1>3. CASE RemoveSet(p)
    <2>1. PICK i \in victims[p] : sets' = [sets EXCEPT ![i] = NoDir]
      BY <1>3 DEF RemoveSet
    <2>2. i \in Ids /\ Cardinality(NewerSets(i)) >= Keep
      BY <2>1 DEF PruneInv, TypeOK
    <2>3. UNCHANGED <<db, media, lock, Work, Secured, src, staged, saved, Swapping, crossed>>
      BY <1>3 DEF RemoveSet, live, Work, Secured, Swapping, At
    <2>4. Safe!NewerSets(i) = NewerSets(i)
      BY DEF NewerSets, Present, Newer, Safe!NewerSets, Safe!Newer
    <2>5. CASE sets[i] = NoDir
      <3>1. UNCHANGED sets
        BY <2>1, <2>2, <2>5 DEF TypeOK
      <3> QED
        BY <2>3, <3>1 DEF Safe!vars
    <2>6. CASE sets[i] # NoDir
      <3>1. Safe!Retire(i)
        BY <2>1, <2>2, <2>3, <2>4, <2>6, SameCardinality DEF Safe!Retire, Safe!copying, Safe!opened, Safe!swaps
      <3> QED
        BY <2>2, <3>1 DEF Safe!Next
    <2> QED
      BY <2>5, <2>6
  <1>4. CASE PruneDone(p)
    <2>1. Safe!Stop(p)
      BY <1>4, StepStops DEF PruneDone, At, Release, locals, store, live, RestorePcs, LoadPcs, CopyPcs
    <2> QED
      BY <2>1 DEF Safe!Next
  <1> QED
    BY <1>1, <1>2, <1>3, <1>4 DEF Prune

LEMMA RestoreIsSafe ==
  ASSUME SafeInv, NEW p \in Procs, Restore(p)
  PROVE  [Safe!Next]_(Safe!vars)
  <1> USE DEF SafeInv, IInv
  <1>1. CASE StartRestore(p)
    BY <1>1, StepUnseen DEF StartRestore, At, store, live, RestorePcs, LoadPcs, CopyPcs
  <1>2. CASE RestoreRefused(p)
    BY <1>2, StepUnseen DEF RestoreRefused, At, locals, store, live, RestorePcs, LoadPcs, CopyPcs
  <1>3. ASSUME pc[p] \in RestorePcs PROVE lock # p
    BY <1>3, ValueAssumption, JobAssumption
    DEF HolderLocked, Locked, WritePcs, RestorePcs, LoadPcs
  \* A restore that gives up, or goes on to roll back.
  <1>4. ASSUME pc[p] \in RestorePcs, NEW where \in RestorePcs \union {"failed", "lost", "killed"},
               Goto(p, where), where = "swapping" <=> pc[p] = "swapping",
               UNCHANGED <<lock, partial, sets, db, media, src, staged, saved, crossed>>
        PROVE  [Safe!Next]_(Safe!vars)
    <2>1. CASE where \in RestorePcs
      BY <1>4, <2>1, StepUnseen DEF RestorePcs, LoadPcs, CopyPcs
    <2>2. CASE where \notin RestorePcs
      <3>1. where \notin RestorePcs \union CopyPcs /\ pc[p] \notin CopyPcs
        BY <1>4, <2>2 DEF RestorePcs, LoadPcs, CopyPcs
      <3>2. Safe!Stop(p)
        BY <1>3, <1>4, <3>1, StepStops
      <3> QED
        BY <3>2 DEF Safe!Next
    <2> QED
      BY <2>1, <2>2
  <1>5. CASE CheckSafety(p)
    BY <1>4, <1>5 DEF CheckSafety, At, locals, store, live, RestorePcs, LoadPcs
  <1>6. CASE DumpGone(p)
    BY <1>4, <1>6 DEF DumpGone, LoadFailed, At, locals, store, live, RestorePcs, LoadPcs
  \* Restores make no copy and hold no flock.
  <1>7. ASSUME pc[p] \in RestorePcs, NEW where, Goto(p, where), where \notin CopyPcs, UNCHANGED <<lock, partial>>
        PROVE  UNCHANGED <<lock, Work>>
    BY <1>7, WorkSame DEF RestorePcs, LoadPcs, CopyPcs
  <1>8. ASSUME pc[p] \in RestorePcs, NEW where, Goto(p, where)
        PROVE  p \in Secured /\ Secured' \in {Secured, Secured \ {p}}
    BY <1>8, SecuredSame, SecuredLeft DEF Secured
  \* Only two of their steps begin or end the replacing of the media directory.
  <1>9. ASSUME pc[p] \in RestorePcs \ {"swapping"}, NEW where, Goto(p, where), where # "swapping",
               UNCHANGED crossed
        PROVE  UNCHANGED <<Swapping, crossed>>
    BY <1>9, SwappingSame
  <1>10. CASE Reset(p)
    <2>1. PICK where \in {"load", "rbload"} : Goto(p, where)
      BY <1>10 DEF Reset
    <2>2. pc[p] \in RestorePcs /\ where \in RestorePcs /\ where \notin CopyPcs /\ UNCHANGED <<lock, partial>>
      BY <1>10, <2>1 DEF Reset, store, RestorePcs, LoadPcs, CopyPcs
    <2>3. UNCHANGED <<lock, Work>> /\ p \in Secured /\ UNCHANGED Secured
      BY <1>7, <1>8, <2>1, <2>2, SecuredSame
    <2>4. \E i \in Ids : sets[i] # NoDir /\ src' = [src EXCEPT ![p] = IF sets[i].good THEN sets[i].db ELSE Truncated]
      <3>1. PICK i \in Ids : Dumpfile(p) = sets[i]
        BY DEF Dumpfile, TypeOK
      <3>2. /\ sets[i] # NoDir
            /\ src' = [src EXCEPT ![p] = IF sets[i].good THEN sets[i].db ELSE Truncated]
        BY <1>10, <3>1 DEF Reset
      <3> QED
        BY <3>2
    <2>5. db' \in {db, Empty} /\ UNCHANGED <<sets, media, staged, saved>>
      BY <1>10 DEF Reset, store
    <2>6. UNCHANGED <<Swapping, crossed>>
      BY <1>10, <1>9, <2>1 DEF Reset, RestorePcs, LoadPcs
    <2>7. Safe!Open(p)
      BY <2>3, <2>4, <2>5, <2>6 DEF Safe!Open, Safe!copying, Safe!swaps
    <2> QED
      BY <2>7 DEF Safe!Next
  <1>11. CASE BeginLoad(p)
    <2>1. CASE db = Empty
      <3>1. PICK where \in {"loading", "rbloading"} : Goto(p, where)
        BY <1>11, <2>1 DEF BeginLoad
      <3>2. pc[p] \in RestorePcs /\ where \notin CopyPcs /\ UNCHANGED <<lock, partial>>
        BY <1>11, <3>1 DEF BeginLoad, store, RestorePcs, LoadPcs, CopyPcs
      <3>3. db' = Mixed /\ UNCHANGED <<sets, media, src, staged, saved>>
        BY <1>11, <2>1 DEF BeginLoad, store, locals
      <3>4. UNCHANGED <<Swapping, crossed>>
        BY <1>11, <1>9, <3>1 DEF BeginLoad, locals, RestorePcs, LoadPcs
      <3>5. Safe!Spoil(p)
        BY <1>7, <1>8, <3>1, <3>2, <3>3, <3>4
        DEF Safe!Spoil, Safe!OnOrOut, Safe!copying, Safe!opened, Safe!swaps
      <3> QED
        BY <3>5 DEF Safe!Next
    <2>2. CASE db # Empty
      BY <1>4, <1>11, <2>2 DEF BeginLoad, LoadFailed, locals, store, RestorePcs, LoadPcs
    <2> QED
      BY <2>1, <2>2
  <1>12. CASE EndLoad(p)
    <2>1. PICK where \in {"failed", "swap", "done", "killed"} : Goto(p, where)
      BY <1>12 DEF EndLoad, Then, Loaded
    <2>2. pc[p] \in RestorePcs /\ where \notin CopyPcs /\ UNCHANGED <<lock, partial>>
      BY <1>12, <2>1 DEF EndLoad, store, RestorePcs, LoadPcs, CopyPcs
    <2>3. db = Mixed
      BY <1>12, ValueAssumption DEF EndLoad, LoadingMixed
    <2>4. src[p] # Truncated /\ db' = src[p] /\ UNCHANGED <<sets, media, src, staged, saved>>
      BY <1>12 DEF EndLoad, store, locals
    <2>5. UNCHANGED <<Swapping, crossed>>
      BY <1>12, <1>9, <2>1 DEF EndLoad, locals, RestorePcs, LoadPcs
    <2>6. Safe!Load(p)
      BY <1>7, <1>8, <2>1, <2>2, <2>3, <2>4, <2>5
      DEF Safe!Load, Safe!OnOrOut, Safe!copying, Safe!opened, Safe!swaps
    <2> QED
      BY <2>6 DEF Safe!Next
  <1>13. CASE FailLoad(p)
    <2>1. PICK where \in {"lost", "rbreset", "killed"} : Goto(p, where)
      BY <1>13 DEF FailLoad, Then, LoadFailed
    <2>2. pc[p] \in RestorePcs /\ where \notin CopyPcs /\ UNCHANGED <<lock, partial>>
      BY <1>13, <2>1 DEF FailLoad, store, RestorePcs, LoadPcs, CopyPcs
    <2>3. UNCHANGED <<sets, media, src, staged, saved>> /\ UNCHANGED <<Swapping, crossed>>
      BY <1>13, <1>9, <2>1 DEF FailLoad, store, locals, RestorePcs, LoadPcs
    <2>4. CASE db' = Mixed
      <3>1. Safe!Spoil(p)
        BY <1>7, <1>8, <2>1, <2>2, <2>3, <2>4
        DEF Safe!Spoil, Safe!OnOrOut, Safe!copying, Safe!opened, Safe!swaps
      <3> QED
        BY <3>1 DEF Safe!Next
    <2>5. CASE db' = db
      BY <1>4, <1>13, <2>1, <2>2, <2>3, <2>5 DEF FailLoad, RestorePcs, LoadPcs
    <2> QED
      BY <1>13, <2>4, <2>5 DEF FailLoad
  <1>14. CASE BeginSwap(p)
    <2>1. pc[p] \in RestorePcs /\ Goto(p, "swapping") /\ "swapping" \in RestorePcs /\ "swapping" \notin CopyPcs
      BY <1>14 DEF BeginSwap, At, RestorePcs, LoadPcs, CopyPcs
    <2>2. UNCHANGED <<lock, Work>> /\ p \in Secured /\ UNCHANGED Secured
      BY <1>7, <1>8, <1>14, <2>1, SecuredSame DEF BeginSwap, store
    <2>3. \E i \in Ids : /\ sets[i] # NoDir /\ sets[i].good /\ sets[i].media \notin {Truncated, Absent}
                         /\ staged' = [staged EXCEPT ![p] = sets[i].media]
      BY <1>14, ValueAssumption DEF BeginSwap, TypeOK, MediaTrees
    <2>4. saved' = [saved EXCEPT ![p] = media] /\ media' = Mixed /\ UNCHANGED <<sets, db, src>>
      BY <1>14 DEF BeginSwap, store
    <2>5. /\ Swapping' = Swapping \union {p}
          /\ crossed' = IF Swapping = {} THEN crossed ELSE crossed \union Swapping \union {p}
      BY <1>14 DEF BeginSwap, Swapping, At, Goto, TypeOK
    <2>6. Safe!Unpack(p)
      BY <2>2, <2>3, <2>4, <2>5 DEF Safe!Unpack, Safe!copying
    <2> QED
      BY <2>6 DEF Safe!Next
  <1>15. CASE StagingFails(p)
    BY <1>4, <1>15 DEF StagingFails, At, locals, store, live, RestorePcs, LoadPcs
  <1>16. CASE EndSwap(p)
    <2>1. PICK where \in {"done", "killed"} : Goto(p, where)
      BY <1>16 DEF EndSwap, Then
    <2>2. pc[p] = "swapping" /\ UNCHANGED <<lock, partial>> /\ UNCHANGED <<sets, db, src, staged, saved, crossed>>
      BY <1>16 DEF EndSwap, At, store, locals
    <2>3. UNCHANGED <<lock, Work>> /\ p \in Secured
      BY <1>7, <1>8, <2>1, <2>2 DEF CopyPcs, RestorePcs
    <2>4. Secured' = Secured \ {p} /\ p \in Swapping /\ Swapping' = Swapping \ {p}
      BY <2>1, <2>2, SecuredLeft, SwappingLeft DEF RestorePcs, LoadPcs, Swapping, At
    <2>5. media' = staged[p] \/ (media' = Mixed /\ p \in crossed)
      BY <1>16 DEF EndSwap
    <2>6. Safe!Place(p)
      BY <2>2, <2>3, <2>4, <2>5 DEF Safe!Place, Safe!copying, Safe!opened
    <2> QED
      BY <2>6 DEF Safe!Next
  <1>17. CASE FailSwap(p)
    <2>1. Goto(p, "rbreset") /\ media' \in {saved[p], Mixed}
      BY <1>17 DEF FailSwap
    <2>2. pc[p] = "swapping" /\ UNCHANGED <<lock, partial>> /\ UNCHANGED <<sets, db, src, staged, saved, crossed>>
      BY <1>17 DEF FailSwap, At, store, locals
    <2>3. UNCHANGED <<lock, Work>> /\ p \in Secured
      BY <1>7, <1>8, <2>1, <2>2 DEF CopyPcs, RestorePcs
    <2>4. Secured' = Secured /\ p \in Swapping /\ Swapping' = Swapping \ {p}
      BY <2>1, <2>2, SecuredSame, SwappingLeft DEF RestorePcs, LoadPcs, Swapping, At
    <2>5. Safe!Place(p)
      BY <2>1, <2>2, <2>3, <2>4 DEF Safe!Place, Safe!copying, Safe!opened
    <2> QED
      BY <2>5 DEF Safe!Next
  <1> QED
    BY <1>1, <1>2, <1>5, <1>6, <1>10, <1>11, <1>12, <1>13, <1>14, <1>15, <1>16, <1>17 DEF Restore

LEMMA EnvironmentIsSafe ==
  ASSUME SafeInv, Environment
  PROVE  [Safe!Next]_(Safe!vars)
  <1> USE DEF SafeInv, IInv
  <1>1. ASSUME UNCHANGED <<pc, lock, partial>> PROVE UNCHANGED <<lock, Work, Secured, Swapping>>
    BY <1>1 DEF Work, Secured, Swapping, At
  <1>2. CASE Tick
    BY <1>1, <1>2 DEF Tick, locals, store, live, Safe!vars
  <1>3. CASE AppWrite
    <2>1. UNCHANGED <<lock, Work, Secured, Swapping>> /\ UNCHANGED <<sets, src, staged, saved, crossed>>
      BY <1>1, <1>3 DEF AppWrite, locals, store
    <2>2. db \in Versions /\ db' \in Versions /\ (UNCHANGED media \/ (media \in Versions /\ media' = db'))
      BY <1>3 DEF AppWrite
    <2>3. Safe!Change
      BY <2>1, <2>2 DEF Safe!Change, Safe!copying, Safe!opened, Safe!swaps
    <2> QED
      BY <2>3 DEF Safe!Next
  <1>4. CASE PowerLoss
    <2>1. lock' = NoOne /\ UNCHANGED <<sets, db, media, src, staged, saved, crossed>>
      BY <1>4 DEF PowerLoss, locals, store, live
    <2>2. Work' = NoDir
      BY <2>1 DEF Work
    <2>3. \A p \in Procs : pc'[p] \notin RestorePcs
      BY <1>4 DEF PowerLoss, Started, Terminal, RestorePcs, LoadPcs
    <2>4. Secured' = {} /\ Swapping' = {}
      BY <2>3 DEF Secured, Swapping, At, RestorePcs
    <2>5. Safe!PowerLoss
      BY <2>1, <2>2, <2>4 DEF Safe!PowerLoss, Safe!opened
    <2> QED
      BY <2>5 DEF Safe!Next
  <1>5. ASSUME NEW i \in Ids, Rot(i) PROVE [Safe!Next]_(Safe!vars)
    <2>1. UNCHANGED <<lock, Work, Secured, Swapping>>
      BY <1>1, <1>5 DEF Rot
    <2>2. Safe!Decay(i)
      BY <1>5, <2>1 DEF Rot, locals, live, Safe!Decay, Safe!copying, Safe!opened, Safe!swaps
    <2> QED
      BY <2>2 DEF Safe!Next
  <1>6. ASSUME NEW p \in Procs, Kill(p) PROVE [Safe!Next]_(Safe!vars)
    BY <1>1, <1>6 DEF Kill, locals, store, live, Safe!vars
  <1> QED
    BY <1>2, <1>3, <1>4, <1>5, <1>6 DEF Environment

LEMMA DeathIsSafe ==
  ASSUME SafeInv, NEW p \in Procs, Die(p)
  PROVE  [Safe!Next]_(Safe!vars)
  <1>1. lock # p => pc[p] \notin CopyPcs
    BY WorkOwned DEF SafeInv, IInv
  <1>2. Safe!Stop(p)
    BY <1>1, StepStops
    DEF SafeInv, IInv, Die, Release, locals, store, live, RestorePcs, LoadPcs, CopyPcs
  <1> QED
    BY <1>2 DEF Safe!Next

LEMMA StartsSafe == Init => Safe!Init
  <1> SUFFICES ASSUME Init PROVE Safe!Init
    OBVIOUS
  <1>1. \A i \in Ids : sets[i] = NoDir \/ (sets[i].db \in Versions /\ sets[i].media \in Versions)
    BY DEF Init
  <1>2. Secured = {} /\ Swapping = {}
    BY DEF Init, Secured, Swapping, At, RestorePcs, LoadPcs
  <1>3. lock = NoOne /\ Work = NoDir
    BY DEF Init, Work
  <1> QED
    BY <1>1, <1>2, <1>3 DEF Init, Safe!Init

\* The tool implements Safekeeping, whatever its invocations are asked to do and
\* however they overlap, fail or are killed (create_backup, restore_set).
THEOREM ToolKeepsSafe == Spec => KeepsSafe
<1>1. Init => HolderLocked /\ LoadingMixed
    BY DEF Init, HolderLocked, LoadingMixed
<1>2. IInv /\ HolderLocked /\ LoadingMixed /\ [Next]_vars => HolderLocked' /\ LoadingMixed'
    BY HolderStep, LoaderStep DEF IInv
<1>3. SafeInv /\ [Next]_vars => [Safe!Next]_(Safe!vars)
  <2> SUFFICES ASSUME SafeInv, [Next]_vars PROVE [Safe!Next]_(Safe!vars)
      OBVIOUS
  <2>1. CASE UNCHANGED vars
      BY <2>1 DEF vars, Safe!vars, Work, Secured, Swapping, At
  <2> QED
      BY <2>1, CreateIsSafe, PruneIsSafe, RestoreIsSafe, EnvironmentIsSafe, DeathIsSafe DEF Next, Step
<1>4. Spec => []SafeInv
    BY Invariance, PruneInvariance, <1>1, <1>2, PTL DEF Spec, SafeInv
<1> QED
    BY <1>3, <1>4, StartsSafe, PTL DEF Spec, KeepsSafe, Safe!Spec
==============================================================================
