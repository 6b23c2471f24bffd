---------------------------- MODULE ErasureProofs ----------------------------
(* Proofs about ErasureWorkflow, for any posts, offers and processes. *)
EXTENDS ErasureWorkflow, TLAPS

USE DEF db, files, world, locals, vars

LEMMA LiveOfType == \A t : LiveOf(t) \subseteq Data
BY DEF LiveOf

LEMMA InitType == Init => TypeOK
BY ConstantsAssumption
   DEF Init, TypeOK, Tables, RowStates, Events, EventStates, PCs, ContinuationPCs

\* A step of the world, or one that only moves a process.
LEMMA WorldType == TypeOK /\ WorldStep => TypeOK'
BY DEF TypeOK, WorldStep, RemovePost, ApprovePost, DeleteAuthor

LEMMA GotoType ==
    ASSUME TypeOK, NEW p \in Proc, NEW from, NEW to \in PCs, Goto(p, from, to)
    PROVE  pc' \in [Proc -> PCs]
BY DEF TypeOK, Goto

LEMMA StartType ==
    ASSUME TypeOK, NEW p \in Proc,
           StartRun(p) \/ StartBackup(p) \/ StartExport(p) \/ StartMigrate(p)
    PROVE  TypeOK'
<1>1. CASE StartRun(p)
  BY <1>1, GotoType DEF StartRun, TypeOK, Acquire, Goto, ContinuationPCs, PCs
<1>2. CASE StartBackup(p)
  BY <1>2, GotoType DEF StartBackup, TypeOK, Acquire, Goto, PCs
<1>3. CASE StartExport(p)
  BY <1>3, LiveOfType, ConstantsAssumption DEF StartExport, TypeOK, Acquire, Goto, ReadRows, PCs
<1>4. CASE StartMigrate(p)
  BY <1>4 DEF StartMigrate, TypeOK, Acquire, Goto, PCs
<1>5. QED
  BY <1>1, <1>2, <1>3, <1>4

LEMMA CopyType ==
    ASSUME TypeOK, NEW p \in Proc, NEW from, NEW to \in PCs, CopyDatabase(p, from, to)
    PROVE  TypeOK'
<1>1. Snapshot("temporary") \in BackupFiles
  BY DEF TypeOK, Snapshot, BackupFiles, Labels
<1>2. backups' \subseteq BackupFiles
  BY <1>1 DEF TypeOK, CopyDatabase
<1>3. QED
  BY <1>2 DEF TypeOK, CopyDatabase, Goto

LEMMA InstallType ==
    ASSUME TypeOK, NEW p \in Proc, NEW from, NEW to \in PCs, NEW lab \in Labels,
           InstallBackup(p, from, to, lab)
    PROVE  TypeOK'
<1>1. \A c \in BackupFiles : [label |-> lab, row |-> c.row, event |-> c.event] \in BackupFiles
  BY DEF BackupFiles
<1>2. backups' \subseteq BackupFiles
  BY <1>1 DEF TypeOK, InstallBackup
<1>3. QED
  BY <1>2 DEF TypeOK, InstallBackup, Goto

LEMMA WriteType ==
    ASSUME TypeOK, NEW p \in Proc, NEW at, NEW isRanked \in BOOLEAN,
           WriteFile(p, at, isRanked)
    PROVE  TypeOK'
<1>1. /\ left[p] \in 0..LastFile /\ left[p] > 0
      /\ LastFile \in Nat
  BY ConstantsAssumption DEF TypeOK, WriteFile
<1>2. [file |-> LastFile - left[p] + 1, ranked |-> isRanked, data |-> held[p]] \in ExportFiles
  BY <1>1 DEF TypeOK, ExportFiles
<1>3. exports' \subseteq ExportFiles
  BY <1>2 DEF TypeOK, WriteFile
<1>4. left' \in [Proc -> 0..LastFile]
  BY <1>1 DEF TypeOK, WriteFile
<1>5. QED
  BY <1>3, <1>4 DEF TypeOK, WriteFile

LEMMA WrittenType ==
    ASSUME TypeOK, NEW p \in Proc, NEW at, NEW to \in PCs, WrittenAll(p, at, to)
    PROVE  TypeOK'
BY DEF TypeOK, WrittenAll, Goto

LEMMA RewriteType ==
    ASSUME TypeOK, NEW t \in Tables, Rewrite(t)
    PROVE  row' \in Tables /\ residue' \subseteq Data /\ gone' \subseteq Data
BY LiveOfType DEF TypeOK, Rewrite

LEMMA IngestType ==
    ASSUME TypeOK, NEW seen \in SUBSET Listings, Ingest(seen)
    PROVE  /\ row' \in Tables /\ residue' \subseteq Data /\ gone' \subseteq Data
           /\ event' \in Events
<1>1. [l \in Listings |->
          IF l \notin seen \/ row[l] = "purged" THEN row[l]
          ELSE IF AdOf[l] \in authorless THEN "authorless"
          ELSE "stored"] \in Tables
  BY DEF TypeOK, Tables, RowStates
<1>2. event' \in Events
  BY DEF TypeOK, Ingest, Events, EventStates
<1>3. QED
  BY <1>1, <1>2, RewriteType DEF Ingest

LEMMA PurgeType ==
    ASSUME TypeOK, NEW dead \in SUBSET Ads, PurgeDeletedAds(dead)
    PROVE  /\ row' \in Tables /\ residue' \subseteq Data /\ gone' \subseteq Data
           /\ event' \in Events
<1>1. [l \in Listings |->
          IF AdOf[l] \in dead /\ row[l] # "absent" THEN "purged" ELSE row[l]] \in Tables
  BY DEF TypeOK, Tables, RowStates
<1>2. event' \in Events
  BY DEF TypeOK, PurgeDeletedAds, Events, EventStates
<1>3. QED
  BY <1>1, <1>2, RewriteType DEF PurgeDeletedAds

LEMMA CollectType ==
    ASSUME TypeOK, NEW p \in Proc,
           Discover(p) \/ Refresh(p) \/ ApplyDeletions(p) \/ SourceStops(p)
    PROVE  TypeOK'
<1>1. CASE Discover(p)
  <2>1. PICK seen \in SUBSET Visible :
            /\ Ingest(seen)
            /\ resume' = [resume EXCEPT ![p] =
                             IF Rejected(seen) = {} THEN "publish" ELSE "finish"]
    BY <1>1 DEF Discover
  <2>2. seen \in SUBSET Listings
    BY DEF Visible
  <2>3. resume' \in [Proc -> ContinuationPCs]
    BY <2>1 DEF TypeOK, ContinuationPCs
  <2>4. QED
    BY <1>1, <2>1, <2>2, <2>3, IngestType DEF Discover, TypeOK, Goto, PCs
<1>2. CASE Refresh(p)
  <2>1. PICK seen \in SUBSET {l \in Visible : AdOf[l] \in Refreshable} :
            /\ Ingest(seen)
            /\ resume' = [resume EXCEPT ![p] =
                             IF Rejected(seen) = {} THEN @ ELSE "finish"]
    BY <1>2 DEF Refresh
  <2>2. seen \in SUBSET Listings
    BY DEF Visible
  <2>3. resume' \in [Proc -> ContinuationPCs]
    BY <2>1 DEF TypeOK, ContinuationPCs
  <2>4. found' \in [Proc -> SUBSET Ads]
    BY <1>2 DEF TypeOK, Refresh
  <2>5. QED
    BY <1>2, <2>1, <2>2, <2>3, <2>4, IngestType DEF Refresh, TypeOK, Goto, PCs
<1>3. CASE ApplyDeletions(p)
  <2>1. PICK done \in SUBSET found[p] :
            /\ PurgeDeletedAds(done)
            /\ resume' = [resume EXCEPT ![p] = IF done = found[p] THEN @ ELSE "finish"]
    BY <1>3 DEF ApplyDeletions
  <2>2. done \in SUBSET Ads
    BY DEF TypeOK
  <2>3. resume' \in [Proc -> ContinuationPCs]
    BY <2>1 DEF TypeOK, ContinuationPCs
  <2>4. QED
    BY <1>3, <2>1, <2>2, <2>3, PurgeType DEF ApplyDeletions, TypeOK, Goto, PCs
<1>4. CASE SourceStops(p)
  BY <1>4 DEF SourceStops, TypeOK, PCs, ContinuationPCs
<1>5. QED
  BY <1>1, <1>2, <1>3, <1>4

LEMMA ErasureType ==
    ASSUME TypeOK, NEW p \in Proc,
           \/ NothingPending(p) \/ BeginErasure(p)
           \/ PurgeOneBackup(p) \/ PurgedBackups(p)
           \/ PurgeOneExport(p) \/ PurgedExports(p)
           \/ Scrub(p) \/ MarkComplete(p) \/ Rescrub(p)
    PROVE  TypeOK'
<1>1. CASE NothingPending(p)
  BY <1>1 DEF NothingPending, TypeOK, Goto, PCs, ContinuationPCs
<1>2. CASE BeginErasure(p)
  BY <1>2 DEF BeginErasure, TypeOK, Goto, PCs, Pending
<1>3. CASE PurgeOneBackup(p)
  BY <1>3 DEF PurgeOneBackup, TypeOK
<1>4. CASE PurgedBackups(p)
  BY <1>4 DEF PurgedBackups, TypeOK, Goto, PCs
<1>5. CASE PurgeOneExport(p)
  BY <1>5 DEF PurgeOneExport, TypeOK
<1>6. CASE PurgedExports(p)
  BY <1>6 DEF PurgedExports, TypeOK, Goto, PCs
<1>7. CASE Scrub(p)
  BY <1>7, LiveOfType, ConstantsAssumption DEF Scrub, TypeOK, Goto, PCs, ReadRows
<1>8. CASE MarkComplete(p)
  <2>1. event' \in Events
    BY <1>8 DEF MarkComplete, TypeOK, Events, EventStates
  <2>2. QED
    BY <1>8, <2>1 DEF MarkComplete, TypeOK, Goto, PCs
<1>9. CASE Rescrub(p)
  BY <1>9 DEF Rescrub, TypeOK, Goto, PCs, ContinuationPCs
<1>10. QED
  BY <1>1, <1>2, <1>3, <1>4, <1>5, <1>6, <1>7, <1>8, <1>9

LEMMA ExportType ==
    ASSUME TypeOK, NEW p \in Proc,
           Sanitize(p) \/ Publish(p) \/ CliExport(p) \/ BeginPublish(p) \/ Withhold(p)
    PROVE  TypeOK'
<1>1. CASE Sanitize(p)
  BY <1>1, WriteType, WrittenType DEF Sanitize, PCs
<1>2. CASE Publish(p)
  BY <1>2, WriteType, WrittenType DEF Publish, PCs
<1>3. CASE CliExport(p)
  BY <1>3, WriteType, WrittenType DEF CliExport, PCs
<1>4. CASE BeginPublish(p)
  BY <1>4, LiveOfType, ConstantsAssumption DEF BeginPublish, TypeOK, Goto, PCs, ReadRows
<1>5. CASE Withhold(p)
  BY <1>5 DEF Withhold, TypeOK, Goto, PCs
<1>6. QED
  BY <1>1, <1>2, <1>3, <1>4, <1>5

LEMMA BackupType ==
    ASSUME TypeOK, NEW p \in Proc,
           \/ DailyCopy(p) \/ FreshCopy(p) \/ CliCopy(p) \/ MigrateCopy(p)
           \/ DailyInstall(p) \/ FreshInstall(p) \/ CliInstall(p) \/ MigrateInstall(p)
    PROVE  TypeOK'
BY CopyType, InstallType
   DEF DailyCopy, FreshCopy, CliCopy, MigrateCopy,
       DailyInstall, FreshInstall, CliInstall, MigrateInstall, PCs, Labels

LEMMA EndType ==
    ASSUME TypeOK, NEW p \in Proc, Release(p) \/ StepRaises(p) \/ Crash(p)
    PROVE  TypeOK'
<1>1. CASE Release(p)
  BY <1>1 DEF Release, TypeOK, Goto, PCs, ContinuationPCs
<1>2. CASE StepRaises(p)
  <2>1. event' \in Events
    BY <1>2 DEF StepRaises, TypeOK, Events, EventStates
  <2>2. /\ faults' \in 0..MaxFaults
        /\ left' \in [Proc -> 0..LastFile]
    BY <1>2, ConstantsAssumption DEF StepRaises, Fault, TypeOK
  <2>3. QED
    BY <1>2, <2>1, <2>2 DEF StepRaises, Discard, Fault, TypeOK, PCs
<1>3. CASE Crash(p)
  <2>1. [file |-> 0, ranked |-> FALSE, data |-> held[p]] \in ExportFiles
    BY ConstantsAssumption DEF TypeOK, ExportFiles
  <2>2. exports' \subseteq ExportFiles
    BY <1>3, <2>1 DEF Crash, TypeOK
  <2>3. /\ faults' \in 0..MaxFaults
        /\ left' \in [Proc -> 0..LastFile]
    BY <1>3, ConstantsAssumption DEF Crash, Fault, TypeOK
  <2>4. QED
    BY <1>3, <2>2, <2>3 DEF Crash, Fault, TypeOK, PCs, ContinuationPCs
<1>4. QED
  BY <1>1, <1>2, <1>3

LEMMA RestoreType ==
    ASSUME TypeOK, NEW b \in backups, RestoreBackup(b)
    PROVE  TypeOK'
BY DEF RestoreBackup, TypeOK, BackupFiles

LEMMA NextType == TypeOK /\ [Next]_vars => TypeOK'
<1> SUFFICES ASSUME TypeOK, [Next]_vars PROVE TypeOK'
  OBVIOUS
<1>1. CASE WorldStep
  BY <1>1, WorldType
<1>2. ASSUME NEW p \in Proc,
             StartRun(p) \/ StartBackup(p) \/ StartExport(p) \/ StartMigrate(p)
      PROVE  TypeOK'
  BY <1>2, StartType
<1>3. ASSUME NEW p \in Proc, RunStep(p)
      PROVE  TypeOK'
  BY <1>3, CollectType, ErasureType, ExportType, BackupType DEF RunStep
<1>4. ASSUME NEW p \in Proc, CommandStep(p)
      PROVE  TypeOK'
  BY <1>4, ExportType, BackupType DEF CommandStep
<1>5. ASSUME NEW p \in Proc, Release(p) \/ StepRaises(p) \/ Crash(p)
      PROVE  TypeOK'
  BY <1>5, EndType
<1>6. ASSUME NEW b \in backups, RestoreBackup(b)
      PROVE  TypeOK'
  BY <1>6, RestoreType
<1>7. CASE UNCHANGED vars
  BY <1>7 DEF TypeOK
<1>8. QED
  BY <1>1, <1>2, <1>3, <1>4, <1>5, <1>6, <1>7 DEF Next, Work

\* Every variable keeps its type, in particular an export never counts below
\* zero files and the faults stay within their bound.
THEOREM TypeCorrect == Spec => []TypeOK
<1>1. QED
  BY InitType, NextType, PTL DEF Spec

-----------------------------------------------------------------------------
(* The inductive invariant.                                                *)

\* At most the holder of the lock is at work, so the locals of the others
\* say nothing about the database.
LEMMA OthersIdle ==
    ASSUME LockInv, NEW p \in Proc, pc[p] # "idle"
    PROVE  /\ lock = p
           /\ \A q \in Proc : q # p => pc[q] = "idle"
BY DEF LockInv

LEMMA FreeIsIdle ==
    ASSUME LockInv, lock = None
    PROVE  \A q \in Proc : pc[q] = "idle"
BY ConstantsAssumption DEF LockInv

\* As long as gone and event are unchanged, so is what is settled.
LEMMA SettledSame ==
    ASSUME UNCHANGED <<gone, event>>
    PROVE  Settled' = Settled /\ Pending' = Pending
BY DEF Settled, Pending

LEMMA SettledErased == Settled \subseteq gone
BY DEF Settled

\* Without pending events everything erased is settled.
LEMMA SettledAll ==
    ASSUME Pending = {}
    PROVE  Settled = gone
BY DEF Settled

\* The part of the invariant about data, when the table and the history stay.
LEMMA DataFrame ==
    ASSUME TypeOK, DataInv, UNCHANGED <<row, gone, event>>,
           residue' \subseteq residue,
           \A b \in backups' : b.row = row \/ \E c \in backups : b.row = c.row,
           \A x \in exports' : x \in exports \/ x.data \cap gone = {}
    PROVE  DataInv'
<1>1. Settled' = Settled
  BY SettledSame
<1>2. \A b \in backups' : LiveOf(b.row) \cap Settled = {}
  BY SettledErased DEF DataInv
<1>3. \A x \in exports' : x.data \cap Settled = {}
  BY SettledErased DEF DataInv
<1>4. LiveOf(row') = LiveOf(row)
  OBVIOUS
<1>5. QED
  BY <1>1, <1>2, <1>3, <1>4 DEF DataInv

LEMMA InitIInv == Init => IInv
<1> SUFFICES ASSUME Init PROVE IInv
  OBVIOUS
<1>1. gone = {} /\ Settled = {}
  BY DEF Init, Settled
<1>2. \A p \in Proc : pc[p] = "idle" /\ held[p] = {}
  BY DEF Init
<1>3. LockInv /\ HeldInv /\ BatchInv /\ PurgeInv
  BY <1>1, <1>2 DEF LockInv, HeldInv, BatchInv, PurgeInv, ErasureSteps,
                    AfterScrub, AfterExports, AfterBackups
<1>4. DataInv
  BY <1>1 DEF Init, DataInv
<1>5. QED
  BY <1>3, <1>4 DEF IInv

LEMMA WorldIInv ==
    ASSUME TypeOK, IInv, WorldStep \/ UNCHANGED vars
    PROVE  IInv'
<1>1. UNCHANGED <<db, files, lock, pc, locals>>
  BY DEF WorldStep, RemovePost, ApprovePost, DeleteAuthor
<1>2. Settled' = Settled /\ Pending' = Pending
  BY <1>1, SettledSame
<1>3. QED
  BY <1>1, <1>2 DEF IInv, LockInv, DataInv, HeldInv, BatchInv, PurgeInv,
                    BackupsClean, ExportsClean

\* What is left to show of a step of one process p: the others are idle and
\* hold no rows, so only p's new program point and the data matter.
LEMMA StepIInv ==
    ASSUME TypeOK, IInv, NEW p \in Proc, NEW to \in PCs,
           pc[p] # "idle" \/ lock = None,
           pc'[p] = to, \A q \in Proc : q # p => pc'[q] = pc[q],
           lock' = p \/ to = "idle",
           DataInv',
           \A q \in Proc : q # p => held'[q] = held[q],
           held'[p] \cap gone' = {},
           to \notin {"sanitize", "publishing", "cliExport"} => held'[p] = {},
           to \in ErasureSteps => /\ Pending' \subseteq batch'[p]
                                /\ \A k \in batch'[p] : event'[k] # "none",
           to \in AfterBackups => BackupsClean',
           to \in AfterExports => ExportsClean',
           to \in AfterScrub => residue' = {}
    PROVE  IInv'
<1>1. /\ pc'[p] = to
      /\ \A q \in Proc : q # p => pc[q] = "idle" /\ pc'[q] = "idle"
  BY OthersIdle, FreeIsIdle DEF IInv
<1>2. LockInv'
  BY <1>1 DEF LockInv
<1>3. HeldInv'
  <2>1. \A q \in Proc : q # p => held'[q] = {}
    BY <1>1 DEF IInv, HeldInv
  <2>2. QED
    BY <1>1, <2>1 DEF HeldInv
<1>4. BatchInv'
  BY <1>1 DEF BatchInv, ErasureSteps
<1>5. PurgeInv'
  BY <1>1 DEF PurgeInv, AfterScrub, AfterExports, AfterBackups
<1>6. QED
  BY <1>2, <1>3, <1>4, <1>5 DEF IInv

\* The same for a step that leaves the database and the files alone.
LEMMA MoveIInv ==
    ASSUME TypeOK, IInv, NEW p \in Proc, NEW to \in PCs,
           pc[p] # "idle" \/ lock = None,
           pc' = [pc EXCEPT ![p] = to],
           lock' = p \/ to = "idle",
           UNCHANGED <<db, files>>,
           \A q \in Proc : q # p => held'[q] = held[q],
           held'[p] \cap gone = {},
           to \notin {"sanitize", "publishing", "cliExport"} => held'[p] = {},
           to \in ErasureSteps => /\ Pending \subseteq batch'[p]
                                /\ \A k \in batch'[p] : event[k] # "none",
           to \in AfterBackups => BackupsClean,
           to \in AfterExports => ExportsClean,
           to \in AfterScrub => residue = {}
    PROVE  IInv'
<1>1. Settled' = Settled /\ Pending' = Pending
  BY SettledSame
<1>2. DataInv'
  BY <1>1 DEF IInv, DataInv
<1>3. BackupsClean' = BackupsClean /\ ExportsClean' = ExportsClean
  BY DEF BackupsClean, ExportsClean
<1>4. pc'[p] = to /\ \A q \in Proc : q # p => pc'[q] = pc[q]
  BY DEF TypeOK
<1>5. QED
  BY <1>1, <1>2, <1>3, <1>4, StepIInv

LEMMA StartIInv ==
    ASSUME TypeOK, IInv, NEW p \in Proc,
           StartRun(p) \/ StartBackup(p) \/ StartExport(p) \/ StartMigrate(p)
    PROVE  IInv'
<1>1. CASE StartExport(p)
  <2>1. held' = [held EXCEPT ![p] = LiveOf(row)]
    BY <1>1 DEF StartExport, ReadRows
  <2>2. held'[p] \cap gone = {} /\ \A q \in Proc : q # p => held'[q] = held[q]
    BY <2>1 DEF IInv, DataInv, TypeOK
  <2>3. QED
    BY <1>1, <2>2, MoveIInv
       DEF StartExport, Acquire, Goto, PCs, ErasureSteps, AfterBackups, AfterExports, AfterScrub
<1>2. CASE ~StartExport(p)
  <2>1. PICK to \in {"check", "cliCopy", "migrateCopy"} :
            /\ lock = None /\ lock' = p
            /\ Goto(p, "idle", to)
            /\ UNCHANGED <<db, files, held>>
    BY <1>2 DEF StartRun, StartBackup, StartMigrate, Acquire
  <2>2. held'[p] = {}
    BY <2>1 DEF IInv, HeldInv, Goto
  <2>3. QED
    BY <2>1, <2>2, MoveIInv
       DEF Goto, PCs, ErasureSteps, AfterBackups, AfterExports, AfterScrub
<1>3. QED
  BY <1>1, <1>2

\* Steps of the pipeline that decide, and steps that end a loop.
LEMMA DecideIInv ==
    ASSUME TypeOK, IInv, NEW p \in Proc,
           \/ NothingPending(p) \/ BeginErasure(p) \/ SourceStops(p)
           \/ PurgedBackups(p) \/ PurgedExports(p) \/ BeginPublish(p)
           \/ Withhold(p) \/ Release(p)
    PROVE  IInv'
<1> USE DEF PCs, ErasureSteps, AfterBackups, AfterExports, AfterScrub
<1>1. pc[p] # "idle" /\ lock = p
  BY OthersIdle DEF IInv, NothingPending, BeginErasure, SourceStops, PurgedBackups,
                    PurgedExports, BeginPublish, Withhold, Release, Goto
<1>2. held[p] = {} /\ held[p] \cap gone = {}
  BY DEF IInv, HeldInv, NothingPending, BeginErasure, SourceStops, PurgedBackups,
         PurgedExports, BeginPublish, Withhold, Release, Goto
<1>3. CASE NothingPending(p)
  <2>1. resume[p] \in {"discover", "publish", "finish"}
    BY DEF TypeOK, ContinuationPCs
  <2>2. QED
    BY <1>1, <1>2, <1>3, <2>1, MoveIInv DEF NothingPending, Goto
<1>4. CASE BeginErasure(p)
  <2>1. batch'[p] = Pending /\ \A k \in Pending : event[k] # "none"
    BY <1>4 DEF BeginErasure, TypeOK, Pending
  <2>2. QED
    BY <1>1, <1>2, <1>4, <2>1, MoveIInv DEF BeginErasure, Goto
<1>5. CASE SourceStops(p)
  BY <1>1, <1>2, <1>5, MoveIInv DEF SourceStops
<1>6. CASE PurgedBackups(p)
  <2>1. /\ Pending \subseteq batch[p]
        /\ \A k \in batch[p] : event[k] # "none"
    BY <1>6 DEF IInv, BatchInv, PurgedBackups, Goto
  <2>2. BackupsClean
    BY <1>6 DEF PurgedBackups, BackupsClean
  <2>3. QED
    BY <1>1, <1>2, <1>6, <2>1, <2>2, MoveIInv DEF PurgedBackups, Goto
<1>7. CASE PurgedExports(p)
  <2>1. /\ Pending \subseteq batch[p]
        /\ \A k \in batch[p] : event[k] # "none"
        /\ BackupsClean
    BY <1>7 DEF IInv, BatchInv, PurgeInv, PurgedExports, Goto
  <2>2. ExportsClean
    BY <1>7 DEF PurgedExports, ExportsClean
  <2>3. QED
    BY <1>1, <1>2, <1>7, <2>1, <2>2, MoveIInv DEF PurgedExports, Goto
<1>8. CASE BeginPublish(p)
  <2>1. held' = [held EXCEPT ![p] = LiveOf(row)]
    BY <1>8 DEF BeginPublish, ReadRows
  <2>2. held'[p] \cap gone = {} /\ \A q \in Proc : q # p => held'[q] = held[q]
    BY <2>1 DEF IInv, DataInv, TypeOK
  <2>3. QED
    BY <1>1, <1>8, <2>2, MoveIInv DEF BeginPublish, Goto
<1>9. CASE Withhold(p)
  BY <1>1, <1>2, <1>9, MoveIInv DEF Withhold, Goto
<1>10. CASE Release(p)
  BY <1>1, <1>2, <1>10, MoveIInv DEF Release, Goto
<1>11. QED
  BY <1>3, <1>4, <1>5, <1>6, <1>7, <1>8, <1>9, <1>10

LEMMA PurgeOneIInv ==
    ASSUME TypeOK, IInv, NEW p \in Proc, PurgeOneBackup(p) \/ PurgeOneExport(p)
    PROVE  IInv'
<1> USE DEF PurgeOneBackup, PurgeOneExport
<1>1. /\ backups' \subseteq backups /\ exports' \subseteq exports
      /\ UNCHANGED <<db, held, batch, pc, lock>>
  OBVIOUS
<1>2. DataInv'
  BY <1>1, DataFrame DEF IInv
<1>3. Pending' = Pending
  BY <1>1, SettledSame
<1>4. (BackupsClean => BackupsClean') /\ (ExportsClean => ExportsClean')
  BY <1>1 DEF BackupsClean, ExportsClean
<1>5. LockInv' /\ HeldInv' /\ BatchInv' /\ PurgeInv'
  BY <1>1, <1>3, <1>4 DEF IInv, LockInv, HeldInv, BatchInv, PurgeInv
<1>6. QED
  BY <1>2, <1>5 DEF IInv

LEMMA ScrubIInv ==
    ASSUME TypeOK, IInv, NEW p \in Proc, Scrub(p) \/ Rescrub(p)
    PROVE  IInv'
<1> USE DEF PCs, ErasureSteps, AfterBackups, AfterExports, AfterScrub
<1>1. pc[p] # "idle" /\ lock = p
  BY OthersIdle DEF IInv, Scrub, Rescrub, Goto
<1>2. /\ residue' = {} /\ UNCHANGED <<row, event, gone, files, lock>>
  BY DEF Scrub, Rescrub
<1>3. DataInv' /\ Pending' = Pending
  BY <1>2, DataFrame, SettledSame DEF IInv
<1>4. BackupsClean' = BackupsClean /\ ExportsClean' = ExportsClean
  BY <1>2 DEF BackupsClean, ExportsClean
<1>5. CASE Scrub(p)
  <2>1. held' = [held EXCEPT ![p] = LiveOf(row)] /\ batch' = batch
    BY <1>5 DEF Scrub, ReadRows
  <2>2. held'[p] \cap gone' = {} /\ \A q \in Proc : q # p => held'[q] = held[q]
    BY <1>2, <2>1 DEF IInv, DataInv, TypeOK
  <2>3. /\ Pending \subseteq batch[p]
        /\ \A k \in batch[p] : event[k] # "none"
        /\ BackupsClean /\ ExportsClean
    BY <1>5 DEF IInv, BatchInv, PurgeInv, Scrub, Goto
  <2>4. pc'[p] = "sanitize" /\ \A q \in Proc : q # p => pc'[q] = pc[q]
    BY <1>5 DEF Scrub, Goto, TypeOK
  <2>5. QED
    BY <1>1, <1>2, <1>3, <1>4, <2>1, <2>2, <2>3, <2>4, StepIInv
<1>6. CASE Rescrub(p)
  <2>1. /\ pc'[p] = resume[p] /\ \A q \in Proc : q # p => pc'[q] = pc[q]
        /\ resume[p] \in {"discover", "publish", "finish"}
    BY <1>6 DEF Rescrub, Goto, TypeOK, ContinuationPCs
  <2>2. held[p] = {} /\ held' = held
    BY <1>6 DEF IInv, HeldInv, Rescrub, Goto
  <2>3. QED
    BY <1>1, <1>2, <1>3, <2>1, <2>2, StepIInv
<1>7. QED
  BY <1>5, <1>6

\* The step the invariant is about: whatever becomes settled here is neither
\* in a backup nor in an export nor in the database any more.
LEMMA MarkCompleteIInv ==
    ASSUME TypeOK, IInv, NEW p \in Proc, MarkComplete(p)
    PROVE  IInv'
<1> USE DEF PCs, ErasureSteps, AfterBackups, AfterExports, AfterScrub
<1>1. pc[p] = "complete" /\ lock = p /\ held[p] = {}
  BY OthersIdle DEF IInv, HeldInv, MarkComplete, Goto
<1>2. /\ Pending \subseteq batch[p]
      /\ \A k \in batch[p] : event[k] # "none"
      /\ BackupsClean /\ ExportsClean /\ residue = {}
  BY <1>1 DEF IInv, BatchInv, PurgeInv
<1>3. \A k \in Keys : event'[k] = IF k \in batch[p] /\ event[k] # "Complete"
                                 THEN "Complete" ELSE event[k]
  BY DEF MarkComplete
<1>4. Pending' = {}
  BY <1>2, <1>3 DEF Pending
<1>5. UNCHANGED <<row, residue, gone, files, lock, held, batch>>
  BY DEF MarkComplete
<1>6. Settled' = gone
  BY <1>4, <1>5 DEF Settled
<1>7. DataInv'
  BY <1>2, <1>5, <1>6 DEF DataInv, IInv, BackupsClean, ExportsClean
<1>8. batch[p] \subseteq Keys
  BY DEF TypeOK
<1>9. \A k \in batch'[p] : event'[k] # "none"
  BY <1>2, <1>3, <1>5, <1>8
<1>10. pc'[p] = "rescrub" /\ \A q \in Proc : q # p => pc'[q] = pc[q]
  BY DEF MarkComplete, Goto, TypeOK
<1>11. QED
  BY <1>1, <1>4, <1>5, <1>7, <1>9, <1>10, StepIInv

LEMMA WriteIInv ==
    ASSUME TypeOK, IInv, NEW p \in Proc, NEW at \in {"sanitize", "publishing", "cliExport"},
           NEW isRanked, WriteFile(p, at, isRanked)
    PROVE  IInv'
<1> USE DEF PCs, ErasureSteps, AfterBackups, AfterExports, AfterScrub
<1>1. pc[p] = at /\ lock = p /\ held[p] \cap gone = {}
  BY OthersIdle DEF IInv, HeldInv, WriteFile
<1>2. UNCHANGED <<db, backups, lock, pc, batch, held>>
  BY DEF WriteFile
<1>3. \A x \in exports' : x \in exports \/ x.data = held[p]
  BY DEF WriteFile
<1>4. \A x \in exports' : x \in exports \/ x.data \cap gone = {}
  BY <1>1, <1>3
<1>5. DataInv'
  BY <1>2, <1>4, DataFrame DEF IInv
<1>6. Pending' = Pending
  BY <1>2, SettledSame
<1>7. (BackupsClean => BackupsClean') /\ (ExportsClean => ExportsClean')
  BY <1>2, <1>4 DEF BackupsClean, ExportsClean
<1>8. LockInv' /\ HeldInv' /\ BatchInv' /\ PurgeInv'
  BY <1>2, <1>6, <1>7 DEF IInv, LockInv, HeldInv, BatchInv, PurgeInv
<1>9. QED
  BY <1>5, <1>8 DEF IInv

LEMMA WrittenIInv ==
    ASSUME TypeOK, IInv, NEW p \in Proc,
           \/ WrittenAll(p, "sanitize", "freshCopy")
           \/ WrittenAll(p, "publishing", "finish")
           \/ WrittenAll(p, "cliExport", "finish")
    PROVE  IInv'
<1> USE DEF PCs, ErasureSteps, AfterBackups, AfterExports, AfterScrub
<1>1. /\ pc[p] # "idle" /\ lock = p
      /\ held' = [held EXCEPT ![p] = {}]
      /\ UNCHANGED <<db, files, lock, batch>>
  BY OthersIdle DEF IInv, WrittenAll, Goto
<1>2. held'[p] = {} /\ \A q \in Proc : q # p => held'[q] = held[q]
  BY <1>1 DEF TypeOK
<1>3. CASE WrittenAll(p, "sanitize", "freshCopy")
  <2>1. /\ Pending \subseteq batch[p]
        /\ \A k \in batch[p] : event[k] # "none"
        /\ BackupsClean /\ ExportsClean /\ residue = {}
    BY <1>3 DEF IInv, BatchInv, PurgeInv, WrittenAll, Goto
  <2>2. QED
    BY <1>1, <1>2, <1>3, <2>1, MoveIInv DEF WrittenAll, Goto
<1>4. CASE WrittenAll(p, "publishing", "finish") \/ WrittenAll(p, "cliExport", "finish")
  BY <1>1, <1>2, <1>4, MoveIInv DEF WrittenAll, Goto
<1>5. QED
  BY <1>3, <1>4

\* A backup repeats the live table, which holds nothing that is gone.
LEMMA CopyIInv ==
    ASSUME TypeOK, IInv, NEW p \in Proc, NEW from \in PCs, NEW to \in PCs,
           CopyDatabase(p, from, to), from # "idle",
           to \in ErasureSteps => from \in AfterScrub,
           to \notin {"sanitize", "publishing", "cliExport"},
           from \notin {"sanitize", "publishing", "cliExport"}
    PROVE  IInv'
<1> USE DEF ErasureSteps, AfterBackups, AfterExports, AfterScrub
<1>1. /\ pc[p] = from /\ lock = p /\ held[p] = {}
      /\ UNCHANGED <<db, exports, lock, held, batch>>
  BY OthersIdle DEF IInv, HeldInv, CopyDatabase, Goto
<1>2. \A b \in backups' : b \in backups \/ b.row = row
  BY DEF CopyDatabase, Snapshot
<1>3. DataInv'
  BY <1>1, <1>2, DataFrame DEF IInv
<1>4. Pending' = Pending
  BY <1>1, SettledSame
<1>5. (BackupsClean => BackupsClean') /\ (ExportsClean => ExportsClean')
  BY <1>1, <1>2 DEF BackupsClean, ExportsClean, IInv, DataInv
<1>6. from \in AfterScrub => /\ Pending \subseteq batch[p]
                             /\ \A k \in batch[p] : event[k] # "none"
                             /\ BackupsClean /\ ExportsClean /\ residue = {}
  BY <1>1 DEF IInv, BatchInv, PurgeInv
<1>7. pc'[p] = to /\ \A q \in Proc : q # p => pc'[q] = pc[q]
  BY DEF CopyDatabase, Goto, TypeOK
<1>8. QED
  BY <1>1, <1>3, <1>4, <1>5, <1>6, <1>7, StepIInv

LEMMA InstallIInv ==
    ASSUME TypeOK, IInv, NEW p \in Proc, NEW from \in PCs, NEW to \in PCs, NEW lab,
           InstallBackup(p, from, to, lab), from # "idle",
           to \in ErasureSteps => from \in AfterScrub,
           to \notin {"sanitize", "publishing", "cliExport"},
           from \notin {"sanitize", "publishing", "cliExport"}
    PROVE  IInv'
<1> USE DEF ErasureSteps, AfterBackups, AfterExports, AfterScrub
<1>1. /\ pc[p] = from /\ lock = p /\ held[p] = {}
      /\ UNCHANGED <<db, exports, lock, held, batch>>
  BY OthersIdle DEF IInv, HeldInv, InstallBackup, Goto
<1>2. \A b \in backups' : \E c \in backups : b.row = c.row
  BY DEF InstallBackup
<1>3. DataInv'
  BY <1>1, <1>2, DataFrame DEF IInv
<1>4. Pending' = Pending
  BY <1>1, SettledSame
<1>5. (BackupsClean => BackupsClean') /\ (ExportsClean => ExportsClean')
  BY <1>1, <1>2 DEF BackupsClean, ExportsClean
<1>6. from \in AfterScrub => /\ Pending \subseteq batch[p]
                             /\ \A k \in batch[p] : event[k] # "none"
                             /\ BackupsClean /\ ExportsClean /\ residue = {}
  BY <1>1 DEF IInv, BatchInv, PurgeInv
<1>7. pc'[p] = to /\ \A q \in Proc : q # p => pc'[q] = pc[q]
  BY DEF InstallBackup, Goto, TypeOK
<1>8. QED
  BY <1>1, <1>3, <1>4, <1>5, <1>6, <1>7, StepIInv

-----------------------------------------------------------------------------
(* Collection.  Both kinds of transaction queue an event for whatever they  *)
(* erase, so nothing becomes settled by them.                              *)

LEMMA RewriteData ==
    ASSUME TypeOK, IInv, NEW t \in Tables, Rewrite(t),
           UNCHANGED files,
           Pending \subseteq Pending',
           \A d \in LiveOf(row) \ LiveOf(t) : \E k \in Pending' : Covers(k, d)
    PROVE  DataInv'
<1>1. /\ row' = t
      /\ residue' = residue \cup (LiveOf(row) \ LiveOf(t))
      /\ gone' = (gone \ LiveOf(t)) \cup (LiveOf(row) \ LiveOf(t))
  BY DEF Rewrite
<1>2. Settled' \subseteq Settled
  BY <1>1 DEF Settled
<1>3. Settled' \cap (LiveOf(row) \ LiveOf(t)) = {}
  BY DEF Settled
<1>4. LiveOf(row') \cap gone' = {}
  BY <1>1
<1>5. QED
  BY <1>1, <1>2, <1>3, <1>4 DEF DataInv, IInv

LEMMA IngestCovered ==
    ASSUME TypeOK, NEW seen \in SUBSET Listings, Ingest(seen)
    PROVE  /\ Pending \subseteq Pending'
           /\ \A d \in LiveOf(row) \ LiveOf(row') : \E k \in Pending' : Covers(k, d)
<1>1. Pending \subseteq Pending'
  BY DEF Ingest, Pending
<1>2. ASSUME NEW d \in LiveOf(row) \ LiveOf(row')
      PROVE  \E k \in Pending' : Covers(k, d)
  <2>1. /\ d \in Data /\ d[1] \in Listings
        /\ row'[d[1]] = IF d[1] \notin seen \/ row[d[1]] = "purged" THEN row[d[1]]
                        ELSE IF AdOf[d[1]] \in authorless THEN "authorless"
                        ELSE "stored"
    BY DEF LiveOf, Data, Ingest, Rewrite
  <2>2. /\ d[1] \in AuthorErased(seen)
        /\ d[2] = "author"
    BY <2>1 DEF LiveOf, Data, Kinds, AuthorErased
  <2>3. <<AdOf[d[1]], "reddit_author_erasure">> \in Keys
    BY <2>1, ConstantsAssumption DEF Keys, EventTypes
  <2>4. event'[<<AdOf[d[1]], "reddit_author_erasure">>] = "Pending"
    BY <2>2, <2>3 DEF Ingest
  <2>5. <<AdOf[d[1]], "reddit_author_erasure">> \in Pending'
    BY <2>3, <2>4 DEF Pending
  <2>6. QED
    BY <2>2, <2>5 DEF Covers
<1>3. QED
  BY <1>1, <1>2

LEMMA PurgeCovered ==
    ASSUME TypeOK, NEW dead \in SUBSET Ads, PurgeDeletedAds(dead)
    PROVE  /\ Pending \subseteq Pending'
           /\ \A d \in LiveOf(row) \ LiveOf(row') : \E k \in Pending' : Covers(k, d)
<1>1. Pending \subseteq Pending'
  BY DEF PurgeDeletedAds, Pending
<1>2. ASSUME NEW d \in LiveOf(row) \ LiveOf(row')
      PROVE  \E k \in Pending' : Covers(k, d)
  <2> DEFINE key == <<AdOf[d[1]], "reddit_content_deletion">>
  <2>1. /\ d \in Data /\ d[1] \in Listings
        /\ row'[d[1]] = IF AdOf[d[1]] \in dead /\ row[d[1]] # "absent"
                        THEN "purged" ELSE row[d[1]]
    BY DEF LiveOf, Data, PurgeDeletedAds, Rewrite
  <2>2. AdOf[d[1]] \in dead /\ row[d[1]] \in {"stored", "authorless"}
    BY <2>1 DEF LiveOf
  <2>3. d[1] \in Sensitive(AdOf[d[1]])
    BY <2>1, <2>2 DEF Sensitive
  <2>4. key \in Keys
    BY <2>1, ConstantsAssumption DEF Keys, EventTypes
  <2>5. /\ key[1] = AdOf[d[1]] /\ key[2] = "reddit_content_deletion"
        /\ \E l \in Listings : AdOf[l] = key[1] /\ row[l] # "absent"
    BY <2>1, <2>2
  <2>6. event'[key] = "Pending"
    BY <2>2, <2>3, <2>4, <2>5 DEF PurgeDeletedAds
  <2>7. key \in Pending'
    BY <2>4, <2>6 DEF Pending
  <2>8. QED
    BY <2>5, <2>7 DEF Covers
<1>3. QED
  BY <1>1, <1>2

LEMMA CollectIInv ==
    ASSUME TypeOK, IInv, NEW p \in Proc, Discover(p) \/ Refresh(p) \/ ApplyDeletions(p)
    PROVE  IInv'
<1> USE DEF PCs, ErasureSteps, AfterBackups, AfterExports, AfterScrub
<1>1. /\ pc[p] \in {"discover", "refresh", "deletions"}
      /\ lock = p /\ held[p] = {}
  BY OthersIdle DEF IInv, HeldInv, Discover, Refresh, ApplyDeletions, Goto
<1>2. PICK to \in {"refresh", "deletions", "check"} : Goto(p, pc[p], to)
  BY DEF Discover, Refresh, ApplyDeletions, Goto
<1>3. UNCHANGED <<files, lock, held>>
  BY DEF Discover, Refresh, ApplyDeletions
<1>4. /\ \E t \in Tables : Rewrite(t)
      /\ Pending \subseteq Pending'
      /\ \A d \in LiveOf(row) \ LiveOf(row') : \E k \in Pending' : Covers(k, d)
  <2>1. CASE Discover(p) \/ Refresh(p)
    <3>1. PICK seen \in SUBSET Visible : Ingest(seen)
      BY <2>1 DEF Discover, Refresh
    <3>2. seen \in SUBSET Listings
      BY DEF Visible
    <3>3. row' \in Tables /\ Rewrite(row')
      BY <3>1, <3>2, IngestType DEF Ingest, Rewrite
    <3>4. QED
      BY <3>1, <3>2, <3>3, IngestCovered
  <2>2. CASE ApplyDeletions(p)
    <3>1. PICK done \in SUBSET found[p] : PurgeDeletedAds(done)
      BY <2>2 DEF ApplyDeletions
    <3>2. done \in SUBSET Ads
      BY DEF TypeOK
    <3>3. row' \in Tables /\ Rewrite(row')
      BY <3>1, <3>2, PurgeType DEF PurgeDeletedAds, Rewrite
    <3>4. QED
      BY <3>1, <3>2, <3>3, PurgeCovered
  <2>3. QED
    BY <2>1, <2>2
<1>5. DataInv'
  <2>1. PICK t \in Tables : Rewrite(t)
    BY <1>4
  <2>2. row' = t
    BY <2>1 DEF Rewrite
  <2>3. QED
    BY <1>3, <1>4, <2>1, <2>2, RewriteData
<1>6. pc'[p] = to /\ \A q \in Proc : q # p => pc'[q] = pc[q]
  BY <1>2 DEF Goto, TypeOK
<1>7. QED
  BY <1>1, <1>3, <1>5, <1>6, StepIInv

-----------------------------------------------------------------------------
(* Faults and restores.                                                    *)

\* A failing workflow finds its batch pending or complete: it reopens nothing.
LEMMA FaultKeepsEvents ==
    ASSUME TypeOK, IInv, NEW p \in Proc, StepRaises(p) \/ Crash(p)
    PROVE  event' = event
<1>1. CASE StepRaises(p) /\ pc[p] \in ErasureSteps
  <2>1. batch[p] \subseteq Keys /\ \A k \in batch[p] : event[k] # "none"
    BY <1>1 DEF IInv, BatchInv, TypeOK
  <2>2. event' = [k \in Keys |-> IF k \in batch[p] /\ event[k] # "Complete"
                                THEN "Pending" ELSE event[k]]
    BY <1>1 DEF StepRaises
  <2>3. \A k \in Keys : event'[k] = event[k]
    BY <2>1, <2>2 DEF TypeOK, Events, EventStates
  <2> QED BY <2>2, <2>3 DEF TypeOK, Events
<1>2. CASE ~(StepRaises(p) /\ pc[p] \in ErasureSteps)
  BY <1>2 DEF StepRaises, Crash
<1> QED BY <1>1, <1>2

LEMMA FaultIInv ==
    ASSUME TypeOK, IInv, NEW p \in Proc, StepRaises(p) \/ Crash(p)
    PROVE  IInv'
<1> USE DEF PCs, AfterBackups, AfterExports, AfterScrub
<1>1. pc[p] # "idle" /\ lock = p /\ held[p] \cap gone = {}
  BY OthersIdle DEF IInv, HeldInv, StepRaises, Crash
<1>2. held'[p] = {} /\ \A q \in Proc : q # p => held'[q] = held[q]
  BY DEF StepRaises, Crash, Fault, TypeOK
<1>3. UNCHANGED <<row, residue, gone>>
  BY DEF StepRaises, Crash
<1>4. CASE StepRaises(p)
  <2>1. event' = event
    BY FaultKeepsEvents
  <2>2. backups' \subseteq backups /\ exports' = exports /\ lock' = lock
    BY <1>4 DEF StepRaises, Discard
  <2>3. DataInv'
    BY <1>3, <2>1, <2>2, DataFrame DEF IInv
  <2>4. pc'[p] = "finish" /\ \A q \in Proc : q # p => pc'[q] = pc[q]
    BY <1>4 DEF StepRaises, TypeOK
  <2>5. QED
    BY <1>1, <1>2, <2>2, <2>3, <2>4, StepIInv DEF ErasureSteps
<1>5. CASE Crash(p)
  <2>1. UNCHANGED <<event, backups>>
    BY <1>5 DEF Crash
  <2>2. \A x \in exports' : x \in exports \/ x.data = held[p]
    BY <1>5 DEF Crash
  <2>3. DataInv'
    BY <1>1, <1>3, <2>1, <2>2, DataFrame DEF IInv
  <2>4. pc'[p] = "idle" /\ \A q \in Proc : q # p => pc'[q] = pc[q]
    BY <1>5 DEF Crash, TypeOK
  <2>5. QED
    BY <1>1, <1>2, <2>3, <2>4, StepIInv DEF ErasureSteps
<1>6. QED
  BY <1>4, <1>5

\* Nothing is pending, so no backup on disk holds erased data.
LEMMA RestoreIInv ==
    ASSUME TypeOK, IInv, NEW b \in backups, RestoreBackup(b)
    PROVE  IInv'
<1>1. /\ lock = None /\ Pending = {}
      /\ row' = b.row /\ residue' = {} /\ gone' = gone
      /\ UNCHANGED <<files, lock, pc, held, batch>>
  BY DEF RestoreBackup
<1>2. Settled = gone
  BY <1>1, SettledAll
<1>3. Settled' \subseteq gone
  BY <1>1 DEF Settled
<1>4. DataInv'
  BY <1>1, <1>2, <1>3 DEF DataInv, IInv
<1>5. \A p \in Proc : pc'[p] = "idle" /\ held'[p] = {}
  BY <1>1, FreeIsIdle DEF IInv, HeldInv
<1>6. LockInv' /\ HeldInv' /\ BatchInv' /\ PurgeInv'
  BY <1>5 DEF LockInv, HeldInv, BatchInv, PurgeInv, ErasureSteps,
              AfterBackups, AfterExports, AfterScrub
<1>7. QED
  BY <1>4, <1>6 DEF IInv

LEMMA NextIInv == TypeOK /\ IInv /\ [Next]_vars => IInv'
<1> SUFFICES ASSUME TypeOK, IInv, [Next]_vars PROVE IInv'
  OBVIOUS
<1>1. CASE WorldStep \/ UNCHANGED vars
  BY <1>1, WorldIInv
<1>2. ASSUME NEW p \in Proc,
             StartRun(p) \/ StartBackup(p) \/ StartExport(p) \/ StartMigrate(p)
      PROVE  IInv'
  BY <1>2, StartIInv
<1>3. ASSUME NEW p \in Proc,
             \/ DailyCopy(p) \/ FreshCopy(p) \/ CliCopy(p) \/ MigrateCopy(p)
             \/ DailyInstall(p) \/ FreshInstall(p) \/ CliInstall(p) \/ MigrateInstall(p)
      PROVE  IInv'
  BY <1>3, CopyIInv, InstallIInv
     DEF DailyCopy, FreshCopy, CliCopy, MigrateCopy, DailyInstall, FreshInstall,
         CliInstall, MigrateInstall, PCs, ErasureSteps, AfterScrub
<1>4. ASSUME NEW p \in Proc, Sanitize(p) \/ Publish(p) \/ CliExport(p)
      PROVE  IInv'
  BY <1>4, WriteIInv, WrittenIInv DEF Sanitize, Publish, CliExport
<1>5. ASSUME NEW p \in Proc, RunStep(p)
      PROVE  IInv'
  BY <1>3, <1>4, <1>5, DecideIInv, CollectIInv, PurgeOneIInv, ScrubIInv, MarkCompleteIInv
     DEF RunStep
<1>6. ASSUME NEW p \in Proc, CommandStep(p)
      PROVE  IInv'
  BY <1>3, <1>4, <1>6 DEF CommandStep
<1>7. ASSUME NEW p \in Proc, Release(p) \/ StepRaises(p) \/ Crash(p)
      PROVE  IInv'
  BY <1>7, DecideIInv, FaultIInv
<1>8. ASSUME NEW b \in backups, RestoreBackup(b)
      PROVE  IInv'
  BY <1>8, RestoreIInv
<1>9. QED
  BY <1>1, <1>2, <1>5, <1>6, <1>7, <1>8 DEF Next, Work

\* The inductive invariant holds in every reachable state.
THEOREM InductiveInvariant == Spec => []IInv
<1>1. QED
  BY InitType, InitIInv, NextType, NextIInv, PTL DEF Spec

\* Erased data survives outside the table only while an event that covers it
\* is pending: once _process_pending_erasures has marked it complete, neither
\* the database file nor a backup nor an export holds it, whatever crashes,
\* retries and other commands came in between.
THEOREM ErasureAccountedAlways == Spec => []ErasureAccounted
<1>1. IInv => ErasureAccounted
  BY DEF IInv, DataInv, ErasureAccounted, Copies, Settled
<1>2. QED
  BY <1>1, InductiveInvariant, PTL

\* Restoring a backup never brings erased data back into the listing table.
THEOREM ErasedStaysErasedAlways == Spec => []ErasedStaysErased
<1>1. IInv => ErasedStaysErased
  BY DEF IInv, DataInv, ErasedStaysErased
<1>2. QED
  BY <1>1, InductiveInvariant, PTL

-----------------------------------------------------------------------------
(* Reopening and completing events.                                        *)

\* An event that upserts reopen covers author data erased in the same step.
LEMMA IngestReopens ==
    ASSUME TypeOK, IInv, NEW seen \in SUBSET Listings, Ingest(seen),
           NEW k \in Keys, event[k] = "Complete", event'[k] = "Pending"
    PROVE  \E d \in gone' \ gone : Covers(k, d)
<1>1. /\ k[2] = "reddit_author_erasure"
      /\ \E l \in AuthorErased(seen) : AdOf[l] = k[1]
  BY DEF Ingest
<1>2. PICK l \in seen : row[l] = "stored" /\ AdOf[l] \in authorless /\ AdOf[l] = k[1]
  BY <1>1 DEF AuthorErased
<1> DEFINE d == <<l, "author">>
<1>3. d \in Data /\ d[1] = l /\ d[2] = "author"
  BY DEF Data, Kinds
<1>4. row'[l] = "authorless"
  BY <1>2 DEF Ingest, Rewrite
<1>5. d \in LiveOf(row) /\ d \notin LiveOf(row')
  BY <1>2, <1>3, <1>4 DEF LiveOf
<1>6. d \in gone' /\ d \notin gone
  BY <1>5 DEF Ingest, Rewrite, IInv, DataInv
<1>7. Covers(k, d)
  BY <1>2, <1>3 DEF Covers
<1> HIDE DEF d
<1> QED BY <1>6, <1>7

\* An event that a deletion reopens covers content erased in the same step.
LEMMA PurgeReopens ==
    ASSUME TypeOK, IInv, NEW dead \in SUBSET Ads, PurgeDeletedAds(dead),
           NEW k \in Keys, event[k] = "Complete", event'[k] = "Pending"
    PROVE  \E d \in gone' \ gone : Covers(k, d)
<1>1. /\ k[1] \in dead /\ k[2] = "reddit_content_deletion"
      /\ Sensitive(k[1]) # {}
  BY DEF PurgeDeletedAds
<1>2. PICK l \in Listings : AdOf[l] = k[1] /\ row[l] \in {"stored", "authorless"}
  BY <1>1 DEF Sensitive
<1> DEFINE d == <<l, "body">>
<1>3. d \in Data /\ d[1] = l /\ d[2] = "body"
  BY DEF Data, Kinds
<1>4. row'[l] = "purged"
  BY <1>1, <1>2 DEF PurgeDeletedAds, Rewrite
<1>5. d \in LiveOf(row) /\ d \notin LiveOf(row')
  BY <1>2, <1>3, <1>4 DEF LiveOf
<1>6. d \in gone' /\ d \notin gone
  BY <1>5 DEF PurgeDeletedAds, Rewrite, IInv, DataInv
<1>7. Covers(k, d)
  BY <1>1, <1>2, <1>3 DEF Covers
<1> HIDE DEF d
<1> QED BY <1>6, <1>7

\* The steps that write events are transactions of collection, the end of the
\* workflow, its failure and the operator's restore.
LEMMA OthersKeepEvents ==
    ASSUME NEW p \in Proc,
           \/ StartRun(p) \/ StartBackup(p) \/ StartExport(p) \/ StartMigrate(p)
           \/ NothingPending(p) \/ BeginErasure(p)
           \/ DailyCopy(p) \/ DailyInstall(p) \/ SourceStops(p)
           \/ PurgeOneBackup(p) \/ PurgedBackups(p)
           \/ PurgeOneExport(p) \/ PurgedExports(p)
           \/ Scrub(p) \/ Sanitize(p) \/ FreshCopy(p) \/ FreshInstall(p) \/ Rescrub(p)
           \/ BeginPublish(p) \/ Withhold(p) \/ Publish(p)
           \/ CommandStep(p) \/ Release(p) \/ Crash(p)
    PROVE  UNCHANGED event
BY DEF StartRun, StartBackup, StartExport, StartMigrate, NothingPending, BeginErasure,
       DailyCopy, DailyInstall, CopyDatabase, InstallBackup, SourceStops, PurgeOneBackup,
       PurgedBackups, PurgeOneExport, PurgedExports, Scrub, Sanitize, WriteFile, WrittenAll,
       FreshCopy, FreshInstall, Rescrub, BeginPublish, Withhold, Publish, CommandStep,
       CliCopy, CliInstall, CliExport, MigrateCopy, MigrateInstall, Release, Crash

\* Only a purge of new data or the installation of a backup reopens an event.
LEMMA StepReopens ==
    ASSUME TypeOK, IInv, [Next]_vars,
           NEW k \in Keys, event[k] = "Complete", event'[k] = "Pending"
    PROVE  \/ \E d \in gone' \ gone : Covers(k, d)
           \/ lock = None /\ \E b \in backups : event' = b.event
<1>1. ~UNCHANGED event
  OBVIOUS
<1>2. CASE WorldStep
  BY <1>1, <1>2 DEF WorldStep, RemovePost, ApprovePost, DeleteAuthor
<1>3. ASSUME NEW p \in Proc, Discover(p) \/ Refresh(p)
      PROVE  \E d \in gone' \ gone : Covers(k, d)
  <2>1. PICK seen \in SUBSET Visible : Ingest(seen)
    BY <1>3 DEF Discover, Refresh
  <2>2. seen \in SUBSET Listings
    BY DEF Visible
  <2> QED BY <2>1, <2>2, IngestReopens
<1>4. ASSUME NEW p \in Proc, ApplyDeletions(p)
      PROVE  \E d \in gone' \ gone : Covers(k, d)
  <2>1. PICK done \in SUBSET found[p] : PurgeDeletedAds(done)
    BY <1>4 DEF ApplyDeletions
  <2>2. done \in SUBSET Ads
    BY DEF TypeOK
  <2> QED BY <2>1, <2>2, PurgeReopens
<1>5. ASSUME NEW p \in Proc, MarkComplete(p) \/ StepRaises(p) PROVE FALSE
  BY <1>5 DEF MarkComplete, StepRaises
<1>6. ASSUME NEW b \in backups, RestoreBackup(b)
      PROVE  lock = None /\ \E c \in backups : event' = c.event
  BY <1>6 DEF RestoreBackup
<1>7. CASE UNCHANGED vars
  BY <1>1, <1>7
<1> QED BY <1>1, <1>2, <1>3, <1>4, <1>5, <1>6, <1>7, OthersKeepEvents DEF Next, Work, RunStep

\* queue_erasure_event and mark_erasure_events_failed never undo a completion
\* for data that was erased before it: only new data or a restore does.
THEOREM ReopenedOnlyForNewDataAlways == Spec => ReopenedOnlyForNewData
<1>1. TypeOK /\ IInv /\ [Next]_vars =>
        [\A k \in Keys : (event[k] = "Complete" /\ event'[k] = "Pending") =>
            \/ \E d \in gone' \ gone : Covers(k, d)
            \/ /\ lock = None
               /\ \E b \in backups : event' = b.event]_vars
  BY StepReopens
<1>2. QED
  BY <1>1, TypeCorrect, InductiveInvariant, PTL DEF Spec, ReopenedOnlyForNewData

-----------------------------------------------------------------------------
(* What the workflow regenerates.                                          *)

\* Nothing is regenerated at first.
LEMMA InitReplacement == Init => ReplacementInv
BY DEF Init, ReplacementInv, ReplacementsOf, Writing

\* Whoever is not the holder of the lock is idle, so only the process that has
\* moved has anything to show.
LEMMA StepReplacement ==
    ASSUME IInv, IInv', NEW p \in Proc,
           pc[p] # "idle" \/ lock = None,
           \A q \in Proc : q # p => pc'[q] = pc[q],
           ReplacementsOf(p)'
    PROVE  ReplacementInv'
<1>1. \A q \in Proc : q # p => pc'[q] = "idle"
  BY OthersIdle, FreeIsIdle DEF IInv
<1>2. \A q \in Proc : q # p => ReplacementsOf(q)'
  BY <1>1 DEF ReplacementsOf, Writing
<1> QED BY <1>2 DEF ReplacementInv

\* Most program points promise nothing.
LEMMA QuietPoint ==
    ASSUME NEW p \in Proc,
           pc'[p] \notin Writing \cup {"scrub", "freshCopy", "freshInstall", "complete"}
    PROVE  ReplacementsOf(p)'
BY DEF ReplacementsOf, Writing

\* Reading the rows: what is held are those of the table, no file is written.
LEMMA ReadReplacement ==
    ASSUME TypeOK, NEW p \in Proc, NEW to \in Writing, pc'[p] = to,
           ReadRows(p), row' = row, to = "sanitize" => exports' = {}
    PROVE  ReplacementsOf(p)'
<1>1. held'[p] = LiveOf(row') /\ left'[p] = LastFile
  BY DEF ReadRows, TypeOK
<1>2. to = "sanitize" => RegeneratedUpTo(LastFile - left[p])'
  <2>1. LastFile - LastFile = 0 /\ 1..0 = {}
    BY ConstantsAssumption
  <2> QED BY <1>1, <2>1 DEF RegeneratedUpTo
<1> QED BY <1>1, <1>2 DEF ReplacementsOf, Writing

\* One more file of the sanitized export: those before it stay.
LEMMA WriteReplacement ==
    ASSUME TypeOK, ReplacementInv, NEW p \in Proc, NEW at \in Writing, NEW isRanked,
           WriteFile(p, at, isRanked), at = "sanitize" => ~isRanked
    PROVE  ReplacementsOf(p)'
<1> DEFINE f == LastFile - left[p] + 1
           new == [file |-> f, ranked |-> isRanked, data |-> held[p]]
<1>1. /\ pc[p] = at /\ pc' = pc /\ UNCHANGED <<row, held, backups>>
      /\ left[p] \in Nat /\ left[p] > 0 /\ left'[p] = left[p] - 1
      /\ LastFile \in Nat
  BY ConstantsAssumption DEF WriteFile, TypeOK
<1>2. held[p] = LiveOf(row)
  BY <1>1 DEF ReplacementInv, ReplacementsOf
<1>3. /\ new \in exports'
      /\ \A x \in exports' : x \in exports \/ x = new
      /\ \A x \in exports : x.file # f => x \in exports'
  BY DEF WriteFile
<1>4. new.file = f /\ new.ranked = isRanked /\ new.data = held[p]
  OBVIOUS
<1> HIDE DEF new
<1>5. ASSUME at = "sanitize" PROVE RegeneratedUpTo(LastFile - left[p])'
  <2>1. RegeneratedUpTo(LastFile - left[p])
    BY <1>1, <1>5 DEF ReplacementInv, ReplacementsOf
  <2>2. LastFile - left'[p] = f /\ f - 1 = LastFile - left[p] /\ f \in Int
    BY <1>1
  <2> HIDE DEF f
  <2>3. \A g \in 1..f : \E x \in exports' : x.file = g
    <3> SUFFICES ASSUME NEW g \in 1..f PROVE \E x \in exports' : x.file = g
      OBVIOUS
    <3>1. CASE g = f
      BY <1>3, <1>4, <3>1
    <3>2. CASE g # f
      <4>1. g \in 1..(f - 1)
        BY <2>2, <3>2
      <4>2. PICK x \in exports : x.file = g
        BY <2>1, <2>2, <4>1 DEF RegeneratedUpTo
      <4> QED BY <1>3, <3>2, <4>2
    <3> QED BY <3>1, <3>2
  <2>4. \A x \in exports' : ~x.ranked /\ x.data = LiveOf(row)
    BY <1>2, <1>3, <1>4, <1>5, <2>1 DEF RegeneratedUpTo
  <2> QED BY <1>1, <2>2, <2>3, <2>4 DEF RegeneratedUpTo
<1> QED BY <1>1, <1>2, <1>5 DEF ReplacementsOf, Writing

\* A regeneration that has written its last file has replaced every export.
LEMMA WrittenReplacement ==
    ASSUME TypeOK, ReplacementInv, NEW p \in Proc,
           \/ WrittenAll(p, "sanitize", "freshCopy")
           \/ WrittenAll(p, "publishing", "finish")
           \/ WrittenAll(p, "cliExport", "finish")
    PROVE  ReplacementsOf(p)'
<1>1. CASE WrittenAll(p, "sanitize", "freshCopy")
  <2>1. pc[p] = "sanitize" /\ pc'[p] = "freshCopy" /\ left[p] = 0 /\ UNCHANGED <<row, exports>>
    BY <1>1 DEF WrittenAll, Goto, TypeOK
  <2>2. RegeneratedUpTo(LastFile)
    <3>1. LastFile - 0 = LastFile
      BY ConstantsAssumption
    <3> QED BY <2>1, <3>1 DEF ReplacementInv, ReplacementsOf
  <2> QED BY <2>1, <2>2 DEF ReplacementsOf, RegeneratedUpTo, Writing
<1>2. CASE WrittenAll(p, "publishing", "finish") \/ WrittenAll(p, "cliExport", "finish")
  BY <1>2, QuietPoint DEF WrittenAll, Goto, TypeOK, Writing
<1> QED BY <1>1, <1>2

\* The new backup is first copied, then installed under its label.
LEMMA FreshReplacement ==
    ASSUME TypeOK, ReplacementInv, NEW p \in Proc, FreshCopy(p) \/ FreshInstall(p)
    PROVE  ReplacementsOf(p)'
<1>1. /\ pc[p] \in {"freshCopy", "freshInstall"} /\ UNCHANGED <<row, exports>>
      /\ RegeneratedUpTo(LastFile)'
  BY DEF FreshCopy, FreshInstall, CopyDatabase, InstallBackup, Goto, ReplacementInv,
         ReplacementsOf, RegeneratedUpTo
<1>2. CASE FreshCopy(p)
  <2>1. \A b \in backups' : b.label = "temporary" => b.row = row
    BY <1>2 DEF FreshCopy, CopyDatabase, Snapshot
  <2>2. pc'[p] = "freshInstall"
    BY <1>2 DEF FreshCopy, CopyDatabase, Goto, TypeOK
  <2> QED BY <1>1, <2>1, <2>2 DEF ReplacementsOf, Writing
<1>3. CASE FreshInstall(p)
  <2>1. pc[p] = "freshInstall" /\ pc'[p] = "complete"
    BY <1>3 DEF FreshInstall, InstallBackup, Goto, TypeOK
  <2>2. PICK copy \in backups :
            /\ copy.label = "temporary"
            /\ [label |-> "post_erasure", row |-> copy.row, event |-> copy.event] \in backups'
    BY <1>3 DEF FreshInstall, InstallBackup
  <2>3. copy.row = row
    BY <2>1, <2>2 DEF ReplacementInv, ReplacementsOf
  <2>4. \E b \in backups' : b.label = "post_erasure" /\ b.row = row
    BY <2>2, <2>3
  <2> QED BY <1>1, <2>1, <2>4 DEF ReplacementsOf, Writing
<1> QED BY <1>2, <1>3

\* The holder of the lock regenerates; everyone else leaves its work alone.
LEMMA NextReplacement ==
    TypeOK /\ IInv /\ IInv' /\ ReplacementInv /\ [Next]_vars => ReplacementInv'
<1> SUFFICES ASSUME TypeOK, IInv, IInv', ReplacementInv, [Next]_vars PROVE ReplacementInv'
  OBVIOUS
<1>1. CASE WorldStep \/ UNCHANGED vars
  <2>1. UNCHANGED <<row, exports, backups, pc, held, left>>
    BY <1>1 DEF WorldStep, RemovePost, ApprovePost, DeleteAuthor
  <2> QED BY <2>1 DEF ReplacementInv, ReplacementsOf, RegeneratedUpTo
<1>2. ASSUME NEW p \in Proc, StartRun(p) \/ StartBackup(p) \/ StartMigrate(p)
      PROVE  ReplacementInv'
  BY <1>2, QuietPoint, StepReplacement
     DEF StartRun, StartBackup, StartMigrate, Goto, TypeOK, Acquire, Writing
<1>3. ASSUME NEW p \in Proc, StartExport(p) \/ BeginPublish(p)
      PROVE  ReplacementInv'
  <2>1. PICK to \in {"cliExport", "publishing"} :
            /\ pc'[p] = to /\ \A q \in Proc : q # p => pc'[q] = pc[q]
    BY <1>3 DEF StartExport, BeginPublish, Goto, TypeOK, Acquire
  <2>2. /\ ReadRows(p) /\ row' = row
        /\ pc[p] # "idle" \/ lock = None
    BY <1>3 DEF StartExport, BeginPublish, Goto, Acquire
  <2>3. ReplacementsOf(p)'
    BY <2>1, <2>2, ReadReplacement DEF Writing
  <2> QED BY <2>1, <2>2, <2>3, StepReplacement
<1>4. ASSUME NEW p \in Proc, Scrub(p) PROVE ReplacementInv'
  <2>1. exports = {} /\ exports' = {}
    BY <1>4 DEF Scrub, Goto, ReplacementInv, ReplacementsOf
  <2>2. pc'[p] = "sanitize" /\ \A q \in Proc : q # p => pc'[q] = pc[q]
    BY <1>4 DEF Scrub, Goto, TypeOK
  <2>3. ReplacementsOf(p)'
    BY <1>4, <2>1, <2>2, ReadReplacement DEF Scrub, Writing
  <2> QED BY <1>4, <2>2, <2>3, StepReplacement DEF Scrub, Goto
<1>5. ASSUME NEW p \in Proc, PurgedExports(p) PROVE ReplacementInv'
  <2>1. pc'[p] = "scrub" /\ exports' = {} /\ \A q \in Proc : q # p => pc'[q] = pc[q]
    BY <1>5 DEF PurgedExports, Goto, TypeOK
  <2>2. ReplacementsOf(p)'
    BY <2>1 DEF ReplacementsOf, Writing
  <2> QED BY <1>5, <2>1, <2>2, StepReplacement DEF PurgedExports, Goto
<1>6. ASSUME NEW p \in Proc, Sanitize(p) \/ Publish(p) \/ CliExport(p)
      PROVE  ReplacementInv'
  <2>1. pc[p] # "idle" /\ \A q \in Proc : q # p => pc'[q] = pc[q]
    BY <1>6 DEF Sanitize, Publish, CliExport, WriteFile, WrittenAll, Goto, TypeOK
  <2>2. ReplacementsOf(p)'
    BY <1>6, WriteReplacement, WrittenReplacement DEF Sanitize, Publish, CliExport, Writing
  <2> QED BY <2>1, <2>2, StepReplacement
<1>7. ASSUME NEW p \in Proc, FreshCopy(p) \/ FreshInstall(p) PROVE ReplacementInv'
  <2>1. pc[p] # "idle" /\ \A q \in Proc : q # p => pc'[q] = pc[q]
    BY <1>7 DEF FreshCopy, FreshInstall, CopyDatabase, InstallBackup, Goto, TypeOK
  <2> QED BY <1>7, <2>1, FreshReplacement, StepReplacement
<1>8. ASSUME NEW p \in Proc,
             \/ NothingPending(p) \/ BeginErasure(p) \/ DailyCopy(p) \/ DailyInstall(p)
             \/ Discover(p) \/ Refresh(p) \/ ApplyDeletions(p) \/ SourceStops(p)
             \/ PurgedBackups(p) \/ MarkComplete(p) \/ Rescrub(p) \/ Withhold(p)
             \/ CliCopy(p) \/ CliInstall(p) \/ MigrateCopy(p) \/ MigrateInstall(p)
             \/ Release(p) \/ StepRaises(p) \/ Crash(p)
      PROVE  ReplacementInv'
  <2>1. /\ pc[p] # "idle" /\ \A q \in Proc : q # p => pc'[q] = pc[q]
        /\ pc'[p] \notin Writing \cup {"scrub", "freshCopy", "freshInstall", "complete"}
    BY <1>8 DEF NothingPending, BeginErasure, DailyCopy, DailyInstall, Discover, Refresh,
                ApplyDeletions, SourceStops, PurgedBackups, MarkComplete, Rescrub, Withhold,
                CliCopy, CliInstall, MigrateCopy, MigrateInstall, CopyDatabase, InstallBackup,
                Release, StepRaises, Crash, Goto, TypeOK, ContinuationPCs, Writing
  <2> QED BY <2>1, QuietPoint, StepReplacement
<1>9. ASSUME NEW p \in Proc, PurgeOneBackup(p) \/ PurgeOneExport(p)
      PROVE  ReplacementInv'
  <2>1. pc[p] \in {"purgeBackups", "purgeExports"} /\ pc' = pc
    BY <1>9 DEF PurgeOneBackup, PurgeOneExport
  <2> QED BY <2>1, QuietPoint, StepReplacement DEF Writing
<1>10. ASSUME NEW b \in backups, RestoreBackup(b) PROVE ReplacementInv'
  <2>1. \A p \in Proc : pc'[p] = "idle"
    BY <1>10, FreeIsIdle DEF RestoreBackup, IInv
  <2> QED BY <2>1 DEF ReplacementInv, ReplacementsOf, Writing
<1> QED BY <1>1, <1>2, <1>3, <1>4, <1>5, <1>6, <1>7, <1>8, <1>9, <1>10
        DEF Next, Work, RunStep, CommandStep

\* What an export holds are the rows of the table, and what the workflow has
\* regenerated so far agrees with them.
THEOREM RegenerationIsSound == Spec => []ReplacementInv
<1>1. QED
  BY InitReplacement, NextReplacement, TypeCorrect, InductiveInvariant, PTL DEF Spec

\* Only mark_erasure_events_complete turns a pending event into a complete one.
LEMMA StepCompletes ==
    ASSUME TypeOK, ReplacementInv, [Next]_vars,
           NEW k \in Keys, event[k] = "Pending", event'[k] = "Complete"
    PROVE  \E p \in Proc : MarkComplete(p)
<1>1. ~UNCHANGED event
  OBVIOUS
<1>2. ~WorldStep /\ ~UNCHANGED vars
  BY <1>1 DEF WorldStep, RemovePost, ApprovePost, DeleteAuthor
<1>3. ASSUME NEW p \in Proc, Discover(p) \/ Refresh(p) \/ ApplyDeletions(p) \/ StepRaises(p)
      PROVE  FALSE
  BY <1>3, <1>1 DEF Discover, Refresh, Ingest, ApplyDeletions, PurgeDeletedAds, StepRaises
<1>4. ASSUME NEW b \in backups, RestoreBackup(b) PROVE FALSE
  BY <1>4 DEF RestoreBackup, Pending
<1> QED BY <1>1, <1>2, <1>3, <1>4, OthersKeepEvents DEF Next, Work, RunStep

\* When _process_pending_erasures completes an event, the regenerated artifacts
\* are in place: every export file without rankings and a backup of the erased
\* state, for any number of files and however the steps before were repeated.
THEOREM CompletionHasReplacementsAlways == Spec => CompletionHasReplacements
<1>1. TypeOK /\ IInv /\ ReplacementInv /\ [Next]_vars =>
        [(\E k \in Keys : event[k] = "Pending" /\ event'[k] = "Complete") =>
            /\ \A f \in 1..LastFile : \E x \in exports : x.file = f
            /\ \A x \in exports : ~x.ranked /\ x.data = LiveOf(row)
            /\ \E b \in backups : b.label = "post_erasure" /\ b.row = row]_vars
  <2> SUFFICES ASSUME ReplacementInv, NEW p \in Proc, MarkComplete(p)
               PROVE  /\ \A f \in 1..LastFile : \E x \in exports : x.file = f
                      /\ \A x \in exports : ~x.ranked /\ x.data = LiveOf(row)
                      /\ \E b \in backups : b.label = "post_erasure" /\ b.row = row
    BY StepCompletes
  <2>1. pc[p] = "complete"
    BY DEF MarkComplete, Goto
  <2> QED BY <2>1 DEF ReplacementInv, ReplacementsOf, RegeneratedUpTo
<1>2. QED
  BY <1>1, RegenerationIsSound, TypeCorrect, InductiveInvariant, PTL
     DEF Spec, CompletionHasReplacements

-----------------------------------------------------------------------------
(* The workflow implements the contract: a transaction of collection is an  *)
(* Update, mark_erasure_events_complete is Settle, the operator's restore   *)
(* is Restore, and whatever else touches files or pages is a Copy.          *)

\* A step that leaves the tables alone and adds only live data to the copies.
LEMMA FilesAreCopies ==
    ASSUME UNCHANGED <<row, event, gone>>, Copies' \subseteq Copies \cup LiveOf(row)
    PROVE  Contract!Next
<1>1. LiveOf(row)' = LiveOf(row) /\ Pending' = Pending
  BY DEF Pending
<1> QED BY <1>1 DEF Contract!Next, Contract!Copy

\* Copies are made of the present rows or of copies.
LEMMA CopiesOf ==
    ASSUME residue' \subseteq residue,
           \A b \in backups' : b.row = row \/ \E c \in backups : b.row = c.row,
           \A x \in exports' : x \in exports \/ x.data \subseteq LiveOf(row)
    PROVE  Copies' \subseteq Copies \cup LiveOf(row)
<1>1. SUFFICES ASSUME NEW d \in Copies' PROVE d \in Copies \cup LiveOf(row)
  OBVIOUS
<1>2. CASE d \in residue'
  BY <1>2 DEF Copies
<1>3. CASE \E b \in backups' : d \in LiveOf(b.row)
  BY <1>3 DEF Copies
<1>4. CASE \E x \in exports' : d \in x.data
  BY <1>4 DEF Copies
<1> QED BY <1>2, <1>3, <1>4 DEF Copies

\* One transaction of collection.
LEMMA RewriteIsUpdate ==
    ASSUME NEW t \in Tables, Rewrite(t), UNCHANGED files, event' \in Events,
           Pending \subseteq Pending',
           \A d \in LiveOf(row) \ LiveOf(t) : \E k \in Pending' : Covers(k, d)
    PROVE  Contract!Next
<1> DEFINE old == LiveOf(row) \ LiveOf(t)
           new == LiveOf(t)
<1>1. old \in SUBSET Data /\ new \in SUBSET Data /\ Pending' \in SUBSET Keys
  BY LiveOfType DEF Pending
<1>2. /\ LiveOf(row)' = (LiveOf(row) \ old) \cup new
      /\ gone' = (gone \ LiveOf(row)') \cup old
      /\ Pending' = Pending \cup Pending'
      /\ \A d \in old : \E k \in Pending' : Covers(k, d)
  BY DEF Rewrite
<1>3. Copies' = Copies \cup old
  BY DEF Rewrite, Copies
<1>4. Contract!Update(new, old, Pending')
  BY <1>2, <1>3 DEF Contract!Update
<1> HIDE DEF old, new
<1> QED BY <1>1, <1>4 DEF Contract!Next

\* Every step of the workflow is a step of the contract or a stutter.
LEMMA StepImplements ==
    ASSUME TypeOK, IInv, ReplacementInv, [Next]_vars, TypeOK'
    PROVE  [Contract!Next]_(Contract!vars)
<1>1. CASE WorldStep \/ UNCHANGED vars
  <2>1. UNCHANGED <<row, event, residue, gone, backups, exports>>
    BY <1>1 DEF WorldStep, RemovePost, ApprovePost, DeleteAuthor
  <2> QED BY <2>1 DEF Contract!vars, Copies, Pending
<1>2. ASSUME NEW p \in Proc,
             \/ StartRun(p) \/ StartBackup(p) \/ StartExport(p) \/ StartMigrate(p)
             \/ NothingPending(p) \/ BeginErasure(p) \/ SourceStops(p)
             \/ PurgedBackups(p) \/ PurgedExports(p) \/ BeginPublish(p) \/ Withhold(p)
             \/ Release(p)
      PROVE  UNCHANGED Contract!vars
  <2>1. UNCHANGED <<row, event, residue, gone, backups, exports>>
    BY <1>2 DEF StartRun, StartBackup, StartExport, StartMigrate, NothingPending,
                BeginErasure, SourceStops, PurgedBackups, PurgedExports, BeginPublish,
                Withhold, Release
  <2> QED BY <2>1 DEF Contract!vars, Copies, Pending
<1>3. ASSUME NEW p \in Proc,
             \/ DailyCopy(p) \/ FreshCopy(p) \/ CliCopy(p) \/ MigrateCopy(p)
             \/ DailyInstall(p) \/ FreshInstall(p) \/ CliInstall(p) \/ MigrateInstall(p)
             \/ PurgeOneBackup(p) \/ PurgeOneExport(p) \/ Scrub(p) \/ Rescrub(p)
      PROVE  Contract!Next
  <2>1. /\ UNCHANGED <<row, event, gone>> /\ residue' \subseteq residue
        /\ exports' \subseteq exports
    BY <1>3 DEF DailyCopy, FreshCopy, CliCopy, MigrateCopy, CopyDatabase,
                DailyInstall, FreshInstall, CliInstall, MigrateInstall, InstallBackup,
                PurgeOneBackup, PurgeOneExport, Scrub, Rescrub
  <2>2. CASE DailyCopy(p) \/ FreshCopy(p) \/ CliCopy(p) \/ MigrateCopy(p)
    <3>1. \A b \in backups' : b \in backups \/ b.row = row
      BY <2>2 DEF DailyCopy, FreshCopy, CliCopy, MigrateCopy, CopyDatabase, Snapshot
    <3> QED BY <2>1, <3>1, CopiesOf, FilesAreCopies
  <2>3. CASE DailyInstall(p) \/ FreshInstall(p) \/ CliInstall(p) \/ MigrateInstall(p)
    <3>1. \A b \in backups' : \E c \in backups : b.row = c.row
      BY <2>3 DEF DailyInstall, FreshInstall, CliInstall, MigrateInstall, InstallBackup
    <3> QED BY <2>1, <3>1, CopiesOf, FilesAreCopies
  <2>4. CASE PurgeOneBackup(p) \/ PurgeOneExport(p) \/ Scrub(p) \/ Rescrub(p)
    <3>1. backups' \subseteq backups
      BY <2>4 DEF PurgeOneBackup, PurgeOneExport, Scrub, Rescrub
    <3> QED BY <2>1, <3>1, CopiesOf, FilesAreCopies
  <2> QED BY <1>3, <2>2, <2>3, <2>4
<1>4. ASSUME NEW p \in Proc, Sanitize(p) \/ Publish(p) \/ CliExport(p)
      PROVE  Contract!Next
  <2>1. /\ UNCHANGED <<row, event, gone, residue, backups>>
        /\ \A x \in exports' : x \in exports \/ x.data = held[p]
        /\ pc[p] \in Writing
    BY <1>4 DEF Sanitize, Publish, CliExport, WriteFile, WrittenAll, Goto, Writing
  <2>2. held[p] = LiveOf(row)
    BY <2>1 DEF ReplacementInv, ReplacementsOf
  <2> QED BY <2>1, <2>2, CopiesOf, FilesAreCopies
<1>5. ASSUME NEW p \in Proc, StepRaises(p) \/ Crash(p)
      PROVE  Contract!Next
  <2>1. UNCHANGED <<row, gone, residue>> /\ backups' \subseteq backups
    BY <1>5 DEF StepRaises, Discard, Crash
  <2>2. event' = event
    BY <1>5, FaultKeepsEvents
  <2>3. held[p] \subseteq LiveOf(row)
    BY DEF IInv, HeldInv, ReplacementInv, ReplacementsOf, Writing
  <2>4. \A x \in exports' : x \in exports \/ x.data = held[p]
    BY <1>5 DEF StepRaises, Crash
  <2> QED BY <2>1, <2>2, <2>3, <2>4, CopiesOf, FilesAreCopies
<1>6. ASSUME NEW p \in Proc, Discover(p) \/ Refresh(p)
      PROVE  Contract!Next
  <2>1. PICK seen \in SUBSET Visible : Ingest(seen)
    BY <1>6 DEF Discover, Refresh
  <2>2. seen \in SUBSET Listings
    BY DEF Visible
  <2>3. row' \in Tables /\ event' \in Events /\ Rewrite(row')
    BY <2>1, <2>2, IngestType DEF Ingest, Rewrite
  <2> QED BY <1>6, <2>1, <2>2, <2>3, IngestCovered, RewriteIsUpdate DEF Discover, Refresh
<1>7. ASSUME NEW p \in Proc, ApplyDeletions(p)
      PROVE  Contract!Next
  <2>1. PICK done \in SUBSET found[p] : PurgeDeletedAds(done)
    BY <1>7 DEF ApplyDeletions
  <2>2. done \in SUBSET Ads
    BY DEF TypeOK
  <2>3. row' \in Tables /\ event' \in Events /\ Rewrite(row')
    BY <2>1, <2>2, PurgeType DEF PurgeDeletedAds, Rewrite
  <2> QED BY <1>7, <2>1, <2>2, <2>3, PurgeCovered, RewriteIsUpdate DEF ApplyDeletions
<1>8. ASSUME NEW p \in Proc, MarkComplete(p)
      PROVE  Contract!Next
  <2>1. pc[p] = "complete" /\ UNCHANGED <<row, residue, gone, backups, exports>>
    BY <1>8 DEF MarkComplete, Goto
  <2>2. /\ Pending \subseteq batch[p]
        /\ BackupsClean /\ ExportsClean /\ residue = {}
    BY <2>1 DEF IInv, BatchInv, PurgeInv, ErasureSteps, AfterBackups, AfterExports, AfterScrub
  <2>3. Copies \cap gone = {}
    BY <2>2 DEF Copies, BackupsClean, ExportsClean
  <2>4. \A k \in Keys : event'[k] # "Pending"
    BY <1>8, <2>2 DEF MarkComplete, Pending
  <2>5. Pending' = {}
    BY <2>4 DEF Pending
  <2>6. LiveOf(row)' = LiveOf(row) /\ Copies' = Copies
    BY <2>1 DEF Copies
  <2> QED BY <2>1, <2>3, <2>5, <2>6 DEF Contract!Next, Contract!Settle
<1>9. ASSUME NEW b \in backups, RestoreBackup(b)
      PROVE  Contract!Next
  <2>1. /\ Pending = {} /\ row' = b.row /\ residue' = {} /\ gone' = gone
        /\ UNCHANGED <<backups, exports>>
    BY <1>9 DEF RestoreBackup
  <2>2. LiveOf(row)' \subseteq Copies
    BY <2>1 DEF Copies
  <2>3. LiveOf(row)' \cap gone = {}
    BY <2>1, SettledAll DEF IInv, DataInv
  <2>4. Copies' \subseteq Copies
    BY <2>1 DEF Copies
  <2>5. Pending' \subseteq Keys
    BY DEF Pending
  <2> QED BY <2>1, <2>2, <2>3, <2>4, <2>5 DEF Contract!Next, Contract!Restore
<1> QED BY <1>1, <1>2, <1>3, <1>4, <1>5, <1>6, <1>7, <1>8, <1>9
        DEF Next, Work, RunStep, CommandStep

\* The detailed workflow, with its lock, files, retries and crashes, implements
\* the contract: erased data survives in copies only while an erasure is due.
THEOREM WorkflowImplementsContract == Spec => ImplementsContract
<1>1. Init => Contract!Init
  <2> SUFFICES ASSUME Init PROVE Contract!Init
    OBVIOUS
  <2>1. LiveOf(row) = {}
    BY DEF Init, LiveOf, Data
  <2>2. Copies = {}
    BY DEF Init, Copies
  <2>3. gone = {} /\ Pending = {}
    BY DEF Init, Pending
  <2> QED BY <2>1, <2>2, <2>3 DEF Contract!Init
<1>2. TypeOK /\ TypeOK' /\ IInv /\ ReplacementInv /\ [Next]_vars => [Contract!Next]_(Contract!vars)
  BY StepImplements
<1>3. QED
  BY <1>1, <1>2, RegenerationIsSound, TypeCorrect, InductiveInvariant, PTL
     DEF Spec, ImplementsContract, Contract!Spec

\* The contract is worth implementing: whatever fulfils it never shows erased
\* data and keeps none of it without an erasure being due.
THEOREM ContractKeepsPromise == Contract!Spec => []Contract!Promise
<1>1. Contract!Init => Contract!Promise
  BY DEF Contract!Init, Contract!Promise
<1>2. Contract!Promise /\ [Contract!Next]_(Contract!vars) => Contract!Promise'
  <2> SUFFICES ASSUME Contract!Promise, [Contract!Next]_(Contract!vars) PROVE Contract!Promise'
    OBVIOUS
  <2> USE DEF Contract!Promise
  <2>1. ASSUME NEW new, NEW old, NEW queued, Contract!Update(new, old, queued)
        PROVE  Contract!Promise'
    BY <2>1 DEF Contract!Update
  <2>2. CASE Contract!Copy
    BY <2>2 DEF Contract!Copy
  <2>3. CASE Contract!Settle
    BY <2>3 DEF Contract!Settle
  <2>4. CASE Contract!Restore
    BY <2>4 DEF Contract!Restore
  <2>5. CASE UNCHANGED Contract!vars
    BY <2>5 DEF Contract!vars
  <2> QED BY <2>1, <2>2, <2>3, <2>4, <2>5 DEF Contract!Next
<1>3. QED
  BY <1>1, <1>2, PTL DEF Contract!Spec
=============================================================================
