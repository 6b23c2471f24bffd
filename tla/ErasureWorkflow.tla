-------------------------- MODULE ErasureWorkflow --------------------------
(***************************************************************************)
(* The durable erasure workflow of watch-deal-tracker.                     *)
(*                                                                         *)
(* When Reddit reports a deleted post, or a deleted author of a post whose *)
(* text is kept, the pipeline removes the stored content and queues an     *)
(* erasure event in the same transaction.  A later step of the same run,   *)
(* or the start of a later run, finishes the event: it purges backups and  *)
(* exports, scrubs SQLite's pages and WAL, regenerates the artifacts from  *)
(* what is left and only then marks the event complete.                    *)
(*                                                                         *)
(* Several processes share one runtime directory (scheduled and manual     *)
(* runs, `backup`, `export`, `migrate`); an advisory file lock serialises  *)
(* them.  Any of them may crash between two steps, and any step may raise. *)
(***************************************************************************)
EXTENDS Integers, FiniteSets

CONSTANTS
    Ads,        \* Reddit posts
    Listings,   \* the offers parsed from them
    AdOf,       \* AdOf[l]: the post (source_ad_id) an offer belongs to
    Proc,       \* processes of the program
    None,       \* holder of a free lock
    Commands,   \* the commands in use, a subset of AllCommands
    LastFile,   \* number of files one export writes (5 in the code)
    Dated,      \* the files whose name carries the local date (4 and 5)
    MaxFaults   \* bound on raised steps plus crashes

AllCommands == {"run", "backup", "export", "migrate", "restore"}

ASSUME ConstantsAssumption ==
    /\ AdOf \in [Listings -> Ads]
    /\ None \notin Proc
    /\ Commands \subseteq AllCommands
    /\ LastFile \in Nat \ {0}
    /\ Dated \subseteq 1..LastFile
    /\ MaxFaults \in Nat

-----------------------------------------------------------------------------
(* Data.                                                                   *)

\* "stored": a row with author data; "authorless": author data erased;
\* "purged": the tombstone left by a content deletion.
RowStates == {"absent", "stored", "authorless", "purged"}
Kinds == {"author", "body"}
Data == Listings \X Kinds

EventTypes == {"reddit_content_deletion", "reddit_author_erasure"}
Keys == Ads \X EventTypes
EventStates == {"none", "Pending", "Complete"}

Labels == {"daily", "post_erasure", "pre-migration", "temporary"}
Tables == [Listings -> RowStates]
Events == [Keys -> EventStates]
BackupFiles == [label : Labels, row : Tables, event : Events]

\* File 0 stands for an interrupted export's temporary file.
ExportFiles == [file : 0..LastFile, ranked : BOOLEAN, data : SUBSET Data]

PCs == {"idle", "check", "dailyCopy", "dailyInstall", "discover", "refresh",
        "deletions", "purgeBackups", "purgeExports", "scrub", "sanitize",
        "freshCopy", "freshInstall", "complete", "rescrub", "publish",
        "publishing", "cliCopy", "cliInstall", "cliExport", "migrateCopy",
        "migrateInstall", "finish"}

\* The steps inside the try block of _process_pending_erasures.
ErasureSteps == {"purgeBackups", "purgeExports", "scrub", "sanitize",
                 "freshCopy", "freshInstall", "complete", "rescrub"}

ContinuationPCs == {"discover", "publish", "finish"}

VARIABLES
    removed,    \* posts Reddit currently reports as deleted or removed
    authorless, \* posts whose author deleted the account (never undone)
    row,        \* the listing table
    event,      \* the erasure_events table
    residue,    \* erased data still in SQLite pages, the WAL or sidecars
    gone,       \* history: data erased at the source's request, not re-stored
    backups,    \* files in the backup directory
    exports,    \* files in the export directory
    lock,       \* holder of the application lock
    pc,         \* next step of each process
    resume,     \* where _process_pending_erasures returns to
    batch,      \* event_ids read at the start of the workflow
    found,      \* deleted_source_ad_ids of the last refresh
    held,       \* rows an export read before it writes its files
    left,       \* files that export has still to write
    faults      \* raised steps and crashes so far

db == <<row, event, residue, gone>>
files == <<backups, exports>>
world == <<removed, authorless>>
locals == <<resume, batch, found, held, left>>
vars == <<world, db, files, lock, pc, locals, faults>>

-----------------------------------------------------------------------------
(* Derived state.                                                          *)

\* The source data the listing table t holds.
LiveOf(t) == {d \in Data : \/ t[d[1]] = "stored"
                           \/ t[d[1]] = "authorless" /\ d[2] = "body"}

Pending == {k \in Keys : event[k] = "Pending"}

\* Data reachable outside the live table.
Copies == residue
          \cup (UNION {LiveOf(b.row) : b \in backups})
          \cup (UNION {x.data : x \in exports})

\* Listings a deletion of post a has still to clear.
Sensitive(a) == {l \in Listings : AdOf[l] = a /\ row[l] \in {"stored", "authorless"}}

Snapshot(lab) == [label |-> lab, row |-> row, event |-> event]

TypeOK ==
    /\ removed \subseteq Ads /\ authorless \subseteq Ads
    /\ row \in Tables /\ event \in Events
    /\ residue \subseteq Data /\ gone \subseteq Data
    /\ backups \subseteq BackupFiles /\ exports \subseteq ExportFiles
    /\ lock \in Proc \cup {None}
    /\ pc \in [Proc -> PCs]
    /\ resume \in [Proc -> ContinuationPCs]
    /\ batch \in [Proc -> SUBSET Keys]
    /\ found \in [Proc -> SUBSET Ads]
    /\ held \in [Proc -> SUBSET Data]
    /\ left \in [Proc -> 0..LastFile]
    /\ faults \in 0..MaxFaults

Init ==
    /\ removed = {} /\ authorless = {}
    /\ row = [l \in Listings |-> "absent"]
    /\ event = [k \in Keys |-> "none"]
    /\ residue = {} /\ gone = {}
    /\ backups = {} /\ exports = {}
    /\ lock = None
    /\ pc = [p \in Proc |-> "idle"]
    /\ resume = [p \in Proc |-> "discover"]
    /\ batch = [p \in Proc |-> {}]
    /\ found = [p \in Proc |-> {}]
    /\ held = [p \in Proc |-> {}]
    /\ left = [p \in Proc |-> 0]
    /\ faults = 0

Goto(p, from, to) == pc[p] = from /\ pc' = [pc EXCEPT ![p] = to]

-----------------------------------------------------------------------------
(* Reddit.                                                                 *)

RemovePost(a) ==
    /\ a \notin removed
    /\ removed' = removed \cup {a}
    /\ UNCHANGED <<authorless, db, files, lock, pc, locals, faults>>

\* A moderator approves a removed post again.
ApprovePost(a) ==
    /\ a \in removed
    /\ removed' = removed \ {a}
    /\ UNCHANGED <<authorless, db, files, lock, pc, locals, faults>>

DeleteAuthor(a) ==
    /\ a \notin authorless
    /\ authorless' = authorless \cup {a}
    /\ UNCHANGED <<removed, db, files, lock, pc, locals, faults>>

-----------------------------------------------------------------------------
(* The pipeline: taking the lock, and the decision at the start of         *)
(* _process_pending_erasures.                                              *)

\* Seeded fault: the lock is taken without looking at its holder.
BugAcquire(p) == lock' = p

Acquire(p) == lock = None /\ lock' = p

StartRun(p) ==
    /\ "run" \in Commands
    /\ Acquire(p)
    /\ Goto(p, "idle", "check")
    /\ resume' = [resume EXCEPT ![p] = "discover"]
    /\ UNCHANGED <<world, db, files, batch, found, held, left, faults>>

\* Seeded fault: pending events are ignored.
BugNothingPending(p) ==
    /\ Goto(p, "check", IF resume[p] = "discover" THEN "dailyCopy" ELSE resume[p])
    /\ UNCHANGED <<world, db, files, lock, locals, faults>>

\* No event: the first call is followed by the daily backup, the second one
\* by the rest of the run.
NothingPending(p) ==
    /\ Pending = {}
    /\ Goto(p, "check", IF resume[p] = "discover" THEN "dailyCopy" ELSE resume[p])
    /\ UNCHANGED <<world, db, files, lock, locals, faults>>

BeginErasure(p) ==
    /\ Pending # {}
    /\ Goto(p, "check", "purgeBackups")
    /\ batch' = [batch EXCEPT ![p] = Pending]
    /\ UNCHANGED <<world, db, files, lock, resume, found, held, left, faults>>

-----------------------------------------------------------------------------
(* Backups: create_backup copies into a temporary file and then installs it *)
(* and expires older files of the same label.                               *)

CopyDatabase(p, from, to) ==
    /\ Goto(p, from, to)
    /\ backups' = {b \in backups : b.label # "temporary"} \cup {Snapshot("temporary")}
    /\ UNCHANGED <<world, db, exports, lock, locals, faults>>

InstallBackup(p, from, to, lab) ==
    /\ Goto(p, from, to)
    /\ LET kept == {b \in backups : b.label # "temporary"}
       IN  \E copy \in backups \ kept, old \in {{}, {b \in kept : b.label = lab}} :
               backups' = (kept \ old) \cup
                             {[label |-> lab, row |-> copy.row, event |-> copy.event]}
    /\ UNCHANGED <<world, db, exports, lock, locals, faults>>

DailyCopy(p) == CopyDatabase(p, "dailyCopy", "dailyInstall")
FreshCopy(p) == CopyDatabase(p, "freshCopy", "freshInstall")
CliCopy(p) == CopyDatabase(p, "cliCopy", "cliInstall")
MigrateCopy(p) == CopyDatabase(p, "migrateCopy", "migrateInstall")

DailyInstall(p) == InstallBackup(p, "dailyInstall", "discover", "daily")
FreshInstall(p) == InstallBackup(p, "freshInstall", "complete", "post_erasure")
CliInstall(p) == InstallBackup(p, "cliInstall", "finish", "daily")
MigrateInstall(p) == InstallBackup(p, "migrateInstall", "finish", "pre-migration")

-----------------------------------------------------------------------------
(* Exports: all rows are read first, then each file is replaced atomically, *)
(* one after the other.  A dated file of an earlier day is not replaced.    *)

ReadRows(p) ==
    /\ held' = [held EXCEPT ![p] = LiveOf(row)]
    /\ left' = [left EXCEPT ![p] = LastFile]

\* Seeded fault: the export does not stop after its last file.
BugWriteFile(p, at, isRanked) ==
    /\ pc[p] = at
    /\ exports' = exports \cup {[file |-> LastFile, ranked |-> isRanked, data |-> held[p]]}
    /\ left' = [left EXCEPT ![p] = @ - 1]
    /\ UNCHANGED <<world, db, backups, lock, pc, resume, batch, found, held, faults>>

WriteFile(p, at, isRanked) ==
    LET f == LastFile - left[p] + 1
        new == [file |-> f, ranked |-> isRanked, data |-> held[p]]
        same == {x \in exports : x.file = f}
    IN  /\ pc[p] = at
        /\ left[p] > 0
        /\ \E replaced \in {same} \cup (IF f \in Dated THEN {{}} ELSE {}) :
                exports' = (exports \ replaced) \cup {new}
        /\ left' = [left EXCEPT ![p] = @ - 1]
        /\ UNCHANGED <<world, db, backups, lock, pc, resume, batch, found, held, faults>>

WrittenAll(p, at, to) ==
    /\ left[p] = 0
    /\ Goto(p, at, to)
    /\ held' = [held EXCEPT ![p] = {}]
    /\ UNCHANGED <<world, db, files, lock, resume, batch, found, left, faults>>

-----------------------------------------------------------------------------
(* Collection: the only steps that store or erase source data.             *)

\* One transaction replaces the listing table; what it overwrites stays in
\* SQLite's pages and WAL until the database is scrubbed.
Rewrite(newRow) ==
    LET erased == LiveOf(row) \ LiveOf(newRow)
    IN  /\ row' = newRow
        /\ residue' = residue \cup erased
        /\ gone' = (gone \ LiveOf(newRow)) \cup erased

\* Offers whose stored author data an upsert of the candidates `seen` erases.
AuthorErased(seen) ==
    {l \in seen : row[l] = "stored" /\ AdOf[l] \in authorless}

\* upsert_candidate on every parsed candidate, committed once.  A candidate
\* of a tombstone violates uq_listing_uid and is rejected.
Ingest(seen) ==
    /\ Rewrite([l \in Listings |->
                   IF l \notin seen \/ row[l] = "purged" THEN row[l]
                   ELSE IF AdOf[l] \in authorless THEN "authorless"
                   ELSE "stored"])
    /\ event' = [k \in Keys |->
                   IF /\ k[2] = "reddit_author_erasure"
                      /\ \E l \in AuthorErased(seen) : AdOf[l] = k[1]
                   THEN "Pending" ELSE event[k]]

Rejected(seen) == {l \in seen : row[l] = "purged"}

\* The posts a refresh asks Reddit for.
Refreshable == {a \in Ads : Sensitive(a) # {}}

\* The offers a response may contain: those of posts that are up, and as the
\* seller may edit a post at any time, any subset of them.
Visible == {l \in Listings : AdOf[l] \notin removed}

Discover(p) ==
    /\ Goto(p, "discover", "refresh")
    /\ \E seen \in SUBSET Visible :
        /\ Ingest(seen)
        /\ resume' = [resume EXCEPT ![p] =
                         IF Rejected(seen) = {} THEN "publish" ELSE "finish"]
    /\ UNCHANGED <<world, files, lock, batch, found, held, left, faults>>

\* Deletions are only remembered here; they are applied after the commit.
Refresh(p) ==
    /\ Goto(p, "refresh", "deletions")
    /\ \E seen \in SUBSET {l \in Visible : AdOf[l] \in Refreshable} :
        /\ Ingest(seen)
        /\ resume' = [resume EXCEPT ![p] =
                         IF Rejected(seen) = {} THEN @ ELSE "finish"]
    /\ \E dead \in SUBSET (removed \cap Refreshable) :
           found' = [found EXCEPT ![p] = dead]
    /\ UNCHANGED <<world, files, lock, batch, held, left, faults>>

\* purge_deleted_reddit_ad and queue_erasure_event for each post in `dead`.
PurgeDeletedAds(dead) ==
    LET known == {a \in dead : \E l \in Listings : AdOf[l] = a /\ row[l] # "absent"}
    IN  /\ Rewrite([l \in Listings |->
                       IF AdOf[l] \in dead /\ row[l] # "absent" THEN "purged" ELSE row[l]])
        /\ event' = [k \in Keys |->
                       IF /\ k[1] \in known
                          /\ k[2] = "reddit_content_deletion"
                          /\ event[k] = "Complete" => Sensitive(k[1]) # {}
                       THEN "Pending" ELSE event[k]]

\* Each post has a savepoint of its own; those that fail are left for later.
ApplyDeletions(p) ==
    /\ Goto(p, "deletions", "check")
    /\ \E done \in SUBSET found[p] :
        /\ PurgeDeletedAds(done)
        /\ resume' = [resume EXCEPT ![p] = IF done = found[p] THEN @ ELSE "finish"]
    /\ found' = [found EXCEPT ![p] = {}]
    /\ UNCHANGED <<world, files, lock, batch, held, left, faults>>

\* SourceAccessError, or an exception inside the source's try block: the run
\* goes on, without analysis and ordinary exports.
SourceStops(p) ==
    /\ pc[p] \in {"discover", "refresh", "deletions"}
    /\ pc' = [pc EXCEPT ![p] = "check"]
    /\ resume' = [resume EXCEPT ![p] = "finish"]
    /\ found' = [found EXCEPT ![p] = {}]
    /\ UNCHANGED <<world, db, files, lock, batch, held, left, faults>>

-----------------------------------------------------------------------------
(* _process_pending_erasures.                                              *)

PurgeOneBackup(p) ==
    /\ pc[p] = "purgeBackups"
    /\ \E b \in backups : backups' = backups \ {b}
    /\ UNCHANGED <<world, db, exports, lock, pc, locals, faults>>

\* Seeded fault: the workflow goes on with backups left over.
BugPurgedBackups(p) ==
    /\ Goto(p, "purgeBackups", "purgeExports")
    /\ UNCHANGED <<world, db, files, lock, locals, faults>>

PurgedBackups(p) ==
    /\ backups = {}
    /\ Goto(p, "purgeBackups", "purgeExports")
    /\ UNCHANGED <<world, db, files, lock, locals, faults>>

PurgeOneExport(p) ==
    /\ pc[p] = "purgeExports"
    /\ \E f \in exports : exports' = exports \ {f}
    /\ UNCHANGED <<world, db, backups, lock, pc, locals, faults>>

PurgedExports(p) ==
    /\ exports = {}
    /\ Goto(p, "purgeExports", "scrub")
    /\ UNCHANGED <<world, db, files, lock, locals, faults>>

\* Seeded fault: deleted content stays in the WAL.
BugScrub(p) ==
    /\ Goto(p, "scrub", "sanitize")
    /\ ReadRows(p)
    /\ UNCHANGED <<world, db, files, lock, resume, batch, found, faults>>

\* secure_erase_database, and the row query of the sanitized export after it.
Scrub(p) ==
    /\ Goto(p, "scrub", "sanitize")
    /\ residue' = {}
    /\ ReadRows(p)
    /\ UNCHANGED <<world, row, event, gone, files, lock, resume, batch, found, faults>>

\* Seeded fault: the workflow regenerates the exports with rankings.
BugSanitize(p) == WriteFile(p, "sanitize", TRUE) \/ WrittenAll(p, "sanitize", "freshCopy")

Sanitize(p) == WriteFile(p, "sanitize", FALSE) \/ WrittenAll(p, "sanitize", "freshCopy")

MarkComplete(p) ==
    /\ Goto(p, "complete", "rescrub")
    /\ event' = [k \in Keys |->
                   IF k \in batch[p] /\ event[k] # "Complete" THEN "Complete" ELSE event[k]]
    /\ UNCHANGED <<world, row, residue, gone, files, lock, locals, faults>>

Rescrub(p) ==
    /\ Goto(p, "rescrub", resume[p])
    /\ residue' = {}
    /\ batch' = [batch EXCEPT ![p] = {}]
    /\ UNCHANGED <<world, row, event, gone, files, lock, resume, found, held, left, faults>>

-----------------------------------------------------------------------------
(* The end of a run.                                                       *)

BeginPublish(p) ==
    /\ Goto(p, "publish", "publishing")
    /\ ReadRows(p)
    /\ UNCHANGED <<world, db, files, lock, resume, batch, found, faults>>

\* The mode exports nothing, or the analysis recorded an error.
Withhold(p) ==
    /\ Goto(p, "publish", "finish")
    /\ UNCHANGED <<world, db, files, lock, locals, faults>>

Publish(p) == WriteFile(p, "publishing", TRUE) \/ WrittenAll(p, "publishing", "finish")

Release(p) ==
    /\ Goto(p, "finish", "idle")
    /\ lock' = None
    /\ resume' = [resume EXCEPT ![p] = "discover"]
    /\ batch' = [batch EXCEPT ![p] = {}]
    /\ UNCHANGED <<world, db, files, found, held, left, faults>>

-----------------------------------------------------------------------------
(* Standalone commands.  backup and export take the lock and refuse while   *)
(* an event is pending; migrate does not ask.                               *)

StartBackup(p) ==
    /\ "backup" \in Commands
    /\ Acquire(p)
    /\ Pending = {}
    /\ Goto(p, "idle", "cliCopy")
    /\ UNCHANGED <<world, db, files, locals, faults>>

StartExport(p) ==
    /\ "export" \in Commands
    /\ Acquire(p)
    /\ Pending = {}
    /\ Goto(p, "idle", "cliExport")
    /\ ReadRows(p)
    /\ UNCHANGED <<world, db, files, resume, batch, found, faults>>

CliExport(p) == WriteFile(p, "cliExport", TRUE) \/ WrittenAll(p, "cliExport", "finish")

StartMigrate(p) ==
    /\ "migrate" \in Commands
    /\ Acquire(p)
    /\ Goto(p, "idle", "migrateCopy")
    /\ UNCHANGED <<world, db, files, locals, faults>>

\* docs/operations.md: the operator takes the lock and puts a backup in the
\* place of the database; never while an erasure is pending.
RestoreBackup(b) ==
    /\ "restore" \in Commands
    /\ lock = None
    /\ Pending = {}
    /\ b.label # "temporary"
    /\ row' = b.row
    /\ event' = b.event
    /\ residue' = {}
    /\ gone' = gone
    /\ UNCHANGED <<world, files, lock, pc, locals, faults>>

-----------------------------------------------------------------------------
(* Faults.                                                                 *)

Fault(p) ==
    /\ faults < MaxFaults
    /\ faults' = faults + 1
    /\ held' = [held EXCEPT ![p] = {}]
    /\ left' = [left EXCEPT ![p] = 0]
    /\ found' = [found EXCEPT ![p] = {}]

\* create_backup unlinks its temporary file when it raises, and those it found
\* before it began its own.
Copying == {"dailyCopy", "freshCopy", "cliCopy", "migrateCopy"}
Installing == {"dailyInstall", "freshInstall", "cliInstall", "migrateInstall"}

Discard(p) ==
    \E unlinked \in {{}, {b \in backups : b.label = "temporary"}} :
        /\ pc[p] \in Installing => unlinked = {b \in backups : b.label = "temporary"}
        /\ pc[p] \notin Copying \cup Installing => unlinked = {}
        /\ backups' = backups \ unlinked

\* Seeded fault: a late failure reopens the events completed before it.
BugStepRaises(p) ==
    /\ pc[p] \notin {"idle", "finish"}
    /\ Fault(p)
    /\ pc' = [pc EXCEPT ![p] = "finish"]
    /\ Discard(p)
    /\ event' = IF pc[p] \in ErasureSteps
                THEN [k \in Keys |-> IF k \in batch[p] THEN "Pending" ELSE event[k]]
                ELSE event
    /\ UNCHANGED <<world, row, residue, gone, exports, lock, resume, batch>>

\* A step raises: the writers remove their temporary file, and inside the
\* workflow mark_erasure_events_failed commits before the run is closed.
StepRaises(p) ==
    /\ pc[p] \notin {"idle", "finish"}
    /\ Fault(p)
    /\ pc' = [pc EXCEPT ![p] = "finish"]
    /\ Discard(p)
    /\ event' = IF pc[p] \in ErasureSteps
                THEN [k \in Keys |-> IF k \in batch[p] /\ event[k] # "Complete"
                                     THEN "Pending" ELSE event[k]]
                ELSE event
    /\ UNCHANGED <<world, row, residue, gone, exports, lock, resume, batch>>

\* The process dies: the lock is released by the operating system, and a
\* temporary file stays behind.
Crash(p) ==
    /\ pc[p] # "idle"
    /\ Fault(p)
    /\ pc' = [pc EXCEPT ![p] = "idle"]
    /\ lock' = None
    /\ resume' = [resume EXCEPT ![p] = "discover"]
    /\ batch' = [batch EXCEPT ![p] = {}]
    /\ exports' = IF left[p] = 0 THEN exports
                  ELSE exports \cup {[file |-> 0, ranked |-> FALSE, data |-> held[p]]}
    /\ UNCHANGED <<world, db, backups>>

-----------------------------------------------------------------------------

WorldStep == \E a \in Ads : RemovePost(a) \/ ApprovePost(a) \/ DeleteAuthor(a)

RunStep(p) ==
    \/ NothingPending(p) \/ BeginErasure(p)
    \/ DailyCopy(p) \/ DailyInstall(p)
    \/ Discover(p) \/ Refresh(p) \/ ApplyDeletions(p) \/ SourceStops(p)
    \/ PurgeOneBackup(p) \/ PurgedBackups(p)
    \/ PurgeOneExport(p) \/ PurgedExports(p)
    \/ Scrub(p) \/ Sanitize(p) \/ FreshCopy(p) \/ FreshInstall(p)
    \/ MarkComplete(p) \/ Rescrub(p)
    \/ BeginPublish(p) \/ Withhold(p) \/ Publish(p)

CommandStep(p) ==
    \/ CliCopy(p) \/ CliInstall(p) \/ CliExport(p)
    \/ MigrateCopy(p) \/ MigrateInstall(p)

Work(p) == RunStep(p) \/ CommandStep(p) \/ Release(p)

Next ==
    \/ WorldStep
    \/ \E p \in Proc : \/ StartRun(p) \/ StartBackup(p) \/ StartExport(p) \/ StartMigrate(p)
                       \/ Work(p) \/ StepRaises(p) \/ Crash(p)
    \/ \E b \in backups : RestoreBackup(b)

Spec == Init /\ [][Next]_vars

\* A process that holds the lock goes on unless it crashes.  launchd starts
\* the run again and again, so it meets the lock free again and again.
Fairness ==
    /\ \A p \in Proc : WF_vars(Work(p))
    /\ SF_vars(\E p \in Proc : StartRun(p))

FairSpec == Spec /\ Fairness

-----------------------------------------------------------------------------
(* Properties.                                                             *)

Covers(k, d) ==
    /\ k[1] = AdOf[d[1]]
    /\ k[2] = "reddit_content_deletion" \/ d[2] = "author"

\* Erased data that survives in SQLite's pages or WAL, in a backup or in an
\* export always belongs to an event that is still pending, so that the next
\* run finds it again (docs/architecture.md, durable transactional outbox).
ErasureAccounted == \A d \in gone \cap Copies : \E k \in Pending : Covers(k, d)

\* Erased data never comes back into the listing table: whenever the operator
\* may restore, no backup on disk predates a completed erasure.
ErasedStaysErased == gone \cap LiveOf(row) = {}

\* An event becomes complete only when all exports exist, hold the erased
\* state and withhold rankings, and a backup of that state is in place.
CompletionHasReplacements ==
    [][(\E k \in Keys : event[k] = "Pending" /\ event'[k] = "Complete") =>
          /\ \A f \in 1..LastFile : \E x \in exports : x.file = f
          /\ \A x \in exports : ~x.ranked /\ x.data = LiveOf(row)
          /\ \E b \in backups : b.label = "post_erasure" /\ b.row = row]_vars

\* A completed event is opened again only for data erased in that very step,
\* or because the operator, while nobody works, restores a backup from before
\* its completion: a late failure of the workflow does not undo it.
ReopenedOnlyForNewData ==
    [][\A k \in Keys : (event[k] = "Complete" /\ event'[k] = "Pending") =>
          \/ \E d \in gone' \ gone : Covers(k, d)
          \/ /\ lock = None
             /\ \E b \in backups : event' = b.event]_vars

\* A pending erasure is completed: faults are finite, the scheduler keeps
\* starting runs and no command keeps the lock for ever.
PendingIsCompleted ==
    \A k \in Keys : event[k] = "Pending" ~> event[k] = "Complete"

\* What the documentation says of a deleted author: the stored author fields
\* of the retained post are erased before the event completes.
AuthorEventErasesWholePost ==
    \A l \in Listings : event[<<AdOf[l], "reddit_author_erasure">>] = "Complete"
                            => row[l] # "stored"

-----------------------------------------------------------------------------
(* The inductive invariant behind ErasureAccounted.                        *)

\* Erased data that no pending event covers any more.
Settled == {d \in gone : ~ \E k \in Pending : Covers(k, d)}

\* The lock serialises everything: a process that is at work holds it.
LockInv == \A p \in Proc : pc[p] # "idle" => lock = p

DataInv ==
    /\ LiveOf(row) \cap gone = {}
    /\ residue \cap Settled = {}
    /\ \A b \in backups : LiveOf(b.row) \cap Settled = {}
    /\ \A x \in exports : x.data \cap Settled = {}

\* Rows in memory are held by a writing export only, and are never erased ones.
HeldInv ==
    \A p \in Proc :
        /\ held[p] \cap gone = {}
        /\ pc[p] \notin {"sanitize", "publishing", "cliExport"} => held[p] = {}

\* The event_ids a workflow works on include all pending events.
BatchInv ==
    \A p \in Proc : pc[p] \in ErasureSteps =>
        /\ Pending \subseteq batch[p]
        /\ \A k \in batch[p] : event[k] # "none"

\* What the steps of the workflow done so far have cleaned.
BackupsClean == \A b \in backups : LiveOf(b.row) \cap gone = {}
ExportsClean == \A x \in exports : x.data \cap gone = {}

AfterScrub == {"sanitize", "freshCopy", "freshInstall", "complete"}
AfterExports == AfterScrub \cup {"scrub"}
AfterBackups == AfterExports \cup {"purgeExports"}

PurgeInv ==
    \A p \in Proc :
        /\ pc[p] \in AfterBackups => BackupsClean
        /\ pc[p] \in AfterExports => ExportsClean
        /\ pc[p] \in AfterScrub => residue = {}

IInv == LockInv /\ DataInv /\ HeldInv /\ BatchInv /\ PurgeInv

\* What the workflow has regenerated so far, for CompletionHasReplacements: the
\* rows it holds are those of the table, files 1..n show them unranked, and the
\* copy that is to become the new backup repeats them.
Writing == {"sanitize", "publishing", "cliExport"}

RegeneratedUpTo(n) ==
    /\ \A f \in 1..n : \E x \in exports : x.file = f
    /\ \A x \in exports : ~x.ranked /\ x.data = LiveOf(row)

ReplacementsOf(p) ==
    /\ pc[p] \in Writing => held[p] = LiveOf(row)
    /\ pc[p] = "scrub" => exports = {}
    /\ pc[p] = "sanitize" => RegeneratedUpTo(LastFile - left[p])
    /\ pc[p] \in {"freshCopy", "freshInstall", "complete"} => RegeneratedUpTo(LastFile)
    /\ pc[p] = "freshInstall" => \A b \in backups : b.label = "temporary" => b.row = row
    /\ pc[p] = "complete" => \E b \in backups : b.label = "post_erasure" /\ b.row = row

ReplacementInv == \A p \in Proc : ReplacementsOf(p)

-----------------------------------------------------------------------------
(* The workflow implements the contract.                                   *)

Contract == INSTANCE ErasureContract WITH
                live <- LiveOf(row), copies <- Copies, due <- Pending

ImplementsContract == Contract!Spec
=============================================================================
