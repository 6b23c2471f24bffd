--------------------------- MODULE DailyPipeline ---------------------------
(* One persistent run after the other (pipeline.py, DailyPipeline.run), and  *)
(* the export command of cli.py between them: pending erasures, collection   *)
(* source by source, erasures again, analysis, the five export files one by  *)
(* one, and the row of the run.  The application lock lets one process at a  *)
(* time be at work, so a run is a program counter; at every step it may      *)
(* raise or be killed.                                                       *)
(*                                                                           *)
(* Records are abstracted to the run that last stored or scored them: held   *)
(* says which run last stored records of a source, score which one last      *)
(* scored its active listings.  How an erasure scrubs database and backups   *)
(* is the subject of ErasureWorkflow; here it is what it does to the files.  *)
EXTENDS Naturals, FiniteSets

CONSTANTS
    NumSources, \* the sources the settings can enable, in the order collected
    Dates,      \* local dates a run's as_of falls on
    Enabled,    \* the sets of sources settings may enable
    Kinds,      \* the commands in use, see Commands
    None,       \* no file, no content
    MaxRuns,    \* bound: rows of the table of runs
    MaxExports  \* bound: uses of the export command

Commands == {"daily", "discovery", "refresh", "value", "diagnostic", "export"}

VARIABLES
    runs,       \* rows in the table of runs; the last one may be at work
    args,       \* per run: its command, selected sources and local date
    status,     \* per run: Run.status
    sourceRun,  \* per run and source: SourceRun.status
    held,       \* per source: the last run that stored records of it
    score,      \* per source: the last run that scored all its active listings
    pending,    \* an erasure event is pending
    exports,    \* how often the export command was used
    files,      \* the managed export files
    pc,         \* where the process at work stands
    then,       \* where it goes on after an erasure
    content,    \* what the export at work writes
    next,       \* the next of its five files
    flawed      \* counts["errors"] > 0

vars == <<runs, args, status, sourceRun, held, score, pending, exports,
          files, pc, then, content, next, flawed>>
disk == <<runs, args, status, sourceRun, held, score, pending, exports, files>>

Sources == 1..NumSources
Runs == 1..MaxRuns
Statuses == {"Running", "Success", "Partial", "Failed"}
Outcomes == {"Successful", "Partial", "PermissionRequired", "Failed"}
Args == [kind : Commands \ {"export"}, selected : SUBSET Sources, date : Dates]

\* The current files have the date "current".
FileNames == [name : {"latest", "active", "sales"}, date : {"current"}]
             \cup [name : {"snapshot", "report"}, date : Dates]

\* What one export writes: the last run begun by then, whether the command
\* writes it or that run, whether with analysis, its local date, and whether
\* all the listings it shows are scored by that run.
Content == [by : 0..MaxRuns, command : BOOLEAN, ranked : BOOLEAN,
            date : Dates, scored : BOOLEAN]

ASSUME PipelineAssumption ==
    /\ NumSources \in Nat
    /\ Enabled \subseteq SUBSET (1..NumSources)
    /\ Kinds \subseteq Commands
    /\ MaxRuns \in Nat
    /\ MaxExports \in Nat
    /\ "current" \notin Dates
    /\ None \notin Statuses \cup Outcomes \cup Content

\* The order in which export writes the files of a local date.
InOrder == <<"latest", "active", "sales", "snapshot", "report">>
FileAt(i, d) == [name |-> InOrder[i], date |-> IF i <= 3 THEN "current" ELSE d]
Last == 5

(* -------------------------------- The run -------------------------------- *)

Collects(k) == k \in {"daily", "discovery", "refresh", "diagnostic"}
\* A run limited to one source neither analyses nor exports.
Publishes(k) == k # "diagnostic"

Me == args[runs]
Outcome(s) == sourceRun[<<runs, s>>]
Got(outcomes) == {s \in Me.selected : Outcome(s) \in outcomes}

\* collection_healthy
Healthy(r) ==
    Collects(args[r].kind) =>
        /\ args[r].selected # {}
        /\ \A s \in args[r].selected : sourceRun[<<r, s>>] = "Successful"

Init ==
    /\ runs = 0
    /\ args = [x \in Runs |-> None]
    /\ status = [x \in Runs |-> None]
    /\ sourceRun = [x \in Runs \X Sources |-> None]
    /\ held = [s \in Sources |-> 0]
    /\ score = [s \in Sources |-> 0]
    /\ pending = FALSE
    /\ exports = 0
    /\ files = [f \in FileNames |-> None]
    /\ pc = "idle"
    /\ then = "collect"
    /\ content = None
    /\ next = 1
    /\ flawed = FALSE

\* A command takes the lock and commits the row of its run.
Begin(a) ==
    /\ pc = "idle"
    /\ runs < MaxRuns
    /\ a.kind \in Kinds
    /\ CASE a.kind = "diagnostic" -> Cardinality(a.selected) = 1
         [] a.kind = "value" -> a.selected = {}
         [] OTHER -> a.selected \in Enabled
    /\ runs' = runs + 1
    /\ args' = [args EXCEPT ![runs + 1] = a]
    /\ status' = [status EXCEPT ![runs + 1] = "Running"]
    /\ pc' = "erase"
    /\ then' = "collect"
    /\ flawed' = FALSE
    /\ UNCHANGED <<sourceRun, held, score, pending, exports, files, content, next>>

(* ------------------- Erasures, before and after collection --------------- *)

\* Nothing is pending: before collection the daily backup is taken.
NoErasure ==
    /\ pc = "erase"
    /\ ~pending
    /\ pc' = then
    /\ UNCHANGED <<disk, then, content, next, flawed>>

\* purge_export_artifacts removes every managed file, one after the other in
\* the order of their names.
Rank == [active |-> 1, report |-> 2, snapshot |-> 3, latest |-> 4, sales |-> 5]

Purge(f) ==
    /\ pc = "erase"
    /\ pending
    /\ files[f] # None
    /\ \A g \in FileNames : files[g] # None => Rank[g.name] >= Rank[f.name]
    /\ files' = [files EXCEPT ![f] = None]
    /\ UNCHANGED <<runs, args, status, sourceRun, held, score, pending, exports, pc,
                   then, content, next, flawed>>

\* The rows of an export are read in one session, with or without analysis.
Read(ranked, command, d) ==
    /\ content' = [by |-> runs, command |-> command, ranked |-> ranked, date |-> d,
                   scored |-> \A s \in Sources : held[s] > 0 => score[s] = runs]
    /\ next' = 1

Sanitize ==
    /\ pc = "erase"
    /\ pending
    /\ \A f \in FileNames : files[f] = None
    /\ Read(FALSE, FALSE, Me.date)
    /\ pc' = "sanitize"
    /\ UNCHANGED <<disk, then, flawed>>

BugReplaced == [files EXCEPT ![FileAt(Last + 1 - next, content.date)] = content]
\* One file is written to a temporary and replaced.
Replaced == [files EXCEPT ![FileAt(next, content.date)] = content]

Write ==
    /\ pc \in {"sanitize", "export", "command"}
    /\ next <= Last
    /\ files' = Replaced
    /\ next' = next + 1
    /\ UNCHANGED <<runs, args, status, sourceRun, held, score, pending, exports, pc,
                   then, content, flawed>>

\* The event is complete once the sanitised files and a backup are there.
Complete ==
    /\ pc = "sanitize"
    /\ next > Last
    /\ pending' = FALSE
    /\ pc' = then
    /\ content' = None
    /\ next' = 1
    /\ UNCHANGED <<runs, args, status, sourceRun, held, score, exports, files, then, flawed>>

(* -------------------------------- Collection ----------------------------- *)

\* A source is read, and what it delivers is committed apart from the others:
\* it stores records unless it fails before; records may fail one by one and
\* make the source Partial; it may report deletions or an erased author.
Stored(s) == [held EXCEPT ![s] = runs]

Turn(s) ==
    /\ s \in Me.selected
    /\ Outcome(s) = None
    /\ \A t \in Me.selected : t < s => Outcome(t) # None

Collect(s, o, stores, erasure) ==
    /\ pc = "collect"
    /\ Collects(Me.kind)
    /\ Turn(s)
    /\ o \in {"Successful", "Partial"} => stores
    /\ o = "PermissionRequired" /\ stores => Me.kind \in {"daily", "diagnostic"}
    /\ erasure => stores
    /\ sourceRun' = [sourceRun EXCEPT ![<<runs, s>>] = o]
    /\ held' = IF stores THEN Stored(s) ELSE held
    /\ pending' = (pending \/ erasure)
    /\ flawed' = (flawed \/ o \in {"Partial", "Failed"})
    /\ UNCHANGED <<runs, args, status, score, exports, files, pc, then, content, next>>

BugAfterCollection == "analyze"
AfterCollection == "erase"

Collected ==
    /\ pc = "collect"
    /\ Collects(Me.kind) => \A s \in Me.selected : Outcome(s) # None
    /\ pc' = AfterCollection
    /\ then' = "analyze"
    /\ flawed' = (flawed \/ (Collects(Me.kind) /\ Me.selected = {}))
    /\ UNCHANGED <<disk, content, next>>

(* -------------------------- Analysis and exports ------------------------- *)

\* Analysis and export are wanted, and not withheld after incomplete collection.
BugWanted == Publishes(Me.kind) /\ (Collects(Me.kind) => Got({"Failed"}) = {})
Wanted == Publishes(Me.kind) /\ Healthy(runs)

Withhold ==
    /\ pc = "analyze"
    /\ ~Wanted
    /\ pc' = "finish"
    /\ UNCHANGED <<disk, then, content, next, flawed>>

\* Listings are valued and scored one by one, those that fail keep what they
\* had; the export follows only if none failed.
AfterAnalysis(failing) == IF failing = {} THEN "publish" ELSE "finish"

Analyze(failing) ==
    /\ pc = "analyze"
    /\ Wanted
    /\ failing \subseteq {s \in Sources : held[s] > 0}
    /\ score' = [s \in Sources |-> IF held[s] > 0 /\ s \notin failing
                                   THEN runs ELSE score[s]]
    /\ flawed' = (flawed \/ failing # {})
    /\ pc' = AfterAnalysis(failing)
    /\ UNCHANGED <<runs, args, status, sourceRun, held, pending, exports, files,
                   then, content, next>>

Publish ==
    /\ pc = "publish"
    /\ Read(TRUE, FALSE, Me.date)
    /\ pc' = "export"
    /\ UNCHANGED <<disk, then, flawed>>

Exported ==
    /\ pc = "export"
    /\ next > Last
    /\ pc' = "finish"
    /\ content' = None
    /\ next' = 1
    /\ UNCHANGED <<disk, then, flawed>>

(* ------------------------------ End of a run ----------------------------- *)

\* The lock is released, and what the process had in memory is gone.
Gone ==
    /\ pc' = "idle"
    /\ then' = "collect"
    /\ content' = None
    /\ next' = 1
    /\ flawed' = FALSE

NoSource == Collects(Me.kind) /\ Me.selected = {}

BugFinalStatus ==
    IF (NoSource \/ Got({"Failed"}) # {}) /\ Got({"Successful", "Partial"}) = {}
      THEN "Failed"
    ELSE IF Got({"Failed", "PermissionRequired"}) # {} THEN "Partial"
    ELSE "Success"
\* Failed if a source failed and none came through; else Partial if anything
\* went wrong.
FinalStatus ==
    IF (NoSource \/ Got({"Failed"}) # {}) /\ Got({"Successful", "Partial"}) = {}
      THEN "Failed"
    ELSE IF flawed \/ Got({"Failed", "PermissionRequired"}) # {} THEN "Partial"
    ELSE "Success"

Finish ==
    /\ pc = "finish"
    /\ status' = [status EXCEPT ![runs] = FinalStatus]
    /\ Gone
    /\ UNCHANGED <<runs, args, sourceRun, held, score, pending, exports, files>>

\* A step raises and the row is finished as Failed; if that fails as well, or
\* the process is killed, the row stays Running.
Abort(st) ==
    /\ pc \notin {"idle", "command"}
    /\ status' = [status EXCEPT ![runs] = st]
    /\ Gone
    /\ UNCHANGED <<runs, args, sourceRun, held, score, pending, exports, files>>

(* ---------------------------- The export command ------------------------- *)

\* Regenerates the files from committed state, unless an erasure is pending.
ExportCommand(d) ==
    /\ pc = "idle"
    /\ "export" \in Kinds
    /\ ~pending
    /\ exports < MaxExports
    /\ Read(TRUE, TRUE, d)
    /\ exports' = exports + 1
    /\ pc' = "command"
    /\ UNCHANGED <<runs, args, status, sourceRun, held, score, pending, files,
                   then, flawed>>

ExportEnds ==
    /\ pc = "command"
    /\ Gone
    /\ UNCHANGED disk

Next ==
    \/ \E a \in Args : Begin(a)
    \/ NoErasure \/ Sanitize \/ Write \/ Complete
    \/ \E f \in FileNames : Purge(f)
    \/ \E s \in Sources, o \in Outcomes, stores, erasure \in BOOLEAN :
            Collect(s, o, stores, erasure)
    \/ Collected \/ Withhold \/ Publish \/ Exported \/ Finish \/ ExportEnds
    \/ \E failing \in SUBSET Sources : Analyze(failing)
    \/ \E st \in {"Failed", "Running"} : Abort(st)
    \/ \E d \in Dates : ExportCommand(d)

Spec == Init /\ [][Next]_vars

(* ------------------------------ Properties ------------------------------- *)

FlagsOK == pending \in BOOLEAN /\ flawed \in BOOLEAN

TypeOK ==
    /\ runs \in 0..MaxRuns
    /\ args \in [Runs -> Args \cup {None}]
    /\ status \in [Runs -> Statuses \cup {None}]
    /\ sourceRun \in [Runs \X Sources -> Outcomes \cup {None}]
    /\ held \in [Sources -> 0..MaxRuns]
    /\ score \in [Sources -> 0..MaxRuns]
    /\ exports \in 0..MaxExports
    /\ files \in [FileNames -> Content \cup {None}]
    /\ pc \in {"idle", "erase", "sanitize", "collect", "analyze", "publish",
               "export", "finish", "command"}
    /\ then \in {"collect", "analyze"}
    /\ content \in Content \cup {None}
    /\ next \in 1..Last + 1
    /\ FlagsOK

\* Partial collection never reaches the ranked files: a run that collected and
\* wrote a ranked file found every selected source Successful, and what it
\* shows is scored by that very run, source by source.
RankedRunsAreWhole ==
    \A f \in FileNames :
        LET c == files[f] IN
        (c # None /\ c.ranked /\ ~c.command) =>
            Healthy(c.by) /\ c.scored

\* A failed source does not roll back another one: a source that came through
\* in a run keeps the records of that run or of a later one.
FailureIsIsolated ==
    \A r \in Runs, s \in Sources :
        sourceRun[<<r, s>>] \in {"Successful", "Partial"} => held[s] >= r

\* A run on record as Success, diagnostics of one source apart, is the run the
\* current files show, or an earlier one than that; only a pending erasure may
\* have taken them away.
SuccessIsPublished ==
    \A r \in Runs :
        (status[r] = "Success" /\ Publishes(args[r].kind) /\ ~pending) =>
            \A i \in 1..3 : LET c == files[FileAt(i, args[r].date)] IN
                                c # None /\ c.by >= r

\* The exports in the order in which they happen.
At(c) == 3 * c.by + (IF c.command THEN 2 ELSE IF c.ranked THEN 1 ELSE 0)

\* The report is written last: who reads one finds the four tables of its
\* export or of a later one, whichever step a process was killed at.
ReportComesLast ==
    pending \/ \A d \in Dates :
        LET report == files[FileAt(Last, d)] IN
        report # None =>
            \A i \in 1..Last : LET c == files[FileAt(i, d)] IN
                c # None /\ At(c) >= At(report)

\* The inductive invariant.  Rows beyond the last do not exist; the process at
\* work belongs to the last row and knows its command.
Begun == pc \notin {"idle", "command"}
RowsAreInOrder ==
    /\ \A r \in Runs : r <= runs => args[r] \in Args /\ status[r] # None
    /\ \A r \in Runs : r > runs =>
            status[r] = None /\ \A s \in Sources : sourceRun[<<r, s>>] = None
    /\ \A s \in Sources : held[s] <= runs /\ score[s] <= runs
    /\ Begun => runs > 0 /\ status[runs] = "Running"

\* Collection is finished, everything that went wrong in it is counted, and no
\* erasure is pending once the run goes on to analysis.
CollectionIsCounted ==
    /\ pc \in {"publish", "export"} => Wanted /\ ~pending
    /\ pc = "analyze" => ~pending
    /\ (then = "analyze" /\ Begun) =>
        /\ Collects(Me.kind) => \A s \in Me.selected : Outcome(s) # None
        /\ NoSource => flawed
    /\ Begun => \A s \in Sources : Outcome(s) \in {"Partial", "Failed"} => flawed
    /\ pc \in {"analyze", "publish", "export", "finish"} => then = "analyze"
    /\ pc = "collect" => then = "collect"

\* What an export at work has written, and what it follows.
ExportIsAtWork ==
    /\ pc \in {"sanitize", "export", "command"} =>
        /\ content # None
        /\ content.by = runs
        /\ content.ranked <=> pc # "sanitize"
        /\ content.command <=> pc = "command"
        /\ \A i \in 1..Last : i < next => files[FileAt(i, content.date)] = content
    /\ pc = "publish" => \A s \in Sources : held[s] > 0 => score[s] = runs
    /\ pc = "export" => content.scored
    /\ pc = "command" => ~pending
    /\ pc = "sanitize" =>
        /\ pending
        /\ \A f \in FileNames :
                files[f] # None => files[f] = content
                                   /\ \E i \in 1..Last : i < next /\ f = FileAt(i, content.date)
    /\ pc \notin {"sanitize", "export", "command"} => next = 1

\* Files in place are of runs begun; a run at work finds none of a command
\* used since it began, and no ranked one of its own before it exports.
FilesAreOld ==
    \A f \in FileNames : files[f] # None =>
        /\ files[f].by <= runs
        /\ ~files[f].command => files[f].by > 0
        /\ (Begun /\ files[f].by = runs) =>
                /\ ~files[f].command
                /\ files[f].ranked => pc \in {"export", "finish"}

\* The row that is about to say Success has its files in place.
PublishedFirst ==
    (pc = "finish" /\ Publishes(Me.kind) /\ FinalStatus = "Success") =>
        \A i \in 1..3 : LET c == files[FileAt(i, Me.date)] IN
                            c # None /\ c.by >= runs

IInv ==
    /\ TypeOK
    /\ RowsAreInOrder
    /\ CollectionIsCounted
    /\ ExportIsAtWork
    /\ FilesAreOld
    /\ PublishedFirst
    /\ RankedRunsAreWhole
    /\ FailureIsIsolated
    /\ SuccessIsPublished
    /\ ReportComesLast

\* The published files change only as docs/architecture.md promises, see
\* ReportContract: what a run collected incompletely is never shown, and after
\* an erasure no file from before is left.
View(c) ==
    IF c = None THEN "none"
    ELSE IF ~c.ranked THEN "unranked"
    ELSE IF c.command \/ ~Collects(args[c.by].kind) THEN "regenerated"
    ELSE IF Healthy(c.by) THEN "ranked" ELSE "incomplete"
Contract == INSTANCE ReportContract
    WITH Files <- FileNames, shown <- [f \in FileNames |-> View(files[f])],
         erasing <- pending
KeepsContract == Contract!Spec
=============================================================================
