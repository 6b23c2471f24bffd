----------------------------- MODULE Scheduler -----------------------------
(***************************************************************************)
(* When watch-deal-tracker runs: launchd starts `scheduled-run` again and  *)
(* again, a guard makes it a no-op once the day's outcome is there, users  *)
(* run commands by hand, and `healthcheck` judges the table of runs.       *)
(*                                                                         *)
(* Every run takes the application lock without waiting; the guard and the *)
(* health check read the table without it.  A run is three steps here:     *)
(* creating its row, collecting, and finishing the row.  What collection   *)
(* and erasure do is the matter of ListingHistory and ErasureWorkflow.     *)
(*                                                                         *)
(* Time is counted in instants; LocalDate maps them to dates.  A command   *)
(* may be given the instant it works for (--as-of), which the table keeps  *)
(* as the start of its run.                                                *)
(***************************************************************************)
EXTENDS Integers, Sequences, FiniteSets

CONSTANTS
    Launchd,     \* the scheduled job, never started twice at a time
    Users,       \* processes started by hand
    LocalDate,   \* LocalDate[t]: the date of instant t in the configured zone
    Settings,    \* contents of the configuration
    Feeds,       \* states of the authorized feed file, which may be missing
    Readiness,   \* what collecting with some settings and feed comes to
    AsOfs,       \* AsOfs[t]: instants a command started at t may work for
    Stale,       \* STALE_AFTER
    Stuck,       \* STUCK_AFTER
    None,        \* no process, no value
    MaxTime,     \* bound on the clock
    MaxEvents,   \* bound on manual commands, faults and configuration changes
    MaxLasting   \* bound on the daily runs under a configuration that never succeeds

Instants == 0..MaxTime
Procs == Users \cup {Launchd}

\* Outcomes of collection: every source successful; every source without
\* permission; and two that can last as long as the configuration does, or be
\* transient: a source without permission, failing or with rejected records
\* beside one that works ("mixed"); and a source that fails while none works,
\* or no source enabled at all ("failing").
Lasting == {"mixed", "failing"}
Outcomes == {"ready", "gated", "transient"} \cup Lasting

ASSUME ConstantsAssumption ==
    /\ MaxTime \in Nat /\ MaxEvents \in Nat /\ MaxLasting \in Nat
    /\ Stale \in Nat /\ Stuck \in Nat
    /\ LocalDate \in [Instants -> Nat]
    /\ AsOfs \in [Instants -> SUBSET Instants]
    /\ Readiness \in [Settings \X Feeds -> {"ready", "gated"} \cup Lasting]
    /\ Launchd \notin Users /\ None \notin Procs /\ None \notin Instants

Modes == {"daily", "other"}

\* The fingerprint digests the loaded settings and the state of two files.
Fingerprints == Settings \X Settings \X Feeds

\* A row of the table of runs.  Its mode, sources and fingerprint are in the
\* summary, which is empty until the run has finished.
Rows ==
    [started : Instants, status : {"Running", "Success", "Partial", "Failed"},
     mode : Modes \cup {None}, sources : Outcomes \cup {None},
     fingerprint : Fingerprints \cup {None}, completed : Instants \cup {None},
     read : Feeds \cup {None}]   \* history: the feed its collection has read

NewRow(t) ==
    [started |-> t, status |-> "Running", mode |-> None, sources |-> None,
     fingerprint |-> None, completed |-> None, read |-> None]

\* What a process remembers: its command, as_of, the settings it has loaded,
\* its run_id, the result of its collection and the feed it read.
NoJob == [mode |-> None, asOf |-> None, loaded |-> None, row |-> None,
          sources |-> None, read |-> None]

VARIABLES
    now,       \* the clock
    settings,  \* the configuration on disk
    feed,      \* the feed file on disk
    runs,      \* the table of runs; a run_id is its index
    pending,   \* there is a pending erasure event
    lock,      \* holder of the application lock
    pc, job,   \* step and locals of each process
    events     \* manual commands, faults and changes so far

environment == <<settings, feed>>
vars == <<now, environment, runs, pending, lock, pc, job, events>>

Jobs == [mode : Modes \cup {None}, asOf : Instants \cup {None},
         loaded : Settings \cup {None}, row : Nat \cup {None},
         sources : Outcomes \cup {None}, read : Feeds \cup {None}]

TypeOK ==
    /\ now \in Instants
    /\ settings \in Settings /\ feed \in Feeds
    /\ runs \in Seq(Rows)
    /\ \A i \in DOMAIN runs : (runs[i].status = "Running") <=> (runs[i].completed = None)
    /\ pending \in BOOLEAN
    /\ lock \in Procs \cup {None}
    /\ pc \in [Procs -> {"idle", "begin", "collect", "finish", "hold"}]
    /\ job \in [Procs -> Jobs]
    /\ events \in 0..MaxEvents

Init ==
    /\ now = 0
    /\ settings \in Settings /\ feed \in Feeds
    /\ runs = <<>> /\ pending = FALSE /\ lock = None
    /\ pc = [p \in Procs |-> "idle"] /\ job = [p \in Procs |-> NoJob]
    /\ events = 0

-----------------------------------------------------------------------------
(* The guard of scheduled-run.                                             *)

\* The run with the latest start; of one instant, the one created last.
Newest(S) ==
    CHOOSE i \in S : \A j \in S :
        \/ runs[j].started < runs[i].started
        \/ runs[j].started = runs[i].started /\ j <= i

Fingerprint(loaded) == <<loaded, settings, feed>>

\* Seeded fault: a daily run counts whatever its fingerprint.
BugSatisfiesGuard(r) == r.status = "Success" \/ r.sources = "gated"

\* Seeded fault: only a successful run counts, permission-gated ones do not.
BugGatedGuard(r) == r.fingerprint = Fingerprint(settings) /\ r.status = "Success"

\* _scheduled_run_satisfies_guard
SatisfiesGuard(r) ==
    /\ r.fingerprint = Fingerprint(settings)
    /\ \/ r.status = "Success"
       \/ r.status = "Partial" /\ r.sources = "gated"

DailyRuns ==
    {i \in DOMAIN runs : runs[i].status \in {"Success", "Partial"} /\ runs[i].mode = "daily"}

OutcomeIsThere ==
    /\ DailyRuns # {}
    /\ LET r == runs[Newest(DailyRuns)] IN
          LocalDate[r.started] = LocalDate[now] /\ SatisfiesGuard(r)

\* Seeded fault: a pending erasure does not override the guard.
BugDue == ~OutcomeIsThere

Due == pending \/ ~OutcomeIsThere

-----------------------------------------------------------------------------
(* Commands.                                                               *)

Load(p, mode, t) ==
    /\ pc[p] = "idle"
    /\ pc' = [pc EXCEPT ![p] = "begin"]
    /\ job' = [job EXCEPT ![p] = [NoJob EXCEPT !.mode = mode, !.asOf = t, !.loaded = settings]]
    /\ UNCHANGED <<now, environment, runs, pending, lock>>

Event == events < MaxEvents /\ events' = events + 1

\* A daily run that met such a configuration.
Unsettled(r) == r.status # "Running" /\ r.mode = "daily" /\ r.sources \in Lasting

\* The bound: what would go on every half an hour is cut off after a while.
WithinBound ==
    \/ pending
    \/ Readiness[<<settings, feed>>] \notin Lasting
    \/ Cardinality({i \in DOMAIN runs : Unsettled(runs[i])}) < MaxLasting

\* launchd starts the job; if the guard is satisfied nothing happens.
Schedule == Due /\ WithinBound /\ Load(Launchd, "daily", now) /\ UNCHANGED events

\* `run` is daily; a run of one source, `discover`, `backfill`,
\* `refresh-status` and `value` are not.
Invoke(p) ==
    /\ Event
    /\ \E mode \in Modes, t \in AsOfs[now] : Load(p, mode, t)

\* Seeded fault: the file lock is not exclusive.
BugLockIsFree == TRUE

LockIsFree == lock = None

\* DailyPipeline.run takes the lock, and the row of the run is committed.
Begin(p) ==
    /\ pc[p] = "begin" /\ LockIsFree
    /\ lock' = p
    /\ runs' = Append(runs, NewRow(job[p].asOf))
    /\ pc' = [pc EXCEPT ![p] = "collect"]
    /\ job' = [job EXCEPT ![p].row = Len(runs) + 1]
    /\ UNCHANGED <<now, environment, pending, events>>

\* "Another watch-tracker run already holds the lock"
Refused(p) ==
    /\ pc[p] = "begin" /\ ~LockIsFree
    /\ pc' = [pc EXCEPT ![p] = "idle"] /\ job' = [job EXCEPT ![p] = NoJob]
    /\ UNCHANGED <<now, environment, runs, pending, lock, events>>

\* Pending erasures are resumed, the sources are collected with the settings
\* the process has loaded, and collection may find something new to erase.
Collect(p) ==
    /\ pc[p] = "collect"
    /\ \E s \in Outcomes :
          /\ IF s = "transient" THEN Event
             ELSE s = Readiness[<<job[p].loaded, feed>>] /\ UNCHANGED events
          /\ job' = [job EXCEPT ![p].sources = s, ![p].read = feed]
    /\ pending' \in BOOLEAN
    /\ pc' = [pc EXCEPT ![p] = "finish"]
    /\ UNCHANGED <<now, environment, runs, lock>>

\* Seeded fault: sources without permission are forgotten.
BugStatuses(s) == IF s \in {"ready", "gated"} THEN {"Success"} ELSE {"Partial", "Failed"}

\* A run is Failed if sources failed, or none is enabled, and none succeeded.
Statuses(s) ==
    CASE s = "ready" -> {"Success"}
      [] s \in {"gated", "mixed"} -> {"Partial"}
      [] s = "failing" -> {"Failed"}
      [] OTHER -> {"Partial", "Failed"}

\* Repository.finish_run and the summary.
Finished(r, p, status) ==
    [r EXCEPT !.status = status, !.mode = job[p].mode, !.sources = job[p].sources,
              !.fingerprint = Fingerprint(job[p].loaded), !.completed = now,
              !.read = job[p].read]

\* Seeded fault: the run that started last is finished.
BugOwnRow(p) == Newest(DOMAIN runs)

OwnRow(p) == job[p].row

EndRun(p, status) ==
    /\ runs' = [runs EXCEPT ![OwnRow(p)] = Finished(@, p, status)]
    /\ lock' = None
    /\ pc' = [pc EXCEPT ![p] = "idle"] /\ job' = [job EXCEPT ![p] = NoJob]
    /\ UNCHANGED <<now, environment>>

\* The erasure workflow runs again before the status is decided.
Finish(p) ==
    /\ pc[p] = "finish"
    /\ \E status \in Statuses(job[p].sources) : EndRun(p, status)
    /\ pending' = FALSE
    /\ UNCHANGED events

\* Any exception of the run; an erasure stays pending.
Fail(p) ==
    /\ pc[p] \in {"collect", "finish"}
    /\ Event
    /\ EndRun(p, "Failed")
    /\ UNCHANGED pending

\* The process dies, or cannot write that it has failed: its row stays.
Crash(p) ==
    /\ pc[p] # "idle"
    /\ Event
    /\ lock' = IF lock = p THEN None ELSE lock
    /\ pc' = [pc EXCEPT ![p] = "idle"] /\ job' = [job EXCEPT ![p] = NoJob]
    /\ UNCHANGED <<now, environment, runs, pending>>

\* `backup`, `export`, `migrate`, a dry run or the installer.
Hold(p) ==
    /\ pc[p] = "idle" /\ LockIsFree
    /\ Event
    /\ lock' = p
    /\ pc' = [pc EXCEPT ![p] = "hold"]
    /\ UNCHANGED <<now, environment, runs, pending, job>>

Release(p) ==
    /\ pc[p] = "hold"
    /\ lock' = None
    /\ pc' = [pc EXCEPT ![p] = "idle"]
    /\ UNCHANGED <<now, environment, runs, pending, job, events>>

Tick ==
    /\ now < MaxTime
    /\ now' = now + 1
    /\ UNCHANGED <<environment, runs, pending, lock, pc, job, events>>

\* The configuration is edited, or the feed file delivered or replaced.
Reconfigure ==
    /\ Event
    /\ \/ settings' \in Settings \ {settings} /\ UNCHANGED feed
       \/ feed' \in Feeds \ {feed} /\ UNCHANGED settings
    /\ UNCHANGED <<now, runs, pending, lock, pc, job>>

Proceed(p) == Begin(p) \/ Refused(p) \/ Collect(p) \/ Finish(p) \/ Release(p)

Next ==
    \/ Schedule \/ Tick \/ Reconfigure
    \/ \E p \in Users : Invoke(p) \/ Hold(p)
    \/ \E p \in Procs : Proceed(p) \/ Fail(p) \/ Crash(p)

Spec == Init /\ [][Next]_vars

\* launchd starts the job every half an hour, and processes go on.
FairSpec == Spec /\ WF_vars(Schedule) /\ \A p \in Procs : WF_vars(Proceed(p))

-----------------------------------------------------------------------------
(* health.py, _database_run_health.                                        *)

FinishedDaily == {i \in DOMAIN runs : runs[i].status # "Running" /\ runs[i].mode = "daily"}

StuckRuns == {i \in DOMAIN runs : runs[i].status = "Running" /\ now - runs[i].started > Stuck}

Healthy ==
    /\ ~pending
    /\ StuckRuns = {}
    /\ FinishedDaily # {}
    /\ LET r == runs[Newest(FinishedDaily)] IN
          r.status = "Success" /\ r.completed <= now /\ now - r.completed <= Stale

-----------------------------------------------------------------------------
(* Properties.                                                             *)

\* A row is Running because its process is at work and holds the lock, or for
\* ever, because that process is gone; so two runs are never at work at once,
\* although guards and health checks read the table without the lock.
AtWork(p) == pc[p] \in {"collect", "finish"}

LockInv ==
    \A p \in Procs : pc[p] \in {"collect", "finish", "hold"} => lock = p

RowInv ==
    \A p \in Procs : AtWork(p) => /\ runs # <<>> /\ job[p].row = Len(runs)
                                  /\ runs[Len(runs)].status = "Running"

\* The inductive invariant adds that a command remembers what it works for.
JobInv ==
    \A p \in Procs : pc[p] \in {"begin", "collect", "finish"} =>
        job[p].asOf \in Instants /\ job[p].loaded \in Settings

Ownership == LockInv /\ RowInv /\ JobInv
IInv == TypeOK /\ Ownership

OneRunAtWork == \A p, q \in Procs : AtWork(p) /\ AtWork(q) => p = q

\* A run that has been finished is never written again.
FinishedIsFinal ==
    [][\A i \in DOMAIN runs : runs[i].status # "Running" => runs'[i] = runs[i]]_vars

\* A green health check vouches for a full daily run, completed within
\* STALE_AFTER, that has found all its sources ready with the settings it had
\* loaded and the feed it has read; diagnostic runs never vouch for it.
HealthyMeansCollected ==
    Healthy => \E i \in DOMAIN runs :
                  /\ runs[i].mode = "daily" /\ runs[i].status = "Success"
                  /\ now - runs[i].completed <= Stale
                  /\ Readiness[<<runs[i].fingerprint[1], runs[i].read>>] = "ready"

\* launchd hammers only where the guard cannot help: apart from the daily runs
\* that met a source in lasting trouble, which are repeated every half an hour
\* for as long as the configuration lasts, there is one run a date, and every
\* other one is explained by a command, fault or change.  A command may bring
\* its own run and, if it overtakes the guard or hides the day's outcome,
\* another (docs/operations.md: only when every source is permission-gated is
\* a partial run not retried).
Accountable == {i \in DOMAIN runs : ~Unsettled(runs[i])}
NoHammering ==
    Cardinality(Accountable) <= 1 + LocalDate[now] - LocalDate[0] + 2 * events

\* If faults and changes come to an end, the date gets its outcome, unless a
\* source is in lasting trouble: a daily run, stamped with the present
\* configuration, that succeeded or was not permitted.  The stamp is set when
\* the run ends: a run whose feed file was replaced while it worked is taken
\* for the outcome too, although it has read the file before.
HasOutcome ==
    \E i \in DOMAIN runs :
        /\ runs[i].mode = "daily" /\ LocalDate[runs[i].started] = LocalDate[now]
        /\ runs[i].fingerprint = Fingerprint(settings)
        /\ runs[i].status = "Success" \/ runs[i].sources = "gated"

DayGetsOutcome == <>[](Readiness[<<settings, feed>>] \notin Lasting => HasOutcome)

\* A pending erasure is resumed on the same day, although the day's outcome
\* is already there (docs/operations.md, deletion artifact reset).
ErasureIsResumed == pending ~> ~pending

-----------------------------------------------------------------------------
(* The inductive invariants behind HealthyMeansCollected and NoHammering.   *)

\* A run is successful only if its sources were ready when it collected.
Vouched(loaded, read) == Readiness[<<loaded, read>>] = "ready"

CollectedInv ==
    /\ \A p \in Procs : pc[p] = "finish" /\ job[p].sources = "ready" =>
          Vouched(job[p].loaded, job[p].read)
    /\ \A i \in DOMAIN runs : runs[i].status = "Success" =>
          Vouched(runs[i].fingerprint[1], runs[i].read)

\* Dates do not go back, and commands work for the present or the past.
ClockIsHonest ==
    /\ \A s, t \in Instants : s <= t => LocalDate[s] <= LocalDate[t]
    /\ \A t \in Instants : AsOfs[t] \subseteq 0..t

\* Rows start when their commands say, which is not in the future, and the job
\* of launchd is always a daily run.
StartInv ==
    /\ \A i \in DOMAIN runs : runs[i].started <= now
    /\ \A p \in Procs : pc[p] \in {"begin", "collect", "finish"} => job[p].asOf <= now
    /\ \A p \in Procs : AtWork(p) => runs[job[p].row].started = job[p].asOf
    /\ \A p \in Procs : pc[p] = "finish" => job[p].sources \in Outcomes
    /\ pc[Launchd] # "hold"
    /\ pc[Launchd] # "idle" => job[Launchd].mode = "daily"

\* What is still to come without a further event or date: a command that has
\* not begun brings its own run and, like one at work, another of launchd.
Beginning == {p \in Users : pc[p] = "begin"}
UserAtWork == \E p \in Users : AtWork(p)

\* The run of launchd will not be the outcome of the date.
Lost ==
    \/ job[Launchd].loaded # settings
    \/ LocalDate[job[Launchd].asOf] # LocalDate[now]
    \/ \E i \in DailyRuns : runs[i].started > job[Launchd].asOf
    \/ pc[Launchd] = "finish" /\ job[Launchd].sources = "transient"

\* The user at work, who loaded before launchd did, answers for its run.
Backed == \E p \in Users : AtWork(p) /\ job[p].asOf <= job[Launchd].asOf

OwedByLaunchd ==
    CASE pc[Launchd] = "idle" ->
            IF OutcomeIsThere /\ (pending => UserAtWork) THEN 0 ELSE 1
      [] pc[Launchd] = "begin" ->
            IF Backed THEN (IF Lost \/ ~OutcomeIsThere THEN 1 ELSE 0)
            ELSE (IF Lost THEN 2 ELSE 1)
      [] OTHER -> IF Lost THEN 1 ELSE 0

OwedByUser == IF UserAtWork THEN 1 ELSE 0

Owed == 2 * Cardinality(Beginning) + OwedByUser + OwedByLaunchd

HammerInv ==
    /\ IsFiniteSet(Beginning)
    /\ Cardinality(Accountable) + Owed <= 1 + LocalDate[now] - LocalDate[0] + 2 * events
=============================================================================
