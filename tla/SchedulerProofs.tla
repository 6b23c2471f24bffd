-------------------------- MODULE SchedulerProofs --------------------------
(***************************************************************************)
(* Proofs about Scheduler: one run at a time is at work, its row is the    *)
(* last of the table and still Running, and finished rows never change; a  *)
(* green health check stands for a full collection; and launchd runs no    *)
(* more often than dates, commands, faults and changes account for.        *)
(***************************************************************************)
EXTENDS Scheduler, Extremes, TLAPS

USE ConstantsAssumption DEF ConstantsAssumption

\* What the steps have in common: the process p may change its own step and
\* locals, and a process at work is the holder of the lock.
LEMMA LockStep ==
    ASSUME TypeOK, Ownership, NEW p \in Procs, NEW step,
           pc' = [pc EXCEPT ![p] = step],
           step \in {"collect", "finish", "hold"} => lock' = p,
           \A q \in Procs \ {p} : lock = q => lock' = q
    PROVE  LockInv'
<1> SUFFICES ASSUME NEW q \in Procs, pc'[q] \in {"collect", "finish", "hold"}
             PROVE  lock' = q
    BY DEF LockInv
<1>1. CASE q = p
    BY <1>1 DEF TypeOK
<1>2. CASE q # p
    <2>1. pc[q] \in {"collect", "finish", "hold"}
        BY <1>2 DEF TypeOK
    <2> QED BY <2>1, <1>2 DEF Ownership, LockInv
<1> QED BY <1>1, <1>2

\* A step of p that leaves nobody else at work keeps the rows of the others.
LEMMA NobodyElse ==
    ASSUME TypeOK, Ownership, NEW p \in Procs, lock \in {p, None}, NEW q \in Procs, q # p
    PROVE  ~AtWork(q)
BY DEF TypeOK, Ownership, LockInv, AtWork

\* Updating one local of a command keeps the type and the other locals.
LEMMA RowField ==
    ASSUME NEW j \in Jobs, NEW n \in Nat
    PROVE  [j EXCEPT !.row = n] \in Jobs
BY DEF Jobs

\* What a job has collected is not part of what the invariants relate.
LEMMA SourcesField ==
    ASSUME NEW j \in Jobs, NEW s \in Outcomes
    PROVE  /\ [j EXCEPT !.sources = s] \in Jobs
           /\ [j EXCEPT !.sources = s].row = j.row
           /\ [j EXCEPT !.sources = s].asOf = j.asOf
           /\ [j EXCEPT !.sources = s].loaded = j.loaded
BY DEF Jobs

\* Replacing the last row of the table.
LEMMA ReplaceLast ==
    ASSUME NEW t \in Seq(Rows), t # <<>>, NEW r \in Rows
    PROVE  /\ [t EXCEPT ![Len(t)] = r] \in Seq(Rows)
           /\ Len([t EXCEPT ![Len(t)] = r]) = Len(t)
           /\ [t EXCEPT ![Len(t)] = r][Len(t)] = r
           /\ \A i \in 1..Len(t) : i # Len(t) => [t EXCEPT ![Len(t)] = r][i] = t[i]
OBVIOUS

LEMMA InitSafe == Init => IInv
<1> SUFFICES ASSUME Init PROVE IInv
    OBVIOUS
<1>1. TypeOK
    <2>1. NoJob \in Jobs
        BY DEF NoJob, Jobs
    <2>2. Instants \subseteq Nat /\ 0 \in Instants
        BY DEF Instants
    <2>3. /\ runs \in Seq(Rows)
          /\ \A i \in DOMAIN runs : (runs[i].status = "Running") <=> (runs[i].completed = None)
        BY DEF Init
    <2>4. pc \in [Procs -> {"idle", "begin", "collect", "finish", "hold"}]
        BY DEF Init
    <2>5. job \in [Procs -> Jobs]
        BY <2>1 DEF Init
    <2>6. now \in Instants /\ settings \in Settings /\ feed \in Feeds
        BY <2>2 DEF Init
    <2>7. pending \in BOOLEAN
        BY DEF Init
    <2>8. lock \in Procs \cup {None} /\ events \in 0..MaxEvents
        BY DEF Init
    <2> QED BY <2>3, <2>4, <2>5, <2>6, <2>7, <2>8 DEF TypeOK
<1>2. Ownership
    BY DEF Init, Ownership, LockInv, RowInv, JobInv, AtWork
<1> QED BY <1>1, <1>2 DEF IInv

\* A command is loaded: only the step and the locals of its process change.
LEMMA LoadSafe ==
    ASSUME TypeOK, Ownership, NEW p \in Procs, NEW mode \in Modes, NEW t \in Instants,
           Load(p, mode, t), events' \in 0..MaxEvents
    PROVE  IInv'
<1>1. TypeOK'
    <2>1. [NoJob EXCEPT !.mode = mode, !.asOf = t, !.loaded = settings] \in Jobs
        BY DEF NoJob, Jobs, TypeOK
    <2> QED BY <2>1 DEF Load, TypeOK, environment
<1>2. LockInv'
    BY LockStep DEF Load
<1>3. RowInv'
    <2> SUFFICES ASSUME NEW q \in Procs, AtWork(q)'
                 PROVE  runs # <<>> /\ job'[q].row = Len(runs) /\ runs[Len(runs)].status = "Running"
        BY DEF RowInv, Load
    <2>1. q # p
        BY DEF AtWork, Load, TypeOK
    <2> QED BY <2>1 DEF AtWork, Load, TypeOK, Ownership, RowInv
<1>4. JobInv'
    BY DEF Load, TypeOK, Ownership, JobInv, NoJob
<1> QED BY <1>1, <1>2, <1>3, <1>4 DEF IInv, Ownership

\* A new row is appended; it is Running and not completed.
LEMMA BeginRows ==
    ASSUME TypeOK, Ownership, NEW p \in Procs, Begin(p)
    PROVE  /\ job[p].asOf \in Instants
           /\ runs \in Seq(Rows) /\ Len(runs) \in Nat
           /\ runs' = Append(runs, NewRow(job[p].asOf))
           /\ Len(runs') = Len(runs) + 1
           /\ runs'[Len(runs) + 1] = NewRow(job[p].asOf)
           /\ \A i \in 1..Len(runs) : runs'[i] = runs[i]
           /\ DOMAIN runs' = 1..(Len(runs) + 1) /\ DOMAIN runs = 1..Len(runs)
           /\ runs' \in Seq(Rows)
<1>0. job[p].asOf \in Instants
    BY DEF Begin, Ownership, JobInv
<1>1. NewRow(job[p].asOf) \in Rows
    BY <1>0 DEF NewRow, Rows
<1> QED BY <1>0, <1>1 DEF TypeOK, Begin

LEMMA BeginSafe ==
    ASSUME TypeOK, Ownership, NEW p \in Procs, Begin(p)
    PROVE  IInv'
<1>2. /\ runs \in Seq(Rows) /\ Len(runs) \in Nat
      /\ runs' = Append(runs, NewRow(job[p].asOf))
      /\ Len(runs') = Len(runs) + 1
      /\ runs'[Len(runs) + 1] = NewRow(job[p].asOf)
      /\ \A i \in 1..Len(runs) : runs'[i] = runs[i]
      /\ DOMAIN runs' = 1..(Len(runs) + 1) /\ DOMAIN runs = 1..Len(runs)
      /\ runs' \in Seq(Rows)
    BY BeginRows
<1>3. TypeOK'
    <2>1. \A i \in DOMAIN runs' : (runs'[i].status = "Running") <=> (runs'[i].completed = None)
        <3> SUFFICES ASSUME NEW i \in 1..(Len(runs) + 1)
                     PROVE  (runs'[i].status = "Running") <=> (runs'[i].completed = None)
            BY <1>2
        <3>1. CASE i = Len(runs) + 1
            BY <3>1, <1>2 DEF NewRow
        <3>2. CASE i \in 1..Len(runs)
            BY <3>2, <1>2 DEF TypeOK
        <3> QED BY <3>1, <3>2, <1>2
    <2>2. job' \in [Procs -> Jobs]
        <3>1. job[p] \in Jobs /\ Len(runs) + 1 \in Nat
            BY <1>2 DEF TypeOK
        <3>2. [job[p] EXCEPT !.row = Len(runs) + 1] \in Jobs
            BY <3>1, RowField
        <3> QED BY <3>2 DEF TypeOK, Begin
    <2>3. /\ UNCHANGED <<now, settings, feed, pending, events>>
          /\ lock' \in Procs \cup {None}
          /\ pc' \in [Procs -> {"idle", "begin", "collect", "finish", "hold"}]
        BY DEF TypeOK, Begin, environment
    <2>4. runs' \in Seq(Rows)
        BY <1>2
    <2> HIDE <1>2
    <2> QED BY <2>1, <2>2, <2>3, <2>4 DEF TypeOK
<1>4. LockInv'
    BY LockStep DEF Begin, LockIsFree
<1>5. RowInv'
    <2> SUFFICES ASSUME NEW q \in Procs, AtWork(q)'
                 PROVE  runs' # <<>> /\ job'[q].row = Len(runs') /\ runs'[Len(runs')].status = "Running"
        BY DEF RowInv
    <2>1. q = p
        <3> SUFFICES ASSUME q # p PROVE FALSE
            OBVIOUS
        <3>1. ~AtWork(q)
            BY NobodyElse DEF Begin, LockIsFree
        <3> QED BY <3>1 DEF AtWork, Begin, TypeOK
    <2>2. job'[p].row = Len(runs) + 1
        BY DEF Begin, TypeOK, Jobs
    <2>3. runs' # <<>>
        BY <1>2
    <2>4. runs'[Len(runs')].status = "Running"
        BY <1>2 DEF NewRow
    <2>5. job'[q].row = Len(runs')
        BY <2>1, <2>2, <1>2
    <2> QED BY <2>3, <2>4, <2>5
<1>6. JobInv'
    <2>1. \A q \in Procs : /\ job'[q].asOf = job[q].asOf
                           /\ job'[q].loaded = job[q].loaded
        BY DEF Begin, TypeOK, Jobs
    <2>2. \A q \in Procs : q # p => pc'[q] = pc[q]
        BY DEF Begin, TypeOK
    <2>3. pc[p] = "begin"
        BY DEF Begin
    <2> QED BY <2>1, <2>2, <2>3 DEF Ownership, JobInv
<1> QED BY <1>3, <1>4, <1>5, <1>6 DEF IInv, Ownership

\* A process leaves, whatever becomes of the lock it held: the rows stay.
LEMMA LeaveSafe ==
    ASSUME TypeOK, Ownership, NEW p \in Procs, NEW step \in {"idle", "hold"},
           pc' = [pc EXCEPT ![p] = step], job' \in [Procs -> Jobs],
           \A q \in Procs \ {p} : job'[q] = job[q],
           step = "hold" => lock' = p,
           lock' \in Procs \cup {None},
           \A q \in Procs \ {p} : lock = q => lock' = q,
           runs' = runs, UNCHANGED <<now, environment>>,
           pending' \in BOOLEAN, events' \in 0..MaxEvents
    PROVE  IInv'
<1>1. TypeOK'
    BY DEF TypeOK, environment
<1>2. LockInv'
    BY LockStep
<1>3. RowInv'
    <2> SUFFICES ASSUME NEW q \in Procs, AtWork(q)'
                 PROVE  runs # <<>> /\ job'[q].row = Len(runs) /\ runs[Len(runs)].status = "Running"
        BY DEF RowInv
    <2>1. q # p /\ AtWork(q)
        BY DEF AtWork, TypeOK
    <2> QED BY <2>1 DEF Ownership, RowInv
<1>4. JobInv'
    BY DEF TypeOK, Ownership, JobInv
<1> QED BY <1>1, <1>2, <1>3, <1>4 DEF IInv, Ownership

\* The events only count.
LEMMA EventTyped == ASSUME TypeOK, Event PROVE events' \in 0..MaxEvents
    BY DEF TypeOK, Event

LEMMA NoJobTyped == NoJob \in Jobs
    BY DEF NoJob, Jobs

\* Collection keeps the process at work on its row.
LEMMA CollectSafe ==
    ASSUME TypeOK, Ownership, NEW p \in Procs, Collect(p)
    PROVE  IInv'
<1>1. PICK s \in Outcomes :
          /\ IF s = "transient" THEN Event
             ELSE s = Readiness[<<job[p].loaded, feed>>] /\ UNCHANGED events
          /\ job' = [job EXCEPT ![p].sources = s, ![p].read = feed]
    BY DEF Collect
<1>2. events' \in 0..MaxEvents
    BY <1>1, EventTyped DEF TypeOK
<1>3. /\ job' \in [Procs -> Jobs]
      /\ \A q \in Procs : /\ job'[q].row = job[q].row
                           /\ job'[q].asOf = job[q].asOf
                           /\ job'[q].loaded = job[q].loaded
    <2> DEFINE rated == [job[p] EXCEPT !.sources = s]
               collected == [rated EXCEPT !.read = feed]
    <2>3. /\ rated \in Jobs /\ rated.row = job[p].row
          /\ rated.asOf = job[p].asOf /\ rated.loaded = job[p].loaded
        BY SourcesField DEF TypeOK
    <2> HIDE DEF rated
    <2>1. /\ collected \in Jobs /\ collected.row = job[p].row
          /\ collected.asOf = job[p].asOf /\ collected.loaded = job[p].loaded
        BY <2>3 DEF TypeOK, Jobs
    <2> USE DEF rated
    <2>2. job' = [job EXCEPT ![p] = collected]
        BY <1>1 DEF TypeOK, Jobs
    <2> HIDE DEF collected
    <2> QED BY <2>1, <2>2 DEF TypeOK
<1>4. TypeOK'
    BY <1>2, <1>3 DEF TypeOK, Collect, environment
<1>5. LockInv'
    <2>1. lock = p
        BY DEF Collect, Ownership, LockInv
    <2> QED BY <2>1, LockStep DEF Collect
<1>6. RowInv'
    <2> SUFFICES ASSUME NEW q \in Procs, AtWork(q)'
                 PROVE  runs # <<>> /\ job'[q].row = Len(runs) /\ runs[Len(runs)].status = "Running"
        BY DEF RowInv, Collect
    <2>1. AtWork(q)
        BY DEF AtWork, Collect, TypeOK
    <2> QED BY <2>1, <1>3 DEF Ownership, RowInv
<1>7. JobInv'
    <2>1. \A q \in Procs : pc'[q] \in {"begin", "collect", "finish"}
                              => pc[q] \in {"begin", "collect", "finish"}
        BY DEF Collect, TypeOK
    <2> QED BY <2>1, <1>3 DEF Ownership, JobInv
<1> QED BY <1>4, <1>5, <1>6, <1>7 DEF IInv, Ownership

\* The row a process at work finishes is its own, the last one.
LEMMA EndRunRows ==
    ASSUME TypeOK, Ownership, NEW p \in Procs, AtWork(p), NEW status \in {"Success", "Partial", "Failed"},
           EndRun(p, status)
    PROVE  /\ lock = p
           /\ runs \in Seq(Rows) /\ Len(runs) \in Nat /\ DOMAIN runs = 1..Len(runs)
           /\ runs # <<>> /\ OwnRow(p) = Len(runs) /\ runs[Len(runs)].status = "Running"
           /\ Finished(runs[Len(runs)], p, status) \in Rows
           /\ Finished(runs[Len(runs)], p, status).status # "Running"
           /\ Finished(runs[Len(runs)], p, status).completed # None
           /\ runs' \in Seq(Rows) /\ DOMAIN runs' = 1..Len(runs) /\ Len(runs') = Len(runs)
           /\ runs'[Len(runs)] = Finished(runs[Len(runs)], p, status)
           /\ \A i \in 1..Len(runs) : i # Len(runs) => runs'[i] = runs[i]
<1>1. lock = p
    BY DEF AtWork, Ownership, LockInv
<1> DEFINE n == Len(runs)
<1>2. /\ runs \in Seq(Rows) /\ n \in Nat /\ DOMAIN runs = 1..n
      /\ runs # <<>> /\ OwnRow(p) = n /\ runs[n].status = "Running"
    BY DEF TypeOK, Ownership, RowInv, OwnRow
<1>3. n \in 1..n /\ runs[n] \in Rows
    BY <1>2
<1>4. /\ Finished(runs[n], p, status) \in Rows
      /\ Finished(runs[n], p, status).status # "Running"
      /\ Finished(runs[n], p, status).completed # None
    <2>1. /\ job[p] \in Jobs /\ job[p].loaded \in Settings /\ now \in Instants
          /\ Fingerprint(job[p].loaded) \in Fingerprints
        BY DEF TypeOK, Ownership, JobInv, AtWork, Fingerprint, Fingerprints
    <2> QED BY <2>1, <1>3 DEF Finished, Rows, Jobs
<1>5. /\ runs' \in Seq(Rows) /\ DOMAIN runs' = 1..n /\ Len(runs') = n
      /\ runs'[n] = Finished(runs[n], p, status)
      /\ \A i \in 1..n : i # n => runs'[i] = runs[i]
    <2> DEFINE row == Finished(runs[n], p, status)
    <2>1. row \in Rows /\ runs' = [runs EXCEPT ![Len(runs)] = row]
        BY <1>2, <1>4 DEF EndRun
    <2> HIDE DEF row
    <2> DEFINE lastReplaced == [runs EXCEPT ![Len(runs)] = row]
    <2>4. /\ lastReplaced \in Seq(Rows) /\ Len(lastReplaced) = Len(runs)
          /\ lastReplaced[Len(runs)] = row
          /\ \A i \in 1..Len(runs) : i # Len(runs) => lastReplaced[i] = runs[i]
        BY ONLY <2>1, <1>2, ReplaceLast
    <2> HIDE DEF lastReplaced
    <2>2. /\ runs' \in Seq(Rows) /\ Len(runs') = n /\ runs'[n] = row
          /\ \A i \in 1..n : i # n => runs'[i] = runs[i]
        BY <2>1, <2>4 DEF lastReplaced
    <2>3. DOMAIN runs' = 1..n
        BY <2>2
    <2> QED BY <2>2, <2>3 DEF row
<1> QED BY <1>1, <1>2, <1>4, <1>5

LEMMA EndRunSafe ==
    ASSUME TypeOK, Ownership, NEW p \in Procs, AtWork(p), NEW status \in {"Success", "Partial", "Failed"},
           EndRun(p, status), pending' \in BOOLEAN, events' \in 0..MaxEvents
    PROVE  IInv'
<1> DEFINE n == Len(runs)
<1>1. lock = p
    BY EndRunRows
<1>2. /\ runs \in Seq(Rows) /\ n \in Nat /\ DOMAIN runs = 1..n
      /\ runs # <<>> /\ OwnRow(p) = n /\ runs[n].status = "Running"
    BY EndRunRows
<1>4. /\ Finished(runs[n], p, status) \in Rows
      /\ Finished(runs[n], p, status).status # "Running"
      /\ Finished(runs[n], p, status).completed # None
    BY EndRunRows
<1>5. /\ runs' \in Seq(Rows) /\ DOMAIN runs' = 1..n /\ Len(runs') = n
      /\ runs'[n] = Finished(runs[n], p, status)
      /\ \A i \in 1..n : i # n => runs'[i] = runs[i]
    BY EndRunRows
<1>6. \A i \in DOMAIN runs' : (runs'[i].status = "Running") <=> (runs'[i].completed = None)
    <2> SUFFICES ASSUME NEW i \in 1..n
                 PROVE  (runs'[i].status = "Running") <=> (runs'[i].completed = None)
        BY <1>5
    <2>1. CASE i = n
        BY <2>1, <1>4, <1>5
    <2>2. CASE i # n
        BY <2>2, <1>2, <1>5 DEF TypeOK
    <2> QED BY <2>1, <2>2
<1>7. TypeOK'
    <2>1. runs' \in Seq(Rows)
        BY <1>5
    <2>2. job' \in [Procs -> Jobs]
        BY NoJobTyped DEF TypeOK, EndRun
    <2>3. /\ UNCHANGED <<now, settings, feed>> /\ lock' = None
          /\ pc' \in [Procs -> {"idle", "begin", "collect", "finish", "hold"}]
        BY DEF TypeOK, EndRun, environment
    <2> QED BY <1>6, <2>1, <2>2, <2>3 DEF TypeOK
<1>8. LockInv'
    BY <1>1, LockStep DEF EndRun, TypeOK
<1>9. RowInv'
    <2>1. \A q \in Procs : ~AtWork(q)'
        BY <1>1, NobodyElse DEF AtWork, EndRun, TypeOK
    <2> QED BY <2>1 DEF RowInv
<1>10. JobInv'
    BY DEF EndRun, TypeOK, Ownership, JobInv
<1> QED BY <1>7, <1>8, <1>9, <1>10 DEF IInv, Ownership

LEMMA FinishSafe == ASSUME TypeOK, Ownership, NEW p \in Procs, Finish(p) PROVE IInv'
<1>1. PICK status \in Statuses(job[p].sources) : EndRun(p, status)
    BY DEF Finish
<1>2. status \in {"Success", "Partial", "Failed"}
    BY DEF Statuses
<1> QED BY <1>1, <1>2, EndRunSafe DEF Finish, AtWork, TypeOK

LEMMA FailSafe == ASSUME TypeOK, Ownership, NEW p \in Procs, Fail(p) PROVE IInv'
BY EndRunSafe, EventTyped DEF Fail, AtWork, TypeOK

LEMMA RefusedSafe == ASSUME TypeOK, Ownership, NEW p \in Procs, Refused(p) PROVE IInv'
BY LeaveSafe, NoJobTyped DEF Refused, TypeOK

LEMMA CrashSafe == ASSUME TypeOK, Ownership, NEW p \in Procs, Crash(p) PROVE IInv'
BY LeaveSafe, EventTyped, NoJobTyped DEF Crash, TypeOK

LEMMA HoldSafe == ASSUME TypeOK, Ownership, NEW p \in Procs, Hold(p) PROVE IInv'
BY LeaveSafe, EventTyped DEF Hold, LockIsFree, TypeOK

LEMMA ReleaseSafe == ASSUME TypeOK, Ownership, NEW p \in Procs, Release(p) PROVE IInv'
<1>1. lock = p
    BY DEF Release, Ownership, LockInv
<1> QED BY <1>1, LeaveSafe DEF Release, TypeOK

\* Neither the clock nor the configuration touches runs and processes.
LEMMA OutsideSafe ==
    ASSUME TypeOK, Ownership, now' \in Instants, settings' \in Settings, feed' \in Feeds,
           events' \in 0..MaxEvents, UNCHANGED <<runs, pending, lock, pc, job>>
    PROVE  IInv'
BY DEF TypeOK, Ownership, LockInv, RowInv, JobInv, AtWork, IInv

LEMMA NextSafe == IInv /\ [Next]_vars => IInv'
<1> SUFFICES ASSUME TypeOK, Ownership, [Next]_vars PROVE IInv'
    BY DEF IInv
<1>1. CASE Schedule
    BY <1>1, LoadSafe DEF Schedule, TypeOK, Modes, Procs
<1>2. CASE Tick
    BY <1>2, OutsideSafe DEF Tick, TypeOK, Instants, environment
<1>3. CASE Reconfigure
    BY <1>3, OutsideSafe, EventTyped DEF Reconfigure, TypeOK
<1>4. ASSUME NEW p \in Users, Invoke(p) PROVE IInv'
    <2>1. PICK mode \in Modes, t \in AsOfs[now] : Load(p, mode, t)
        BY <1>4 DEF Invoke
    <2>2. t \in Instants /\ p \in Procs
        BY DEF TypeOK, Procs
    <2> QED BY <1>4, <2>1, <2>2, LoadSafe, EventTyped DEF Invoke
<1>5. ASSUME NEW p \in Users, Hold(p) PROVE IInv'
    BY <1>5, HoldSafe DEF Procs
<1>6. ASSUME NEW p \in Procs, Proceed(p) PROVE IInv'
    BY <1>6, BeginSafe, RefusedSafe, CollectSafe, FinishSafe, ReleaseSafe DEF Proceed
<1>7. ASSUME NEW p \in Procs, Fail(p) \/ Crash(p) PROVE IInv'
    BY <1>7, FailSafe, CrashSafe
<1>8. CASE UNCHANGED vars
    BY <1>8, OutsideSafe DEF vars, environment, TypeOK
<1> QED BY <1>1, <1>2, <1>3, <1>4, <1>5, <1>6, <1>7, <1>8 DEF Next

-----------------------------------------------------------------------------
(* Theorems.                                                               *)

\* The types hold, whoever is at work holds the lock, and its row is the
\* last one and Running.
THEOREM RunsAreOwned == Spec => []IInv
<1>1. Init => IInv
    BY InitSafe
<1>2. IInv /\ [Next]_vars => IInv'
    BY NextSafe
<1> QED BY <1>1, <1>2, PTL DEF Spec

\* Two processes are never at work on runs at once, for any number of users
\* and whatever crashes: the guard of scheduled-run may be stale, the lock of
\* DailyPipeline.run is not.
THEOREM OneRunAtWorkAlways == Spec => []OneRunAtWork
<1>1. TypeOK /\ Ownership => OneRunAtWork
    BY DEF Ownership, LockInv, AtWork, OneRunAtWork
<1> QED BY <1>1, RunsAreOwned, PTL DEF IInv

\* A step finishes at most the last row, while that is Running.
LEMMA FinishedStays ==
    ASSUME TypeOK, Ownership, [Next]_vars,
           NEW i \in DOMAIN runs, runs[i].status # "Running"
    PROVE  runs'[i] = runs[i]
<1>1. runs \in Seq(Rows) /\ i \in 1..Len(runs) /\ Len(runs) \in Nat
    BY DEF TypeOK
<1>2. ASSUME NEW p \in Procs, Begin(p) PROVE runs'[i] = runs[i]
    <2>1. NewRow(job[p].asOf) \in Rows
        BY <1>2 DEF Begin, Ownership, JobInv, NewRow, Rows
    <2> QED BY <1>1, <1>2, <2>1 DEF Begin
<1>3. ASSUME NEW p \in Procs, NEW status, AtWork(p), EndRun(p, status)
      PROVE  runs'[i] = runs[i]
    <2>1. i # OwnRow(p)
        BY <1>3 DEF OwnRow, Ownership, RowInv
    <2> QED BY <1>1, <1>3, <2>1 DEF EndRun
<1>4. ASSUME UNCHANGED runs PROVE runs'[i] = runs[i]
    BY <1>4
<1>5. ASSUME NEW p \in Procs, Proceed(p) \/ Fail(p) \/ Crash(p) PROVE runs'[i] = runs[i]
    BY <1>2, <1>3, <1>4, <1>5
       DEF Proceed, Refused, Collect, Finish, Release, Fail, Crash, AtWork
<1>6. CASE Schedule \/ Tick \/ Reconfigure \/ \E p \in Users : Invoke(p) \/ Hold(p)
    BY <1>4, <1>6 DEF Schedule, Tick, Reconfigure, Invoke, Hold, Load
<1>7. CASE UNCHANGED vars
    BY <1>7 DEF vars
<1> QED BY <1>5, <1>6, <1>7 DEF Next

\* finish_run writes the row of its own run only, and once: what a guard or a
\* health check has read of a finished run stays true.
THEOREM FinishedIsFinalAlways == Spec => FinishedIsFinal
<1>1. TypeOK /\ Ownership /\ [Next]_vars
        => [\A i \in DOMAIN runs : runs[i].status # "Running" => runs'[i] = runs[i]]_vars
    BY FinishedStays
<1> QED BY <1>1, RunsAreOwned, PTL DEF Spec, FinishedIsFinal, IInv

-----------------------------------------------------------------------------
(* The newest run.                                                         *)

NewestOf(t, S) ==
    CHOOSE i \in S : \A j \in S :
        \/ t[j].started < t[i].started
        \/ t[j].started = t[i].started /\ j <= i

\* A run starts at an instant.
LEMMA StartTyped ==
    ASSUME NEW t \in Seq(Rows), NEW i \in DOMAIN t
    PROVE  t[i] \in Rows /\ t[i].started \in 0..MaxTime /\ t[i].started \in Nat /\ i \in Nat
<1>1. t[i] \in Rows /\ i \in Nat
    OBVIOUS
<1>2. t[i].started \in 0..MaxTime
    BY <1>1 DEF Rows, Instants
<1>3. \A x \in 0..MaxTime : x \in Nat
    OBVIOUS
<1> QED BY <1>1, <1>2, <1>3

\* A run that precedes no other one is the newest, there are not two.
LEMMA NewestIs ==
    ASSUME NEW t \in Seq(Rows), NEW S \in SUBSET DOMAIN t, NEW i \in S,
           \A j \in S : \/ t[j].started < t[i].started
                        \/ t[j].started = t[i].started /\ j <= i
    PROVE  NewestOf(t, S) = i
<1> DEFINE P(n) == \A j \in S : \/ t[j].started < t[n].started
                                \/ t[j].started = t[n].started /\ j <= n
           k == CHOOSE n \in S : P(n)
<1>1. k \in S /\ P(k)
    <2>1. \E n \in S : P(n)
        OBVIOUS
    <2> HIDE DEF P
    <2> QED BY <2>1
<1>2. NewestOf(t, S) = k
    BY DEF NewestOf
<1>3. /\ t[i].started \in Nat /\ t[k].started \in Nat
      /\ i \in Nat /\ k \in Nat
    <2> HIDE DEF k, P
    <2> QED BY <1>1, StartTyped
<1>4. k = i
    <2>1. \/ t[k].started < t[i].started
          \/ t[k].started = t[i].started /\ k <= i
        BY <1>1
    <2>2. \/ t[i].started < t[k].started
          \/ t[i].started = t[k].started /\ i <= k
        BY <1>1
    <2> HIDE DEF k
    <2> QED BY <1>3, <2>1, <2>2
<1> QED BY <1>2, <1>4

\* Any runs have a newest one.
LEMMA NewestExists ==
    ASSUME NEW t \in Seq(Rows), NEW S \in SUBSET DOMAIN t, S # {}
    PROVE  /\ NewestOf(t, S) \in S
           /\ \A j \in S : \/ t[j].started < t[NewestOf(t, S)].started
                           \/ /\ t[j].started = t[NewestOf(t, S)].started
                              /\ j <= NewestOf(t, S)
<1> DEFINE Starts == {t[i].started + 1 : i \in S}
<1>1. \A i \in S : t[i].started \in 0..MaxTime
    BY StartTyped
<1>2. Starts \in SUBSET (1..(MaxTime + 1)) /\ Starts # {} /\ MaxTime + 1 \in Nat
    BY <1>1
<1>3. PICK m \in Starts : \A x \in Starts : x <= m
    <2> HIDE DEF Starts
    <2> QED BY <1>2, LargestExists
<1> DEFINE T == {i \in S : t[i].started + 1 = m}
<1>4. T \in SUBSET (1..Len(t)) /\ T # {} /\ Len(t) \in Nat
    OBVIOUS
<1>5. PICK n \in T : \A x \in T : x <= n
    <2> HIDE DEF T
    <2> QED BY <1>4, LargestExists
<1>6. n \in S /\ t[n].started + 1 = m
    OBVIOUS
<1>7. ASSUME NEW j \in S
      PROVE  \/ t[j].started < t[n].started
             \/ t[j].started = t[n].started /\ j <= n
    <2>1. t[j].started + 1 <= m
        BY <1>3
    <2>2. t[j].started \in Nat /\ t[n].started \in Nat
        BY <1>1, <1>6
    <2>3. t[j].started + 1 = m => j <= n
        BY <1>5
    <2>4. t[n].started + 1 = m /\ n \in Int /\ j \in Int
        BY <1>4, <1>6
    <2> HIDE DEF Starts, T
    <2> DEFINE a == t[j].started  b == t[n].started
    <2>5. a \in Nat /\ b \in Nat /\ a + 1 <= m /\ b + 1 = m /\ (a + 1 = m => j <= n)
        BY <2>1, <2>2, <2>3, <2>4
    <2> HIDE DEF a, b
    <2>6. a < b \/ (a = b /\ j <= n)
        BY ONLY <2>5
    <2> QED BY <2>6 DEF a, b
<1>8. NewestOf(t, S) = n
    <2> HIDE DEF Starts, T
    <2> QED BY <1>6, <1>7, NewestIs
<1> HIDE DEF Starts, T
<1> QED BY <1>6, <1>7, <1>8

-----------------------------------------------------------------------------
(* A green health check.                                                   *)

LEMMA CollectedInit == Init => CollectedInv
BY DEF Init, CollectedInv

LEMMA CollectedNext == TypeOK /\ Ownership /\ CollectedInv /\ [Next]_vars => CollectedInv'
<1> SUFFICES ASSUME TypeOK, Ownership, CollectedInv, [Next]_vars PROVE CollectedInv'
    OBVIOUS
<1>1. ASSUME NEW p \in Procs, runs' = runs, pc'[p] # "finish",
             \A q \in Procs \ {p} : pc'[q] = pc[q] /\ job'[q] = job[q]
      PROVE  CollectedInv'
    BY <1>1 DEF CollectedInv
<1>2. ASSUME NEW p \in Procs, Begin(p) PROVE CollectedInv'
    <2>1. ASSUME NEW i \in DOMAIN runs', runs'[i].status = "Success"
          PROVE  i \in DOMAIN runs /\ runs'[i] = runs[i]
        <3>1. /\ DOMAIN runs' = 1..(Len(runs) + 1) /\ Len(runs) \in Nat
              /\ runs'[Len(runs) + 1] = NewRow(job[p].asOf)
              /\ DOMAIN runs = 1..Len(runs)
              /\ \A k \in 1..Len(runs) : runs'[k] = runs[k]
            BY <1>2, BeginRows
        <3>2. i # Len(runs) + 1
            BY <2>1, <3>1 DEF NewRow
        <3> QED BY <2>1, <3>1, <3>2
    <2>2. \A q \in Procs : pc'[q] = "finish" => pc[q] = "finish" /\ job'[q] = job[q]
        BY <1>2 DEF Begin, TypeOK
    <2> QED BY <2>1, <2>2 DEF CollectedInv
<1>3. ASSUME NEW p \in Procs, Collect(p) PROVE CollectedInv'
    <2>1. PICK s \in Outcomes :
              /\ s # "transient" => s = Readiness[<<job[p].loaded, feed>>]
              /\ job' = [job EXCEPT ![p].sources = s, ![p].read = feed]
        BY <1>3 DEF Collect
    <2>2. /\ job'[p].sources = s /\ job'[p].read = feed /\ job'[p].loaded = job[p].loaded
          /\ \A q \in Procs \ {p} : job'[q] = job[q]
        BY <2>1 DEF TypeOK, Jobs
    <2>3. \A q \in Procs \ {p} : pc'[q] = pc[q]
        BY <1>3 DEF Collect, TypeOK
    <2>4. runs' = runs
        BY <1>3 DEF Collect
    <2>5. ASSUME NEW q \in Procs, pc'[q] = "finish", job'[q].sources = "ready"
          PROVE  Vouched(job'[q].loaded, job'[q].read)
        <3>1. CASE q = p
            BY <3>1, <2>1, <2>2, <2>5 DEF Vouched
        <3>2. CASE q # p
            BY <3>2, <2>2, <2>3, <2>5 DEF CollectedInv
        <3> QED BY <3>1, <3>2
    <2> QED BY <2>4, <2>5 DEF CollectedInv
<1>4. ASSUME NEW p \in Procs, AtWork(p), NEW status \in {"Success", "Partial", "Failed"},
             EndRun(p, status),
             status = "Success" => pc[p] = "finish" /\ job[p].sources = "ready"
      PROVE  CollectedInv'
    <2>1. \A q \in Procs : pc'[q] = "finish" => pc[q] = "finish" /\ job'[q] = job[q]
        BY <1>4 DEF EndRun, TypeOK
    <2>2. /\ DOMAIN runs' = DOMAIN runs
          /\ runs'[Len(runs)] = Finished(runs[Len(runs)], p, status)
          /\ \A i \in DOMAIN runs : i # Len(runs) => runs'[i] = runs[i]
          /\ runs[Len(runs)] \in Rows
        <3>1. runs \in Seq(Rows) /\ runs # <<>>
            BY <1>4, EndRunRows
        <3>2. runs[Len(runs)] \in Rows
            BY ONLY <3>1
        <3> QED BY <1>4, <3>2, EndRunRows
    <2>3. /\ runs'[Len(runs)].status = status
          /\ runs'[Len(runs)].fingerprint[1] = job[p].loaded
          /\ runs'[Len(runs)].read = job[p].read
        BY <2>2 DEF Finished, Rows, Fingerprint
    <2> QED BY <1>4, <2>1, <2>2, <2>3 DEF CollectedInv
<1>5. ASSUME NEW p \in Procs, Finish(p) PROVE CollectedInv'
    <2>1. PICK status \in Statuses(job[p].sources) : EndRun(p, status)
        BY <1>5 DEF Finish
    <2>2. status \in {"Success", "Partial", "Failed"} /\ (status = "Success" => job[p].sources = "ready")
        BY DEF Statuses
    <2> QED BY <1>4, <1>5, <2>1, <2>2 DEF Finish, AtWork
<1>6. ASSUME NEW p \in Procs, Fail(p) PROVE CollectedInv'
    BY <1>4, <1>6 DEF Fail, AtWork
<1>7. ASSUME NEW p \in Procs, Refused(p) \/ Release(p) \/ Crash(p) PROVE CollectedInv'
    BY <1>1, <1>7 DEF Refused, Release, Crash, TypeOK
<1>8. CASE Schedule
    BY <1>1, <1>8 DEF Schedule, Load, TypeOK, Procs
<1>9. ASSUME NEW p \in Users, Invoke(p) \/ Hold(p) PROVE CollectedInv'
    BY <1>1, <1>9 DEF Invoke, Hold, Load, TypeOK, Procs
<1>10. CASE Tick \/ Reconfigure \/ UNCHANGED vars
    BY <1>10 DEF Tick, Reconfigure, vars, CollectedInv
<1> QED BY <1>2, <1>3, <1>5, <1>6, <1>7, <1>8, <1>9, <1>10 DEF Next, Proceed

\* healthcheck turns green only on a finished, recent daily run of all sources:
\* whichever process wrote it, and whatever was changed or crashed since.
THEOREM HealthyMeansCollectedAlways == Spec => []HealthyMeansCollected
<1>1. TypeOK /\ CollectedInv => HealthyMeansCollected
    <2> SUFFICES ASSUME TypeOK, CollectedInv, Healthy
                 PROVE  \E i \in DOMAIN runs :
                            /\ runs[i].mode = "daily" /\ runs[i].status = "Success"
                            /\ now - runs[i].completed <= Stale
                            /\ Readiness[<<runs[i].fingerprint[1], runs[i].read>>] = "ready"
        BY DEF HealthyMeansCollected
    <2> DEFINE i == Newest(FinishedDaily)
    <2>1. FinishedDaily \in SUBSET DOMAIN runs /\ FinishedDaily # {}
        BY DEF FinishedDaily, Healthy
    <2>2. i \in FinishedDaily
        BY <2>1, NewestExists DEF TypeOK, Newest, NewestOf
    <2>3. runs[i].status = "Success" /\ now - runs[i].completed <= Stale
        BY DEF Healthy
    <2>4. runs[i].mode = "daily" /\ i \in DOMAIN runs
        BY <2>2 DEF FinishedDaily
    <2> HIDE DEF i
    <2> QED BY <2>3, <2>4 DEF CollectedInv, Vouched
<1>2. Spec => []CollectedInv
    BY CollectedInit, CollectedNext, RunsAreOwned, PTL DEF Spec, IInv
<1> QED BY <1>1, <1>2, RunsAreOwned, PTL DEF IInv

-----------------------------------------------------------------------------
(* The start of the rows.                                                  *)

\* A process has left or only holds the lock: the rows stay, and so do the
\* steps and locals of the others.
LEMMA LeaveStart ==
    ASSUME TypeOK, Ownership, StartInv, NEW p \in Procs, NEW step \in {"idle", "hold"},
           pc' = [pc EXCEPT ![p] = step], p = Launchd => step = "idle",
           \A q \in Procs \ {p} : job'[q] = job[q],
           UNCHANGED <<now, runs>>
    PROVE  StartInv'
<1>1. /\ pc'[p] = step
      /\ \A q \in Procs \ {p} : pc'[q] = pc[q] /\ job'[q] = job[q]
    BY DEF TypeOK
<1>2. /\ \A i \in DOMAIN runs' : runs'[i].started <= now'
      /\ \A q \in Procs : pc'[q] \in {"begin", "collect", "finish"} => job'[q].asOf <= now'
      /\ \A q \in Procs : AtWork(q)' => runs'[job'[q].row].started = job'[q].asOf
      /\ \A q \in Procs : pc'[q] = "finish" => job'[q].sources \in Outcomes
    BY <1>1 DEF StartInv, AtWork
<1>3. /\ pc'[Launchd] # "hold"
      /\ pc'[Launchd] # "idle" => job'[Launchd].mode = "daily"
    BY <1>1 DEF StartInv, Procs
<1> QED BY <1>2, <1>3 DEF StartInv

\* A command works for an instant that is not later than the present one.
LEMMA LoadStart ==
    ASSUME TypeOK, Ownership, StartInv, NEW p \in Procs, NEW mode \in Modes, NEW t \in Instants,
           Load(p, mode, t), t <= now, p = Launchd => mode = "daily"
    PROVE  StartInv'
<1>1. /\ pc'[p] = "begin" /\ job'[p].asOf = t /\ job'[p].mode = mode
      /\ \A q \in Procs \ {p} : pc'[q] = pc[q] /\ job'[q] = job[q]
      /\ UNCHANGED <<now, runs>>
    BY DEF Load, TypeOK, NoJob
<1>2. /\ \A i \in DOMAIN runs' : runs'[i].started <= now'
      /\ \A q \in Procs : pc'[q] \in {"begin", "collect", "finish"} => job'[q].asOf <= now'
      /\ \A q \in Procs : AtWork(q)' => runs'[job'[q].row].started = job'[q].asOf
      /\ \A q \in Procs : pc'[q] = "finish" => job'[q].sources \in Outcomes
    BY <1>1 DEF StartInv, AtWork
<1>3. /\ pc'[Launchd] # "hold"
      /\ pc'[Launchd] # "idle" => job'[Launchd].mode = "daily"
    BY <1>1 DEF StartInv, Procs
<1> QED BY <1>2, <1>3 DEF StartInv

\* The row of a run starts when its command says.
LEMMA BeginStart ==
    ASSUME TypeOK, Ownership, StartInv, NEW p \in Procs, Begin(p)
    PROVE  StartInv'
<1>1. /\ runs \in Seq(Rows) /\ Len(runs) \in Nat
      /\ runs'[Len(runs) + 1] = NewRow(job[p].asOf)
      /\ \A i \in 1..Len(runs) : runs'[i] = runs[i]
      /\ DOMAIN runs' = 1..(Len(runs) + 1) /\ DOMAIN runs = 1..Len(runs)
    BY BeginRows
<1>2. /\ pc[p] = "begin" /\ pc'[p] = "collect" /\ now' = now
      /\ job'[p].row = Len(runs) + 1 /\ job'[p].asOf = job[p].asOf
      /\ job'[p].mode = job[p].mode
      /\ \A q \in Procs \ {p} : pc'[q] = pc[q] /\ job'[q] = job[q]
    BY DEF Begin, TypeOK, Jobs, environment
<1>3. runs'[Len(runs) + 1].started = job[p].asOf
    BY <1>1 DEF NewRow
<1>4. job[p].asOf <= now
    BY <1>2 DEF StartInv
<1>5. ASSUME NEW i \in DOMAIN runs' PROVE runs'[i].started <= now'
    <2>1. CASE i = Len(runs) + 1
        BY <2>1, <1>2, <1>3, <1>4
    <2>2. CASE i \in 1..Len(runs)
        BY <2>2, <1>1, <1>2 DEF StartInv
    <2> QED BY <2>1, <2>2, <1>1
<1>6. \A q \in Procs : q # p => ~AtWork(q)
    BY NobodyElse DEF Begin, LockIsFree
<1>7. \A q \in Procs : AtWork(q)' => runs'[job'[q].row].started = job'[q].asOf
    BY <1>2, <1>3, <1>6 DEF AtWork
<1>8. /\ \A q \in Procs : pc'[q] \in {"begin", "collect", "finish"} => job'[q].asOf <= now'
      /\ \A q \in Procs : pc'[q] = "finish" => job'[q].sources \in Outcomes
    BY <1>2, <1>4 DEF StartInv
<1>9. /\ pc'[Launchd] # "hold"
      /\ pc'[Launchd] # "idle" => job'[Launchd].mode = "daily"
    BY <1>2 DEF StartInv, Procs
<1> QED BY <1>5, <1>7, <1>8, <1>9 DEF StartInv

\* What collection changes in the locals of its process.
LEMMA CollectLocals ==
    ASSUME TypeOK, Ownership, NEW p \in Procs, Collect(p)
    PROVE  /\ pc[p] = "collect" /\ pc'[p] = "finish"
           /\ job'[p].sources \in Outcomes
           /\ IF job'[p].sources = "transient" THEN Event ELSE UNCHANGED events
           /\ job'[p].asOf = job[p].asOf /\ job'[p].loaded = job[p].loaded
           /\ job'[p].row = job[p].row /\ job'[p].mode = job[p].mode
           /\ \A q \in Procs \ {p} : pc'[q] = pc[q] /\ job'[q] = job[q]
<1>1. PICK s \in Outcomes :
          /\ IF s = "transient" THEN Event ELSE UNCHANGED events
          /\ job' = [job EXCEPT ![p].sources = s, ![p].read = feed]
    BY DEF Collect
<1>2. job[p] \in Jobs
    BY DEF TypeOK
<1>3. /\ job'[p].sources = s /\ job'[p].asOf = job[p].asOf /\ job'[p].loaded = job[p].loaded
      /\ job'[p].row = job[p].row /\ job'[p].mode = job[p].mode
    BY <1>1, <1>2 DEF TypeOK, Jobs
<1>4. \A q \in Procs \ {p} : pc'[q] = pc[q] /\ job'[q] = job[q]
    BY <1>1 DEF TypeOK, Collect
<1> QED BY <1>1, <1>3, <1>4 DEF Collect, TypeOK

\* Collecting leaves the start of the run alone.
LEMMA CollectStart ==
    ASSUME TypeOK, Ownership, StartInv, NEW p \in Procs, Collect(p)
    PROVE  StartInv'
<1>1. /\ pc[p] = "collect" /\ pc'[p] = "finish"
      /\ job'[p].sources \in Outcomes
      /\ job'[p].asOf = job[p].asOf
      /\ job'[p].row = job[p].row /\ job'[p].mode = job[p].mode
      /\ \A q \in Procs \ {p} : pc'[q] = pc[q] /\ job'[q] = job[q]
      /\ UNCHANGED <<now, runs>>
    BY CollectLocals DEF Collect
<1>2. /\ \A i \in DOMAIN runs' : runs'[i].started <= now'
      /\ \A q \in Procs : pc'[q] \in {"begin", "collect", "finish"} => job'[q].asOf <= now'
      /\ \A q \in Procs : AtWork(q)' => runs'[job'[q].row].started = job'[q].asOf
      /\ \A q \in Procs : pc'[q] = "finish" => job'[q].sources \in Outcomes
    BY <1>1 DEF StartInv, AtWork
<1>3. /\ pc'[Launchd] # "hold"
      /\ pc'[Launchd] # "idle" => job'[Launchd].mode = "daily"
    BY <1>1 DEF StartInv, Procs
<1> QED BY <1>2, <1>3 DEF StartInv

\* What finishing a run changes: the last row and the process.
LEMMA EndRunEffect ==
    ASSUME TypeOK, Ownership, NEW p \in Procs, AtWork(p), NEW status \in {"Success", "Partial", "Failed"},
           EndRun(p, status)
    PROVE  /\ pc'[p] = "idle"
           /\ \A q \in Procs \ {p} : pc'[q] = pc[q] /\ job'[q] = job[q] /\ ~AtWork(q)
           /\ UNCHANGED <<now, settings, feed>>
           /\ Len(runs) \in DOMAIN runs /\ job[p].row = Len(runs)
           /\ DOMAIN runs' = DOMAIN runs /\ Len(runs') = Len(runs)
           /\ \A i \in DOMAIN runs : i # Len(runs) => runs'[i] = runs[i]
           /\ runs'[Len(runs)].started = runs[Len(runs)].started
           /\ runs'[Len(runs)].status = status
           /\ runs'[Len(runs)].mode = job[p].mode
           /\ runs'[Len(runs)].sources = job[p].sources
           /\ runs'[Len(runs)].fingerprint = Fingerprint(job[p].loaded)
           /\ runs[Len(runs)].status = "Running"
<1>1. /\ lock = p
      /\ runs \in Seq(Rows) /\ Len(runs) \in Nat /\ DOMAIN runs = 1..Len(runs)
      /\ runs # <<>> /\ OwnRow(p) = Len(runs) /\ runs[Len(runs)].status = "Running"
      /\ DOMAIN runs' = 1..Len(runs) /\ Len(runs') = Len(runs)
      /\ runs'[Len(runs)] = Finished(runs[Len(runs)], p, status)
      /\ \A i \in 1..Len(runs) : i # Len(runs) => runs'[i] = runs[i]
    BY EndRunRows
<1>2. Len(runs) \in DOMAIN runs /\ runs[Len(runs)] \in Rows
    <2>1. runs \in Seq(Rows) /\ runs # <<>>
        BY <1>1
    <2> QED BY <2>1
<1>3. /\ pc'[p] = "idle"
      /\ \A q \in Procs \ {p} : pc'[q] = pc[q] /\ job'[q] = job[q]
      /\ UNCHANGED <<now, settings, feed>>
    BY DEF EndRun, TypeOK, environment
<1>4. \A q \in Procs \ {p} : ~AtWork(q)
    BY <1>1, NobodyElse
<1>5. /\ runs'[Len(runs)].started = runs[Len(runs)].started
      /\ runs'[Len(runs)].status = status
      /\ runs'[Len(runs)].mode = job[p].mode
      /\ runs'[Len(runs)].sources = job[p].sources
      /\ runs'[Len(runs)].fingerprint = Fingerprint(job[p].loaded)
    BY <1>1, <1>2 DEF Finished, Rows
<1> QED BY <1>1, <1>2, <1>3, <1>4, <1>5 DEF OwnRow

\* The end of a run keeps when its row started.
LEMMA EndRunStart ==
    ASSUME TypeOK, Ownership, StartInv, NEW p \in Procs, AtWork(p),
           NEW status \in {"Success", "Partial", "Failed"}, EndRun(p, status)
    PROVE  StartInv'
<1>1. /\ pc'[p] = "idle"
      /\ \A q \in Procs \ {p} : pc'[q] = pc[q] /\ job'[q] = job[q] /\ ~AtWork(q)
      /\ now' = now
      /\ DOMAIN runs' = DOMAIN runs
      /\ \A i \in DOMAIN runs : i # Len(runs) => runs'[i] = runs[i]
      /\ runs'[Len(runs)].started = runs[Len(runs)].started
    BY EndRunEffect
<1>2. \A i \in DOMAIN runs' : runs'[i].started <= now'
    BY <1>1 DEF StartInv
<1>3. /\ \A q \in Procs : pc'[q] \in {"begin", "collect", "finish"} => job'[q].asOf <= now'
      /\ \A q \in Procs : AtWork(q)' => runs'[job'[q].row].started = job'[q].asOf
      /\ \A q \in Procs : pc'[q] = "finish" => job'[q].sources \in Outcomes
    BY <1>1 DEF StartInv, AtWork
<1>4. /\ pc'[Launchd] # "hold"
      /\ pc'[Launchd] # "idle" => job'[Launchd].mode = "daily"
    BY <1>1 DEF StartInv, Procs
<1> QED BY <1>2, <1>3, <1>4 DEF StartInv

LEMMA StartInit == Init => StartInv
BY DEF Init, StartInv, AtWork, Procs

\* Rows keep their start, and a command starts when it is given.
LEMMA StartNext ==
    ASSUME ClockIsHonest, TypeOK, Ownership, StartInv, [Next]_vars
    PROVE  StartInv'
<1>1. CASE Schedule
    <2>1. now \in Nat /\ now \in Instants /\ Launchd \in Procs
        BY DEF TypeOK, Instants, Procs
    <2> QED BY <1>1, <2>1, LoadStart DEF Schedule, Modes
<1>2. CASE Tick
    <2>1. now \in Nat /\ now' = now + 1
        BY <1>2 DEF TypeOK, Instants, Tick
    <2>2. runs \in Seq(Rows) /\ \A i \in DOMAIN runs : runs[i].started \in Nat
        BY StartTyped DEF TypeOK
    <2>3. \A p \in Procs : pc[p] \in {"begin", "collect", "finish"} => job[p].asOf \in Nat
        BY DEF Ownership, JobInv, Instants
    <2>4. UNCHANGED <<runs, pc, job>>
        BY <1>2 DEF Tick
    <2>5. \A i \in DOMAIN runs' : runs'[i].started <= now'
        BY <2>1, <2>2, <2>4 DEF StartInv
    <2>6. \A p \in Procs : pc'[p] \in {"begin", "collect", "finish"} => job'[p].asOf <= now'
        BY <2>1, <2>3, <2>4 DEF StartInv
    <2> QED BY <2>4, <2>5, <2>6 DEF StartInv, AtWork
<1>3. CASE Reconfigure \/ UNCHANGED vars
    BY <1>3 DEF Reconfigure, vars, StartInv, AtWork
<1>4. ASSUME NEW p \in Users, Invoke(p) PROVE StartInv'
    <2>1. PICK mode \in Modes, t \in AsOfs[now] : Load(p, mode, t)
        BY <1>4 DEF Invoke
    <2>2. now \in Instants /\ now \in Nat /\ t \in Instants /\ t \in 0..now
        BY DEF TypeOK, ClockIsHonest, Instants
    <2>3. t <= now /\ p \in Procs /\ p # Launchd
        BY <2>2 DEF Procs
    <2> QED BY <2>1, <2>2, <2>3, LoadStart
<1>5. ASSUME NEW p \in Users, Hold(p) PROVE StartInv'
    BY <1>5, LeaveStart DEF Hold, Procs
<1>6. ASSUME NEW p \in Procs, Refused(p) \/ Release(p) \/ Crash(p) PROVE StartInv'
    <2>1. pc' = [pc EXCEPT ![p] = "idle"] /\ UNCHANGED <<now, runs>>
        BY <1>6 DEF Refused, Release, Crash
    <2>2. \A q \in Procs \ {p} : job'[q] = job[q]
        BY <1>6 DEF Refused, Release, Crash, TypeOK
    <2> QED BY <2>1, <2>2, LeaveStart
<1>7. ASSUME NEW p \in Procs, Finish(p) \/ Fail(p) PROVE StartInv'
    <2>1. PICK status \in {"Success", "Partial", "Failed"} : EndRun(p, status)
        BY <1>7 DEF Finish, Fail, Statuses
    <2> QED BY <1>7, <2>1, EndRunStart DEF Finish, Fail, AtWork
<1> QED BY <1>1, <1>2, <1>3, <1>4, <1>5, <1>6, <1>7, BeginStart, CollectStart
        DEF Next, Proceed

-----------------------------------------------------------------------------
(* The outcome of a date.                                                  *)

\* The run the guard looks at, without CHOOSE.
OutcomeBy(i) ==
    /\ i \in DailyRuns
    /\ \A j \in DailyRuns : \/ runs[j].started < runs[i].started
                            \/ runs[j].started = runs[i].started /\ j <= i
    /\ LocalDate[runs[i].started] = LocalDate[now]
    /\ SatisfiesGuard(runs[i])

\* The guard finds an outcome if some daily run is the newest and satisfies it.
LEMMA OutcomeIs == runs \in Seq(Rows) => (OutcomeIsThere <=> \E i \in DailyRuns : OutcomeBy(i))
<1> SUFFICES ASSUME runs \in Seq(Rows) PROVE OutcomeIsThere <=> \E i \in DailyRuns : OutcomeBy(i)
    OBVIOUS
<1>1. DailyRuns \in SUBSET DOMAIN runs
    BY DEF DailyRuns
<1>2. Newest(DailyRuns) = NewestOf(runs, DailyRuns)
    BY DEF Newest, NewestOf
<1>3. ASSUME OutcomeIsThere PROVE \E i \in DailyRuns : OutcomeBy(i)
    BY <1>1, <1>2, <1>3, NewestExists DEF OutcomeIsThere, OutcomeBy
<1>4. ASSUME NEW i \in DailyRuns, OutcomeBy(i) PROVE OutcomeIsThere
    <2>1. NewestOf(runs, DailyRuns) = i
        BY <1>1, <1>4, NewestIs DEF OutcomeBy
    <2> QED BY <1>2, <1>4, <2>1 DEF OutcomeIsThere, OutcomeBy
<1> QED BY <1>3, <1>4

\* The same of the next state.
LEMMA OutcomeIsNext == runs' \in Seq(Rows) => (OutcomeIsThere' <=> \E i \in DailyRuns' : OutcomeBy(i)')
<1>1. (runs \in Seq(Rows) => (OutcomeIsThere <=> \E i \in DailyRuns : OutcomeBy(i)))'
    BY OutcomeIs, PTL
<1> QED BY <1>1

\* The outcome is the same as long as the daily runs, the configuration and
\* the date are.
LEMMA OutcomeStays ==
    ASSUME runs \in Seq(Rows), runs' \in Seq(Rows), DailyRuns' = DailyRuns,
           \A i \in DailyRuns : runs'[i] = runs[i],
           UNCHANGED <<settings, feed>>, LocalDate[now'] = LocalDate[now]
    PROVE  OutcomeIsThere' <=> OutcomeIsThere
<1>1. \A i \in DailyRuns : OutcomeBy(i)' <=> OutcomeBy(i)
    BY DEF OutcomeBy, SatisfiesGuard, Fingerprint
<1> QED BY <1>1, OutcomeIs, OutcomeIsNext

-----------------------------------------------------------------------------
(* The accounts.                                                           *)

\* The runs to be explained.
Counted == Cardinality(Accountable)

LEMMA CountedTyped == TypeOK => IsFiniteSet(Accountable) /\ Counted \in Nat
<1> SUFFICES ASSUME TypeOK PROVE IsFiniteSet(Accountable) /\ Counted \in Nat
    OBVIOUS
<1>1. Len(runs) \in Nat /\ Accountable \subseteq 1..Len(runs)
    BY DEF TypeOK, Accountable
<1>2. IsFiniteSet(1..Len(runs))
    BY <1>1, FS_Interval
<1>3. IsFiniteSet(Accountable)
    BY <1>1, <1>2, FS_Subset
<1> QED BY <1>3, FS_CardinalityType DEF Counted

\* The same of the next state.
LEMMA CountedNext == TypeOK' => IsFiniteSet(Accountable') /\ Counted' \in Nat
<1>1. (TypeOK => IsFiniteSet(Accountable) /\ Counted \in Nat)'
    BY CountedTyped, PTL
<1> QED BY <1>1

\* Nothing is counted twice: the count follows the rows.
LEMMA CountSame ==
    ASSUME TypeOK, runs' = runs
    PROVE  Counted' <= Counted /\ Counted' <= Counted + 0
<1>1. Counted' = Counted
    BY DEF Counted, Accountable, Unsettled
<1> QED BY <1>1, CountedTyped

\* A run that begins is one more.
LEMMA CountBegin ==
    ASSUME TypeOK, Ownership, NEW p \in Procs, Begin(p)
    PROVE  Counted' <= Counted + 1
<1> DEFINE n == Len(runs) + 1
<1>1. /\ \A i \in 1..Len(runs) : runs'[i] = runs[i]
      /\ DOMAIN runs' = 1..n /\ DOMAIN runs = 1..Len(runs) /\ Len(runs) \in Nat
    BY BeginRows
<1>2. Accountable' \subseteq Accountable \cup {n}
    BY <1>1 DEF Accountable, Unsettled
<1>3. IsFiniteSet(Accountable) /\ Counted \in Nat
    BY CountedTyped
<1> HIDE DEF n
<1>4. /\ IsFiniteSet(Accountable \cup {n})
      /\ Cardinality(Accountable \cup {n}) <= Cardinality(Accountable) + 1
    <2>1. CASE n \in Accountable
        <3>1. Accountable \cup {n} = Accountable
            BY <2>1
        <3>2. Cardinality(Accountable) <= Cardinality(Accountable) + 1
            BY <1>3 DEF Counted
        <3> QED BY <3>1, <3>2, <1>3
    <2>2. CASE n \notin Accountable
        <3>1. /\ IsFiniteSet(Accountable \cup {n})
              /\ Cardinality(Accountable \cup {n}) = Cardinality(Accountable) + 1
            BY <1>3, <2>2, FS_AddElement
        <3> QED BY <3>1, <1>3 DEF Counted
    <2> QED BY <2>1, <2>2
<1>5. Cardinality(Accountable') <= Cardinality(Accountable \cup {n})
    BY <1>2, <1>4, FS_Subset
<1>6. /\ Cardinality(Accountable \cup {n}) \in Nat /\ Cardinality(Accountable') \in Nat
    BY <1>2, <1>4, FS_Subset, FS_CardinalityType
<1> QED BY <1>3, <1>4, <1>5, <1>6 DEF Counted

\* A run that ends is no more, and one less if it met lasting trouble.
LEMMA CountEnd ==
    ASSUME TypeOK, Ownership, NEW p \in Procs, AtWork(p),
           NEW status \in {"Success", "Partial", "Failed"}, EndRun(p, status)
    PROVE  /\ Counted' <= Counted
           /\ job[p].mode = "daily" /\ job[p].sources \in Lasting => Counted' <= Counted + (-1)
<1> DEFINE n == Len(runs)
<1>1. /\ n \in DOMAIN runs /\ DOMAIN runs' = DOMAIN runs
      /\ \A i \in DOMAIN runs : i # n => runs'[i] = runs[i]
      /\ runs'[n].status = status /\ runs'[n].mode = job[p].mode
      /\ runs'[n].sources = job[p].sources
      /\ runs[n].status = "Running"
    BY EndRunEffect
<1>2. IsFiniteSet(Accountable) /\ Counted \in Nat
    BY CountedTyped
<1> HIDE DEF n
<1>3. Accountable' \subseteq Accountable /\ n \in Accountable
    BY <1>1 DEF Accountable, Unsettled
<1>4. Counted' <= Counted
    BY <1>2, <1>3, FS_Subset DEF Counted
<1>5. ASSUME job[p].mode = "daily", job[p].sources \in Lasting
      PROVE  Counted' <= Counted + (-1)
    <2>1. Accountable' \subseteq Accountable \ {n}
        BY <1>1, <1>3, <1>5 DEF Accountable, Unsettled
    <2>2. /\ IsFiniteSet(Accountable \ {n})
          /\ Cardinality(Accountable \ {n}) = Cardinality(Accountable) - 1
        BY <1>2, <1>3, FS_RemoveElement
    <2>3. Cardinality(Accountable') <= Cardinality(Accountable \ {n})
        BY <2>1, <2>2, FS_Subset
    <2> QED BY <1>2, <2>2, <2>3 DEF Counted
<1> QED BY <1>4, <1>5

\* What a step adds to the rows and to what is still owed, an event or a date
\* pays for.
LEMMA Balance ==
    ASSUME TypeOK, TypeOK', HammerInv, NEW b \in Int, NEW r \in Int,
           IsFiniteSet(Beginning'), Cardinality(Beginning') <= Cardinality(Beginning) + b,
           Counted' <= Counted + r,
           r + 2 * b + OwedByUser' + OwedByLaunchd' + LocalDate[now] + 2 * events
              <= OwedByUser + OwedByLaunchd + LocalDate[now'] + 2 * events'
    PROVE  HammerInv'
<1>0. /\ Cardinality(Beginning') <= Cardinality(Beginning) + b
      /\ Counted' <= Counted + r /\ b \in Int /\ r \in Int
      /\ r + 2 * b + OwedByUser' + OwedByLaunchd' + LocalDate[now] + 2 * events
              <= OwedByUser + OwedByLaunchd + LocalDate[now'] + 2 * events'
    OBVIOUS
<1>1. Cardinality(Beginning) \in Nat /\ Cardinality(Beginning') \in Nat
    BY FS_CardinalityType DEF HammerInv
<1>2. Counted \in Nat /\ Counted' \in Nat
    BY CountedTyped, CountedNext
<1>3. /\ LocalDate[now] \in Nat /\ LocalDate[now'] \in Nat /\ LocalDate[0] \in Nat
      /\ events \in Nat /\ events' \in Nat
    <2>1. 0 \in Instants
        BY DEF Instants
    <2> QED BY <2>1 DEF TypeOK
<1>4. /\ OwedByUser \in Nat /\ OwedByUser' \in Nat
      /\ OwedByLaunchd \in Nat /\ OwedByLaunchd' \in Nat
    BY DEF OwedByUser, OwedByLaunchd
<1>5. Counted + (2 * Cardinality(Beginning) + OwedByUser + OwedByLaunchd)
         <= 1 + LocalDate[now] - LocalDate[0] + 2 * events
    BY DEF HammerInv, Owed, Counted
<1>6. Counted' + (2 * Cardinality(Beginning') + OwedByUser' + OwedByLaunchd')
         <= 1 + LocalDate[now'] - LocalDate[0] + 2 * events'
    <2> DEFINE n == Counted  n1 == Counted'
               c == Cardinality(Beginning)  c1 == Cardinality(Beginning')
               u == OwedByUser  u1 == OwedByUser'
               o == OwedByLaunchd  o1 == OwedByLaunchd'
               d == LocalDate[now]  d1 == LocalDate[now']  d0 == LocalDate[0]
               e == events  e1 == events'
    <2>1. /\ n \in Int /\ n1 \in Int /\ c \in Int /\ c1 \in Int /\ u \in Int /\ u1 \in Int
          /\ o \in Int /\ o1 \in Int /\ d \in Int /\ d1 \in Int /\ d0 \in Int
          /\ e \in Int /\ e1 \in Int
        BY ONLY <1>1, <1>2, <1>3, <1>4
    <2>2. /\ n + (2 * c + u + o) <= 1 + d - d0 + 2 * e
          /\ n1 <= n + r /\ c1 <= c + b
          /\ r + 2 * b + u1 + o1 + d + 2 * e <= u + o + d1 + 2 * e1
        BY ONLY <1>0, <1>5
    <2>4. r \in Int /\ b \in Int
        OBVIOUS
    <2> HIDE DEF n, n1, c, c1, u, u1, o, o1, d, d1, d0, e, e1
    <2>3. n1 + (2 * c1 + u1 + o1) <= 1 + d1 - d0 + 2 * e1
        BY ONLY <2>1, <2>2, <2>4
    <2> QED BY <2>3 DEF n1, c1, u1, o1, d1, d0, e1
<1> QED BY <1>6 DEF HammerInv, Owed, Counted

\* Commands that leave, or begin, only make the beginning ones fewer.
LEMMA FewerBeginning ==
    ASSUME HammerInv, Beginning' \subseteq Beginning
    PROVE  /\ IsFiniteSet(Beginning')
           /\ Cardinality(Beginning') <= Cardinality(Beginning) + 0
<1>1. IsFiniteSet(Beginning') /\ Cardinality(Beginning') <= Cardinality(Beginning)
    BY FS_Subset DEF HammerInv
<1>2. Cardinality(Beginning) \in Nat
    BY FS_CardinalityType DEF HammerInv
<1> QED BY <1>1, <1>2

\* launchd owes at most two runs, and two only while its command has not begun.
LEMMA OwedRange ==
    /\ OwedByLaunchd \in {0, 1, 2}
    /\ pc[Launchd] # "begin" => OwedByLaunchd \in {0, 1}
BY DEF OwedByLaunchd

\* The same of the next state.
LEMMA OwedRangeNext ==
    /\ OwedByLaunchd' \in {0, 1, 2}
    /\ pc'[Launchd] # "begin" => OwedByLaunchd' \in {0, 1}
BY DEF OwedByLaunchd

\* At most one command of a user is at work.
LEMMA UserRange == OwedByUser \in {0, 1} /\ OwedByUser' \in {0, 1}
BY DEF OwedByUser

\* launchd owes no more when its step is the same and nothing got worse.
LEMMA OwedStays ==
    ASSUME pc'[Launchd] = pc[Launchd], Lost' => Lost,
           OutcomeIsThere => OutcomeIsThere', Backed => Backed',
           (pending => UserAtWork) => (pending' => UserAtWork')
    PROVE  OwedByLaunchd' <= OwedByLaunchd
BY DEF OwedByLaunchd

\* An event pays for two runs: the one it may bring and one of launchd.
LEMMA EventPays ==
    ASSUME TypeOK, TypeOK', HammerInv, events' = events + 1, now' = now,
           Counted' <= Counted, Beginning' \subseteq Beginning, UserAtWork' => UserAtWork
    PROVE  HammerInv'
<1>1. /\ IsFiniteSet(Beginning')
      /\ Cardinality(Beginning') <= Cardinality(Beginning) + 0
    BY FewerBeginning
<1>2. OwedByUser' <= OwedByUser
    BY DEF OwedByUser
<1>3. OwedByLaunchd' <= OwedByLaunchd + 2
    BY OwedRange, OwedRangeNext
<1>4. Counted' <= Counted + 0
    BY CountedTyped
<1>5. 0 + 2 * 0 + OwedByUser' + OwedByLaunchd' + LocalDate[now] + 2 * events
         <= OwedByUser + OwedByLaunchd + LocalDate[now'] + 2 * events'
    <2>1. LocalDate[now] \in Nat /\ events \in Nat /\ LocalDate[now'] = LocalDate[now]
        BY DEF TypeOK
    <2>2. events' = events + 1
        OBVIOUS
    <2> DEFINE e == events  e1 == events'
    <2>3. e \in Nat /\ e1 = e + 1
        BY <2>1, <2>2
    <2> HIDE DEF e, e1
    <2>4. 0 + 2 * 0 + OwedByUser' + OwedByLaunchd' + LocalDate[now] + 2 * e
             <= OwedByUser + OwedByLaunchd + LocalDate[now'] + 2 * e1
        BY ONLY <1>2, <1>3, <2>1, <2>3, UserRange, OwedRange, OwedRangeNext
    <2> QED BY <2>4 DEF e, e1
<1> QED BY ONLY <1>1, <1>4, <1>5, Balance, TypeOK, TypeOK', HammerInv

\* A quiet step is paid by nothing: it must leave no more to come.
LEMMA QuietStep ==
    ASSUME TypeOK, TypeOK', HammerInv, NEW r \in {-1, 0, 1}, UNCHANGED <<now, events>>,
           Counted' <= Counted + r,
           \A q \in Users : pc'[q] = "begin" => pc[q] = "begin",
           r + OwedByUser' + OwedByLaunchd' <= OwedByUser + OwedByLaunchd
    PROVE  HammerInv'
<1>1. /\ IsFiniteSet(Beginning')
      /\ Cardinality(Beginning') <= Cardinality(Beginning) + 0
    BY FewerBeginning DEF Beginning
<1>2. r + 2 * 0 + OwedByUser' + OwedByLaunchd' + LocalDate[now] + 2 * events
         <= OwedByUser + OwedByLaunchd + LocalDate[now'] + 2 * events'
    <2> DEFINE d == LocalDate[now]  d1 == LocalDate[now']  e == events  e1 == events'
               u == OwedByUser  u1 == OwedByUser'
               o == OwedByLaunchd  o1 == OwedByLaunchd'
    <2>1. d \in Int /\ d1 = d /\ e \in Int /\ e1 = e
        BY DEF TypeOK
    <2>2. u \in Int /\ u1 \in Int /\ o \in Int /\ o1 \in Int /\ r \in Int
        BY UserRange, OwedRange, OwedRangeNext
    <2>3. r + u1 + o1 <= u + o
        OBVIOUS
    <2> HIDE DEF d, d1, e, e1, u, u1, o, o1
    <2>4. r + 2 * 0 + u1 + o1 + d + 2 * e <= u + o + d1 + 2 * e1
        BY ONLY <2>1, <2>2, <2>3
    <2> QED BY <2>4 DEF d, d1, e, e1, u, u1, o, o1
<1>3. Counted' <= Counted + r /\ r \in Int /\ 0 \in Int
    OBVIOUS
<1> QED BY ONLY <1>1, <1>2, <1>3, Balance, TypeOK, TypeOK', HammerInv

\* What a process other than launchd changes of launchd: nothing.
LEMMA LaunchdStays ==
    ASSUME pc'[Launchd] = pc[Launchd], job'[Launchd] = job[Launchd],
           DailyRuns' = DailyRuns, \A i \in DailyRuns : runs'[i] = runs[i],
           UNCHANGED <<now, settings, feed>>
    PROVE  Lost' <=> Lost
BY DEF Lost

\* The outcome of a date rests on runs, clock, settings and feed file only.
LEMMA SameRuns ==
    ASSUME UNCHANGED <<runs, now, settings, feed>>
    PROVE  /\ DailyRuns' = DailyRuns /\ \A i \in DailyRuns : runs'[i] = runs[i]
           /\ OutcomeIsThere' <=> OutcomeIsThere
BY DEF DailyRuns, OutcomeIsThere, Newest, SatisfiesGuard, Fingerprint

\* The row of a run that begins is not a daily run yet.
LEMMA BeginDaily ==
    ASSUME TypeOK, TypeOK', Ownership, NEW p \in Procs, Begin(p)
    PROVE  /\ DailyRuns' = DailyRuns /\ \A i \in DailyRuns : runs'[i] = runs[i]
           /\ OutcomeIsThere' <=> OutcomeIsThere
<1>1. /\ Len(runs) \in Nat
      /\ runs'[Len(runs) + 1] = NewRow(job[p].asOf)
      /\ \A i \in 1..Len(runs) : runs'[i] = runs[i]
      /\ DOMAIN runs' = 1..(Len(runs) + 1) /\ DOMAIN runs = 1..Len(runs)
    BY BeginRows
<1>2. runs'[Len(runs) + 1].status = "Running"
    BY <1>1 DEF NewRow
<1>3. DOMAIN runs' = DOMAIN runs \cup {Len(runs) + 1} /\ Len(runs) + 1 \notin DOMAIN runs
    BY <1>1
<1>4. DailyRuns' = DailyRuns
    BY <1>1, <1>2, <1>3 DEF DailyRuns
<1>5. \A i \in DailyRuns : runs'[i] = runs[i]
    BY <1>1 DEF DailyRuns
<1>6. UNCHANGED <<now, settings, feed>>
    BY DEF Begin, environment
<1> QED BY <1>4, <1>5, <1>6, OutcomeStays DEF TypeOK

\* A user and launchd are two processes.
LEMMA Distinct == ASSUME NEW p \in Users PROVE p \in Procs /\ Launchd \in Procs /\ p # Launchd
BY DEF Procs

-----------------------------------------------------------------------------
(* The steps of the accounts.                                              *)

\* A run that begins is paid by what its command owed.
LEMMA BeginPays ==
    ASSUME TypeOK, TypeOK', Ownership, HammerInv, NEW p \in Procs, Begin(p)
    PROVE  HammerInv'
<1>1. /\ Counted' <= Counted + 1
      /\ pc[p] = "begin" /\ pc'[p] = "collect"
      /\ \A q \in Procs \ {p} : pc'[q] = pc[q] /\ job'[q] = job[q]
      /\ job'[p].asOf = job[p].asOf /\ job'[p].loaded = job[p].loaded
      /\ UNCHANGED <<now, settings, feed, pending, events>>
    <2>1. Counted' <= Counted + 1
        BY CountBegin
    <2> QED BY <2>1 DEF Begin, TypeOK, Jobs, environment
<1>2. \A q \in Procs : ~AtWork(q)
    <2>1. lock = None
        BY DEF Begin, LockIsFree
    <2> QED BY <1>1, <2>1, NobodyElse DEF AtWork
<1>3. ~UserAtWork /\ ~Backed
    BY <1>2 DEF UserAtWork, Backed, Procs
<1>4. /\ DailyRuns' = DailyRuns /\ \A i \in DailyRuns : runs'[i] = runs[i]
      /\ OutcomeIsThere' <=> OutcomeIsThere
    BY BeginDaily
<1>5. CASE p = Launchd
    <2>1. Lost' <=> Lost
        BY <1>1, <1>4, <1>5 DEF Lost
    <2>2. \/ OwedByLaunchd' = 0 /\ OwedByLaunchd = 1
          \/ OwedByLaunchd' = 1 /\ OwedByLaunchd = 2
        BY <1>1, <1>3, <1>5, <2>1 DEF OwedByLaunchd
    <2>3. OwedByUser' = 0 /\ OwedByUser = 0
        BY <1>1, <1>2, <1>5, Distinct DEF OwedByUser, UserAtWork, AtWork
    <2>4. \A q \in Users : pc'[q] = "begin" => pc[q] = "begin"
        BY <1>1, <1>5, Distinct
    <2>5. 1 + OwedByUser' + OwedByLaunchd' <= OwedByUser + OwedByLaunchd
        <3> DEFINE u == OwedByUser  u1 == OwedByUser'
                   o == OwedByLaunchd  o1 == OwedByLaunchd'
        <3>1. u = 0 /\ u1 = 0 /\ o \in Int /\ o1 \in Int /\ o1 + 1 = o
            BY <2>2, <2>3
        <3> HIDE DEF u, u1, o, o1
        <3>2. 1 + u1 + o1 <= u + o
            BY ONLY <3>1
        <3> QED BY <3>2 DEF u, u1, o, o1
    <2> QED BY <1>1, <2>4, <2>5, QuietStep
<1>6. CASE p \in Users
    <2>1. pc'[Launchd] = pc[Launchd] /\ job'[Launchd] = job[Launchd]
        BY <1>1, <1>6, Distinct
    <2>2. OwedByLaunchd' <= OwedByLaunchd
        <3>1. Lost' <=> Lost
            BY <1>1, <1>4, <2>1, LaunchdStays
        <3>2. UserAtWork'
            BY <1>1, <1>6 DEF UserAtWork, AtWork
        <3> QED BY <1>3, <1>4, <2>1, <3>1, <3>2, OwedStays
    <2>3. Beginning' = Beginning \ {p} /\ p \in Beginning
        BY <1>1, <1>6, Distinct DEF Beginning, Procs
    <2>4. /\ IsFiniteSet(Beginning')
          /\ Cardinality(Beginning') = Cardinality(Beginning) - 1
        BY <2>3, FS_RemoveElement DEF HammerInv
    <2>5. Cardinality(Beginning) \in Nat
        BY FS_CardinalityType DEF HammerInv
    <2>6. Cardinality(Beginning') <= Cardinality(Beginning) + (-1)
        BY <2>4, <2>5
    <2>7. OwedByUser = 0 /\ OwedByUser' = 1
        BY <1>1, <1>3, <1>6 DEF OwedByUser, UserAtWork, AtWork
    <2>8. 1 + 2 * (-1) + OwedByUser' + OwedByLaunchd' + LocalDate[now] + 2 * events
             <= OwedByUser + OwedByLaunchd + LocalDate[now'] + 2 * events'
        <3> DEFINE d == LocalDate[now]  d1 == LocalDate[now']  e == events  e1 == events'
                   u == OwedByUser  u1 == OwedByUser'
                   o == OwedByLaunchd  o1 == OwedByLaunchd'
        <3>1. d \in Int /\ d1 = d /\ e \in Int /\ e1 = e
            BY <1>1 DEF TypeOK
        <3>2. u = 0 /\ u1 = 1 /\ o \in Int /\ o1 \in Int /\ o1 <= o
            BY <2>2, <2>7, OwedRange, OwedRangeNext
        <3> HIDE DEF d, d1, e, e1, u, u1, o, o1
        <3>3. 1 + 2 * (-1) + u1 + o1 + d + 2 * e <= u + o + d1 + 2 * e1
            BY ONLY <3>1, <3>2
        <3> QED BY <3>3 DEF d, d1, e, e1, u, u1, o, o1
    <2>9. -1 \in Int /\ 1 \in Int
        OBVIOUS
    <2> QED BY ONLY <1>1, <2>4, <2>6, <2>8, <2>9, Balance, TypeOK, TypeOK', HammerInv
<1> QED BY <1>5, <1>6 DEF Procs

\* A command is an event, which pays for its own run and another of launchd.
LEMMA InvokePays ==
    ASSUME TypeOK, TypeOK', HammerInv, NEW p \in Users, Invoke(p)
    PROVE  HammerInv'
<1>1. /\ pc[p] = "idle" /\ pc'[p] = "begin" /\ events' = events + 1
      /\ \A q \in Procs \ {p} : pc'[q] = pc[q] /\ job'[q] = job[q]
      /\ UNCHANGED <<now, settings, feed, runs, pending>>
    BY Distinct DEF Invoke, Load, Event, TypeOK, environment
<1>2. pc'[Launchd] = pc[Launchd] /\ job'[Launchd] = job[Launchd]
    BY <1>1, Distinct
<1>3. \A q \in Users : (AtWork(q)' <=> AtWork(q)) /\ (AtWork(q) => job'[q] = job[q])
    BY <1>1, Distinct DEF AtWork
<1>4. (UserAtWork' <=> UserAtWork) /\ (Backed' <=> Backed)
    BY <1>2, <1>3 DEF UserAtWork, Backed
<1>5. OwedByLaunchd' <= OwedByLaunchd
    BY <1>1, <1>2, <1>4, SameRuns, LaunchdStays, OwedStays
<1>6. Beginning' = Beginning \cup {p} /\ p \notin Beginning
    BY <1>1, Distinct DEF Beginning
<1>7. /\ IsFiniteSet(Beginning')
      /\ Cardinality(Beginning') = Cardinality(Beginning) + 1
    BY <1>6, FS_AddElement DEF HammerInv
<1>8. Cardinality(Beginning') <= Cardinality(Beginning) + 1
    <2>1. Cardinality(Beginning) \in Nat
        BY FS_CardinalityType DEF HammerInv
    <2> QED BY <1>7, <2>1
<1>9. 0 + 2 * 1 + OwedByUser' + OwedByLaunchd' + LocalDate[now] + 2 * events
         <= OwedByUser + OwedByLaunchd + LocalDate[now'] + 2 * events'
    <2> DEFINE d == LocalDate[now]  d1 == LocalDate[now']  e == events  e1 == events'
               u == OwedByUser  u1 == OwedByUser'
               o == OwedByLaunchd  o1 == OwedByLaunchd'
    <2>1. d \in Int /\ d1 = d /\ e \in Int /\ e1 = e + 1
        BY <1>1 DEF TypeOK
    <2>2. u \in Int /\ u1 = u /\ o \in Int /\ o1 \in Int /\ o1 <= o
        BY <1>4, <1>5, OwedRange, OwedRangeNext DEF OwedByUser
    <2> HIDE DEF d, d1, e, e1, u, u1, o, o1
    <2>3. 0 + 2 * 1 + u1 + o1 + d + 2 * e <= u + o + d1 + 2 * e1
        BY ONLY <2>1, <2>2
    <2> QED BY <2>3 DEF d, d1, e, e1, u, u1, o, o1
<1>10. Counted' <= Counted + 0 /\ 0 \in Int /\ 1 \in Int
    BY <1>1, CountSame
<1> QED BY ONLY <1>7, <1>8, <1>9, <1>10, Balance, TypeOK, TypeOK', HammerInv

\* A step that adds no row and nothing to what is owed.
LEMMA StillOwed ==
    ASSUME TypeOK, TypeOK', HammerInv, UNCHANGED <<now, events>>, Counted' <= Counted,
           \A q \in Users : pc'[q] = "begin" => pc[q] = "begin",
           OwedByUser' <= OwedByUser, OwedByLaunchd' <= OwedByLaunchd
    PROVE  HammerInv'
<1>1. 0 + OwedByUser' + OwedByLaunchd' <= OwedByUser + OwedByLaunchd
    <2> DEFINE u == OwedByUser  u1 == OwedByUser'
               o == OwedByLaunchd  o1 == OwedByLaunchd'
    <2>1. /\ u \in Int /\ u1 \in Int /\ o \in Int /\ o1 \in Int
          /\ u1 <= u /\ o1 <= o
        BY UserRange, OwedRange, OwedRangeNext
    <2> HIDE DEF u, u1, o, o1
    <2>2. 0 + u1 + o1 <= u + o
        BY ONLY <2>1
    <2> QED BY <2>2 DEF u, u1, o, o1
<1>2. Counted' <= Counted + 0
    BY CountedTyped
<1> QED BY <1>1, <1>2, QuietStep

\* A refused command owes nothing any more.
LEMMA RefusedPays ==
    ASSUME TypeOK, TypeOK', Ownership, StartInv, HammerInv, NEW p \in Procs, Refused(p)
    PROVE  HammerInv'
<1>1. /\ pc[p] = "begin" /\ pc'[p] = "idle"
      /\ \A q \in Procs \ {p} : pc'[q] = pc[q] /\ job'[q] = job[q]
      /\ UNCHANGED <<now, settings, feed, runs, pending, events>>
    BY DEF Refused, TypeOK, environment
<1>2. \A q \in Users : (AtWork(q)' <=> AtWork(q)) /\ (AtWork(q) => job'[q] = job[q])
    BY <1>1, Distinct DEF AtWork
<1>3. OwedByUser' <= OwedByUser /\ (UserAtWork' <=> UserAtWork)
    BY <1>2 DEF OwedByUser, UserAtWork
<1>4. \A q \in Users : pc'[q] = "begin" => pc[q] = "begin"
    BY <1>1, Distinct
<1>5. CASE p = Launchd
    <2>1. OutcomeIsThere' <=> OutcomeIsThere
        BY <1>1, SameRuns
    <2>2. OwedByLaunchd' <= OwedByLaunchd
        <3>1. CASE Backed
            <4>1. UserAtWork
                BY <3>1 DEF Backed, UserAtWork
            <4> QED BY <1>1, <1>3, <1>5, <2>1, <3>1, <4>1 DEF OwedByLaunchd
        <3>2. CASE ~Backed
            <4>1. OwedByLaunchd \in {1, 2}
                BY <1>1, <1>5, <3>2 DEF OwedByLaunchd
            <4>2. OwedByLaunchd' \in {0, 1}
                BY <1>1, <1>5, OwedRangeNext
            <4> QED BY <4>1, <4>2
        <3> QED BY <3>1, <3>2
    <2> QED BY <1>1, <1>3, <1>4, <2>2, StillOwed, CountSame
<1>6. CASE p \in Users
    <2>1. pc'[Launchd] = pc[Launchd] /\ job'[Launchd] = job[Launchd]
        BY <1>1, <1>6, Distinct
    <2>2. Backed' <=> Backed
        BY <1>2, <2>1 DEF Backed
    <2>3. OwedByLaunchd' <= OwedByLaunchd
        BY <1>1, <1>3, <2>1, <2>2, SameRuns, LaunchdStays, OwedStays
    <2> QED BY <1>1, <1>3, <1>4, <2>3, StillOwed, CountSame
<1> QED BY <1>5, <1>6 DEF Procs

\* A command that has only held the lock owes nothing.
LEMMA ReleasePays ==
    ASSUME TypeOK, TypeOK', Ownership, StartInv, HammerInv, NEW p \in Procs, Release(p)
    PROVE  HammerInv'
<1>1. /\ pc[p] = "hold" /\ pc'[p] = "idle"
      /\ \A q \in Procs \ {p} : pc'[q] = pc[q]
      /\ UNCHANGED <<job, now, settings, feed, runs, pending, events>>
    BY DEF Release, TypeOK, environment
<1>2. p # Launchd
    BY <1>1 DEF StartInv
<1>3. \A q \in Users : AtWork(q)' <=> AtWork(q)
    BY <1>1, Distinct DEF AtWork
<1>4. /\ OwedByUser' <= OwedByUser /\ (UserAtWork' <=> UserAtWork)
      /\ Backed' <=> Backed
    BY <1>1, <1>3 DEF OwedByUser, UserAtWork, Backed
<1>5. \A q \in Users : pc'[q] = "begin" => pc[q] = "begin"
    BY <1>1, Distinct
<1>6. pc'[Launchd] = pc[Launchd] /\ job'[Launchd] = job[Launchd]
    BY <1>1, <1>2 DEF Procs
<1>7. OwedByLaunchd' <= OwedByLaunchd
    BY <1>1, <1>4, <1>6, SameRuns, LaunchdStays, OwedStays
<1> QED BY <1>1, <1>4, <1>5, <1>7, StillOwed, CountSame

\* Collection: a source that fails is paid by an event.
LEMMA CollectPays ==
    ASSUME TypeOK, TypeOK', Ownership, StartInv, HammerInv, NEW p \in Procs, Collect(p)
    PROVE  HammerInv'
<1>1. /\ pc[p] = "collect" /\ pc'[p] = "finish"
      /\ job'[p].asOf = job[p].asOf /\ job'[p].loaded = job[p].loaded
      /\ IF job'[p].sources = "transient" THEN Event ELSE UNCHANGED events
      /\ \A q \in Procs \ {p} : pc'[q] = pc[q] /\ job'[q] = job[q]
      /\ UNCHANGED <<now, settings, feed, runs>>
    BY CollectLocals DEF Collect, environment
<1>2. \A q \in Procs : (AtWork(q)' <=> AtWork(q)) /\ job'[q].asOf = job[q].asOf
    BY <1>1 DEF AtWork
<1>3. \A q \in Users : pc'[q] = "begin" => pc[q] = "begin"
    BY <1>1, Distinct
<1>4. CASE Event
    BY <1>1, <1>2, <1>3, <1>4, EventPays, CountSame, Distinct DEF Event, Beginning, UserAtWork
<1>5. CASE UNCHANGED events /\ job'[p].sources # "transient"
    <2>1. /\ OwedByUser' <= OwedByUser /\ (UserAtWork' <=> UserAtWork)
          /\ Backed' <=> Backed
        BY <1>2, Distinct DEF OwedByUser, UserAtWork, Backed
    <2>2. OwedByLaunchd' <= OwedByLaunchd
        <3>1. CASE p = Launchd
            <4>1. Lost' => Lost
                BY <1>1, <1>5, <3>1, SameRuns DEF Lost
            <4> QED BY <1>1, <3>1, <4>1 DEF OwedByLaunchd
        <3>2. CASE p \in Users
            <4>1. pc'[Launchd] = pc[Launchd] /\ job'[Launchd] = job[Launchd]
                BY <1>1, <3>2, Distinct
            <4>2. UserAtWork'
                BY <1>1, <3>2 DEF UserAtWork, AtWork
            <4> QED BY <1>1, <2>1, <4>1, <4>2, SameRuns, LaunchdStays, OwedStays
        <3> QED BY <3>1, <3>2 DEF Procs
    <2> QED BY <1>1, <1>3, <1>5, <2>1, <2>2, StillOwed, CountSame
<1> QED BY <1>1, <1>4, <1>5

\* launchd starts its job: it owes the run that was due.
LEMMA SchedulePays ==
    ASSUME TypeOK, TypeOK', Ownership, StartInv, HammerInv, Schedule
    PROVE  HammerInv'
<1>1. /\ pc[Launchd] = "idle" /\ pc'[Launchd] = "begin"
      /\ job'[Launchd].asOf = now /\ job'[Launchd].loaded = settings
      /\ \A q \in Users : pc'[q] = pc[q] /\ job'[q] = job[q]
      /\ UNCHANGED <<now, settings, feed, runs, pending, events>>
    BY Distinct DEF Schedule, Load, TypeOK, NoJob, environment, Procs
<1>2. \A q \in Users : (AtWork(q)' <=> AtWork(q)) /\ (AtWork(q) => job[q].asOf <= now)
    BY <1>1, Distinct DEF AtWork, StartInv
<1>3. OwedByUser' <= OwedByUser /\ (UserAtWork' <=> UserAtWork)
    BY <1>2 DEF OwedByUser, UserAtWork
<1>4. Backed' <=> UserAtWork
    BY <1>1, <1>2 DEF Backed, UserAtWork
<1>5. ~Lost'
    <2>1. \A i \in DailyRuns : ~(runs[i].started > now)
        <3>1. now \in Nat /\ \A i \in DailyRuns : runs[i].started \in Nat /\ runs[i].started <= now
            BY StartTyped DEF TypeOK, StartInv, DailyRuns, Instants
        <3> QED BY <3>1
    <2> QED BY <1>1, <2>1, SameRuns DEF Lost
<1>6. (OutcomeIsThere' <=> OutcomeIsThere) /\ (pending \/ ~OutcomeIsThere)
    BY <1>1, SameRuns DEF Schedule, Due
<1>7. OwedByLaunchd' <= OwedByLaunchd
    BY <1>1, <1>3, <1>4, <1>5, <1>6 DEF OwedByLaunchd
<1> QED BY <1>1, <1>3, <1>7, StillOwed, CountSame

\* launchd finishes: unless the run was lost, or a source is in lasting trouble,
\* it is the outcome of the date.
LEMMA LaunchdDelivers ==
    ASSUME TypeOK, TypeOK', Ownership, StartInv, pc[Launchd] = "finish",
           NEW status \in Statuses(job[Launchd].sources), EndRun(Launchd, status), ~Lost,
           job[Launchd].sources \notin Lasting
    PROVE  OutcomeIsThere'
<1> DEFINE n == Len(runs)  j == job[Launchd]
<1>1. Launchd \in Procs /\ AtWork(Launchd)
    BY DEF Procs, AtWork
<1>2. /\ j.loaded = settings /\ LocalDate[j.asOf] = LocalDate[now]
      /\ \A i \in DailyRuns : ~(runs[i].started > j.asOf)
      /\ j.sources \in {"ready", "gated"} /\ j.mode = "daily"
    BY <1>1 DEF Lost, StartInv, Outcomes
<1>3. /\ j.sources = "ready" => status = "Success"
      /\ j.sources = "gated" => status = "Partial"
    BY DEF Statuses
<1>4. status \in {"Success", "Partial"}
    BY <1>2, <1>3
<1>5. /\ UNCHANGED <<now, settings, feed>>
      /\ n \in DOMAIN runs /\ j.row = n
      /\ DOMAIN runs' = DOMAIN runs /\ Len(runs') = n
      /\ \A i \in DOMAIN runs : i # n => runs'[i] = runs[i]
      /\ runs'[n].started = runs[n].started
      /\ runs'[n].status = status /\ runs'[n].mode = j.mode
      /\ runs'[n].sources = j.sources
      /\ runs'[n].fingerprint = Fingerprint(j.loaded)
    BY <1>1, <1>4, EndRunEffect
<1>6. runs'[n].started = j.asOf
    BY <1>1, <1>5 DEF StartInv
<1>7. DailyRuns' \subseteq DailyRuns \cup {n} /\ n \in DailyRuns'
    BY <1>2, <1>4, <1>5 DEF DailyRuns
<1>8. ASSUME NEW i \in DailyRuns'
      PROVE  \/ runs'[i].started < runs'[n].started
             \/ runs'[i].started = runs'[n].started /\ i <= n
    <2>1. CASE i = n
        <3>1. n \in Nat
            BY DEF TypeOK
        <3> QED BY <2>1, <3>1
    <2>2. CASE i # n
        <3>1. i \in DailyRuns /\ i \in DOMAIN runs /\ runs'[i] = runs[i]
            BY <1>5, <1>7, <2>2 DEF DailyRuns
        <3>2. runs[i].started \in Nat /\ j.asOf \in Nat /\ i <= n
            <4>1. runs[i].started \in Nat
                BY <3>1, StartTyped DEF TypeOK
            <4>2. j.asOf \in Nat
                BY <1>1 DEF Ownership, JobInv, AtWork, Instants
            <4>3. i <= n
                BY <3>1 DEF TypeOK
            <4> QED BY <4>1, <4>2, <4>3
        <3>3. ~(runs[i].started > j.asOf)
            BY <1>2, <3>1
        <3> QED BY <1>6, <3>1, <3>2, <3>3
    <2> QED BY <2>1, <2>2
<1>9. SatisfiesGuard(runs[n])'
    BY <1>2, <1>3, <1>5 DEF SatisfiesGuard, Fingerprint
<1>10. LocalDate[runs'[n].started] = LocalDate[now']
    BY <1>2, <1>5, <1>6
<1>11. OutcomeBy(n)'
    BY <1>7, <1>8, <1>9, <1>10, <1>5 DEF OutcomeBy
<1>12. runs' \in Seq(Rows)
    BY DEF TypeOK
<1> HIDE DEF n
<1> QED BY <1>7, <1>11, <1>12, OutcomeIsNext DEF OutcomeBy

\* A run that finishes makes the outcome, or an event answers for the next one.
LEMMA FinishPays ==
    ASSUME TypeOK, TypeOK', Ownership, StartInv, HammerInv, NEW p \in Procs, Finish(p)
    PROVE  HammerInv'
<1>1. PICK status \in Statuses(job[p].sources) : EndRun(p, status)
    BY DEF Finish
<1>2. status \in {"Success", "Partial", "Failed"} /\ AtWork(p) /\ pc[p] = "finish"
      /\ pending' = FALSE /\ UNCHANGED events
    BY DEF Statuses, Finish, AtWork
<1>3. /\ pc'[p] = "idle"
      /\ \A q \in Procs \ {p} : pc'[q] = pc[q] /\ job'[q] = job[q] /\ ~AtWork(q)
      /\ UNCHANGED <<now, settings, feed>>
      /\ Len(runs) \in DOMAIN runs /\ job[p].row = Len(runs)
      /\ DOMAIN runs' = DOMAIN runs /\ Len(runs') = Len(runs)
      /\ \A i \in DOMAIN runs : i # Len(runs) => runs'[i] = runs[i]
      /\ runs'[Len(runs)].started = runs[Len(runs)].started
    BY <1>1, <1>2, EndRunEffect
<1>4. \A q \in Procs : ~AtWork(q)'
    BY <1>3 DEF AtWork
<1>5. ~UserAtWork' /\ ~Backed' /\ OwedByUser' = 0
    BY <1>4, Distinct DEF UserAtWork, Backed, OwedByUser
<1>6. \A q \in Users : pc'[q] = "begin" => pc[q] = "begin"
    BY <1>3, Distinct
<1>9. Counted' <= Counted
    BY <1>1, <1>2, CountEnd
<1>10. CASE p = Launchd /\ ~Lost /\ job[Launchd].sources \in Lasting
    <2>1. OwedByLaunchd = 0 /\ OwedByLaunchd' \in {0, 1}
        BY <1>2, <1>3, <1>10, OwedRangeNext DEF OwedByLaunchd
    <2>2. job[Launchd].mode = "daily"
        BY <1>2, <1>10 DEF StartInv
    <2>3. Counted' <= Counted + (-1)
        BY <1>1, <1>2, <1>10, <2>2, CountEnd
    <2>4. -1 + OwedByUser' + OwedByLaunchd' <= OwedByUser + OwedByLaunchd
        <3> DEFINE u == OwedByUser  u1 == OwedByUser'
                   o == OwedByLaunchd  o1 == OwedByLaunchd'
        <3>1. u \in {0, 1} /\ u1 = 0 /\ o = 0 /\ o1 \in {0, 1}
            BY <1>5, <2>1, UserRange
        <3> HIDE DEF u, u1, o, o1
        <3>2. -1 + u1 + o1 <= u + o
            BY ONLY <3>1
        <3> QED BY <3>2 DEF u, u1, o, o1
    <2>5. -1 \in {-1, 0, 1}
        OBVIOUS
    <2> QED BY <1>2, <1>3, <1>6, <2>3, <2>4, <2>5, QuietStep
<1>7. CASE p = Launchd /\ (Lost \/ job[Launchd].sources \notin Lasting)
    <2>1. OwedByLaunchd' <= OwedByLaunchd
        <3>1. CASE Lost
            <4>1. OwedByLaunchd = 1 /\ OwedByLaunchd' \in {0, 1}
                BY <1>2, <1>3, <1>7, <3>1, OwedRangeNext DEF OwedByLaunchd
            <4> QED BY <4>1
        <3>2. CASE ~Lost
            <4>1. OutcomeIsThere'
                BY <1>1, <1>2, <1>7, <3>2, LaunchdDelivers
            <4> QED BY <1>2, <1>3, <1>7, <4>1, OwedRange DEF OwedByLaunchd
        <3> QED BY <3>1, <3>2
    <2>2. OwedByUser' <= OwedByUser
        BY <1>5, UserRange
    <2> QED BY <1>2, <1>3, <1>6, <1>9, <2>1, <2>2, StillOwed
<1>8. CASE p \in Users
    <2>1. OwedByUser = 1
        BY <1>2, <1>8 DEF OwedByUser, UserAtWork
    <2>2. pc'[Launchd] = pc[Launchd] /\ job'[Launchd] = job[Launchd]
        BY <1>3, <1>8, Distinct
    <2>3. \/ OwedByLaunchd' \in {0, 1}
          \/ OwedByLaunchd \in {1, 2} /\ OwedByLaunchd' = 2
        <3>1. CASE pc[Launchd] # "begin"
            BY <2>2, <3>1, OwedRangeNext
        <3>2. CASE pc[Launchd] = "begin" /\ ~Backed
            BY <3>2, OwedRangeNext DEF OwedByLaunchd
        <3>3. CASE pc[Launchd] = "begin" /\ Backed
            <4>1. job[p].asOf <= job[Launchd].asOf
                BY <1>3, <3>3, Distinct DEF Backed
            <4>2. runs'[Len(runs)].started = job[p].asOf
                BY <1>2, <1>3 DEF StartInv
            <4>3. job[p].asOf \in Nat /\ job[Launchd].asOf \in Nat
                BY <1>2, <3>3, Distinct, <1>8 DEF Ownership, JobInv, Instants
            <4>4. ~(runs'[Len(runs)].started > job[Launchd].asOf)
                BY <4>1, <4>2, <4>3
            <4>5. \A i \in DailyRuns' : i # Len(runs) => i \in DailyRuns /\ runs'[i] = runs[i]
                BY <1>3 DEF DailyRuns
            <4>6. Lost' => Lost
                BY <1>3, <2>2, <3>3, <4>4, <4>5 DEF Lost
            <4> QED BY <1>5, <2>2, <3>3, <4>6 DEF OwedByLaunchd
        <3> QED BY <3>1, <3>2, <3>3
    <2>4. 0 + OwedByUser' + OwedByLaunchd' <= OwedByUser + OwedByLaunchd
        <3> DEFINE u == OwedByUser  u1 == OwedByUser'
                   o == OwedByLaunchd  o1 == OwedByLaunchd'
        <3>1. /\ u = 1 /\ u1 = 0 /\ o \in {0, 1, 2}
              /\ o1 \in {0, 1} \/ (o \in {1, 2} /\ o1 = 2)
            BY <1>5, <2>1, <2>3, OwedRange
        <3> HIDE DEF u, u1, o, o1
        <3>2. 0 + u1 + o1 <= u + o
            BY ONLY <3>1
        <3> QED BY <3>2 DEF u, u1, o, o1
    <2>5. Counted' <= Counted + 0
        BY <1>9, CountedTyped
    <2> QED BY <1>2, <1>3, <1>6, <2>4, <2>5, QuietStep
<1> QED BY <1>7, <1>8, <1>10 DEF Procs

\* The clock: a new date pays for one run of launchd.
LEMMA TickPays ==
    ASSUME ClockIsHonest, TypeOK, TypeOK', HammerInv, Tick
    PROVE  HammerInv'
<1>1. /\ now \in Instants /\ now' \in Instants /\ now <= now'
      /\ UNCHANGED <<settings, feed, runs, pending, pc, job, events>>
    BY DEF Tick, TypeOK, Instants, environment
<1>2. LocalDate[now] <= LocalDate[now'] /\ LocalDate[now] \in Nat /\ LocalDate[now'] \in Nat
    BY <1>1 DEF ClockIsHonest
<1>3. /\ OwedByUser' = OwedByUser /\ (UserAtWork' <=> UserAtWork)
      /\ Backed' <=> Backed
    BY <1>1 DEF OwedByUser, UserAtWork, Backed, AtWork
<1>4. \A q \in Users : pc'[q] = "begin" => pc[q] = "begin"
    BY <1>1
<1>5. DailyRuns' = DailyRuns
    BY <1>1 DEF DailyRuns
<1>6. \/ OwedByLaunchd' <= OwedByLaunchd
      \/ LocalDate[now] # LocalDate[now'] /\ (OwedByLaunchd' \in {0, 1} \/ OwedByLaunchd \in {1, 2})
    <2>1. CASE LocalDate[now] = LocalDate[now']
        <3>1. Lost' <=> Lost
            BY <1>1, <1>5, <2>1 DEF Lost
        <3>2. OutcomeIsThere' <=> OutcomeIsThere
            BY <1>1, <1>5, <2>1, OutcomeStays DEF TypeOK
        <3> QED BY <1>1, <1>3, <3>1, <3>2, OwedStays
    <2>2. CASE LocalDate[now] # LocalDate[now']
        <3>1. CASE pc[Launchd] # "begin"
            BY <1>1, <2>2, <3>1, OwedRangeNext
        <3>2. CASE pc[Launchd] = "begin" /\ ~Backed
            BY <2>2, <3>2 DEF OwedByLaunchd
        <3>3. CASE pc[Launchd] = "begin" /\ Backed
            BY <1>1, <1>3, <2>2, <3>3 DEF OwedByLaunchd
        <3> QED BY <3>1, <3>2, <3>3
    <2> QED BY <2>1, <2>2
<1>7. 0 + 2 * 0 + OwedByUser' + OwedByLaunchd' + LocalDate[now] + 2 * events
         <= OwedByUser + OwedByLaunchd + LocalDate[now'] + 2 * events'
    <2> DEFINE d == LocalDate[now]  d1 == LocalDate[now']  e == events  e1 == events'
               u == OwedByUser  u1 == OwedByUser'
               o == OwedByLaunchd  o1 == OwedByLaunchd'
    <2>1. /\ d \in Nat /\ d1 \in Nat /\ d <= d1 /\ e \in Int /\ e1 = e
          /\ u \in Int /\ u1 = u /\ o \in {0, 1, 2} /\ o1 \in {0, 1, 2}
          /\ o1 <= o \/ (d # d1 /\ (o1 \in {0, 1} \/ o \in {1, 2}))
        BY <1>1, <1>2, <1>3, <1>6, UserRange, OwedRange, OwedRangeNext DEF TypeOK
    <2> HIDE DEF d, d1, e, e1, u, u1, o, o1
    <2>2. o1 + d <= o + d1
        BY ONLY <2>1
    <2>3. 0 + 2 * 0 + u1 + o1 + d + 2 * e <= u + o + d1 + 2 * e1
        BY ONLY <2>1, <2>2
    <2> QED BY <2>3 DEF d, d1, e, e1, u, u1, o, o1
<1>8. /\ IsFiniteSet(Beginning')
      /\ Cardinality(Beginning') <= Cardinality(Beginning) + 0
    BY <1>4, FewerBeginning DEF Beginning
<1>9. Counted' <= Counted + 0 /\ 0 \in Int
    BY <1>1, CountSame
<1> QED BY ONLY <1>7, <1>8, <1>9, Balance, TypeOK, TypeOK', HammerInv

LEMMA HammerInit == Init => HammerInv
<1> SUFFICES ASSUME Init PROVE HammerInv
    OBVIOUS
<1>1. Beginning = {} /\ ~UserAtWork
    BY Distinct DEF Init, Beginning, UserAtWork, AtWork
<1>2. IsFiniteSet(Beginning) /\ Cardinality(Beginning) = 0
    BY <1>1, FS_EmptySet
<1>3. OwedByUser = 0 /\ OwedByLaunchd \in {0, 1}
    BY <1>1, OwedRange, Distinct DEF OwedByUser, Init, Procs
<1>4. Cardinality(Accountable) = 0 /\ now = 0 /\ events = 0 /\ LocalDate[0] \in Nat
    <2>1. 0 \in Instants
        BY DEF Instants
    <2>2. Accountable = {}
        BY DEF Init, Accountable
    <2> QED BY <2>1, <2>2, FS_EmptySet DEF Init
<1>5. Cardinality(Accountable) + Owed <= 1 + LocalDate[now] - LocalDate[0] + 2 * events
    BY <1>2, <1>3, <1>4 DEF Owed
<1> QED BY <1>2, <1>5 DEF HammerInv

\* No step brings more runs than are accounted for.
LEMMA HammerNext ==
    ASSUME ClockIsHonest, TypeOK, TypeOK', Ownership, StartInv, HammerInv, [Next]_vars
    PROVE  HammerInv'
<1>1. CASE Reconfigure
    BY <1>1, EventPays, CountSame DEF Reconfigure, Event, AtWork, Beginning, UserAtWork
<1>2. ASSUME NEW p \in Users, Hold(p) PROVE HammerInv'
    <2>1. Beginning' \subseteq Beginning /\ (UserAtWork' => UserAtWork)
        BY <1>2, Distinct DEF Hold, AtWork, TypeOK, Beginning, UserAtWork
    <2>2. events' = events + 1 /\ now' = now /\ Counted' <= Counted
        BY <1>2, CountSame DEF Hold, Event
    <2> QED BY <2>1, <2>2, EventPays
<1>3. ASSUME NEW p \in Procs, Crash(p) PROVE HammerInv'
    <2>1. Beginning' \subseteq Beginning /\ (UserAtWork' => UserAtWork)
        BY <1>3, Distinct DEF Crash, AtWork, TypeOK, Beginning, UserAtWork
    <2>2. events' = events + 1 /\ now' = now /\ Counted' <= Counted
        BY <1>3, CountSame DEF Crash, Event
    <2> QED BY <2>1, <2>2, EventPays
<1>4. ASSUME NEW p \in Procs, Fail(p) PROVE HammerInv'
    <2>1. /\ pc'[p] = "idle" /\ now' = now /\ Counted' <= Counted
          /\ \A q \in Procs \ {p} : pc'[q] = pc[q]
        BY <1>4, EndRunEffect, CountEnd DEF Fail, AtWork
    <2>2. Beginning' \subseteq Beginning /\ (UserAtWork' => UserAtWork)
        BY <2>1, Distinct DEF AtWork, Beginning, UserAtWork
    <2>3. events' = events + 1
        BY <1>4 DEF Fail, Event
    <2> QED BY <2>1, <2>2, <2>3, EventPays
<1>5. CASE UNCHANGED vars
    <2>1. UNCHANGED <<now, settings, feed, runs, pending, lock, pc, job, events>>
        BY <1>5 DEF vars, environment
    <2>2. Lost' <=> Lost
        BY <2>1, SameRuns, LaunchdStays
    <2>3. (UserAtWork' <=> UserAtWork) /\ (Backed' <=> Backed) /\ OwedByUser' <= OwedByUser
        BY <2>1 DEF UserAtWork, Backed, AtWork, OwedByUser
    <2>4. OwedByLaunchd' <= OwedByLaunchd
        BY <2>1, <2>2, <2>3, SameRuns, OwedStays
    <2> QED BY <2>1, <2>3, <2>4, StillOwed, CountSame
<1> QED BY <1>1, <1>2, <1>3, <1>4, <1>5, SchedulePays, TickPays, InvokePays, BeginPays,
           RefusedPays, CollectPays, FinishPays, ReleasePays
        DEF Next, Proceed

-----------------------------------------------------------------------------

\* launchd does not hammer, for any number of users, dates and events: apart
\* from one run a date and the daily runs that met a source in lasting trouble,
\* every run is explained by a command, a fault or a change.  Dates must not go
\* back and commands not work for the future.
THEOREM NoHammeringAlways == ASSUME ClockIsHonest PROVE Spec => []NoHammering
<1> DEFINE HInv == TypeOK /\ Ownership /\ StartInv /\ HammerInv
<1>1. Init => HInv
    BY InitSafe, StartInit, HammerInit DEF IInv
<1>2. HInv /\ [Next]_vars => HInv'
    BY NextSafe, StartNext, HammerNext DEF IInv
<1>3. HInv => NoHammering
    <2> SUFFICES ASSUME TypeOK, HammerInv PROVE NoHammering
        OBVIOUS
    <2>1. Cardinality(Beginning) \in Nat /\ OwedByUser \in {0, 1} /\ OwedByLaunchd \in {0, 1, 2}
        BY FS_CardinalityType, UserRange, OwedRange DEF HammerInv
    <2>2. Owed \in Nat
        BY <2>1 DEF Owed
    <2>3. Counted + Owed <= 1 + LocalDate[now] - LocalDate[0] + 2 * events
        BY DEF HammerInv, Counted
    <2>4. Counted \in Nat /\ LocalDate[now] \in Nat /\ LocalDate[0] \in Nat /\ events \in Nat
        <3>1. 0 \in Instants
            BY DEF Instants
        <3> QED BY <3>1, CountedTyped DEF TypeOK
    <2> QED BY <2>2, <2>3, <2>4 DEF NoHammering, Counted
<1> QED BY <1>1, <1>2, <1>3, PTL DEF Spec
=============================================================================
