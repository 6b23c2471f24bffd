----------------------------- MODULE Installer -----------------------------
(***************************************************************************)
(* operations/install_macos_runtime.sh beside the commands that use the    *)
(* runtime it installs.  A deployment builds releases/<hash>, stops the    *)
(* LaunchAgent, takes the application lock, copies the migration scripts,  *)
(* migrates the database, switches the `current` link and loads the agent  *)
(* again.  Any command of it may fail; a signal runs the trap and the      *)
(* script goes on; SIGKILL and power loss run nothing.                     *)
(*                                                                         *)
(* deploy.lock lets one deployment run at a time, so one process stands    *)
(* for all of them.  A child the killed script leaves behind holds both    *)
(* locks through the inherited descriptors until it ends, so a kill during *)
(* a command is a kill before or after it.  launchd accepts every property *)
(* list of a service that is not loaded yet.                               *)
(***************************************************************************)
EXTENDS Naturals

CONSTANTS
    Releases,   \* release hashes, each one wheel and one uv.lock
    None,       \* no release
    Schema,     \* the revision the code and the scripts of a release know
    LastSchema, \* bound: the newest revision
    MaxFaults   \* bound: failures, signals, kills, power losses, damages

ASSUME SchemaAssumption == LastSchema \in Nat /\ Schema \in [Releases -> 1..LastSchema]
ASSUME FaultsAssumption == MaxFaults \in Nat
ASSUME NoneAssumption == None \notin Releases

\* A job launchd has started, and a command of a user.
Jobs == {"agent", "manual"}
\* export stands for backup and export, run for run and scheduled-run.
Commands == {"run", "export", "migrate"}
\* These ask for the revision before they wait for the application lock, the
\* others while they hold it; migrate does not ask.
ChecksFirst == {"run"}

VARIABLES
    dir,       \* releases/<hash>: none, bare, marked .incomplete, whole, damaged
    current,   \* the release the `current` link names
    head,      \* the newest script in the shared migrations directory
    db,        \* the revision of the database
    plist,     \* the property list is in place
    lock,      \* who holds the application lock
    loaded,    \* launchd has the service loaded
    pc,        \* the next step of the deployment
    target,    \* release_root of the latest deployment
    built,     \* build_root is there, with the wheel
    staged,    \* staging_root is set
    stopped,   \* service_was_loaded
    committed, \* deployment_committed
    killed,    \* ghost: the latest deployment ended without its trap
    job,       \* what each job executes: release, command, revision checked
    faults

runtime == <<current, head, db, plist>>
agent == <<lock, loaded>>
script == <<target, built, staged, stopped, committed, killed>>
others == <<job, faults>>
vars == <<dir, runtime, agent, pc, script, others>>

Steps == {"idle", "inspect", "create", "mark", "fill", "seal", "stop", "lock", "copy",
          "migrate", "switch", "plist", "bootstrap"}
Idle == [rel |-> None, cmd |-> "run", checked |-> FALSE]

Init ==
    /\ dir = [r \in Releases |-> "none"]
    /\ current = None /\ head = 0 /\ db = 0 /\ plist = FALSE
    /\ lock = "free" /\ loaded = FALSE
    /\ pc = "idle" /\ target = None /\ built = FALSE /\ staged = FALSE
    /\ stopped = FALSE /\ committed = FALSE /\ killed = FALSE
    /\ job = [j \in Jobs |-> Idle] /\ faults = 0

At(step) == pc = step
Go(from, to) == pc = from /\ pc' = to
Becomes(state) == dir' = [dir EXCEPT ![target] = state]
Released(who) == IF lock = who THEN "free" ELSE lock

------------------------------------------------------------------------------
\* cleanup(), which the trap runs at the end of the script and on a signal.

Swept == IF staged /\ dir[target] = "marked" THEN [dir EXCEPT ![target] = "none"] ELSE dir
BugReloaded == loaded \/ (stopped /\ current # target /\ plist)
Reloaded == loaded \/ (stopped /\ ~committed /\ plist)

Cleanup ==
    /\ dir' = Swept
    /\ built' = FALSE
    /\ loaded' = Reloaded

\* The script ends without having committed; its descriptors are closed.
Leave ==
    /\ pc' = "idle"
    /\ lock' = Released("installer")
    /\ UNCHANGED <<runtime, target, staged, stopped, committed, killed, job>>

Start(r) ==
    /\ Go("idle", "inspect")
    /\ target' = r
    /\ built' = TRUE /\ staged' = FALSE
    /\ stopped' = FALSE /\ committed' = FALSE /\ killed' = FALSE
    /\ UNCHANGED <<dir, runtime, agent, others>>

\* validate_release of what is there already.
Invalid == dir[target] \in {"bare", "marked", "damaged"}
BugActive == FALSE
Active == current = target

Reuse ==
    /\ Go("inspect", "stop")
    /\ dir[target] = "whole"
    /\ UNCHANGED <<dir, runtime, agent, script, others>>

\* An invalid release is moved aside, unless it is the active one.
BugMakeRoom ==
    /\ Go("inspect", "create")
    /\ Becomes("none")
    /\ UNCHANGED <<runtime, agent, script, others>>
MakeRoom ==
    /\ Go("inspect", "create")
    /\ dir[target] = "none" \/ (Invalid /\ ~Active)
    /\ Becomes("none")
    /\ UNCHANGED <<runtime, agent, script, others>>

Create ==
    /\ Go("create", "mark")
    /\ Becomes("bare")
    /\ staged' = TRUE
    /\ UNCHANGED <<runtime, agent, target, built, stopped, committed, killed, others>>

Mark ==
    /\ Go("mark", "fill")
    /\ Becomes("marked")
    /\ UNCHANGED <<runtime, agent, script, others>>

\* Environment, dependencies, wheel and .release-id go into the marked directory.
Fill ==
    /\ Go("fill", "seal")
    /\ dir[target] = "marked" /\ built
    /\ UNCHANGED <<dir, runtime, agent, script, others>>

\* After a trap the wheel is gone, and a marked directory with it: `uv venv`
\* may make it again, without the marker, before a later command fails.
FillFails ==
    /\ At("fill") /\ ~(dir[target] = "marked" /\ built)
    /\ dir' = Swept \/ (dir[target] = "none" /\ Becomes("bare"))
    /\ built' = FALSE
    /\ loaded' = Reloaded
    /\ Leave /\ UNCHANGED faults

\* validate_release, removal of the marker, validate_release.
Seal ==
    /\ Go("seal", "stop")
    /\ dir[target] = "marked"
    /\ Becomes("whole")
    /\ staged' = FALSE
    /\ UNCHANGED <<runtime, agent, target, built, stopped, committed, killed, others>>

\* The property list is generated in build_root; then the service is booted
\* out, and the job it may be running with it.
Stop ==
    /\ Go("stop", "lock")
    /\ built
    /\ stopped' = loaded
    /\ loaded' = FALSE
    /\ job' = IF loaded THEN [job EXCEPT !["agent"] = Idle] ELSE job
    /\ lock' = IF loaded THEN Released("agent") ELSE lock
    /\ UNCHANGED <<dir, runtime, target, built, staged, committed, killed, faults>>

BugTakeLock ==
    /\ Go("lock", "copy")
    /\ lock = "free"
    /\ UNCHANGED <<dir, runtime, agent, script, others>>
TakeLock ==
    /\ Go("lock", "copy")
    /\ lock = "free"
    /\ lock' = "installer"
    /\ UNCHANGED <<dir, runtime, loaded, script, others>>

\* ditto adds the scripts of the release and removes none.
BugMerged == Schema[target]
Merged == IF Schema[target] > head THEN Schema[target] ELSE head

Copy ==
    /\ Go("copy", "migrate")
    /\ head' = Merged
    /\ UNCHANGED <<dir, current, db, plist, agent, script, others>>

BugBehind == db <= head
BugFirstOnly == db = 0
Behind == db < head

\* `watch-tracker migrate` of the new release, one revision after the other.
Migrate ==
    /\ At("migrate") /\ Behind
    /\ db' = db + 1
    /\ UNCHANGED <<dir, current, head, plist, agent, pc, script, others>>

Migrated ==
    /\ Go("migrate", "switch")
    /\ ~Behind
    /\ UNCHANGED <<dir, runtime, agent, script, others>>

\* A new link is moved over `current`, and the application lock released.
Switch ==
    /\ Go("switch", "plist")
    /\ current' = target
    /\ lock' = Released("installer")
    /\ UNCHANGED <<dir, head, db, plist, loaded, script, others>>

InstallPlist ==
    /\ Go("plist", "bootstrap")
    /\ built
    /\ plist' = TRUE
    /\ UNCHANGED <<dir, current, head, db, agent, script, others>>

Bootstrap ==
    /\ Go("bootstrap", "idle")
    /\ ~loaded
    /\ loaded' = TRUE
    /\ committed' = TRUE
    /\ built' = FALSE
    /\ UNCHANGED <<dir, runtime, lock, target, staged, stopped, killed, others>>

\* The next command cannot succeed: the active release is invalid, the lock is
\* held for too long, or a trap has removed build_root or staging_root or has
\* loaded the service.
Stuck ==
    \/ At("inspect") /\ Invalid /\ Active
    \/ At("seal") /\ dir[target] # "marked"
    \/ pc \in {"stop", "plist"} /\ ~built
    \/ At("lock") /\ lock # "free"
    \/ At("bootstrap") /\ loaded

GiveUp == Stuck /\ Cleanup /\ Leave /\ UNCHANGED faults

Deployment ==
    \/ Reuse \/ MakeRoom \/ Create \/ Mark \/ Fill \/ FillFails \/ Seal \/ Stop \/ TakeLock
    \/ Copy \/ Migrate \/ Migrated \/ Switch \/ InstallPlist \/ Bootstrap \/ GiveUp

------------------------------------------------------------------------------
\* What may go wrong.

Fault == faults < MaxFaults /\ faults' = faults + 1

\* A command fails, or dies of an interrupt: `set -e` ends the script.
Fail == ~At("idle") /\ Fault /\ Cleanup /\ Leave

\* A signal to the script alone: the trap returns and the next command runs.
Signal ==
    /\ ~At("idle") /\ Fault
    /\ Cleanup
    /\ UNCHANGED <<runtime, lock, pc, target, staged, stopped, committed, killed, job>>

Kill ==
    /\ ~At("idle") /\ Fault
    /\ pc' = "idle"
    /\ lock' = Released("installer")
    /\ killed' = TRUE
    /\ UNCHANGED <<dir, runtime, loaded, target, built, staged, stopped, committed, job>>

\* At the next login launchd loads the property list it finds.
PowerLoss ==
    /\ Fault
    /\ pc' = "idle"
    /\ lock' = "free"
    /\ killed' = (killed \/ ~At("idle"))
    /\ loaded' = plist
    /\ job' = [j \in Jobs |-> Idle]
    /\ UNCHANGED <<dir, runtime, target, built, staged, stopped, committed>>

\* Something else breaks a published release: its interpreter is removed.
Damage(r) ==
    /\ Fault
    /\ dir[r] = "whole"
    /\ dir' = [dir EXCEPT ![r] = "damaged"]
    /\ UNCHANGED <<runtime, agent, pc, script, job>>

------------------------------------------------------------------------------
\* The commands.  launchd starts scheduled-run while the service is loaded; a
\* user starts what he likes.  The code is that of the release `current` names
\* at the start, whatever happens to the link later.

installation == <<dir, current, head, plist, loaded, pc, script, faults>>
Busy(j) == job[j].rel # None
Working(j) == job[j].checked /\ lock = j

Launch(j, cmd) ==
    /\ ~Busy(j) /\ current # None
    /\ j = "agent" => loaded /\ cmd = "run"
    /\ job' = [job EXCEPT ![j] = [rel |-> current, cmd |-> cmd, checked |-> FALSE]]
    /\ UNCHANGED <<installation, db, lock>>

\* assert_at_head lets the command go on.
Check(j) ==
    /\ Busy(j) /\ job[j].cmd # "migrate"
    /\ job[j].cmd \in ChecksFirst \/ lock = j
    /\ db = head
    /\ job' = [job EXCEPT ![j].checked = TRUE]
    /\ UNCHANGED <<installation, db, lock>>

Acquire(j) ==
    /\ Busy(j) /\ lock = "free"
    /\ job[j].cmd \in ChecksFirst => job[j].checked
    /\ lock' = j
    /\ UNCHANGED <<installation, db, job>>

MigrateByHand(j) ==
    /\ Busy(j) /\ job[j].cmd = "migrate" /\ lock = j
    /\ Behind
    /\ db' = db + 1
    /\ UNCHANGED <<installation, lock, job>>

\* Done, refused, timed out or killed.
End(j) ==
    /\ Busy(j)
    /\ job' = [job EXCEPT ![j] = Idle]
    /\ lock' = Released(j)
    /\ UNCHANGED <<installation, db>>

Next ==
    \/ \E r \in Releases : Start(r) \/ Damage(r)
    \/ Deployment
    \/ Fail \/ Signal \/ Kill \/ PowerLoss
    \/ \E j \in Jobs :
        \/ \E cmd \in Commands : Launch(j, cmd)
        \/ Check(j) \/ Acquire(j) \/ MigrateByHand(j) \/ End(j)

Spec == Init /\ [][Next]_vars

\* The commands of the script end, and its wait for the lock is bounded: a
\* deployment that has begun goes on.  Nothing makes anyone begin one.
FairSpec == Spec /\ WF_vars(Deployment)

------------------------------------------------------------------------------
\* Types, and the order of the revisions.
TypeOK ==
    /\ dir \in [Releases -> {"none", "bare", "marked", "whole", "damaged"}]
    /\ current \in Releases \cup {None}
    /\ head \in 0..LastSchema /\ db \in 0..head
    /\ plist \in BOOLEAN /\ loaded \in BOOLEAN
    /\ lock \in {"free", "installer"} \cup Jobs
    /\ pc \in Steps /\ target \in Releases \cup {None}
    /\ built \in BOOLEAN /\ staged \in BOOLEAN /\ stopped \in BOOLEAN
    /\ committed \in BOOLEAN /\ killed \in BOOLEAN
    /\ job \in [Jobs -> [rel : Releases \cup {None}, cmd : Commands, checked : BOOLEAN]]
    /\ faults \in 0..MaxFaults

\* `current` names a release that was completed and validated, and whose
\* directory is still at its path: no interrupted build is ever made active,
\* and neither the trap nor the quarantine takes the active release away.
ActiveIsPublished == current # None => dir[current] \in {"whole", "damaged"}

\* The database is at least at the revision of the release that is active and
\* of every release whose code is at work on it, also after older releases
\* were deployed again, a deployment died in between, or a command waited for
\* the lock while another release was installed.
SchemaIsNeverBehind ==
    /\ current # None => Schema[current] <= db
    /\ \A j \in Jobs : Working(j) => Schema[job[j].rel] <= db

\* backup and export work only on a database at the head of the scripts: they
\* ask under the lock, and scripts are copied and applied only under it.
ExportIsAtHead == \A j \in Jobs : Working(j) /\ job[j].cmd = "export" => db = head

\* After a deployment that committed, until the next one begins, the service
\* is loaded, `current` names the release that was deployed, and assert_at_head
\* lets its runs through, whatever was deployed, failed or was half deployed
\* before.
CommittedIsRunnable == committed => loaded /\ current = target /\ db = head

\* Scripts, database and link stand still while a command works on the
\* database.
NothingMovesUnderARun ==
    [][(\E j \in Jobs : Working(j)) => UNCHANGED <<head, db, current>>]_vars

\* A published release is never written to or removed; one that something else
\* has damaged is at most moved aside, and not while it is active.
PublishedIsImmutable ==
    [][\A r \in Releases :
        /\ dir[r] = "whole" => dir'[r] \in {"whole", "damaged"}
        /\ dir[r] = "damaged" => dir'[r] = "damaged" \/ (dir'[r] = "none" /\ r # current)]_vars

\* A deployment that stops a loaded service ends with the service loaded,
\* unless it is killed without its trap: whatever fails, and wherever a signal
\* makes the trap load the service in the middle.
ServiceReturns == (At("stop") /\ loaded) ~> ((At("idle") /\ loaded) \/ killed)
=============================================================================
