-------------------------- MODULE InstallerProofs --------------------------
(***************************************************************************)
(* Proofs about Installer, for any set of releases, revisions and faults.  *)
(***************************************************************************)
EXTENDS Installer, TLAPS

Published == {"whole", "damaged"}

\* What the next step of the deployment may rely on.
Progress ==
    /\ pc # "idle" => target \in Releases /\ ~committed
    /\ pc = "create" => dir[target] = "none"
    /\ pc = "mark" => dir[target] = "bare"
    /\ pc \in {"stop", "lock", "copy", "migrate", "switch", "plist", "bootstrap"}
        => dir[target] \in Published
    /\ lock = "installer" <=> pc \in {"copy", "migrate", "switch"}
    /\ pc \in {"migrate", "switch"} => Schema[target] <= head
    /\ pc \in {"switch", "plist", "bootstrap"} => db = head
    /\ pc \in {"plist", "bootstrap"} => current = target
    /\ pc = "bootstrap" => plist
    /\ committed => plist

ActiveIsServed == current # None => Schema[current] <= db

\* What a job has asked for, and what it may still assume.
JobInv(j) ==
    /\ Busy(j) => Schema[job[j].rel] <= db
    /\ job[j].checked => Busy(j) /\ job[j].cmd # "migrate"
    /\ job[j].checked /\ job[j].cmd = "export" => lock = j /\ db = head

IInv ==
    /\ TypeOK
    /\ ActiveIsPublished
    /\ Progress
    /\ ActiveIsServed
    /\ CommittedIsRunnable
    /\ \A j \in Jobs : JobInv(j)

\* What the trap leaves is of the right type.
LEMMA CleanupKeepsTypes ==
  ASSUME TypeOK
  PROVE  /\ Swept \in [Releases -> {"none", "bare", "marked", "whole", "damaged"}]
         /\ Reloaded \in BOOLEAN
<1>1. Swept \in [Releases -> {"none", "bare", "marked", "whole", "damaged"}]
  BY DEF TypeOK, Swept
<1>2. Reloaded \in BOOLEAN
  BY DEF TypeOK, Reloaded
<1> QED
  BY <1>1, <1>2

\* Every step of the script keeps the invariant.
LEMMA DeploymentKeeps ==
  ASSUME IInv, Deployment
  PROVE  IInv'
<1> USE SchemaAssumption, FaultsAssumption, NoneAssumption
<1> USE DEF IInv, TypeOK, ActiveIsPublished, Progress, ActiveIsServed, CommittedIsRunnable, JobInv,
            Published, Jobs, Commands, Steps, Idle, runtime, agent, script, others, installation,
            At, Go, Becomes, Released, Busy
<1>1. CASE Reuse
  BY <1>1 DEF Reuse
<1>2. CASE MakeRoom
  BY <1>2 DEF MakeRoom, Invalid, Active
<1>3. CASE Create
  BY <1>3 DEF Create
<1>4. CASE Mark
  BY <1>4 DEF Mark
<1>5. CASE Fill
  BY <1>5 DEF Fill
<1>6. CASE FillFails
  BY <1>6 DEF FillFails, Swept, Reloaded, Leave
<1>7. CASE Seal
  BY <1>7 DEF Seal
<1>8. CASE Stop
  BY <1>8 DEF Stop
<1>9. CASE TakeLock
  BY <1>9 DEF TakeLock
<1>10. CASE Copy
  BY <1>10 DEF Copy, Merged
<1>11. CASE Migrate
  BY <1>11 DEF Migrate, Behind
<1>12. CASE Migrated
  BY <1>12 DEF Migrated, Behind
<1>13. CASE Switch
  BY <1>13 DEF Switch
<1>14. CASE InstallPlist
  BY <1>14 DEF InstallPlist
<1>15. CASE Bootstrap
  BY <1>15 DEF Bootstrap
<1>16. CASE GiveUp
  <2>1. TypeOK'
    BY <1>16 DEF GiveUp, Stuck, Invalid, Active, Cleanup, Swept, Reloaded, Leave
  <2>2. Progress'
    BY <1>16 DEF GiveUp, Stuck, Invalid, Active, Cleanup, Swept, Reloaded, Leave
  <2>3. ASSUME NEW i \in Jobs PROVE JobInv(i)'
    BY <1>16 DEF GiveUp, Stuck, Invalid, Active, Cleanup, Swept, Reloaded, Leave
  <2> QED
    BY <1>16, <2>1, <2>2, <2>3 DEF GiveUp, Stuck, Invalid, Active, Cleanup, Swept, Reloaded, Leave
<1> QED
  BY <1>1, <1>2, <1>3, <1>4, <1>5, <1>6, <1>7, <1>8, <1>9, <1>10, <1>11, <1>12, <1>13, <1>14, <1>15, <1>16 DEF Deployment

\* So do its beginning and everything that goes wrong.
LEMMA FaultsKeep ==
  ASSUME IInv, (\E r \in Releases : Start(r) \/ Damage(r)) \/ Fail \/ Signal \/ Kill \/ PowerLoss
  PROVE  IInv'
<1> USE SchemaAssumption, FaultsAssumption, NoneAssumption
<1> USE DEF IInv, TypeOK, ActiveIsPublished, Progress, ActiveIsServed, CommittedIsRunnable, JobInv,
            Published, Jobs, Commands, Steps, Idle, runtime, agent, script, others, installation,
            At, Go, Becomes, Released, Busy
<1>1. CASE \E r \in Releases : Start(r)
  BY <1>1 DEF Start
<1>2. CASE \E r \in Releases : Damage(r)
  BY <1>2 DEF Damage, Fault
<1>3. CASE Fail
  <2>1. TypeOK'
    <3>1. dir' \in [Releases -> {"none", "bare", "marked", "whole", "damaged"}] /\ loaded' \in BOOLEAN
      BY <1>3, CleanupKeepsTypes DEF Fail, Cleanup
    <3>2. faults' \in 0..MaxFaults
      BY <1>3 DEF Fail, Fault
    <3>3. built' = FALSE
      BY <1>3 DEF Fail, Cleanup
    <3> QED
      BY <1>3, <3>1, <3>2, <3>3 DEF Fail, Leave
  <2>2. Progress'
    BY <1>3 DEF Fail, Fault, Cleanup, Swept, Reloaded, Leave
  <2>3. ASSUME NEW i \in Jobs PROVE JobInv(i)'
    BY <1>3 DEF Fail, Fault, Cleanup, Swept, Reloaded, Leave
  <2> QED
    BY <1>3, <2>1, <2>2, <2>3 DEF Fail, Fault, Cleanup, Swept, Reloaded, Leave
<1>4. CASE Signal
  <2>1. TypeOK'
    <3>1. dir' \in [Releases -> {"none", "bare", "marked", "whole", "damaged"}] /\ loaded' \in BOOLEAN
      BY <1>4, CleanupKeepsTypes DEF Signal, Cleanup
    <3>2. faults' \in 0..MaxFaults
      BY <1>4 DEF Signal, Fault
    <3>3. built' = FALSE
      BY <1>4 DEF Signal, Cleanup
    <3> QED
      BY <1>4, <3>1, <3>2, <3>3 DEF Signal
  <2>2. Progress'
    BY <1>4 DEF Signal, Fault, Cleanup, Swept, Reloaded
  <2>3. ASSUME NEW i \in Jobs PROVE JobInv(i)'
    BY <1>4 DEF Signal, Fault, Cleanup, Swept, Reloaded
  <2> QED
    BY <1>4, <2>1, <2>2, <2>3 DEF Signal, Fault, Cleanup, Swept, Reloaded
<1>5. CASE Kill
  BY <1>5 DEF Kill, Fault
<1>6. CASE PowerLoss
  BY <1>6 DEF PowerLoss, Fault
<1> QED
  BY <1>1, <1>2, <1>3, <1>4, <1>5, <1>6

\* So do the commands.
LEMMA JobsKeep ==
  ASSUME IInv, NEW j \in Jobs,
         (\E cmd \in Commands : Launch(j, cmd)) \/ Check(j) \/ Acquire(j) \/ MigrateByHand(j) \/ End(j)
  PROVE  IInv'
<1> USE SchemaAssumption, FaultsAssumption, NoneAssumption
<1> USE DEF IInv, TypeOK, ActiveIsPublished, Progress, ActiveIsServed, CommittedIsRunnable, JobInv,
            Published, Jobs, Commands, Steps, Idle, runtime, agent, script, others, installation,
            At, Go, Becomes, Released, Busy
<1>1. CASE \E cmd \in Commands : Launch(j, cmd)
  BY <1>1 DEF Launch
<1>2. CASE Check(j)
  <2>1. TypeOK'
    <3>1. job' \in [Jobs -> [rel : Releases \cup {None}, cmd : Commands, checked : BOOLEAN]]
      BY <1>2 DEF Check
    <3> QED
      BY <1>2, <3>1 DEF Check
  <2>2. Progress'
    BY <1>2 DEF Check, ChecksFirst
  <2>3. ASSUME NEW i \in Jobs PROVE JobInv(i)'
    BY <1>2 DEF Check, ChecksFirst
  <2> QED
    BY <1>2, <2>1, <2>2, <2>3 DEF Check, ChecksFirst
<1>3. CASE Acquire(j)
  BY <1>3 DEF Acquire
<1>4. CASE MigrateByHand(j)
  BY <1>4 DEF MigrateByHand, Behind
<1>5. CASE End(j)
  BY <1>5 DEF End
<1> QED
  BY <1>1, <1>2, <1>3, <1>4, <1>5

\* The inductive invariant: the types, what the next step of the script may
\* rely on, and what a job may still assume.
THEOREM InstallerIsSound == Spec => []IInv
<1>1. Init => IInv
  <2> SUFFICES ASSUME Init PROVE IInv
    OBVIOUS
  <2>1. head \in 0..LastSchema /\ db \in 0..head /\ faults \in 0..MaxFaults
    BY SchemaAssumption, FaultsAssumption DEF Init
  <2>2. TypeOK
    BY <2>1 DEF Init, TypeOK, Jobs, Commands, Steps, Idle
  <2>3. ActiveIsPublished /\ Progress /\ ActiveIsServed /\ CommittedIsRunnable
    BY DEF Init, ActiveIsPublished, Progress, ActiveIsServed, CommittedIsRunnable
  <2>4. \A j \in Jobs : JobInv(j)
    BY DEF Init, JobInv, Busy, Idle
  <2> QED
    BY <2>2, <2>3, <2>4 DEF IInv
<1>2. IInv /\ [Next]_vars => IInv'
  <2> SUFFICES ASSUME IInv, [Next]_vars PROVE IInv'
    OBVIOUS
  <2>1. CASE UNCHANGED vars
    BY <2>1 DEF vars, runtime, agent, script, others, IInv, TypeOK, ActiveIsPublished, Progress,
                ActiveIsServed, CommittedIsRunnable, JobInv, Busy, Published
  <2>2. CASE Next
    BY <2>2, DeploymentKeeps, FaultsKeep, JobsKeep DEF Next
  <2> QED
    BY <2>1, <2>2
<1> QED
  BY <1>1, <1>2, PTL DEF Spec

\* Every variable keeps its type, and the database is never ahead of the
\* scripts it was migrated with.
THEOREM TypeCorrect == Spec => []TypeOK
<1>1. IInv => TypeOK
  BY DEF IInv
<1> QED
  BY <1>1, InstallerIsSound, PTL

\* `current` never names a release that is missing, interrupted or moved away.
THEOREM ActiveIsPublishedAlways == Spec => []ActiveIsPublished
<1>1. IInv => ActiveIsPublished
  BY DEF IInv
<1> QED
  BY <1>1, InstallerIsSound, PTL

\* No release serves, and no code works on, a database older than it expects.
THEOREM SchemaIsNeverBehindAlways == Spec => []SchemaIsNeverBehind
<1>1. IInv => SchemaIsNeverBehind
  BY DEF IInv, ActiveIsServed, JobInv, SchemaIsNeverBehind, Working
<1> QED
  BY <1>1, InstallerIsSound, PTL

\* backup and export work at the head of the scripts only.
THEOREM ExportIsAtHeadAlways == Spec => []ExportIsAtHead
<1>1. IInv => ExportIsAtHead
  BY DEF IInv, JobInv, ExportIsAtHead, Working
<1> QED
  BY <1>1, InstallerIsSound, PTL

\* After a committed deployment runs of the loaded service pass assert_at_head.
THEOREM CommittedIsRunnableAlways == Spec => []CommittedIsRunnable
<1>1. IInv => CommittedIsRunnable
  BY DEF IInv
<1> QED
  BY <1>1, InstallerIsSound, PTL

\* Scripts, database and link change only while no command is at work.
THEOREM NothingMovesUnderARunAlways == Spec => NothingMovesUnderARun
<1>1. IInv /\ [Next]_vars => [(\E j \in Jobs : Working(j)) => UNCHANGED <<head, db, current>>]_vars
  <2> SUFFICES ASSUME IInv, [Next]_vars, NEW j \in Jobs, Working(j)
               PROVE  UNCHANGED <<head, db, current>>
    OBVIOUS
  <2>1. lock = j /\ job[j].cmd # "migrate" /\ pc \notin {"copy", "migrate", "switch"}
    BY DEF IInv, Progress, JobInv, Working, Jobs
  <2>2. CASE UNCHANGED vars
    BY <2>2 DEF vars, runtime
  <2>3. CASE Deployment
    BY <2>1, <2>3 DEF Deployment, Reuse, MakeRoom, Create, Mark, Fill, FillFails, Seal, Stop, TakeLock, Copy,
                      Migrate, Migrated, Switch, InstallPlist, Bootstrap, GiveUp, Leave, At, Go, runtime
  <2>4. CASE (\E r \in Releases : Start(r) \/ Damage(r)) \/ Fail \/ Signal \/ Kill \/ PowerLoss
    BY <2>4 DEF Start, Damage, Fail, Signal, Kill, PowerLoss, Leave, runtime
  <2>5. ASSUME NEW i \in Jobs,
               (\E cmd \in Commands : Launch(i, cmd)) \/ Check(i) \/ Acquire(i) \/ MigrateByHand(i) \/ End(i)
        PROVE  UNCHANGED <<head, db, current>>
    BY <2>1, <2>5 DEF Launch, Check, Acquire, MigrateByHand, End, installation
  <2> QED
    BY <2>2, <2>3, <2>4, <2>5 DEF Next
<1> QED
  BY <1>1, InstallerIsSound, PTL DEF Spec, NothingMovesUnderARun

\* Nothing the script, its trap or a killed deployment does changes a release
\* that is published, or takes the active one away.
THEOREM PublishedIsImmutableAlways == Spec => PublishedIsImmutable
<1> DEFINE Kept(r) ==
        /\ dir[r] = "whole" => dir'[r] \in {"whole", "damaged"}
        /\ dir[r] = "damaged" => dir'[r] = "damaged" \/ (dir'[r] = "none" /\ r # current)
<1>1. IInv /\ [Next]_vars => [\A r \in Releases : Kept(r)]_vars
  <2> SUFFICES ASSUME IInv, [Next]_vars, NEW r \in Releases PROVE Kept(r)
    OBVIOUS
  <2>1. CASE UNCHANGED dir
    BY <2>1
  <2>2. CASE MakeRoom
    BY <2>2 DEF IInv, TypeOK, MakeRoom, Invalid, Active, Becomes
  <2>3. CASE Create \/ Mark \/ Seal
    BY <2>3 DEF IInv, TypeOK, Progress, Create, Mark, Seal, Becomes, Go
  <2>4. CASE dir' = Swept
    BY <2>4 DEF IInv, TypeOK, Swept
  <2>5. CASE FillFails
    BY <2>4, <2>5 DEF IInv, TypeOK, FillFails, Becomes
  <2>6. CASE \E q \in Releases : Damage(q)
    BY <2>6 DEF IInv, TypeOK, Damage
  <2> HIDE DEF Kept
  <2>7. CASE Deployment
    BY <2>1, <2>2, <2>3, <2>4, <2>5, <2>7
    DEF Deployment, Reuse, Fill, Stop, TakeLock, Copy, Migrate, Migrated, Switch, InstallPlist, Bootstrap,
        GiveUp, Cleanup
  <2>8. CASE (\E q \in Releases : Start(q)) \/ Fail \/ Signal \/ Kill \/ PowerLoss
    BY <2>1, <2>4, <2>8 DEF Start, Fail, Signal, Kill, PowerLoss, Cleanup
  <2>9. ASSUME NEW j \in Jobs,
               (\E cmd \in Commands : Launch(j, cmd)) \/ Check(j) \/ Acquire(j) \/ MigrateByHand(j) \/ End(j)
        PROVE  Kept(r)
    BY <2>1, <2>9 DEF Launch, Check, Acquire, MigrateByHand, End, installation
  <2> QED
    BY <2>1, <2>6, <2>7, <2>8, <2>9 DEF Next, vars
<1> QED
  BY <1>1, InstallerIsSound, PTL DEF Spec, PublishedIsImmutable
=============================================================================
