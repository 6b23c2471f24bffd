---------------------------- MODULE MCScheduler ----------------------------
(* Instances of Scheduler for TLC. *)
EXTENDS Scheduler, TLC

\* Two instants a date.
TwoDates == [t \in Instants |-> t \div 2]

\* Commands work for the present instant or any earlier one.
PresentOrPast == [t \in Instants |-> 0..t]

\* So that the hypothesis of NoHammeringAlways (SchedulerProofs) is fulfilled.
ASSUME InstanceIsHonest == ClockIsHonest

\* The feed needs its file; Reddit, if enabled besides, has its credentials
\* rejected in every run.
OneOrTwoSources ==
    [x \in Settings \X Feeds |->
        IF x[1] = "feed only"
        THEN IF x[2] = "missing" THEN "gated" ELSE "ready"
        ELSE IF x[2] = "missing" THEN "failing" ELSE "mixed"]
=============================================================================
