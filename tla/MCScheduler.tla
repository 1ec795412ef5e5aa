---------------------------- MODULE MCScheduler ----------------------------
(* Instances of Scheduler for TLC. *)
EXTENDS Scheduler

\* Every runner in one process.
HomeOne == [r \in Runner |-> CHOOSE p \in Proc : TRUE]

AllMisconfigured == [t \in Task |-> "misconfigured"]
AllRecurring == [t \in Task |-> "recurring"]

=============================================================================
