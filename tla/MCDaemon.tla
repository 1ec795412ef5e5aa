------------------------------ MODULE MCDaemon ------------------------------
(* Instances of Daemon for TLC: every runner lives in the daemon's process. *)
EXTENDS Daemon

HomeOne == [r \in Runner |-> CHOOSE p \in Proc : TRUE]
AllMisconfigured == [t \in Task |-> "misconfigured"]

\* Some order of the tasks.
AnyRank ==
    CHOOSE f \in [Task -> 1 .. Cardinality(Task)] : \A a, b \in Task : a # b => f[a] # f[b]

\* The first task is on a schedule, the others run once.
FirstRecurring == [t \in Task |-> IF AnyRank[t] = 1 THEN "recurring" ELSE "once"]

=============================================================================
