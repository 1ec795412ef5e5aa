------------------------------- MODULE Daemon -------------------------------
(***************************************************************************)
(* The persistent daemon (aegisx_agent/scheduler/daemon.py) on top of       *)
(* Scheduler: run_forever polls, runs at most Cap due tasks one after the   *)
(* other, sleeps, and ends once a stop was requested.  `aegisx daemon run`  *)
(* wraps it in asyncio.run without installing its signal handlers, so that  *)
(* Ctrl-C cancels the coroutine.  Other coroutines of the same process may  *)
(* run tasks by hand beside it.                                             *)
(***************************************************************************)
EXTENDS Scheduler

CONSTANTS
    D,      \* the runner that executes run_forever
    Cap,    \* catch_up_limit
    Rank    \* Rank[t]: position of t in Scheduler._tasks

ASSUME DaemonAssumption ==
    /\ D \in Loops /\ Proc = {Home[D]}
    /\ Cap \in Nat \ {0}
    /\ Rank \in [Task -> Nat] /\ \A a, b \in Task : Rank[a] = Rank[b] => a = b

VARIABLES
    mode,         \* "cycle": inside _cycle; "sleep": between cycles; "exited"
    stop,         \* the _stop event
    interrupted   \* Ctrl-C was pressed since the daemon started

dvars == <<mode, stop, interrupted>>
allvars == <<vars, dvars>>

DaemonInit ==
    /\ Init
    /\ mode = "sleep" /\ stop = FALSE /\ interrupted = FALSE

-----------------------------------------------------------------------------
Before(t, tasks) == {u \in tasks : Rank[u] < Rank[t]}

\* due[:cap], in the order of Scheduler._tasks.
Capped(due) == {t \in due : Cardinality(Before(t, due)) < Cap}

\* The daemon is awake and not stopped: _cycle reads the due tasks.
Cycle ==
    /\ mode = "sleep" /\ ~stop
    /\ Poll(D, Capped(DueTasks(Home[D])))
    /\ mode' = "cycle"
    /\ UNCHANGED <<stop, interrupted>>

CycleRuns(t) ==
    /\ mode = "cycle" /\ Before(t, batch[D]) = {}
    /\ RunNext(D, t)
    /\ UNCHANGED dvars

\* The list is done; a stop request skips the sleep.
CycleEnds ==
    /\ mode = "cycle" /\ batch[D] = {} /\ pc[D] = "idle"
    /\ mode' = IF stop THEN "exited" ELSE "sleep"
    /\ UNCHANGED <<vars, stop, interrupted>>

\* Mutant: the backlog is to be worked off first.
SleepEndsWhenIdle ==
    /\ mode = "sleep" /\ stop /\ up[Home[D]] /\ DueTasks(Home[D]) = {}
    /\ mode' = "exited"
    /\ UNCHANGED <<vars, stop, interrupted>>

\* The sleep notices the stop request at its next slice.
SleepEnds ==
    /\ mode = "sleep" /\ stop /\ up[Home[D]]
    /\ mode' = "exited"
    /\ UNCHANGED <<vars, stop, interrupted>>

RequestStop ==
    /\ up[Home[D]] /\ ~stop
    /\ stop' = TRUE
    /\ UNCHANGED <<vars, mode, interrupted>>

\* The first Ctrl-C cancels the coroutine.  Inside _cycle the CancelledError
\* reaches run_task, which returns "Cancelled"; in asyncio.sleep it ends
\* run_forever, and the command calls request_stop.
CtrlC ==
    /\ up[Home[D]] /\ ~interrupted
    /\ interrupted' = TRUE
    /\ \/ Interrupt(D) /\ UNCHANGED <<mode, stop>>
       \/ /\ mode = "sleep"
          /\ mode' = "exited" /\ stop' = TRUE
          /\ UNCHANGED vars

DaemonStep == Cycle \/ (\E t \in Task : CycleRuns(t)) \/ CycleEnds \/ SleepEnds

\* The process dies, and its daemon with it.
Die ==
    /\ Stop(Home[D])
    /\ mode' = "sleep" /\ stop' = FALSE /\ interrupted' = FALSE

\* A process that starts also starts a daemon.
Restart ==
    /\ LoadTasks(Home[D])
    /\ mode' = "sleep" /\ stop' = FALSE /\ interrupted' = FALSE

\* What else the process does: a coroutine inside run_task takes a step, users
\* act, other coroutines run tasks by hand.  Once run_forever has returned the
\* process only exits.
RunStep(r) ==
    /\ mode # "exited"
    /\ BuildAgent(r) \/ ChatEnds(r) \/ RunReturns(r)

OthersStep(t) ==
    /\ mode # "exited"
    /\ UserStep(Home[D], t) \/ \E r \in Runner : RunNow(r, t)

Beside ==
    \/ \E r \in Runner : RunStep(r)
    \/ \E t \in Task : OthersStep(t) \/ Tick(t)

DaemonNext ==
    \/ DaemonStep \/ RequestStop \/ CtrlC \/ Restart \/ Die
    \/ Beside /\ UNCHANGED dvars

\* The event loop runs every ready coroutine, the daemon polls again after its
\* sleep, and wait_for bounds a run by the task's timeout.  Users, crashes,
\* restarts, Ctrl-C and the clock are not obliged to do anything.
DaemonFairness ==
    /\ WF_allvars(DaemonStep)
    /\ \A r \in Runner : WF_allvars(RunStep(r) /\ UNCHANGED dvars)

DaemonSpec == DaemonInit /\ [][DaemonNext]_allvars /\ DaemonFairness

-----------------------------------------------------------------------------
\* At least Cap due tasks stand before t, so that the cap would cut it off.
Crowded(t) == Cardinality(Before(t, DueTasks(Home[D]))) >= Cap

\* A task that is due is run, or stops being due because a user changed it, or
\* is behind a backlog of Cap earlier tasks at some later moment, as long as no
\* stop is requested and the process does not die: whatever its status, and
\* whatever happens to the runs before it, a task with fewer than Cap due tasks
\* before it from some moment on is served.  (get_due_tasks and due[:limit]
\* under run_forever; nothing rotates the backlog, so that the tasks before it
\* may starve a task for ever.)
DueServed ==
    \A t \in Task :
        (t \in known[Home[D]] /\ IsDue(t, mem[Home[D]][t])) ~>
            (\/ t \notin known[Home[D]]
             \/ ~IsDue(t, mem[Home[D]][t])
             \/ \E r \in Runner : job[r] = t
             \/ Crowded(t)
             \/ stop \/ mode = "exited" \/ ~up[Home[D]])

\* After request_stop the daemon ends whatever the tasks do, unless its process
\* dies.  (run_forever, with every run bounded by its timeout.)
StopHonoured == stop ~> (mode = "exited" \/ ~up[Home[D]])

\* "SIGINT/SIGTERM flip a stop event": after Ctrl-C the daemon stops.
InterruptStops == interrupted ~> (mode = "exited" \/ ~up[Home[D]])

=============================================================================
