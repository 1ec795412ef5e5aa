----------------------------- MODULE Scheduler -----------------------------
(***************************************************************************)
(* The autonomous-task scheduler (aegisx_agent/scheduler/engine.py): task   *)
(* objects in the memory of each process, one SQLite row per task shared    *)
(* by all of them, and the coroutines that run tasks.                       *)
(*                                                                          *)
(* A process is one Python interpreter that built an AegisXAgent: a daemon, *)
(* a REPL, a one-shot CLI command.  A runner is one coroutine of a process  *)
(* that calls run_task: a loop over get_due_tasks (start_background_loop,   *)
(* run_due_tasks, the daemon's cycle), or a call of run_scheduled_task_now. *)
(* Code between two awaits is one action, or a chain of actions that holds  *)
(* the event loop; every SQLite statement is inside such an action.  A      *)
(* timestamp next_run is abstracted to "none" (empty), "later" (in the      *)
(* future) or "now" (due).                                                  *)
(***************************************************************************)
EXTENDS Naturals, FiniteSets

CONSTANTS
    Proc,         \* processes that share the database file
    Runner,       \* coroutines that execute run_task
    Home,         \* Home[r]: the process runner r lives in
    Loops,        \* the runners that poll; the others are run-now calls
    Task,         \* task ids (uuid4 prefixes: never reused)
    Kind,         \* Kind[t]: "once", "recurring", or "misconfigured"
    MaxRetries,   \* max_retries of every task
    Message,      \* failure messages, the timeout message among them
    RetryCap,     \* bound: retry_count saturates here
    NoTask,       \* no task, no row
    NoRunner      \* no entry in _active_runs

ASSUME HomeAssumption == Home \in [Runner -> Proc] /\ Loops \subseteq Runner
ASSUME KindAssumption == Kind \in [Task -> {"once", "recurring", "misconfigured"}]
ASSUME BoundsAssumption == MaxRetries \in Nat /\ RetryCap \in Nat \ {0}
ASSUME NamesAssumption ==
    /\ NoRunner \notin Runner
    /\ NoTask \notin Task
    /\ Message \cap {"none", "result", "cancelled"} = {}

VARIABLES
    row,      \* row[t]: the row of scheduled_tasks, or NoTask
    used,     \* ids handed out by add_task so far
    up,       \* up[p]: process p is running
    known,    \* known[p]: the keys of Scheduler._tasks
    mem,      \* mem[p][t]: the ScheduledTask object; survives del _tasks[t]
    active,   \* active[p][t]: _active_runs, the runner owning the handle
    batch,    \* batch[r]: tasks of the last get_due_tasks not yet run
    pc,       \* pc[r]: "idle", "created", "chatting" or "ended"
    job,      \* job[r]: the task r is running
    signal,   \* signal[r]: cancel() was called on the run of r
    outcome   \* outcome[r]: how the inner asyncio task ended

disk == <<row, used>>
process == <<up, known, mem, active>>
runner == <<batch, pc, job, signal, outcome>>
vars == <<row, used, up, known, mem, active, batch, pc, job, signal, outcome>>

Status == {"pending", "running", "completed", "failed", "paused"}
Checkpoint == {"none", "running", "completed", "failed", "paused", "cancelled",
               "cancelled_before_start", "cancellation_requested", "resumed",
               "resumed_after_restart"}

\* ScheduledTask, reduced to the fields the scheduler reads: ran is
\* run_count > 0; message and streak are metadata.failure_fingerprint and
\* metadata.failure_streak (only compared with max_retries: saturates above).
TaskRecord ==
    [status : Status, enabled : BOOLEAN, cancel : BOOLEAN,
     next : {"none", "later", "now"}, ckpt : Checkpoint, ran : BOOLEAN,
     retry : 0 .. RetryCap, streak : 0 .. MaxRetries + 1,
     message : Message \cup {"none"}]

ASSUME RecordAssumption == NoTask \notin TaskRecord

TypeOK ==
    /\ row \in [Task -> TaskRecord \cup {NoTask}]
    /\ used \subseteq Task
    /\ up \in [Proc -> BOOLEAN]
    /\ known \in [Proc -> SUBSET Task]
    /\ mem \in [Proc -> [Task -> TaskRecord \cup {NoTask}]]
    /\ active \in [Proc -> [Task -> Runner \cup {NoRunner}]]
    /\ batch \in [Runner -> SUBSET Task]
    /\ pc \in [Runner -> {"idle", "created", "chatting", "ended"}]
    /\ job \in [Runner -> Task \cup {NoTask}]
    /\ signal \in [Runner -> BOOLEAN]
    /\ outcome \in [Runner -> Message \cup {"none", "result", "cancelled"}]

-----------------------------------------------------------------------------
(* Pure helpers on task records.                                            *)

\* calculate_next_run when the task is created: a one-shot task and an
\* unparseable schedule both yield the empty string.
FirstNextRun(t) == IF Kind[t] = "recurring" THEN "later" ELSE "none"

\* Mutant: the floor of _next_run_after forgotten.
NextRunUnfloored(t) == FirstNextRun(t)

\* _next_run_after: at or after a floor in the future, even when the schedule
\* does not parse; only a one-shot task is left without a next run.
NextRunAfter(t) == IF Kind[t] = "once" THEN "none" ELSE "later"

NewTask(t) ==
    [status |-> "pending", enabled |-> TRUE, cancel |-> FALSE,
     next |-> FirstNextRun(t), ckpt |-> "none", ran |-> FALSE,
     retry |-> 0, streak |-> 0, message |-> "none"]

\* Mutants: recovery forgotten; recovery that also revives parked tasks.
NotRecovered(rec) == rec

RecoveredParked(rec) ==
    IF rec # NoTask /\ rec.status \in {"running", "paused"}
    THEN [rec EXCEPT !.status = "pending", !.cancel = FALSE,
                     !.ckpt = "resumed_after_restart"]
    ELSE rec

\* What _load_tasks makes of a row.
Recovered(rec) ==
    IF rec # NoTask /\ rec.status = "running"
    THEN [rec EXCEPT !.status = "pending", !.cancel = FALSE,
                     !.ckpt = "resumed_after_restart"]
    ELSE rec

RecoveredRows == [t \in Task |-> Recovered(row[t])]

IsDue(t, rec) ==
    /\ rec.enabled /\ ~rec.cancel
    /\ rec.status # "paused"
    /\ ~(Kind[t] = "once" /\ rec.ran)
    /\ rec.next = "now"

\* Mutant: only tasks that never failed or completed are looked at.
DueTasksPending(p) ==
    {t \in known[p] : IsDue(t, mem[p][t]) /\ mem[p][t].status = "pending"}

\* get_due_tasks.  A RUNNING task is not skipped.
DueTasks(p) == {t \in known[p] : IsDue(t, mem[p][t])}

Saturated(n, cap) == IF n > cap THEN cap ELSE n

\* metadata.failure_streak after one more failure with message m.
StreakAfter(rec, m) ==
    IF rec.message = m THEN Saturated(rec.streak + 1, MaxRetries + 1)
    ELSE Saturated(1, MaxRetries + 1)

\* The record _record_failure stores.
Failed(t, rec, m) ==
    LET streak == StreakAfter(rec, m)
        paused == streak > MaxRetries
    IN [rec EXCEPT
          !.status = IF paused THEN "paused" ELSE "failed",
          !.ckpt = IF paused THEN "paused" ELSE "failed",
          !.next = IF paused THEN "none" ELSE NextRunAfter(t),
          !.retry = Saturated(@ + 1, RetryCap),
          !.streak = streak,
          !.message = m]

\* The record run_task stores after a run that returned a result.
Completed(t, rec) ==
    [rec EXCEPT !.status = "completed", !.ckpt = "completed", !.ran = TRUE,
                !.retry = 0, !.streak = 0, !.message = "none",
                !.next = NextRunAfter(t)]

\* The record run_task stores on CancelledError, and when the flag was set
\* while the result was on its way.
Cancelled(rec) ==
    [rec EXCEPT !.status = "paused", !.cancel = TRUE, !.next = "none",
                !.ckpt = "cancelled"]

-----------------------------------------------------------------------------
(* Operations of a process between two awaits.                              *)

\* No loop of p is between two tasks of its batch: asyncio runs other code of
\* p only when the running coroutine awaits, and the loop awaits inside
\* run_task only.
Yielded(p) == \A r \in Runner : Home[r] = p /\ batch[r] # {} => pc[r] # "idle"

\* Assign a task object and run _save_task on it (INSERT OR REPLACE).
SaveTask(p, t, rec) ==
    /\ mem' = [mem EXCEPT ![p][t] = rec]
    /\ row' = [row EXCEPT ![t] = rec]

\* asyncio.Task.cancel() on the handle _active_runs holds, if any.
SignalActive(p, t) ==
    signal' = IF active[p][t] = NoRunner THEN signal
              ELSE [signal EXCEPT ![active[p][t]] = TRUE]

\* A process starts: Scheduler.__init__ and _load_tasks.
LoadTasks(p) ==
    /\ ~up[p]
    /\ up' = [up EXCEPT ![p] = TRUE]
    /\ row' = RecoveredRows
    /\ mem' = [mem EXCEPT ![p] = RecoveredRows]
    /\ known' = [known EXCEPT ![p] = {t \in Task : row[t] # NoTask}]
    /\ UNCHANGED <<used, active, runner>>

\* The process exits or dies; only the database survives.
Stop(p) ==
    /\ up[p]
    /\ up' = [up EXCEPT ![p] = FALSE]
    /\ known' = [known EXCEPT ![p] = {}]
    /\ mem' = [mem EXCEPT ![p] = [t \in Task |-> NoTask]]
    /\ active' = [active EXCEPT ![p] = [t \in Task |-> NoRunner]]
    /\ batch' = [r \in Runner |-> IF Home[r] = p THEN {} ELSE batch[r]]
    /\ pc' = [r \in Runner |-> IF Home[r] = p THEN "idle" ELSE pc[r]]
    /\ job' = [r \in Runner |-> IF Home[r] = p THEN NoTask ELSE job[r]]
    /\ signal' = [r \in Runner |-> IF Home[r] = p THEN FALSE ELSE signal[r]]
    /\ outcome' = [r \in Runner |-> IF Home[r] = p THEN "none" ELSE outcome[r]]
    /\ UNCHANGED disk

AddTask(p, t) ==
    /\ up[p] /\ Yielded(p) /\ t \notin used
    /\ used' = used \cup {t}
    /\ known' = [known EXCEPT ![p] = @ \cup {t}]
    /\ SaveTask(p, t, NewTask(t))
    /\ UNCHANGED <<up, active, runner>>

\* A runner of p still holds the task object.
Held(p, t) == \E r \in Runner : Home[r] = p /\ (job[r] = t \/ t \in batch[r])

\* The object is dropped from _tasks; a runner that holds it keeps it.
RemoveTask(p, t) ==
    /\ t \in known[p] /\ Yielded(p)
    /\ SignalActive(p, t)
    /\ known' = [known EXCEPT ![p] = @ \ {t}]
    /\ row' = [row EXCEPT ![t] = NoTask]
    /\ mem' = IF Held(p, t) THEN mem ELSE [mem EXCEPT ![p][t] = NoTask]
    /\ UNCHANGED <<used, up, active, batch, pc, job, outcome>>

ToggleTask(p, t) ==
    /\ t \in known[p] /\ Yielded(p)
    /\ SaveTask(p, t, [mem[p][t] EXCEPT !.enabled = ~@])
    /\ UNCHANGED <<used, up, known, active, runner>>

\* Mutant: the flag is set on the object and not saved.
RequestCancelUnsaved(p, t) ==
    /\ t \in known[p] /\ Yielded(p)
    /\ SignalActive(p, t)
    /\ mem' = [mem EXCEPT ![p][t].cancel = TRUE]
    /\ UNCHANGED <<row, used, up, known, active, batch, pc, job, outcome>>


RequestCancel(p, t) ==
    /\ t \in known[p] /\ Yielded(p)
    /\ SignalActive(p, t)
    /\ SaveTask(p, t, [mem[p][t] EXCEPT !.cancel = TRUE,
                                        !.ckpt = "cancellation_requested"])
    /\ UNCHANGED <<used, up, known, active, batch, pc, job, outcome>>

ResumeTask(p, t) ==
    /\ t \in known[p] /\ Yielded(p)
    /\ SaveTask(p, t, [mem[p][t] EXCEPT !.cancel = FALSE, !.status = "pending",
                                        !.next = "now", !.ckpt = "resumed"])
    /\ UNCHANGED <<used, up, known, active, runner>>

-----------------------------------------------------------------------------
(* run_task, from its call to its return.                                   *)

\* The part before the first await.
RunTask(r, t) ==
    LET p == Home[r]
        rec == mem[p][t]
    IN /\ pc[r] = "idle"
       /\ \/ /\ rec.cancel
             /\ SaveTask(p, t, [rec EXCEPT !.status = "paused",
                                           !.ckpt = "cancelled_before_start"])
             /\ UNCHANGED <<active, pc, job>>
          \/ /\ ~rec.cancel
             /\ SaveTask(p, t, [rec EXCEPT !.status = "running", !.ckpt = "running"])
             /\ active' = [active EXCEPT ![p][t] = r]
             /\ pc' = [pc EXCEPT ![r] = "created"]
             /\ job' = [job EXCEPT ![r] = t]
       /\ UNCHANGED <<used, up, known, signal, outcome>>

\* run_scheduled_task_now: the task is looked up and run in one go.
RunNow(r, t) ==
    /\ r \notin Loops
    /\ t \in known[Home[r]] /\ Yielded(Home[r])
    /\ RunTask(r, t)
    /\ UNCHANGED batch

\* One evaluation of get_due_tasks by a loop, which takes the tasks of list from
\* it; the list is not refreshed while its tasks are awaited one after the other.
Poll(r, list) ==
    /\ r \in Loops /\ up[Home[r]] /\ pc[r] = "idle" /\ Yielded(Home[r])
    /\ list # {} /\ list \subseteq DueTasks(Home[r])
    /\ batch' = [batch EXCEPT ![r] = list]
    /\ UNCHANGED <<disk, process, pc, job, signal, outcome>>

RunNext(r, t) ==
    /\ t \in batch[r]
    /\ RunTask(r, t)
    /\ batch' = [batch EXCEPT ![r] = @ \ {t}]

\* The inner asyncio task takes its first step: unless it was cancelled before,
\* the factory builds an agent, whose own Scheduler loads the same database.
BuildAgent(r) ==
    /\ pc[r] = "created" /\ Yielded(Home[r])
    /\ IF signal[r]
       THEN /\ pc' = [pc EXCEPT ![r] = "ended"]
            /\ outcome' = [outcome EXCEPT ![r] = "cancelled"]
            /\ UNCHANGED row
       ELSE /\ pc' = [pc EXCEPT ![r] = "chatting"]
            /\ row' = RecoveredRows
            /\ UNCHANGED outcome
    /\ UNCHANGED <<used, process, batch, job, signal>>

\* agent.chat under wait_for ends: result, exception, timeout or cancellation.
ChatEnds(r) ==
    /\ pc[r] = "chatting" /\ Yielded(Home[r])
    /\ pc' = [pc EXCEPT ![r] = "ended"]
    /\ \E how \in IF signal[r] THEN {"cancelled"} ELSE Message \cup {"result"} :
          outcome' = [outcome EXCEPT ![r] = how]
    /\ UNCHANGED <<disk, process, batch, job, signal>>

\* Cancellation of the coroutine that awaits the run (Ctrl-C under
\* asyncio.run): forwarded to the inner task, or, when that one has already
\* ended, raised at the await in place of its outcome.
Interrupt(r) ==
    /\ pc[r] # "idle" /\ Yielded(Home[r])
    /\ signal' = [signal EXCEPT ![r] = TRUE]
    /\ outcome' = [outcome EXCEPT ![r] = IF pc[r] = "ended" THEN "cancelled" ELSE @]
    /\ UNCHANGED <<disk, process, batch, pc, job>>

\* Mutant: the flag is not looked at again after the run.
SettledByOutcome(r) ==
    LET t == job[r]
        rec == mem[Home[r]][t]
    IN CASE outcome[r] = "cancelled" -> Cancelled(rec)
         [] outcome[r] = "result" -> Completed(t, rec)
         [] OTHER -> Failed(t, rec, outcome[r])

\* The record the rest of run_task stores once the await returns or raises.
Settled(r) ==
    LET t == job[r]
        rec == mem[Home[r]][t]
    IN CASE outcome[r] = "cancelled" -> Cancelled(rec)
         [] outcome[r] = "result" -> IF rec.cancel THEN Cancelled(rec)
                                     ELSE Completed(t, rec)
         [] OTHER -> Failed(t, rec, outcome[r])

\* Mutant: no finally clause pops the handle.
RunReturnsKeepingHandle(r) ==
    /\ pc[r] = "ended" /\ Yielded(Home[r])
    /\ SaveTask(Home[r], job[r], Settled(r))
    /\ pc' = [pc EXCEPT ![r] = "idle"]
    /\ job' = [job EXCEPT ![r] = NoTask]
    /\ signal' = [signal EXCEPT ![r] = FALSE]
    /\ outcome' = [outcome EXCEPT ![r] = "none"]
    /\ UNCHANGED <<used, up, known, active, batch>>


RunReturns(r) ==
    /\ pc[r] = "ended" /\ Yielded(Home[r])
    /\ SaveTask(Home[r], job[r], Settled(r))
    /\ active' = [active EXCEPT ![Home[r]][job[r]] = NoRunner]
    /\ pc' = [pc EXCEPT ![r] = "idle"]
    /\ job' = [job EXCEPT ![r] = NoTask]
    /\ signal' = [signal EXCEPT ![r] = FALSE]
    /\ outcome' = [outcome EXCEPT ![r] = "none"]
    /\ UNCHANGED <<used, up, known, batch>>

\* Time passes: the next run of t arrives, in every copy of the timestamp.
Tick(t) ==
    LET arrived(rec) == IF rec # NoTask /\ rec.next = "later"
                        THEN [rec EXCEPT !.next = "now"] ELSE rec
    IN /\ row' = [row EXCEPT ![t] = arrived(@)]
       /\ mem' = [p \in Proc |-> [mem[p] EXCEPT ![t] = arrived(@)]]
       /\ UNCHANGED <<used, up, known, active, runner>>

-----------------------------------------------------------------------------
Init ==
    /\ row = [t \in Task |-> NoTask]
    /\ used = {}
    /\ up = [p \in Proc |-> FALSE]
    /\ known = [p \in Proc |-> {}]
    /\ mem = [p \in Proc |-> [t \in Task |-> NoTask]]
    /\ active = [p \in Proc |-> [t \in Task |-> NoRunner]]
    /\ batch = [r \in Runner |-> {}]
    /\ pc = [r \in Runner |-> "idle"]
    /\ job = [r \in Runner |-> NoTask]
    /\ signal = [r \in Runner |-> FALSE]
    /\ outcome = [r \in Runner |-> "none"]

RunnerStep(r) ==
    \/ BuildAgent(r)
    \/ ChatEnds(r)
    \/ RunReturns(r)
    \/ Interrupt(r)

\* start_background_loop, or one call of run_due_tasks: all due tasks, in turn.
LoopStep(r) ==
    \/ Poll(r, DueTasks(Home[r]))
    \/ \E t \in Task : RunNext(r, t)

UserStep(p, t) ==
    \/ AddTask(p, t)
    \/ RemoveTask(p, t)
    \/ ToggleTask(p, t)
    \/ RequestCancel(p, t)
    \/ ResumeTask(p, t)

Next ==
    \/ \E p \in Proc : LoadTasks(p) \/ Stop(p)
    \/ \E p \in Proc, t \in Task : UserStep(p, t)
    \/ \E r \in Runner : LoopStep(r) \/ RunnerStep(r)
    \/ \E r \in Runner, t \in Task : RunNow(r, t)
    \/ \E t \in Task : Tick(t)

Spec == Init /\ [][Next]_vars

-----------------------------------------------------------------------------
(* Safety.                                                                  *)

\* One copy of a task, in memory or on disk, never contradicts itself: the
\* checkpoint belongs to the status, a task is parked only because it was
\* cancelled or because it used up its identical failures, a FAILED task has
\* retries left, and a task on a schedule that has run has a next run.
\* (run_task, _record_failure, request_cancel, resume_task, _load_tasks.)
RecordOK(t, rec) ==
    /\ rec.status = "running" => rec.ckpt \in {"running", "cancellation_requested"}
    /\ rec.status = "paused" =>
          /\ rec.ckpt \in {"paused", "cancelled", "cancelled_before_start",
                          "cancellation_requested"}
          /\ rec.cancel \/ rec.streak > MaxRetries
    /\ rec.status = "failed" =>
          /\ rec.ckpt \in {"failed", "cancellation_requested"}
          /\ rec.streak \in 1 .. MaxRetries
          /\ rec.message # "none"
    /\ rec.status = "completed" =>
          /\ rec.ckpt \in {"completed", "cancellation_requested"}
          /\ rec.ran /\ rec.retry = 0
    /\ rec.status \in {"completed", "failed"} /\ Kind[t] # "once" => rec.next # "none"

RecordsConsistent ==
    /\ \A t \in Task : row[t] # NoTask => RecordOK(t, row[t])
    /\ \A p \in Proc, t \in Task : mem[p][t] # NoTask => RecordOK(t, mem[p][t])

\* A handle in _active_runs belongs to a run of that very task that has not
\* returned yet, whatever runs overlap: request_cancel never cancels a
\* stranger.  (run_task's assignment and the pop in its finally clause.)
HandlesLive ==
    \A p \in Proc, t \in Task :
        LET r == active[p][t]
        IN r # NoRunner => Home[r] = p /\ pc[r] # "idle" /\ job[r] = t

\* Status RUNNING is never left behind: some coroutine is between the two ends
\* of run_task for it.  On disk this speaks about a system of one process,
\* whose crash leaves RUNNING rows until its next start.
RunningBacked ==
    /\ \A p \in Proc, t \in Task :
          mem[p][t] # NoTask /\ mem[p][t].status = "running" =>
              \E r \in Runner : Home[r] = p /\ pc[r] # "idle" /\ job[r] = t
    /\ \A t \in Task :
          row[t] # NoTask /\ row[t].status = "running" /\ (\A p \in Proc : up[p]) =>
              \E r \in Runner : pc[r] # "idle" /\ job[r] = t

\* With one process, what is on disk is what is in memory, except that the
\* row of a RUNNING task may have been rewritten by the agent factory: a crash
\* at any point loses no state change.  (Every operation ends in _save_task.)
WriteThrough ==
    \A p \in Proc, t \in Task :
        t \in known[p] => row[t] # NoTask /\ row[t] \in {mem[p][t], Recovered(mem[p][t])}

\* t is parked: its row is PAUSED and no coroutine runs it or has it in a list.
AtRest(t) ==
    /\ row[t] # NoTask /\ row[t].status = "paused"
    /\ \A p \in Proc : ~Held(p, t)

\* In a process that has the database to itself, whatever loops and run-now
\* calls it has, a parked task stays parked until it is removed, resumed or run
\* by name: no restart, factory, poll or save of another run takes it up.  (Not
\* so while a coroutine still holds it, or with a second process: run_task looks
\* neither at the status of the object nor at that of the row.)
ResumesExplicitly ==
    [][\A t \in Task : AtRest(t) =>
          \/ AtRest(t)'
          \/ row'[t] = NoTask
          \/ \E p \in Proc : ResumeTask(p, t)
          \/ \E r \in Runner : RunNow(r, t)]_vars

\* A task whose object carries the cancellation flag never becomes COMPLETED:
\* a result that arrives after request_cancel is discarded.
CancelNeverCompletes ==
    [][\A p \in Proc, t \in Task :
          mem[p][t] # NoTask /\ mem[p][t].cancel
          /\ mem'[p][t] # NoTask /\ mem'[p][t].status = "completed"
            => mem[p][t].status = "completed"]_vars

-----------------------------------------------------------------------------
(* A statement of the code's documentation that the code does not keep.     *)

\* "Remove a task and its execution logs.": a removed id does not come back.
RemovedStaysRemoved ==
    [][\A t \in Task : t \in used /\ row[t] = NoTask => row'[t] = NoTask]_vars

=============================================================================
