--------------------------- MODULE SchedulerProofs ---------------------------
(***************************************************************************)
(* Proofs about Scheduler for any processes, runners, tasks and bounds.     *)
(***************************************************************************)
EXTENDS Scheduler, TLAPS

\* Whoever can reach a task object finds one: the keys of _tasks, the tasks of
\* a loop's list, the task of a run.  A process that is down holds nothing.
ObjectsHeld ==
    /\ \A p \in Proc : \A t \in known[p] : mem[p][t] # NoTask
    /\ \A r \in Runner : \A t \in batch[r] : mem[Home[r]][t] # NoTask
    /\ \A r \in Runner : pc[r] # "idle" =>
          /\ up[Home[r]]
          /\ job[r] # NoTask
          /\ mem[Home[r]][job[r]] # NoTask
    /\ \A r \in Runner : pc[r] = "ended" => outcome[r] # "none"
    /\ \A p \in Proc : ~up[p] => known[p] = {}
    /\ \A r \in Runner : ~up[Home[r]] => batch[r] = {}

Inv == TypeOK /\ ObjectsHeld /\ HandlesLive

-----------------------------------------------------------------------------
(* What the record helpers return.                                          *)

LEMMA RecoveredType ==
    ASSUME NEW rec \in TaskRecord \cup {NoTask}
    PROVE  /\ Recovered(rec) \in TaskRecord \cup {NoTask}
           /\ rec # NoTask => Recovered(rec) \in TaskRecord
           /\ rec = NoTask => Recovered(rec) = NoTask
<1>1. CASE rec = NoTask
  BY <1>1 DEF Recovered
<1>2. CASE rec \in TaskRecord
  <2>1. [rec EXCEPT !.status = "pending", !.cancel = FALSE,
                    !.ckpt = "resumed_after_restart"] \in TaskRecord
    BY <1>2 DEF TaskRecord, Status, Checkpoint
  <2> QED BY <1>2, <2>1, RecordAssumption DEF Recovered
<1> QED BY <1>1, <1>2

LEMMA NewTaskType ==
    ASSUME NEW t \in Task
    PROVE  NewTask(t) \in TaskRecord
BY BoundsAssumption DEF NewTask, FirstNextRun, TaskRecord, Status, Checkpoint

LEMMA CompletedType ==
    ASSUME NEW t \in Task, NEW rec \in TaskRecord
    PROVE  Completed(t, rec) \in TaskRecord
<1>1. 0 \in 0 .. RetryCap /\ 0 \in 0 .. MaxRetries + 1
  BY BoundsAssumption
<1>2. NextRunAfter(t) \in {"none", "later", "now"}
  BY DEF NextRunAfter
<1> QED BY <1>1, <1>2 DEF Completed, TaskRecord, Status, Checkpoint

LEMMA CancelledType ==
    ASSUME NEW rec \in TaskRecord
    PROVE  Cancelled(rec) \in TaskRecord
BY DEF Cancelled, TaskRecord, Status, Checkpoint

LEMMA SaturatedType ==
    ASSUME NEW n \in Nat, NEW cap \in Nat
    PROVE  Saturated(n, cap) \in 0 .. cap
BY DEF Saturated

LEMMA FailedType ==
    ASSUME NEW t \in Task, NEW rec \in TaskRecord, NEW m \in Message
    PROVE  Failed(t, rec, m) \in TaskRecord
<1>1. rec.streak \in Nat /\ rec.retry \in Nat
  BY BoundsAssumption DEF TaskRecord
<1>2. StreakAfter(rec, m) \in 0 .. MaxRetries + 1
  <2>1. rec.streak + 1 \in Nat /\ 1 \in Nat /\ MaxRetries + 1 \in Nat
    BY <1>1, BoundsAssumption
  <2> QED BY <2>1, SaturatedType DEF StreakAfter
<1>3. Saturated(rec.retry + 1, RetryCap) \in 0 .. RetryCap
  <2>1. rec.retry + 1 \in Nat /\ RetryCap \in Nat
    BY <1>1, BoundsAssumption
  <2> QED BY <2>1, SaturatedType
<1>4. NextRunAfter(t) \in {"none", "later", "now"}
  BY DEF NextRunAfter
<1> QED BY <1>2, <1>3, <1>4 DEF Failed, TaskRecord, Status, Checkpoint

\* The record a run leaves behind.
LEMMA SettledType ==
    ASSUME Inv, NEW r \in Runner, pc[r] = "ended"
    PROVE  Settled(r) \in TaskRecord
<1> DEFINE rec == mem[Home[r]][job[r]]
<1>1. job[r] \in Task /\ rec \in TaskRecord
  BY HomeAssumption DEF Inv, TypeOK, ObjectsHeld
<1>2. outcome[r] \in Message \cup {"result", "cancelled"}
  BY DEF Inv, TypeOK, ObjectsHeld
<1>3. CASE outcome[r] = "cancelled"
  BY <1>1, <1>3, CancelledType DEF Settled
<1>4. CASE outcome[r] = "result"
  BY <1>1, <1>4, CancelledType, CompletedType DEF Settled
<1>5. CASE outcome[r] \in Message
  <2>1. outcome[r] # "cancelled" /\ outcome[r] # "result"
    BY <1>5, NamesAssumption
  <2> QED BY <1>1, <1>5, <2>1, FailedType DEF Settled
<1> QED BY <1>2, <1>3, <1>4, <1>5

-----------------------------------------------------------------------------
(* The type invariant, with what it rests on.                               *)

LEMMA InitInv == Init => Inv
BY DEF Init, Inv, TypeOK, ObjectsHeld, HandlesLive

\* Assigning a task object and its row keeps every table well typed.
LEMMA SaveType ==
    ASSUME TypeOK, NEW p \in Proc, NEW t \in Task, NEW rec \in TaskRecord,
           SaveTask(p, t, rec)
    PROVE  /\ row' \in [Task -> TaskRecord \cup {NoTask}]
           /\ mem' \in [Proc -> [Task -> TaskRecord \cup {NoTask}]]
           /\ mem'[p][t] # NoTask
           /\ \A q \in Proc, u \in Task :
                 mem'[q][u] = IF q = p /\ u = t THEN rec ELSE mem[q][u]
BY RecordAssumption DEF TypeOK, SaveTask

LEMMA LoadInv ==
    ASSUME Inv, NEW p \in Proc, LoadTasks(p)
    PROVE  Inv'
<1> USE DEF Inv
<1>1. RecoveredRows \in [Task -> TaskRecord \cup {NoTask}]
  BY RecoveredType DEF TypeOK, RecoveredRows
<1>2. TypeOK'
  BY <1>1 DEF LoadTasks, TypeOK, runner
<1>3. ObjectsHeld'
  <2>1. \A t \in Task : row[t] # NoTask => RecoveredRows[t] # NoTask
    BY RecoveredType, RecordAssumption DEF TypeOK, RecoveredRows
  <2>2. \A r \in Runner : Home[r] = p => batch[r] = {} /\ pc[r] = "idle"
    BY DEF LoadTasks, ObjectsHeld
  <2> QED
    BY <2>1, <2>2, HomeAssumption DEF LoadTasks, ObjectsHeld, TypeOK, runner
<1>4. HandlesLive'
  BY DEF LoadTasks, HandlesLive, runner
<1> QED BY <1>2, <1>3, <1>4

LEMMA StopInv ==
    ASSUME Inv, NEW p \in Proc, Stop(p)
    PROVE  Inv'
<1> USE DEF Inv, Stop, disk
<1>1. TypeOK'
  BY DEF TypeOK
<1>2. ObjectsHeld'
  BY HomeAssumption DEF TypeOK, ObjectsHeld
<1>3. HandlesLive'
  BY HomeAssumption, NamesAssumption DEF TypeOK, HandlesLive
<1> QED BY <1>1, <1>2, <1>3

\* A step that stores a well-typed record for one task and leaves lists, runs
\* and handles alone preserves everything.
LEMMA SaveKeepsInv ==
    ASSUME Inv, NEW p \in Proc, NEW t \in Task, NEW rec \in TaskRecord,
           SaveTask(p, t, rec), used' \in SUBSET Task,
           known' = [known EXCEPT ![p] = @ \cup {t}] \/ known' = known, up[p],
           UNCHANGED <<up, active, batch, pc, job, outcome>>,
           signal' \in [Runner -> BOOLEAN]
    PROVE  Inv'
<1> USE DEF Inv
<1>1. /\ row' \in [Task -> TaskRecord \cup {NoTask}]
      /\ mem' \in [Proc -> [Task -> TaskRecord \cup {NoTask}]]
      /\ \A q \in Proc, u \in Task : mem'[q][u] = NoTask => mem[q][u] = NoTask
      /\ mem'[p][t] # NoTask
  BY SaveType, RecordAssumption
<1>2. /\ known' \in [Proc -> SUBSET Task]
      /\ \A q \in Proc : known'[q] = known[q] \/ (q = p /\ known'[q] = known[q] \cup {t})
  <2>1. CASE known' = [known EXCEPT ![p] = @ \cup {t}]
    BY <2>1 DEF TypeOK
  <2>2. CASE known' = known
    BY <2>2 DEF TypeOK
  <2> QED BY <2>1, <2>2
<1>3. TypeOK'
  BY <1>1, <1>2 DEF TypeOK
<1>4. ObjectsHeld'
  <2>1. \A q \in Proc : \A u \in known'[q] : mem'[q][u] # NoTask
    BY <1>1, <1>2 DEF ObjectsHeld, TypeOK
  <2>2. \A r \in Runner : \A u \in batch'[r] : mem'[Home[r]][u] # NoTask
    BY <1>1, HomeAssumption DEF ObjectsHeld, TypeOK
  <2>3. \A r \in Runner : pc'[r] # "idle" =>
           up'[Home[r]] /\ job'[r] # NoTask /\ mem'[Home[r]][job'[r]] # NoTask
    BY <1>1, HomeAssumption DEF ObjectsHeld, TypeOK
  <2>4. \A q \in Proc : ~up'[q] => known'[q] = {}
    BY <1>2 DEF ObjectsHeld
  <2> QED BY <2>1, <2>2, <2>3, <2>4 DEF ObjectsHeld
<1>5. HandlesLive'
  BY DEF HandlesLive
<1> QED BY <1>3, <1>4, <1>5

LEMMA KnownRecord ==
    ASSUME Inv, NEW p \in Proc, NEW t \in known[p]
    PROVE  t \in Task /\ mem[p][t] \in TaskRecord /\ up[p]
BY DEF Inv, TypeOK, ObjectsHeld

LEMMA SignalType ==
    ASSUME Inv, NEW p \in Proc, NEW t \in Task, SignalActive(p, t)
    PROVE  signal' \in [Runner -> BOOLEAN]
BY DEF Inv, TypeOK, SignalActive

LEMMA AddInv ==
    ASSUME Inv, NEW p \in Proc, NEW t \in Task, AddTask(p, t)
    PROVE  Inv'
<1>1. used' \in SUBSET Task /\ signal' \in [Runner -> BOOLEAN]
  BY DEF AddTask, Inv, TypeOK, runner
<1> QED BY <1>1, NewTaskType, SaveKeepsInv DEF AddTask, runner

LEMMA ToggleInv ==
    ASSUME Inv, NEW p \in Proc, NEW t \in Task, ToggleTask(p, t)
    PROVE  Inv'
<1> DEFINE rec == [mem[p][t] EXCEPT !.enabled = ~@]
<1>1. mem[p][t] \in TaskRecord /\ up[p]
  BY KnownRecord DEF ToggleTask
<1>2. rec \in TaskRecord
  BY <1>1 DEF TaskRecord
<1>3. used' \in SUBSET Task /\ signal' \in [Runner -> BOOLEAN]
  BY DEF ToggleTask, Inv, TypeOK, runner
<1> QED BY <1>1, <1>2, <1>3, SaveKeepsInv DEF ToggleTask, runner

LEMMA CancelInv ==
    ASSUME Inv, NEW p \in Proc, NEW t \in Task, RequestCancel(p, t)
    PROVE  Inv'
<1> DEFINE rec == [mem[p][t] EXCEPT !.cancel = TRUE, !.ckpt = "cancellation_requested"]
<1>1. mem[p][t] \in TaskRecord /\ up[p]
  BY KnownRecord DEF RequestCancel
<1>2. rec \in TaskRecord
  BY <1>1 DEF TaskRecord, Checkpoint
<1>3. used' \in SUBSET Task /\ signal' \in [Runner -> BOOLEAN]
  BY SignalType DEF RequestCancel, Inv, TypeOK
<1> QED BY <1>1, <1>2, <1>3, SaveKeepsInv DEF RequestCancel

LEMMA ResumeInv ==
    ASSUME Inv, NEW p \in Proc, NEW t \in Task, ResumeTask(p, t)
    PROVE  Inv'
<1> DEFINE rec == [mem[p][t] EXCEPT !.cancel = FALSE, !.status = "pending",
                                    !.next = "now", !.ckpt = "resumed"]
<1>1. mem[p][t] \in TaskRecord /\ up[p]
  BY KnownRecord DEF ResumeTask
<1>2. rec \in TaskRecord
  BY <1>1 DEF TaskRecord, Status, Checkpoint
<1>3. used' \in SUBSET Task /\ signal' \in [Runner -> BOOLEAN]
  BY DEF ResumeTask, Inv, TypeOK, runner
<1> QED BY <1>1, <1>2, <1>3, SaveKeepsInv DEF ResumeTask, runner

LEMMA RemoveInv ==
    ASSUME Inv, NEW p \in Proc, NEW t \in Task, RemoveTask(p, t)
    PROVE  Inv'
<1>1. /\ mem' \in [Proc -> [Task -> TaskRecord \cup {NoTask}]]
      /\ \A q \in Proc, u \in Task :
            q # p \/ u # t \/ Held(p, t) => mem'[q][u] = mem[q][u]
  BY DEF RemoveTask, Inv, TypeOK
<1>2. TypeOK'
  BY <1>1, SignalType DEF RemoveTask, Inv, TypeOK
<1>3. ObjectsHeld'
  <2>1. \A q \in Proc : \A u \in known'[q] : mem'[q][u] # NoTask
    BY <1>1 DEF RemoveTask, Inv, TypeOK, ObjectsHeld
  <2>2. \A r \in Runner : \A u \in batch'[r] : mem'[Home[r]][u] # NoTask
    BY <1>1, HomeAssumption DEF RemoveTask, Held, Inv, TypeOK, ObjectsHeld
  <2>3. \A r \in Runner : pc'[r] # "idle" =>
           up'[Home[r]] /\ job'[r] # NoTask /\ mem'[Home[r]][job'[r]] # NoTask
    BY <1>1, HomeAssumption DEF RemoveTask, Held, Inv, TypeOK, ObjectsHeld
  <2> QED BY <2>1, <2>2, <2>3 DEF RemoveTask, Inv, TypeOK, ObjectsHeld
<1>4. HandlesLive'
  BY DEF RemoveTask, Inv, HandlesLive
<1> QED BY <1>2, <1>3, <1>4 DEF Inv

\* The part of run_task before its await.
LEMMA RunTaskInv ==
    ASSUME Inv, NEW r \in Runner, NEW t \in Task, RunTask(r, t),
           up[Home[r]], mem[Home[r]][t] # NoTask,
           batch' \in [Runner -> SUBSET Task],
           \A q \in Runner : batch'[q] \subseteq batch[q]
    PROVE  Inv'
<1> DEFINE p == Home[r]
           rec == mem[p][t]
<1> USE DEF Inv
<1>1. p \in Proc /\ rec \in TaskRecord
  BY HomeAssumption DEF TypeOK
<1>2. CASE /\ SaveTask(p, t, [rec EXCEPT !.status = "paused",
                                         !.ckpt = "cancelled_before_start"])
           /\ UNCHANGED <<active, pc, job>>
  <2>1. [rec EXCEPT !.status = "paused", !.ckpt = "cancelled_before_start"] \in TaskRecord
    BY <1>1 DEF TaskRecord, Status, Checkpoint
  <2>2. /\ row' \in [Task -> TaskRecord \cup {NoTask}]
        /\ mem' \in [Proc -> [Task -> TaskRecord \cup {NoTask}]]
        /\ \A q \in Proc, u \in Task : mem'[q][u] = NoTask => mem[q][u] = NoTask
    BY <1>1, <1>2, <2>1, SaveType, RecordAssumption
  <2>3. TypeOK'
    BY <1>2, <2>2 DEF TypeOK, RunTask
  <2>4. ObjectsHeld'
    BY <1>2, <2>2, HomeAssumption DEF TypeOK, ObjectsHeld, RunTask
  <2>5. HandlesLive'
    BY <1>2 DEF HandlesLive, RunTask
  <2> QED BY <2>3, <2>4, <2>5
<1>3. CASE /\ SaveTask(p, t, [rec EXCEPT !.status = "running", !.ckpt = "running"])
           /\ active' = [active EXCEPT ![p][t] = r]
           /\ pc' = [pc EXCEPT ![r] = "created"]
           /\ job' = [job EXCEPT ![r] = t]
  <2>1. [rec EXCEPT !.status = "running", !.ckpt = "running"] \in TaskRecord
    BY <1>1 DEF TaskRecord, Status, Checkpoint
  <2>2. /\ row' \in [Task -> TaskRecord \cup {NoTask}]
        /\ mem' \in [Proc -> [Task -> TaskRecord \cup {NoTask}]]
        /\ \A q \in Proc, u \in Task : mem'[q][u] = NoTask => mem[q][u] = NoTask
        /\ mem'[p][t] # NoTask
    BY <1>1, <1>3, <2>1, SaveType, RecordAssumption
  <2>3. TypeOK'
    BY <1>1, <1>3, <2>2 DEF TypeOK, RunTask
  <2>4. ObjectsHeld'
    <3>1. \A q \in Runner : \A u \in batch'[q] : mem'[Home[q]][u] # NoTask
      BY <2>2, HomeAssumption DEF TypeOK, ObjectsHeld
    <3>2. \A q \in Runner : pc'[q] # "idle" =>
             up'[Home[q]] /\ job'[q] # NoTask /\ mem'[Home[q]][job'[q]] # NoTask
      <4> SUFFICES ASSUME NEW q \in Runner, pc'[q] # "idle"
                   PROVE  up[Home[q]] /\ job'[q] # NoTask /\ mem'[Home[q]][job'[q]] # NoTask
        BY DEF RunTask
      <4>1. CASE q = r
        BY <1>3, <2>2, <4>1, NamesAssumption DEF TypeOK
      <4>2. CASE q # r
        <5>1. pc'[q] = pc[q] /\ job'[q] = job[q] /\ job[q] \in Task /\ Home[q] \in Proc
          BY <1>3, <4>2, HomeAssumption DEF TypeOK, ObjectsHeld
        <5> QED BY <2>2, <5>1 DEF ObjectsHeld
      <4> QED BY <4>1, <4>2
    <3>3. \A q \in Runner : pc'[q] = "ended" => outcome'[q] # "none"
      BY <1>3 DEF TypeOK, ObjectsHeld, RunTask
    <3>4. \A q \in Runner : ~up'[Home[q]] => batch'[q] = {}
      BY DEF ObjectsHeld, RunTask
    <3>5. /\ \A q \in Proc : \A u \in known'[q] : mem'[q][u] # NoTask
          /\ \A q \in Proc : ~up'[q] => known'[q] = {}
      BY <2>2 DEF TypeOK, ObjectsHeld, RunTask
    <3> QED BY <3>1, <3>2, <3>3, <3>4, <3>5 DEF ObjectsHeld
  <2>5. HandlesLive'
    <3> SUFFICES ASSUME NEW q \in Proc, NEW u \in Task, active'[q][u] # NoRunner
                 PROVE  LET h == active'[q][u]
                        IN Home[h] = q /\ pc'[h] # "idle" /\ job'[h] = u
      BY DEF HandlesLive
    <3>1. pc[r] = "idle"
      BY DEF RunTask
    <3>2. CASE q = p /\ u = t
      BY <1>1, <1>3, <3>2 DEF TypeOK
    <3>3. CASE ~(q = p /\ u = t)
      <4>1. active'[q][u] = active[q][u] /\ active[q][u] \in Runner
        BY <1>1, <1>3, <3>3 DEF TypeOK
      <4>2. active[q][u] # r
        BY <3>1, <4>1 DEF HandlesLive
      <4> QED BY <1>3, <4>1, <4>2 DEF HandlesLive, TypeOK
    <3> QED BY <3>2, <3>3
  <2> QED BY <2>3, <2>4, <2>5
<1> QED BY <1>2, <1>3 DEF RunTask

LEMMA RunNowInv ==
    ASSUME Inv, NEW r \in Runner, NEW t \in Task, RunNow(r, t)
    PROVE  Inv'
<1>1. up[Home[r]] /\ mem[Home[r]][t] # NoTask
  BY HomeAssumption, KnownRecord, RecordAssumption DEF RunNow
<1>2. /\ batch' \in [Runner -> SUBSET Task]
      /\ \A q \in Runner : batch'[q] \subseteq batch[q]
  BY DEF RunNow, Inv, TypeOK
<1> QED BY <1>1, <1>2, RunTaskInv DEF RunNow

LEMMA RunNextInv ==
    ASSUME Inv, NEW r \in Runner, NEW t \in Task, RunNext(r, t)
    PROVE  Inv'
<1>1. up[Home[r]] /\ mem[Home[r]][t] # NoTask
  BY DEF RunNext, Inv, ObjectsHeld
<1>2. /\ batch' \in [Runner -> SUBSET Task]
      /\ \A q \in Runner : batch'[q] \subseteq batch[q]
  BY DEF RunNext, Inv, TypeOK
<1> QED BY <1>1, <1>2, RunTaskInv DEF RunNext

LEMMA PollInv ==
    ASSUME Inv, NEW r \in Runner, NEW list, Poll(r, list)
    PROVE  Inv'
<1> USE DEF Inv, Poll, disk, process
<1>1. list \subseteq known[Home[r]] /\ Home[r] \in Proc
  BY HomeAssumption DEF DueTasks
<1>2. list \in SUBSET Task
  BY <1>1 DEF TypeOK
<1>3. TypeOK'
  BY <1>2 DEF TypeOK
<1>4. ObjectsHeld'
  <2>1. \A q \in Runner : \A t \in batch'[q] : mem'[Home[q]][t] # NoTask
    BY <1>1 DEF TypeOK, ObjectsHeld
  <2>2. \A q \in Runner : ~up'[Home[q]] => batch'[q] = {}
    BY DEF TypeOK, ObjectsHeld
  <2> QED BY <2>1, <2>2 DEF ObjectsHeld
<1>5. HandlesLive'
  BY DEF HandlesLive
<1> QED BY <1>3, <1>4, <1>5

LEMMA BuildInv ==
    ASSUME Inv, NEW r \in Runner, BuildAgent(r)
    PROVE  Inv'
<1> USE DEF Inv, process
<1>1. RecoveredRows \in [Task -> TaskRecord \cup {NoTask}]
  BY RecoveredType DEF TypeOK, RecoveredRows
<1>2. TypeOK'
  BY <1>1 DEF BuildAgent, TypeOK
<1>3. ObjectsHeld'
  BY DEF BuildAgent, TypeOK, ObjectsHeld
<1>4. HandlesLive'
  BY DEF BuildAgent, TypeOK, HandlesLive
<1> QED BY <1>2, <1>3, <1>4

LEMMA ChatEndsInv ==
    ASSUME Inv, NEW r \in Runner, ChatEnds(r)
    PROVE  Inv'
<1> USE DEF Inv, process, disk
<1>1. PICK how \in Message \cup {"result", "cancelled"} :
        outcome' = [outcome EXCEPT ![r] = how]
  BY DEF ChatEnds
<1>2. how # "none"
  BY NamesAssumption
<1>3. TypeOK'
  BY <1>1 DEF ChatEnds, TypeOK
<1>4. ObjectsHeld'
  BY <1>1, <1>2 DEF ChatEnds, TypeOK, ObjectsHeld
<1>5. HandlesLive'
  BY DEF ChatEnds, TypeOK, HandlesLive
<1> QED BY <1>3, <1>4, <1>5

LEMMA InterruptInv ==
    ASSUME Inv, NEW r \in Runner, Interrupt(r)
    PROVE  Inv'
<1> USE DEF Inv, Interrupt, process, disk
<1>1. TypeOK'
  BY DEF TypeOK
<1>2. ObjectsHeld'
  BY DEF TypeOK, ObjectsHeld
<1>3. HandlesLive'
  BY DEF HandlesLive
<1> QED BY <1>1, <1>2, <1>3

LEMMA ReturnsInv ==
    ASSUME Inv, NEW r \in Runner, RunReturns(r)
    PROVE  Inv'
<1> DEFINE p == Home[r]
           t == job[r]
<1> USE DEF Inv
<1>1. p \in Proc /\ t \in Task /\ Settled(r) \in TaskRecord
  BY HomeAssumption, SettledType DEF RunReturns, TypeOK, ObjectsHeld
<1>2. /\ row' \in [Task -> TaskRecord \cup {NoTask}]
      /\ mem' \in [Proc -> [Task -> TaskRecord \cup {NoTask}]]
      /\ \A q \in Proc, u \in Task : mem'[q][u] = NoTask => mem[q][u] = NoTask
  BY <1>1, SaveType, RecordAssumption DEF RunReturns
<1>3. TypeOK'
  BY <1>2 DEF RunReturns, TypeOK
<1>4. ObjectsHeld'
  <2>1. \A q \in Proc : \A u \in known'[q] : mem'[q][u] # NoTask
    <3>1. known' = known /\ \A q \in Proc : known[q] \subseteq Task
      BY DEF RunReturns, TypeOK
    <3> QED BY <1>2, <3>1 DEF ObjectsHeld
  <2>2. \A q \in Runner : \A u \in batch'[q] : mem'[Home[q]][u] # NoTask
    <3>1. batch' = batch /\ \A q \in Runner : batch[q] \subseteq Task
      BY DEF RunReturns, TypeOK
    <3> QED BY <1>2, <3>1, HomeAssumption DEF ObjectsHeld
  <2>3. \A q \in Runner : pc'[q] # "idle" =>
           up'[Home[q]] /\ job'[q] # NoTask /\ mem'[Home[q]][job'[q]] # NoTask
    <3> SUFFICES ASSUME NEW q \in Runner, pc'[q] # "idle"
                 PROVE  up[Home[q]] /\ job'[q] # NoTask /\ mem'[Home[q]][job'[q]] # NoTask
      BY DEF RunReturns
    <3>1. q # r
      BY DEF RunReturns, TypeOK
    <3>2. pc'[q] = pc[q] /\ job'[q] = job[q]
      BY <3>1 DEF RunReturns, TypeOK
    <3>3. Home[q] \in Proc /\ job[q] \in Task
      BY <3>2, HomeAssumption DEF TypeOK, ObjectsHeld
    <3> QED BY <1>2, <3>2, <3>3 DEF ObjectsHeld
  <2>4. \A q \in Runner : pc'[q] = "ended" => outcome'[q] # "none"
    BY DEF RunReturns, TypeOK, ObjectsHeld
  <2> QED BY <2>1, <2>2, <2>3, <2>4 DEF RunReturns, ObjectsHeld
<1>5. HandlesLive'
  <2> SUFFICES ASSUME NEW q \in Proc, NEW u \in Task, active'[q][u] # NoRunner
               PROVE  LET h == active'[q][u]
                      IN Home[h] = q /\ pc'[h] # "idle" /\ job'[h] = u
    BY DEF HandlesLive
  <2>1. ~(q = p /\ u = t)
    BY <1>1 DEF RunReturns, TypeOK
  <2>2. active'[q][u] = active[q][u] /\ active[q][u] \in Runner
    BY <1>1, <2>1 DEF RunReturns, TypeOK
  <2>3. active[q][u] # r
    BY <2>1, <2>2 DEF HandlesLive
  <2> QED BY <2>2, <2>3 DEF RunReturns, HandlesLive, TypeOK
<1> QED BY <1>3, <1>4, <1>5

LEMMA TickInv ==
    ASSUME Inv, NEW t \in Task, Tick(t)
    PROVE  Inv'
<1> DEFINE arrived(rec) == IF rec # NoTask /\ rec.next = "later"
                           THEN [rec EXCEPT !.next = "now"] ELSE rec
<1> USE DEF Inv, runner
<1>1. \A rec \in TaskRecord \cup {NoTask} :
        /\ arrived(rec) \in TaskRecord \cup {NoTask}
        /\ rec # NoTask => arrived(rec) # NoTask
  <2> TAKE rec \in TaskRecord \cup {NoTask}
  <2>1. CASE rec = NoTask
    BY <2>1
  <2>2. CASE rec \in TaskRecord
    <3>1. [rec EXCEPT !.next = "now"] \in TaskRecord
      BY <2>2 DEF TaskRecord
    <3> QED BY <2>2, <3>1, RecordAssumption
  <2> QED BY <2>1, <2>2
<1>2. /\ row' = [row EXCEPT ![t] = arrived(@)]
      /\ mem' = [p \in Proc |-> [mem[p] EXCEPT ![t] = arrived(@)]]
  BY DEF Tick
<1> HIDE DEF arrived
<1>3. /\ row' \in [Task -> TaskRecord \cup {NoTask}]
      /\ mem' \in [Proc -> [Task -> TaskRecord \cup {NoTask}]]
      /\ \A q \in Proc, u \in Task : mem'[q][u] = NoTask => mem[q][u] = NoTask
  BY <1>1, <1>2 DEF TypeOK
<1>4. TypeOK'
  BY <1>3 DEF Tick, TypeOK
<1>5. ObjectsHeld'
  BY <1>3, HomeAssumption DEF Tick, TypeOK, ObjectsHeld
<1>6. HandlesLive'
  BY DEF Tick, HandlesLive
<1> QED BY <1>4, <1>5, <1>6

LEMMA StepInv == Inv /\ [Next]_vars => Inv'
<1> SUFFICES ASSUME Inv, [Next]_vars PROVE Inv'
  OBVIOUS
<1>1. ASSUME NEW p \in Proc, LoadTasks(p) \/ Stop(p) PROVE Inv'
  BY <1>1, LoadInv, StopInv
<1>2. ASSUME NEW p \in Proc, NEW t \in Task, UserStep(p, t) PROVE Inv'
  BY <1>2, AddInv, RemoveInv, ToggleInv, CancelInv, ResumeInv DEF UserStep
<1>3. ASSUME NEW r \in Runner, LoopStep(r) \/ RunnerStep(r) PROVE Inv'
  BY <1>3, PollInv, RunNextInv, BuildInv, ChatEndsInv, ReturnsInv, InterruptInv
     DEF LoopStep, RunnerStep
<1>4. ASSUME NEW r \in Runner, NEW t \in Task, RunNow(r, t) PROVE Inv'
  BY <1>4, RunNowInv
<1>5. ASSUME NEW t \in Task, Tick(t) PROVE Inv'
  BY <1>5, TickInv
<1>6. CASE UNCHANGED vars
  BY <1>6 DEF vars, Inv, TypeOK, ObjectsHeld, HandlesLive
<1> QED BY <1>1, <1>2, <1>3, <1>4, <1>5, <1>6 DEF Next

LEMMA InvHolds == Spec => []Inv
BY InitInv, StepInv, PTL DEF Spec

\* Every variable of the scheduler keeps its type (Scheduler.TypeOK).
THEOREM TypeCorrect == Spec => []TypeOK
<1>1. Inv => TypeOK
  BY DEF Inv
<1> QED BY InvHolds, <1>1, PTL

\* An entry of _active_runs names a run of that task in that process that has
\* not returned, however many coroutines run the same task and whenever
\* processes die: request_cancel and remove_task cancel no other task's run.
THEOREM HandlesAreLive == Spec => []HandlesLive
<1>1. Inv => HandlesLive
  BY DEF Inv
<1> QED BY InvHolds, <1>1, PTL

-----------------------------------------------------------------------------
(* Every copy of a task is consistent.                                      *)

LEMMA RecoveredOK ==
    ASSUME NEW t \in Task, NEW rec \in TaskRecord, RecordOK(t, rec)
    PROVE  RecordOK(t, Recovered(rec))
BY DEF RecordOK, Recovered, TaskRecord, Status, Checkpoint

LEMMA NewTaskOK ==
    ASSUME NEW t \in Task
    PROVE  RecordOK(t, NewTask(t))
BY DEF RecordOK, NewTask

LEMMA CompletedOK ==
    ASSUME NEW t \in Task, NEW rec \in TaskRecord
    PROVE  RecordOK(t, Completed(t, rec))
BY KindAssumption DEF RecordOK, Completed, NextRunAfter, TaskRecord

LEMMA CancelledOK ==
    ASSUME NEW t \in Task, NEW rec \in TaskRecord
    PROVE  RecordOK(t, Cancelled(rec))
BY DEF RecordOK, Cancelled, TaskRecord

\* After a failure the streak is at least one; FAILED keeps it within budget.
LEMMA FailedOK ==
    ASSUME NEW t \in Task, NEW rec \in TaskRecord, NEW m \in Message
    PROVE  RecordOK(t, Failed(t, rec, m))
<1> DEFINE s == StreakAfter(rec, m)
<1>1. rec.streak \in Nat
  BY BoundsAssumption DEF TaskRecord
<1>2. s \in Nat /\ s >= 1
  BY <1>1, BoundsAssumption DEF StreakAfter, Saturated
<1>3. m # "none"
  BY NamesAssumption
<1>4. NextRunAfter(t) = "none" => Kind[t] = "once"
  BY DEF NextRunAfter
<1>5. CASE s > MaxRetries
  <2>1. /\ Failed(t, rec, m).status = "paused"
        /\ Failed(t, rec, m).ckpt = "paused"
        /\ Failed(t, rec, m).streak = s
    BY <1>5 DEF Failed, TaskRecord
  <2> QED BY <1>5, <2>1 DEF RecordOK
<1>6. CASE ~(s > MaxRetries)
  <2>1. /\ Failed(t, rec, m).status = "failed"
        /\ Failed(t, rec, m).ckpt = "failed"
        /\ Failed(t, rec, m).streak = s
        /\ Failed(t, rec, m).message = m
        /\ Failed(t, rec, m).next = NextRunAfter(t)
    BY <1>6 DEF Failed, TaskRecord
  <2>2. s \in 1 .. MaxRetries
    BY <1>2, <1>6, BoundsAssumption
  <2> QED BY <1>3, <1>4, <2>1, <2>2 DEF RecordOK
<1> QED BY <1>5, <1>6

LEMMA SettledOK ==
    ASSUME Inv, NEW r \in Runner, pc[r] = "ended"
    PROVE  RecordOK(job[r], Settled(r))
<1> DEFINE rec == mem[Home[r]][job[r]]
<1>1. job[r] \in Task /\ rec \in TaskRecord
  BY HomeAssumption DEF Inv, TypeOK, ObjectsHeld
<1>2. outcome[r] \in Message \cup {"result", "cancelled"}
  BY DEF Inv, TypeOK, ObjectsHeld
<1>3. CASE outcome[r] = "cancelled"
  BY <1>1, <1>3, CancelledOK DEF Settled
<1>4. CASE outcome[r] = "result"
  BY <1>1, <1>4, CancelledOK, CompletedOK DEF Settled
<1>5. CASE outcome[r] \in Message
  <2>1. outcome[r] # "cancelled" /\ outcome[r] # "result"
    BY <1>5, NamesAssumption
  <2> QED BY <1>1, <1>5, <2>1, FailedOK DEF Settled
<1> QED BY <1>2, <1>3, <1>4, <1>5

\* Storing a consistent record keeps all copies consistent.
LEMMA SaveKeepsRecords ==
    ASSUME Inv, RecordsConsistent, NEW p \in Proc, NEW t \in Task,
           NEW rec \in TaskRecord, RecordOK(t, rec), SaveTask(p, t, rec)
    PROVE  RecordsConsistent'
BY DEF Inv, TypeOK, SaveTask, RecordsConsistent

LEMMA RowsRecoveredOK ==
    ASSUME Inv, RecordsConsistent
    PROVE  \A t \in Task : RecoveredRows[t] # NoTask => RecordOK(t, RecoveredRows[t])
<1> SUFFICES ASSUME NEW t \in Task, RecoveredRows[t] # NoTask
             PROVE  RecordOK(t, RecoveredRows[t])
  OBVIOUS
<1>1. RecoveredRows[t] = Recovered(row[t])
  BY DEF RecoveredRows
<1>2. row[t] # NoTask /\ row[t] \in TaskRecord
  BY <1>1, RecoveredType DEF Inv, TypeOK
<1> QED BY <1>1, <1>2, RecoveredOK DEF RecordsConsistent

LEMMA UserKeepsRecords ==
    ASSUME Inv, RecordsConsistent, NEW p \in Proc, NEW t \in Task, UserStep(p, t)
    PROVE  RecordsConsistent'
<1>1. CASE AddTask(p, t)
  BY <1>1, NewTaskType, NewTaskOK, SaveKeepsRecords DEF AddTask
<1>2. CASE RemoveTask(p, t)
  BY <1>2 DEF RemoveTask, RecordsConsistent, Inv, TypeOK
<1>3. ASSUME t \in known[p]
      PROVE  mem[p][t] \in TaskRecord /\ RecordOK(t, mem[p][t])
  BY <1>3, KnownRecord, RecordAssumption DEF RecordsConsistent
<1>4. CASE ToggleTask(p, t)
  <2> DEFINE rec == [mem[p][t] EXCEPT !.enabled = ~@]
  <2>1. rec \in TaskRecord /\ RecordOK(t, rec)
    BY <1>3, <1>4 DEF ToggleTask, TaskRecord, RecordOK
  <2> QED BY <1>4, <2>1, SaveKeepsRecords DEF ToggleTask
<1>5. CASE RequestCancel(p, t)
  <2> DEFINE rec == [mem[p][t] EXCEPT !.cancel = TRUE, !.ckpt = "cancellation_requested"]
  <2>1. rec \in TaskRecord /\ RecordOK(t, rec)
    BY <1>3, <1>5 DEF RequestCancel, TaskRecord, Checkpoint, RecordOK
  <2> QED BY <1>5, <2>1, SaveKeepsRecords DEF RequestCancel
<1>6. CASE ResumeTask(p, t)
  <2> DEFINE rec == [mem[p][t] EXCEPT !.cancel = FALSE, !.status = "pending",
                                      !.next = "now", !.ckpt = "resumed"]
  <2>1. rec \in TaskRecord /\ RecordOK(t, rec)
    BY <1>3, <1>6 DEF ResumeTask, TaskRecord, Status, Checkpoint, RecordOK
  <2> QED BY <1>6, <2>1, SaveKeepsRecords DEF ResumeTask
<1> QED BY <1>1, <1>2, <1>4, <1>5, <1>6 DEF UserStep

LEMMA RunTaskKeepsRecords ==
    ASSUME Inv, RecordsConsistent, NEW r \in Runner, NEW t \in Task, RunTask(r, t),
           mem[Home[r]][t] # NoTask
    PROVE  RecordsConsistent'
<1> DEFINE p == Home[r]
           rec == mem[p][t]
           parked == [rec EXCEPT !.status = "paused", !.ckpt = "cancelled_before_start"]
           started == [rec EXCEPT !.status = "running", !.ckpt = "running"]
<1>1. p \in Proc /\ rec \in TaskRecord
  BY HomeAssumption DEF Inv, TypeOK
<1>2. CASE rec.cancel /\ SaveTask(p, t, parked)
  <2>1. parked \in TaskRecord /\ RecordOK(t, parked)
    BY <1>1, <1>2 DEF TaskRecord, Status, Checkpoint, RecordOK
  <2> QED BY <1>1, <1>2, <2>1, SaveKeepsRecords
<1>3. CASE SaveTask(p, t, started)
  <2>1. started \in TaskRecord /\ RecordOK(t, started)
    BY <1>1, <1>3 DEF TaskRecord, Status, Checkpoint, RecordOK
  <2> QED BY <1>1, <1>3, <2>1, SaveKeepsRecords
<1> QED BY <1>2, <1>3 DEF RunTask

LEMMA TickKeepsRecords ==
    ASSUME Inv, RecordsConsistent, NEW t \in Task, Tick(t)
    PROVE  RecordsConsistent'
<1> DEFINE arrived(rec) == IF rec # NoTask /\ rec.next = "later"
                           THEN [rec EXCEPT !.next = "now"] ELSE rec
<1>1. \A u \in Task, rec \in TaskRecord : RecordOK(u, rec) => RecordOK(u, arrived(rec))
  BY DEF RecordOK, TaskRecord
<1>2. arrived(NoTask) = NoTask
  OBVIOUS
<1>3. /\ row' = [row EXCEPT ![t] = arrived(@)]
      /\ mem' = [p \in Proc |-> [mem[p] EXCEPT ![t] = arrived(@)]]
  BY DEF Tick
<1> HIDE DEF arrived
<1>4. \A u \in Task : row'[u] # NoTask => RecordOK(u, row'[u])
  <2> SUFFICES ASSUME NEW u \in Task, row'[u] # NoTask PROVE RecordOK(u, row'[u])
    OBVIOUS
  <2>1. row'[u] = row[u] \/ row'[u] = arrived(row[u])
    BY <1>3 DEF Inv, TypeOK
  <2>2. row[u] # NoTask /\ row[u] \in TaskRecord
    BY <1>2, <2>1 DEF Inv, TypeOK
  <2> QED BY <1>1, <2>1, <2>2 DEF RecordsConsistent
<1>5. \A p \in Proc, u \in Task : mem'[p][u] # NoTask => RecordOK(u, mem'[p][u])
  <2> SUFFICES ASSUME NEW p \in Proc, NEW u \in Task, mem'[p][u] # NoTask
               PROVE  RecordOK(u, mem'[p][u])
    OBVIOUS
  <2>1. mem'[p][u] = mem[p][u] \/ mem'[p][u] = arrived(mem[p][u])
    BY <1>3 DEF Inv, TypeOK
  <2>2. mem[p][u] # NoTask /\ mem[p][u] \in TaskRecord
    BY <1>2, <2>1 DEF Inv, TypeOK
  <2> QED BY <1>1, <2>1, <2>2 DEF RecordsConsistent
<1> QED BY <1>4, <1>5 DEF RecordsConsistent

LEMMA StepKeepsRecords ==
    Inv /\ RecordsConsistent /\ [Next]_vars => RecordsConsistent'
<1> SUFFICES ASSUME Inv, RecordsConsistent, [Next]_vars PROVE RecordsConsistent'
  OBVIOUS
<1>1. ASSUME NEW p \in Proc, LoadTasks(p) PROVE RecordsConsistent'
  BY <1>1, RowsRecoveredOK DEF LoadTasks, RecordsConsistent, Inv, TypeOK
<1>2. ASSUME NEW p \in Proc, Stop(p) PROVE RecordsConsistent'
  BY <1>2 DEF Stop, disk, RecordsConsistent, Inv, TypeOK
<1>3. ASSUME NEW r \in Runner, NEW t \in Task, RunNow(r, t) \/ RunNext(r, t)
      PROVE  RecordsConsistent'
  <2>1. mem[Home[r]][t] # NoTask
    BY <1>3, HomeAssumption DEF RunNow, RunNext, Inv, ObjectsHeld
  <2> QED BY <1>3, <2>1, RunTaskKeepsRecords DEF RunNow, RunNext
<1>4. ASSUME NEW r \in Runner, BuildAgent(r) PROVE RecordsConsistent'
  BY <1>4, RowsRecoveredOK DEF BuildAgent, process, RecordsConsistent
<1>5. ASSUME NEW r \in Runner, RunReturns(r) PROVE RecordsConsistent'
  <2>1. Home[r] \in Proc /\ job[r] \in Task
    BY <1>5, HomeAssumption DEF RunReturns, Inv, TypeOK, ObjectsHeld
  <2> QED BY <1>5, <2>1, SettledType, SettledOK, SaveKeepsRecords DEF RunReturns
<1>6. ASSUME NEW r \in Runner, (\E list : Poll(r, list)) \/ ChatEnds(r) \/ Interrupt(r)
      PROVE  RecordsConsistent'
  BY <1>6 DEF Poll, ChatEnds, Interrupt, disk, process, RecordsConsistent
<1>7. CASE UNCHANGED vars
  BY <1>7 DEF vars, RecordsConsistent
<1> QED BY <1>1, <1>2, <1>3, <1>4, <1>5, <1>6, <1>7, UserKeepsRecords, TickKeepsRecords
        DEF Next, LoopStep, RunnerStep

\* Whatever processes, loops, callers, crashes and cancellations do, no row and
\* no task object contradicts itself (Scheduler.RecordOK).
THEOREM RecordsAreConsistent == Spec => []RecordsConsistent
<1>1. Init => RecordsConsistent
  BY DEF Init, RecordsConsistent
<1> QED BY <1>1, InvHolds, StepKeepsRecords, PTL DEF Spec

-----------------------------------------------------------------------------
(* Status RUNNING always has a run behind it.                               *)

\* A copy of t somewhere else: nobody but a save touches its status.
LEMMA TickCopies ==
    ASSUME Inv, NEW t \in Task, Tick(t), NEW u \in Task
    PROVE  /\ row'[u] # NoTask =>
                 /\ row[u] # NoTask
                 /\ row'[u].status = row[u].status /\ row'[u].cancel = row[u].cancel
           /\ \A p \in Proc :
                 /\ mem[p][u] # NoTask <=> mem'[p][u] # NoTask
                 /\ mem[p][u] # NoTask =>
                       /\ mem'[p][u].status = mem[p][u].status
                       /\ mem'[p][u].cancel = mem[p][u].cancel
<1> DEFINE arrived(rec) == IF rec # NoTask /\ rec.next = "later"
                           THEN [rec EXCEPT !.next = "now"] ELSE rec
<1>1. \A rec \in TaskRecord : /\ arrived(rec) \in TaskRecord
                              /\ arrived(rec).status = rec.status
                              /\ arrived(rec).cancel = rec.cancel
  BY DEF TaskRecord
<1>2. arrived(NoTask) = NoTask
  OBVIOUS
<1>3. /\ row' = [row EXCEPT ![t] = arrived(@)]
      /\ mem' = [p \in Proc |-> [mem[p] EXCEPT ![t] = arrived(@)]]
  BY DEF Tick
<1> HIDE DEF arrived
<1>4. row'[u] = row[u] \/ row'[u] = arrived(row[u])
  BY <1>3 DEF Inv, TypeOK
<1>5. \A p \in Proc : mem'[p][u] = mem[p][u] \/ mem'[p][u] = arrived(mem[p][u])
  BY <1>3 DEF Inv, TypeOK
<1>6. /\ row[u] \in TaskRecord \cup {NoTask}
      /\ \A p \in Proc : mem[p][u] \in TaskRecord \cup {NoTask}
  BY DEF Inv, TypeOK
<1> QED BY <1>1, <1>2, <1>4, <1>5, <1>6, RecordAssumption

LEMMA RecoveredStops ==
    ASSUME NEW rec \in TaskRecord \cup {NoTask}, Recovered(rec) # NoTask
    PROVE  Recovered(rec).status # "running"
BY RecordAssumption DEF Recovered, TaskRecord

LEMMA SaveKeepsBacked ==
    ASSUME Inv, RunningBacked, NEW p \in Proc, NEW t \in Task,
           NEW rec \in TaskRecord, SaveTask(p, t, rec), up' = up,
           \A r \in Runner : pc[r] # "idle" /\ ~(Home[r] = p /\ job[r] = t) =>
                                pc'[r] # "idle" /\ job'[r] = job[r],
           rec.status = "running" =>
              \E r \in Runner : Home[r] = p /\ pc'[r] # "idle" /\ job'[r] = t
    PROVE  RunningBacked'
<1>1. \A q \in Proc, u \in Task :
         mem'[q][u] = IF q = p /\ u = t THEN rec ELSE mem[q][u]
  BY SaveType DEF Inv
<1>2. \A u \in Task : row'[u] = IF u = t THEN rec ELSE row[u]
  BY DEF SaveTask, Inv, TypeOK
<1>3. ASSUME NEW q \in Proc, NEW u \in Task,
             mem'[q][u] # NoTask, mem'[q][u].status = "running"
      PROVE  \E r \in Runner : Home[r] = q /\ pc'[r] # "idle" /\ job'[r] = u
  <2>1. CASE q = p /\ u = t
    BY <1>1, <1>3, <2>1
  <2>2. CASE ~(q = p /\ u = t)
    <3>1. PICK r \in Runner : Home[r] = q /\ pc[r] # "idle" /\ job[r] = u
      BY <1>1, <1>3, <2>2 DEF RunningBacked
    <3> QED BY <2>2, <3>1
  <2> QED BY <2>1, <2>2
<1>4. ASSUME NEW u \in Task, row'[u] # NoTask, row'[u].status = "running",
             \A q \in Proc : up'[q]
      PROVE  \E r \in Runner : pc'[r] # "idle" /\ job'[r] = u
  <2>1. CASE u = t
    BY <1>2, <1>4, <2>1
  <2>2. CASE u # t
    <3>1. PICK r \in Runner : pc[r] # "idle" /\ job[r] = u
      BY <1>2, <1>4, <2>2 DEF RunningBacked
    <3> QED BY <2>2, <3>1
  <2> QED BY <2>1, <2>2
<1> QED BY <1>3, <1>4 DEF RunningBacked

\* A step that leaves the runs alone and makes no copy RUNNING.
LEMMA QuietKeepsBacked ==
    ASSUME RunningBacked,
           \A r \in Runner : pc[r] # "idle" => pc'[r] # "idle" /\ job'[r] = job[r],
           \A u \in Task : row'[u] # NoTask /\ row'[u].status = "running" =>
              row[u] # NoTask /\ row[u].status = "running" /\ up' = up,
           \A q \in Proc, u \in Task : mem'[q][u] # NoTask /\ mem'[q][u].status = "running" =>
              mem[q][u] # NoTask /\ mem[q][u].status = "running"
    PROVE  RunningBacked'
<1>1. ASSUME NEW q \in Proc, NEW u \in Task,
             mem'[q][u] # NoTask, mem'[q][u].status = "running"
      PROVE  \E r \in Runner : Home[r] = q /\ pc'[r] # "idle" /\ job'[r] = u
  <2>1. PICK r \in Runner : Home[r] = q /\ pc[r] # "idle" /\ job[r] = u
    BY <1>1 DEF RunningBacked
  <2> QED BY <2>1
<1>2. ASSUME NEW u \in Task, row'[u] # NoTask, row'[u].status = "running",
             \A q \in Proc : up'[q]
      PROVE  \E r \in Runner : pc'[r] # "idle" /\ job'[r] = u
  <2>1. PICK r \in Runner : pc[r] # "idle" /\ job[r] = u
    BY <1>2 DEF RunningBacked
  <2> QED BY <2>1
<1> QED BY <1>1, <1>2 DEF RunningBacked

LEMMA SettledStops ==
    ASSUME Inv, NEW r \in Runner, pc[r] = "ended"
    PROVE  Settled(r).status # "running"
<1>1. mem[Home[r]][job[r]] \in TaskRecord
  BY HomeAssumption DEF Inv, TypeOK, ObjectsHeld
<1> QED BY <1>1 DEF Settled, Cancelled, Completed, Failed, TaskRecord

LEMMA RecoveredRowsStop ==
    ASSUME Inv, NEW u \in Task, RecoveredRows[u] # NoTask
    PROVE  RecoveredRows[u].status # "running"
<1>1. RecoveredRows[u] = Recovered(row[u]) /\ row[u] \in TaskRecord \cup {NoTask}
  BY DEF RecoveredRows, Inv, TypeOK
<1> QED BY <1>1, RecoveredStops

LEMMA UserKeepsBacked ==
    ASSUME Inv, RunningBacked, NEW p \in Proc, NEW t \in Task, UserStep(p, t)
    PROVE  RunningBacked'
<1>1. CASE AddTask(p, t)
  <2>1. NewTask(t).status # "running"
    BY DEF NewTask
  <2> QED BY <1>1, <2>1, NewTaskType, SaveKeepsBacked DEF AddTask, runner
<1>2. CASE RemoveTask(p, t)
  <2>1. \A u \in Task : row'[u] = row[u] \/ row'[u] = NoTask
    BY <1>2 DEF RemoveTask, Inv, TypeOK
  <2>2. \A q \in Proc, u \in Task : mem'[q][u] = mem[q][u] \/ mem'[q][u] = NoTask
    BY <1>2 DEF RemoveTask, Inv, TypeOK
  <2> QED BY <1>2, <2>1, <2>2, QuietKeepsBacked DEF RemoveTask
<1>3. ASSUME t \in known[p]
      PROVE  /\ mem[p][t] \in TaskRecord
             /\ mem[p][t].status = "running" =>
                   \E r \in Runner : Home[r] = p /\ pc[r] # "idle" /\ job[r] = t
  BY <1>3, KnownRecord, RecordAssumption DEF RunningBacked
<1>4. CASE ToggleTask(p, t)
  <2> DEFINE rec == [mem[p][t] EXCEPT !.enabled = ~@]
  <2>1. rec \in TaskRecord /\ rec.status = mem[p][t].status
    BY <1>3, <1>4 DEF ToggleTask, TaskRecord
  <2> QED BY <1>3, <1>4, <2>1, SaveKeepsBacked DEF ToggleTask, runner
<1>5. CASE RequestCancel(p, t)
  <2> DEFINE rec == [mem[p][t] EXCEPT !.cancel = TRUE, !.ckpt = "cancellation_requested"]
  <2>1. rec \in TaskRecord /\ rec.status = mem[p][t].status
    BY <1>3, <1>5 DEF RequestCancel, TaskRecord, Checkpoint
  <2> QED BY <1>3, <1>5, <2>1, SaveKeepsBacked DEF RequestCancel
<1>6. CASE ResumeTask(p, t)
  <2> DEFINE rec == [mem[p][t] EXCEPT !.cancel = FALSE, !.status = "pending",
                                      !.next = "now", !.ckpt = "resumed"]
  <2>1. rec \in TaskRecord /\ rec.status = "pending"
    BY <1>3, <1>6 DEF ResumeTask, TaskRecord, Status, Checkpoint
  <2> QED BY <1>6, <2>1, SaveKeepsBacked DEF ResumeTask, runner
<1> QED BY <1>1, <1>2, <1>4, <1>5, <1>6 DEF UserStep

LEMMA RunTaskKeepsBacked ==
    ASSUME Inv, RunningBacked, NEW r \in Runner, NEW t \in Task, RunTask(r, t),
           mem[Home[r]][t] # NoTask
    PROVE  RunningBacked'
<1> DEFINE p == Home[r]
           rec == mem[p][t]
           parked == [rec EXCEPT !.status = "paused", !.ckpt = "cancelled_before_start"]
           started == [rec EXCEPT !.status = "running", !.ckpt = "running"]
<1>1. p \in Proc /\ rec \in TaskRecord /\ pc[r] = "idle" /\ up' = up
  BY HomeAssumption DEF Inv, TypeOK, RunTask
<1>2. CASE SaveTask(p, t, parked) /\ UNCHANGED <<pc, job>>
  <2>1. parked \in TaskRecord /\ parked.status # "running"
    BY <1>1 DEF TaskRecord, Status, Checkpoint
  <2> QED BY <1>1, <1>2, <2>1, SaveKeepsBacked
<1>3. CASE /\ SaveTask(p, t, started)
           /\ pc' = [pc EXCEPT ![r] = "created"] /\ job' = [job EXCEPT ![r] = t]
  <2>1. started \in TaskRecord
    BY <1>1 DEF TaskRecord, Status, Checkpoint
  <2>2. pc'[r] # "idle" /\ job'[r] = t
    BY <1>3 DEF Inv, TypeOK
  <2>3. \A q \in Runner : pc[q] # "idle" => pc'[q] # "idle" /\ job'[q] = job[q]
    BY <1>1, <1>3 DEF Inv, TypeOK
  <2> QED BY <1>1, <1>3, <2>1, <2>2, <2>3, SaveKeepsBacked
<1> QED BY <1>2, <1>3 DEF RunTask

LEMMA StepKeepsBacked ==
    Inv /\ RunningBacked /\ [Next]_vars => RunningBacked'
<1> SUFFICES ASSUME Inv, RunningBacked, [Next]_vars PROVE RunningBacked'
  OBVIOUS
<1>1. ASSUME NEW p \in Proc, LoadTasks(p) PROVE RunningBacked'
  <2>1. \A u \in Task : row'[u] = RecoveredRows[u]
    BY <1>1 DEF LoadTasks
  <2>2. \A q \in Proc, u \in Task : mem'[q][u] = mem[q][u] \/ mem'[q][u] = RecoveredRows[u]
    BY <1>1 DEF LoadTasks, Inv, TypeOK
  <2> QED BY <1>1, <2>1, <2>2, RecoveredRowsStop, QuietKeepsBacked DEF LoadTasks, runner
<1>2. ASSUME NEW p \in Proc, Stop(p) PROVE RunningBacked'
  <2>1. ~up'[p]
    BY <1>2 DEF Stop, Inv, TypeOK
  <2>2. ASSUME NEW q \in Proc, NEW u \in Task, mem'[q][u] # NoTask,
               mem'[q][u].status = "running"
        PROVE  \E r \in Runner : Home[r] = q /\ pc'[r] # "idle" /\ job'[r] = u
    <3>1. q # p /\ mem'[q][u] = mem[q][u]
      BY <1>2, <2>2 DEF Stop, Inv, TypeOK
    <3>2. PICK r \in Runner : Home[r] = q /\ pc[r] # "idle" /\ job[r] = u
      BY <2>2, <3>1 DEF RunningBacked
    <3> QED BY <1>2, <3>1, <3>2 DEF Stop
  <2> QED BY <2>1, <2>2 DEF RunningBacked
<1>3. ASSUME NEW r \in Runner, NEW t \in Task, RunNow(r, t) \/ RunNext(r, t)
      PROVE  RunningBacked'
  <2>1. mem[Home[r]][t] # NoTask
    BY <1>3, HomeAssumption DEF RunNow, RunNext, Inv, ObjectsHeld
  <2> QED BY <1>3, <2>1, RunTaskKeepsBacked DEF RunNow, RunNext
<1>4. ASSUME NEW r \in Runner, BuildAgent(r) PROVE RunningBacked'
  <2>1. \A u \in Task : row'[u] = row[u] \/ row'[u] = RecoveredRows[u]
    BY <1>4 DEF BuildAgent
  <2>2. \A q \in Runner : pc[q] # "idle" => pc'[q] # "idle" /\ job'[q] = job[q]
    BY <1>4 DEF BuildAgent, Inv, TypeOK
  <2> QED BY <1>4, <2>1, <2>2, RecoveredRowsStop, QuietKeepsBacked DEF BuildAgent, process
<1>5. ASSUME NEW r \in Runner, RunReturns(r) PROVE RunningBacked'
  <2>1. Home[r] \in Proc /\ job[r] \in Task
    BY <1>5, HomeAssumption DEF RunReturns, Inv, TypeOK, ObjectsHeld
  <2>2. \A q \in Runner : q # r => pc'[q] = pc[q] /\ job'[q] = job[q]
    BY <1>5 DEF RunReturns, Inv, TypeOK
  <2> QED BY <1>5, <2>1, <2>2, SettledType, SettledStops, SaveKeepsBacked DEF RunReturns
<1>6. ASSUME NEW r \in Runner, (\E list : Poll(r, list)) \/ ChatEnds(r) \/ Interrupt(r)
      PROVE  RunningBacked'
  <2>1. \A q \in Runner : pc[q] # "idle" => pc'[q] # "idle" /\ job'[q] = job[q]
    BY <1>6 DEF Poll, ChatEnds, Interrupt, Inv, TypeOK
  <2> QED BY <1>6, <2>1, QuietKeepsBacked DEF Poll, ChatEnds, Interrupt, disk, process
<1>7. ASSUME NEW t \in Task, Tick(t) PROVE RunningBacked'
  <2>1. \A u \in Task : row'[u] # NoTask =>
           row[u] # NoTask /\ row'[u].status = row[u].status
    BY <1>7, TickCopies
  <2>2. \A q \in Proc, u \in Task : mem'[q][u] # NoTask =>
           mem[q][u] # NoTask /\ mem'[q][u].status = mem[q][u].status
    BY <1>7, TickCopies
  <2> QED BY <1>7, <2>1, <2>2, QuietKeepsBacked DEF Tick, runner
<1>8. CASE UNCHANGED vars
  BY <1>8 DEF vars, RunningBacked
<1> QED BY <1>1, <1>2, <1>3, <1>4, <1>5, <1>6, <1>7, <1>8, UserKeepsBacked
        DEF Next, LoopStep, RunnerStep

\* A task object that says RUNNING is in the hands of a coroutine between the
\* two ends of run_task, and so is a RUNNING row while every process is up: no
\* order of runs, removals, restarts and saves leaves the status behind
\* (Scheduler.RunningBacked).
THEOREM RunsAreBacked == Spec => []RunningBacked
<1>1. Init => RunningBacked
  BY DEF Init, RunningBacked
<1> QED BY <1>1, InvHolds, StepKeepsBacked, PTL DEF Spec

-----------------------------------------------------------------------------
(* A cancelled task never completes.                                        *)

\* A process that is down has no task objects.
DownForgets == \A p \in Proc : ~up[p] => \A t \in Task : mem[p][t] = NoTask

LEMMA SaveKeepsForgotten ==
    ASSUME Inv, DownForgets, NEW p \in Proc, NEW t \in Task, NEW rec,
           SaveTask(p, t, rec), up[p], up' = up
    PROVE  DownForgets'
BY DEF SaveTask, Inv, TypeOK, DownForgets

LEMMA StepForgets ==
    Inv /\ DownForgets /\ [Next]_vars => DownForgets'
<1> SUFFICES ASSUME Inv, DownForgets, [Next]_vars PROVE DownForgets'
  OBVIOUS
<1>1. ASSUME NEW p \in Proc, LoadTasks(p) \/ Stop(p) PROVE DownForgets'
  <2>1. CASE LoadTasks(p)
    <3>1. /\ up'[p]
          /\ \A q \in Proc : q # p => up'[q] = up[q] /\ mem'[q] = mem[q]
      BY <2>1 DEF LoadTasks, Inv, TypeOK
    <3> QED BY <3>1 DEF DownForgets
  <2>2. CASE Stop(p)
    <3>1. /\ \A u \in Task : mem'[p][u] = NoTask
          /\ \A q \in Proc : q # p => up'[q] = up[q] /\ mem'[q] = mem[q]
      BY <2>2 DEF Stop, Inv, TypeOK
    <3> QED BY <3>1 DEF DownForgets
  <2> QED BY <1>1, <2>1, <2>2
<1>2. ASSUME NEW p \in Proc, NEW t \in Task, UserStep(p, t) PROVE DownForgets'
  <2>1. CASE AddTask(p, t)
    BY <2>1, SaveKeepsForgotten DEF AddTask
  <2>2. CASE RemoveTask(p, t)
    BY <2>2 DEF RemoveTask, DownForgets, Inv, TypeOK
  <2>3. CASE ToggleTask(p, t)
    BY <2>3, KnownRecord, SaveKeepsForgotten DEF ToggleTask
  <2>4. CASE RequestCancel(p, t)
    BY <2>4, KnownRecord, SaveKeepsForgotten DEF RequestCancel
  <2>5. CASE ResumeTask(p, t)
    BY <2>5, KnownRecord, SaveKeepsForgotten DEF ResumeTask
  <2> QED BY <1>2, <2>1, <2>2, <2>3, <2>4, <2>5 DEF UserStep
<1>3. ASSUME NEW r \in Runner, NEW t \in Task, RunNow(r, t) \/ RunNext(r, t)
      PROVE  DownForgets'
  <2>1. up[Home[r]] /\ Home[r] \in Proc
    BY <1>3, HomeAssumption, KnownRecord DEF RunNow, RunNext, Inv, ObjectsHeld
  <2> QED BY <1>3, <2>1, SaveKeepsForgotten DEF RunNow, RunNext, RunTask
<1>4. ASSUME NEW r \in Runner, RunReturns(r) PROVE DownForgets'
  <2>1. up[Home[r]] /\ Home[r] \in Proc /\ job[r] \in Task
    BY <1>4, HomeAssumption DEF RunReturns, Inv, TypeOK, ObjectsHeld
  <2> QED BY <1>4, <2>1, SaveKeepsForgotten DEF RunReturns
<1>5. ASSUME NEW r \in Runner,
             (\E list : Poll(r, list)) \/ BuildAgent(r) \/ ChatEnds(r) \/ Interrupt(r)
      PROVE  DownForgets'
  BY <1>5 DEF Poll, BuildAgent, ChatEnds, Interrupt, process, DownForgets
<1>6. ASSUME NEW t \in Task, Tick(t) PROVE DownForgets'
  <2>1. up' = up
    BY <1>6 DEF Tick
  <2> QED BY <1>6, <2>1, TickCopies DEF DownForgets
<1>7. CASE UNCHANGED vars
  BY <1>7 DEF vars, DownForgets
<1> QED BY <1>1, <1>2, <1>3, <1>4, <1>5, <1>6, <1>7 DEF Next, LoopStep, RunnerStep

\* What the promise says of one step.
NoneCompletes ==
    \A p \in Proc, t \in Task :
        mem[p][t] # NoTask /\ mem[p][t].cancel
        /\ mem'[p][t] # NoTask /\ mem'[p][t].status = "completed"
          => mem[p][t].status = "completed"

\* Storing a record that is not freshly COMPLETED.
LEMMA SaveCompletesNone ==
    ASSUME Inv, NEW p \in Proc, NEW t \in Task, NEW rec \in TaskRecord,
           SaveTask(p, t, rec),
           mem[p][t] # NoTask /\ mem[p][t].cancel /\ rec.status = "completed" =>
              mem[p][t].status = "completed"
    PROVE  NoneCompletes
<1>1. \A q \in Proc, u \in Task :
         mem'[q][u] = IF q = p /\ u = t THEN rec ELSE mem[q][u]
  BY SaveType DEF Inv
<1> QED BY <1>1 DEF NoneCompletes

\* A run whose task was cancelled meanwhile is stored as paused or failed.
LEMMA CancelledSettles ==
    ASSUME Inv, NEW r \in Runner, pc[r] = "ended", mem[Home[r]][job[r]].cancel
    PROVE  Settled(r).status # "completed"
<1>1. mem[Home[r]][job[r]] \in TaskRecord
  BY HomeAssumption DEF Inv, TypeOK, ObjectsHeld
<1> QED BY <1>1 DEF Settled, Cancelled, Failed, TaskRecord

LEMMA StepCompletesNone ==
    Inv /\ DownForgets /\ [Next]_vars => NoneCompletes
<1> SUFFICES ASSUME Inv, DownForgets, [Next]_vars PROVE NoneCompletes
  OBVIOUS
<1>1. ASSUME NEW p \in Proc, LoadTasks(p) \/ Stop(p) PROVE NoneCompletes
  <2>1. \A q \in Proc, u \in Task :
           mem'[q][u] = mem[q][u] \/ mem[q][u] = NoTask \/ mem'[q][u] = NoTask
    <3>1. \A q \in Proc : q # p => mem'[q] = mem[q]
      BY <1>1 DEF LoadTasks, Stop, Inv, TypeOK
    <3>2. CASE LoadTasks(p)
      BY <3>1, <3>2 DEF LoadTasks, DownForgets
    <3>3. CASE Stop(p)
      <4>1. \A u \in Task : mem'[p][u] = NoTask
        BY <3>3 DEF Stop, Inv, TypeOK
      <4> QED BY <3>1, <4>1
    <3> QED BY <1>1, <3>2, <3>3
  <2> QED BY <2>1 DEF NoneCompletes
<1>2. ASSUME NEW p \in Proc, NEW t \in Task, UserStep(p, t) PROVE NoneCompletes
  <2>1. CASE AddTask(p, t)
    <3>1. NewTask(t).status # "completed"
      BY DEF NewTask
    <3> QED BY <2>1, <3>1, NewTaskType, SaveCompletesNone DEF AddTask
  <2>2. CASE RemoveTask(p, t)
    <3>1. \A q \in Proc, u \in Task : mem'[q][u] = mem[q][u] \/ mem'[q][u] = NoTask
      BY <2>2 DEF RemoveTask, Inv, TypeOK
    <3> QED BY <3>1 DEF NoneCompletes
  <2>3. CASE ToggleTask(p, t)
    <3> DEFINE rec == [mem[p][t] EXCEPT !.enabled = ~@]
    <3>1. rec \in TaskRecord /\ rec.status = mem[p][t].status
      <4>1. mem[p][t] \in TaskRecord
        BY <2>3, KnownRecord DEF ToggleTask
      <4> QED BY <4>1 DEF TaskRecord
    <3> QED BY <2>3, <3>1, SaveCompletesNone DEF ToggleTask
  <2>4. CASE RequestCancel(p, t)
    <3> DEFINE rec == [mem[p][t] EXCEPT !.cancel = TRUE, !.ckpt = "cancellation_requested"]
    <3>1. rec \in TaskRecord /\ rec.status = mem[p][t].status
      <4>1. mem[p][t] \in TaskRecord
        BY <2>4, KnownRecord DEF RequestCancel
      <4> QED BY <4>1 DEF TaskRecord, Checkpoint
    <3> QED BY <2>4, <3>1, SaveCompletesNone DEF RequestCancel
  <2>5. CASE ResumeTask(p, t)
    <3> DEFINE rec == [mem[p][t] EXCEPT !.cancel = FALSE, !.status = "pending",
                                        !.next = "now", !.ckpt = "resumed"]
    <3>1. rec \in TaskRecord /\ rec.status = "pending"
      <4>1. mem[p][t] \in TaskRecord
        BY <2>5, KnownRecord DEF ResumeTask
      <4> QED BY <4>1 DEF TaskRecord, Status, Checkpoint
    <3> QED BY <2>5, <3>1, SaveCompletesNone DEF ResumeTask
  <2> QED BY <1>2, <2>1, <2>2, <2>3, <2>4, <2>5 DEF UserStep
<1>3. ASSUME NEW r \in Runner, NEW t \in Task, RunNow(r, t) \/ RunNext(r, t)
      PROVE  NoneCompletes
  <2> DEFINE p == Home[r]
             rec == mem[p][t]
             parked == [rec EXCEPT !.status = "paused", !.ckpt = "cancelled_before_start"]
             started == [rec EXCEPT !.status = "running", !.ckpt = "running"]
  <2>1. p \in Proc /\ rec \in TaskRecord
    BY <1>3, HomeAssumption DEF RunNow, RunNext, Inv, TypeOK, ObjectsHeld
  <2>2. /\ parked \in TaskRecord /\ parked.status = "paused"
        /\ started \in TaskRecord /\ started.status = "running"
    BY <2>1 DEF TaskRecord, Status, Checkpoint
  <2>3. SaveTask(p, t, parked) \/ SaveTask(p, t, started)
    BY <1>3 DEF RunNow, RunNext, RunTask
  <2> QED BY <2>1, <2>2, <2>3, SaveCompletesNone
<1>4. ASSUME NEW r \in Runner, RunReturns(r) PROVE NoneCompletes
  <2>1. Home[r] \in Proc /\ job[r] \in Task
    BY <1>4, HomeAssumption DEF RunReturns, Inv, TypeOK, ObjectsHeld
  <2> QED BY <1>4, <2>1, SettledType, CancelledSettles, SaveCompletesNone DEF RunReturns
<1>5. ASSUME NEW r \in Runner,
             (\E list : Poll(r, list)) \/ BuildAgent(r) \/ ChatEnds(r) \/ Interrupt(r)
      PROVE  NoneCompletes
  BY <1>5 DEF Poll, BuildAgent, ChatEnds, Interrupt, process, NoneCompletes
<1>6. ASSUME NEW t \in Task, Tick(t) PROVE NoneCompletes
  BY <1>6, TickCopies DEF NoneCompletes
<1>7. CASE UNCHANGED vars
  BY <1>7 DEF vars, NoneCompletes
<1> QED BY <1>1, <1>2, <1>3, <1>4, <1>5, <1>6, <1>7 DEF Next, LoopStep, RunnerStep

\* Once the flag is set on a task object, a result that arrives afterwards is
\* thrown away: the object does not become COMPLETED while the flag stands,
\* whichever runs of the task overlap (Scheduler.CancelNeverCompletes).
THEOREM CancelledStaysIncomplete == Spec => CancelNeverCompletes
<1>1. Init => DownForgets
  BY DEF Init, DownForgets
<1>2. Inv /\ DownForgets /\ [Next]_vars => [NoneCompletes]_vars
  BY StepCompletesNone
<1> QED BY <1>1, <1>2, InvHolds, StepForgets, PTL DEF Spec, CancelNeverCompletes, NoneCompletes

-----------------------------------------------------------------------------
(* Durability of a process that has the database to itself.                 *)

LEMMA RecoveredIdempotent ==
    ASSUME NEW rec \in TaskRecord
    PROVE  Recovered(Recovered(rec)) = Recovered(rec)
<1>1. CASE rec.status = "running"
  <2>1. Recovered(rec).status # "running"
    BY <1>1, RecordAssumption DEF Recovered, TaskRecord
  <2> QED BY <2>1 DEF Recovered
<1>2. CASE rec.status # "running"
  BY <1>2 DEF Recovered
<1> QED BY <1>1, <1>2

\* A step that stores a record for one task and adds at most that key.
LEMMA SaveIsDurable ==
    ASSUME Inv, WriteThrough, NEW p \in Proc, Proc = {p}, NEW t \in Task,
           NEW rec \in TaskRecord, SaveTask(p, t, rec),
           known'[p] \subseteq known[p] \cup {t}
    PROVE  WriteThrough'
<1> SUFFICES ASSUME NEW u \in Task, u \in known'[p]
             PROVE  row'[u] # NoTask /\ row'[u] \in {mem'[p][u], Recovered(mem'[p][u])}
  BY DEF WriteThrough
<1>1. CASE u = t
  BY <1>1, RecordAssumption DEF SaveTask, Inv, TypeOK
<1>2. CASE u # t
  <2>1. row'[u] = row[u] /\ mem'[p][u] = mem[p][u] /\ u \in known[p]
    BY <1>2 DEF SaveTask, Inv, TypeOK
  <2> QED BY <2>1 DEF WriteThrough
<1> QED BY <1>1, <1>2

LEMMA StepIsDurable ==
    ASSUME NEW p, Proc = {p}, Inv, WriteThrough, [Next]_vars
    PROVE  WriteThrough'
<1>p. p \in Proc
  OBVIOUS
<1>1. CASE LoadTasks(p)
  <2>1. \A t \in Task : row[t] # NoTask => RecoveredRows[t] # NoTask
    BY RecoveredType, RecordAssumption DEF Inv, TypeOK, RecoveredRows
  <2> QED BY <1>1, <1>p, <2>1 DEF LoadTasks, WriteThrough, Inv, TypeOK
<1>2. CASE Stop(p)
  BY <1>2, <1>p DEF Stop, WriteThrough, Inv, TypeOK
<1>3. ASSUME NEW t \in Task, AddTask(p, t) PROVE WriteThrough'
  BY <1>3, <1>p, NewTaskType, SaveIsDurable DEF AddTask, Inv, TypeOK
<1>4. ASSUME NEW t \in Task, RemoveTask(p, t) PROVE WriteThrough'
  BY <1>4, <1>p DEF RemoveTask, WriteThrough, Inv, TypeOK
<1>5. ASSUME NEW t \in Task, ToggleTask(p, t) PROVE WriteThrough'
  <2>1. [mem[p][t] EXCEPT !.enabled = ~@] \in TaskRecord
    <3>1. mem[p][t] \in TaskRecord
      BY <1>5, <1>p, KnownRecord DEF ToggleTask
    <3> QED BY <3>1 DEF TaskRecord
  <2> QED BY <1>5, <1>p, <2>1, SaveIsDurable DEF ToggleTask
<1>6. ASSUME NEW t \in Task, RequestCancel(p, t) PROVE WriteThrough'
  <2>1. [mem[p][t] EXCEPT !.cancel = TRUE, !.ckpt = "cancellation_requested"] \in TaskRecord
    <3>1. mem[p][t] \in TaskRecord
      BY <1>6, <1>p, KnownRecord DEF RequestCancel
    <3> QED BY <3>1 DEF TaskRecord, Checkpoint
  <2> QED BY <1>6, <1>p, <2>1, SaveIsDurable DEF RequestCancel
<1>7. ASSUME NEW t \in Task, ResumeTask(p, t) PROVE WriteThrough'
  <2>1. [mem[p][t] EXCEPT !.cancel = FALSE, !.status = "pending",
                          !.next = "now", !.ckpt = "resumed"] \in TaskRecord
    <3>1. mem[p][t] \in TaskRecord
      BY <1>7, <1>p, KnownRecord DEF ResumeTask
    <3> QED BY <3>1 DEF TaskRecord, Status, Checkpoint
  <2> QED BY <1>7, <1>p, <2>1, SaveIsDurable DEF ResumeTask
<1>8. ASSUME NEW r \in Runner, NEW t \in Task, RunTask(r, t), mem[Home[r]][t] # NoTask
      PROVE  WriteThrough'
  <2>1. Home[r] = p /\ mem[p][t] \in TaskRecord
    BY <1>8, HomeAssumption DEF Inv, TypeOK
  <2>2. /\ [mem[p][t] EXCEPT !.status = "paused", !.ckpt = "cancelled_before_start"]
             \in TaskRecord
        /\ [mem[p][t] EXCEPT !.status = "running", !.ckpt = "running"] \in TaskRecord
    BY <2>1 DEF TaskRecord, Status, Checkpoint
  <2> QED BY <1>8, <1>p, <2>1, <2>2, SaveIsDurable DEF RunTask
<1>9. ASSUME NEW r \in Runner, NEW t \in Task, RunNow(r, t) \/ RunNext(r, t)
      PROVE  WriteThrough'
  <2>1. mem[Home[r]][t] # NoTask
    BY <1>9, HomeAssumption DEF RunNow, RunNext, Inv, ObjectsHeld
  <2> QED BY <1>8, <1>9, <2>1 DEF RunNow, RunNext
<1>10. ASSUME NEW r \in Runner, BuildAgent(r) PROVE WriteThrough'
  <2> SUFFICES ASSUME NEW u \in Task, u \in known[p]
               PROVE  row'[u] # NoTask /\ row'[u] \in {mem[p][u], Recovered(mem[p][u])}
    BY <1>10 DEF BuildAgent, process, WriteThrough
  <2>1. /\ row[u] # NoTask /\ row[u] \in {mem[p][u], Recovered(mem[p][u])}
        /\ row[u] \in TaskRecord /\ mem[p][u] \in TaskRecord
    BY <1>p, KnownRecord DEF WriteThrough, Inv, TypeOK
  <2>2. row'[u] = row[u] \/ row'[u] = Recovered(row[u])
    BY <1>10 DEF BuildAgent, RecoveredRows
  <2>3. Recovered(row[u]) # NoTask
    BY <2>1, RecoveredType, RecordAssumption
  <2> QED BY <2>1, <2>2, <2>3, RecoveredIdempotent
<1>11. ASSUME NEW r \in Runner, RunReturns(r) PROVE WriteThrough'
  <2>1. Home[r] = p /\ job[r] \in Task
    BY <1>11, HomeAssumption DEF RunReturns, Inv, TypeOK, ObjectsHeld
  <2> QED BY <1>11, <1>p, <2>1, SettledType, SaveIsDurable DEF RunReturns
<1>12. ASSUME NEW r \in Runner, (\E list : Poll(r, list)) \/ ChatEnds(r) \/ Interrupt(r)
       PROVE  WriteThrough'
  BY <1>12 DEF Poll, ChatEnds, Interrupt, disk, process, WriteThrough
<1>13. ASSUME NEW t \in Task, Tick(t) PROVE WriteThrough'
  <2> DEFINE arrived(rec) == IF rec # NoTask /\ rec.next = "later"
                             THEN [rec EXCEPT !.next = "now"] ELSE rec
  <2>1. /\ row' = [row EXCEPT ![t] = arrived(@)]
        /\ mem' = [q \in Proc |-> [mem[q] EXCEPT ![t] = arrived(@)]]
    BY <1>13 DEF Tick
  <2>2. \A rec \in TaskRecord : arrived(rec) \in TaskRecord
    BY DEF TaskRecord
  <2>3. \A rec \in TaskRecord : arrived(Recovered(rec)) = Recovered(arrived(rec))
    <3> TAKE rec \in TaskRecord
    <3>1. /\ rec # NoTask /\ Recovered(rec) # NoTask /\ arrived(rec) # NoTask
          /\ Recovered(rec).next = rec.next /\ arrived(rec).status = rec.status
      BY <2>2, RecoveredType, RecordAssumption DEF Recovered, TaskRecord
    <3>2. CASE rec.next # "later"
      BY <3>1, <3>2
    <3>3. CASE rec.next = "later" /\ rec.status # "running"
      BY <3>1, <3>3 DEF Recovered
    <3>4. CASE rec.next = "later" /\ rec.status = "running"
      <4>1. /\ Recovered(rec) = [rec EXCEPT !.status = "pending", !.cancel = FALSE,
                                           !.ckpt = "resumed_after_restart"]
            /\ arrived(rec) = [rec EXCEPT !.next = "now"]
            /\ arrived(Recovered(rec)) = [Recovered(rec) EXCEPT !.next = "now"]
        BY <3>1, <3>4 DEF Recovered
      <4>2. Recovered(arrived(rec)) =
              [arrived(rec) EXCEPT !.status = "pending", !.cancel = FALSE,
                                   !.ckpt = "resumed_after_restart"]
        BY <3>1, <3>4 DEF Recovered
      <4> DEFINE both == [status |-> "pending", enabled |-> rec.enabled,
                          cancel |-> FALSE, next |-> "now",
                          ckpt |-> "resumed_after_restart", ran |-> rec.ran,
                          retry |-> rec.retry, streak |-> rec.streak,
                          message |-> rec.message]
      <4> HIDE DEF arrived
      <4>3. arrived(Recovered(rec)) = both
        <5>1. Recovered(rec) =
                [status |-> "pending", enabled |-> rec.enabled, cancel |-> FALSE,
                 next |-> rec.next, ckpt |-> "resumed_after_restart",
                 ran |-> rec.ran, retry |-> rec.retry, streak |-> rec.streak,
                 message |-> rec.message]
          BY <4>1 DEF TaskRecord
        <5>2. Recovered(rec) \in TaskRecord
          BY RecoveredType
        <5>3. arrived(Recovered(rec)) =
                [status |-> Recovered(rec).status, enabled |-> Recovered(rec).enabled,
                 cancel |-> Recovered(rec).cancel, next |-> "now",
                 ckpt |-> Recovered(rec).ckpt, ran |-> Recovered(rec).ran,
                 retry |-> Recovered(rec).retry, streak |-> Recovered(rec).streak,
                 message |-> Recovered(rec).message]
          BY <4>1, <5>2 DEF TaskRecord
        <5> QED BY <5>1, <5>3
      <4>4. arrived(rec) = [status |-> rec.status, enabled |-> rec.enabled,
                            cancel |-> rec.cancel, next |-> "now",
                            ckpt |-> rec.ckpt, ran |-> rec.ran, retry |-> rec.retry,
                            streak |-> rec.streak, message |-> rec.message]
        BY <4>1 DEF TaskRecord
      <4>5. Recovered(arrived(rec)) =
              [status |-> "pending", enabled |-> arrived(rec).enabled,
               cancel |-> FALSE, next |-> arrived(rec).next,
               ckpt |-> "resumed_after_restart", ran |-> arrived(rec).ran,
               retry |-> arrived(rec).retry, streak |-> arrived(rec).streak,
               message |-> arrived(rec).message]
        BY <2>2, <4>2 DEF TaskRecord
      <4>6. Recovered(arrived(rec)) = both
        BY <4>4, <4>5
      <4> QED BY <4>3, <4>6
    <3> QED BY <3>2, <3>3, <3>4
  <2> HIDE DEF arrived
  <2> SUFFICES ASSUME NEW u \in Task, u \in known[p]
               PROVE  row'[u] # NoTask /\ row'[u] \in {mem'[p][u], Recovered(mem'[p][u])}
    BY <1>13 DEF Tick, WriteThrough
  <2>4. /\ row[u] # NoTask /\ row[u] \in {mem[p][u], Recovered(mem[p][u])}
        /\ row[u] \in TaskRecord /\ mem[p][u] \in TaskRecord
    BY <1>p, KnownRecord DEF WriteThrough, Inv, TypeOK
  <2>5. CASE u = t
    <3>1. row'[u] = arrived(row[u]) /\ mem'[p][u] = arrived(mem[p][u])
      BY <1>p, <2>1, <2>5 DEF Inv, TypeOK
    <3> QED BY <2>2, <2>3, <2>4, <3>1, RecordAssumption
  <2>6. CASE u # t
    <3>1. row'[u] = row[u] /\ mem'[p][u] = mem[p][u]
      BY <1>p, <2>1, <2>6 DEF Inv, TypeOK
    <3> QED BY <2>4, <3>1
  <2> QED BY <2>5, <2>6
<1>14. CASE UNCHANGED vars
  BY <1>14 DEF vars, WriteThrough
<1> QED BY <1>1, <1>2, <1>3, <1>4, <1>5, <1>6, <1>7, <1>9, <1>10, <1>11, <1>12, <1>13, <1>14
        DEF Next, UserStep, LoopStep, RunnerStep

\* When one process has the database to itself, every change of a task it knows
\* is on disk at once, except that the agent factory may have turned the row of
\* a RUNNING task into its recovered form: a crash loses nothing more.
THEOREM OneProcessDurable ==
    ASSUME NEW p, Proc = {p}
    PROVE  Spec => []WriteThrough
<1>1. Init => WriteThrough
  BY DEF Init, WriteThrough
<1>2. Inv /\ WriteThrough /\ [Next]_vars => WriteThrough'
  BY StepIsDurable
<1> QED BY <1>1, <1>2, InvHolds, PTL DEF Spec

-----------------------------------------------------------------------------
(* Parked tasks stay parked in a process that has the database to itself.   *)

\* Every copy of a task belongs to an id that was handed out.
Handed ==
    \A t \in Task : row[t] # NoTask \/ (\E p \in Proc : mem[p][t] # NoTask) => t \in used

LEMMA SaveHands ==
    ASSUME Inv, Handed, NEW p \in Proc, NEW t \in Task, NEW rec, SaveTask(p, t, rec),
           used \subseteq used', t \in used'
    PROVE  Handed'
<1>1. \A u \in Task : row'[u] = IF u = t THEN rec ELSE row[u]
  BY DEF SaveTask, Inv, TypeOK
<1>2. \A q \in Proc, u \in Task : u # t => mem'[q][u] = mem[q][u]
  BY DEF SaveTask, Inv, TypeOK
<1> QED BY <1>1, <1>2 DEF Handed

LEMMA StepHands ==
    ASSUME Inv, Handed, [Next]_vars
    PROVE  Handed'
<1>1. ASSUME NEW p \in Proc, LoadTasks(p) PROVE Handed'
  <2>1. \A t \in Task : row'[t] # NoTask => row[t] # NoTask
    BY <1>1 DEF LoadTasks, RecoveredRows, Recovered
  <2>2. \A q \in Proc, t \in Task : mem'[q][t] # NoTask => row[t] # NoTask \/ mem[q][t] # NoTask
    BY <1>1 DEF LoadTasks, RecoveredRows, Recovered, Inv, TypeOK
  <2> QED BY <1>1, <2>1, <2>2 DEF LoadTasks, Handed
<1>2. ASSUME NEW p \in Proc, Stop(p) PROVE Handed'
  BY <1>2 DEF Stop, disk, Handed, Inv, TypeOK
<1>3. ASSUME NEW p \in Proc, NEW t \in Task, UserStep(p, t) PROVE Handed'
  <2>1. CASE AddTask(p, t)
    BY <2>1, SaveHands DEF AddTask
  <2>2. CASE RemoveTask(p, t)
    BY <2>2 DEF RemoveTask, Handed, Inv, TypeOK
  <2>3. CASE ToggleTask(p, t) \/ RequestCancel(p, t) \/ ResumeTask(p, t)
    <3>1. t \in used
      BY <2>3, KnownRecord, RecordAssumption DEF ToggleTask, RequestCancel, ResumeTask, Handed
    <3> QED BY <2>3, <3>1, SaveHands DEF ToggleTask, RequestCancel, ResumeTask
  <2> QED BY <1>3, <2>1, <2>2, <2>3 DEF UserStep
<1>4. ASSUME NEW r \in Runner, NEW t \in Task, RunNow(r, t) \/ RunNext(r, t) PROVE Handed'
  <2>1. Home[r] \in Proc /\ mem[Home[r]][t] # NoTask
    BY <1>4, HomeAssumption DEF RunNow, RunNext, Inv, ObjectsHeld
  <2>2. t \in used
    BY <2>1 DEF Handed
  <2> QED BY <1>4, <2>1, <2>2, SaveHands DEF RunNow, RunNext, RunTask
<1>5. ASSUME NEW r \in Runner, RunReturns(r) PROVE Handed'
  <2>1. Home[r] \in Proc /\ job[r] \in Task /\ mem[Home[r]][job[r]] # NoTask
    BY <1>5, HomeAssumption DEF RunReturns, Inv, TypeOK, ObjectsHeld
  <2>2. job[r] \in used
    BY <2>1 DEF Handed
  <2> QED BY <1>5, <2>1, <2>2, SaveHands DEF RunReturns
<1>6. ASSUME NEW r \in Runner, BuildAgent(r) PROVE Handed'
  <2>1. \A t \in Task : row'[t] # NoTask => row[t] # NoTask
    BY <1>6 DEF BuildAgent, RecoveredRows, Recovered
  <2> QED BY <1>6, <2>1 DEF BuildAgent, process, Handed
<1>7. ASSUME NEW r \in Runner, (\E list : Poll(r, list)) \/ ChatEnds(r) \/ Interrupt(r)
      PROVE  Handed'
  BY <1>7 DEF Poll, ChatEnds, Interrupt, disk, process, Handed
<1>8. ASSUME NEW t \in Task, Tick(t) PROVE Handed'
  <2>1. /\ used' = used
        /\ \A u \in Task : row'[u] # NoTask => row[u] # NoTask
        /\ \A p \in Proc, u \in Task : mem'[p][u] # NoTask => mem[p][u] # NoTask
    BY <1>8, TickCopies DEF Tick
  <2> QED BY <2>1 DEF Handed
<1>9. CASE UNCHANGED vars
  BY <1>9 DEF vars, Handed
<1> QED BY <1>1, <1>2, <1>3, <1>4, <1>5, <1>6, <1>7, <1>8, <1>9
        DEF Next, LoopStep, RunnerStep

\* What the promise says of one step and one task.
KeptAtRest(t) ==
    AtRest(t) =>
        \/ AtRest(t)'
        \/ row'[t] = NoTask
        \/ \E p \in Proc : ResumeTask(p, t)
        \/ \E r \in Runner : RunNow(r, t)

\* Memory agrees that a parked task is parked.
LEMMA RestIsKnown ==
    ASSUME Inv, WriteThrough, NEW p \in Proc, NEW t \in known[p], t \in Task,
           row[t] # NoTask, row[t].status = "paused"
    PROVE  mem[p][t] \in TaskRecord /\ mem[p][t].status = "paused"
<1>1. mem[p][t] \in TaskRecord
  BY KnownRecord
<1>2. row[t] = mem[p][t] \/ row[t] = Recovered(mem[p][t])
  BY DEF WriteThrough
<1>3. Recovered(mem[p][t]).status = "paused" => mem[p][t].status = "paused"
  BY <1>1 DEF Recovered, TaskRecord
<1> QED BY <1>1, <1>2, <1>3

\* A save of another task, by which no coroutine comes to hold t.
LEMMA SaveLeavesAtRest ==
    ASSUME Inv, NEW p \in Proc, NEW u \in Task, NEW rec, SaveTask(p, u, rec),
           NEW t \in Task, t # u, AtRest(t),
           \A r \in Runner : job'[r] # t /\ t \notin batch'[r]
    PROVE  AtRest(t)'
<1>1. row'[t] = row[t]
  BY DEF SaveTask, Inv, TypeOK
<1> QED BY <1>1 DEF AtRest, Held

\* A step of one of the users' operations.
LEMMA UserKeepsRest ==
    ASSUME Inv, WriteThrough, Handed, NEW p \in Proc, NEW u \in Task, UserStep(p, u),
           NEW t \in Task, Proc = {p}
    PROVE  KeptAtRest(t)
<1> SUFFICES ASSUME AtRest(t) PROVE AtRest(t)' \/ row'[t] = NoTask \/ ResumeTask(p, t)
  BY DEF KeptAtRest
<1>1. UNCHANGED <<job, batch>>
  BY DEF UserStep, AddTask, RemoveTask, ToggleTask, RequestCancel, ResumeTask, runner
<1>2. \A r \in Runner : job'[r] # t /\ t \notin batch'[r]
  BY <1>1, HomeAssumption DEF AtRest, Held
<1>3. CASE u # t
  <2>1. CASE RemoveTask(p, u)
    <3>1. row'[t] = row[t]
      BY <1>3, <2>1 DEF RemoveTask, Inv, TypeOK
    <3> QED BY <1>2, <3>1 DEF AtRest, Held
  <2>2. CASE ~RemoveTask(p, u)
    BY <1>2, <1>3, <2>2, SaveLeavesAtRest
       DEF UserStep, AddTask, ToggleTask, RequestCancel, ResumeTask
  <2> QED BY <2>1, <2>2
<1>4. CASE u = t
  <2>1. CASE AddTask(p, t)
    BY <2>1 DEF AddTask, AtRest, Handed
  <2>2. CASE RemoveTask(p, t)
    BY <2>2 DEF RemoveTask, Inv, TypeOK
  <2>3. CASE ToggleTask(p, t) \/ RequestCancel(p, t)
    <3>1. mem[p][t] \in TaskRecord /\ mem[p][t].status = "paused"
      BY <2>3, RestIsKnown DEF ToggleTask, RequestCancel, AtRest
    <3>2. PICK rec : SaveTask(p, t, rec) /\ rec.status = "paused" /\ rec \in TaskRecord
      <4>1. /\ [mem[p][t] EXCEPT !.enabled = ~@] \in TaskRecord
            /\ [mem[p][t] EXCEPT !.enabled = ~@].status = "paused"
        BY <3>1 DEF TaskRecord
      <4>2. /\ [mem[p][t] EXCEPT !.cancel = TRUE, !.ckpt = "cancellation_requested"]
                  \in TaskRecord
            /\ [mem[p][t] EXCEPT !.cancel = TRUE, !.ckpt = "cancellation_requested"].status
                  = "paused"
        BY <3>1 DEF TaskRecord, Checkpoint
      <4> QED BY <2>3, <4>1, <4>2 DEF ToggleTask, RequestCancel
    <3>3. row'[t] # NoTask /\ row'[t].status = "paused"
      BY <3>2, RecordAssumption DEF SaveTask, Inv, TypeOK
    <3> QED BY <1>2, <3>3 DEF AtRest, Held
  <2> QED BY <1>4, <2>1, <2>2, <2>3 DEF UserStep
<1> QED BY <1>3, <1>4

LEMMA StepKeepsRest ==
    ASSUME NEW p, Proc = {p}, Inv, WriteThrough, Handed, [Next]_vars, NEW t \in Task
    PROVE  KeptAtRest(t)
<1> SUFFICES ASSUME AtRest(t) PROVE KeptAtRest(t)
  BY DEF KeptAtRest
<1>h. /\ p \in Proc /\ \A r \in Runner : Home[r] = p
      /\ row[t] # NoTask /\ row[t].status = "paused" /\ Recovered(row[t]) = row[t]
      /\ \A r \in Runner : job[r] # t /\ t \notin batch[r]
  BY HomeAssumption DEF AtRest, Held, Recovered
<1>1. ASSUME NEW q \in Proc, LoadTasks(q) PROVE AtRest(t)'
  <2>1. row'[t] = row[t] /\ UNCHANGED <<job, batch>>
    BY <1>h, <1>1 DEF LoadTasks, RecoveredRows, runner
  <2> QED BY <1>h, <2>1 DEF AtRest, Held
<1>2. ASSUME NEW q \in Proc, Stop(q) PROVE AtRest(t)'
  <2>1. /\ row' = row
        /\ \A r \in Runner : job'[r] = NoTask /\ batch'[r] = {}
    BY <1>h, <1>2 DEF Stop, disk
  <2> QED BY <1>h, <2>1, NamesAssumption DEF AtRest, Held
<1>3. ASSUME NEW q \in Proc, NEW u \in Task, UserStep(q, u) PROVE KeptAtRest(t)
  BY <1>3, UserKeepsRest
<1>4. ASSUME NEW r \in Runner, NEW u \in Task, u # t, RunNext(r, u) \/ RunNow(r, u)
      PROVE  AtRest(t)'
  <2>1. /\ \A q \in Runner : batch'[q] \subseteq batch[q]
        /\ \A q \in Runner : job'[q] \in {job[q], u}
    BY <1>4 DEF RunNext, RunNow, RunTask, Inv, TypeOK
  <2>2. \A q \in Runner : job'[q] # t /\ t \notin batch'[q]
    BY <1>h, <1>4, <2>1
  <2> QED BY <1>h, <1>4, <2>2, SaveLeavesAtRest DEF RunNext, RunNow, RunTask
<1>5. ASSUME NEW r \in Runner, NEW list, Poll(r, list) PROVE AtRest(t)'
  <2>1. t \notin list
    BY <1>h, <1>5, RestIsKnown DEF Poll, DueTasks, IsDue
  <2>2. /\ UNCHANGED <<row, job>>
        /\ \A q \in Runner : t \notin batch'[q]
    BY <1>h, <1>5, <2>1 DEF Poll, disk, Inv, TypeOK
  <2> QED BY <1>h, <2>2 DEF AtRest, Held
<1>6. ASSUME NEW r \in Runner, BuildAgent(r) PROVE AtRest(t)'
  <2>1. row'[t] = row[t] /\ UNCHANGED <<job, batch>>
    BY <1>h, <1>6 DEF BuildAgent, RecoveredRows
  <2> QED BY <1>h, <2>1 DEF AtRest, Held
<1>7. ASSUME NEW r \in Runner, ChatEnds(r) \/ Interrupt(r) PROVE AtRest(t)'
  BY <1>h, <1>7 DEF ChatEnds, Interrupt, disk, AtRest, Held
<1>8. ASSUME NEW r \in Runner, RunReturns(r) PROVE AtRest(t)'
  <2>1. job[r] \in Task /\ job[r] # t
    BY <1>h, <1>8 DEF RunReturns, Inv, TypeOK, ObjectsHeld
  <2>2. \A q \in Runner : job'[q] # t /\ t \notin batch'[q]
    BY <1>h, <1>8, NamesAssumption DEF RunReturns, Inv, TypeOK
  <2> QED BY <1>h, <1>8, <2>1, <2>2, SaveLeavesAtRest DEF RunReturns
<1>9. ASSUME NEW u \in Task, Tick(u) PROVE AtRest(t)'
  <2>1. UNCHANGED <<job, batch>>
    BY <1>9 DEF Tick, runner
  <2>2. row'[t] # NoTask /\ row'[t].status = row[t].status
    <3>1. row[t] \in TaskRecord /\ [row[t] EXCEPT !.next = "now"] \in TaskRecord
      BY <1>h DEF Inv, TypeOK, TaskRecord
    <3>2. row'[t] = row[t] \/ row'[t] = [row[t] EXCEPT !.next = "now"]
      BY <1>9 DEF Tick, Inv, TypeOK
    <3>3. [row[t] EXCEPT !.next = "now"].status = row[t].status
      BY <3>1 DEF TaskRecord
    <3> QED BY <3>1, <3>2, <3>3, RecordAssumption
  <2> QED BY <1>h, <2>1, <2>2 DEF AtRest, Held
<1>10. CASE UNCHANGED vars
  <2>1. AtRest(t)'
    BY <1>h, <1>10 DEF vars, AtRest, Held
  <2> QED BY <2>1 DEF KeptAtRest
<1>11. ASSUME NEW r \in Runner, RunNow(r, t) PROVE KeptAtRest(t)
  BY <1>11 DEF KeptAtRest
<1>12. AtRest(t)' => KeptAtRest(t)
  BY DEF KeptAtRest
<1>13. CASE \E q \in Proc : LoadTasks(q) \/ Stop(q)
  BY <1>1, <1>2, <1>12, <1>13
<1>14. CASE \E r \in Runner, u \in Task : RunNext(r, u) \/ RunNow(r, u)
  BY <1>h, <1>4, <1>11, <1>12, <1>14 DEF RunNext
<1>15. CASE \E r \in Runner : Poll(r, DueTasks(Home[r])) \/ RunnerStep(r)
  BY <1>5, <1>6, <1>7, <1>8, <1>12, <1>15 DEF RunnerStep
<1>16. CASE \E u \in Task : Tick(u)
  BY <1>9, <1>12, <1>16
<1> QED BY <1>3, <1>10, <1>13, <1>14, <1>15, <1>16 DEF Next, LoopStep

\* In a process that has the database to itself, with any loops and run-now
\* calls, a parked task that no coroutine holds stays so until it is removed,
\* resumed or run by name (Scheduler.ResumesExplicitly).
THEOREM ParkedStaysParked ==
    ASSUME NEW p, Proc = {p}
    PROVE  Spec => ResumesExplicitly
<1> DEFINE Kept == \A t \in Task : KeptAtRest(t)
<1>1. Init => WriteThrough /\ Handed
  BY DEF Init, WriteThrough, Handed
<1>2. Inv /\ WriteThrough /\ Handed /\ [Next]_vars => WriteThrough' /\ Handed'
  BY StepIsDurable, StepHands
<1>3. Inv /\ WriteThrough /\ Handed /\ [Next]_vars => [Kept]_vars
  BY StepKeepsRest
<1> QED BY <1>1, <1>2, <1>3, InvHolds, PTL DEF Spec, ResumesExplicitly, KeptAtRest

=============================================================================
