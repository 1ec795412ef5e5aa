------------------------------- MODULE Subagent -------------------------------
(***************************************************************************)
(* Delegations: spawn_subagent (aegisx_agent/tools/subagent.py), the child   *)
(* loops it runs, and the usage log that says which of them spent what        *)
(* (observability/usage.py).  A frame is one run of the agentic loop: frame 1 *)
(* is the turn, whose tool calls run side by side; the calls of a child run   *)
(* one after the other.  AgentLoop has the turn in detail.                    *)
(***************************************************************************)
EXTENDS Naturals, Sequences, FiniteSets, SequencesExt

CONSTANTS
    TurnTools,     \* the tools of the turn's registry, "spawn_subagent" among them
    Defaults,      \* DEFAULT_SUBAGENT_TOOLS
    Requests,      \* the "tools" arguments a model may give
    MaxSteps,      \* the step budget of a child
    MaxDepth,      \* how deep spawners nest
    TurnSteps,     \* bound: iterations of the turn
    TurnBatch,     \* bound: tool calls in one response to the turn
    MaxBatch,      \* bound: tool calls in one response to a child
    MaxFrames      \* bound: the turn and its delegations

VARIABLES
    frames,   \* Seq of the runs
    label     \* [task -> frame]: the _active_delegation of each asyncio task; the
              \* turn's own number stands for none

delegationVars == <<frames, label>>

Spawner == "spawn_subagent"

NoSpawner == [depth |-> 0, home |-> 0]

\* spawner: the SubagentTool of the frame's registry, with the frame whose registry
\* is its parent registry.  rows: call rows of the usage log under this frame's label;
\* returned: responses the frame got; closed: the status of its closing row.
Frame(parent, tools, spawner, inherited, task, outer) ==
    [parent |-> parent, tools |-> tools, spawner |-> spawner, inherited |-> inherited,
     task |-> task, outer |-> outer, phase |-> "think", step |-> 1, batch |-> 0, pending |-> 0,
     ran |-> FALSE, refused |-> 0, calls |-> 0, rows |-> 0, returned |-> 0, closed |-> "none"]

Turn == Frame(0, TurnTools, [depth |-> 1, home |-> 1], FALSE, 1, 1)

DelegationInit == frames = <<Turn>> /\ label = <<1>>

Live(f) == frames[f].phase # "over"

Active(f) == {g \in DOMAIN frames : frames[g].parent = f /\ Live(g)}

\* f and the runs it started, with theirs.
Under(f) ==
    LET below[g \in 0 .. Len(frames)] == g # 0 /\ (g = f \/ below[frames[g].parent])
    IN  {g \in DOMAIN frames : below[g]}

-----------------------------------------------------------------------------
(* Requests to the model *)

\* UsageTracker._record: a row under the label of the task, when the response is there.
Recorded(f) == [frames EXCEPT ![label[frames[f].task]].rows = @ + 1, ![f].returned = @ + 1]

\* A run that is over keeps its place in the log only.
Ended(frame, how) ==
    [frame EXCEPT !.phase = "over", !.closed = how, !.step = 0, !.batch = 0, !.pending = 0,
                  !.ran = FALSE, !.refused = 0, !.calls = 0]

DelegationIdle == frames = <<Ended(Turn, "none")>> /\ label = <<1>>

\* Frame f is over, and for the frame that waits for it one call more is done.
Leave(fs, f, how) ==
    LET parent == fs[f].parent
        left == [fs EXCEPT ![f] = Ended(@, how)]
    IN  IF parent = 0 THEN left
        ELSE [left EXCEPT ![parent].pending = @ - 1, ![parent].ran = TRUE]

\* The exit of track_delegation.
Restore(f) == label' = [label EXCEPT ![frames[f].task] = frames[f].outer]

\* A child that made as many calls as it has steps is reported as stopped by its
\* budget.
Status(fs, f) ==
    IF f = 1 THEN "none" ELSE IF fs[f].calls >= MaxSteps THEN "budget" ELSE "completed"

\* A response without tool calls, or the final answer after the last iteration.
Answers(f) ==
    /\ frames[f].phase \in {"think", "final"}
    /\ frames' = Leave(Recorded(f), f, Status(frames, f))
    /\ Restore(f)

CallsTools(f) ==
    /\ frames[f].phase = "think"
    /\ \E n \in 1 .. (IF f = 1 THEN TurnBatch ELSE MaxBatch) :
         frames' = [Recorded(f) EXCEPT ![f].phase = "act", ![f].batch = n, ![f].pending = n,
                                       ![f].ran = FALSE]
    /\ UNCHANGED label

\* A request that fails ends its run; of a child the registry makes an error of it,
\* and no closing row is written.
RequestFails(f) ==
    /\ frames[f].phase \in {"think", "final"}
    /\ frames' = Leave(frames, f, "none")
    /\ Restore(f)

-----------------------------------------------------------------------------
(* Tool calls *)

\* A call of the batch that has not started; a child starts one at a time.
MayStart(f) ==
    /\ frames[f].phase = "act"
    /\ frames[f].pending > Cardinality(Active(f))
    /\ f # 1 => Active(f) = {}

\* Any other tool, or a delegation without a task: it runs, or the gate refuses it.
RunsTool(f) ==
    /\ MayStart(f)
    /\ \E refused \in BOOLEAN :
         frames' = [frames EXCEPT ![f].pending = @ - 1, ![f].ran = @ \/ ~refused]
    /\ UNCHANGED label

\* _resolve_tools
Resolve(spawner, requested) ==
    LET known == frames[spawner.home].tools
    IN  IF requested \cap known # {} THEN requested \cap known ELSE Defaults \cap known

\* Mutant: the child's spawner resolves in the registry its own did.
ChildSpawnerUnbound(spawner, given, child) ==
    IF spawner.depth < MaxDepth THEN [depth |-> spawner.depth + 1, home |-> spawner.home]
    ELSE IF Spawner \in given THEN frames[spawner.home].spawner
    ELSE NoSpawner

\* _child_registry: below the depth limit the child's own spawner takes the place of
\* any that was given; at the limit the one that was given stays.
ChildSpawner(spawner, given, child) ==
    IF spawner.depth < MaxDepth THEN [depth |-> spawner.depth + 1, home |-> child]
    ELSE IF Spawner \in given THEN frames[spawner.home].spawner
    ELSE NoSpawner

\* Mutant: the label is the process's, not the task's.
TaskOfProcess(f, child) == 1

\* gather runs each call of the turn in a task of its own; the calls of a child run in
\* the child's.
TaskOf(f, child) == IF f = 1 THEN child ELSE frames[f].task

\* SubagentTool.execute up to the first request of the child.
Spawns(f) ==
    /\ MayStart(f) /\ Spawner \in frames[f].tools /\ Len(frames) < MaxFrames
    /\ \E requested \in Requests :
         LET spawner == frames[f].spawner
             child == Len(frames) + 1
             given == Resolve(spawner, requested)
             deeper == spawner.depth < MaxDepth
             task == TaskOf(f, child)
             outer == IF task \in DOMAIN label THEN label[task] ELSE label[frames[f].task]
         IN  /\ frames' = Append(frames,
                    Frame(f, IF deeper THEN given \cup {Spawner} ELSE given,
                          ChildSpawner(spawner, given, child), ~deeper /\ Spawner \in given,
                          task, outer))
             /\ label' = [t \in 1 .. child |->
                    IF t = task THEN child ELSE IF t = child THEN outer ELSE label[t]]

\* The loop goes on when all calls of the batch are done: it stops after two batches
\* whose calls were all refused, and asks for a final answer after its last iteration.
BatchDone(f) ==
    LET frame == frames[f]
        refused == IF frame.ran THEN 0 ELSE frame.refused + 1
        counted == [frames EXCEPT ![f].calls = @ + frame.batch, ![f].refused = refused]
        limit == IF f = 1 THEN TurnSteps ELSE MaxSteps
    IN  /\ frame.phase = "act" /\ frame.pending = 0
        /\ IF refused = 2
           THEN frames' = Leave(counted, f, Status(counted, f)) /\ Restore(f)
           ELSE /\ frames' = [counted EXCEPT
                       ![f].phase = IF frame.step = limit THEN "final" ELSE "think",
                       ![f].step = IF frame.step = limit THEN @ ELSE @ + 1]
                /\ UNCHANGED label

-----------------------------------------------------------------------------
(* Deadlines *)

\* What ends a run ends the runs under it, without closing rows of their own.
Stopped(fs, f) ==
    LET under == Under(f)
    IN  [g \in DOMAIN fs |-> IF g \in under THEN Ended(fs[g], fs[g].closed) ELSE fs[g]]

\* All delegations have one timeout, so that the outermost deadline is the first.
TimesOut(f) ==
    /\ frames[f].parent = 1 /\ Live(f)
    /\ frames' = Leave(Stopped(frames, f), f, "timeout")
    /\ Restore(f)

\* The turn is interrupted.
Interrupted ==
    /\ Live(1)
    /\ frames' = Stopped(frames, 1)
    /\ label' = [t \in DOMAIN label |-> 1]

DelegationNext ==
    \/ Interrupted
    \/ \E f \in DOMAIN frames :
         Answers(f) \/ CallsTools(f) \/ RequestFails(f) \/ RunsTool(f) \/ Spawns(f) \/ BatchDone(f)
         \/ TimesOut(f)

\* group_delegations: what the usage command prints of a delegation.
Breakdown ==
    [f \in {f \in DOMAIN frames : f # 1 /\ (frames[f].rows > 0 \/ frames[f].closed # "none")} |->
        [calls |-> frames[f].rows, status |-> frames[f].closed]]
===============================================================================
