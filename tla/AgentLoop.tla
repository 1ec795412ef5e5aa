----------------------------- MODULE AgentLoop ------------------------------
(***************************************************************************)
(* A turn of the agent: AegisXAgent's permission policy, AgenticLoop._run    *)
(* (aegisx_agent/core/loop.py), ToolRegistry.execute (tools/registry.py) and *)
(* PermissionGate (security/permissions.py).                                 *)
(*                                                                           *)
(* A tool call is a model value with the tool it names, its risk and the     *)
(* calls its scoped-approval pattern matches; two calls with one signature   *)
(* are the same value.  The prompter is the one of the command line: it      *)
(* blocks the event loop, so that the gate decides in one step.  Every       *)
(* awaited LLM request and every tool execution is a step of its own.        *)
(***************************************************************************)
EXTENDS Naturals, Sequences

CONSTANTS
    Call, Tool,
    ToolOf,         \* [Call -> Tool]
    Risk,           \* [Call -> {"safe", "caution", "dangerous"}]
    Registered,     \* the tools of the registry
    WellFormed,     \* the calls whose arguments parse and name known parameters
    Scopeable,      \* the calls default_scope_for finds a pattern for
    Scope,          \* [Call -> SUBSET Call]: the calls that pattern matches
    Config,         \* the loop's settings and what its provider reports
    MaxIterations,
    ReflectEvery,   \* 3 in the code
    MaxBatch,       \* bound: tool calls in one response
    MaxTurns        \* bound: turns of the session

Mode == {"ask", "read-only", "allow-all"}

Settings == [parallel : BOOLEAN, streamed : BOOLEAN, forced : BOOLEAN,
             recovery : BOOLEAN, reflection : BOOLEAN, interactive : BOOLEAN,
             budget : Nat, usage : SUBSET Nat]

\* cfg.usage: the values of total_tokens a response may bear, 0 for none.

ASSUME LoopAssumption ==
    /\ ToolOf \in [Call -> Tool]
    /\ Risk \in [Call -> {"safe", "caution", "dangerous"}]
    /\ Scope \in [Call -> SUBSET Call]
    /\ Registered \subseteq Tool /\ WellFormed \subseteq Call /\ Scopeable \subseteq Call
    /\ Config \subseteq Settings
    /\ {MaxIterations, ReflectEvery, MaxBatch, MaxTurns} \subseteq Nat \ {0}

VARIABLES
    cfg,         \* the settings of the loop and the gate
    mode, allowed, denied, scoped,   \* the policy; scoped: [Tool -> calls matched]
    phase,       \* what the turn awaits: "idle", "llm", "retry", "tools", "reflect", "final"
    iteration,   \* from 0
    batch,       \* response.tool_calls
    slot,        \* per call: "queued", "running", "recovering", "alternative", "done"
    alt,         \* per call: the alternative that recovery runs
    result,      \* per call, when done: "ok", "failed", "refused", "recovered"
    deniedCalls, \* denied_calls
    refusals,    \* consecutive_denied_iterations
    tokens,      \* trace.total_tokens
    outcome,     \* how the last turn ended
    turns,       \* turns started
    quiet        \* history: iterations of the turn since a tool last ran

policy == <<mode, allowed, denied, scoped>>
work == <<batch, slot, alt, result>>
vars == <<cfg, policy, phase, iteration, work, deniedCalls, refusals, tokens,
          outcome, turns, quiet>>

Outcomes == {"none", "answered", "budget", "refused", "reflected", "exhausted",
             "raised", "cancelled"}

TypeOK ==
    /\ cfg \in Settings
    /\ mode \in Mode /\ allowed \subseteq Tool /\ denied \subseteq Tool
    /\ scoped \in [Tool -> SUBSET Call]
    /\ phase \in {"idle", "llm", "retry", "tools", "reflect", "final"}
    /\ iteration \in 0 .. MaxIterations
    /\ batch \in Seq(Call)
    /\ slot \in [DOMAIN batch -> {"queued", "running", "recovering", "alternative", "done"}]
    /\ alt \in [DOMAIN batch -> Call]
    /\ result \in [DOMAIN batch -> {"none", "ok", "failed", "refused", "recovered"}]
    /\ deniedCalls \subseteq Call
    /\ refusals \in 0 .. 2 /\ tokens \in Nat
    /\ outcome \in Outcomes /\ turns \in Nat /\ quiet \in Nat

NoWork == batch = <<>> /\ slot = <<>> /\ alt = <<>> /\ result = <<>>

Init ==
    /\ cfg \in Config
    /\ mode \in Mode /\ allowed = {} /\ denied = {}
    /\ scoped = [t \in Tool |-> {}]
    /\ phase = "idle" /\ iteration = 0 /\ NoWork
    /\ deniedCalls = {} /\ refusals = 0 /\ tokens = 0
    /\ outcome = "none" /\ turns = 0 /\ quiet = 0

-----------------------------------------------------------------------------
(* The permission gate.                                                      *)


\* The lists first, the deny list before the others; then the mode.
Evaluate(c) ==
    IF ToolOf[c] \in denied THEN "deny"
    ELSE IF ToolOf[c] \in allowed \/ c \in scoped[ToolOf[c]] THEN "allow"
    ELSE CASE mode = "allow-all" -> "allow"
           [] mode = "read-only" -> IF Risk[c] = "safe" THEN "allow" ELSE "deny"
           [] mode = "ask"       -> IF Risk[c] = "dangerous" THEN "ask" ELSE "allow"

\* PermissionGate.allow and allow_scoped.
AllowTool(t) ==
    allowed' = allowed \cup {t} /\ denied' = denied \ {t} /\ UNCHANGED <<mode, scoped>>

AllowScoped(t, calls) ==
    /\ scoped' = [scoped EXCEPT ![t] = calls]
    /\ allowed' = allowed \ {t}
    /\ UNCHANGED <<mode, denied>>

\* check, with _permission_prompt: allow once or deny (a prompt that fails
\* denies), always allow the tool, or allow the scope of the call.
Decide(c, ok) ==
    \/ Evaluate(c) = "allow" /\ ok /\ UNCHANGED policy
    \/ Evaluate(c) = "deny" /\ ~ok /\ UNCHANGED policy
    \/ Evaluate(c) = "ask" /\ ~ok /\ UNCHANGED policy
    \/ /\ Evaluate(c) = "ask" /\ ok /\ cfg.interactive
       /\ \/ UNCHANGED policy
          \/ AllowTool(ToolOf[c])
          \/ c \in Scopeable /\ AllowScoped(ToolOf[c], Scope[c])

\* ToolRegistry.execute reaches the gate.
Callable(c) == ToolOf[c] \in Registered /\ c \in WellFormed

\* The policy commands of a session, between turns.
Command ==
    /\ phase = "idle" /\ turns < MaxTurns
    /\ \E t \in Tool :
         \/ AllowTool(t)
         \/ /\ denied' = denied \cup {t} /\ allowed' = allowed \ {t}
            /\ UNCHANGED <<mode, scoped>>
         \/ /\ denied' = denied \ {t} /\ allowed' = allowed \ {t}
            /\ UNCHANGED <<mode, scoped>>
    /\ UNCHANGED <<cfg, phase, iteration, work, deniedCalls, refusals, tokens,
                   outcome, turns, quiet>>

SetMode ==
    /\ phase = "idle" /\ turns < MaxTurns
    /\ mode' \in Mode \ {mode}
    /\ UNCHANGED <<cfg, allowed, denied, scoped, phase, iteration, work, deniedCalls,
                   refusals, tokens, outcome, turns, quiet>>

-----------------------------------------------------------------------------
(* The loop.                                                                 *)

ClearWork == batch' = <<>> /\ slot' = <<>> /\ alt' = <<>> /\ result' = <<>>

EndTurn(how) ==
    /\ phase' = "idle" /\ outcome' = how /\ ClearWork
    /\ UNCHANGED <<cfg, policy, iteration, deniedCalls, tokens, turns>>

StartTurn ==
    /\ phase = "idle" /\ turns < MaxTurns
    /\ phase' = "llm" /\ iteration' = 0 /\ turns' = turns + 1
    /\ deniedCalls' = {} /\ refusals' = 0 /\ tokens' = 0
    /\ outcome' = "none" /\ quiet' = 0
    /\ UNCHANGED <<cfg, policy, work>>

\* Mutant: the budget may be reached, only not exceeded.
OverBudgetLate(spent) == cfg.budget > 0 /\ spent > cfg.budget

OverBudget(spent) == cfg.budget > 0 /\ spent >= cfg.budget

\* A first answer without tools that hands the work back is asked again, with a
\* tool required, whatever the budget says.
Punt ==
    /\ phase = "llm" /\ iteration = 0 /\ ~cfg.forced /\ ~cfg.streamed
    /\ phase' = "retry" /\ \E n \in cfg.usage : tokens' = tokens + n
    /\ UNCHANGED <<cfg, policy, iteration, work, deniedCalls, refusals, outcome, turns, quiet>>

\* A response without tool calls, or one that spends the budget.
Answer ==
    /\ phase \in {"llm", "retry"}
    /\ \E n \in cfg.usage : EndTurn(IF OverBudget(tokens + n) THEN "budget" ELSE "answered")
    /\ UNCHANGED <<refusals, quiet>>

\* A response with tool calls: they are executed.
CallTools ==
    /\ phase \in {"llm", "retry"}
    /\ \E n \in cfg.usage : ~OverBudget(tokens + n) /\ tokens' = tokens + n
    /\ \E n \in 1 .. MaxBatch : \E calls \in [1 .. n -> Call] :
         /\ batch' = calls
         /\ slot' = [i \in DOMAIN calls |-> "queued"]
         /\ result' = [i \in DOMAIN calls |-> "none"]
         /\ alt' = calls
    /\ phase' = "tools" /\ quiet' = quiet + 1
    /\ UNCHANGED <<cfg, policy, iteration, deniedCalls, refusals, outcome, turns>>

\* gather starts the calls in order, each up to its first await; the sequential
\* executor starts one when the one before it is done.
Concurrent == cfg.parallel /\ Len(batch) > 1

MayStart(i) ==
    /\ phase = "tools" /\ slot[i] = "queued"
    /\ \A j \in 1 .. i - 1 : IF Concurrent THEN slot[j] # "queued" ELSE slot[j] = "done"

Done(i, how) ==
    /\ slot' = [slot EXCEPT ![i] = "done"] /\ result' = [result EXCEPT ![i] = how]
    /\ UNCHANGED <<batch, alt>>

\* A call that failed for another reason than a refusal goes to recovery.
Fails(i) ==
    IF cfg.recovery
    THEN slot' = [slot EXCEPT ![i] = "recovering"] /\ UNCHANGED <<batch, alt, result>>
    ELSE Done(i, "failed")

\* What a step of one call leaves alone.
Elsewhere == UNCHANGED <<cfg, phase, iteration, refusals, tokens, outcome, turns>>

\* _execute_single_tool up to the tool's own await.
StartCall(i) ==
    LET c == batch[i] IN
    /\ MayStart(i) /\ Elsewhere
    /\ \/ c \in deniedCalls /\ Done(i, "refused") /\ UNCHANGED <<policy, deniedCalls, quiet>>
       \/ /\ c \notin deniedCalls /\ ~Callable(c)
          /\ Fails(i) /\ UNCHANGED <<policy, deniedCalls, quiet>>
       \/ /\ c \notin deniedCalls /\ Callable(c) /\ Decide(c, FALSE)
          /\ Done(i, "refused") /\ deniedCalls' = deniedCalls \cup {c} /\ UNCHANGED quiet
       \/ /\ c \notin deniedCalls /\ Callable(c) /\ Decide(c, TRUE)
          /\ slot' = [slot EXCEPT ![i] = "running"] /\ quiet' = 0
          /\ UNCHANGED <<batch, alt, result, deniedCalls>>

At(i, place) == phase = "tools" /\ slot[i] = place

ToolReturns(i) ==
    /\ At(i, "running") /\ Elsewhere
    /\ Done(i, "ok") \/ Fails(i)
    /\ UNCHANGED <<policy, deniedCalls, quiet>>

RunAlternative(i, c) ==
    /\ slot' = [slot EXCEPT ![i] = "alternative"]
    /\ alt' = [alt EXCEPT ![i] = c] /\ quiet' = 0
    /\ UNCHANGED <<batch, result, deniedCalls>>

\* Mutant: the alternative is run as soon as the registry knows it.
AlternativeUngated(i) ==
    /\ At(i, "recovering") /\ Elsewhere
    /\ \E c \in Call : ToolOf[c] \in Registered /\ RunAlternative(i, c)
    /\ UNCHANGED policy

\* _recover_from_error runs the alternative the model proposes through the
\* registry, and with it through the gate.
Alternative(i) ==
    /\ At(i, "recovering") /\ Elsewhere
    /\ \E c \in Call : Callable(c) /\ Decide(c, TRUE) /\ RunAlternative(i, c)

\* No alternative, one that cannot be called, or one that is refused: the first
\* failure is the result.
NoAlternative(i) ==
    /\ At(i, "recovering") /\ Elsewhere
    /\ Done(i, "failed")
    /\ UNCHANGED policy \/ \E c \in Call : Callable(c) /\ Decide(c, FALSE)
    /\ UNCHANGED <<deniedCalls, quiet>>

\* Mutant: an alternative that fails goes to recovery in its turn.
AlternativeRetried(i) ==
    /\ At(i, "alternative") /\ Elsewhere
    /\ Done(i, "recovered") \/ Fails(i)
    /\ UNCHANGED <<policy, deniedCalls, quiet>>

AlternativeReturns(i) ==
    /\ At(i, "alternative") /\ Elsewhere
    /\ slot' = [slot EXCEPT ![i] = "done"]
    /\ \E how \in {"recovered", "failed"} : result' = [result EXCEPT ![i] = how]
    /\ alt' = [alt EXCEPT ![i] = batch[i]]
    /\ UNCHANGED <<batch, policy, deniedCalls, quiet>>

CallStep ==
    \E i \in DOMAIN batch :
        \/ StartCall(i) \/ ToolReturns(i) \/ Alternative(i) \/ NoAlternative(i)
        \/ AlternativeReturns(i)

BatchDone == phase = "tools" /\ \A i \in DOMAIN batch : slot[i] = "done"

\* Mutant: one refused call is enough.
AnyRefused == \E i \in DOMAIN batch : result[i] = "refused"

AllRefused == \A i \in DOMAIN batch : result[i] = "refused"

RefusalsAfter == IF AllRefused THEN refusals + 1 ELSE 0

StopRefused ==
    /\ BatchDone /\ RefusalsAfter >= 2
    /\ refusals' = RefusalsAfter
    /\ EndTurn("refused") /\ UNCHANGED quiet

\* The next iteration, or the final answer after the last one.
Advance ==
    /\ iteration' = iteration + 1
    /\ phase' = IF iteration + 1 < MaxIterations THEN "llm" ELSE "final"

ReflectNow == cfg.reflection /\ iteration > 0 /\ iteration % ReflectEvery = 0

EndIteration ==
    /\ BatchDone /\ RefusalsAfter < 2
    /\ refusals' = RefusalsAfter
    /\ ClearWork
    /\ IF ReflectNow THEN phase' = "reflect" /\ UNCHANGED iteration ELSE Advance
    /\ UNCHANGED <<cfg, policy, deniedCalls, tokens, outcome, turns, quiet>>

\* _self_reflect: "complete" asks for the final answer; anything else, a
\* response that is no JSON included, goes on.
Reflect ==
    /\ phase = "reflect"
    /\ \/ Advance /\ UNCHANGED outcome
       \/ phase' = "final" /\ outcome' = "reflected" /\ UNCHANGED iteration
    /\ UNCHANGED <<cfg, policy, work, deniedCalls, refusals, tokens, turns, quiet>>

\* What this last request spends is nowhere counted either.
FinalAnswer ==
    /\ phase = "final"
    /\ EndTurn(IF outcome = "reflected" THEN "reflected" ELSE "exhausted")
    /\ UNCHANGED <<refusals, quiet>>

\* A request of the loop raises (reflection: a JSON object without assessment);
\* requests of recovery are caught.
Raise ==
    /\ phase \in {"llm", "retry", "reflect", "final"}
    /\ EndTurn("raised") /\ UNCHANGED <<refusals, quiet>>

\* The caller cancels the turn at an await; gather cancels its calls with it.
Cancel ==
    /\ phase # "idle"
    /\ EndTurn("cancelled") /\ UNCHANGED <<refusals, quiet>>

Progress ==
    \/ Punt \/ Answer \/ CallTools \/ CallStep \/ StopRefused \/ EndIteration
    \/ Reflect \/ FinalAnswer \/ Raise

Next == Command \/ SetMode \/ StartTurn \/ Progress \/ Cancel

Spec == Init /\ [][Next]_vars

\* Requests and tools return: their clients have timeouts.
FairSpec == Spec /\ WF_vars(Progress)

-----------------------------------------------------------------------------
Runs(i) == slot[i] \in {"running", "alternative"}
Subject(i) == IF slot[i] = "alternative" THEN alt[i] ELSE batch[i]

Listed(c) == ToolOf[c] \in allowed \/ c \in scoped[ToolOf[c]]

\* What the modes promise of a call that starts (permissions.py:25): never a
\* tool of the deny list; in read-only mode only safe calls
\* or listed ones; unattended, a dangerous call only if it is listed or the mode
\* is allow-all.
MayRun(c) ==
    /\ ToolOf[c] \notin denied
    /\ mode = "read-only" => Risk[c] = "safe" \/ Listed(c)
    /\ mode = "ask" /\ ~cfg.interactive => Risk[c] # "dangerous" \/ Listed(c)

\* Whichever way a call comes to run, from the model or from recovery, in
\* parallel or not, the policy in force at that moment allows it.
OnlyPermittedRun ==
    [][\A i \in DOMAIN slot' :
         Runs(i)' /\ (phase # "tools" \/ slot[i] # slot'[i]) => MayRun(Subject(i)')]_vars

\* A turn that ends with "the permission gate refused every tool call for two
\* consecutive attempts ... No further actions were taken" (loop.py:366) ran no
\* tool in those two iterations.
RefusedTurnRanNothing == outcome = "refused" => quiet >= 2

\* The counted tokens have reached the budget.
Spent == cfg.budget > 0 /\ tokens >= cfg.budget

\* Once the counted tokens reach the budget, no tool is called and no iteration,
\* recovery, reflection or final request follows: the turn is over, or the one
\* request is under way that follows a first answer that hands the work back
\* (loop.py:306), and that request ends it.
BudgetStops == Spent => phase \in {"idle", "retry"}

\* Every turn ends.
TurnEnds == phase = "llm" ~> phase = "idle"

\* The claim of _execute_single_tool (loop.py:582): a denial "is remembered so
\* an identical retry inside the same turn is refused locally instead of
\* re-entering the gate": a denied call does not run later in the turn.
DenialRemembered ==
    [][\A i \in DOMAIN slot' :
         Runs(i)' /\ phase = "tools" /\ slot[i] # slot'[i]
           => Subject(i)' \notin deniedCalls]_vars

=============================================================================
