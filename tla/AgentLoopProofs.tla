-------------------------- MODULE AgentLoopProofs ---------------------------
(***************************************************************************)
(* A turn never runs a call that the policy forbids, and a turn that ends as *)
(* refused ran no tool in its last two iterations: for every set of calls    *)
(* and tools, every policy, batch size and iteration bound.                  *)
(***************************************************************************)
EXTENDS AgentLoop, TLAPS

LEMMA PolicyTypes ==
    ASSUME TypeOK, NEW c \in Call, NEW ok \in BOOLEAN, Decide(c, ok)
    PROVE  /\ mode' \in Mode /\ allowed' \subseteq Tool /\ denied' \subseteq Tool
           /\ scoped' \in [Tool -> SUBSET Call]
<1>1. ToolOf[c] \in Tool /\ Scope[c] \subseteq Call BY LoopAssumption
<1> QED BY <1>1 DEF TypeOK, Decide, AllowTool, AllowScoped, policy

\* The gate lets a call pass only if the policy in force permits it.
LEMMA DecidedMayRun ==
    ASSUME TypeOK, NEW c \in Call, Decide(c, TRUE)
    PROVE  MayRun(c)
<1>1. mode \in Mode BY DEF TypeOK
<1>2. CASE Evaluate(c) = "allow" BY <1>1, <1>2 DEF Evaluate, MayRun, Listed, Mode
<1>3. CASE Evaluate(c) = "ask" /\ cfg.interactive
  BY <1>1, <1>3 DEF Evaluate, MayRun, Listed, Mode
<1> QED BY <1>2, <1>3 DEF Decide

\* A response adds what it reports.
LEMMA TokensType ==
    ASSUME TypeOK, NEW n \in cfg.usage, tokens' = tokens + n PROVE tokens' \in Nat
BY DEF TypeOK, Settings

LEMMA BatchTypes ==
    ASSUME TypeOK, NEW i \in DOMAIN batch PROVE batch[i] \in Call /\ alt[i] \in Call
BY DEF TypeOK

LEMMA DoneTypes ==
    ASSUME TypeOK, NEW i \in DOMAIN batch, NEW how \in {"ok", "failed", "refused", "recovered"},
           Done(i, how)
    PROVE  /\ batch' = batch /\ alt' = alt
           /\ slot' \in [DOMAIN batch -> {"queued", "running", "recovering", "alternative", "done"}]
           /\ result' \in [DOMAIN batch -> {"none", "ok", "failed", "refused", "recovered"}]
BY DEF TypeOK, Done

LEMMA FailsTypes ==
    ASSUME TypeOK, NEW i \in DOMAIN batch, Fails(i)
    PROVE  /\ batch' = batch /\ alt' = alt
           /\ slot' \in [DOMAIN batch -> {"queued", "running", "recovering", "alternative", "done"}]
           /\ result' \in [DOMAIN batch -> {"none", "ok", "failed", "refused", "recovered"}]
BY DoneTypes DEF TypeOK, Fails

LEMMA NoWorkTypes ==
    ASSUME batch = <<>>, slot = <<>>, alt = <<>>, result = <<>>
    PROVE  /\ batch \in Seq(Call)
           /\ slot \in [DOMAIN batch -> {"queued", "running", "recovering", "alternative", "done"}]
           /\ alt \in [DOMAIN batch -> Call]
           /\ result \in [DOMAIN batch -> {"none", "ok", "failed", "refused", "recovered"}]
OBVIOUS

-----------------------------------------------------------------------------
\* The strengthening.  A call that is still queued or was refused has run
\* nothing; while only such calls are in the batch, the tools have been quiet
\* for one iteration more than the refusals counted.
Settles ==
    \A i \in DOMAIN batch : slot[i] # "done" => result[i] = "none"

Untouched == \A i \in DOMAIN batch : slot[i] = "queued" \/ result[i] = "refused"

Position ==
    /\ phase # "idle" => refusals < 2 /\ outcome # "refused"
    /\ phase \in {"llm", "retry", "tools", "reflect"} => iteration < MaxIterations
    /\ phase # "tools" => NoWork

Quiet ==
    /\ phase \in {"llm", "retry", "reflect", "final"} => quiet >= refusals
    /\ phase = "tools" /\ Untouched => quiet >= refusals + 1

IInv == TypeOK /\ Settles /\ Position /\ Quiet /\ RefusedTurnRanNothing

LEMMA InitIInv == Init => IInv
<1> SUFFICES ASSUME Init PROVE IInv OBVIOUS
<1>1. TypeOK BY LoopAssumption, NoWorkTypes DEF Init, TypeOK, NoWork, Outcomes
<1> QED
  BY <1>1 DEF Init, IInv, Settles, Position, NoWork, Quiet, Untouched, RefusedTurnRanNothing

\* The policy commands.
LEMMA CommandIInv ==
    ASSUME IInv, Command \/ SetMode PROVE IInv'
<1>1. TypeOK'
  BY DEF IInv, TypeOK, Command, SetMode, AllowTool, work
<1> QED
  BY <1>1 DEF IInv, Command, SetMode, work, Settles, Position, NoWork, Quiet, Untouched,
              RefusedTurnRanNothing

LEMMA StartTurnIInv ==
    ASSUME IInv, StartTurn PROVE IInv'
<1>1. TypeOK' BY LoopAssumption DEF IInv, TypeOK, StartTurn, policy, work, Outcomes
<1> QED
  BY <1>1, LoopAssumption DEF IInv, TypeOK, StartTurn, work, Settles, Position, NoWork, Quiet, Untouched,
              RefusedTurnRanNothing

LEMMA PuntIInv ==
    ASSUME IInv, Punt PROVE IInv'
<1>0. tokens' \in Nat BY TokensType DEF IInv, Punt
<1>1. TypeOK' BY <1>0 DEF IInv, TypeOK, Punt, policy, work
<1> QED
  BY <1>1 DEF IInv, Punt, work, Settles, Position, NoWork, Quiet, Untouched, RefusedTurnRanNothing

\* Every end of a turn but the refused one.
LEMMA EndTurnIInv ==
    ASSUME IInv, NEW how \in Outcomes \ {"refused"}, EndTurn(how), UNCHANGED <<refusals, quiet>>
    PROVE  IInv'
<1>1. TypeOK'
  BY DEF IInv, TypeOK, EndTurn, ClearWork, policy
<1> QED
  BY <1>1 DEF IInv, EndTurn, ClearWork, Settles, Position, NoWork, Quiet, Untouched,
              RefusedTurnRanNothing

LEMMA EndsIInv ==
    ASSUME IInv, Answer \/ FinalAnswer \/ Raise \/ Cancel PROVE IInv'
BY EndTurnIInv DEF Answer, FinalAnswer, Raise, Cancel, Outcomes

LEMMA CallToolsIInv ==
    ASSUME IInv, CallTools PROVE IInv'
<1>0. tokens' \in Nat BY TokensType DEF IInv, CallTools
<1>1. TypeOK'
  <2>0. PICK n \in 1 .. MaxBatch : \E calls \in [1 .. n -> Call] :
          /\ batch' = calls /\ alt' = calls
          /\ slot' = [i \in DOMAIN calls |-> "queued"]
          /\ result' = [i \in DOMAIN calls |-> "none"]
    BY DEF CallTools
  <2>1. PICK calls \in [1 .. n -> Call] :
          /\ batch' = calls /\ alt' = calls
          /\ slot' = [i \in DOMAIN calls |-> "queued"]
          /\ result' = [i \in DOMAIN calls |-> "none"]
    BY <2>0
  <2>2. n \in Nat /\ calls \in Seq(Call) /\ DOMAIN calls = 1 .. n
    BY LoopAssumption
  <2>3. quiet' \in Nat BY DEF IInv, TypeOK, CallTools
  <2> QED BY <1>0, <2>1, <2>2, <2>3 DEF IInv, TypeOK, CallTools, policy
<1>2. Settles' BY DEF CallTools, Settles
<1>3. quiet' = quiet + 1 /\ refusals' = refusals /\ phase' = "tools" BY DEF CallTools
<1>4. Quiet'
  BY <1>3 DEF IInv, TypeOK, CallTools, Quiet
<1> QED
  BY <1>1, <1>2, <1>3, <1>4 DEF IInv, TypeOK, CallTools, Position, NoWork, RefusedTurnRanNothing

-----------------------------------------------------------------------------
(* The steps of one call.                                                    *)

\* A step that ends call i with a result that is no refusal, or leaves it
\* unfinished: the batch is no longer untouched.
LEMMA TouchedIInv ==
    ASSUME IInv, TypeOK', Elsewhere, phase = "tools", NEW i \in DOMAIN batch, batch' = batch,
           slot'[i] # "queued", result'[i] # "refused",
           slot'[i] # "done" => result'[i] = "none",
           \A j \in DOMAIN batch \ {i} : slot'[j] = slot[j] /\ result'[j] = result[j]
    PROVE  IInv'
<1>1. Settles' BY DEF IInv, Settles
<1>2. ~Untouched' BY DEF Untouched
<1>3. Position' /\ RefusedTurnRanNothing' BY DEF IInv, Position, NoWork, Elsewhere, RefusedTurnRanNothing
<1>4. Quiet' BY <1>2 DEF Quiet, Elsewhere
<1> QED BY <1>1, <1>3, <1>4 DEF IInv

\* A step that refuses a queued call.
LEMMA RefusedIInv ==
    ASSUME IInv, TypeOK', Elsewhere, phase = "tools", NEW i \in DOMAIN batch,
           slot[i] = "queued", Done(i, "refused"), quiet' = quiet
    PROVE  IInv'
<1>1. /\ batch' = batch
      /\ \A j \in DOMAIN batch \ {i} : slot'[j] = slot[j] /\ result'[j] = result[j]
      /\ slot'[i] = "done"
  BY DEF IInv, TypeOK, Done
<1>2. Settles' BY <1>1 DEF IInv, Settles
<1>3. Untouched' => Untouched BY <1>1 DEF Untouched
<1>4. Position' /\ RefusedTurnRanNothing'
  BY DEF IInv, Position, NoWork, Elsewhere, RefusedTurnRanNothing
<1>5. Quiet' BY <1>3 DEF IInv, Quiet, Elsewhere
<1> QED BY <1>2, <1>4, <1>5 DEF IInv

\* Types, for a step that changes one call.
LEMMA CallTypes ==
    ASSUME IInv, Elsewhere, batch' = batch,
           mode' \in Mode, allowed' \subseteq Tool, denied' \subseteq Tool,
           scoped' \in [Tool -> SUBSET Call],
           deniedCalls' \subseteq Call, quiet' \in Nat, alt' \in [DOMAIN batch -> Call],
           slot' \in [DOMAIN batch -> {"queued", "running", "recovering", "alternative", "done"}],
           result' \in [DOMAIN batch -> {"none", "ok", "failed", "refused", "recovered"}]
    PROVE  TypeOK'
BY DEF IInv, TypeOK, Elsewhere

LEMMA SamePolicy ==
    ASSUME IInv, UNCHANGED policy
    PROVE  /\ mode' \in Mode /\ allowed' \subseteq Tool /\ denied' \subseteq Tool
           /\ scoped' \in [Tool -> SUBSET Call]
BY DEF IInv, TypeOK, policy

LEMMA FailsIInv ==
    ASSUME IInv, TypeOK', Elsewhere, phase = "tools", NEW i \in DOMAIN batch,
           slot[i] # "done", Fails(i)
    PROVE  IInv'
<1>1. TypeOK /\ Settles BY DEF IInv
<1>2. CASE cfg.recovery
  <2>1. /\ slot'[i] = "recovering" /\ result' = result /\ batch' = batch
        /\ \A j \in DOMAIN batch \ {i} : slot'[j] = slot[j]
    BY <1>1, <1>2 DEF Fails, TypeOK
  <2> QED BY <1>1, <2>1, TouchedIInv DEF Settles
<1>3. CASE ~cfg.recovery
  <2>1. /\ slot'[i] = "done" /\ result'[i] = "failed" /\ batch' = batch
        /\ \A j \in DOMAIN batch \ {i} : slot'[j] = slot[j] /\ result'[j] = result[j]
    BY <1>1, <1>3 DEF Fails, TypeOK, Done
  <2> QED BY <2>1, TouchedIInv
<1> QED BY <1>2, <1>3

LEMMA StartCallIInv ==
    ASSUME IInv, NEW i \in DOMAIN batch, StartCall(i) PROVE IInv'
<1> DEFINE c == batch[i]
<1>1. TypeOK /\ c \in Call /\ Settles BY BatchTypes DEF IInv
<1>2. phase = "tools" /\ slot[i] = "queued" /\ Elsewhere BY DEF StartCall, MayStart
<1>3. quiet \in Nat /\ deniedCalls \subseteq Call
  BY <1>1 DEF TypeOK, StartCall
<1>4. CASE Done(i, "refused") /\ UNCHANGED <<policy, deniedCalls, quiet>>
  <2>1. TypeOK' BY <1>1, <1>2, <1>3, <1>4, SamePolicy, DoneTypes, CallTypes DEF TypeOK
  <2> QED BY <1>2, <1>4, <2>1, RefusedIInv
<1>5. CASE Fails(i) /\ UNCHANGED <<policy, deniedCalls, quiet>>
  <2>1. TypeOK' BY <1>1, <1>2, <1>3, <1>5, SamePolicy, FailsTypes, CallTypes DEF TypeOK
  <2> QED BY <1>2, <1>5, <2>1, FailsIInv
<1>6. CASE Decide(c, FALSE) /\ Done(i, "refused") /\ deniedCalls' = deniedCalls \cup {c}
           /\ UNCHANGED quiet
  <2>1. TypeOK' BY <1>1, <1>2, <1>3, <1>6, PolicyTypes, DoneTypes, CallTypes DEF TypeOK
  <2> QED BY <1>2, <1>6, <2>1, RefusedIInv
<1>7. CASE Decide(c, TRUE) /\ slot' = [slot EXCEPT ![i] = "running"] /\ quiet' = 0
           /\ UNCHANGED <<batch, alt, result, deniedCalls>>
  <2>1. TypeOK' BY <1>1, <1>2, <1>3, <1>7, PolicyTypes, CallTypes DEF TypeOK
  <2>2. result'[i] = "none" BY <1>1, <1>2, <1>7 DEF Settles
  <2>3. slot'[i] = "running" /\ \A j \in DOMAIN batch \ {i} : slot'[j] = slot[j]
    BY <1>1, <1>7 DEF TypeOK
  <2> QED BY <1>2, <1>7, <2>1, <2>2, <2>3, TouchedIInv
<1> QED BY <1>4, <1>5, <1>6, <1>7 DEF StartCall

LEMMA ToolReturnsIInv ==
    ASSUME IInv, NEW i \in DOMAIN batch, ToolReturns(i) PROVE IInv'
<1>1. TypeOK BY DEF IInv
<1>2. /\ phase = "tools" /\ slot[i] = "running" /\ Elsewhere
      /\ UNCHANGED <<policy, deniedCalls, quiet>>
  BY DEF ToolReturns, At
<1>3. quiet' \in Nat /\ deniedCalls' \subseteq Call
  BY <1>1, <1>2 DEF TypeOK, ToolReturns
<1>4. CASE Done(i, "ok")
  <2>1. TypeOK' BY <1>1, <1>2, <1>3, <1>4, SamePolicy, DoneTypes, CallTypes DEF TypeOK
  <2>2. /\ slot'[i] = "done" /\ result'[i] = "ok" /\ batch' = batch
        /\ \A j \in DOMAIN batch \ {i} : slot'[j] = slot[j] /\ result'[j] = result[j]
    BY <1>1, <1>4 DEF TypeOK, Done
  <2> QED BY <1>2, <2>1, <2>2, TouchedIInv
<1>5. CASE Fails(i)
  <2>1. TypeOK' BY <1>1, <1>2, <1>3, <1>5, SamePolicy, FailsTypes, CallTypes DEF TypeOK
  <2> QED BY <1>2, <1>5, <2>1, FailsIInv
<1> QED BY <1>4, <1>5 DEF ToolReturns

LEMMA AlternativeIInv ==
    ASSUME IInv, NEW i \in DOMAIN batch, Alternative(i) PROVE IInv'
<1>1. TypeOK /\ Settles BY DEF IInv
<1>2. phase = "tools" /\ slot[i] = "recovering" /\ Elsewhere BY DEF Alternative, At
<1>3. PICK c \in Call : Decide(c, TRUE) /\ RunAlternative(i, c) BY DEF Alternative
<1>4. TypeOK' BY <1>1, <1>2, <1>3, PolicyTypes, CallTypes DEF TypeOK, RunAlternative
<1>5. /\ slot'[i] = "alternative" /\ result' = result /\ batch' = batch
      /\ \A j \in DOMAIN batch \ {i} : slot'[j] = slot[j]
  BY <1>1, <1>3 DEF TypeOK, RunAlternative
<1>6. result'[i] = "none" BY <1>1, <1>2, <1>5 DEF Settles
<1> QED BY <1>2, <1>4, <1>5, <1>6, TouchedIInv

LEMMA NoAlternativeIInv ==
    ASSUME IInv, NEW i \in DOMAIN batch, NoAlternative(i) PROVE IInv'
<1>1. TypeOK BY DEF IInv
<1>2. /\ phase = "tools" /\ Elsewhere /\ Done(i, "failed")
      /\ UNCHANGED <<deniedCalls, quiet>>
  BY DEF NoAlternative, At
<1>3. /\ mode' \in Mode /\ allowed' \subseteq Tool /\ denied' \subseteq Tool
      /\ scoped' \in [Tool -> SUBSET Call]
  BY <1>1, SamePolicy, PolicyTypes DEF NoAlternative
<1>4. TypeOK' BY <1>1, <1>2, <1>3, DoneTypes, CallTypes DEF TypeOK
<1>5. /\ slot'[i] = "done" /\ result'[i] = "failed" /\ batch' = batch
      /\ \A j \in DOMAIN batch \ {i} : slot'[j] = slot[j] /\ result'[j] = result[j]
  BY <1>1, <1>2 DEF TypeOK, Done
<1> QED BY <1>2, <1>4, <1>5, TouchedIInv

LEMMA AlternativeReturnsIInv ==
    ASSUME IInv, NEW i \in DOMAIN batch, AlternativeReturns(i) PROVE IInv'
<1>1. TypeOK /\ batch[i] \in Call BY BatchTypes DEF IInv
<1>2. /\ phase = "tools" /\ Elsewhere
      /\ UNCHANGED <<batch, policy, deniedCalls, quiet>>
  BY DEF AlternativeReturns, At
<1>3. PICK how \in {"recovered", "failed"} : result' = [result EXCEPT ![i] = how]
  BY DEF AlternativeReturns
<1>4. /\ slot' = [slot EXCEPT ![i] = "done"] /\ alt' = [alt EXCEPT ![i] = batch[i]]
  BY DEF AlternativeReturns
<1>5. TypeOK' BY <1>1, <1>2, <1>3, <1>4, SamePolicy, CallTypes DEF TypeOK
<1>6. /\ slot'[i] = "done" /\ result'[i] = how
      /\ \A j \in DOMAIN batch \ {i} : slot'[j] = slot[j] /\ result'[j] = result[j]
  BY <1>1, <1>3, <1>4 DEF TypeOK
<1> QED BY <1>2, <1>3, <1>5, <1>6, TouchedIInv

-----------------------------------------------------------------------------
(* The end of an iteration.                                                  *)

\* What the batch says when every call is done and refused.
LEMMA AllRefusedUntouched == AllRefused => Untouched
BY DEF AllRefused, Untouched

LEMMA StopRefusedIInv ==
    ASSUME IInv, StopRefused PROVE IInv'
<1>1. phase = "tools" BY DEF StopRefused, BatchDone
<1>2. refusals \in Nat /\ quiet \in Nat /\ refusals < 2
  BY <1>1 DEF IInv, TypeOK, Position
<1>3. AllRefused /\ refusals + 1 >= 2 /\ refusals' = refusals + 1
  BY DEF StopRefused, RefusalsAfter
<1>4. quiet >= 2 BY <1>1, <1>2, <1>3, AllRefusedUntouched DEF IInv, Quiet
<1>5. TypeOK'
  BY <1>2, <1>3 DEF IInv, TypeOK, StopRefused, EndTurn, ClearWork, policy, Outcomes
<1> QED
  BY <1>4, <1>5 DEF IInv, StopRefused, EndTurn, ClearWork, Settles, Position, NoWork, Quiet,
                    RefusedTurnRanNothing

LEMMA EndIterationIInv ==
    ASSUME IInv, EndIteration PROVE IInv'
<1>1. phase = "tools" /\ iteration < MaxIterations /\ outcome # "refused"
  BY DEF EndIteration, BatchDone, IInv, Position
<1>2. refusals \in Nat /\ quiet \in Nat /\ iteration \in Nat /\ MaxIterations \in Nat
  BY LoopAssumption DEF IInv, TypeOK
<1>3. refusals' \in Nat /\ refusals' < 2 /\ quiet >= refusals' /\ quiet' = quiet
  BY <1>1, <1>2, AllRefusedUntouched DEF EndIteration, RefusalsAfter, IInv, Quiet
<1>4. /\ batch' = <<>> /\ slot' = <<>> /\ alt' = <<>> /\ result' = <<>>
  BY DEF EndIteration, ClearWork
<1>5. \/ phase' = "reflect" /\ iteration' = iteration
      \/ iteration' = iteration + 1 /\ phase' = "llm" /\ iteration' < MaxIterations
      \/ iteration' = iteration + 1 /\ phase' = "final"
  BY DEF EndIteration, Advance
<1>6. TypeOK'
  BY <1>1, <1>2, <1>3, <1>4, <1>5 DEF IInv, TypeOK, EndIteration, policy
<1>7. outcome' = outcome BY DEF EndIteration
<1> QED
  BY <1>1, <1>3, <1>4, <1>5, <1>6, <1>7
     DEF IInv, Settles, Position, NoWork, Quiet, RefusedTurnRanNothing

LEMMA ReflectIInv ==
    ASSUME IInv, Reflect PROVE IInv'
<1>1. phase = "reflect" /\ iteration < MaxIterations /\ refusals < 2 /\ outcome # "refused"
  BY DEF Reflect, IInv, Position
<1>2. iteration \in Nat /\ MaxIterations \in Nat BY LoopAssumption DEF IInv, TypeOK
<1>3. \/ /\ iteration' = iteration + 1 /\ outcome' = outcome
         /\ (phase' = "llm" /\ iteration' < MaxIterations) \/ phase' = "final"
      \/ iteration' = iteration /\ phase' = "final" /\ outcome' = "reflected"
  BY DEF Reflect, Advance
<1>4. UNCHANGED <<cfg, policy, work, deniedCalls, refusals, tokens, turns, quiet>>
  BY DEF Reflect
<1>5. TypeOK' BY <1>1, <1>2, <1>3, <1>4 DEF IInv, TypeOK, policy, work, Outcomes
<1> QED
  BY <1>1, <1>3, <1>4, <1>5 DEF IInv, work, Settles, Position, NoWork, Quiet, RefusedTurnRanNothing

LEMMA StepIInv == IInv /\ [Next]_vars => IInv'
<1> SUFFICES ASSUME IInv, [Next]_vars PROVE IInv' OBVIOUS
<1>1. CASE Command \/ SetMode BY <1>1, CommandIInv
<1>2. CASE StartTurn BY <1>2, StartTurnIInv
<1>3. CASE Punt BY <1>3, PuntIInv
<1>4. CASE Answer \/ FinalAnswer \/ Raise \/ Cancel BY <1>4, EndsIInv
<1>5. CASE CallTools BY <1>5, CallToolsIInv
<1>6. CASE CallStep
  BY <1>6, StartCallIInv, ToolReturnsIInv, AlternativeIInv, NoAlternativeIInv,
     AlternativeReturnsIInv DEF CallStep
<1>7. CASE StopRefused BY <1>7, StopRefusedIInv
<1>8. CASE EndIteration BY <1>8, EndIterationIInv
<1>9. CASE Reflect BY <1>9, ReflectIInv
<1>10. CASE UNCHANGED vars
  BY <1>10 DEF IInv, TypeOK, Settles, Position, NoWork, Quiet, Untouched, RefusedTurnRanNothing,
               vars, policy, work
<1> QED
  BY <1>1, <1>2, <1>3, <1>4, <1>5, <1>6, <1>7, <1>8, <1>9, <1>10 DEF Next, Progress

LEMMA AlwaysIInv == Spec => []IInv
BY InitIInv, StepIInv, PTL DEF Spec

\* The state of a turn keeps its type.
THEOREM TypeCorrect == Spec => []TypeOK
<1>1. IInv => TypeOK BY DEF IInv
<1> QED BY <1>1, AlwaysIInv, PTL

\* A turn that the loop ends because "the permission gate refused every tool
\* call for two consecutive attempts" ran no tool in those two iterations
\* (loop.py:369).
THEOREM RefusedRanNothing == Spec => []RefusedTurnRanNothing
<1>1. IInv => RefusedTurnRanNothing BY DEF IInv
<1> QED BY <1>1, AlwaysIInv, PTL

-----------------------------------------------------------------------------
(* The gate.                                                                 *)

\* The only steps that make a call run are its start and the start of its
\* alternative, and both passed the gate.
LEMMA StepPermitted ==
    ASSUME IInv, [Next]_vars, NEW i \in DOMAIN slot', Runs(i)',
           phase # "tools" \/ slot[i] # slot'[i]
    PROVE  MayRun(Subject(i)')
<1>1. TypeOK BY DEF IInv
<1>2. CASE CallStep
  <2>1. phase = "tools" /\ slot[i] # slot'[i]
    BY <1>2 DEF CallStep, StartCall, MayStart, ToolReturns, Alternative, NoAlternative,
                AlternativeReturns, At
  <2>2. PICK k \in DOMAIN batch :
          \/ StartCall(k) \/ ToolReturns(k) \/ Alternative(k) \/ NoAlternative(k)
          \/ AlternativeReturns(k)
    BY <1>2 DEF CallStep
  <2>3. CASE \/ Done(k, "refused") \/ Done(k, "ok") \/ Done(k, "failed") \/ Fails(k)
             \/ AlternativeReturns(k)
    BY <1>1, <2>1, <2>3 DEF TypeOK, Done, Fails, AlternativeReturns, Runs
  <2>4. CASE /\ Decide(batch[k], TRUE) /\ slot' = [slot EXCEPT ![k] = "running"]
             /\ UNCHANGED <<batch, alt>>
    <3>1. i = k /\ slot'[i] = "running" /\ batch' = batch
      BY <1>1, <2>1, <2>4 DEF TypeOK
    <3>2. Subject(i)' = batch[k] BY <3>1 DEF Subject
    <3> QED BY <1>1, <2>4, <3>2, BatchTypes, DecidedMayRun
  <2>5. CASE Alternative(k)
    <3>1. PICK c \in Call : Decide(c, TRUE) /\ RunAlternative(k, c)
      BY <2>5 DEF Alternative
    <3>2. i = k /\ slot'[i] = "alternative" /\ alt'[i] = c
      BY <1>1, <2>1, <3>1 DEF TypeOK, RunAlternative
    <3>3. Subject(i)' = c BY <3>2 DEF Subject
    <3> QED BY <1>1, <3>1, <3>3, DecidedMayRun
  <2> QED
    BY <2>2, <2>3, <2>4, <2>5 DEF StartCall, ToolReturns, NoAlternative
<1>3. CASE slot' = slot
  <2>1. phase # "tools" BY <1>3
  <2>2. slot = <<>> BY <2>1 DEF IInv, Position, NoWork
  <2> QED BY <1>3, <2>2
<1>4. CASE slot' = <<>> BY <1>4
<1>5. CASE CallTools BY <1>5 DEF CallTools, Runs
<1>6. \/ CallStep \/ CallTools \/ slot' = slot \/ slot' = <<>>
  <2>1. CASE Next
    BY <2>1 DEF Next, Progress, Command, SetMode, StartTurn, Punt, Answer, StopRefused,
       EndIteration, Reflect, FinalAnswer, Raise, Cancel, EndTurn, ClearWork, work
  <2>2. CASE UNCHANGED vars BY <2>2 DEF vars, work
  <2> QED BY <2>1, <2>2
<1> QED BY <1>2, <1>3, <1>4, <1>5, <1>6

\* Whichever way a call comes to run, the policy in force at that moment allows
\* it: the deny list always wins, read-only mode runs safe or listed calls only,
\* and nobody's approval is presumed in an unattended run (permissions.py:210,
\* registry.py:97, loop.py:574, loop.py:675).
THEOREM PermittedRun == Spec => OnlyPermittedRun
<1>1. IInv /\ [Next]_vars
        => [\A i \in DOMAIN slot' :
              Runs(i)' /\ (phase # "tools" \/ slot[i] # slot'[i]) => MayRun(Subject(i)')]_vars
  BY StepPermitted
<1> QED BY <1>1, AlwaysIInv, PTL DEF Spec, OnlyPermittedRun

-----------------------------------------------------------------------------
(* The budget.                                                               *)

\* Only a response counts tokens: one that reaches the budget is a first answer
\* that hands the work back, or ends the turn.
LEMMA StepBudget ==
    ASSUME IInv, BudgetStops, [Next]_vars
    PROVE  BudgetStops'
<1>t. tokens \in Nat /\ cfg.budget \in Nat BY DEF IInv, TypeOK, Settings
<1>1. CASE CallTools
  <2>1. PICK n \in cfg.usage : ~OverBudget(tokens + n) /\ tokens' = tokens + n
    BY <1>1 DEF CallTools
  <2>2. cfg' = cfg BY <1>1 DEF CallTools
  <2> QED BY <2>1, <2>2 DEF BudgetStops, Spent, OverBudget
<1>2. CASE CallStep \/ EndIteration \/ Reflect
  <2>1. phase \notin {"idle", "retry"} /\ UNCHANGED <<cfg, tokens>>
    BY <1>2 DEF CallStep, StartCall, MayStart, ToolReturns, Alternative, NoAlternative,
                AlternativeReturns, At, Elsewhere, EndIteration, BatchDone, Reflect
  <2> QED BY <2>1 DEF BudgetStops, Spent
<1>3. CASE StartTurn
  <2>1. tokens' = 0 /\ cfg' = cfg BY <1>3 DEF StartTurn
  <2> QED BY <1>t, <2>1 DEF BudgetStops, Spent
<1>4. CASE phase' \in {"idle", "retry"} BY <1>4 DEF BudgetStops
<1>5. CASE UNCHANGED <<cfg, phase, tokens>> BY <1>5 DEF BudgetStops, Spent
<1>6. \/ CallTools \/ CallStep \/ EndIteration \/ Reflect \/ StartTurn
      \/ phase' \in {"idle", "retry"} \/ UNCHANGED <<cfg, phase, tokens>>
  <2>1. CASE Next
    BY <2>1 DEF Next, Progress, Command, SetMode, Punt, Answer, StopRefused, FinalAnswer,
       Raise, Cancel, EndTurn
  <2>2. CASE UNCHANGED vars BY <2>2 DEF vars
  <2> QED BY <2>1, <2>2
<1> QED BY <1>1, <1>2, <1>3, <1>4, <1>5, <1>6

\* Once the tokens counted reach the budget, the turn is over or its retried
\* first request, which will end it, is under way: no tool, iteration,
\* recovery, reflection or final request follows (loop.py:313).
THEOREM BudgetHolds == Spec => []BudgetStops
<1>1. Init => BudgetStops BY DEF Init, BudgetStops
<1> QED BY <1>1, AlwaysIInv, StepBudget, PTL DEF Spec

=============================================================================
