---------------------------- MODULE ProberProofs ----------------------------
(***************************************************************************)
(* How far a scan may exceed its budgets and its rate, and that what it      *)
(* sends was authorised: for every set of requests, URLs and hosts, and      *)
(* every limit.                                                              *)
(*                                                                           *)
(* A request past the check holds a permit, and will be counted at most      *)
(* once before it is checked again.  While the budget lasts the permits      *)
(* bound what is past the check; when it is used up nobody passes any more,  *)
(* and the sum of what is counted and what may be counted only falls.  For   *)
(* the rate, a sleeper will have left the window by the time the request it  *)
(* waits for has, so that sleepers and recent requests share the permits.    *)
(***************************************************************************)
EXTENDS Prober, TLAPS, FiniteSetTheorems, WellFoundedInduction

PassedPlace == {"resolving", "throttling", "sleeping", "sending"}
Outside == {"queued", "done"}
PassedTo(h) == {r \in Passed : HostOf[url[r]] = h}

\* The coroutine r may have moved, and no other.
OnlyMoves(r) == \A q \in Req : q # r => pc'[q] = pc[q] /\ url'[q] = url[q]

-----------------------------------------------------------------------------
(* Types *)

LEMMA ReturnTypes ==
    ASSUME TypeOK, NEW r \in Req, NEW again \in BOOLEAN, Return(r, again)
    PROVE  /\ pc' \in [Req -> Place] /\ method' \in [Req -> {"HEAD", "GET"}]
           /\ url' \in [Req -> Url] /\ hop' \in [Req -> 0 .. MaxRedirects]
           /\ OnlyMoves(r)
           /\ pc'[r] \in Outside
<1>1. First[r] \in Url /\ MaxRedirects \in Nat BY ProberAssumption
<1>2. CASE r \in Fallback /\ method[r] = "HEAD" /\ again
  <2>1. /\ pc' = [pc EXCEPT ![r] = "queued"] /\ url' = [url EXCEPT ![r] = First[r]]
        /\ method' = [method EXCEPT ![r] = "GET"] /\ hop' = [hop EXCEPT ![r] = 0]
    BY <1>2 DEF Return
  <2>2. pc' \in [Req -> Place] /\ pc'[r] \in Outside BY <2>1 DEF TypeOK, Place, Outside
  <2>3. method' \in [Req -> {"HEAD", "GET"}] BY <2>1 DEF TypeOK
  <2>4. url' \in [Req -> Url] /\ hop' \in [Req -> 0 .. MaxRedirects] BY <1>1, <2>1 DEF TypeOK
  <2> QED BY <2>1, <2>2, <2>3, <2>4 DEF OnlyMoves, TypeOK
<1>3. CASE ~(r \in Fallback /\ method[r] = "HEAD" /\ again)
  BY <1>3 DEF Return, Go, TypeOK, Place, OnlyMoves, Outside
<1> QED BY <1>2, <1>3

LEMMA GoTypes ==
    ASSUME TypeOK, NEW r \in Req, NEW place \in Place, Go(r, place)
    PROVE  /\ pc' \in [Req -> Place] /\ method' \in [Req -> {"HEAD", "GET"}]
           /\ url' \in [Req -> Url] /\ hop' \in [Req -> 0 .. MaxRedirects]
           /\ OnlyMoves(r)
           /\ pc'[r] = place /\ url' = url
BY DEF Go, TypeOK, OnlyMoves

LEMMA RecordTypes ==
    ASSUME TypeOK, NEW u \in Url, RecordRequest(u)
    PROVE  /\ made' \in Nat /\ made' = made + 1
           /\ perHost' \in [Host -> Nat]
           /\ \A h \in Host : perHost'[h] = IF KeyOf[u] = h THEN perHost[h] + 1 ELSE perHost[h]
<1>1. KeyOf[u] \in Host BY ProberAssumption
<1> QED BY <1>1 DEF RecordRequest, TypeOK

LEMMA LeaveTypes ==
    ASSUME TypeOK, NEW r \in Req, Leave(r)
    PROVE  since' \in 0 .. Interval /\ recent' \in [0 .. Interval - 1 -> Nat]
<1>1. Interval \in Nat \ {0} BY ProberAssumption
<1>2. 0 \in 0 .. Interval /\ 0 \in 0 .. Interval - 1 BY <1>1
<1>3. recent \in [0 .. Interval - 1 -> Nat] BY DEF TypeOK
<1>4. recent[0] \in Nat BY <1>2, <1>3
<1>5. recent[0] + 1 \in Nat BY <1>4
<1> QED BY <1>2, <1>3, <1>5 DEF Leave

\* What a step of one coroutine does to the counters and to the places.
Enters(r) ==
    /\ pc[r] = "queued" /\ pc'[r] = "checking"
    /\ Cardinality(Inside) < Concurrency
    /\ UNCHANGED <<made, perHost>>
Passes(r) ==
    /\ pc[r] = "checking" /\ pc'[r] \in PassedPlace
    /\ Allowed(url[r]) /\ url' = url
    /\ UNCHANGED <<made, perHost>>
Advances(r) ==
    /\ pc[r] \in PassedPlace /\ pc'[r] \in PassedPlace
    /\ url' = url
    /\ UNCHANGED <<made, perHost>>
Leaves(r) ==
    /\ pc[r] \notin Outside /\ pc'[r] \in Outside
    /\ UNCHANGED <<made, perHost>>
IsCounted(r) ==
    /\ pc[r] = "sending" /\ pc'[r] \in Outside \cup {"checking"}
    /\ RecordRequest(url[r])

LEMMA StepKinds ==
    ASSUME TypeOK, NEW r \in Req, Step(r)
    PROVE  /\ TypeOK'
           /\ OnlyMoves(r)
           /\ Enters(r) \/ Passes(r) \/ Advances(r) \/ Leaves(r) \/ IsCounted(r)
<1> USE DEF At, guard, clock
<1>0. /\ url[r] \in Url /\ HostOf[url[r]] \in Host /\ "checking" \in Place
      /\ "resolving" \in Place /\ "throttling" \in Place /\ "sleeping" \in Place
      /\ "sending" \in Place /\ Interval \in Nat \ {0} /\ MaxRedirects \in Nat
  BY ProberAssumption DEF TypeOK, Place
<1>1. CASE Acquire(r)
  <2>1. Go(r, "checking") BY <1>1 DEF Acquire
  <2>2. TypeOK' BY <1>0, <1>1, <2>1, GoTypes DEF Acquire, TypeOK
  <2> QED BY <1>0, <1>1, <2>1, <2>2, GoTypes DEF Acquire, Enters
<1>2. CASE Refuse(r)
  <2>1. Return(r, TRUE) BY <1>2 DEF Refuse
  <2>2. TypeOK' BY <1>2, <2>1, ReturnTypes DEF Refuse, TypeOK
  <2> QED BY <1>2, <2>1, <2>2, ReturnTypes DEF Refuse, Leaves, Outside
<1>3. CASE Pass(r)
  <2>1. Go(r, "throttling") BY <1>3 DEF Pass
  <2>2. TypeOK' BY <1>0, <1>3, <2>1, GoTypes DEF Pass, TypeOK
  <2> QED BY <1>0, <1>3, <2>1, <2>2, GoTypes DEF Pass, Passes, PassedPlace
<1>4. CASE AwaitResolver(r)
  <2>1. Go(r, "resolving") BY <1>4 DEF AwaitResolver
  <2>2. TypeOK' BY <1>0, <1>4, <2>1, GoTypes DEF AwaitResolver, TypeOK
  <2> QED BY <1>0, <1>4, <2>1, <2>2, GoTypes DEF AwaitResolver, Passes, PassedPlace
<1>5. ASSUME NEW answer \in Answer, Resolved(r, answer)
      PROVE  TypeOK' /\ OnlyMoves(r) /\ (Advances(r) \/ Leaves(r))
  <2>1. resolved' \in [Host -> Answer \cup {Unresolved}] BY <1>5 DEF Resolved, TypeOK
  <2>2. CASE Blocked(answer)
    <3>1. Return(r, TRUE) BY <1>5, <2>2 DEF Resolved
    <3>2. TypeOK' BY <1>5, <2>1, <3>1, ReturnTypes DEF Resolved, TypeOK
    <3> QED BY <1>5, <3>1, <3>2, ReturnTypes DEF Resolved, Leaves, Outside
  <2>3. CASE ~Blocked(answer)
    <3>1. Go(r, "throttling") BY <1>5, <2>3 DEF Resolved
    <3>2. TypeOK' BY <1>0, <1>5, <2>1, <3>1, GoTypes DEF Resolved, TypeOK
    <3> QED BY <1>0, <1>5, <3>1, <3>2, GoTypes DEF Resolved, Advances, PassedPlace
  <2> QED BY <2>2, <2>3
<1>6. CASE Throttle(r)
  <2>1. CASE since < Interval
    <3>1. Go(r, "sleeping") BY <1>6, <2>1 DEF Throttle
    <3>2. Interval - since \in 0 .. Interval BY <1>0, <2>1 DEF TypeOK
    <3>3. wait' \in [Req -> 0 .. Interval] BY <1>6, <2>1, <3>2 DEF Throttle, TypeOK
    <3>4. TypeOK' BY <1>0, <1>6, <2>1, <3>1, <3>3, GoTypes DEF Throttle, TypeOK
    <3> QED BY <1>0, <1>6, <3>1, <3>4, GoTypes DEF Throttle, Advances, PassedPlace
  <2>2. CASE ~(since < Interval)
    <3>1. Leave(r) BY <1>6, <2>2 DEF Throttle
    <3>2. Go(r, "sending") BY <3>1 DEF Leave
    <3>3. TypeOK' BY <1>0, <1>6, <2>2, <3>1, <3>2, GoTypes, LeaveTypes DEF Throttle, TypeOK
    <3> QED BY <1>0, <1>6, <3>2, <3>3, GoTypes DEF Throttle, Advances, PassedPlace
  <2> QED BY <2>1, <2>2
<1>7. CASE Wake(r)
  <2>1. Leave(r) BY <1>7 DEF Wake
  <2>2. Go(r, "sending") BY <2>1 DEF Leave
  <2>3. TypeOK' BY <1>0, <1>7, <2>1, <2>2, GoTypes, LeaveTypes DEF Wake, TypeOK
  <2> QED BY <1>0, <1>7, <2>2, <2>3, GoTypes DEF Wake, Advances, PassedPlace
<1>8. ASSUME NEW again \in BOOLEAN, Respond(r, again)
      PROVE  TypeOK' /\ OnlyMoves(r) /\ IsCounted(r)
  <2>1. Return(r, again) /\ RecordRequest(url[r]) BY <1>8 DEF Respond
  <2>2. made' \in Nat /\ perHost' \in [Host -> Nat] BY <1>0, <2>1, RecordTypes
  <2>3. /\ pc' \in [Req -> Place] /\ method' \in [Req -> {"HEAD", "GET"}]
        /\ url' \in [Req -> Url] /\ hop' \in [Req -> 0 .. MaxRedirects]
        /\ OnlyMoves(r) /\ pc'[r] \in Outside
    BY <2>1, ReturnTypes
  <2>4. UNCHANGED <<resolved, expired, wait, since, recent>> BY <1>8 DEF Respond
  <2>5. TypeOK' BY <2>2, <2>3, <2>4 DEF TypeOK
  <2> QED BY <1>8, <2>1, <2>3, <2>5 DEF Respond, IsCounted
<1>9. ASSUME NEW to \in Url, Redirect(r, to)
      PROVE  TypeOK' /\ OnlyMoves(r) /\ IsCounted(r)
  <2>1. RecordRequest(url[r]) BY <1>9 DEF Redirect
  <2>2. /\ pc' \in [Req -> Place] /\ url' \in [Req -> Url] /\ OnlyMoves(r)
        /\ pc'[r] = "checking"
    BY <1>0, <1>9 DEF Redirect, TypeOK, OnlyMoves
  <2>3. hop' \in [Req -> 0 .. MaxRedirects] BY <1>0, <1>9 DEF Redirect, TypeOK
  <2>4. TypeOK' BY <1>0, <1>9, <2>1, <2>2, <2>3, RecordTypes DEF Redirect, TypeOK
  <2> QED BY <1>9, <2>1, <2>2, <2>4 DEF Redirect, IsCounted
<1>10. CASE TransportFails(r)
  <2>1. Return(r, TRUE) BY <1>10 DEF TransportFails
  <2>2. TypeOK' BY <1>10, <2>1, ReturnTypes DEF TransportFails, TypeOK
  <2> QED BY <1>10, <2>1, <2>2, ReturnTypes DEF TransportFails, Leaves, Outside
<1> QED BY <1>1, <1>2, <1>3, <1>4, <1>5, <1>6, <1>7, <1>8, <1>9, <1>10 DEF Step

LEMMA OthersTypes ==
    ASSUME TypeOK, Deadline \/ Tick \/ UNCHANGED vars
    PROVE  TypeOK' /\ UNCHANGED <<pc, url, made, perHost>>
<1>1. Interval \in Nat \ {0} BY ProberAssumption
<1>2. CASE Deadline BY <1>2 DEF Deadline, coroutine, clock, TypeOK
<1>3. CASE Tick
  <2>1. since' \in 0 .. Interval BY <1>1, <1>3 DEF Tick, TypeOK
  <2>2. wait' \in [Req -> 0 .. Interval]
    <3>1. \A r \in Req : (IF wait[r] > 0 THEN wait[r] - 1 ELSE 0) \in 0 .. Interval
      BY <1>1 DEF TypeOK
    <3> QED BY <1>3, <3>1 DEF Tick
  <2>3. recent' \in [0 .. Interval - 1 -> Nat]
    <3>1. \A i \in 0 .. Interval - 1 : (IF i = 0 THEN 0 ELSE recent[i - 1]) \in Nat
      BY <1>1 DEF TypeOK
    <3> QED BY <1>3, <3>1 DEF Tick
  <2> QED BY <1>3, <2>1, <2>2, <2>3 DEF Tick, coroutine, guard, TypeOK
<1>4. CASE UNCHANGED vars BY <1>4 DEF vars, TypeOK
<1> QED BY <1>2, <1>3, <1>4

LEMMA InitTypes == Init => TypeOK
<1>1. Interval \in Nat \ {0} /\ MaxRedirects \in Nat BY ProberAssumption
<1> SUFFICES ASSUME Init PROVE TypeOK OBVIOUS
<1>2. /\ pc \in [Req -> Place] /\ method \in [Req -> {"HEAD", "GET"}]
      /\ url \in [Req -> Url]
  BY ProberAssumption DEF Init, Place
<1>3. hop \in [Req -> 0 .. MaxRedirects] /\ wait \in [Req -> 0 .. Interval]
  BY <1>1 DEF Init
<1>4. made \in Nat /\ perHost \in [Host -> Nat] /\ expired \in BOOLEAN BY DEF Init
<1>5. resolved \in [Host -> Answer \cup {Unresolved}] BY DEF Init
<1>6. since \in 0 .. Interval /\ recent \in [0 .. Interval - 1 -> Nat] BY <1>1 DEF Init
<1> QED BY <1>2, <1>3, <1>4, <1>5, <1>6 DEF TypeOK

\* Every variable keeps its type.
THEOREM TypeCorrect == Spec => []TypeOK
<1>1. TypeOK /\ [Next]_vars => TypeOK'
  <2> SUFFICES ASSUME TypeOK, [Next]_vars PROVE TypeOK' OBVIOUS
  <2>1. CASE \E r \in Req : Step(r) BY <2>1, StepKinds
  <2> QED BY <2>1, OthersTypes DEF Next
<1> QED BY <1>1, InitTypes, PTL DEF Spec

-----------------------------------------------------------------------------
(* Sets of coroutines *)

\* What moving one coroutine does to the size of a set of them.
LEMMA MoveOne ==
    ASSUME NEW S, IsFiniteSet(S), NEW T, NEW r, T \ {r} = S \ {r}
    PROVE  /\ IsFiniteSet(T) /\ Cardinality(S) \in Nat /\ Cardinality(T) \in Nat
           /\ (r \in S <=> r \in T) => Cardinality(T) = Cardinality(S)
           /\ r \notin S /\ r \in T => Cardinality(T) = Cardinality(S) + 1
           /\ r \in S /\ r \notin T => Cardinality(T) + 1 = Cardinality(S)
<1>1. CASE r \in S <=> r \in T
  <2>1. T = S BY <1>1
  <2> QED BY <1>1, <2>1, FS_CardinalityType
<1>2. CASE r \notin S /\ r \in T
  <2>1. T = S \cup {r} BY <1>2
  <2> QED BY <1>2, <2>1, FS_AddElement, FS_CardinalityType
<1>3. CASE r \in S /\ r \notin T
  <2>1. T = S \ {r} BY <1>3
  <2>2. IsFiniteSet(T) /\ Cardinality(T) = Cardinality(S) - 1 BY <1>3, <2>1, FS_RemoveElement
  <2> QED BY <1>3, <2>2, FS_CardinalityType
<1> QED BY <1>1, <1>2, <1>3

LEMMA Places ==
    ASSUME TypeOK, NEW r \in Req
    PROVE  /\ r \in Inside <=> pc[r] \notin Outside
           /\ r \in Passed <=> pc[r] \in PassedPlace
           /\ \A h : r \in PassedTo(h) <=> pc[r] \in PassedPlace /\ HostOf[url[r]] = h
           /\ pc[r] \in PassedPlace => pc[r] \notin Outside
BY DEF Inside, Passed, PassedTo, PassedPlace, Outside

LEMMA PlacesMove ==
    ASSUME NEW r \in Req, OnlyMoves(r)
    PROVE  /\ Inside' \ {r} = Inside \ {r}
           /\ Passed' \ {r} = Passed \ {r}
           /\ \A h : PassedTo(h)' \ {r} = PassedTo(h) \ {r}
BY DEF OnlyMoves, Inside, Passed, PassedTo

LEMMA FiniteSets ==
    /\ IsFiniteSet(Inside) /\ IsFiniteSet(Passed)
    /\ \A h : IsFiniteSet(PassedTo(h)) /\ Cardinality(PassedTo(h)) <= Cardinality(Passed)
    /\ Cardinality(Passed) <= Cardinality(Inside)
<1>1. IsFiniteSet(Inside)
  BY ProberAssumption, FS_Subset, Inside \in SUBSET Req DEF Inside
<1>2. Passed \in SUBSET Inside BY DEF Passed, Inside
<1>3. IsFiniteSet(Passed) /\ Cardinality(Passed) <= Cardinality(Inside) BY <1>1, <1>2, FS_Subset
<1>4. \A h : PassedTo(h) \in SUBSET Passed BY DEF PassedTo
<1> QED BY <1>1, <1>3, <1>4, FS_Subset

-----------------------------------------------------------------------------
(* The budgets *)

Permits == Cardinality(Inside) <= Concurrency
Budget == made + Cardinality(Passed) < MaxRequests + Concurrency
HostBudget == \A h \in Spelled : perHost[h] + Cardinality(PassedTo(h)) < MaxPerHost + Concurrency
Counting == TypeOK /\ Permits /\ Budget /\ HostBudget

LEMMA CountingInit == Init => Counting
<1> SUFFICES ASSUME Init PROVE Counting OBVIOUS
<1>1. TypeOK BY InitTypes
<1>2. Inside = {} /\ Passed = {} /\ \A h : PassedTo(h) = {} BY DEF Init, Inside, Passed, PassedTo
<1>3. Cardinality({}) = 0 BY FS_EmptySet
<1>4. {Concurrency, MaxRequests, MaxPerHost} \subseteq Nat \ {0} BY ProberAssumption
<1>5. made = 0 /\ \A h \in Spelled : perHost[h] = 0 BY DEF Init, Spelled
<1> QED BY <1>1, <1>2, <1>3, <1>4, <1>5 DEF Counting, Permits, Budget, HostBudget

LEMMA CountingStep ==
    ASSUME Counting, NEW r \in Req, Step(r)
    PROVE  Counting'
<1>0. /\ TypeOK /\ TypeOK' /\ OnlyMoves(r)
      /\ Enters(r) \/ Passes(r) \/ Advances(r) \/ Leaves(r) \/ IsCounted(r)
  BY StepKinds DEF Counting
<1>1. /\ Concurrency \in Nat \ {0} /\ MaxRequests \in Nat \ {0} /\ MaxPerHost \in Nat \ {0}
  BY ProberAssumption
<1>2. /\ r \in Inside <=> pc[r] \notin Outside
      /\ r \in Passed <=> pc[r] \in PassedPlace
      /\ \A h : r \in PassedTo(h) <=> pc[r] \in PassedPlace /\ HostOf[url[r]] = h
      /\ r \in Inside' <=> pc'[r] \notin Outside
      /\ r \in Passed' <=> pc'[r] \in PassedPlace
      /\ \A h : r \in PassedTo(h)' <=> pc'[r] \in PassedPlace /\ HostOf[url'[r]] = h
  BY <1>0 DEF TypeOK, Inside, Passed, PassedTo, PassedPlace, Outside
<1>3. Permits'
  <2>1. Inside' \ {r} = Inside \ {r} BY <1>0, PlacesMove
  <2>2. Cardinality(Inside) <= Concurrency BY DEF Counting, Permits
  <2>3. CASE Enters(r) BY <1>1, <2>1, <2>2, <2>3, FiniteSets, MoveOne DEF Enters, Permits
  <2>4. CASE ~Enters(r)
    <3>1. r \in Inside BY <1>0, <1>2, <2>4 DEF Passes, Advances, Leaves, IsCounted, Outside, PassedPlace
    <3> QED BY <1>1, <2>1, <2>2, <3>1, FiniteSets, MoveOne DEF Permits
  <2> QED BY <2>3, <2>4
<1>4. Budget'
  <2>1. Passed' \ {r} = Passed \ {r} BY <1>0, PlacesMove
  <2>2. /\ Cardinality(Passed) \in Nat /\ Cardinality(Passed') \in Nat
        /\ (r \in Passed <=> r \in Passed') => Cardinality(Passed') = Cardinality(Passed)
        /\ r \in Passed /\ r \notin Passed' => Cardinality(Passed') + 1 = Cardinality(Passed)
    BY <2>1, FiniteSets, MoveOne
  <2>3. made \in Nat /\ made + Cardinality(Passed) < MaxRequests + Concurrency
    BY <1>0 DEF Counting, Budget, TypeOK
  <2>4. CASE Enters(r)
    BY <1>2, <2>2, <2>3, <2>4 DEF Enters, PassedPlace, Budget
  <2>5. CASE Passes(r)
    <3>1. made < MaxRequests /\ made' = made BY <2>5 DEF Passes, Allowed
    <3>2. Cardinality(Passed') <= Cardinality(Inside') /\ IsFiniteSet(Inside')
      <4>1. Passed' \in SUBSET Inside' BY DEF Passed, Inside
      <4>2. IsFiniteSet(Inside') BY <1>0, PlacesMove, FiniteSets, MoveOne
      <4> QED BY <4>1, <4>2, FS_Subset
    <3>3. Cardinality(Inside') <= Concurrency BY <1>3 DEF Permits
    <3>4. Cardinality(Inside') \in Nat BY <3>2, FS_CardinalityType
    <3> QED BY <1>1, <2>2, <2>3, <3>1, <3>2, <3>3, <3>4 DEF Budget
  <2>6. CASE Advances(r) BY <1>2, <2>2, <2>3, <2>6 DEF Advances, Budget
  <2>7. CASE Leaves(r)
    <3>1. r \notin Passed' /\ made' = made BY <1>2, <2>7 DEF Leaves, Outside, PassedPlace
    <3> QED BY <1>1, <2>2, <2>3, <3>1 DEF Budget
  <2>8. CASE IsCounted(r)
    <3>1. r \in Passed /\ r \notin Passed' BY <1>2, <2>8 DEF IsCounted, Outside, PassedPlace
    <3>2. made' = made + 1 BY <2>8 DEF IsCounted, RecordRequest
    <3> QED BY <1>1, <2>2, <2>3, <3>1, <3>2 DEF Budget
  <2> QED BY <1>0, <2>4, <2>5, <2>6, <2>7, <2>8
<1>5. HostBudget'
  <2> SUFFICES ASSUME NEW h \in Spelled
               PROVE  perHost'[h] + Cardinality(PassedTo(h)') < MaxPerHost + Concurrency
    BY DEF HostBudget, Spelled
  <2>1. PassedTo(h)' \ {r} = PassedTo(h) \ {r} BY <1>0, PlacesMove
  <2>2. /\ Cardinality(PassedTo(h)) \in Nat /\ Cardinality(PassedTo(h)') \in Nat
        /\ (r \in PassedTo(h) <=> r \in PassedTo(h)') =>
               Cardinality(PassedTo(h)') = Cardinality(PassedTo(h))
        /\ r \in PassedTo(h) /\ r \notin PassedTo(h)' =>
               Cardinality(PassedTo(h)') + 1 = Cardinality(PassedTo(h))
    BY <2>1, FiniteSets, MoveOne
  <2>3. h \in Host /\ perHost[h] \in Nat BY <1>0 DEF Spelled, TypeOK
  <2>4. perHost[h] + Cardinality(PassedTo(h)) < MaxPerHost + Concurrency
    BY DEF Counting, HostBudget
  <2>5. CASE Enters(r)
    BY <1>2, <2>2, <2>3, <2>4, <2>5 DEF Enters, PassedPlace
  <2>6. CASE Passes(r) /\ HostOf[url[r]] = h
    <3>1. perHost[h] < MaxPerHost /\ perHost'[h] = perHost[h] BY <2>6 DEF Passes, Allowed
    <3>2. Cardinality(PassedTo(h)') <= Cardinality(Inside') /\ IsFiniteSet(Inside')
      <4>1. PassedTo(h)' \in SUBSET Inside' BY DEF PassedTo, Passed, Inside
      <4>2. IsFiniteSet(Inside') BY <1>0, PlacesMove, FiniteSets, MoveOne
      <4> QED BY <4>1, <4>2, FS_Subset
    <3>3. Cardinality(Inside') <= Concurrency BY <1>3 DEF Permits
    <3>4. Cardinality(Inside') \in Nat BY <3>2, FS_CardinalityType
    <3> QED BY <1>1, <2>2, <2>3, <3>1, <3>2, <3>3, <3>4
  <2>7. CASE Passes(r) /\ HostOf[url[r]] # h
    BY <1>2, <2>2, <2>4, <2>7 DEF Passes
  <2>8. CASE Advances(r) BY <1>2, <2>2, <2>4, <2>8 DEF Advances
  <2>9. CASE Leaves(r)
    <3>1. r \notin PassedTo(h)' /\ perHost' = perHost
      BY <1>2, <2>9 DEF Leaves, Outside, PassedPlace
    <3> QED BY <1>1, <2>2, <2>3, <2>4, <3>1
  <2>10. CASE IsCounted(r)
    <3>1. r \notin PassedTo(h)' BY <1>2, <2>10 DEF IsCounted, Outside, PassedPlace
    <3>2. url[r] \in Url BY <1>0 DEF TypeOK
    <3>3. perHost'[h] = IF KeyOf[url[r]] = h THEN perHost[h] + 1 ELSE perHost[h]
      BY <1>0, <2>3, <2>10, <3>2, RecordTypes DEF IsCounted
    <3>4. KeyOf[url[r]] = h <=> r \in PassedTo(h)
      BY <1>2, <2>10, <3>2 DEF Spelled, IsCounted, PassedPlace
    <3> QED BY <1>1, <2>2, <2>3, <2>4, <3>1, <3>3, <3>4
  <2> QED BY <1>0, <2>5, <2>6, <2>7, <2>8, <2>9, <2>10
<1> QED BY <1>0, <1>3, <1>4, <1>5 DEF Counting

LEMMA CountingAlways == Spec => []Counting
<1>1. Counting /\ [Next]_vars => Counting'
  <2> SUFFICES ASSUME Counting, [Next]_vars PROVE Counting' OBVIOUS
  <2>1. CASE \E r \in Req : Step(r) BY <2>1, CountingStep
  <2>2. CASE Deadline \/ Tick \/ UNCHANGED vars
    <3>1. TypeOK' /\ UNCHANGED <<pc, url, made, perHost>> BY <2>2, OthersTypes DEF Counting
    <3>2. UNCHANGED <<Inside, Passed>> /\ \A h : PassedTo(h)' = PassedTo(h)
      BY <3>1 DEF Inside, Passed, PassedTo
    <3> QED BY <3>1, <3>2 DEF Counting, Permits, Budget, HostBudget
  <2> QED BY <2>1, <2>2 DEF Next
<1> QED BY <1>1, CountingInit, PTL DEF Spec

\* The scan's budget is exceeded by less than the number of permits.
THEOREM BudgetHolds == Spec => []WithinBudget
<1>1. Counting => WithinBudget
  <2> SUFFICES ASSUME Counting PROVE WithinBudget OBVIOUS
  <2>1. /\ made \in Nat /\ Cardinality(Passed) \in Nat
        /\ Concurrency \in Nat /\ MaxRequests \in Nat
    BY FiniteSets, FS_CardinalityType, ProberAssumption DEF Counting, TypeOK
  <2> QED BY <2>1 DEF Counting, Budget, WithinBudget
<1> QED BY <1>1, CountingAlways, PTL

\* And so is the budget of a host whose URLs are counted under the name checked.
THEOREM HostBudgetHolds == Spec => []WithinHostBudget
<1>1. Counting => WithinHostBudget
  <2> SUFFICES ASSUME Counting, NEW h \in Spelled
               PROVE  perHost[h] <= MaxPerHost + Concurrency - 1
    BY DEF WithinHostBudget
  <2>1. /\ perHost[h] \in Nat /\ Cardinality(PassedTo(h)) \in Nat
        /\ Concurrency \in Nat /\ MaxPerHost \in Nat
    BY FiniteSets, FS_CardinalityType, ProberAssumption DEF Counting, TypeOK, Spelled
  <2> QED BY <2>1 DEF Counting, HostBudget
<1> QED BY <1>1, CountingAlways, PTL

\* Whatever the interleaving of checks and responses, both budgets hold.
THEOREM BudgetsHold == Spec => []WithinBudgets
<1>1. WithinBudget /\ WithinHostBudget => WithinBudgets BY DEF WithinBudgets
<1> QED BY <1>1, BudgetHolds, HostBudgetHolds, PTL

-----------------------------------------------------------------------------
(* What is sent was authorised *)

\* The strengthening: a redirect leaves the places past the check, and nothing
\* else changes the URL of a coroutine in them.
Authorised == \A r \in Req : pc[r] \in PassedPlace => url[r] \in InScope

LEMMA AuthorisedStep ==
    ASSUME TypeOK, Authorised, [Next]_vars
    PROVE  Authorised'
<1>1. CASE \E r \in Req : Step(r)
  <2> PICK r \in Req : Step(r) BY <1>1
  <2>1. /\ OnlyMoves(r)
        /\ Enters(r) \/ Passes(r) \/ Advances(r) \/ Leaves(r) \/ IsCounted(r)
    BY StepKinds
  <2>2. pc'[r] \in PassedPlace => url'[r] \in InScope
    BY <2>1 DEF Authorised, Enters, Passes, Advances, Leaves, IsCounted, Allowed,
                PassedPlace, Outside
  <2> QED BY <2>1, <2>2 DEF Authorised, OnlyMoves
<1>2. CASE Deadline \/ Tick \/ UNCHANGED vars
  BY <1>2, OthersTypes DEF Authorised
<1> QED BY <1>1, <1>2 DEF Next

\* Where a coroutine is past the check, and how it got past the resolver.
LEMMA ClearedStep ==
    ASSUME TypeOK, NEW r \in Req, Step(r), pc'[r] \in Cleared
    PROVE  \/ AllowPrivate
           \/ pc[r] \in Cleared
           \/ resolved'[HostOf[url'[r]]] \in Answer \ {"private"}
<1>0. HostOf[url[r]] \in Host BY ProberAssumption DEF TypeOK
<1>1. CASE Pass(r) BY <1>1 DEF Pass, Blocked, Go, guard
<1>2. ASSUME NEW answer \in Answer, Resolved(r, answer)
      PROVE  resolved'[HostOf[url'[r]]] \in Answer \ {"private"}
  <2>1. CASE Blocked(answer)
    <3>1. pc'[r] \in Outside BY <1>2, <2>1, ReturnTypes DEF Resolved
    <3> QED BY <3>1 DEF Outside, Cleared
  <2>2. CASE ~Blocked(answer)
    <3>1. url' = url BY <1>2, <2>2 DEF Resolved, Go
    <3>2. resolved'[HostOf[url[r]]] = answer BY <1>0, <1>2 DEF Resolved, TypeOK
    <3> QED BY <2>2, <3>1, <3>2 DEF Blocked
  <2> QED BY <2>1, <2>2
<1>3. CASE Throttle(r) \/ Wake(r) BY <1>3 DEF Throttle, Wake, At, Cleared
<1>4. CASE Acquire(r) \/ AwaitResolver(r)
  BY <1>4 DEF Acquire, AwaitResolver, Go, Cleared, TypeOK
<1>5. CASE Refuse(r) \/ TransportFails(r)
  <2>1. pc'[r] \in Outside BY <1>5, ReturnTypes DEF Refuse, TransportFails
  <2> QED BY <2>1 DEF Outside, Cleared
<1>6. CASE \E again \in BOOLEAN : Respond(r, again) BY <1>6 DEF Respond, At, Cleared
<1>7. CASE \E to \in Url : Redirect(r, to) BY <1>7 DEF Redirect, At, Cleared
<1> QED BY <1>1, <1>2, <1>3, <1>4, <1>5, <1>6, <1>7 DEF Step

\* Nothing is about to be sent that the policy does not authorise, whatever the
\* servers redirect to.
THEOREM OnlyAuthorised == Spec => NeverOutside
<1> DEFINE A == \A r \in Req : pc'[r] \in Cleared =>
                  /\ url'[r] \in InScope
                  /\ \/ AllowPrivate
                     \/ pc[r] \in Cleared
                     \/ resolved'[HostOf[url'[r]]] \in Answer \ {"private"}
<1>1. Init => Authorised BY DEF Init, Authorised, PassedPlace
<1>2. TypeOK /\ Authorised /\ [Next]_vars => Authorised' BY AuthorisedStep
<1>3. TypeOK /\ Authorised /\ [Next]_vars => [A]_vars
  <2> SUFFICES ASSUME TypeOK, Authorised, Next, NEW r \in Req, pc'[r] \in Cleared
               PROVE  /\ url'[r] \in InScope
                      /\ \/ AllowPrivate
                         \/ pc[r] \in Cleared
                         \/ resolved'[HostOf[url'[r]]] \in Answer \ {"private"}
    BY DEF A
  <2>1. url'[r] \in InScope
    <3>1. Authorised' BY AuthorisedStep
    <3> QED BY <3>1 DEF Authorised, Cleared, PassedPlace
  <2>2. CASE Deadline \/ Tick BY <2>1, <2>2, OthersTypes
  <2>3. CASE \E q \in Req : Step(q)
    <3> PICK q \in Req : Step(q) BY <2>3
    <3>1. CASE q = r BY <2>1, <3>1, ClearedStep
    <3>2. CASE q # r BY <2>1, <3>2, StepKinds DEF OnlyMoves
    <3> QED BY <3>1, <3>2
  <2> QED BY <2>2, <2>3 DEF Next
<1> QED BY <1>1, <1>2, <1>3, TypeCorrect, PTL DEF Spec, NeverOutside

-----------------------------------------------------------------------------
(* Induction up to a number: tlapm cannot instantiate the library's theorem on it, *)
(* which takes an operator, so it is had from a least counterexample              *)

LEMMA LeastNatural ==
    ASSUME NEW T \in SUBSET Nat, T # {}
    PROVE  \E x \in T : \A y \in T : x <= y
<1> DEFINE U == {1 .. n : n \in T}
<1>1. U \subseteq FiniteSubsetsOf(Nat)
  <2>1. \A n \in T : IsFiniteSet(1 .. n) /\ 1 .. n \in SUBSET Nat BY FS_Interval
  <2> QED BY <2>1 DEF FiniteSubsetsOf
<1>2. U # {} OBVIOUS
<1>3. PICK u \in U : \A v \in U : <<v, u>> \notin StrictSubsetOrdering(Nat)
  <2> HIDE DEF U
  <2> QED BY <1>1, <1>2, FS_StrictSubsetOrderingWellFounded, WFMin
<1>4. PICK n \in T : u = 1 .. n OBVIOUS
<1>5. ASSUME NEW m \in T, m < n PROVE FALSE
  <2>1. 1 .. m \subseteq 1 .. n /\ n \in 1 .. n /\ n \notin 1 .. m BY <1>5
  <2>2. <<1 .. m, 1 .. n>> \in StrictSubsetOrdering(Nat) BY <2>1 DEF StrictSubsetOrdering
  <2> QED BY <2>2, <1>3, <1>4
<1> QED BY <1>5

LEMMA UpTo ==
    ASSUME NEW N \in Nat, NEW T, 0 \in T, \A n \in 0 .. N - 1 : n \in T => n + 1 \in T
    PROVE  0 .. N \subseteq T
<1> DEFINE missing == 0 .. N \ T
<1> SUFFICES ASSUME missing # {} PROVE FALSE OBVIOUS
<1>1. missing \in SUBSET Nat OBVIOUS
<1>2. PICK n \in missing : \A m \in missing : n <= m
  <2> HIDE DEF missing
  <2> QED BY <1>1, LeastNatural
<1>3. n \in 0 .. N /\ n # 0 /\ n \notin T OBVIOUS
<1>4. n - 1 \in 0 .. N - 1 /\ n - 1 \in 0 .. N BY <1>3
<1>5. n - 1 \in T BY <1>2, <1>4
<1>6. (n - 1) + 1 = n BY <1>3
<1> QED BY <1>3, <1>4, <1>5, <1>6

-----------------------------------------------------------------------------
(* Sums of what left *)

IsTotal(f, n, s) == s = [i \in 0 .. n |-> IF i = 0 THEN 0 ELSE s[i - 1] + f[i - 1]]

LEMMA TotalExists ==
    ASSUME NEW N \in Nat, NEW f PROVE \E s : IsTotal(f, N, s)
<1> DEFINE T == {n \in 0 .. N : \E s : IsTotal(f, n, s)}
<1>1. 0 \in T
  <2> DEFINE s == [i \in 0 .. 0 |-> 0]
  <2>1. \A i \in 0 .. 0 : i = 0 OBVIOUS
  <2>2. s = [i \in 0 .. 0 |-> IF i = 0 THEN 0 ELSE s[i - 1] + f[i - 1]] BY <2>1, Zenon
  <2>3. IsTotal(f, 0, s) BY <2>2, Zenon DEF IsTotal
  <2> QED BY <2>3
<1>2. ASSUME NEW n \in 0 .. N - 1, n \in T PROVE n + 1 \in T
  <2>1. PICK s : IsTotal(f, n, s) BY <1>2
  <2> DEFINE more == [i \in 0 .. n + 1 |-> IF i = n + 1 THEN s[n] + f[n] ELSE s[i]]
  <2>2. \A i \in 0 .. n : s[i] = IF i = 0 THEN 0 ELSE s[i - 1] + f[i - 1] BY <2>1 DEF IsTotal
  <2>3. \A i \in 0 .. n : more[i] = s[i] OBVIOUS
  <2>4. more[n + 1] = s[n] + f[n] OBVIOUS
  <2>5. more = [i \in 0 .. n + 1 |-> more[i]] OBVIOUS
  <2> HIDE DEF more
  <2>6. \A i \in 0 .. n : i # 0 => i - 1 \in 0 .. n OBVIOUS
  <2>7. \A i \in 0 .. n : more[i] = IF i = 0 THEN 0 ELSE more[i - 1] + f[i - 1]
    BY <2>2, <2>3, <2>6
  <2>8. more[n + 1] = IF n + 1 = 0 THEN 0 ELSE more[n + 1 - 1] + f[n + 1 - 1]
    <3>1. n + 1 - 1 = n /\ n + 1 # 0 /\ n \in 0 .. n OBVIOUS
    <3> QED BY <2>3, <2>4, <3>1
  <2>9. \A i \in 0 .. n + 1 : i \in 0 .. n \/ i = n + 1 OBVIOUS
  <2>10. ASSUME NEW i \in 0 .. n + 1
         PROVE  more[i] = IF i = 0 THEN 0 ELSE more[i - 1] + f[i - 1]
    <3>1. CASE i = n + 1 BY <2>8, <3>1
    <3>2. CASE i \in 0 .. n BY <2>7, <3>2
    <3> QED BY <2>9, <3>1, <3>2
  <2>11. IsTotal(f, n + 1, more) BY <2>5, <2>10, Zenon DEF IsTotal
  <2> QED BY <2>11
<1> HIDE DEF T
<1>3. 0 .. N \subseteq T BY <1>1, <1>2, UpTo
<1>4. N \in T BY <1>3
<1> QED BY <1>4 DEF T

\* s sums f.
Sums(f, s) ==
    /\ s[0] = 0
    /\ \A n \in 0 .. Interval - 1 : s[n + 1] = s[n] + f[n]
    /\ \A n \in 0 .. Interval : s[n] \in Nat

LEMMA TotalSums ==
    ASSUME NEW f \in [0 .. Interval - 1 -> Nat], NEW s, IsTotal(f, Interval, s)
    PROVE  Sums(f, s)
<1>0. Interval \in Nat \ {0} BY ProberAssumption
<1>1. \A i \in 0 .. Interval : s[i] = IF i = 0 THEN 0 ELSE s[i - 1] + f[i - 1] BY DEF IsTotal
<1>2. s[0] = 0 BY <1>0, <1>1
<1>3. ASSUME NEW n \in 0 .. Interval - 1 PROVE s[n + 1] = s[n] + f[n]
  <2>1. n + 1 \in 0 .. Interval /\ n + 1 # 0 /\ n + 1 - 1 = n BY <1>0
  <2> QED BY <1>1, <2>1
<1> DEFINE T == {n \in 0 .. Interval : s[n] \in Nat}
<1>4. 0 \in T BY <1>0, <1>2
<1>5. ASSUME NEW n \in 0 .. Interval - 1, n \in T PROVE n + 1 \in T
  <2>1. s[n + 1] = s[n] + f[n] /\ f[n] \in Nat /\ n + 1 \in 0 .. Interval BY <1>0, <1>3
  <2> QED BY <1>5, <2>1
<1>6. \A n \in 0 .. Interval : n \in T
  <2> HIDE DEF T
  <2> QED BY <1>0, <1>4, <1>5, UpTo
<1> QED BY <1>2, <1>3, <1>6 DEF Sums

LEMMA LeftSums ==
    /\ recent \in [0 .. Interval - 1 -> Nat] => Sums(recent, LeftWithin)
    /\ recent' \in [0 .. Interval - 1 -> Nat] => Sums(recent', LeftWithin')
<1>0. Interval \in Nat BY ProberAssumption
<1>1. \E s : IsTotal(recent, Interval, s) BY <1>0, TotalExists
<1>2. IsTotal(recent, Interval, LeftWithin) BY <1>1, Zenon DEF LeftWithin, IsTotal
<1>3. \E s : IsTotal(recent', Interval, s) BY <1>0, TotalExists
<1>4. IsTotal(recent', Interval, LeftWithin') BY <1>3, Zenon DEF LeftWithin, IsTotal
<1> QED BY <1>2, <1>4, TotalSums

\* Where nothing left in the last k ticks.
LEMMA NoneLeft ==
    ASSUME NEW f, NEW s, Sums(f, s), NEW k \in 0 .. Interval,
           \A i \in 0 .. Interval - 1 : i < k => f[i] = 0
    PROVE  \A n \in 0 .. k : s[n] = 0
<1>0. Interval \in Nat BY ProberAssumption
<1> DEFINE T == {n \in 0 .. k : s[n] = 0}
<1>1. 0 \in T BY <1>0 DEF Sums
<1>2. ASSUME NEW n \in 0 .. k - 1, n \in T PROVE n + 1 \in T
  <2>1. n \in 0 .. Interval - 1 /\ n < k /\ n + 1 \in 0 .. k BY <1>0
  <2>2. s[n + 1] = s[n] + f[n] /\ f[n] = 0 BY <2>1 DEF Sums
  <2> QED BY <1>2, <2>1, <2>2
<1>3. k \in Nat BY <1>0
<1> HIDE DEF T
<1>4. 0 .. k \subseteq T BY <1>1, <1>2, <1>3, UpTo
<1> QED BY <1>4 DEF T

\* One more left now.
LEMMA OneLeft ==
    ASSUME NEW f, NEW s, Sums(f, s), NEW g, NEW t, Sums(g, t),
           \A i \in 0 .. Interval - 1 : f[i] \in Nat,
           g[0] = f[0] + 1, \A i \in 1 .. Interval - 1 : g[i] = f[i]
    PROVE  \A n \in 1 .. Interval : t[n] = s[n] + 1
<1>0. Interval \in Nat \ {0} BY ProberAssumption
<1> DEFINE T == {n \in 0 .. Interval : n # 0 => t[n] = s[n] + 1}
<1>1. 0 \in T BY <1>0
<1>2. ASSUME NEW n \in 0 .. Interval - 1, n \in T PROVE n + 1 \in T
  <2>1. /\ t[n + 1] = t[n] + g[n] /\ s[n + 1] = s[n] + f[n]
        /\ n + 1 \in 0 .. Interval /\ n \in 0 .. Interval
        /\ s[n] \in Nat /\ t[n] \in Nat /\ s[n + 1] \in Nat /\ t[n + 1] \in Nat
    BY <1>0 DEF Sums
  <2>2. CASE n = 0
    <3>1. t[0] = 0 /\ s[0] = 0 BY DEF Sums
    <3> QED BY <2>1, <2>2, <3>1
  <2>3. CASE n # 0
    <3>1. n \in 1 .. Interval - 1 BY <1>0, <2>3
    <3>2. t[n + 1] = (s[n] + 1) + f[n] BY <1>2, <2>1, <2>3, <3>1
    <3>3. f[n] \in Nat OBVIOUS
    <3> QED BY <2>1, <3>2, <3>3
  <2> QED BY <2>2, <2>3
<1>3. \A n \in 0 .. Interval : n \in T
  <2> HIDE DEF T
  <2> QED BY <1>0, <1>1, <1>2, UpTo
<1> QED BY <1>0, <1>3

\* A tick passes.
LEMMA TickLeft ==
    ASSUME NEW f, NEW s, Sums(f, s), NEW g, NEW t, Sums(g, t),
           g[0] = 0, \A i \in 1 .. Interval - 1 : g[i] = f[i - 1]
    PROVE  \A n \in 0 .. Interval - 1 : t[n + 1] = s[n]
<1>0. Interval \in Nat \ {0} BY ProberAssumption
<1> DEFINE T == {n \in 0 .. Interval - 1 : t[n + 1] = s[n]}
<1>1. 0 \in T
  <2>1. t[0 + 1] = t[0] + g[0] /\ t[0] = 0 /\ s[0] = 0 BY <1>0 DEF Sums
  <2>2. 0 + 1 = 1 /\ 0 + 0 = 0 OBVIOUS
  <2> QED BY <1>0, <2>1, <2>2
<1>2. ASSUME NEW n \in 0 .. Interval - 2, n \in T PROVE n + 1 \in T
  <2>1. n + 1 \in 0 .. Interval - 1 /\ n \in 0 .. Interval - 1 /\ n + 1 \in 1 .. Interval - 1
    BY <1>0
  <2>2. t[(n + 1) + 1] = t[n + 1] + g[n + 1] /\ s[n + 1] = s[n] + f[n] BY <2>1 DEF Sums
  <2>3. g[n + 1] = f[n]
    <3>1. (n + 1) - 1 = n OBVIOUS
    <3> QED BY <2>1, <3>1
  <2> QED BY <1>2, <2>1, <2>2, <2>3
<1>3. \A n \in 0 .. Interval - 1 : n \in T
  <2>1. Interval - 1 \in Nat /\ (Interval - 1) - 1 = Interval - 2 BY <1>0
  <2> HIDE DEF T
  <2> QED BY <1>1, <1>2, <2>1, UpTo
<1> QED BY <1>3

-----------------------------------------------------------------------------
(* The rate *)

\* The coroutines that leave within w ticks.
Sleepers(w) == {r \in Req : pc[r] = "sleeping" /\ wait[r] <= w}

\* Nothing left since the last request did.
Quiet == \A i \in 0 .. Interval - 1 : i < since => recent[i] = 0

\* What leaves in w ticks and what left less than an interval before it hold a permit each.
Slots == \A w \in 0 .. Interval : LeftWithin[Interval - w] + Cardinality(Sleepers(w)) <= Concurrency

RateInv == Counting /\ Quiet /\ Slots

\* What a step of one coroutine does to the clock.
Dozes(r) ==
    /\ pc[r] = "throttling" /\ pc'[r] = "sleeping" /\ since < Interval
    /\ wait' = [wait EXCEPT ![r] = Interval - since]
    /\ UNCHANGED <<since, recent>>
Departs(r) ==
    /\ \/ pc[r] = "throttling" /\ ~(since < Interval)
       \/ pc[r] = "sleeping" /\ wait[r] = 0
    /\ pc'[r] = "sending"
    /\ since' = 0 /\ recent' = [recent EXCEPT ![0] = @ + 1]
    /\ UNCHANGED wait
KeepsTime(r) ==
    /\ pc'[r] # "sleeping"
    /\ UNCHANGED <<wait, since, recent>>

LEMMA ClockKinds ==
    ASSUME TypeOK, NEW r \in Req, Step(r)
    PROVE  Dozes(r) \/ Departs(r) \/ KeepsTime(r)
<1> USE DEF At, guard, clock
<1>0. /\ "checking" \in Place /\ "resolving" \in Place /\ "throttling" \in Place
      /\ "sleeping" \in Place /\ "sending" \in Place
  BY DEF Place
<1>1. CASE Acquire(r) BY <1>0, <1>1, GoTypes DEF Acquire, KeepsTime
<1>2. CASE Refuse(r) \/ TransportFails(r)
  <2>1. Return(r, TRUE) /\ UNCHANGED <<wait, since, recent>> BY <1>2 DEF Refuse, TransportFails
  <2> QED BY <2>1, ReturnTypes DEF KeepsTime, Outside
<1>3. CASE Pass(r) \/ AwaitResolver(r)
  <2>1. /\ Go(r, "throttling") \/ Go(r, "resolving")
        /\ UNCHANGED <<wait, since, recent>>
    BY <1>3 DEF Pass, AwaitResolver
  <2> QED BY <1>0, <2>1, GoTypes DEF KeepsTime
<1>4. ASSUME NEW answer \in Answer, Resolved(r, answer) PROVE KeepsTime(r)
  <2>1. /\ Return(r, TRUE) \/ Go(r, "throttling")
        /\ UNCHANGED <<wait, since, recent>>
    BY <1>4 DEF Resolved
  <2> QED BY <1>0, <2>1, ReturnTypes, GoTypes DEF KeepsTime, Outside
<1>5. CASE Throttle(r)
  <2>1. CASE since < Interval
    BY <1>0, <1>5, <2>1, GoTypes DEF Throttle, Dozes
  <2>2. CASE ~(since < Interval)
    BY <1>0, <1>5, <2>2, GoTypes DEF Throttle, Leave, Departs
  <2> QED BY <2>1, <2>2
<1>6. CASE Wake(r) BY <1>0, <1>6, GoTypes DEF Wake, Leave, Departs
<1>7. ASSUME NEW again \in BOOLEAN, Respond(r, again) PROVE KeepsTime(r)
  <2>1. Return(r, again) /\ UNCHANGED <<wait, since, recent>> BY <1>7 DEF Respond
  <2> QED BY <2>1, ReturnTypes DEF KeepsTime, Outside
<1>8. ASSUME NEW to \in Url, Redirect(r, to) PROVE KeepsTime(r)
  BY <1>8 DEF Redirect, KeepsTime, TypeOK
<1> QED BY <1>1, <1>2, <1>3, <1>4, <1>5, <1>6, <1>7, <1>8 DEF Step

LEMMA SleepersFit ==
    /\ \A w : Sleepers(w) \subseteq Inside
    /\ \A w : IsFiniteSet(Sleepers(w)) /\ Cardinality(Sleepers(w)) \in Nat
    /\ \A w : Cardinality(Sleepers(w)) <= Cardinality(Inside)
    /\ Cardinality(Inside) \in Nat
<1>1. ASSUME NEW w PROVE Sleepers(w) \subseteq Inside BY DEF Sleepers, Inside
<1>2. IsFiniteSet(Inside) BY FiniteSets
<1> QED BY <1>1, <1>2, FS_Subset, FS_CardinalityType

LEMMA QuietStep ==
    ASSUME TypeOK, Quiet, NEW r \in Req, Step(r) PROVE Quiet'
<1>1. since' = 0 \/ UNCHANGED <<since, recent>>
  BY ClockKinds DEF Dozes, Departs, KeepsTime
<1> QED BY <1>1 DEF Quiet

\* Room for one more: while r is in a permit and does not sleep, the sleepers leave one.
LEMMA RoomForOne ==
    ASSUME Counting, NEW r \in Req, pc[r] = "throttling", NEW w
    PROVE  Cardinality(Sleepers(w)) + 1 <= Concurrency
<1>1. Sleepers(w) \subseteq Inside \ {r} BY SleepersFit DEF Sleepers
<1>2. r \in Inside BY DEF Inside
<1>3. IsFiniteSet(Inside) /\ Cardinality(Inside) \in Nat BY FiniteSets, SleepersFit
<1>4. IsFiniteSet(Inside \ {r}) /\ Cardinality(Inside \ {r}) = Cardinality(Inside) - 1
  BY <1>2, <1>3, FS_RemoveElement
<1>5. Cardinality(Sleepers(w)) <= Cardinality(Inside \ {r}) BY <1>1, <1>4, FS_Subset
<1>6. Cardinality(Sleepers(w)) \in Nat BY SleepersFit
<1>7. Cardinality(Inside) <= Concurrency /\ Concurrency \in Nat
  BY ProberAssumption DEF Counting, Permits
<1> QED BY <1>3, <1>4, <1>5, <1>6, <1>7

LEMMA SlotsStep ==
    ASSUME RateInv, NEW r \in Req, Step(r) PROVE Slots'
<1>0. /\ Interval \in Nat \ {0} /\ Concurrency \in Nat
      /\ Counting /\ TypeOK /\ OnlyMoves(r) /\ TypeOK'
  BY ProberAssumption, StepKinds DEF RateInv, Counting
<1>1. Sums(recent, LeftWithin) /\ Sums(recent', LeftWithin')
  BY <1>0, LeftSums DEF TypeOK
<1> SUFFICES ASSUME NEW w \in 0 .. Interval
             PROVE  LeftWithin'[Interval - w] + Cardinality(Sleepers(w)') <= Concurrency
  BY DEF Slots
<1>2. /\ Interval - w \in 0 .. Interval
      /\ LeftWithin[Interval - w] \in Nat /\ LeftWithin'[Interval - w] \in Nat
  BY <1>0, <1>1 DEF Sums
<1>3. Cardinality(Sleepers(w)) \in Nat /\ IsFiniteSet(Sleepers(w)) BY SleepersFit
<1>4. LeftWithin[Interval - w] + Cardinality(Sleepers(w)) <= Concurrency BY DEF RateInv, Slots
<1>5. ASSUME UNCHANGED recent PROVE LeftWithin' = LeftWithin BY <1>5 DEF LeftWithin
<1>6. CASE KeepsTime(r)
  <2>1. Sleepers(w)' \subseteq Sleepers(w) BY <1>0, <1>6 DEF KeepsTime, OnlyMoves, Sleepers
  <2>2. Cardinality(Sleepers(w)') <= Cardinality(Sleepers(w)) /\ Cardinality(Sleepers(w)') \in Nat
    BY <1>3, <2>1, FS_Subset, FS_CardinalityType
  <2>3. LeftWithin'[Interval - w] = LeftWithin[Interval - w] BY <1>5, <1>6 DEF KeepsTime
  <2> QED BY <1>0, <1>2, <1>3, <1>4, <2>2, <2>3
<1>7. CASE Dozes(r)
  <2>1. wait'[r] = Interval - since /\ \A q \in Req : q # r => wait'[q] = wait[q]
    BY <1>0, <1>7 DEF Dozes, TypeOK
  <2>2. Sleepers(w)' \ {r} = Sleepers(w) \ {r} BY <1>0, <2>1 DEF OnlyMoves, Sleepers
  <2>3. r \notin Sleepers(w) BY <1>7 DEF Dozes, Sleepers
  <2>4. LeftWithin' = LeftWithin BY <1>5, <1>7 DEF Dozes
  <2>5. CASE r \notin Sleepers(w)'
    <3>1. Sleepers(w)' = Sleepers(w) BY <2>2, <2>3, <2>5
    <3> QED BY <1>4, <2>4, <3>1
  <2>6. CASE r \in Sleepers(w)'
    <3>1. Cardinality(Sleepers(w)') = Cardinality(Sleepers(w)) + 1
      BY <1>3, <2>2, <2>3, <2>6, MoveOne
    <3>2. Cardinality(Sleepers(w)) + 1 <= Concurrency
      BY <1>0, <1>7, RoomForOne DEF Dozes
    <3>3. since \in 0 .. Interval /\ Interval - w \in 0 .. since
      BY <1>0, <2>1, <2>6 DEF Sleepers, TypeOK
    <3>4. LeftWithin[Interval - w] = 0
      BY <1>1, <3>3, NoneLeft DEF RateInv, Quiet
    <3>5. LeftWithin'[Interval - w] = 0 BY <2>4, <3>4
    <3> QED BY <1>0, <1>3, <3>1, <3>2, <3>5
  <2> QED BY <2>5, <2>6
<1>8. CASE Departs(r)
  <2>1. Sleepers(w)' = Sleepers(w) \ {r} BY <1>0, <1>8 DEF Departs, OnlyMoves, Sleepers
  <2>2. recent'[0] = recent[0] + 1 /\ \A i \in 1 .. Interval - 1 : recent'[i] = recent[i]
    BY <1>0, <1>8 DEF Departs, TypeOK
  <2>3. \A i \in 0 .. Interval - 1 : recent[i] \in Nat BY <1>0 DEF TypeOK
  <2>4. \A n \in 1 .. Interval : LeftWithin'[n] = LeftWithin[n] + 1
    BY <1>1, <2>2, <2>3, OneLeft
  <2>5. CASE w = Interval
    <3>1. LeftWithin'[Interval - w] = 0
      <4>1. Interval - w = 0 BY <1>0, <2>5
      <4> QED BY <1>1, <4>1 DEF Sums
    <3>2. Cardinality(Sleepers(w)') <= Cardinality(Sleepers(w)) /\ Cardinality(Sleepers(w)') \in Nat
      BY <1>3, <2>1, FS_Subset, FS_CardinalityType
    <3> QED BY <1>0, <1>2, <1>3, <1>4, <3>1, <3>2
  <2>6. CASE w # Interval
    <3>1. LeftWithin'[Interval - w] = LeftWithin[Interval - w] + 1
      <4>1. Interval - w \in 1 .. Interval BY <1>0, <2>6
      <4> QED BY <2>4, <4>1
    <3>2. CASE pc[r] = "sleeping" /\ wait[r] = 0
      <4>1. r \in Sleepers(w) BY <1>0, <3>2 DEF Sleepers
      <4>2. Cardinality(Sleepers(w)') = Cardinality(Sleepers(w)) - 1
        BY <1>3, <2>1, <4>1, FS_RemoveElement
      <4> QED BY <1>0, <1>2, <1>3, <1>4, <3>1, <4>2
    <3>3. CASE pc[r] = "throttling" /\ ~(since < Interval)
      <4>1. since = Interval BY <1>0, <3>3 DEF TypeOK
      <4>2. LeftWithin[Interval - w] = 0
        <5>1. Interval \in 0 .. Interval /\ Interval - w \in 0 .. Interval BY <1>0
        <5>2. \A i \in 0 .. Interval - 1 : i < Interval => recent[i] = 0
          BY <4>1 DEF RateInv, Quiet
        <5> QED BY <1>1, <5>1, <5>2, NoneLeft
      <4>3. r \notin Sleepers(w) /\ Sleepers(w)' = Sleepers(w) BY <2>1, <3>3 DEF Sleepers
      <4>4. Cardinality(Sleepers(w)) + 1 <= Concurrency BY <1>0, <3>3, RoomForOne
      <4> QED BY <1>0, <1>2, <1>3, <3>1, <4>2, <4>3, <4>4
    <3> QED BY <1>8, <3>2, <3>3 DEF Departs
  <2> QED BY <2>5, <2>6
<1> QED BY <1>0, <1>6, <1>7, <1>8, ClockKinds

LEMMA TickRate ==
    ASSUME RateInv, Tick PROVE Quiet' /\ Slots'
<1>0. /\ Interval \in Nat \ {0} /\ Concurrency \in Nat
      /\ Counting /\ TypeOK /\ TypeOK' /\ UNCHANGED pc
  BY ProberAssumption, OthersTypes DEF RateInv, Counting
<1>1. Sums(recent, LeftWithin) /\ Sums(recent', LeftWithin')
  BY <1>0, LeftSums DEF TypeOK
<1>2. recent'[0] = 0 /\ \A i \in 1 .. Interval - 1 : recent'[i] = recent[i - 1]
  BY <1>0 DEF Tick
<1>3. \A r \in Req : wait'[r] = IF wait[r] > 0 THEN wait[r] - 1 ELSE 0 BY DEF Tick
<1>4. Quiet'
  <2> SUFFICES ASSUME NEW i \in 0 .. Interval - 1, i < since' PROVE recent'[i] = 0
    BY DEF Quiet
  <2>1. since \in 0 .. Interval /\ since' = IF since < Interval THEN since + 1 ELSE since
    BY <1>0 DEF Tick, TypeOK
  <2>2. CASE i # 0
    <3>1. i - 1 \in 0 .. Interval - 1 /\ i - 1 < since /\ i \in 1 .. Interval - 1
      BY <1>0, <2>1, <2>2
    <3> QED BY <1>2, <3>1 DEF RateInv, Quiet
  <2> QED BY <1>2, <2>2
<1>5. Slots'
  <2> SUFFICES ASSUME NEW w \in 0 .. Interval
               PROVE  LeftWithin'[Interval - w] + Cardinality(Sleepers(w)') <= Concurrency
    BY DEF Slots
  <2>1. CASE w = Interval
    <3>1. LeftWithin'[Interval - w] = 0
      <4>1. Interval - w = 0 BY <1>0, <2>1
      <4> QED BY <1>1, <4>1 DEF Sums
    <3>2. Sleepers(w)' \subseteq Inside BY <1>0 DEF Sleepers, Inside
    <3>3. /\ IsFiniteSet(Inside) /\ Cardinality(Inside) \in Nat
          /\ Cardinality(Inside) <= Concurrency
      BY FiniteSets, SleepersFit DEF RateInv, Counting, Permits
    <3>4. Cardinality(Sleepers(w)') <= Cardinality(Inside) /\ Cardinality(Sleepers(w)') \in Nat
      BY <3>2, <3>3, FS_Subset, FS_CardinalityType
    <3> QED BY <1>0, <3>1, <3>3, <3>4
  <2>2. CASE w # Interval
    <3>1. w + 1 \in 0 .. Interval /\ Interval - (w + 1) \in 0 .. Interval - 1
          /\ (Interval - (w + 1)) + 1 = Interval - w
      BY <1>0, <2>2
    <3>2. LeftWithin'[Interval - w] = LeftWithin[Interval - (w + 1)]
      <4>1. \A n \in 0 .. Interval - 1 : LeftWithin'[n + 1] = LeftWithin[n]
        BY <1>1, <1>2, TickLeft
      <4> QED BY <3>1, <4>1
    <3>3. Sleepers(w)' = Sleepers(w + 1)
      <4>1. ASSUME NEW r \in Req PROVE wait'[r] <= w <=> wait[r] <= w + 1
        <5> DEFINE before == wait[r]
                   after == wait'[r]
        <5>1. before \in 0 .. Interval BY <1>0 DEF TypeOK
        <5>2. after = IF before > 0 THEN before - 1 ELSE 0 BY <1>3
        <5>3. w \in Nat /\ Interval \in Nat BY <1>0
        <5> HIDE DEF before, after
        <5>4. after <= w <=> before <= w + 1 BY <5>1, <5>2, <5>3
        <5> QED BY <5>4 DEF before, after
      <4> QED BY <1>0, <4>1 DEF Sleepers
    <3> QED BY <3>1, <3>2, <3>3 DEF RateInv, Slots
  <2> QED BY <2>1, <2>2
<1> QED BY <1>4, <1>5

LEMMA RateInit == Init => RateInv
<1> SUFFICES ASSUME Init PROVE RateInv OBVIOUS
<1>0. Interval \in Nat \ {0} /\ Concurrency \in Nat BY ProberAssumption
<1>1. Counting BY CountingInit
<1>2. \A i \in 0 .. Interval - 1 : recent[i] = 0 BY DEF Init
<1>3. Slots
  <2> SUFFICES ASSUME NEW w \in 0 .. Interval
               PROVE  LeftWithin[Interval - w] + Cardinality(Sleepers(w)) <= Concurrency
    BY DEF Slots
  <2>1. Sleepers(w) = {} BY DEF Init, Sleepers
  <2>2. Cardinality(Sleepers(w)) = 0 BY <2>1, FS_EmptySet
  <2>3. Sums(recent, LeftWithin) BY <1>1, LeftSums DEF Counting, TypeOK
  <2>4. Interval \in 0 .. Interval /\ Interval - w \in 0 .. Interval BY <1>0
  <2>5. LeftWithin[Interval - w] = 0 BY <1>2, <2>3, <2>4, NoneLeft
  <2> QED BY <1>0, <2>2, <2>5
<1> QED BY <1>1, <1>2, <1>3 DEF RateInv, Quiet

LEMMA RateStep == RateInv /\ [Next]_vars /\ Counting' => RateInv'
<1> SUFFICES ASSUME RateInv, [Next]_vars, Counting' PROVE RateInv' OBVIOUS
<1>1. CASE \E r \in Req : Step(r)
  BY <1>1, QuietStep, SlotsStep DEF RateInv, Counting
<1>2. CASE Tick BY <1>2, TickRate DEF RateInv
<1>3. CASE Deadline \/ UNCHANGED vars
  <2>1. UNCHANGED <<pc, wait, since, recent>> BY <1>3 DEF Deadline, coroutine, clock, vars
  <2>2. UNCHANGED LeftWithin /\ \A w : Sleepers(w)' = Sleepers(w) BY <2>1 DEF LeftWithin, Sleepers
  <2> QED BY <2>1, <2>2 DEF RateInv, Quiet, Slots
<1> QED BY <1>1, <1>2, <1>3 DEF Next

\* In the time of one interval no more requests leave than there are permits, though every
\* coroutine computes its wait from a time of the last request that others overwrite while
\* it sleeps (ScopeGuard.throttle).
THEOREM RateHolds == Spec => []RateBound
<1>1. RateInv => RateBound
  <2> SUFFICES ASSUME RateInv PROVE RateBound OBVIOUS
  <2>0. Interval \in Nat \ {0} /\ Concurrency \in Nat BY ProberAssumption
  <2>1. LeftWithin[Interval - 0] + Cardinality(Sleepers(0)) <= Concurrency
    BY <2>0 DEF RateInv, Slots
  <2>2. Sums(recent, LeftWithin) BY LeftSums DEF RateInv, Counting, TypeOK
  <2>3. LeftWithin[Interval] \in Nat /\ Interval - 0 = Interval BY <2>0, <2>2 DEF Sums
  <2>4. Cardinality(Sleepers(0)) \in Nat BY SleepersFit
  <2> QED BY <2>0, <2>1, <2>3, <2>4 DEF RateBound
<1> QED BY <1>1, RateInit, RateStep, CountingAlways, PTL DEF Spec

=============================================================================
