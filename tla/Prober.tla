------------------------------ MODULE Prober -------------------------------
(***************************************************************************)
(* The one way a scan sends requests: Prober.request and probe_many          *)
(* (aegisx_agent/cyber/prober.py) under a shared ScopeGuard                  *)
(* (aegisx_agent/cyber/scope.py).                                            *)
(*                                                                           *)
(* A request is a coroutine.  It takes a permit of the semaphore, and for    *)
(* each hop is checked by the guard, resolves the host, waits its turn, is   *)
(* sent and is counted.  The guard's counters are read before the awaits and *)
(* written after them, by up to max_concurrency coroutines at once.  A URL   *)
(* is a model value; what the policy says of its method, scheme, host, port, *)
(* path and literal address is the set InScope.  The steps are finer than    *)
(* the suspension points of the code, which only adds interleavings.         *)
(*                                                                           *)
(* Time is discrete: Interval ticks are 1 / requests_per_second, and only    *)
(* ages up to Interval are told apart.                                       *)
(***************************************************************************)
EXTENDS Naturals, FiniteSets

CONSTANTS
    Req,             \* the requests of the scan
    Url, Host,
    First,           \* [Req -> Url]: the URL each request asks for
    Fallback,        \* the requests made by head_or_get
    HostOf,          \* [Url -> Host]: the host check counts, no trailing dot
    KeyOf,           \* [Url -> Host]: the host record_request counts, as spelled
    InScope,         \* the URLs the policy authorises
    AllowPrivate,    \* allow_private_addresses
    Unresolved,      \* no entry in _resolved
    Concurrency, MaxRequests, MaxPerHost, MaxRedirects,
    Interval         \* ticks between two requests at the limit

ASSUME ProberAssumption ==
    /\ IsFiniteSet(Req)
    /\ First \in [Req -> Url] /\ Fallback \subseteq Req
    /\ HostOf \in [Url -> Host] /\ KeyOf \in [Url -> Host]
    /\ InScope \subseteq Url /\ AllowPrivate \in BOOLEAN
    /\ {Concurrency, MaxRequests, MaxPerHost, Interval} \subseteq Nat \ {0}
    /\ MaxRedirects \in Nat

\* What a name resolves to: only public addresses, a non-public one among them,
\* or none, the resolver having failed.
Answer == {"public", "private", "none"}
ASSUME UnresolvedAssumption == Unresolved \notin Answer

VARIABLES
    pc,         \* [Req -> where the coroutine is]
    method,     \* [Req -> the verb it sends]
    url,        \* [Req -> current_url]
    hop,        \* [Req -> hop]
    wait,       \* [Req -> ticks left to sleep in throttle]
    made,       \* _requests_made
    perHost,    \* _per_host
    resolved,   \* _resolved
    expired,    \* timeout_seconds have elapsed
    since,      \* ticks since _last_request_at, up to Interval
    recent      \* history: [ticks ago -> requests that left throttle then]

coroutine == <<pc, method, url, hop>>
guard == <<made, perHost, resolved, expired>>
clock == <<wait, since, recent>>
vars == <<pc, method, url, hop, wait, made, perHost, resolved, expired, since, recent>>

Place == {"queued", "checking", "resolving", "throttling", "sleeping", "sending", "done"}

TypeOK ==
    /\ pc \in [Req -> Place]
    /\ method \in [Req -> {"HEAD", "GET"}]
    /\ url \in [Req -> Url]
    /\ hop \in [Req -> 0 .. MaxRedirects]
    /\ wait \in [Req -> 0 .. Interval]
    /\ made \in Nat
    /\ perHost \in [Host -> Nat]
    /\ resolved \in [Host -> Answer \cup {Unresolved}]
    /\ expired \in BOOLEAN
    /\ since \in 0 .. Interval
    /\ recent \in [0 .. Interval - 1 -> Nat]

\* The coroutines that hold a permit, and those of them past the check.
Inside == {r \in Req : pc[r] \notin {"queued", "done"}}
Passed == {r \in Req : pc[r] \in {"resolving", "throttling", "sleeping", "sending"}}

-----------------------------------------------------------------------------
(* ScopeGuard *)

Init ==
    /\ pc = [r \in Req |-> "queued"]
    /\ method = [r \in Req |-> IF r \in Fallback THEN "HEAD" ELSE "GET"]
    /\ url = First
    /\ hop = [r \in Req |-> 0]
    /\ wait = [r \in Req |-> 0]
    /\ made = 0
    /\ perHost = [h \in Host |-> 0]
    /\ resolved = [h \in Host |-> Unresolved]
    /\ expired = FALSE
    /\ since = Interval
    /\ recent = [i \in 0 .. Interval - 1 |-> 0]

\* Mutant: one request more than the budget.
AllowedOneMore(u) ==
    u \in InScope /\ ~expired /\ made <= MaxRequests /\ perHost[HostOf[u]] < MaxPerHost
\* The checks of check, in whatever order: any of them refuses.
Allowed(u) ==
    /\ u \in InScope
    /\ ~expired
    /\ made < MaxRequests
    /\ perHost[HostOf[u]] < MaxPerHost

Blocked(answer) == answer = "private"

RecordRequest(u) ==
    /\ made' = made + 1
    /\ perHost' = [perHost EXCEPT ![KeyOf[u]] = @ + 1]

-----------------------------------------------------------------------------
(* Prober.request *)

At(r, place) == pc[r] = place

Go(r, place) ==
    /\ pc' = [pc EXCEPT ![r] = place]
    /\ UNCHANGED <<method, url, hop>>

Acquire(r) ==
    /\ At(r, "queued") /\ Cardinality(Inside) < Concurrency
    /\ Go(r, "checking")
    /\ UNCHANGED <<guard, clock>>

\* A mutant of Return: the fallback repeats the verb that failed.
ReturnSameVerb(r, again) ==
    IF r \in Fallback /\ method[r] = "HEAD" /\ again
    THEN /\ pc' = [pc EXCEPT ![r] = "queued"]
         /\ url' = [url EXCEPT ![r] = First[r]]
         /\ hop' = [hop EXCEPT ![r] = 0]
         /\ UNCHANGED method
    ELSE Go(r, "done")

\* The request returns and its permit is free.  head_or_get asks again with GET
\* after an error, a refusal by the guard included, or a status that says so.
Return(r, again) ==
    IF r \in Fallback /\ method[r] = "HEAD" /\ again
    THEN /\ pc' = [pc EXCEPT ![r] = "queued"]
         /\ method' = [method EXCEPT ![r] = "GET"]
         /\ url' = [url EXCEPT ![r] = First[r]]
         /\ hop' = [hop EXCEPT ![r] = 0]
    ELSE Go(r, "done")

Refuse(r) ==
    /\ At(r, "checking")
    /\ \/ ~Allowed(url[r])
       \/ ~AllowPrivate /\ Blocked(resolved[HostOf[url[r]]])
    /\ Return(r, TRUE)
    /\ UNCHANGED <<guard, clock>>

\* Private addresses allowed, or the name resolved before in this scan.
Pass(r) ==
    /\ At(r, "checking")
    /\ Allowed(url[r])
    /\ \/ AllowPrivate
       \/ resolved[HostOf[url[r]]] \in Answer /\ ~Blocked(resolved[HostOf[url[r]]])
    /\ Go(r, "throttling")
    /\ UNCHANGED <<guard, clock>>

AwaitResolver(r) ==
    /\ At(r, "checking")
    /\ Allowed(url[r])
    /\ ~AllowPrivate /\ resolved[HostOf[url[r]]] = Unresolved
    /\ Go(r, "resolving")
    /\ UNCHANGED <<guard, clock>>

\* Several coroutines may resolve one name: each goes by its own answer, and the
\* last answer stays.
Resolved(r, answer) ==
    /\ At(r, "resolving")
    /\ resolved' = [resolved EXCEPT ![HostOf[url[r]]] = answer]
    /\ IF Blocked(answer) THEN Return(r, TRUE) ELSE Go(r, "throttling")
    /\ UNCHANGED <<made, perHost, expired, clock>>

\* A mutant of Leave: the time of the request is not kept.
LeaveUnmarked(r) ==
    /\ Go(r, "sending")
    /\ recent' = [recent EXCEPT ![0] = @ + 1]
    /\ UNCHANGED since

Leave(r) ==
    /\ Go(r, "sending")
    /\ since' = 0
    /\ recent' = [recent EXCEPT ![0] = @ + 1]

\* The wait is computed from what _last_request_at is now, and slept through.
Throttle(r) ==
    /\ At(r, "throttling")
    /\ IF since < Interval
       THEN /\ Go(r, "sleeping")
            /\ wait' = [wait EXCEPT ![r] = Interval - since]
            /\ UNCHANGED <<since, recent>>
       ELSE Leave(r) /\ UNCHANGED wait
    /\ UNCHANGED guard

Wake(r) ==
    /\ At(r, "sleeping") /\ wait[r] = 0
    /\ Leave(r)
    /\ UNCHANGED <<wait, guard>>

\* A response to be returned; again tells a status of head_or_get's fallback or
\* the error "too many redirects".
Respond(r, again) ==
    /\ At(r, "sending")
    /\ RecordRequest(url[r])
    /\ Return(r, again)
    /\ UNCHANGED <<resolved, expired, clock>>

\* Mutant: a hop is not checked.
RedirectUnchecked(r, to) ==
    /\ At(r, "sending") /\ hop[r] < MaxRedirects
    /\ RecordRequest(url[r])
    /\ pc' = [pc EXCEPT ![r] = "throttling"]
    /\ url' = [url EXCEPT ![r] = to]
    /\ hop' = [hop EXCEPT ![r] = @ + 1]
    /\ UNCHANGED <<method, resolved, expired, clock>>

\* A redirect that is followed: the next hop starts with the check.
Redirect(r, to) ==
    /\ At(r, "sending") /\ hop[r] < MaxRedirects
    /\ RecordRequest(url[r])
    /\ pc' = [pc EXCEPT ![r] = "checking"]
    /\ url' = [url EXCEPT ![r] = to]
    /\ hop' = [hop EXCEPT ![r] = @ + 1]
    /\ UNCHANGED <<method, resolved, expired, clock>>

\* httpx raises: the request was sent, and is not counted.
TransportFails(r) ==
    /\ At(r, "sending")
    /\ Return(r, TRUE)
    /\ UNCHANGED <<guard, clock>>

Deadline ==
    /\ ~expired /\ expired' = TRUE
    /\ UNCHANGED <<coroutine, made, perHost, resolved, clock>>

Tick ==
    /\ \/ since < Interval
       \/ \E r \in Req : wait[r] > 0
    /\ since' = IF since < Interval THEN since + 1 ELSE since
    /\ wait' = [r \in Req |-> IF wait[r] > 0 THEN wait[r] - 1 ELSE 0]
    /\ recent' = [i \in 0 .. Interval - 1 |-> IF i = 0 THEN 0 ELSE recent[i - 1]]
    /\ UNCHANGED <<coroutine, guard>>

Step(r) ==
    \/ Acquire(r) \/ Refuse(r) \/ Pass(r) \/ AwaitResolver(r) \/ Throttle(r) \/ Wake(r)
    \/ TransportFails(r)
    \/ \E answer \in Answer : Resolved(r, answer)
    \/ \E again \in BOOLEAN : Respond(r, again)
    \/ \E to \in Url : Redirect(r, to)

Next == Deadline \/ Tick \/ \E r \in Req : Step(r)

Spec == Init /\ [][Next]_vars

\* The event loop runs what is ready; the resolver answers and httpx answers or
\* times out; time passes.
FairSpec == Spec /\ WF_vars(Tick) /\ \A r \in Req : WF_vars(Step(r))

-----------------------------------------------------------------------------
(* What is promised *)

\* The scan-wide budget, as strict as the code makes it: the coroutines past the
\* check when the last request of the budget is counted are sent as well.
WithinBudget == made <= MaxRequests + Concurrency - 1

\* The same for a host whose URLs are all spelled the way the check reads them.
Spelled == {h \in Host : \A u \in Url : HostOf[u] = h <=> KeyOf[u] = h}
WithinHostBudget == \A h \in Spelled : perHost[h] <= MaxPerHost + Concurrency - 1

\* Both budgets hold, up to the permits.
WithinBudgets == WithinBudget /\ WithinHostBudget

\* Whatever a server redirects to, what is about to be sent is authorised, and
\* when its name was resolved no address of it was blocked.
Cleared == {"throttling", "sleeping", "sending"}
NeverOutside ==
    [][\A r \in Req : pc'[r] \in Cleared =>
         /\ url'[r] \in InScope
         /\ \/ AllowPrivate
            \/ pc[r] \in Cleared
            \/ resolved'[HostOf[url'[r]]] \in Answer \ {"private"}]_vars

\* In the time of one interval no more requests leave than there are permits.
LeftWithin[i \in 0 .. Interval] == IF i = 0 THEN 0 ELSE LeftWithin[i - 1] + recent[i - 1]
RateBound == LeftWithin[Interval] <= Concurrency

\* Every request returns, whatever is refused, redirected, lost or out of budget.
EveryRequestReturns == \A r \in Req : <>(pc[r] = "done")

=============================================================================
