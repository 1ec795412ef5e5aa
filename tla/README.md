# A formal model of AegisX Agent

TLA+ modules that model the concurrent and stateful core of AegisX Agent (`aegisx_agent/`), the TLC
configurations that check them on small instances, and TLAPS proofs of the results that matter for
every value of the constants. Every definition is translated from the source; `PROJECT.json` maps
each one to the lines it stands for, gives each checked property a mutant of the code that breaks
it, and lists the hazards that decided what is modelled.

Paths below are relative to `aegisx_agent/` unless they start with `docs/`.

1. [The system](#1-the-system): inventory of its parts, and what makes each correct
2. [The modules](#2-the-modules): which models what, and how state and actions correspond to the
   code
3. [The runs](#3-the-runs): what each checks, its bounds, its fairness
4. [The proofs](#4-the-proofs): what is proved, from what, and along which argument
5. [What the code does not keep](#5-what-the-code-does-not-keep): disagreements with its
   documentation
6. [What is not modelled](#6-what-is-not-modelled), and [the plan](#7-plan)

To check a module and its proofs:

    tlc -workers 2 -config Scheduler.cfg MCScheduler.tla
    tlapm SchedulerProofs.tla

## 1. The system

AegisX Agent is a command-line LLM agent written in Python with asyncio. An `AegisXAgent` owns a
tool-calling loop, a permission gate, a tool registry that plugins and MCP servers extend, a
conversation memory, a session database, a scheduler of autonomous tasks with a daemon, and commands
for authorised security assessments. Several processes (a REPL, one-shot commands, a daemon) share
the files under the user's data directory.

| Part | State | Operations | Hard behaviour | What makes it correct |
|---|---|---|---|---|
| Scheduler (`scheduler/engine.py`, `task.py`) | task objects, `_active_runs`, the table `scheduled_tasks` | add, remove, toggle, cancel, resume, run now, poll, run, recover | runs of one task overlap; cancellation meets a result; crash during a run; processes share the table | nothing is lost by a crash, handles name live runs, parked tasks stay parked, due tasks run |
| Daemon (`scheduler/daemon.py`) | mode, stop event | capped cycle, sleep, stop, Ctrl-C | stop or Ctrl-C inside a run | ends after a stop, between cycles |
| Cron (`scheduler/cron.py`) | candidate minute | `next_fire` | month ends, leap days, day-field rule, impossible dates | first matching minute, and it ends |
| Agent loop (`core/loop.py`) | iteration, batch of calls, denied calls, tokens | completions, parallel calls, recovery, reflection, final answer | concurrent calls, budgets, refusals, cancellation at any await | nothing forbidden runs, the turn ends, budgets stop it |
| Permission gate (`security/permissions.py`) | mode, allow and deny lists, scoped rules | evaluate, check, allow, deny, scope | the answer to one prompt changes the rule for calls already proposed | the deny list wins; unattended runs presume no approval |
| Tool registry, plugins (`tools/registry.py`, `plugins/`) | tools by name, definitions and version by plugin id | register, load, unload, execute | a registration that fails half-way; two registries that must agree | a tool that can be called is listed under its plugin and version |
| MCP (`mcp/`) | live clients, bridged tools, one host task and server process per session | connect, disconnect, call, close | calls queue up on one session, are cancelled, the server dies, close gives up | a connected server is served by its own client, calls return, disconnecting removes the tools, a lost call has a reason |
| Conversation (`memory/store.py`, `memory/advanced.py`, `core/agent.py`, `cli/interactive.py`) | bounded message list, `conversation.json`, session rows | ask, answer, roll back, store, clear, undo, resume, load | failed and cancelled turns, crash between two saves, shared file | no question dangles, memory and rows tell one story, restart restores |
| Scope guard and prober (`cyber/scope.py`, `cyber/prober.py`) | counters, resolved names, last request time | check, resolve, throttle, send, redirect, fall back | counters read before and written after awaits, by several coroutines | only authorised requests are sent; budgets are exceeded by less than the concurrency |
| Scanner, recon and checks (`cyber/scanner.py`, `recon.py`, `checks/`) | queue of the crawl, surface, one position per check | crawl, robots, sitemaps, 25 checks | checks run concurrently; each compares responses taken one after the other, of which any may be lost or refused; sitemaps name each other | the crawl is complete within its depth; a weakness is found, and none is inferred from a target that heeds nothing |
| Finding store (`cyber/store.py`, `models.py`) | findings by fingerprint, log, snapshots | add, extend, remove, save, baseline | merging is repeated and reordered | merging loses no severity, confirmation or evidence |
| Assessment agent and swarm (`cyber/agent.py`, `swarm.py`) | lines of a wave, waves, dismissals | plan, map, attack, corroborate, escalate, review, conclude | lines run concurrently; the model fails, answers prose, plans anything | two lines confirm, one does not; a reviewer dismisses a bounded share; nothing recorded is lost |
| Dependency audit and static analysis (`cyber/cve.py`, `sast.py`) | one pass over a tree | read manifests, compare versions, match rules | versions of any length, ten manifest formats | exactly the versions in the range are reported |
| LLM providers (`llm/`) | one request with its attempts | chat, stream, retry | a stream that fails after it began; a retry after a partial answer | one answer is assembled from one attempt |
| Usage telemetry (`observability/usage.py`) | JSONL records, the label of each task | record, record delegation, break down | labels of concurrent and nested delegations | each response is billed to the run that got it |
| Subagents (`tools/subagent.py`) | frames of nested runs | resolve tools, run a child loop, time out | delegations side by side and nested, timeouts | tools narrow, nesting is bounded, the whole ends |
| Skills (`skills/`) | skills by name, a file each | create, capture, import, update, use, delete, restart | names that share a file | a restart finds what the files can hold of the library |
| Retrieval (`rag/`) | chunks and their vectors | index, chunk, search | chunk boundaries | chunking ends and covers the text, for the overlaps for which it can |
| Planner, personas, project context, reports, built-in tools, command line, installer | little or none | text in, text out | - | - |

How they interact. The command line builds one `AegisXAgent` per process. `chat` records the
question in the conversation, awaits `AgenticLoop.run`, records the answer, then appends two rows to
the session store. The loop awaits the provider, and calls tools through `ToolRegistry.execute`,
which is where the gate is consulted; plugins and MCP tools are entries of that registry. A
scheduler runs a task by building a *second* agent (and with it a second scheduler on the same
database) and awaiting its `chat` under a timeout; the handle in `_active_runs` lets a cancellation
reach that run. The daemon drives the scheduler's due tasks. MCP sessions live on a thread of their
own and are reached through a queue of requests. Everything a scan sends goes through one prober and
one scope guard. The loop delegates through `spawn_subagent`, which runs another loop on the same
provider with fewer tools; every response of a provider is written to the usage log under the label
of the asyncio task it arrives in. The assessment commands (`scan`, `swarm`, `agent`, `audit`,
`sast`) each fill one store of findings and print one report; the agent runs swarms, and a swarm
runs the scanner's checks.

## 2. The modules

| Module | Extends | Models | Proofs |
|---|---|---|---|
| `Scheduler` | | the scheduler and the coroutines that run tasks, in several processes | `SchedulerProofs` |
| `Daemon` | `Scheduler` | the daemon's loop around it, stop requests and Ctrl-C | |
| `Cron` | | field parsing and the walk of `next_fire` | `CronProofs` |
| `AgentLoop` | | a turn of the loop with the gate and `ToolRegistry.execute` | `AgentLoopProofs` |
| `Conversation` | | memory, file, session rows and the shell's commands, in several processes | `ConversationProofs` |
| `Prober` | | requests of a scan under the scope guard | `ProberProofs` |
| `Plugins` | | plugin registry and tool registry | |
| `Mcp` | `Plugins` | MCP manager, clients, host tasks, servers | `McpProofs` (with `Plugins`) |
| `Findings` | | fingerprints, severities, merging: the store of findings | |
| `Ledger` | `Findings` | abstract: what an assessment promises of its findings | |
| `Checks` | | the 25 checks, each as what it asks and what it concludes from the answers | |
| `Target` | `Checks` | how pages with given traits answer, and the places each check visits | |
| `Scanner` | `Target`, `Findings` | crawl, robots, sitemaps, the concurrent checks of a suite | |
| `CyberAgent` | `Findings` | plans, waves of lines, corroboration, review, conclusion | |
| `Audit` | `Findings` | manifests, versions and ranges; files and rules of static analysis | |
| `Cyber` | | the five assessment commands, over `Scanner`, `CyberAgent`, `Audit` and `Ledger` | `CyberProofs` |
| `Completion` | | a completion of each provider, with its retries and its stream | |
| `Subagent` | | nested and concurrent delegations and the usage log | |
| `Skills` | | the skill library and its directory | |
| `Retrieval` | | chunking, ids and the vector store | |
| `Services` | | the four together | `ServicesProofs` |

`MC<Module>` instantiates each for TLC. A definition whose comment starts with "Mutant" is the form
a plausible bug would give the definition after it; the model never uses it.

**Steps.** asyncio runs the code between two awaits without interruption, so such a piece of code is
one action; an action ends where the code awaits something that may suspend it. Where a finer step
was simpler to read (the prober) it only adds interleavings. Threads matter in `Mcp` only, where the
queue between the two event loops is the interface. A crash is an action of its own wherever files
outlive the process.

### Scheduler

| Variable | Code |
|---|---|
| `row`, `used` | table `scheduled_tasks`; ids handed out |
| `up`, `known`, `mem`, `active` | process runs; keys of `_tasks`; the `ScheduledTask` objects; `_active_runs` |
| `batch`, `pc`, `job`, `signal`, `outcome` | a coroutine that calls `run_task`: the rest of its due list, where it awaits, the task, whether its run was cancelled, how the inner task ended |

A record keeps the fields the engine reads: status, enabled, cancellation flag, checkpoint, whether
it ever ran, retries, the failure fingerprint and its streak. `next` is none, later or now, which is
all that `get_due_tasks` distinguishes; `Tick` makes a later run due. An object outlives its removal
from `_tasks` as long as a run holds it. `RunTask`, `BuildAgent`, `ChatEnds` and `RunReturns` are
the pieces of `run_task` between its awaits; `BuildAgent` rewrites RUNNING rows, because the
factory's agent loads the same database. A poll takes a list once and awaits its tasks in turn
(`Yielded` says that between two tasks of the list the loop does not let go of the event loop).
`_load_tasks` and its write-back are one step.

### Daemon

`mode` is the position in `run_forever`, `stop` its event. `Capped` takes the first `catch_up_limit`
due tasks in dictionary order (`Rank`). `CtrlC` is `asyncio.run` cancelling the coroutine, which
`cli/commands/daemon.py` relies on since it does not install the daemon's signal handlers.

### Cron

`expr`, `after`, `cand`, `horizon`, `pc`: one iteration of the loop of `next_fire` is one action.
The calendar is a parameter (`Month`, `Dom`, `Dow`, `NextMonthStart`), so that a short one can be
enumerated and every one is covered by the proof. A field is a set of parts (`*`, `a`, `a-b`, each
with a step). `Exact` compares the result with `CronMatches`, which says what an expression names
without going through the expansion of fields.

### AgentLoop

`phase` is what the turn awaits, `iteration`, `batch`, `slot`, `alt` and `result` are the calls of
the response and how far each is, `deniedCalls`, `refusals` and `tokens` the loop's accounting, and
`mode`, `allowed`, `denied`, `scoped` the policy. A tool call is a model value with its tool, its
risk and the set of calls its approval pattern covers; which pattern covers which text is thereby a
parameter. The prompter blocks the event loop (it calls `input`), so `Decide` is one step. `quiet`
is a history variable: iterations since a tool last ran. `Config.usage` is what the provider may
report as `total_tokens` of a response, 0 when it reports none.

### Conversation

`memory[p]` is a process's list of messages and its summary, `file` is `conversation.json` (or
`Torn`), `rows` the table of sessions, `work[p]` the turn or `/undo` a process is in the middle of.
A message is the turn it belongs to and its role. `Save` is each operation's write of the whole
file; `Crash` may leave it torn. Two history variables: `writer`, whose memory the file should
restore, and `parted`, the processes whose messages and rows may legitimately differ, with the
reason where it is set (an answer that could not be stored, `chat_with_trace`, which stores no rows,
a cancelled chat, a shared session).

### Prober

`pc` follows a request through the permit, the check, the resolver, the throttle and the wire;
`made`, `perHost`, `resolved`, `expired`, `since` are the guard's fields, `recent` a history of the
requests that left. Time is discrete and `Interval` ticks are `1 / requests_per_second`. Which URLs
the policy authorises is the constant `InScope`; that the check and the counter spell a host
differently (a trailing dot) are the constants `HostOf` and `KeyOf`.

### Plugins and Mcp

`tools`, `listed`, `lock` are the tool registry's entries, the plugin registry's definitions and
their common version. `Register` is a sequence of registrations that may stop at the first
definition that does not validate. In `Mcp`, `live`, `brought`, `dial`, `made`, `heard` are the
manager and the connection under way; `current` is each client's host; `state`, `queue`, `serving`,
`alive`, `closing`, `cut` are the host task, its queue of requests, the request at the server, the
server process, whether `close` waits, and whether a request was cancelled while the server had it.
Ids are pairs of constants because the code has two: `Managed` is `mcp_<id>`, `Bridged` is
`mcp_<sanitised id>`. Nothing is assumed of either: sanitising makes lower case and collapses
characters, so that servers may share a plugin id. A qualified tool name is a pair here; the code
joins its parts.

### Findings and Ledger

A store is a function from fingerprints to the severity, confidence and evidence kept under each;
`Merge` is `FindingStore.add` on a known one, `Extend` adds the findings of a component at once.
`Ledger` is what the reader of a report is promised, with no word of how: recorded findings grow (no
loss, no lower severity, no confirmation taken back) and the report is all of them, once.
`Cyber!Implements` is the refinement: `recorded` is the store, `published` the report, and every
command is shown to do nothing but `Record`, `Publish` and stutter.

### Checks, Target and Scanner

A check is a function from the responses it has so far to its next request, or to what it reports:
`Step` is that function, one operator per check, which reads as the `run` method does and has its
comparisons (`Differs`, `Classify`, `AuditJwt`), its early exits and its exceptions. A response is a
status and a set of tokens of its text; two of a page that writes a nonce differ in that token. The
target is a parameter: a page is a kind (what its URL has: a query, a redirect parameter, an upload
of XML) and a set of traits (what it does with input), and `Reply` says how it answers a request.
`Places` are the endpoints a check visits, in order and cut as the code cuts them; the timing probe
of `command-injection` has a limit of its own (`TimingLimit`). `MaxRequests` is the lesser of
`max_requests` and `max_requests_per_host`, since a scan asks one host: the crawler keeps to that of
the base URL (`recon.py:296`). `Scanner` has the crawl one page per action (`queue`, `seen`,
`endpoints`), robots and sitemaps, and then each check's `number` and `history`; any check may take
the next step, so that responses of different checks interleave. A request is answered, lost, or
refused by the budget. What a check of a line of the swarm does is the same module, with the crawl
in another place (`whole`).

### CyberAgent

`step` is the command's position, `lines` and `state` the running wave, `mapped` whether its mapper
found endpoints, `waves` the record of the earlier ones, `dismissed` the reviewer's dismissals. A
line reports some of what its capabilities can (`Candidates`), because the checks are `Scanner`'s
subject. The language model is the environment: it fails, answers something else, or answers with
any of `PlanAnswers` and any verdicts.

### Audit

`AuditDependencies` and `Analyze` are one step each: nothing interleaves. A declaration is a
manifest, a package, an operator and a version (a sequence of numbers); `Read` says which operators
each reader understands, `Satisfies` compares versions as tuples. A source file is its lines, each
with the marks of rules that stand on it, and whether the value is a placeholder, repeated or
genuine.

### Completion, Subagent, Skills, Retrieval

In `Completion` a piece of text or of a tool call's arguments is *the number of the attempt that
sent it*: all that its properties tell apart is which attempt an answer came from. `Piece` is a
delta, `Envelope` an error object inside a stream, `StreamEnds` decides between a retry and the end.
The Anthropic and Ollama providers send once and treat deltas their own way.

In `Subagent` a frame is one run of the loop: its parent, tools, spawner (depth, and the frame whose
registry it resolves in), the asyncio task it runs in and the label it found. `label` is the context
variable `_active_delegation` per task: a call of the turn is a task of its own (`gather`), a call
of a child runs in the child's. `rows` and `returned` count what the log bills to a frame and what
it got.

In `Skills`, `library` is indexed by name and `files` by the stem and suffix, as memory and disk
are. A skill keeps what the round trip through markdown tells apart: what its texts say on the lines
that the form has for them (`steps`), whether they say more (`more`), the third number of its
version and whether there is one (`version`, `form`), its uses, whether the last use is known
(`seen`), and whether it has tool calls. `Markdown` is `to_markdown` followed by `from_markdown`:
`more`, `seen` and `calls` are lost. `robbed` and `halfway` are history: skills whose file another
took, and skills whose update stopped between memory and disk.

In `Retrieval` a text is a sequence of characters, of which all that matters is which are blank and
which end a sentence; a chunk is the part between two positions. The size and the overlap are those
of the engine that ingests, any pair of numbers, as `core/config.py:108-109` has no bounds. `Chunk`
is one iteration of `_chunk_text`, with Python's slices (`Place`: an overlap that is large enough
takes `start` below zero, from where a slice counts from the end), `Add` the one call of the vector
store (ChromaDB, modelled as used: an id that exists is not replaced), and `collection` its contents
by id. `ingested` is history: how often a path was ingested.

## 3. The runs

| Run | Instance | Shows |
|---|---|---|
| `scheduler` | one process, a polling loop and a run-now call, one task whose schedule does not parse, one retry | every change is on disk at once, handles are live, no status RUNNING is left behind, records never contradict themselves, a cancelled task never completes, a parked task that no coroutine holds stays parked (`WriteThrough`, `HandlesLive`, `RunningBacked`, `RecordsConsistent`, `CancelNeverCompletes`, `ResumesExplicitly`) |
| `daemon` | the daemon alone, one run a cycle, a recurring task before a one-shot task, no retries | a due task that is not for ever behind a full cap of due tasks is served, the daemon ends after a stop (`DueServed`, `StopHonoured`) |
| `cron` | a calendar of two months, four weekdays, a leap day every second year; 1260 expressions, 36 start times | first match, agreement with the syntax, termination (`FirstMatch`, `Exact`, `Terminates`) |
| `agent_loop` | four calls of two tools, three iterations, batches of two, four settings of the loop, every mode; responses of no, one or two tokens against a budget of two | only permitted calls run, a refused turn ran nothing, the budget stops, the turn ends (`OnlyPermittedRun`, `RefusedTurnRanNothing`, `BudgetStops`, `TurnEnds`) |
| `conversation` | two processes, two agents, three turns, three messages, a summary of one | `NothingDangles`, `TranscriptsAgree`, `RestartRestores`, `RestoredClean` |
| `prober` | three requests, two permits, budget two, one per host, one redirect, a host spelled two ways | `WithinBudgets`, `RateBound`, `NeverOutside`, `EveryRequestReturns` |
| `mcp` | three servers side by side (an id that needs sanitising and has a plugin id of its own, two that are sanitised to one), a Python plugin, two connections, two callers, two sessions | `ToolsConsistent`, `DisconnectRemoves`, `LossExplained`, `CallsReturn` |
| `cyber` | some forty sites of three to eight pages, each check alone on a weak and on a heedless target, some on one weak in two places, suites side by side, two lost requests, a budget of 17; three lines, three waves, four plans, two verdicts; one declaration of each manifest, package, operator and version, and one package in two manifests; trees of up to six files | the crawl is complete; weaknesses are found, and none inferred from a heedless target; two lines confirm and the review dismisses a bounded share; source trees are judged by what they hold; every command records and reports as `Ledger` says, and ends (`CrawlComplete`, `ScanFinds`, `NothingInferred`, `JudgementsBounded`, `SourcesJudged`, `Implements`, `CommandEnds`) |
| `services` | two completions of each provider, three pieces, two tool calls; a turn with three delegations, two at once, depth two; four operations on a library of two names that share a file; two documents of two or six characters, ingested and ingested again after an edit, with four pairs of size and overlap | `AnswerAssembled`, `Attributed`, `NestingNarrows`, `RestartForgetsNothing`, `EverythingFound`, `ServicesEnd` |
| `scheduler_removed` | one task removed while it runs | violates `RemovedStaysRemoved` |
| `daemon_interrupt` | Ctrl-C while the daemon runs a task | violates `InterruptStops` |
| `agent_loop_denied` | as `agent_loop` | violates `DenialRemembered` |

Each takes at most about three minutes. The type invariants `TypeOK` are theorems (section 4), and
no run repeats them.

**Bounds, and why they are enough.** Bounds on data are the constants whose comment starts with
"bound"; they cut executions, never actions.

- Scheduler: overlap of two runs of one task and the failure streak need one task and two runners,
  and `WriteThrough` speaks of one process. Retries saturate at one because only zero and non-zero
  are distinguished. The misconfigured schedule is the one kind whose next run differs between
  creation and settlement.
- Daemon: with two tasks and a cap of one, a poll that finds both due cuts one off. The one that is
  on a schedule comes first, so that it is due again after it ran and may be in the way of the other
  for ever; whenever it is not (a user pauses it, removes it, or the clock does not make it due in
  time), the other has to be served. Without retries the first failure parks a task.
- Parked tasks: `ResumesExplicitly` is about a process that has the database to itself, and the run
  has both kinds of runner in it. That the task is at rest (`AtRest`: no coroutine runs it or has it
  in a list) is the condition under which the code keeps it; section 5 says what happens without it.
- Cron: the short calendar has every boundary of the real one (end of hour, of day, of a month, a
  day that only a leap year has, one that no month has, a Sunday with two numbers), and the
  expressions every form of field, alone and combined, with invalid ones.
- Agent loop: three iterations are one more than the two refusals that stop a turn and reach
  reflection twice; batches of two are the smallest that run concurrently; the four calls have every
  combination that the gate and the registry tell apart. A budget of two tokens is spent by one
  response of two, which may be a punt, or by two of one. One turn suffices because all that
  survives a turn is the policy, and the run starts in every mode and issues policy commands first.
- Conversation: three messages are the smallest limit at which a trim cuts an exchange in two; three
  turns reach it in one process and leave one for the other; two agents are a restart or a second
  process.
- Prober: with two permits and a budget of two the second request of a pair passes the check before
  the first is counted; a third finds the budget used up. One redirect shows that a hop is checked.
- MCP: two connections are a reconnection or a second server beside the first; which may come beside
  which is `Beside`: `foo` first, `Mixed` alone or beside it, and `Foo` beside it, since nothing but
  the registries relates servers. Two callers wait behind each other on one session; two sessions
  are a respawn after one was lost; a queue of two holds both callers, or one of them behind a
  request that was cancelled.
- Cyber: the targets put each weakness behind a page without it, so that a check has to go on past a
  clean page; three endpoints per check are one more than a check that stops at the first needs. The
  timing probe has a limit of two of them, as in the code, and one site has its slow page behind it.
  Some sites show a check that one finding satisfies its weakness on two pages, and one has no page
  of the kind that `xxe` looks for. Two lost requests let a comparison lose its baseline, its probe,
  or both. The maze has two ways to most pages, a page that is within depth on the shorter only, and
  one behind a missing page. A sitemap names itself, or one sitemap three times. A budget of 17 is
  spent inside the checks of most sites. Three lines have two of one name and two that report the
  same finding; three waves are two escalations. Each advisory has versions below, at and above its
  bounds, with one and two digits. Two manifests declare one version of a package, of which one is
  of another ecosystem or one cannot be read. `CrawlComplete` and `ScanFinds` speak of scans with no
  lost request and budget left, since a request that is not answered shows nothing;
  `NothingInferred` and `Implements` speak of all.
- Services: three attempts of a stream are its own limit, five of a chat too; three pieces give text
  and two arguments of one tool call over attempts; a second completion meets what the first learnt
  about `tool_choice`. Four frames are two delegations side by side, one of them with a child, or a
  chain one deeper than the depth limit of two. Four changes create two skills of one stem, delete
  one, and restart. Documents of six characters take several chunks, with every placement of up to
  two breaks. The four settings are the largest overlap with which cutting gets on wherever
  sentences end (2 of 5), one less (1 of 5; with it a start that takes no account of a cut passes
  over text), the least with which it may not get on (2 of 3), and one larger than the chunk, which
  takes `start` below zero (3 of 2).

**Fairness.** Never on users, crashes, cancellations, server deaths or interrupts.

- Daemon: the event loop runs every ready coroutine, `wait_for` bounds a run by the task's timeout,
  the daemon polls again after its sleep. Restarts and the clock are not obliged to do anything:
  `DueServed` and `StopHonoured` end when the process dies.
- Cron: a sequential function runs on.
- Agent loop: providers and tools return; their clients have timeouts.
- Prober: the resolver answers, httpx answers or times out, time passes. Fairness is per request:
  the semaphore is first-in first-out.
- MCP: owner threads run, the SDK leaves the contexts it is told to leave, and a server *answers or
  dies*. The last is an assumption about servers: calls have no timeout of their own in
  `mcp/client.py`.
- Cyber and services: `WF_vars(Next)`: some coroutine that can go on does. Requests to targets and
  to models have timeouts and tools return, so that no command waits for ever; and a server of
  completions ends its streams (`MaxPieces`), since the timeout of a stream is per read. Which
  coroutine goes on is not fair: the commands end under any schedule.

Runs disable TLC's deadlock check because each instance stops when its bounds are used up or its
work is done.

## 4. The proofs

TLAPS checks these for every value of the constants that satisfies the named assumptions: any number
of processes, tasks, calls, requests, delegations, names or documents, and any bounds.

| Theorem | Statement |
|---|---|
| `SchedulerProofs!TypeCorrect`, `HandlesAreLive`, `RecordsAreConsistent`, `RunsAreBacked` | `Spec => []TypeOK`, `[]HandlesLive`, `[]RecordsConsistent`, `[]RunningBacked` |
| `SchedulerProofs!CancelledStaysIncomplete` | `Spec => CancelNeverCompletes` |
| `SchedulerProofs!OneProcessDurable`, `ParkedStaysParked` | with one process, whatever loops and run-now calls it has, `Spec => []WriteThrough` and `Spec => ResumesExplicitly` |
| `CronProofs!FirstMatchAlways`, `NextFireIsExact` | `Spec => []FirstMatch`, `[]Exact`, for every calendar whose months are intervals of days |
| `AgentLoopProofs!TypeCorrect`, `RefusedRanNothing`, `PermittedRun`, `BudgetHolds` | `[]TypeOK`, `[]RefusedTurnRanNothing`, `OnlyPermittedRun`, `[]BudgetStops` |
| `ConversationProofs!TypeCorrect`, `RestartFindsMessages`, `RestoredIsClean`, `NoQuestionDangles`, `OneStory` | `[]TypeOK`, `[]RestartRestores`, `RestoredClean`, `[]NothingDangles`, `[]TranscriptsAgree` |
| `McpProofs!TypeCorrect`, `RegistriesAgree`, `DisconnectsClean`, `LossHasCause` | `[]TypeOK`, `[]ToolsConsistent`, `DisconnectRemoves`, `LossExplained` |
| `ProberProofs!TypeCorrect`, `BudgetsHold`, `OnlyAuthorised`, `RateHolds` | `[]TypeOK`, `[]WithinBudgets` (from `BudgetHolds` and `HostBudgetHolds`), `NeverOutside`, `[]RateBound`, for any finite set of requests |
| `CyberProofs!AssessmentsAreLedgers` | `Implements`: every step of every command is a step of `Ledger` or a stutter |
| `CyberProofs!JudgementsAreBounded` | `Spec => []JudgementsBounded` |
| `CyberProofs!CrawlIsComplete` | `Spec => []CrawlComplete`, for every site |
| `CyberProofs!NothingIsInferred` | `Spec => []NothingInferred`, for every site and any loss of responses |
| `CyberProofs!WeaknessesAreFound` | `Spec => []ScanFinds`, for every site and suite |
| `CyberProofs!SourcesAreJudged` | `Spec => []SourcesJudged`, from `AuditIsExact` (versions of any length, projects of any declarations) and `SastIsComplete` (trees of any files) |
| `ServicesProofs!AnswersAreAssembled`, `UsageIsAttributed`, `DelegationsNarrow`, `SkillsSurvive`, `DocumentsAreFound` | `[]AnswerAssembled`, `[]Attributed`, `[]NestingNarrows`, `[]RestartForgetsNothing`, `[]EverythingFound` |

The arguments:

- **Scheduler.** `HandlesLive` alone is not inductive: settling a run needs that the task object is
  still there and that the process of the runner is up. `ObjectsHeld` says which objects a known
  task, a list and a run hold, and `Inv` is its conjunction with the types and the handles. A step
  that stores one record preserves `Inv` (`SaveKeepsInv`), so that most actions only have to show
  that the record is well typed. `RecordsConsistent` is inductive over `Inv`: each helper that makes
  a record (`NewTask`, `Recovered`, `Completed`, `Cancelled`, `Failed`) makes a consistent one, and
  `ObjectsHeld` gives the record that a settled run starts from. `WriteThrough` is inductive over
  `Inv` when there is one process, since nobody else writes. `RunningBacked` adds that a process
  that is down holds nothing (`DownForgets`), without which a restart could find a run under way.
  `ResumesExplicitly` follows from `WriteThrough`, by which memory agrees that a parked row is
  parked (`RestIsKnown`), so that no poll lists it and nobody but a run-now call or a resumption
  takes it up; a task that is at rest is held by no coroutine, so that what a run saves is another
  task's record. `Handed` says that every copy of a task belongs to an id that was handed out, so
  that adding a task does not replace a parked row.
- **Cron.** The invariant of `FirstMatch` says that no minute strictly between the argument and the
  candidate matches. Each jump needs that the minutes it passes share the component that did not
  match: the month for `SkipMonth` (this is where months have to be intervals), the day for
  `SkipDay`, the hour for `SkipHour` (no allowed hour lies between, since the least later one is
  taken). `Exact` follows, because a field that is expanded by division and one that is read by
  multiples name the same values (`ExpansionNames`), both Sundays included.
- **Agent loop.** `RefusedTurnRanNothing` needs to relate `quiet`, `refusals` and the results of the
  batch at every point of an iteration: while all results so far are refusals, nothing has run in
  it. `OnlyPermittedRun` follows from the same invariant: outside an iteration there are no calls,
  and the two steps that start one ask the gate in that very step, so that the policy that decides
  is the policy in force. `BudgetStops` follows from where tokens are counted: only the response
  that may start an iteration adds to them, and when it reaches the budget it either ends the turn
  or is a first answer that is asked again (`retry`), and the answer to that ends it.
- **Conversation.** What a process remembers is a sequence that is trimmed at the front, collapsed
  in the middle and dropped at the end, while the rows it is compared with are the places of one
  session among those of all. The lemmas number the places of a subsequence (`Ranks`, `Determined`),
  so that a subsequence is known by which places it keeps, and say what appending a row, trimming a
  session and dropping the last rows do to the story of a session (`StoryShape`, `StoryAppended`,
  `StoryKept`). The invariant is four-fold. `Typed` adds to the types where the messages of a turn
  stand (`Placed`). `WrittenInv` says that the file has what its writer remembers. `Proper` says
  that no two questions follow each other and that, outside a turn, an agent that has not parted has
  an answer last. For `TranscriptsAgree`, `Agreed` says, phase by phase, how the messages and the
  rows differ in the middle of a turn or an `/undo`, and that the rows of a session are whole
  exchanges; and `Alone` that two running agents in one session have both parted, without which the
  rows of one could change under the other.
- **Prober.** Between the check and the count there are several awaits. The invariant bounds `made`
  plus the number of requests past the check: while the budget lasts, by the budget plus the permits
  that are taken; afterwards the sum only falls, because nobody passes the check any more. The same
  for each host whose URLs are counted under the name that is checked. For the rate, `Slots` says
  for every number of ticks that the coroutines that wake up within them, together with the requests
  that left less than an interval before, are no more than the permits; one that is about to sleep
  computes its wait from the last request, so that it wakes when that one has left the window. The
  sum over the window is a recursive function, and the proof of what it is goes by the least window
  for which it fails.
- **Mcp.** A connected server is served only if no other connection replaces its tools, and its
  disconnection removes them only if the manager's list, or the plugin registry's, has them all. The
  invariant adds where tools come from: while a server is dialled the newest client owns no tool
  (`NewestIsClean`) and no live server has it (`Dialling`, `LiveIsOlder`), so that the client of a
  connected server owns what its connection brought (`OwnIsBrought`). Where the plugin id is the
  server's alone (`Alone`), nobody else registers or unregisters under it but `/plugin unload`.
  Nothing is assumed of ids, so that the other claims hold for servers that share one.
  `LossHasCause` needs in addition that a session which left its serving state has a reason
  (`Explained`).
- **Cyber.** The ledger's record is the store of findings, so that each step is shown to leave it,
  to extend it or to print it. `ExtendGrows` says that merging upholds every finding it meets, in
  any order; corroboration raises confidence only. In a scan the reporting step takes exactly the
  findings of checks that have ended (`ScanInv`); in a swarm or the agent the findings of a wave are
  those of its lines (`AgentInv`). The refinement assumes of the constants that the value `none` is
  no store (`NoneIsNoStore`), which separates "not reported yet" from an empty report.
  `JudgementsBounded` needs that each closed wave keeps what its lines reported (`Judged`) and that
  dismissals are counted in one review (`Bounded`).
- **The crawl.** `CrawlComplete` is about every graph of links, and says of a queue and a set of
  seen pages what is a distance in that graph. `Search` is the invariant of breadth-first search:
  the queue is in the order of depths, of which it holds two at most, next to each other; and while
  its first entry is at depth `k` (`Frontier`), all pages within `k` links are seen, each of them
  has its links seen or is still queued, and everything else that was seen is queued for `k + 1`.
  `Visit` says that one page visited keeps it, when the depth changes too; `FollowFinds` is what the
  loop over the links of a page adds, whatever repeats in it. When the queue is empty the seen pages
  are closed under links up to the depth limit (`NearClosed`), and they are what is listed. A page
  that does not answer has no links; only the base URL would be missing from the list for it.
- **Inference.** `NothingInferred` follows every response from the target to the report. What a
  heedless page answers to any of the requests the ten checks send (`Sent`) is `Dull`: status 200,
  the usual page, nothing of the payload but what is escaped; and so is a lost or refused response,
  status 0 aside (`ReplyIsDull`, `FailedIsDull`). The invariant (`HeedInv`) is that the history of
  such a check is of dull responses and that it has found nothing; a history of dull responses, in
  any order and with failures anywhere, makes no check report (`HeedlessQuiet`, a lemma per check).
  It also says that findings carry the name of their check, that only what recon saw is in the store
  before the checks end, and that a check stands at a page of the site (`VisitsAreNumbered`).
- **Weaknesses.** `ScanFinds` is the converse, of the responses that a page with a trait gives.
  While nothing is lost or refused, what a check sends a place is a list of requests that the place
  alone determines (`Script`), and its history there is one of answers to them, in order
  (`Scripted`). From such a history every check either sends the next request or ends the visit,
  with a finding in its own name if the place has what it looks for (`StepRuns`, a lemma per check).
  `Finds` says of a check on its way that no place behind it has a weakness left out (`Accounted`),
  and that what it found is at places it visited, under titles that are its own (`Owner`): so no
  finding of another check can take the place of one in the store, and what ended checks found is in
  the report (`FindInv`). A check that one finding satisfies may have met its weakness before. That
  the places include every page of the right kind comes from the list of endpoints, cut at the limit
  (`SoughtIsVisited`), and from `CrawlComplete`.
- **Source trees.** `SourcesJudged` is `AuditExact` and `SastFinds`. `TreeInv` says that the report
  of an audit has the keys of what its declarations bring and that of `sast` those of what is in the
  files it read. What is in a range is decided by `Compare`, on tuples and their first difference;
  the property says it with `Older`, number by number with zeros for those that are not written.
  They agree (`CompareOrders`), since where two versions first differ decides which is older
  (`FirstDecides`), except where one version is spelled in two lengths, which the property excludes
  (`SpeltApart`). The advisories of the list have different names (`Entries`), so that a reported
  name is that of one advisory. For `sast`, what a line shows is found for each rule on its own
  (`LineSeen`), and with fewer files than the limit every Python file is among those read
  (`FileRead`).
- **Services.** The four parts share no variable but the phase, and the invariant is a conjunction
  of four. *Completion*: while an attempt streams, all that is assembled is its own, unless an error
  came in the stream of this or an earlier attempt: from then on arguments may stay (the exception
  that the property names); text does not. *Subagent*: the frames are a tree, a frame waits in its
  calls for those under it, and the label of a task is the live frame in it that waits for no other
  (`Labelled`), so that closing rows meet the calls of their own run. *Skills*: a skill outside
  `robbed` and `halfway` is, up to what markdown does not keep, what the file of its stem says, and
  no other skill in the library has that file; writing it a second time changes no more
  (`SkillWritten`). *Retrieval*: every position before the next chunk's start that is not blank is
  in a chunk. That needs that a window starts inside the text and that the next one starts after it
  and no later than its end (`WindowBounds`, `WindowAdvances`), which is what `Onward` gives: the
  overlap is less than the least that is left of a window. The assumption allows any size and
  overlap.

**Induction.** The library's induction theorems cannot be used with the installed provers. Where a
recursive function has to be understood (a sum, a fold over a sequence, a distance), the proof takes
the least number for which the claim fails, which exists because strict inclusion of finite sets,
such as intervals, is well-founded (`LeastNatural`), and refutes it. RECURSIVE operators appear
nowhere in the modules with proofs.

**Assumptions** are named `ASSUME`s on constants in the modules that declare them; TLC evaluates
them in the runs. They say what kind of thing each constant is: functions and their ranges, positive
bounds, model values that are not data. Those that are long are the ones about data that the program
parses: `ExpressionAssumption` (a field of a cron expression is a set of parts, `IsField`, and the
days of a month are in its range), `CyberAssumption` (candidates are findings, `IsFinding`; suites
name checks, `CheckNames`; sites have a base URL and lists of links; a declared version has numbers,
what stands on a line is what some rule matches, and only scripts are minified, `IsProject`) and
`ServicesAssumption` (files hold skills, `IsFile`; sizes and overlaps are any integers).

**What the proofs changed in the model.** The two cases of `LastExchange` (`/undo` of an answered
exchange, `/undo` of a trailing question) overlapped in a `CASE`, of which TLC takes the first and
TLA+ any: it is a sequence of conditions now, as `cli/interactive.py:406-412` has it. The days of a
calendar, the parts of a field and the contents of skill files had no assumption that said what they
are. Subsequences of messages and rows are told by the places they keep, rather than by `SelectSeq`,
whose definition is recursive inside a `LET` and opaque to the prover; the places of a check are
told by a recursive function (`OfKinds`). `CrawlComplete` lacked the condition that the base URL
answers (`Alive`): no site of the run has a base that is missing, but for one the claim is false,
since `Crawler.crawl` lists a page when it is linked and the base only once it was fetched
(`cyber/recon.py:250-258`). `AuditExact` compared versions as numbers in base 100, of four digits,
and took each project for one declaration: a report lists a component once, so that of two
declarations of one version the one that cannot be read is reported if the other is. It compares
them number by number now, and says which declarations count (`TakenFor`). `SastFinds` lacked the
condition that a file is not too large to be read. `SourceFiles` is the set of the files' numbers,
cut at the limit by counting, rather than a `SubSeq` of a `SelectSeq`; and the verbs of
`HTTPMethods` are joined one by one (`Permitted`). `ScanFinds` spoke of the sites of the run, on
each of which a weakness was on one page; it speaks of any site now. So it had to say what an
earlier finding excuses (`OnceOnly`): a check that stops at its first, the timing probe of
`command-injection`, which is sent while nothing was found and on its first two pages
(`cyber/checks/injection.py:574`; `Probed`), and a token met twice. And it had to say what hides a
weakness on its own page (`Hiding`): a check that wants status 200 sees none of a missing page, a
payload that is escaped or comes back in JSON is not reported as XSS, a storage service whose own
root is linked has no bucket to name, at which `cloud-storage` raises, and the cookies of an
endpoint are not read.

**Only model-checked.** Everything under fairness (`DueServed`, `StopHonoured`, `Terminates`,
`TurnEnds`, `EveryRequestReturns`, `CallsReturn`, `CommandEnds`, `ServicesEnd`), which needs
liveness and ENABLED. Every invariant and every other action property that a passing run checks is a
theorem.

## 5. What the code does not keep

Checked by a run:

- A task removed while it runs comes back: `remove_task` deletes the row, and the cancelled run then
  saves its record (`scheduler/engine.py:222`, `345-353`). Run `scheduler_removed`.
- Ctrl-C while the daemon runs a task cancels the run and leaves the daemon going: `run_task` takes
  the cancellation of its caller for a cancellation of the task (`scheduler/engine.py:341-353`). Run
  `daemon_interrupt`.
- A call that was denied can run later in the turn: recovery does not look at the denied calls
  (`core/loop.py:707`). Run `agent_loop_denied`.

Modelled as the code has it, and met while reading:

- *Scheduler.* The factory's agent rewrites RUNNING rows to PENDING while the run lasts
  (`engine.py:98-127, 395`; hence the exception in `WriteThrough`). A RUNNING task stays due, so a
  loop and a run-now call can overlap (`299-316`). Failures with alternating messages are retried
  without end, the streak counting identical ones (`408`), against
  `docs/plugins-and-autonomous-tasks.md:78`. A cancellation from another process interrupts nothing
  (`246`). `resume_task` keeps the streak, so that one more identical failure parks the task again.
  A task whose schedule does not parse is never due until its first manual run, after which it is
  (`427-439`). A daemon never learns of tasks another process adds. With more due tasks than
  `catch_up_limit` the first ones in dictionary order can starve the others (`daemon.py:112-114`
  always cuts the list at the same end; `Crowded`, the exception in `DueServed`). `run_task` looks
  neither at the status PAUSED nor at the row (`318-336`), so that a parked task is taken up again
  unasked, against `docs/plugins-and-autonomous-tasks.md:80`, when a coroutine has it in a list from
  before, when the result of an overlapping run arrives after the pause, or when another process
  acts on its own copy: hence `AtRest` and the single process of `ResumesExplicitly`.
- *Cron.* `replace(year + 4)` raises for 29 February when the year four later is no leap year
  (2096); the model's horizon is a number of days. `*/n` counts as a restricted day field.
- *Agent loop.* The budget ignores the tokens of recovery, reflection and the final answer
  (`loop.py:687, 652, 316`, against `198`: `BudgetStops` is about the tokens that are counted). A
  first answer that hands the work back is asked again whatever it spent (`306-309`). A reflection
  that is JSON without `assessment` ends the turn with a `KeyError` (`631-673`; `Raise`). `clear`
  leaves a scoped rule in force.
- *Conversation.* `chat` rolls back on `Exception` only, so a cancelled turn leaves its question
  (`core/agent.py:639-643`), and `chat_with_trace` never rolls back. `/undo` drops two rows even
  when the conversation keeps its trailing question. `conversation.json` belongs to whoever wrote it
  last. These are the reasons recorded in `parted`.
- *Prober.* Budgets are read before the awaits and counted after them, so that up to
  `max_concurrency - 1` more requests are sent (`scope.py:193-198, 266`); transport errors are not
  counted (`prober.py:180`); the waits of `throttle` are computed from the same last request, so
  that a burst of up to `max_concurrency` leaves at once (`scope.py:354-363`); a trailing dot
  escapes the per-host count (`351` against `275`).
- *MCP.* A call that is cancelled while the server has it ends the session for every call behind it
  (`client.py:148-158`; `cut`). A connection that fails while registering leaves the tools it had
  registered, bound to a closed client, whose next call starts another server process
  (`manager.py:198-208`). An exception that `connect_server` does not expect (of the SDK, say, and
  no `OSError`; `204` names those it does) leaves its server running and aborts `connect_all`.
  `docs/mcp-integration.md:59` calls the names collision-free across servers; two ids that are
  sanitised to one (`foo` and `Foo`, `mcp/tools.py:109`) share a plugin id, so that the tools of the
  later server replace those of the earlier one (`plugins/registry.py:65-70`,
  `tools/registry.py:32`), or it is refused for its version: `Alone` is the exception in
  `ToolsConsistent`. Two names can also read the same once joined (tool `b_c` of `a`, tool `c` of
  `a_b`), which the model leaves out. For an id that needs sanitising, disconnecting leaves the
  definitions in the plugin registry, and a later version of the server is refused (`249`). When
  `close` gives up after ten seconds it stops the loop under the requests that wait
  (`client.py:280-294`).
- *Checks.* What several comments promise of the checks' caution is not what they do:
  `ssrf.py:26-28` says that every probe is differential, and `_classify` (`324`) never looks at the
  baseline; the docstring of `SQLInjectionCheck._differs` asks for more than a status, and a status
  mismatch alone is enough; command injection calls its marker a proof (`injection.py:516`), and a
  page that echoes its input contains it too; a comment of the template check asks that the payload
  itself be gone, and nothing tests it; a CRLF marker in the body counts. Hence the pages that echo
  are not among the heedless ones. Any page of status 200 that is not blank counts as a sensitive
  file. Every session cookie is reported as of low entropy.
- *Scanner.* A check that raises loses what it had found already, and a swarm shows no error of a
  check. `fetch_sitemap` follows an index that names itself until the budget is spent
  (`recon.py:402`). `idor` is a deep check and is skipped where no endpoint has a query.
- *Agent and swarm.* `agent.py:76-80` says that no capability is in the catalogue that the engine
  does not implement; port scan and subdomain enumeration are, and nothing dispatches them. A mapper
  line runs none of its other capabilities. A wave without a line that may crawl has no endpoints.
  Corroboration looks at one wave only. `agent.py:1136` says a dismissed finding is kept at info
  severity; it keeps its own, beside a note of severity info. Verdicts that repeat each other are
  counted each.
- *Finding store.* A repeated fingerprint within a session of the tools is skipped, where
  `cyber/tools.py:61-76` says that a second scan updates. No command saves or loads a baseline, so
  that no regression is ever detected.
- *Audit.* `audit` never opens its client, so that the live advisories are never asked for. 2.31
  counts as less than 2.31.0, so that a version pinned to the remedy is reported. A compound
  constraint (`>=3.2,<4.0`) is read as one version. `<2.0` and `!=1.5` are audited as the version
  they exclude. Versions without an operator in Cargo, exact ones in Composer, `pom.xml` and lock
  files are not read; names of a Gemfile keep their quotes and match nothing. A project below a
  directory named `build` or `env` is skipped whole by `sast`, since the parts of the absolute path
  are tested.
- *Providers.* `stream_error` is never reset and arguments are kept from attempt to attempt
  (`openai_provider.py:314-320`): after an error in one stream, any later attempt without text is
  retried, a good one too, and the arguments of all are concatenated, against `218`, which calls the
  stream a complete replacement for `chat`; the exception in `AnswerAssembled` is this one. A
  refusal of `required` in the last attempt returns an empty answer. The Anthropic and Ollama
  providers ignore error events, and a broken answer passes for a whole one.
- *Subagents.* `subagent.py:235` says that nesting only ever narrows; a child at the depth limit
  that is given `spawn_subagent` by name gets the spawner of its ancestor, with its depth and tools
  (`193-255`; `inherited`), so that its children are deeper than the limit, which `16-17` says
  disables nesting. A delegation that fails or is cancelled writes no closing row. The timeout of a
  nested delegation never fires before the outer one. The status `budget` means that a child made as
  many calls as it has steps, not that it ran out of steps.
- *Skills.* Names of one stem take each other's file (`manager.py:98`; `robbed`), although `6` has
  skills stored as files; a version whose third of three parts is no number ends an update between
  memory and disk (`halfway`), and one of fewer or more parts is never counted up (`266-271`). The
  markdown form does not write the last use, which `162` says is persisted, writes tool calls in a
  form it does not read, and reads of each text one line: further lines of a description or a step,
  steps that are blank, and tags with a comma come back shorter or split (`skill.py:53-78`,
  `107-159`). An unnamed skill may take the number of a kept one (`core/agent.py:952`). No command
  calls update, delete or record-use.
- *Retrieval.* The id of a chunk digests its first 100 characters (`rag/engine.py:62`), so that a
  document that is edited further on keeps its old chunk when it is ingested again, and chunks it no
  longer has are never removed: the exception in `EverythingFound`. The settings allow any size and
  overlap (`core/config.py:108-109`). With an overlap of at least what is left of a window that is
  cut after a sentence, `_chunk_text` goes back to where it was, or before: it does not end, or
  passes over text (size 100, overlap 40, a longer text whose only full stop is character 31,
  counted from 0: `start` becomes -8, the next slice is empty, and characters 32 to 51 are in no
  chunk). `Onward` is the condition in `EverythingFound` and `ServicesEnd`.
- *Usage.* A stream that its consumer abandons before the last item leaves its tokens uncounted
  (`observability/usage.py:113-117`); the model's responses arrive whole.

## 6. What is not modelled

`PROJECT.json` lists every part with its status. Left out for good: personas, project context,
prompt assembly, built-in tools (single calls of the operating system without state of their own),
the audit log and the execution log (append-only), configuration files, the rendering of reports,
the command line's parsing and printing, the installer. The planner is one completion parsed into a
list of turns, each of which `AgentLoop` models.

Abstracted to a parameter: which URLs a policy authorises, which calls an approval pattern covers,
which definitions validate, what a provider, a server or a target answers. Tables of payloads,
paths, signatures, rules and advisories are cut to the members that the control flow tells apart;
what a regular expression matches is a mark on the text. Real time is abstracted to "due or not" in
the scheduler and to ticks in the prober; in the scanner time is the two values of a response, slow
and not.

Two hazards have no property, for the reason each gives: the copies that several processes have of
one task (there is nothing in the code that would keep them together), and the retry limit that
counts identical failures only (modelled, and the documented bound is false).

## 7. Plan

Every safety property that the passing runs check is proved, and liveness is out of the prover's
reach. What is left is breadth: the parts that `PROJECT.json` lists as partly modelled, first of all
the choice of checks a line of the agent runs, which is kept as what the line reports.
