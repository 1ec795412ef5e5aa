----------------------------- MODULE CyberAgent -----------------------------
(***************************************************************************)
(* The autonomous assessment (aegisx_agent/cyber/agent.py) and the swarm of   *)
(* lines of attack it runs (swarm.py).                                       *)
(*                                                                           *)
(* A wave is one SwarmRunner.run: the first line that may crawl maps the      *)
(* surface alone, the other lines run concurrently, at most MaxParallel at a   *)
(* time, and what two of them report is corroborated.  The agent plans the     *)
(* first wave with a language model, or without, plans a later one from what   *)
(* was found, and has the findings reviewed before they are reported.  The     *)
(* swarm command runs one wave of the default lines.                          *)
(*                                                                           *)
(* The checks of a line are Scanner's subject.  Here a line reports some of    *)
(* what the checks of its capabilities can find (Candidates): all, some or     *)
(* none, as requests fail, checks raise and targets differ.  The language       *)
(* model is the environment: it may fail, or answer with prose or any plan or   *)
(* verdicts of the given sets.                                                *)
(***************************************************************************)
EXTENDS Findings, Sequences

CONSTANTS
    Candidates,         \* capability -> the findings its checks may report
    AtEndpoints,        \* fingerprints that are reported at a mapped endpoint only
    DefaultLines,       \* default_lines: a sequence of lines
    PlanAnswers,        \* the sequences of lines the model may answer with
    MaxLines, EscalationMaxLines, MaxWaves, MaxParallel, MaxReview,
    Protected,          \* protected_severity
    MaxDismissed,       \* max_dismissal_rate, as <<numerator, denominator>>
    MaxVerdicts,        \* bound: verdicts in one answer
    None                \* no report

VARIABLES
    model,         \* whether a model was supplied
    review,        \* not skip_verification
    step,          \* where the command is
    lines,         \* lines of the running wave by their number in the plan, with their findings
    state,         \* of every line: "queued", "running" or "over"
    mapped,        \* whether the mapper of this wave found endpoints
    exhausted,     \* the request budget is spent
    waves,         \* the waves run so far, each the lines it had with their findings
    dismissed,     \* fingerprints of verification.dismissed
    store, report

agentVars == <<model, review, step, lines, state, mapped, exhausted, waves, dismissed>>

-----------------------------------------------------------------------------
(* Plans *)

Capabilities == DOMAIN Candidates

\* A line of the plan with no runnable capability is dropped, and nothing beyond
\* the limit is read.
ParsePlan(answer, limit) ==
    LET granted(i) == answer[i].capabilities \cap Capabilities
    IN  [i \in {i \in DOMAIN answer \cap 1 .. limit : granted(i) # {}} |->
            [name |-> answer[i].name, capabilities |-> granted(i)]]

Names(plan) == {plan[i].name : i \in DOMAIN plan}

\* The lines of an escalation that no earlier wave had.
Fresh(plan) ==
    [i \in {i \in DOMAIN plan : \A w \in DOMAIN waves : plan[i].name \notin Names(waves[w])} |->
        plan[i]]

Start(plan) ==
    /\ lines' = [i \in DOMAIN plan |->
                    [name |-> plan[i].name, capabilities |-> plan[i].capabilities, findings |-> {}]]
    /\ state' = [i \in DOMAIN plan |-> "queued"]
    /\ mapped' = FALSE
    /\ step' = "map"

-----------------------------------------------------------------------------
(* A wave: SwarmRunner.run *)

Spends == exhausted' \in {exhausted, TRUE}

\* The first line that may crawl; 0 where there is none.
Mapper ==
    LET crawlers == {i \in DOMAIN lines : "crawl" \in lines[i].capabilities}
    IN  IF crawlers = {} THEN 0 ELSE CHOOSE i \in crawlers : \A j \in crawlers : i <= j

\* The mapper runs first and alone, and does nothing but map, whatever else its
\* grant permits.  It finds no endpoint where the target does not answer.
MapSurface ==
    /\ step = "map"
    /\ IF Mapper = 0 THEN UNCHANGED <<mapped, state, exhausted>>
       ELSE /\ state' = [state EXCEPT ![Mapper] = "over"]
            /\ mapped' \in (IF exhausted THEN {FALSE} ELSE BOOLEAN)
            /\ Spends
    /\ step' = "attack"
    /\ UNCHANGED <<model, review, lines, waves, dismissed, store, report>>

Running == {i \in DOMAIN lines : state[i] = "running"}

StartLine(i) ==
    /\ step = "attack" /\ state[i] = "queued" /\ Cardinality(Running) < MaxParallel
    /\ state' = [state EXCEPT ![i] = "running"]
    /\ UNCHANGED <<model, review, step, lines, mapped, exhausted, waves, dismissed, store, report>>

\* What the checks of a line may report.
MayReport(line) ==
    {f \in UNION {Candidates[c] : c \in line.capabilities} :
        ~exhausted /\ (Fingerprint(f) \in AtEndpoints => mapped)}

\* A line's findings are its own and go to the store the lines share.
EndLine(i) ==
    /\ step = "attack" /\ state[i] = "running"
    /\ \E produced \in SUBSET MayReport(lines[i]) :
          /\ lines' = [lines EXCEPT ![i].findings = produced]
          /\ store' = Extend(store, produced)
    /\ state' = [state EXCEPT ![i] = "over"]
    /\ Spends
    /\ UNCHANGED <<model, review, step, mapped, waves, dismissed, report>>

\* The names of the lines that reported k.
Reporters(k) ==
    {lines[i].name : i \in {j \in DOMAIN lines : \E f \in lines[j].findings : Fingerprint(f) = k}}

\* Mutant of Agreed: lines are counted, two of one name as two.
AgreedByLine ==
    {k \in DOMAIN store :
        Cardinality({j \in DOMAIN lines : \E f \in lines[j].findings : Fingerprint(f) = k}) >= 2}

Agreed == {k \in DOMAIN store : Cardinality(Reporters(k)) >= 2}

Corroborated ==
    [k \in DOMAIN store |->
        IF k \in Agreed /\ store[k].confidence # "confirmed"
        THEN [severity |-> store[k].severity, confidence |-> "confirmed",
              evidence |-> store[k].evidence \cup {"agreement"}]
        ELSE store[k]]

\* gather returns when every line has: the wave is over.
EndWave(swarm) ==
    /\ step = "attack" /\ \A i \in DOMAIN lines : state[i] = "over"
    /\ store' = Corroborated
    /\ waves' = Append(waves, lines)
    /\ IF swarm THEN step' = "done" /\ report' = store'
       ELSE step' = "wave" /\ UNCHANGED report
    /\ UNCHANGED <<model, review, lines, state, mapped, exhausted, dismissed>>

-----------------------------------------------------------------------------
(* The agent *)

Survey ==
    /\ step = "survey"
    /\ Spends
    /\ step' = "plan"
    /\ UNCHANGED <<model, review, lines, state, mapped, waves, dismissed, store, report>>

\* Without a model, with one that fails, and with an answer that has no runnable
\* line, the default lines are run.
Plan ==
    /\ step = "plan"
    /\ \/ Start(DefaultLines)
       \/ /\ model
          /\ \E answer \in PlanAnswers :
                LET plan == ParsePlan(answer, MaxLines)
                IN  DOMAIN plan # {} /\ Start(plan)
    /\ UNCHANGED <<model, review, exhausted, waves, dismissed, store, report>>

Another ==
    /\ Len(waves) < (IF MaxWaves > 1 THEN MaxWaves ELSE 1)
    /\ DOMAIN store # {} /\ ~exhausted

Escalate ==
    /\ step = "wave" /\ Another /\ model
    /\ \E answer \in PlanAnswers :
          LET plan == Fresh(ParsePlan(answer, EscalationMaxLines))
          IN  DOMAIN plan # {} /\ Start(plan)
    /\ UNCHANGED <<model, review, exhausted, waves, dismissed, store, report>>

\* No wave is left, or none is worth running, or the model says or does nothing.
EndWaves ==
    /\ step = "wave"
    /\ step' = "verify"
    /\ UNCHANGED <<model, review, lines, state, mapped, exhausted, waves, dismissed, store, report>>

-----------------------------------------------------------------------------
(* The review *)

Reviewable == {k \in DOMAIN store : Weight(store[k].severity) > Weight(Protected)}

\* The worst of them, as many as one call reviews.
Reviews ==
    {R \in SUBSET Reviewable :
        /\ Cardinality(R) = (IF Cardinality(Reviewable) < MaxReview THEN Cardinality(Reviewable)
                             ELSE MaxReview)
        /\ \A k \in R, other \in Reviewable \ R :
              Weight(store[other].severity) <= Weight(store[k].severity)}

\* A verdict names a finding and, where it dismisses it, gives a reason or none.
Verdicts == [on : DOMAIN store, verdict : {"real", "false-positive"}, reason : BOOLEAN]

\* The verdicts of an answer that count as dismissals.
Dismissals(reviewed, answer) ==
    {n \in DOMAIN answer : /\ answer[n].on \in reviewed /\ answer[n].reason
                           /\ answer[n].verdict = "false-positive"}

\* A review that dismisses too much dismisses nothing.
Upheld(reviewed, answer) ==
    LET counted == Dismissals(reviewed, answer)
    IN  IF Cardinality(counted) * MaxDismissed[2] > MaxDismissed[1] * Cardinality(reviewed) THEN {}
        ELSE {answer[n].on : n \in counted}

\* The reviewer is not asked, fails, or answers with something else than verdicts.
SkipReview ==
    /\ step = "verify"
    /\ dismissed' = {}
    /\ step' = "report"
    /\ UNCHANGED <<model, review, lines, state, mapped, exhausted, waves, store, report>>

Review ==
    /\ step = "verify" /\ review /\ model /\ Reviewable # {}
    /\ \E reviewed \in Reviews, n \in 1 .. MaxVerdicts :
          \E answer \in [1 .. n -> Verdicts] :
             dismissed' = Upheld(reviewed, answer)
    /\ step' = "report"
    /\ UNCHANGED <<model, review, lines, state, mapped, exhausted, waves, store, report>>

\* The note that a finding was dismissed.  It has the title and no endpoint.
DismissalFinding(k) ==
    [fingerprint |-> <<"dismissed", k[1]>>, severity |-> "info", confidence |-> "tentative",
     evidence |-> {"reason"}]

\* Mutant of Conclude: what was dismissed is not reported.
ConcludeKept ==
    /\ step = "report"
    /\ store' = Extend(EmptyStore, {f \in All(store) : Fingerprint(f) \notin dismissed}
                                   \cup {DismissalFinding(k) : k \in dismissed})
    /\ report' = store'
    /\ step' = "done"
    /\ UNCHANGED <<model, review, lines, state, mapped, exhausted, waves, dismissed>>

\* What was not dismissed is merged with itself, the dismissals are noted, and
\* all the store holds is reported: the dismissed findings too, as they were.
Conclude ==
    /\ step = "report"
    /\ LET kept == {f \in All(store) : Fingerprint(f) \notin dismissed}
       IN  store' = Extend(store, kept \cup {DismissalFinding(k) : k \in dismissed})
    /\ report' = store'
    /\ step' = "done"
    /\ UNCHANGED <<model, review, lines, state, mapped, exhausted, waves, dismissed>>

-----------------------------------------------------------------------------
AgentInit ==
    /\ model \in BOOLEAN /\ review \in BOOLEAN
    /\ step = "survey"
    /\ lines = <<>> /\ state = <<>> /\ mapped = FALSE /\ exhausted = FALSE
    /\ waves = <<>> /\ dismissed = {}

\* No wave is running.
AgentIdle ==
    /\ model = FALSE /\ review = FALSE /\ step = "idle"
    /\ lines = <<>> /\ state = <<>> /\ mapped = FALSE /\ exhausted = FALSE
    /\ waves = <<>> /\ dismissed = {}

SwarmInit ==
    /\ model = FALSE /\ review = FALSE
    /\ step = "map"
    /\ lines = [i \in DOMAIN DefaultLines |->
                   [name |-> DefaultLines[i].name, capabilities |-> DefaultLines[i].capabilities,
                    findings |-> {}]]
    /\ state = [i \in DOMAIN DefaultLines |-> "queued"]
    /\ mapped = FALSE /\ exhausted = FALSE
    /\ waves = <<>> /\ dismissed = {}

WaveNext(swarm) ==
    \/ MapSurface \/ EndWave(swarm)
    \/ \E i \in DOMAIN lines : StartLine(i) \/ EndLine(i)

AgentNext ==
    \/ WaveNext(FALSE)
    \/ Survey \/ Plan \/ Escalate \/ EndWaves \/ SkipReview \/ Review \/ Conclude

=============================================================================
