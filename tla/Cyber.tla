-------------------------------- MODULE Cyber --------------------------------
(***************************************************************************)
(* The assessments of `aegisx cyber` (aegisx_agent/cli/commands/cyber.py):   *)
(* scan runs Scanner, swarm runs one wave of the default lines of attack,     *)
(* agent runs CyberAgent, audit and sast read a source tree (Audit).  Each     *)
(* fills one store of findings and prints one result.                        *)
(***************************************************************************)
EXTENDS Naturals, Sequences, FiniteSets

CONSTANTS
    EndpointLimit, TimingLimit, AllowedMethods, MaxRequests, MaxPages, MaxDepth, SitemapLimit, MaxDrops,
    Scenarios,    \* the sites a scan is tried on, each with a suite of checks
    Candidates, AtEndpoints, DefaultLines, PlanAnswers, MaxLines, EscalationMaxLines, MaxWaves,
    MaxParallel, MaxReview, Protected, MaxDismissed, MaxVerdicts, None,
    Projects,     \* the source trees audit and sast are tried on
    MaxFiles

VARIABLES
    command, site, suite, whole, stage, spent, drops, queue, seen, endpoints, fetched, rules,
    pending, collected, checks, model, review, step, lines, state, mapped, exhausted, waves,
    dismissed, project, store, report

S == INSTANCE Scanner
A == INSTANCE CyberAgent
T == INSTANCE Audit

ASSUME CyberAssumption ==
    /\ {TimingLimit, MaxRequests, MaxDepth, SitemapLimit, MaxDrops, MaxLines, EscalationMaxLines, MaxWaves, MaxReview,
        MaxVerdicts, MaxFiles} \subseteq Nat
    /\ {EndpointLimit, MaxPages, MaxParallel} \subseteq Nat \ {0}
    /\ Protected \in S!Severities /\ MaxDismissed[1] \in Nat /\ MaxDismissed[2] \in Nat
    /\ \A s \in Scenarios :
         /\ s.suite \subseteq S!CheckNames
         /\ 1 \in DOMAIN s.site.pages /\ \A p \in DOMAIN s.site.pages : s.site.links[p] \in Seq(Nat)
    /\ IsFiniteSet(UNION {Candidates[c] : c \in DOMAIN Candidates})
    /\ \A c \in DOMAIN Candidates : \A f \in Candidates[c] : A!IsFinding(f)
    /\ IsFiniteSet(DOMAIN DefaultLines)
    /\ \A i \in DOMAIN DefaultLines : DefaultLines[i].capabilities \subseteq DOMAIN Candidates
    /\ \A p \in Projects : T!IsProject(p)

scanVars == <<site, suite, whole, stage, spent, drops, queue, seen, endpoints, fetched, rules,
              pending, collected, checks>>

agentVars == <<model, review, step, lines, state, mapped, exhausted, waves, dismissed>>

vars == <<command, scanVars, agentVars, project, store, report>>

Init ==
    /\ \/ command = "scan" /\ S!ScanInit(Scenarios) /\ A!AgentIdle
       \/ command = "swarm" /\ S!ScanIdle /\ A!SwarmInit
       \/ command = "agent" /\ S!ScanIdle /\ A!AgentInit
       \/ command \in {"audit", "sast"} /\ S!ScanIdle /\ A!AgentIdle
    /\ project \in (IF command \in {"audit", "sast"} THEN Projects ELSE {T!NoProject})
    /\ store = S!EmptyStore
    /\ report = None

Next ==
    /\ UNCHANGED command
    /\ \/ command = "scan" /\ S!ScanNext /\ UNCHANGED <<agentVars, project>>
       \/ command = "swarm" /\ A!WaveNext(TRUE) /\ UNCHANGED <<scanVars, project>>
       \/ command = "agent" /\ A!AgentNext /\ UNCHANGED <<scanVars, project>>
       \/ command = "audit" /\ T!AuditDependencies /\ UNCHANGED <<scanVars, agentVars>>
       \/ command = "sast" /\ T!Analyze /\ UNCHANGED <<scanVars, agentVars>>

\* Every await of a command returns: requests and model calls have timeouts.
Spec == Init /\ [][Next]_vars /\ WF_vars(Next)

-----------------------------------------------------------------------------
(* The promise to the reader of the report *)

Entry(kept) == [severity |-> kept.severity, confidence |-> kept.confidence]

Recorded == [k \in DOMAIN store |-> Entry(store[k])]

Published == IF report = None THEN None ELSE [k \in DOMAIN report |-> Entry(report[k])]

L == INSTANCE Ledger WITH recorded <- Recorded, published <- Published

\* Whichever command runs, through merges, corroboration, later waves and the
\* reviewer's dismissals: a finding recorded is never lost, lowered or unconfirmed,
\* and the report is all that was recorded.
Implements == L!Spec

\* Every command ends with a report, whatever the target answers (a sitemap that
\* names itself too) and whatever the language model does.
CommandEnds == <>(report # None)

-----------------------------------------------------------------------------
(* Scans *)

Alive(at, page) == "missing" \notin at.pages[page].traits

\* The pages of a site that one of its pages links to, if it answers.
Linked(at, page) ==
    IF Alive(at, page) THEN {at.links[page][i] : i \in DOMAIN at.links[page]} \cap DOMAIN at.pages
    ELSE {}

\* The pages at most n links away from the base URL.
Near(at) ==
    LET near[n \in 0 .. MaxDepth] ==
            IF n = 0 THEN {1} ELSE near[n - 1] \cup UNION {Linked(at, p) : p \in near[n - 1]}
    IN  near

Within == Near(site)[MaxDepth]

Undisturbed == drops = 0 /\ spent < MaxRequests

Crawled == stage \in {"robots", "sitemaps", "checks", "done"}

\* A crawl that is not cut short and finds a base URL lists exactly the pages within
\* its depth, however they are linked: each is met first on a shortest path.
CrawlComplete ==
    Crawled /\ Undisturbed /\ fetched < MaxPages /\ Alive(site, 1) =>
        {endpoints[i] : i \in DOMAIN endpoints} = Within

\* The pages check c is meant for.
Sought(c, page) ==
    LET kind == site.pages[page].kind
        takesQuery == kind \in {"plain", "url", "login", "redirect", "token"}
    IN  CASE c \in {"sql-injection", "reflected-xss", "template-injection", "path-traversal",
                    "command-injection", "crlf-injection"} -> takesQuery
          [] c = "host-header-injection" -> takesQuery \/ page = 1
          [] c = "nosql-injection" -> kind = "login"
          [] c = "ssrf" -> kind = "url"
          [] c = "xxe" -> kind = "xml" \/ (page = 1 /\ \A p \in Within : site.pages[p].kind # "xml")
          [] c = "idor" -> kind = "object"
          [] c = "open-redirect" -> kind \in {"redirect", "url"}
          [] c \in {"verbose-errors", "token-audit"} -> TRUE
          [] OTHER -> page = 1

\* The traits of a page that keep check c from seeing a weakness there.
Hiding(c) ==
    CASE c = "reflected-xss" -> {"missing", "json", "escapes"}
      [] c = "cloud-storage" -> {"missing", "storage root"}
      [] c \in {"xxe", "ssrf", "open-redirect", "transport-security", "verbose-errors", "token-audit",
                "crlf-injection", "host-header-injection", "subdomain-takeover"} -> {}
      [] OTHER -> {"missing"}

\* A page shows check c a weakness.  The cookies of an endpoint are not read, and
\* verbs that the policy forbids not sent.
Shows(c, page) ==
    LET traits == site.pages[page].traits
        unread == IF c = "token-audit" /\ page # 1 THEN {"token cookie"} ELSE {}
    IN  /\ (traits \cap S!Weakness(c)) \ unread # {}
        /\ traits \cap Hiding(c) = {}
        /\ c = "dangerous-methods" => {"TRACE", "OPTIONS"} \cap AllowedMethods # {}

\* One finding is enough for check c, wherever on the site: it stops, or goes on
\* without the timing probe, or the token is the same.
OnceOnly(c, page) ==
    \/ c \in S!StopsAtFirst \cup {"token-audit"}
    \/ c = "command-injection" /\ "shell" \notin site.pages[page].traits

\* Check c visits one page and later another.
VisitsBefore(c, earlier, page) ==
    \E m, n \in DOMAIN S!Visits(c) :
        m < n /\ S!Visits(c)[m].page = earlier /\ S!Visits(c)[n].page = page

\* A shell that echoes nothing takes the timing probe, which has a limit of its own.
Probed(c, page) ==
    c = "command-injection" /\ "shell" \notin site.pages[page].traits =>
        \E n \in DOMAIN S!Visits(c) : n <= TimingLimit /\ S!Visits(c)[n].page = page

\* Every weakness that a page within the depth of the crawl shows a check of the suite
\* is in the report of a scan whose requests were all answered: no check disturbs
\* another, and none gives up too early.  (A shell that is found by the time it takes is
\* looked for on the first pages only.)
ScanFinds ==
    stage = "done" /\ Undisturbed /\ fetched < MaxPages /\ Alive(site, 1)
            /\ Len(endpoints) <= EndpointLimit =>
        \A c \in DOMAIN checks, p \in Within :
            Sought(c, p) /\ Shows(c, p) /\ Probed(c, p) =>
                \E k \in DOMAIN report :
                    /\ c \in report[k].evidence
                    /\ k[2] = p \/ (OnceOnly(c, p) /\ VisitsBefore(c, k[2], p))

\* What a rule matches on a line of Python that is no placeholder is in the report of
\* sast, whatever else is on the line and in the tree, unless a directory above the
\* tree is one of those that are skipped.
SastFinds ==
    command = "sast" /\ report # None /\ project.above = "home" /\ Len(project.files) <= MaxFiles =>
        \A i \in DOMAIN project.files :
            LET file == project.files[i]
            IN  file.readable /\ ~file.large /\ file.directory = "src" /\ file.suffix = ".py" =>
                    \A n \in DOMAIN file.lines : \A on \in file.lines[n] :
                        on.value = "genuine" => <<on.mark, file.name, n>> \in DOMAIN report

\* The checks that infer a weakness from how the target takes what they send.
Inferring ==
    {"sql-injection", "reflected-xss", "template-injection", "path-traversal", "command-injection",
     "nosql-injection", "xxe", "ssrf", "crlf-injection", "host-header-injection"}

\* The traits of a page that does not heed what check c sends it, though no two of
\* its answers need be the same.  Some checks see through an escaped echo.
Heedless(c) ==
    {"nonce", "json", "names server", "bare cookie"} \cup
    (IF c \in {"reflected-xss", "template-injection", "path-traversal", "nosql-injection"}
     THEN {"escapes"} ELSE {})

\* A check infers nothing from a target that does not heed what it sends, wherever
\* in a comparison of responses one is lost or refused.
NothingInferred ==
    stage = "done" =>
        \A c \in DOMAIN checks \cap Inferring :
            (\A p \in DOMAIN site.pages : site.pages[p].traits \subseteq Heedless(c)) =>
                \A k \in DOMAIN report : c \notin report[k].evidence

-----------------------------------------------------------------------------
(* Audits *)

\* The i-th number of a version; one that is not written is 0.
Number(version, i) == IF i <= Len(version) THEN version[i] ELSE 0

Older(one, other) ==
    \E i \in 1 .. Len(other) : /\ Number(one, i) < Number(other, i)
                              /\ \A j \in 1 .. i - 1 : Number(one, j) = Number(other, j)

Same(one, other) == \A i \in 1 .. Len(one) + Len(other) : Number(one, i) = Number(other, i)

Affected(version, range) ==
    \A clause \in range : CASE clause.op = ">=" -> ~Older(version, clause.bound)
                            [] clause.op = "<" -> Older(version, clause.bound)

\* 5.4.0 is 5.4, but not to Compare.
SpeltApart(version, range) ==
    \E clause \in range : version # clause.bound /\ Same(version, clause.bound)

\* d is taken for this package and version.
TakenFor(d, package, version) == T!NameOf(d) = package /\ T!VersionOf(d) = version

\* An audit reports a declaration that names one version it permits under exactly
\* the advisories for that version, whichever manifest it is read from and however
\* many numbers its version has: who pins the version the remedy names is not told
\* to do so again.  A report names a component once, so that every declaration of
\* the project that is taken for the same name and version brings its advisories.
AuditExact ==
    command = "audit" /\ report # None =>
        \A d \in project.declares, a \in T!OfflineAdvisories :
            /\ d.op \in T!Read(d.manifest) \ {"<", "!="} /\ d.upto = <<>>
            /\ d.manifest # "gemfile" /\ ~SpeltApart(d.version, a.range)
            => (<<a.id, d.package, d.version>> \in DOMAIN report <=>
                    /\ a.package = d.package /\ Affected(d.version, a.range)
                    /\ \E other \in project.declares :
                          TakenFor(other, d.package, d.version) /\ a.ecosystem = T!Ecosystem(other.manifest))

\* What the commands that read a source tree say of it: audit names exactly the
\* advisories of the versions that are declared, and sast passes over nothing that
\* its rules match in a Python file it may read.
SourcesJudged == AuditExact /\ SastFinds

-----------------------------------------------------------------------------
(* Swarms and the agent *)

Reported(k, w) == {i \in DOMAIN waves[w] : \E f \in waves[w][i].findings : f.fingerprint = k}

ByLine(k, w, i) == CHOOSE f \in waves[w][i].findings : f.fingerprint = k

\* A finding is reported as confirmed exactly where one line confirmed it, or two
\* lines of different names reported it in one wave.
ConfirmedByTwo ==
    command \in {"swarm", "agent"} /\ report # None =>
        \A k \in DOMAIN report :
            report[k].confidence = "confirmed" <=>
                \E w \in DOMAIN waves : \E i, j \in Reported(k, w) :
                    \/ ByLine(k, w, i).confidence = "confirmed"
                    \/ waves[w][i].name # waves[w][j].name

\* The review dismisses no finding of the protected severity or below, and not more
\* than its share of the findings, whatever verdicts the model gives.
ReviewBounded ==
    command = "agent" /\ report # None =>
        LET above == {k \in DOMAIN report : S!Weight(report[k].severity) > S!Weight(Protected)}
        IN  /\ dismissed \subseteq above
            /\ Cardinality(dismissed) * MaxDismissed[2] <= MaxDismissed[1] * Cardinality(above)

\* Agreement and review change what a report says of a finding within these rules.
JudgementsBounded == ConfirmedByTwo /\ ReviewBounded
=============================================================================
