------------------------------- MODULE Scanner -------------------------------
(***************************************************************************)
(* A scan of one target, request by request: the surface is mapped first, the *)
(* checks of a suite then run concurrently over it                            *)
(* (aegisx_agent/cyber/scanner.py, recon.py, checks/__init__.py).             *)
(*                                                                           *)
(* Scanner.run maps a target with the base URL, the crawl, robots.txt and the *)
(* sitemaps.  A line of a swarm (swarm.py), the other user of run_checks, is  *)
(* the same without the last two, and its suite needs no query on the surface. *)
(*                                                                           *)
(* The site is the environment: its pages are the places of Target, numbered  *)
(* from the base URL on, with links, a robots.txt and sitemaps.  A request is  *)
(* answered, lost on the way (at most MaxDrops of them), or refused when the   *)
(* budget is spent; how concurrent requests may exceed the budget is Prober's  *)
(* subject.                                                                  *)
(***************************************************************************)
EXTENDS Target, Findings

CONSTANTS
    MaxRequests,     \* the lesser of max_requests and max_requests_per_host: one host is asked
    MaxPages,        \* max_crawl_pages
    MaxDepth,        \* max_crawl_depth
    SitemapLimit,    \* limit of fetch_sitemap
    MaxDrops,        \* bound: requests lost on the way
    None             \* no report

VARIABLES
    site,         \* what the target is: it does not change
    suite,        \* the checks the command may run
    whole,        \* a scan by Scanner, rather than by a line of a swarm
    stage,        \* "base", "crawl", "robots", "sitemaps", "checks" or "done"
    spent,        \* _request_count of the guard
    drops,        \* requests lost so far
    queue, seen,  \* _queue and _seen of the crawler
    endpoints,    \* surface.endpoints: page numbers, in the order found
    fetched,      \* stats.pages_fetched
    rules,        \* surface.robots_rules
    pending,      \* sitemaps still to be fetched, as the calls are nested
    collected,    \* URLs collected from the sitemap named in robots.txt
    checks,       \* where every check of the suite is
    store,        \* findings of the FindingStore
    report        \* result.findings, once there is a result

scanVars == <<site, suite, whole, stage, spent, drops, queue, seen, endpoints, fetched,
              rules, pending, collected, checks>>

mapVars == <<queue, seen, endpoints, fetched, rules, pending, collected>>

Base == site.pages[1]

-----------------------------------------------------------------------------
(* One request of the scan *)

Refused == spent >= MaxRequests

\* Mutant of Fetch: a request is not counted.
FetchUncounted(reply, response) ==
    \/ Refused /\ response = Failed /\ UNCHANGED <<spent, drops>>
    \/ ~Refused /\ response = reply /\ UNCHANGED <<spent, drops>>
    \/ ~Refused /\ drops < MaxDrops /\ response = Failed /\ drops' = drops + 1 /\ UNCHANGED spent

\* The response to a request the target answers with reply.  One that was lost
\* is not counted.
Fetch(reply, response) ==
    \/ Refused /\ response = Failed /\ UNCHANGED <<spent, drops>>
    \/ ~Refused /\ response = reply /\ spent' = spent + 1 /\ UNCHANGED drops
    \/ ~Refused /\ drops < MaxDrops /\ response = Failed /\ drops' = drops + 1 /\ UNCHANGED spent

Responses(reply) == {reply, Failed}

-----------------------------------------------------------------------------
(* Mapping the surface *)

\* The base URL is fetched for the technologies the server admits to: nothing
\* below depends on them.  A scan does so first, a swarm once it has crawled.
Probe ==
    /\ stage = "base"
    /\ \E response \in Responses(Reply(Base, "GET", spent)) :
          Fetch(Reply(Base, "GET", spent), response)
    /\ stage' = IF whole THEN "crawl" ELSE "mapped"
    /\ UNCHANGED <<site, suite, whole, mapVars, checks, store, report>>

\* One link of a page at a depth.  A link to another host or to an asset is 0,
\* no page of the site.
Enqueue(crawl, link, depth) ==
    IF depth >= MaxDepth \/ link \notin DOMAIN site.pages \/ link \in crawl.seen THEN crawl
    ELSE [seen |-> crawl.seen \cup {link},
          endpoints |-> Append(crawl.endpoints, link),
          queue |-> Append(crawl.queue, <<link, depth + 1>>)]

\* The links of a page at a depth, one after the other.
Follow(visited, links, depth) ==
    LET crawl[i \in 0 .. Len(links)] ==
            IF i = 0 THEN visited ELSE Enqueue(crawl[i - 1], links[i], depth)
    IN  crawl[Len(links)]

Listed(page) == page \in {endpoints[i] : i \in DOMAIN endpoints}

\* Mutant of Popped: the newest first.
PoppedNewest == [next |-> Last(queue), rest |-> Front(queue)]

\* The page to fetch next, with its depth, and those that remain.
Popped == [next |-> Head(queue), rest |-> Tail(queue)]

\* One page is fetched, and its links are queued.
CrawlPage ==
    /\ stage = "crawl" /\ queue # <<>> /\ fetched < MaxPages
    /\ LET page == Popped.next[1]
           depth == Popped.next[2]
           reply == Reply(site.pages[page], "GET", spent)
           visited == [seen |-> seen, queue |-> Popped.rest,
                       endpoints |-> IF Listed(page) THEN endpoints ELSE Append(endpoints, page)]
           crawl == Follow(visited, site.links[page], depth)
       IN  \E response \in Responses(reply) :
              /\ Fetch(reply, response)
              /\ IF Ok(response)
                 THEN /\ fetched' = fetched + 1
                      /\ seen' = crawl.seen /\ queue' = crawl.queue /\ endpoints' = crawl.endpoints
                 ELSE queue' = Popped.rest /\ UNCHANGED <<fetched, seen, endpoints>>
    /\ UNCHANGED <<site, suite, whole, stage, rules, pending, collected, checks, store, report>>

CrawlEnds ==
    /\ stage = "crawl"
    /\ queue = <<>> \/ fetched >= MaxPages
    /\ stage' = IF whole THEN "robots" ELSE "base"
    /\ UNCHANGED <<site, suite, whole, spent, drops, mapVars, checks, store, report>>

\* robots.txt names the paths it forbids, and sitemaps, of which three are read.
Robots ==
    /\ stage = "robots"
    /\ LET named == SubSeq(site.robots, 1, IF Len(site.robots) < 3 THEN Len(site.robots) ELSE 3)
       IN  \E response \in Responses(Page(200, {})) :
              /\ Fetch(Page(200, {}), response)
              /\ rules' = IF Ok(response) THEN site.rules ELSE {}
              /\ pending' = IF Ok(response) THEN [i \in DOMAIN named |-> <<named[i]>>] ELSE <<>>
    /\ stage' = "sitemaps"
    /\ UNCHANGED <<site, suite, whole, queue, seen, endpoints, fetched, collected, checks, store, report>>

\* The sitemaps of the first call still running.  What an index names is fetched
\* before what is next to it, until the limit of URLs is reached.
Sitemap ==
    /\ stage = "sitemaps" /\ pending # <<>>
    /\ LET map == site.sitemaps[Head(Head(pending))]
       IN  \E response \in Responses(Page(200, {})) :
              /\ Fetch(Page(200, {}), response)
              /\ LET sum == collected + (IF Ok(response) THEN map.urls ELSE 0)
                     named == IF Ok(response) THEN map.maps ELSE <<>>
                     more == IF sum < SitemapLimit THEN named \o Tail(Head(pending)) ELSE <<>>
                 IN  /\ pending' = (IF more = <<>> THEN <<>> ELSE <<more>>) \o Tail(pending)
                     /\ collected' = IF more = <<>> THEN 0 ELSE sum
    /\ UNCHANGED <<site, suite, whole, stage, queue, seen, endpoints, fetched, rules, checks, store, report>>

-----------------------------------------------------------------------------
(* The checks *)

CheapChecks ==
    {"security-headers", "cookie-flags", "dangerous-methods", "open-redirect", "transport-security",
     "sensitive-files", "directory-listing", "verbose-errors", "cors-misconfiguration"}

DeepChecks ==
    {"sql-injection", "reflected-xss", "template-injection", "path-traversal", "idor"}

HasQuery(page) == site.pages[page].kind \notin {"base", "object", "xml"}

\* Whether the surface is worth the expensive checks.
Deserves == \E i \in DOMAIN endpoints : HasQuery(endpoints[i])

Chosen == IF whole /\ ~Deserves THEN suite \cap CheapChecks ELSE suite

Started == [number |-> 1, history |-> <<>>, found |-> {}, over |-> FALSE]

ReconFinding(rule) ==
    [fingerprint |-> <<rule, 0>>, severity |-> "low", confidence |-> "confirmed",
     evidence |-> {"recon"}]

\* What recon saw is recorded, and the checks that apply are started.
StartChecks ==
    /\ (stage = "sitemaps" /\ pending = <<>>) \/ stage = "mapped"
    /\ store' = Extend(store, {ReconFinding(rule) : rule \in rules})
    /\ checks' = [c \in Chosen |-> Started]
    /\ stage' = "checks"
    /\ UNCHANGED <<site, suite, whole, spent, drops, mapVars, report>>

\* The places check c visits, as numbers of pages.
Visits(c) ==
    LET numbered(page) == [kind |-> site.pages[page].kind, traits |-> site.pages[page].traits,
                           page |-> page]
    IN  Places(c, numbered(1), [i \in DOMAIN endpoints |-> numbered(endpoints[i])])

At(c) == Visits(c)[checks[c].number]

Does(c) == Step(c, At(c), checks[c].number, checks[c].history, checks[c].found)

Visiting(c) ==
    /\ stage = "checks" /\ ~checks[c].over
    /\ checks[c].number <= Len(Visits(c))

\* Check c awaits the response to its next request.
CheckAsks(c) ==
    /\ Visiting(c) /\ Does(c).ask \notin {"none", "raise"}
    /\ LET reply == Reply(At(c), Does(c).ask, spent)
       IN  \E response \in Responses(reply) :
              /\ Fetch(reply, response)
              /\ checks' = [checks EXCEPT ![c].history = Append(@, response)]
    /\ UNCHANGED <<site, suite, whole, stage, mapVars, store, report>>

Located(f, c) ==
    [fingerprint |-> <<f.title, At(c).page>>, title |-> f.title, severity |-> f.severity,
     confidence |-> f.confidence, evidence |-> {c}]

\* Check c is done with a place.
CheckConcludes(c) ==
    /\ Visiting(c) /\ Does(c).ask = "none"
    /\ LET reports == {Located(f, c) : f \in Does(c).report}
       IN  checks' = [checks EXCEPT ![c].number = @ + 1,
                                    ![c].history = <<>>,
                                    ![c].found = @ \cup reports,
                                    ![c].over = c \in StopsAtFirst /\ reports # {}]
    /\ UNCHANGED <<site, suite, whole, stage, spent, drops, mapVars, store, report>>

\* Mutant of CheckRaises: gather raises what the first check raised.
CheckRaisesAll(c) ==
    /\ Visiting(c) /\ Does(c).ask = "raise"
    /\ checks' = [d \in DOMAIN checks |-> [checks[d] EXCEPT !.found = {}, !.over = TRUE]]
    /\ UNCHANGED <<site, suite, whole, stage, spent, drops, mapVars, store, report>>

\* Check c raised: what it had found is lost, and no other check is disturbed.
CheckRaises(c) ==
    /\ Visiting(c) /\ Does(c).ask = "raise"
    /\ checks' = [checks EXCEPT ![c].found = {}, ![c].over = TRUE]
    /\ UNCHANGED <<site, suite, whole, stage, spent, drops, mapVars, store, report>>

CheckOver(c) == checks[c].over \/ checks[c].number > Len(Visits(c))

Produced == UNION {checks[c].found : c \in DOMAIN checks}

\* gather returns when every check has: the findings are stored and reported.
Finish ==
    /\ stage = "checks" /\ \A c \in DOMAIN checks : CheckOver(c)
    /\ store' = Extend(store, Produced)
    /\ report' = store'
    /\ stage' = "done"
    /\ UNCHANGED <<site, suite, whole, spent, drops, mapVars, checks>>

-----------------------------------------------------------------------------
\* A suite with checks no scan has is one of a line of a swarm.
ScanInit(scenarios) ==
    /\ \E s \in scenarios : site = s.site /\ suite = s.suite
    /\ whole = (suite \subseteq CheapChecks \cup DeepChecks)
    /\ stage = IF whole THEN "base" ELSE "crawl"
    /\ spent = 0 /\ drops = 0
    /\ queue = <<<<1, 0>>>> /\ seen = {1} /\ endpoints = <<>> /\ fetched = 0
    /\ rules = {} /\ pending = <<>> /\ collected = 0
    /\ checks = [c \in {} |-> Started]

ScanNext ==
    \/ Probe \/ CrawlPage \/ CrawlEnds \/ Robots \/ Sitemap \/ StartChecks \/ Finish
    \/ \E c \in DOMAIN checks : CheckAsks(c) \/ CheckConcludes(c) \/ CheckRaises(c)

\* No scan is running.
ScanIdle ==
    /\ site = [pages |-> <<>>] /\ suite = {} /\ whole = FALSE
    /\ stage = "idle" /\ spent = 0 /\ drops = 0
    /\ queue = <<>> /\ seen = {} /\ endpoints = <<>> /\ fetched = 0
    /\ rules = {} /\ pending = <<>> /\ collected = 0
    /\ checks = [c \in {} |-> Started]

=============================================================================
