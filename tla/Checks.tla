------------------------------- MODULE Checks -------------------------------
(***************************************************************************)
(* The checks of a scan (aegisx_agent/cyber/checks): 25 procedures that send *)
(* requests to a target and decide from the responses what to report.       *)
(*                                                                           *)
(* A check visits one place after another: the base URL or an endpoint.  What *)
(* it does there is a function of the responses it has received there: Ask    *)
(* for another request, or Report a set of findings and go on.  A request is  *)
(* named for what it carries (a payload, a path, a verb, a header), and a     *)
(* response is the facts the checks look at.  Tables of payloads, paths and   *)
(* signatures are cut to the members the control flow tells apart: one that   *)
(* hits and one that does not, or one of each kind.                           *)
(*                                                                           *)
(* The target itself is no code of this repository: Reply gives, for each     *)
(* trait a place can have, the response the check's author had in mind.       *)
(***************************************************************************)
EXTENDS Naturals, Sequences, SequencesExt

CONSTANTS
    EndpointLimit,    \* the limits of 3 to 12 endpoints per check, scaled down
    TimingLimit,      \* TIMING_ENDPOINT_BUDGET, of the timing probe
    AllowedMethods    \* allowed_methods of the policy

-----------------------------------------------------------------------------
(* Responses *)

Page(status, body) ==
    [error |-> FALSE, status |-> status, body |-> body, page |-> "usual",
     nonce |-> 0, header |-> {}, slow |-> FALSE]

\* What the prober returns for a refused or failed request.
Failed == [Page(0, {}) EXCEPT !.error = TRUE]

Ok(r) == ~r.error /\ r.status \in 200 .. 399

\* Two bodies are compared as they are, or without volatile tokens.
Raw(r) == <<r.body, r.page, r.nonce>>
Normalised(r) == <<r.body, r.page>>

-----------------------------------------------------------------------------
(* What a check does next *)

Finding(title, severity, confidence) ==
    [title |-> title, severity |-> severity, confidence |-> confidence]

Ask(request) == [ask |-> request, report |-> {}]
Report(findings) == [ask |-> "none", report |-> findings]
Nothing == Report({})
Raise == [ask |-> "raise", report |-> {}]

\* The requests in order, up to the first that hits.
UpToHit(h, requests, Hit(_), finding) ==
    IF h # <<>> /\ Hit(Last(h)) THEN Report({finding})
    ELSE IF Len(h) < Len(requests) THEN Ask(requests[Len(h) + 1])
    ELSE Nothing

\* All the requests, and what each of them shows.
EachOf(h, requests, Shows(_, _)) ==
    IF Len(h) < Len(requests) THEN Ask(requests[Len(h) + 1])
    ELSE Report(UNION {Shows(requests[i], h[i]) : i \in 1 .. Len(requests)})

When(condition, finding) == IF condition THEN {finding} ELSE {}

-----------------------------------------------------------------------------
(* injection.py *)

\* Mutant of Differs: the volatile tokens are compared too.
DiffersInTokens(yes, no, baseline) ==
    /\ ~yes.error /\ ~no.error
    /\ \/ yes.status # no.status
       \/ Raw(yes) # Raw(no) /\ Raw(no) # Raw(baseline)

\* The false response differs from the true one.  A difference in status is
\* enough; one in the body must also be one from the baseline.
Differs(yes, no, baseline) ==
    /\ ~yes.error /\ ~no.error
    /\ \/ yes.status # no.status
       \/ /\ Raw(yes) # Raw(no) /\ Raw(no) # Raw(baseline)
          /\ Normalised(yes) # Normalised(no)

SQLInjection(h) ==
    LET signature == \E i \in 1 .. 2 : "dbError" \in h[i].body
    IN  IF Len(h) = 0 THEN Ask("original")
        ELSE IF ~Ok(h[1]) THEN Nothing
        ELSE IF Len(h) = 1 THEN Ask("quote")
        ELSE IF signature THEN Report({Finding("sql", "high", "confirmed")})
        ELSE IF Len(h) = 2 THEN Ask("true")
        ELSE IF Len(h) = 3 THEN Ask("false")
        ELSE Report(When(Differs(h[3], h[4], h[1]), Finding("sql", "high", "probable")))

XSS(h) ==
    LET reflected(r) == Ok(r) /\ "marker" \in r.body /\ "json" \notin r.header
                        /\ "entity" \notin r.body
    IN  UpToHit(h, <<"script">>, reflected, Finding("xss", "high", "confirmed"))

\* One payload the engine evaluates, and one of another engine before it.
TemplateInjection(h) ==
    LET evaluated(r) == Ok(r) /\ {"marker", "product"} \subseteq r.body
    IN  UpToHit(h, <<"engine A", "engine B">>, evaluated,
                Finding("template", "critical", "confirmed"))

PathTraversal(h) ==
    LET read(r) == Ok(r) /\ "unix file read" \in r.body
    IN  UpToHit(h, <<"unix file", "windows file">>, read, Finding("traversal", "high", "confirmed"))

\* The timing probe is sent where no endpoint so far has shown anything, and to
\* the first endpoints only.
CommandInjection(h, place, found) ==
    LET echoes == <<"echo A", "echo B">>
        hit(r) == Ok(r) /\ "marker" \in r.body
        finding == Finding("command", "critical", "confirmed")
    IN  IF Len(h) <= Len(echoes)
        THEN IF h # <<>> /\ hit(Last(h)) THEN Report({finding})
             ELSE IF Len(h) < Len(echoes) THEN Ask(echoes[Len(h) + 1])
             ELSE IF found = {} /\ place <= TimingLimit THEN Ask("echo again")
             ELSE Nothing
        ELSE IF Len(h) = Len(echoes) + 1 THEN Ask("sleep")
        ELSE LET fast == h[Len(h) - 1]
                 slow == Last(h)
             IN  Report(When(~fast.error /\ ~slow.error /\ slow.slow /\ ~fast.slow, finding))

Bypass(baseline, probe) ==
    \/ baseline.status \in {401, 403} /\ probe.status \in {200, 204, 302}
    \/ baseline.status >= 400 /\ probe.status < 400
    \/ baseline.status = probe.status /\ probe.page = "long" /\ baseline.page # "long"

NoSQLInjection(h) ==
    IF Len(h) = 0 THEN Ask("no such user")
    ELSE IF h[1].error THEN Nothing
    ELSE LET bypassed(r) == ~r.error /\ Bypass(h[1], r)
         IN  UpToHit(Tail(h), <<"operator A", "operator B">>, bypassed,
                     Finding("nosql", "critical", "confirmed"))

XXE(h) ==
    LET resolved(r) == "marker" \in r.body /\ "entity name" \notin r.body
        finding == Finding("xxe", "critical", "confirmed")
    IN  IF Len(h) = 0 THEN Ask("internal entity")
        ELSE IF h[1].error THEN Nothing
        ELSE IF resolved(h[1]) THEN Report({finding})
        ELSE IF Len(h) = 1 THEN Ask("external entity")
        ELSE Report(When(~h[2].error /\ "canary host" \in h[2].body, finding))

-----------------------------------------------------------------------------
(* ssrf.py *)

\* What the answer to one probe proves.  The answer to the benign value is not
\* among the arguments.
Classify(kind, r) ==
    CASE kind = "file-scheme" -> When("local file" \in r.body, Finding(kind, "critical", "confirmed"))
      [] kind = "link-local" -> When("meta-data" \in r.body, Finding(kind, "critical", "confirmed"))
      [] OTHER -> When("dial error" \in r.body, Finding(kind, "high", "confirmed"))

SSRF(h) ==
    LET probes == <<"loopback", "link-local", "reserved-tld", "file-scheme">>
        shows(kind, r) == IF r.error THEN {} ELSE Classify(kind, r)
    IN  IF Len(h) = 0 THEN Ask("benign URL")
        ELSE IF h[1].error THEN Nothing
        ELSE EachOf(Tail(h), probes, shows)

-----------------------------------------------------------------------------
(* authz.py *)

IDOR(h) ==
    IF Len(h) = 0 THEN Ask("original")
    ELSE IF ~Ok(h[1]) \/ h[1].status # 200 \/ h[1].page = "blank" THEN Nothing
    ELSE IF Len(h) = 1 THEN Ask("neighbour")
    ELSE Report(When(~h[2].error /\ h[2].status = 200 /\ Raw(h[1]) # Raw(h[2]),
                     Finding("idor", "medium", "tentative")))

Permitted(verb) == IF verb \in AllowedMethods THEN <<verb>> ELSE <<>>

\* The read-only verbs are sent, where the policy allows them; of the others the
\* answer to OPTIONS is read.
HTTPMethods(h) ==
    LET shows(verb, r) ==
            IF verb = "OPTIONS"
            THEN When(~r.error /\ "allow: PUT" \in r.header, Finding("PUT", "low", "probable"))
            ELSE When(~r.error /\ r.status \in {200, 201, 204}, Finding(verb, "medium", "confirmed"))
    IN  EachOf(h, Permitted("TRACE") \o Permitted("PROPFIND") \o Permitted("OPTIONS"), shows)

OpenRedirect(h) ==
    LET followed(r) == "location: probe" \in r.header
    IN  UpToHit(h, <<"redirect">>, followed, Finding("redirect", "medium", "confirmed"))

Transport(h, place) ==
    IF "http" \in place.traits THEN Report({Finding("no HTTPS", "medium", "confirmed")})
    ELSE IF Len(h) = 0 THEN Ask("GET")
    ELSE IF ~Ok(h[1]) THEN Nothing
    ELSE Report(When("hsts" \notin h[1].header, Finding("no HSTS", "low", "confirmed"))
                \cup When("hsts without max-age" \in h[1].header,
                          Finding("HSTS max-age", "info", "confirmed")))

-----------------------------------------------------------------------------
(* exposure.py, api.py *)

SENSITIVE_PATHS == <<"/.env", "/config.json">>
SeverityOf(path) == IF path = "/.env" THEN "critical" ELSE "medium"

\* A short page that says "not found" is none, one of 200 for any path is a file.
SensitiveFiles(h) ==
    LET shows(path, r) == When(Ok(r) /\ r.status = 200 /\ r.page # "blank" /\ "not found" \notin r.body,
                               Finding(path, SeverityOf(path), "confirmed"))
    IN  EachOf(h, SENSITIVE_PATHS, shows)

DirectoryListing(h) ==
    LET shows(path, r) == When(Ok(r) /\ "index of" \in r.body, Finding(path, "medium", "confirmed"))
    IN  EachOf(h, <<"/", "/uploads/">>, shows)

VerboseErrors(h) ==
    LET traced(r) == (Ok(r) \/ r.status >= 400) /\ "stack trace" \in r.body
    IN  UpToHit(h, <<"GET">>, traced, Finding("stack trace", "medium", "confirmed"))

CORS(h) ==
    LET reflected == "allow-origin: probe" \in h[1].header
        wildcard == "allow-origin: *" \in h[1].header
        credentials == "allow-credentials" \in h[1].header
    IN  IF Len(h) = 0 THEN Ask("Origin")
        ELSE IF ~Ok(h[1]) THEN Nothing
        ELSE Report(When(wildcard /\ ~credentials, Finding("any origin", "low", "confirmed"))
                    \cup When(reflected, Finding("origin reflected",
                              IF credentials THEN "high" ELSE "medium", "confirmed")))

ADMIN_PATHS == <<"/admin", "/console">>

\* A page counts when it has a word of the surface it is asked for.
AdminSurface(h) ==
    LET severity(path) == IF path = "/console" THEN "high" ELSE "medium"
        shows(path, r) ==
            When(~r.error /\ r.status = 200 /\ "not found" \notin r.body /\ "panel" \in r.body,
                 Finding(path, severity(path), "confirmed"))
    IN  EachOf(h, ADMIN_PATHS, shows)

GraphQL(h) ==
    LET schema(r) == ~r.error /\ r.status < 400 /\ "__schema" \in r.body
    IN  UpToHit(h, <<"/graphql", "/query">>, schema, Finding("graphql", "low", "confirmed"))

-----------------------------------------------------------------------------
(* headers.py, authn.py *)

\* The headers a page should have, and those that tell too much.
SECURITY_HEADERS == {"csp", "hsts"}
DANGEROUS_HEADERS == {"server"}

Headers(h, place) ==
    LET excused(x) == \/ x = "csp" /\ "csp report-only" \in h[1].header
                      \/ x = "hsts" /\ "http" \in place.traits
        missing == {x \in SECURITY_HEADERS : x \notin h[1].header /\ ~excused(x)}
    IN  IF Len(h) = 0 THEN Ask("GET")
        ELSE IF ~Ok(h[1]) THEN Nothing
        ELSE Report({Finding(x, "medium", "confirmed") : x \in missing}
                    \cup {Finding(x, "info", "confirmed") : x \in DANGEROUS_HEADERS \cap h[1].header})

Cookies(h) ==
    IF Len(h) = 0 THEN Ask("GET")
    ELSE Report(When(Ok(h[1]) /\ "cookie without flags" \in h[1].header,
                     Finding("cookie", "medium", "confirmed")))

\* What the header and the claims of a token show.
AuditJwt(token) ==
    IF token = "unsigned jwt" THEN {Finding("alg none", "critical", "confirmed")}
    ELSE {Finding("no expiry", "medium", "confirmed"), Finding("personal data", "low", "confirmed")}

\* Every token is audited once, wherever it was seen first.  Cookies are read
\* at the base URL only, where every session cookie is reported as a short one.
Tokens(h, place, number, found) ==
    LET seen(token) == \E f \in found, g \in AuditJwt(token) : f.title = g.title
        tokens == {t \in {"unsigned jwt", "loose jwt"} :
                      t \in h[1].body \/ (number = 1 /\ t \in h[1].header)}
    IN  IF Len(h) = 0 THEN Ask("GET")
        ELSE IF h[1].error THEN Nothing
        ELSE Report((UNION {AuditJwt(t) : t \in {u \in tokens : ~seen(u)}})
                    \cup When(number = 1 /\ "cookie session" \in h[1].header,
                              Finding("short session", "medium", "probable"))
                    \cup When(place.kind = "token", Finding("token in URL", "medium", "confirmed")))

-----------------------------------------------------------------------------
(* protocol.py, dns.py *)

CRLFInjection(h) ==
    LET injected(r) == ~r.error /\ ("injected" \in r.header \/ "crlf marker" \in r.body)
    IN  UpToHit(h, <<"crlf">>, injected, Finding("crlf", "high", "confirmed"))

HostHeader(h) ==
    LET trusted(r) == ~r.error /\ ("location: probe" \in r.header \/ "probe host" \in r.body)
    IN  UpToHit(h, <<"Host", "X-Forwarded-Host">>, trusted, Finding("host", "high", "confirmed"))

SubdomainTakeover(h, place) ==
    IF "provider CNAME" \notin place.traits THEN Nothing
    ELSE LET gone(r) == ~r.error /\ r.status \in {404, 410} /\ "provider says gone" \in r.body
         IN  UpToHit(h, <<"host root">>, gone, Finding("takeover", "high", "confirmed"))

\* The host of the whole service has a kind, but no suffix to name it by: next()
\* raises once the page has been taken for a listing.
CloudStorage(h, place) ==
    LET listing(r) == "<contents>" \in r.body \/ {"accessdenied", "no such bucket"} \cap r.body = {}
    IN  IF {"bucket", "storage root"} \cap place.traits = {} THEN Nothing
        ELSE IF Len(h) = 0 THEN Ask("listing")
        ELSE IF h[1].error \/ h[1].status # 200 \/ ~listing(h[1]) THEN Nothing
        ELSE IF "storage root" \in place.traits THEN Raise
        ELSE Report({Finding("listing", "high", "confirmed")})

-----------------------------------------------------------------------------
(* Where a check looks *)

Cut(places) == SubSeq(places, 1, IF Len(places) < EndpointLimit THEN Len(places) ELSE EndpointLimit)

\* The places of some kinds, in order.
OfKinds(places, kinds) ==
    LET kept[i \in 0 .. Len(places)] ==
            IF i = 0 THEN <<>>
            ELSE IF places[i].kind \in kinds THEN Append(kept[i - 1], places[i])
            ELSE kept[i - 1]
    IN  kept[Len(places)]

\* The places check c visits, in order, of the endpoints on the context.
Places(c, base, endpoints) ==
    LET of(kinds) == OfKinds(endpoints, kinds)
        query == of({"plain", "url", "login", "redirect", "token"})
    IN  CASE c \in {"sql-injection", "reflected-xss", "template-injection", "path-traversal",
                    "command-injection", "crlf-injection"} -> Cut(query)
          [] c = "host-header-injection" -> <<base>> \o Cut(query)
          [] c = "nosql-injection" -> OfKinds(Cut(query), {"login"})
          [] c = "ssrf" -> Cut(of({"url"}))
          [] c = "xxe" -> IF of({"xml"}) = <<>> THEN <<base>> ELSE Cut(of({"xml"}))
          [] c = "idor" -> of({"object"})
          [] c = "open-redirect" -> of({"redirect", "url"})
          [] c \in {"verbose-errors", "token-audit"} -> <<base>> \o Cut(endpoints)
          [] OTHER -> <<base>>

CheckNames ==
    {"sql-injection", "reflected-xss", "template-injection", "path-traversal", "command-injection",
     "nosql-injection", "xxe", "ssrf", "idor", "dangerous-methods", "open-redirect",
     "transport-security", "sensitive-files", "directory-listing", "verbose-errors",
     "cors-misconfiguration", "admin-surface", "graphql-introspection", "security-headers",
     "cookie-flags", "token-audit", "crlf-injection", "host-header-injection",
     "subdomain-takeover", "cloud-storage"}

\* What check c does next at the number-th place, after the responses h there
\* and what it has found elsewhere.
Step(c, place, number, h, found) ==
    CASE c = "sql-injection" -> SQLInjection(h)
      [] c = "reflected-xss" -> XSS(h)
      [] c = "template-injection" -> TemplateInjection(h)
      [] c = "path-traversal" -> PathTraversal(h)
      [] c = "command-injection" -> CommandInjection(h, number, found)
      [] c = "nosql-injection" -> NoSQLInjection(h)
      [] c = "xxe" -> XXE(h)
      [] c = "ssrf" -> SSRF(h)
      [] c = "idor" -> IDOR(h)
      [] c = "dangerous-methods" -> HTTPMethods(h)
      [] c = "open-redirect" -> OpenRedirect(h)
      [] c = "transport-security" -> Transport(h, place)
      [] c = "sensitive-files" -> SensitiveFiles(h)
      [] c = "directory-listing" -> DirectoryListing(h)
      [] c = "verbose-errors" -> VerboseErrors(h)
      [] c = "cors-misconfiguration" -> CORS(h)
      [] c = "admin-surface" -> AdminSurface(h)
      [] c = "graphql-introspection" -> GraphQL(h)
      [] c = "security-headers" -> Headers(h, place)
      [] c = "cookie-flags" -> Cookies(h)
      [] c = "token-audit" -> Tokens(h, place, number, found)
      [] c = "crlf-injection" -> CRLFInjection(h)
      [] c = "host-header-injection" -> HostHeader(h)
      [] c = "subdomain-takeover" -> SubdomainTakeover(h, place)
      [] c = "cloud-storage" -> CloudStorage(h, place)

\* These stop at the first place that shows something.
StopsAtFirst == {"crlf-injection", "host-header-injection"}

=============================================================================
