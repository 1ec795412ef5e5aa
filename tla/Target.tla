------------------------------- MODULE Target -------------------------------
(***************************************************************************)
(* The web application a scan is pointed at, as the checks of Checks see it.  *)
(* It is no code of this repository: a place of the target is a page with     *)
(* some traits, and Reply is the response a page of those traits gives to     *)
(* each request a check may send.                                            *)
(***************************************************************************)
EXTENDS Checks

\* The weakness each check looks for, at the places it visits.
Weakness(c) ==
    CASE c = "sql-injection" -> {"sql error", "sql blind"}
      [] c = "reflected-xss" -> {"echoes"}
      [] c = "template-injection" -> {"evaluates"}
      [] c = "path-traversal" -> {"reads files"}
      [] c = "command-injection" -> {"shell", "blind shell"}
      [] c = "nosql-injection" -> {"operators"}
      [] c = "xxe" -> {"expands", "fetches entities"}
      [] c = "ssrf" -> {"dials"}
      [] c = "idor" -> {"open objects"}
      [] c = "dangerous-methods" -> {"TRACE on"}
      [] c = "open-redirect" -> {"redirects"}
      [] c = "transport-security" -> {"http"}
      [] c = "sensitive-files" -> {"leaks"}
      [] c = "directory-listing" -> {"lists"}
      [] c = "verbose-errors" -> {"traces"}
      [] c = "cors-misconfiguration" -> {"trusts origins"}
      [] c = "admin-surface" -> {"panel"}
      [] c = "graphql-introspection" -> {"schema"}
      [] c = "security-headers" -> {"names server"}
      [] c = "cookie-flags" -> {"bare cookie"}
      [] c = "token-audit" -> {"unsigned token", "token cookie"}
      [] c = "crlf-injection" -> {"splits"}
      [] c = "host-header-injection" -> {"trusts Host"}
      [] c = "subdomain-takeover" -> {"provider CNAME"}
      [] c = "cloud-storage" -> {"bucket"}

\* What a payload leaves in a page that echoes its parameter.
Text(request) ==
    CASE request = "script" -> {"marker"}
      [] request \in {"engine A", "engine B", "echo A", "echo B", "echo again"} -> {"marker"}
      [] request = "internal entity" -> {"marker", "entity name"}
      [] request = "external entity" -> {"canary host"}
      [] request = "crlf" -> {"crlf marker"}
      [] request = "link-local" -> {"meta-data"}
      [] request \in {"true", "false", "quote"} -> {request}
      [] OTHER -> {}

\* What each trait adds to the page served for a request.
Adds(trait, request) ==
    CASE trait = "sql error" /\ request = "quote" -> {"dbError"}
      [] trait = "echoes" -> Text(request)
      [] trait = "escapes" /\ Text(request) # {} -> Text(request) \cup {"entity"}
      [] trait = "evaluates" /\ request = "engine B" -> {"marker", "product"}
      [] trait = "reads files" /\ request = "unix file" -> {"unix file read"}
      [] trait = "shell" /\ request = "echo B" -> {"marker"}
      [] trait = "expands" /\ request = "internal entity" -> {"marker"}
      [] trait = "fetches entities" /\ request = "external entity" -> {"canary host"}
      [] trait = "dials" /\ request \in {"loopback", "reserved-tld"} -> {"dial error"}
      [] trait = "dials" /\ request = "file-scheme" -> {"local file"}
      [] trait = "dials" /\ request = "link-local" -> {"meta-data"}
      [] trait = "leaks" /\ request = "/config.json" -> {"settings"}
      [] trait = "lists" /\ request = "/uploads/" -> {"index of"}
      [] trait = "traces" -> {"stack trace"}
      [] trait = "panel" /\ request = "/console" -> {"panel"}
      [] trait = "schema" /\ request = "/query" -> {"__schema"}
      [] trait = "unsigned token" -> {"unsigned jwt"}
      [] trait = "provider CNAME" /\ request = "host root" -> {"provider says gone"}
      [] trait \in {"bucket", "storage root"} /\ request = "listing" -> {"<contents>"}
      [] trait = "says dial error" -> {"dial error"}
      [] trait = "says dbError" -> {"dbError"}
      [] OTHER -> {}

Sends(trait, request) ==
    CASE trait = "TRACE on" /\ request = "OPTIONS" -> {"allow: PUT"}
      [] trait = "redirects" /\ request = "redirect" -> {"location: probe"}
      [] trait = "trusts origins" /\ request = "Origin" -> {"allow-origin: probe", "allow-credentials"}
      [] trait = "any origin" /\ request = "Origin" -> {"allow-origin: *"}
      [] trait = "names server" -> {"server"}
      [] trait = "bare cookie" -> {"cookie without flags", "cookie session"}
      [] trait = "token cookie" -> {"loose jwt"}
      [] trait = "splits" /\ request = "crlf" -> {"injected"}
      [] trait = "trusts Host" /\ request = "X-Forwarded-Host" -> {"location: probe"}
      [] trait = "short HSTS" -> {"hsts", "hsts without max-age"}
      [] trait = "json" -> {"json"}
      [] OTHER -> {}

Paths == {"/.env", "/config.json", "/uploads/", "/admin", "/console", "/graphql", "/query"}

Status(traits, request) ==
    IF "missing" \in traits THEN 404
    ELSE IF request = "TRACE" THEN IF "TRACE on" \in traits THEN 200 ELSE 405
    ELSE IF request = "PROPFIND" THEN 405
    ELSE IF request = "no such user" /\ "operators" \in traits THEN 401
    ELSE IF request = "host root" /\ "provider CNAME" \in traits THEN 404
    ELSE IF request \in Paths /\ "catch-all" \notin traits
            /\ \A t \in traits : Adds(t, request) = {} THEN 404
    ELSE 200

\* The n-th response of the scan: a page with a nonce shows another one.
Reply(place, request, n) ==
    [error |-> FALSE,
     status |-> Status(place.traits, request),
     body |-> UNION {Adds(t, request) : t \in place.traits},
     page |-> IF \/ "sql blind" \in place.traits /\ request = "false"
                 \/ "open objects" \in place.traits /\ request = "neighbour"
              THEN "other" ELSE "usual",
     nonce |-> IF "nonce" \in place.traits THEN n ELSE 0,
     header |-> UNION {Sends(t, request) : t \in place.traits},
     slow |-> request = "sleep" /\ {"shell", "blind shell"} \cap place.traits # {}]

=============================================================================
