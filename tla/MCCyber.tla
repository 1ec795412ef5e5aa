------------------------------ MODULE MCCyber ------------------------------
(* An instance of Cyber for TLC.  The scenarios put each weakness behind a page   *)
(* that does not have it, and every check in front of pages that heed nothing.   *)
EXTENDS Cyber

P(kind, traits) == [kind |-> kind, traits |-> traits]

Site(pages, links) ==
    [pages |-> pages, links |-> links, robots |-> <<>>, rules |-> {},
     sitemaps |-> [m \in {} |-> {}]]

Fan(base, first, second) ==
    Site(<<base, first, second>>, <<<<2, 0, 3, 2>>, <<1, 3>>, <<>>>>)

Quiet == P("base", {"nonce", "names server"})

\* Where the checks look for what is not at the base URL.
EndpointKind ==
    [c \in Inferring \cup {"idor", "open-redirect"} |->
        CASE c = "nosql-injection" -> "login" [] c = "ssrf" -> "url" [] c = "xxe" -> "xml"
          [] c = "idor" -> "object" [] c = "open-redirect" -> "redirect" [] OTHER -> "plain"]

AtBase ==
    {"dangerous-methods", "transport-security", "sensitive-files", "directory-listing",
     "verbose-errors", "cors-misconfiguration", "admin-surface", "graphql-introspection",
     "security-headers", "cookie-flags", "token-audit", "subdomain-takeover", "cloud-storage"}

Weak ==
    UNION {{[site |-> Fan(Quiet, P(IF c = "idor" THEN "plain" ELSE EndpointKind[c], {"nonce"}),
                          P(EndpointKind[c], {w})),
             suite |-> {c}] : w \in S!Weakness(c)} : c \in DOMAIN EndpointKind}
    \cup {[site |-> Fan(P("base", S!Weakness(c)), P("plain", {}), P("token", {})), suite |-> {c}] :
             c \in AtBase}

Heedful ==
    {[site |-> Fan(Quiet, P(EndpointKind[c], {"nonce"}),
                   P(EndpointKind[c], {"json", "bare cookie"} \cup (Heedless(c) \cap {"escapes"}))),
      suite |-> {c}] : c \in Inferring}

\* Two ways to most pages; page 6 is one link too far on the longer of its two ways,
\* and page 8 is linked from a missing page only.
Maze ==
    LET object == P("object", {})
    IN  Site(<<Quiet, object, object, object, object, object, P("object", {"missing"}), object>>,
             <<<<2, 3, 7>>, <<5, 1>>, <<4>>, <<5>>, <<6>>, <<>>, <<8>>, <<>>>>)

Sitemaps(robots, maps) ==
    [Fan(Quiet, P("object", {}), P("xml", {})) EXCEPT !.robots = robots, !.sitemaps = maps,
                                                      !.rules = {"/admin"}]

Index(maps) == [maps |-> maps, urls |-> 0]
Leaf(urls) == [maps |-> <<>>, urls |-> urls]

Mapped ==
    {[site |-> s, suite |-> {"security-headers", "sql-injection"}] :
        s \in {Maze,
               Sitemaps(<<"m">>, [m \in {"m"} |-> Index(<<"m">>)]),
               Sitemaps(<<"i", "e", "l", "l">>,
                        [m \in {"i", "l", "e"} |-> IF m = "i" THEN Index(<<"l", "l", "l">>)
                                                   ELSE IF m = "l" THEN Leaf(1) ELSE Leaf(0)])}}

\* Suites whose checks run side by side; one of the last raises.
Together ==
    {[site |-> Fan(Quiet, P("plain", {"nonce"}), P("plain", {"sql blind", "echoes"})),
      suite |-> {"sql-injection", "reflected-xss"}],
     [site |-> Fan(P("base", {"nonce", "trusts origins"}), P("login", {"nonce"}), P("object", {"open objects"})),
      suite |-> {"cors-misconfiguration", "idor", "cookie-flags"}],
     [site |-> Fan(P("base", {"storage root", "provider CNAME"}), P("plain", {}), P("plain", {})),
      suite |-> {"cloud-storage", "subdomain-takeover"}]}

\* A shell behind the pages that are timed.
Late ==
    {[site |-> Site(<<Quiet, P("plain", {}), P("plain", {"nonce"}), P("plain", {"blind shell"})>>,
                    <<<<2, 3, 4>>, <<>>, <<>>, <<>>>>),
      suite |-> {"command-injection"}]}

\* A weakness on two pages, of which one report may do, and one where no page is
\* of the kind the check is for.
Repeated ==
    UNION {{[site |-> Fan(Quiet, P("plain", {one}), P("login", {other})), suite |-> {c}] :
              one, other \in S!Weakness(c)} :
             c \in S!StopsAtFirst \cup {"token-audit", "command-injection"}}
    \cup {[site |-> Fan(P("base", {"expands"}), P("plain", {}), P("plain", {})), suite |-> {"xxe"}]}

AllScenarios == Weak \cup Heedful \cup Mapped \cup Together \cup Late \cup Repeated

-----------------------------------------------------------------------------
F(title, place, severity, confidence, by) ==
    [fingerprint |-> <<title, place>>, severity |-> severity, confidence |-> confidence, evidence |-> {by}]

Found ==
    [c \in {"crawl", "inject", "headers", "authz"} |->
        CASE c = "inject" -> {F("sql", 2, "high", "probable", "inject")}
          [] c = "headers" -> {F("csp", 1, "low", "confirmed", "headers")}
          [] c = "authz" -> {F("idor", 2, "medium", "tentative", "authz"), F("put", 1, "medium", "probable", "authz")}
          [] OTHER -> {}]

Endpoint == {<<"sql", 2>>, <<"idor", 2>>}

Line(name, capabilities) == [name |-> name, capabilities |-> capabilities]

Standard ==
    <<Line("mapper", {"crawl"}), Line("injection", {"inject"}), Line("access", {"authz", "headers"})>>

Plans ==
    {<<Line("one", {"crawl", "inject"}), Line("two", {"inject", "authz"}), Line("three", {"inject"})>>,
     <<Line("same", {"authz"}), Line("same", {"authz", "sources"})>>,
     <<Line("none", {"sources"})>>,
     <<Line("two", {"crawl"}), Line("four", {"headers", "authz"})>>}

Half == <<1, 2>>

-----------------------------------------------------------------------------
Manifests ==
    {"requirements", "pipfile", "pyproject", "poetry", "package.json", "go.mod", "cargo", "gemfile",
     "composer", "gradle"}

\* Each package at, below and above the bounds of its advisory, in one digit and two.
Releases ==
    [p \in {"django", "pyyaml", "lodash", "net", "openssl", "jackson", "rack"} |->
        CASE p = "django" -> {<<2, 9>>, <<3>>, <<3, 0>>, <<3, 2, 3>>, <<3, 2, 4>>, <<3, 2, 10>>, <<3, 10>>}
          [] p = "pyyaml" -> {<<5, 3, 1>>, <<5, 4>>, <<5, 4, 0>>, <<5, 10>>}
          [] p = "lodash" -> {<<4, 17, 3>>, <<4, 17, 21>>, <<4, 9, 30>>}
          [] p = "net" -> {<<0, 9, 0>>, <<0, 17, 0>>}
          [] p = "openssl" -> {<<0, 10, 54>>, <<0, 10, 55>>}
          [] p = "jackson" -> {<<2, 13, 2>>, <<2, 13, 2, 1>>, <<2, 13, 3>>}
          [] p = "rack" -> {<<2, 2, 2>>}]

Operators == {"", "=", "==", ">=", "<", "!=", "~", "~=", "~>", "^"}

Declarations ==
    UNION {{[manifest |-> m, package |-> p, op |-> o, version |-> v, upto |-> u] :
                v \in Releases[p], u \in (IF o = ">=" THEN {<<>>, <<9, 0>>} ELSE {<<>>})} :
              m \in Manifests, p \in DOMAIN Releases, o \in {"==", ">=", "<"}}
    \cup UNION {{[manifest |-> m, package |-> p, op |-> o, version |-> v, upto |-> <<>>] :
                v \in Releases[p]} :
              m \in Manifests, p \in {"django", "jackson", "rack"}, o \in Operators}
    \cup UNION {{[manifest |-> m, package |-> p, op |-> o, version |-> v, upto |-> <<>>] :
                v \in Releases[p]} :
              m \in {"package.json", "go.mod", "cargo", "gradle"},
              p \in {"lodash", "net", "openssl", "jackson"}, o \in {"", "=", "^"}}

On(mark, value) == [mark |-> mark, value |-> value]

Source(name, directory, suffix, text) ==
    [name |-> name, directory |-> directory, suffix |-> suffix, minified |-> FALSE, large |-> FALSE,
     readable |-> TRUE, lines |-> text]

Code ==
    <<{On("shell call", "genuine"), On("key header", "genuine")}, {},
      {On("assignment", "genuine"), On("assignment", "says example")}, {On("assignment", "repeated")},
      {On("weak hash", "genuine"), On("any origin", "genuine"), On("any host", "genuine")}>>

Trees ==
    {[declares |-> {}, above |-> above,
      files |-> <<Source("a", "src", ".py", Code), [Source("b", "src", ".py", Code) EXCEPT !.readable = FALSE],
                  Source("c", dir, suffix, Code)>>] :
        above \in {"home", "build"}, dir \in {"src", "node_modules"}, suffix \in {".py", ".js", ".png"}}
    \cup {[declares |-> {}, above |-> "home",
           files |-> <<Source("a", "src", ".py", Code), [Source("m", "src", ".js", Code) EXCEPT !.minified = TRUE],
                       [Source("l", "src", ".js", Code) EXCEPT !.large = TRUE], Source("p", "src", ".py", Code),
                       Source("q", "src", ".py", Code), Source("z", "src", ".py", Code)>>]}

\* One package and version in two manifests.
Twice ==
    {{[manifest |-> m, package |-> "django", op |-> "==", version |-> v, upto |-> <<>>],
      [manifest |-> "package.json", package |-> "django", op |-> "", version |-> v, upto |-> <<>>]} :
        m \in {"pyproject", "cargo"}, v \in Releases["django"]}

SourceTrees ==
    Trees \cup {[declares |-> ds, files |-> <<>>, above |-> "home"] :
                   ds \in {{d} : d \in Declarations} \cup Twice}
=============================================================================
