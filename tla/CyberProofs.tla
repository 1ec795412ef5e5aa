----------------------------- MODULE CyberProofs -----------------------------
(***************************************************************************)
(* Every assessment command implements Ledger; a swarm or an agent confirms  *)
(* and dismisses no more than it may; a crawl lists what it should; no check *)
(* infers a weakness from a target that does not heed it; an audit reports what*)
(* is in range and nothing else; sast reports what its rules match; a scan   *)
(* that nothing cuts short reports every weakness a page shows one of its    *)
(* checks: for any sites, suites, lines, plans, verdicts and source trees.   *)
(*                                                                           *)
(* Scanner, CyberAgent and Audit each extend Findings, so that the first     *)
(* lemma says that they speak of one store.  Merging upholds what it meets   *)
(* (ExtendGrows); the rest follows a finding from a check (ScanInv) or a     *)
(* line (LinesInv, Judged) into the store and from there to the report.  The *)
(* crawl is a breadth-first search (Search) that visits page by page (Visit). *)
(* What a heedless target answers is Dull, and dull responses show nothing.   *)
(* Compare finds which of two versions is older (CompareOrders); what audit   *)
(* and sast report is what they find in the tree (TreeInv).  What a check    *)
(* sends a place is a script (Script), and it goes through it to a finding   *)
(* where there is something to find (StepRuns); so it misses none of its     *)
(* places (Finds), whatever the other checks do (FindInv).                   *)
(***************************************************************************)
EXTENDS Cyber, TLAPS, FiniteSetTheorems

F == INSTANCE Findings

-----------------------------------------------------------------------------
(* Stores and what may be done to them *)

\* The components' instances of Findings are one.
LEMMA OneLedger ==
    /\ S!EmptyStore = F!EmptyStore
    /\ \A st, new : /\ S!Extend(st, new) = F!Extend(st, new)
                    /\ A!Extend(st, new) = F!Extend(st, new)
                    /\ T!Extend(st, new) = F!Extend(st, new)
    /\ \A st : A!All(st) = F!All(st)
    /\ \A f : A!IsFinding(f) <=> F!IsFinding(f)
    /\ L!Entries = [severity : F!Severities, confidence : F!Confidences]
    /\ \A old, new : L!Upholds(old, new) <=>
          /\ F!Weight(old.severity) <= F!Weight(new.severity)
          /\ old.confidence = "confirmed" => new.confidence = "confirmed"
<1>1. S!EmptyStore = F!EmptyStore
  BY DEF S!EmptyStore, F!EmptyStore
<1>2. ASSUME NEW st, NEW new PROVE S!Extend(st, new) = F!Extend(st, new)
  BY DEF S!Extend, F!Extend, S!Fingerprint, F!Fingerprint, S!Kept, F!Kept, S!Merge, F!Merge, S!Weight, F!Weight
<1>3. ASSUME NEW st, NEW new PROVE A!Extend(st, new) = F!Extend(st, new)
  BY DEF A!Extend, F!Extend, A!Fingerprint, F!Fingerprint, A!Kept, F!Kept, A!Merge, F!Merge, A!Weight, F!Weight
<1>4. ASSUME NEW st, NEW new PROVE T!Extend(st, new) = F!Extend(st, new)
  BY DEF T!Extend, F!Extend, T!Fingerprint, F!Fingerprint, T!Kept, F!Kept, T!Merge, F!Merge, T!Weight, F!Weight
<1>5. ASSUME NEW st PROVE A!All(st) = F!All(st)
  BY DEF A!All, F!All
<1>6. ASSUME NEW f PROVE A!IsFinding(f) <=> F!IsFinding(f)
  BY DEF A!IsFinding, F!IsFinding, A!Severities, F!Severities, A!Confidences, F!Confidences
<1>7. L!Entries = [severity : F!Severities, confidence : F!Confidences]
  BY DEF L!Entries, L!Severities, L!Confidences, F!Severities, F!Confidences
<1>8. ASSUME NEW old, NEW new
      PROVE  L!Upholds(old, new) <=>
                /\ F!Weight(old.severity) <= F!Weight(new.severity)
                /\ old.confidence = "confirmed" => new.confidence = "confirmed"
  BY DEF L!Upholds, L!Weight, F!Weight
<1> QED BY <1>1, <1>2, <1>3, <1>4, <1>5, <1>6, <1>7, <1>8

IsEntry(e) ==
    /\ e = [severity |-> e.severity, confidence |-> e.confidence, evidence |-> e.evidence]
    /\ F!IsFinding(e)

IsStore(st) == st = [k \in DOMAIN st |-> st[k]] /\ \A k \in DOMAIN st : IsEntry(st[k])

\* The value that stands for no report is not a store.
NoneIsNoStore == ~ IsStore(None)

\* Nothing of old is lost, lowered or taken back in new.
Upholds(old, new) ==
    /\ F!Weight(old.severity) <= F!Weight(new.severity)
    /\ old.confidence = "confirmed" => new.confidence = "confirmed"

Higher(old, new) ==
    /\ DOMAIN old \subseteq DOMAIN new
    /\ \A k \in DOMAIN old : Upholds(old[k], new[k])

LEMMA Limits ==
    /\ {MaxRequests, MaxDepth, MaxPages} \subseteq Nat
    /\ MaxDismissed[1] \in Nat /\ MaxDismissed[2] \in Nat
    /\ Protected \in F!Severities
<1>1. {MaxRequests, MaxDepth} \subseteq Nat /\ MaxPages \in Nat BY CyberAssumption
<1>2. MaxDismissed[1] \in Nat /\ MaxDismissed[2] \in Nat BY CyberAssumption
<1>3. Protected \in F!Severities
  <2>1. S!Severities = F!Severities BY DEF S!Severities, F!Severities
  <2> QED BY <2>1, CyberAssumption, Zenon
<1> QED BY <1>1, <1>2, <1>3

LEMMA WeightType == \A s \in F!Severities : F!Weight(s) \in 0 .. 4
BY DEF F!Severities, F!Weight

LEMMA HigherSame == ASSUME NEW st, IsStore(st) PROVE Higher(st, st)
BY WeightType DEF Higher, Upholds, IsStore, IsEntry, F!IsFinding

LEMMA KeptEntry == ASSUME NEW f, F!IsFinding(f) PROVE IsEntry(F!Kept(f))
BY DEF IsEntry, F!IsFinding, F!Kept

LEMMA MergedEntry ==
    ASSUME NEW old, IsEntry(old), NEW f, F!IsFinding(f)
    PROVE  IsEntry(F!Merge(old, f)) /\ Upholds(old, F!Merge(old, f))
BY WeightType DEF IsEntry, F!IsFinding, F!Merge, Upholds

The(new, k) == CHOOSE f \in new : F!Fingerprint(f) = k
Keys(new) == {F!Fingerprint(f) : f \in new}

LEMMA ExtendShape ==
    ASSUME NEW st, NEW new
    PROVE  F!Extend(st, new) = [k \in DOMAIN st \cup Keys(new) |->
              IF k \notin Keys(new) THEN st[k]
              ELSE IF k \notin DOMAIN st THEN F!Kept(The(new, k))
              ELSE F!Merge(st[k], The(new, k))]
BY DEF F!Extend, Keys, The

LEMMA TheIsThere ==
    ASSUME NEW new, NEW k \in Keys(new)
    PROVE  The(new, k) \in new /\ F!Fingerprint(The(new, k)) = k
BY DEF Keys, The

LEMMA ExtendGrows ==
    ASSUME NEW st, IsStore(st), NEW new, \A f \in new : F!IsFinding(f)
    PROVE  IsStore(F!Extend(st, new)) /\ Higher(st, F!Extend(st, new))
<1> DEFINE result == F!Extend(st, new)
<1>1. result = [k \in DOMAIN st \cup Keys(new) |->
                  IF k \notin Keys(new) THEN st[k]
                  ELSE IF k \notin DOMAIN st THEN F!Kept(The(new, k))
                  ELSE F!Merge(st[k], The(new, k))]
  BY ExtendShape
<1>2. DOMAIN result = DOMAIN st \cup Keys(new) BY <1>1
<1>3. ASSUME NEW k \in DOMAIN result
      PROVE  IsEntry(result[k]) /\ (k \in DOMAIN st => Upholds(st[k], result[k]))
  <2>1. CASE k \notin Keys(new)
    <3>1. result[k] = st[k] /\ k \in DOMAIN st BY <1>1, <1>2, <2>1
    <3>2. IsEntry(st[k]) /\ Upholds(st[k], st[k])
      BY <3>1, WeightType DEF IsStore, IsEntry, F!IsFinding, Upholds
    <3> QED BY <3>1, <3>2
  <2>2. CASE k \in Keys(new) /\ k \notin DOMAIN st
    <3>1. result[k] = F!Kept(The(new, k)) BY <1>1, <1>2, <2>2
    <3>2. F!IsFinding(The(new, k)) BY <2>2, TheIsThere
    <3> QED BY <2>2, <3>1, <3>2, KeptEntry
  <2>3. CASE k \in Keys(new) /\ k \in DOMAIN st
    <3>1. result[k] = F!Merge(st[k], The(new, k)) BY <1>1, <1>2, <2>3
    <3>2. F!IsFinding(The(new, k)) /\ IsEntry(st[k]) BY <2>3, TheIsThere DEF IsStore
    <3> QED BY <3>1, <3>2, MergedEntry
  <2> QED BY <2>1, <2>2, <2>3
<1>4. result = [k \in DOMAIN result |-> result[k]] BY <1>1
<1> HIDE DEF result
<1> QED BY <1>2, <1>3, <1>4 DEF IsStore, Higher, result

\* What Ledger asks of a step that records or reports.
LEMMA LedgerStep ==
    ASSUME NoneIsNoStore, IsStore(store), IsStore(store'), Higher(store, store'),
           report = None, report' = None \/ report' = store'
    PROVE  L!Next
<1>1. L!Grows(Recorded, Recorded')
  <2>1. \A k \in DOMAIN store : Entry(store[k]) \in L!Entries
    BY OneLedger DEF IsStore, IsEntry, F!IsFinding, Entry
  <2>2. \A k \in DOMAIN store' : Entry(store'[k]) \in L!Entries
    BY OneLedger DEF IsStore, IsEntry, F!IsFinding, Entry
  <2>3. DOMAIN Recorded = DOMAIN store /\ \A k \in DOMAIN store : Recorded[k] = Entry(store[k])
    BY DEF Recorded
  <2>4. /\ Recorded' = [k \in DOMAIN store' |-> Entry(store'[k])]
        /\ DOMAIN Recorded' = DOMAIN store'
        /\ \A k \in DOMAIN store' : (Recorded')[k] = Entry(store'[k])
    BY DEF Recorded
  <2>5. Recorded' \in [DOMAIN Recorded' -> L!Entries] BY <2>2, <2>4
  <2>6. ASSUME NEW k \in DOMAIN store PROVE L!Upholds(Entry(store[k]), Entry(store'[k]))
    BY OneLedger DEF Higher, Upholds, Entry
  <2>7. \A k \in DOMAIN Recorded : L!Upholds(Recorded[k], (Recorded')[k])
    BY <2>3, <2>4, <2>6 DEF Higher
  <2> QED BY <2>3, <2>4, <2>5, <2>7 DEF L!Grows, Higher
<1>2. Published = None BY DEF Published
<1>3. CASE report' = None
  BY <1>1, <1>2, <1>3 DEF L!Next, L!Record, Published
<1>4. CASE report' = store'
  <2>1. report' # None BY <1>4 DEF NoneIsNoStore
  <2>2. Published' = Recorded' BY <1>4, <2>1 DEF Published, Recorded
  <2> QED BY <1>1, <1>2, <2>2 DEF L!Next, L!Publish
<1> QED BY <1>3, <1>4

-----------------------------------------------------------------------------
(* The checks report findings *)

Sound(outcome) == \A f \in outcome.report : F!IsFinding(f)

LEMMA StepForms ==
    /\ \A request : Sound(S!Ask(request))
    /\ Sound(S!Nothing) /\ Sound(S!Raise)
    /\ \A found : (\A f \in found : F!IsFinding(f)) => Sound(S!Report(found))
BY DEF Sound, S!Ask, S!Nothing, S!Raise, S!Report

LEMMA FindingForm ==
    \A title : \A severity \in F!Severities, confidence \in F!Confidences :
       F!IsFinding(S!Finding(title, severity, confidence))
BY DEF S!Finding, F!IsFinding

LEMMA Names ==
    /\ {"info", "low", "medium", "high", "critical"} \subseteq F!Severities
    /\ {"tentative", "probable", "confirmed"} \subseteq F!Confidences
BY DEF F!Severities, F!Confidences

LEMMA StepReports ==
    ASSUME NEW c \in S!CheckNames, NEW place, NEW n, NEW h, NEW found
    PROVE  Sound(S!Step(c, place, n, h, found))
<1>1. Sound(S!SQLInjection(h)) BY StepForms, FindingForm, Names, Zenon DEF S!When, S!SQLInjection
<1>2. Sound(S!XSS(h)) BY StepForms, FindingForm, Names, Zenon DEF S!XSS, S!UpToHit
<1>3. Sound(S!TemplateInjection(h)) BY StepForms, FindingForm, Names, Zenon DEF S!TemplateInjection, S!UpToHit
<1>4. Sound(S!PathTraversal(h)) BY StepForms, FindingForm, Names, Zenon DEF S!PathTraversal, S!UpToHit
<1>5. Sound(S!CommandInjection(h, n, found)) BY StepForms, FindingForm, Names, Zenon DEF S!When, S!CommandInjection
<1>6. Sound(S!NoSQLInjection(h)) BY StepForms, FindingForm, Names, Zenon DEF S!NoSQLInjection, S!UpToHit
<1>7. Sound(S!XXE(h)) BY StepForms, FindingForm, Names, Zenon DEF S!When, S!XXE
<1>8. Sound(S!SSRF(h))
  <2> DEFINE paths == <<"loopback", "link-local", "reserved-tld", "file-scheme">>
             shows(path, r) == IF r.error THEN {} ELSE S!Classify(path, r)
             shown == UNION {shows(paths[i], Tail(h)[i]) : i \in 1 .. Len(paths)}
  <2>1. \A path, r : \A f \in shows(path, r) : F!IsFinding(f)
    BY FindingForm, Names, Zenon DEF S!Classify, S!When
  <2> HIDE DEF shows
  <2>2. \A f \in shown : F!IsFinding(f) BY <2>1, Zenon
  <2> HIDE DEF shown
  <2>3. Sound(S!Report(shown)) /\ \A request : Sound(S!Ask(request)) BY <2>2, StepForms, Zenon
  <2> QED BY <2>3, StepForms, Zenon DEF shown, shows, S!EachOf, S!SSRF
<1>9. Sound(S!IDOR(h))
  <2>1. Sound(S!Report({S!Finding("idor", "medium", "tentative")})) /\ Sound(S!Report({}))
    BY StepForms, FindingForm, Names, Zenon
  <2>2. Sound(S!Ask("original")) /\ Sound(S!Ask("neighbour")) /\ Sound(S!Nothing) BY StepForms
  <2> QED BY <2>1, <2>2, Zenon DEF S!When, S!IDOR
<1>10. Sound(S!HTTPMethods(h))
  <2> DEFINE paths == S!Permitted("TRACE") \o S!Permitted("PROPFIND") \o S!Permitted("OPTIONS")
             shows(verb, r) ==
                IF verb = "OPTIONS"
                THEN S!When(~r.error /\ "allow: PUT" \in r.header,
                            S!Finding("PUT", "low", "probable"))
                ELSE S!When(~r.error /\ r.status \in {200, 201, 204},
                            S!Finding(verb, "medium", "confirmed"))
             shown == UNION {shows(paths[i], h[i]) : i \in 1 .. Len(paths)}
  <2>1. \A path, r : \A f \in shows(path, r) : F!IsFinding(f)
    BY FindingForm, Names, Zenon DEF S!When
  <2> HIDE DEF shows
  <2>2. \A f \in shown : F!IsFinding(f) BY <2>1, Zenon
  <2> HIDE DEF shown
  <2>3. Sound(S!Report(shown)) /\ \A request : Sound(S!Ask(request)) BY <2>2, StepForms, Zenon
  <2> QED BY <2>3, Zenon DEF shown, shows, S!EachOf, S!HTTPMethods
<1>11. Sound(S!OpenRedirect(h)) BY StepForms, FindingForm, Names, Zenon DEF S!OpenRedirect, S!UpToHit
<1>12. Sound(S!Transport(h, place))
  <2> DEFINE short(r) == S!When("hsts without max-age" \in r.header,
                                S!Finding("HSTS max-age", "info", "confirmed"))
             none(r) == S!When("hsts" \notin r.header, S!Finding("no HSTS", "low", "confirmed"))
             shown(r) == none(r) \cup short(r)
  <2>1. \A r : \A f \in none(r) : F!IsFinding(f) BY FindingForm, Names, Zenon DEF S!When
  <2>2. \A r : \A f \in short(r) : F!IsFinding(f) BY FindingForm, Names, Zenon DEF S!When
  <2> HIDE DEF none, short
  <2>3. \A r : \A f \in shown(r) : F!IsFinding(f) BY <2>1, <2>2, Zenon
  <2> HIDE DEF shown
  <2>4. \A r : Sound(S!Report(shown(r))) BY <2>3, StepForms, Zenon
  <2>5. Sound(S!Report({S!Finding("no HTTPS", "medium", "confirmed")}))
    BY StepForms, FindingForm, Names, Zenon
  <2>6. Sound(S!Nothing) /\ Sound(S!Ask("GET")) BY StepForms
  <2> QED BY <2>4, <2>5, <2>6, Zenon DEF shown, none, short, S!Transport
<1>13. Sound(S!SensitiveFiles(h))
  <2> DEFINE paths == S!SENSITIVE_PATHS
             hit(r) == S!Ok(r) /\ r.status = 200 /\ r.page # "blank" /\ "not found" \notin r.body
             shows(path, r) ==
                S!When(hit(r), S!Finding(path, S!SeverityOf(path), "confirmed"))
             shown == UNION {shows(paths[i], h[i]) : i \in 1 .. Len(paths)}
  <2>1. \A path : S!SeverityOf(path) \in F!Severities BY Names, Zenon DEF S!SeverityOf
  <2>2. \A path : F!IsFinding(S!Finding(path, S!SeverityOf(path), "confirmed"))
    BY <2>1, FindingForm, Names, Zenon
  <2> HIDE DEF hit
  <2>3. \A path, r : \A f \in shows(path, r) : F!IsFinding(f) BY <2>2, Zenon DEF S!When
  <2> HIDE DEF shows
  <2>4. \A f \in shown : F!IsFinding(f) BY <2>3, Zenon
  <2> HIDE DEF shown
  <2>5. Sound(S!Report(shown)) /\ \A request : Sound(S!Ask(request)) BY <2>4, StepForms, Zenon
  <2> QED BY <2>5, Zenon DEF shown, shows, hit, S!EachOf, S!SensitiveFiles
<1>14. Sound(S!DirectoryListing(h))
  <2> DEFINE paths == <<"/", "/uploads/">>
             shows(path, r) == S!When(S!Ok(r) /\ "index of" \in r.body,
                                      S!Finding(path, "medium", "confirmed"))
             shown == UNION {shows(paths[i], h[i]) : i \in 1 .. Len(paths)}
  <2>1. \A path, r : \A f \in shows(path, r) : F!IsFinding(f) BY FindingForm, Names, Zenon DEF S!When
  <2> HIDE DEF shows
  <2>2. \A f \in shown : F!IsFinding(f) BY <2>1, Zenon
  <2> HIDE DEF shown
  <2>3. Sound(S!Report(shown)) /\ \A request : Sound(S!Ask(request)) BY <2>2, StepForms, Zenon
  <2> QED BY <2>3, Zenon DEF shown, shows, S!DirectoryListing, S!EachOf
<1>15. Sound(S!VerboseErrors(h)) BY StepForms, FindingForm, Names, Zenon DEF S!VerboseErrors, S!UpToHit
<1>16. Sound(S!CORS(h)) BY StepForms, FindingForm, Names, Zenon DEF S!When, S!CORS
<1>17. Sound(S!AdminSurface(h))
  <2> DEFINE paths == S!ADMIN_PATHS
             severity(path) == IF path = "/console" THEN "high" ELSE "medium"
             hit(r) == /\ ~r.error /\ r.status = 200 /\ "not found" \notin r.body
                       /\ "panel" \in r.body
             shows(path, r) == S!When(hit(r), S!Finding(path, severity(path), "confirmed"))
             shown == UNION {shows(paths[i], h[i]) : i \in 1 .. Len(paths)}
  <2>1. \A path : severity(path) \in F!Severities BY Names, Zenon
  <2> HIDE DEF severity
  <2>2. \A path : F!IsFinding(S!Finding(path, severity(path), "confirmed"))
    BY <2>1, FindingForm, Names, Zenon
  <2> HIDE DEF hit
  <2>3. \A path, r : \A f \in shows(path, r) : F!IsFinding(f) BY <2>2, Zenon DEF S!When
  <2> HIDE DEF shows
  <2>4. \A f \in shown : F!IsFinding(f) BY <2>3, Zenon
  <2> HIDE DEF shown
  <2>5. Sound(S!Report(shown)) /\ \A request : Sound(S!Ask(request)) BY <2>4, StepForms, Zenon
  <2> QED BY <2>5, Zenon DEF shown, shows, hit, severity, S!EachOf, S!AdminSurface
<1>18. Sound(S!GraphQL(h)) BY StepForms, FindingForm, Names, Zenon DEF S!GraphQL, S!UpToHit
<1>19. Sound(S!Headers(h, place)) BY StepForms, FindingForm, Names, Zenon DEF S!Headers
<1>20. Sound(S!Cookies(h)) BY StepForms, FindingForm, Names, Zenon DEF S!When, S!Cookies
<1>21. Sound(S!Tokens(h, place, n, found))
  <2> DEFINE given(token) == \E f \in found, g \in S!AuditJwt(token) : f.title = g.title
             tokens == {t \in {"unsigned jwt", "loose jwt"} :
                           t \in h[1].body \/ (n = 1 /\ t \in h[1].header)}
             jwts == UNION {S!AuditJwt(t) : t \in {u \in tokens : ~given(u)}}
             session == S!When(n = 1 /\ "cookie session" \in h[1].header,
                               S!Finding("short session", "medium", "probable"))
             url == S!When(place.kind = "token", S!Finding("token in URL", "medium", "confirmed"))
             shown == jwts \cup session \cup url
  <2>1. \A token : \A f \in S!AuditJwt(token) : F!IsFinding(f)
    BY FindingForm, Names, Zenon DEF S!AuditJwt
  <2>2. F!IsFinding(S!Finding("short session", "medium", "probable"))
    BY FindingForm, Names, Zenon
  <2>3. F!IsFinding(S!Finding("token in URL", "medium", "confirmed"))
    BY FindingForm, Names, Zenon
  <2> HIDE DEF tokens
  <2>4. \A f \in jwts : F!IsFinding(f) BY <2>1, Zenon
  <2>5. \A f \in session : F!IsFinding(f) BY <2>2, Zenon DEF S!When
  <2>6. \A f \in url : F!IsFinding(f) BY <2>3, Zenon DEF S!When
  <2> HIDE DEF jwts, session, url
  <2>7. \A f \in shown : F!IsFinding(f) BY <2>4, <2>5, <2>6, Zenon
  <2> HIDE DEF shown
  <2>8. Sound(S!Report(shown)) BY <2>7, StepForms, Zenon
  <2>9. S!Tokens(h, place, n, found) =
           IF Len(h) = 0 THEN S!Ask("GET") ELSE IF h[1].error THEN S!Nothing ELSE S!Report(shown)
    BY Zenon DEF shown, jwts, session, url, tokens, S!Tokens
  <2>10. Sound(S!Ask("GET")) /\ Sound(S!Nothing) BY StepForms
  <2> QED BY <2>8, <2>9, <2>10, Zenon
<1>22. Sound(S!CRLFInjection(h)) BY StepForms, FindingForm, Names, Zenon DEF S!CRLFInjection, S!UpToHit
<1>23. Sound(S!HostHeader(h)) BY StepForms, FindingForm, Names, Zenon DEF S!HostHeader, S!UpToHit
<1>24. Sound(S!SubdomainTakeover(h, place))
  <2>1. Sound(S!Report({S!Finding("takeover", "high", "confirmed")}))
    BY StepForms, FindingForm, Names, Zenon
  <2>2. Sound(S!Nothing) /\ \A request : Sound(S!Ask(request)) BY StepForms
  <2> QED BY <2>1, <2>2, Zenon DEF S!SubdomainTakeover, S!UpToHit
<1>25. Sound(S!CloudStorage(h, place))
  <2>1. Sound(S!Report({S!Finding("listing", "high", "confirmed")}))
    BY StepForms, FindingForm, Names, Zenon
  <2>2. Sound(S!Nothing) /\ Sound(S!Raise) /\ Sound(S!Ask("listing")) BY StepForms
  <2> QED BY <2>1, <2>2, Zenon DEF S!CloudStorage
<1>26. QED
  BY <1>1, <1>2, <1>3, <1>4, <1>5, <1>6, <1>7, <1>8, <1>9, <1>10, <1>11, <1>12, <1>13,
     <1>14, <1>15, <1>16, <1>17, <1>18, <1>19, <1>20, <1>21, <1>22, <1>23, <1>24, <1>25
     DEF S!Step, S!CheckNames

-----------------------------------------------------------------------------
(* A scan *)

IsProgress(x) == x = [number |-> x.number, history |-> x.history, found |-> x.found, over |-> x.over]

ChecksInv ==
    /\ checks = [c \in DOMAIN checks |-> checks[c]]
    /\ DOMAIN checks \subseteq S!CheckNames
    /\ \A c \in DOMAIN checks : IsProgress(checks[c]) /\ \A f \in checks[c].found : F!IsFinding(f)

ScanInv ==
    /\ suite \subseteq S!CheckNames
    /\ ChecksInv
    /\ stage # "done" => report = None

\* What a step of any command is to the ledger.
Records == /\ report = None
           /\ report' = None \/ report' = store'
           /\ IsStore(store') /\ Higher(store, store')

LEMMA ScanStarts == S!ScanInit(Scenarios) /\ report = None => ScanInv
<1> SUFFICES ASSUME S!ScanInit(Scenarios), report = None PROVE ScanInv
  OBVIOUS
<1>1. suite \subseteq S!CheckNames BY CyberAssumption DEF S!ScanInit
<1>2. checks = [c \in {} |-> S!Started] /\ DOMAIN checks = {} BY DEF S!ScanInit
<1> QED BY <1>1, <1>2 DEF ScanInv, ChecksInv

Progress(number, history, found, over) ==
    [number |-> number, history |-> history, found |-> found, over |-> over]

LEMMA ProgressFields ==
    ASSUME NEW n, NEW h, NEW f, NEW o
    PROVE  /\ IsProgress(Progress(n, h, f, o))
           /\ Progress(n, h, f, o).number = n /\ Progress(n, h, f, o).history = h
           /\ Progress(n, h, f, o).found = f /\ Progress(n, h, f, o).over = o
BY DEF Progress, IsProgress

\* Check c is now here, and the other checks are where they were.
Moves(c, number, history, found) ==
    /\ DOMAIN checks' = DOMAIN checks
    /\ \A d \in DOMAIN checks : d # c => checks'[d] = checks[d]
    /\ checks'[c].number = number /\ checks'[c].history = history /\ checks'[c].found = found

LEMMA AsksInv ==
    ASSUME ChecksInv, NEW c \in DOMAIN checks, NEW response,
           checks' = [checks EXCEPT ![c].history = Append(@, response)]
    PROVE  /\ ChecksInv'
           /\ Moves(c, checks[c].number, Append(checks[c].history, response), checks[c].found)
           /\ checks'[c].over = checks[c].over
<1>1. DOMAIN checks' = DOMAIN checks /\ checks' = [d \in DOMAIN checks' |-> checks'[d]]
  BY DEF ChecksInv
<1>2. /\ IsProgress(checks'[c]) /\ checks'[c].found = checks[c].found
      /\ checks'[c].number = checks[c].number
      /\ checks'[c].history = Append(checks[c].history, response)
      /\ checks'[c].over = checks[c].over
  <2> DEFINE h == Append(checks[c].history, response)
             x == checks[c]
  <2>1. x = Progress(x.number, x.history, x.found, x.over) BY DEF ChecksInv, IsProgress, Progress
  <2>2. checks'[c] = [x EXCEPT !.history = h] BY DEF ChecksInv
  <2> HIDE DEF h, x
  <2>3. checks'[c] = Progress(x.number, h, x.found, x.over) BY <2>1, <2>2 DEF Progress
  <2>4. /\ IsProgress(checks'[c]) /\ checks'[c].found = x.found
        /\ checks'[c].number = x.number /\ checks'[c].history = h
        /\ checks'[c].over = x.over
    BY <2>3, ProgressFields
  <2> QED BY <2>4 DEF h, x
<1>3. \A d \in DOMAIN checks : d # c => checks'[d] = checks[d] BY DEF ChecksInv
<1>4. \A d \in DOMAIN checks : IsProgress(checks'[d]) /\ checks'[d].found = checks[d].found
  BY <1>2, <1>3 DEF ChecksInv
<1> QED BY <1>1, <1>2, <1>3, <1>4 DEF ChecksInv, Moves

LEMMA ConcludesInv ==
    ASSUME ChecksInv, NEW c \in DOMAIN checks, S!CheckConcludes(c)
    PROVE  /\ ChecksInv'
           /\ Moves(c, checks[c].number + 1, <<>>,
                    checks[c].found \cup {S!Located(f, c) : f \in S!Does(c).report})
           /\ checks'[c].over = (c \in S!StopsAtFirst /\ {S!Located(f, c) : f \in S!Does(c).report} # {})
<1> DEFINE new == {S!Located(f, c) : f \in S!Does(c).report}
           halts == c \in S!StopsAtFirst /\ new # {}
<1>1. \A f \in new : F!IsFinding(f)
  <2>1. Sound(S!Does(c)) BY StepReports DEF S!Does, ChecksInv
  <2> QED BY <2>1 DEF Sound, S!Located, F!IsFinding
<1>2. checks' = [checks EXCEPT ![c].number = @ + 1, ![c].history = <<>>,
                               ![c].found = @ \cup new, ![c].over = halts]
  BY DEF S!CheckConcludes
<1> HIDE DEF new, halts
<1>3. DOMAIN checks' = DOMAIN checks /\ checks' = [d \in DOMAIN checks' |-> checks'[d]]
  BY <1>2 DEF ChecksInv
<1>4. /\ IsProgress(checks'[c]) /\ checks'[c].found = checks[c].found \cup new
      /\ checks'[c].number = checks[c].number + 1 /\ checks'[c].history = <<>>
      /\ checks'[c].over = halts
  <2> DEFINE x == checks[c]
             n == x.number + 1
             e == <<>>
             f == x.found \cup new
  <2>1. x = Progress(x.number, x.history, x.found, x.over) BY DEF ChecksInv, IsProgress, Progress
  <2>2. checks'[c] = [x EXCEPT !.number = n, !.history = e, !.found = f, !.over = halts]
    BY <1>2 DEF ChecksInv
  <2> HIDE DEF x, n, e, f
  <2> DEFINE y == [x EXCEPT !.number = n]
             z == [y EXCEPT !.history = e]
             w == [z EXCEPT !.found = f]
  <2>3. y = Progress(n, x.history, x.found, x.over) BY <2>1 DEF Progress
  <2>4. checks'[c] = [w EXCEPT !.over = halts] BY <2>2
  <2> HIDE DEF y
  <2>5. z = Progress(n, e, x.found, x.over) BY <2>3 DEF Progress
  <2> HIDE DEF z
  <2>6. w = Progress(n, e, f, x.over) BY <2>5 DEF Progress
  <2> HIDE DEF w
  <2>7. checks'[c] = Progress(n, e, f, halts) BY <2>4, <2>6 DEF Progress
  <2> QED BY <2>7, ProgressFields DEF f, x, n, e
<1>5. ASSUME NEW d \in DOMAIN checks, d # c PROVE checks'[d] = checks[d]
  BY <1>2, <1>5 DEF ChecksInv
<1>6. ASSUME NEW d \in DOMAIN checks
      PROVE  IsProgress(checks'[d]) /\ \A f \in checks'[d].found : F!IsFinding(f)
  BY <1>1, <1>4, <1>5 DEF ChecksInv
<1> QED BY <1>3, <1>4, <1>5, <1>6 DEF ChecksInv, Moves, new, halts

LEMMA RaisesInv ==
    ASSUME ChecksInv, NEW c \in DOMAIN checks, S!CheckRaises(c)
    PROVE  ChecksInv' /\ Moves(c, checks[c].number, checks[c].history, {}) /\ checks'[c].over = TRUE
<1> DEFINE yes == TRUE
<1>2. checks' = [checks EXCEPT ![c].found = {}, ![c].over = yes]
  BY DEF S!CheckRaises
<1> HIDE DEF yes
<1>3. DOMAIN checks' = DOMAIN checks /\ checks' = [d \in DOMAIN checks' |-> checks'[d]]
  BY <1>2 DEF ChecksInv
<1>4. /\ IsProgress(checks'[c]) /\ checks'[c].found = {}
      /\ checks'[c].number = checks[c].number /\ checks'[c].history = checks[c].history
      /\ checks'[c].over = yes
  <2> DEFINE x == checks[c]
             none == {}
             w == [x EXCEPT !.found = none]
  <2>1. x = Progress(x.number, x.history, x.found, x.over) BY DEF ChecksInv, IsProgress, Progress
  <2>2. checks'[c] = [w EXCEPT !.over = yes] BY <1>2 DEF ChecksInv
  <2> HIDE DEF x, none
  <2>3. w = Progress(x.number, x.history, none, x.over) BY <2>1 DEF Progress
  <2> HIDE DEF w
  <2>4. checks'[c] = Progress(x.number, x.history, none, yes) BY <2>2, <2>3 DEF Progress
  <2> QED BY <2>4, ProgressFields DEF none, x
<1>5. ASSUME NEW d \in DOMAIN checks, d # c PROVE checks'[d] = checks[d]
  BY <1>2, <1>5 DEF ChecksInv
<1>6. ASSUME NEW d \in DOMAIN checks
      PROVE  IsProgress(checks'[d]) /\ \A f \in checks'[d].found : F!IsFinding(f)
  BY <1>4, <1>5 DEF ChecksInv
<1> QED BY <1>3, <1>4, <1>5, <1>6 DEF ChecksInv, Moves, yes

LEMMA ScanStep ==
    ASSUME ScanInv, IsStore(store), S!ScanNext
    PROVE  ScanInv' /\ Records
<1>1. CASE S!Probe \/ S!CrawlPage \/ S!CrawlEnds \/ S!Robots \/ S!Sitemap
  <2>1. /\ UNCHANGED <<suite, checks, store, report>>
        /\ stage # "done" /\ stage' # "done"
    BY <1>1, Zenon DEF S!Probe, S!CrawlPage, S!CrawlEnds, S!Robots, S!Sitemap, S!mapVars
  <2> QED BY <2>1, HigherSame DEF ScanInv, ChecksInv, Records
<1>2. CASE S!StartChecks
  <2> DEFINE new == {S!ReconFinding(rule) : rule \in rules}
  <2>1. \A f \in new : F!IsFinding(f) BY Names DEF S!ReconFinding, F!IsFinding
  <2>2. store' = F!Extend(store, new) BY <1>2, OneLedger DEF S!StartChecks
  <2> HIDE DEF new
  <2>3. IsStore(store') /\ Higher(store, store') BY <2>1, <2>2, ExtendGrows
  <2>4. stage # "done" /\ UNCHANGED <<suite, report>> /\ checks' = [c \in S!Chosen |-> S!Started]
    BY <1>2 DEF S!StartChecks
  <2>5. S!Chosen \subseteq suite BY DEF S!Chosen
  <2>6. IsProgress(S!Started) /\ S!Started.found = {} BY DEF S!Started, IsProgress
  <2>7. ChecksInv' BY <2>4, <2>5, <2>6 DEF ScanInv, ChecksInv
  <2> QED BY <2>3, <2>4, <2>7 DEF ScanInv, Records
<1>3. CASE S!Finish
  <2>1. \A f \in S!Produced : F!IsFinding(f) BY DEF S!Produced, ScanInv, ChecksInv
  <2>2. store' = F!Extend(store, S!Produced) BY <1>3, OneLedger DEF S!Finish
  <2>3. IsStore(store') /\ Higher(store, store') BY <2>1, <2>2, ExtendGrows
  <2>4. stage # "done" /\ stage' = "done" /\ report' = store' /\ UNCHANGED <<suite, checks>>
    BY <1>3 DEF S!Finish
  <2> QED BY <2>3, <2>4 DEF ScanInv, ChecksInv, Records
<1>4. ASSUME NEW c \in DOMAIN checks, S!CheckAsks(c) \/ S!CheckConcludes(c) \/ S!CheckRaises(c)
      PROVE  ScanInv' /\ Records
  <2>1. stage = "checks" /\ UNCHANGED <<suite, stage, store, report>>
    BY <1>4, Zenon DEF S!CheckAsks, S!CheckConcludes, S!CheckRaises, S!Visiting
  <2>2. ChecksInv'
    <3>1. CASE S!CheckAsks(c)
      <4>1. PICK response : checks' = [checks EXCEPT ![c].history = Append(@, response)]
        BY <3>1, Zenon DEF S!CheckAsks
      <4> QED BY <4>1, AsksInv DEF ScanInv
    <3>2. CASE S!CheckConcludes(c) BY <3>2, ConcludesInv DEF ScanInv
    <3>3. CASE S!CheckRaises(c) BY <3>3, RaisesInv DEF ScanInv
    <3> QED BY <1>4, <3>1, <3>2, <3>3
  <2> QED BY <2>1, <2>2, HigherSame DEF ScanInv, Records
<1> QED BY <1>1, <1>2, <1>3, <1>4 DEF S!ScanNext

-----------------------------------------------------------------------------
(* Audits *)

LEMMA AuditStep ==
    ASSUME IsStore(store), T!AuditDependencies PROVE Records
<1> DEFINE new == UNION {T!FindingsOf(d) : d \in project.declares}
<1>1. ASSUME NEW d, NEW f \in T!FindingsOf(d) PROVE F!IsFinding(f)
  <2>1. \E a, n, v : f = T!AdvisoryFinding(a, n, v) BY Zenon DEF T!FindingsOf
  <2> QED BY <2>1, Names DEF T!AdvisoryFinding, F!IsFinding
<1>2. \A f \in new : F!IsFinding(f) BY <1>1, Zenon
<1>3. report = None /\ report' = store' /\ store' = F!Extend(store, new)
  BY OneLedger DEF T!AuditDependencies
<1> HIDE DEF new
<1> QED BY <1>2, <1>3, ExtendGrows DEF Records

LEMMA LineFindings ==
    ASSUME NEW file, NEW text, NEW f \in T!ScanLine(file, text) PROVE F!IsFinding(f)
<1> DEFINE Rated(set) == \A r \in set : r.severity \in F!Severities
<1>1. Rated(T!SecretRules) /\ Rated(T!SinkRules) /\ Rated(T!MisconfigRules)
  <2>1. {"critical", "high", "medium"} \subseteq F!Severities BY Names
  <2> DEFINE secret(m, v, e) == [mark |-> m, severity |-> v, entropy |-> e]
             rule(m, v, languages) == [mark |-> m, severity |-> v, languages |-> languages]
  <2>2. \A m, v, e : secret(m, v, e).severity = v /\ rule(m, v, e).severity = v OBVIOUS
  <2>3. /\ \A r \in T!SecretRules : \E m, e : \E v \in {"critical", "high"} : r = secret(m, v, e)
        /\ \A r \in T!SinkRules \cup T!MisconfigRules :
              \E m, e : \E v \in {"critical", "medium"} : r = rule(m, v, e)
    BY Zenon DEF T!SecretRules, T!SinkRules, T!MisconfigRules
  <2> HIDE DEF secret, rule
  <2>4. ASSUME NEW r \in T!SecretRules PROVE r.severity \in F!Severities
    <3>1. PICK m, e : \E v \in {"critical", "high"} : r = secret(m, v, e) BY <2>3
    <3> QED BY <2>1, <2>2, <3>1
  <2>5. ASSUME NEW r \in T!SinkRules \cup T!MisconfigRules PROVE r.severity \in F!Severities
    <3>1. PICK m, e : \E v \in {"critical", "medium"} : r = rule(m, v, e) BY <2>3
    <3> QED BY <2>1, <2>2, <3>1
  <2> QED BY <2>4, <2>5
<1>2. ASSUME f \in T!Secrets(file, text)
      PROVE  \E r \in T!SecretRules :
                f = [rule |-> r.mark, severity |-> r.severity, confidence |-> "confirmed"]
  BY <1>2, Zenon DEF T!Secrets
<1>3. ASSUME NEW set, f \in T!Matched(set, file, text)
      PROVE  \E r \in set :
                f = [rule |-> r.mark, severity |-> r.severity, confidence |-> "probable"]
  BY <1>3, Zenon DEF T!Matched
<1>4. f \in T!Secrets(file, text) \/ f \in T!Matched(T!SinkRules, file, text)
      \/ f \in T!Matched(T!MisconfigRules, file, text)
  BY Zenon DEF T!ScanLine
<1>5. \A r : r.severity \in F!Severities =>
         /\ F!IsFinding([rule |-> r.mark, severity |-> r.severity, confidence |-> "confirmed"])
         /\ F!IsFinding([rule |-> r.mark, severity |-> r.severity, confidence |-> "probable"])
  BY Names DEF F!IsFinding
<1> QED BY <1>1, <1>2, <1>3, <1>4, <1>5, Zenon

LEMMA SastStep ==
    ASSUME IsStore(store), T!Analyze PROVE Records
<1> DEFINE read == {j \in T!SourceFiles : project.files[j].readable}
           new == UNION {T!ScanFile(project.files[i]) : i \in read}
<1>1. ASSUME NEW file, NEW f \in T!ScanFile(file) PROVE F!IsFinding(f)
  <2>1. PICK i \in DOMAIN file.lines :
           f \in {[fingerprint |-> <<g.rule, file.name, i>>, severity |-> g.severity,
                   confidence |-> g.confidence, evidence |-> {"sast"}] :
                     g \in T!ScanLine(file, file.lines[i])}
    BY Zenon DEF T!ScanFile
  <2>2. PICK g \in T!ScanLine(file, file.lines[i]) :
           f = [fingerprint |-> <<g.rule, file.name, i>>, severity |-> g.severity,
                confidence |-> g.confidence, evidence |-> {"sast"}]
    BY <2>1
  <2>3. F!IsFinding(g) BY LineFindings
  <2> QED BY <2>2, <2>3 DEF F!IsFinding
<1>2. \A f \in new : F!IsFinding(f) BY <1>1, Zenon
<1>3. report = None /\ report' = store' /\ store' = F!Extend(store, new)
  BY OneLedger DEF T!Analyze
<1> HIDE DEF new
<1> QED BY <1>2, <1>3, ExtendGrows DEF Records

-----------------------------------------------------------------------------
(* Finite sets and sequences *)

LEMMA SameCardinality ==
    \A X : A!Cardinality(X) = Cardinality(X) /\ A!IsFiniteSet(X) = IsFiniteSet(X)
BY Zenon DEF A!Cardinality, Cardinality, A!IsFiniteSet, IsFiniteSet

LEMMA ImageFinite ==
    ASSUME NEW X, IsFiniteSet(X), NEW f, NEW Y, Y = {f[x] : x \in X}
    PROVE  IsFiniteSet(Y) /\ Cardinality(Y) <= Cardinality(X)
<1> DEFINE g == [x \in X |-> f[x]]
<1>1. g \in Surjection(X, Y) BY DEF Surjection
<1> QED BY <1>1, FS_Surjection

\* At least two is two that differ.
LEMMA TwoDiffer ==
    ASSUME NEW X, IsFiniteSet(X)
    PROVE  Cardinality(X) >= 2 <=> \E x, y \in X : x # y
<1>1. Cardinality(X) \in Nat BY FS_CardinalityType
<1>2. CASE \E x, y \in X : x # y
  <2>1. Cardinality(X) # 0 BY <1>2, FS_EmptySet
  <2>2. Cardinality(X) # 1 BY <1>2, FS_Singleton
  <2> QED BY <1>1, <1>2, <2>1, <2>2
<1>3. CASE ~ \E x, y \in X : x # y
  <2>1. CASE X = {} BY <1>3, <2>1, FS_EmptySet
  <2>2. CASE X # {}
    <3>1. PICK x : x \in X BY <2>2
    <3>2. X = {x} BY <1>3, <3>1
    <3>3. Cardinality(X) = 1 BY <3>2, FS_Singleton
    <3> QED BY <1>3, <3>3
  <2> QED BY <2>1, <2>2
<1> QED BY <1>2, <1>3

LEMMA Appended ==
    ASSUME NEW X, NEW q \in Seq(X), NEW e
    PROVE  /\ \E Y : Append(q, e) \in Seq(Y)
           /\ Len(q) \in Nat /\ DOMAIN q = 1 .. Len(q) /\ DOMAIN Append(q, e) = 1 .. Len(q) + 1
           /\ \A n \in 1 .. Len(q) : Append(q, e)[n] = q[n]
           /\ Append(q, e)[Len(q) + 1] = e
<1>1. q \in Seq(X \cup {e}) /\ e \in X \cup {e} OBVIOUS
<1>2. Append(q, e) \in Seq(X \cup {e}) BY <1>1
<1> QED BY <1>1, <1>2

-----------------------------------------------------------------------------
(* Lines of attack *)

Possible == UNION {Candidates[c] : c \in DOMAIN Candidates}

LEMMA PossibleFindings == IsFiniteSet(Possible) /\ \A f \in Possible : F!IsFinding(f)
<1>1. \A c \in DOMAIN Candidates : \A f \in Candidates[c] : F!IsFinding(f)
  BY CyberAssumption, OneLedger
<1> QED BY <1>1, CyberAssumption DEF Possible

IsLine(line) ==
    /\ line = [name |-> line.name, capabilities |-> line.capabilities, findings |-> line.findings]
    /\ line.capabilities \subseteq DOMAIN Candidates
    /\ line.findings \subseteq Possible

IsWave(wave) ==
    /\ wave = [i \in DOMAIN wave |-> wave[i]]
    /\ IsFiniteSet(DOMAIN wave)
    /\ \A i \in DOMAIN wave : IsLine(wave[i])

\* The lines of a wave that reported k, and what one of them did.
By(k, wave) == {i \in DOMAIN wave : k \in Keys(wave[i].findings)}
Choice(k, wave, i) == The(wave[i].findings, k)

\* One line confirmed it; or two lines of different names reported it.
Claims(k, wave) == \E i \in By(k, wave) : Choice(k, wave, i).confidence = "confirmed"
Agree(k, wave) == \E i, j \in By(k, wave) : wave[i].name # wave[j].name

LinesInv ==
    /\ IsWave(lines)
    /\ state = [i \in DOMAIN lines |-> state[i]]
    /\ step = "map" => \A i \in DOMAIN lines : lines[i].findings = {}
    /\ \A i \in DOMAIN lines : state[i] # "over" => lines[i].findings = {}

\* What a wave reported is in the store, and is confirmed there if one line
\* confirmed it or, once the wave is over, two agreed.
Judged ==
    /\ \E X : waves \in Seq(X)
    /\ \A w \in DOMAIN waves : \A k : By(k, waves[w]) # {} => k \in DOMAIN store
    /\ step = "attack" => \A k : By(k, lines) # {} => k \in DOMAIN store
    /\ \A k \in DOMAIN store :
          store[k].confidence = "confirmed" <=>
             \/ \E w \in DOMAIN waves : Claims(k, waves[w]) \/ Agree(k, waves[w])
             \/ step = "attack" /\ Claims(k, lines)

Above(st) == {k \in DOMAIN st : F!Weight(st[k].severity) > F!Weight(Protected)}

Bounded(st) ==
    /\ dismissed \subseteq Above(st)
    /\ Cardinality(dismissed) * MaxDismissed[2] <= MaxDismissed[1] * Cardinality(Above(st))

AgentInv ==
    /\ IsStore(store) /\ IsFiniteSet(DOMAIN store)
    /\ LinesInv /\ Judged
    /\ Bounded(store)
    /\ step # "done" => report = None
    /\ step = "done" => report = store

LEMMA AboveGrows ==
    ASSUME NEW old, NEW new, IsStore(old), IsStore(new), Higher(old, new)
    PROVE  Above(old) \subseteq Above(new)
<1> SUFFICES ASSUME NEW k \in DOMAIN old, F!Weight(old[k].severity) > F!Weight(Protected)
             PROVE  k \in DOMAIN new /\ F!Weight(new[k].severity) > F!Weight(Protected)
  BY DEF Above
<1>1. k \in DOMAIN new /\ F!Weight(old[k].severity) <= F!Weight(new[k].severity)
  BY DEF Higher, Upholds
<1>2. F!Weight(old[k].severity) \in Nat /\ F!Weight(new[k].severity) \in Nat
  BY <1>1, WeightType DEF IsStore, IsEntry, F!IsFinding
<1>3. F!Weight(Protected) \in Nat
  BY Limits, WeightType
<1> QED BY <1>1, <1>2, <1>3

LEMMA BoundedKept ==
    ASSUME IsStore(store), IsStore(store'), Higher(store, store'), IsFiniteSet(DOMAIN store'),
           Bounded(store), UNCHANGED dismissed
    PROVE  Bounded(store)'
<1>1. Above(store) \subseteq Above(store') /\ Above(store') \subseteq DOMAIN store'
  BY AboveGrows DEF Above
<1>2. IsFiniteSet(Above(store')) BY <1>1, FS_Subset
<1>3. IsFiniteSet(Above(store)) /\ Cardinality(Above(store)) <= Cardinality(Above(store'))
  BY <1>1, <1>2, FS_Subset
<1>4. Cardinality(Above(store)) \in Nat /\ Cardinality(Above(store')) \in Nat
  BY <1>2, <1>3, FS_CardinalityType
<1>5. Cardinality(dismissed) \in Nat
  BY <1>3, FS_Subset, FS_CardinalityType DEF Bounded
<1>6. MaxDismissed[1] * Cardinality(Above(store)) <= MaxDismissed[1] * Cardinality(Above(store'))
  <2>1. \A m, x, y \in Nat : x <= y => m * x <= m * y BY SMT
  <2> QED BY <1>3, <1>4, <2>1, Limits
<1>7. /\ Cardinality(dismissed) * MaxDismissed[2] \in Nat
      /\ MaxDismissed[1] * Cardinality(Above(store)) \in Nat
      /\ MaxDismissed[1] * Cardinality(Above(store')) \in Nat
  BY <1>4, <1>5, Limits
<1> QED BY <1>1, <1>6, <1>7 DEF Bounded

Runnable(plan) ==
    /\ IsFiniteSet(DOMAIN plan)
    /\ \A i \in DOMAIN plan : plan[i].capabilities \subseteq DOMAIN Candidates

LEMMA DefaultRunnable == Runnable(DefaultLines)
BY CyberAssumption DEF Runnable

LEMMA ParsedRunnable ==
    ASSUME NEW answer, NEW limit \in Nat PROVE Runnable(A!ParsePlan(answer, limit))
<1> DEFINE granted(i) == answer[i].capabilities \cap A!Capabilities
           taken == {i \in DOMAIN answer \cap 1 .. limit : granted(i) # {}}
           plan == [i \in taken |-> [name |-> answer[i].name, capabilities |-> granted(i)]]
<1>1. A!ParsePlan(answer, limit) = plan BY DEF A!ParsePlan
<1>2. taken \subseteq 1 .. limit OBVIOUS
<1>3. IsFiniteSet(taken)
  <2>1. IsFiniteSet(1 .. limit) BY FS_Interval
  <2> HIDE DEF taken
  <2> QED BY <1>2, <2>1, FS_Subset
<1>4. \A i \in taken : plan[i].capabilities = granted(i) OBVIOUS
<1>5. \A i : granted(i) \subseteq DOMAIN Candidates BY DEF A!Capabilities
<1>6. DOMAIN plan = taken OBVIOUS
<1> HIDE DEF plan, taken, granted
<1> QED BY <1>1, <1>3, <1>4, <1>5, <1>6 DEF Runnable

LEMMA FreshRunnable ==
    ASSUME NEW plan, Runnable(plan) PROVE Runnable(A!Fresh(plan))
<1> DEFINE new == {i \in DOMAIN plan :
                      \A w \in DOMAIN waves : plan[i].name \notin A!Names(waves[w])}
           fresh == [i \in new |-> plan[i]]
<1>1. A!Fresh(plan) = fresh BY DEF A!Fresh
<1>2. new \subseteq DOMAIN plan OBVIOUS
<1>3. IsFiniteSet(new) BY <1>2, FS_Subset DEF Runnable
<1>4. DOMAIN fresh = new /\ \A i \in new : fresh[i] = plan[i] OBVIOUS
<1> HIDE DEF fresh, new
<1> QED BY <1>1, <1>2, <1>3, <1>4 DEF Runnable

Queued(plan) ==
    [i \in DOMAIN plan |->
        [name |-> plan[i].name, capabilities |-> plan[i].capabilities, findings |-> {}]]

LEMMA QueuedLines ==
    ASSUME NEW plan, Runnable(plan)
    PROVE  IsWave(Queued(plan)) /\ \A i \in DOMAIN Queued(plan) : Queued(plan)[i].findings = {}
<1>1. DOMAIN Queued(plan) = DOMAIN plan BY DEF Queued
<1>2. ASSUME NEW i \in DOMAIN plan
      PROVE  IsLine(Queued(plan)[i]) /\ Queued(plan)[i].findings = {}
  <2> DEFINE none == {}
  <2>1. Queued(plan)[i] = [name |-> plan[i].name, capabilities |-> plan[i].capabilities, findings |-> none]
    BY DEF Queued
  <2>2. none \subseteq Possible OBVIOUS
  <2> HIDE DEF none
  <2>3. IsLine(Queued(plan)[i]) /\ Queued(plan)[i].findings = none
    BY <2>1, <2>2 DEF IsLine, Runnable
  <2> QED BY <2>3 DEF none
<1>3. Queued(plan) = [i \in DOMAIN Queued(plan) |-> Queued(plan)[i]] BY DEF Queued
<1> QED BY <1>1, <1>2, <1>3 DEF IsWave, Runnable

LEMMA StartsPlan ==
    ASSUME NEW plan, Runnable(plan), A!Start(plan)
    PROVE  LinesInv' /\ step' = "map"
<1>1. lines' = Queued(plan) BY DEF A!Start, Queued
<1>2. state' = [i \in DOMAIN plan |-> "queued"] /\ step' = "map" BY DEF A!Start
<1>3. DOMAIN lines' = DOMAIN plan BY <1>1 DEF Queued
<1>4. IsWave(lines') /\ \A i \in DOMAIN lines' : lines'[i].findings = {} BY <1>1, QueuedLines
<1> QED BY <1>2, <1>3, <1>4 DEF LinesInv

LEMMA PlansInv ==
    ASSUME AgentInv, A!Plan \/ A!Escalate PROVE AgentInv' /\ Records
<1>1. LinesInv' /\ step' = "map"
  <2>1. CASE A!Plan
    <3>1. A!Start(DefaultLines) \/ \E answer \in PlanAnswers : A!Start(A!ParsePlan(answer, MaxLines))
      BY <2>1 DEF A!Plan
    <3> QED BY <3>1, StartsPlan, DefaultRunnable, ParsedRunnable, CyberAssumption
  <2>2. CASE A!Escalate
    <3>1. PICK answer \in PlanAnswers :
             A!Start(A!Fresh(A!ParsePlan(answer, EscalationMaxLines)))
      BY <2>2 DEF A!Escalate
    <3> QED BY <3>1, StartsPlan, FreshRunnable, ParsedRunnable, CyberAssumption
  <2> QED BY <2>1, <2>2
<1>2. /\ UNCHANGED <<waves, dismissed, store, report>>
      /\ step \in {"plan", "wave"}
  BY DEF A!Plan, A!Escalate
<1>3. Judged' BY <1>1, <1>2 DEF AgentInv, Judged
<1>4. Bounded(store)' BY <1>2 DEF AgentInv, Bounded, Above
<1> QED BY <1>1, <1>2, <1>3, <1>4, HigherSame DEF AgentInv, Records

LEMMA SurveyInv ==
    ASSUME AgentInv, A!Survey \/ A!EndWaves PROVE AgentInv' /\ Records
<1>1. /\ UNCHANGED <<lines, state, waves, dismissed, store, report>>
      /\ step \in {"survey", "wave"} /\ step' \in {"plan", "verify"}
  BY DEF A!Survey, A!EndWaves
<1>2. LinesInv' BY <1>1 DEF AgentInv, LinesInv
<1>3. Judged' BY <1>1 DEF AgentInv, Judged
<1>4. Bounded(store)' BY <1>1 DEF AgentInv, Bounded, Above
<1> QED BY <1>1, <1>2, <1>3, <1>4, HigherSame DEF AgentInv, Records

LEMMA MapInv ==
    ASSUME AgentInv, A!MapSurface PROVE AgentInv' /\ Records
<1>1. /\ UNCHANGED <<lines, waves, dismissed, store, report>>
      /\ step = "map" /\ step' = "attack"
      /\ state' = state \/ state' = [state EXCEPT ![A!Mapper] = "over"]
  BY DEF A!MapSurface
<1>2. \A i \in DOMAIN lines : lines[i].findings = {} BY <1>1 DEF AgentInv, LinesInv
<1>3. state' = [i \in DOMAIN lines' |-> state'[i]] BY <1>1 DEF AgentInv, LinesInv
<1>4. LinesInv' BY <1>1, <1>2, <1>3 DEF AgentInv, LinesInv
<1>5. \A k : By(k, lines) = {} BY <1>2 DEF By, Keys
<1>6. Judged' BY <1>1, <1>5 DEF AgentInv, Judged, Claims
<1>7. Bounded(store)' BY <1>1 DEF AgentInv, Bounded, Above
<1> QED BY <1>1, <1>4, <1>6, <1>7, HigherSame DEF AgentInv, Records

LEMMA StartLineInv ==
    ASSUME AgentInv, NEW i \in DOMAIN lines, A!StartLine(i) PROVE AgentInv' /\ Records
<1>1. /\ UNCHANGED <<step, lines, waves, dismissed, store, report>>
      /\ step = "attack" /\ state[i] = "queued" /\ state' = [state EXCEPT ![i] = "running"]
  BY DEF A!StartLine
<1>2. LinesInv' BY <1>1 DEF AgentInv, LinesInv
<1>3. Judged' BY <1>1 DEF AgentInv, Judged
<1>4. Bounded(store)' BY <1>1 DEF AgentInv, Bounded, Above
<1> QED BY <1>1, <1>2, <1>3, <1>4, HigherSame DEF AgentInv, Records

\* What a store says of k once findings were added.
LEMMA ExtendJudges ==
    ASSUME NEW st, IsStore(st), NEW new, \A f \in new : F!IsFinding(f)
    PROVE  /\ DOMAIN F!Extend(st, new) = DOMAIN st \cup Keys(new)
           /\ \A k \in DOMAIN st \cup Keys(new) :
                 F!Extend(st, new)[k].confidence = "confirmed" <=>
                    \/ k \in DOMAIN st /\ st[k].confidence = "confirmed"
                    \/ k \in Keys(new) /\ The(new, k).confidence = "confirmed"
<1> DEFINE result == F!Extend(st, new)
<1>1. result = [k \in DOMAIN st \cup Keys(new) |->
                  IF k \notin Keys(new) THEN st[k]
                  ELSE IF k \notin DOMAIN st THEN F!Kept(The(new, k))
                  ELSE F!Merge(st[k], The(new, k))]
  BY ExtendShape
<1> HIDE DEF result
<1>2. DOMAIN result = DOMAIN st \cup Keys(new) BY <1>1
<1>3. ASSUME NEW k \in DOMAIN st \cup Keys(new)
      PROVE  result[k].confidence = "confirmed" <=>
                \/ k \in DOMAIN st /\ st[k].confidence = "confirmed"
                \/ k \in Keys(new) /\ The(new, k).confidence = "confirmed"
  <2>1. CASE k \notin Keys(new)
    <3>1. result[k] = st[k] BY <1>1, <2>1
    <3> QED BY <2>1, <3>1
  <2>2. CASE k \in Keys(new) /\ k \notin DOMAIN st
    <3>1. result[k] = F!Kept(The(new, k)) BY <1>1, <2>2
    <3> QED BY <2>2, <3>1 DEF F!Kept
  <2>3. CASE k \in Keys(new) /\ k \in DOMAIN st
    <3>1. result[k] = F!Merge(st[k], The(new, k)) BY <1>1, <2>3
    <3> QED BY <2>3, <3>1 DEF F!Merge
  <2> QED BY <2>1, <2>2, <2>3
<1> QED BY <1>2, <1>3 DEF result

LEMMA EndLineInv ==
    ASSUME AgentInv, NEW i \in DOMAIN lines, A!EndLine(i) PROVE AgentInv' /\ Records
<1>1. PICK produced \in SUBSET A!MayReport(lines[i]) :
         /\ lines' = [lines EXCEPT ![i].findings = produced]
         /\ store' = F!Extend(store, produced)
  BY OneLedger DEF A!EndLine
<1>2. /\ UNCHANGED <<step, waves, dismissed, report>>
      /\ step = "attack" /\ state[i] = "running" /\ state' = [state EXCEPT ![i] = "over"]
  BY DEF A!EndLine
<1>3. IsStore(store) /\ IsFiniteSet(DOMAIN store) /\ LinesInv /\ Judged /\ Bounded(store)
      /\ report = None
  BY <1>2 DEF AgentInv
<1>4. produced \subseteq Possible
  <2>1. A!MayReport(lines[i]) \subseteq UNION {Candidates[c] : c \in lines[i].capabilities}
    BY Zenon DEF A!MayReport
  <2>2. lines[i].capabilities \subseteq DOMAIN Candidates BY <1>3 DEF LinesInv, IsWave, IsLine
  <2> QED BY <2>1, <2>2 DEF Possible
<1>5. \A f \in produced : F!IsFinding(f) BY <1>4, PossibleFindings
<1>6. IsStore(store') /\ Higher(store, store') BY <1>1, <1>3, <1>5, ExtendGrows
<1>7. /\ DOMAIN store' = DOMAIN store \cup Keys(produced)
      /\ \A k \in DOMAIN store' :
            store'[k].confidence = "confirmed" <=>
               \/ k \in DOMAIN store /\ store[k].confidence = "confirmed"
               \/ k \in Keys(produced) /\ The(produced, k).confidence = "confirmed"
  BY <1>1, <1>3, <1>5, ExtendJudges
<1>8. IsFiniteSet(DOMAIN store')
  <2>1. IsFiniteSet(produced) BY <1>4, PossibleFindings, FS_Subset
  <2> DEFINE print == [f \in produced |-> F!Fingerprint(f)]
  <2>2. Keys(produced) = {print[f] : f \in produced} BY DEF Keys
  <2> HIDE DEF print
  <2>3. IsFiniteSet(Keys(produced)) BY <2>1, <2>2, ImageFinite
  <2> QED BY <1>3, <1>7, <2>3, FS_Union
<1>9. lines[i].findings = {} /\ IsWave(lines) /\ state = [j \in DOMAIN lines |-> state[j]]
  BY <1>2, <1>3 DEF LinesInv
<1>10. /\ DOMAIN lines' = DOMAIN lines
       /\ lines' = [j \in DOMAIN lines' |-> lines'[j]]
       /\ \A j \in DOMAIN lines : j # i => lines'[j] = lines[j]
       /\ lines'[i] = [name |-> lines[i].name, capabilities |-> lines[i].capabilities,
                       findings |-> produced]
  <2>1. IsLine(lines[i]) /\ lines = [j \in DOMAIN lines |-> lines[j]] BY <1>9 DEF IsWave
  <2> DEFINE ended == [lines[i] EXCEPT !.findings = produced]
  <2>2. lines' = [lines EXCEPT ![i] = ended] BY <1>1
  <2>3. ended = [name |-> lines[i].name, capabilities |-> lines[i].capabilities,
                 findings |-> produced]
    BY <2>1 DEF IsLine
  <2> HIDE DEF ended
  <2>4. DOMAIN lines' = DOMAIN lines /\ lines' = [j \in DOMAIN lines' |-> lines'[j]] BY <2>1, <2>2
  <2>5. \A j \in DOMAIN lines : lines'[j] = IF j = i THEN ended ELSE lines[j] BY <2>1, <2>2
  <2> QED BY <2>3, <2>4, <2>5
<1>11. LinesInv'
  <2>1. IsLine(lines'[i])
    <3>1. IsLine(lines[i]) BY <1>9 DEF IsWave
    <3> QED BY <1>4, <1>10, <3>1 DEF IsLine
  <2>2. IsWave(lines') BY <1>9, <1>10, <2>1 DEF IsWave
  <2>3. state' = [j \in DOMAIN lines' |-> state'[j]] BY <1>2, <1>9, <1>10
  <2>4. \A j \in DOMAIN lines' : state'[j] # "over" => lines'[j].findings = {}
    BY <1>2, <1>3, <1>9, <1>10 DEF LinesInv
  <2> QED BY <1>2, <2>2, <2>3, <2>4 DEF LinesInv
<1>12. ASSUME NEW k
       PROVE  /\ By(k, lines') # {} => k \in DOMAIN store'
              /\ Claims(k, lines') <=>
                    \/ Claims(k, lines)
                    \/ k \in Keys(produced) /\ The(produced, k).confidence = "confirmed"
  <2>1. i \notin By(k, lines) BY <1>9 DEF By, Keys
  <2>2. \A j : j # i => (j \in By(k, lines') <=> j \in By(k, lines)) BY <1>10 DEF By
  <2>3. i \in By(k, lines') <=> k \in Keys(produced) BY <1>10 DEF By
  <2>4. \A j \in By(k, lines) : Choice(k, lines', j) = Choice(k, lines, j)
    BY <1>10, <2>1 DEF Choice, By
  <2>5. Choice(k, lines', i) = The(produced, k) BY <1>10 DEF Choice
  <2>6. By(k, lines) # {} => k \in DOMAIN store BY <1>2, <1>3 DEF Judged
  <2> QED BY <1>7, <2>1, <2>2, <2>3, <2>4, <2>5, <2>6 DEF Claims
<1>13. Judged'
  <2>1. /\ \E X : waves' \in Seq(X)
        /\ \A w \in DOMAIN waves' : \A k : By(k, waves'[w]) # {} => k \in DOMAIN store'
    BY <1>2, <1>3, <1>7 DEF Judged
  <2> DEFINE Before(k) == \E w \in DOMAIN waves : Claims(k, waves[w]) \/ Agree(k, waves[w])
  <2>2. \A k : Before(k) \/ Claims(k, lines) => k \in DOMAIN store
    BY <1>2, <1>3 DEF Judged, Claims, Agree
  <2>3. \A k \in DOMAIN store :
           store[k].confidence = "confirmed" <=> Before(k) \/ Claims(k, lines)
    BY <1>2, <1>3 DEF Judged
  <2> HIDE DEF Before
  <2>4. \A k \in DOMAIN store' :
           store'[k].confidence = "confirmed" <=> Before(k) \/ Claims(k, lines')
    BY <1>7, <1>12, <2>2, <2>3
  <2>5. \A k \in DOMAIN store' :
           store'[k].confidence = "confirmed" <=>
              \/ \E w \in DOMAIN waves' : Claims(k, waves'[w]) \/ Agree(k, waves'[w])
              \/ step' = "attack" /\ Claims(k, lines')
    BY <1>2, <2>4 DEF Before
  <2> QED BY <1>2, <1>12, <2>1, <2>5 DEF Judged
<1>14. Bounded(store)' BY <1>2, <1>3, <1>6, <1>8, BoundedKept
<1> QED BY <1>2, <1>3, <1>6, <1>8, <1>11, <1>13, <1>14 DEF AgentInv, Records

\* Corroboration confirms exactly what lines of two names reported.
LEMMA Corroborates ==
    ASSUME IsStore(store), IsWave(lines)
    PROVE  /\ IsStore(A!Corroborated) /\ Higher(store, A!Corroborated)
           /\ DOMAIN A!Corroborated = DOMAIN store
           /\ \A k \in DOMAIN store :
                 A!Corroborated[k].confidence = "confirmed" <=>
                    store[k].confidence = "confirmed" \/ Agree(k, lines)
<1>1. ASSUME NEW k \in DOMAIN store PROVE k \in A!Agreed <=> Agree(k, lines)
  <2> DEFINE named == [j \in By(k, lines) |-> lines[j].name]
  <2>1. A!Reporters(k) = {lines[j].name : j \in By(k, lines)}
    BY DEF A!Reporters, By, Keys, A!Fingerprint, F!Fingerprint
  <2>2. A!Reporters(k) = {named[j] : j \in By(k, lines)} BY <2>1
  <2>3. IsFiniteSet(By(k, lines))
    <3>1. IsFiniteSet(DOMAIN lines) /\ By(k, lines) \subseteq DOMAIN lines BY DEF IsWave, By
    <3> QED BY <3>1, FS_Subset
  <2> HIDE DEF named
  <2>4. IsFiniteSet(A!Reporters(k)) BY <2>2, <2>3, ImageFinite
  <2>5. Cardinality(A!Reporters(k)) >= 2 <=> \E x, y \in A!Reporters(k) : x # y
    BY <2>4, TwoDiffer
  <2>6. (\E x, y \in A!Reporters(k) : x # y) <=> Agree(k, lines) BY <2>1 DEF Agree
  <2>7. k \in A!Agreed <=> Cardinality(A!Reporters(k)) >= 2
    BY SameCardinality DEF A!Agreed
  <2> QED BY <2>5, <2>6, <2>7
<1> DEFINE result == A!Corroborated
           raised(e) == [severity |-> e.severity, confidence |-> "confirmed",
                         evidence |-> e.evidence \cup {"agreement"}]
<1>2. /\ DOMAIN result = DOMAIN store
      /\ result = [k \in DOMAIN result |-> result[k]]
      /\ \A k \in DOMAIN store :
            result[k] = IF k \in A!Agreed /\ store[k].confidence # "confirmed"
                        THEN raised(store[k]) ELSE store[k]
  BY DEF A!Corroborated
<1>3. ASSUME NEW e, IsEntry(e)
      PROVE  IsEntry(raised(e)) /\ Upholds(e, raised(e)) /\ raised(e).confidence = "confirmed"
  <2>1. raised(e) = [severity |-> e.severity, confidence |-> "confirmed",
                     evidence |-> e.evidence \cup {"agreement"}]
    OBVIOUS
  <2> HIDE DEF raised
  <2>2. IsEntry(raised(e)) BY <1>3, <2>1, Names DEF IsEntry, F!IsFinding
  <2>3. F!Weight(e.severity) \in Nat BY <1>3, WeightType DEF IsEntry, F!IsFinding
  <2> QED BY <2>1, <2>2, <2>3 DEF Upholds
<1> HIDE DEF result, raised
<1>4. ASSUME NEW k \in DOMAIN store
      PROVE  /\ IsEntry(result[k]) /\ Upholds(store[k], result[k])
             /\ result[k].confidence = "confirmed" <=>
                   store[k].confidence = "confirmed" \/ Agree(k, lines)
  <2>1. IsEntry(store[k]) BY DEF IsStore
  <2>2. Upholds(store[k], store[k]) BY HigherSame DEF Higher
  <2>3. CASE k \in A!Agreed /\ store[k].confidence # "confirmed"
    <3>1. result[k] = raised(store[k]) BY <1>2, <2>3
    <3> QED BY <1>1, <1>3, <2>1, <2>3, <3>1
  <2>4. CASE ~ (k \in A!Agreed /\ store[k].confidence # "confirmed")
    <3>1. result[k] = store[k] BY <1>2, <2>4
    <3> QED BY <1>1, <2>1, <2>2, <2>4, <3>1
  <2> QED BY <2>3, <2>4
<1>5. IsStore(result) /\ Higher(store, result) BY <1>2, <1>4 DEF IsStore, Higher
<1> QED BY <1>2, <1>4, <1>5 DEF result

LEMMA EndWaveInv ==
    ASSUME AgentInv, NEW swarm \in BOOLEAN, A!EndWave(swarm) PROVE AgentInv' /\ Records
<1>1. /\ UNCHANGED <<lines, state, dismissed>>
      /\ step = "attack" /\ step' \in {"done", "wave"}
      /\ waves' = Append(waves, lines)
      /\ step' = "done" => report' = store'
      /\ step' = "wave" => report' = report
      /\ store' = A!Corroborated
  BY DEF A!EndWave
<1>2. IsStore(store) /\ IsFiniteSet(DOMAIN store) /\ LinesInv /\ Judged /\ Bounded(store)
      /\ report = None
  BY <1>1 DEF AgentInv
<1>3. /\ IsStore(store') /\ Higher(store, store') /\ DOMAIN store' = DOMAIN store
      /\ \A k \in DOMAIN store :
            store'[k].confidence = "confirmed" <=>
               store[k].confidence = "confirmed" \/ Agree(k, lines)
  BY <1>1, <1>2, Corroborates DEF LinesInv
<1>4. LinesInv' BY <1>1, <1>2 DEF LinesInv
<1>5. Judged'
  <2>1. PICK X : waves \in Seq(X) BY <1>2 DEF Judged
  <2>2. /\ \E Y : waves' \in Seq(Y)
        /\ Len(waves) \in Nat /\ DOMAIN waves = 1 .. Len(waves)
        /\ DOMAIN waves' = 1 .. Len(waves) + 1
        /\ \A n \in 1 .. Len(waves) : waves'[n] = waves[n]
        /\ waves'[Len(waves) + 1] = lines
    <3>1. /\ \E Y : Append(waves, lines) \in Seq(Y)
          /\ Len(waves) \in Nat /\ DOMAIN waves = 1 .. Len(waves)
          /\ DOMAIN Append(waves, lines) = 1 .. Len(waves) + 1
          /\ \A n \in 1 .. Len(waves) : Append(waves, lines)[n] = waves[n]
          /\ Append(waves, lines)[Len(waves) + 1] = lines
      BY <2>1, Appended
    <3> QED BY <1>1, <3>1
  <2>3. \A w \in DOMAIN waves' : w \in DOMAIN waves \/ w = Len(waves) + 1 BY <2>2
  <2>4. DOMAIN waves \subseteq DOMAIN waves' /\ Len(waves) + 1 \in DOMAIN waves' BY <2>2
  <2>5. \A w \in DOMAIN waves : waves'[w] = waves[w] BY <2>2
  <2>6. \A w \in DOMAIN waves' : \A k : By(k, waves'[w]) # {} => k \in DOMAIN store'
    BY <1>1, <1>2, <1>3, <2>2, <2>3, <2>5 DEF Judged
  <2>7. ASSUME NEW k \in DOMAIN store
        PROVE  store'[k].confidence = "confirmed" <=>
                  \E w \in DOMAIN waves' : Claims(k, waves'[w]) \/ Agree(k, waves'[w])
    <3>1. store'[k].confidence = "confirmed" <=>
             \/ \E w \in DOMAIN waves : Claims(k, waves[w]) \/ Agree(k, waves[w])
             \/ Claims(k, lines) \/ Agree(k, lines)
      BY <1>1, <1>2, <1>3 DEF Judged
    <3> QED BY <2>2, <2>3, <2>4, <2>5, <3>1
  <2> QED BY <1>1, <1>3, <2>2, <2>6, <2>7 DEF Judged
<1>6. Bounded(store)' BY <1>1, <1>2, <1>3, BoundedKept
<1> QED BY <1>1, <1>2, <1>3, <1>4, <1>5, <1>6 DEF AgentInv, Records

LEMMA Scales == \A m, x, y \in Nat : x <= y => m * x <= m * y /\ x * m <= y * m
<1>1. \A m, x, y \in Nat : x <= y => m * x <= m * y BY SMT
<1>2. \A m, x \in Nat : m * x = x * m BY SMT
<1> QED BY <1>1, <1>2

\* However many verdicts the answer holds, what is upheld of them is a share of
\* what was reviewed.
LEMMA UpheldShare ==
    ASSUME NEW reviewed, reviewed \subseteq Above(store), IsFiniteSet(Above(store)),
           NEW n \in Nat, NEW answer, DOMAIN answer = 1 .. n
    PROVE  /\ A!Upheld(reviewed, answer) \subseteq Above(store)
           /\ Cardinality(A!Upheld(reviewed, answer)) * MaxDismissed[2]
                 <= MaxDismissed[1] * Cardinality(Above(store))
<1> DEFINE counted == A!Dismissals(reviewed, answer)
           on == [m \in counted |-> answer[m].on]
           named == {answer[m].on : m \in counted}
           most == MaxDismissed[1] * Cardinality(reviewed)
<1>1. A!Upheld(reviewed, answer) =
         IF Cardinality(counted) * MaxDismissed[2] > most THEN {} ELSE named
  BY SameCardinality DEF A!Upheld
<1>2. counted \subseteq 1 .. n /\ named \subseteq reviewed BY DEF A!Dismissals
<1>3. named = {on[m] : m \in counted} OBVIOUS
<1>4. IsFiniteSet(1 .. n)
  <2>1. 1 \in Int /\ n \in Int OBVIOUS
  <2> QED BY <2>1, FS_Interval
<1> HIDE DEF counted, on, named
<1>5. IsFiniteSet(counted) BY <1>2, <1>4, FS_Subset
<1>6. IsFiniteSet(named) /\ Cardinality(named) <= Cardinality(counted) BY <1>3, <1>5, ImageFinite
<1>7. IsFiniteSet(reviewed) /\ Cardinality(reviewed) <= Cardinality(Above(store)) BY FS_Subset
<1>8. /\ Cardinality(named) \in Nat /\ Cardinality(counted) \in Nat
      /\ Cardinality(reviewed) \in Nat /\ Cardinality(Above(store)) \in Nat
  BY <1>5, <1>6, <1>7, FS_CardinalityType
<1>9. MaxDismissed[1] \in Nat /\ MaxDismissed[2] \in Nat BY Limits
<1>10. most <= MaxDismissed[1] * Cardinality(Above(store)) BY <1>7, <1>8, <1>9, Scales
<1>11. /\ most \in Nat /\ MaxDismissed[1] * Cardinality(Above(store)) \in Nat
       /\ Cardinality(named) * MaxDismissed[2] \in Nat
       /\ Cardinality(counted) * MaxDismissed[2] \in Nat
  BY <1>8, <1>9
<1>12. Cardinality(named) * MaxDismissed[2] <= Cardinality(counted) * MaxDismissed[2]
  BY <1>6, <1>8, <1>9, Scales
<1> HIDE DEF most
<1>13. CASE Cardinality(counted) * MaxDismissed[2] > most
  <2>1. A!Upheld(reviewed, answer) = {} BY <1>1, <1>13
  <2>2. Cardinality({}) = 0 BY FS_EmptySet
  <2>3. 0 * MaxDismissed[2] = 0 BY <1>9
  <2> QED BY <1>11, <2>1, <2>2, <2>3
<1>14. CASE ~ (Cardinality(counted) * MaxDismissed[2] > most)
  <2>1. A!Upheld(reviewed, answer) = named BY <1>1, <1>14
  <2>2. Cardinality(named) * MaxDismissed[2] <= MaxDismissed[1] * Cardinality(Above(store))
    BY <1>10, <1>11, <1>12, <1>14
  <2> QED BY <1>2, <2>1, <2>2
<1> QED BY <1>13, <1>14

LEMMA ReviewInv ==
    ASSUME AgentInv, A!SkipReview \/ A!Review PROVE AgentInv' /\ Records
<1>1. /\ UNCHANGED <<lines, state, waves, store, report>>
      /\ step = "verify" /\ step' = "report"
  BY DEF A!SkipReview, A!Review
<1>2. LinesInv' BY <1>1 DEF AgentInv, LinesInv
<1>3. Judged' BY <1>1 DEF AgentInv, Judged
<1>4. IsFiniteSet(Above(store))
  <2>1. IsFiniteSet(DOMAIN store) /\ Above(store) \subseteq DOMAIN store BY DEF AgentInv, Above
  <2> QED BY <2>1, FS_Subset
<1>5. /\ dismissed' \subseteq Above(store)
      /\ Cardinality(dismissed') * MaxDismissed[2] <= MaxDismissed[1] * Cardinality(Above(store))
  <2>1. CASE A!SkipReview
    <3>1. dismissed' = {} /\ Cardinality(dismissed') = 0 BY <2>1, FS_EmptySet DEF A!SkipReview
    <3>2. Cardinality(Above(store)) \in Nat BY <1>4, FS_CardinalityType
    <3>3. MaxDismissed[1] \in Nat /\ MaxDismissed[2] \in Nat BY Limits
    <3>4. MaxDismissed[1] * Cardinality(Above(store)) \in Nat /\ 0 * MaxDismissed[2] = 0
      BY <3>2, <3>3
    <3>5. \A x \in Nat : 0 <= x OBVIOUS
    <3> QED BY <3>1, <3>4, <3>5
  <2>2. CASE A!Review
    <3>1. PICK reviewed \in A!Reviews, n \in 1 .. MaxVerdicts :
             \E answer \in [1 .. n -> A!Verdicts] : dismissed' = A!Upheld(reviewed, answer)
      BY <2>2 DEF A!Review
    <3>2. PICK answer \in [1 .. n -> A!Verdicts] : dismissed' = A!Upheld(reviewed, answer)
      BY <3>1
    <3>3. reviewed \subseteq Above(store)
      <4>1. A!Reviewable = Above(store) BY DEF A!Reviewable, Above, A!Weight, F!Weight
      <4>2. reviewed \subseteq A!Reviewable BY Zenon DEF A!Reviews
      <4> QED BY <4>1, <4>2
    <3>4. n \in Nat /\ DOMAIN answer = 1 .. n OBVIOUS
    <3> QED BY <1>4, <3>2, <3>3, <3>4, UpheldShare
  <2> QED BY <2>1, <2>2
<1>6. Bounded(store)' BY <1>1, <1>5 DEF Bounded, Above
<1> QED BY <1>1, <1>2, <1>3, <1>6, HigherSame DEF AgentInv, Records

LEMMA ConcludeInv ==
    ASSUME AgentInv, A!Conclude PROVE AgentInv' /\ Records
<1> DEFINE kept == {f \in F!All(store) : F!Fingerprint(f) \notin dismissed}
           notes == {A!DismissalFinding(k) : k \in dismissed}
           new == kept \cup notes
<1>1. /\ UNCHANGED <<lines, state, waves, dismissed>>
      /\ step = "report" /\ step' = "done" /\ report' = store'
  BY DEF A!Conclude
<1>2. store' = F!Extend(store, new)
  BY OneLedger DEF A!Conclude, A!Fingerprint, F!Fingerprint
<1>3. IsStore(store) /\ IsFiniteSet(DOMAIN store) /\ LinesInv /\ Judged /\ Bounded(store)
      /\ report = None
  BY <1>1 DEF AgentInv
<1>4. ASSUME NEW f \in kept
      PROVE  /\ F!IsFinding(f) /\ F!Fingerprint(f) \in DOMAIN store
             /\ f.confidence = store[F!Fingerprint(f)].confidence
  <2>1. PICK k \in DOMAIN store :
           f = [fingerprint |-> k, severity |-> store[k].severity,
                confidence |-> store[k].confidence, evidence |-> store[k].evidence]
    BY Zenon DEF F!All
  <2>2. F!IsFinding(store[k]) BY <1>3 DEF IsStore, IsEntry
  <2> QED BY <2>1, <2>2 DEF F!IsFinding, F!Fingerprint
<1>5. ASSUME NEW f \in notes
      PROVE  F!IsFinding(f) /\ f.confidence # "confirmed"
  BY Names DEF A!DismissalFinding, F!IsFinding
<1>6. IsFiniteSet(Keys(new))
  <2> DEFINE print == [k \in dismissed |-> F!Fingerprint(A!DismissalFinding(k))]
  <2>1. Keys(new) \subseteq DOMAIN store \cup {print[k] : k \in dismissed} BY <1>4 DEF Keys
  <2>2. IsFiniteSet(dismissed)
    <3>1. dismissed \subseteq DOMAIN store BY <1>3 DEF Bounded, Above
    <3> QED BY <1>3, <3>1, FS_Subset
  <2> HIDE DEF print, new
  <2>3. IsFiniteSet({print[k] : k \in dismissed}) BY <2>2, ImageFinite
  <2>4. IsFiniteSet(DOMAIN store \cup {print[k] : k \in dismissed}) BY <1>3, <2>3, FS_Union
  <2> QED BY <2>1, <2>4, FS_Subset
<1>7. \A f \in new : F!IsFinding(f) BY <1>4, <1>5
<1>8. ASSUME NEW k \in Keys(new), The(new, k).confidence = "confirmed"
      PROVE  k \in DOMAIN store /\ store[k].confidence = "confirmed"
  <2>1. The(new, k) \in new /\ F!Fingerprint(The(new, k)) = k BY TheIsThere
  <2>2. The(new, k) \in kept BY <1>5, <1>8, <2>1
  <2> QED BY <1>4, <1>8, <2>1, <2>2
<1> HIDE DEF kept, notes, new
<1>9. IsStore(store') /\ Higher(store, store') BY <1>2, <1>3, <1>7, ExtendGrows
<1>10. /\ DOMAIN store' = DOMAIN store \cup Keys(new)
       /\ \A k \in DOMAIN store' :
             store'[k].confidence = "confirmed" <=>
                k \in DOMAIN store /\ store[k].confidence = "confirmed"
  <2>1. /\ DOMAIN store' = DOMAIN store \cup Keys(new)
        /\ \A k \in DOMAIN store' :
              store'[k].confidence = "confirmed" <=>
                 \/ k \in DOMAIN store /\ store[k].confidence = "confirmed"
                 \/ k \in Keys(new) /\ The(new, k).confidence = "confirmed"
    BY <1>2, <1>3, <1>7, ExtendJudges
  <2> QED BY <1>8, <2>1
<1>11. IsFiniteSet(DOMAIN store') BY <1>3, <1>6, <1>10, FS_Union
<1>12. LinesInv' BY <1>1, <1>3 DEF LinesInv
<1>13. Judged'
  <2> DEFINE Before(k) == \E w \in DOMAIN waves : Claims(k, waves[w]) \/ Agree(k, waves[w])
  <2>1. \A k : Before(k) => k \in DOMAIN store BY <1>3 DEF Judged, Claims, Agree
  <2>2. \A k \in DOMAIN store : store[k].confidence = "confirmed" <=> Before(k)
    BY <1>1, <1>3 DEF Judged
  <2> HIDE DEF Before
  <2>3. \A k \in DOMAIN store' : store'[k].confidence = "confirmed" <=> Before(k)
    BY <1>10, <2>1, <2>2
  <2>4. \A k \in DOMAIN store' :
           store'[k].confidence = "confirmed" <=>
              \E w \in DOMAIN waves' : Claims(k, waves'[w]) \/ Agree(k, waves'[w])
    BY <1>1, <2>3 DEF Before
  <2>5. /\ \E X : waves' \in Seq(X)
        /\ \A w \in DOMAIN waves' : \A k : By(k, waves'[w]) # {} => k \in DOMAIN store'
    BY <1>1, <1>3, <1>10 DEF Judged
  <2> QED BY <1>1, <2>4, <2>5 DEF Judged
<1>14. Bounded(store)' BY <1>1, <1>3, <1>9, <1>11, BoundedKept
<1> QED BY <1>1, <1>3, <1>9, <1>11, <1>12, <1>13, <1>14 DEF AgentInv, Records

LEMMA AgentStep ==
    ASSUME AgentInv, (\E swarm \in BOOLEAN : A!WaveNext(swarm)) \/ A!AgentNext
    PROVE  AgentInv' /\ Records
<1>1. ASSUME NEW swarm \in BOOLEAN, A!WaveNext(swarm) PROVE AgentInv' /\ Records
  <2>1. \/ A!MapSurface \/ A!EndWave(swarm)
        \/ \E i \in DOMAIN lines : A!StartLine(i) \/ A!EndLine(i)
    BY <1>1 DEF A!WaveNext
  <2> QED BY <2>1, MapInv, EndWaveInv, StartLineInv, EndLineInv
<1>2. CASE A!AgentNext
  <2>1. \/ A!WaveNext(FALSE) \/ A!Survey \/ A!Plan \/ A!Escalate \/ A!EndWaves
        \/ A!SkipReview \/ A!Review \/ A!Conclude
    BY <1>2, Zenon DEF A!AgentNext
  <2> QED BY <1>1, <2>1, SurveyInv, PlansInv, ReviewInv, ConcludeInv
<1> QED BY <1>1, <1>2

LEMMA AgentStarts ==
    ASSUME A!AgentInit \/ A!SwarmInit, store = F!EmptyStore, report = None PROVE AgentInv
<1>1. IsStore(store) /\ DOMAIN store = {} BY DEF IsStore, F!EmptyStore
<1>2. step \in {"survey", "map"} /\ waves = <<>> /\ dismissed = {}
  BY DEF A!AgentInit, A!SwarmInit
<1>3. LinesInv
  <2>1. CASE A!AgentInit
    <3>1. lines = <<>> /\ state = <<>> /\ step = "survey" BY <2>1 DEF A!AgentInit
    <3>2. DOMAIN lines = {} /\ lines = [i \in DOMAIN lines |-> lines[i]] BY <3>1
    <3>3. IsWave(lines) BY <3>2, FS_EmptySet DEF IsWave
    <3> QED BY <3>1, <3>2, <3>3 DEF LinesInv
  <2>2. CASE A!SwarmInit
    <3>1. lines = Queued(DefaultLines) /\ state = [i \in DOMAIN DefaultLines |-> "queued"]
      BY <2>2 DEF A!SwarmInit, Queued
    <3>2. DOMAIN lines = DOMAIN DefaultLines BY <3>1 DEF Queued
    <3>3. IsWave(lines) /\ \A i \in DOMAIN lines : lines[i].findings = {}
      BY <3>1, QueuedLines, DefaultRunnable
    <3> QED BY <3>1, <3>2, <3>3 DEF LinesInv
  <2> QED BY <2>1, <2>2
<1>4. Judged
  <2>1. waves \in Seq({}) /\ DOMAIN waves = {} BY <1>2
  <2>2. \E X : waves \in Seq(X) BY <2>1
  <2> QED BY <1>1, <1>2, <2>1, <2>2 DEF Judged
<1>5. Bounded(store)
  <2>1. Above(store) = {} BY <1>1 DEF Above
  <2>2. Cardinality({}) = 0 BY FS_EmptySet
  <2>3. MaxDismissed[1] \in Nat /\ MaxDismissed[2] \in Nat BY Limits
  <2>4. 0 * MaxDismissed[2] = 0 /\ MaxDismissed[1] * 0 = 0 BY <2>3
  <2> QED BY <1>2, <2>1, <2>2, <2>4 DEF Bounded
<1> QED BY <1>1, <1>2, <1>3, <1>4, <1>5, FS_EmptySet DEF AgentInv

-----------------------------------------------------------------------------
(* The commands *)

CyberInv ==
    /\ IsStore(store)
    /\ command = "scan" => ScanInv
    /\ command \in {"swarm", "agent"} => AgentInv

LEMMA CyberStart == Init => CyberInv
<1> SUFFICES ASSUME Init PROVE CyberInv OBVIOUS
<1>1. store = F!EmptyStore /\ report = None BY OneLedger DEF Init
<1>2. IsStore(store) BY <1>1 DEF IsStore, F!EmptyStore
<1>3. command = "scan" => S!ScanInit(Scenarios) BY DEF Init
<1>4. command \in {"swarm", "agent"} => A!AgentInit \/ A!SwarmInit BY DEF Init
<1> QED BY <1>1, <1>2, <1>3, <1>4, ScanStarts, AgentStarts DEF CyberInv

\* Every step of every command keeps the invariant and is a step of the ledger.
LEMMA CyberStep == CyberInv /\ Next => CyberInv' /\ Records
<1> SUFFICES ASSUME CyberInv, Next PROVE CyberInv' /\ Records OBVIOUS
<1>1. IsStore(store) /\ UNCHANGED command BY DEF CyberInv, Next
<1>2. CASE command = "scan" /\ S!ScanNext
  BY <1>1, <1>2, ScanStep DEF CyberInv, Records
<1>3. CASE command \in {"swarm", "agent"} /\ (A!WaveNext(TRUE) \/ A!AgentNext)
  <2>1. AgentInv' /\ Records BY <1>3, AgentStep DEF CyberInv
  <2> QED BY <1>1, <1>3, <2>1 DEF CyberInv, Records
<1>4. CASE command \in {"audit", "sast"} /\ (T!AuditDependencies \/ T!Analyze)
  <2>1. Records BY <1>1, <1>4, AuditStep, SastStep
  <2> QED BY <1>1, <1>4, <2>1 DEF CyberInv, Records
<1> QED BY <1>2, <1>3, <1>4 DEF Next

LEMMA CyberStutters == CyberInv /\ UNCHANGED vars => CyberInv'
<1> SUFFICES ASSUME CyberInv, UNCHANGED vars PROVE CyberInv' OBVIOUS
<1>1. UNCHANGED <<command, suite, stage, checks, step, lines, state, waves, dismissed, store, report>>
  BY DEF vars, scanVars, agentVars
<1>2. ScanInv => ScanInv' BY <1>1 DEF ScanInv, ChecksInv
<1>3. AgentInv => AgentInv'
  BY <1>1 DEF AgentInv, LinesInv, Judged, Bounded, Above
<1> QED BY <1>1, <1>2, <1>3 DEF CyberInv

LEMMA CyberInvariant == Spec => []CyberInv
BY CyberStart, CyberStep, CyberStutters, PTL DEF Spec

\* Every command keeps the ledger's promise: through the merges of FindingStore.add, the
\* agreement of lines, later waves and the reviewer's dismissals no recorded finding is
\* lost, lowered or unconfirmed, and the report is all that was recorded.
THEOREM AssessmentsAreLedgers == ASSUME NoneIsNoStore PROVE Spec => Implements
<1>1. Init => L!Init
  <2> SUFFICES ASSUME Init PROVE L!Init OBVIOUS
  <2>1. store = F!EmptyStore /\ report = None BY OneLedger DEF Init
  <2>2. Recorded = [k \in {} |-> {}] BY <2>1 DEF Recorded, F!EmptyStore
  <2>3. Published = None BY <2>1 DEF Published
  <2> QED BY <2>2, <2>3 DEF L!Init, L!EmptyStore
<1>2. CyberInv /\ [Next]_vars => [L!Next]_(L!vars)
  <2> SUFFICES ASSUME CyberInv, [Next]_vars PROVE [L!Next]_(L!vars) OBVIOUS
  <2>1. CASE Next
    <3>1. Records BY <2>1, CyberStep
    <3>2. IsStore(store) BY DEF CyberInv
    <3> QED BY <3>1, <3>2, LedgerStep DEF Records
  <2>2. CASE UNCHANGED vars
    <3>1. UNCHANGED <<store, report>> BY <2>2 DEF vars
    <3> QED BY <3>1 DEF L!vars, Recorded, Published
  <2> QED BY <2>1, <2>2
<1> QED BY <1>1, <1>2, CyberInvariant, PTL DEF Spec, Implements, L!Spec

\* A swarm or the agent confirms exactly what one line confirmed or two lines of
\* different names reported in one wave (_corroborate), and its review dismisses nothing
\* of the protected severity or below and at most its share (verify_findings).
THEOREM JudgementsAreBounded == Spec => []JudgementsBounded
<1>1. CyberInv => JudgementsBounded
  <2> SUFFICES ASSUME AgentInv, report # None PROVE JudgementsBounded
    BY DEF CyberInv, JudgementsBounded, ConfirmedByTwo, ReviewBounded
  <2>1. step = "done" /\ report = store /\ Judged /\ Bounded(store) BY DEF AgentInv
  <2>2. ConfirmedByTwo
    <3>1. ASSUME NEW w \in DOMAIN waves, NEW k
          PROVE  Claims(k, waves[w]) \/ Agree(k, waves[w]) <=>
                    \E i, j \in Reported(k, w) :
                       \/ ByLine(k, w, i).confidence = "confirmed"
                       \/ waves[w][i].name # waves[w][j].name
      <4>1. Reported(k, w) = By(k, waves[w])
        BY DEF Reported, By, Keys, F!Fingerprint
      <4>2. ASSUME NEW i PROVE ByLine(k, w, i) = Choice(k, waves[w], i)
        BY DEF ByLine, Choice, The, F!Fingerprint
      <4> QED BY <4>1, <4>2 DEF Claims, Agree
    <3>2. ASSUME NEW k \in DOMAIN report
          PROVE  report[k].confidence = "confirmed" <=>
                    \E w \in DOMAIN waves : Claims(k, waves[w]) \/ Agree(k, waves[w])
      BY <2>1 DEF Judged
    <3> QED BY <3>1, <3>2 DEF ConfirmedByTwo
  <2>3. ReviewBounded
    <3>1. {k \in DOMAIN report : S!Weight(report[k].severity) > S!Weight(Protected)} = Above(store)
      BY <2>1 DEF Above, S!Weight, F!Weight
    <3> QED BY <2>1, <3>1 DEF ReviewBounded, Bounded
  <2> QED BY <2>2, <2>3 DEF JudgementsBounded
<1> QED BY <1>1, CyberInvariant, PTL

-----------------------------------------------------------------------------
(* Induction up to a number: tlapm cannot instantiate the library's theorem on it, *)
(* which takes an operator, so it is had from a least counterexample              *)

LEMMA LeastNatural ==
    ASSUME NEW Q \in SUBSET Nat, Q # {}
    PROVE  \E x \in Q : \A y \in Q : x <= y
<1> DEFINE U == {1 .. n : n \in Q}
<1>1. U \subseteq FiniteSubsetsOf(Nat)
  <2>1. \A n \in Q : IsFiniteSet(1 .. n) /\ 1 .. n \in SUBSET Nat BY FS_Interval
  <2> QED BY <2>1 DEF FiniteSubsetsOf
<1>2. U # {} OBVIOUS
<1>3. PICK u \in U : \A v \in U : <<v, u>> \notin StrictSubsetOrdering(Nat)
  <2> HIDE DEF U
  <2> QED BY <1>1, <1>2, FS_StrictSubsetOrderingWellFounded, WFMin
<1>4. PICK n \in Q : u = 1 .. n OBVIOUS
<1>5. ASSUME NEW m \in Q, m < n PROVE FALSE
  <2>1. 1 .. m \subseteq 1 .. n /\ n \in 1 .. n /\ n \notin 1 .. m BY <1>5
  <2>2. <<1 .. m, 1 .. n>> \in StrictSubsetOrdering(Nat) BY <2>1 DEF StrictSubsetOrdering
  <2> QED BY <2>2, <1>3, <1>4
<1> QED BY <1>5

LEMMA UpTo ==
    ASSUME NEW N \in Nat, NEW Q, 0 \in Q, \A n \in 0 .. N - 1 : n \in Q => n + 1 \in Q
    PROVE  0 .. N \subseteq Q
<1> DEFINE missing == 0 .. N \ Q
<1> SUFFICES ASSUME missing # {} PROVE FALSE OBVIOUS
<1>1. missing \in SUBSET Nat OBVIOUS
<1>2. PICK n \in missing : \A m \in missing : n <= m
  <2> HIDE DEF missing
  <2> QED BY <1>1, LeastNatural
<1>3. n \in 0 .. N /\ n # 0 /\ n \notin Q OBVIOUS
<1>4. n - 1 \in 0 .. N - 1 /\ n - 1 \in 0 .. N BY <1>3
<1>5. n - 1 \in Q BY <1>2, <1>4
<1>6. (n - 1) + 1 = n BY <1>3
<1> QED BY <1>3, <1>4, <1>5, <1>6

-----------------------------------------------------------------------------
(* The pages near the base URL *)

IsNear(at, n, f) ==
    f = [k \in 0 .. n |->
            IF k = 0 THEN {1} ELSE f[k - 1] \cup UNION {Linked(at, p) : p \in f[k - 1]}]

LEMMA NearExists ==
    ASSUME NEW N \in Nat, NEW at PROVE \E f : IsNear(at, N, f)
<1> DEFINE Q == {n \in 0 .. N : \E f : IsNear(at, n, f)}
           Further(near) == near \cup UNION {Linked(at, p) : p \in near}
<1>1. 0 \in Q
  <2> DEFINE f == [k \in 0 .. 0 |-> {1}]
  <2>1. \A k \in 0 .. 0 : k = 0 OBVIOUS
  <2>2. f = [k \in 0 .. 0 |-> IF k = 0 THEN {1} ELSE f[k - 1] \cup UNION {Linked(at, p) : p \in f[k - 1]}]
    BY <2>1, Zenon
  <2>3. IsNear(at, 0, f) BY <2>2, Zenon DEF IsNear
  <2> QED BY <2>3
<1>2. ASSUME NEW n \in 0 .. N - 1, n \in Q PROVE n + 1 \in Q
  <2>1. PICK f : IsNear(at, n, f) BY <1>2
  <2> DEFINE more == [k \in 0 .. n + 1 |-> IF k = n + 1 THEN Further(f[n]) ELSE f[k]]
  <2>2. \A k \in 0 .. n : f[k] = IF k = 0 THEN {1} ELSE Further(f[k - 1]) BY <2>1, Zenon DEF IsNear
  <2> HIDE DEF Further
  <2>3. \A k \in 0 .. n : more[k] = f[k] OBVIOUS
  <2>4. more[n + 1] = Further(f[n]) OBVIOUS
  <2>5. more = [k \in 0 .. n + 1 |-> more[k]] OBVIOUS
  <2> HIDE DEF more
  <2>6. \A k \in 0 .. n : k # 0 => k - 1 \in 0 .. n OBVIOUS
  <2>7. \A k \in 0 .. n : more[k] = IF k = 0 THEN {1} ELSE Further(more[k - 1])
    BY <2>2, <2>3, <2>6
  <2>8. more[n + 1] = IF n + 1 = 0 THEN {1} ELSE Further(more[n + 1 - 1])
    <3>1. n + 1 - 1 = n /\ n + 1 # 0 /\ n \in 0 .. n OBVIOUS
    <3> QED BY <2>3, <2>4, <3>1
  <2>9. \A k \in 0 .. n + 1 : k \in 0 .. n \/ k = n + 1 OBVIOUS
  <2>10. ASSUME NEW k \in 0 .. n + 1
         PROVE  more[k] = IF k = 0 THEN {1} ELSE Further(more[k - 1])
    <3>1. CASE k = n + 1 BY <2>8, <3>1
    <3>2. CASE k \in 0 .. n BY <2>7, <3>2
    <3> QED BY <2>9, <3>1, <3>2
  <2>11. IsNear(at, n + 1, more) BY <2>5, <2>10, Zenon DEF IsNear, Further
  <2> QED BY <2>11
<1> HIDE DEF Q
<1>3. 0 .. N \subseteq Q BY <1>1, <1>2, UpTo
<1>4. N \in Q BY <1>3
<1> QED BY <1>4 DEF Q

LEMMA NearShape ==
    ASSUME NEW at
    PROVE  /\ Near(at)[0] = {1}
           /\ \A n \in 0 .. MaxDepth - 1 :
                 Near(at)[n + 1] = Near(at)[n] \cup UNION {Linked(at, p) : p \in Near(at)[n]}
<1>0. MaxDepth \in Nat BY Limits
<1>1. \E f : IsNear(at, MaxDepth, f) BY <1>0, NearExists
<1>2. IsNear(at, MaxDepth, Near(at)) BY <1>1, Zenon DEF Near, IsNear
<1> DEFINE Further(near) == near \cup UNION {Linked(at, p) : p \in near}
           near(k) == Near(at)[k]
<1>3. \A k \in 0 .. MaxDepth : near(k) = IF k = 0 THEN {1} ELSE Further(near(k - 1))
  BY <1>2, Zenon DEF IsNear
<1> HIDE DEF Further, near
<1>4. near(0) = {1} BY <1>0, <1>3
<1>5. ASSUME NEW n \in 0 .. MaxDepth - 1 PROVE near(n + 1) = Further(near(n))
  <2>1. n + 1 \in 0 .. MaxDepth /\ n + 1 # 0 /\ n + 1 - 1 = n BY <1>0
  <2>2. near(n + 1) = Further(near(n + 1 - 1)) BY <1>3, <2>1
  <2> QED BY <2>1, <2>2
<1> QED BY <1>4, <1>5 DEF near, Further

\* Whatever has the base URL and is closed under links has all that is near.
LEMMA NearClosed ==
    ASSUME NEW at, NEW P, 1 \in P, \A p \in P : Linked(at, p) \subseteq P
    PROVE  \A n \in 0 .. MaxDepth : Near(at)[n] \subseteq P
<1>0. MaxDepth \in Nat BY Limits
<1> DEFINE Q == {n \in 0 .. MaxDepth : Near(at)[n] \subseteq P}
<1>1. 0 \in Q BY <1>0, NearShape
<1>2. ASSUME NEW n \in 0 .. MaxDepth - 1, n \in Q PROVE n + 1 \in Q
  <2>1. n + 1 \in 0 .. MaxDepth BY <1>0
  <2>2. Near(at)[n + 1] = Near(at)[n] \cup UNION {Linked(at, p) : p \in Near(at)[n]}
    BY NearShape
  <2>3. Near(at)[n] \subseteq P BY <1>2
  <2> QED BY <2>1, <2>2, <2>3
<1> HIDE DEF Q
<1>3. 0 .. MaxDepth \subseteq Q BY <1>0, <1>1, <1>2, UpTo
<1> QED BY <1>3 DEF Q

\* Who is near stays near.
LEMMA NearGrows ==
    ASSUME NEW at, NEW n \in 0 .. MaxDepth
    PROVE  Near(at)[n] \subseteq Near(at)[MaxDepth]
<1>0. MaxDepth \in Nat BY Limits
<1> DEFINE Q == {i \in 0 .. MaxDepth - n : Near(at)[n] \subseteq Near(at)[n + i]}
<1>1. 0 \in Q
  <2>1. n + 0 = n /\ 0 \in 0 .. MaxDepth - n BY <1>0
  <2> QED BY <2>1
<1>2. ASSUME NEW i \in 0 .. MaxDepth - n - 1, i \in Q PROVE i + 1 \in Q
  <2>1. /\ i + 1 \in 0 .. MaxDepth - n /\ n + i \in 0 .. MaxDepth - 1
        /\ n + (i + 1) = (n + i) + 1
    BY <1>0
  <2>2. Near(at)[n + i] \subseteq Near(at)[(n + i) + 1] BY <2>1, NearShape
  <2>3. Near(at)[n] \subseteq Near(at)[n + i] BY <1>2
  <2> QED BY <2>1, <2>2, <2>3
<1>3. MaxDepth - n \in Nat BY <1>0
<1> HIDE DEF Q
<1>4. 0 .. MaxDepth - n \subseteq Q BY <1>1, <1>2, <1>3, UpTo
<1>5. MaxDepth - n \in Q BY <1>3, <1>4
<1>6. n + (MaxDepth - n) = MaxDepth BY <1>0
<1> QED BY <1>5, <1>6 DEF Q
-----------------------------------------------------------------------------
(* The links of one page *)

Listing(s) == {s[i] : i \in DOMAIN s}

Pages == DOMAIN site.pages

\* c is visited with some new pages found at a depth.
Extends(c, visited, new, depth) ==
    /\ c.seen = visited.seen \cup new
    /\ c.endpoints \in Seq(Pages) /\ Listing(c.endpoints) = Listing(visited.endpoints) \cup new
    /\ c.queue \in Seq(Pages \X Nat) /\ Len(visited.queue) <= Len(c.queue)
    /\ \A i \in 1 .. Len(visited.queue) : c.queue[i] = visited.queue[i]
    /\ \A i \in Len(visited.queue) + 1 .. Len(c.queue) : \E x \in new : c.queue[i] = <<x, depth + 1>>
    /\ \A x \in new : \E i \in Len(visited.queue) + 1 .. Len(c.queue) : c.queue[i] = <<x, depth + 1>>

LEMMA EnqueueExtends ==
    ASSUME NEW c, NEW visited, NEW new, NEW depth \in Nat, Extends(c, visited, new, depth),
           Len(visited.queue) \in Nat, NEW link
    PROVE  Extends(S!Enqueue(c, link, depth), visited,
                   IF depth >= MaxDepth \/ link \notin Pages THEN new
                   ELSE new \cup ({link} \ visited.seen), depth)
<1> DEFINE more == [seen |-> c.seen \cup {link}, endpoints |-> Append(c.endpoints, link),
                    queue |-> Append(c.queue, <<link, depth + 1>>)]
<1>1. CASE depth >= MaxDepth \/ link \notin Pages
  BY <1>1 DEF S!Enqueue, Pages
<1>2. CASE ~(depth >= MaxDepth \/ link \notin Pages) /\ link \in c.seen
  <2>1. S!Enqueue(c, link, depth) = c BY <1>2 DEF S!Enqueue
  <2>2. new \cup ({link} \ visited.seen) = new BY <1>2 DEF Extends
  <2> QED BY <1>2, <2>1, <2>2
<1>3. CASE ~(depth >= MaxDepth \/ link \notin Pages) /\ link \notin c.seen
  <2>1. S!Enqueue(c, link, depth) = more BY <1>3 DEF S!Enqueue, Pages
  <2> DEFINE found == new \cup {link}
             q == Append(c.queue, <<link, depth + 1>>)
             e == Append(c.endpoints, link)
  <2>2. new \cup ({link} \ visited.seen) = found BY <1>3 DEF Extends
  <2>3. more.seen = visited.seen \cup found BY DEF Extends
  <2>4. e \in Seq(Pages) /\ Listing(e) = Listing(c.endpoints) \cup {link}
    <3>1. c.endpoints \in Seq(Pages) BY DEF Extends
    <3>2. /\ Len(e) = Len(c.endpoints) + 1 /\ Len(c.endpoints) \in Nat
          /\ \A i \in 1 .. Len(c.endpoints) : e[i] = c.endpoints[i]
          /\ e[Len(c.endpoints) + 1] = link
          /\ e \in Seq(Pages)
          /\ DOMAIN e = 1 .. Len(e) /\ DOMAIN c.endpoints = 1 .. Len(c.endpoints)
      BY <1>3, <3>1
    <3> HIDE DEF e
    <3> QED BY <3>2 DEF Listing
  <2>5. /\ q \in Seq(Pages \X Nat) /\ Len(q) = Len(c.queue) + 1 /\ Len(c.queue) \in Nat
        /\ \A i \in 1 .. Len(c.queue) : q[i] = c.queue[i]
        /\ q[Len(c.queue) + 1] = <<link, depth + 1>>
    BY <1>3 DEF Extends
  <2>0. Len(visited.queue) <= Len(c.queue) /\ Len(visited.queue) \in Nat BY DEF Extends
  <2> HIDE DEF q, e
  <2>6. Len(visited.queue) <= Len(q) /\ \A i \in 1 .. Len(visited.queue) : q[i] = visited.queue[i]
    <3>1. Len(visited.queue) <= Len(q) BY <2>0, <2>5
    <3>2. ASSUME NEW i \in 1 .. Len(visited.queue) PROVE q[i] = visited.queue[i]
      <4>1. i \in 1 .. Len(c.queue) BY <2>0, <2>5
      <4> QED BY <2>5, <4>1 DEF Extends
    <3> QED BY <3>1, <3>2
  <2>7. \A i \in Len(visited.queue) + 1 .. Len(q) : \E x \in found : q[i] = <<x, depth + 1>>
    <3> TAKE i \in Len(visited.queue) + 1 .. Len(q)
    <3>1. CASE i = Len(c.queue) + 1 BY <2>5, <3>1
    <3>2. CASE i # Len(c.queue) + 1
      <4>1. i \in Len(visited.queue) + 1 .. Len(c.queue) /\ i \in 1 .. Len(c.queue) BY <2>5, <3>2
      <4> QED BY <2>5, <4>1 DEF Extends
    <3> QED BY <3>1, <3>2
  <2>8. \A x \in found : \E i \in Len(visited.queue) + 1 .. Len(q) : q[i] = <<x, depth + 1>>
    <3> TAKE x \in found
    <3>1. CASE x = link
      <4>1. Len(c.queue) + 1 \in Len(visited.queue) + 1 .. Len(q) BY <2>5 DEF Extends
      <4> QED BY <2>5, <3>1, <4>1
    <3>2. CASE x \in new
      <4>1. PICK i \in Len(visited.queue) + 1 .. Len(c.queue) : c.queue[i] = <<x, depth + 1>>
        BY <3>2 DEF Extends
      <4>2. i \in Len(visited.queue) + 1 .. Len(q) /\ i \in 1 .. Len(c.queue) BY <2>0, <2>5
      <4>3. q[i] = c.queue[i] BY <2>5, <4>2
      <4> QED BY <4>1, <4>2, <4>3
    <3> QED BY <3>1, <3>2
  <2>9. more.endpoints = e /\ more.queue = q BY DEF e, q
  <2>10. Listing(e) = Listing(visited.endpoints) \cup found BY <2>4 DEF Extends
  <2> HIDE DEF more, found
  <2>11. Extends(more, visited, found, depth)
    BY <2>3, <2>4, <2>5, <2>6, <2>7, <2>8, <2>9, <2>10 DEF Extends
  <2> QED BY <1>3, <2>1, <2>2, <2>11
<1> QED BY <1>1, <1>2, <1>3

IsCrawl(visited, links, depth, n, f) ==
    f = [i \in 0 .. n |-> IF i = 0 THEN visited ELSE S!Enqueue(f[i - 1], links[i], depth)]

LEMMA CrawlExists ==
    ASSUME NEW N \in Nat, NEW visited, NEW links, NEW depth
    PROVE  \E f : IsCrawl(visited, links, depth, N, f)
<1> DEFINE Q == {n \in 0 .. N : \E f : IsCrawl(visited, links, depth, n, f)}
<1>1. 0 \in Q
  <2> DEFINE f == [i \in 0 .. 0 |-> visited]
  <2>1. \A i \in 0 .. 0 : i = 0 OBVIOUS
  <2>2. f = [i \in 0 .. 0 |-> IF i = 0 THEN visited ELSE S!Enqueue(f[i - 1], links[i], depth)]
    BY <2>1, Zenon
  <2>3. IsCrawl(visited, links, depth, 0, f) BY <2>2, Zenon DEF IsCrawl
  <2> QED BY <2>3
<1>2. ASSUME NEW n \in 0 .. N - 1, n \in Q PROVE n + 1 \in Q
  <2>1. PICK f : IsCrawl(visited, links, depth, n, f) BY <1>2
  <2> DEFINE next(c, i) == S!Enqueue(c, links[i], depth)
             more == [i \in 0 .. n + 1 |-> IF i = n + 1 THEN next(f[n], n + 1) ELSE f[i]]
  <2>2. \A i \in 0 .. n : f[i] = IF i = 0 THEN visited ELSE next(f[i - 1], i)
    BY <2>1, Zenon DEF IsCrawl
  <2> HIDE DEF next
  <2>3. \A i \in 0 .. n : more[i] = f[i] OBVIOUS
  <2>4. more[n + 1] = next(f[n], n + 1) OBVIOUS
  <2>5. more = [i \in 0 .. n + 1 |-> more[i]] OBVIOUS
  <2> HIDE DEF more
  <2>6. \A i \in 0 .. n : i # 0 => i - 1 \in 0 .. n OBVIOUS
  <2>7. \A i \in 0 .. n : more[i] = IF i = 0 THEN visited ELSE next(more[i - 1], i)
    BY <2>2, <2>3, <2>6
  <2>8. more[n + 1] = IF n + 1 = 0 THEN visited ELSE next(more[n + 1 - 1], n + 1)
    <3>1. n + 1 - 1 = n /\ n + 1 # 0 /\ n \in 0 .. n OBVIOUS
    <3> QED BY <2>3, <2>4, <3>1
  <2>9. \A i \in 0 .. n + 1 : i \in 0 .. n \/ i = n + 1 OBVIOUS
  <2>10. ASSUME NEW i \in 0 .. n + 1
         PROVE  more[i] = IF i = 0 THEN visited ELSE next(more[i - 1], i)
    <3>1. CASE i = n + 1 BY <2>8, <3>1
    <3>2. CASE i \in 0 .. n BY <2>7, <3>2
    <3> QED BY <2>9, <3>1, <3>2
  <2>11. IsCrawl(visited, links, depth, n + 1, more) BY <2>5, <2>10, Zenon DEF IsCrawl, next
  <2> QED BY <2>11
<1> HIDE DEF Q
<1>3. 0 .. N \subseteq Q BY <1>1, <1>2, UpTo
<1>4. N \in Q BY <1>3
<1> QED BY <1>4 DEF Q

\* The pages a sequence of links leads to that were not seen before.
Found(visited, links, depth, n) ==
    {x \in Pages \ visited.seen : ~(depth >= MaxDepth) /\ \E j \in 1 .. n : links[j] = x}

LEMMA FollowFinds ==
    ASSUME NEW visited, NEW links \in Seq(Nat), NEW depth \in Nat,
           visited.endpoints \in Seq(Pages), visited.queue \in Seq(Pages \X Nat)
    PROVE  Extends(S!Follow(visited, links, depth), visited,
                   Found(visited, links, depth, Len(links)), depth)
<1> DEFINE N == Len(links)
<1>1. N \in Nat OBVIOUS
<1>2. \E f : IsCrawl(visited, links, depth, N, f) BY <1>1, CrawlExists
<1>3. PICK f : IsCrawl(visited, links, depth, N, f) /\ S!Follow(visited, links, depth) = f[N]
  <2> DEFINE f == CHOOSE f : IsCrawl(visited, links, depth, N, f)
  <2>1. IsCrawl(visited, links, depth, N, f) BY <1>2, Zenon
  <2>2. S!Follow(visited, links, depth) = f[N] BY Zenon DEF S!Follow, IsCrawl
  <2> QED BY <2>1, <2>2
<1>4. \A i \in 0 .. N : f[i] = IF i = 0 THEN visited ELSE S!Enqueue(f[i - 1], links[i], depth)
  BY <1>3, Zenon DEF IsCrawl
<1> HIDE DEF N
<1> DEFINE new(n) == Found(visited, links, depth, n)
           Q == {n \in 0 .. N : Extends(f[n], visited, new(n), depth)}
<1>5. 0 \in Q
  <2>1. 0 \in 0 .. N BY <1>1
  <2>2. f[0] = visited BY <1>4, <2>1
  <2>3. new(0) = {} BY DEF Found
  <2>4. Len(visited.queue) \in Nat OBVIOUS
  <2>5. Extends(visited, visited, {}, depth)
    BY <2>4 DEF Extends
  <2> QED BY <2>1, <2>2, <2>3, <2>5
<1>6. ASSUME NEW n \in 0 .. N - 1, n \in Q PROVE n + 1 \in Q
  <2>1. n + 1 \in 0 .. N /\ n + 1 # 0 /\ n + 1 - 1 = n /\ n \in Nat BY <1>1
  <2>2. f[n + 1] = S!Enqueue(f[n], links[n + 1], depth)
    <3> DEFINE next(c, i) == S!Enqueue(c, links[i], depth)
    <3>1. \A i \in 0 .. N : f[i] = IF i = 0 THEN visited ELSE next(f[i - 1], i) BY <1>4
    <3> HIDE DEF next
    <3>2. f[n + 1] = next(f[n], n + 1) BY <2>1, <3>1
    <3> QED BY <3>2 DEF next
  <2>3. Extends(f[n], visited, new(n), depth) BY <1>6
  <2>4. Extends(f[n + 1], visited,
                IF depth >= MaxDepth \/ links[n + 1] \notin Pages THEN new(n)
                ELSE new(n) \cup ({links[n + 1]} \ visited.seen), depth)
    <3>1. Len(visited.queue) \in Nat OBVIOUS
    <3> HIDE DEF new
    <3> DEFINE c == f[n]
               link == links[n + 1]
    <3>2. Extends(c, visited, new(n), depth) BY <2>3
    <3> HIDE DEF c, link
    <3>3. Extends(S!Enqueue(c, link, depth), visited,
                  IF depth >= MaxDepth \/ link \notin Pages THEN new(n)
                  ELSE new(n) \cup ({link} \ visited.seen), depth)
      BY <3>1, <3>2, EnqueueExtends
    <3> QED BY <2>2, <3>3 DEF c, link
  <2>5. \A j : j \in 1 .. n + 1 <=> j \in 1 .. n \/ j = n + 1 BY <2>1
  <2>6. new(n + 1) = IF depth >= MaxDepth \/ links[n + 1] \notin Pages THEN new(n)
                     ELSE new(n) \cup ({links[n + 1]} \ visited.seen)
    <3>1. CASE depth >= MaxDepth BY <3>1 DEF Found
    <3>2. CASE ~(depth >= MaxDepth) BY <2>5, <3>2 DEF Found
    <3> QED BY <3>1, <3>2
  <2> QED BY <2>1, <2>4, <2>6
<1> HIDE DEF Q, new
<1>7. 0 .. N \subseteq Q BY <1>1, <1>5, <1>6, UpTo
<1>8. N \in Q BY <1>1, <1>7
<1> QED BY <1>3, <1>8 DEF Q, N, new
-----------------------------------------------------------------------------
(* The search *)

Holds(q, entry) == \E i \in DOMAIN q : q[i] = entry

\* While the pages of a depth are visited, all of them are seen, each that was visited has
\* its links seen, and what else was seen is queued for the depth after.
Frontier(at, q, s, k) ==
    /\ Near(at)[k] \subseteq s
    /\ k < MaxDepth => \A x \in Near(at)[k] : Linked(at, x) \subseteq s \/ Holds(q, <<x, k>>)
    /\ \A x \in s : x \in Near(at)[k] \/ Holds(q, <<x, k + 1>>)

\* The queue is in the order of depths, of which it has two, next to each other.
Search(at, q, s, e) ==
    /\ q \in Seq((DOMAIN at.pages) \X (0 .. MaxDepth)) /\ e \in Seq(DOMAIN at.pages)
    /\ \A i, j \in DOMAIN q : i <= j => q[i][2] <= q[j][2] /\ q[j][2] <= q[i][2] + 1
    /\ \A i \in DOMAIN q : q[i][1] \in s /\ q[i][1] \in Near(at)[q[i][2]]
    /\ 1 \in s /\ s \subseteq Near(at)[MaxDepth] /\ s \subseteq DOMAIN at.pages
    /\ Listing(e) = s \/ (q = <<<< 1, 0 >>>> /\ e = <<>> /\ s = {1})
    /\ q # <<>> => Frontier(at, q, s, q[1][2])
    /\ q = <<>> => Near(at)[MaxDepth] \subseteq s

\* Page x was visited at depth k: the queue q is now r, with the new pages at its end,
\* and g is listed.
Visited(at, q, s, x, k, new, r, g) ==
    /\ q # <<>> /\ q[1] = <<x, k>>
    /\ new = IF k < MaxDepth THEN Linked(at, x) \ s ELSE {}
    /\ r \in Seq((DOMAIN at.pages) \X Nat) /\ Len(q) - 1 <= Len(r)
    /\ \A i \in 1 .. Len(q) - 1 : r[i] = q[i + 1]
    /\ \A i \in Len(q) .. Len(r) : \E y \in new : r[i] = <<y, k + 1>>
    /\ \A y \in new : \E i \in Len(q) .. Len(r) : r[i] = <<y, k + 1>>
    /\ g \in Seq(DOMAIN at.pages) /\ Listing(g) = s \cup new

LEMMA Visit ==
    ASSUME NEW at, NEW q, NEW s, NEW e, NEW x, NEW k, NEW new, NEW r, NEW g,
           Search(at, q, s, e), Visited(at, q, s, x, k, new, r, g)
    PROVE  Search(at, r, s \cup new, g)
<1> SUFFICES ASSUME q # <<>>, q[1] = <<x, k>>,
                    new = IF k < MaxDepth THEN Linked(at, x) \ s ELSE {},
                    r \in Seq((DOMAIN at.pages) \X Nat), Len(q) - 1 <= Len(r),
                    \A i \in 1 .. Len(q) - 1 : r[i] = q[i + 1],
                    \A i \in Len(q) .. Len(r) : \E y \in new : r[i] = <<y, k + 1>>,
                    \A y \in new : \E i \in Len(q) .. Len(r) : r[i] = <<y, k + 1>>,
                    g \in Seq(DOMAIN at.pages), Listing(g) = s \cup new
             PROVE  Search(at, r, s \cup new, g)
  BY DEF Visited
<1>0. /\ MaxDepth \in Nat /\ Len(q) \in Nat /\ Len(q) > 0 /\ Len(r) \in Nat
      /\ DOMAIN q = 1 .. Len(q) /\ DOMAIN r = 1 .. Len(r) /\ 1 \in DOMAIN q
      /\ q \in Seq((DOMAIN at.pages) \X (0 .. MaxDepth))
  <2> DEFINE X == (DOMAIN at.pages) \X (0 .. MaxDepth)
             Y == (DOMAIN at.pages) \X Nat
  <2>1. q \in Seq(X) BY DEF Search
  <2>2. r \in Seq(Y) OBVIOUS
  <2> HIDE DEF X, Y
  <2>3. Len(q) \in Nat /\ Len(q) # 0 /\ DOMAIN q = 1 .. Len(q) BY <2>1
  <2>4. Len(r) \in Nat /\ DOMAIN r = 1 .. Len(r) BY <2>2
  <2>5. MaxDepth \in Nat BY Limits
  <2> QED BY <2>1, <2>3, <2>4, <2>5 DEF X
<1>1. /\ k \in 0 .. MaxDepth /\ x \in DOMAIN at.pages /\ x \in s /\ x \in Near(at)[k]
      /\ Frontier(at, q, s, k)
  <2>1. q[1] \in (DOMAIN at.pages) \X (0 .. MaxDepth) /\ q[1][1] = x /\ q[1][2] = k BY <1>0
  <2>2. q[1][1] \in s /\ q[1][1] \in Near(at)[q[1][2]] BY <1>0 DEF Search
  <2>3. Frontier(at, q, s, q[1][2]) BY DEF Search
  <2> QED BY <2>1, <2>2, <2>3
<1>2. /\ new # {} => k < MaxDepth /\ k + 1 \in 0 .. MaxDepth
      /\ new \subseteq Linked(at, x) /\ new \subseteq DOMAIN at.pages
      /\ k < MaxDepth => Linked(at, x) \subseteq s \cup new
  BY <1>0, <1>1 DEF Linked
<1>3. k < MaxDepth =>
         Near(at)[k + 1] = Near(at)[k] \cup UNION {Linked(at, p) : p \in Near(at)[k]}
  <2>1. k < MaxDepth => k \in 0 .. MaxDepth - 1 BY <1>0, <1>1
  <2>2. \A n \in 0 .. MaxDepth - 1 :
           Near(at)[n + 1] = Near(at)[n] \cup UNION {Linked(at, p) : p \in Near(at)[n]}
    BY NearShape
  <2> QED BY <2>1, <2>2, Zenon
<1>4. \A y \in new : y \in Near(at)[k + 1] /\ y \in Near(at)[MaxDepth]
  <2> TAKE y \in new
  <2>1. y \in Near(at)[k + 1] BY <1>1, <1>2, <1>3
  <2>2. Near(at)[k + 1] \subseteq Near(at)[MaxDepth] BY <1>2, NearGrows
  <2> QED BY <2>1, <2>2
<1>5. ASSUME NEW i \in DOMAIN r
      PROVE  \/ i < Len(q) /\ i + 1 \in DOMAIN q /\ r[i] = q[i + 1]
             \/ ~(i < Len(q)) /\ \E y \in new : r[i] = <<y, k + 1>>
  <2>1. CASE i < Len(q)
    <3>1. i \in 1 .. Len(q) - 1 /\ i + 1 \in DOMAIN q BY <1>0, <2>1
    <3> QED BY <2>1, <3>1
  <2>2. CASE ~(i < Len(q))
    <3>1. i \in Len(q) .. Len(r) BY <1>0, <2>2
    <3> QED BY <2>2, <3>1
  <2> QED BY <2>1, <2>2
\* What is left of the queue.
<1>6. ASSUME NEW j \in DOMAIN q, j # 1 PROVE Holds(r, q[j])
  <2>1. j - 1 \in 1 .. Len(q) - 1 /\ j - 1 \in DOMAIN r /\ (j - 1) + 1 = j BY <1>0, <1>6
  <2>2. r[j - 1] = q[j] BY <2>1
  <2> QED BY <2>1, <2>2 DEF Holds
<1>7. ASSUME NEW i \in DOMAIN r
      PROVE  /\ r[i] \in (DOMAIN at.pages) \X (0 .. MaxDepth)
             /\ r[i][2] = k \/ r[i][2] = k + 1
             /\ r[i][1] \in s \cup new /\ r[i][1] \in Near(at)[r[i][2]]
             /\ r[i] = <<r[i][1], r[i][2]>>
  <2>1. CASE i < Len(q) /\ i + 1 \in DOMAIN q /\ r[i] = q[i + 1]
    <3>1. q[i + 1] \in (DOMAIN at.pages) \X (0 .. MaxDepth) BY <1>0, <2>1
    <3>2. q[1][2] <= q[i + 1][2] /\ q[i + 1][2] <= q[1][2] + 1
      <4>1. 1 <= i + 1 BY <1>0
      <4> QED BY <1>0, <2>1, <4>1 DEF Search
    <3>3. q[1][2] = k OBVIOUS
    <3>4. q[i + 1][1] \in s /\ q[i + 1][1] \in Near(at)[q[i + 1][2]] BY <2>1 DEF Search
    <3>5. q[i + 1][2] \in 0 .. MaxDepth BY <3>1
    <3>6. q[i + 1][2] = k \/ q[i + 1][2] = k + 1
      <4> DEFINE d == q[i + 1][2]
      <4>1. k <= d /\ d <= k + 1 BY <3>2, <3>3
      <4>2. d \in Int /\ k \in Int BY <1>1, <3>5
      <4> HIDE DEF d
      <4>3. d = k \/ d = k + 1 BY <4>1, <4>2
      <4> QED BY <4>3 DEF d
    <3> QED BY <2>1, <3>1, <3>4, <3>6
  <2>2. CASE \E y \in new : r[i] = <<y, k + 1>>
    <3>1. PICK y \in new : r[i] = <<y, k + 1>> BY <2>2
    <3>2. k + 1 \in 0 .. MaxDepth /\ y \in DOMAIN at.pages BY <1>2
    <3> QED BY <1>4, <3>1, <3>2
  <2> QED BY <1>5, <2>1, <2>2
<1>8. ASSUME NEW i \in DOMAIN r, NEW j \in DOMAIN r, i <= j
      PROVE  r[i][2] <= r[j][2] /\ r[j][2] <= r[i][2] + 1
  <2>1. CASE i < Len(q) /\ j < Len(q)
    <3>1. /\ i + 1 \in DOMAIN q /\ j + 1 \in DOMAIN q /\ r[i] = q[i + 1] /\ r[j] = q[j + 1]
          /\ i + 1 <= j + 1
      BY <1>0, <1>5, <1>8, <2>1
    <3> QED BY <3>1 DEF Search
  <2>2. CASE ~(j < Len(q))
    <3>1. r[j][2] = k + 1 BY <1>5, <2>2
    <3>2. r[i][2] = k \/ r[i][2] = k + 1 BY <1>7
    <3> QED BY <1>1, <3>1, <3>2
  <2>3. i < Len(q) \/ ~(j < Len(q)) BY <1>0, <1>8
  <2> QED BY <2>1, <2>2, <2>3
<1>9. r \in Seq((DOMAIN at.pages) \X (0 .. MaxDepth))
  <2>1. r = [i \in 1 .. Len(r) |-> r[i]] BY <1>0
  <2> DEFINE X == (DOMAIN at.pages) \X (0 .. MaxDepth)
  <2>2. \A i \in 1 .. Len(r) : r[i] \in X BY <1>0, <1>7
  <2> HIDE DEF X
  <2>3. r \in [1 .. Len(r) -> X]
    <3>1. [i \in 1 .. Len(r) |-> r[i]] \in [1 .. Len(r) -> X] BY <2>2
    <3> QED BY <2>1, <3>1, Zenon
  <2>4. Len(r) \in Nat BY <1>0
  <2>5. r \in Seq(X)
    <3> DEFINE n == Len(r)
    <3>1. n \in Nat /\ r \in [1 .. n -> X] BY <2>3, <2>4
    <3> HIDE DEF n
    <3> QED BY <3>1
  <2> QED BY <2>5 DEF X
<1>10. 1 \in s \cup new /\ s \cup new \subseteq Near(at)[MaxDepth]
       /\ s \cup new \subseteq DOMAIN at.pages
  BY <1>2, <1>4 DEF Search
\* Where the search stands now.
<1>11. /\ Near(at)[k] \subseteq s \cup new
       /\ \A y \in s : y \in Near(at)[k] \/ Holds(r, <<y, k + 1>>)
       /\ \A y \in new : Holds(r, <<y, k + 1>>)
  <2>1. Near(at)[k] \subseteq s BY <1>1 DEF Frontier
  <2>2. ASSUME NEW y \in s, y \notin Near(at)[k] PROVE Holds(r, <<y, k + 1>>)
    <3>1. Holds(q, <<y, k + 1>>) BY <1>1, <2>2 DEF Frontier
    <3>2. PICK j \in DOMAIN q : q[j] = <<y, k + 1>> BY <3>1 DEF Holds
    <3>3. j # 1
      <4>1. k + 1 # k BY <1>1
      <4> QED BY <3>2, <4>1
    <3> QED BY <1>6, <3>2, <3>3
  <2>3. ASSUME NEW y \in new PROVE Holds(r, <<y, k + 1>>)
    <3>1. PICK i \in Len(q) .. Len(r) : r[i] = <<y, k + 1>> OBVIOUS
    <3>2. i \in DOMAIN r BY <1>0
    <3> QED BY <3>1, <3>2 DEF Holds
  <2> QED BY <2>1, <2>2, <2>3
<1>12. ASSUME k < MaxDepth, NEW y \in Near(at)[k]
       PROVE  Linked(at, y) \subseteq s \cup new \/ Holds(r, <<y, k>>)
  <2>1. Linked(at, y) \subseteq s \/ Holds(q, <<y, k>>) BY <1>1, <1>12 DEF Frontier
  <2>2. CASE Holds(q, <<y, k>>)
    <3>1. PICK j \in DOMAIN q : q[j] = <<y, k>> BY <2>2 DEF Holds
    <3>2. CASE j = 1
      <4>1. y = x BY <3>1, <3>2
      <4> QED BY <1>2, <1>12, <4>1
    <3>3. CASE j # 1 BY <1>6, <3>1, <3>3
    <3> QED BY <3>2, <3>3
  <2> QED BY <2>1, <2>2
<1>13. ASSUME r # <<>> PROVE Frontier(at, r, s \cup new, r[1][2])
  <2>1. 1 \in DOMAIN r BY <1>0, <1>13
  <2>2. r[1][2] = k \/ r[1][2] = k + 1 BY <1>7, <2>1
  <2>3. CASE r[1][2] = k
    BY <1>11, <1>12, <2>3 DEF Frontier
  <2>4. CASE r[1][2] = k + 1
    <3>1. r[1] \in (DOMAIN at.pages) \X (0 .. MaxDepth) BY <1>7, <2>1
    <3>2. k < MaxDepth
      <4>1. r[1][2] \in 0 .. MaxDepth BY <3>1
      <4> QED BY <1>0, <1>1, <2>4, <4>1
    <3>3. \A y : ~Holds(r, <<y, k>>)
      <4>1. ASSUME NEW i \in DOMAIN r PROVE r[i][2] # k
        <5>1. 1 <= i BY <1>0
        <5>2. r[1][2] <= r[i][2] BY <1>8, <2>1, <5>1
        <5>3. r[i][2] = k \/ r[i][2] = k + 1 BY <1>7
        <5>4. ~(k + 1 <= k) BY <1>1
        <5> QED BY <2>4, <5>2, <5>3, <5>4
      <4> QED BY <4>1 DEF Holds
    <3>4. \A y \in Near(at)[k] : Linked(at, y) \subseteq s \cup new BY <1>12, <3>2, <3>3
    <3>5. Near(at)[k + 1] \subseteq s \cup new BY <1>3, <1>11, <3>2, <3>4
    <3>6. \A y \in s \cup new : y \in Near(at)[k] \/ Holds(r, <<y, k + 1>>) BY <1>11
    <3>7. ASSUME NEW y \in s \cup new PROVE y \in Near(at)[k + 1]
      <4>1. CASE y \in Near(at)[k] BY <1>3, <3>2, <4>1
      <4>2. CASE Holds(r, <<y, k + 1>>)
        <5>1. PICK i \in DOMAIN r : r[i] = <<y, k + 1>> BY <4>2 DEF Holds
        <5>2. r[i][1] \in Near(at)[r[i][2]] BY <1>7
        <5> QED BY <5>1, <5>2
      <4> QED BY <3>6, <4>1, <4>2
    <3>8. \A y \in Near(at)[k + 1] : Linked(at, y) \subseteq s \cup new \/ Holds(r, <<y, k + 1>>)
      BY <3>4, <3>5, <3>6
    <3> QED BY <2>4, <3>5, <3>7, <3>8 DEF Frontier
  <2> QED BY <2>2, <2>3, <2>4
<1>14. ASSUME r = <<>> PROVE Near(at)[MaxDepth] \subseteq s \cup new
  <2>1. \A entry : ~Holds(r, entry) BY <1>14 DEF Holds
  <2>2. CASE k < MaxDepth
    <3>1. s \cup new \subseteq Near(at)[k] BY <1>11, <2>1
    <3>2. \A y \in s \cup new : Linked(at, y) \subseteq s \cup new BY <1>12, <2>1, <2>2, <3>1
    <3>3. MaxDepth \in 0 .. MaxDepth BY <1>0
    <3> QED BY <1>10, <3>2, <3>3, NearClosed
  <2>3. CASE ~(k < MaxDepth)
    <3>1. k = MaxDepth BY <1>0, <1>1, <2>3
    <3> QED BY <1>11, <3>1
  <2> QED BY <2>2, <2>3
<1> QED BY <1>7, <1>8, <1>9, <1>10, <1>13, <1>14 DEF Search
-----------------------------------------------------------------------------
(* The crawl of a scan *)

LEMMA FetchKeeps ==
    ASSUME spent \in Nat, drops \in Nat, NEW reply, NEW response, S!Fetch(reply, response)
    PROVE  /\ spent' \in Nat /\ drops' \in Nat
           /\ Undisturbed' => Undisturbed /\ response = reply
<1>0. MaxRequests \in Nat BY Limits
<1> QED BY <1>0 DEF S!Fetch, S!Refused, Undisturbed

LEMMA AnswersAlive ==
    ASSUME NEW at, NEW p, NEW n
    PROVE  S!Ok(S!Reply(at.pages[p], "GET", n)) <=> Alive(at, p)
<1> DEFINE traits == at.pages[p].traits
           reply == S!Reply(at.pages[p], "GET", n)
<1>1. "GET" \notin S!Paths BY Zenon DEF S!Paths
<1>2. S!Status(traits, "GET") = IF "missing" \in traits THEN 404 ELSE 200
  BY <1>1, Zenon DEF S!Status
<1>3. reply.error = FALSE /\ reply.status = S!Status(traits, "GET") BY Zenon DEF S!Reply
<1> HIDE DEF traits, reply
<1>4. S!Ok(reply) <=> "missing" \notin traits
  <2>1. 404 \notin 200 .. 399 /\ 200 \in 200 .. 399 OBVIOUS
  <2>2. S!Ok(reply) <=> reply.status \in 200 .. 399 BY <1>3, Zenon DEF S!Ok
  <2>3. CASE "missing" \in traits
    <3>1. reply.status = 404 BY <1>2, <1>3, <2>3
    <3> QED BY <2>1, <2>2, <2>3, <3>1
  <2>4. CASE "missing" \notin traits
    <3>1. reply.status = 200 BY <1>2, <1>3, <2>4
    <3> QED BY <2>1, <2>2, <2>4, <3>1
  <2> QED BY <2>3, <2>4
<1> QED BY <1>4 DEF traits, reply, Alive

Searching == stage = "crawl" \/ (stage = "base" /\ whole)

\* While a crawl is not cut short it is a search, and at its end all is listed.
CrawlInv ==
    /\ 1 \in DOMAIN site.pages /\ \A p \in DOMAIN site.pages : site.links[p] \in Seq(Nat)
    /\ drops \in Nat /\ spent \in Nat /\ fetched \in Nat
    /\ Undisturbed /\ Alive(site, 1) =>
          /\ Searching => Search(site, queue, seen, endpoints)
          /\ ~Searching /\ fetched < MaxPages => Listing(endpoints) = Within

LEMMA CrawlStarts == S!ScanInit(Scenarios) => CrawlInv
<1> SUFFICES ASSUME S!ScanInit(Scenarios) PROVE CrawlInv OBVIOUS
<1>0. MaxDepth \in Nat BY Limits
<1>1. 1 \in DOMAIN site.pages /\ \A p \in DOMAIN site.pages : site.links[p] \in Seq(Nat)
  BY CyberAssumption DEF S!ScanInit
<1>2. /\ Searching /\ drops = 0 /\ spent = 0 /\ fetched = 0
      /\ queue = <<<<1, 0>>>> /\ seen = {1} /\ endpoints = <<>>
  BY DEF S!ScanInit, Searching
<1>3. Search(site, queue, seen, endpoints)
  <2>1. 0 \in 0 .. MaxDepth BY <1>0
  <2>2. queue \in Seq((DOMAIN site.pages) \X (0 .. MaxDepth)) BY <1>1, <1>2, <2>1
  <2>3. DOMAIN queue = {1} /\ queue[1] = <<1, 0>> /\ queue # <<>> BY <1>2
  <2>4. endpoints \in Seq(DOMAIN site.pages) BY <1>2
  <2>5. Near(site)[0] = {1} BY NearShape
  <2>6. 1 \in Near(site)[MaxDepth]
    <3>1. Near(site)[0] \subseteq Near(site)[MaxDepth] BY <2>1, NearGrows
    <3> QED BY <2>5, <3>1
  <2>7. Holds(queue, <<1, 0>>) BY <2>3 DEF Holds
  <2>8. Frontier(site, queue, seen, 0) BY <1>2, <2>5, <2>7 DEF Frontier
  <2>9. queue[1][1] = 1 /\ queue[1][2] = 0 BY <2>3
  <2>10. \A i, j \in DOMAIN queue :
            i <= j => queue[i][2] <= queue[j][2] /\ queue[j][2] <= queue[i][2] + 1
    <3>1. \A i \in DOMAIN queue : queue[i][2] = 0 BY <2>3, <2>9
    <3>2. 0 <= 0 /\ 0 <= 0 + 1 OBVIOUS
    <3> QED BY <3>1, <3>2
  <2>11. \A i \in DOMAIN queue : queue[i][1] \in seen /\ queue[i][1] \in Near(site)[queue[i][2]]
    BY <1>2, <2>3, <2>5, <2>9
  <2>12. 1 \in seen /\ seen \subseteq Near(site)[MaxDepth] /\ seen \subseteq DOMAIN site.pages
    BY <1>1, <1>2, <2>6
  <2>13. Frontier(site, queue, seen, queue[1][2]) BY <2>8, <2>9
  <2> QED BY <1>2, <2>2, <2>3, <2>4, <2>10, <2>11, <2>12, <2>13 DEF Search
<1> QED BY <1>1, <1>2, <1>3 DEF CrawlInv

LEMMA PageInv ==
    ASSUME CrawlInv, S!CrawlPage PROVE CrawlInv'
<1> DEFINE page == queue[1][1]
           depth == queue[1][2]
           rest == Tail(queue)
           links == site.links[page]
           reply == S!Reply(site.pages[page], "GET", spent)
           visited == [seen |-> seen, queue |-> rest,
                       endpoints |-> IF S!Listed(page) THEN endpoints ELSE Append(endpoints, page)]
           crawl == S!Follow(visited, links, depth)
           new == IF depth < MaxDepth THEN Linked(site, page) \ seen ELSE {}
<1>1. /\ stage = "crawl" /\ queue # <<>> /\ UNCHANGED <<site, whole, stage>>
      /\ Head(queue) = queue[1]
  <2>1. stage = "crawl" /\ queue # <<>> /\ UNCHANGED <<site, whole, stage>> BY DEF S!CrawlPage
  <2>2. Head(queue) = queue[1] OBVIOUS
  <2> QED BY <2>1, <2>2
<1>2. PICK response :
         /\ S!Fetch(reply, response)
         /\ IF S!Ok(response)
            THEN /\ fetched' = fetched + 1
                 /\ seen' = crawl.seen /\ queue' = crawl.queue /\ endpoints' = crawl.endpoints
            ELSE queue' = rest /\ UNCHANGED <<fetched, seen, endpoints>>
  BY <1>1, Zenon DEF S!CrawlPage, S!Popped
<1>3. spent' \in Nat /\ drops' \in Nat /\ (Undisturbed' => Undisturbed /\ response = reply)
  BY <1>2, FetchKeeps DEF CrawlInv
<1>4. (1 \in DOMAIN site.pages /\ \A p \in DOMAIN site.pages : site.links[p] \in Seq(Nat))'
  BY <1>1 DEF CrawlInv
<1>5. ASSUME Undisturbed', Alive(site, 1) PROVE Search(site, queue', seen', endpoints')
  <2>1. Undisturbed /\ response = reply BY <1>3, <1>5
  <2>2. Search(site, queue, seen, endpoints) BY <1>1, <1>5, <2>1 DEF CrawlInv, Searching
  <2>3. /\ Len(queue) \in Nat /\ Len(queue) # 0 /\ queue[1] = <<page, depth>>
        /\ page \in Pages /\ depth \in 0 .. MaxDepth /\ depth \in Nat
        /\ rest \in Seq(Pages \X Nat) /\ Len(rest) = Len(queue) - 1
        /\ \A i \in 1 .. Len(queue) - 1 : rest[i] = queue[i + 1]
    <3> DEFINE X == (DOMAIN site.pages) \X (0 .. MaxDepth)
    <3>1. queue \in Seq(X) BY <2>2 DEF Search
    <3> HIDE DEF X
    <3>2. Len(queue) \in Nat /\ Len(queue) # 0 /\ queue[1] \in X BY <1>1, <3>1
    <3>3. rest \in Seq(X) BY <1>1, <3>1
    <3>4. Len(rest) = Len(queue) - 1 BY <1>1, <3>1
    <3>5. \A i \in 1 .. Len(queue) - 1 : rest[i] = queue[i + 1] BY <1>1, <3>1, <3>2
    <3>6. /\ queue[1] = <<page, depth>> /\ page \in Pages /\ depth \in 0 .. MaxDepth
          /\ depth \in Nat
      BY <3>2 DEF X, Pages
    <3>7. rest \in Seq(Pages \X Nat)
      <4>1. X \subseteq Pages \X Nat BY DEF X, Pages
      <4> HIDE DEF rest
      <4> QED BY <3>3, <4>1
    <3> QED BY <3>2, <3>4, <3>5, <3>6, <3>7
  <2>4. page \in seen /\ seen \subseteq Pages /\ endpoints \in Seq(Pages)
    <3>1. 1 \in DOMAIN queue BY <2>2, <2>3 DEF Search
    <3> QED BY <2>2, <3>1 DEF Search, Pages
  <2>5. \/ Listing(endpoints) = seen
        \/ page = 1 /\ endpoints = <<>> /\ seen = {1}
    BY <2>2 DEF Search
  <2>6. visited.endpoints \in Seq(Pages) /\ Listing(visited.endpoints) = seen
    <3>1. visited.endpoints = IF S!Listed(page) THEN endpoints ELSE Append(endpoints, page)
      OBVIOUS
    <3>2. S!Listed(page) <=> page \in Listing(endpoints) BY DEF S!Listed, Listing
    <3>3. CASE Listing(endpoints) = seen BY <2>4, <3>1, <3>2, <3>3
    <3>4. CASE page = 1 /\ endpoints = <<>> /\ seen = {1}
      <4>1. Listing(endpoints) = {} BY <3>4 DEF Listing
      <4>2. visited.endpoints = <<1>> BY <3>1, <3>2, <3>4, <4>1
      <4>3. Listing(<< 1 >>) = {1} BY DEF Listing
      <4>4. 1 \in Pages BY DEF CrawlInv, Pages
      <4> QED BY <3>4, <4>2, <4>3, <4>4
    <3> QED BY <2>5, <3>3, <3>4
  <2>7. S!Ok(response) <=> Alive(site, page) BY <2>1, AnswersAlive
  <2>8. links \in Seq(Nat) /\ Len(links) \in Nat BY <2>3 DEF CrawlInv, Pages
  <2>9. CASE S!Ok(response)
    <3> DEFINE r == crawl.queue
               g == crawl.endpoints
    <3>1. Linked(site, page) = {links[i] : i \in DOMAIN links} \cap Pages
      BY <2>7, <2>9 DEF Linked, Pages
    <3>2. Found(visited, links, depth, Len(links)) = new
      <4>1. DOMAIN links = 1 .. Len(links) /\ visited.seen = seen BY <2>8
      <4>2. ~(depth >= MaxDepth) <=> depth < MaxDepth BY <2>3, Limits
      <4> QED BY <3>1, <4>1, <4>2 DEF Found
    <3>3. visited.queue = rest /\ visited.seen = seen OBVIOUS
    <3>4. Extends(crawl, visited, new, depth)
      <4>1. visited.queue \in Seq(Pages \X Nat) BY <2>3, <3>3
      <4> HIDE DEF visited, links, depth, new
      <4>2. Extends(S!Follow(visited, links, depth), visited,
                    Found(visited, links, depth, Len(links)), depth)
        BY <2>3, <2>6, <2>8, <4>1, FollowFinds
      <4> QED BY <3>2, <4>2
    <3> HIDE DEF crawl, visited, new, links, page, depth, rest
    <3>5. /\ crawl.seen = seen \cup new
          /\ g \in Seq(Pages) /\ Listing(g) = seen \cup new
          /\ r \in Seq(Pages \X Nat) /\ Len(queue) - 1 <= Len(r)
          /\ \A i \in 1 .. Len(queue) - 1 : r[i] = queue[i + 1]
      BY <2>3, <2>6, <3>3, <3>4 DEF Extends
    <3>6. Len(rest) + 1 = Len(queue) BY <2>3
    <3>7. /\ \A i \in Len(queue) .. Len(r) : \E y \in new : r[i] = <<y, depth + 1>>
          /\ \A y \in new : \E i \in Len(queue) .. Len(r) : r[i] = <<y, depth + 1>>
      BY <3>3, <3>4, <3>6 DEF Extends
    <3> HIDE DEF r, g
    <3>8. new = IF depth < MaxDepth THEN Linked(site, page) \ seen ELSE {} BY DEF new, depth, page
    <3>9. Search(site, r, seen \cup new, g)
      <4>1. r \in Seq((DOMAIN site.pages) \X Nat) /\ g \in Seq(DOMAIN site.pages)
        BY <3>5 DEF Pages
      <4>2. queue # <<>> /\ queue[1] = <<page, depth>> BY <1>1, <2>3
      <4>3. Visited(site, queue, seen, page, depth, new, r, g)
        BY <3>5, <3>7, <3>8, <4>1, <4>2 DEF Visited
      <4> QED BY <2>2, <4>3, Visit
    <3> QED BY <1>2, <2>9, <3>5, <3>9 DEF r, g
  <2>10. CASE ~S!Ok(response)
    <3>1. new = {} BY <2>7, <2>10 DEF Linked
    <3>2. Listing(endpoints) = seen BY <1>5, <2>5, <2>7, <2>10
    <3>3. new = IF depth < MaxDepth THEN Linked(site, page) \ seen ELSE {} OBVIOUS
    <3> HIDE DEF crawl, visited, new, links, page, depth, rest
    <3>4. Len(queue) .. Len(rest) = {} BY <2>3
    <3>5. Listing(endpoints) = seen \cup new /\ Len(queue) - 1 <= Len(rest) BY <2>3, <3>1, <3>2
    <3>6. /\ \A i \in Len(queue) .. Len(rest) : \E y \in new : rest[i] = <<y, depth + 1>>
          /\ \A y \in new : \E i \in Len(queue) .. Len(rest) : rest[i] = <<y, depth + 1>>
      BY <3>1, <3>4
    <3>7. Search(site, rest, seen \cup new, endpoints)
      <4>1. rest \in Seq((DOMAIN site.pages) \X Nat) /\ endpoints \in Seq(DOMAIN site.pages)
        BY <2>3, <2>4 DEF Pages
      <4>2. /\ queue # <<>> /\ queue[1] = <<page, depth>>
            /\ \A i \in 1 .. Len(queue) - 1 : rest[i] = queue[i + 1]
        BY <1>1, <2>3
      <4>3. Visited(site, queue, seen, page, depth, new, rest, endpoints)
        BY <3>3, <3>5, <3>6, <4>1, <4>2 DEF Visited
      <4> QED BY <2>2, <4>3, Visit
    <3> QED BY <1>2, <2>10, <3>1, <3>7
  <2> QED BY <2>9, <2>10
<1>6. Searching' /\ (Alive(site, 1)' <=> Alive(site, 1)) BY <1>1 DEF Searching, Alive
<1>7. fetched' \in Nat BY <1>2 DEF CrawlInv
<1> QED BY <1>1, <1>3, <1>4, <1>5, <1>6, <1>7 DEF CrawlInv

\* The other steps leave what was crawled.
LEMMA LaterInv ==
    ASSUME CrawlInv, spent' \in Nat /\ drops' \in Nat, Undisturbed' => Undisturbed,
           UNCHANGED <<site, queue, seen, endpoints, fetched>>,
           Searching' <=> Searching
    PROVE  CrawlInv'
<1>1. /\ (1 \in DOMAIN site.pages /\ \A p \in DOMAIN site.pages : site.links[p] \in Seq(Nat))'
      /\ Alive(site, 1)' <=> Alive(site, 1)
      /\ Search(site, queue, seen, endpoints)' <=> Search(site, queue, seen, endpoints)
      /\ Within' = Within /\ Listing(endpoints)' = Listing(endpoints)
  <2>1. /\ (1 \in DOMAIN site.pages /\ \A p \in DOMAIN site.pages : site.links[p] \in Seq(Nat))'
        /\ Alive(site, 1)' <=> Alive(site, 1)
    BY DEF CrawlInv, Alive
  <2>2. Search(site, queue, seen, endpoints)' <=> Search(site, queue, seen, endpoints)
    OBVIOUS
  <2>3. Within' = Within BY DEF Within
  <2>4. Listing(endpoints)' = Listing(endpoints) OBVIOUS
  <2> QED BY <2>1, <2>2, <2>3, <2>4
<1> QED BY <1>1 DEF CrawlInv

LEMMA CrawlStep ==
    ASSUME CrawlInv, S!ScanNext PROVE CrawlInv'
<1> USE DEF CrawlInv
<1>0. spent \in Nat /\ drops \in Nat OBVIOUS
<1>1. CASE S!CrawlPage BY <1>1, PageInv
<1>2. CASE S!CrawlEnds
  <2>1. /\ UNCHANGED <<site, queue, seen, endpoints, fetched, spent, drops>>
        /\ Searching /\ ~Searching' /\ (queue = <<>> \/ fetched >= MaxPages)
    BY <1>2 DEF S!CrawlEnds, S!mapVars, Searching
  <2>2. ASSUME Undisturbed, Alive(site, 1), fetched < MaxPages PROVE Listing(endpoints) = Within
    <3>1. MaxPages \in Nat BY Limits
    <3>2. queue = <<>> BY <2>1, <2>2, <3>1
    <3>3. Search(site, queue, seen, endpoints) BY <2>1, <2>2
    <3>4. Near(site)[MaxDepth] \subseteq seen /\ seen \subseteq Near(site)[MaxDepth]
      BY <3>2, <3>3 DEF Search
    <3>5. <<>> # <<<<1, 0>>>> OBVIOUS
    <3>6. Listing(endpoints) = seen BY <3>2, <3>3, <3>5 DEF Search
    <3> QED BY <3>4, <3>6 DEF Within
  <2>3. /\ Undisturbed' <=> Undisturbed
        /\ Alive(site, 1)' <=> Alive(site, 1)
    BY <2>1 DEF Undisturbed, Alive
  <2>4. Within' = Within /\ Listing(endpoints)' = Listing(endpoints)
    BY <2>1 DEF Within
  <2>5. (1 \in DOMAIN site.pages /\ \A p \in DOMAIN site.pages : site.links[p] \in Seq(Nat))'
    BY <2>1
  <2>6. spent' \in Nat /\ drops' \in Nat /\ fetched' \in Nat BY <2>1
  <2>7. Undisturbed' /\ Alive(site, 1)' /\ fetched' < MaxPages => Listing(endpoints)' = Within'
    BY <2>1, <2>2, <2>3, <2>4
  <2> QED BY <2>1, <2>5, <2>6, <2>7
<1> HIDE DEF CrawlInv
<1>3. CASE S!Probe \/ S!Robots \/ S!Sitemap \/ (\E c \in DOMAIN checks : S!CheckAsks(c))
  <2>1. PICK reply, response : S!Fetch(reply, response)
    <3>1. CASE S!Probe BY <3>1, Zenon DEF S!Probe
    <3>2. CASE S!Robots BY <3>2, Zenon DEF S!Robots
    <3>3. CASE S!Sitemap BY <3>3, Zenon DEF S!Sitemap
    <3>4. CASE \E c \in DOMAIN checks : S!CheckAsks(c) BY <3>4, Zenon DEF S!CheckAsks
    <3> QED BY <1>3, <3>1, <3>2, <3>3, <3>4
  <2>2. UNCHANGED <<site, queue, seen, endpoints, fetched>> /\ (Searching' <=> Searching)
    <3>1. CASE S!Probe BY <3>1 DEF S!Probe, S!mapVars, Searching
    <3>2. CASE S!Robots BY <3>2 DEF S!Robots, Searching
    <3>3. CASE S!Sitemap BY <3>3 DEF S!Sitemap, Searching
    <3>4. CASE \E c \in DOMAIN checks : S!CheckAsks(c)
      <4>1. UNCHANGED <<site, queue, seen, endpoints, fetched, stage, whole>>
        BY <3>4 DEF S!CheckAsks, S!mapVars
      <4> QED BY <4>1 DEF Searching
    <3> QED BY <1>3, <3>1, <3>2, <3>3, <3>4
  <2> QED BY <1>0, <2>1, <2>2, FetchKeeps, LaterInv
<1>4. CASE \/ S!StartChecks \/ S!Finish
           \/ \E c \in DOMAIN checks : S!CheckConcludes(c) \/ S!CheckRaises(c)
  <2>1. /\ UNCHANGED <<site, queue, seen, endpoints, fetched, spent, drops>>
        /\ Searching' <=> Searching
    <3>1. CASE S!StartChecks BY <3>1 DEF S!StartChecks, S!mapVars, Searching
    <3>2. CASE S!Finish BY <3>2 DEF S!Finish, S!mapVars, Searching
    <3>3. CASE \E c \in DOMAIN checks : S!CheckConcludes(c) \/ S!CheckRaises(c)
      <4>1. UNCHANGED <<site, queue, seen, endpoints, fetched, stage, whole, spent, drops>>
        BY <3>3 DEF S!CheckConcludes, S!CheckRaises, S!mapVars
      <4> QED BY <4>1 DEF Searching
    <3> QED BY <1>4, <3>1, <3>2, <3>3
  <2>2. Undisturbed' => Undisturbed BY <2>1 DEF Undisturbed
  <2> QED BY <1>0, <2>1, <2>2, LaterInv
<1> QED BY <1>1, <1>2, <1>3, <1>4 DEF S!ScanNext

LEMMA CrawlStutters == CrawlInv /\ UNCHANGED vars => CrawlInv'
<1> SUFFICES ASSUME CrawlInv, UNCHANGED vars PROVE CrawlInv' OBVIOUS
<1>1. UNCHANGED <<site, queue, seen, endpoints, fetched, spent, drops, stage, whole>>
  BY DEF vars, scanVars
<1>2. spent' \in Nat /\ drops' \in Nat /\ (Undisturbed' => Undisturbed) /\ (Searching' <=> Searching)
  BY <1>1 DEF CrawlInv, Undisturbed, Searching
<1> QED BY <1>1, <1>2, LaterInv

\* Only a scan crawls.
Crawling == IF command = "scan" THEN CrawlInv ELSE stage = "idle"

LEMMA CrawlingKept == Spec => []Crawling
<1>1. Init => Crawling
  <2> SUFFICES ASSUME Init PROVE Crawling OBVIOUS
  <2>1. CASE command = "scan" BY <2>1, CrawlStarts DEF Init, Crawling
  <2>2. CASE command # "scan" BY <2>2 DEF Init, Crawling, S!ScanIdle
  <2> QED BY <2>1, <2>2
<1>2. Crawling /\ [Next]_vars => Crawling'
  <2> SUFFICES ASSUME Crawling, [Next]_vars PROVE Crawling' OBVIOUS
  <2>1. CASE UNCHANGED vars
    <3>1. UNCHANGED <<command, stage>> BY <2>1 DEF vars, scanVars
    <3> QED BY <2>1, <3>1, CrawlStutters DEF Crawling
  <2>2. CASE command = "scan" /\ S!ScanNext /\ UNCHANGED command
    BY <2>2, CrawlStep DEF Crawling
  <2>3. CASE command # "scan" /\ UNCHANGED <<command, scanVars>>
    BY <2>3 DEF Crawling, scanVars
  <2> QED BY <2>1, <2>2, <2>3 DEF Next
<1> QED BY <1>1, <1>2, PTL DEF Spec

\* A crawl that nothing cuts short lists the pages within its depth, and no other:
\* breadth first, each page is met on a shortest path, so that none is given up for a
\* longer one (Crawler.crawl).
THEOREM CrawlIsComplete == Spec => []CrawlComplete
<1>1. Crawling => CrawlComplete
  <2> SUFFICES ASSUME Crawling, Crawled, Undisturbed, fetched < MaxPages, Alive(site, 1)
               PROVE  {endpoints[i] : i \in DOMAIN endpoints} = Within
    BY DEF CrawlComplete
  <2>1. command = "scan" /\ ~Searching BY DEF Crawling, Crawled, Searching
  <2> QED BY <2>1 DEF Crawling, CrawlInv, Listing
<1> QED BY <1>1, CrawlingKept, PTL

-----------------------------------------------------------------------------
(* The places of a check *)

IsKept(places, kinds, n, f) ==
    f = [i \in 0 .. n |->
            IF i = 0 THEN <<>>
            ELSE IF places[i].kind \in kinds THEN Append(f[i - 1], places[i]) ELSE f[i - 1]]

LEMMA KeptExists ==
    ASSUME NEW N \in Nat, NEW places, NEW kinds
    PROVE  \E f : IsKept(places, kinds, N, f)
<1> DEFINE Q == {n \in 0 .. N : \E f : IsKept(places, kinds, n, f)}
           next(s, i) == IF places[i].kind \in kinds THEN Append(s, places[i]) ELSE s
           none == <<>>
<1>1. 0 \in Q
  <2> DEFINE f == [i \in 0 .. 0 |-> none]
  <2>1. \A i \in 0 .. 0 : i = 0 OBVIOUS
  <2> HIDE DEF next, none
  <2>2. f = [i \in 0 .. 0 |-> IF i = 0 THEN none ELSE next(f[i - 1], i)]
    BY <2>1, Zenon
  <2>3. IsKept(places, kinds, 0, f) BY <2>2, Zenon DEF IsKept, next, none
  <2> QED BY <2>3
<1>2. ASSUME NEW n \in 0 .. N - 1, n \in Q PROVE n + 1 \in Q
  <2>1. PICK f : IsKept(places, kinds, n, f) BY <1>2
  <2> DEFINE more == [i \in 0 .. n + 1 |-> IF i = n + 1 THEN next(f[n], n + 1) ELSE f[i]]
  <2>2. \A i \in 0 .. n : f[i] = IF i = 0 THEN none ELSE next(f[i - 1], i)
    BY <2>1, Zenon DEF IsKept
  <2> HIDE DEF next, none
  <2>3. \A i \in 0 .. n : more[i] = f[i] OBVIOUS
  <2>4. more[n + 1] = next(f[n], n + 1) OBVIOUS
  <2>5. more = [i \in 0 .. n + 1 |-> more[i]] OBVIOUS
  <2> HIDE DEF more
  <2>6. \A i \in 0 .. n : i # 0 => i - 1 \in 0 .. n OBVIOUS
  <2>7. \A i \in 0 .. n : more[i] = IF i = 0 THEN none ELSE next(more[i - 1], i)
    BY <2>2, <2>3, <2>6
  <2>8. more[n + 1] = IF n + 1 = 0 THEN none ELSE next(more[n + 1 - 1], n + 1)
    <3>1. n + 1 - 1 = n /\ n + 1 # 0 /\ n \in 0 .. n OBVIOUS
    <3> QED BY <2>3, <2>4, <3>1
  <2>9. \A i \in 0 .. n + 1 : i \in 0 .. n \/ i = n + 1 OBVIOUS
  <2>10. ASSUME NEW i \in 0 .. n + 1
         PROVE  more[i] = IF i = 0 THEN none ELSE next(more[i - 1], i)
    <3>1. CASE i = n + 1 BY <2>8, <3>1
    <3>2. CASE i \in 0 .. n BY <2>7, <3>2
    <3> QED BY <2>9, <3>1, <3>2
  <2>11. IsKept(places, kinds, n + 1, more) BY <2>5, <2>10, Zenon DEF IsKept, next, none
  <2> QED BY <2>11
<1> HIDE DEF Q
<1>3. 0 .. N \subseteq Q BY <1>1, <1>2, UpTo
<1>4. N \in Q BY <1>3
<1> QED BY <1>4 DEF Q

LEMMA OfKindsShape ==
    ASSUME NEW X, NEW places \in Seq(X), NEW kinds
    PROVE  S!OfKinds(places, kinds) \in Seq(X)
<1> DEFINE N == Len(places)
           next(s, i) == IF places[i].kind \in kinds THEN Append(s, places[i]) ELSE s
           none == <<>>
<1>1. N \in Nat OBVIOUS
<1>2. \E f : IsKept(places, kinds, N, f) BY <1>1, KeptExists
<1>3. PICK f : IsKept(places, kinds, N, f) /\ S!OfKinds(places, kinds) = f[N]
  <2> DEFINE f == CHOOSE f : IsKept(places, kinds, N, f)
  <2>1. IsKept(places, kinds, N, f) BY <1>2, Zenon
  <2>2. S!OfKinds(places, kinds) = f[N] BY Zenon DEF S!OfKinds, IsKept
  <2> QED BY <2>1, <2>2
<1>4. \A i \in 0 .. N : f[i] = IF i = 0 THEN none ELSE next(f[i - 1], i)
  BY <1>3, Zenon DEF IsKept
<1>5. \A s \in Seq(X), i \in 1 .. N : next(s, i) \in Seq(X) OBVIOUS
<1>6. none \in Seq(X) OBVIOUS
<1> HIDE DEF N, next, none
<1> DEFINE Q == {n \in 0 .. N : f[n] \in Seq(X)}
<1>7. 0 \in Q BY <1>1, <1>4, <1>6
<1>8. ASSUME NEW n \in 0 .. N - 1, n \in Q PROVE n + 1 \in Q
  <2>1. n + 1 \in 1 .. N /\ n + 1 \in 0 .. N /\ n + 1 # 0 /\ n + 1 - 1 = n BY <1>1
  <2>2. f[n + 1] = next(f[n], n + 1) BY <1>4, <2>1
  <2>3. f[n] \in Seq(X) BY <1>8
  <2>4. f[n + 1] \in Seq(X) BY <1>5, <2>1, <2>2, <2>3
  <2> QED BY <2>1, <2>4
<1> HIDE DEF Q
<1>9. 0 .. N \subseteq Q BY <1>1, <1>7, <1>8, UpTo
<1>10. N \in Q BY <1>1, <1>9
<1> QED BY <1>3, <1>10 DEF Q, N

\* What stands in a list of places for a page.
Numbered(page) ==
    [kind |-> site.pages[page].kind, traits |-> site.pages[page].traits, page |-> page]

LEMMA VisitsAreNumbered ==
    ASSUME 1 \in Pages, endpoints \in Seq(Pages), NEW c
    PROVE  S!Visits(c) \in Seq({Numbered(p) : p \in Pages})
<1> DEFINE X == {Numbered(p) : p \in Pages}
           known == [i \in DOMAIN endpoints |-> Numbered(endpoints[i])]
           base == Numbered(1)
           of(kinds) == S!OfKinds(known, kinds)
           query == of({"plain", "url", "login", "redirect", "token"})
<1>1. base \in X /\ <<base>> \in Seq(X)
  <2>1. base \in X OBVIOUS
  <2> HIDE DEF X, base
  <2> QED BY <2>1
<1>2. known \in Seq(X)
  <2>1. /\ Len(endpoints) \in Nat /\ DOMAIN endpoints = 1 .. Len(endpoints)
        /\ \A i \in 1 .. Len(endpoints) : endpoints[i] \in Pages
    OBVIOUS
  <2>2. \A p \in Pages : Numbered(p) \in X OBVIOUS
  <2> HIDE DEF X
  <2>3. known \in [1 .. Len(endpoints) -> X] BY <2>1, <2>2
  <2> DEFINE n == Len(endpoints)
  <2>4. n \in Nat /\ known \in [1 .. n -> X] BY <2>1, <2>3
  <2> HIDE DEF n, known
  <2> QED BY <2>4
<1> HIDE DEF X, known, base
<1>3. \A kinds : of(kinds) \in Seq(X) BY <1>2, OfKindsShape
<1> HIDE DEF of
<1>4. query \in Seq(X) BY <1>3
<1>5. \A s \in Seq(X) : S!Cut(s) \in Seq(X)
  <2> TAKE s \in Seq(X)
  <2> DEFINE n == IF Len(s) < EndpointLimit THEN Len(s) ELSE EndpointLimit
  <2>1. EndpointLimit \in Nat /\ Len(s) \in Nat BY CyberAssumption
  <2>2. n \in Nat /\ n <= Len(s) BY <2>1
  <2> HIDE DEF n
  <2>3. SubSeq(s, 1, n) \in Seq(X) BY <2>2
  <2> QED BY <2>3 DEF S!Cut, n
<1>6. \A s \in Seq(X) : \A kinds : S!OfKinds(s, kinds) \in Seq(X) BY OfKindsShape
<1>7. \A s, t \in Seq(X) : s \o t \in Seq(X) OBVIOUS
<1> HIDE DEF query
<1>8. S!Places(c, base, known) \in Seq(X)
  BY <1>1, <1>2, <1>3, <1>4, <1>5, <1>6, <1>7, Zenon DEF S!Places, of, query
<1>9. S!Visits(c) = S!Places(c, base, known) BY Zenon DEF S!Visits, base, known, Numbered
<1> QED BY <1>8, <1>9 DEF X
-----------------------------------------------------------------------------
(* Checks of a target that does not heed what they send *)

\* What the inferring checks send.
Sent ==
    {"original", "quote", "true", "false", "script", "engine A", "engine B", "unix file",
     "windows file", "echo A", "echo B", "echo again", "sleep", "no such user", "operator A",
     "operator B", "internal entity", "external entity", "benign URL", "loopback", "link-local",
     "reserved-tld", "file-scheme", "crlf", "Host", "X-Forwarded-Host"}

\* These see through an escaped echo.
Seeing == {"reflected-xss", "template-injection", "path-traversal", "nosql-injection"}

\* What check c may receive from such a target, an error included.
Dull(c, r) ==
    /\ r.status = IF r.error THEN 0 ELSE 200
    /\ r.page = "usual" /\ ~r.slow
    /\ "injected" \notin r.header /\ "location: probe" \notin r.header
    /\ "product" \notin r.body /\ "unix file read" \notin r.body /\ "dbError" \notin r.body
    /\ "marker" \in r.body => "entity" \in r.body
    /\ c \notin Seeing => r.body = {}

LEMMA FailedIsDull == \A c : Dull(c, S!Failed)
<1> TAKE c
<1>1. /\ S!Failed.status = 0 /\ S!Failed.error = TRUE /\ S!Failed.page = "usual"
      /\ S!Failed.slow = FALSE /\ S!Failed.header = {} /\ S!Failed.body = {}
  BY DEF S!Failed, S!Page
<1> HIDE DEF S!Failed
<1> QED BY <1>1, Zenon DEF Dull

Modest == {"nonce", "json", "names server", "bare cookie", "escapes"}

LEMMA HeedlessIsModest ==
    \A c : Heedless(c) \subseteq Modest /\ (c \notin Seeing => "escapes" \notin Heedless(c))
BY Zenon DEF Heedless, Modest, Seeing

LEMMA ModestAdds ==
    ASSUME NEW request
    PROVE  /\ \A t \in Modest : t # "escapes" => S!Adds(t, request) = {}
           /\ S!Adds("escapes", request) = {} \/ S!Adds("escapes", request) = S!Text(request) \cup {"entity"}
           /\ \A word \in {"product", "unix file read", "dbError"} : word \notin S!Text(request)
           /\ \A t \in Modest, word \in {"injected", "location: probe"} : word \notin S!Sends(t, request)
<1>1. S!Adds("nonce", request) = {} BY Zenon DEF S!Adds
<1>2. S!Adds("json", request) = {} BY Zenon DEF S!Adds
<1>3. S!Adds("names server", request) = {} BY Zenon DEF S!Adds
<1>4. S!Adds("bare cookie", request) = {} BY Zenon DEF S!Adds
<1>5. S!Adds("escapes", request) = {} \/ S!Adds("escapes", request) = S!Text(request) \cup {"entity"}
  BY Zenon DEF S!Adds
<1>6. \A word \in {"product", "unix file read", "dbError"} : word \notin S!Text(request)
  BY Zenon DEF S!Text
<1>7. S!Sends("nonce", request) = {} BY Zenon DEF S!Sends
<1>8. S!Sends("json", request) = {"json"} BY Zenon DEF S!Sends
<1>9. S!Sends("names server", request) = {"server"} BY Zenon DEF S!Sends
<1>10. S!Sends("bare cookie", request) = {"cookie without flags", "cookie session"} BY Zenon DEF S!Sends
<1>11. S!Sends("escapes", request) = {} BY Zenon DEF S!Sends
<1>12. \A t \in Modest, word \in {"injected", "location: probe"} : word \notin S!Sends(t, request)
  BY <1>7, <1>8, <1>9, <1>10, <1>11, Zenon DEF Modest
<1> QED BY <1>1, <1>2, <1>3, <1>4, <1>5, <1>6, <1>12, Zenon DEF Modest

LEMMA ReplyIsDull ==
    ASSUME NEW c, NEW place, place.traits \subseteq Heedless(c), NEW request \in Sent, NEW n
    PROVE  Dull(c, S!Reply(place, request, n))
<1> DEFINE traits == place.traits
           body == UNION {S!Adds(t, request) : t \in traits}
           header == UNION {S!Sends(t, request) : t \in traits}
           r == S!Reply(place, request, n)
<1>1. traits \subseteq Modest /\ (c \notin Seeing => "escapes" \notin traits)
  BY HeedlessIsModest, Zenon
<1>0. ASSUME NEW word \in body PROVE word \in S!Adds("escapes", request) /\ "escapes" \in traits
  <2>1. PICK t \in traits : word \in S!Adds(t, request) OBVIOUS
  <2>2. t \in Modest /\ S!Adds(t, request) # {} BY <1>1, <2>1
  <2>3. t = "escapes" BY <2>2, ModestAdds
  <2> QED BY <2>1, <2>3
<1>2. /\ "missing" \notin traits /\ "operators" \notin traits /\ "sql blind" \notin traits
      /\ "open objects" \notin traits /\ "shell" \notin traits /\ "blind shell" \notin traits
  BY <1>1, Zenon DEF Modest
<1>3. /\ request # "TRACE" /\ request # "PROPFIND" /\ request # "host root"
      /\ request \notin S!Paths
  BY Zenon DEF Sent, S!Paths
<1>4. S!Status(traits, request) = 200 BY <1>2, <1>3, Zenon DEF S!Status
<1>5. /\ r.error = FALSE /\ r.status = S!Status(traits, request) /\ r.body = body
      /\ r.header = header
  BY Zenon DEF S!Reply
<1>6. r.page = "usual" BY <1>2, Zenon DEF S!Reply
<1>7. r.slow = FALSE
  <2>1. {"shell", "blind shell"} \cap traits = {} BY <1>2, Zenon
  <2>2. r.slow = (request = "sleep" /\ {"shell", "blind shell"} \cap traits # {})
    BY Zenon DEF S!Reply
  <2> QED BY <2>1, <2>2, Zenon
<1>8. "injected" \notin header /\ "location: probe" \notin header BY <1>1, ModestAdds, Zenon
<1>9. /\ "product" \notin body /\ "unix file read" \notin body /\ "dbError" \notin body
      /\ "marker" \in body => "entity" \in body
  <2>1. \A word \in body : word \in S!Adds("escapes", request) /\ "escapes" \in traits
    BY <1>0
  <2>2. \A word \in {"product", "unix file read", "dbError"} : word \notin S!Adds("escapes", request)
    BY ModestAdds, Zenon
  <2>3. S!Adds("escapes", request) # {} => "entity" \in S!Adds("escapes", request)
    BY ModestAdds, Zenon
  <2> QED BY <2>1, <2>2, <2>3, Zenon
<1>10. c \notin Seeing => body = {}
  <2>1. c \notin Seeing => \A word : word \notin body BY <1>0, <1>1
  <2> QED BY <2>1
<1> HIDE DEF traits, body, header, r
<1>11. Dull(c, r) BY <1>4, <1>5, <1>6, <1>7, <1>8, <1>9, <1>10, Zenon DEF Dull
<1> QED BY <1>11 DEF r

Quiet(outcome) == outcome.report = {} /\ outcome.ask \in Sent \cup {"none"}

LEMMA QuietForms ==
    /\ \A request \in Sent : Quiet(S!Ask(request))
    /\ Quiet(S!Nothing) /\ Quiet(S!Report({}))
    /\ \A f : S!When(FALSE, f) = {}
BY Zenon DEF Quiet, S!Ask, S!Nothing, S!Report, S!When

LEMMA NextOfOne ==
    ASSUME NEW X, NEW a \in X, NEW k \in Nat PROVE k < Len(<<a>>) => <<a>>[k + 1] \in X
OBVIOUS

LEMMA NextOfTwo ==
    ASSUME NEW X, NEW a \in X, NEW b \in X, NEW k \in Nat
    PROVE  k < Len(<<a, b>>) => <<a, b>>[k + 1] \in X
<1> SUFFICES ASSUME k < Len(<<a, b>>) PROVE <<a, b>>[k + 1] \in X OBVIOUS
<1>1. k = 0 \/ k = 1 OBVIOUS
<1> QED BY <1>1

\* A history whose responses are all of one kind.
LEMMA HistoryShape ==
    ASSUME NEW R, NEW h \in Seq(R)
    PROVE  /\ Len(h) \in Nat /\ (Len(h) = 0 <=> h = <<>>)
           /\ h # <<>> => S!Last(h) \in R
           /\ Len(h) >= 1 => h[1] \in R
           /\ Len(h) >= 2 => h[2] \in R
           /\ Len(h) >= 4 => h[3] \in R /\ h[4] \in R
           /\ h # <<>> => Tail(h) \in Seq(R)
BY DEF S!Last

LEMMA AtLeastTwo ==
    ASSUME NEW n \in Nat PROVE n # 0 => n = 1 \/ n >= 2
OBVIOUS

LEMMA TwoThreeMore ==
    ASSUME NEW n \in Nat PROVE n >= 2 => n = 2 \/ n = 3 \/ n >= 4
OBVIOUS

LEMMA InjectionsQuiet ==
    ASSUME NEW R, NEW h \in Seq(R), NEW c, \A r \in R : Dull(c, r)
    PROVE  /\ c = "reflected-xss" => Quiet(S!XSS(h))
           /\ c = "template-injection" => Quiet(S!TemplateInjection(h))
           /\ c = "path-traversal" => Quiet(S!PathTraversal(h))
           /\ c = "crlf-injection" => Quiet(S!CRLFInjection(h))
           /\ c = "host-header-injection" => Quiet(S!HostHeader(h))
<1>0. Len(h) \in Nat /\ (h # <<>> => Dull(c, S!Last(h))) BY HistoryShape
<1>1. ASSUME c = "reflected-xss" PROVE Quiet(S!XSS(h))
  <2>1. ~(h # <<>> /\ S!Ok(S!Last(h)) /\ "marker" \in S!Last(h).body /\ "entity" \notin S!Last(h).body)
    BY <1>0, Zenon DEF Dull
  <2>2. "script" \in Sent BY Zenon DEF Sent
  <2>3. Len(h) < Len(<<"script">>) => <<"script">>[Len(h) + 1] \in Sent BY <1>0, <2>2, NextOfOne, Zenon
  <2> QED BY <2>1, <2>3, QuietForms, Zenon DEF S!XSS, S!UpToHit
<1>2. ASSUME c = "template-injection" PROVE Quiet(S!TemplateInjection(h))
  <2>1. ~(h # <<>> /\ S!Ok(S!Last(h)) /\ {"marker", "product"} \subseteq S!Last(h).body)
    BY <1>0, Zenon DEF Dull
  <2>2. "engine A" \in Sent /\ "engine B" \in Sent BY Zenon DEF Sent
  <2>3. Len(h) < Len(<<"engine A", "engine B">>) => <<"engine A", "engine B">>[Len(h) + 1] \in Sent
    BY <1>0, <2>2, NextOfTwo, Zenon
  <2> QED BY <2>1, <2>3, QuietForms, Zenon DEF S!TemplateInjection, S!UpToHit
<1>3. ASSUME c = "path-traversal" PROVE Quiet(S!PathTraversal(h))
  <2>1. ~(h # <<>> /\ S!Ok(S!Last(h)) /\ "unix file read" \in S!Last(h).body)
    BY <1>0, Zenon DEF Dull
  <2>2. "unix file" \in Sent /\ "windows file" \in Sent BY Zenon DEF Sent
  <2>3. Len(h) < Len(<<"unix file", "windows file">>) =>
           <<"unix file", "windows file">>[Len(h) + 1] \in Sent
    BY <1>0, <2>2, NextOfTwo, Zenon
  <2> QED BY <2>1, <2>3, QuietForms, Zenon DEF S!PathTraversal, S!UpToHit
<1>4. ASSUME c = "crlf-injection" PROVE Quiet(S!CRLFInjection(h))
  <2>0. c \notin Seeing BY <1>4, Zenon DEF Seeing
  <2>1. ~(h # <<>> /\ ("injected" \in S!Last(h).header \/ "crlf marker" \in S!Last(h).body))
    BY <1>0, <2>0, Zenon DEF Dull
  <2>2. "crlf" \in Sent BY Zenon DEF Sent
  <2>3. Len(h) < Len(<<"crlf">>) => <<"crlf">>[Len(h) + 1] \in Sent BY <1>0, <2>2, NextOfOne, Zenon
  <2> QED BY <2>1, <2>3, QuietForms, Zenon DEF S!CRLFInjection, S!UpToHit
<1>5. ASSUME c = "host-header-injection" PROVE Quiet(S!HostHeader(h))
  <2>0. c \notin Seeing BY <1>5, Zenon DEF Seeing
  <2>1. ~(h # <<>> /\ ("location: probe" \in S!Last(h).header \/ "probe host" \in S!Last(h).body))
    BY <1>0, <2>0, Zenon DEF Dull
  <2>2. "Host" \in Sent /\ "X-Forwarded-Host" \in Sent BY Zenon DEF Sent
  <2>3. Len(h) < Len(<<"Host", "X-Forwarded-Host">>) => <<"Host", "X-Forwarded-Host">>[Len(h) + 1] \in Sent
    BY <1>0, <2>2, NextOfTwo, Zenon
  <2> QED BY <2>1, <2>3, QuietForms, Zenon DEF S!HostHeader, S!UpToHit
<1> QED BY <1>1, <1>2, <1>3, <1>4, <1>5

LEMMA SQLQuiet ==
    ASSUME NEW R, NEW h \in Seq(R), \A r \in R : Dull("sql-injection", r)
    PROVE  Quiet(S!SQLInjection(h))
<1>0. /\ Len(h) \in Nat
      /\ Len(h) >= 1 => h[1] \in R
      /\ Len(h) >= 2 => h[2] \in R
      /\ Len(h) >= 4 => h[3] \in R /\ h[4] \in R
  BY HistoryShape
<1>1. "sql-injection" \notin Seeing BY Zenon DEF Seeing
<1>2. \A r \in R : /\ "dbError" \notin r.body /\ r.body = {} /\ r.page = "usual"
                   /\ r.status = IF r.error THEN 0 ELSE 200
  BY <1>1, Zenon DEF Dull
<1>3. {"original", "quote", "true", "false"} \subseteq Sent BY Zenon DEF Sent
<1>4. CASE Len(h) = 0 BY <1>3, <1>4, QuietForms, Zenon DEF S!SQLInjection
<1>5. CASE Len(h) # 0 /\ ~S!Ok(h[1]) BY <1>5, QuietForms, Zenon DEF S!SQLInjection
<1>6. CASE Len(h) = 1 /\ S!Ok(h[1])
  <2>1. 1 # 0 OBVIOUS
  <2> QED BY <1>3, <1>6, <2>1, QuietForms, Zenon DEF S!SQLInjection
<1>7. CASE Len(h) >= 2 /\ S!Ok(h[1])
  <2>1. Len(h) # 0 /\ Len(h) # 1 BY <1>0, <1>7
  <2>2. ~(\E i \in 1 .. 2 : "dbError" \in h[i].body)
    <3>1. h[1] \in R /\ h[2] \in R BY <1>0, <1>7
    <3>2. \A i \in 1 .. 2 : i = 1 \/ i = 2 OBVIOUS
    <3> QED BY <1>2, <3>1, <3>2, Zenon
  <2>3. CASE Len(h) = 2
    BY <1>3, <1>7, <2>1, <2>2, <2>3, QuietForms, Zenon DEF S!SQLInjection
  <2>4. CASE Len(h) = 3
    <3>1. 3 # 2 OBVIOUS
    <3> QED BY <1>3, <1>7, <2>1, <2>2, <2>4, <3>1, QuietForms, Zenon DEF S!SQLInjection
  <2>5. CASE Len(h) >= 4
    <3>1. Len(h) # 2 /\ Len(h) # 3 BY <1>0, <2>5
    <3>2. h[3] \in R /\ h[4] \in R BY <1>0, <2>5
    <3>3. ~S!Differs(h[3], h[4], h[1])
      <4>1. S!Normalised(h[3]) = S!Normalised(h[4])
        <5>1. h[3].body = h[4].body /\ h[3].page = h[4].page BY <1>2, <3>2, Zenon
        <5> QED BY <5>1 DEF S!Normalised
      <4>2. ~h[3].error /\ ~h[4].error => h[3].status = h[4].status BY <1>2, <3>2, Zenon
      <4> QED BY <4>1, <4>2, Zenon DEF S!Differs
    <3>4. S!When(S!Differs(h[3], h[4], h[1]), S!Finding("sql", "high", "probable")) = {}
      BY <3>3, Zenon DEF S!When
    <3> QED BY <1>7, <2>1, <2>2, <3>1, <3>4, QuietForms, Zenon DEF S!SQLInjection
  <2>6. Len(h) >= 2 => Len(h) = 2 \/ Len(h) = 3 \/ Len(h) >= 4 BY <1>0, TwoThreeMore, Zenon
  <2> QED BY <1>7, <2>3, <2>4, <2>5, <2>6, Zenon
<1>8. Len(h) # 0 => Len(h) = 1 \/ Len(h) >= 2 BY <1>0, AtLeastTwo, Zenon
<1> QED BY <1>4, <1>5, <1>6, <1>7, <1>8, Zenon

LEMMA CommandQuiet ==
    ASSUME NEW R, NEW h \in Seq(R), \A r \in R : Dull("command-injection", r), NEW n, NEW found
    PROVE  Quiet(S!CommandInjection(h, n, found))
<1>0. Len(h) \in Nat /\ (h # <<>> => S!Last(h) \in R) /\ (Len(h) = 0 <=> h = <<>>)
  BY HistoryShape
<1>1. "command-injection" \notin Seeing BY Zenon DEF Seeing
<1>2. \A r \in R : "marker" \notin r.body /\ ~r.slow BY <1>1, Zenon DEF Dull
<1>3. {"echo A", "echo B", "echo again", "sleep"} \subseteq Sent BY Zenon DEF Sent
<1> DEFINE echoes == <<"echo A", "echo B">>
           finding == S!Finding("command", "critical", "confirmed")
           fast == h[Len(h) - 1]
           slow == S!Last(h)
<1>4. Len(h) < Len(echoes) => echoes[Len(h) + 1] \in Sent BY <1>0, <1>3, NextOfTwo, Zenon
<1>5. ~(h # <<>> /\ (S!Ok(S!Last(h)) /\ "marker" \in S!Last(h).body)) BY <1>0, <1>2, Zenon
<1>6. CASE Len(h) <= Len(echoes)
  BY <1>3, <1>4, <1>5, <1>6, QuietForms, Zenon DEF S!CommandInjection
<1>7. CASE ~(Len(h) <= Len(echoes))
  <2>1. h # <<>> BY <1>0, <1>7
  <2>2. ~slow.slow BY <1>0, <1>2, <2>1, Zenon
  <2>3. S!When(~fast.error /\ ~slow.error /\ slow.slow /\ ~fast.slow, finding) = {}
    BY <2>2, Zenon DEF S!When
  <2> QED BY <1>3, <1>7, <2>3, QuietForms, Zenon DEF S!CommandInjection
<1> QED BY <1>6, <1>7

LEMMA NoSQLQuiet ==
    ASSUME NEW R, NEW h \in Seq(R), \A r \in R : Dull("nosql-injection", r)
    PROVE  Quiet(S!NoSQLInjection(h))
<1>0. /\ Len(h) \in Nat /\ (Len(h) = 0 <=> h = <<>>)
      /\ Len(h) >= 1 => h[1] \in R
      /\ h # <<>> => Tail(h) \in Seq(R)
  BY HistoryShape
<1>1. {"no such user", "operator A", "operator B"} \subseteq Sent BY Zenon DEF Sent
<1>2. CASE Len(h) = 0 BY <1>1, <1>2, QuietForms, Zenon DEF S!NoSQLInjection
<1>3. CASE Len(h) # 0 /\ h[1].error BY <1>3, QuietForms, Zenon DEF S!NoSQLInjection
<1>4. CASE Len(h) # 0 /\ ~h[1].error
  <2> DEFINE rest == Tail(h)
             both == <<"operator A", "operator B">>
  <2>1. h[1] \in R /\ rest \in Seq(R) BY <1>0, <1>4
  <2>2. Len(rest) \in Nat /\ (rest # <<>> => S!Last(rest) \in R) BY <2>1, HistoryShape
  <2>3. h[1].status = 200 /\ h[1].page = "usual" BY <1>4, <2>1, Zenon DEF Dull
  <2>4. ASSUME NEW r \in R PROVE ~(~r.error /\ S!Bypass(h[1], r))
    <3>1. ~r.error => r.status = 200 /\ r.page = "usual" BY Zenon DEF Dull
    <3>2. /\ 200 \notin {401, 403} /\ ~(200 >= 400) OBVIOUS
    <3>3. "usual" # "long" BY Zenon
    <3>4. ~r.error => ~S!Bypass(h[1], r) BY <2>3, <3>1, <3>2, <3>3, Zenon DEF S!Bypass
    <3> QED BY <3>4
  <2>5. ~(rest # <<>> /\ (~S!Last(rest).error /\ S!Bypass(h[1], S!Last(rest)))) BY <2>2, <2>4
  <2>6. Len(rest) < Len(both) => both[Len(rest) + 1] \in Sent BY <1>1, <2>2, NextOfTwo, Zenon
  <2> QED BY <1>4, <2>5, <2>6, QuietForms, Zenon DEF S!NoSQLInjection, S!UpToHit
<1> QED BY <1>2, <1>3, <1>4

LEMMA XXEQuiet ==
    ASSUME NEW R, NEW h \in Seq(R), \A r \in R : Dull("xxe", r)
    PROVE  Quiet(S!XXE(h))
<1>0. /\ Len(h) \in Nat
      /\ Len(h) >= 1 => h[1] \in R
      /\ Len(h) >= 2 => h[2] \in R
  BY HistoryShape
<1>1. "xxe" \notin Seeing BY Zenon DEF Seeing
<1>2. \A r \in R : "marker" \notin r.body /\ "canary host" \notin r.body BY <1>1, Zenon DEF Dull
<1>3. {"internal entity", "external entity"} \subseteq Sent BY Zenon DEF Sent
<1>4. CASE Len(h) = 0 BY <1>3, <1>4, QuietForms, Zenon DEF S!XXE
<1>5. CASE Len(h) # 0 /\ h[1].error BY <1>5, QuietForms, Zenon DEF S!XXE
<1>6. CASE Len(h) # 0 /\ ~h[1].error
  <2>1. h[1] \in R BY <1>0, <1>6
  <2>2. "marker" \notin h[1].body BY <1>2, <2>1, Zenon
  <2>3. CASE Len(h) = 1 BY <1>3, <1>6, <2>2, <2>3, QuietForms, Zenon DEF S!XXE
  <2>4. CASE Len(h) # 1
    <3>0. Len(h) # 0 /\ Len(h) # 1 BY <1>6, <2>4, Zenon
    <3>1. h[2] \in R BY <1>0, <3>0, AtLeastTwo, Zenon
    <3>2. S!When(~h[2].error /\ "canary host" \in h[2].body, S!Finding("xxe", "critical", "confirmed")) = {}
      BY <1>2, <3>1, Zenon DEF S!When
    <3> QED BY <1>6, <2>2, <2>4, <3>2, QuietForms, Zenon DEF S!XXE
  <2> QED BY <2>3, <2>4
<1> QED BY <1>4, <1>5, <1>6

LEMMA SSRFQuiet ==
    ASSUME NEW R, NEW h \in Seq(R), \A r \in R : Dull("ssrf", r)
    PROVE  Quiet(S!SSRF(h))
<1>0. /\ Len(h) \in Nat /\ (Len(h) = 0 <=> h = <<>>)
      /\ h # <<>> => Tail(h) \in Seq(R)
  BY HistoryShape
<1>1. "ssrf" \notin Seeing BY Zenon DEF Seeing
<1>2. \A r \in R : r.body = {} BY <1>1, Zenon DEF Dull
<1>3. {"benign URL", "loopback", "link-local", "reserved-tld", "file-scheme"} \subseteq Sent
  BY Zenon DEF Sent
<1>4. CASE Len(h) = 0 BY <1>3, <1>4, QuietForms, Zenon DEF S!SSRF
<1>5. CASE Len(h) # 0 /\ h[1].error BY <1>5, QuietForms, Zenon DEF S!SSRF
<1>6. CASE Len(h) # 0 /\ ~h[1].error
  <2> DEFINE rest == Tail(h)
             probes == <<"loopback", "link-local", "reserved-tld", "file-scheme">>
             shows(kind, r) == IF r.error THEN {} ELSE S!Classify(kind, r)
             shown == UNION {shows(probes[i], rest[i]) : i \in 1 .. Len(probes)}
  <2>1. rest \in Seq(R) BY <1>0, <1>6
  <2>2. Len(rest) \in Nat /\ \A i \in 1 .. Len(rest) : rest[i] \in R BY <2>1
  <2>3. Len(rest) < Len(probes) => probes[Len(rest) + 1] \in Sent
    <3>1. ASSUME NEW a \in Sent, NEW b \in Sent, NEW d \in Sent, NEW e \in Sent, NEW k \in Nat,
                 k < Len(<<a, b, d, e>>)
          PROVE  <<a, b, d, e>>[k + 1] \in Sent
      <4>1. k = 0 \/ k = 1 \/ k = 2 \/ k = 3 BY <3>1
      <4> QED BY <4>1
    <3> QED BY <1>3, <2>2, <3>1, Zenon
  <2>4. CASE ~(Len(rest) < Len(probes))
    <3>1. \A kind : \A r \in R : shows(kind, r) = {}
      <4>1. \A kind : \A r \in R : S!Classify(kind, r) = {} BY <1>2, Zenon DEF S!Classify, S!When
      <4> QED BY <4>1, Zenon
    <3>2. \A i \in 1 .. Len(probes) : i \in 1 .. Len(rest)
      <4> DEFINE n == Len(probes) m == Len(rest)
      <4>1. n \in Nat /\ m \in Nat /\ ~(m < n) BY <2>2, <2>4
      <4> HIDE DEF n, m
      <4> QED BY <4>1 DEF n, m
    <3> HIDE DEF shows
    <3>3. shown = {}
      <4>1. \A i \in 1 .. Len(probes) : shows(probes[i], rest[i]) = {} BY <2>2, <3>1, <3>2, Zenon
      <4> HIDE DEF probes, rest
      <4> QED BY <4>1
    <3> HIDE DEF shown
    <3>4. Quiet(S!Report(shown)) BY <3>3, QuietForms
    <3> QED BY <1>6, <2>4, <3>4, Zenon DEF S!SSRF, S!EachOf, shown, shows
  <2>5. CASE Len(rest) < Len(probes)
    BY <1>6, <2>3, <2>5, QuietForms, Zenon DEF S!SSRF, S!EachOf
  <2> QED BY <2>4, <2>5
<1> QED BY <1>4, <1>5, <1>6

LEMMA HeedlessQuiet ==
    ASSUME NEW R, NEW h \in Seq(R), NEW c \in Inferring, \A r \in R : Dull(c, r),
           NEW place, NEW n, NEW found
    PROVE  Quiet(S!Step(c, place, n, h, found))
<1>1. CASE c = "sql-injection"
  BY <1>1, SQLQuiet, Zenon DEF S!Step
<1>2. CASE c = "command-injection"
  BY <1>2, CommandQuiet, Zenon DEF S!Step
<1>3. CASE c = "nosql-injection" BY <1>3, NoSQLQuiet, Zenon DEF S!Step
<1>4. CASE c = "xxe" BY <1>4, XXEQuiet, Zenon DEF S!Step
<1>5. CASE c = "ssrf" BY <1>5, SSRFQuiet, Zenon DEF S!Step
<1>6. CASE c = "reflected-xss" BY <1>6, InjectionsQuiet, Zenon DEF S!Step
<1>7. CASE c = "template-injection" BY <1>7, InjectionsQuiet, Zenon DEF S!Step
<1>8. CASE c = "path-traversal" BY <1>8, InjectionsQuiet, Zenon DEF S!Step
<1>9. CASE c = "crlf-injection" BY <1>9, InjectionsQuiet, Zenon DEF S!Step
<1>10. CASE c = "host-header-injection" BY <1>10, InjectionsQuiet, Zenon DEF S!Step
<1> QED
  BY <1>1, <1>2, <1>3, <1>4, <1>5, <1>6, <1>7, <1>8, <1>9, <1>10, Zenon DEF Inferring
-----------------------------------------------------------------------------
(* What is recorded of a target that does not heed a check *)

Unheeded(c) == c \in Inferring /\ \A p \in Pages : site.pages[p].traits \subseteq Heedless(c)

Dulled(c, h) == \E R : h \in Seq(R) /\ \A r \in R : Dull(c, r)

\* What check c has received and found.
Modestly(c, x) ==
    /\ x.number \in Nat \ {0}
    /\ \A f \in x.found : f.evidence = {c}
    /\ Unheeded(c) => x.found = {} /\ Dulled(c, x.history)

Bears(st, who) == \A k \in DOMAIN st : st[k].evidence \subseteq who

\* Before the checks are over only what recon saw is in the store.
HeedInv ==
    /\ 1 \in Pages /\ \A p \in Pages : site.links[p] \in Seq(Nat)
    /\ endpoints \in Seq(Pages) /\ queue \in Seq(Pages \X Nat)
    /\ \A c \in DOMAIN checks : Modestly(c, checks[c])
    /\ IF stage = "done"
       THEN \A c \in DOMAIN checks : Unheeded(c) => \A k \in DOMAIN report : c \notin report[k].evidence
       ELSE Bears(store, {"recon"})

LEMMA ExtendBears ==
    ASSUME NEW st, NEW new, NEW who, Bears(st, who), \A f \in new : f.evidence \subseteq who
    PROVE  Bears(F!Extend(st, new), who)
<1> DEFINE result == F!Extend(st, new)
<1>1. result = [k \in DOMAIN st \cup Keys(new) |->
                  IF k \notin Keys(new) THEN st[k]
                  ELSE IF k \notin DOMAIN st THEN F!Kept(The(new, k))
                  ELSE F!Merge(st[k], The(new, k))]
  BY ExtendShape
<1>2. DOMAIN result = DOMAIN st \cup Keys(new) BY <1>1
<1>3. ASSUME NEW k \in DOMAIN result PROVE result[k].evidence \subseteq who
  <2>1. CASE k \notin Keys(new)
    <3>1. result[k] = st[k] /\ k \in DOMAIN st BY <1>1, <1>2, <2>1
    <3> QED BY <3>1 DEF Bears
  <2>2. CASE k \in Keys(new) /\ k \notin DOMAIN st
    <3>1. result[k] = F!Kept(The(new, k)) BY <1>1, <1>2, <2>2
    <3>2. The(new, k) \in new BY <2>2, TheIsThere
    <3> QED BY <3>1, <3>2 DEF F!Kept
  <2>3. CASE k \in Keys(new) /\ k \in DOMAIN st
    <3>1. result[k] = F!Merge(st[k], The(new, k)) BY <1>1, <1>2, <2>3
    <3>2. The(new, k) \in new /\ st[k].evidence \subseteq who BY <2>3, TheIsThere DEF Bears
    <3>3. result[k].evidence = st[k].evidence \cup The(new, k).evidence BY <3>1 DEF F!Merge
    <3> QED BY <3>2, <3>3
  <2> QED BY <2>1, <2>2, <2>3
<1> QED BY <1>3 DEF Bears

LEMMA HeedStarts == S!ScanInit(Scenarios) /\ store = S!EmptyStore => HeedInv
<1> SUFFICES ASSUME S!ScanInit(Scenarios), store = S!EmptyStore PROVE HeedInv OBVIOUS
<1>1. 1 \in Pages /\ \A p \in Pages : site.links[p] \in Seq(Nat)
  BY CyberAssumption DEF S!ScanInit, Pages
<1>2. /\ queue = <<<<1, 0>>>> /\ endpoints = <<>> /\ checks = [c \in {} |-> S!Started]
      /\ stage # "done"
  BY DEF S!ScanInit
<1>3. endpoints \in Seq(Pages) /\ queue \in Seq(Pages \X Nat)
  <2> DEFINE X == Pages \X Nat
             start == <<1, 0>>
  <2>1. start \in X BY <1>1
  <2>2. queue = <<start>> BY <1>2
  <2> HIDE DEF X, start
  <2>3. queue \in Seq(X) BY <2>1, <2>2
  <2> QED BY <1>2, <2>3 DEF X
<1>4. DOMAIN store = {} BY DEF S!EmptyStore
<1>5. DOMAIN checks = {} BY <1>2
<1> QED BY <1>1, <1>2, <1>3, <1>4, <1>5 DEF HeedInv, Bears

\* A step that leaves the checks, the store and the report.
LEMMA MapHeeds ==
    ASSUME HeedInv, UNCHANGED <<site, checks, store, report>>,
           (stage' = "done") <=> (stage = "done"),
           endpoints' \in Seq(Pages), queue' \in Seq(Pages \X Nat)
    PROVE  HeedInv'
<1>1. Pages' = Pages /\ (\A c : Unheeded(c)' <=> Unheeded(c)) BY DEF Pages, Unheeded
<1>2. \A c \in DOMAIN checks : Modestly(c, checks[c])' <=> Modestly(c, checks[c])
  BY <1>1 DEF Modestly
<1>3. (\A p \in Pages : site.links[p] \in Seq(Nat))' BY <1>1 DEF HeedInv
<1>4. Bears(store, {"recon"})' <=> Bears(store, {"recon"}) BY DEF Bears
<1> QED BY <1>1, <1>2, <1>3, <1>4 DEF HeedInv

LEMMA CrawlHeeds ==
    ASSUME HeedInv, S!CrawlPage PROVE HeedInv'
<1> DEFINE page == queue[1][1]
           depth == queue[1][2]
           rest == Tail(queue)
           links == site.links[page]
           reply == S!Reply(site.pages[page], "GET", spent)
           visited == [seen |-> seen, queue |-> rest,
                       endpoints |-> IF S!Listed(page) THEN endpoints ELSE Append(endpoints, page)]
           crawl == S!Follow(visited, links, depth)
<1>1. /\ stage = "crawl" /\ queue # <<>> /\ UNCHANGED <<site, stage, checks, store, report>>
      /\ Head(queue) = queue[1]
  <2>1. stage = "crawl" /\ queue # <<>> /\ UNCHANGED <<site, stage, checks, store, report>>
    BY DEF S!CrawlPage
  <2>2. Head(queue) = queue[1] OBVIOUS
  <2> QED BY <2>1, <2>2
<1>2. PICK response :
         IF S!Ok(response)
         THEN /\ fetched' = fetched + 1
              /\ seen' = crawl.seen /\ queue' = crawl.queue /\ endpoints' = crawl.endpoints
         ELSE queue' = rest /\ UNCHANGED <<fetched, seen, endpoints>>
  BY <1>1, Zenon DEF S!CrawlPage, S!Popped
<1>3. page \in Pages /\ depth \in Nat /\ rest \in Seq(Pages \X Nat)
  <2> DEFINE X == Pages \X Nat
  <2>1. queue \in Seq(X) BY DEF HeedInv
  <2> HIDE DEF X
  <2>2. queue[1] \in X /\ rest \in Seq(X) BY <1>1, <2>1
  <2> QED BY <2>2 DEF X
<1>4. visited.endpoints \in Seq(Pages) /\ visited.queue \in Seq(Pages \X Nat)
  <2>1. Append(endpoints, page) \in Seq(Pages) /\ endpoints \in Seq(Pages) BY <1>3 DEF HeedInv
  <2>2. visited.endpoints = IF S!Listed(page) THEN endpoints ELSE Append(endpoints, page) OBVIOUS
  <2>3. visited.queue = rest OBVIOUS
  <2> QED BY <1>3, <2>1, <2>2, <2>3
<1>5. links \in Seq(Nat) BY <1>3 DEF HeedInv
<1>6. crawl.endpoints \in Seq(Pages) /\ crawl.queue \in Seq(Pages \X Nat)
  <2> HIDE DEF visited, links, depth
  <2> QED BY <1>3, <1>4, <1>5, FollowFinds DEF Extends
<1> HIDE DEF crawl, rest
<1>7. endpoints' \in Seq(Pages) /\ queue' \in Seq(Pages \X Nat) BY <1>2, <1>3, <1>6 DEF HeedInv
<1> QED BY <1>1, <1>7, MapHeeds

LEMMA FetchedDull ==
    ASSUME NEW c, NEW reply, NEW response, S!Fetch(reply, response), Dull(c, reply)
    PROVE  Dull(c, response)
BY FailedIsDull DEF S!Fetch

LEMMA DulledNone == \A c : Dulled(c, <<>>)
<1> TAKE c
<1> DEFINE R == {}
           h == <<>>
<1>1. h \in Seq(R) /\ \A r \in R : Dull(c, r) OBVIOUS
<1> HIDE DEF R, h
<1>2. Dulled(c, h) BY <1>1, Zenon DEF Dulled
<1> QED BY <1>2 DEF h

LEMMA DulledMore ==
    ASSUME NEW c, NEW h, Dulled(c, h), NEW r, Dull(c, r) PROVE Dulled(c, Append(h, r))
<1>1. PICK R : h \in Seq(R) /\ \A x \in R : Dull(c, x) BY DEF Dulled
<1> DEFINE more == R \cup {r}
<1>2. \A x \in more : Dull(c, x) BY <1>1
<1>3. Append(h, r) \in Seq(more)
  <2>1. r \in more /\ R \subseteq more OBVIOUS
  <2> HIDE DEF more
  <2>2. h \in Seq(more) BY <1>1, <2>1
  <2> QED BY <2>1, <2>2
<1> QED BY <1>2, <1>3 DEF Dulled

\* What is left of a step of check c, when it is known where that goes.
LEMMA MovesHeed ==
    ASSUME HeedInv, UNCHANGED <<site, stage, endpoints, queue, store, report>>, stage = "checks",
           NEW c \in DOMAIN checks, NEW n, NEW h, NEW f, Moves(c, n, h, f),
           n \in Nat \ {0}, \A x \in f : x.evidence = {c},
           Unheeded(c) => f = {} /\ Dulled(c, h)
    PROVE  HeedInv'
<1>1. Pages' = Pages /\ (\A d : Unheeded(d)' <=> Unheeded(d)) BY DEF Pages, Unheeded
<1>2. ASSUME NEW d \in DOMAIN checks PROVE Modestly(d, checks[d])'
  <2>1. CASE d = c BY <1>1, <2>1 DEF Moves, Modestly
  <2>2. CASE d # c
    <3>1. checks'[d] = checks[d] BY <2>2 DEF Moves
    <3>2. Modestly(d, checks[d]) BY DEF HeedInv
    <3> QED BY <1>1, <3>1, <3>2 DEF Modestly
  <2> QED BY <2>1, <2>2
<1>3. DOMAIN checks' = DOMAIN checks BY DEF Moves
<1>4. /\ (1 \in Pages /\ \A p \in Pages : site.links[p] \in Seq(Nat))'
      /\ (endpoints \in Seq(Pages) /\ queue \in Seq(Pages \X Nat))'
  BY <1>1 DEF HeedInv
<1>5. stage' # "done" /\ Bears(store, {"recon"})' BY DEF HeedInv, Bears
<1> QED BY <1>2, <1>3, <1>4, <1>5 DEF HeedInv

\* Where a check is, there is a page of the site.
LEMMA AtPage ==
    ASSUME HeedInv, NEW c \in DOMAIN checks, S!Visiting(c)
    PROVE  \E p \in Pages : S!At(c) = Numbered(p)
<1> DEFINE X == {Numbered(p) : p \in Pages}
           n == checks[c].number
           v == S!Visits(c)
<1>1. v \in Seq(X) BY VisitsAreNumbered DEF HeedInv
<1>2. n \in Nat \ {0} BY DEF HeedInv, Modestly
<1>3. n <= Len(v) BY DEF S!Visiting
<1> HIDE DEF X, n, v
<1>4. v[n] \in X BY <1>1, <1>2, <1>3
<1>5. S!At(c) = v[n] BY DEF S!At, v, n
<1> QED BY <1>4, <1>5 DEF X

LEMMA DoesQuiet ==
    ASSUME HeedInv, NEW c \in DOMAIN checks, Unheeded(c) PROVE Quiet(S!Does(c))
<1>1. c \in Inferring /\ Dulled(c, checks[c].history) BY DEF HeedInv, Modestly, Unheeded
<1>2. PICK R : checks[c].history \in Seq(R) /\ \A r \in R : Dull(c, r) BY <1>1 DEF Dulled
<1> DEFINE h == checks[c].history
           place == S!At(c)
           n == checks[c].number
           found == checks[c].found
<1>3. S!Does(c) = S!Step(c, place, n, h, found) BY DEF S!Does
<1>4. h \in Seq(R) BY <1>2
<1> HIDE DEF h, place, n, found
<1> QED BY <1>1, <1>2, <1>3, <1>4, HeedlessQuiet

LEMMA AsksHeed ==
    ASSUME HeedInv, ChecksInv, NEW c \in DOMAIN checks, S!CheckAsks(c) PROVE HeedInv'
<1>1. /\ S!Visiting(c) /\ S!Does(c).ask \notin {"none", "raise"}
      /\ UNCHANGED <<site, stage, endpoints, queue, store, report>>
  BY DEF S!CheckAsks, S!mapVars
<1>2. stage = "checks" BY <1>1 DEF S!Visiting
<1> DEFINE request == S!Does(c).ask
           reply == S!Reply(S!At(c), request, spent)
<1>3. PICK response :
         S!Fetch(reply, response) /\ checks' = [checks EXCEPT ![c].history = Append(@, response)]
  BY Zenon DEF S!CheckAsks
<1>4. Moves(c, checks[c].number, Append(checks[c].history, response), checks[c].found)
  BY <1>3, AsksInv
<1>5. ASSUME Unheeded(c) PROVE Dulled(c, Append(checks[c].history, response))
  <2>1. PICK p \in Pages : S!At(c) = Numbered(p) BY <1>1, AtPage
  <2>2. S!At(c).traits \subseteq Heedless(c) BY <1>5, <2>1 DEF Numbered, Unheeded
  <2>3. request \in Sent BY <1>1, <1>5, DoesQuiet DEF Quiet
  <2> HIDE DEF request
  <2>4. Dull(c, reply) BY <2>2, <2>3, ReplyIsDull
  <2>5. Dull(c, response) BY <1>3, <2>4, FetchedDull
  <2>6. Dulled(c, checks[c].history) BY <1>5 DEF HeedInv, Modestly
  <2> QED BY <2>5, <2>6, DulledMore
<1>6. Modestly(c, checks[c]) BY DEF HeedInv
<1> QED BY <1>1, <1>2, <1>4, <1>5, <1>6, MovesHeed DEF Modestly

LEMMA ConcludesHeed ==
    ASSUME HeedInv, ChecksInv, NEW c \in DOMAIN checks, S!CheckConcludes(c) PROVE HeedInv'
<1> DEFINE new == {S!Located(f, c) : f \in S!Does(c).report}
<1>1. S!Visiting(c) /\ UNCHANGED <<site, stage, endpoints, queue, store, report>>
  BY DEF S!CheckConcludes, S!mapVars
<1>2. stage = "checks" BY <1>1 DEF S!Visiting
<1>3. Moves(c, checks[c].number + 1, <<>>, checks[c].found \cup new) BY ConcludesInv
<1>4. Modestly(c, checks[c]) BY DEF HeedInv
<1>5. \A f \in new : f.evidence = {c} BY DEF S!Located
<1>6. ASSUME Unheeded(c) PROVE new = {} /\ Dulled(c, <<>>)
  <2>1. S!Does(c).report = {} BY <1>6, DoesQuiet DEF Quiet
  <2> QED BY <2>1, DulledNone
<1>7. checks[c].number + 1 \in Nat \ {0} BY <1>4 DEF Modestly
<1>8. \A f \in checks[c].found \cup new : f.evidence = {c} BY <1>4, <1>5 DEF Modestly
<1>9. Unheeded(c) => checks[c].found \cup new = {} /\ Dulled(c, <<>>)
  BY <1>4, <1>6 DEF Modestly
<1> HIDE DEF new
<1> QED BY <1>1, <1>2, <1>3, <1>7, <1>8, <1>9, MovesHeed

LEMMA RaisesHeed ==
    ASSUME HeedInv, ChecksInv, NEW c \in DOMAIN checks, S!CheckRaises(c) PROVE HeedInv'
<1>1. S!Visiting(c) /\ UNCHANGED <<site, stage, endpoints, queue, store, report>>
  BY DEF S!CheckRaises, S!mapVars
<1>2. stage = "checks" BY <1>1 DEF S!Visiting
<1>3. Moves(c, checks[c].number, checks[c].history, {}) BY RaisesInv
<1>4. Modestly(c, checks[c]) BY DEF HeedInv
<1> QED BY <1>1, <1>2, <1>3, <1>4, MovesHeed DEF Modestly

LEMMA StartHeeds ==
    ASSUME HeedInv, S!StartChecks PROVE HeedInv'
<1> DEFINE new == {S!ReconFinding(rule) : rule \in rules}
<1>1. /\ stage # "done" /\ stage' = "checks" /\ UNCHANGED <<site, endpoints, queue, report>>
      /\ checks' = [c \in S!Chosen |-> S!Started]
  BY DEF S!StartChecks, S!mapVars
<1>2. store' = F!Extend(store, new) BY OneLedger DEF S!StartChecks
<1>3. \A f \in new : f.evidence \subseteq {"recon"} BY DEF S!ReconFinding
<1> HIDE DEF new
<1>4. Bears(store', {"recon"}) BY <1>1, <1>2, <1>3, ExtendBears DEF HeedInv
<1>5. Pages' = Pages BY <1>1 DEF Pages
<1>6. ASSUME NEW c \in DOMAIN checks' PROVE Modestly(c, checks[c])'
  <2>1. checks'[c] = S!Started BY <1>1, <1>6
  <2>2. S!Started.number = 1 /\ S!Started.history = <<>> /\ S!Started.found = {} BY DEF S!Started
  <2> QED BY <2>1, <2>2, DulledNone DEF Modestly
<1>7. /\ (1 \in Pages /\ \A p \in Pages : site.links[p] \in Seq(Nat))'
      /\ (endpoints \in Seq(Pages) /\ queue \in Seq(Pages \X Nat))'
  BY <1>1, <1>5 DEF HeedInv
<1> QED BY <1>1, <1>4, <1>6, <1>7 DEF HeedInv, Bears

LEMMA FinishHeeds ==
    ASSUME HeedInv, S!Finish PROVE HeedInv'
<1>1. /\ stage = "checks" /\ stage' = "done" /\ report' = store'
      /\ UNCHANGED <<site, endpoints, queue, checks>>
  BY DEF S!Finish, S!mapVars
<1>2. store' = F!Extend(store, S!Produced) BY OneLedger DEF S!Finish
<1>3. Pages' = Pages /\ (\A d : Unheeded(d)' <=> Unheeded(d)) BY <1>1 DEF Pages, Unheeded
<1>4. ASSUME NEW c \in DOMAIN checks, Unheeded(c)
      PROVE  \A k \in DOMAIN report' : c \notin report'[k].evidence
  <2> DEFINE who == {"recon"} \cup (DOMAIN checks \ {c})
  <2>1. Bears(store, who) BY <1>1 DEF HeedInv, Bears
  <2>2. ASSUME NEW f \in S!Produced PROVE f.evidence \subseteq who
    <3>1. PICK d \in DOMAIN checks : f \in checks[d].found BY DEF S!Produced
    <3>2. Modestly(c, checks[c]) /\ Modestly(d, checks[d]) BY DEF HeedInv
    <3>3. f.evidence = {d} /\ d # c BY <1>4, <3>1, <3>2 DEF Modestly
    <3> QED BY <3>3
  <2>3. c \notin who
    <3>1. c \in Inferring BY <1>4 DEF Unheeded
    <3>2. "recon" \notin Inferring BY Zenon DEF Inferring
    <3> QED BY <3>1, <3>2
  <2> HIDE DEF who
  <2>4. Bears(store', who) BY <1>2, <2>1, <2>2, ExtendBears
  <2> QED BY <1>1, <2>3, <2>4 DEF Bears
<1>5. \A c \in DOMAIN checks : Modestly(c, checks[c])' BY <1>1, <1>3 DEF HeedInv, Modestly
<1>6. /\ (1 \in Pages /\ \A p \in Pages : site.links[p] \in Seq(Nat))'
      /\ (endpoints \in Seq(Pages) /\ queue \in Seq(Pages \X Nat))'
  BY <1>1, <1>3 DEF HeedInv
<1>7. DOMAIN checks' = DOMAIN checks BY <1>1
<1> QED BY <1>1, <1>3, <1>4, <1>5, <1>6, <1>7 DEF HeedInv

LEMMA HeedStep ==
    ASSUME HeedInv, ScanInv, S!ScanNext PROVE HeedInv'
<1>1. CASE S!Probe \/ S!CrawlEnds \/ S!Robots \/ S!Sitemap
  <2>1. /\ UNCHANGED <<site, queue, endpoints, checks, store, report>>
        /\ stage # "done" /\ stage' # "done"
    BY <1>1, Zenon DEF S!Probe, S!CrawlEnds, S!Robots, S!Sitemap, S!mapVars
  <2>2. Pages' = Pages BY <2>1 DEF Pages
  <2> QED BY <2>1, <2>2, MapHeeds DEF HeedInv
<1>2. CASE S!CrawlPage BY <1>2, CrawlHeeds
<1>3. CASE S!StartChecks BY <1>3, StartHeeds
<1>4. CASE S!Finish BY <1>4, FinishHeeds
<1>5. ASSUME NEW c \in DOMAIN checks, S!CheckAsks(c) \/ S!CheckConcludes(c) \/ S!CheckRaises(c)
      PROVE  HeedInv'
  <2>1. ChecksInv BY DEF ScanInv
  <2> QED BY <1>5, <2>1, AsksHeed, ConcludesHeed, RaisesHeed
<1> QED BY <1>1, <1>2, <1>3, <1>4, <1>5 DEF S!ScanNext

LEMMA HeedStutters ==
    ASSUME HeedInv, UNCHANGED vars PROVE HeedInv'
<1>1. UNCHANGED <<site, stage, endpoints, queue, checks, store, report>> BY DEF vars, scanVars
<1> QED BY <1>1, MapHeeds DEF HeedInv

\* Only a scan has checks.
Heeding == IF command = "scan" THEN HeedInv ELSE stage = "idle"

LEMMA HeedingKept == Spec => []Heeding
<1>1. Init => Heeding
  <2> SUFFICES ASSUME Init PROVE Heeding OBVIOUS
  <2>1. CASE command = "scan" BY <2>1, HeedStarts DEF Init, Heeding
  <2>2. CASE command # "scan" BY <2>2 DEF Init, Heeding, S!ScanIdle
  <2> QED BY <2>1, <2>2
<1>2. CyberInv /\ Heeding /\ [Next]_vars => Heeding'
  <2> SUFFICES ASSUME CyberInv, Heeding, [Next]_vars PROVE Heeding' OBVIOUS
  <2>1. CASE UNCHANGED vars
    <3>1. UNCHANGED <<command, stage>> BY <2>1 DEF vars, scanVars
    <3> QED BY <2>1, <3>1, HeedStutters DEF Heeding
  <2>2. CASE command = "scan" /\ S!ScanNext /\ UNCHANGED command
    <3>1. HeedInv' BY <2>2, HeedStep DEF Heeding, CyberInv
    <3> QED BY <2>2, <3>1 DEF Heeding
  <2>3. CASE command # "scan" /\ UNCHANGED <<command, scanVars>>
    BY <2>3 DEF Heeding, scanVars
  <2> QED BY <2>1, <2>2, <2>3 DEF Next
<1> QED BY <1>1, <1>2, CyberInvariant, PTL DEF Spec

\* A check that infers a weakness from differences between responses, or from what a
\* payload brings about, reports none of a site no page of which heeds what it sends:
\* on any site, whatever requests are lost or refused, however the steps of the
\* concurrent checks interleave (run_checks, injection.py, ssrf.py, protocol.py).
THEOREM NothingIsInferred == Spec => []NothingInferred
<1>1. Heeding => NothingInferred
  <2> SUFFICES ASSUME Heeding, stage = "done", NEW c \in DOMAIN checks \cap Inferring,
                      \A p \in DOMAIN site.pages : site.pages[p].traits \subseteq Heedless(c)
               PROVE  \A k \in DOMAIN report : c \notin report[k].evidence
    BY DEF NothingInferred
  <2>1. HeedInv BY DEF Heeding
  <2>2. Unheeded(c) BY DEF Unheeded, Pages
  <2> QED BY <2>1, <2>2 DEF HeedInv
<1> QED BY <1>1, HeedingKept, PTL

-----------------------------------------------------------------------------
(* The versions of an audit *)

IsVersion(v) == v \in Seq(Nat) \ {<<>>}

LEMMA NumberType ==
    ASSUME NEW v, IsVersion(v), NEW i \in Nat \ {0}
    PROVE  /\ Number(v, i) \in Nat
           /\ i <= Len(v) => Number(v, i) = v[i]
           /\ ~(i <= Len(v)) => Number(v, i) = 0
BY DEF IsVersion, Number

LEMMA VersionShape ==
    ASSUME NEW v, IsVersion(v)
    PROVE  v # <<>> /\ Len(v) \in Nat \ {0} /\ \A i \in 1 .. Len(v) : v[i] \in Nat
BY DEF IsVersion

\* Where two versions first differ, it is decided which is older.
LEMMA FirstDecides ==
    ASSUME NEW v, IsVersion(v), NEW b, IsVersion(b), NEW k \in Nat \ {0},
           Number(v, k) # Number(b, k), \A j \in 1 .. k - 1 : Number(v, j) = Number(b, j)
    PROVE  Older(v, b) <=> Number(v, k) < Number(b, k)
<1>1. /\ Number(v, k) \in Nat /\ Number(b, k) \in Nat
      /\ ~(k <= Len(b)) => Number(b, k) = 0
      /\ Len(b) \in Nat
  BY NumberType, VersionShape
<1>2. ASSUME Number(v, k) < Number(b, k) PROVE Older(v, b)
  <2>1. k \in 1 .. Len(b) BY <1>1, <1>2
  <2> QED BY <1>2, <2>1 DEF Older
<1>3. ASSUME Older(v, b) PROVE Number(v, k) < Number(b, k)
  <2>1. PICK i \in 1 .. Len(b) : /\ Number(v, i) < Number(b, i)
                                 /\ \A j \in 1 .. i - 1 : Number(v, j) = Number(b, j)
    BY <1>3 DEF Older
  <2>2. i \in Nat \ {0} BY <1>1, <2>1
  <2>3. Number(v, i) \in Nat /\ Number(b, i) \in Nat BY <2>2, NumberType
  <2>4. Number(v, i) # Number(b, i) BY <2>1, <2>3
  <2>5. ~(i < k)
    <3>1. i < k => i \in 1 .. k - 1 BY <2>2
    <3> QED BY <2>4, <3>1
  <2>6. ~(k < i)
    <3>1. k < i => k \in 1 .. i - 1 BY <2>2
    <3> QED BY <2>1, <3>1
  <2>7. i = k BY <2>2, <2>5, <2>6
  <2> QED BY <2>1, <2>7
<1> QED BY <1>2, <1>3

LEMMA CompareOrders ==
    ASSUME NEW v, IsVersion(v), NEW b, IsVersion(b), v # b => ~Same(v, b)
    PROVE  T!Compare(v, b) \in {-1, 0, 1} /\ (T!Compare(v, b) < 0 <=> Older(v, b))
<1>0. /\ Len(v) \in Nat \ {0} /\ Len(b) \in Nat \ {0} /\ v # <<>> /\ b # <<>>
      /\ (\A i \in 1 .. Len(v) : v[i] \in Nat) /\ (\A i \in 1 .. Len(b) : b[i] \in Nat)
  BY VersionShape
<1>1. CASE v = b
  <2>1. T!Compare(v, b) = 0 BY <1>1 DEF T!Compare
  <2>2. ~Older(v, b)
    <3>1. \A i \in 1 .. Len(b) : Number(v, i) \in Nat BY <1>0, NumberType
    <3> QED BY <1>1, <3>1 DEF Older
  <2> QED BY <2>1, <2>2
<1>2. CASE v # b
  <2> DEFINE D == {i \in 1 .. Len(v) + Len(b) : Number(v, i) # Number(b, i)}
             m == IF Len(v) < Len(b) THEN Len(v) ELSE Len(b)
             differ == {i \in 1 .. m : v[i] # b[i]}
             first == CHOOSE i \in differ : \A j \in differ : i <= j
  <2>1. D # {} /\ D \subseteq Nat BY <1>0, <1>2 DEF Same
  <2> HIDE DEF D
  <2>2. PICK k \in D : \A j \in D : k <= j BY <2>1, LeastNatural
  <2>3. k \in 1 .. Len(v) + Len(b) /\ Number(v, k) # Number(b, k) BY DEF D
  <2>4. k \in Nat \ {0} BY <1>0, <2>3
  <2>5. \A j \in 1 .. k - 1 : Number(v, j) = Number(b, j)
    <3> TAKE j \in 1 .. k - 1
    <3>1. j \in 1 .. Len(v) + Len(b) /\ ~(k <= j) BY <1>0, <2>3, <2>4
    <3> QED BY <2>2, <3>1 DEF D
  <2>6. Older(v, b) <=> Number(v, k) < Number(b, k) BY <2>3, <2>4, <2>5, FirstDecides
  <2>7. m \in Nat /\ m <= Len(v) /\ m <= Len(b) BY <1>0
  <2>8. /\ Number(v, k) \in Nat /\ Number(b, k) \in Nat
        /\ (k <= Len(v) => Number(v, k) = v[k]) /\ (~(k <= Len(v)) => Number(v, k) = 0)
        /\ (k <= Len(b) => Number(b, k) = b[k]) /\ (~(k <= Len(b)) => Number(b, k) = 0)
    BY <2>4, NumberType
  <2>9. T!Compare(v, b) =
           IF (IF differ = {} THEN Len(v) < Len(b) ELSE v[first] < b[first]) THEN -1 ELSE 1
    BY <1>0, <1>2 DEF T!Compare
  <2>10. CASE k <= m
    <3>1. k \in differ BY <2>3, <2>4, <2>7, <2>8, <2>10
    <3>2. \A j \in differ : k <= j
      <4> TAKE j \in differ
      <4>1. j \in 1 .. m /\ v[j] # b[j] OBVIOUS
      <4>2. j \in Nat \ {0} /\ j <= Len(v) /\ j <= Len(b) BY <1>0, <2>7, <4>1
      <4>3. Number(v, j) # Number(b, j) BY <4>1, <4>2, NumberType
      <4>4. j \in D BY <1>0, <4>2, <4>3 DEF D
      <4> QED BY <2>2, <4>4
    <3>3. \A i \in differ : i \in Nat BY <2>7
    <3> HIDE DEF differ, first
    <3>4. first \in differ /\ \A j \in differ : first <= j BY <3>1, <3>2 DEF first
    <3>5. first = k BY <2>4, <3>1, <3>2, <3>3, <3>4
    <3>6. differ # {} BY <3>1
    <3>7. T!Compare(v, b) = IF v[k] < b[k] THEN -1 ELSE 1 BY <2>9, <3>5, <3>6
    <3>8. Number(v, k) = v[k] /\ Number(b, k) = b[k] BY <2>4, <2>7, <2>8, <2>10
    <3> QED BY <2>6, <3>7, <3>8
  <2>11. CASE ~(k <= m)
    <3>1. differ = {}
      <4> SUFFICES ASSUME NEW j \in differ PROVE FALSE OBVIOUS
      <4>1. j \in 1 .. m /\ v[j] # b[j] OBVIOUS
      <4>2. j \in Nat \ {0} /\ j <= Len(v) /\ j <= Len(b) /\ j \in 1 .. k - 1
        BY <1>0, <2>4, <2>7, <2>11, <4>1
      <4>3. Number(v, j) = v[j] /\ Number(b, j) = b[j] BY <4>2, NumberType
      <4> QED BY <2>5, <4>1, <4>2, <4>3
    <3>2. T!Compare(v, b) = IF Len(v) < Len(b) THEN -1 ELSE 1 BY <2>9, <3>1
    <3> HIDE DEF differ, first
    <3>3. CASE Len(v) < Len(b)
      <4>1. m = Len(v) BY <3>3
      <4>2. Number(v, k) = 0 BY <2>4, <2>8, <2>11, <4>1
      <4>3. Number(v, k) < Number(b, k) BY <2>3, <2>8, <4>2
      <4> QED BY <2>6, <3>2, <3>3, <4>3
    <3>4. CASE ~(Len(v) < Len(b))
      <4>1. m = Len(b) BY <3>4
      <4>2. Number(b, k) = 0 BY <2>4, <2>8, <2>11, <4>1
      <4>3. ~(Number(v, k) < Number(b, k)) BY <2>8, <4>2
      <4> QED BY <2>6, <3>2, <3>4, <4>3
    <3> QED BY <3>3, <3>4
  <2> QED BY <2>10, <2>11
<1> QED BY <1>1, <1>2

\* The bounds of the bundled list.
Bounds == {<<3, 0>>, <<3, 2, 4>>, <<5, 4>>, <<4, 17, 21>>, <<0, 17, 0>>, <<0, 10, 55>>,
           <<2, 13, 2, 1>>, <<2, 2, 3>>}

LEMMA Entries ==
    ASSUME NEW a \in T!OfflineAdvisories
    PROVE  /\ \A b \in T!OfflineAdvisories : a.id = b.id => a = b
           /\ \E one \in Bounds : \E other \in Bounds :
                 a.range = {T!Below(one)} \/ a.range = {T!From(other), T!Below(one)}
<1> DEFINE Ranged(range) == \E one \in Bounds : \E other \in Bounds :
                               range = {T!Below(one)} \/ range = {T!From(other), T!Below(one)}
           django == T!Advisory("rf4c", "pypi", "django", {T!From(<<3, 0>>), T!Below(<<3, 2, 4>>)}, <<3, 2, 4>>)
           pyyaml == T!Advisory("8q59", "pypi", "pyyaml", {T!Below(<<5, 4>>)}, <<5, 4>>)
           lodash == T!Advisory("35jh", "npm", "lodash", {T!Below(<<4, 17, 21>>)}, <<4, 17, 21>>)
           net == T!Advisory("4374", "go", "net", {T!Below(<<0, 17, 0>>)}, <<0, 17, 0>>)
           openssl == T!Advisory("0044", "crates.io", "openssl", {T!Below(<<0, 10, 55>>)}, <<0, 10, 55>>)
           jackson == T!Advisory("36518", "maven", "jackson", {T!Below(<<2, 13, 2, 1>>)}, <<2, 13, 2, 1>>)
           rack == T!Advisory("30122", "rubygems", "rack", {T!Below(<<2, 2, 3>>)}, <<2, 2, 3>>)
<1>1. T!OfflineAdvisories = {django, pyyaml, lodash, net, openssl, jackson, rack}
  BY Zenon DEF T!OfflineAdvisories
<1>2. /\ django.id = "rf4c" /\ pyyaml.id = "8q59" /\ lodash.id = "35jh" /\ net.id = "4374"
      /\ openssl.id = "0044" /\ jackson.id = "36518" /\ rack.id = "30122"
  BY Zenon DEF T!Advisory
<1>3. /\ Ranged(django.range) /\ Ranged(pyyaml.range) /\ Ranged(lodash.range) /\ Ranged(net.range)
      /\ Ranged(openssl.range) /\ Ranged(jackson.range) /\ Ranged(rack.range)
  <2>1. \A one \in Bounds : Ranged({T!Below(one)}) BY Zenon
  <2>2. \A one \in Bounds : \A other \in Bounds : Ranged({T!From(other), T!Below(one)}) BY Zenon
  <2>3. /\ <<3, 0>> \in Bounds /\ <<3, 2, 4>> \in Bounds /\ <<5, 4>> \in Bounds
        /\ <<4, 17, 21>> \in Bounds /\ <<0, 17, 0>> \in Bounds /\ <<0, 10, 55>> \in Bounds
        /\ <<2, 13, 2, 1>> \in Bounds /\ <<2, 2, 3>> \in Bounds
    BY Zenon DEF Bounds
  <2> HIDE DEF Ranged
  <2>4. Ranged(django.range)
    <3>1. django.range = {T!From(<<3, 0>>), T!Below(<<3, 2, 4>>)} BY Zenon DEF T!Advisory
    <3> QED BY <2>2, <2>3, <3>1, Zenon
  <2>5. Ranged(pyyaml.range)
    <3>1. pyyaml.range = {T!Below(<<5, 4>>)} BY Zenon DEF T!Advisory
    <3> QED BY <2>1, <2>3, <3>1, Zenon
  <2>6. Ranged(lodash.range)
    <3>1. lodash.range = {T!Below(<<4, 17, 21>>)} BY Zenon DEF T!Advisory
    <3> QED BY <2>1, <2>3, <3>1, Zenon
  <2>7. Ranged(net.range)
    <3>1. net.range = {T!Below(<<0, 17, 0>>)} BY Zenon DEF T!Advisory
    <3> QED BY <2>1, <2>3, <3>1, Zenon
  <2>8. Ranged(openssl.range)
    <3>1. openssl.range = {T!Below(<<0, 10, 55>>)} BY Zenon DEF T!Advisory
    <3> QED BY <2>1, <2>3, <3>1, Zenon
  <2>9. Ranged(jackson.range)
    <3>1. jackson.range = {T!Below(<<2, 13, 2, 1>>)} BY Zenon DEF T!Advisory
    <3> QED BY <2>1, <2>3, <3>1, Zenon
  <2>10. Ranged(rack.range)
    <3>1. rack.range = {T!Below(<<2, 2, 3>>)} BY Zenon DEF T!Advisory
    <3> QED BY <2>1, <2>3, <3>1, Zenon
  <2> QED BY <2>4, <2>5, <2>6, <2>7, <2>8, <2>9, <2>10, Zenon
<1> HIDE DEF django, pyyaml, lodash, net, openssl, jackson, rack
<1>4. ASSUME NEW b \in T!OfflineAdvisories, a.id = b.id PROVE a = b
  BY <1>1, <1>2, <1>4
<1>5. Ranged(a.range)
  <2> HIDE DEF Ranged
  <2> QED BY <1>1, <1>3, Zenon
<1> QED BY <1>4, <1>5, Zenon

LEMMA BoundVersions ==
    \A a \in T!OfflineAdvisories : \A clause \in a.range :
        clause.op \in {">=", "<"} /\ IsVersion(clause.bound)
<1>1. /\ IsVersion(<<3, 0>>) /\ IsVersion(<<3, 2, 4>>) /\ IsVersion(<<5, 4>>)
      /\ IsVersion(<<4, 17, 21>>) /\ IsVersion(<<0, 17, 0>>) /\ IsVersion(<<0, 10, 55>>)
      /\ IsVersion(<<2, 13, 2, 1>>) /\ IsVersion(<<2, 2, 3>>)
  BY DEF IsVersion
<1>2. \A bound \in Bounds : IsVersion(bound) BY <1>1, Zenon DEF Bounds
<1>3. \A bound : /\ T!Below(bound).op = "<" /\ T!Below(bound).bound = bound
                 /\ T!From(bound).op = ">=" /\ T!From(bound).bound = bound
  BY Zenon DEF T!Below, T!From
<1>4. ASSUME NEW a \in T!OfflineAdvisories, NEW clause \in a.range
      PROVE  clause.op \in {">=", "<"} /\ IsVersion(clause.bound)
  <2>1. PICK one \in Bounds, other \in Bounds :
           a.range = {T!Below(one)} \/ a.range = {T!From(other), T!Below(one)}
    BY Entries, Zenon
  <2>2. clause = T!Below(one) \/ clause = T!From(other) BY <1>4, <2>1
  <2>3. clause.bound \in Bounds /\ (clause.op = "<" \/ clause.op = ">=") BY <1>3, <2>2
  <2> QED BY <1>2, <2>3, Zenon
<1> QED BY <1>4, Zenon

LEMMA InRangeExact ==
    ASSUME NEW v, IsVersion(v), NEW a \in T!OfflineAdvisories, ~SpeltApart(v, a.range)
    PROVE  T!InRange(v, a.range) <=> Affected(v, a.range)
<1>1. ASSUME NEW clause \in a.range
      PROVE  T!Satisfies(v, clause) <=>
                CASE clause.op = ">=" -> ~Older(v, clause.bound) [] clause.op = "<" -> Older(v, clause.bound)
  <2>1. clause.op \in {">=", "<"} /\ IsVersion(clause.bound) BY BoundVersions, Zenon
  <2>2. v # clause.bound => ~Same(v, clause.bound) BY Zenon DEF SpeltApart
  <2> DEFINE order == T!Compare(v, clause.bound)
  <2>3. order \in {-1, 0, 1} /\ (order < 0 <=> Older(v, clause.bound)) BY <2>1, <2>2, CompareOrders, Zenon
  <2> HIDE DEF order
  <2>4. order >= 0 <=> ~Older(v, clause.bound)
    <3>1. \A n \in {-1, 0, 1} : n >= 0 <=> ~(n < 0) OBVIOUS
    <3> QED BY <2>3, <3>1, Zenon
  <2>5. ">=" # "<" BY Zenon
  <2>6. CASE clause.op = ">=" BY <2>4, <2>5, <2>6, Zenon DEF T!Satisfies, order
  <2>7. CASE clause.op = "<" BY <2>3, <2>5, <2>7, Zenon DEF T!Satisfies, order
  <2> QED BY <2>1, <2>6, <2>7, Zenon
<1>2. v # <<>> BY VersionShape
<1>3. T!InRange(v, a.range) <=> \A clause \in a.range : T!Satisfies(v, clause)
  BY <1>2, Zenon DEF T!InRange
<1> QED BY <1>1, <1>3, Zenon DEF Affected

-----------------------------------------------------------------------------
(* What audit and sast report *)

Advised == UNION {T!FindingsOf(d) : d \in project.declares}
Analysed == UNION {T!ScanFile(project.files[i]) : i \in {j \in T!SourceFiles : project.files[j].readable}}

TreeInv ==
    /\ command \in {"audit", "sast"} => project \in Projects
    /\ command = "audit" => IF report = None THEN DOMAIN store \subseteq Keys(Advised)
                            ELSE DOMAIN report = Keys(Advised)
    /\ command = "sast" /\ report # None => Keys(Analysed) \subseteq DOMAIN report

LEMMA TreeStarts == Init => TreeInv
<1> SUFFICES ASSUME Init PROVE TreeInv OBVIOUS
<1>1. store = F!EmptyStore /\ report = None BY OneLedger DEF Init
<1>2. DOMAIN store = {} BY <1>1 DEF F!EmptyStore
<1>3. command \in {"audit", "sast"} => project \in Projects BY DEF Init
<1> QED BY <1>1, <1>2, <1>3 DEF TreeInv

LEMMA TreeStep == TreeInv /\ Next => TreeInv'
<1> SUFFICES ASSUME TreeInv, Next PROVE TreeInv' OBVIOUS
<1>1. UNCHANGED command BY DEF Next
<1>2. CASE command = "audit" /\ T!AuditDependencies
  <2>1. /\ report = None /\ report' = store' /\ UNCHANGED project
        /\ store' = F!Extend(store, Advised)
    BY <1>2, OneLedger DEF T!AuditDependencies, Advised
  <2>2. DOMAIN store' = DOMAIN store \cup Keys(Advised) BY <2>1, ExtendShape
  <2>3. Advised' = Advised BY <2>1 DEF Advised, T!FindingsOf, T!VersionOf, T!NameOf, T!Lookup
  <2>4. Keys(Advised)' = Keys(Advised) BY <2>3 DEF Keys
  <2>5. DOMAIN store \subseteq Keys(Advised) BY <1>2, <2>1 DEF TreeInv
  <2>6. DOMAIN store' = Keys(Advised)' /\ DOMAIN report' = DOMAIN store' BY <2>1, <2>2, <2>4, <2>5
  <2> QED BY <1>1, <1>2, <2>1, <2>6, Zenon DEF TreeInv
<1>3. CASE command = "sast" /\ T!Analyze
  <2>1. /\ report = None /\ report' = store' /\ UNCHANGED project
        /\ store' = F!Extend(store, Analysed)
    BY <1>3, OneLedger DEF T!Analyze, Analysed
  <2>2. DOMAIN store' = DOMAIN store \cup Keys(Analysed) BY <2>1, ExtendShape
  <2>3. Analysed' = Analysed BY <2>1 DEF Analysed, T!SourceFiles, T!Scannable
  <2>4. Keys(Analysed)' = Keys(Analysed) BY <2>3 DEF Keys
  <2> QED BY <1>1, <1>3, <2>1, <2>2, <2>4 DEF TreeInv
<1>4. CASE command \notin {"audit", "sast"} BY <1>1, <1>4 DEF TreeInv
<1> QED BY <1>2, <1>3, <1>4 DEF Next

LEMMA TreeStutters == TreeInv /\ UNCHANGED vars => TreeInv'
<1> SUFFICES ASSUME TreeInv, UNCHANGED vars PROVE TreeInv' OBVIOUS
<1>1. UNCHANGED <<command, project, store, report>> BY DEF vars
<1>2. Advised' = Advised BY <1>1 DEF Advised
<1>3. Analysed' = Analysed BY <1>1 DEF Analysed, T!SourceFiles, T!Scannable
<1>4. Keys(Advised)' = Keys(Advised) /\ Keys(Analysed)' = Keys(Analysed) BY <1>2, <1>3 DEF Keys
<1> QED BY <1>1, <1>4 DEF TreeInv

LEMMA TreeKept == Spec => []TreeInv
BY TreeStarts, TreeStep, TreeStutters, PTL DEF Spec

LEMMA AdvisedKeys ==
    ASSUME NEW id, NEW package, NEW version
    PROVE  <<id, package, version>> \in Keys(Advised) <=>
              \E d \in project.declares :
                 /\ TakenFor(d, package, version) /\ version # <<>>
                 /\ \E a \in T!Lookup(T!Ecosystem(d.manifest), package, version) : a.id = id
<1> DEFINE key == <<id, package, version>>
<1>1. ASSUME NEW d
      PROVE  key \in Keys(T!FindingsOf(d)) <=>
                /\ TakenFor(d, package, version) /\ version # <<>>
                /\ \E a \in T!Lookup(T!Ecosystem(d.manifest), package, version) : a.id = id
  <2> DEFINE n == T!NameOf(d)
             v == T!VersionOf(d)
             e == T!Ecosystem(d.manifest)
  <2>1. T!FindingsOf(d) = IF v = <<>> THEN {} ELSE {T!AdvisoryFinding(a, n, v) : a \in T!Lookup(e, n, v)}
    BY DEF T!FindingsOf
  <2>2. \A a : F!Fingerprint(T!AdvisoryFinding(a, n, v)) = <<a.id, n, v>>
    BY DEF F!Fingerprint, T!AdvisoryFinding
  <2>3. \A a : <<a.id, n, v>> = key <=> a.id = id /\ n = package /\ v = version OBVIOUS
  <2>4. TakenFor(d, package, version) <=> n = package /\ v = version BY DEF TakenFor
  <2> HIDE DEF n, v, e, key
  <2>5. key \in Keys(T!FindingsOf(d)) <=> v # <<>> /\ \E a \in T!Lookup(e, n, v) : <<a.id, n, v>> = key
    BY <2>1, <2>2, Zenon DEF Keys
  <2> QED BY <2>3, <2>4, <2>5, Zenon DEF e
<1>2. key \in Keys(Advised) <=> \E d \in project.declares : key \in Keys(T!FindingsOf(d))
  <2> HIDE DEF key
  <2> QED BY Zenon DEF Keys, Advised
<1> HIDE DEF key
<1>3. key \in Keys(Advised) <=>
              \E d \in project.declares :
                 /\ TakenFor(d, package, version) /\ version # <<>>
                 /\ \E a \in T!Lookup(T!Ecosystem(d.manifest), package, version) : a.id = id
  BY <1>1, <1>2
<1> QED BY <1>3 DEF key

\* An audit reports an advisory for a declared version exactly when the version is in
\* its range, number by number: for versions of any length and numbers of any size
\* (_compare, version_in_range, VulnerabilityAuditor.audit_dependencies).
THEOREM AuditIsExact == Spec => []AuditExact
<1>1. TreeInv => AuditExact
  <2> SUFFICES ASSUME TreeInv, command = "audit", report # None,
                      NEW d \in project.declares, NEW a \in T!OfflineAdvisories,
                      ~SpeltApart(d.version, a.range)
               PROVE  <<a.id, d.package, d.version>> \in DOMAIN report <=>
                         /\ a.package = d.package /\ Affected(d.version, a.range)
                         /\ \E other \in project.declares :
                               /\ TakenFor(other, d.package, d.version)
                               /\ a.ecosystem = T!Ecosystem(other.manifest)
    BY DEF AuditExact
  <2> DEFINE n == d.package
             v == d.version
  <2>1. project \in Projects /\ DOMAIN report = Keys(Advised) BY DEF TreeInv
  <2>2. T!IsProject(project) BY <2>1, CyberAssumption
  <2>3. IsVersion(v) BY <2>2 DEF T!IsProject, IsVersion
  <2>4. T!InRange(v, a.range) <=> Affected(v, a.range) BY <2>3, InRangeExact
  <2>5. v # <<>> BY <2>3, VersionShape
  <2> HIDE DEF n, v
  <2>6. \A e : (\E b \in T!Lookup(e, n, v) : b.id = a.id) <=>
                  a.ecosystem = e /\ a.package = n /\ T!InRange(v, a.range)
    <3> TAKE e
    <3>1. \A b \in T!Lookup(e, n, v) : b \in T!OfflineAdvisories BY DEF T!Lookup
    <3>2. \A b \in T!Lookup(e, n, v) : b.id = a.id => b = a BY <3>1, Entries
    <3>3. a \in T!Lookup(e, n, v) <=> a.ecosystem = e /\ a.package = n /\ T!InRange(v, a.range)
      BY DEF T!Lookup
    <3> QED BY <3>2, <3>3
  <2>7. <<a.id, n, v>> \in Keys(Advised) <=>
           \E other \in project.declares :
              /\ TakenFor(other, n, v) /\ v # <<>>
              /\ \E b \in T!Lookup(T!Ecosystem(other.manifest), n, v) : b.id = a.id
    BY AdvisedKeys
  <2>8. <<a.id, n, v>> \in DOMAIN report <=>
           /\ a.package = n /\ Affected(v, a.range)
           /\ \E other \in project.declares :
                 TakenFor(other, n, v) /\ a.ecosystem = T!Ecosystem(other.manifest)
    BY <2>1, <2>4, <2>5, <2>6, <2>7, Zenon
  <2> QED BY <2>8 DEF n, v
<1> QED BY <1>1, TreeKept, PTL

\* The finding of what a rule matches on a line.
LEMMA LineSeen ==
    ASSUME NEW file, file.suffix = ".py", NEW text, NEW on \in text, on.mark \in T!Marks,
           on.value = "genuine"
    PROVE  \E g \in T!ScanLine(file, text) : g.rule = on.mark
<1>1. on.mark \in {"key header", "assignment", "shell call", "weak hash", "any host", "any origin"}
  <2> DEFINE secret(m, v, e) == [mark |-> m, severity |-> v, entropy |-> e]
             rule(m, v, languages) == [mark |-> m, severity |-> v, languages |-> languages]
  <2>1. \A r, m : (\E v, e : r = secret(m, v, e) \/ r = rule(m, v, e)) => r.mark = m OBVIOUS
  <2>2. /\ \A r \in T!SecretRules : \E m \in {"key header", "assignment"} : \E v, e : r = secret(m, v, e)
        /\ \A r \in T!SinkRules : \E m \in {"shell call", "weak hash"} : \E v, e : r = rule(m, v, e)
        /\ \A r \in T!MisconfigRules : \E m \in {"any host", "any origin"} : \E v, e : r = rule(m, v, e)
    BY Zenon DEF T!SecretRules, T!SinkRules, T!MisconfigRules
  <2> HIDE DEF secret, rule
  <2>3. PICK r \in T!SecretRules \cup T!SinkRules \cup T!MisconfigRules : r.mark = on.mark
    BY Zenon DEF T!Marks
  <2> DEFINE six == {"key header", "assignment", "shell call", "weak hash", "any host", "any origin"}
  <2>4. /\ {"key header", "assignment"} \subseteq six /\ {"shell call", "weak hash"} \subseteq six
        /\ {"any host", "any origin"} \subseteq six
    BY Zenon
  <2> HIDE DEF six
  <2>5. CASE r \in T!SecretRules
    <3>1. PICK m \in {"key header", "assignment"} : \E v, e : r = secret(m, v, e) BY <2>2, <2>5, Zenon
    <3>2. r.mark = m BY <2>1, <3>1, Zenon
    <3> QED BY <2>3, <2>4, <3>2, Zenon DEF six
  <2>6. CASE r \in T!SinkRules
    <3>1. PICK m \in {"shell call", "weak hash"} : \E v, e : r = rule(m, v, e) BY <2>2, <2>6, Zenon
    <3>2. r.mark = m BY <2>1, <3>1, Zenon
    <3> QED BY <2>3, <2>4, <3>2, Zenon DEF six
  <2>7. CASE r \in T!MisconfigRules
    <3>1. PICK m \in {"any host", "any origin"} : \E v, e : r = rule(m, v, e) BY <2>2, <2>7, Zenon
    <3>2. r.mark = m BY <2>1, <3>1, Zenon
    <3> QED BY <2>3, <2>4, <3>2, Zenon DEF six
  <2> QED BY <2>3, <2>5, <2>6, <2>7, Zenon
<1>2. ~T!Placeholder(on.value) /\ ~T!LowEntropy(on.value) BY Zenon DEF T!Placeholder, T!LowEntropy
<1>3. ASSUME NEW r \in T!SecretRules, r.mark = on.mark
      PROVE  \E g \in T!ScanLine(file, text) : g.rule = on.mark
  <2> DEFINE g == [rule |-> r.mark, severity |-> r.severity, confidence |-> "confirmed"]
  <2>1. g \in T!Secrets(file, text) BY <1>2, <1>3, Zenon DEF T!Secrets
  <2>2. g.rule = on.mark BY <1>3
  <2> QED BY <2>1, <2>2, Zenon DEF T!ScanLine
<1>4. ASSUME NEW r, r \in T!SinkRules \/ r \in T!MisconfigRules, r.mark = on.mark,
             "*" \in r.languages \/ "python" \in r.languages
      PROVE  \E g \in T!ScanLine(file, text) : g.rule = on.mark
  <2> DEFINE g == [rule |-> r.mark, severity |-> r.severity, confidence |-> "probable"]
  <2>1. T!Language(file.suffix) = "python" BY Zenon DEF T!Language
  <2>2. {"*", T!Language(file.suffix)} \cap r.languages # {} BY <1>4, <2>1, Zenon
  <2>3. g \in T!Matched(T!SinkRules, file, text) \/ g \in T!Matched(T!MisconfigRules, file, text)
    BY <1>4, <2>2, Zenon DEF T!Matched
  <2>4. g.rule = on.mark BY <1>4
  <2> QED BY <2>3, <2>4, Zenon DEF T!ScanLine
<1>5. \A m \in {"key header", "assignment"} : \E r \in T!SecretRules : r.mark = m
  BY Zenon DEF T!SecretRules
<1>6. \A m \in {"shell call", "weak hash"} : \E r \in T!SinkRules : r.mark = m /\ "*" \in r.languages
  BY Zenon DEF T!SinkRules
<1>7. \A m \in {"any host", "any origin"} : \E r \in T!MisconfigRules :
         r.mark = m /\ ("*" \in r.languages \/ "python" \in r.languages)
  BY Zenon DEF T!MisconfigRules
<1> QED BY <1>1, <1>3, <1>4, <1>5, <1>6, <1>7, Zenon

\* A Python file of the tree is read, if there are not too many files.
LEMMA FileRead ==
    ASSUME T!IsProject(project), project.above = "home", Len(project.files) <= MaxFiles,
           NEW i \in DOMAIN project.files, project.files[i].directory = "src",
           project.files[i].suffix = ".py", ~project.files[i].large
    PROVE  i \in T!SourceFiles
<1> DEFINE n == Len(project.files)
           file == project.files[i]
           worth == {j \in DOMAIN project.files : T!Scannable(project.files[j])}
<1>1. n \in Nat /\ i \in 1 .. n BY DEF T!IsProject
<1>2. ~file.minified
  <2>1. file.minified => file.suffix = ".js" BY DEF T!IsProject
  <2> QED BY <2>1, Zenon
<1>3. T!Scannable(file)
  <2>1. {project.above, file.directory} \cap T!SkipDirectories = {}
    BY Zenon DEF T!SkipDirectories
  <2>2. file.suffix \notin T!SkipExtensions BY Zenon DEF T!SkipExtensions
  <2> QED BY <1>2, <2>1, <2>2, Zenon DEF T!Scannable
<1>4. i \in worth BY <1>3
<1> HIDE DEF worth
<1>5. Cardinality(worth \cap 1 .. i) <= MaxFiles
  <2>1. IsFiniteSet(1 .. i) /\ Cardinality(1 .. i) = i
    <3>1. 1 \in Int /\ i \in Int /\ i >= 1 BY <1>1
    <3>2. IsFiniteSet(1 .. i) /\ Cardinality(1 .. i) = IF 1 > i THEN 0 ELSE i - 1 + 1
      BY <3>1, FS_Interval
    <3> QED BY <3>1, <3>2
  <2>2. worth \cap 1 .. i \subseteq 1 .. i OBVIOUS
  <2>3. /\ IsFiniteSet(worth \cap 1 .. i)
        /\ Cardinality(worth \cap 1 .. i) <= Cardinality(1 .. i)
    BY <2>1, <2>2, FS_Subset
  <2>4. Cardinality(worth \cap 1 .. i) \in Nat BY <2>3, FS_CardinalityType
  <2>5. MaxFiles \in Nat BY CyberAssumption
  <2> QED BY <1>1, <2>1, <2>3, <2>4, <2>5
<1>6. T!Cardinality(worth \cap 1 .. i) = Cardinality(worth \cap 1 .. i)
  BY Zenon DEF T!Cardinality, Cardinality, T!IsFiniteSet, IsFiniteSet
<1> QED BY <1>4, <1>5, <1>6 DEF T!SourceFiles, worth

\* Whatever a rule matches on a line of Python is reported, whatever placeholders,
\* other matches and other files there are, in trees of any files the limit admits
\* (StaticAnalyzer._scan_file, iter_source_files).
THEOREM SastIsComplete == Spec => []SastFinds
<1>1. TreeInv => SastFinds
  <2> SUFFICES ASSUME TreeInv, command = "sast", report # None, project.above = "home",
                      Len(project.files) <= MaxFiles, NEW i \in DOMAIN project.files,
                      project.files[i].readable, ~project.files[i].large,
                      project.files[i].directory = "src", project.files[i].suffix = ".py",
                      NEW n \in DOMAIN project.files[i].lines,
                      NEW on \in project.files[i].lines[n], on.value = "genuine"
               PROVE  <<on.mark, project.files[i].name, n>> \in DOMAIN report
    BY DEF SastFinds
  <2> DEFINE file == project.files[i]
             finding(f) == [fingerprint |-> <<f.rule, file.name, n>>, severity |-> f.severity,
                            confidence |-> f.confidence, evidence |-> {"sast"}]
  <2>1. T!IsProject(project) BY CyberAssumption DEF TreeInv
  <2>2. i \in T!SourceFiles BY <2>1, FileRead
  <2>3. on.mark \in T!Marks BY <2>1 DEF T!IsProject
  <2>4. PICK f \in T!ScanLine(file, file.lines[n]) : f.rule = on.mark BY <2>3, LineSeen
  <2>5. finding(f) \in T!ScanFile(file)
    <3> DEFINE marked(m) == {[fingerprint |-> <<g.rule, file.name, m>>, severity |-> g.severity,
                               confidence |-> g.confidence, evidence |-> {"sast"}] :
                                 g \in T!ScanLine(file, file.lines[m])}
    <3>1. finding(f) \in marked(n) BY <2>4, Zenon
    <3>2. T!ScanFile(file) = UNION {marked(m) : m \in DOMAIN file.lines} BY Zenon DEF T!ScanFile
    <3> HIDE DEF marked, finding
    <3> QED BY <3>1, <3>2, Zenon
  <2>6. finding(f) \in Analysed
    <3> HIDE DEF finding
    <3> QED BY <2>2, <2>5 DEF Analysed
  <2>7. F!Fingerprint(finding(f)) = <<on.mark, file.name, n>> BY <2>4 DEF F!Fingerprint
  <2> HIDE DEF finding, file
  <2>8. <<on.mark, file.name, n>> \in Keys(Analysed) BY <2>6, <2>7 DEF Keys
  <2>9. Keys(Analysed) \subseteq DOMAIN report BY DEF TreeInv
  <2> QED BY <2>8, <2>9 DEF file
<1> QED BY <1>1, TreeKept, PTL

\* Both together: what audit and sast report of a source tree, whatever it declares
\* and holds (VulnerabilityAuditor.audit_dependencies, StaticAnalyzer.analyze).
THEOREM SourcesAreJudged == Spec => []SourcesJudged
<1>1. AuditExact /\ SastFinds => SourcesJudged BY DEF SourcesJudged
<1> QED BY <1>1, AuditIsExact, SastIsComplete, PTL


-----------------------------------------------------------------------------
(* What the checks make of the answers of a target that shows a weakness *)

\* A response to request from a place.
Answers(r, place, request) == \E n : r = S!Reply(place, request, n)

LEMMA AnswerShape ==
    ASSUME NEW r, NEW place, NEW request, Answers(r, place, request)
    PROVE  /\ r.error = FALSE /\ r.status = S!Status(place.traits, request)
           /\ \A t \in place.traits : S!Adds(t, request) \subseteq r.body
           /\ \A t \in place.traits : S!Sends(t, request) \subseteq r.header
           /\ \A word \in r.body : \E t \in place.traits : word \in S!Adds(t, request)
           /\ \A word \in r.header : \E t \in place.traits : word \in S!Sends(t, request)
           /\ r.page = IF \/ "sql blind" \in place.traits /\ request = "false"
                          \/ "open objects" \in place.traits /\ request = "neighbour"
                       THEN "other" ELSE "usual"
           /\ r.slow = (request = "sleep" /\ {"shell", "blind shell"} \cap place.traits # {})
<1>1. PICK n : r = S!Reply(place, request, n) BY DEF Answers
<1> DEFINE body == UNION {S!Adds(t, request) : t \in place.traits}
           header == UNION {S!Sends(t, request) : t \in place.traits}
<1>2. /\ r.error = FALSE /\ r.status = S!Status(place.traits, request)
      /\ r.body = body /\ r.header = header
  BY <1>1, Zenon DEF S!Reply
<1>3. r.page = IF \/ "sql blind" \in place.traits /\ request = "false"
                  \/ "open objects" \in place.traits /\ request = "neighbour"
               THEN "other" ELSE "usual"
  BY <1>1, Zenon DEF S!Reply
<1>4. r.slow = (request = "sleep" /\ {"shell", "blind shell"} \cap place.traits # {})
  BY <1>1, Zenon DEF S!Reply
<1>5. /\ \A t \in place.traits : S!Adds(t, request) \subseteq body
      /\ \A t \in place.traits : S!Sends(t, request) \subseteq header
      /\ \A word \in body : \E t \in place.traits : word \in S!Adds(t, request)
      /\ \A word \in header : \E t \in place.traits : word \in S!Sends(t, request)
  BY Zenon
<1> QED BY <1>2, <1>3, <1>4, <1>5, Zenon

\* The status of most responses.
Special == {"TRACE", "PROPFIND", "no such user", "host root"} \cup S!Paths

LEMMA StatusUsual ==
    ASSUME NEW traits, "missing" \notin traits, NEW request, request \notin Special
    PROVE  S!Status(traits, request) = 200
BY Zenon DEF S!Status, Special

LEMMA StatusOfPath ==
    ASSUME NEW traits, "missing" \notin traits, NEW request \in S!Paths,
           NEW t \in traits, S!Adds(t, request) # {}
    PROVE  S!Status(traits, request) = 200
<1>1. /\ request # "TRACE" /\ request # "PROPFIND" /\ request # "no such user"
      /\ request # "host root"
  BY Zenon DEF S!Paths
<1>2. ~(\A x \in traits : S!Adds(x, request) = {}) OBVIOUS
<1> QED BY <1>1, <1>2, Zenon DEF S!Status

LEMMA OkAnswers ==
    ASSUME NEW r, r.error = FALSE, r.status = 200 PROVE S!Ok(r)
<1>1. 200 \in 200 .. 399 OBVIOUS
<1> QED BY <1>1, Zenon DEF S!Ok

\* The responses h are those of a place to the requests of a script, as far as they go.
Scripted(script, place, h) ==
    /\ Len(h) <= Len(script)
    /\ \E R : h \in Seq(R)
    /\ \A i \in 1 .. Len(h) : Answers(h[i], place, script[i])

LEMMA ScriptedShape ==
    ASSUME NEW script, Len(script) \in Nat, NEW place, NEW h, Scripted(script, place, h)
    PROVE  /\ Len(h) \in Nat /\ (Len(h) = 0 <=> h = <<>>)
           /\ \A i \in 1 .. Len(h) : Answers(h[i], place, script[i])
           /\ ~(Len(h) < Len(script)) => Len(h) = Len(script)
           /\ h # <<>> => S!Last(h) = h[Len(h)]
<1>1. PICK R : h \in Seq(R) BY DEF Scripted
<1>2. Len(h) \in Nat /\ (Len(h) = 0 <=> h = <<>>) BY <1>1
<1>3. ~(Len(h) < Len(script)) => Len(h) = Len(script) BY <1>2 DEF Scripted
<1>4. S!Last(h) = h[Len(h)] BY DEF S!Last
<1> QED BY <1>2, <1>3, <1>4 DEF Scripted

\* At the end of a script the last response is the answer to its last request.
LEMMA LastAnswers ==
    ASSUME NEW script, Len(script) \in Nat \ {0}, NEW place, NEW h, Scripted(script, place, h),
           ~(Len(h) < Len(script))
    PROVE  h # <<>> /\ Answers(S!Last(h), place, script[Len(script)])
<1>1. /\ Len(h) = Len(script) /\ (Len(h) = 0 <=> h = <<>>) /\ (h # <<>> => S!Last(h) = h[Len(h)])
      /\ \A i \in 1 .. Len(h) : Answers(h[i], place, script[i])
  BY ScriptedShape
<1>2. h # <<>> /\ Len(h) \in 1 .. Len(h) BY <1>1
<1> QED BY <1>1, <1>2

\* The check each title is from.
Owner(title) ==
    CASE title = "sql" -> "sql-injection"
      [] title = "xss" -> "reflected-xss"
      [] title = "template" -> "template-injection"
      [] title = "traversal" -> "path-traversal"
      [] title = "command" -> "command-injection"
      [] title = "nosql" -> "nosql-injection"
      [] title = "xxe" -> "xxe"
      [] title \in {"loopback", "link-local", "reserved-tld", "file-scheme"} -> "ssrf"
      [] title = "idor" -> "idor"
      [] title \in {"TRACE", "PROPFIND", "PUT"} -> "dangerous-methods"
      [] title = "redirect" -> "open-redirect"
      [] title \in {"no HTTPS", "no HSTS", "HSTS max-age"} -> "transport-security"
      [] title \in {"/.env", "/config.json"} -> "sensitive-files"
      [] title \in {"/", "/uploads/"} -> "directory-listing"
      [] title = "stack trace" -> "verbose-errors"
      [] title \in {"any origin", "origin reflected"} -> "cors-misconfiguration"
      [] title \in {"/admin", "/console"} -> "admin-surface"
      [] title = "graphql" -> "graphql-introspection"
      [] title \in {"csp", "hsts", "server"} -> "security-headers"
      [] title = "cookie" -> "cookie-flags"
      [] title \in {"alg none", "no expiry", "personal data", "short session", "token in URL"} -> "token-audit"
      [] title = "crlf" -> "crlf-injection"
      [] title = "host" -> "host-header-injection"
      [] title = "takeover" -> "subdomain-takeover"
      [] title = "listing" -> "cloud-storage"

\* Check c goes on with its script, or it is done with the place and what it reports is
\* its own: something, if it must.
Runs(c, outcome, script, h, must) ==
    \/ Len(h) < Len(script) /\ outcome.ask = script[Len(h) + 1]
    \/ /\ outcome.ask = "none"
       /\ \A f \in outcome.report : Owner(f.title) = c
       /\ must => outcome.report # {}

LEMMA RunsForms ==
    ASSUME NEW c, NEW script, NEW h, NEW must
    PROVE  /\ Len(h) < Len(script) => Runs(c, S!Ask(script[Len(h) + 1]), script, h, must)
           /\ \A found : (\A f \in found : Owner(f.title) = c) /\ (must => found # {})
                            => Runs(c, S!Report(found), script, h, must)
           /\ ~must => Runs(c, S!Nothing, script, h, must)
<1>1. S!Ask(script[Len(h) + 1]).ask = script[Len(h) + 1] BY Zenon DEF S!Ask
<1>2. \A found : S!Report(found).ask = "none" /\ S!Report(found).report = found BY Zenon DEF S!Report
<1>3. S!Nothing.ask = "none" /\ S!Nothing.report = {} BY Zenon DEF S!Nothing, S!Report
<1> QED BY <1>1, <1>2, <1>3, Zenon DEF Runs

LEMMA OneReported ==
    ASSUME NEW c, NEW script, NEW h, NEW must, NEW title, NEW severity, NEW confidence,
           Owner(title) = c
    PROVE  Runs(c, S!Report({S!Finding(title, severity, confidence)}), script, h, must)
<1> DEFINE found == {S!Finding(title, severity, confidence)}
<1>1. S!Finding(title, severity, confidence).title = title BY Zenon DEF S!Finding
<1>2. (\A f \in found : Owner(f.title) = c) /\ found # {} BY <1>1, Zenon
<1> HIDE DEF found
<1>3. Runs(c, S!Report(found), script, h, must) BY <1>2, RunsForms, Zenon
<1> QED BY <1>3 DEF found

LEMMA OwnersOne ==
    /\ Owner("sql") = "sql-injection" /\ Owner("xss") = "reflected-xss"
    /\ Owner("template") = "template-injection" /\ Owner("traversal") = "path-traversal"
    /\ Owner("command") = "command-injection" /\ Owner("nosql") = "nosql-injection"
    /\ Owner("xxe") = "xxe"
<1>1. Owner("sql") = "sql-injection" BY Zenon DEF Owner
<1>2. Owner("xss") = "reflected-xss" BY Zenon DEF Owner
<1>3. Owner("template") = "template-injection" BY Zenon DEF Owner
<1>4. Owner("traversal") = "path-traversal" BY Zenon DEF Owner
<1>5. Owner("command") = "command-injection" BY Zenon DEF Owner
<1>6. Owner("nosql") = "nosql-injection" BY Zenon DEF Owner
<1>7. Owner("xxe") = "xxe" BY Zenon DEF Owner
<1> QED BY <1>1, <1>2, <1>3, <1>4, <1>5, <1>6, <1>7

LEMMA OkUsual ==
    ASSUME NEW r, NEW place, "missing" \notin place.traits, NEW request, request \notin Special,
           Answers(r, place, request)
    PROVE  S!Ok(r) /\ r.error = FALSE /\ r.status = 200
<1>1. r.error = FALSE /\ r.status = S!Status(place.traits, request) BY AnswerShape
<1> DEFINE traits == place.traits
<1> HIDE DEF traits
<1>2. "missing" \notin traits BY DEF traits
<1>3. S!Status(traits, request) = 200 BY <1>2, StatusUsual
<1> QED BY <1>1, <1>3, OkAnswers DEF traits

LEMMA TupleOne ==
    ASSUME NEW a PROVE Len(<<a>>) = 1 /\ Len(<<a>>) \in Nat \ {0} /\ <<a>>[Len(<<a>>)] = a
OBVIOUS

LEMMA TupleTwo ==
    ASSUME NEW a, NEW b
    PROVE  /\ Len(<<a, b>>) = 2 /\ Len(<<a, b>>) \in Nat \ {0} /\ <<a, b>>[Len(<<a, b>>)] = b
           /\ <<a, b>>[1] = a /\ <<a, b>>[2] = b
OBVIOUS

\* How far a history of at most four responses goes.
LEMMA UpToFour ==
    ASSUME NEW n \in Nat
    PROVE  /\ n < 4 => n = 0 \/ n = 1 \/ n = 2 \/ n = 3
           /\ n < 1 => n = 0
           /\ n = 0 => n < 4 /\ n < 3 /\ n < 2 /\ n <= 2 /\ n + 1 = 1
           /\ n = 1 => n # 0 /\ n < 4 /\ n < 3 /\ n < 2 /\ n <= 2 /\ n + 1 = 2
           /\ n = 2 => n # 0 /\ n # 1 /\ n < 4 /\ n < 3 /\ ~(n < 2) /\ n <= 2 /\ n + 1 = 3
           /\ n = 3 => n # 0 /\ n # 1 /\ n # 2 /\ n < 4 /\ ~(n < 3) /\ ~(n < 2) /\ ~(n <= 2) /\ n = 2 + 1 /\ n + 1 = 4
           /\ n = 4 => n # 0 /\ n # 1 /\ n # 2 /\ n # 3 /\ ~(n < 4) /\ ~(n <= 2) /\ n # 2 + 1 /\ n - 1 = 3
           /\ 1 \in 1 .. 2 /\ 2 \in 1 .. 2
           /\ n >= 2 => 2 \in 1 .. n
           /\ n = 3 => 1 \in 1 .. n /\ 2 \in 1 .. n /\ 3 \in 1 .. n
           /\ n = 2 => 1 \in 1 .. n /\ 2 \in 1 .. n
           /\ n = 4 => 1 \in 1 .. n /\ 2 \in 1 .. n /\ 3 \in 1 .. n /\ 4 \in 1 .. n
           /\ n # 0 => 1 \in 1 .. n
OBVIOUS

LEMMA UpToTwo == ASSUME NEW n \in Nat PROVE n < 2 => n = 0 \/ n = 1
OBVIOUS

LEMMA OneMore ==
    ASSUME NEW n \in Nat, NEW m \in Nat, m = n + 1, ~(m < 3) => m = 3
    PROVE  (m = 1 \/ m = 2 \/ m = 3) /\ (m = 1 <=> n = 0) /\ (m = 2 <=> n = 1) /\ (m = 3 <=> n = 2)
OBVIOUS

LEMMA AsksNext ==
    ASSUME NEW c, NEW script, NEW h, NEW must, NEW request, NEW k,
           Len(h) < Len(script), Len(h) + 1 = k, script[k] = request
    PROVE  Runs(c, S!Ask(request), script, h, must)
BY RunsForms, Zenon

\* The requests in order, up to the first that hits.
LEMMA HitRuns ==
    ASSUME NEW c, NEW script, NEW h, NEW must, NEW title, NEW severity, NEW confidence,
           Owner(title) = c, NEW hit, NEW outcome,
           outcome = IF hit THEN S!Report({S!Finding(title, severity, confidence)})
                     ELSE IF Len(h) < Len(script) THEN S!Ask(script[Len(h) + 1])
                     ELSE S!Nothing,
           must /\ ~(Len(h) < Len(script)) => hit
    PROVE  Runs(c, outcome, script, h, must)
<1>1. CASE hit BY <1>1, OneReported, Zenon
<1>2. CASE ~hit /\ Len(h) < Len(script) BY <1>2, RunsForms, Zenon
<1>3. CASE ~hit /\ ~(Len(h) < Len(script)) BY <1>3, RunsForms, Zenon
<1> QED BY <1>1, <1>2, <1>3

LEMMA XSSRuns ==
    ASSUME NEW place, NEW h, Scripted(<<"script">>, place, h), NEW must,
           must => /\ "echoes" \in place.traits
                   /\ "missing" \notin place.traits /\ "json" \notin place.traits
                   /\ "escapes" \notin place.traits
    PROVE  Runs("reflected-xss", S!XSS(h), <<"script">>, h, must)
<1> DEFINE r == S!Last(h)
           hit == h # <<>> /\ S!Ok(r) /\ "marker" \in r.body /\ "json" \notin r.header
                  /\ "entity" \notin r.body
           script == <<"script">>
<1>1. ASSUME must, ~(Len(h) < Len(script)) PROVE hit
  <2>1. h # <<>> /\ Answers(r, place, "script") BY <1>1, TupleOne, LastAnswers
  <2>2. S!Ok(r)
    <3>1. "script" \notin Special BY Zenon DEF Special, S!Paths
    <3> QED BY <1>1, <2>1, <3>1, OkUsual
  <2>3. "marker" \in r.body
    <3>1. "marker" \in S!Adds("echoes", "script") BY Zenon DEF S!Adds, S!Text
    <3> QED BY <1>1, <2>1, <3>1, AnswerShape, Zenon
  <2>4. "json" \notin r.header
    <3>1. \A t : "json" \in S!Sends(t, "script") => t = "json" BY Zenon DEF S!Sends
    <3> QED BY <1>1, <2>1, <3>1, AnswerShape, Zenon
  <2>5. "entity" \notin r.body
    <3>1. \A t : "entity" \in S!Adds(t, "script") => t = "escapes" BY Zenon DEF S!Adds, S!Text
    <3> QED BY <1>1, <2>1, <3>1, AnswerShape, Zenon
  <2> QED BY <2>1, <2>2, <2>3, <2>4, <2>5
<1>2. S!XSS(h) = IF hit THEN S!Report({S!Finding("xss", "high", "confirmed")})
                 ELSE IF Len(h) < Len(script) THEN S!Ask(script[Len(h) + 1])
                 ELSE S!Nothing
  BY Zenon DEF S!XSS, S!UpToHit
<1> HIDE DEF script, hit
<1>3. Runs("reflected-xss", S!XSS(h), script, h, must) BY <1>1, <1>2, HitRuns, OwnersOne, Zenon
<1> QED BY <1>3 DEF script

LEMMA TemplateRuns ==
    ASSUME NEW place, NEW h, Scripted(<<"engine A", "engine B">>, place, h), NEW must,
           must => "evaluates" \in place.traits /\ "missing" \notin place.traits
    PROVE  Runs("template-injection", S!TemplateInjection(h), <<"engine A", "engine B">>, h, must)
<1> DEFINE r == S!Last(h)
           hit == h # <<>> /\ S!Ok(r) /\ {"marker", "product"} \subseteq r.body
           script == <<"engine A", "engine B">>
<1>1. ASSUME must, ~(Len(h) < Len(script)) PROVE hit
  <2>1. h # <<>> /\ Answers(r, place, "engine B") BY <1>1, TupleTwo, LastAnswers
  <2>2. "engine B" \notin Special BY Zenon DEF Special, S!Paths
  <2>3. S!Ok(r) BY <1>1, <2>1, <2>2, OkUsual
  <2>4. {"marker", "product"} \subseteq S!Adds("evaluates", "engine B") BY Zenon DEF S!Adds
  <2>5. S!Adds("evaluates", "engine B") \subseteq r.body BY <1>1, <2>1, AnswerShape
  <2> QED BY <2>1, <2>3, <2>4, <2>5, Zenon
<1>2. S!TemplateInjection(h) =
         IF hit THEN S!Report({S!Finding("template", "critical", "confirmed")})
         ELSE IF Len(h) < Len(script) THEN S!Ask(script[Len(h) + 1])
         ELSE S!Nothing
  BY Zenon DEF S!TemplateInjection, S!UpToHit
<1> HIDE DEF script, hit
<1>3. Runs("template-injection", S!TemplateInjection(h), script, h, must)
  BY <1>1, <1>2, HitRuns, OwnersOne, Zenon
<1> QED BY <1>3 DEF script

\* A page that reads files shows it on the first request.
PathScript(place) ==
    IF "reads files" \in place.traits /\ "missing" \notin place.traits THEN <<"unix file">>
    ELSE <<"unix file", "windows file">>

LEMMA PathRuns ==
    ASSUME NEW place, NEW h, Scripted(PathScript(place), place, h), NEW must,
           must => "reads files" \in place.traits /\ "missing" \notin place.traits
    PROVE  Runs("path-traversal", S!PathTraversal(h), PathScript(place), h, must)
<1> DEFINE r == S!Last(h)
           hit == h # <<>> /\ S!Ok(r) /\ "unix file read" \in r.body
           one == <<"unix file">>
           both == <<"unix file", "windows file">>
           reads == "reads files" \in place.traits /\ "missing" \notin place.traits
<1>1. S!PathTraversal(h) =
         IF hit THEN S!Report({S!Finding("traversal", "high", "confirmed")})
         ELSE IF Len(h) < Len(both) THEN S!Ask(both[Len(h) + 1])
         ELSE S!Nothing
  BY Zenon DEF S!PathTraversal, S!UpToHit
<1>2. CASE reads
  <2>1. PathScript(place) = one BY <1>2, Zenon DEF PathScript
  <2>2. Scripted(one, place, h) BY <2>1
  <2>3. ASSUME ~(Len(h) < Len(one)) PROVE hit
    <3>1. h # <<>> /\ Answers(r, place, "unix file") BY <2>2, <2>3, TupleOne, LastAnswers
    <3>2. "unix file" \notin Special BY Zenon DEF Special, S!Paths
    <3>3. S!Ok(r) BY <1>2, <3>1, <3>2, OkUsual
    <3>4. "unix file read" \in S!Adds("reads files", "unix file") BY Zenon DEF S!Adds
    <3>5. S!Adds("reads files", "unix file") \subseteq r.body BY <1>2, <3>1, AnswerShape
    <3> QED BY <3>1, <3>3, <3>4, <3>5, Zenon
  <2>4. CASE hit
    <3>1. S!PathTraversal(h) = S!Report({S!Finding("traversal", "high", "confirmed")})
      BY <1>1, <2>4, Zenon
    <3>2. Runs("path-traversal", S!Report({S!Finding("traversal", "high", "confirmed")}),
               PathScript(place), h, must)
      BY OneReported, OwnersOne
    <3> QED BY <3>1, <3>2
  <2>5. CASE ~hit
    <3>1. Len(h) < Len(one) BY <2>3, <2>5
    <3>2. Len(h) \in Nat BY <2>2, TupleOne, ScriptedShape
    <3>3. Len(one) = 1 /\ Len(both) = 2 /\ both[1] = "unix file" /\ one[1] = "unix file"
      BY TupleOne, TupleTwo, Zenon
    <3> HIDE DEF one, both, hit
    <3>4. Len(h) < 1 BY <3>1, <3>3, Zenon
    <3>8. Len(h) = 0 BY <3>2, <3>4, UpToFour, Zenon
    <3>5. Len(h) < Len(both) /\ Len(h) + 1 = 1 BY <3>2, <3>3, <3>8, UpToFour, Zenon
    <3>6. S!PathTraversal(h) = S!Ask("unix file") BY <1>1, <2>5, <3>3, <3>5, Zenon
    <3>7. Runs("path-traversal", S!Ask("unix file"), one, h, must) BY <3>1, <3>3, <3>5, AsksNext, Zenon
    <3> QED BY <2>1, <3>6, <3>7
  <2> QED BY <2>1, <2>4, <2>5
<1>3. CASE ~reads
  <2>1. PathScript(place) = both BY <1>3, Zenon DEF PathScript
  <2> HIDE DEF both, hit
  <2>2. Runs("path-traversal", S!PathTraversal(h), both, h, must)
    BY <1>1, <1>3, HitRuns, OwnersOne, Zenon
  <2> QED BY <2>1, <2>2
<1> QED BY <1>2, <1>3

LEMMA TupleFour ==
    ASSUME NEW a, NEW b, NEW d, NEW e
    PROVE  /\ Len(<<a, b, d, e>>) = 4 /\ Len(<<a, b, d, e>>) \in Nat \ {0}
           /\ <<a, b, d, e>>[1] = a /\ <<a, b, d, e>>[2] = b
           /\ <<a, b, d, e>>[3] = d /\ <<a, b, d, e>>[4] = e
OBVIOUS

\* The probe that decides at the end of a script.
LEMMA WhenRuns ==
    ASSUME NEW c, NEW script, NEW h, NEW must, NEW title, NEW severity, NEW confidence,
           Owner(title) = c, NEW shown, must => shown
    PROVE  Runs(c, S!Report(S!When(shown, S!Finding(title, severity, confidence))), script, h, must)
<1>1. CASE shown
  <2>1. S!When(shown, S!Finding(title, severity, confidence)) = {S!Finding(title, severity, confidence)}
    BY <1>1, Zenon DEF S!When
  <2> QED BY <2>1, OneReported
<1>2. CASE ~shown
  <2>1. S!When(shown, S!Finding(title, severity, confidence)) = {} BY <1>2, Zenon DEF S!When
  <2> QED BY <1>2, <2>1, RunsForms
<1> QED BY <1>1, <1>2

LEMMA SQLRuns ==
    ASSUME NEW place, NEW h, Scripted(<<"original", "quote", "true", "false">>, place, h), NEW must,
           must => /\ "sql error" \in place.traits \/ "sql blind" \in place.traits
                   /\ "missing" \notin place.traits
    PROVE  Runs("sql-injection", S!SQLInjection(h), <<"original", "quote", "true", "false">>, h, must)
<1> DEFINE script == <<"original", "quote", "true", "false">>
           signature == \E i \in 1 .. 2 : "dbError" \in h[i].body
           differs == S!Differs(h[3], h[4], h[1])
<1>1. /\ Len(script) = 4 /\ Len(script) \in Nat /\ script[1] = "original" /\ script[2] = "quote"
      /\ script[3] = "true" /\ script[4] = "false"
  BY TupleFour, Zenon
<1> HIDE DEF script
<1>2. /\ Len(h) \in Nat /\ (\A i \in 1 .. Len(h) : Answers(h[i], place, script[i]))
      /\ (~(Len(h) < 4) => Len(h) = 4)
  BY <1>1, ScriptedShape DEF script
<1> SUFFICES Runs("sql-injection", S!SQLInjection(h), script, h, must) BY DEF script
<1>4. CASE Len(h) = 0
  <2>1. S!SQLInjection(h) = S!Ask("original") BY <1>4, Zenon DEF S!SQLInjection
  <2>2. Len(h) < Len(script) /\ Len(h) + 1 = 1 /\ script[1] = "original" BY <1>1, <1>2, <1>4, UpToFour, Zenon
  <2> QED BY <2>1, <2>2, AsksNext, Zenon
<1>5. CASE Len(h) # 0 /\ ~S!Ok(h[1])
  <2>1. S!SQLInjection(h) = S!Nothing BY <1>5, Zenon DEF S!SQLInjection
  <2>2. ASSUME must PROVE FALSE
    <3>1. Answers(h[1], place, "original") BY <1>1, <1>2, <1>5, UpToFour
    <3>2. "original" \notin Special BY Zenon DEF Special, S!Paths
    <3>3. "missing" \notin place.traits BY <2>2
    <3>4. S!Ok(h[1]) BY <3>1, <3>2, <3>3, OkUsual, ZenonT(60)
    <3> QED BY <1>5, <3>4
  <2> QED BY <2>1, <2>2, RunsForms
<1>6. CASE Len(h) = 1 /\ S!Ok(h[1])
  <2>1. S!SQLInjection(h) = S!Ask("quote") BY <1>2, <1>6, UpToFour, Zenon DEF S!SQLInjection
  <2>2. Len(h) < Len(script) /\ Len(h) + 1 = 2 /\ script[2] = "quote" BY <1>1, <1>2, <1>6, UpToFour, Zenon
  <2> QED BY <2>1, <2>2, AsksNext, Zenon
<1>7. CASE Len(h) # 0 /\ Len(h) # 1 /\ S!Ok(h[1]) /\ signature
  <2>1. S!SQLInjection(h) = S!Report({S!Finding("sql", "high", "confirmed")})
    BY <1>7, Zenon DEF S!SQLInjection
  <2>2. Runs("sql-injection", S!Report({S!Finding("sql", "high", "confirmed")}), script, h, must)
    BY OneReported, OwnersOne
  <2> QED BY <2>1, <2>2, Zenon
<1>8. CASE Len(h) = 2 /\ S!Ok(h[1]) /\ ~signature
  <2>1. S!SQLInjection(h) = S!Ask("true") BY <1>2, <1>8, UpToFour, Zenon DEF S!SQLInjection
  <2>2. Len(h) < Len(script) /\ Len(h) + 1 = 3 /\ script[3] = "true" BY <1>1, <1>2, <1>8, UpToFour, Zenon
  <2> QED BY <2>1, <2>2, AsksNext, Zenon
<1>9. CASE Len(h) = 3 /\ S!Ok(h[1]) /\ ~signature
  <2>1. S!SQLInjection(h) = S!Ask("false") BY <1>2, <1>9, UpToFour, Zenon DEF S!SQLInjection
  <2>2. Len(h) < Len(script) /\ Len(h) + 1 = 4 /\ script[4] = "false" BY <1>1, <1>2, <1>9, UpToFour, Zenon
  <2> QED BY <2>1, <2>2, AsksNext, Zenon
<1>10. CASE Len(h) = 4 /\ S!Ok(h[1]) /\ ~signature
  <2>1. S!SQLInjection(h) = S!Report(S!When(differs, S!Finding("sql", "high", "probable")))
    BY <1>2, <1>10, UpToFour, Zenon DEF S!SQLInjection
  <2>2. /\ Answers(h[1], place, "original") /\ Answers(h[2], place, "quote")
        /\ Answers(h[3], place, "true") /\ Answers(h[4], place, "false")
    BY <1>1, <1>2, <1>10, UpToFour
  <2>3. "sql error" \notin place.traits
    <3>1. "dbError" \in S!Adds("sql error", "quote") BY Zenon DEF S!Adds
    <3>2. "dbError" \notin h[2].body BY <1>2, <1>10, UpToFour
    <3> QED BY <2>2, <3>1, <3>2, AnswerShape, Zenon
  <2>4. ASSUME must PROVE differs
    <3>1. "sql blind" \in place.traits BY <2>3, <2>4
    <3>2. h[4].page = "other"
      <4>1. "false" = "false" OBVIOUS
      <4> QED BY <2>2, <3>1, AnswerShape, Zenon
    <3>3. h[3].page = "usual" /\ h[1].page = "usual"
      <4>1. "true" # "false" /\ "true" # "neighbour" /\ "original" # "false" /\ "original" # "neighbour"
        BY Zenon
      <4> QED BY <2>2, <4>1, AnswerShape, Zenon
    <3>4. h[3].error = FALSE /\ h[4].error = FALSE BY <2>2, AnswerShape
    <3>5. "other" # "usual" BY Zenon
    <3>6. S!Normalised(h[3]) # S!Normalised(h[4]) BY <3>2, <3>3, <3>5, Zenon DEF S!Normalised
    <3>7. S!Raw(h[3]) # S!Raw(h[4]) BY <3>2, <3>3, <3>5, Zenon DEF S!Raw
    <3>8. S!Raw(h[4]) # S!Raw(h[1]) BY <3>2, <3>3, <3>5, Zenon DEF S!Raw
    <3> QED BY <3>4, <3>6, <3>7, <3>8, Zenon DEF S!Differs
  <2> HIDE DEF differs
  <2> QED BY <2>1, <2>4, WhenRuns, OwnersOne
<1>11. Len(h) = 0 \/ Len(h) = 1 \/ Len(h) = 2 \/ Len(h) = 3 \/ Len(h) = 4 BY <1>2, UpToFour
<1>12. Len(h) = 2 \/ Len(h) = 3 \/ Len(h) = 4 => Len(h) # 0 /\ Len(h) # 1 BY <1>2, UpToFour
<1> QED BY <1>4, <1>5, <1>6, <1>7, <1>8, <1>9, <1>10, <1>11, <1>12

LEMMA CommandRuns ==
    ASSUME NEW place, NEW h, Scripted(<<"echo A", "echo B", "echo again", "sleep">>, place, h),
           NEW n, NEW found, NEW must,
           must => /\ \/ "shell" \in place.traits
                      \/ "blind shell" \in place.traits /\ found = {} /\ n <= TimingLimit
                   /\ "missing" \notin place.traits
    PROVE  Runs("command-injection", S!CommandInjection(h, n, found),
                <<"echo A", "echo B", "echo again", "sleep">>, h, must)
<1> DEFINE script == <<"echo A", "echo B", "echo again", "sleep">>
           echoes == <<"echo A", "echo B">>
           r == S!Last(h)
           hit == h # <<>> /\ (S!Ok(r) /\ "marker" \in r.body)
           first == found = {} /\ n <= TimingLimit
           fast == h[Len(h) - 1]
           shown == ~fast.error /\ ~r.error /\ r.slow /\ ~fast.slow
           finding == S!Finding("command", "critical", "confirmed")
<1>1. /\ Len(script) = 4 /\ Len(script) \in Nat /\ script[1] = "echo A" /\ script[2] = "echo B"
      /\ script[3] = "echo again" /\ script[4] = "sleep"
      /\ Len(echoes) = 2 /\ echoes[1] = "echo A" /\ echoes[2] = "echo B"
  BY TupleTwo, TupleFour, Zenon
<1>2. S!CommandInjection(h, n, found) =
         IF Len(h) <= Len(echoes)
         THEN IF hit THEN S!Report({finding})
              ELSE IF Len(h) < Len(echoes) THEN S!Ask(echoes[Len(h) + 1])
              ELSE IF first THEN S!Ask("echo again")
              ELSE S!Nothing
         ELSE IF Len(h) = Len(echoes) + 1 THEN S!Ask("sleep")
         ELSE S!Report(S!When(shown, finding))
  BY Zenon DEF S!CommandInjection
<1> HIDE DEF script, echoes
<1> SUFFICES Runs("command-injection", S!CommandInjection(h, n, found), script, h, must)
  BY DEF script
<1>3. /\ Len(h) \in Nat /\ (\A i \in 1 .. Len(h) : Answers(h[i], place, script[i]))
      /\ (~(Len(h) < 4) => Len(h) = 4)
      /\ h # <<>> => r = h[Len(h)]
      /\ Len(h) = 0 <=> h = <<>>
  BY <1>1, ScriptedShape DEF script
<1>4. CASE Len(h) <= 2 /\ hit
  <2>1. S!CommandInjection(h, n, found) = S!Report({finding}) BY <1>1, <1>2, <1>4, Zenon
  <2>2. Runs("command-injection", S!Report({finding}), script, h, must) BY OneReported, OwnersOne
  <2> QED BY <2>1, <2>2
<1>5. CASE Len(h) = 0 /\ ~hit
  <2>1. Len(h) < 4 /\ Len(h) < 2 /\ Len(h) <= 2 /\ Len(h) + 1 = 1 BY <1>3, <1>5, UpToFour, Zenon
  <2> HIDE DEF hit
  <2>2. S!CommandInjection(h, n, found) = S!Ask(script[1]) BY <1>1, <1>2, <1>5, <2>1, Zenon
  <2> QED BY <1>1, <2>1, <2>2, AsksNext, Zenon
<1>6. CASE Len(h) = 1 /\ ~hit
  <2>1. Len(h) < 4 /\ Len(h) < 2 /\ Len(h) <= 2 /\ Len(h) + 1 = 2 BY <1>3, <1>6, UpToFour, Zenon
  <2> HIDE DEF hit
  <2>2. S!CommandInjection(h, n, found) = S!Ask(script[2]) BY <1>1, <1>2, <1>6, <2>1, Zenon
  <2> QED BY <1>1, <2>1, <2>2, AsksNext, Zenon
<1>7. CASE Len(h) = 2 /\ ~hit /\ first
  <2>1. Len(h) < 4 /\ ~(Len(h) < 2) /\ Len(h) <= 2 /\ Len(h) + 1 = 3 BY <1>3, <1>7, UpToFour, Zenon
  <2> HIDE DEF hit, first
  <2>2. S!CommandInjection(h, n, found) = S!Ask(script[3]) BY <1>1, <1>2, <1>7, <2>1, Zenon
  <2> QED BY <1>1, <2>1, <2>2, AsksNext, Zenon
<1>8. CASE Len(h) = 2 /\ ~hit /\ ~first
  <2>1. ~(Len(h) < 2) /\ Len(h) <= 2 BY <1>3, <1>8, UpToFour, Zenon
  <2>2. ASSUME must PROVE FALSE
    <3>1. "shell" \in place.traits /\ "missing" \notin place.traits BY <1>8, <2>2
    <3>2. h # <<>> /\ Answers(r, place, "echo B")
      <4>1. h # <<>> /\ r = h[2] BY <1>3, <1>8, UpToFour
      <4>2. Answers(h[2], place, "echo B")
        <5>1. 2 \in 1 .. Len(h) BY <1>3, <1>8, UpToFour
        <5> QED BY <1>1, <1>3, <5>1
      <4> QED BY <4>1, <4>2
    <3>3. "echo B" \notin Special BY Zenon DEF Special, S!Paths
    <3>4. S!Ok(r) BY <3>1, <3>2, <3>3, OkUsual
    <3>5. "marker" \in S!Adds("shell", "echo B") BY Zenon DEF S!Adds
    <3>6. S!Adds("shell", "echo B") \subseteq r.body BY <3>1, <3>2, AnswerShape
    <3>7. "marker" \in r.body BY <3>5, <3>6, Zenon
    <3> QED BY <1>8, <3>2, <3>4, <3>7, Zenon
  <2> HIDE DEF hit, first
  <2>3. S!CommandInjection(h, n, found) = S!Nothing BY <1>1, <1>2, <1>8, <2>1, Zenon
  <2> QED BY <2>2, <2>3, RunsForms, Zenon
<1>9. CASE Len(h) = 3
  <2>1. Len(h) < 4 /\ ~(Len(h) <= 2) /\ Len(h) = 2 + 1 /\ Len(h) + 1 = 4 BY <1>3, <1>9, UpToFour, Zenon
  <2>2. S!CommandInjection(h, n, found) = S!Ask(script[4]) BY <1>1, <1>2, <1>9, <2>1, Zenon
  <2> QED BY <1>1, <2>1, <2>2, AsksNext, Zenon
<1>10. CASE Len(h) = 4
  <2>1. ~(Len(h) <= 2) /\ Len(h) # 2 + 1 /\ Len(h) - 1 = 3 BY <1>3, <1>10, UpToFour, Zenon
  <2>2. ASSUME must PROVE shown
    <3>1. {"shell", "blind shell"} \cap place.traits # {} BY <2>2, Zenon
    <3>2. Answers(fast, place, "echo again")
      <4>1. 3 \in 1 .. Len(h) BY <1>3, <1>10, UpToFour
      <4> QED BY <1>1, <1>3, <2>1, <4>1
    <3>3. Answers(r, place, "sleep")
      <4>1. 4 \in 1 .. Len(h) BY <1>3, <1>10, UpToFour
      <4>2. r = h[4] BY <1>3, <1>10, UpToFour
      <4> QED BY <1>1, <1>3, <4>1, <4>2
    <3>4. "echo again" # "sleep" BY Zenon
    <3>5. fast.error = FALSE /\ r.error = FALSE BY <3>2, <3>3, AnswerShape
    <3>6. r.slow BY <3>1, <3>3, AnswerShape, Zenon
    <3>7. ~fast.slow BY <3>2, <3>4, AnswerShape, Zenon
    <3> QED BY <3>5, <3>6, <3>7, Zenon
  <2> HIDE DEF shown
  <2>3. S!CommandInjection(h, n, found) = S!Report(S!When(shown, finding))
    BY <1>1, <1>2, <2>1, Zenon
  <2>4. Runs("command-injection", S!Report(S!When(shown, finding)), script, h, must)
    BY <2>2, WhenRuns, OwnersOne
  <2> QED BY <2>3, <2>4
<1>11. Len(h) = 0 \/ Len(h) = 1 \/ Len(h) = 2 \/ Len(h) = 3 \/ Len(h) = 4 BY <1>3, UpToFour
<1>12. Len(h) = 0 \/ Len(h) = 1 \/ Len(h) = 2 => Len(h) <= 2 BY <1>3, UpToFour, Zenon
<1> HIDE DEF hit, first
<1> QED BY <1>4, <1>5, <1>6, <1>7, <1>8, <1>9, <1>10, <1>11, <1>12

LEMMA TupleThree ==
    ASSUME NEW a, NEW b, NEW d
    PROVE  /\ Len(<<a, b, d>>) = 3 /\ Len(<<a, b, d>>) \in Nat \ {0}
           /\ <<a, b, d>>[1] = a /\ <<a, b, d>>[2] = b /\ <<a, b, d>>[3] = d
OBVIOUS

LEMMA EmptyIsShort ==
    ASSUME NEW R, NEW s \in Seq(R) PROVE s = <<>> <=> Len(s) = 0
OBVIOUS

LEMMA TailShape ==
    ASSUME NEW h, \E R : h \in Seq(R), Len(h) # 0
    PROVE  /\ Len(Tail(h)) \in Nat /\ Len(h) = Len(Tail(h)) + 1
           /\ \A i \in 1 .. Len(Tail(h)) : Tail(h)[i] = h[i + 1]
           /\ Tail(h) # <<>> => S!Last(Tail(h)) = h[Len(h)]
           /\ Tail(h) = <<>> <=> Len(h) = 1
           /\ Len(Tail(h)) < 2 <=> Len(h) < 3
           /\ Len(Tail(h)) + 1 = Len(h)
<1>1. PICK R : h \in Seq(R) OBVIOUS
<1> DEFINE rest == Tail(h)
<1>2. rest \in Seq(R) /\ Len(h) \in Nat /\ Len(rest) = Len(h) - 1 BY <1>1
<1>3. \A i \in 1 .. Len(rest) : rest[i] = h[i + 1] BY <1>1
<1>4. rest # <<>> => S!Last(rest) = rest[Len(rest)] BY DEF S!Last
<1> HIDE DEF rest
<1>5. rest = <<>> <=> Len(rest) = 0
  <2>1. rest \in Seq(R) BY <1>2
  <2> QED BY <2>1, EmptyIsShort
<1>6. Len(rest) \in Nat /\ Len(h) = Len(rest) + 1 BY <1>2
<1>7. rest # <<>> => S!Last(rest) = h[Len(h)]
  <2> SUFFICES ASSUME rest # <<>> PROVE S!Last(rest) = h[Len(h)] OBVIOUS
  <2>1. Len(rest) \in 1 .. Len(rest) BY <1>5, <1>6
  <2>2. rest[Len(rest)] = h[Len(rest) + 1] BY <1>3, <2>1
  <2> QED BY <1>4, <1>6, <2>2
<1>8. rest = <<>> <=> Len(h) = 1 BY <1>5, <1>6
<1>9. Len(rest) < 2 <=> Len(h) < 3 BY <1>6
<1> QED BY <1>3, <1>6, <1>7, <1>8, <1>9 DEF rest

LEMMA NoSQLRuns ==
    ASSUME NEW place, NEW h, Scripted(<<"no such user", "operator A", "operator B">>, place, h), NEW must,
           must => "operators" \in place.traits /\ "missing" \notin place.traits
    PROVE  Runs("nosql-injection", S!NoSQLInjection(h),
                <<"no such user", "operator A", "operator B">>, h, must)
<1> DEFINE script == <<"no such user", "operator A", "operator B">>
           both == <<"operator A", "operator B">>
           rest == Tail(h)
           r == S!Last(rest)
           hit == rest # <<>> /\ (~r.error /\ S!Bypass(h[1], r))
           finding == S!Finding("nosql", "critical", "confirmed")
<1>1. /\ Len(script) = 3 /\ Len(script) \in Nat /\ script[1] = "no such user"
      /\ script[2] = "operator A" /\ script[3] = "operator B"
      /\ Len(both) = 2 /\ both[1] = "operator A" /\ both[2] = "operator B"
  BY TupleTwo, TupleThree, Zenon
<1>2. S!NoSQLInjection(h) =
         IF Len(h) = 0 THEN S!Ask("no such user")
         ELSE IF h[1].error THEN S!Nothing
         ELSE IF hit THEN S!Report({finding})
         ELSE IF Len(rest) < Len(both) THEN S!Ask(both[Len(rest) + 1])
         ELSE S!Nothing
  BY Zenon DEF S!NoSQLInjection, S!UpToHit
<1> HIDE DEF script, both
<1> SUFFICES Runs("nosql-injection", S!NoSQLInjection(h), script, h, must)
  BY DEF script
<1>3. /\ Len(h) \in Nat /\ (\A i \in 1 .. Len(h) : Answers(h[i], place, script[i]))
      /\ (~(Len(h) < 3) => Len(h) = 3)
  BY <1>1, ScriptedShape DEF script
<1>4. CASE Len(h) = 0
  <2>1. Len(h) < 3 /\ Len(h) + 1 = 1 BY <1>3, <1>4, UpToFour, Zenon
  <2>2. S!NoSQLInjection(h) = S!Ask("no such user") BY <1>2, <1>4, Zenon
  <2> QED BY <1>1, <2>1, <2>2, AsksNext, Zenon
<1>5. ASSUME Len(h) # 0
      PROVE  /\ Answers(h[1], place, "no such user") /\ h[1].error = FALSE
             /\ Len(rest) \in Nat /\ (Len(h) = 1 \/ Len(h) = 2 \/ Len(h) = 3)
             /\ Len(h) = 1 <=> Len(rest) = 0
             /\ Len(h) = 2 <=> Len(rest) = 1
             /\ Len(h) = 3 <=> Len(rest) = 2
             /\ rest = <<>> <=> Len(h) = 1
             /\ rest # <<>> => r = h[Len(h)]
  <2>1. 1 \in 1 .. Len(h) BY <1>3, <1>5, UpToFour
  <2>2. Answers(h[1], place, "no such user") BY <1>1, <1>3, <2>1
  <2>3. \E R : h \in Seq(R) BY DEF Scripted
  <2>4. /\ Len(rest) \in Nat /\ Len(h) = Len(rest) + 1
        /\ rest # <<>> => r = h[Len(h)]
        /\ rest = <<>> <=> Len(h) = 1
    BY <1>5, <2>3, TailShape
  <2> HIDE DEF rest
  <2>5. /\ Len(h) = 1 \/ Len(h) = 2 \/ Len(h) = 3
        /\ Len(h) = 1 <=> Len(rest) = 0
        /\ Len(h) = 2 <=> Len(rest) = 1
        /\ Len(h) = 3 <=> Len(rest) = 2
    BY <1>3, <1>5, <2>4, OneMore
  <2> QED BY <2>2, <2>4, <2>5, AnswerShape
<1>6. CASE Len(h) # 0 /\ hit
  <2>1. S!NoSQLInjection(h) = S!Report({finding}) BY <1>2, <1>5, <1>6, Zenon
  <2>2. Runs("nosql-injection", S!Report({finding}), script, h, must) BY OneReported, OwnersOne
  <2> QED BY <2>1, <2>2
<1>7. CASE Len(h) = 1 /\ ~hit
  <2>1. Len(h) < 3 /\ Len(h) # 0 /\ Len(h) + 1 = 2 BY <1>3, <1>7, UpToFour, Zenon
  <2>2. Len(rest) = 0 BY <1>5, <1>7, <2>1, Zenon
  <2>3. Len(rest) < 2 /\ Len(rest) + 1 = 1 BY <1>5, <2>1, <2>2, UpToFour, Zenon
  <2> HIDE DEF hit, rest
  <2>4. S!NoSQLInjection(h) = S!Ask(script[2]) BY <1>1, <1>2, <1>5, <1>7, <2>1, <2>3, Zenon
  <2> QED BY <1>1, <2>1, <2>4, AsksNext, Zenon
<1>8. CASE Len(h) = 2 /\ ~hit
  <2>1. Len(h) < 3 /\ Len(h) # 0 /\ Len(h) + 1 = 3 BY <1>3, <1>8, UpToFour, Zenon
  <2>2. Len(rest) = 1 BY <1>5, <1>8, <2>1, Zenon
  <2>3. Len(rest) < 2 /\ Len(rest) + 1 = 2 BY <1>5, <2>1, <2>2, UpToFour, Zenon
  <2> HIDE DEF hit, rest
  <2>4. S!NoSQLInjection(h) = S!Ask(script[3]) BY <1>1, <1>2, <1>5, <1>8, <2>1, <2>3, Zenon
  <2> QED BY <1>1, <2>1, <2>4, AsksNext, Zenon
<1>9. CASE Len(h) = 3 /\ ~hit
  <2>1. Len(h) # 0 /\ Len(h) # 1 /\ 3 \in 1 .. Len(h) BY <1>3, <1>9, UpToFour
  <2>2. Len(rest) = 2 BY <1>5, <1>9, <2>1, Zenon
  <2>3. ~(Len(rest) < 2) BY <1>5, <2>1, <2>2, UpToFour, Zenon
  <2>4. ASSUME must PROVE FALSE
    <3> DEFINE traits == place.traits
    <3>1. "operators" \in traits /\ "missing" \notin traits BY <2>4
    <3> HIDE DEF traits
    <3>2. rest # <<>> /\ r = h[3] BY <1>5, <1>9, <2>1, Zenon
    <3>3. Answers(r, place, "operator B") BY <1>1, <1>3, <2>1, <3>2
    <3>4. "operator B" \notin Special BY Zenon DEF Special, S!Paths
    <3>10. "missing" \notin place.traits BY <2>4
    <3>5. r.error = FALSE /\ r.status = 200 BY <3>10, <3>3, <3>4, OkUsual, ZenonT(60)
    <3>6. h[1].status = S!Status(traits, "no such user") BY <1>5, <2>1, AnswerShape DEF traits
    <3>7. S!Status(traits, "no such user") = 401 BY <3>1, Zenon DEF S!Status
    <3>12. r.status \in {200, 204, 302} BY <3>5, Zenon
    <3>13. h[1].status = 401 BY <3>6, <3>7, Zenon
    <3>14. h[1].status \in {401, 403} BY <3>13, Zenon
    <3>9. S!Bypass(h[1], r) BY <3>12, <3>14, Zenon DEF S!Bypass
    <3> QED BY <1>9, <3>2, <3>5, <3>9, Zenon
  <2> HIDE DEF hit, rest
  <2>5. S!NoSQLInjection(h) = S!Nothing BY <1>1, <1>2, <1>5, <1>9, <2>1, <2>3, Zenon
  <2> QED BY <2>4, <2>5, RunsForms, Zenon
<1> HIDE DEF hit
<1> QED BY <1>4, <1>5, <1>6, <1>7, <1>8, <1>9

LEMMA XXERuns ==
    ASSUME NEW place, NEW h, Scripted(<<"internal entity", "external entity">>, place, h), NEW must,
           must => "expands" \in place.traits \/ "fetches entities" \in place.traits
    PROVE  Runs("xxe", S!XXE(h), <<"internal entity", "external entity">>, h, must)
<1> DEFINE script == <<"internal entity", "external entity">>
           resolved == "marker" \in h[1].body /\ "entity name" \notin h[1].body
           shown == ~h[2].error /\ "canary host" \in h[2].body
           finding == S!Finding("xxe", "critical", "confirmed")
<1>1. /\ Len(script) = 2 /\ Len(script) \in Nat /\ script[1] = "internal entity"
      /\ script[2] = "external entity"
  BY TupleTwo, Zenon
<1>2. S!XXE(h) =
         IF Len(h) = 0 THEN S!Ask("internal entity")
         ELSE IF h[1].error THEN S!Nothing
         ELSE IF resolved THEN S!Report({finding})
         ELSE IF Len(h) = 1 THEN S!Ask("external entity")
         ELSE S!Report(S!When(shown, finding))
  BY Zenon DEF S!XXE
<1> HIDE DEF script
<1> SUFFICES Runs("xxe", S!XXE(h), script, h, must)
  BY DEF script
<1>3. /\ Len(h) \in Nat /\ (\A i \in 1 .. Len(h) : Answers(h[i], place, script[i]))
      /\ (~(Len(h) < 2) => Len(h) = 2)
  BY <1>1, ScriptedShape DEF script
<1>4. CASE Len(h) = 0
  <2>1. Len(h) < 2 /\ Len(h) + 1 = 1 BY <1>3, <1>4, UpToFour, Zenon
  <2>2. S!XXE(h) = S!Ask("internal entity") BY <1>2, <1>4, Zenon
  <2> QED BY <1>1, <2>1, <2>2, AsksNext, Zenon
<1>5. ASSUME Len(h) # 0 PROVE Answers(h[1], place, "internal entity") /\ h[1].error = FALSE
  <2>1. 1 \in 1 .. Len(h) BY <1>3, <1>5, UpToFour
  <2>2. Answers(h[1], place, "internal entity") BY <1>1, <1>3, <2>1
  <2> QED BY <2>2, AnswerShape
<1>6. CASE Len(h) # 0 /\ resolved
  <2>1. S!XXE(h) = S!Report({finding}) BY <1>2, <1>5, <1>6, Zenon
  <2>2. Runs("xxe", S!Report({finding}), script, h, must) BY OneReported, OwnersOne
  <2> QED BY <2>1, <2>2
<1>7. CASE Len(h) = 1 /\ ~resolved
  <2>1. Len(h) < 2 /\ Len(h) # 0 /\ Len(h) + 1 = 2 BY <1>3, <1>7, UpToFour, Zenon
  <2> HIDE DEF resolved
  <2>2. S!XXE(h) = S!Ask("external entity") BY <1>2, <1>5, <1>7, <2>1, Zenon
  <2> QED BY <1>1, <2>1, <2>2, AsksNext, Zenon
<1>8. CASE Len(h) = 2 /\ ~resolved
  <2>1. Len(h) # 0 /\ Len(h) # 1 /\ 2 \in 1 .. Len(h) BY <1>3, <1>8, UpToFour
  <2>2. Answers(h[2], place, "external entity") BY <1>1, <1>3, <2>1
  <2>3. ASSUME must PROVE shown
    <3>1. h[2].error = FALSE BY <2>2, AnswerShape
    <3>2. ASSUME NEW t \in place.traits, "canary host" \in S!Adds(t, "external entity")
          PROVE  "canary host" \in h[2].body
      <4>1. S!Adds(t, "external entity") \subseteq h[2].body BY <2>2, AnswerShape
      <4> QED BY <3>2, <4>1, Zenon
    <3>3. CASE "fetches entities" \in place.traits
      <4>1. "canary host" \in S!Adds("fetches entities", "external entity") BY Zenon DEF S!Adds
      <4> QED BY <3>1, <3>2, <3>3, <4>1, Zenon
    <3>4. CASE "fetches entities" \notin place.traits
      <4>1. "expands" \in place.traits BY <2>3, <3>4
      <4>2. "marker" \in S!Adds("expands", "internal entity") BY Zenon DEF S!Adds
      <4>3. S!Adds("expands", "internal entity") \subseteq h[1].body BY <1>5, <2>1, <4>1, AnswerShape
      <4>4. "marker" \in h[1].body BY <4>2, <4>3, Zenon
      <4>5. "entity name" \in h[1].body BY <1>8, <4>4
      <4>6. PICK t \in place.traits : "entity name" \in S!Adds(t, "internal entity")
        BY <1>5, <2>1, <4>5, AnswerShape, Zenon
      <4>7. t = "echoes" \/ t = "escapes" BY <4>6, Zenon DEF S!Adds, S!Text
      <4>8. /\ "canary host" \in S!Adds("echoes", "external entity")
            /\ "canary host" \in S!Adds("escapes", "external entity")
        <5>1. S!Text("external entity") = {"canary host"} BY Zenon DEF S!Text
        <5>2. S!Adds("echoes", "external entity") = S!Text("external entity") BY Zenon DEF S!Adds
        <5>3. S!Adds("escapes", "external entity") = S!Text("external entity") \cup {"entity"}
          BY <5>1, Zenon DEF S!Adds
        <5> QED BY <5>1, <5>2, <5>3, Zenon
      <4>9. "canary host" \in S!Adds(t, "external entity") BY <4>7, <4>8, Zenon
      <4> QED BY <3>1, <3>2, <4>9, Zenon
    <3> QED BY <3>3, <3>4
  <2> HIDE DEF resolved, shown
  <2>4. S!XXE(h) = S!Report(S!When(shown, finding)) BY <1>2, <1>5, <1>8, <2>1, Zenon
  <2>5. Runs("xxe", S!Report(S!When(shown, finding)), script, h, must) BY <2>3, WhenRuns, OwnersOne
  <2> QED BY <2>4, <2>5
<1>9. Len(h) = 0 \/ Len(h) = 1 \/ Len(h) = 2 BY <1>3, UpToFour, UpToTwo, Zenon
<1>10. Len(h) = 1 \/ Len(h) = 2 => Len(h) # 0 BY <1>3, UpToFour, Zenon
<1> HIDE DEF resolved
<1> QED BY <1>4, <1>6, <1>7, <1>8, <1>9, <1>10

LEMMA OwnersMore ==
    /\ Owner("loopback") = "ssrf" /\ Owner("link-local") = "ssrf"
    /\ Owner("reserved-tld") = "ssrf" /\ Owner("file-scheme") = "ssrf"
    /\ Owner("idor") = "idor"
    /\ Owner("TRACE") = "dangerous-methods" /\ Owner("PROPFIND") = "dangerous-methods"
    /\ Owner("PUT") = "dangerous-methods"
    /\ Owner("redirect") = "open-redirect"
    /\ Owner("no HTTPS") = "transport-security" /\ Owner("no HSTS") = "transport-security"
    /\ Owner("HSTS max-age") = "transport-security"
    /\ Owner("/.env") = "sensitive-files" /\ Owner("/config.json") = "sensitive-files"
    /\ Owner("/") = "directory-listing" /\ Owner("/uploads/") = "directory-listing"
    /\ Owner("stack trace") = "verbose-errors"
    /\ Owner("any origin") = "cors-misconfiguration"
    /\ Owner("origin reflected") = "cors-misconfiguration"
    /\ Owner("/admin") = "admin-surface" /\ Owner("/console") = "admin-surface"
    /\ Owner("graphql") = "graphql-introspection"
<1>1. /\ Owner("loopback") = "ssrf" /\ Owner("link-local") = "ssrf"
      /\ Owner("reserved-tld") = "ssrf" /\ Owner("file-scheme") = "ssrf"
  BY Zenon DEF Owner
<1>2. Owner("idor") = "idor" BY Zenon DEF Owner
<1>3. Owner("TRACE") = "dangerous-methods" BY Zenon DEF Owner
<1>4. Owner("PROPFIND") = "dangerous-methods" BY Zenon DEF Owner
<1>5. Owner("PUT") = "dangerous-methods" BY Zenon DEF Owner
<1>6. Owner("redirect") = "open-redirect" BY Zenon DEF Owner
<1>7. Owner("no HTTPS") = "transport-security" BY Zenon DEF Owner
<1>8. Owner("no HSTS") = "transport-security" BY Zenon DEF Owner
<1>9. Owner("HSTS max-age") = "transport-security" BY Zenon DEF Owner
<1>10. Owner("/.env") = "sensitive-files" BY Zenon DEF Owner
<1>11. Owner("/config.json") = "sensitive-files" BY Zenon DEF Owner
<1>12. Owner("/") = "directory-listing" BY Zenon DEF Owner
<1>13. Owner("/uploads/") = "directory-listing" BY Zenon DEF Owner
<1>14. Owner("stack trace") = "verbose-errors" BY Zenon DEF Owner
<1>15. Owner("any origin") = "cors-misconfiguration" BY Zenon DEF Owner
<1>16. Owner("origin reflected") = "cors-misconfiguration" BY Zenon DEF Owner
<1>17. Owner("/admin") = "admin-surface" BY Zenon DEF Owner
<1>18. Owner("/console") = "admin-surface" BY Zenon DEF Owner
<1>19. Owner("graphql") = "graphql-introspection" BY Zenon DEF Owner
<1> QED BY <1>1, <1>2, <1>3, <1>4, <1>5, <1>6, <1>7, <1>8, <1>9, <1>10, <1>11, <1>12, <1>13,
           <1>14, <1>15, <1>16, <1>17, <1>18, <1>19

LEMMA OwnersLast ==
    /\ Owner("csp") = "security-headers" /\ Owner("hsts") = "security-headers"
    /\ Owner("server") = "security-headers"
    /\ Owner("cookie") = "cookie-flags"
    /\ Owner("alg none") = "token-audit" /\ Owner("no expiry") = "token-audit"
    /\ Owner("personal data") = "token-audit" /\ Owner("short session") = "token-audit"
    /\ Owner("token in URL") = "token-audit"
    /\ Owner("crlf") = "crlf-injection" /\ Owner("host") = "host-header-injection"
    /\ Owner("takeover") = "subdomain-takeover" /\ Owner("listing") = "cloud-storage"
<1>1. Owner("csp") = "security-headers" BY Zenon DEF Owner
<1>2. Owner("hsts") = "security-headers" BY Zenon DEF Owner
<1>3. Owner("server") = "security-headers" BY Zenon DEF Owner
<1>4. Owner("cookie") = "cookie-flags" BY Zenon DEF Owner
<1>5. Owner("alg none") = "token-audit" BY Zenon DEF Owner
<1>6. Owner("no expiry") = "token-audit" BY Zenon DEF Owner
<1>7. Owner("personal data") = "token-audit" BY Zenon DEF Owner
<1>8. Owner("short session") = "token-audit" BY Zenon DEF Owner
<1>9. Owner("token in URL") = "token-audit" BY Zenon DEF Owner
<1>10. Owner("crlf") = "crlf-injection" BY Zenon DEF Owner
<1>11. Owner("host") = "host-header-injection" BY Zenon DEF Owner
<1>12. Owner("takeover") = "subdomain-takeover" BY Zenon DEF Owner
<1>13. Owner("listing") = "cloud-storage" BY Zenon DEF Owner
<1> QED BY <1>1, <1>2, <1>3, <1>4, <1>5, <1>6, <1>7, <1>8, <1>9, <1>10, <1>11, <1>12, <1>13

LEMMA RedirectRuns ==
    ASSUME NEW place, NEW h, Scripted(<<"redirect">>, place, h), NEW must,
           must => "redirects" \in place.traits
    PROVE  Runs("open-redirect", S!OpenRedirect(h), <<"redirect">>, h, must)
<1> DEFINE r == S!Last(h)
           hit == h # <<>> /\ "location: probe" \in r.header
           script == <<"redirect">>
<1>1. ASSUME must, ~(Len(h) < Len(script)) PROVE hit
  <2>1. h # <<>> /\ Answers(r, place, "redirect") BY <1>1, TupleOne, LastAnswers
  <2>2. "location: probe" \in S!Sends("redirects", "redirect") BY Zenon DEF S!Sends
  <2> QED BY <1>1, <2>1, <2>2, AnswerShape, Zenon
<1>2. S!OpenRedirect(h) = IF hit THEN S!Report({S!Finding("redirect", "medium", "confirmed")})
                          ELSE IF Len(h) < Len(script) THEN S!Ask(script[Len(h) + 1])
                          ELSE S!Nothing
  BY Zenon DEF S!OpenRedirect, S!UpToHit
<1> HIDE DEF script, hit
<1>3. Runs("open-redirect", S!OpenRedirect(h), script, h, must)
  BY <1>1, <1>2, HitRuns, OwnersMore, Zenon
<1> QED BY <1>3 DEF script

LEMMA CRLFRuns ==
    ASSUME NEW place, NEW h, Scripted(<<"crlf">>, place, h), NEW must,
           must => "splits" \in place.traits
    PROVE  Runs("crlf-injection", S!CRLFInjection(h), <<"crlf">>, h, must)
<1> DEFINE r == S!Last(h)
           hit == h # <<>> /\ (~r.error /\ ("injected" \in r.header \/ "crlf marker" \in r.body))
           script == <<"crlf">>
<1>1. ASSUME must, ~(Len(h) < Len(script)) PROVE hit
  <2>1. h # <<>> /\ Answers(r, place, "crlf") BY <1>1, TupleOne, LastAnswers
  <2>2. "injected" \in S!Sends("splits", "crlf") BY Zenon DEF S!Sends
  <2>3. "injected" \in r.header BY <1>1, <2>1, <2>2, AnswerShape, Zenon
  <2>4. r.error = FALSE BY <2>1, AnswerShape
  <2> QED BY <2>1, <2>3, <2>4, Zenon
<1>2. S!CRLFInjection(h) = IF hit THEN S!Report({S!Finding("crlf", "high", "confirmed")})
                          ELSE IF Len(h) < Len(script) THEN S!Ask(script[Len(h) + 1])
                          ELSE S!Nothing
  BY Zenon DEF S!CRLFInjection, S!UpToHit
<1> HIDE DEF script, hit
<1>3. Runs("crlf-injection", S!CRLFInjection(h), script, h, must)
  BY <1>1, <1>2, HitRuns, OwnersLast, Zenon
<1> QED BY <1>3 DEF script

LEMMA HostRuns ==
    ASSUME NEW place, NEW h, Scripted(<<"Host", "X-Forwarded-Host">>, place, h), NEW must,
           must => "trusts Host" \in place.traits
    PROVE  Runs("host-header-injection", S!HostHeader(h), <<"Host", "X-Forwarded-Host">>, h, must)
<1> DEFINE r == S!Last(h)
           hit == h # <<>> /\ (~r.error /\ ("location: probe" \in r.header \/ "probe host" \in r.body))
           script == <<"Host", "X-Forwarded-Host">>
<1>1. ASSUME must, ~(Len(h) < Len(script)) PROVE hit
  <2>1. h # <<>> /\ Answers(r, place, "X-Forwarded-Host") BY <1>1, TupleTwo, LastAnswers
  <2>2. "location: probe" \in S!Sends("trusts Host", "X-Forwarded-Host") BY Zenon DEF S!Sends
  <2>3. "location: probe" \in r.header BY <1>1, <2>1, <2>2, AnswerShape, Zenon
  <2>4. r.error = FALSE BY <2>1, AnswerShape
  <2> QED BY <2>1, <2>3, <2>4, Zenon
<1>2. S!HostHeader(h) = IF hit THEN S!Report({S!Finding("host", "high", "confirmed")})
                        ELSE IF Len(h) < Len(script) THEN S!Ask(script[Len(h) + 1])
                        ELSE S!Nothing
  BY Zenon DEF S!HostHeader, S!UpToHit
<1> HIDE DEF script, hit
<1>3. Runs("host-header-injection", S!HostHeader(h), script, h, must)
  BY <1>1, <1>2, HitRuns, OwnersLast, Zenon
<1> QED BY <1>3 DEF script

LEMMA GraphQLRuns ==
    ASSUME NEW place, NEW h, Scripted(<<"/graphql", "/query">>, place, h), NEW must,
           must => "schema" \in place.traits /\ "missing" \notin place.traits
    PROVE  Runs("graphql-introspection", S!GraphQL(h), <<"/graphql", "/query">>, h, must)
<1> DEFINE r == S!Last(h)
           hit == h # <<>> /\ (~r.error /\ r.status < 400 /\ "__schema" \in r.body)
           script == <<"/graphql", "/query">>
<1>1. ASSUME must, ~(Len(h) < Len(script)) PROVE hit
  <2>1. h # <<>> /\ Answers(r, place, "/query") BY <1>1, TupleTwo, LastAnswers
  <2>2. "__schema" \in S!Adds("schema", "/query") BY Zenon DEF S!Adds
  <2>3. "__schema" \in r.body BY <1>1, <2>1, <2>2, AnswerShape, Zenon
  <2>4. r.error = FALSE /\ r.status = S!Status(place.traits, "/query") BY <2>1, AnswerShape
  <2>5. "schema" \in place.traits /\ "missing" \notin place.traits BY <1>1
  <2>6. "/query" \in S!Paths /\ S!Adds("schema", "/query") # {} BY <2>2, Zenon DEF S!Paths
  <2>9. S!Status(place.traits, "/query") = 200 BY <2>5, <2>6, StatusOfPath
  <2>7. r.status = 200 BY <2>4, <2>9, Zenon
  <2>8. 200 < 400 OBVIOUS
  <2> QED BY <2>1, <2>3, <2>4, <2>7, <2>8, Zenon
<1>2. S!GraphQL(h) = IF hit THEN S!Report({S!Finding("graphql", "low", "confirmed")})
                     ELSE IF Len(h) < Len(script) THEN S!Ask(script[Len(h) + 1])
                     ELSE S!Nothing
  BY Zenon DEF S!GraphQL, S!UpToHit
<1> HIDE DEF script, hit
<1>3. Runs("graphql-introspection", S!GraphQL(h), script, h, must)
  BY <1>1, <1>2, HitRuns, OwnersMore, Zenon
<1> QED BY <1>3 DEF script

\* What a page that does not exist answers.
LEMMA StatusMissing ==
    ASSUME NEW traits, "missing" \in traits, NEW request PROVE S!Status(traits, request) = 404
BY Zenon DEF S!Status

\* A page is served, or refused with an error of the client.
LEMMA ServedOrRefused ==
    ASSUME NEW r, r.error = FALSE, r.status = 200 \/ r.status = 404
    PROVE  S!Ok(r) \/ r.status >= 400
<1>1. CASE r.status = 200 BY <1>1, OkAnswers
<1>2. CASE r.status # 200
  <2>1. r.status = 404 BY <1>2
  <2> QED BY <2>1
<1> QED BY <1>1, <1>2

LEMMA VerboseRuns ==
    ASSUME NEW place, NEW h, Scripted(<<"GET">>, place, h), NEW must,
           must => "traces" \in place.traits
    PROVE  Runs("verbose-errors", S!VerboseErrors(h), <<"GET">>, h, must)
<1> DEFINE r == S!Last(h)
           hit == h # <<>> /\ ((S!Ok(r) \/ r.status >= 400) /\ "stack trace" \in r.body)
           script == <<"GET">>
<1>1. ASSUME must, ~(Len(h) < Len(script)) PROVE hit
  <2>1. h # <<>> /\ Answers(r, place, "GET") BY <1>1, TupleOne, LastAnswers
  <2>2. "stack trace" \in S!Adds("traces", "GET") BY Zenon DEF S!Adds
  <2>3. "stack trace" \in r.body BY <1>1, <2>1, <2>2, AnswerShape, Zenon
  <2>4. r.error = FALSE /\ r.status = S!Status(place.traits, "GET") BY <2>1, AnswerShape
  <2>8. "GET" \notin Special BY Zenon DEF Special, S!Paths
  <2>6. S!Status(place.traits, "GET") = 200 \/ S!Status(place.traits, "GET") = 404
    <3> DEFINE traits == place.traits
    <3> HIDE DEF traits
    <3>1. CASE "missing" \in traits
      <4>1. S!Status(traits, "GET") = 404 BY <3>1, StatusMissing
      <4> QED BY <4>1 DEF traits
    <3>2. CASE "missing" \notin traits
      <4>1. S!Status(traits, "GET") = 200 BY <2>8, <3>2, StatusUsual
      <4> QED BY <4>1 DEF traits
    <3> QED BY <3>1, <3>2
  <2>7. r.status = 200 \/ r.status = 404 BY <2>4, <2>6, Zenon
  <2>5. S!Ok(r) \/ r.status >= 400 BY <2>4, <2>7, ServedOrRefused
  <2> QED BY <2>1, <2>3, <2>5, Zenon
<1>2. S!VerboseErrors(h) = IF hit THEN S!Report({S!Finding("stack trace", "medium", "confirmed")})
                           ELSE IF Len(h) < Len(script) THEN S!Ask(script[Len(h) + 1])
                           ELSE S!Nothing
  BY Zenon DEF S!VerboseErrors, S!UpToHit
<1> HIDE DEF script, hit
<1>3. Runs("verbose-errors", S!VerboseErrors(h), script, h, must)
  BY <1>1, <1>2, HitRuns, OwnersMore, Zenon
<1> QED BY <1>3 DEF script

LEMMA TakeoverRuns ==
    ASSUME NEW place, NEW h, Scripted(<<"host root">>, place, h), NEW must,
           must => "provider CNAME" \in place.traits
    PROVE  Runs("subdomain-takeover", S!SubdomainTakeover(h, place), <<"host root">>, h, must)
<1> DEFINE r == S!Last(h)
           hit == h # <<>> /\ (~r.error /\ r.status \in {404, 410} /\ "provider says gone" \in r.body)
           script == <<"host root">>
<1>1. CASE "provider CNAME" \notin place.traits
  <2>1. S!SubdomainTakeover(h, place) = S!Nothing BY <1>1, Zenon DEF S!SubdomainTakeover
  <2> QED BY <1>1, <2>1, RunsForms, Zenon
<1>2. CASE "provider CNAME" \in place.traits
  <2>1. ASSUME must, ~(Len(h) < Len(script)) PROVE hit
    <3>1. h # <<>> /\ Answers(r, place, "host root") BY <2>1, TupleOne, LastAnswers
    <3>2. "provider says gone" \in S!Adds("provider CNAME", "host root") BY Zenon DEF S!Adds
    <3>3. "provider says gone" \in r.body BY <1>2, <3>1, <3>2, AnswerShape, Zenon
    <3>4. r.error = FALSE /\ r.status = S!Status(place.traits, "host root") BY <3>1, AnswerShape
    <3>5. S!Status(place.traits, "host root") = 404 BY <1>2, Zenon DEF S!Status
    <3>7. r.status = 404 BY <3>4, <3>5, Zenon
    <3>6. r.status \in {404, 410} BY <3>7, Zenon
    <3> QED BY <3>1, <3>3, <3>4, <3>6, Zenon
  <2>2. S!SubdomainTakeover(h, place) =
           IF hit THEN S!Report({S!Finding("takeover", "high", "confirmed")})
           ELSE IF Len(h) < Len(script) THEN S!Ask(script[Len(h) + 1])
           ELSE S!Nothing
    BY <1>2, Zenon DEF S!SubdomainTakeover, S!UpToHit
  <2> HIDE DEF script, hit
  <2>3. Runs("subdomain-takeover", S!SubdomainTakeover(h, place), script, h, must)
    BY <2>1, <2>2, HitRuns, OwnersLast, Zenon
  <2> QED BY <2>3 DEF script
<1> QED BY <1>1, <1>2

LEMMA WhenShows ==
    ASSUME NEW shown, NEW title, NEW severity, NEW confidence
    PROVE  /\ \A f \in S!When(shown, S!Finding(title, severity, confidence)) : f.title = title
           /\ shown => \E f : f \in S!When(shown, S!Finding(title, severity, confidence))
<1>1. S!Finding(title, severity, confidence).title = title BY Zenon DEF S!Finding
<1> QED BY <1>1, Zenon DEF S!When

\* All the requests, and what each of them shows.
LEMMA EachRuns ==
    ASSUME NEW c, NEW script, NEW h, NEW must, NEW found, NEW outcome,
           outcome = IF Len(h) < Len(script) THEN S!Ask(script[Len(h) + 1]) ELSE S!Report(found),
           \A f \in found : Owner(f.title) = c,
           must /\ ~(Len(h) < Len(script)) => \E f : f \in found
    PROVE  Runs(c, outcome, script, h, must)
<1>1. CASE Len(h) < Len(script) BY <1>1, RunsForms, Zenon
<1>2. CASE ~(Len(h) < Len(script))
  <2>1. must => found # {} BY <1>2, Zenon
  <2>2. Runs(c, S!Report(found), script, h, must) BY <2>1, RunsForms, Zenon
  <2> QED BY <1>2, <2>2, Zenon
<1> QED BY <1>1, <1>2

LEMMA TwoOwned ==
    ASSUME NEW c, NEW s, Len(s) = 2, Owner(s[1]) = c, Owner(s[2]) = c
    PROVE  \A i \in 1 .. Len(s) : Owner(s[i]) = c
<1>1. \A i \in 1 .. Len(s) : i = 1 \/ i = 2 OBVIOUS
<1> QED BY <1>1

LEMMA FilesRuns ==
    ASSUME NEW place, NEW h, Scripted(S!SENSITIVE_PATHS, place, h), NEW must,
           must => "leaks" \in place.traits /\ "missing" \notin place.traits
    PROVE  Runs("sensitive-files", S!SensitiveFiles(h), S!SENSITIVE_PATHS, h, must)
<1> DEFINE script == S!SENSITIVE_PATHS
           hit(r) == S!Ok(r) /\ r.status = 200 /\ r.page # "blank" /\ "not found" \notin r.body
           shows(path, r) == S!When(hit(r), S!Finding(path, S!SeverityOf(path), "confirmed"))
           found == UNION {shows(script[i], h[i]) : i \in 1 .. Len(script)}
<1>1. script = <<"/.env", "/config.json">> BY DEF S!SENSITIVE_PATHS
<1>2. /\ Len(script) = 2 /\ Len(script) \in Nat /\ script[1] = "/.env" /\ script[2] = "/config.json"
      /\ Len(script) \in Nat \ {0}
      /\ script[Len(script)] = "/config.json"
  BY <1>1, TupleTwo, Zenon
<1>3. \A i \in 1 .. Len(script) : Owner(script[i]) = "sensitive-files"
  <2>1. Owner("/.env") = "sensitive-files" /\ Owner("/config.json") = "sensitive-files" BY OwnersMore
  <2> HIDE DEF script
  <2>2. Owner(script[1]) = "sensitive-files" /\ Owner(script[2]) = "sensitive-files" BY <1>2, <2>1, Zenon
  <2> QED BY <1>2, <2>2, TwoOwned, Zenon
<1>4. S!SensitiveFiles(h) = IF Len(h) < Len(script) THEN S!Ask(script[Len(h) + 1]) ELSE S!Report(found)
  BY Zenon DEF S!SensitiveFiles, S!EachOf
<1>5. \A f \in found : Owner(f.title) = "sensitive-files"
  <2> HIDE DEF hit
  <2>1. \A path, r : \A f \in shows(path, r) : f.title = path BY WhenShows, Zenon
  <2> HIDE DEF shows, script
  <2> SUFFICES ASSUME NEW f \in found PROVE Owner(f.title) = "sensitive-files" OBVIOUS
  <2>2. PICK i \in 1 .. Len(script) : f \in shows(script[i], h[i]) BY Zenon
  <2>3. f.title = script[i] BY <2>1, <2>2, Zenon
  <2> QED BY <1>3, <2>3, Zenon
<1> HIDE DEF script
<1>6. ASSUME must, ~(Len(h) < Len(script)) PROVE \E f : f \in found
  <2>1. /\ Len(h) = 2 /\ (\A i \in 1 .. Len(h) : Answers(h[i], place, script[i]))
    BY <1>2, <1>6, ScriptedShape DEF script
  <2>2. Answers(h[2], place, "/config.json")
    <3>1. 2 \in 1 .. Len(h) BY <2>1, UpToFour
    <3> QED BY <1>2, <2>1, <3>1
  <2>3. "settings" \in S!Adds("leaks", "/config.json") BY Zenon DEF S!Adds
  <2>4. "leaks" \in place.traits /\ "missing" \notin place.traits BY <1>6
  <2>5. h[2].error = FALSE /\ h[2].status = S!Status(place.traits, "/config.json")
    BY <2>2, AnswerShape
  <2>6. S!Status(place.traits, "/config.json") = 200
    <3>1. "/config.json" \in S!Paths /\ S!Adds("leaks", "/config.json") # {} BY <2>3, Zenon DEF S!Paths
    <3> QED BY <2>4, <3>1, StatusOfPath
  <2>7. h[2].status = 200 BY <2>5, <2>6, Zenon
  <2>8. S!Ok(h[2]) BY <2>5, <2>7, OkAnswers
  <2>9. h[2].page # "blank"
    <3>1. "/config.json" # "false" /\ "/config.json" # "neighbour" /\ "usual" # "blank" BY Zenon
    <3>2. h[2].page = "usual" BY <2>2, <3>1, AnswerShape, Zenon
    <3> QED BY <3>1, <3>2, Zenon
  <2>10. "not found" \notin h[2].body
    <3>1. \A t : "not found" \notin S!Adds(t, "/config.json") BY Zenon DEF S!Adds, S!Text
    <3> QED BY <2>2, <3>1, AnswerShape, Zenon
  <2>11. hit(h[2]) BY <2>7, <2>8, <2>9, <2>10
  <2> HIDE DEF hit
  <2>12. \E f : f \in shows(script[2], h[2]) BY <2>11, WhenShows, Zenon
  <2>13. 2 \in 1 .. Len(script) BY <1>2, UpToFour, Zenon
  <2> HIDE DEF shows
  <2> QED BY <2>12, <2>13, Zenon
<1> HIDE DEF found
<1>7. Runs("sensitive-files", S!SensitiveFiles(h), script, h, must) BY <1>4, <1>5, <1>6, EachRuns, Zenon
<1> QED BY <1>7 DEF script

LEMMA ListingRuns ==
    ASSUME NEW place, NEW h, Scripted(<<"/", "/uploads/">>, place, h), NEW must,
           must => "lists" \in place.traits /\ "missing" \notin place.traits
    PROVE  Runs("directory-listing", S!DirectoryListing(h), <<"/", "/uploads/">>, h, must)
<1> DEFINE script == <<"/", "/uploads/">>
           hit(r) == S!Ok(r) /\ "index of" \in r.body
           shows(path, r) == S!When(hit(r), S!Finding(path, "medium", "confirmed"))
           found == UNION {shows(script[i], h[i]) : i \in 1 .. Len(script)}
<1>2. Len(script) = 2 /\ Len(script) \in Nat /\ script[1] = "/" /\ script[2] = "/uploads/"
  BY TupleTwo, Zenon
<1>3. \A i \in 1 .. Len(script) : Owner(script[i]) = "directory-listing"
  <2>1. Owner("/") = "directory-listing" /\ Owner("/uploads/") = "directory-listing" BY OwnersMore
  <2> HIDE DEF script
  <2>2. Owner(script[1]) = "directory-listing" /\ Owner(script[2]) = "directory-listing" BY <1>2, <2>1, Zenon
  <2> QED BY <1>2, <2>2, TwoOwned, Zenon
<1>4. S!DirectoryListing(h) = IF Len(h) < Len(script) THEN S!Ask(script[Len(h) + 1]) ELSE S!Report(found)
  BY Zenon DEF S!DirectoryListing, S!EachOf
<1>5. \A f \in found : Owner(f.title) = "directory-listing"
  <2> HIDE DEF hit
  <2>1. \A path, r : \A f \in shows(path, r) : f.title = path BY WhenShows, Zenon
  <2> HIDE DEF shows, script
  <2> SUFFICES ASSUME NEW f \in found PROVE Owner(f.title) = "directory-listing" OBVIOUS
  <2>2. PICK i \in 1 .. Len(script) : f \in shows(script[i], h[i]) BY Zenon
  <2>3. f.title = script[i] BY <2>1, <2>2, Zenon
  <2> QED BY <1>3, <2>3, Zenon
<1> HIDE DEF script
<1>6. ASSUME must, ~(Len(h) < Len(script)) PROVE \E f : f \in found
  <2>1. /\ Len(h) = 2 /\ (\A i \in 1 .. Len(h) : Answers(h[i], place, script[i]))
    BY <1>2, <1>6, ScriptedShape DEF script
  <2>2. Answers(h[2], place, "/uploads/")
    <3>1. 2 \in 1 .. Len(h) BY <2>1, UpToFour
    <3> QED BY <1>2, <2>1, <3>1
  <2>3. "index of" \in S!Adds("lists", "/uploads/") BY Zenon DEF S!Adds
  <2>4. "lists" \in place.traits /\ "missing" \notin place.traits BY <1>6
  <2>5. h[2].error = FALSE /\ h[2].status = S!Status(place.traits, "/uploads/")
    BY <2>2, AnswerShape
  <2>6. S!Status(place.traits, "/uploads/") = 200
    <3>1. "/uploads/" \in S!Paths /\ S!Adds("lists", "/uploads/") # {} BY <2>3, Zenon DEF S!Paths
    <3> QED BY <2>4, <3>1, StatusOfPath
  <2>7. h[2].status = 200 BY <2>5, <2>6, Zenon
  <2>8. S!Ok(h[2]) BY <2>5, <2>7, OkAnswers
  <2>9. "index of" \in h[2].body BY <2>2, <2>3, <2>4, AnswerShape, Zenon
  <2>11. hit(h[2]) BY <2>8, <2>9
  <2> HIDE DEF hit
  <2>12. \E f : f \in shows(script[2], h[2]) BY <2>11, WhenShows, Zenon
  <2>13. 2 \in 1 .. Len(script) BY <1>2, UpToFour, Zenon
  <2> HIDE DEF shows
  <2> QED BY <2>12, <2>13, Zenon
<1> HIDE DEF found
<1>7. Runs("directory-listing", S!DirectoryListing(h), script, h, must) BY <1>4, <1>5, <1>6, EachRuns, Zenon
<1> QED BY <1>7 DEF script

LEMMA AdminRuns ==
    ASSUME NEW place, NEW h, Scripted(S!ADMIN_PATHS, place, h), NEW must,
           must => "panel" \in place.traits /\ "missing" \notin place.traits
    PROVE  Runs("admin-surface", S!AdminSurface(h), S!ADMIN_PATHS, h, must)
<1> DEFINE script == S!ADMIN_PATHS
           severity(path) == IF path = "/console" THEN "high" ELSE "medium"
           hit(r) == ~r.error /\ r.status = 200 /\ "not found" \notin r.body /\ "panel" \in r.body
           shows(path, r) == S!When(hit(r), S!Finding(path, severity(path), "confirmed"))
           found == UNION {shows(script[i], h[i]) : i \in 1 .. Len(script)}
<1>1. script = <<"/admin", "/console">> BY DEF S!ADMIN_PATHS
<1>2. Len(script) = 2 /\ Len(script) \in Nat /\ script[1] = "/admin" /\ script[2] = "/console"
  BY <1>1, TupleTwo, Zenon
<1>3. \A i \in 1 .. Len(script) : Owner(script[i]) = "admin-surface"
  <2>1. Owner("/admin") = "admin-surface" /\ Owner("/console") = "admin-surface" BY OwnersMore
  <2> HIDE DEF script
  <2>2. Owner(script[1]) = "admin-surface" /\ Owner(script[2]) = "admin-surface" BY <1>2, <2>1, Zenon
  <2> QED BY <1>2, <2>2, TwoOwned, Zenon
<1>4. S!AdminSurface(h) = IF Len(h) < Len(script) THEN S!Ask(script[Len(h) + 1]) ELSE S!Report(found)
  BY Zenon DEF S!AdminSurface, S!EachOf
<1>5. \A f \in found : Owner(f.title) = "admin-surface"
  <2> HIDE DEF hit, severity
  <2>1. \A path, r : \A f \in shows(path, r) : f.title = path BY WhenShows, Zenon
  <2> HIDE DEF shows, script
  <2> SUFFICES ASSUME NEW f \in found PROVE Owner(f.title) = "admin-surface" OBVIOUS
  <2>2. PICK i \in 1 .. Len(script) : f \in shows(script[i], h[i]) BY Zenon
  <2>3. f.title = script[i] BY <2>1, <2>2, Zenon
  <2> QED BY <1>3, <2>3, Zenon
<1> HIDE DEF script
<1>6. ASSUME must, ~(Len(h) < Len(script)) PROVE \E f : f \in found
  <2>1. /\ Len(h) = 2 /\ (\A i \in 1 .. Len(h) : Answers(h[i], place, script[i]))
    BY <1>2, <1>6, ScriptedShape DEF script
  <2>2. Answers(h[2], place, "/console")
    <3>1. 2 \in 1 .. Len(h) BY <2>1, UpToFour
    <3> QED BY <1>2, <2>1, <3>1
  <2>3. "panel" \in S!Adds("panel", "/console") BY Zenon DEF S!Adds
  <2>4. "panel" \in place.traits /\ "missing" \notin place.traits BY <1>6
  <2>5. h[2].error = FALSE /\ h[2].status = S!Status(place.traits, "/console")
    BY <2>2, AnswerShape
  <2>6. S!Status(place.traits, "/console") = 200
    <3>1. "/console" \in S!Paths /\ S!Adds("panel", "/console") # {} BY <2>3, Zenon DEF S!Paths
    <3> QED BY <2>4, <3>1, StatusOfPath
  <2>7. h[2].status = 200 BY <2>5, <2>6, Zenon
  <2>9. "panel" \in h[2].body BY <2>2, <2>3, <2>4, AnswerShape, Zenon
  <2>10. "not found" \notin h[2].body
    <3>1. \A t : "not found" \notin S!Adds(t, "/console") BY Zenon DEF S!Adds, S!Text
    <3> QED BY <2>2, <3>1, AnswerShape, Zenon
  <2>11. hit(h[2]) BY <2>5, <2>7, <2>9, <2>10, Zenon
  <2> HIDE DEF hit, severity
  <2>12. \E f : f \in shows(script[2], h[2]) BY <2>11, WhenShows, Zenon
  <2>13. 2 \in 1 .. Len(script) BY <1>2, UpToFour, Zenon
  <2> HIDE DEF shows
  <2> QED BY <2>12, <2>13, Zenon
<1> HIDE DEF found
<1>7. Runs("admin-surface", S!AdminSurface(h), script, h, must) BY <1>4, <1>5, <1>6, EachRuns, Zenon
<1> QED BY <1>7 DEF script

\* A check that sends a place one request.
LEMMA OneRequest ==
    ASSUME NEW c, NEW request, NEW place, NEW h, Scripted(<<request>>, place, h), NEW must
    PROVE  /\ Len(h) = 0 => Runs(c, S!Ask(request), <<request>>, h, must)
           /\ Len(h) # 0 => Answers(h[1], place, request)
<1> DEFINE script == <<request>>
<1>1. Len(script) = 1 /\ script[1] = request BY TupleOne
<1> HIDE DEF script
<1>2. Len(h) \in Nat /\ (\A i \in 1 .. Len(h) : Answers(h[i], place, script[i]))
  BY <1>1, ScriptedShape DEF script
<1>3. ASSUME Len(h) = 0 PROVE Runs(c, S!Ask(request), script, h, must)
  <2>1. Len(h) < Len(script) /\ Len(h) + 1 = 1 BY <1>1, <1>2, <1>3
  <2> QED BY <1>1, <2>1, AsksNext
<1>4. ASSUME Len(h) # 0 PROVE Answers(h[1], place, request)
  <2>1. 1 \in 1 .. Len(h) BY <1>2, <1>4
  <2> QED BY <1>1, <1>2, <2>1
<1> QED BY <1>3, <1>4 DEF script

LEMMA GetIsUsual == "GET" \notin Special
BY Zenon DEF Special, S!Paths

LEMMA TransportRuns ==
    ASSUME NEW place, NEW h, Scripted(<<"GET">>, place, h), NEW must,
           must => "http" \in place.traits
    PROVE  Runs("transport-security", S!Transport(h, place), <<"GET">>, h, must)
<1> DEFINE absent == "hsts" \notin h[1].header
           ageless == "hsts without max-age" \in h[1].header
           none == S!When(absent, S!Finding("no HSTS", "low", "confirmed"))
           short == S!When(ageless, S!Finding("HSTS max-age", "info", "confirmed"))
           found == none \cup short
<1>1. CASE "http" \in place.traits
  <2>1. S!Transport(h, place) = S!Report({S!Finding("no HTTPS", "medium", "confirmed")})
    BY <1>1, Zenon DEF S!Transport
  <2>2. Owner("no HTTPS") = "transport-security" BY OwnersMore
  <2>3. Runs("transport-security", S!Report({S!Finding("no HTTPS", "medium", "confirmed")}),
             <<"GET">>, h, must)
    BY <2>2, OneReported
  <2> QED BY <2>1, <2>3
<1>2. CASE "http" \notin place.traits
  <2>1. S!Transport(h, place) = IF Len(h) = 0 THEN S!Ask("GET")
                                ELSE IF ~S!Ok(h[1]) THEN S!Nothing ELSE S!Report(found)
    BY <1>2, Zenon DEF S!Transport
  <2>2. \A f \in found : Owner(f.title) = "transport-security"
    <3> HIDE DEF absent, ageless
    <3>1. \A f \in none : f.title = "no HSTS" BY WhenShows, Zenon
    <3>2. \A f \in short : f.title = "HSTS max-age" BY WhenShows, Zenon
    <3> HIDE DEF none, short
    <3> QED BY <3>1, <3>2, OwnersMore, Zenon
  <2> HIDE DEF found
  <2>3. Runs("transport-security", S!Report(found), <<"GET">>, h, must)
    BY <1>2, <2>2, RunsForms, Zenon
  <2>4. Runs("transport-security", S!Nothing, <<"GET">>, h, must) BY <1>2, RunsForms, Zenon
  <2>5. CASE Len(h) = 0
    <3>1. Runs("transport-security", S!Ask("GET"), <<"GET">>, h, must) BY <2>5, OneRequest
    <3> QED BY <2>1, <2>5, <3>1, Zenon
  <2>6. CASE Len(h) # 0 BY <2>1, <2>3, <2>4, <2>6, Zenon
  <2> QED BY <2>5, <2>6
<1> QED BY <1>1, <1>2

LEMMA CORSRuns ==
    ASSUME NEW place, NEW h, Scripted(<<"Origin">>, place, h), NEW must,
           must => "trusts origins" \in place.traits /\ "missing" \notin place.traits
    PROVE  Runs("cors-misconfiguration", S!CORS(h), <<"Origin">>, h, must)
<1> DEFINE reflected == "allow-origin: probe" \in h[1].header
           wildcard == "allow-origin: *" \in h[1].header
           credentials == "allow-credentials" \in h[1].header
           public == wildcard /\ ~credentials
           severity == IF credentials THEN "high" ELSE "medium"
           any == S!When(public, S!Finding("any origin", "low", "confirmed"))
           probe == S!When(reflected, S!Finding("origin reflected", severity, "confirmed"))
           found == any \cup probe
<1>1. S!CORS(h) = IF Len(h) = 0 THEN S!Ask("Origin")
                  ELSE IF ~S!Ok(h[1]) THEN S!Nothing ELSE S!Report(found)
  BY Zenon DEF S!CORS
<1>2. \A f \in found : Owner(f.title) = "cors-misconfiguration"
  <2> HIDE DEF reflected, public, severity, wildcard, credentials
  <2>1. \A f \in any : f.title = "any origin"
    <3> DEFINE title == "any origin"
               low == "low"
               sure == "confirmed"
    <3> HIDE DEF title, low, sure
    <3>1. \A f \in S!When(public, S!Finding(title, low, sure)) : f.title = title BY WhenShows
    <3> QED BY <3>1 DEF title, low, sure
  <2>2. \A f \in probe : f.title = "origin reflected" BY WhenShows, Zenon
  <2> HIDE DEF any, probe
  <2> QED BY <2>1, <2>2, OwnersMore, Zenon
<1>3. CASE Len(h) = 0
  <2>1. Runs("cors-misconfiguration", S!Ask("Origin"), <<"Origin">>, h, must) BY <1>3, OneRequest
  <2> QED BY <1>1, <1>3, <2>1, Zenon
<1>4. CASE Len(h) # 0
  <2>1. Answers(h[1], place, "Origin") BY <1>4, OneRequest
  <2>2. ASSUME must PROVE S!Ok(h[1]) /\ \E f : f \in found
    <3>1. "missing" \notin place.traits /\ "trusts origins" \in place.traits BY <2>2
    <3>2. "Origin" \notin Special BY Zenon DEF Special, S!Paths
    <3>3. S!Ok(h[1]) BY <2>1, <3>1, <3>2, OkUsual, ZenonT(60)
    <3>4. "allow-origin: probe" \in S!Sends("trusts origins", "Origin") BY Zenon DEF S!Sends
    <3>5. reflected BY <2>1, <3>1, <3>4, AnswerShape, Zenon
    <3> HIDE DEF reflected, severity, any
    <3>6. \E f : f \in probe BY <3>5, WhenShows, Zenon
    <3> HIDE DEF probe
    <3> QED BY <3>3, <3>6, Zenon
  <2> HIDE DEF found
  <2>3. must => found # {} BY <2>2, Zenon
  <2>4. Runs("cors-misconfiguration", S!Report(found), <<"Origin">>, h, must)
    BY <1>2, <2>3, RunsForms, Zenon
  <2>5. CASE ~S!Ok(h[1])
    <3>1. Runs("cors-misconfiguration", S!Nothing, <<"Origin">>, h, must) BY <2>2, <2>5, RunsForms, Zenon
    <3> QED BY <1>1, <1>4, <2>5, <3>1, Zenon
  <2>6. CASE S!Ok(h[1]) BY <1>1, <1>4, <2>4, <2>6, Zenon
  <2> QED BY <2>5, <2>6
<1> QED BY <1>3, <1>4

LEMMA HeadersRuns ==
    ASSUME NEW place, NEW h, Scripted(<<"GET">>, place, h), NEW must,
           must => "names server" \in place.traits /\ "missing" \notin place.traits
    PROVE  Runs("security-headers", S!Headers(h, place), <<"GET">>, h, must)
<1> DEFINE excused(x) == \/ x = "csp" /\ "csp report-only" \in h[1].header
                         \/ x = "hsts" /\ "http" \in place.traits
           missing == {x \in S!SECURITY_HEADERS : x \notin h[1].header /\ ~excused(x)}
           telling == S!DANGEROUS_HEADERS \cap h[1].header
           lacks == {S!Finding(x, "medium", "confirmed") : x \in missing}
           tells == {S!Finding(x, "info", "confirmed") : x \in telling}
           found == lacks \cup tells
<1>1. S!Headers(h, place) = IF Len(h) = 0 THEN S!Ask("GET")
                            ELSE IF ~S!Ok(h[1]) THEN S!Nothing ELSE S!Report(found)
  BY Zenon DEF S!Headers
<1>2. \A f \in found : Owner(f.title) = "security-headers"
  <2>1. \A x \in missing : x = "csp" \/ x = "hsts" BY Zenon DEF S!SECURITY_HEADERS
  <2>2. \A x \in telling : x = "server" BY Zenon DEF S!DANGEROUS_HEADERS
  <2>3. \A x, severity : S!Finding(x, severity, "confirmed").title = x BY Zenon DEF S!Finding
  <2> HIDE DEF missing, telling
  <2>4. ASSUME NEW f \in lacks PROVE Owner(f.title) = "security-headers"
    <3>1. PICK x \in missing : f = S!Finding(x, "medium", "confirmed") BY <2>4, Zenon
    <3>2. f.title = x BY <2>3, <3>1, Zenon
    <3> QED BY <2>1, <3>2, OwnersLast, Zenon
  <2>5. ASSUME NEW f \in tells PROVE Owner(f.title) = "security-headers"
    <3>1. PICK x \in telling : f = S!Finding(x, "info", "confirmed") BY <2>5, Zenon
    <3>2. f.title = x BY <2>3, <3>1, Zenon
    <3> QED BY <2>2, <3>2, OwnersLast, Zenon
  <2> QED BY <2>4, <2>5, Zenon
<1>3. CASE Len(h) = 0
  <2>1. Runs("security-headers", S!Ask("GET"), <<"GET">>, h, must) BY <1>3, OneRequest
  <2> QED BY <1>1, <1>3, <2>1, Zenon
<1>4. CASE Len(h) # 0
  <2>1. Answers(h[1], place, "GET") BY <1>4, OneRequest
  <2>2. ASSUME must PROVE S!Ok(h[1]) /\ \E f : f \in found
    <3>1. "missing" \notin place.traits /\ "names server" \in place.traits BY <2>2
    <3>3. S!Ok(h[1]) BY <2>1, <3>1, GetIsUsual, OkUsual, ZenonT(60)
    <3>4. "server" \in S!Sends("names server", "GET") BY Zenon DEF S!Sends
    <3>5. "server" \in h[1].header BY <2>1, <3>1, <3>4, AnswerShape, Zenon
    <3>6. "server" \in telling BY <3>5, Zenon DEF S!DANGEROUS_HEADERS
    <3>7. S!Finding("server", "info", "confirmed") \in found BY <3>6, Zenon
    <3> QED BY <3>3, <3>7, Zenon
  <2> HIDE DEF found
  <2>3. must => found # {} BY <2>2, Zenon
  <2>4. Runs("security-headers", S!Report(found), <<"GET">>, h, must)
    BY <1>2, <2>3, RunsForms, Zenon
  <2>5. CASE ~S!Ok(h[1])
    <3>1. Runs("security-headers", S!Nothing, <<"GET">>, h, must) BY <2>2, <2>5, RunsForms, Zenon
    <3> QED BY <1>1, <1>4, <2>5, <3>1, Zenon
  <2>6. CASE S!Ok(h[1]) BY <1>1, <1>4, <2>4, <2>6, Zenon
  <2> QED BY <2>5, <2>6
<1> QED BY <1>3, <1>4

LEMMA CookiesRuns ==
    ASSUME NEW place, NEW h, Scripted(<<"GET">>, place, h), NEW must,
           must => "bare cookie" \in place.traits /\ "missing" \notin place.traits
    PROVE  Runs("cookie-flags", S!Cookies(h), <<"GET">>, h, must)
<1> DEFINE shown == S!Ok(h[1]) /\ "cookie without flags" \in h[1].header
           finding == S!Finding("cookie", "medium", "confirmed")
<1>1. S!Cookies(h) = IF Len(h) = 0 THEN S!Ask("GET") ELSE S!Report(S!When(shown, finding))
  BY Zenon DEF S!Cookies
<1>2. CASE Len(h) = 0
  <2>1. Runs("cookie-flags", S!Ask("GET"), <<"GET">>, h, must) BY <1>2, OneRequest
  <2> QED BY <1>1, <1>2, <2>1, Zenon
<1>3. CASE Len(h) # 0
  <2>1. Answers(h[1], place, "GET") BY <1>3, OneRequest
  <2>2. ASSUME must PROVE shown
    <3>1. "missing" \notin place.traits /\ "bare cookie" \in place.traits BY <2>2
    <3>3. S!Ok(h[1]) BY <2>1, <3>1, GetIsUsual, OkUsual, ZenonT(60)
    <3>4. "cookie without flags" \in S!Sends("bare cookie", "GET") BY Zenon DEF S!Sends
    <3>5. "cookie without flags" \in h[1].header BY <2>1, <3>1, <3>4, AnswerShape, Zenon
    <3> QED BY <3>3, <3>5
  <2> HIDE DEF shown
  <2>3. Owner("cookie") = "cookie-flags" BY OwnersLast
  <2>4. Runs("cookie-flags", S!Report(S!When(shown, finding)), <<"GET">>, h, must)
    BY <2>2, <2>3, WhenRuns
  <2> QED BY <1>1, <1>3, <2>4, Zenon
<1> QED BY <1>2, <1>3

LEMMA StorageRuns ==
    ASSUME NEW place, NEW h, Scripted(<<"listing">>, place, h), NEW must,
           must => "bucket" \in place.traits /\ "missing" \notin place.traits,
           "storage root" \notin place.traits
    PROVE  Runs("cloud-storage", S!CloudStorage(h, place), <<"listing">>, h, must)
<1> DEFINE listing(r) == "<contents>" \in r.body \/ {"accessdenied", "no such bucket"} \cap r.body = {}
           shut == h[1].error \/ h[1].status # 200 \/ ~listing(h[1])
           finding == S!Finding("listing", "high", "confirmed")
<1>1. CASE {"bucket", "storage root"} \cap place.traits = {}
  <2>1. S!CloudStorage(h, place) = S!Nothing BY <1>1, Zenon DEF S!CloudStorage
  <2>2. ~must
    <3>1. "bucket" \notin place.traits BY <1>1, Zenon
    <3> QED BY <3>1
  <2> QED BY <2>1, <2>2, RunsForms, Zenon
<1>2. CASE {"bucket", "storage root"} \cap place.traits # {}
  <2>1. S!CloudStorage(h, place) = IF Len(h) = 0 THEN S!Ask("listing")
                                   ELSE IF shut THEN S!Nothing ELSE S!Report({finding})
    BY <1>2, Zenon DEF S!CloudStorage
  <2>2. CASE Len(h) = 0
    <3>1. Runs("cloud-storage", S!Ask("listing"), <<"listing">>, h, must) BY <2>2, OneRequest
    <3> QED BY <2>1, <2>2, <3>1, Zenon
  <2>3. CASE Len(h) # 0
    <3>1. Answers(h[1], place, "listing") BY <2>3, OneRequest
    <3>2. ASSUME must PROVE ~shut
      <4>1. "missing" \notin place.traits /\ "bucket" \in place.traits BY <3>2
      <4>2. "listing" \notin Special BY Zenon DEF Special, S!Paths
      <4>3. h[1].error = FALSE /\ h[1].status = 200 BY <3>1, <4>1, <4>2, OkUsual, ZenonT(60)
      <4>4. "<contents>" \in S!Adds("bucket", "listing") BY Zenon DEF S!Adds
      <4>5. "<contents>" \in h[1].body BY <3>1, <4>1, <4>4, AnswerShape, Zenon
      <4> QED BY <4>3, <4>5, Zenon
    <3>3. CASE shut
      <4>1. S!CloudStorage(h, place) = S!Nothing BY <2>1, <2>3, <3>3, Zenon
      <4> HIDE DEF shut
      <4> QED BY <3>2, <3>3, <4>1, RunsForms, Zenon
    <3>4. CASE ~shut
      <4>1. S!CloudStorage(h, place) = S!Report({finding}) BY <2>1, <2>3, <3>4, Zenon
      <4>2. Owner("listing") = "cloud-storage" BY OwnersLast
      <4>3. Runs("cloud-storage", S!Report({finding}), <<"listing">>, h, must) BY <4>2, OneReported
      <4> QED BY <4>1, <4>3
    <3> HIDE DEF shut
    <3> QED BY <3>3, <3>4
  <2> QED BY <2>2, <2>3
<1> QED BY <1>1, <1>2

LEMMA TokensRuns ==
    ASSUME NEW place, NEW n, NEW h, NEW before, Scripted(<<"GET">>, place, h), NEW must,
           must => /\ before = {}
                   /\ \/ "unsigned token" \in place.traits
                      \/ n = 1 /\ "token cookie" \in place.traits
    PROVE  Runs("token-audit", S!Tokens(h, place, n, before), <<"GET">>, h, must)
<1> DEFINE known(token) == \E f \in before, g \in S!AuditJwt(token) : f.title = g.title
           tokens == {t \in {"unsigned jwt", "loose jwt"} :
                         t \in h[1].body \/ (n = 1 /\ t \in h[1].header)}
           fresh == {u \in tokens : ~known(u)}
           audited == UNION {S!AuditJwt(t) : t \in fresh}
           session == n = 1 /\ "cookie session" \in h[1].header
           visible == place.kind = "token"
           short == S!When(session, S!Finding("short session", "medium", "probable"))
           url == S!When(visible, S!Finding("token in URL", "medium", "confirmed"))
           found == audited \cup short \cup url
<1>1. S!Tokens(h, place, n, before) = IF Len(h) = 0 THEN S!Ask("GET")
                                      ELSE IF h[1].error THEN S!Nothing ELSE S!Report(found)
  BY Zenon DEF S!Tokens
<1>2. \A f \in found : Owner(f.title) = "token-audit"
  <2>1. \A t : \A f \in S!AuditJwt(t) : Owner(f.title) = "token-audit"
    <3>1. \A x, y, z : S!Finding(x, y, z).title = x BY Zenon DEF S!Finding
    <3> SUFFICES ASSUME NEW t, NEW f \in S!AuditJwt(t) PROVE Owner(f.title) = "token-audit"
      BY Zenon
    <3>2. f.title = "alg none" \/ f.title = "no expiry" \/ f.title = "personal data"
      <4>1. CASE t = "unsigned jwt"
        <5>1. f = S!Finding("alg none", "critical", "confirmed") BY <4>1, Zenon DEF S!AuditJwt
        <5> QED BY <3>1, <5>1, Zenon
      <4>2. CASE t # "unsigned jwt"
        <5>1. \/ f = S!Finding("no expiry", "medium", "confirmed")
              \/ f = S!Finding("personal data", "low", "confirmed")
          BY <4>2, Zenon DEF S!AuditJwt
        <5>2. CASE f = S!Finding("no expiry", "medium", "confirmed")
          <6>1. f.title = "no expiry" BY <3>1, <5>2, Zenon
          <6> QED BY <6>1, Zenon
        <5>3. CASE f = S!Finding("personal data", "low", "confirmed")
          <6>1. f.title = "personal data" BY <3>1, <5>3, Zenon
          <6> QED BY <6>1, Zenon
        <5> QED BY <5>1, <5>2, <5>3
      <4> QED BY <4>1, <4>2
    <3> QED BY <3>2, OwnersLast, Zenon
  <2>2. \A f \in audited : Owner(f.title) = "token-audit"
    <3> HIDE DEF fresh
    <3> QED BY <2>1, Zenon
  <2> HIDE DEF session, visible
  <2>3. \A f \in short : f.title = "short session"
    <3> SUFFICES ASSUME NEW f \in short PROVE f.title = "short session" BY Zenon
    <3>1. f = S!Finding("short session", "medium", "probable") BY Zenon DEF S!When
    <3>2. S!Finding("short session", "medium", "probable").title = "short session" BY Zenon DEF S!Finding
    <3> HIDE DEF short
    <3> QED BY <3>1, <3>2, Zenon
  <2>4. \A f \in url : f.title = "token in URL"
    <3> SUFFICES ASSUME NEW f \in url PROVE f.title = "token in URL" BY Zenon
    <3>1. f = S!Finding("token in URL", "medium", "confirmed") BY Zenon DEF S!When
    <3>2. S!Finding("token in URL", "medium", "confirmed").title = "token in URL" BY Zenon DEF S!Finding
    <3> HIDE DEF url
    <3> QED BY <3>1, <3>2, Zenon
  <2> HIDE DEF audited, short, url
  <2> QED BY <2>2, <2>3, <2>4, OwnersLast, Zenon
<1>3. CASE Len(h) = 0
  <2>1. Runs("token-audit", S!Ask("GET"), <<"GET">>, h, must) BY <1>3, OneRequest
  <2> QED BY <1>1, <1>3, <2>1, Zenon
<1>4. CASE Len(h) # 0
  <2>1. Answers(h[1], place, "GET") BY <1>4, OneRequest
  <2>2. h[1].error = FALSE BY <2>1, AnswerShape
  <2>3. ASSUME must PROVE \E f : f \in found
    <3>1. \E t : t \in tokens
      <4>1. CASE "unsigned token" \in place.traits
        <5>1. "unsigned jwt" \in S!Adds("unsigned token", "GET") BY Zenon DEF S!Adds
        <5>2. "unsigned jwt" \in h[1].body BY <2>1, <4>1, <5>1, AnswerShape, Zenon
        <5> QED BY <5>2, Zenon
      <4>2. CASE n = 1 /\ "token cookie" \in place.traits
        <5>1. "loose jwt" \in S!Sends("token cookie", "GET") BY Zenon DEF S!Sends
        <5>2. "loose jwt" \in h[1].header BY <2>1, <4>2, <5>1, AnswerShape, Zenon
        <5> QED BY <4>2, <5>2, Zenon
      <4> QED BY <2>3, <4>1, <4>2
    <3>2. \A t : ~known(t) BY <2>3, Zenon
    <3> HIDE DEF tokens, known
    <3>3. PICK t \in fresh : TRUE BY <3>1, <3>2, Zenon
    <3>4. \E f : f \in S!AuditJwt(t) BY Zenon DEF S!AuditJwt
    <3> HIDE DEF fresh, short, url
    <3> QED BY <3>3, <3>4, Zenon
  <2> HIDE DEF found
  <2>4. must => found # {} BY <2>3, Zenon
  <2>5. Runs("token-audit", S!Report(found), <<"GET">>, h, must) BY <1>2, <2>4, RunsForms, Zenon
  <2> QED BY <1>1, <1>4, <2>2, <2>5, Zenon
<1> QED BY <1>3, <1>4

LEMMA IDORRuns ==
    ASSUME NEW place, NEW h, Scripted(<<"original", "neighbour">>, place, h), NEW must,
           must => "open objects" \in place.traits /\ "missing" \notin place.traits
    PROVE  Runs("idor", S!IDOR(h), <<"original", "neighbour">>, h, must)
<1> DEFINE script == <<"original", "neighbour">>
           shut == ~S!Ok(h[1]) \/ h[1].status # 200 \/ h[1].page = "blank"
           shown == ~h[2].error /\ h[2].status = 200 /\ S!Raw(h[1]) # S!Raw(h[2])
           finding == S!Finding("idor", "medium", "tentative")
<1>1. /\ Len(script) = 2 /\ Len(script) \in Nat /\ script[1] = "original"
      /\ script[2] = "neighbour"
  BY TupleTwo, Zenon
<1>2. S!IDOR(h) = IF Len(h) = 0 THEN S!Ask("original")
                  ELSE IF shut THEN S!Nothing
                  ELSE IF Len(h) = 1 THEN S!Ask("neighbour")
                  ELSE S!Report(S!When(shown, finding))
  BY Zenon DEF S!IDOR
<1> HIDE DEF script
<1> SUFFICES Runs("idor", S!IDOR(h), script, h, must) BY DEF script
<1>3. /\ Len(h) \in Nat /\ (\A i \in 1 .. Len(h) : Answers(h[i], place, script[i]))
      /\ (~(Len(h) < 2) => Len(h) = 2)
  BY <1>1, ScriptedShape DEF script
<1>4. CASE Len(h) = 0
  <2>1. Len(h) < 2 /\ Len(h) + 1 = 1 BY <1>3, <1>4, UpToFour, Zenon
  <2>2. S!IDOR(h) = S!Ask("original") BY <1>2, <1>4, Zenon
  <2> QED BY <1>1, <2>1, <2>2, AsksNext, Zenon
<1>5. ASSUME Len(h) # 0, must
      PROVE  h[1].error = FALSE /\ h[1].status = 200 /\ h[1].page = "usual" /\ ~shut
  <2>1. 1 \in 1 .. Len(h) BY <1>3, <1>5, UpToFour
  <2>2. Answers(h[1], place, "original") BY <1>1, <1>3, <2>1
  <2>3. "missing" \notin place.traits BY <1>5
  <2>4. "original" \notin Special BY Zenon DEF Special, S!Paths
  <2>5. S!Ok(h[1]) /\ h[1].error = FALSE /\ h[1].status = 200 BY <2>2, <2>3, <2>4, OkUsual, ZenonT(60)
  <2>6. "original" # "false" /\ "original" # "neighbour" /\ "usual" # "blank" BY Zenon
  <2>7. h[1].page = "usual" BY <2>2, <2>6, AnswerShape, Zenon
  <2> QED BY <2>5, <2>6, <2>7, Zenon
<1>6. CASE Len(h) # 0 /\ shut
  <2>1. S!IDOR(h) = S!Nothing BY <1>2, <1>6, Zenon
  <2> HIDE DEF shut
  <2> QED BY <1>5, <1>6, <2>1, RunsForms, Zenon
<1>7. CASE Len(h) = 1 /\ ~shut
  <2>1. Len(h) < 2 /\ Len(h) # 0 /\ Len(h) + 1 = 2 BY <1>3, <1>7, UpToFour, Zenon
  <2> HIDE DEF shut
  <2>2. S!IDOR(h) = S!Ask("neighbour") BY <1>2, <1>7, <2>1, Zenon
  <2> QED BY <1>1, <2>1, <2>2, AsksNext, Zenon
<1>8. CASE Len(h) = 2 /\ ~shut
  <2>1. Len(h) # 0 /\ Len(h) # 1 /\ 2 \in 1 .. Len(h) BY <1>3, <1>8, UpToFour
  <2>2. Answers(h[2], place, "neighbour") BY <1>1, <1>3, <2>1
  <2>3. ASSUME must PROVE shown
    <3>1. "missing" \notin place.traits /\ "open objects" \in place.traits BY <2>3
    <3>2. "neighbour" \notin Special BY Zenon DEF Special, S!Paths
    <3>3. h[2].error = FALSE /\ h[2].status = 200 BY <2>2, <3>1, <3>2, OkUsual, ZenonT(60)
    <3>4. h[2].page = "other"
      <4>1. "neighbour" = "neighbour" OBVIOUS
      <4> QED BY <2>2, <3>1, <4>1, AnswerShape, Zenon
    <3>5. h[1].page = "usual" BY <1>5, <2>1, <2>3, Zenon
    <3>6. "other" # "usual" BY Zenon
    <3>7. S!Raw(h[1]) # S!Raw(h[2]) BY <3>4, <3>5, <3>6, Zenon DEF S!Raw
    <3> QED BY <3>3, <3>7, Zenon
  <2> HIDE DEF shut, shown
  <2>4. S!IDOR(h) = S!Report(S!When(shown, finding)) BY <1>2, <1>8, <2>1, Zenon
  <2>5. Owner("idor") = "idor" BY OwnersMore
  <2>6. Runs("idor", S!Report(S!When(shown, finding)), script, h, must) BY <2>3, <2>5, WhenRuns
  <2> QED BY <2>4, <2>6
<1>9. Len(h) = 0 \/ Len(h) = 1 \/ Len(h) = 2 BY <1>3, UpToFour, UpToTwo, Zenon
<1>10. Len(h) = 1 \/ Len(h) = 2 => Len(h) # 0 BY <1>3, UpToFour, Zenon
<1> HIDE DEF shut
<1> QED BY <1>4, <1>6, <1>7, <1>8, <1>9, <1>10

LEMMA TupleFive ==
    ASSUME NEW a, NEW b, NEW d, NEW e, NEW g, NEW s, s = <<a, b, d, e, g>>, NEW p, p = <<b, d, e, g>>
    PROVE  Len(s) = 5 /\ Len(s) \in Nat /\ s[1] = a /\ s[2] = b /\ \A k \in 1 .. 4 : s[k + 1] = p[k]
OBVIOUS

\* How far a check is with the requests that follow a first one.
LEMMA AfterFirst ==
    ASSUME NEW n \in Nat, NEW m \in Nat, n = m + 1
    PROVE  /\ m < 4 => n < 5 /\ m + 1 \in 1 .. 4
           /\ ~(m < 4) => 1 \in 1 .. m /\ 1 + 1 = 2 /\ 2 \in 1 .. n
           /\ 0 < 5 /\ 0 + 1 = 1
OBVIOUS

LEMMA UpToFive == 0 < 5 /\ 0 + 1 = 1
OBVIOUS

LEMMA FourOnly ==
    ASSUME NEW n, n = 4, NEW i \in 1 .. n PROVE i = 1 \/ i = 2 \/ i = 3 \/ i = 4
OBVIOUS

LEMMA SSRFTuples ==
    LET script == <<"benign URL", "loopback", "link-local", "reserved-tld", "file-scheme">>
        probes == <<"loopback", "link-local", "reserved-tld", "file-scheme">>
    IN  /\ Len(script) = 5 /\ Len(script) \in Nat /\ script[1] = "benign URL"
        /\ script[2] = "loopback" /\ \A k \in 1 .. 4 : script[k + 1] = probes[k]
<1> DEFINE script == <<"benign URL", "loopback", "link-local", "reserved-tld", "file-scheme">>
           probes == <<"loopback", "link-local", "reserved-tld", "file-scheme">>
<1> DEFINE z == "benign URL"
           a == "loopback"
           b == "link-local"
           d == "reserved-tld"
           e == "file-scheme"
<1>1. script = <<z, a, b, d, e>> /\ probes = <<a, b, d, e>> OBVIOUS
<1> HIDE DEF script, probes, z, a, b, d, e
<1>2. /\ Len(script) = 5 /\ Len(script) \in Nat /\ script[1] = z /\ script[2] = a
      /\ \A k \in 1 .. 4 : script[k + 1] = probes[k]
  BY <1>1, TupleFive
<1> QED BY <1>2 DEF z, a, script, probes

LEMMA SSRFRuns ==
    ASSUME NEW place, NEW h, NEW must,
           Scripted(<<"benign URL", "loopback", "link-local", "reserved-tld", "file-scheme">>, place, h),
           must => "dials" \in place.traits
    PROVE  Runs("ssrf", S!SSRF(h),
                <<"benign URL", "loopback", "link-local", "reserved-tld", "file-scheme">>, h, must)
<1> DEFINE script == <<"benign URL", "loopback", "link-local", "reserved-tld", "file-scheme">>
           probes == <<"loopback", "link-local", "reserved-tld", "file-scheme">>
           rest == Tail(h)
           shows(kind, r) == IF r.error THEN {} ELSE S!Classify(kind, r)
           found == UNION {shows(probes[i], rest[i]) : i \in 1 .. Len(probes)}
<1>1. /\ Len(script) = 5 /\ Len(script) \in Nat /\ script[1] = "benign URL" /\ script[2] = "loopback"
      /\ \A k \in 1 .. 4 : script[k + 1] = probes[k] BY SSRFTuples
<1>2. /\ Len(probes) = 4 /\ probes[1] = "loopback" /\ probes[2] = "link-local"
      /\ probes[3] = "reserved-tld" /\ probes[4] = "file-scheme"
  BY TupleFour, Zenon
<1>3. S!SSRF(h) = IF Len(h) = 0 THEN S!Ask("benign URL")
                  ELSE IF h[1].error THEN S!Nothing
                  ELSE IF Len(rest) < Len(probes) THEN S!Ask(probes[Len(rest) + 1])
                  ELSE S!Report(found)
  BY Zenon DEF S!SSRF, S!EachOf
<1> HIDE DEF script
<1> SUFFICES Runs("ssrf", S!SSRF(h), script, h, must) BY DEF script
<1>4. /\ Len(h) \in Nat /\ (\A i \in 1 .. Len(h) : Answers(h[i], place, script[i]))
      /\ \E R : h \in Seq(R)
  BY <1>1, ScriptedShape DEF script, Scripted
<1>5. CASE Len(h) = 0
  <2>1. 0 < 5 /\ 0 + 1 = 1 BY UpToFive
  <2>2. S!SSRF(h) = S!Ask("benign URL") BY <1>3, <1>5, Zenon
  <2>3. Len(h) < Len(script) /\ Len(h) + 1 = 1 BY <1>1, <1>5, <2>1, Zenon
  <2>4. script[1] = "benign URL" BY <1>1
  <2> QED BY <2>2, <2>3, <2>4, AsksNext, Zenon
<1>6. CASE Len(h) # 0
  <2>1. 1 \in 1 .. Len(h) BY <1>4, <1>6, UpToFour
  <2>2. Answers(h[1], place, "benign URL") BY <1>1, <1>4, <2>1
  <2>3. h[1].error = FALSE BY <2>2, AnswerShape
  <2>4. /\ Len(rest) \in Nat /\ Len(h) = Len(rest) + 1
        /\ \A i \in 1 .. Len(rest) : rest[i] = h[i + 1]
    BY <1>4, <1>6, TailShape
  <2>5. \A f \in found : Owner(f.title) = "ssrf"
    <3>1. ASSUME NEW i \in 1 .. Len(probes) PROVE Owner(probes[i]) = "ssrf"
      <4>1. i = 1 \/ i = 2 \/ i = 3 \/ i = 4
        <5> HIDE DEF probes
        <5>1. Len(probes) = 4 BY <1>2
        <5> QED BY <3>1, <5>1, FourOnly, Zenon
      <4> HIDE DEF probes
      <4> QED BY <1>2, <4>1, OwnersMore, Zenon
    <3>2. \A kind, r : \A f \in shows(kind, r) : f.title = kind
      <4> SUFFICES ASSUME NEW kind, NEW r, NEW f \in S!Classify(kind, r) PROVE f.title = kind
        BY Zenon
      <4> DEFINE file == "local file" \in r.body
                 meta == "meta-data" \in r.body
                 dial == "dial error" \in r.body
      <4>1. \/ S!Classify(kind, r) = S!When(file, S!Finding(kind, "critical", "confirmed"))
            \/ S!Classify(kind, r) = S!When(meta, S!Finding(kind, "critical", "confirmed"))
            \/ S!Classify(kind, r) = S!When(dial, S!Finding(kind, "high", "confirmed"))
        BY Zenon DEF S!Classify
      <4> HIDE DEF file, meta, dial
      <4>2. CASE S!Classify(kind, r) = S!When(file, S!Finding(kind, "critical", "confirmed"))
        <5>2. \A g \in S!When(file, S!Finding(kind, "critical", "confirmed")) : g.title = kind
          BY WhenShows, Zenon
        <5>1. f \in S!When(file, S!Finding(kind, "critical", "confirmed")) BY <4>2
        <5> QED BY <5>1, <5>2, Zenon
      <4>3. CASE S!Classify(kind, r) = S!When(meta, S!Finding(kind, "critical", "confirmed"))
        <5>2. \A g \in S!When(meta, S!Finding(kind, "critical", "confirmed")) : g.title = kind
          BY WhenShows, Zenon
        <5>1. f \in S!When(meta, S!Finding(kind, "critical", "confirmed")) BY <4>3
        <5> QED BY <5>1, <5>2, Zenon
      <4>4. CASE S!Classify(kind, r) = S!When(dial, S!Finding(kind, "high", "confirmed"))
        <5>2. \A g \in S!When(dial, S!Finding(kind, "high", "confirmed")) : g.title = kind
          BY WhenShows, Zenon
        <5>1. f \in S!When(dial, S!Finding(kind, "high", "confirmed")) BY <4>4
        <5> QED BY <5>1, <5>2, Zenon
      <4> QED BY <4>1, <4>2, <4>3, <4>4
    <3> HIDE DEF shows, probes
    <3> SUFFICES ASSUME NEW f \in found PROVE Owner(f.title) = "ssrf" OBVIOUS
    <3>3. PICK i \in 1 .. Len(probes) : f \in shows(probes[i], rest[i]) BY Zenon
    <3>4. f.title = probes[i] BY <3>2, <3>3, Zenon
    <3> QED BY <3>1, <3>4, Zenon
  <2> HIDE DEF probes, rest
  <2>6. CASE Len(rest) < 4
    <3>1. Len(h) < 5 /\ Len(rest) + 1 \in 1 .. 4 BY <1>4, <2>4, <2>6, AfterFirst, Zenon
    <3> DEFINE k == Len(rest) + 1
    <3>2. S!SSRF(h) = S!Ask(probes[k]) BY <1>2, <1>3, <1>6, <2>3, <2>6, Zenon
    <3>3. script[k + 1] = probes[k] BY <1>1, <3>1
    <3>4. script[Len(h) + 1] = probes[k] BY <2>4, <3>3, Zenon
    <3>5. Runs("ssrf", S!Ask(script[Len(h) + 1]), script, h, must) BY <1>1, <3>1, RunsForms, Zenon
    <3> QED BY <3>2, <3>4, <3>5, Zenon
  <2>7. CASE ~(Len(rest) < 4)
    <3>1. S!SSRF(h) = S!Report(found) BY <1>2, <1>3, <1>6, <2>3, <2>7, Zenon
    <3>2. ASSUME must PROVE \E f : f \in found
      <4>1. 1 \in 1 .. Len(rest) /\ 1 + 1 = 2 /\ 2 \in 1 .. Len(h) BY <1>4, <2>4, <2>7, AfterFirst, Zenon
      <4>2. rest[1] = h[1 + 1] BY <2>4, <4>1, Zenon
      <4>3. rest[1] = h[2] BY <4>1, <4>2, Zenon
      <4>4. Answers(rest[1], place, "loopback") BY <1>1, <1>4, <4>1, <4>3, Zenon
      <4>5. "dial error" \in S!Adds("dials", "loopback") BY Zenon DEF S!Adds
      <4>6. "dial error" \in rest[1].body BY <3>2, <4>4, <4>5, AnswerShape, Zenon
      <4>7. rest[1].error = FALSE BY <4>4, AnswerShape
      <4>8. \E f : f \in S!Classify("loopback", rest[1]) BY <4>6, Zenon DEF S!Classify, S!When
      <4>9. \E f : f \in shows("loopback", rest[1]) BY <4>7, <4>8, Zenon
      <4>10. 1 \in 1 .. Len(probes) BY <1>2, UpToFour
      <4> HIDE DEF shows
      <4> QED BY <1>2, <4>9, <4>10, Zenon
    <3> HIDE DEF found
    <3>3. must => found # {} BY <3>2, Zenon
    <3>4. Runs("ssrf", S!Report(found), script, h, must) BY <2>5, <3>3, RunsForms, Zenon
    <3> QED BY <3>1, <3>4
  <2> QED BY <2>6, <2>7
<1> QED BY <1>5, <1>6

\* The requests of dangerous-methods.
Verbs == S!Permitted("TRACE") \o S!Permitted("PROPFIND") \o S!Permitted("OPTIONS")

LEMMA Joined ==
    ASSUME NEW a, NEW b, NEW d, NEW p, NEW q, NEW s,
           p = <<a>> \/ p = <<>>, q = <<b>> \/ q = <<>>, s = <<d>> \/ s = <<>>
    PROVE  /\ Len(p \o q \o s) \in Nat
           /\ \A i \in 1 .. Len(p \o q \o s) : (p \o q \o s)[i] \in {a, b, d}
           /\ p = <<a>> => 1 \in 1 .. Len(p \o q \o s) /\ (p \o q \o s)[1] = a
           /\ s = <<d>> => \E i \in 1 .. Len(p \o q \o s) : (p \o q \o s)[i] = d
<1> DEFINE R == {a, b, d}
           t == p \o q
           u == t \o s
<1>1. p \in Seq(R) /\ q \in Seq(R) /\ s \in Seq(R)
  <2>1. <<>> \in Seq(R) /\ <<a>> \in Seq(R) /\ <<b>> \in Seq(R) /\ <<d>> \in Seq(R) OBVIOUS
  <2> HIDE DEF R
  <2> QED BY <2>1
<1>2. t \in Seq(R) /\ Len(t) = Len(p) + Len(q) BY <1>1
<1>3. p = <<a>> => Len(t) \in Nat \ {0} /\ t[1] = a
  <2> SUFFICES ASSUME p = <<a>> PROVE Len(t) \in Nat \ {0} /\ t[1] = a OBVIOUS
  <2>1. Len(p) = 1 /\ p[1] = a OBVIOUS
  <2>2. t[1] = p[1] BY <1>1, <2>1
  <2> QED BY <1>1, <1>2, <2>1, <2>2
<1> HIDE DEF t
<1>4. u \in Seq(R) /\ Len(u) = Len(t) + Len(s) BY <1>1, <1>2
<1>5. \A i \in 1 .. Len(u) : u[i] \in R BY <1>4
<1>6. p = <<a>> => 1 \in 1 .. Len(u) /\ u[1] = a
  <2> SUFFICES ASSUME p = <<a>> PROVE 1 \in 1 .. Len(u) /\ u[1] = a OBVIOUS
  <2>1. Len(t) \in Nat \ {0} /\ t[1] = a BY <1>3
  <2>2. u[1] = t[1] BY <1>1, <1>2, <2>1
  <2> QED BY <1>1, <1>4, <2>1, <2>2
<1>7. s = <<d>> => \E i \in 1 .. Len(u) : u[i] = d
  <2> SUFFICES ASSUME s = <<d>> PROVE \E i \in 1 .. Len(u) : u[i] = d OBVIOUS
  <2>1. Len(s) = 1 /\ s[1] = d OBVIOUS
  <2>2. u[Len(t) + 1] = s[1] BY <1>1, <1>2, <2>1
  <2>3. Len(t) + 1 \in 1 .. Len(u) BY <1>2, <1>4, <2>1
  <2> QED BY <2>1, <2>2, <2>3
<1> HIDE DEF u
<1>8. Len(u) \in Nat BY <1>4
<1> QED BY <1>5, <1>6, <1>7, <1>8 DEF u, t

LEMMA VerbsTuple ==
    /\ Len(Verbs) \in Nat
    /\ \A i \in 1 .. Len(Verbs) : Verbs[i] \in {"TRACE", "PROPFIND", "OPTIONS"}
    /\ S!Permitted("TRACE") = <<"TRACE">> => 1 \in 1 .. Len(Verbs) /\ Verbs[1] = "TRACE"
    /\ S!Permitted("OPTIONS") = <<"OPTIONS">> => \E i \in 1 .. Len(Verbs) : Verbs[i] = "OPTIONS"
<1> DEFINE p == S!Permitted("TRACE")
           q == S!Permitted("PROPFIND")
           s == S!Permitted("OPTIONS")
<1>1. /\ p = <<"TRACE">> \/ p = <<>>
      /\ q = <<"PROPFIND">> \/ q = <<>>
      /\ s = <<"OPTIONS">> \/ s = <<>>
  BY Zenon DEF S!Permitted
<1>2. Verbs = p \o q \o s BY DEF Verbs
<1> DEFINE a == "TRACE"
           b == "PROPFIND"
           d == "OPTIONS"
<1>3. (p = <<a>> \/ p = <<>>) /\ (q = <<b>> \/ q = <<>>) /\ (s = <<d>> \/ s = <<>>) BY <1>1, Zenon
<1> HIDE DEF p, q, s, a, b, d
<1> DEFINE w == p \o q \o s
<1>4. /\ Len(w) \in Nat
      /\ \A i \in 1 .. Len(w) : w[i] \in {a, b, d}
      /\ p = <<a>> => 1 \in 1 .. Len(w) /\ w[1] = a
      /\ s = <<d>> => \E i \in 1 .. Len(w) : w[i] = d
  BY <1>3, Joined
<1>5. Verbs = w BY <1>2
<1> HIDE DEF w
<1>6. /\ Len(Verbs) \in Nat
      /\ \A i \in 1 .. Len(Verbs) : Verbs[i] \in {a, b, d}
      /\ p = <<a>> => 1 \in 1 .. Len(Verbs) /\ Verbs[1] = a
      /\ s = <<d>> => \E i \in 1 .. Len(Verbs) : Verbs[i] = d
  BY <1>4, <1>5
<1> QED BY <1>6, Zenon DEF a, b, d, p, s

LEMMA VerbsRuns ==
    ASSUME NEW place, NEW h, Scripted(Verbs, place, h), NEW must,
           must => /\ "TRACE on" \in place.traits /\ "missing" \notin place.traits
                   /\ {"TRACE", "OPTIONS"} \cap AllowedMethods # {}
    PROVE  Runs("dangerous-methods", S!HTTPMethods(h), Verbs, h, must)
<1> DEFINE put(r) == ~r.error /\ "allow: PUT" \in r.header
           taken(r) == ~r.error /\ r.status \in {200, 201, 204}
           shows(verb, r) == IF verb = "OPTIONS"
                             THEN S!When(put(r), S!Finding("PUT", "low", "probable"))
                             ELSE S!When(taken(r), S!Finding(verb, "medium", "confirmed"))
           found == UNION {shows(Verbs[i], h[i]) : i \in 1 .. Len(Verbs)}
           p == S!Permitted("TRACE")
           q == S!Permitted("PROPFIND")
           s == S!Permitted("OPTIONS")
<1>1. /\ Len(Verbs) \in Nat
      /\ \A i \in 1 .. Len(Verbs) : Verbs[i] \in {"TRACE", "PROPFIND", "OPTIONS"}
      /\ p = <<"TRACE">> => 1 \in 1 .. Len(Verbs) /\ Verbs[1] = "TRACE"
      /\ s = <<"OPTIONS">> => \E i \in 1 .. Len(Verbs) : Verbs[i] = "OPTIONS" BY VerbsTuple
<1>2. S!HTTPMethods(h) = IF Len(h) < Len(Verbs) THEN S!Ask(Verbs[Len(h) + 1]) ELSE S!Report(found)
  BY Zenon DEF S!HTTPMethods, S!EachOf, Verbs
<1>3. \A verb \in {"TRACE", "PROPFIND", "OPTIONS"} : \A r : \A f \in shows(verb, r) :
         Owner(f.title) = "dangerous-methods"
  <2> SUFFICES ASSUME NEW verb \in {"TRACE", "PROPFIND", "OPTIONS"}, NEW r, NEW f \in shows(verb, r)
               PROVE  Owner(f.title) = "dangerous-methods"
    BY Zenon
  <2> DEFINE a == put(r)
             b == taken(r)
  <2>1. CASE verb = "OPTIONS"
    <3>1. f \in S!When(a, S!Finding("PUT", "low", "probable")) BY <2>1, Zenon
    <3> HIDE DEF a
    <3>2. \A g \in S!When(a, S!Finding("PUT", "low", "probable")) : g.title = "PUT" BY WhenShows, Zenon
    <3>3. f.title = "PUT" BY <3>1, <3>2, Zenon
    <3> QED BY <3>3, OwnersMore, Zenon
  <2>2. CASE verb # "OPTIONS"
    <3>1. f \in S!When(b, S!Finding(verb, "medium", "confirmed")) BY <2>2, Zenon
    <3> HIDE DEF b
    <3>2. \A g \in S!When(b, S!Finding(verb, "medium", "confirmed")) : g.title = verb
      <4> DEFINE medium == "medium"
                 sure == "confirmed"
      <4> HIDE DEF medium, sure
      <4>1. \A g \in S!When(b, S!Finding(verb, medium, sure)) : g.title = verb
        <5>1. S!Finding(verb, medium, sure).title = verb BY Zenon DEF S!Finding
        <5> QED BY <5>1, Zenon DEF S!When
      <4> QED BY <4>1 DEF medium, sure
    <3>3. f.title = verb BY <3>1, <3>2, Zenon
    <3>4. verb = "TRACE" \/ verb = "PROPFIND" BY <2>2, Zenon
    <3> QED BY <3>3, <3>4, OwnersMore, Zenon
  <2> QED BY <2>1, <2>2
<1>4. \A f \in found : Owner(f.title) = "dangerous-methods"
  <2> HIDE DEF shows
  <2> SUFFICES ASSUME NEW f \in found PROVE Owner(f.title) = "dangerous-methods" OBVIOUS
  <2>1. PICK i \in 1 .. Len(Verbs) : f \in shows(Verbs[i], h[i]) BY Zenon
  <2> QED BY <1>1, <1>3, <2>1, Zenon
<1>5. ASSUME must, ~(Len(h) < Len(Verbs)) PROVE \E f : f \in found
  <2>1. \A i \in 1 .. Len(Verbs) : Answers(h[i], place, Verbs[i]) BY <1>1, <1>5, ScriptedShape
  <2>2. "TRACE on" \in place.traits /\ "missing" \notin place.traits BY <1>5
  <2>3. CASE "TRACE" \in AllowedMethods
    <3>1. p = <<"TRACE">> BY <2>3, Zenon DEF S!Permitted
    <3> HIDE DEF p
    <3>2. 1 \in 1 .. Len(Verbs) /\ Answers(h[1], place, "TRACE") BY <1>1, <2>1, <3>1
    <3>3. h[1].error = FALSE /\ h[1].status = S!Status(place.traits, "TRACE") BY <3>2, AnswerShape
    <3>4. S!Status(place.traits, "TRACE") = 200 BY <2>2, Zenon DEF S!Status
    <3>5. h[1].status = 200 BY <3>3, <3>4, Zenon
    <3>6. taken(h[1]) BY <3>3, <3>5, Zenon
    <3>7. "TRACE" # "OPTIONS" BY Zenon
    <3>8. \E f : f \in shows("TRACE", h[1]) BY <3>6, <3>7, Zenon DEF S!When
    <3> HIDE DEF shows
    <3>9. \E f : f \in shows(Verbs[1], h[1]) BY <1>1, <3>1, <3>8, Zenon
    <3> QED BY <3>2, <3>9, Zenon
  <2>4. CASE "TRACE" \notin AllowedMethods
    <3>1. "OPTIONS" \in AllowedMethods BY <1>5, <2>4, Zenon
    <3>2. s = <<"OPTIONS">> BY <3>1, Zenon DEF S!Permitted
    <3> HIDE DEF s
    <3>3. PICK i \in 1 .. Len(Verbs) : Verbs[i] = "OPTIONS" BY <1>1, <3>2
    <3>4. Answers(h[i], place, "OPTIONS") BY <2>1, <3>3
    <3>5. "allow: PUT" \in S!Sends("TRACE on", "OPTIONS") BY Zenon DEF S!Sends
    <3>6. "allow: PUT" \in h[i].header BY <2>2, <3>4, <3>5, AnswerShape, Zenon
    <3>7. h[i].error = FALSE BY <3>4, AnswerShape
    <3>8. \E f : f \in shows("OPTIONS", h[i]) BY <3>6, <3>7, Zenon DEF S!When
    <3> HIDE DEF shows
    <3> QED BY <3>3, <3>8, Zenon
  <2> QED BY <2>3, <2>4
<1> HIDE DEF found
<1> QED BY <1>2, <1>4, <1>5, EachRuns, Zenon

\* The requests check c sends a place, as far as it needs them.
Script(c, place) ==
    CASE c = "sql-injection" -> <<"original", "quote", "true", "false">>
      [] c = "reflected-xss" -> <<"script">>
      [] c = "template-injection" -> <<"engine A", "engine B">>
      [] c = "path-traversal" -> PathScript(place)
      [] c = "command-injection" -> <<"echo A", "echo B", "echo again", "sleep">>
      [] c = "nosql-injection" -> <<"no such user", "operator A", "operator B">>
      [] c = "xxe" -> <<"internal entity", "external entity">>
      [] c = "ssrf" -> <<"benign URL", "loopback", "link-local", "reserved-tld", "file-scheme">>
      [] c = "idor" -> <<"original", "neighbour">>
      [] c = "dangerous-methods" -> Verbs
      [] c = "open-redirect" -> <<"redirect">>
      [] c = "transport-security" -> <<"GET">>
      [] c = "sensitive-files" -> S!SENSITIVE_PATHS
      [] c = "directory-listing" -> <<"/", "/uploads/">>
      [] c = "verbose-errors" -> <<"GET">>
      [] c = "cors-misconfiguration" -> <<"Origin">>
      [] c = "admin-surface" -> S!ADMIN_PATHS
      [] c = "graphql-introspection" -> <<"/graphql", "/query">>
      [] c = "security-headers" -> <<"GET">>
      [] c = "cookie-flags" -> <<"GET">>
      [] c = "token-audit" -> <<"GET">>
      [] c = "crlf-injection" -> <<"crlf">>
      [] c = "host-header-injection" -> <<"Host", "X-Forwarded-Host">>
      [] c = "subdomain-takeover" -> <<"host root">>
      [] c = "cloud-storage" -> <<"listing">>

\* A place reveals a weakness to check c that visits it as its n-th, and has found this
\* elsewhere.
Reveals(c, place, n, found) ==
    LET unread == IF c = "token-audit" /\ n # 1 THEN {"token cookie"} ELSE {}
    IN  /\ (place.traits \cap S!Weakness(c)) \ unread # {}
        /\ place.traits \cap Hiding(c) = {}
        /\ c = "dangerous-methods" => {"TRACE", "OPTIONS"} \cap AllowedMethods # {}
        /\ c = "token-audit" => found = {}
        /\ c = "command-injection" /\ "shell" \notin place.traits => found = {} /\ n <= TimingLimit

\* What check c does, at a place whose responses are those of its script.
LEMMA StepRuns ==
    ASSUME NEW c \in S!CheckNames, NEW place, NEW n, NEW h, NEW found,
           Scripted(Script(c, place), place, h),
           ~(c = "cloud-storage" /\ "storage root" \in place.traits)
    PROVE  Runs(c, S!Step(c, place, n, h, found), Script(c, place), h, Reveals(c, place, n, found))
<1> DEFINE must == Reveals(c, place, n, found)
<1>1. CASE c = "sql-injection"
  <2>1. S!Step(c, place, n, h, found) = S!SQLInjection(h) BY <1>1, Zenon DEF S!Step
  <2>2. Script(c, place) = <<"original", "quote", "true", "false">> BY <1>1, Zenon DEF Script
  <2>3. Scripted(<<"original", "quote", "true", "false">>, place, h) BY <2>2
  <2>4. ASSUME must PROVE /\ "sql error" \in place.traits \/ "sql blind" \in place.traits
                          /\ "missing" \notin place.traits
    BY <1>1, <2>4, Zenon DEF Reveals, S!Weakness, Hiding
  <2> HIDE DEF must
  <2>6. Runs("sql-injection", S!SQLInjection(h), <<"original", "quote", "true", "false">>, h, must)
    BY <2>3, <2>4, SQLRuns
  <2> QED BY <1>1, <2>1, <2>2, <2>6 DEF must
<1>2. CASE c = "reflected-xss"
  <2>1. S!Step(c, place, n, h, found) = S!XSS(h) BY <1>2, Zenon DEF S!Step
  <2>2. Script(c, place) = <<"script">> BY <1>2, Zenon DEF Script
  <2>3. Scripted(<<"script">>, place, h) BY <2>2
  <2>4. ASSUME must PROVE /\ "echoes" \in place.traits
                          /\ "missing" \notin place.traits
                          /\ "json" \notin place.traits
                          /\ "escapes" \notin place.traits
    BY <1>2, <2>4, Zenon DEF Reveals, S!Weakness, Hiding
  <2> HIDE DEF must
  <2>6. Runs("reflected-xss", S!XSS(h), <<"script">>, h, must) BY <2>3, <2>4, XSSRuns
  <2> QED BY <1>2, <2>1, <2>2, <2>6 DEF must
<1>3. CASE c = "template-injection"
  <2>1. S!Step(c, place, n, h, found) = S!TemplateInjection(h) BY <1>3, Zenon DEF S!Step
  <2>2. Script(c, place) = <<"engine A", "engine B">> BY <1>3, Zenon DEF Script
  <2>3. Scripted(<<"engine A", "engine B">>, place, h) BY <2>2
  <2>4. ASSUME must PROVE /\ "evaluates" \in place.traits
                          /\ "missing" \notin place.traits
    BY <1>3, <2>4, Zenon DEF Reveals, S!Weakness, Hiding
  <2> HIDE DEF must
  <2>6. Runs("template-injection", S!TemplateInjection(h), <<"engine A", "engine B">>, h, must)
    BY <2>3, <2>4, TemplateRuns
  <2> QED BY <1>3, <2>1, <2>2, <2>6 DEF must
<1>4. CASE c = "path-traversal"
  <2>1. S!Step(c, place, n, h, found) = S!PathTraversal(h) BY <1>4, Zenon DEF S!Step
  <2>2. Script(c, place) = PathScript(place) BY <1>4, Zenon DEF Script
  <2>3. Scripted(PathScript(place), place, h) BY <2>2
  <2>4. ASSUME must PROVE /\ "reads files" \in place.traits
                          /\ "missing" \notin place.traits
    BY <1>4, <2>4, Zenon DEF Reveals, S!Weakness, Hiding
  <2> HIDE DEF must
  <2>6. Runs("path-traversal", S!PathTraversal(h), PathScript(place), h, must) BY <2>3, <2>4, PathRuns
  <2> QED BY <1>4, <2>1, <2>2, <2>6 DEF must
<1>5. CASE c = "command-injection"
  <2>1. S!Step(c, place, n, h, found) = S!CommandInjection(h, n, found) BY <1>5, Zenon DEF S!Step
  <2>2. Script(c, place) = <<"echo A", "echo B", "echo again", "sleep">> BY <1>5, Zenon DEF Script
  <2>3. Scripted(<<"echo A", "echo B", "echo again", "sleep">>, place, h) BY <2>2
  <2>4. ASSUME must
        PROVE  /\ \/ "shell" \in place.traits
                  \/ "blind shell" \in place.traits /\ found = {} /\ n <= TimingLimit
               /\ "missing" \notin place.traits
    BY <1>5, <2>4, Zenon DEF Reveals, S!Weakness, Hiding
  <2> HIDE DEF must
  <2>6. Runs("command-injection", S!CommandInjection(h, n, found), <<"echo A", "echo B", "echo again", "sleep">>, h, must)
    BY <2>3, <2>4, CommandRuns
  <2> QED BY <1>5, <2>1, <2>2, <2>6 DEF must
<1>6. CASE c = "nosql-injection"
  <2>1. S!Step(c, place, n, h, found) = S!NoSQLInjection(h) BY <1>6, Zenon DEF S!Step
  <2>2. Script(c, place) = <<"no such user", "operator A", "operator B">> BY <1>6, Zenon DEF Script
  <2>3. Scripted(<<"no such user", "operator A", "operator B">>, place, h) BY <2>2
  <2>4. ASSUME must PROVE /\ "operators" \in place.traits
                          /\ "missing" \notin place.traits
    BY <1>6, <2>4, Zenon DEF Reveals, S!Weakness, Hiding
  <2> HIDE DEF must
  <2>6. Runs("nosql-injection", S!NoSQLInjection(h), <<"no such user", "operator A", "operator B">>, h, must)
    BY <2>3, <2>4, NoSQLRuns
  <2> QED BY <1>6, <2>1, <2>2, <2>6 DEF must
<1>7. CASE c = "xxe"
  <2>1. S!Step(c, place, n, h, found) = S!XXE(h) BY <1>7, Zenon DEF S!Step
  <2>2. Script(c, place) = <<"internal entity", "external entity">> BY <1>7, Zenon DEF Script
  <2>3. Scripted(<<"internal entity", "external entity">>, place, h) BY <2>2
  <2>4. ASSUME must PROVE "expands" \in place.traits \/ "fetches entities" \in place.traits
    BY <1>7, <2>4, Zenon DEF Reveals, S!Weakness, Hiding
  <2> HIDE DEF must
  <2>6. Runs("xxe", S!XXE(h), <<"internal entity", "external entity">>, h, must) BY <2>3, <2>4, XXERuns
  <2> QED BY <1>7, <2>1, <2>2, <2>6 DEF must
<1>8. CASE c = "ssrf"
  <2>1. S!Step(c, place, n, h, found) = S!SSRF(h) BY <1>8, Zenon DEF S!Step
  <2>2. Script(c, place) = <<"benign URL", "loopback", "link-local", "reserved-tld", "file-scheme">>
    BY <1>8, Zenon DEF Script
  <2>3. Scripted(<<"benign URL", "loopback", "link-local", "reserved-tld", "file-scheme">>, place, h) BY <2>2
  <2>4. ASSUME must PROVE "dials" \in place.traits
    BY <1>8, <2>4, Zenon DEF Reveals, S!Weakness, Hiding
  <2> HIDE DEF must
  <2>6. Runs("ssrf", S!SSRF(h), <<"benign URL", "loopback", "link-local", "reserved-tld", "file-scheme">>, h, must)
    BY <2>3, <2>4, SSRFRuns
  <2> QED BY <1>8, <2>1, <2>2, <2>6 DEF must
<1>9. CASE c = "idor"
  <2>1. S!Step(c, place, n, h, found) = S!IDOR(h) BY <1>9, Zenon DEF S!Step
  <2>2. Script(c, place) = <<"original", "neighbour">> BY <1>9, Zenon DEF Script
  <2>3. Scripted(<<"original", "neighbour">>, place, h) BY <2>2
  <2>4. ASSUME must PROVE /\ "open objects" \in place.traits
                          /\ "missing" \notin place.traits
    BY <1>9, <2>4, Zenon DEF Reveals, S!Weakness, Hiding
  <2> HIDE DEF must
  <2>6. Runs("idor", S!IDOR(h), <<"original", "neighbour">>, h, must) BY <2>3, <2>4, IDORRuns
  <2> QED BY <1>9, <2>1, <2>2, <2>6 DEF must
<1>10. CASE c = "dangerous-methods"
  <2>1. S!Step(c, place, n, h, found) = S!HTTPMethods(h) BY <1>10, Zenon DEF S!Step
  <2>2. Script(c, place) = Verbs BY <1>10, Zenon DEF Script
  <2>3. Scripted(Verbs, place, h) BY <2>2
  <2>4. ASSUME must PROVE /\ "TRACE on" \in place.traits
                          /\ "missing" \notin place.traits
                          /\ {"TRACE", "OPTIONS"} \cap AllowedMethods # {}
    BY <1>10, <2>4, Zenon DEF Reveals, S!Weakness, Hiding
  <2> HIDE DEF must
  <2>6. Runs("dangerous-methods", S!HTTPMethods(h), Verbs, h, must) BY <2>3, <2>4, VerbsRuns
  <2> QED BY <1>10, <2>1, <2>2, <2>6 DEF must
<1>11. CASE c = "open-redirect"
  <2>1. S!Step(c, place, n, h, found) = S!OpenRedirect(h) BY <1>11, Zenon DEF S!Step
  <2>2. Script(c, place) = <<"redirect">> BY <1>11, Zenon DEF Script
  <2>3. Scripted(<<"redirect">>, place, h) BY <2>2
  <2>4. ASSUME must PROVE "redirects" \in place.traits
    BY <1>11, <2>4, Zenon DEF Reveals, S!Weakness, Hiding
  <2> HIDE DEF must
  <2>6. Runs("open-redirect", S!OpenRedirect(h), <<"redirect">>, h, must) BY <2>3, <2>4, RedirectRuns
  <2> QED BY <1>11, <2>1, <2>2, <2>6 DEF must
<1>12. CASE c = "transport-security"
  <2>1. S!Step(c, place, n, h, found) = S!Transport(h, place) BY <1>12, Zenon DEF S!Step
  <2>2. Script(c, place) = <<"GET">> BY <1>12, Zenon DEF Script
  <2>3. Scripted(<<"GET">>, place, h) BY <2>2
  <2>4. ASSUME must PROVE "http" \in place.traits
    BY <1>12, <2>4, Zenon DEF Reveals, S!Weakness, Hiding
  <2> HIDE DEF must
  <2>6. Runs("transport-security", S!Transport(h, place), <<"GET">>, h, must) BY <2>3, <2>4, TransportRuns
  <2> QED BY <1>12, <2>1, <2>2, <2>6 DEF must
<1>13. CASE c = "sensitive-files"
  <2>1. S!Step(c, place, n, h, found) = S!SensitiveFiles(h) BY <1>13, Zenon DEF S!Step
  <2>2. Script(c, place) = S!SENSITIVE_PATHS BY <1>13, Zenon DEF Script
  <2>3. Scripted(S!SENSITIVE_PATHS, place, h) BY <2>2
  <2>4. ASSUME must PROVE /\ "leaks" \in place.traits
                          /\ "missing" \notin place.traits
    BY <1>13, <2>4, Zenon DEF Reveals, S!Weakness, Hiding
  <2> HIDE DEF must
  <2>6. Runs("sensitive-files", S!SensitiveFiles(h), S!SENSITIVE_PATHS, h, must) BY <2>3, <2>4, FilesRuns
  <2> QED BY <1>13, <2>1, <2>2, <2>6 DEF must
<1>14. CASE c = "directory-listing"
  <2>1. S!Step(c, place, n, h, found) = S!DirectoryListing(h) BY <1>14, Zenon DEF S!Step
  <2>2. Script(c, place) = <<"/", "/uploads/">> BY <1>14, Zenon DEF Script
  <2>3. Scripted(<<"/", "/uploads/">>, place, h) BY <2>2
  <2>4. ASSUME must PROVE /\ "lists" \in place.traits
                          /\ "missing" \notin place.traits
    BY <1>14, <2>4, Zenon DEF Reveals, S!Weakness, Hiding
  <2> HIDE DEF must
  <2>6. Runs("directory-listing", S!DirectoryListing(h), <<"/", "/uploads/">>, h, must)
    BY <2>3, <2>4, ListingRuns
  <2> QED BY <1>14, <2>1, <2>2, <2>6 DEF must
<1>15. CASE c = "verbose-errors"
  <2>1. S!Step(c, place, n, h, found) = S!VerboseErrors(h) BY <1>15, Zenon DEF S!Step
  <2>2. Script(c, place) = <<"GET">> BY <1>15, Zenon DEF Script
  <2>3. Scripted(<<"GET">>, place, h) BY <2>2
  <2>4. ASSUME must PROVE "traces" \in place.traits
    BY <1>15, <2>4, Zenon DEF Reveals, S!Weakness, Hiding
  <2> HIDE DEF must
  <2>6. Runs("verbose-errors", S!VerboseErrors(h), <<"GET">>, h, must) BY <2>3, <2>4, VerboseRuns
  <2> QED BY <1>15, <2>1, <2>2, <2>6 DEF must
<1>16. CASE c = "cors-misconfiguration"
  <2>1. S!Step(c, place, n, h, found) = S!CORS(h) BY <1>16, Zenon DEF S!Step
  <2>2. Script(c, place) = <<"Origin">> BY <1>16, Zenon DEF Script
  <2>3. Scripted(<<"Origin">>, place, h) BY <2>2
  <2>4. ASSUME must PROVE /\ "trusts origins" \in place.traits
                          /\ "missing" \notin place.traits
    BY <1>16, <2>4, Zenon DEF Reveals, S!Weakness, Hiding
  <2> HIDE DEF must
  <2>6. Runs("cors-misconfiguration", S!CORS(h), <<"Origin">>, h, must) BY <2>3, <2>4, CORSRuns
  <2> QED BY <1>16, <2>1, <2>2, <2>6 DEF must
<1>17. CASE c = "admin-surface"
  <2>1. S!Step(c, place, n, h, found) = S!AdminSurface(h) BY <1>17, Zenon DEF S!Step
  <2>2. Script(c, place) = S!ADMIN_PATHS BY <1>17, Zenon DEF Script
  <2>3. Scripted(S!ADMIN_PATHS, place, h) BY <2>2
  <2>4. ASSUME must PROVE /\ "panel" \in place.traits
                          /\ "missing" \notin place.traits
    BY <1>17, <2>4, Zenon DEF Reveals, S!Weakness, Hiding
  <2> HIDE DEF must
  <2>6. Runs("admin-surface", S!AdminSurface(h), S!ADMIN_PATHS, h, must) BY <2>3, <2>4, AdminRuns
  <2> QED BY <1>17, <2>1, <2>2, <2>6 DEF must
<1>18. CASE c = "graphql-introspection"
  <2>1. S!Step(c, place, n, h, found) = S!GraphQL(h) BY <1>18, Zenon DEF S!Step
  <2>2. Script(c, place) = <<"/graphql", "/query">> BY <1>18, Zenon DEF Script
  <2>3. Scripted(<<"/graphql", "/query">>, place, h) BY <2>2
  <2>4. ASSUME must PROVE /\ "schema" \in place.traits
                          /\ "missing" \notin place.traits
    BY <1>18, <2>4, Zenon DEF Reveals, S!Weakness, Hiding
  <2> HIDE DEF must
  <2>6. Runs("graphql-introspection", S!GraphQL(h), <<"/graphql", "/query">>, h, must)
    BY <2>3, <2>4, GraphQLRuns
  <2> QED BY <1>18, <2>1, <2>2, <2>6 DEF must
<1>19. CASE c = "security-headers"
  <2>1. S!Step(c, place, n, h, found) = S!Headers(h, place) BY <1>19, Zenon DEF S!Step
  <2>2. Script(c, place) = <<"GET">> BY <1>19, Zenon DEF Script
  <2>3. Scripted(<<"GET">>, place, h) BY <2>2
  <2>4. ASSUME must PROVE /\ "names server" \in place.traits
                          /\ "missing" \notin place.traits
    BY <1>19, <2>4, Zenon DEF Reveals, S!Weakness, Hiding
  <2> HIDE DEF must
  <2>6. Runs("security-headers", S!Headers(h, place), <<"GET">>, h, must) BY <2>3, <2>4, HeadersRuns
  <2> QED BY <1>19, <2>1, <2>2, <2>6 DEF must
<1>20. CASE c = "cookie-flags"
  <2>1. S!Step(c, place, n, h, found) = S!Cookies(h) BY <1>20, Zenon DEF S!Step
  <2>2. Script(c, place) = <<"GET">> BY <1>20, Zenon DEF Script
  <2>3. Scripted(<<"GET">>, place, h) BY <2>2
  <2>4. ASSUME must PROVE /\ "bare cookie" \in place.traits
                          /\ "missing" \notin place.traits
    BY <1>20, <2>4, Zenon DEF Reveals, S!Weakness, Hiding
  <2> HIDE DEF must
  <2>6. Runs("cookie-flags", S!Cookies(h), <<"GET">>, h, must) BY <2>3, <2>4, CookiesRuns
  <2> QED BY <1>20, <2>1, <2>2, <2>6 DEF must
<1>21. CASE c = "token-audit"
  <2>1. S!Step(c, place, n, h, found) = S!Tokens(h, place, n, found) BY <1>21, Zenon DEF S!Step
  <2>2. Script(c, place) = <<"GET">> BY <1>21, Zenon DEF Script
  <2>3. Scripted(<<"GET">>, place, h) BY <2>2
  <2>4. ASSUME must PROVE /\ found = {}
                          /\ "unsigned token" \in place.traits \/ (n = 1 /\ "token cookie" \in place.traits)
    BY <1>21, <2>4, Zenon DEF Reveals, S!Weakness, Hiding
  <2> HIDE DEF must
  <2>5. Scripted(<<"GET">>, place, h) BY <2>3
  <2>6. Runs("token-audit", S!Tokens(h, place, n, found), <<"GET">>, h, must) BY <2>4, <2>5, TokensRuns
  <2> QED BY <1>21, <2>1, <2>2, <2>6 DEF must
<1>22. CASE c = "crlf-injection"
  <2>1. S!Step(c, place, n, h, found) = S!CRLFInjection(h) BY <1>22, Zenon DEF S!Step
  <2>2. Script(c, place) = <<"crlf">> BY <1>22, Zenon DEF Script
  <2>3. Scripted(<<"crlf">>, place, h) BY <2>2
  <2>4. ASSUME must PROVE "splits" \in place.traits
    BY <1>22, <2>4, Zenon DEF Reveals, S!Weakness, Hiding
  <2> HIDE DEF must
  <2>6. Runs("crlf-injection", S!CRLFInjection(h), <<"crlf">>, h, must) BY <2>3, <2>4, CRLFRuns
  <2> QED BY <1>22, <2>1, <2>2, <2>6 DEF must
<1>23. CASE c = "host-header-injection"
  <2>1. S!Step(c, place, n, h, found) = S!HostHeader(h) BY <1>23, Zenon DEF S!Step
  <2>2. Script(c, place) = <<"Host", "X-Forwarded-Host">> BY <1>23, Zenon DEF Script
  <2>3. Scripted(<<"Host", "X-Forwarded-Host">>, place, h) BY <2>2
  <2>4. ASSUME must PROVE "trusts Host" \in place.traits
    BY <1>23, <2>4, Zenon DEF Reveals, S!Weakness, Hiding
  <2> HIDE DEF must
  <2>6. Runs("host-header-injection", S!HostHeader(h), <<"Host", "X-Forwarded-Host">>, h, must)
    BY <2>3, <2>4, HostRuns
  <2> QED BY <1>23, <2>1, <2>2, <2>6 DEF must
<1>24. CASE c = "subdomain-takeover"
  <2>1. S!Step(c, place, n, h, found) = S!SubdomainTakeover(h, place) BY <1>24, Zenon DEF S!Step
  <2>2. Script(c, place) = <<"host root">> BY <1>24, Zenon DEF Script
  <2>3. Scripted(<<"host root">>, place, h) BY <2>2
  <2>4. ASSUME must PROVE "provider CNAME" \in place.traits
    BY <1>24, <2>4, Zenon DEF Reveals, S!Weakness, Hiding
  <2> HIDE DEF must
  <2>6. Runs("subdomain-takeover", S!SubdomainTakeover(h, place), <<"host root">>, h, must)
    BY <2>3, <2>4, TakeoverRuns
  <2> QED BY <1>24, <2>1, <2>2, <2>6 DEF must
<1>25. CASE c = "cloud-storage"
  <2>1. S!Step(c, place, n, h, found) = S!CloudStorage(h, place) BY <1>25, Zenon DEF S!Step
  <2>2. Script(c, place) = <<"listing">> BY <1>25, Zenon DEF Script
  <2>3. Scripted(<<"listing">>, place, h) BY <2>2
  <2>4. ASSUME must PROVE /\ "bucket" \in place.traits
                          /\ "missing" \notin place.traits
    BY <1>25, <2>4, Zenon DEF Reveals, S!Weakness, Hiding
  <2> HIDE DEF must
  <2>5. "storage root" \notin place.traits BY <1>25
  <2>6. Runs("cloud-storage", S!CloudStorage(h, place), <<"listing">>, h, must)
    BY <2>3, <2>4, <2>5, StorageRuns
  <2> QED BY <1>25, <2>1, <2>2, <2>6 DEF must
<1> HIDE DEF must
<1> QED
  BY <1>1, <1>2, <1>3, <1>4, <1>5, <1>6, <1>7, <1>8, <1>9, <1>10, <1>11, <1>12, <1>13,
     <1>14, <1>15, <1>16, <1>17, <1>18, <1>19, <1>20, <1>21, <1>22, <1>23, <1>24, <1>25, Zenon
     DEF S!CheckNames, must

\* A script can be played: it has an end, and all in it are requests.
Askable(request) == request # "none" /\ request # "raise"

Playable(s) == Len(s) \in Nat /\ \A i \in 1 .. Len(s) : Askable(s[i])

LEMMA PlayableOne ==
    ASSUME NEW a, Askable(a) PROVE Playable(<<a>>)
BY DEF Playable

LEMMA PlayableTwo ==
    ASSUME NEW a, Askable(a), NEW b, Askable(b) PROVE Playable(<<a, b>>)
BY DEF Playable

LEMMA PlayableThree ==
    ASSUME NEW a, Askable(a), NEW b, Askable(b), NEW d, Askable(d)
    PROVE  Playable(<<a, b, d>>)
BY DEF Playable

LEMMA PlayableFour ==
    ASSUME NEW a, Askable(a), NEW b, Askable(b), NEW d, Askable(d), NEW e, Askable(e)
    PROVE  Playable(<<a, b, d, e>>)
BY DEF Playable

LEMMA PlayableFive ==
    ASSUME NEW a, Askable(a), NEW b, Askable(b), NEW d, Askable(d), NEW e, Askable(e),
           NEW g, Askable(g)
    PROVE  Playable(<<a, b, d, e, g>>)
BY DEF Playable

LEMMA ScriptPlays ==
    ASSUME NEW c \in S!CheckNames, NEW place PROVE Playable(Script(c, place))
<1> DEFINE s == Script(c, place)
<1>1. CASE c = "sql-injection"
  <2>1. s = <<"original", "quote", "true", "false">> BY <1>1, Zenon DEF Script
  <2>2. /\ Askable("original")
        /\ Askable("quote")
        /\ Askable("true")
        /\ Askable("false")
    BY Zenon DEF Askable
  <2>3. Playable(<<"original", "quote", "true", "false">>) BY <2>2, PlayableFour, Zenon
  <2> QED BY <2>1, <2>3, Zenon
<1>2. CASE c = "reflected-xss"
  <2>1. s = <<"script">> BY <1>2, Zenon DEF Script
  <2>2. Askable("script") BY Zenon DEF Askable
  <2>3. Playable(<<"script">>) BY <2>2, PlayableOne, Zenon
  <2> QED BY <2>1, <2>3, Zenon
<1>3. CASE c = "template-injection"
  <2>1. s = <<"engine A", "engine B">> BY <1>3, Zenon DEF Script
  <2>2. Askable("engine A") /\ Askable("engine B") BY Zenon DEF Askable
  <2>3. Playable(<<"engine A", "engine B">>) BY <2>2, PlayableTwo, Zenon
  <2> QED BY <2>1, <2>3, Zenon
<1>4. CASE c = "path-traversal"
  <2>1. s = PathScript(place) BY <1>4, Zenon DEF Script
  <2>2. s = <<"unix file">> \/ s = <<"unix file", "windows file">> BY <2>1, Zenon DEF PathScript
  <2>3. Askable("unix file") /\ Askable("windows file") BY Zenon DEF Askable
  <2>4. Playable(<<"unix file">>) BY <2>3, PlayableOne, Zenon
  <2>5. Playable(<<"unix file", "windows file">>) BY <2>3, PlayableTwo, Zenon
  <2> QED BY <2>2, <2>4, <2>5, Zenon
<1>5. CASE c = "command-injection"
  <2>1. s = <<"echo A", "echo B", "echo again", "sleep">> BY <1>5, Zenon DEF Script
  <2>2. /\ Askable("echo A")
        /\ Askable("echo B")
        /\ Askable("echo again")
        /\ Askable("sleep")
    BY Zenon DEF Askable
  <2>3. Playable(<<"echo A", "echo B", "echo again", "sleep">>) BY <2>2, PlayableFour, Zenon
  <2> QED BY <2>1, <2>3, Zenon
<1>6. CASE c = "nosql-injection"
  <2>1. s = <<"no such user", "operator A", "operator B">> BY <1>6, Zenon DEF Script
  <2>2. Askable("no such user") /\ Askable("operator A") /\ Askable("operator B") BY Zenon DEF Askable
  <2>3. Playable(<<"no such user", "operator A", "operator B">>) BY <2>2, PlayableThree, Zenon
  <2> QED BY <2>1, <2>3, Zenon
<1>7. CASE c = "xxe"
  <2>1. s = <<"internal entity", "external entity">> BY <1>7, Zenon DEF Script
  <2>2. Askable("internal entity") /\ Askable("external entity") BY Zenon DEF Askable
  <2>3. Playable(<<"internal entity", "external entity">>) BY <2>2, PlayableTwo, Zenon
  <2> QED BY <2>1, <2>3, Zenon
<1>8. CASE c = "ssrf"
  <2>1. s = <<"benign URL", "loopback", "link-local", "reserved-tld", "file-scheme">>
    BY <1>8, Zenon DEF Script
  <2>2. /\ Askable("benign URL")
        /\ Askable("loopback")
        /\ Askable("link-local")
        /\ Askable("reserved-tld")
        /\ Askable("file-scheme")
    BY Zenon DEF Askable
  <2>3. Playable(<<"benign URL", "loopback", "link-local", "reserved-tld", "file-scheme">>)
    BY <2>2, PlayableFive, Zenon
  <2> QED BY <2>1, <2>3, Zenon
<1>9. CASE c = "idor"
  <2>1. s = <<"original", "neighbour">> BY <1>9, Zenon DEF Script
  <2>2. Askable("original") /\ Askable("neighbour") BY Zenon DEF Askable
  <2>3. Playable(<<"original", "neighbour">>) BY <2>2, PlayableTwo, Zenon
  <2> QED BY <2>1, <2>3, Zenon
<1>10. CASE c = "dangerous-methods"
  <2>1. s = Verbs BY <1>10, Zenon DEF Script
  <2>2. Askable("TRACE") /\ Askable("PROPFIND") /\ Askable("OPTIONS") BY Zenon DEF Askable
  <2>3. \A i \in 1 .. Len(Verbs) : Askable(Verbs[i]) BY <2>2, VerbsTuple, Zenon
  <2>4. Playable(Verbs) BY <2>3, VerbsTuple, Zenon DEF Playable
  <2> QED BY <2>1, <2>4
<1>11. CASE c = "open-redirect"
  <2>1. s = <<"redirect">> BY <1>11, Zenon DEF Script
  <2>2. Askable("redirect") BY Zenon DEF Askable
  <2>3. Playable(<<"redirect">>) BY <2>2, PlayableOne, Zenon
  <2> QED BY <2>1, <2>3, Zenon
<1>12. CASE c = "transport-security"
  <2>1. s = <<"GET">> BY <1>12, Zenon DEF Script
  <2>2. Askable("GET") BY Zenon DEF Askable
  <2>3. Playable(<<"GET">>) BY <2>2, PlayableOne, Zenon
  <2> QED BY <2>1, <2>3, Zenon
<1>13. CASE c = "sensitive-files"
  <2>1. s = <<"/.env", "/config.json">> BY <1>13, Zenon DEF Script, S!SENSITIVE_PATHS
  <2>2. Askable("/.env") /\ Askable("/config.json") BY Zenon DEF Askable
  <2>3. Playable(<<"/.env", "/config.json">>) BY <2>2, PlayableTwo, Zenon
  <2> QED BY <2>1, <2>3, Zenon
<1>14. CASE c = "directory-listing"
  <2>1. s = <<"/", "/uploads/">> BY <1>14, Zenon DEF Script
  <2>2. Askable("/") /\ Askable("/uploads/") BY Zenon DEF Askable
  <2>3. Playable(<<"/", "/uploads/">>) BY <2>2, PlayableTwo, Zenon
  <2> QED BY <2>1, <2>3, Zenon
<1>15. CASE c = "verbose-errors"
  <2>1. s = <<"GET">> BY <1>15, Zenon DEF Script
  <2>2. Askable("GET") BY Zenon DEF Askable
  <2>3. Playable(<<"GET">>) BY <2>2, PlayableOne, Zenon
  <2> QED BY <2>1, <2>3, Zenon
<1>16. CASE c = "cors-misconfiguration"
  <2>1. s = <<"Origin">> BY <1>16, Zenon DEF Script
  <2>2. Askable("Origin") BY Zenon DEF Askable
  <2>3. Playable(<<"Origin">>) BY <2>2, PlayableOne, Zenon
  <2> QED BY <2>1, <2>3, Zenon
<1>17. CASE c = "admin-surface"
  <2>1. s = <<"/admin", "/console">> BY <1>17, Zenon DEF Script, S!ADMIN_PATHS
  <2>2. Askable("/admin") /\ Askable("/console") BY Zenon DEF Askable
  <2>3. Playable(<<"/admin", "/console">>) BY <2>2, PlayableTwo, Zenon
  <2> QED BY <2>1, <2>3, Zenon
<1>18. CASE c = "graphql-introspection"
  <2>1. s = <<"/graphql", "/query">> BY <1>18, Zenon DEF Script
  <2>2. Askable("/graphql") /\ Askable("/query") BY Zenon DEF Askable
  <2>3. Playable(<<"/graphql", "/query">>) BY <2>2, PlayableTwo, Zenon
  <2> QED BY <2>1, <2>3, Zenon
<1>19. CASE c = "security-headers"
  <2>1. s = <<"GET">> BY <1>19, Zenon DEF Script
  <2>2. Askable("GET") BY Zenon DEF Askable
  <2>3. Playable(<<"GET">>) BY <2>2, PlayableOne, Zenon
  <2> QED BY <2>1, <2>3, Zenon
<1>20. CASE c = "cookie-flags"
  <2>1. s = <<"GET">> BY <1>20, Zenon DEF Script
  <2>2. Askable("GET") BY Zenon DEF Askable
  <2>3. Playable(<<"GET">>) BY <2>2, PlayableOne, Zenon
  <2> QED BY <2>1, <2>3, Zenon
<1>21. CASE c = "token-audit"
  <2>1. s = <<"GET">> BY <1>21, Zenon DEF Script
  <2>2. Askable("GET") BY Zenon DEF Askable
  <2>3. Playable(<<"GET">>) BY <2>2, PlayableOne, Zenon
  <2> QED BY <2>1, <2>3, Zenon
<1>22. CASE c = "crlf-injection"
  <2>1. s = <<"crlf">> BY <1>22, Zenon DEF Script
  <2>2. Askable("crlf") BY Zenon DEF Askable
  <2>3. Playable(<<"crlf">>) BY <2>2, PlayableOne, Zenon
  <2> QED BY <2>1, <2>3, Zenon
<1>23. CASE c = "host-header-injection"
  <2>1. s = <<"Host", "X-Forwarded-Host">> BY <1>23, Zenon DEF Script
  <2>2. Askable("Host") /\ Askable("X-Forwarded-Host") BY Zenon DEF Askable
  <2>3. Playable(<<"Host", "X-Forwarded-Host">>) BY <2>2, PlayableTwo, Zenon
  <2> QED BY <2>1, <2>3, Zenon
<1>24. CASE c = "subdomain-takeover"
  <2>1. s = <<"host root">> BY <1>24, Zenon DEF Script
  <2>2. Askable("host root") BY Zenon DEF Askable
  <2>3. Playable(<<"host root">>) BY <2>2, PlayableOne, Zenon
  <2> QED BY <2>1, <2>3, Zenon
<1>25. CASE c = "cloud-storage"
  <2>1. s = <<"listing">> BY <1>25, Zenon DEF Script
  <2>2. Askable("listing") BY Zenon DEF Askable
  <2>3. Playable(<<"listing">>) BY <2>2, PlayableOne, Zenon
  <2> QED BY <2>1, <2>3, Zenon
<1> HIDE DEF s
<1> QED
  BY <1>1, <1>2, <1>3, <1>4, <1>5, <1>6, <1>7, <1>8, <1>9, <1>10, <1>11, <1>12, <1>13,
     <1>14, <1>15, <1>16, <1>17, <1>18, <1>19, <1>20, <1>21, <1>22, <1>23, <1>24, <1>25, Zenon
     DEF S!CheckNames, s

\* A check begins its script with no response, and goes on with an answer.
LEMMA ScriptedNone ==
    ASSUME NEW s, Playable(s), NEW place PROVE Scripted(s, place, <<>>)
BY DEF Playable, Scripted

LEMMA ScriptedMore ==
    ASSUME NEW s, Playable(s), NEW place, NEW h, Scripted(s, place, h), Len(h) < Len(s),
           NEW r, Answers(r, place, s[Len(h) + 1])
    PROVE  Scripted(s, place, Append(h, r))
<1>1. PICK R : h \in Seq(R) BY DEF Scripted
<1> DEFINE Q == R \cup {r}
           g == Append(h, r)
<1>2. h \in Seq(Q) /\ r \in Q BY <1>1
<1>3. Len(s) \in Nat /\ Len(h) \in Nat BY <1>1 DEF Playable
<1> HIDE DEF Q
<1>4. g \in Seq(Q) /\ Len(g) = Len(h) + 1 BY <1>2
<1>5. ASSUME NEW i \in 1 .. Len(g) PROVE Answers(g[i], place, s[i])
  <2>1. CASE i \in 1 .. Len(h)
    <3>1. g[i] = h[i] BY <1>2, <2>1
    <3> QED BY <2>1, <3>1 DEF Scripted
  <2>2. CASE i = Len(h) + 1
    <3>1. g[i] = r BY <1>2, <2>2
    <3> QED BY <2>2, <3>1
  <2> QED BY <1>3, <1>4, <2>1, <2>2
<1>6. Len(g) <= Len(s) BY <1>3, <1>4
<1> HIDE DEF g
<1>7. Scripted(s, place, g) BY <1>4, <1>5, <1>6 DEF Scripted
<1> QED BY <1>7 DEF g

\* A check asks for the next request of its script, or is done with the place.
LEMMA RunsAsks ==
    ASSUME NEW s, Playable(s), NEW c, NEW outcome, NEW must, NEW place, NEW h,
           Scripted(s, place, h), Runs(c, outcome, s, h, must)
    PROVE  /\ outcome.ask # "raise"
           /\ outcome.ask # "none" => Len(h) < Len(s) /\ outcome.ask = s[Len(h) + 1]
           /\ outcome.ask = "none" => /\ \A f \in outcome.report : Owner(f.title) = c
                                      /\ must => outcome.report # {}
<1>1. ASSUME Len(h) < Len(s) PROVE Askable(s[Len(h) + 1])
  <2>1. PICK R : h \in Seq(R) BY DEF Scripted
  <2>2. Len(h) + 1 \in 1 .. Len(s) BY <1>1, <2>1 DEF Playable
  <2> QED BY <2>2 DEF Playable
<1>2. "none" # "raise" BY Zenon
<1>3. CASE Len(h) < Len(s) /\ outcome.ask = s[Len(h) + 1]
  <2>1. outcome.ask # "none" /\ outcome.ask # "raise" BY <1>1, <1>3, Zenon DEF Askable
  <2> QED BY <1>3, <2>1
<1>4. CASE ~(Len(h) < Len(s) /\ outcome.ask = s[Len(h) + 1])
  <2>1. /\ outcome.ask = "none"
        /\ \A f \in outcome.report : Owner(f.title) = c
        /\ must => outcome.report # {}
    BY <1>4, Zenon DEF Runs
  <2> QED BY <1>2, <2>1, Zenon
<1> QED BY <1>3, <1>4

-----------------------------------------------------------------------------
(* What a check has found of the places it visits *)

\* The bucket that the check of cloud storage cannot name: it raises there.
Unnamed(c, place) == c = "cloud-storage" /\ "storage root" \in place.traits

\* At this place check c may leave it at a finding it made elsewhere.
Enough(c, place) ==
    \/ c \in S!StopsAtFirst \cup {"token-audit"}
    \/ c = "command-injection" /\ "shell" \notin place.traits

LEMMA UnnamedShows ==
    ASSUME NEW c, NEW place, Unnamed(c, place), NEW n, NEW found
    PROVE  ~Reveals(c, place, n, found)
<1>1. c = "cloud-storage" /\ "storage root" \in place.traits BY DEF Unnamed
<1>2. Hiding(c) = {"missing", "storage root"} BY <1>1, Zenon DEF Hiding
<1>3. "storage root" \in Hiding(c) BY <1>2, Zenon
<1>4. place.traits \cap Hiding(c) # {} BY <1>1, <1>3, Zenon
<1> QED BY <1>4, Zenon DEF Reveals

LEMMA UnnamedReports ==
    ASSUME NEW c, NEW place, Unnamed(c, place), NEW n, NEW h, NEW found
    PROVE  S!Step(c, place, n, h, found).report = {}
<1>1. c = "cloud-storage" /\ "storage root" \in place.traits BY DEF Unnamed
<1>2. S!Step(c, place, n, h, found) = S!CloudStorage(h, place) BY <1>1, Zenon DEF S!Step
<1>3. {"bucket", "storage root"} \cap place.traits # {} BY <1>1, Zenon
<1>4. S!CloudStorage(h, place) \in {S!Ask("listing"), S!Nothing, S!Raise}
  BY <1>1, <1>3, Zenon DEF S!CloudStorage
<1>5. /\ S!Ask("listing").report = {} /\ S!Nothing.report = {} /\ S!Raise.report = {}
  BY Zenon DEF S!Ask, S!Nothing, S!Raise, S!Report
<1> QED BY <1>2, <1>4, <1>5, Zenon

LEMMA RevealsElse ==
    ASSUME NEW c, NEW place, NEW n, Reveals(c, place, n, {}), NEW found,
           ~Reveals(c, place, n, found)
    PROVE  found # {} /\ Enough(c, place)
<1>1. found # {} BY Zenon
<1>2. c = "token-audit" \/ (c = "command-injection" /\ "shell" \notin place.traits)
  BY Zenon DEF Reveals
<1> QED BY <1>1, <1>2, Zenon DEF Enough

\* The m-th of the places shows check c a weakness.
Shown(c, places, m) == Reveals(c, places[m], m, {})

\* What check c has found accounts for the m-th of its places.
Accounted(c, places, m, found) ==
    \E f \in found, j \in DOMAIN places :
        /\ f.fingerprint[2] = places[j].page
        /\ j = m \/ (j < m /\ Enough(c, places[m]))

\* Check c, so far on its way over its places, has missed no weakness, and reports
\* in its own name what it saw on its way.
Finds(c, places, x) ==
    /\ x.number \in Nat \ {0}
    /\ \A f \in x.found :
          /\ f.evidence = {c} /\ Owner(f.fingerprint[1]) = c
          /\ \E j \in DOMAIN places : j < x.number /\ f.fingerprint[2] = places[j].page
    /\ \A m \in DOMAIN places :
          (m < x.number \/ x.over) /\ Shown(c, places, m) => Accounted(c, places, m, x.found)
    /\ ~x.over /\ x.number \in DOMAIN places /\ ~Unnamed(c, places[x.number]) =>
          Scripted(Script(c, places[x.number]), places[x.number], x.history)

LEMMA AccountedMore ==
    ASSUME NEW c, NEW places, NEW m, NEW found, Accounted(c, places, m, found),
           NEW more, found \subseteq more
    PROVE  Accounted(c, places, m, more)
<1>1. PICK f \in found, j \in DOMAIN places :
         f.fingerprint[2] = places[j].page /\ (j = m \/ (j < m /\ Enough(c, places[m])))
  BY DEF Accounted
<1> QED BY <1>1 DEF Accounted

LEMMA FindsStarts ==
    ASSUME NEW c \in S!CheckNames, NEW X, NEW places \in Seq(X)
    PROVE  Finds(c, places, S!Started)
<1> DEFINE x == S!Started
<1>1. x.number = 1 /\ x.history = <<>> /\ x.found = {} /\ x.over = FALSE BY DEF S!Started
<1> HIDE DEF x
<1>2. \A m \in DOMAIN places : ~(m < 1) OBVIOUS
<1>3. \A place : Scripted(Script(c, place), place, <<>>) BY ScriptPlays, ScriptedNone
<1>4. Finds(c, places, x) BY <1>1, <1>2, <1>3 DEF Finds
<1> QED BY <1>4 DEF x

LEMMA FindsAsks ==
    ASSUME NEW c \in S!CheckNames, NEW places, NEW x, Finds(c, places, x),
           x.number \in DOMAIN places, ~x.over,
           NEW outcome, outcome = S!Step(c, places[x.number], x.number, x.history, x.found),
           outcome.ask # "none", outcome.ask # "raise",
           NEW r, Answers(r, places[x.number], outcome.ask),
           NEW y, y.number = x.number, y.history = Append(x.history, r), y.found = x.found,
           y.over = x.over
    PROVE  Finds(c, places, y)
<1> DEFINE place == places[x.number]
           s == Script(c, place)
<1>1. ASSUME ~Unnamed(c, place) PROVE Scripted(s, place, y.history)
  <2>1. Playable(s) BY ScriptPlays
  <2>2. Scripted(s, place, x.history) BY <1>1 DEF Finds
  <2>3. Runs(c, outcome, s, x.history, Reveals(c, place, x.number, x.found))
    <3>1. ~(c = "cloud-storage" /\ "storage root" \in place.traits) BY <1>1, Zenon DEF Unnamed
    <3> HIDE DEF place
    <3>2. Runs(c, S!Step(c, place, x.number, x.history, x.found), s, x.history,
               Reveals(c, place, x.number, x.found))
      BY <2>2, <3>1, StepRuns, Zenon
    <3> QED BY <3>2, Zenon DEF place
  <2> DEFINE h == x.history
             must == Reveals(c, place, x.number, x.found)
  <2> HIDE DEF must, h, s, place
  <2>4. Len(h) < Len(s) /\ outcome.ask = s[Len(h) + 1]
    <3>1. Runs(c, outcome, s, h, must) /\ Scripted(s, place, h) BY <2>2, <2>3 DEF must, h
    <3> QED BY <2>1, <3>1, RunsAsks
  <2>5. Answers(r, place, s[Len(h) + 1]) BY <2>4 DEF place
  <2>6. Scripted(s, place, Append(h, r)) BY <2>1, <2>2, <2>4, <2>5, ScriptedMore DEF h
  <2> QED BY <2>6 DEF h
<1> HIDE DEF place, s
<1>2. /\ x.number \in Nat \ {0}
      /\ \A f \in x.found :
            /\ f.evidence = {c} /\ Owner(f.fingerprint[1]) = c
            /\ \E j \in DOMAIN places : j < x.number /\ f.fingerprint[2] = places[j].page
      /\ \A m \in DOMAIN places :
            (m < x.number \/ x.over) /\ Shown(c, places, m) => Accounted(c, places, m, x.found)
  BY DEF Finds
<1>3. ~Unnamed(c, places[y.number]) =>
         Scripted(Script(c, places[y.number]), places[y.number], y.history)
  BY <1>1 DEF place, s
<1> QED BY <1>2, <1>3 DEF Finds

LEMMA FindsRaises ==
    ASSUME NEW c \in S!CheckNames, NEW places, NEW x, Finds(c, places, x),
           x.number \in DOMAIN places, ~x.over,
           NEW outcome, outcome = S!Step(c, places[x.number], x.number, x.history, x.found),
           outcome.ask = "raise", c = "cloud-storage" => \A m, n \in DOMAIN places : m = n,
           NEW y, y.number = x.number, y.found = {}, y.over = TRUE
    PROVE  Finds(c, places, y)
<1> DEFINE place == places[x.number]
           s == Script(c, place)
           h == x.history
           must == Reveals(c, place, x.number, x.found)
<1>1. Unnamed(c, place)
  <2> SUFFICES ASSUME ~Unnamed(c, place) PROVE FALSE OBVIOUS
  <2>1. Playable(s) BY ScriptPlays
  <2>2. Scripted(s, place, h) BY DEF Finds
  <2>3. ~(c = "cloud-storage" /\ "storage root" \in place.traits) BY Zenon DEF Unnamed
  <2>4. outcome = S!Step(c, place, x.number, h, x.found) OBVIOUS
  <2> HIDE DEF place, s, h, must
  <2>5. Runs(c, S!Step(c, place, x.number, h, x.found), s, h, must)
    BY <2>2, <2>3, StepRuns, Zenon DEF s, must
  <2>6. Runs(c, outcome, s, h, must) BY <2>4, <2>5, Zenon
  <2>7. outcome.ask # "raise" BY <2>1, <2>2, <2>6, RunsAsks
  <2> QED BY <2>7
<1>2. ~Shown(c, places, x.number) BY <1>1, UnnamedShows DEF Shown
<1>3. \A m \in DOMAIN places : m = x.number
  <2>1. c = "cloud-storage" BY <1>1, Zenon DEF Unnamed
  <2> QED BY <2>1, Zenon
<1>4. x.number \in Nat \ {0} BY DEF Finds
<1>5. \A m \in DOMAIN places : ~Shown(c, places, m) BY <1>2, <1>3
<1> QED BY <1>4, <1>5 DEF Finds

LEMMA FindsConcludes ==
    ASSUME NEW c \in S!CheckNames, NEW places, DOMAIN places \subseteq Nat,
           NEW x, Finds(c, places, x), x.number \in DOMAIN places, ~x.over,
           NEW outcome, outcome = S!Step(c, places[x.number], x.number, x.history, x.found),
           outcome.ask = "none",
           NEW new, outcome.report # {} => new # {},
           \A g \in new : \E f \in outcome.report :
              g.evidence = {c} /\ g.fingerprint = <<f.title, places[x.number].page>>,
           NEW y, y.number = x.number + 1, y.history = <<>>, y.found = x.found \cup new,
           y.over => c \in S!StopsAtFirst /\ new # {}
    PROVE  Finds(c, places, y)
<1> DEFINE n == x.number
           place == places[n]
           s == Script(c, place)
           h == x.history
           must == Reveals(c, place, n, x.found)
<1>1. /\ \A f \in outcome.report : Owner(f.title) = c
      /\ must => outcome.report # {}
  <2>1. CASE Unnamed(c, place)
    <3>1. ~must BY <2>1, UnnamedShows
    <3>2. outcome.report = {} BY <2>1, UnnamedReports
    <3> QED BY <3>1, <3>2
  <2>2. CASE ~Unnamed(c, place)
    <3>1. Playable(s) BY ScriptPlays
    <3>2. Scripted(s, place, h) BY <2>2 DEF Finds
    <3>3. ~(c = "cloud-storage" /\ "storage root" \in place.traits) BY <2>2, Zenon DEF Unnamed
    <3>4. outcome = S!Step(c, place, n, h, x.found) OBVIOUS
    <3> HIDE DEF place, s, h, must, n
    <3>5. Runs(c, S!Step(c, place, n, h, x.found), s, h, must)
      BY <3>2, <3>3, StepRuns, Zenon DEF s, must
    <3>6. Runs(c, outcome, s, h, must) BY <3>4, <3>5, Zenon
    <3> QED BY <3>1, <3>2, <3>6, RunsAsks
  <2> QED BY <2>1, <2>2
<1> HIDE DEF must, s, h
<1>2. n \in Nat \ {0} BY DEF Finds
<1>3. ASSUME NEW g \in new
      PROVE  g.evidence = {c} /\ Owner(g.fingerprint[1]) = c /\ g.fingerprint[2] = places[n].page
  <2>1. PICK f \in outcome.report : g.evidence = {c} /\ g.fingerprint = <<f.title, places[n].page>>
    OBVIOUS
  <2>2. g.fingerprint[1] = f.title /\ g.fingerprint[2] = places[n].page BY <2>1
  <2> QED BY <1>1, <2>1, <2>2
<1>4. ASSUME NEW f \in y.found
      PROVE  /\ f.evidence = {c} /\ Owner(f.fingerprint[1]) = c
             /\ \E j \in DOMAIN places : j < n + 1 /\ f.fingerprint[2] = places[j].page
  <2>1. CASE f \in new
    <3>1. n < n + 1 BY <1>2
    <3> QED BY <1>3, <2>1, <3>1
  <2>2. CASE f \in x.found
    <3>1. /\ f.evidence = {c} /\ Owner(f.fingerprint[1]) = c
          /\ \E j \in DOMAIN places : j < n /\ f.fingerprint[2] = places[j].page
      BY <2>2 DEF Finds
    <3>2. \A j \in DOMAIN places : j < n => j < n + 1 BY <1>2
    <3> QED BY <3>1, <3>2
  <2> QED BY <2>1, <2>2
<1>5. ASSUME NEW m \in DOMAIN places, m < n + 1 \/ y.over, Shown(c, places, m)
      PROVE  Accounted(c, places, m, y.found)
  <2>1. CASE m < n
    <3>1. Accounted(c, places, m, x.found) BY <1>5, <2>1 DEF Finds
    <3> QED BY <3>1, AccountedMore
  <2>2. CASE m = n
    <3>1. CASE must
      <4>1. PICK g : g \in new BY <1>1, <3>1
      <4>2. g \in y.found /\ g.fingerprint[2] = places[m].page BY <1>3, <2>2, <4>1
      <4> QED BY <4>2 DEF Accounted
    <3>2. CASE ~must
      <4>1. Reveals(c, place, n, {}) BY <1>5, <2>2 DEF Shown
      <4>2. x.found # {} /\ Enough(c, place) BY <3>2, <4>1, RevealsElse DEF must
      <4>3. PICK f : f \in x.found BY <4>2
      <4>4. PICK j \in DOMAIN places : j < n /\ f.fingerprint[2] = places[j].page BY <4>3 DEF Finds
      <4>5. f \in y.found /\ j < m /\ Enough(c, places[m]) BY <2>2, <4>2, <4>3, <4>4
      <4> QED BY <4>4, <4>5 DEF Accounted
    <3> QED BY <3>1, <3>2
  <2>3. CASE n < m
    <3>1. y.over BY <1>2, <1>5, <2>3
    <3>2. c \in S!StopsAtFirst /\ new # {} BY <3>1
    <3>3. PICK g : g \in new BY <3>2
    <3>4. g \in y.found /\ g.fingerprint[2] = places[n].page BY <1>3, <3>3
    <3>5. Enough(c, places[m]) BY <3>2, Zenon DEF Enough
    <3> QED BY <2>3, <3>4, <3>5 DEF Accounted
  <2>4. m \in Nat OBVIOUS
  <2> QED BY <1>2, <2>1, <2>2, <2>3, <2>4
<1>6. \A p : Scripted(Script(c, p), p, y.history) BY ScriptPlays, ScriptedNone
<1>7. y.number = n + 1 /\ y.number \in Nat \ {0} BY <1>2
<1> HIDE DEF n, place
<1> QED BY <1>4, <1>5, <1>6, <1>7 DEF Finds

-----------------------------------------------------------------------------
(* A scan misses no weakness *)

Produces(c, st) ==
    \A f \in checks[c].found : f.fingerprint \in DOMAIN st /\ c \in st[f.fingerprint].evidence

\* While nothing is lost or refused no check has missed a weakness, and what the
\* checks have found is at last in the report.
FindInv ==
    Undisturbed /\ stage \in {"checks", "done"} =>
        \A c \in DOMAIN checks :
            /\ Finds(c, S!Visits(c), checks[c])
            /\ stage = "done" => S!CheckOver(c) /\ Produces(c, report)

LEMMA VisitsKept ==
    ASSUME UNCHANGED <<site, endpoints>>, NEW c PROVE S!Visits(c)' = S!Visits(c)
BY DEF S!Visits

LEMMA VisitsDomain ==
    ASSUME HeedInv, NEW c
    PROVE  /\ S!Visits(c) \in Seq({Numbered(p) : p \in Pages})
           /\ Len(S!Visits(c)) \in Nat /\ DOMAIN S!Visits(c) = 1 .. Len(S!Visits(c))
<1> DEFINE X == {Numbered(p) : p \in Pages}
           v == S!Visits(c)
<1>1. v \in Seq(X) BY VisitsAreNumbered DEF HeedInv
<1> HIDE DEF X, v
<1>2. Len(v) \in Nat /\ DOMAIN v = 1 .. Len(v) BY <1>1
<1> QED BY <1>1, <1>2 DEF X, v

\* Check c goes on as it should, and the other checks are where they were.
LEMMA MovesFind ==
    ASSUME FindInv, UNCHANGED <<site, endpoints, stage>>, stage = "checks",
           NEW c \in DOMAIN checks, NEW n, NEW h, NEW f, Moves(c, n, h, f),
           Undisturbed' => Undisturbed /\ Finds(c, S!Visits(c), checks'[c])
    PROVE  FindInv'
<1> SUFFICES ASSUME Undisturbed', NEW d \in DOMAIN checks' PROVE Finds(d, S!Visits(d), checks[d])'
  BY DEF FindInv
<1>1. Undisturbed /\ Finds(c, S!Visits(c), checks'[c]) OBVIOUS
<1>2. S!Visits(d)' = S!Visits(d) BY VisitsKept
<1>3. d \in DOMAIN checks /\ (d # c => checks'[d] = checks[d]) BY DEF Moves
<1>4. Finds(d, S!Visits(d), checks'[d])
  <2>1. CASE d = c BY <1>1, <2>1
  <2>2. CASE d # c
    <3>1. Finds(d, S!Visits(d), checks[d]) BY <1>1, <1>3 DEF FindInv
    <3> QED BY <1>3, <2>2, <3>1
  <2> QED BY <2>1, <2>2
<1> QED BY <1>2, <1>4 DEF Finds

LEMMA AtVisits ==
    ASSUME HeedInv, NEW c \in DOMAIN checks, S!Visiting(c)
    PROVE  /\ checks[c].number \in DOMAIN S!Visits(c) /\ ~checks[c].over
           /\ S!At(c) = S!Visits(c)[checks[c].number]
           /\ S!Does(c) = S!Step(c, S!Visits(c)[checks[c].number], checks[c].number,
                                 checks[c].history, checks[c].found)
           /\ stage = "checks"
<1>1. checks[c].number \in Nat \ {0} BY DEF HeedInv, Modestly
<1>2. checks[c].number <= Len(S!Visits(c)) /\ ~checks[c].over /\ stage = "checks" BY DEF S!Visiting
<1>3. checks[c].number \in DOMAIN S!Visits(c) BY <1>1, <1>2, VisitsDomain
<1>4. S!At(c) = S!Visits(c)[checks[c].number] BY DEF S!At
<1>5. S!Does(c) = S!Step(c, S!Visits(c)[checks[c].number], checks[c].number,
                         checks[c].history, checks[c].found)
  BY <1>4 DEF S!Does
<1> QED BY <1>2, <1>3, <1>4, <1>5

LEMMA AsksFind ==
    ASSUME FindInv, HeedInv, ChecksInv, CrawlInv, NEW c \in DOMAIN checks, S!CheckAsks(c)
    PROVE  FindInv'
<1>1. S!Visiting(c) /\ UNCHANGED <<site, stage, endpoints>> BY DEF S!CheckAsks, S!mapVars
<1>2. S!Does(c).ask # "none" /\ S!Does(c).ask # "raise" BY Zenon DEF S!CheckAsks
<1> DEFINE reply == S!Reply(S!At(c), S!Does(c).ask, spent)
           x == checks[c]
           y == checks'[c]
           places == S!Visits(c)
<1>3. PICK response :
         S!Fetch(reply, response) /\ checks' = [checks EXCEPT ![c].history = Append(@, response)]
  BY Zenon DEF S!CheckAsks
<1>4. /\ Moves(c, x.number, Append(x.history, response), x.found)
      /\ y.over = x.over
  BY <1>3, AsksInv
<1>5. y.number = x.number /\ y.history = Append(x.history, response) /\ y.found = x.found
  BY <1>4 DEF Moves
<1>6. stage = "checks" /\ x.number \in DOMAIN places /\ ~x.over BY <1>1, AtVisits
<1>7. ASSUME Undisturbed' PROVE Undisturbed /\ Finds(c, places, y)
  <2>1. spent \in Nat /\ drops \in Nat BY DEF CrawlInv
  <2>2. Undisturbed /\ response = reply BY <1>3, <1>7, <2>1, FetchKeeps
  <2>3. Finds(c, places, x) BY <1>6, <2>2 DEF FindInv
  <2>4. Answers(response, S!At(c), S!Does(c).ask) BY <2>2, Zenon DEF Answers
  <2>5. S!At(c) = places[x.number] BY <1>1, AtVisits
  <2> DEFINE outcome == S!Does(c)
  <2>6. outcome = S!Step(c, places[x.number], x.number, x.history, x.found) BY <1>1, AtVisits
  <2>7. c \in S!CheckNames BY DEF ChecksInv
  <2>8. outcome.ask # "none" /\ outcome.ask # "raise" /\ Answers(response, places[x.number], outcome.ask)
    BY <1>2, <2>4, <2>5
  <2> HIDE DEF outcome, places, x, y
  <2>9. Finds(c, places, y) BY <1>5, <1>4, <1>6, <2>3, <2>6, <2>7, <2>8, FindsAsks DEF x, y
  <2> QED BY <2>2, <2>9
<1> HIDE DEF reply
<1> QED BY <1>1, <1>4, <1>6, <1>7, MovesFind

LEMMA ConcludesFind ==
    ASSUME FindInv, HeedInv, ChecksInv, NEW c \in DOMAIN checks, S!CheckConcludes(c)
    PROVE  FindInv'
<1>1. S!Visiting(c) /\ S!Does(c).ask = "none" /\ UNCHANGED <<site, stage, endpoints, spent, drops>>
  BY DEF S!CheckConcludes, S!mapVars
<1> DEFINE x == checks[c]
           y == checks'[c]
           places == S!Visits(c)
           outcome == S!Does(c)
           new == {S!Located(f, c) : f \in outcome.report}
<1>2. /\ Moves(c, x.number + 1, <<>>, x.found \cup new)
      /\ y.over = (c \in S!StopsAtFirst /\ new # {})
  BY ConcludesInv
<1>3. y.number = x.number + 1 /\ y.history = <<>> /\ y.found = x.found \cup new
  BY <1>2 DEF Moves
<1>4. stage = "checks" /\ x.number \in DOMAIN places /\ ~x.over BY <1>1, AtVisits
<1>5. S!At(c) = places[x.number] BY <1>1, AtVisits
<1>6. outcome = S!Step(c, places[x.number], x.number, x.history, x.found) BY <1>1, AtVisits
<1>7. \A g \in new : \E f \in outcome.report :
         g.evidence = {c} /\ g.fingerprint = <<f.title, places[x.number].page>>
  <2> TAKE g \in new
  <2>1. PICK f \in outcome.report : g = S!Located(f, c) OBVIOUS
  <2>2. g.evidence = {c} /\ g.fingerprint = <<f.title, S!At(c).page>> BY <2>1 DEF S!Located
  <2> HIDE DEF outcome, new
  <2> QED BY <1>5, <2>1, <2>2
<1>8. outcome.report # {} => new # {} OBVIOUS
<1>9. DOMAIN places \subseteq Nat
  <2>1. DOMAIN places = 1 .. Len(places) BY VisitsDomain
  <2> HIDE DEF places
  <2> QED BY <2>1
<1>10. ASSUME Undisturbed PROVE Finds(c, places, y)
  <2>1. Finds(c, places, x) BY <1>4, <1>10 DEF FindInv
  <2>2. c \in S!CheckNames BY DEF ChecksInv
  <2>3. outcome.ask = "none" BY <1>1
  <2>4. y.over => c \in S!StopsAtFirst /\ new # {} BY <1>2
  <2> HIDE DEF outcome, places, x, y, new
  <2> QED BY <1>3, <1>4, <1>6, <1>7, <1>8, <1>9, <2>1, <2>2, <2>3, <2>4, FindsConcludes
<1>11. Undisturbed' => Undisturbed BY <1>1 DEF Undisturbed
<1> HIDE DEF new
<1> QED BY <1>1, <1>2, <1>4, <1>10, <1>11, MovesFind

LEMMA StorageVisits ==
    ASSUME NEW c, c = "cloud-storage" PROVE \A m, n \in DOMAIN S!Visits(c) : m = n
<1>1. \A base, known : S!Places(c, base, known) = <<base>> BY Zenon DEF S!Places
<1>2. \E base : S!Visits(c) = <<base>> BY <1>1, Zenon DEF S!Visits
<1>3. PICK base : S!Visits(c) = <<base>> BY <1>2
<1> DEFINE v == S!Visits(c)
<1>4. v = <<base>> BY <1>3
<1> HIDE DEF v
<1>5. DOMAIN v = {1} BY <1>4
<1> QED BY <1>5 DEF v

LEMMA RaisesFind ==
    ASSUME FindInv, HeedInv, ChecksInv, NEW c \in DOMAIN checks, S!CheckRaises(c)
    PROVE  FindInv'
<1>1. S!Visiting(c) /\ S!Does(c).ask = "raise" /\ UNCHANGED <<site, stage, endpoints, spent, drops>>
  BY DEF S!CheckRaises, S!mapVars
<1> DEFINE x == checks[c]
           y == checks'[c]
           places == S!Visits(c)
           outcome == S!Does(c)
<1>2. Moves(c, x.number, x.history, {}) /\ y.over = TRUE BY RaisesInv
<1>3. y.number = x.number /\ y.found = {} BY <1>2 DEF Moves
<1>4. stage = "checks" /\ x.number \in DOMAIN places /\ ~x.over BY <1>1, AtVisits
<1>5. outcome = S!Step(c, places[x.number], x.number, x.history, x.found) BY <1>1, AtVisits
<1>6. c = "cloud-storage" => \A m, n \in DOMAIN places : m = n BY StorageVisits, Zenon
<1>7. ASSUME Undisturbed PROVE Finds(c, places, y)
  <2>1. Finds(c, places, x) BY <1>4, <1>7 DEF FindInv
  <2>2. c \in S!CheckNames BY DEF ChecksInv
  <2>3. outcome.ask = "raise" BY <1>1
  <2> HIDE DEF outcome, places, x, y
  <2> QED BY <1>2, <1>3, <1>4, <1>5, <1>6, <2>1, <2>2, <2>3, FindsRaises, Zenon
<1>8. Undisturbed' => Undisturbed BY <1>1 DEF Undisturbed
<1> QED BY <1>1, <1>2, <1>4, <1>7, <1>8, MovesFind

LEMMA StartFind ==
    ASSUME HeedInv, ScanInv, S!StartChecks PROVE FindInv'
<1>1. /\ stage' = "checks" /\ UNCHANGED <<site, endpoints>>
      /\ checks' = [c \in S!Chosen |-> S!Started]
  BY DEF S!StartChecks, S!mapVars
<1>2. ASSUME NEW c \in DOMAIN checks' PROVE Finds(c, S!Visits(c), checks[c])'
  <2>1. checks'[c] = S!Started /\ c \in S!CheckNames BY <1>1, <1>2 DEF S!Chosen, ScanInv
  <2> DEFINE X == {Numbered(p) : p \in Pages}
             places == S!Visits(c)
  <2>2. places \in Seq(X) BY VisitsDomain
  <2> HIDE DEF X, places
  <2>3. Finds(c, places, S!Started) BY <2>1, <2>2, FindsStarts
  <2>4. S!Visits(c)' = places BY <1>1, VisitsKept DEF places
  <2>5. Finds(c, places, checks'[c]) BY <2>1, <2>3
  <2> QED BY <2>4, <2>5 DEF Finds
<1> QED BY <1>1, <1>2 DEF FindInv

\* Two checks do not produce the same finding: whichever of its findings under a
\* fingerprint is kept, the check is named.
LEMMA FinishFind ==
    ASSUME FindInv, HeedInv, S!Finish PROVE FindInv'
<1>1. /\ stage = "checks" /\ stage' = "done" /\ report' = store'
      /\ UNCHANGED <<site, endpoints, checks, spent, drops>>
      /\ \A c \in DOMAIN checks : S!CheckOver(c)
  BY DEF S!Finish, S!mapVars
<1>2. store' = F!Extend(store, S!Produced) BY OneLedger DEF S!Finish
<1> SUFFICES ASSUME Undisturbed', NEW c \in DOMAIN checks'
             PROVE  /\ Finds(c, S!Visits(c), checks[c])'
                    /\ S!CheckOver(c)' /\ Produces(c, report)'
  BY DEF FindInv
<1>3. Undisturbed /\ c \in DOMAIN checks BY <1>1 DEF Undisturbed
<1>4. \A d \in DOMAIN checks : Finds(d, S!Visits(d), checks[d]) BY <1>1, <1>3 DEF FindInv
<1>5. S!Visits(c)' = S!Visits(c) BY <1>1, VisitsKept
<1>6. Finds(c, S!Visits(c), checks[c])'
  <2>1. Finds(c, S!Visits(c), checks[c]) BY <1>3, <1>4
  <2> QED BY <1>1, <1>5, <2>1 DEF Finds
<1>7. S!CheckOver(c)'
  <2>1. S!CheckOver(c) BY <1>1, <1>3
  <2> QED BY <1>1, <1>5, <2>1 DEF S!CheckOver
<1>8. ASSUME NEW f \in checks[c].found
      PROVE  f.fingerprint \in DOMAIN store' /\ c \in store'[f.fingerprint].evidence
  <2> DEFINE k == f.fingerprint
             g == The(S!Produced, k)
  <2>1. f \in S!Produced BY <1>3 DEF S!Produced
  <2>2. k \in Keys(S!Produced) BY <2>1 DEF Keys, F!Fingerprint
  <2>3. g \in S!Produced /\ g.fingerprint = k BY <2>2, TheIsThere DEF F!Fingerprint
  <2>4. PICK d \in DOMAIN checks : g \in checks[d].found BY <2>3 DEF S!Produced
  <2>5. Owner(k[1]) = c BY <1>3, <1>4 DEF Finds
  <2>6. Owner(g.fingerprint[1]) = d /\ g.evidence = {d} BY <1>4, <2>4 DEF Finds
  <2>7. g.evidence = {c} BY <2>3, <2>5, <2>6
  <2>8. store' = [j \in DOMAIN store \cup Keys(S!Produced) |->
                    IF j \notin Keys(S!Produced) THEN store[j]
                    ELSE IF j \notin DOMAIN store THEN F!Kept(The(S!Produced, j))
                    ELSE F!Merge(store[j], The(S!Produced, j))]
    BY <1>2, ExtendShape
  <2> HIDE DEF k
  <2>9. k \in DOMAIN store' /\ store'[k] = IF k \notin DOMAIN store THEN F!Kept(g)
                                           ELSE F!Merge(store[k], g)
    BY <2>2, <2>8
  <2> HIDE DEF g
  <2>10. g.evidence \subseteq store'[k].evidence
    <3>1. F!Kept(g).evidence = g.evidence BY DEF F!Kept
    <3>2. F!Merge(store[k], g).evidence = store[k].evidence \cup g.evidence BY DEF F!Merge
    <3> QED BY <2>9, <3>1, <3>2
  <2> QED BY <2>7, <2>9, <2>10 DEF k
<1>9. Produces(c, report)' BY <1>1, <1>8 DEF Produces
<1> QED BY <1>6, <1>7, <1>9

\* The steps that leave the checks, and nothing.
LEMMA StaysFind ==
    ASSUME FindInv, UNCHANGED <<site, endpoints, checks, stage, report, spent, drops>>
    PROVE  FindInv'
<1> SUFFICES ASSUME Undisturbed', stage' \in {"checks", "done"}, NEW c \in DOMAIN checks'
             PROVE  /\ Finds(c, S!Visits(c), checks[c])'
                    /\ stage' = "done" => S!CheckOver(c)' /\ Produces(c, report)'
  BY DEF FindInv
<1>1. Undisturbed /\ c \in DOMAIN checks BY DEF Undisturbed
<1>2. /\ Finds(c, S!Visits(c), checks[c])
      /\ stage = "done" => S!CheckOver(c) /\ Produces(c, report)
  BY <1>1 DEF FindInv
<1>3. S!Visits(c)' = S!Visits(c) BY VisitsKept
<1>4. Finds(c, S!Visits(c), checks[c])' BY <1>2, <1>3 DEF Finds
<1>5. S!CheckOver(c)' <=> S!CheckOver(c) BY <1>3 DEF S!CheckOver
<1>6. Produces(c, report)' <=> Produces(c, report) BY DEF Produces
<1> QED BY <1>2, <1>4, <1>5, <1>6

LEMMA FindStep ==
    ASSUME FindInv, HeedInv, ScanInv, CrawlInv, S!ScanNext PROVE FindInv'
<1>1. CASE S!Probe \/ S!CrawlPage \/ S!CrawlEnds \/ S!Robots \/ S!Sitemap
  <2>1. stage' # "checks" /\ stage' # "done"
    BY <1>1, Zenon DEF S!Probe, S!CrawlPage, S!CrawlEnds, S!Robots, S!Sitemap
  <2> QED BY <2>1 DEF FindInv
<1>2. CASE S!StartChecks BY <1>2, StartFind
<1>3. CASE S!Finish BY <1>3, FinishFind
<1>4. ASSUME NEW c \in DOMAIN checks, S!CheckAsks(c) \/ S!CheckConcludes(c) \/ S!CheckRaises(c)
      PROVE  FindInv'
  <2>1. ChecksInv BY DEF ScanInv
  <2> QED BY <1>4, <2>1, AsksFind, ConcludesFind, RaisesFind
<1> QED BY <1>1, <1>2, <1>3, <1>4 DEF S!ScanNext

\* Only a scan has checks.
Seeking == IF command = "scan" THEN FindInv ELSE stage = "idle"

LEMMA SeekingKept == Spec => []Seeking
<1>1. Init => Seeking
  <2> SUFFICES ASSUME Init PROVE Seeking OBVIOUS
  <2>1. CASE command = "scan"
    <3>1. stage # "checks" /\ stage # "done" BY <2>1 DEF Init, S!ScanInit
    <3> QED BY <2>1, <3>1 DEF Seeking, FindInv
  <2>2. CASE command # "scan" BY <2>2 DEF Init, Seeking, S!ScanIdle
  <2> QED BY <2>1, <2>2
<1>2. CyberInv /\ Crawling /\ Heeding /\ Seeking /\ [Next]_vars => Seeking'
  <2> SUFFICES ASSUME CyberInv, Crawling, Heeding, Seeking, [Next]_vars PROVE Seeking' OBVIOUS
  <2>1. CASE UNCHANGED vars
    <3>1. UNCHANGED <<command, site, endpoints, checks, stage, report, spent, drops>>
      BY <2>1 DEF vars, scanVars
    <3> QED BY <3>1, StaysFind DEF Seeking
  <2>2. CASE command = "scan" /\ S!ScanNext /\ UNCHANGED command
    <3>1. FindInv' BY <2>2, FindStep DEF Seeking, Crawling, Heeding, CyberInv
    <3> QED BY <2>2, <3>1 DEF Seeking
  <2>3. CASE command # "scan" /\ UNCHANGED <<command, scanVars>>
    BY <2>3 DEF Seeking, scanVars
  <2> QED BY <2>1, <2>2, <2>3 DEF Next
<1> QED BY <1>1, <1>2, CyberInvariant, CrawlingKept, HeedingKept, PTL DEF Spec

-----------------------------------------------------------------------------
(* The places a check visits are those it is meant for *)

LEMMA ListingMore ==
    ASSUME NEW X, NEW s \in Seq(X), NEW x \in X
    PROVE  Listing(Append(s, x)) = Listing(s) \cup {x}
<1> DEFINE t == Append(s, x)
<1>1. /\ Len(s) \in Nat /\ DOMAIN s = 1 .. Len(s) /\ DOMAIN t = 1 .. Len(s) + 1
      /\ t[Len(s) + 1] = x /\ \A i \in 1 .. Len(s) : t[i] = s[i]
  OBVIOUS
<1> HIDE DEF t
<1>2. \A i \in 1 .. Len(s) + 1 : i \in 1 .. Len(s) \/ i = Len(s) + 1 BY <1>1
<1>3. Len(s) + 1 \in DOMAIN t /\ DOMAIN s \subseteq DOMAIN t BY <1>1
<1>4. Listing(t) = Listing(s) \cup {x}
  <2>1. ASSUME NEW i \in DOMAIN t PROVE t[i] \in Listing(s) \cup {x}
    BY <1>1, <1>2 DEF Listing
  <2>2. ASSUME NEW i \in DOMAIN s PROVE s[i] \in Listing(t)
    <3>1. t[i] = s[i] /\ i \in DOMAIN t BY <1>1, <1>3
    <3> QED BY <3>1 DEF Listing
  <2>3. x \in Listing(t) BY <1>1, <1>3 DEF Listing
  <2> QED BY <2>1, <2>2, <2>3 DEF Listing
<1> QED BY <1>4 DEF t

LEMMA OfKindsLists ==
    ASSUME NEW X, NEW places \in Seq(X), NEW kinds
    PROVE  /\ Listing(S!OfKinds(places, kinds)) = {x \in Listing(places) : x.kind \in kinds}
           /\ Len(S!OfKinds(places, kinds)) <= Len(places)
<1> DEFINE N == Len(places)
           next(s, i) == IF places[i].kind \in kinds THEN Append(s, places[i]) ELSE s
           none == <<>>
           of(n) == {places[i] : i \in {j \in 1 .. n : places[j].kind \in kinds}}
<1>1. N \in Nat OBVIOUS
<1>2. \E f : IsKept(places, kinds, N, f) BY <1>1, KeptExists
<1>3. PICK f : IsKept(places, kinds, N, f) /\ S!OfKinds(places, kinds) = f[N]
  <2> DEFINE f == CHOOSE f : IsKept(places, kinds, N, f)
  <2>1. IsKept(places, kinds, N, f) BY <1>2, Zenon
  <2>2. S!OfKinds(places, kinds) = f[N] BY Zenon DEF S!OfKinds, IsKept
  <2> QED BY <2>1, <2>2
<1>4. \A i \in 0 .. N : f[i] = IF i = 0 THEN none ELSE next(f[i - 1], i)
  BY <1>3, Zenon DEF IsKept
<1>5. \A s \in Seq(X), i \in 1 .. N : next(s, i) \in Seq(X) OBVIOUS
<1>6. none \in Seq(X) /\ Len(none) = 0 /\ Listing(none) = {} BY DEF Listing
<1>7. ASSUME NEW s \in Seq(X), NEW i \in 1 .. N
      PROVE  /\ Len(next(s, i)) <= Len(s) + 1 /\ Len(s) \in Nat /\ Len(next(s, i)) \in Nat
             /\ Listing(next(s, i)) = IF places[i].kind \in kinds THEN Listing(s) \cup {places[i]}
                                      ELSE Listing(s)
  <2>1. places[i] \in X OBVIOUS
  <2>2. Len(Append(s, places[i])) = Len(s) + 1 /\ Len(s) \in Nat OBVIOUS
  <2>3. Listing(Append(s, places[i])) = Listing(s) \cup {places[i]} BY <2>1, ListingMore
  <2>4. Len(s) + 1 <= Len(s) + 1 /\ Len(s) <= Len(s) + 1 /\ Len(s) + 1 \in Nat BY <2>2
  <2>5. CASE places[i].kind \in kinds
    <3>1. next(s, i) = Append(s, places[i]) BY <2>5
    <3> HIDE DEF next
    <3> QED BY <2>2, <2>3, <2>4, <2>5, <3>1
  <2>6. CASE places[i].kind \notin kinds
    <3>1. next(s, i) = s BY <2>6
    <3> HIDE DEF next
    <3> QED BY <2>2, <2>4, <2>6, <3>1
  <2> QED BY <2>5, <2>6
<1>8. of(0) = {} OBVIOUS
<1>9. ASSUME NEW n \in 0 .. N - 1
      PROVE  of(n + 1) = IF places[n + 1].kind \in kinds THEN of(n) \cup {places[n + 1]} ELSE of(n)
  <2>1. \A j : j \in 1 .. n + 1 <=> j \in 1 .. n \/ j = n + 1 BY <1>1
  <2> QED BY <2>1
<1>10. of(N) = {x \in Listing(places) : x.kind \in kinds}
  <2>1. DOMAIN places = 1 .. N OBVIOUS
  <2> QED BY <2>1 DEF Listing
<1> HIDE DEF N, next, none, of
<1> DEFINE Q == {n \in 0 .. N : f[n] \in Seq(X) /\ Len(f[n]) <= n /\ Listing(f[n]) = of(n)}
<1>11. 0 \in Q
  <2>1. 0 \in 0 .. N /\ f[0] = none BY <1>1, <1>4
  <2>2. f[0] \in Seq(X) /\ Listing(f[0]) = of(0) BY <1>6, <1>8, <2>1
  <2>3. Len(f[0]) <= 0 BY <1>6, <2>1
  <2> QED BY <2>1, <2>2, <2>3
<1>12. ASSUME NEW n \in 0 .. N - 1, n \in Q PROVE n + 1 \in Q
  <2>1. n + 1 \in 1 .. N /\ n + 1 \in 0 .. N /\ n + 1 # 0 /\ n + 1 - 1 = n BY <1>1
  <2>2. f[n + 1] = next(f[n], n + 1) BY <1>4, <2>1
  <2>3. f[n] \in Seq(X) /\ Len(f[n]) <= n /\ Listing(f[n]) = of(n) BY <1>12
  <2>4. f[n + 1] \in Seq(X) BY <1>5, <2>1, <2>2, <2>3
  <2>5. Len(f[n + 1]) <= Len(f[n]) + 1 /\ Len(f[n]) \in Nat /\ Len(f[n + 1]) \in Nat
    BY <1>7, <2>1, <2>2, <2>3
  <2>6. Len(f[n + 1]) <= n + 1 BY <2>3, <2>5, <2>1
  <2>7. Listing(f[n + 1]) = of(n + 1) BY <1>7, <1>9, <2>1, <2>2, <2>3
  <2> QED BY <2>1, <2>4, <2>6, <2>7
<1> HIDE DEF Q
<1>13. 0 .. N \subseteq Q BY <1>1, <1>11, <1>12, UpTo
<1>14. N \in Q BY <1>1, <1>13
<1> QED BY <1>3, <1>10, <1>14 DEF Q, N

LEMMA CutShort ==
    ASSUME NEW X, NEW s \in Seq(X), Len(s) <= EndpointLimit PROVE S!Cut(s) = s
<1>1. EndpointLimit \in Nat /\ Len(s) \in Nat BY CyberAssumption
<1>2. (IF Len(s) < EndpointLimit THEN Len(s) ELSE EndpointLimit) = Len(s) BY <1>1
<1>3. SubSeq(s, 1, Len(s)) = s OBVIOUS
<1> QED BY <1>2, <1>3 DEF S!Cut

\* The base URL before the others.
LEMMA BaseFirst ==
    ASSUME NEW X, NEW s \in Seq(X), NEW x \in X
    PROVE  /\ x \in Listing(<<x>> \o s) /\ Listing(s) \subseteq Listing(<<x>> \o s)
           /\ 1 \in DOMAIN (<<x>> \o s) /\ (<<x>> \o s)[1] = x
<1> DEFINE t == <<x>> \o s
<1>1. /\ Len(s) \in Nat /\ DOMAIN s = 1 .. Len(s) /\ DOMAIN t = 1 .. Len(s) + 1
      /\ t[1] = x /\ \A i \in 1 .. Len(s) : t[i + 1] = s[i]
  OBVIOUS
<1> HIDE DEF t
<1>2. 1 \in DOMAIN t /\ \A i \in DOMAIN s : i + 1 \in DOMAIN t BY <1>1
<1>3. x \in Listing(t) BY <1>1, <1>2 DEF Listing
<1>4. ASSUME NEW i \in DOMAIN s PROVE s[i] \in Listing(t)
  <2>1. t[i + 1] = s[i] /\ i + 1 \in DOMAIN t BY <1>1, <1>2
  <2> QED BY <2>1 DEF Listing
<1>5. Listing(s) \subseteq Listing(t) BY <1>4 DEF Listing
<1> QED BY <1>1, <1>2, <1>3, <1>5 DEF t

LEMMA BaseOnly ==
    ASSUME NEW x PROVE Listing(<<x>>) = {x} /\ 1 \in DOMAIN <<x>> /\ (<<x>>)[1] = x
BY DEF Listing

LEMMA NoneListed == ASSUME NEW X, NEW s \in Seq(X), Listing(s) = {} PROVE s = <<>>
<1>1. DOMAIN s = {} BY DEF Listing
<1>2. Len(s) \in Nat /\ DOMAIN s = 1 .. Len(s) OBVIOUS
<1>3. Len(s) = 0 BY <1>1, <1>2
<1> QED BY <1>3

\* The places listed on the context.
Known == [i \in DOMAIN endpoints |-> Numbered(endpoints[i])]

LEMMA KnownLists ==
    ASSUME endpoints \in Seq(Pages)
    PROVE  /\ Known \in Seq({Numbered(q) : q \in Pages}) /\ Len(Known) = Len(endpoints)
           /\ Listing(Known) = {Numbered(q) : q \in Listing(endpoints)}
<1> DEFINE X == {Numbered(q) : q \in Pages}
           n == Len(endpoints)
<1>1. /\ n \in Nat /\ DOMAIN endpoints = 1 .. n
      /\ \A i \in 1 .. n : endpoints[i] \in Pages
  OBVIOUS
<1>2. \A q \in Pages : Numbered(q) \in X OBVIOUS
<1> HIDE DEF X, n
<1>3. Known \in [1 .. n -> X] BY <1>1, <1>2 DEF Known
<1>4. Known \in Seq(X) /\ Len(Known) = n
  <2> DEFINE k == Known
  <2>1. k \in [1 .. n -> X] BY <1>3
  <2> HIDE DEF k
  <2>2. k \in Seq(X) /\ Len(k) = n BY <1>1, <2>1
  <2> QED BY <2>2 DEF k
<1>5. /\ DOMAIN Known = DOMAIN endpoints
      /\ \A i \in DOMAIN endpoints : Known[i] = Numbered(endpoints[i])
  BY DEF Known
<1>6. Listing(Known) = {Numbered(q) : q \in Listing(endpoints)} BY <1>5, Zenon DEF Listing
<1> QED BY <1>4, <1>6 DEF X, n

\* What is said of the places of a check: p is among them, as the first where it is the
\* base URL of an audit of tokens.
Covers(c, places, p) ==
    /\ Numbered(p) \in Listing(places)
    /\ c = "token-audit" /\ p = 1 => 1 \in DOMAIN places /\ places[1] = Numbered(p)

Query == {"plain", "url", "login", "redirect", "token"}

LEMMA SoughtIsVisited ==
    ASSUME HeedInv, Listing(endpoints) = Within, Len(endpoints) <= EndpointLimit,
           NEW c, NEW p \in Within, Sought(c, p)
    PROVE  Covers(c, S!Visits(c), p)
<1> DEFINE X == {Numbered(q) : q \in Pages}
           known == Known
           base == Numbered(1)
           of(kinds) == S!OfKinds(known, kinds)
           here == Numbered(p)
           V == S!Visits(c)
<1>1. /\ endpoints \in Seq(Pages) /\ 1 \in Pages BY DEF HeedInv
<1>2. /\ known \in Seq(X) /\ Len(known) <= EndpointLimit
      /\ Listing(known) = {Numbered(q) : q \in Within}
  BY <1>1, KnownLists
<1>3. base \in X /\ here \in Listing(known) /\ Len(endpoints) \in Nat /\ EndpointLimit \in Nat
  <2>1. base \in X BY <1>1
  <2>2. EndpointLimit \in Nat BY CyberAssumption
  <2>3. Len(endpoints) \in Nat BY <1>1
  <2> QED BY <1>2, <2>1, <2>2, <2>3
<1>4. here.kind = site.pages[p].kind BY DEF Numbered
<1>5. V = S!Places(c, base, known) BY Zenon DEF S!Visits, Known, Numbered
<1> HIDE DEF X, known, base, here, V
<1>6. ASSUME NEW s \in Seq(X), Len(s) <= EndpointLimit, NEW kinds
      PROVE  /\ S!Cut(s) = s
             /\ S!OfKinds(s, kinds) \in Seq(X) /\ Len(S!OfKinds(s, kinds)) <= EndpointLimit
             /\ Listing(S!OfKinds(s, kinds)) = {x \in Listing(s) : x.kind \in kinds}
  <2>1. S!Cut(s) = s BY <1>6, CutShort
  <2>2. S!OfKinds(s, kinds) \in Seq(X) BY OfKindsShape
  <2>3. /\ Len(S!OfKinds(s, kinds)) <= Len(s)
        /\ Listing(S!OfKinds(s, kinds)) = {x \in Listing(s) : x.kind \in kinds}
    BY OfKindsLists
  <2>4. Len(s) \in Nat /\ Len(S!OfKinds(s, kinds)) \in Nat BY <2>2
  <2> QED BY <1>3, <1>6, <2>1, <2>2, <2>3, <2>4
<1>7. ASSUME NEW kinds
      PROVE  /\ of(kinds) \in Seq(X) /\ S!Cut(of(kinds)) = of(kinds) /\ Len(of(kinds)) <= EndpointLimit
             /\ here.kind \in kinds => here \in Listing(of(kinds))
             /\ Listing(of(kinds)) = {x \in Listing(known) : x.kind \in kinds}
  BY <1>2, <1>3, <1>6
<1>8. S!Cut(known) = known BY <1>2, <1>6
<1>9. \A s \in Seq(X) : /\ base \in Listing(<<base>> \o s) /\ Listing(s) \subseteq Listing(<<base>> \o s)
                        /\ 1 \in DOMAIN (<<base>> \o s) /\ (<<base>> \o s)[1] = base
  BY <1>3, BaseFirst
<1>10. Listing(<<base>>) = {base} BY BaseOnly
<1>11. p = 1 => here = base BY DEF here, base
<1> HIDE DEF of
<1> DEFINE query == of(Query)
<1>12. here.kind \in Query => here \in Listing(query) BY <1>7
<1>13. query \in Seq(X) /\ S!Cut(query) = query /\ Len(query) <= EndpointLimit BY <1>7
<1> HIDE DEF query
<1>14. query = S!OfKinds(known, {"plain", "url", "login", "redirect", "token"})
  BY DEF query, of, Query
<1> DEFINE plain == {"sql-injection", "reflected-xss", "template-injection", "path-traversal",
                     "command-injection", "crlf-injection"}
<1>15. CASE c \in plain
  <2>1. S!Places(c, base, known) = S!Cut(query) BY <1>14, <1>15, Zenon DEF S!Places
  <2>2. site.pages[p].kind \in Query BY <1>15, Zenon DEF Sought, Query
  <2>3. here \in Listing(V) BY <1>4, <1>5, <1>12, <1>13, <2>1, <2>2, Zenon
  <2>4. c # "token-audit" BY <1>15, Zenon
  <2> QED BY <2>3, <2>4, Zenon DEF Covers, V, here
<1>16. CASE c = "host-header-injection"
  <2>1. V = <<base>> \o query BY <1>5, <1>13, <1>14, <1>16, Zenon DEF S!Places
  <2>2. site.pages[p].kind \in Query \/ p = 1 BY <1>16, Zenon DEF Sought, Query
  <2>3. here \in Listing(query) \/ here = base BY <1>4, <1>11, <1>12, <2>2, Zenon
  <2>4. here \in Listing(V) BY <1>9, <1>13, <2>1, <2>3, Zenon
  <2>5. c # "token-audit" BY <1>16, Zenon
  <2> QED BY <2>4, <2>5, Zenon DEF Covers, V, here
<1>17. CASE c = "nosql-injection"
  <2> DEFINE kinds == {"login"}
  <2>1. V = S!OfKinds(query, kinds) BY <1>5, <1>13, <1>14, <1>17, Zenon DEF S!Places
  <2>2. site.pages[p].kind = "login" BY <1>17, Zenon DEF Sought
  <2>3. here.kind \in Query /\ here.kind \in kinds BY <1>4, <2>2, Zenon DEF Query
  <2> HIDE DEF kinds
  <2>4. Listing(S!OfKinds(query, kinds)) = {x \in Listing(query) : x.kind \in kinds}
    BY <1>6, <1>13, Zenon
  <2>5. here \in Listing(V) BY <1>12, <2>1, <2>3, <2>4, Zenon
  <2>6. c # "token-audit" BY <1>17, Zenon
  <2> QED BY <2>5, <2>6, Zenon DEF Covers, V, here
<1>18. CASE c = "ssrf"
  <2>1. V = S!Cut(of({"url"})) BY <1>5, <1>18, Zenon DEF S!Places, of
  <2>2. here.kind \in {"url"} BY <1>4, <1>18, Zenon DEF Sought
  <2>3. here \in Listing(V) BY <1>7, <2>1, <2>2
  <2>4. c # "token-audit" BY <1>18, Zenon
  <2> QED BY <2>3, <2>4, Zenon DEF Covers, V, here
<1>19. CASE c = "xxe"
  <2> DEFINE kinds == {"xml"}
             xml == of(kinds)
  <2>1. V = IF xml = <<>> THEN <<base>> ELSE S!Cut(xml) BY <1>5, <1>19, Zenon DEF S!Places, of
  <2>2. \/ here.kind \in kinds
        \/ p = 1 /\ \A q \in Within : site.pages[q].kind \notin kinds
    BY <1>4, <1>19, Zenon DEF Sought
  <2>3. \A x \in Listing(known) : \E q \in Within : x.kind = site.pages[q].kind
    BY <1>2 DEF Numbered
  <2> HIDE DEF kinds
  <2>4. xml \in Seq(X) /\ S!Cut(xml) = xml /\ (here.kind \in kinds => here \in Listing(xml))
        /\ Listing(xml) = {x \in Listing(known) : x.kind \in kinds}
    BY <1>7
  <2> HIDE DEF xml
  <2>5. ASSUME here.kind \in kinds PROVE here \in Listing(V)
    <3>1. here \in Listing(xml) BY <2>4, <2>5
    <3>2. xml # <<>>
      <4>1. Listing(<<>>) = {} BY DEF Listing
      <4> QED BY <3>1, <4>1
    <3> QED BY <2>1, <2>4, <3>1, <3>2
  <2>6. ASSUME p = 1 /\ \A q \in Within : site.pages[q].kind \notin kinds PROVE here \in Listing(V)
    <3>1. Listing(xml) = {} BY <2>3, <2>4, <2>6
    <3>2. xml = <<>> BY <2>4, <3>1, NoneListed
    <3>3. V = <<base>> /\ here = base BY <1>11, <2>1, <2>6, <3>2
    <3>4. here \in Listing(V) BY <1>10, <3>3
    <3> QED BY <3>4
  <2>7. here \in Listing(V) BY <2>2, <2>5, <2>6
  <2>8. c # "token-audit" BY <1>19, Zenon
  <2> QED BY <2>7, <2>8, Zenon DEF Covers, V, here
<1>20. CASE c = "idor"
  <2>1. V = of({"object"}) BY <1>5, <1>20, Zenon DEF S!Places, of
  <2>2. here.kind \in {"object"} BY <1>4, <1>20, Zenon DEF Sought
  <2>3. here \in Listing(V) BY <1>7, <2>1, <2>2
  <2>4. c # "token-audit" BY <1>20, Zenon
  <2> QED BY <2>3, <2>4, Zenon DEF Covers, V, here
<1>21. CASE c = "open-redirect"
  <2>1. V = of({"redirect", "url"}) BY <1>5, <1>21, Zenon DEF S!Places, of
  <2>2. here.kind \in {"redirect", "url"} BY <1>4, <1>21, Zenon DEF Sought
  <2>3. here \in Listing(V) BY <1>7, <2>1, <2>2
  <2>4. c # "token-audit" BY <1>21, Zenon
  <2> QED BY <2>3, <2>4, Zenon DEF Covers, V, here
<1>22. CASE c \in {"verbose-errors", "token-audit"}
  <2>1. V = <<base>> \o S!Cut(known) BY <1>5, <1>22, Zenon DEF S!Places
  <2>2. V = <<base>> \o known BY <1>8, <2>1
  <2>3. here \in Listing(V) /\ 1 \in DOMAIN V /\ V[1] = base BY <1>2, <1>3, <1>9, <2>2
  <2>4. p = 1 => 1 \in DOMAIN V /\ V[1] = here BY <1>11, <2>3
  <2> QED BY <2>3, <2>4, Zenon DEF Covers, V, here
<1>23. CASE /\ c \notin plain
            /\ c # "host-header-injection" /\ c # "nosql-injection" /\ c # "ssrf" /\ c # "xxe"
            /\ c # "idor" /\ c # "open-redirect" /\ c \notin {"verbose-errors", "token-audit"}
  <2>1. V = <<base>> BY <1>5, <1>23, Zenon DEF S!Places
  <2>2. p = 1 BY <1>23, Zenon DEF Sought
  <2>3. here \in Listing(V) BY <1>10, <1>11, <2>1, <2>2
  <2>4. c # "token-audit" BY <1>23, Zenon
  <2> QED BY <2>3, <2>4, Zenon DEF Covers, V, here
<1> QED
  BY <1>15, <1>16, <1>17, <1>18, <1>19, <1>20, <1>21, <1>22, <1>23, Zenon DEF Covers

\* The places of a check are pages of the site.
LEMMA VisitOfPage ==
    ASSUME HeedInv, NEW c, NEW m \in DOMAIN S!Visits(c)
    PROVE  S!Visits(c)[m] = Numbered(S!Visits(c)[m].page)
<1> DEFINE X == {Numbered(q) : q \in Pages}
           V == S!Visits(c)
<1>1. V \in Seq(X) BY VisitsAreNumbered DEF HeedInv
<1>2. DOMAIN V = 1 .. Len(V) /\ \A i \in 1 .. Len(V) : V[i] \in X
  <2> HIDE DEF V, X
  <2> QED BY <1>1
<1>3. PICK q \in Pages : V[m] = Numbered(q) BY <1>2, Zenon
<1>4. V[m].page = q BY <1>3 DEF Numbered
<1> QED BY <1>3, <1>4

\* Where a weakness shows, a check that visits it as this one of its places sees it.
LEMMA ShowsIsShown ==
    ASSUME HeedInv, NEW c, NEW p, Shows(c, p), Probed(c, p), Covers(c, S!Visits(c), p)
    PROVE  \E m \in DOMAIN S!Visits(c) : S!Visits(c)[m] = Numbered(p) /\ Shown(c, S!Visits(c), m)
<1> DEFINE V == S!Visits(c)
           here == Numbered(p)
           timed == c = "command-injection" /\ "shell" \notin here.traits
<1>2. here.traits = site.pages[p].traits BY DEF Numbered
<1>3. here \in Listing(V) BY DEF Covers
<1>4. PICK m \in DOMAIN V :
        V[m] = here /\ (c = "token-audit" /\ p = 1 => m = 1) /\ (timed => m <= TimingLimit)
  <2>1. CASE c = "token-audit" /\ p = 1
    <3>1. 1 \in DOMAIN V /\ V[1] = here BY <2>1, Zenon DEF Covers
    <3>2. ~timed BY <2>1, Zenon
    <3> QED BY <3>1, <3>2, Zenon
  <2>2. CASE timed
    <3>1. PICK m \in DOMAIN V : m <= TimingLimit /\ V[m].page = p BY <1>2, <2>2, Zenon DEF Probed
    <3>2. V[m] = here BY <3>1, VisitOfPage
    <3>3. c # "token-audit" BY <2>2, Zenon
    <3> QED BY <3>1, <3>2, <3>3, Zenon
  <2>3. CASE ~(c = "token-audit" /\ p = 1) /\ ~timed
    <3>1. PICK m \in DOMAIN V : V[m] = here BY <1>3, Zenon DEF Listing
    <3> QED BY <2>3, <3>1, Zenon
  <2> QED BY <2>1, <2>2, <2>3, Zenon
<1> HIDE DEF V, here
<1>6. /\ (here.traits \cap S!Weakness(c)) \ (IF c = "token-audit" /\ m # 1 THEN {"token cookie"} ELSE {}) # {}
      /\ here.traits \cap Hiding(c) = {}
      /\ c = "dangerous-methods" => {"TRACE", "OPTIONS"} \cap AllowedMethods # {}
  BY <1>2, <1>4, Zenon DEF Shows
<1>7. Reveals(c, here, m, {}) BY <1>4, <1>6, Zenon DEF Reveals
<1>8. Shown(c, V, m) BY <1>4, <1>7, Zenon DEF Shown
<1> QED BY <1>4, <1>8, Zenon DEF V, here

\* Every weakness within the depth of the crawl that the page shows to a check of the
\* suite is in the report of a scan that nothing cuts short, on any site, however the
\* steps of the checks interleave (Scanner.run, run_checks, the checks' places).
THEOREM WeaknessesAreFound == Spec => []ScanFinds
<1>1. Crawling /\ Heeding /\ Seeking => ScanFinds
  <2> SUFFICES ASSUME Crawling, Heeding, Seeking, stage = "done", Undisturbed, fetched < MaxPages,
                      Alive(site, 1), Len(endpoints) <= EndpointLimit,
                      NEW c \in DOMAIN checks, NEW p \in Within, Sought(c, p), Shows(c, p), Probed(c, p)
               PROVE  \E k \in DOMAIN report :
                         /\ c \in report[k].evidence
                         /\ k[2] = p \/ (OnceOnly(c, p) /\ VisitsBefore(c, k[2], p))
    BY DEF ScanFinds
  <2>1. CrawlInv /\ HeedInv /\ FindInv BY DEF Crawling, Heeding, Seeking
  <2>2. Listing(endpoints) = Within BY <2>1 DEF CrawlInv, Searching
  <2>3. Covers(c, S!Visits(c), p) BY <2>1, <2>2, SoughtIsVisited
  <2> DEFINE V == S!Visits(c)
             found == checks[c].found
  <2>4. PICK m \in DOMAIN V : V[m] = Numbered(p) /\ Shown(c, V, m)
    BY <2>1, <2>3, ShowsIsShown
  <2>5. Finds(c, V, checks[c]) /\ S!CheckOver(c) /\ Produces(c, report) BY <2>1 DEF FindInv
  <2>6. m < checks[c].number \/ checks[c].over
    <3>1. checks[c].over \/ checks[c].number > Len(V) BY <2>5 DEF S!CheckOver
    <3>2. m \in 1 .. Len(V) /\ Len(V) \in Nat BY <2>1, VisitsDomain
    <3>3. checks[c].number \in Nat BY <2>5 DEF Finds
    <3> HIDE DEF V
    <3> QED BY <3>1, <3>2, <3>3
  <2>7. Accounted(c, V, m, found) BY <2>4, <2>5, <2>6 DEF Finds
  <2>8. PICK f \in found, j \in DOMAIN V :
           f.fingerprint[2] = V[j].page /\ (j = m \/ (j < m /\ Enough(c, V[m])))
    BY <2>7 DEF Accounted
  <2> DEFINE k == f.fingerprint
  <2>9. k \in DOMAIN report /\ c \in report[k].evidence BY <2>5, <2>8 DEF Produces
  <2>10. V[m].page = p /\ V[m].traits = site.pages[p].traits BY <2>4 DEF Numbered
  <2>11. CASE j = m
    <3>1. k[2] = p BY <2>8, <2>10, <2>11
    <3> QED BY <2>9, <3>1
  <2>12. CASE j < m /\ Enough(c, V[m])
    <3>1. OnceOnly(c, p) BY <2>10, <2>12, Zenon DEF Enough, OnceOnly
    <3>2. VisitsBefore(c, k[2], p) BY <2>8, <2>10, <2>12 DEF VisitsBefore
    <3> QED BY <2>9, <3>1, <3>2
  <2> QED BY <2>8, <2>11, <2>12
<1> QED BY <1>1, CrawlingKept, HeedingKept, SeekingKept, PTL

=============================================================================
