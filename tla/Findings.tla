------------------------------ MODULE Findings ------------------------------
(***************************************************************************)
(* The findings of an assessment and the store that collects them           *)
(* (aegisx_agent/cyber/models.py, store.py).                                 *)
(*                                                                           *)
(* A finding is known by its fingerprint, which stands for its category, its  *)
(* target, its endpoint and its title.  A store is a function from            *)
(* fingerprints to what is kept under them, shared by every component that    *)
(* adds to it.                                                               *)
(***************************************************************************)
EXTENDS Naturals, FiniteSets

Severities == {"info", "low", "medium", "high", "critical"}

Weight(severity) ==
    CASE severity = "info" -> 0 [] severity = "low" -> 1 [] severity = "medium" -> 2
      [] severity = "high" -> 3 [] severity = "critical" -> 4

Confidences == {"tentative", "probable", "confirmed"}

Fingerprint(f) == f.fingerprint

IsFinding(f) == f.severity \in Severities /\ f.confidence \in Confidences

\* A finding as it is first kept.
Kept(f) == [severity |-> f.severity, confidence |-> f.confidence, evidence |-> f.evidence]

\* A newer observation folded into what is kept: the worse severity, confirmed
\* once confirmed, and the evidence of both.
Merge(old, f) ==
    [severity |-> IF Weight(f.severity) > Weight(old.severity) THEN f.severity ELSE old.severity,
     confidence |-> IF f.confidence = "confirmed" THEN "confirmed" ELSE old.confidence,
     evidence |-> old.evidence \cup f.evidence]

EmptyStore == [k \in {} |-> {}]

\* The store after findings of different fingerprints were added.
Extend(store, findings) ==
    LET keys == {Fingerprint(f) : f \in findings}
        the(k) == CHOOSE f \in findings : Fingerprint(f) = k
    IN  [k \in DOMAIN store \cup keys |->
            IF k \notin keys THEN store[k]
            ELSE IF k \notin DOMAIN store THEN Kept(the(k))
            ELSE Merge(store[k], the(k))]

\* What the store holds, back as findings.
All(store) ==
    {[fingerprint |-> k, severity |-> store[k].severity, confidence |-> store[k].confidence,
      evidence |-> store[k].evidence] : k \in DOMAIN store}

=============================================================================
