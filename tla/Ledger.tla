------------------------------- MODULE Ledger -------------------------------
(***************************************************************************)
(* What an assessment promises of its findings, whatever command runs it:    *)
(* a finding once recorded stays, its severity is never lowered and its       *)
(* confirmation never taken back, and the report is published once and is     *)
(* everything recorded by then.                                              *)
(***************************************************************************)
EXTENDS Findings

CONSTANT None    \* no report

VARIABLES recorded, published

vars == <<recorded, published>>

Entries == [severity : Severities, confidence : Confidences]

\* new is at least as grave and as certain as old.
Upholds(old, new) ==
    /\ Weight(old.severity) <= Weight(new.severity)
    /\ old.confidence = "confirmed" => new.confidence = "confirmed"

Grows(old, new) ==
    /\ new \in [DOMAIN new -> Entries]
    /\ DOMAIN old \subseteq DOMAIN new
    /\ \A k \in DOMAIN old : Upholds(old[k], new[k])

Init == recorded = EmptyStore /\ published = None

Record ==
    /\ published = None
    /\ Grows(recorded, recorded')
    /\ UNCHANGED published

\* What is still to be recorded is recorded as the report is made.
Publish ==
    /\ published = None
    /\ Grows(recorded, recorded')
    /\ published' = recorded'

Next == Record \/ Publish

Spec == Init /\ [][Next]_vars
=============================================================================
