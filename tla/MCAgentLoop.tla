---------------------------- MODULE MCAgentLoop -----------------------------
(***************************************************************************)
(* An editor with two dangerous calls, one of them in a folder and one whose *)
(* pattern does not match itself (a path without a slash), and a reader with *)
(* a safe call and one that the registry turns down.                         *)
(***************************************************************************)
EXTENDS AgentLoop

MCCall == {"folder", "file", "read", "bad"}
MCTool == {"editor", "reader"}
MCToolOf == [c \in MCCall |-> IF c \in {"folder", "file"} THEN "editor" ELSE "reader"]
MCRisk == [c \in MCCall |-> IF c \in {"folder", "file"} THEN "dangerous" ELSE "safe"]
MCWellFormed == MCCall \ {"bad"}
MCScopeable == {"folder", "file"}
MCScope == [c \in MCCall |-> IF c = "folder" THEN {"folder"} ELSE {}]

base == [parallel |-> TRUE, streamed |-> FALSE, forced |-> FALSE, recovery |-> TRUE,
         reflection |-> TRUE, interactive |-> TRUE, budget |-> 0, usage |-> {0}]

\* A budget of two tokens for a turn that may punt; a provider whose first
\* response may spend it all.
Budgeted == [base EXCEPT !.interactive = FALSE, !.reflection = FALSE, !.budget = 2,
                         !.usage = {1, 2}]

MCConfig == {base, Budgeted,
             [base EXCEPT !.interactive = FALSE, !.streamed = TRUE, !.budget = 2,
                          !.usage = {1}],
             [base EXCEPT !.parallel = FALSE, !.forced = TRUE, !.recovery = FALSE,
                          !.reflection = FALSE]}

=============================================================================
