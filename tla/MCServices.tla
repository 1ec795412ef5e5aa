------------------------------ MODULE MCServices ------------------------------
(* An instance of Services for TLC. *)
EXTENDS Services

MCRequests == {{"unknown"}, {"shell", "spawn_subagent"}}

MCTurnTools == {"calculator", "datetime", "shell", "spawn_subagent"}

MCNumbered == <<"skill_1", "skill_2", "skill_3", "skill_4", "skill_5">>

MCStem ==
    [name \in {"Log triage", "log_triage"} \cup {MCNumbered[n] : n \in DOMAIN MCNumbered} |->
        IF name = "Log triage" THEN "log_triage" ELSE name]

Written(name, rich) ==
    [name |-> name, steps |-> 2, more |-> rich, version |-> 0, form |-> "numbered",
     used |-> 0, seen |-> rich, calls |-> rich]

\* A library of JSON files, a copy under another name, and none.
MCBrought ==
    {[place \in {} |-> {}],
     [place \in {<<"log_triage", ".json">>} |-> Written("log_triage", TRUE)],
     [place \in {<<"copy", ".md">>, <<"skill_2", ".md">>} |-> Written("skill_2", FALSE)]}

\* The largest overlap with which cutting gets on wherever sentences end, one less, the
\* least with which it may not, and one larger than the chunks.
MCSettings == {<<5, 2>>, <<5, 1>>, <<3, 2>>, <<2, 3>>}

\* Shorter than a chunk, and of several, with up to two breaks.
MCTexts ==
    {t \in UNION {[1 .. n -> {"x", "dot", "line"}] : n \in {2, 6}} :
        Cardinality({n \in DOMAIN t : t[n] # "x"}) <= 2}
===============================================================================
