------------------------------- MODULE Services -------------------------------
(***************************************************************************)
(* Four services of the agent, each on its own: completions (Completion),    *)
(* delegations (Subagent), the skill library (Skills) and the knowledge base  *)
(* (Retrieval).                                                              *)
(***************************************************************************)
EXTENDS Integers, Sequences, FiniteSets

CONSTANTS
    Indices, MaxPieces, MaxCompletions,
    TurnTools, Defaults, Requests, MaxSteps, MaxDepth, TurnSteps, TurnBatch, MaxBatch, MaxFrames,
    Names, Stem, Numbered, Brought, MaxChanges, MaxVersion,
    Texts, Edited, Sources, Blank, SentenceEnds, Settings, Beginning, MaxIngests, MaxChunks

VARIABLES
    service,
    provider, kind, choice, rejects, asked, attempt, phase, text, calls, envelopes, last,
    frames, label,
    library, files, changes, robbed, halfway,
    source, document, size, overlap, start, chunks, reading, collection, ingested

C == INSTANCE Completion
D == INSTANCE Subagent
K == INSTANCE Skills
R == INSTANCE Retrieval

ASSUME ServicesAssumption ==
    /\ {MaxPieces, MaxCompletions, TurnSteps, TurnBatch, MaxBatch, MaxFrames, MaxChanges, MaxVersion}
        \subseteq Nat
    /\ {MaxSteps, MaxDepth} \subseteq Nat \ {0}
    /\ Defaults \subseteq TurnTools /\ D!Spawner \in TurnTools
    /\ Names \subseteq DOMAIN Stem
    /\ Settings \subseteq Int \X Int    \* config.py allows any
    /\ {Beginning, MaxIngests, MaxChunks} \subseteq Nat
    /\ \A directory \in Brought : \A file \in DOMAIN directory : K!IsFile(file, directory[file])
    /\ Texts \subseteq Seq(UNION {{t[n] : n \in DOMAIN t} : t \in Texts})

completionVars ==
    <<provider, kind, choice, rejects, asked, attempt, phase, text, calls, envelopes, last>>
delegationVars == <<frames, label>>
skillVars == <<library, files, changes, robbed, halfway>>
retrievalVars ==
    <<source, document, size, overlap, start, chunks, reading, collection, ingested>>

vars == <<service, completionVars, delegationVars, skillVars, retrievalVars>>

Init ==
    /\ service \in {"completion", "delegation", "skills", "retrieval"}
    /\ IF service = "completion" THEN C!CompletionInit ELSE C!CompletionIdle
    /\ IF service = "delegation" THEN D!DelegationInit ELSE D!DelegationIdle
    /\ IF service = "skills" THEN K!SkillsInit ELSE K!SkillsIdle
    /\ R!RetrievalInit

Next ==
    /\ UNCHANGED service
    /\ \/ /\ service = "completion" /\ C!CompletionNext
          /\ UNCHANGED <<delegationVars, skillVars, retrievalVars>>
       \/ /\ service = "delegation" /\ D!DelegationNext
          /\ UNCHANGED <<completionVars, skillVars, retrievalVars>>
       \/ /\ service = "skills" /\ K!SkillsNext
          /\ UNCHANGED <<completionVars, delegationVars, retrievalVars>>
       \/ /\ service = "retrieval" /\ R!RetrievalNext
          /\ UNCHANGED <<completionVars, delegationVars, skillVars>>

\* Every request is answered, fails or times out, and every tool returns.
Spec == Init /\ [][Next]_vars /\ WF_vars(Next)

-----------------------------------------------------------------------------
(* Completions *)

\* Through refusals, errors and retries the text of an answer is of its last attempt,
\* which is what the consumer was shown, once.  So are its tool calls as long as no error
\* came in a stream; what an attempt with such an error, or any attempt after it, left
\* may stay in them.  An answer is empty only where the model said nothing, or where its
\* server refused "required" in the last attempt; and once text was shown only a lost
\* connection takes the answer away.
AnswerAssembled ==
    /\ phase = "returned" =>
         /\ \A n \in DOMAIN text : text[n] = attempt
         /\ \A i \in Indices : \A n \in DOMAIN calls[i] :
              calls[i][n] = attempt \/ \E e \in envelopes : e <= calls[i][n]
         /\ text = <<>> /\ calls = C!Empty =>
              last = "answered" \/ (last = "refused" /\ attempt = C!Tries)
    /\ phase = "raised" /\ text # <<>> => last = "lost"

-----------------------------------------------------------------------------
(* Delegations *)

\* Whatever runs side by side, is nested, fails or times out: the usage log bills to a
\* delegation the responses its own run got and no others, and once its closing row is
\* written nothing under it runs on.
Attributed ==
    /\ \A f \in DOMAIN frames : frames[f].rows = frames[f].returned
    /\ \A f \in DOMAIN D!Breakdown :
         D!Breakdown[f].status # "none" =>
             \A g \in D!Under(f) : ~D!Live(g)

\* A delegation has no tool its parent lacks and is not nested deeper than the limit,
\* unless a run above it was given the spawner by name at the limit; and no delegation
\* has a tool the turn lacks.
NestingNarrows ==
    LET depth[f \in DOMAIN frames] == IF f = 1 THEN 0 ELSE 1 + depth[frames[f].parent]
        given == {g \in DOMAIN frames : frames[g].inherited}
    IN  \A f \in DOMAIN frames \ {1} :
          /\ frames[f].tools \subseteq TurnTools
          /\ (\A g \in given : g = f \/ f \notin D!Under(g)) =>
                /\ depth[f] <= MaxDepth
                /\ frames[f].tools \subseteq frames[frames[f].parent].tools

-----------------------------------------------------------------------------
(* Skills *)

\* The next process finds the library as this one has it, but for what markdown does
\* not keep (the last use, tool calls, further lines of a text): counts of uses, versions
\* and first lines survive.  Exceptions are a skill whose file another of the same stem
\* took, one whose update failed halfway, and one a user's file gives a second or a
\* misnamed copy.
RestartForgetsNothing ==
    \A next \in K!Libraries(files), n \in DOMAIN Stem \ (robbed \cup halfway) :
        (\A file, other \in K!Holding(files, n) : file = other /\ file[1] = Stem[n]) =>
            /\ n \in DOMAIN next <=> n \in DOMAIN library
            /\ n \in DOMAIN next => K!Markdown(next[n]) = K!Markdown(library[n])

-----------------------------------------------------------------------------
(* The knowledge base *)

\* Cutting the document gets on and passes over nothing: the overlap is less than the
\* least that is left of a window, which is a bit more than three tenths of the size
\* where a sentence ends.
Onward ==
    \/ Len(document) <= size
    \/ /\ 0 <= overlap /\ overlap < size
       /\ (overlap - 1) * 10 <= size * 3 \/ \A n \in DOMAIN document : document[n] \notin SentenceEnds

\* Wherever the breaks and blanks of a document are, its chunks are of the size set; and
\* where cutting gets on, all of it can be found once it is ingested, in these chunks,
\* or, where the document was ingested before, in older ones that begin like them.
EverythingFound ==
    reading = "stored" =>
        /\ size > 0 => \A i \in DOMAIN chunks : Len(R!Text(chunks[i])) <= size
        /\ Onward => \A n \in DOMAIN document : document[n] \notin Blank =>
             \E i \in DOMAIN chunks :
                 /\ n \in chunks[i].from .. chunks[i].to
                 /\ collection[R!Id(i)] = R!Text(chunks[i]) \/ ingested[source] > 1

-----------------------------------------------------------------------------
Busy ==
    \/ phase \in {"sent", "streaming"} \/ (reading \in {"chunking", "chunked"} /\ Onward)
    \/ \E f \in DOMAIN frames : D!Live(f)

\* A completion whose server ends its streams ends, whatever it refuses, breaks or
\* retries; so does a turn with all it delegates, whatever the models ask for; and so
\* does the cutting of a document, wherever its breaks are, where it gets on at all.
ServicesEnd == Busy ~> ~Busy
===============================================================================
