------------------------------ MODULE Completion ------------------------------
(***************************************************************************)
(* One completion of a language model: chat and stream_chat of the           *)
(* OpenAI-compatible provider (aegisx_agent/llm/openai_provider.py), which   *)
(* retries, and of the Anthropic and Ollama ones, which do not.  A piece of   *)
(* the answer stands for the attempt that sent it.                           *)
(***************************************************************************)
EXTENDS Naturals, Sequences, Functions

CONSTANTS
    Indices,        \* the indices of the tool calls of an answer
    MaxPieces,      \* bound: pieces a server sends in one completion
    MaxCompletions  \* bound: completions of one provider object

VARIABLES
    provider,   \* "openai", "anthropic" or "ollama"
    kind,       \* "chat" or "stream"
    choice,     \* payload["tool_choice"]
    rejects,    \* _rejects_required_tool_choice
    asked,      \* completions begun
    attempt,    \* from 1
    phase,      \* "idle", "sent", "streaming", "returned", "raised" or "left"
    text,       \* content_parts, what the consumer was shown: an attempt per piece
    calls,      \* tool_calls_by_index: [Indices -> Seq(attempts)]
    envelopes,  \* the attempts with an error envelope; {} is stream_error = None
    last        \* history: what the last attempt came to

completionVars ==
    <<provider, kind, choice, rejects, asked, attempt, phase, text, calls, envelopes, last>>

Empty == [i \in Indices |-> <<>>]

Choices == {"none", "auto", "required"}

Over == phase \in {"returned", "raised", "left"}

CompletionInit ==
    /\ provider \in {"openai", "anthropic", "ollama"}
    /\ kind \in {"chat", "stream"} /\ choice = "none" /\ rejects = FALSE /\ asked = 0
    /\ attempt = 0 /\ phase = "idle" /\ text = <<>> /\ calls = Empty
    /\ envelopes = {} /\ last = "none"

CompletionIdle ==
    /\ provider = "ollama" /\ kind = "chat" /\ choice = "none" /\ rejects = FALSE /\ asked = 0
    /\ attempt = 0 /\ phase = "idle" /\ text = <<>> /\ calls = Empty
    /\ envelopes = {} /\ last = "none"

\* _apply_tool_choice: a server that refused "required" is not asked for it again.
Applied(wanted) == IF provider = "openai" /\ rejects /\ wanted = "required" THEN "auto" ELSE wanted

Ask ==
    /\ phase = "idle" \/ Over
    /\ asked < MaxCompletions /\ asked' = asked + 1
    /\ kind' \in {"chat", "stream"}
    /\ \E wanted \in Choices : choice' = Applied(wanted)
    /\ attempt' = 1 /\ phase' = "sent"
    /\ text' = <<>> /\ calls' = Empty /\ envelopes' = {} /\ last' = "none"
    /\ UNCHANGED <<provider, rejects>>

\* The providers that send a request once.
Once == {"anthropic", "ollama"}

Tries == IF provider \in Once THEN 1 ELSE IF kind = "chat" THEN 5 ELSE 3

\* Mutant: a failure the server answers for is no attempt.
AgainUncounted == phase' = "sent" /\ UNCHANGED attempt

\* The next attempt; what the attempts before it left is kept.
Again == phase' = "sent" /\ attempt' = attempt + 1

End(how) == phase' = how /\ UNCHANGED attempt

TryAgain == IF attempt < Tries THEN Again ELSE End("raised")

\* An answer is returned unless an error came in place of all of it.
Finish ==
    End(IF envelopes # {} /\ text = <<>> /\ calls = Empty THEN "raised" ELSE "returned")

\* The last attempt ends where the loop does: chat has no body to return, a stream
\* has what was collected.
Refused ==
    /\ phase = "sent" /\ provider = "openai" /\ choice = "required"
    /\ last' = "refused" /\ choice' = "auto" /\ rejects' = TRUE
    /\ IF attempt < Tries THEN Again
       ELSE IF kind = "chat" THEN End("raised") ELSE Finish
    /\ UNCHANGED <<provider, kind, asked, text, calls, envelopes>>

\* What a response is worth to the retry loop.  chat retries when it is limited or
\* without choices; a stream retries 5xx only, and before any text.
Retried(status) ==
    CASE status = "limited"  -> kind = "chat"
      [] status = "broken"   -> kind = "chat" \/ text = <<>>
      [] status = "hollow"   -> TRUE
      [] status = "rejected" -> FALSE

\* 429, 5xx, any other status that is no success, and 200 without choices.  400 for
\* "required" is Refused; another client error then is as at any time.
Replies ==
    {"limited", "broken", "rejected"}
    \cup (IF kind = "chat" /\ provider = "openai" THEN {"hollow"} ELSE {})

Fails ==
    /\ phase = "sent"
    /\ \E status \in Replies :
         /\ last' = status
         /\ IF Retried(status) THEN TryAgain ELSE End("raised")
    /\ UNCHANGED <<provider, kind, choice, rejects, asked, text, calls, envelopes>>

\* A timeout or a lost connection is never retried, nor is a line that is no JSON.
Breaks ==
    /\ phase \in {"sent", "streaming"}
    /\ last' = "lost" /\ End("raised")
    /\ UNCHANGED <<provider, kind, choice, rejects, asked, text, calls, envelopes>>

\* The whole answer of a chat: text, tool calls, both or neither.
Replied ==
    /\ phase = "sent" /\ kind = "chat"
    /\ \E says \in BOOLEAN, called \in SUBSET Indices :
         /\ text' = IF says THEN <<attempt>> ELSE <<>>
         /\ calls' = [i \in Indices |-> IF i \in called THEN <<attempt>> ELSE <<>>]
    /\ last' = "answered" /\ End("returned")
    /\ UNCHANGED <<provider, kind, choice, rejects, asked, envelopes>>

Opens ==
    /\ phase = "sent" /\ kind = "stream"
    /\ phase' = "streaming" /\ last' = "none"
    /\ UNCHANGED <<provider, kind, choice, rejects, asked, attempt, text, calls, envelopes>>

Pieces == Len(text) + SumFunction([i \in Indices |-> Len(calls[i])])

\* A delta for any tool call, begun or not.
OpenAIDelta(i) == calls' = [calls EXCEPT ![i] = Append(@, attempt)]

\* The start of a block begins its tool call (a server starts a block once); input for
\* a block that was not started is passed over.
AnthropicDelta(i) ==
    \/ calls[i] = <<>> /\ calls' = [calls EXCEPT ![i] = <<attempt>>]
    \/ calls[i] # <<>> /\ calls' = [calls EXCEPT ![i] = Append(@, attempt)]

\* A tool call comes whole.
OllamaDelta(i) == calls[i] = <<>> /\ calls' = [calls EXCEPT ![i] = <<attempt>>]

CallDelta(i) ==
    \/ provider = "openai" /\ OpenAIDelta(i)
    \/ provider = "anthropic" /\ AnthropicDelta(i)
    \/ provider = "ollama" /\ OllamaDelta(i)

TextDelta == text' = Append(text, attempt)

Piece ==
    /\ phase = "streaming" /\ Pieces < MaxPieces
    /\ \/ TextDelta /\ UNCHANGED calls
       \/ (\E i \in Indices : CallDelta(i)) /\ UNCHANGED text
    /\ UNCHANGED <<provider, kind, choice, rejects, asked, attempt, phase, envelopes, last>>

\* An error in the stream, which only the OpenAI-compatible provider looks at.
Envelope ==
    /\ phase = "streaming" /\ attempt \notin envelopes /\ provider = "openai"
    /\ envelopes' = envelopes \cup {attempt}
    /\ UNCHANGED <<provider, kind, choice, rejects, asked, attempt, phase, text, calls, last>>

\* Mutant: an error is retried after text has been shown.
StreamEndsShown ==
    /\ phase = "streaming" /\ last' = "answered"
    /\ IF envelopes # {} /\ attempt < Tries THEN Again ELSE Finish
    /\ UNCHANGED <<provider, kind, choice, rejects, asked, text, calls, envelopes>>

\* The stream ends.  An error in any attempt so far is reason to retry as long as no
\* text has been shown.
StreamEnds ==
    /\ phase = "streaming" /\ last' = "answered"
    /\ IF envelopes # {} /\ text = <<>> /\ attempt < Tries THEN Again ELSE Finish
    /\ UNCHANGED <<provider, kind, choice, rejects, asked, text, calls, envelopes>>

\* The consumer goes: it is cancelled, or stops reading a stream.
Leaves ==
    /\ phase \in {"sent", "streaming"}
    /\ phase' = "left"
    /\ UNCHANGED <<provider, kind, choice, rejects, asked, attempt, text, calls, envelopes, last>>

CompletionNext ==
    \/ Ask \/ Refused \/ Fails \/ Breaks \/ Replied \/ Opens \/ Piece \/ Envelope \/ StreamEnds
    \/ Leaves
===============================================================================
