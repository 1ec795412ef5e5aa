--------------------------- MODULE Conversation ----------------------------
(***************************************************************************)
(* What an agent remembers of a conversation: ConversationMemory             *)
(* (aegisx_agent/memory/store.py), which keeps a bounded list of messages    *)
(* and writes it to conversation.json, SessionStore (memory/advanced.py),    *)
(* which appends one row per message to a database, and the operations of    *)
(* AegisXAgent (core/agent.py) and of the interactive shell                  *)
(* (cli/interactive.py) that use both.                                       *)
(*                                                                           *)
(* Several processes (shells, one-shot commands, the daemon's runs) share    *)
(* the file and the database; each works on its own copy of the messages.    *)
(* A message is the turn it belongs to and its role; its text is left out.   *)
(* The turn itself, AgenticLoop.run, is the module AgentLoop: here it is the *)
(* interval between Ask and the step that ends it.                           *)
(***************************************************************************)
EXTENDS Naturals, Sequences, SequencesExt, FiniteSets

CONSTANTS
    Proc,          \* the processes
    Torn,          \* a file that a crash left half-written, and json.loads rejects
    MaxMessages,   \* max_messages
    SummaryCap,    \* messages the summary's 5000 characters have room for
    MaxStarts,     \* bound: agents constructed
    MaxTurns       \* bound: turns asked

ASSUME ConversationAssumption ==
    /\ {MaxMessages, SummaryCap} \subseteq Nat \ {0}
    /\ {MaxStarts, MaxTurns} \subseteq Nat

VARIABLES
    file,       \* conversation.json
    rows,       \* the table sessions, in the order of its ids
    starts,     \* agents constructed so far; a session is its agent's number
    turns,      \* turns asked so far
    up,         \* [Proc -> BOOLEAN]
    memory,     \* [Proc -> Transcript]: the agent's ConversationMemory
    session,    \* [Proc -> session of the agent]
    work,       \* [Proc -> what it is in the middle of]
    writer,     \* history: the process that wrote the file last, while it runs
    parted      \* history: processes whose messages and rows may differ, and why
                \* is said where it is set

disk == <<file, rows>>
process == <<up, memory, session, work>>
history == <<writer, parted>>
vars == <<file, rows, starts, turns, up, memory, session, work, writer, parted>>

Role == {"user", "assistant"}
Entry == {"chat", "stream", "trace"}

Message == [turn : 1 .. MaxTurns, role : Role]
User(t) == [turn |-> t, role |-> "user"]
Assistant(t) == [turn |-> t, role |-> "assistant"]

Transcript == [messages : Seq(Message), summary : Seq(Message)]
Within(tr) == Len(tr.messages) <= MaxMessages /\ Len(tr.summary) <= SummaryCap
Empty == [messages |-> <<>>, summary |-> <<>>]

Idle == [phase |-> "idle"]
Turn(ph, t, e) == [phase |-> ph, turn |-> t, entry |-> e]
Undoing(keep) == [phase |-> "undoing", keep |-> keep]
Work ==
    {Idle}
        \cup [phase : {"asked", "answered", "stored"}, turn : 1 .. MaxTurns, entry : Entry]
        \cup [phase : {"undoing"}, keep : Nat]

TypeOK ==
    /\ file # Torn => file \in Transcript /\ Within(file)
    /\ rows \in Seq([session : 1 .. MaxStarts, message : Message])
    /\ starts \in 0 .. MaxStarts /\ turns \in 0 .. MaxTurns
    /\ up \in [Proc -> BOOLEAN]
    /\ memory \in [Proc -> Transcript] /\ \A p \in Proc : Within(memory[p])
    /\ session \in [Proc -> 0 .. MaxStarts]
    /\ work \in [Proc -> Work]
    /\ writer \in {{}} \cup {{p} : p \in Proc}
    /\ parted \subseteq Proc

-----------------------------------------------------------------------------
(* ConversationMemory *)

\* The members of s at some of its places, in their order.
Subsequence(s, places) ==
    [i \in 1 .. Cardinality(places) |->
        s[CHOOSE k \in places : Cardinality({j \in places : j <= k}) = i]]

Keep(s, n) == IF Len(s) <= n THEN s ELSE SubSeq(s, Len(s) - n + 1, Len(s))

\* The oldest messages beyond the limit are appended to the summary, at most
\* ten of them, and the summary keeps its end.
Trim(tr) ==
    LET excess == Len(tr.messages) - MaxMessages
    IN  IF excess <= 0 THEN tr
        ELSE [messages |-> Keep(tr.messages, MaxMessages),
              summary |-> Keep(tr.summary \o Keep(SubSeq(tr.messages, 1, excess), 10),
                               SummaryCap)]

With(tr, ms) == Trim([tr EXCEPT !.messages = @ \o ms])

\* Of consecutive user messages, the last supersedes the others.
Collapse(ms) ==
    LET superseded == {i \in 1 .. Len(ms) - 1 : ms[i].role = "user" /\ ms[i + 1].role = "user"}
    IN  Subsequence(ms, DOMAIN ms \ superseded)

RollbackTurn(ms) ==
    LET answered == {i \in 1 .. Len(ms) : ms[i].role = "assistant"}
    IN  SubSeq(ms, 1, CHOOSE n \in answered \cup {0} : \A i \in answered : i <= n)

TruncateTo(ms, count) == SubSeq(ms, 1, IF count < Len(ms) THEN count ELSE Len(ms))

Clean(ms) ==
    /\ ms # <<>> => Last(ms).role = "assistant"
    /\ \A i \in 1 .. Len(ms) - 1 : ~(ms[i].role = "user" /\ ms[i + 1].role = "user")

\* A mutant of Loaded: only the end of the file is cleaned.
LoadedAsIs == IF file = Torn THEN Empty ELSE file

\* What _load makes of the file before it looks for unanswered messages.
Loaded == IF file = Torn THEN Empty ELSE [file EXCEPT !.messages = Collapse(@)]

Restored(tr) == [tr EXCEPT !.messages = RollbackTurn(Collapse(@))]

\* A mutant of Save: dropping messages does not write the file.
SaveGrown(p, tr) ==
    /\ memory' = [memory EXCEPT ![p] = tr]
    /\ file' = IF Len(tr.messages) < Len(memory[p].messages) THEN file ELSE tr
    /\ writer' = {p}

\* Every operation that changes the messages writes them to the file.
Save(p, tr) ==
    /\ memory' = [memory EXCEPT ![p] = tr]
    /\ file' = tr
    /\ writer' = {p}

-----------------------------------------------------------------------------
(* SessionStore *)

Of(s) == {i \in DOMAIN rows : rows[i].session = s}

History(s) ==
    LET own == Subsequence(rows, Of(s))
    IN  [i \in DOMAIN own |-> own[i].message]

SaveMessage(s, m) == rows' = Append(rows, [session |-> s, message |-> m])

\* A mutant of Extra: one row too many.
ExtraInclusive(s, keep) == {i \in Of(s) : Cardinality({j \in Of(s) : j <= i}) >= keep}

\* The rows of the session beyond its first keep, whoever wrote them.
Extra(s, keep) == {i \in Of(s) : Cardinality({j \in Of(s) : j <= i}) > keep}

TrimSession(s, keep) == rows' = Subsequence(rows, DOMAIN rows \ Extra(s, keep))

Exchanges(ms) ==
    /\ Len(ms) % 2 = 0
    /\ \A i \in 1 .. Len(ms) \div 2 :
          ms[2 * i - 1].role = "user" /\ ms[2 * i] = Assistant(ms[2 * i - 1].turn)

-----------------------------------------------------------------------------
(* The agents *)

Init ==
    /\ file = Empty /\ rows = <<>>
    /\ starts = 0 /\ turns = 0
    /\ up = [p \in Proc |-> FALSE]
    /\ memory = [p \in Proc |-> Empty]
    /\ session = [p \in Proc |-> 0]
    /\ work = [p \in Proc |-> Idle]
    /\ writer = {} /\ parted = {}

At(p, phases) == up[p] /\ work[p].phase \in phases

\* An agent is constructed: it loads the file, and saves it only when an
\* unanswered message was dropped at its end.
Start(p) ==
    /\ ~up[p] /\ starts < MaxStarts
    /\ LET tr == [Loaded EXCEPT !.messages = RollbackTurn(@)]
       IN  IF tr # Loaded
           THEN Save(p, tr)
           ELSE memory' = [memory EXCEPT ![p] = tr] /\ UNCHANGED <<file, writer>>
    /\ starts' = starts + 1
    /\ up' = [up EXCEPT ![p] = TRUE]
    /\ session' = [session EXCEPT ![p] = starts']
    /\ UNCHANGED <<rows, turns, work, parted>>

\* chat, chat_stream and chat_with_trace record the user's message first.
Ask(p, e) ==
    /\ At(p, {"idle"}) /\ turns < MaxTurns
    /\ turns' = turns + 1
    /\ Save(p, With(memory[p], <<User(turns')>>))
    /\ work' = [work EXCEPT ![p] = Turn("asked", turns', e)]
    /\ UNCHANGED <<rows, starts, up, session, parted>>

\* The loop returns an answer; chat_with_trace is done when it is recorded.
Answer(p) ==
    /\ At(p, {"asked"})
    /\ Save(p, With(memory[p], <<Assistant(work[p].turn)>>))
    /\ IF work[p].entry = "trace"
       THEN work' = [work EXCEPT ![p] = Idle] /\ parted' = parted \cup {p}
       ELSE work' = [work EXCEPT ![p].phase = "answered"] /\ UNCHANGED parted
    /\ UNCHANGED <<rows, starts, turns, up, session>>

StoreUser(p) ==
    /\ At(p, {"answered"})
    /\ SaveMessage(session[p], User(work[p].turn))
    /\ work' = [work EXCEPT ![p].phase = "stored"]
    /\ UNCHANGED <<file, starts, turns, up, memory, session, writer, parted>>

StoreAssistant(p) ==
    /\ At(p, {"stored"})
    /\ SaveMessage(session[p], Assistant(work[p].turn))
    /\ work' = [work EXCEPT ![p] = Idle]
    /\ UNCHANGED <<file, starts, turns, up, memory, session, writer, parted>>

\* sqlite3 raises, the database being locked or the disk full: the answer is
\* remembered, and one or both of its rows are missing.
StoreFails(p) ==
    /\ At(p, {"answered", "stored"})
    /\ work' = [work EXCEPT ![p] = Idle]
    /\ parted' = parted \cup {p}
    /\ UNCHANGED <<disk, starts, turns, up, memory, session, writer>>

\* The loop raises.  chat and chat_stream drop the message nobody answered.
RollsBack(e, raised) == e = "stream" \/ (e = "chat" /\ raised = "error")

\* raised is "error", an Exception, or "cancelled", a CancelledError (the
\* timeout of a scheduled run, an interrupt, a consumer that walks away).
Fail(p, raised) ==
    /\ At(p, {"asked"})
    /\ IF RollsBack(work[p].entry, raised)
       THEN /\ Save(p, [memory[p] EXCEPT !.messages = RollbackTurn(@)])
            /\ UNCHANGED parted
       ELSE parted' = parted \cup {p} /\ UNCHANGED <<file, memory, writer>>
    /\ work' = [work EXCEPT ![p] = Idle]
    /\ UNCHANGED <<rows, starts, turns, up, session>>

-----------------------------------------------------------------------------
(* The shell's commands *)

Clear(p) ==
    /\ At(p, {"idle"})
    /\ Save(p, Empty)
    /\ UNCHANGED <<rows, starts, turns, up, session, work, parted>>

\* A mutant of LastExchange: the answer without its question.
LastAnswer(ms) == IF ms = <<>> \/ Last(ms).role # "assistant" THEN 0 ELSE 1

\* /undo: the last exchange leaves the messages, then two rows leave the store,
\* also when the messages end with a question and keep it.
LastExchange(ms) ==
    IF ms = <<>> \/ Last(ms).role # "assistant" THEN 0
    ELSE IF Len(ms) >= 2 /\ ms[Len(ms) - 1].role = "user" THEN 2
    ELSE 1

UndoMessages(p) ==
    LET ms == memory[p].messages
        drop == LastExchange(ms)
    IN  /\ At(p, {"idle"}) /\ Len(History(session[p])) >= 2
        /\ IF drop > 0
           THEN Save(p, [memory[p] EXCEPT !.messages = TruncateTo(ms, Len(ms) - drop)])
           ELSE UNCHANGED <<file, memory, writer>>
        /\ work' = [work EXCEPT ![p] = Undoing(Len(History(session[p])) - 2)]
        /\ UNCHANGED <<rows, starts, turns, up, session, parted>>

UndoRows(p) ==
    /\ At(p, {"undoing"})
    /\ TrimSession(session[p], work[p].keep)
    /\ work' = [work EXCEPT ![p] = Idle]
    /\ UNCHANGED <<file, starts, turns, up, memory, session, writer, parted>>

\* /resume: the rows of a session replace the messages.  Two processes in one
\* session do not see each other's turns, and the second may find a question
\* whose answer the first has not stored yet.  Rows that are not a
\* list of exchanges are taken as they are: a rollback or an /undo parts them.
Resume(p, s) ==
    LET others == {q \in Proc \ {p} : up[q] /\ session[q] = s}
    IN  /\ At(p, {"idle"})
        /\ Save(p, With(Empty, History(s)))
        /\ session' = [session EXCEPT ![p] = s]
        /\ parted' = IF others = {} /\ Exchanges(History(s)) THEN parted \ {p}
                                                           ELSE parted \cup others \cup {p}
        /\ UNCHANGED <<rows, starts, turns, up, work>>

\* The process exits or dies.  It may die inside write_text, which is only
\* called by the operations that change the messages.
Crash(p) ==
    /\ up[p]
    /\ \/ UNCHANGED file
       \/ At(p, {"idle", "asked"}) /\ file' = Torn
    /\ up' = [up EXCEPT ![p] = FALSE]
    /\ memory' = [memory EXCEPT ![p] = Empty]
    /\ session' = [session EXCEPT ![p] = 0]
    /\ work' = [work EXCEPT ![p] = Idle]
    /\ writer' = IF file' = Torn THEN {} ELSE writer \ {p}
    /\ parted' = parted \ {p}
    /\ UNCHANGED <<rows, starts, turns>>

Next ==
    \E p \in Proc :
        \/ Start(p) \/ Answer(p) \/ StoreUser(p) \/ StoreAssistant(p) \/ StoreFails(p)
        \/ Clear(p) \/ UndoMessages(p) \/ UndoRows(p) \/ Crash(p)
        \/ \E e \in Entry : Ask(p, e)
        \/ \E raised \in {"error", "cancelled"} : Fail(p, raised)
        \/ \E s \in 1 .. starts : Resume(p, s)

Spec == Init /\ [][Next]_vars

-----------------------------------------------------------------------------
(* What is promised *)

\* The conversation an agent starts with has no unanswered message, whatever
\* failures, cancellations and crashes of other processes wrote the file.
RestoredClean == [][\A p \in Proc : ~up[p] /\ up'[p] => Clean(memory'[p].messages)]_vars

\* Between turns the messages end with an answer, unless a chat was cancelled, a
\* chat_with_trace failed, or a session was shared or resumed with a question in
\* it that nobody answered.  A streamed turn never leaves its question behind.
NothingDangles ==
    \A p \in Proc : At(p, {"idle"}) /\ p \notin parted /\ memory[p].messages # <<>> =>
        Last(memory[p].messages).role = "assistant"

\* Between turns the messages an agent remembers and the stored rows of its
\* session tell one story: the shorter is the end of the longer, through trims,
\* failed turns, undone turns and resumed sessions.
TranscriptsAgree ==
    \A p \in Proc : At(p, {"idle"}) /\ p \notin parted =>
        LET ms == memory[p].messages
            stored == History(session[p])
        IN  IsSuffix(ms, stored) \/ IsSuffix(stored, ms)

\* Whoever starts next gets what the last writer remembers, without the
\* questions nobody answered.
RestartRestores ==
    \A p \in writer : Restored(file) = Restored(memory[p])

=============================================================================
