------------------------------ MODULE Retrieval ------------------------------
(***************************************************************************)
(* The knowledge base: RAGEngine (aegisx_agent/rag/engine.py).  A document is *)
(* cut into overlapping chunks, one per step, which are added to the vector   *)
(* store together.  A text is a sequence of characters, and a chunk the part  *)
(* of it between two positions.  Searches only read.                         *)
(***************************************************************************)
EXTENDS Integers, Sequences, Functions

CONSTANTS
    Texts,          \* the documents a user may have
    Edited,         \* a character that an edit puts in place of another
    Sources,        \* paths of documents
    Blank,          \* the characters strip removes
    SentenceEnds,   \* those a sentence ends with
    Settings,       \* pairs of a chunk size and an overlap a user may configure
    Beginning,      \* how much of a chunk its id depends on
    MaxIngests,     \* bound: documents ingested
    MaxChunks       \* bound: chunks of a document, and start's way below zero

VARIABLES
    source, document,   \* the document that is ingested
    size, overlap,      \* chunk_size and chunk_overlap of the engine that ingests it
    start,              \* start of _chunk_text
    chunks,             \* the chunks so far
    reading,            \* "idle", "chunking", "chunked" or "stored"
    collection,         \* the vector store: a function from ids to texts
    ingested            \* history: [Sources -> documents ingested from there]

retrievalVars ==
    <<source, document, size, overlap, start, chunks, reading, collection, ingested>>

Text(chunk) == SubSeq(document, chunk.from, chunk.to)

\* strip, which leaves nothing where all is blank.
Stripped(from, to) ==
    LET solid == {n \in from .. to : document[n] \notin Blank}
        least == CHOOSE n \in solid : \A m \in solid : n <= m
        most == CHOOSE n \in solid : \A m \in solid : m <= n
    IN  IF solid = {} THEN <<>> ELSE <<[from |-> least, to |-> most]>>

RetrievalInit ==
    /\ source = "none" /\ document = <<>> /\ size = 0 /\ overlap = 0
    /\ start = 0 /\ chunks = <<>> /\ reading = "idle"
    /\ collection = <<>> /\ ingested = [s \in Sources |-> 0]

\* An earlier text, or one that differs in a character.
Versions ==
    IF document = <<>> THEN Texts
    ELSE {document} \cup {[document EXCEPT ![n] = Edited] : n \in DOMAIN document}

\* ingest_text, of an engine made of the settings at the time.  A text no longer than a
\* chunk is one, or none where it is blank.
Ingest ==
    /\ reading \in {"idle", "stored"} /\ SumFunction(ingested) < MaxIngests
    /\ source' \in Sources /\ document' \in Versions
    /\ \E setting \in Settings : size' = setting[1] /\ overlap' = setting[2]
    /\ start' = 0
    /\ LET whole == [from |-> 1, to |-> Len(document')]
           blank == \A n \in DOMAIN document' : document'[n] \in Blank
       IN  IF Len(document') <= size'
           THEN chunks' = (IF blank THEN <<>> ELSE <<whole>>) /\ reading' = "chunked"
           ELSE chunks' = <<>> /\ reading' = "chunking"
    /\ ingested' = [ingested EXCEPT ![source'] = @ + 1]
    /\ UNCHANGED collection

\* A position in a slice: one below zero counts from the end, and none is outside.
Place(n) ==
    LET from == IF n < 0 THEN n + Len(document) ELSE n
    IN  IF from < 0 THEN 0 ELSE IF from > Len(document) THEN Len(document) ELSE from

\* text[start:end] lies after position Low, up to High.
Low == Place(start)

High == Place(start + size)

\* Where its last break is, counted from its start.
BreakAt ==
    LET breaks == {n \in Low + 1 .. High : document[n] \in SentenceEnds}
        last == CHOOSE n \in breaks : \A m \in breaks : m <= n
    IN  IF breaks = {} THEN -1 ELSE last - 1 - Low

\* The window is cut after its last break, unless that would leave less than three
\* tenths of a chunk.
IsCut == start + size < Len(document) /\ BreakAt * 10 > size * 3

\* Mutant: the next chunk starts from the end of the window.
NextStartUncut == start + size - overlap

NextStart == (IF IsCut THEN start + BreakAt + 1 ELSE start + size) - overlap

\* One iteration of _chunk_text.
Chunk ==
    /\ reading = "chunking" /\ start < Len(document)
    /\ Len(chunks) < MaxChunks /\ -start < MaxChunks
    /\ chunks' = chunks \o Stripped(Low + 1, IF IsCut THEN Low + BreakAt + 1 ELSE High)
    /\ start' = NextStart
    /\ UNCHANGED <<source, document, size, overlap, reading, collection, ingested>>

Chunked ==
    /\ reading = "chunking" /\ start >= Len(document)
    /\ reading' = "chunked"
    /\ UNCHANGED <<source, document, size, overlap, start, chunks, collection, ingested>>

\* What the id of a chunk is a digest of.
Id(i) ==
    LET text == Text(chunks[i])
    IN  <<source, i, SubSeq(text, 1, IF Len(text) < Beginning THEN Len(text) ELSE Beginning)>>

\* collection.add: what is stored under an id is not replaced.
Add ==
    /\ reading = "chunked"
    /\ LET added == {Id(i) : i \in DOMAIN chunks}
           the(id) == CHOOSE i \in DOMAIN chunks : Id(i) = id
       IN  collection' = [id \in DOMAIN collection \cup added |->
               IF id \in DOMAIN collection THEN collection[id] ELSE Text(chunks[the(id)])]
    /\ reading' = "stored"
    /\ UNCHANGED <<source, document, size, overlap, start, chunks, ingested>>

\* clear
Clear ==
    /\ reading = "stored" /\ collection # <<>>
    /\ collection' = <<>> /\ reading' = "idle"
    /\ UNCHANGED <<source, document, size, overlap, start, chunks, ingested>>

RetrievalNext == Ingest \/ Chunk \/ Chunked \/ Add \/ Clear
==============================================================================
