--------------------------- MODULE ServicesProofs ---------------------------
(***************************************************************************)
(* Proofs about the four services of Services: what each promises holds for  *)
(* every value of the constants.  An invariant for each service, kept by each *)
(* of its actions, implies what the service promises; the services share no   *)
(* variable.  What the recursive functions of the model compute is shown by   *)
(* the least counterexample, with LeastNatural.                              *)
(***************************************************************************)
EXTENDS Services, TLAPS, FiniteSetTheorems, SequenceTheorems, WellFoundedInduction

-----------------------------------------------------------------------------
(* The least and the greatest of a set of numbers *)

LEMMA LeastNatural ==
    ASSUME NEW T \in SUBSET Nat, T # {}
    PROVE  \E x \in T : \A y \in T : x <= y
<1> DEFINE U == {1 .. n : n \in T}
<1>1. U \subseteq FiniteSubsetsOf(Nat)
  <2>1. \A n \in T : IsFiniteSet(1 .. n) /\ 1 .. n \in SUBSET Nat BY FS_Interval
  <2> QED BY <2>1 DEF FiniteSubsetsOf
<1>2. U # {} OBVIOUS
<1>3. PICK u \in U : \A v \in U : <<v, u>> \notin StrictSubsetOrdering(Nat)
  <2> HIDE DEF U
  <2> QED BY <1>1, <1>2, FS_StrictSubsetOrderingWellFounded, WFMin
<1>4. PICK n \in T : u = 1 .. n OBVIOUS
<1>5. ASSUME NEW m \in T, m < n PROVE FALSE
  <2>1. 1 .. m \subseteq 1 .. n /\ n \in 1 .. n /\ n \notin 1 .. m BY <1>5
  <2>2. <<1 .. m, 1 .. n>> \in StrictSubsetOrdering(Nat) BY <2>1 DEF StrictSubsetOrdering
  <2> QED BY <2>2, <1>3, <1>4
<1> QED BY <1>5

LEMMA GreatestInteger ==
    ASSUME NEW T \in SUBSET Int, T # {}, NEW k \in Int, \A y \in T : y <= k
    PROVE  \E x \in T : \A y \in T : y <= x
<1> DEFINE U == {n \in Nat : k - n \in T}
<1>1. PICK t \in T : TRUE OBVIOUS
<1>2. k - t \in U OBVIOUS
<1>3. PICK u \in U : \A v \in U : u <= v
  <2> HIDE DEF U
  <2>1. U \in SUBSET Nat BY DEF U
  <2> QED BY <1>2, <2>1, LeastNatural
<1>4. \A y \in T : k - y \in U OBVIOUS
<1>5. \A y \in T : u <= k - y BY <1>3, <1>4
<1>6. k - u \in T OBVIOUS
<1>7. \A y \in T : y <= k - u BY <1>5
<1> QED BY <1>6, <1>7

-----------------------------------------------------------------------------
(* Completions *)

CompletionType ==
    /\ provider \in {"openai", "anthropic", "ollama"} /\ kind \in {"chat", "stream"}
    /\ attempt \in Nat
    /\ text \in Seq(Nat) /\ calls \in [Indices -> Seq(Nat)]
    /\ envelopes \in SUBSET (1 .. attempt)

\* A piece of a tool call that an earlier attempt left has an error envelope to answer
\* for it, of that attempt or of one before.
Explained(i, n) == \E e \in envelopes : e <= calls[i][n]

\* Between two attempts nothing is shown, and while an attempt streams all that is shown
\* is its own.
Assembly ==
    /\ phase \in {"sent", "streaming"} => 1 <= attempt /\ attempt <= C!Tries
    /\ phase = "sent" =>
         text = <<>> /\ \A i \in Indices : \A n \in DOMAIN calls[i] : Explained(i, n)
    /\ phase = "streaming" =>
         /\ \A n \in DOMAIN text : text[n] = attempt
         /\ \A i \in Indices : \A n \in DOMAIN calls[i] : calls[i][n] = attempt \/ Explained(i, n)

CompletionInv == CompletionType /\ Assembly /\ AnswerAssembled

LEMMA CompletionStarts ==
    C!CompletionInit \/ C!CompletionIdle => CompletionInv
<1> SUFFICES ASSUME C!CompletionInit \/ C!CompletionIdle PROVE CompletionInv OBVIOUS
<1>1. [i \in Indices |-> <<>>] \in [Indices -> Seq(Nat)] /\ <<>> \in Seq(Nat) BY EmptySeq
<1>2. {} \in SUBSET (1 .. attempt) OBVIOUS
<1>3. CompletionType
  <2>1. provider \in {"openai", "anthropic", "ollama"} /\ kind \in {"chat", "stream"}
    BY DEF C!CompletionInit, C!CompletionIdle
  <2>2. attempt = 0 /\ text = <<>> /\ calls = [i \in Indices |-> <<>>] /\ envelopes = {}
    BY DEF C!CompletionInit, C!CompletionIdle, C!Empty
  <2> QED BY <1>1, <1>2, <2>1, <2>2 DEF CompletionType
<1>4. Assembly BY DEF C!CompletionInit, C!CompletionIdle, Assembly
<1>5. AnswerAssembled BY DEF C!CompletionInit, C!CompletionIdle, AnswerAssembled
<1> QED BY <1>3, <1>4, <1>5 DEF CompletionInv

LEMMA AskInv == CompletionInv /\ C!Ask => CompletionInv'
BY EmptySeq DEF C!Ask, C!Empty, C!Tries, C!Once, CompletionInv, CompletionType, Assembly,
  AnswerAssembled, Explained

LEMMA RefusedInv == CompletionInv /\ C!Refused => CompletionInv'
BY DEF C!Refused, C!Again, C!End, C!Finish, C!Tries, C!Once, CompletionInv, CompletionType, Assembly,
  AnswerAssembled, Explained

LEMMA FailsInv == CompletionInv /\ C!Fails => CompletionInv'
BY DEF C!Fails, C!TryAgain, C!Again, C!End, C!Tries, C!Once, CompletionInv, CompletionType, Assembly,
  AnswerAssembled, Explained

LEMMA BreaksInv == CompletionInv /\ C!Breaks => CompletionInv'
BY DEF C!Breaks, C!End, C!Tries, C!Once, CompletionInv, CompletionType, Assembly, AnswerAssembled, Explained

LEMMA OpensInv == CompletionInv /\ C!Opens => CompletionInv'
BY DEF C!Opens, C!Tries, C!Once, CompletionInv, CompletionType, Assembly, AnswerAssembled, Explained

LEMMA EnvelopeInv == CompletionInv /\ C!Envelope => CompletionInv'
<1> SUFFICES ASSUME CompletionInv, C!Envelope PROVE CompletionInv' OBVIOUS
<1> USE DEF C!Envelope, CompletionInv, CompletionType
<1>1. CompletionType' BY DEF Assembly
<1>2. Assembly' BY DEF Assembly, Explained, C!Tries, C!Once
<1>3. AnswerAssembled' BY DEF AnswerAssembled
<1> QED BY <1>1, <1>2, <1>3

LEMMA LeavesInv == CompletionInv /\ C!Leaves => CompletionInv'
BY DEF C!Leaves, CompletionInv, CompletionType, Assembly, AnswerAssembled

LEMMA StreamEndsInv == CompletionInv /\ C!StreamEnds => CompletionInv'
<1> SUFFICES ASSUME CompletionInv, C!StreamEnds PROVE CompletionInv' OBVIOUS
<1> USE DEF C!StreamEnds, CompletionInv, CompletionType, Assembly
<1>1. CASE envelopes # {} /\ text = <<>> /\ attempt < C!Tries
  <2>1. phase' = "sent" /\ attempt' = attempt + 1 BY <1>1 DEF C!Again
  <2>2. PICK e \in envelopes : TRUE BY <1>1
  <2>6. e \in 1 .. attempt OBVIOUS
  <2>5. \A i \in Indices : \A n \in DOMAIN calls[i] : Explained(i, n) BY <2>6 DEF Explained
  <2>3. CompletionType' BY <2>1
  <2>4. Assembly' BY <1>1, <2>1, <2>5 DEF Explained, C!Tries, C!Once
  <2> QED BY <2>1, <2>3, <2>4 DEF AnswerAssembled
<1>2. CASE ~(envelopes # {} /\ text = <<>> /\ attempt < C!Tries)
  BY <1>2 DEF C!End, C!Finish, AnswerAssembled, Explained
<1> QED BY <1>1, <1>2

LEMMA RepliedInv == CompletionInv /\ C!Replied => CompletionInv'
<1> SUFFICES ASSUME CompletionInv, C!Replied PROVE CompletionInv' OBVIOUS
<1> USE DEF C!Replied, C!End, CompletionInv, CompletionType
<1>1. <<>> \in Seq(Nat) /\ <<attempt>> \in Seq(Nat) BY EmptySeq
<1>2. CompletionType' BY <1>1
<1>3. Assembly' BY DEF Assembly, Explained, C!Tries, C!Once
<1>4. AnswerAssembled' BY DEF AnswerAssembled
<1> QED BY <1>2, <1>3, <1>4

LEMMA PieceInv == CompletionInv /\ C!Piece => CompletionInv'
<1> SUFFICES ASSUME CompletionInv, C!Piece PROVE CompletionInv' OBVIOUS
<1> USE DEF C!Piece, CompletionInv, CompletionType, Assembly
<1>1. attempt \in Nat /\ C!Tries' = C!Tries BY DEF C!Tries, C!Once
<1>2. CASE C!TextDelta /\ UNCHANGED calls
  <2>1. text' \in Seq(Nat) /\ \A n \in DOMAIN text' : text'[n] = attempt
    BY <1>2, AppendProperties DEF C!TextDelta
  <2> QED BY <1>1, <1>2, <2>1 DEF AnswerAssembled, Explained
<1>3. ASSUME NEW i \in Indices, C!CallDelta(i), UNCHANGED text PROVE CompletionInv'
  <2>1. PICK s \in {<<>>, calls[i]} : calls' = [calls EXCEPT ![i] = Append(s, attempt)]
    BY <1>3 DEF C!CallDelta, C!OpenAIDelta, C!AnthropicDelta, C!OllamaDelta
  <2>2. s \in Seq(Nat) BY <2>1, EmptySeq
  <2>3. Append(s, attempt) \in Seq(Nat) BY <1>1, <2>2, AppendProperties
  <2>4. \A n \in DOMAIN Append(s, attempt) :
          Append(s, attempt)[n] = attempt \/ (n \in DOMAIN calls[i] /\ Append(s, attempt)[n] = calls[i][n])
    BY <1>1, <2>1, <2>2, AppendProperties
  <2>5. calls' \in [Indices -> Seq(Nat)] BY <2>1, <2>3
  <2>6. \A j \in Indices : \A n \in DOMAIN calls'[j] :
          calls'[j][n] = attempt \/ \E e \in envelopes : e <= calls'[j][n]
    BY <2>1, <2>4 DEF Explained
  <2> QED BY <1>1, <1>3, <2>5, <2>6 DEF AnswerAssembled, Explained
<1> QED BY <1>2, <1>3

LEMMA CompletionStep == CompletionInv /\ C!CompletionNext => CompletionInv'
BY AskInv, RefusedInv, FailsInv, BreaksInv, RepliedInv, OpensInv, PieceInv, EnvelopeInv, StreamEndsInv,
   LeavesInv
   DEF C!CompletionNext

-----------------------------------------------------------------------------
(* Skills *)

\* A skill that no other robbed and no update left halfway is in a file of its name as
\* it is in memory; and no file of its stem holds a skill that is not in memory.
SkillsInv ==
    /\ \A n \in DOMAIN library : K!IsSkill(library[n]) /\ library[n].name = n
    /\ \A file \in DOMAIN files : K!IsFile(file, files[file])
    /\ \A n \in DOMAIN Stem \ (robbed \cup halfway) :
         /\ n \in DOMAIN library =>
              \E file \in K!Holding(files, n) : K!Markdown(files[file]) = K!Markdown(library[n])
         /\ n \notin DOMAIN library => \A file \in K!Holding(files, n) : file[1] # Stem[n]

\* The markdown form of a skill is one of the same name, and writing it again changes
\* no more.
LEMMA SkillWritten ==
    ASSUME NEW skill, K!IsSkill(skill)
    PROVE  LET written == K!Markdown(skill)
           IN  K!IsSkill(written) /\ written.name = skill.name /\ K!Markdown(written) = written
BY DEF K!IsSkill, K!Markdown, K!Forms

\* A library is read off the files, each skill from one that holds it.
LEMMA SkillsRead ==
    ASSUME NEW next \in K!Libraries(files), \A file \in DOMAIN files : K!IsFile(file, files[file])
    PROVE  /\ \A n \in DOMAIN next : K!IsSkill(next[n]) /\ next[n].name = n
           /\ \A n : n \in DOMAIN next <=> K!Holding(files, n) # {}
           /\ \A n \in DOMAIN next : \E file \in K!Holding(files, n) : next[n] = files[file]
<1> DEFINE names == {files[file].name : file \in DOMAIN files}
<1>0. PICK held \in [names -> DOMAIN files] :
        /\ \A name \in names : held[name] \in K!Holding(files, name)
        /\ next = [name \in names |-> files[held[name]]]
  BY DEF K!Libraries
<1>1. DOMAIN next = names BY <1>0
<1>2. \A n \in DOMAIN next : \E file \in K!Holding(files, n) : next[n] = files[file] BY <1>0
<1>3. \A n \in DOMAIN next : K!IsSkill(next[n]) /\ next[n].name = n
  BY <1>2 DEF K!Holding, K!IsFile
<1>4. \A n : n \in DOMAIN next <=> K!Holding(files, n) # {} BY <1>1 DEF K!Holding
<1> QED BY <1>2, <1>3, <1>4

LEMMA SkillsStart == K!SkillsInit \/ K!SkillsIdle => SkillsInv
<1>1. ASSUME K!SkillsInit PROVE SkillsInv
  <2>1. \A file \in DOMAIN files : K!IsFile(file, files[file])
    BY <1>1, ServicesAssumption DEF ServicesAssumption, K!SkillsInit
  <2>2. library \in K!Libraries(files) BY <1>1 DEF K!SkillsInit
  <2> QED BY <2>1, <2>2, SkillsRead DEF SkillsInv
<1>2. ASSUME K!SkillsIdle PROVE SkillsInv
  BY <1>2 DEF K!SkillsIdle, SkillsInv, K!Holding
<1> QED BY <1>1, <1>2

\* Saving a skill disturbs no other but those whose file it takes.
LEMMA KeepInv ==
    ASSUME SkillsInv, NEW skill, K!IsSkill(skill), K!Keep(skill)
    PROVE  SkillsInv'
<1> DEFINE m == skill.name
           place == <<Stem[m], ".md">>
           written == K!Markdown(skill)
<1>1. K!IsSkill(written) /\ written.name = m /\ K!Markdown(written) = written BY SkillWritten
<1>2. /\ DOMAIN library' = DOMAIN library \cup {m}
      /\ \A n \in DOMAIN library' : library'[n] = IF n = m THEN skill ELSE library[n]
  BY DEF K!Keep, K!Put
<1>3. /\ DOMAIN files' = DOMAIN files \cup {place}
      /\ \A file \in DOMAIN files' : files'[file] = IF file = place THEN written ELSE files[file]
  BY DEF K!Keep, K!Saved, K!Put
<1>4. \A n \in DOMAIN library' : K!IsSkill(library'[n]) /\ library'[n].name = n
  BY <1>2 DEF SkillsInv
<1>5. \A file \in DOMAIN files' : K!IsFile(file, files'[file])
  BY <1>1, <1>3 DEF SkillsInv, K!IsFile
<1>6. ASSUME NEW n \in DOMAIN Stem \ (robbed' \cup halfway')
      PROVE  /\ n \in DOMAIN library' =>
                  \E file \in K!Holding(files', n) : K!Markdown(files'[file]) = K!Markdown(library'[n])
             /\ n \notin DOMAIN library' => \A file \in K!Holding(files', n) : file[1] # Stem[n]
  <2>1. CASE n = m
    <3>1. place \in K!Holding(files', n) /\ files'[place] = written /\ library'[n] = skill
      BY <1>1, <1>2, <1>3, <2>1 DEF K!Holding
    <3> QED BY <1>1, <1>2, <2>1, <3>1
  <2>2. CASE n # m
    <3>1. n \notin robbed \cup halfway /\ n \notin K!Held({place})
      BY <2>2 DEF K!Keep
    <3>2. /\ K!Holding(files', n) = K!Holding(files, n)
          /\ \A file \in K!Holding(files, n) : files'[file] = files[file]
      BY <1>1, <1>3, <2>2, <3>1 DEF K!Holding, K!Held
    <3>3. (n \in DOMAIN library' <=> n \in DOMAIN library)
          /\ (n \in DOMAIN library => library'[n] = library[n])
      BY <1>2, <2>2
    <3>4. /\ n \in DOMAIN library =>
               \E file \in K!Holding(files, n) : K!Markdown(files[file]) = K!Markdown(library[n])
          /\ n \notin DOMAIN library => \A file \in K!Holding(files, n) : file[1] # Stem[n]
      BY <3>1 DEF SkillsInv
    <3> HIDE DEF m, place, written
    <3> QED BY <3>2, <3>3, <3>4
  <2> QED BY <2>1, <2>2
<1> QED BY <1>4, <1>5, <1>6 DEF SkillsInv

\* A skill whose texts, version or use change is a skill of the same name.
LEMMA SkillChanged ==
    ASSUME NEW skill, K!IsSkill(skill), NEW steps \in Nat, NEW rich \in BOOLEAN
    PROVE  LET changed == [skill EXCEPT !.steps = steps, !.more = rich, !.calls = rich]
               counted == [changed EXCEPT !.version = @ + 1]
               used == [skill EXCEPT !.used = @ + 1, !.seen = TRUE]
           IN  /\ K!IsSkill(changed) /\ changed.name = skill.name
               /\ K!IsSkill(counted) /\ counted.name = skill.name
               /\ K!IsSkill(used) /\ used.name = skill.name
<1> DEFINE changed == [skill EXCEPT !.steps = steps, !.more = rich, !.calls = rich]
           counted == [changed EXCEPT !.version = @ + 1]
           used == [skill EXCEPT !.used = @ + 1, !.seen = TRUE]
<1>1. K!IsSkill(changed) /\ changed.name = skill.name BY DEF K!IsSkill, K!Forms
<1>2. K!IsSkill(counted) /\ counted.name = skill.name
  <2> HIDE DEF changed
  <2> QED BY <1>1 DEF K!IsSkill, K!Forms
<1>3. K!IsSkill(used) /\ used.name = skill.name
  <2> DEFINE more == [skill EXCEPT !.used = @ + 1]
             yes == TRUE
  <2>1. K!IsSkill(more) /\ more.name = skill.name BY DEF K!IsSkill, K!Forms
  <2>2. yes \in BOOLEAN OBVIOUS
  <2>3. used = [more EXCEPT !.seen = yes] OBVIOUS
  <2> HIDE DEF more, used, yes
  <2> QED BY <2>1, <2>2, <2>3 DEF K!IsSkill, K!Forms
<1> QED BY <1>1, <1>2, <1>3

LEMMA UpdateInv == SkillsInv /\ K!Update => SkillsInv'
<1> SUFFICES ASSUME SkillsInv, K!Update PROVE SkillsInv' OBVIOUS
<1>0. PICK name \in DOMAIN library : \E steps \in {1, 2}, rich \in BOOLEAN :
        LET changed == [library[name] EXCEPT !.steps = steps, !.more = rich, !.calls = rich]
        IN  \/ /\ changed.form = "odd"
               /\ library' = K!Put(library, name, changed)
               /\ halfway' = halfway \cup {name}
               /\ UNCHANGED <<files, robbed>>
            \/ changed.form = "short" /\ K!Keep(changed)
            \/ /\ changed.form = "numbered" /\ changed.version < MaxVersion
               /\ K!Keep([changed EXCEPT !.version = @ + 1])
  BY DEF K!Update
<1>1. PICK steps \in {1, 2}, rich \in BOOLEAN :
        LET changed == [library[name] EXCEPT !.steps = steps, !.more = rich, !.calls = rich]
        IN  \/ /\ library' = K!Put(library, name, changed)
               /\ halfway' = halfway \cup {name}
               /\ UNCHANGED <<files, robbed>>
            \/ K!Keep(changed)
            \/ K!Keep([changed EXCEPT !.version = @ + 1])
  BY <1>0
<1> DEFINE changed == [library[name] EXCEPT !.steps = steps, !.more = rich, !.calls = rich]
           counted == [changed EXCEPT !.version = @ + 1]
<1>2. K!IsSkill(library[name]) /\ library[name].name = name /\ steps \in Nat BY DEF SkillsInv
<1>3. K!IsSkill(changed) /\ changed.name = name /\ K!IsSkill(counted) BY <1>2, SkillChanged
<1>4. \/ /\ library' = K!Put(library, name, changed)
         /\ halfway' = halfway \cup {name}
         /\ UNCHANGED <<files, robbed>>
      \/ K!Keep(changed) \/ K!Keep(counted)
  BY <1>1
<1> HIDE DEF changed, counted
<1>5. ASSUME library' = K!Put(library, name, changed), halfway' = halfway \cup {name},
             UNCHANGED <<files, robbed>>
      PROVE  SkillsInv'
  <2>1. /\ DOMAIN library' = DOMAIN library
        /\ \A n \in DOMAIN library : library'[n] = IF n = name THEN changed ELSE library[n]
    BY <1>5 DEF K!Put
  <2> QED BY <1>3, <1>5, <2>1 DEF SkillsInv
<1> QED BY <1>3, <1>4, <1>5, KeepInv

LEMMA DeleteInv == SkillsInv /\ K!Delete => SkillsInv'
<1> SUFFICES ASSUME SkillsInv, K!Delete PROVE SkillsInv' OBVIOUS
<1>1. PICK name \in DOMAIN library :
        /\ library' = K!Restrict(library, DOMAIN library \ {name})
        /\ files' = K!Restrict(files, DOMAIN files \ ({Stem[name]} \X {".md", ".json"}))
        /\ robbed' = (robbed \cup K!Held({Stem[name]} \X {".md", ".json"})) \ {name}
        /\ halfway' = halfway \ {name}
  BY DEF K!Delete
<1> DEFINE places == {Stem[name]} \X {".md", ".json"}
<1>2. DOMAIN library' = DOMAIN library \ {name} /\ \A n \in DOMAIN library' : library'[n] = library[n]
  BY <1>1 DEF K!Restrict
<1>3. DOMAIN files' = DOMAIN files \ places /\ \A file \in DOMAIN files' : files'[file] = files[file]
  BY <1>1 DEF K!Restrict
<1>4. ASSUME NEW n \in DOMAIN Stem \ (robbed' \cup halfway')
      PROVE  /\ n \in DOMAIN library' =>
                  \E file \in K!Holding(files', n) : K!Markdown(files'[file]) = K!Markdown(library'[n])
             /\ n \notin DOMAIN library' => \A file \in K!Holding(files', n) : file[1] # Stem[n]
  <2>1. CASE n = name
    <3>1. \A file \in DOMAIN files' : file = <<file[1], file[2]>> /\ file[2] \in {".md", ".json"}
      BY <1>3 DEF SkillsInv, K!IsFile
    <3>2. \A file \in DOMAIN files' : file[1] # Stem[n]
      BY <1>3, <2>1, <3>1
    <3> QED BY <1>2, <2>1, <3>2 DEF K!Holding
  <2>2. CASE n # name
    <3>1. n \notin robbed \cup halfway /\ n \notin K!Held(places) BY <1>1, <2>2
    <3> HIDE DEF places
    <3>2. /\ K!Holding(files', n) = K!Holding(files, n)
          /\ \A file \in K!Holding(files, n) : files'[file] = files[file]
      BY <1>3, <3>1 DEF K!Holding, K!Held
    <3>3. (n \in DOMAIN library' <=> n \in DOMAIN library)
          /\ (n \in DOMAIN library => library'[n] = library[n])
      BY <1>2, <2>2
    <3>4. /\ n \in DOMAIN library =>
               \E file \in K!Holding(files, n) : K!Markdown(files[file]) = K!Markdown(library[n])
          /\ n \notin DOMAIN library => \A file \in K!Holding(files, n) : file[1] # Stem[n]
      BY <3>1 DEF SkillsInv
    <3> QED BY <3>2, <3>3, <3>4
  <2> QED BY <2>1, <2>2
<1> QED BY <1>2, <1>3, <1>4 DEF SkillsInv

LEMMA SkillMade ==
    ASSUME NEW name, NEW more \in BOOLEAN, NEW called \in BOOLEAN, NEW form \in K!Forms
    PROVE  LET fresh == K!Fresh(name, more, called)
           IN  /\ K!IsSkill(fresh)
               /\ K!IsSkill([fresh EXCEPT !.steps = 2, !.form = form, !.used = 1, !.seen = more])
BY DEF K!IsSkill, K!Fresh, K!Forms

LEMMA SkillsStep == SkillsInv /\ K!SkillsNext => SkillsInv'
<1> SUFFICES ASSUME SkillsInv, K!SkillsNext PROVE SkillsInv' OBVIOUS
<1>0. "numbered" \in K!Forms BY DEF K!Forms
<1>2. CASE K!Create BY <1>0, <1>2, SkillMade, KeepInv DEF K!Create
<1>3. CASE K!Capture BY <1>0, <1>3, SkillMade, KeepInv DEF K!Capture
<1>4. CASE K!Import BY <1>4, SkillMade, KeepInv DEF K!Import
<1>5. CASE K!Update BY <1>5, UpdateInv
<1>6. CASE K!RecordUse
  <2>1. PICK name \in DOMAIN library : K!Keep([library[name] EXCEPT !.used = @ + 1, !.seen = TRUE])
    BY <1>6 DEF K!RecordUse
  <2>2. K!IsSkill(library[name]) BY DEF SkillsInv
  <2>3. K!IsSkill([library[name] EXCEPT !.used = @ + 1, !.seen = TRUE]) BY <2>2, SkillChanged
  <2> QED BY <2>1, <2>3, KeepInv
<1>7. CASE K!Delete BY <1>7, DeleteInv
<1>8. CASE K!Restart
  <2>1. library' \in K!Libraries(files) /\ files' = files BY <1>8 DEF K!Restart
  <2>2. /\ \A n \in DOMAIN library' : K!IsSkill(library'[n]) /\ library'[n].name = n
        /\ \A n : n \in DOMAIN library' <=> K!Holding(files, n) # {}
        /\ \A n \in DOMAIN library' : \E file \in K!Holding(files, n) : library'[n] = files[file]
    BY <2>1, SkillsRead DEF SkillsInv
  <2> QED BY <2>1, <2>2 DEF SkillsInv
<1> QED BY <1>2, <1>3, <1>4, <1>5, <1>6, <1>7, <1>8 DEF K!SkillsNext

LEMMA SkillsSafe == SkillsInv => RestartForgetsNothing
<1> SUFFICES ASSUME SkillsInv,
                    NEW next \in K!Libraries(files), NEW n \in DOMAIN Stem \ (robbed \cup halfway),
                    \A file, other \in K!Holding(files, n) : file = other /\ file[1] = Stem[n]
             PROVE  /\ n \in DOMAIN next <=> n \in DOMAIN library
                    /\ n \in DOMAIN next => K!Markdown(next[n]) = K!Markdown(library[n])
  BY DEF RestartForgetsNothing
<1>1. /\ n \in DOMAIN next <=> K!Holding(files, n) # {}
      /\ n \in DOMAIN next => \E file \in K!Holding(files, n) : next[n] = files[file]
  BY SkillsRead DEF SkillsInv
<1>2. /\ n \in DOMAIN library =>
           \E file \in K!Holding(files, n) : K!Markdown(files[file]) = K!Markdown(library[n])
      /\ n \notin DOMAIN library => \A file \in K!Holding(files, n) : file[1] # Stem[n]
  BY DEF SkillsInv
<1> QED BY <1>1, <1>2

-----------------------------------------------------------------------------
(* The knowledge base *)

Written == UNION {{t[n] : n \in DOMAIN t} : t \in Texts}

Characters == Written \cup {Edited}

Span == [from : Nat \ {0}, to : Nat]

\* A chunk is of characters of the document, and no longer than the size set.
Fits(chunk) ==
    chunk.from <= chunk.to /\ chunk.to <= Len(document) /\ (size > 0 => chunk.to - chunk.from < size)

Within(n, chunk) == chunk.from <= n /\ n <= chunk.to

\* All but the blanks of the document is in a chunk, up to a position.
Covered(to) ==
    \A n \in 1 .. Len(document) :
        n <= to /\ document[n] \notin Blank => \E i \in DOMAIN chunks : Within(n, chunks[i])

RetrievalType ==
    /\ document \in Seq(Characters) /\ size \in Int /\ overlap \in Int /\ start \in Int
    /\ chunks \in Seq(Span)
    /\ ingested \in [Sources -> Nat]
    /\ reading \in {"idle", "chunking", "chunked", "stored"}
    /\ reading # "idle" => source \in Sources

\* What was stored under an id of the document at hand before it is added was stored by
\* an earlier ingestion of it.
RetrievalInv ==
    /\ RetrievalType
    /\ \A i \in DOMAIN chunks : Fits(chunks[i])
    /\ reading = "chunking" => Len(document) > size /\ (Onward => start \in Nat /\ Covered(start))
    /\ reading \in {"chunked", "stored"} /\ Onward => Covered(Len(document))
    /\ reading # "idle" => ingested[source] > 0
    /\ \A id \in DOMAIN collection :
         /\ id[1] \in Sources /\ ingested[id[1]] > 0
         /\ reading \in {"chunking", "chunked"} /\ id[1] = source => ingested[source] > 1
    /\ reading = "stored" =>
         \A i \in DOMAIN chunks : collection[R!Id(i)] = R!Text(chunks[i]) \/ ingested[source] > 1

LEMMA RetrievalConstants ==
    /\ Settings \subseteq Int \X Int /\ Beginning \in Nat
    /\ Texts \subseteq Seq(Characters) /\ Edited \in Characters
<1>1. Texts \subseteq Seq(Written)
  BY ServicesAssumption DEF ServicesAssumption, Written
<1>2. Texts \subseteq Seq(Characters) BY <1>1, SeqMonotonic DEF Characters
<1>3. Settings \subseteq Int \X Int /\ Beginning \in Nat
  BY ServicesAssumption DEF ServicesAssumption
<1>4. Edited \in Characters BY DEF Characters
<1> QED BY <1>2, <1>3, <1>4

\* Stripping leaves one span of the part, or none, and loses blanks only.
LEMMA StrippedSpan ==
    ASSUME document \in Seq(Characters), NEW from \in Nat \ {0}, NEW to \in Nat,
           NEW s, s = R!Stripped(from, to)
    PROVE  /\ s \in Seq(Span) /\ DOMAIN s \subseteq {1}
           /\ \A i \in DOMAIN s : from <= s[i].from /\ s[i].from <= s[i].to /\ s[i].to <= to
           /\ \A n \in from .. to : document[n] \notin Blank => 1 \in DOMAIN s /\ Within(n, s[1])
<1> DEFINE solid == {n \in from .. to : document[n] \notin Blank}
           least == CHOOSE n \in solid : \A m \in solid : n <= m
           most == CHOOSE n \in solid : \A m \in solid : m <= n
<1>1. s = IF solid = {} THEN <<>> ELSE <<[from |-> least, to |-> most]>> BY DEF R!Stripped
<1>2. CASE solid = {}
  <2>1. s = <<>> BY <1>1, <1>2
  <2>2. <<>> \in Seq(Span) BY EmptySeq
  <2>3. \A n \in from .. to : document[n] \in Blank BY <1>2
  <2> QED BY <2>1, <2>2, <2>3
<1>3. CASE solid # {}
  <2>1. least \in solid /\ \A m \in solid : least <= m
    <3>1. solid \in SUBSET Nat OBVIOUS
    <3> HIDE DEF solid
    <3>2. \E n \in solid : \A m \in solid : n <= m BY <1>3, <3>1, LeastNatural
    <3> QED BY <3>2
  <2>2. most \in solid /\ \A m \in solid : m <= most
    <3>1. solid \in SUBSET Int /\ \A y \in solid : y <= to OBVIOUS
    <3> HIDE DEF solid
    <3>2. to \in Int OBVIOUS
    <3>3. \E n \in solid : \A m \in solid : m <= n BY <1>3, <3>1, <3>2, GreatestInteger
    <3> QED BY <3>3
  <2> DEFINE span == [from |-> least, to |-> most]
  <2>3. least \in Nat \ {0} /\ most \in Nat /\ from <= least /\ least <= most /\ most <= to
    <3> HIDE DEF least, most
    <3> QED BY <2>1, <2>2
  <2>4. span \in Span BY <2>3 DEF Span
  <2>5. \A n \in from .. to : document[n] \notin Blank => Within(n, span)
    <3> HIDE DEF least, most
    <3> QED BY <2>1, <2>2 DEF Within
  <2> HIDE DEF least, most, solid
  <2>6. s = <<span>> BY <1>1, <1>3
  <2>7. s \in Seq(Span) /\ DOMAIN s = {1} /\ s[1] = span
    <3> HIDE DEF span
    <3> QED BY <2>4, <2>6
  <2>8. span.from = least /\ span.to = most OBVIOUS
  <2> HIDE DEF span
  <2> QED BY <2>3, <2>5, <2>7, <2>8
<1> QED BY <1>2, <1>3

\* Where the window of an iteration ends in the document.
WindowEnd == IF R!IsCut THEN R!Low + R!BreakAt + 1 ELSE R!High

LEMMA PlaceInside ==
    ASSUME Len(document) \in Nat, NEW n \in Nat
    PROVE  R!Place(n) = IF n > Len(document) THEN Len(document) ELSE n
BY DEF R!Place

\* A window lies in the document, whatever start is, and is of the size set.
LEMMA WindowBounds ==
    ASSUME Len(document) \in Nat, start \in Int, size \in Int
    PROVE  /\ R!Low \in Nat /\ R!High \in Nat /\ R!Low <= Len(document) /\ R!High <= Len(document)
           /\ size > 0 => R!High - R!Low <= size
BY DEF R!Low, R!High, R!Place

\* The last break of a window lies in it, or there is none.
LEMMA BreakInWindow ==
    ASSUME R!Low \in Nat, R!High \in Nat
    PROVE  \/ R!BreakAt = -1
           \/ /\ R!BreakAt \in Nat /\ R!Low + R!BreakAt + 1 <= R!High
              /\ document[R!Low + R!BreakAt + 1] \in SentenceEnds
<1> DEFINE breaks == {n \in R!Low + 1 .. R!High : document[n] \in SentenceEnds}
           break == CHOOSE n \in breaks : \A m \in breaks : m <= n
<1>1. R!BreakAt = IF breaks = {} THEN -1 ELSE break - 1 - R!Low BY DEF R!BreakAt
<1>2. ASSUME breaks # {} PROVE break \in breaks
  <2>1. breaks \in SUBSET Int /\ R!High \in Int /\ \A y \in breaks : y <= R!High OBVIOUS
  <2> HIDE DEF breaks
  <2>2. \E n \in breaks : \A m \in breaks : m <= n BY <1>2, <2>1, GreatestInteger
  <2> QED BY <2>2
<1>3. CASE breaks = {} BY <1>1, <1>3
<1>4. CASE breaks # {}
  <2>1. break \in breaks BY <1>2, <1>4
  <2>2. R!BreakAt = break - 1 - R!Low BY <1>1, <1>4
  <2> HIDE DEF break
  <2>3. break \in Nat /\ R!Low + 1 <= break /\ break <= R!High /\ document[break] \in SentenceEnds
    BY <2>1
  <2>4. R!Low + R!BreakAt + 1 = break BY <2>2, <2>3
  <2> QED BY <2>2, <2>3, <2>4
<1> QED BY <1>3, <1>4

LEMMA WindowEnds ==
    ASSUME Len(document) \in Nat, start \in Int, size \in Int
    PROVE  /\ WindowEnd \in Nat /\ WindowEnd <= Len(document)
           /\ size > 0 => WindowEnd - R!Low <= size
           /\ R!BreakAt \in Int
BY WindowBounds, BreakInWindow DEF WindowEnd

\* Where cutting gets on, the next window starts later, and not after the end of this.
LEMMA WindowAdvances ==
    ASSUME document \in Seq(Characters), start \in Nat, start < Len(document),
           size \in Int, overlap \in Int, Len(document) > size, Onward
    PROVE  /\ R!Low = start /\ start < R!NextStart
           /\ R!NextStart <= WindowEnd \/ WindowEnd = Len(document)
<1>1. Len(document) \in Nat /\ DOMAIN document = 1 .. Len(document) BY LenProperties
<1>2. 0 <= overlap /\ overlap < size BY <1>1 DEF Onward
<1>3. R!Low = start BY <1>1, PlaceInside DEF R!Low
<1>4. CASE R!IsCut
  <2>1. R!BreakAt * 10 > size * 3 BY <1>4 DEF R!IsCut
  <2>2. /\ R!BreakAt \in Nat /\ R!Low + R!BreakAt + 1 <= Len(document)
        /\ document[R!Low + R!BreakAt + 1] \in SentenceEnds
    BY <1>1, <1>2, <2>1, WindowBounds, BreakInWindow
  <2>3. R!Low + R!BreakAt + 1 \in DOMAIN document BY <1>1, <1>3, <2>2
  <2>4. (overlap - 1) * 10 <= size * 3 BY <1>1, <2>2, <2>3 DEF Onward
  <2>5. overlap < R!BreakAt + 1 BY <2>1, <2>2, <2>4
  <2>6. R!NextStart = start + R!BreakAt + 1 - overlap /\ WindowEnd = start + R!BreakAt + 1
    BY <1>3, <1>4, <2>2 DEF R!NextStart, WindowEnd
  <2> QED BY <1>2, <1>3, <2>2, <2>5, <2>6
<1>5. CASE ~R!IsCut
  <2>1. R!NextStart = start + size - overlap /\ WindowEnd = R!High
    BY <1>5 DEF R!NextStart, WindowEnd
  <2>2. R!High = start + size \/ R!High = Len(document)
    BY <1>1, <1>2, PlaceInside DEF R!High
  <2> QED BY <1>2, <1>3, <2>1, <2>2
<1> QED BY <1>4, <1>5

LEMMA ChunkInv == RetrievalInv /\ R!Chunk => RetrievalInv'
<1> SUFFICES ASSUME RetrievalInv, R!Chunk PROVE RetrievalInv' OBVIOUS
<1> DEFINE to == WindowEnd
           s == R!Stripped(R!Low + 1, to)
<1>1. /\ document \in Seq(Characters) /\ chunks \in Seq(Span)
      /\ start \in Int /\ size \in Int /\ overlap \in Int
  BY DEF RetrievalInv, RetrievalType
<1>2. Len(document) \in Nat BY <1>1, LenProperties
<1>3. /\ reading = "chunking" /\ start < Len(document) /\ chunks' = chunks \o s /\ start' = R!NextStart
      /\ UNCHANGED <<source, document, size, overlap, reading, collection, ingested>>
  BY DEF R!Chunk, WindowEnd
<1>4. R!Low \in Nat /\ R!High \in Nat BY <1>1, <1>2, WindowBounds
<1>5. /\ to \in Nat /\ to <= Len(document) /\ (size > 0 => to - R!Low <= size) /\ R!BreakAt \in Int
  BY <1>1, <1>2, WindowEnds
<1>6. start' \in Int BY <1>1, <1>3, <1>5 DEF R!NextStart
<1>7. Onward' <=> Onward BY <1>3 DEF Onward
<1>8. /\ s \in Seq(Span) /\ DOMAIN s \subseteq {1}
      /\ \A i \in DOMAIN s : R!Low + 1 <= s[i].from /\ s[i].from <= s[i].to /\ s[i].to <= to
      /\ \A n \in R!Low + 1 .. to : document[n] \notin Blank => 1 \in DOMAIN s /\ Within(n, s[1])
  <2>1. R!Low + 1 \in Nat \ {0} BY <1>4
  <2>2. s = R!Stripped(R!Low + 1, to) OBVIOUS
  <2> HIDE DEF to, s
  <2> QED BY <1>1, <1>5, <2>1, <2>2, StrippedSpan
<1>9. /\ chunks' \in Seq(Span)
      /\ \A i \in DOMAIN chunks' :
           \/ i \in DOMAIN chunks /\ chunks'[i] = chunks[i]
           \/ 1 \in DOMAIN s /\ chunks'[i] = s[1]
      /\ \A i \in DOMAIN chunks : i \in DOMAIN chunks' /\ chunks'[i] = chunks[i]
      /\ 1 \in DOMAIN s => \E i \in DOMAIN chunks' : chunks'[i] = s[1]
  <2> HIDE DEF s
  <2>1. /\ chunks' \in Seq(Span) /\ Len(chunks') = Len(chunks) + Len(s)
        /\ \A i \in 1 .. Len(chunks) + Len(s) :
             chunks'[i] = IF i <= Len(chunks) THEN chunks[i] ELSE s[i - Len(chunks)]
    BY <1>1, <1>3, <1>8, ConcatProperties
  <2>2. /\ Len(chunks) \in Nat /\ DOMAIN chunks = 1 .. Len(chunks)
        /\ Len(s) \in Nat /\ DOMAIN s = 1 .. Len(s) /\ DOMAIN chunks' = 1 .. Len(chunks')
    BY <1>1, <1>8, <2>1, LenProperties
  <2>3. Len(s) <= 1
    <3>1. ~(2 \in DOMAIN s) BY <1>8
    <3> QED BY <2>2, <3>1
  <2>4. \A i \in DOMAIN chunks' : i > Len(chunks) => i - Len(chunks) = 1 /\ 1 \in DOMAIN s
    BY <2>1, <2>2, <2>3
  <2>5. 1 \in DOMAIN s => chunks'[Len(chunks) + 1] = s[1] /\ Len(chunks) + 1 \in DOMAIN chunks'
    BY <2>1, <2>2
  <2> QED BY <2>1, <2>2, <2>4, <2>5
<1>10. (\A i \in DOMAIN chunks : Fits(chunks[i]))'
  <2>1. 1 \in DOMAIN s => Fits(s[1])
    <3> SUFFICES ASSUME 1 \in DOMAIN s PROVE Fits(s[1]) OBVIOUS
    <3> HIDE DEF s, to
    <3>1. s[1] \in Span BY <1>8, LenProperties, ElementOfSeq
    <3>2. s[1].from \in Nat /\ s[1].to \in Nat BY <3>1 DEF Span
    <3> QED BY <1>1, <1>2, <1>4, <1>5, <1>8, <3>2 DEF Fits
  <2> SUFFICES ASSUME NEW i \in DOMAIN chunks' PROVE Fits(chunks[i])' OBVIOUS
  <2> DEFINE c == chunks'[i]
  <2> HIDE DEF s
  <2>2. Fits(c) BY <1>9, <2>1 DEF RetrievalInv
  <2> QED BY <1>3, <2>2 DEF Fits
<1>11. ASSUME Onward PROVE (start \in Nat /\ Covered(start))'
  <2>1. start \in Nat /\ Covered(start) /\ Len(document) > size BY <1>3, <1>11 DEF RetrievalInv
  <2>2. /\ R!Low = start /\ start < start'
        /\ start' <= to \/ to = Len(document)
    BY <1>1, <1>3, <1>11, <2>1, WindowAdvances
  <2>3. start' \in Nat BY <1>6, <2>1, <2>2
  <2> SUFFICES ASSUME NEW n \in 1 .. Len(document), n <= start', document[n] \notin Blank
               PROVE  \E i \in DOMAIN chunks' : Within(n, chunks'[i])
    BY <1>3, <2>3 DEF Covered, Within
  <2>4. CASE n <= start
    <3>1. PICK i \in DOMAIN chunks : Within(n, chunks[i]) BY <2>1, <2>4 DEF Covered
    <3> QED BY <1>9, <3>1
  <2>5. CASE n > start
    <3> HIDE DEF s, to
    <3>1. n \in R!Low + 1 .. to BY <1>2, <1>4, <1>5, <1>6, <2>1, <2>2, <2>5
    <3>2. 1 \in DOMAIN s /\ Within(n, s[1]) BY <1>8, <3>1
    <3> QED BY <1>9, <3>2
  <2> QED BY <2>1, <2>4, <2>5
<1>12. RetrievalType' BY <1>3, <1>6, <1>9 DEF RetrievalInv, RetrievalType
<1> HIDE DEF s, to
<1>13. (\A id \in DOMAIN collection :
          /\ id[1] \in Sources /\ ingested[id[1]] > 0
          /\ reading \in {"chunking", "chunked"} /\ id[1] = source => ingested[source] > 1)'
  BY <1>3 DEF RetrievalInv
<1>14. reading' = "chunking" /\ ingested'[source'] > 0 /\ Len(document') > size'
  BY <1>3 DEF RetrievalInv
<1> QED BY <1>7, <1>10, <1>11, <1>12, <1>13, <1>14 DEF RetrievalInv

LEMMA RetrievalStarts == R!RetrievalInit => RetrievalInv
<1> SUFFICES ASSUME R!RetrievalInit PROVE RetrievalInv OBVIOUS
<1>1. <<>> \in Seq(Characters) /\ <<>> \in Seq(Span) BY EmptySeq
<1>2. RetrievalType BY <1>1 DEF R!RetrievalInit, RetrievalType
<1> QED BY <1>2 DEF R!RetrievalInit, RetrievalInv

\* A document that is read again is as it was, or edited in one character.
LEMMA VersionType ==
    ASSUME RetrievalType, NEW version \in R!Versions
    PROVE  version \in Seq(Characters)
<1>1. CASE document = <<>> BY <1>1, RetrievalConstants DEF R!Versions
<1>2. CASE document # <<>> /\ version = document BY <1>2 DEF RetrievalType
<1>3. ASSUME NEW n \in DOMAIN document, version = [document EXCEPT ![n] = Edited]
      PROVE  version \in Seq(Characters)
  <2>1. document \in Seq(Characters) /\ n \in 1 .. Len(document) BY LenProperties DEF RetrievalType
  <2>2. Edited \in Characters BY RetrievalConstants
  <2> QED BY <1>3, <2>1, <2>2, ExceptSeq
<1> QED BY <1>1, <1>2, <1>3 DEF R!Versions

LEMMA IngestInv == RetrievalInv /\ R!Ingest => RetrievalInv'
<1> SUFFICES ASSUME RetrievalInv, R!Ingest PROVE RetrievalInv' OBVIOUS
<1> DEFINE whole == [from |-> 1, to |-> Len(document')]
           blank == \A n \in DOMAIN document' : document'[n] \in Blank
<1>1. /\ source' \in Sources /\ document' \in R!Versions /\ start' = 0
      /\ size' \in Int /\ overlap' \in Int
      /\ IF Len(document') <= size'
         THEN chunks' = (IF blank THEN <<>> ELSE <<whole>>) /\ reading' = "chunked"
         ELSE chunks' = <<>> /\ reading' = "chunking"
      /\ ingested' = [ingested EXCEPT ![source'] = @ + 1]
      /\ reading \in {"idle", "stored"} /\ UNCHANGED collection
  BY RetrievalConstants DEF R!Ingest
<1>2. document' \in Seq(Characters) BY <1>1, VersionType DEF RetrievalInv
<1>3. Len(document') \in Nat /\ DOMAIN document' = 1 .. Len(document') BY <1>2, LenProperties
<1>4. /\ ingested' \in [Sources -> Nat] /\ ingested'[source'] > 0
      /\ \A s \in Sources : ingested[s] > 0 =>
           ingested'[s] > 0 /\ (s = source' => ingested'[s] > 1)
  BY <1>1 DEF RetrievalInv, RetrievalType
<1>5. \A id \in DOMAIN collection' :
         /\ id[1] \in Sources /\ ingested'[id[1]] > 0
         /\ id[1] = source' => ingested'[source'] > 1
  BY <1>1, <1>4 DEF RetrievalInv
<1>7. CASE Len(document') <= size' /\ ~blank
  <2>1. Len(document') > 0 BY <1>3, <1>7
  <2>2. chunks' = <<whole>> /\ reading' = "chunked" BY <1>1, <1>7
  <2>3. whole \in Span /\ whole.from = 1 /\ whole.to = Len(document') BY <1>3, <2>1 DEF Span
  <2> HIDE DEF whole, blank
  <2>4. chunks' \in Seq(Span) /\ DOMAIN chunks' = {1} /\ chunks'[1] = whole BY <2>2, <2>3
  <2>5. (\A i \in DOMAIN chunks : Fits(chunks[i]))' BY <1>1, <1>3, <1>7, <2>1, <2>3, <2>4 DEF Fits
  <2>6. Covered(Len(document))' BY <1>3, <2>3, <2>4 DEF Covered, Within
  <2>7. RetrievalType' BY <1>1, <1>2, <1>4, <2>2, <2>4 DEF RetrievalType
  <2> QED BY <1>4, <1>5, <2>2, <2>5, <2>6, <2>7 DEF RetrievalInv
<1>8. CASE Len(document') <= size' /\ blank
  <2>1. chunks' = <<>> /\ reading' = "chunked" BY <1>1, <1>8
  <2>2. chunks' \in Seq(Span) /\ DOMAIN chunks' = {} BY <2>1, EmptySeq
  <2>3. Covered(Len(document))' BY <1>3, <1>8 DEF Covered
  <2> HIDE DEF blank, whole
  <2>4. RetrievalType' BY <1>1, <1>2, <1>4, <2>1, <2>2 DEF RetrievalType
  <2> QED BY <1>4, <1>5, <2>1, <2>2, <2>3, <2>4 DEF RetrievalInv
<1>9. CASE ~(Len(document') <= size')
  <2> HIDE DEF blank, whole
  <2>1. chunks' = <<>> /\ reading' = "chunking" BY <1>1, <1>9
  <2>2. chunks' \in Seq(Span) /\ DOMAIN chunks' = {} BY <2>1, EmptySeq
  <2>3. Covered(start)' BY <1>1, <1>3 DEF Covered
  <2>5. Len(document') > size' /\ start' \in Nat BY <1>1, <1>3, <1>9
  <2>4. RetrievalType' BY <1>1, <1>2, <1>4, <2>1, <2>2 DEF RetrievalType
  <2> QED BY <1>4, <1>5, <2>1, <2>2, <2>3, <2>4, <2>5 DEF RetrievalInv
<1> QED BY <1>7, <1>8, <1>9

LEMMA ChunkedInv == RetrievalInv /\ R!Chunked => RetrievalInv'
<1> SUFFICES ASSUME RetrievalInv, R!Chunked PROVE RetrievalInv' OBVIOUS
<1>1. /\ reading = "chunking" /\ start >= Len(document) /\ reading' = "chunked"
      /\ UNCHANGED <<source, document, size, overlap, start, chunks, collection, ingested>>
  BY DEF R!Chunked
<1>2. Len(document) \in Nat /\ start \in Int BY LenProperties DEF RetrievalInv, RetrievalType
<1>3. Onward' => Onward /\ Covered(Len(document))' BY <1>1, <1>2 DEF RetrievalInv, Covered, Within, Onward
<1> QED BY <1>1, <1>3 DEF RetrievalInv, RetrievalType, Fits

\* Chunks differ in their number, so that each is stored under an id of its own.
LEMMA IdsDiffer ==
    ASSUME NEW i, NEW j, R!Id(i) = R!Id(j)
    PROVE  i = j /\ R!Id(i)[1] = source
BY DEF R!Id

LEMMA AddInv == RetrievalInv /\ R!Add => RetrievalInv'
<1> SUFFICES ASSUME RetrievalInv, R!Add PROVE RetrievalInv' OBVIOUS
<1> DEFINE added == {R!Id(i) : i \in DOMAIN chunks}
           the(id) == CHOOSE i \in DOMAIN chunks : R!Id(i) = id
<1>1. /\ reading = "chunked" /\ reading' = "stored"
      /\ collection' = [id \in DOMAIN collection \cup added |->
             IF id \in DOMAIN collection THEN collection[id] ELSE R!Text(chunks[the(id)])]
      /\ UNCHANGED <<source, document, size, overlap, start, chunks, ingested>>
  BY DEF R!Add
<1>2. \A i : R!Id(i)' = R!Id(i) BY <1>1 DEF R!Id, R!Text
<1>3. \A c : R!Text(c)' = R!Text(c) BY <1>1 DEF R!Text
<1>4. \A i \in DOMAIN chunks : the(R!Id(i)) = i BY IdsDiffer
<1> HIDE DEF the
<1>5. \A i \in DOMAIN chunks :
        \/ R!Id(i) \in DOMAIN collection
        \/ collection'[R!Id(i)] = R!Text(chunks[i])
  BY <1>1, <1>4
<1>6. \A i \in DOMAIN chunks : R!Id(i) \in DOMAIN collection => ingested[source] > 1
  BY <1>1, IdsDiffer DEF RetrievalInv
<1>7. (\A i \in DOMAIN chunks : collection[R!Id(i)] = R!Text(chunks[i]) \/ ingested[source] > 1)'
  BY <1>1, <1>2, <1>3, <1>5, <1>6
<1>8. \A id \in DOMAIN collection' : id \in DOMAIN collection \/ id[1] = source
  BY <1>1, IdsDiffer
<1>9. source \in Sources /\ ingested[source] > 0
  BY <1>1 DEF RetrievalInv, RetrievalType
<1>10. (\A id \in DOMAIN collection : id[1] \in Sources /\ ingested[id[1]] > 0)'
  BY <1>1, <1>8, <1>9 DEF RetrievalInv
<1>11. RetrievalType' BY <1>1 DEF RetrievalInv, RetrievalType
<1>12. Onward' => Covered(Len(document))' BY <1>1 DEF RetrievalInv, Covered, Within, Onward
<1>13. (\A i \in DOMAIN chunks : Fits(chunks[i]))' BY <1>1 DEF RetrievalInv, Fits
<1> QED BY <1>1, <1>7, <1>9, <1>10, <1>11, <1>12, <1>13 DEF RetrievalInv

LEMMA ClearInv == RetrievalInv /\ R!Clear => RetrievalInv'
BY DEF R!Clear, RetrievalInv, RetrievalType, Fits

LEMMA RetrievalStep == RetrievalInv /\ R!RetrievalNext => RetrievalInv'
BY IngestInv, ChunkInv, ChunkedInv, AddInv, ClearInv DEF R!RetrievalNext

LEMMA RetrievalSafe == RetrievalInv => EverythingFound
<1> SUFFICES ASSUME RetrievalInv, reading = "stored"
             PROVE  /\ size > 0 => \A i \in DOMAIN chunks : Len(R!Text(chunks[i])) <= size
                    /\ Onward => \A n \in DOMAIN document : document[n] \notin Blank =>
                         \E i \in DOMAIN chunks :
                             /\ n \in chunks[i].from .. chunks[i].to
                             /\ collection[R!Id(i)] = R!Text(chunks[i]) \/ ingested[source] > 1
  BY DEF EverythingFound
<1>1. /\ Len(document) \in Nat /\ DOMAIN document = 1 .. Len(document)
      /\ \A n \in 1 .. Len(document) : document[n] \in Characters
  BY LenProperties, ElementOfSeq DEF RetrievalInv, RetrievalType
<1>2. \A i \in DOMAIN chunks : chunks[i] \in Span
  BY LenProperties, ElementOfSeq DEF RetrievalInv, RetrievalType
<1>3. ASSUME size > 0, NEW i \in DOMAIN chunks PROVE Len(R!Text(chunks[i])) <= size
  <2> DEFINE c == chunks[i]
  <2>1. c.from \in Nat \ {0} /\ c.to \in Nat BY <1>2 DEF Span
  <2>2. c.from <= c.to /\ c.to <= Len(document) /\ c.to - c.from < size
    BY <1>3 DEF RetrievalInv, Fits
  <2> HIDE DEF c
  <2>3. \A n \in c.from .. c.to : document[n] \in Characters BY <1>1, <2>1, <2>2
  <2>4. Len(SubSeq(document, c.from, c.to)) = c.to - c.from + 1
    BY <2>1, <2>2, <2>3, SubSeqProperties
  <2>5. Len(R!Text(c)) = c.to - c.from + 1 BY <2>4 DEF R!Text
  <2>6. size \in Int BY DEF RetrievalInv, RetrievalType
  <2> QED BY <2>1, <2>2, <2>5, <2>6 DEF c
<1>4. ASSUME Onward, NEW n \in DOMAIN document, document[n] \notin Blank
      PROVE  \E i \in DOMAIN chunks :
                 /\ n \in chunks[i].from .. chunks[i].to
                 /\ collection[R!Id(i)] = R!Text(chunks[i]) \/ ingested[source] > 1
  <2>1. PICK i \in DOMAIN chunks : Within(n, chunks[i])
    BY <1>1, <1>4 DEF RetrievalInv, Covered
  <2>2. n \in chunks[i].from .. chunks[i].to
    BY <1>1, <1>2, <2>1 DEF Within, Span
  <2> QED BY <2>2 DEF RetrievalInv
<1> QED BY <1>3, <1>4

-----------------------------------------------------------------------------
(* Delegations *)

Fields ==
    {"parent", "tools", "spawner", "inherited", "task", "outer", "phase", "step", "batch", "pending",
     "ran", "refused", "calls", "rows", "returned", "closed"}

\* fs is a sequence of n runs.
Runs(fs, n) == fs = [g \in 1 .. n |-> fs[g]] /\ \A g \in 1 .. n : DOMAIN fs[g] = Fields

\* What a run keeps for as long as it is in the log.
SameRun(run, other) ==
    /\ run.parent = other.parent /\ run.tools = other.tools /\ run.spawner = other.spawner
    /\ run.inherited = other.inherited /\ run.task = other.task /\ run.outer = other.outer

\* The runs are a tree, whose turn runs in a task of its own, as each child of the turn
\* does; a child's child runs in the task of the child, and leaves it to the child.
Tree ==
    /\ Len(frames) \in Nat \ {0} /\ Runs(frames, Len(frames))
    /\ DOMAIN label = 1 .. Len(frames)
    /\ frames[1].parent = 0 /\ frames[1].task = 1 /\ frames[1].outer = 1
    /\ \A g \in 2 .. Len(frames) :
         /\ frames[g].parent \in 1 .. g - 1 /\ frames[g].outer = frames[g].parent
         /\ frames[g].task \in 2 .. g
         /\ frames[g].task = IF frames[g].parent = 1 THEN g ELSE frames[frames[g].parent].task
    /\ \A g \in 1 .. Len(frames) : frames[g].pending \in Nat

\* A run waits in its tool calls for those under it, one at a time but for the turn.
Waits ==
    /\ \A g \in 2 .. Len(frames) : D!Live(g) => frames[frames[g].parent].phase = "act"
    /\ \A g \in 1 .. Len(frames) :
         frames[g].phase = "act" => Cardinality(D!Active(g)) <= frames[g].pending
    /\ \A g, h \in 2 .. Len(frames) :
         D!Live(g) /\ D!Live(h) /\ frames[g].parent = frames[h].parent /\ frames[g].parent # 1 => g = h

\* The label of a task is the run in it that waits for no other.
Labelled ==
    /\ label[1] = 1
    /\ \A g \in 2 .. Len(frames) : D!Live(g) /\ D!Active(g) = {} => label[frames[g].task] = g

Logged ==
    \A g \in 1 .. Len(frames) :
        frames[g].rows = frames[g].returned /\ (frames[g].closed # "none" => ~D!Live(g))

\* A run has tools of the turn's; below a run with a spawner of its own it has that run's
\* only, and its own spawner, if any, is one deeper, but where it was given one by name.
Narrowed ==
    /\ frames[1].spawner = [depth |-> 1, home |-> 1] /\ ~frames[1].inherited
    /\ \A g \in 1 .. Len(frames) :
         /\ frames[g].tools \subseteq TurnTools
         /\ frames[g].spawner.depth \in Nat
         /\ D!Spawner \in frames[g].tools => frames[g].spawner.home \in 1 .. g
    /\ \A g \in 2 .. Len(frames) :
         LET mother == frames[frames[g].parent]
         IN  /\ D!Spawner \in mother.tools
             /\ ~mother.inherited /\ mother.spawner.home = frames[g].parent =>
                  /\ frames[g].tools \subseteq mother.tools
                  /\ ~frames[g].inherited /\ D!Spawner \in frames[g].tools =>
                       /\ frames[g].spawner.home = g
                       /\ frames[g].spawner.depth = mother.spawner.depth + 1
                       /\ frames[g].spawner.depth <= MaxDepth

DelegationInv == Tree /\ Waits /\ Labelled /\ Logged /\ Narrowed

\* What a sequence is made of.
LEMMA RunsSeq ==
    ASSUME NEW n \in Nat, NEW fs, Runs(fs, n)
    PROVE  /\ DOMAIN fs = 1 .. n /\ Len(fs) = n
           /\ \A run : Append(fs, run) = [g \in 1 .. n + 1 |-> IF g = n + 1 THEN run ELSE fs[g]]
<1> DEFINE S == {fs[g] : g \in 1 .. n}
           e(g) == fs[g]
<1>1. fs = [g \in 1 .. n |-> e(g)] BY DEF Runs
<1>2. \A g \in 1 .. n : e(g) \in S OBVIOUS
<1>3. fs \in Seq(S)
  <2> HIDE DEF e, S
  <2> QED BY <1>1, <1>2, IsASeq
<1>4. DOMAIN fs = 1 .. n BY <1>1
<1> HIDE DEF e, S
<1>5. Len(fs) = n
  <2>1. Len(fs) \in Nat /\ DOMAIN fs = 1 .. Len(fs) BY <1>3, LenProperties
  <2>2. n \in 1 .. n \/ n = 0 OBVIOUS
  <2>3. Len(fs) \in 1 .. Len(fs) \/ Len(fs) = 0 BY <2>1
  <2> QED BY <1>4, <2>1, <2>2, <2>3
<1>6. ASSUME NEW run PROVE Append(fs, run) = [g \in 1 .. n + 1 |-> IF g = n + 1 THEN run ELSE fs[g]]
  <2> DEFINE T == S \cup {run}
             grown == [g \in 1 .. n + 1 |-> IF g = n + 1 THEN run ELSE fs[g]]
             d(g) == IF g = n + 1 THEN run ELSE fs[g]
  <2>1. fs \in Seq(T) /\ run \in T BY <1>3, SeqMonotonic
  <2>2. \A g \in 1 .. n : fs[g] \in T BY <1>3, <1>4, <1>5, ElementOfSeq
  <2>3. \A g \in 1 .. n + 1 : d(g) \in T BY <2>1, <2>2
  <2>4. grown = [g \in 1 .. n + 1 |-> d(g)] OBVIOUS
  <2> HIDE DEF T
  <2>5. grown \in Seq(T)
    <3> HIDE DEF d, grown
    <3>1. n + 1 \in Nat OBVIOUS
    <3> QED BY <2>3, <2>4, <3>1, IsASeq
  <2>6. Len(grown) = n + 1
    <3>1. DOMAIN grown = 1 .. n + 1 OBVIOUS
    <3> HIDE DEF grown
    <3>2. Len(grown) \in Nat /\ DOMAIN grown = 1 .. Len(grown) BY <2>5, LenProperties
    <3>3. n + 1 \in 1 .. n + 1 OBVIOUS
    <3>4. Len(grown) \in 1 .. Len(grown) \/ Len(grown) = 0 BY <3>2
    <3> QED BY <3>1, <3>2, <3>3, <3>4
  <2> DEFINE appended == Append(fs, run)
  <2>7. /\ appended \in Seq(T) /\ Len(appended) = n + 1
        /\ \A g \in 1 .. n : appended[g] = fs[g]
        /\ appended[n + 1] = run
    BY <1>5, <2>1, AppendProperties
  <2>8. \A g \in 1 .. n + 1 : appended[g] = grown[g] BY <2>7
  <2> HIDE DEF appended, grown
  <2>9. appended = grown BY <2>5, <2>6, <2>7, <2>8, SeqEqual
  <2> QED BY <2>9 DEF appended, grown
<1> QED BY <1>4, <1>5, <1>6

-----------------------------------------------------------------------------
(* Runs under a run *)

IsBelow(f, n, b) == b = [g \in 0 .. n |-> g # 0 /\ (g = f \/ b[frames[g].parent])]

LEMMA BelowExists ==
    ASSUME Tree, NEW f
    PROVE  \E b : IsBelow(f, Len(frames), b)
<1> DEFINE total == Len(frames)
           T == {n \in Nat : n <= total /\ ~\E b : IsBelow(f, n, b)}
<1>1. total \in Nat BY DEF Tree
<1>2. \A g \in 1 .. total : frames[g].parent \in 0 .. g - 1
  <2>1. 1 .. total = {1} \cup 2 .. total BY DEF Tree
  <2> QED BY <2>1 DEF Tree
<1> HIDE DEF total
<1>3. SUFFICES ASSUME ~\E b : IsBelow(f, total, b) PROVE FALSE BY DEF total
<1>4. total \in T
  <2>1. total <= total BY <1>1
  <2> QED BY <1>1, <1>3, <2>1, Zenon
<1>5. PICK n \in T : \A m \in T : n <= m
  <2>1. T \in SUBSET Nat OBVIOUS
  <2> HIDE DEF T
  <2> QED BY <1>4, <2>1, LeastNatural
<1>6. n # 0
  <2> DEFINE none == [g \in 0 .. 0 |-> FALSE]
  <2>1. \A g \in 0 .. 0 : g = 0 OBVIOUS
  <2>2. none = [g \in 0 .. 0 |-> g # 0 /\ (g = f \/ none[frames[g].parent])] BY <2>1, Zenon
  <2>3. IsBelow(f, 0, none) BY <2>2, Zenon DEF IsBelow
  <2> QED BY <2>3
<1>7. PICK b : IsBelow(f, n - 1, b)
  <2>1. n - 1 \in Nat /\ n - 1 <= total /\ n - 1 \notin T BY <1>1, <1>5, <1>6
  <2> QED BY <2>1
<1> DEFINE new == n = f \/ b[frames[n].parent]
           c == [g \in 0 .. n |-> IF g = n THEN new ELSE b[g]]
<1>8. frames[n].parent \in 0 .. n - 1 BY <1>1, <1>2, <1>5, <1>6
<1>9. \A g \in 0 .. n - 1 : g # 0 => frames[g].parent \in 0 .. n - 1 BY <1>1, <1>2, <1>5
<1>10. \A g \in 0 .. n - 1 : c[g] = b[g] OBVIOUS
<1>11. c[n] = new BY <1>5
<1>12. \A g \in 0 .. n - 1 : b[g] = (g # 0 /\ (g = f \/ b[frames[g].parent])) BY <1>7 DEF IsBelow
<1>13. \A g \in 0 .. n - 1 : c[g] = (g # 0 /\ (g = f \/ c[frames[g].parent])) BY <1>9, <1>10, <1>12
<1>14. c[n] = (n # 0 /\ (n = f \/ c[frames[n].parent])) BY <1>6, <1>8, <1>10, <1>11
<1>15. c = [g \in 0 .. n |-> c[g]] OBVIOUS
<1> HIDE DEF c
<1>16. \A g \in 0 .. n : g = n \/ g \in 0 .. n - 1 BY <1>5
<1>17. \A g \in 0 .. n : c[g] = (g # 0 /\ (g = f \/ c[frames[g].parent])) BY <1>13, <1>14, <1>16, Zenon
<1>18. IsBelow(f, n, c) BY <1>15, <1>17 DEF IsBelow
<1> QED BY <1>5, <1>18

\* A run is under another if it is that one, or its parent is under it.
LEMMA UnderParent ==
    ASSUME Tree, NEW f \in 1 .. Len(frames)
    PROVE  /\ D!Under(f) \subseteq 1 .. Len(frames)
           /\ \A g \in 1 .. Len(frames) :
                g \in D!Under(f) <=> (g = f \/ frames[g].parent \in D!Under(f))
<1> DEFINE total == Len(frames)
           below == CHOOSE below : below = [g \in 0 .. total |-> g # 0 /\ (g = f \/ below[frames[g].parent])]
<1>1. D!Under(f) = {g \in 1 .. total : below[g]}
  <2>1. DOMAIN frames = 1 .. total BY RunsSeq DEF Tree
  <2> QED BY <2>1 DEF D!Under
<1>2. below = [g \in 0 .. total |-> g # 0 /\ (g = f \/ below[frames[g].parent])]
  <2>1. PICK b : IsBelow(f, total, b) BY BelowExists
  <2>2. b = [g \in 0 .. total |-> g # 0 /\ (g = f \/ b[frames[g].parent])] BY <2>1, Zenon DEF IsBelow
  <2> QED BY <2>2, Zenon
<1>3. total \in Nat /\ \A g \in 1 .. total : frames[g].parent \in 0 .. total
  <2>1. 1 .. total = {1} \cup 2 .. total BY DEF Tree
  <2> QED BY <2>1 DEF Tree
<1> HIDE DEF below, total
<1>4. \A g \in 0 .. total : below[g] = (g # 0 /\ (g = f \/ below[frames[g].parent])) BY <1>2, Zenon
<1>5. ~below[0]
  <2>1. 0 \in 0 .. total BY <1>3
  <2> QED BY <1>4, <2>1, Zenon
<1>6. ASSUME NEW g \in 1 .. total
      PROVE  g \in D!Under(f) <=> (g = f \/ frames[g].parent \in D!Under(f))
  <2>1. g \in 0 .. total /\ g # 0 BY <1>3
  <2>2. below[g] <=> (g = f \/ below[frames[g].parent]) BY <1>4, <2>1, Zenon
  <2>3. frames[g].parent = 0 \/ frames[g].parent \in 1 .. total BY <1>3
  <2>4. frames[g].parent \in D!Under(f) <=> below[frames[g].parent]
    <3>1. 0 \notin 1 .. total OBVIOUS
    <3> QED BY <1>1, <1>5, <2>3, <3>1, Zenon
  <2> QED BY <1>1, <2>2, <2>4, Zenon
<1> QED BY <1>1, <1>6 DEF total
-----------------------------------------------------------------------------
(* Runs that end *)

\* What ends of a run, and what stays of it.
LEMMA EndedRun ==
    ASSUME NEW run, DOMAIN run = Fields, NEW how, NEW ended, ended = D!Ended(run, how)
    PROVE  /\ DOMAIN ended = Fields /\ SameRun(ended, run)
           /\ ended.phase = "over" /\ ended.closed = how /\ ended.pending = 0
           /\ ended.rows = run.rows /\ ended.returned = run.returned
<1> DEFINE none == FALSE
           counted == [run EXCEPT !.phase = "over", !.closed = how, !.step = 0, !.batch = 0,
                                  !.pending = 0, !.ran = none, !.refused = 0, !.calls = 0]
<1>1. ended = counted BY DEF D!Ended
<1> HIDE DEF none
<1>2. /\ DOMAIN counted = Fields
      /\ counted.phase = "over" /\ counted.closed = how /\ counted.pending = 0
      /\ counted.rows = run.rows /\ counted.returned = run.returned
  BY DEF Fields
<1>3. SameRun(counted, run) BY DEF Fields, SameRun
<1> QED BY <1>1, <1>2, <1>3

LEMMA LeftRuns ==
    ASSUME NEW n \in Nat, NEW fs, Runs(fs, n), NEW f \in 1 .. n, fs[f].parent \in 0 .. f - 1,
           NEW how, NEW out, out = D!Leave(fs, f, how)
    PROVE  /\ Runs(out, n)
           /\ out[f].phase = "over" /\ out[f].closed = how /\ out[f].pending = 0
           /\ \A g \in 1 .. n :
                /\ SameRun(out[g], fs[g])
                /\ out[g].rows = fs[g].rows /\ out[g].returned = fs[g].returned
                /\ g # f => /\ out[g].phase = fs[g].phase /\ out[g].closed = fs[g].closed
                            /\ out[g].pending =
                                 IF g = fs[f].parent THEN fs[g].pending - 1 ELSE fs[g].pending
<1> DEFINE p == fs[f].parent
           ended == D!Ended(fs[f], how)
           left == [fs EXCEPT ![f] = ended]
           called == [fs[p] EXCEPT !.pending = @ - 1]
<1>1. /\ DOMAIN ended = Fields /\ SameRun(ended, fs[f])
      /\ ended.phase = "over" /\ ended.closed = how /\ ended.pending = 0
      /\ ended.rows = fs[f].rows /\ ended.returned = fs[f].returned
  BY EndedRun DEF Runs
<1> HIDE DEF ended
<1>2. /\ left = [g \in 1 .. n |-> left[g]] /\ left[f] = ended /\ \A g \in 1 .. n : g # f => left[g] = fs[g]
  BY DEF Runs
<1> HIDE DEF left
<1>3. CASE p = 0
  <2>1. out = left BY <1>3 DEF D!Leave, left, ended
  <2>2. \A g \in 1 .. n : g # p BY <1>3
  <2>3. \A g \in 1 .. n : SameRun(left[g], fs[g]) BY <1>1, <1>2 DEF SameRun
  <2>4. Runs(left, n) BY <1>1, <1>2 DEF Runs
  <2> QED BY <1>1, <1>2, <2>1, <2>2, <2>3, <2>4
<1>4. CASE p # 0
  <2>1. p \in 1 .. n /\ p # f BY <1>4
  <2> DEFINE ran == TRUE
             once == [left EXCEPT ![p].pending = @ - 1]
             done == [once EXCEPT ![p].ran = ran]
  <2>2. out = done BY <1>4 DEF D!Leave, left, ended
  <2> HIDE DEF ran, p
  <2>3. /\ once = [g \in 1 .. n |-> once[g]] /\ once[f] = ended
        /\ \A g \in 1 .. n : g # f /\ g # p => once[g] = fs[g]
        /\ once[p] = [fs[p] EXCEPT !.pending = @ - 1]
    BY <1>2, <2>1
  <2> HIDE DEF once
  <2>4. /\ done = [g \in 1 .. n |-> done[g]] /\ done[f] = ended
        /\ \A g \in 1 .. n : g # f /\ g # p => done[g] = fs[g]
        /\ done[p] = [once[p] EXCEPT !.ran = ran]
    BY <2>1, <2>3
  <2> HIDE DEF done
  <2>5. DOMAIN fs[p] = Fields BY <2>1 DEF Runs
  <2> DEFINE mother == done[p]
  <2>6. mother = [[fs[p] EXCEPT !.pending = @ - 1] EXCEPT !.ran = ran] BY <2>3, <2>4
  <2> HIDE DEF mother
  <2>7. /\ DOMAIN mother = Fields
        /\ mother.rows = fs[p].rows /\ mother.returned = fs[p].returned
        /\ mother.phase = fs[p].phase /\ mother.closed = fs[p].closed
        /\ mother.pending = fs[p].pending - 1
    BY <2>5, <2>6 DEF Fields
  <2>8. SameRun(mother, fs[p]) BY <2>5, <2>6 DEF Fields, SameRun
  <2>9. \A g \in 1 .. n : SameRun(done[g], fs[g]) BY <1>1, <2>4, <2>8 DEF SameRun, mother
  <2>10. Runs(done, n) BY <1>1, <2>1, <2>4, <2>7, <2>2 DEF Runs, mother
  <2> QED BY <1>1, <2>1, <2>2, <2>4, <2>7, <2>9, <2>10 DEF mother, p
<1> QED BY <1>3, <1>4
LEMMA SameCardinality == \A S : D!Cardinality(S) = Cardinality(S)
BY Zenon DEF D!Cardinality, Cardinality

\* The runs that wait for nothing own the label of their task.
LEMMA OwnLabel ==
    ASSUME DelegationInv, NEW f \in 1 .. Len(frames), D!Live(f), frames[f].phase # "act" \/ D!Active(f) = {}
    PROVE  D!Active(f) = {} /\ frames[f].task \in 1 .. Len(frames) /\ label[frames[f].task] = f
<1>1. D!Active(f) = {}
  <2>1. SUFFICES ASSUME frames[f].phase # "act", NEW g \in D!Active(f) PROVE FALSE OBVIOUS
  <2>2. DOMAIN frames = 1 .. Len(frames) BY RunsSeq DEF DelegationInv, Tree
  <2>3. g \in 1 .. Len(frames) /\ frames[g].parent = f /\ D!Live(g) BY <2>1, <2>2 DEF D!Active
  <2>4. g # 1 BY <2>3 DEF DelegationInv, Tree
  <2> QED BY <2>1, <2>3, <2>4 DEF DelegationInv, Tree, Waits
<1>2. CASE f = 1 BY <1>1, <1>2 DEF DelegationInv, Tree, Labelled
<1>3. CASE f # 1
  <2>1. f \in 2 .. Len(frames) BY <1>3 DEF DelegationInv, Tree
  <2> QED BY <1>1, <2>1 DEF DelegationInv, Tree, Labelled
<1> QED BY <1>1, <1>2, <1>3

LEMMA ActiveFinite ==
    ASSUME Tree, NEW f
    PROVE  IsFiniteSet(D!Active(f)) /\ D!Active(f) \subseteq 2 .. Len(frames) \cup {1}
           /\ Cardinality(D!Active(f)) \in Nat
<1>1. DOMAIN frames = 1 .. Len(frames) BY RunsSeq DEF Tree
<1>2. D!Active(f) \subseteq 1 .. Len(frames) BY <1>1 DEF D!Active
<1>3. IsFiniteSet(1 .. Len(frames)) BY FS_Interval DEF Tree
<1>4. IsFiniteSet(D!Active(f)) BY <1>2, <1>3, FS_Subset
<1> QED BY <1>2, <1>4, FS_CardinalityType DEF Tree

LEMMA TreeKept ==
    ASSUME Tree, Runs(frames', Len(frames)),
           \A g \in 1 .. Len(frames) : SameRun(frames'[g], frames[g]) /\ frames'[g].pending \in Nat,
           DOMAIN label' = 1 .. Len(frames)
    PROVE  Tree' /\ Len(frames') = Len(frames) /\ DOMAIN frames' = 1 .. Len(frames)
<1> DEFINE n == Len(frames)
<1>1. n \in Nat \ {0} /\ 1 .. n = {1} \cup 2 .. n /\ 2 .. n \subseteq 1 .. n BY DEF Tree
<1>2. Len(frames') = n /\ DOMAIN frames' = 1 .. n BY <1>1, RunsSeq
<1>3. \A g \in 1 .. n : /\ frames'[g].parent = frames[g].parent /\ frames'[g].task = frames[g].task
                        /\ frames'[g].outer = frames[g].outer
  BY DEF SameRun
<1>4. frames'[1].parent = 0 /\ frames'[1].task = 1 /\ frames'[1].outer = 1 BY <1>1, <1>3 DEF Tree
<1>5. ASSUME NEW g \in 2 .. n
      PROVE  /\ frames'[g].parent \in 1 .. g - 1 /\ frames'[g].outer = frames'[g].parent
             /\ frames'[g].task \in 2 .. g
             /\ frames'[g].task = IF frames'[g].parent = 1 THEN g ELSE frames'[frames'[g].parent].task
  <2>1. /\ frames[g].outer = frames[g].parent /\ frames[g].task \in 2 .. g
        /\ frames[g].task = IF frames[g].parent = 1 THEN g ELSE frames[frames[g].parent].task
        /\ frames[g].parent \in 1 .. g - 1 /\ frames[g].parent \in 1 .. n
    BY <1>1 DEF Tree
  <2>2. frames'[frames[g].parent].task = frames[frames[g].parent].task BY <1>3, <2>1
  <2>3. g \in 1 .. n BY <1>1
  <2> HIDE DEF n
  <2> QED BY <1>3, <2>1, <2>2, <2>3
<1> HIDE DEF n
<1> QED BY <1>1, <1>2, <1>4, <1>5 DEF Tree, n

LEMMA NarrowedKept ==
    ASSUME Tree, Narrowed, Len(frames') = Len(frames),
           \A g \in 1 .. Len(frames) : SameRun(frames'[g], frames[g])
    PROVE  Narrowed'
<1> DEFINE n == Len(frames)
<1>1. n \in Nat \ {0} /\ 1 .. n = {1} \cup 2 .. n /\ 2 .. n \subseteq 1 .. n BY DEF Tree
<1>2. \A g \in 1 .. n :
        /\ frames'[g].parent = frames[g].parent /\ frames'[g].tools = frames[g].tools
        /\ frames'[g].spawner = frames[g].spawner /\ frames'[g].inherited = frames[g].inherited
  BY DEF SameRun
<1>3. \A g \in 2 .. n : frames[g].parent \in 1 .. n BY <1>1 DEF Tree
<1>4. frames'[1].spawner = [depth |-> 1, home |-> 1] /\ ~frames'[1].inherited
  BY <1>1, <1>2 DEF Narrowed
<1>5. ASSUME NEW g \in 1 .. n
      PROVE  /\ frames'[g].tools \subseteq TurnTools
             /\ frames'[g].spawner.depth \in Nat
             /\ D!Spawner \in frames'[g].tools => frames'[g].spawner.home \in 1 .. g
  BY <1>2 DEF Narrowed
<1>6. ASSUME NEW g \in 2 .. n
      PROVE  LET mother == frames'[frames'[g].parent]
             IN  /\ D!Spawner \in mother.tools
                 /\ ~mother.inherited /\ mother.spawner.home = frames'[g].parent =>
                      /\ frames'[g].tools \subseteq mother.tools
                      /\ ~frames'[g].inherited /\ D!Spawner \in frames'[g].tools =>
                           /\ frames'[g].spawner.home = g
                           /\ frames'[g].spawner.depth = mother.spawner.depth + 1
                           /\ frames'[g].spawner.depth <= MaxDepth
  <2> DEFINE p == frames[g].parent
  <2>1. g \in 1 .. n /\ p \in 1 .. n BY <1>1, <1>3
  <2>2. /\ frames'[g].parent = p
        /\ frames'[g].tools = frames[g].tools /\ frames'[g].spawner = frames[g].spawner
        /\ frames'[g].inherited = frames[g].inherited
        /\ frames'[p].tools = frames[p].tools /\ frames'[p].spawner = frames[p].spawner
        /\ frames'[p].inherited = frames[p].inherited
    BY <1>2, <2>1
  <2>3. /\ D!Spawner \in frames[p].tools
        /\ ~frames[p].inherited /\ frames[p].spawner.home = p =>
             /\ frames[g].tools \subseteq frames[p].tools
             /\ ~frames[g].inherited /\ D!Spawner \in frames[g].tools =>
                  /\ frames[g].spawner.home = g
                  /\ frames[g].spawner.depth = frames[p].spawner.depth + 1
                  /\ frames[g].spawner.depth <= MaxDepth
    BY DEF Narrowed
  <2> HIDE DEF p
  <2> QED BY <2>2, <2>3
<1> HIDE DEF n
<1> QED BY <1>4, <1>5, <1>6 DEF Narrowed, n

\* Run f ends with the runs U under it that are left: for the run that waits for f one
\* call more is done, and the label of the task is that run's again.
LEMMA RunsEnd ==
    ASSUME DelegationInv, NEW f \in 1 .. Len(frames), D!Live(f),
           NEW U \in SUBSET (1 .. Len(frames)), f \in U, frames[f].parent \notin U,
           \A g \in 2 .. Len(frames) : D!Live(g) /\ frames[g].parent \in U => g \in U,
           \A g \in U \ {f} : frames[g].parent \in U,
           \A g \in 2 .. Len(frames) :
               D!Live(g) /\ D!Active(g) = {} /\ frames[g].task = frames[f].task => g \in U,
           Runs(frames', Len(frames)),
           \A g \in 1 .. Len(frames) :
               SameRun(frames'[g], frames[g]) /\ frames'[g].rows = frames'[g].returned,
           \A g \in U : frames'[g].phase = "over" /\ frames'[g].pending = 0,
           \A g \in (1 .. Len(frames)) \ U :
               /\ frames'[g].phase = frames[g].phase /\ frames'[g].closed = frames[g].closed
               /\ frames'[g].pending =
                    IF g = frames[f].parent THEN frames[g].pending - 1 ELSE frames[g].pending,
           D!Restore(f)
    PROVE  DelegationInv'
<1> DEFINE n == Len(frames)
           p == frames[f].parent
<1>1. n \in Nat \ {0} /\ 1 .. n = {1} \cup 2 .. n /\ 2 .. n \subseteq 1 .. n BY DEF DelegationInv, Tree
<1>2. Len(frames') = n /\ DOMAIN frames' = 1 .. n /\ DOMAIN frames = 1 .. n
  BY <1>1, RunsSeq DEF DelegationInv, Tree
<1>3. \A g \in 1 .. n : D!Live(g)' <=> g \notin U /\ D!Live(g) BY DEF D!Live
<1>4. \A g \in 1 .. n : D!Active(g)' = D!Active(g) \ U
  <2> SUFFICES ASSUME NEW g \in 1 .. n PROVE D!Active(g)' = D!Active(g) \ U OBVIOUS
  <2>1. D!Active(g)' = {h \in 1 .. n : frames'[h].parent = g /\ D!Live(h)'} BY <1>2 DEF D!Active
  <2>2. D!Active(g) = {h \in 1 .. n : frames[h].parent = g /\ D!Live(h)} BY <1>2 DEF D!Active
  <2>3. \A h \in 1 .. n : frames'[h].parent = frames[h].parent BY DEF SameRun
  <2> QED BY <1>3, <2>1, <2>2, <2>3
<1>5. \A g \in 1 .. n : g \notin U => \A h \in D!Active(g) \cap U : h = f /\ g = p
  <2>1. \A g \in 1 .. n : \A h \in D!Active(g) : h \in 1 .. n /\ frames[h].parent = g
    BY <1>2 DEF D!Active
  <2> QED BY <2>1
<1>6. p \in 1 .. n => p \notin U /\ f \in D!Active(p) /\ frames[p].phase = "act"
  <2>1. p \in 1 .. n => f \in D!Active(p) BY <1>2 DEF D!Active
  <2>2. p \in 1 .. n => f # 1 BY DEF DelegationInv, Tree
  <2> QED BY <1>1, <2>1, <2>2 DEF DelegationInv, Waits
<1>7. \A g \in 1 .. n : frames'[g].pending \in Nat
                        /\ (frames'[g].phase = "act" => Cardinality(D!Active(g)') <= frames'[g].pending)
  <2> SUFFICES ASSUME NEW g \in 1 .. n
               PROVE  frames'[g].pending \in Nat
                      /\ (frames'[g].phase = "act" => Cardinality(D!Active(g)') <= frames'[g].pending)
    OBVIOUS
  <2>1. /\ IsFiniteSet(D!Active(g)) /\ Cardinality(D!Active(g)) \in Nat
        /\ frames[g].pending \in Nat
        /\ frames[g].phase = "act" => Cardinality(D!Active(g)) <= frames[g].pending
    BY ActiveFinite DEF DelegationInv, Tree, Waits
  <2>2. CASE g \in U
    <3>1. frames'[g].phase # "act" BY <2>2
    <3> QED BY <2>2, <3>1
  <2>3. CASE g \notin U /\ g # p
    <3>1. D!Active(g)' \subseteq D!Active(g) BY <1>4
    <3>2. Cardinality(D!Active(g)') <= Cardinality(D!Active(g)) /\ Cardinality(D!Active(g)') \in Nat
      BY <2>1, <3>1, FS_Subset, FS_CardinalityType
    <3> QED BY <2>1, <2>3, <3>2
  <2>4. CASE g \notin U /\ g = p
    <3>1. frames[g].phase = "act" /\ f \in D!Active(g) BY <1>6, <2>4
    <3>2. D!Active(g)' \subseteq D!Active(g) \ {f} BY <1>4
    <3>3. Cardinality(D!Active(g) \ {f}) = Cardinality(D!Active(g)) - 1 /\ IsFiniteSet(D!Active(g) \ {f})
      BY <2>1, <3>1, FS_RemoveElement
    <3>4. Cardinality(D!Active(g)') <= Cardinality(D!Active(g) \ {f})
          /\ Cardinality(D!Active(g)') \in Nat
      BY <3>2, <3>3, FS_Subset, FS_CardinalityType
    <3> QED BY <2>1, <2>4, <3>1, <3>3, <3>4
  <2> QED BY <2>2, <2>3, <2>4
<1>8. DOMAIN label' = 1 .. n
      /\ \A t \in 1 .. n : label'[t] = IF t = frames[f].task THEN frames[f].outer ELSE label[t]
  BY DEF D!Restore, DelegationInv, Tree
<1>9. Tree' BY <1>7, <1>8, TreeKept DEF DelegationInv
<1>10. Waits'
  <2>1. \A g \in 2 .. n : D!Live(g)' => frames'[frames'[g].parent].phase = "act"
    <3> SUFFICES ASSUME NEW g \in 2 .. n, D!Live(g)' PROVE frames'[frames'[g].parent].phase = "act"
      OBVIOUS
    <3>1. g \notin U /\ D!Live(g) BY <1>1, <1>3
    <3>2. frames'[g].parent = frames[g].parent BY <1>1 DEF SameRun
    <3>3. frames[g].parent \in (1 .. n) \ U BY <1>1, <3>1 DEF DelegationInv, Tree
    <3> QED BY <3>1, <3>2, <3>3 DEF DelegationInv, Waits
  <2>2. ASSUME NEW g \in 2 .. n, NEW h \in 2 .. n, D!Live(g)', D!Live(h)',
               frames'[g].parent = frames'[h].parent, frames'[g].parent # 1
        PROVE  g = h
    <3>1. D!Live(g) /\ D!Live(h) BY <1>1, <1>3, <2>2
    <3>2. frames'[g].parent = frames[g].parent /\ frames'[h].parent = frames[h].parent
      BY <1>1 DEF SameRun
    <3>3. \A a, b \in 2 .. n :
              D!Live(a) /\ D!Live(b) /\ frames[a].parent = frames[b].parent /\ frames[a].parent # 1 => a = b
      BY DEF DelegationInv, Waits
    <3> HIDE DEF n
    <3> QED BY <2>2, <3>1, <3>2, <3>3
  <2> QED BY <1>2, <1>7, <2>1, <2>2 DEF Waits
<1>11. Labelled'
  <2>1. label'[1] = 1
    <3>1. f # 1 => frames[f].task # 1 BY <1>1 DEF DelegationInv, Tree
    <3>2. f = 1 => frames[f].outer = 1 BY DEF DelegationInv, Tree
    <3>3. label[1] = 1 BY DEF DelegationInv, Labelled
    <3> QED BY <1>1, <1>8, <3>1, <3>2, <3>3 DEF DelegationInv, Tree
  <2>2. ASSUME NEW g \in 2 .. n, D!Live(g)', D!Active(g)' = {} PROVE label'[frames'[g].task] = g
    <3>1. g \notin U /\ D!Live(g) /\ frames'[g].task = frames[g].task /\ frames[g].task \in 2 .. n
      BY <1>1, <1>3, <2>2 DEF SameRun, DelegationInv, Tree
    <3>2. D!Active(g) = {} \/ g = p BY <1>1, <1>4, <1>5, <2>2, <3>1
    <3>3. CASE frames[g].task # frames[f].task
      <4>1. g # p
        <5>1. g = p => f \in 2 .. n BY <1>1 DEF DelegationInv, Tree
        <5>2. g # 1 BY <1>1
        <5> QED BY <3>3, <5>1, <5>2 DEF DelegationInv, Tree
      <4>2. label[frames[g].task] = g BY <3>1, <3>2, <4>1 DEF DelegationInv, Labelled
      <4> QED BY <1>1, <1>8, <3>1, <3>3, <4>2
    <3>4. CASE frames[g].task = frames[f].task
      <4>1. g = p BY <3>1, <3>2, <3>4
      <4>2. f \in 2 .. n BY <1>1, <3>1, <3>4 DEF DelegationInv, Tree
      <4>3. frames[f].outer = p BY <4>2 DEF DelegationInv, Tree
      <4> QED BY <1>1, <1>8, <3>1, <3>4, <4>1, <4>3
    <3> QED BY <3>3, <3>4
  <2> QED BY <1>2, <2>1, <2>2 DEF Labelled
<1>12. Logged'
  <2>1. \A g \in 1 .. n : frames'[g].closed # "none" => ~D!Live(g)'
    <3> SUFFICES ASSUME NEW g \in 1 .. n, frames'[g].closed # "none" PROVE ~D!Live(g)' OBVIOUS
    <3>1. CASE g \in U BY <1>3, <3>1
    <3>2. CASE g \notin U BY <1>3, <3>2 DEF DelegationInv, Logged
    <3> QED BY <3>1, <3>2
  <2> QED BY <1>2, <2>1 DEF Logged
<1>13. Narrowed' BY <1>2, NarrowedKept DEF DelegationInv
<1> QED BY <1>9, <1>10, <1>11, <1>12, <1>13 DEF DelegationInv
\* A run that waits for nothing ends, after a change that is no change to the others.
LEMMA OneEnds ==
    ASSUME DelegationInv, NEW f \in 1 .. Len(frames), D!Live(f),
           frames[f].phase # "act" \/ D!Active(f) = {},
           NEW fs, Runs(fs, Len(frames)),
           \A g \in 1 .. Len(frames) :
               /\ SameRun(fs[g], frames[g]) /\ fs[g].rows = fs[g].returned
               /\ fs[g].phase = frames[g].phase /\ fs[g].closed = frames[g].closed
               /\ fs[g].pending = frames[g].pending,
           NEW how, frames' = D!Leave(fs, f, how), D!Restore(f)
    PROVE  DelegationInv'
<1> DEFINE n == Len(frames)
           U == {f}
<1>1. n \in Nat \ {0} /\ DOMAIN frames = 1 .. n BY RunsSeq DEF DelegationInv, Tree
<1>2. \A g \in 1 .. n : frames[g].parent \in 0 .. g - 1
  <2>1. 1 .. n = {1} \cup 2 .. n BY <1>1
  <2> QED BY <2>1 DEF DelegationInv, Tree
<1>3. fs[f].parent = frames[f].parent BY DEF SameRun
<1>4. /\ Runs(frames', n)
      /\ frames'[f].phase = "over" /\ frames'[f].closed = how /\ frames'[f].pending = 0
      /\ \A g \in 1 .. n :
           /\ SameRun(frames'[g], fs[g])
           /\ frames'[g].rows = fs[g].rows /\ frames'[g].returned = fs[g].returned
           /\ g # f => /\ frames'[g].phase = fs[g].phase /\ frames'[g].closed = fs[g].closed
                       /\ frames'[g].pending =
                            IF g = frames[f].parent THEN fs[g].pending - 1 ELSE fs[g].pending
  BY <1>1, <1>2, <1>3, LeftRuns
<1>5. D!Active(f) = {} /\ label[frames[f].task] = f BY OwnLabel
<1>6. \A g \in 2 .. n : D!Live(g) /\ frames[g].parent \in U => g \in U
  <2>1. \A g \in 2 .. n : g \in DOMAIN frames BY <1>1
  <2> QED BY <1>5, <2>1 DEF D!Active
<1>7. \A g \in 2 .. n : D!Live(g) /\ D!Active(g) = {} /\ frames[g].task = frames[f].task => g \in U
  BY <1>5 DEF DelegationInv, Labelled
<1>8. \A g \in 1 .. n : SameRun(frames'[g], frames[g]) /\ frames'[g].rows = frames'[g].returned
  BY <1>4 DEF SameRun
<1>9. \A g \in (1 .. n) \ U :
        /\ frames'[g].phase = frames[g].phase /\ frames'[g].closed = frames[g].closed
        /\ frames'[g].pending =
             IF g = frames[f].parent THEN frames[g].pending - 1 ELSE frames[g].pending
  BY <1>4
<1>10. frames[f].parent \notin U
  <2>1. frames[f].parent # f BY <1>1, <1>2
  <2> QED BY <2>1
<1>11. \A g \in U : frames'[g].phase = "over" /\ frames'[g].pending = 0 BY <1>4
<1>12. U \in SUBSET (1 .. n) /\ f \in U /\ \A g \in U \ {f} : frames[g].parent \in U OBVIOUS
<1>13. Runs(frames', n) BY <1>4
<1> HIDE DEF U
<1> QED BY <1>6, <1>7, <1>8, <1>9, <1>10, <1>11, <1>12, <1>13, RunsEnd

\* A response is recorded under the label of the run that got it.
LEMMA RecordedRuns ==
    ASSUME DelegationInv, NEW f \in 1 .. Len(frames), D!Live(f), frames[f].phase # "act",
           NEW fs, fs = D!Recorded(f)
    PROVE  /\ Runs(fs, Len(frames))
           /\ \A g \in 1 .. Len(frames) :
                /\ SameRun(fs[g], frames[g]) /\ fs[g].rows = fs[g].returned
                /\ fs[g].phase = frames[g].phase /\ fs[g].closed = frames[g].closed
                /\ fs[g].pending = frames[g].pending
<1> DEFINE n == Len(frames)
           once == [frames EXCEPT ![f].rows = @ + 1]
           twice == [once EXCEPT ![f].returned = @ + 1]
<1>1. fs = twice BY OwnLabel DEF D!Recorded
<1>2. Runs(frames, n) /\ \A g \in 1 .. n : frames[g].rows = frames[g].returned
  BY DEF DelegationInv, Tree, Logged
<1>3. /\ once = [g \in 1 .. n |-> once[g]]
      /\ \A g \in 1 .. n : g # f => once[g] = frames[g]
      /\ once[f] = [frames[f] EXCEPT !.rows = @ + 1]
  BY <1>2 DEF Runs
<1> HIDE DEF once
<1>4. /\ twice = [g \in 1 .. n |-> twice[g]]
      /\ \A g \in 1 .. n : g # f => twice[g] = frames[g]
      /\ twice[f] = [once[f] EXCEPT !.returned = @ + 1]
  BY <1>3
<1> HIDE DEF twice
<1> DEFINE run == twice[f]
<1>5. run = [[frames[f] EXCEPT !.rows = @ + 1] EXCEPT !.returned = @ + 1] BY <1>3, <1>4
<1> HIDE DEF run
<1>6. DOMAIN frames[f] = Fields BY <1>2 DEF Runs
<1>7. /\ DOMAIN run = Fields
      /\ run.rows = frames[f].rows + 1 /\ run.returned = frames[f].returned + 1
      /\ run.phase = frames[f].phase /\ run.closed = frames[f].closed
      /\ run.pending = frames[f].pending
  BY <1>5, <1>6 DEF Fields
<1>8. SameRun(run, frames[f]) BY <1>5, <1>6 DEF Fields, SameRun
<1>9. run.rows = run.returned BY <1>2, <1>7
<1>10. \A g \in 1 .. n : SameRun(twice[g], frames[g]) BY <1>4, <1>8 DEF SameRun, run
<1>11. Runs(twice, n) BY <1>2, <1>4, <1>7 DEF Runs, run
<1> QED BY <1>1, <1>2, <1>4, <1>7, <1>9, <1>10, <1>11 DEF run

LEMMA AnswersInv ==
    ASSUME DelegationInv, NEW f \in 1 .. Len(frames), D!Answers(f) PROVE DelegationInv'
<1> DEFINE fs == D!Recorded(f)
<1>1. D!Live(f) /\ frames[f].phase # "act" BY DEF D!Answers, D!Live
<1>2. /\ Runs(fs, Len(frames))
      /\ \A g \in 1 .. Len(frames) :
           /\ SameRun(fs[g], frames[g]) /\ fs[g].rows = fs[g].returned
           /\ fs[g].phase = frames[g].phase /\ fs[g].closed = frames[g].closed
           /\ fs[g].pending = frames[g].pending
  BY <1>1, RecordedRuns
<1>3. frames' = D!Leave(fs, f, D!Status(frames, f)) /\ D!Restore(f) BY DEF D!Answers
<1> HIDE DEF fs
<1> QED BY <1>1, <1>2, <1>3, OneEnds

LEMMA RequestFailsInv ==
    ASSUME DelegationInv, NEW f \in 1 .. Len(frames), D!RequestFails(f) PROVE DelegationInv'
<1>1. D!Live(f) /\ frames[f].phase # "act" BY DEF D!RequestFails, D!Live
<1>2. /\ Runs(frames, Len(frames))
      /\ \A g \in 1 .. Len(frames) : SameRun(frames[g], frames[g]) /\ frames[g].rows = frames[g].returned
  BY DEF DelegationInv, Tree, Logged, SameRun
<1>3. frames' = D!Leave(frames, f, "none") /\ D!Restore(f) BY DEF D!RequestFails
<1> QED BY <1>1, <1>2, <1>3, OneEnds
-----------------------------------------------------------------------------
(* Runs that go on *)

LEMMA RunGoesOn ==
    ASSUME DelegationInv, NEW f \in 1 .. Len(frames), D!Live(f),
           Runs(frames', Len(frames)),
           \A g \in 1 .. Len(frames) :
               /\ SameRun(frames'[g], frames[g]) /\ frames'[g].rows = frames'[g].returned
               /\ frames'[g].closed = frames[g].closed
               /\ g # f => frames'[g].phase = frames[g].phase /\ frames'[g].pending = frames[g].pending,
           frames'[f].phase # "over", frames'[f].pending \in Nat,
           \/ D!Active(f) = {}
           \/ frames'[f].phase = "act" /\ Cardinality(D!Active(f)) <= frames'[f].pending,
           UNCHANGED label
    PROVE  DelegationInv'
<1> DEFINE n == Len(frames)
<1>1. n \in Nat \ {0} /\ 1 .. n = {1} \cup 2 .. n /\ 2 .. n \subseteq 1 .. n BY DEF DelegationInv, Tree
<1>2. Len(frames') = n /\ DOMAIN frames' = 1 .. n /\ DOMAIN frames = 1 .. n
  BY <1>1, RunsSeq DEF DelegationInv, Tree
<1>3. \A g \in 1 .. n : D!Live(g)' <=> D!Live(g) BY DEF D!Live
<1>4. \A g \in 1 .. n : D!Active(g)' = D!Active(g)
  <2> SUFFICES ASSUME NEW g \in 1 .. n PROVE D!Active(g)' = D!Active(g) OBVIOUS
  <2>1. D!Active(g)' = {h \in 1 .. n : frames'[h].parent = g /\ D!Live(h)'} BY <1>2 DEF D!Active
  <2>2. D!Active(g) = {h \in 1 .. n : frames[h].parent = g /\ D!Live(h)} BY <1>2 DEF D!Active
  <2>3. \A h \in 1 .. n : frames'[h].parent = frames[h].parent BY DEF SameRun
  <2> QED BY <1>3, <2>1, <2>2, <2>3
<1>5. \A g \in 1 .. n : /\ frames'[g].parent = frames[g].parent /\ frames'[g].task = frames[g].task
                        /\ frames'[g].outer = frames[g].outer
  BY DEF SameRun
<1>6. Tree'
  <2>1. \A g \in 1 .. n : frames'[g].pending \in Nat BY DEF DelegationInv, Tree
  <2>2. DOMAIN label' = 1 .. n BY DEF DelegationInv, Tree
  <2> QED BY <2>1, <2>2, TreeKept DEF DelegationInv
<1>7. Waits'
  <2>1. ASSUME NEW g \in 2 .. n, D!Live(g)' PROVE frames'[frames'[g].parent].phase = "act"
    <3>0. frames[g].parent \in 1 .. g - 1 BY DEF DelegationInv, Tree
    <3>1. D!Live(g) /\ frames[g].parent \in 1 .. n BY <1>1, <1>3, <2>1, <3>0
    <3>2. frames[frames[g].parent].phase = "act" BY <3>1 DEF DelegationInv, Waits
    <3>3. g \in D!Active(frames[g].parent) BY <1>1, <1>2, <3>1 DEF D!Active
    <3>4. frames[g].parent = f => frames'[f].phase = "act" BY <3>3
    <3>5. frames'[g].parent = frames[g].parent BY <1>1, <1>5
    <3> QED BY <3>1, <3>2, <3>4, <3>5
  <2>2. ASSUME NEW g \in 1 .. n, frames'[g].phase = "act"
        PROVE  Cardinality(D!Active(g)') <= frames'[g].pending
    <3>1. CASE g # f BY <1>4, <2>2, <3>1 DEF DelegationInv, Waits
    <3>2. CASE g = f /\ D!Active(f) = {}
      <4>1. Cardinality(D!Active(f)') = 0 BY <1>4, <3>2, FS_EmptySet
      <4> QED BY <3>2, <4>1
    <3>3. CASE g = f /\ D!Active(f) # {} BY <1>4, <3>3
    <3> QED BY <3>1, <3>2, <3>3
  <2>3. ASSUME NEW g \in 2 .. n, NEW h \in 2 .. n, D!Live(g)', D!Live(h)',
               frames'[g].parent = frames'[h].parent, frames'[g].parent # 1
        PROVE  g = h
    <3>1. D!Live(g) /\ D!Live(h) BY <1>1, <1>3, <2>3
    <3>2. frames'[g].parent = frames[g].parent /\ frames'[h].parent = frames[h].parent BY <1>1, <1>5
    <3>3. \A a, b \in 2 .. n :
              D!Live(a) /\ D!Live(b) /\ frames[a].parent = frames[b].parent /\ frames[a].parent # 1 => a = b
      BY DEF DelegationInv, Waits
    <3> HIDE DEF n
    <3> QED BY <2>3, <3>1, <3>2, <3>3
  <2> QED BY <1>2, <2>1, <2>2, <2>3 DEF Waits
<1>8. Labelled' BY <1>1, <1>2, <1>3, <1>4, <1>5 DEF DelegationInv, Labelled
<1>9. Logged' BY <1>2, <1>3 DEF DelegationInv, Logged
<1>10. Narrowed' BY <1>2, NarrowedKept DEF DelegationInv
<1> QED BY <1>6, <1>7, <1>8, <1>9, <1>10 DEF DelegationInv

LEMMA CallsToolsInv ==
    ASSUME DelegationInv, NEW f \in 1 .. Len(frames), D!CallsTools(f) PROVE DelegationInv'
<1> DEFINE n == Len(frames)
           fs == D!Recorded(f)
           idle == FALSE
<1>1. D!Live(f) /\ frames[f].phase # "act" /\ UNCHANGED label BY DEF D!CallsTools, D!Live
<1>2. /\ Runs(fs, n)
      /\ \A g \in 1 .. n :
           /\ SameRun(fs[g], frames[g]) /\ fs[g].rows = fs[g].returned
           /\ fs[g].phase = frames[g].phase /\ fs[g].closed = frames[g].closed
           /\ fs[g].pending = frames[g].pending
  BY <1>1, RecordedRuns
<1> DEFINE total == IF f = 1 THEN TurnBatch ELSE MaxBatch
<1>3. PICK b \in 1 .. total :
        frames' = [fs EXCEPT ![f].phase = "act", ![f].batch = b, ![f].pending = b, ![f].ran = idle]
  BY DEF D!CallsTools
<1> HIDE DEF fs, idle
<1> DEFINE run == [fs[f] EXCEPT !.phase = "act", !.batch = b, !.pending = b, !.ran = idle]
<1>4. frames' = [fs EXCEPT ![f] = run] BY <1>3
<1>5. DOMAIN fs[f] = Fields BY <1>2 DEF Runs
<1>6. /\ DOMAIN run = Fields
      /\ run.rows = fs[f].rows /\ run.returned = fs[f].returned /\ run.closed = fs[f].closed
      /\ run.phase = "act" /\ run.pending = b
  BY <1>5 DEF Fields
<1>7. SameRun(run, fs[f]) BY <1>5 DEF Fields, SameRun
<1> HIDE DEF run
<1>8. /\ frames' = [g \in 1 .. n |-> frames'[g]]
      /\ \A g \in 1 .. n : g # f => frames'[g] = fs[g]
      /\ frames'[f] = run
  BY <1>2, <1>4 DEF Runs
<1>9. Runs(frames', n) BY <1>2, <1>6, <1>8 DEF Runs
<1>10. \A g \in 1 .. n : SameRun(frames'[g], frames[g]) BY <1>2, <1>7, <1>8 DEF SameRun
<1>11. \A g \in 1 .. n :
         /\ frames'[g].rows = frames'[g].returned /\ frames'[g].closed = frames[g].closed
         /\ g # f => frames'[g].phase = frames[g].phase /\ frames'[g].pending = frames[g].pending
  BY <1>2, <1>6, <1>8
<1>12. frames'[f].phase # "over" /\ frames'[f].pending \in Nat BY <1>6, <1>8
<1>13. D!Active(f) = {} BY <1>1, OwnLabel
<1> QED BY <1>1, <1>9, <1>10, <1>11, <1>12, <1>13, RunGoesOn

LEMMA RunsToolInv ==
    ASSUME DelegationInv, NEW f \in 1 .. Len(frames), D!RunsTool(f) PROVE DelegationInv'
<1> DEFINE n == Len(frames)
<1>1. /\ D!Live(f) /\ frames[f].phase = "act" /\ UNCHANGED label
      /\ frames[f].pending > Cardinality(D!Active(f))
  <2>1. D!MayStart(f) /\ UNCHANGED label BY Zenon DEF D!RunsTool
  <2>2. frames[f].phase = "act" /\ frames[f].pending > Cardinality(D!Active(f))
    BY <2>1, SameCardinality, Zenon DEF D!MayStart
  <2>3. D!Live(f) BY <2>2 DEF D!Live
  <2> QED BY <2>1, <2>2, <2>3
<1>2. Runs(frames, n) /\ \A g \in 1 .. n : frames[g].rows = frames[g].returned
  BY DEF DelegationInv, Tree, Logged
<1>3. PICK refused \in BOOLEAN :
        frames' = [frames EXCEPT ![f].pending = @ - 1, ![f].ran = @ \/ ~refused]
  BY DEF D!RunsTool
<1> DEFINE ran == frames[f].ran \/ ~refused
           run == [frames[f] EXCEPT !.pending = @ - 1, !.ran = ran]
<1>4. frames' = [frames EXCEPT ![f] = run] BY <1>2, <1>3 DEF Runs
<1>5. DOMAIN frames[f] = Fields BY <1>2 DEF Runs
<1> HIDE DEF ran
<1>6. /\ DOMAIN run = Fields
      /\ run.rows = frames[f].rows /\ run.returned = frames[f].returned
      /\ run.closed = frames[f].closed /\ run.phase = frames[f].phase
      /\ run.pending = frames[f].pending - 1
  BY <1>5 DEF Fields
<1>7. SameRun(run, frames[f]) BY <1>5 DEF Fields, SameRun
<1> HIDE DEF run
<1>8. /\ frames' = [g \in 1 .. n |-> frames'[g]]
      /\ \A g \in 1 .. n : g # f => frames'[g] = frames[g]
      /\ frames'[f] = run
  BY <1>2, <1>4 DEF Runs
<1>9. Runs(frames', n) BY <1>2, <1>6, <1>8 DEF Runs
<1>10. \A g \in 1 .. n : SameRun(frames'[g], frames[g]) BY <1>7, <1>8 DEF SameRun
<1>11. \A g \in 1 .. n :
         /\ frames'[g].rows = frames'[g].returned /\ frames'[g].closed = frames[g].closed
         /\ g # f => frames'[g].phase = frames[g].phase /\ frames'[g].pending = frames[g].pending
  BY <1>2, <1>6, <1>8
<1>12. /\ frames'[f].phase = "act" /\ frames'[f].pending \in Nat
       /\ Cardinality(D!Active(f)) <= frames'[f].pending
  <2>1. frames[f].pending \in Nat /\ Cardinality(D!Active(f)) \in Nat
    BY ActiveFinite DEF DelegationInv, Tree
  <2>2. frames'[f].pending = frames[f].pending - 1 /\ frames'[f].phase = "act" BY <1>1, <1>6, <1>8
  <2> QED BY <1>1, <2>1, <2>2
<1> QED BY <1>1, <1>9, <1>10, <1>11, <1>12, RunGoesOn
LEMMA BatchDoneInv ==
    ASSUME DelegationInv, NEW f \in 1 .. Len(frames), D!BatchDone(f) PROVE DelegationInv'
<1> DEFINE n == Len(frames)
           refused == IF frames[f].ran THEN 0 ELSE frames[f].refused + 1
           counted == [frames EXCEPT ![f].calls = @ + frames[f].batch, ![f].refused = refused]
           limit == IF f = 1 THEN TurnSteps ELSE MaxSteps
           over == frames[f].step = limit
           next == IF over THEN "final" ELSE "think"
           step == IF over THEN counted[f].step ELSE counted[f].step + 1
           on == [counted EXCEPT ![f].phase = next,
                                 ![f].step = IF over THEN @ ELSE @ + 1]
<1>1. /\ frames[f].phase = "act" /\ frames[f].pending = 0
      /\ IF refused = 2
         THEN frames' = D!Leave(counted, f, D!Status(counted, f)) /\ D!Restore(f)
         ELSE frames' = on /\ UNCHANGED label
  BY DEF D!BatchDone
<1>2. Runs(frames, n) /\ \A g \in 1 .. n : frames[g].rows = frames[g].returned
  BY DEF DelegationInv, Tree, Logged
<1>3. D!Live(f) /\ D!Active(f) = {}
  <2>1. Cardinality(D!Active(f)) <= 0 /\ IsFiniteSet(D!Active(f)) /\ Cardinality(D!Active(f)) \in Nat
    BY <1>1, ActiveFinite DEF DelegationInv, Waits
  <2>2. D!Active(f) = {} BY <2>1, FS_EmptySet
  <2> QED BY <1>1, <2>2 DEF D!Live
<1> DEFINE run == [frames[f] EXCEPT !.calls = @ + frames[f].batch, !.refused = refused]
<1> HIDE DEF refused
<1>4. counted = [frames EXCEPT ![f] = run] BY <1>2 DEF Runs
<1>5. DOMAIN frames[f] = Fields BY <1>2 DEF Runs
<1>6. /\ DOMAIN run = Fields
      /\ run.rows = frames[f].rows /\ run.returned = frames[f].returned
      /\ run.closed = frames[f].closed /\ run.phase = frames[f].phase
      /\ run.pending = frames[f].pending
  BY <1>5 DEF Fields
<1>7. SameRun(run, frames[f]) BY <1>5 DEF Fields, SameRun
<1> HIDE DEF run
<1>8. /\ counted = [g \in 1 .. n |-> counted[g]]
      /\ \A g \in 1 .. n : g # f => counted[g] = frames[g]
      /\ counted[f] = run
  BY <1>2, <1>4 DEF Runs
<1> HIDE DEF counted
<1>9. Runs(counted, n) BY <1>2, <1>6, <1>8 DEF Runs
<1>10. \A g \in 1 .. n : SameRun(counted[g], frames[g]) BY <1>7, <1>8 DEF SameRun
<1>11. \A g \in 1 .. n :
         /\ counted[g].rows = counted[g].returned /\ counted[g].closed = frames[g].closed
         /\ counted[g].phase = frames[g].phase /\ counted[g].pending = frames[g].pending
  BY <1>2, <1>6, <1>8
<1>12. CASE refused = 2
  <2>1. frames' = D!Leave(counted, f, D!Status(counted, f)) /\ D!Restore(f) BY <1>1, <1>12
  <2> QED BY <1>3, <1>9, <1>10, <1>11, <2>1, OneEnds
<1>13. CASE refused # 2
  <2>1. frames' = on /\ UNCHANGED label BY <1>1, <1>13
  <2> HIDE DEF over, next
  <2> DEFINE gone == [counted[f] EXCEPT !.phase = next, !.step = step]
  <2>2. on = [counted EXCEPT ![f] = gone] BY <1>9 DEF Runs
  <2>3. DOMAIN counted[f] = Fields BY <1>9 DEF Runs
  <2> HIDE DEF step
  <2>4. /\ DOMAIN gone = Fields
        /\ gone.rows = counted[f].rows /\ gone.returned = counted[f].returned
        /\ gone.closed = counted[f].closed /\ gone.phase = next
        /\ gone.pending = counted[f].pending
    BY <2>3 DEF Fields
  <2>5. SameRun(gone, counted[f]) BY <2>3 DEF Fields, SameRun
  <2> HIDE DEF gone
  <2>6. /\ frames' = [g \in 1 .. n |-> frames'[g]]
        /\ \A g \in 1 .. n : g # f => frames'[g] = counted[g]
        /\ frames'[f] = gone
    BY <1>8, <2>1, <2>2
  <2>7. Runs(frames', n) BY <1>9, <2>4, <2>6 DEF Runs
  <2>8. \A g \in 1 .. n : SameRun(frames'[g], frames[g]) BY <1>10, <2>5, <2>6 DEF SameRun
  <2>9. \A g \in 1 .. n :
          /\ frames'[g].rows = frames'[g].returned /\ frames'[g].closed = frames[g].closed
          /\ g # f => frames'[g].phase = frames[g].phase /\ frames'[g].pending = frames[g].pending
    BY <1>11, <2>4, <2>6
  <2>10. frames'[f].phase # "over" /\ frames'[f].pending \in Nat
    BY <1>1, <1>11, <2>4, <2>6 DEF next
  <2> QED BY <1>3, <2>1, <2>7, <2>8, <2>9, <2>10, RunGoesOn
<1> QED BY <1>12, <1>13
-----------------------------------------------------------------------------
(* Deadlines *)

LEMMA StoppedRuns ==
    ASSUME Tree, NEW f \in 1 .. Len(frames), NEW fs, fs = D!Stopped(frames, f)
    PROVE  /\ Runs(fs, Len(frames))
           /\ \A g \in 1 .. Len(frames) :
                /\ SameRun(fs[g], frames[g])
                /\ fs[g].rows = frames[g].rows /\ fs[g].returned = frames[g].returned
                /\ fs[g].closed = frames[g].closed
                /\ g \in D!Under(f) => fs[g].phase = "over" /\ fs[g].pending = 0
                /\ g \notin D!Under(f) => fs[g] = frames[g]
<1> DEFINE n == Len(frames)
           U == D!Under(f)
<1>1. DOMAIN frames = 1 .. n /\ Runs(frames, n) BY RunsSeq DEF Tree
<1>2. fs = [g \in 1 .. n |-> IF g \in U THEN D!Ended(frames[g], frames[g].closed) ELSE frames[g]]
  BY <1>1 DEF D!Stopped
<1> HIDE DEF U
<1>3. ASSUME NEW g \in 1 .. n
      PROVE  /\ DOMAIN fs[g] = Fields /\ SameRun(fs[g], frames[g])
             /\ fs[g].rows = frames[g].rows /\ fs[g].returned = frames[g].returned
             /\ fs[g].closed = frames[g].closed
             /\ g \in U => fs[g].phase = "over" /\ fs[g].pending = 0
             /\ g \notin U => fs[g] = frames[g]
  <2> DEFINE run == frames[g]
             ended == D!Ended(run, run.closed)
  <2>1. DOMAIN run = Fields BY <1>1 DEF Runs
  <2>2. fs[g] = IF g \in U THEN ended ELSE run BY <1>2
  <2> HIDE DEF run
  <2>3. /\ DOMAIN ended = Fields /\ SameRun(ended, run)
        /\ ended.phase = "over" /\ ended.closed = run.closed /\ ended.pending = 0
        /\ ended.rows = run.rows /\ ended.returned = run.returned
    BY <2>1, EndedRun
  <2>4. SameRun(run, run) BY DEF SameRun
  <2> HIDE DEF ended
  <2> QED BY <2>1, <2>2, <2>3, <2>4 DEF run
<1>4. fs = [g \in 1 .. n |-> fs[g]] BY <1>2
<1>5. Runs(fs, n) BY <1>3, <1>4 DEF Runs
<1> QED BY <1>3, <1>5 DEF U

\* The calls of a delegation of the turn's, and theirs, all run in its task.
LEMMA TaskUnder ==
    ASSUME Tree, NEW f \in 2 .. Len(frames), frames[f].parent = 1,
           NEW g \in 2 .. Len(frames), frames[g].task = f
    PROVE  g \in D!Under(f)
<1> DEFINE n == Len(frames)
           T == {h \in 2 .. n : frames[h].task = f /\ h \notin D!Under(f)}
<1>1. n \in Nat /\ 2 .. n \subseteq 1 .. n BY DEF Tree
<1>2. SUFFICES ASSUME T # {} PROVE FALSE OBVIOUS
<1>3. T \in SUBSET Nat BY <1>1
<1>4. PICK h \in T : \A k \in T : h <= k
  <2> HIDE DEF T
  <2> QED BY <1>2, <1>3, LeastNatural
<1>5. /\ frames[h].parent \in 1 .. h - 1
      /\ f = IF frames[h].parent = 1 THEN h ELSE frames[frames[h].parent].task
  BY DEF Tree
<1>6. h = f \/ frames[h].parent \in D!Under(f)
  <2>1. CASE frames[h].parent = 1 BY <1>5, <2>1
  <2>2. CASE frames[h].parent # 1
    <3>1. frames[h].parent \in 2 .. n BY <1>1, <1>5, <2>2
    <3>2. ~ h <= frames[h].parent BY <1>1, <1>5
    <3> QED BY <1>4, <1>5, <2>2, <3>1, <3>2
  <2> QED BY <2>1, <2>2
<1> QED BY <1>1, <1>6, UnderParent

LEMMA TimesOutInv ==
    ASSUME DelegationInv, NEW f \in 1 .. Len(frames), D!TimesOut(f) PROVE DelegationInv'
<1> DEFINE n == Len(frames)
           U == D!Under(f)
           fs == D!Stopped(frames, f)
<1>1. frames[f].parent = 1 /\ D!Live(f) /\ frames' = D!Leave(fs, f, "timeout") /\ D!Restore(f)
  BY DEF D!TimesOut
<1>2. n \in Nat \ {0} /\ 2 .. n \subseteq 1 .. n /\ f \in 2 .. n
  <2>1. f # 1 BY <1>1 DEF DelegationInv, Tree
  <2> QED BY <2>1 DEF DelegationInv, Tree
<1>3. U \subseteq 1 .. n /\ \A g \in 1 .. n : g \in U <=> (g = f \/ frames[g].parent \in U)
  BY UnderParent DEF DelegationInv
<1>4. /\ Runs(fs, n)
      /\ \A g \in 1 .. n :
           /\ SameRun(fs[g], frames[g])
           /\ fs[g].rows = frames[g].rows /\ fs[g].returned = frames[g].returned
           /\ fs[g].closed = frames[g].closed
           /\ g \in U => fs[g].phase = "over" /\ fs[g].pending = 0
           /\ g \notin U => fs[g] = frames[g]
  BY StoppedRuns DEF DelegationInv
<1> HIDE DEF U, fs
<1>5. fs[f].parent = 1 /\ fs[f].parent \in 0 .. f - 1 BY <1>1, <1>2, <1>4 DEF SameRun
<1>6. /\ Runs(frames', n)
      /\ frames'[f].phase = "over" /\ frames'[f].closed = "timeout" /\ frames'[f].pending = 0
      /\ \A g \in 1 .. n :
           /\ SameRun(frames'[g], fs[g])
           /\ frames'[g].rows = fs[g].rows /\ frames'[g].returned = fs[g].returned
           /\ g # f => /\ frames'[g].phase = fs[g].phase /\ frames'[g].closed = fs[g].closed
                       /\ frames'[g].pending = IF g = 1 THEN fs[g].pending - 1 ELSE fs[g].pending
  BY <1>1, <1>2, <1>4, <1>5, LeftRuns
<1>7. 1 \notin U /\ f \in U
  <2>1. f \in U BY <1>3
  <2>2. 1 \in U => 1 = f \/ 0 \in U BY <1>3 DEF DelegationInv, Tree
  <2>3. 0 \notin U BY <1>3
  <2> QED BY <1>2, <2>1, <2>2, <2>3
<1>8. \A g \in 2 .. n : frames[g].task = frames[f].task => g \in U
  <2>1. frames[f].task = f BY <1>1, <1>2 DEF DelegationInv, Tree
  <2> QED BY <1>1, <1>2, <2>1, TaskUnder DEF DelegationInv, U
<1>9. \A g \in 1 .. n : SameRun(frames'[g], frames[g]) BY <1>4, <1>6 DEF SameRun
<1>10. \A g \in 1 .. n : frames'[g].rows = frames'[g].returned BY <1>4, <1>6 DEF DelegationInv, Logged
<1>11. \A g \in U : frames'[g].phase = "over" /\ frames'[g].pending = 0
  <2> SUFFICES ASSUME NEW g \in U PROVE frames'[g].phase = "over" /\ frames'[g].pending = 0 OBVIOUS
  <2>1. g \in 1 .. n /\ g # 1 BY <1>3, <1>7
  <2> QED BY <1>4, <1>6, <2>1
<1>12. \A g \in (1 .. n) \ U :
         /\ frames'[g].phase = frames[g].phase /\ frames'[g].closed = frames[g].closed
         /\ frames'[g].pending = IF g = frames[f].parent THEN frames[g].pending - 1 ELSE frames[g].pending
  <2> SUFFICES ASSUME NEW g \in (1 .. n) \ U
               PROVE  /\ frames'[g].phase = frames[g].phase /\ frames'[g].closed = frames[g].closed
                      /\ frames'[g].pending =
                           IF g = frames[f].parent THEN frames[g].pending - 1 ELSE frames[g].pending
    OBVIOUS
  <2>1. fs[g] = frames[g] /\ g # f BY <1>4, <1>7
  <2> QED BY <1>1, <1>6, <2>1
<1>13. /\ \A g \in 2 .. n : D!Live(g) /\ frames[g].parent \in U => g \in U
       /\ \A g \in U \ {f} : frames[g].parent \in U
  BY <1>2, <1>3
<1>14. \A g \in 2 .. n :
         D!Live(g) /\ D!Active(g) = {} /\ frames[g].task = frames[f].task => g \in U
  BY <1>8
<1>15. Runs(frames', n) /\ U \in SUBSET (1 .. n) /\ f \in U /\ frames[f].parent \notin U
  BY <1>1, <1>3, <1>6, <1>7
<1>16. D!Live(f) /\ D!Restore(f) BY <1>1
<1> QED BY <1>9, <1>10, <1>11, <1>12, <1>13, <1>14, <1>15, <1>16, RunsEnd

LEMMA InterruptedInv == DelegationInv /\ D!Interrupted => DelegationInv'
<1> SUFFICES ASSUME DelegationInv, D!Interrupted PROVE DelegationInv' OBVIOUS
<1> DEFINE n == Len(frames)
           U == D!Under(1)
           fs == D!Stopped(frames, 1)
<1>1. frames' = fs /\ label' = [t \in 1 .. n |-> 1] BY DEF D!Interrupted, DelegationInv, Tree
<1>2. n \in Nat \ {0} /\ 2 .. n \subseteq 1 .. n /\ 1 \in 1 .. n BY DEF DelegationInv, Tree
<1>3. U \subseteq 1 .. n /\ \A g \in 1 .. n : g \in U <=> (g = 1 \/ frames[g].parent \in U)
  BY <1>2, UnderParent DEF DelegationInv
<1>4. /\ Runs(fs, n)
      /\ \A g \in 1 .. n :
           /\ SameRun(fs[g], frames[g])
           /\ fs[g].rows = frames[g].rows /\ fs[g].returned = frames[g].returned
           /\ g \in U => fs[g].phase = "over" /\ fs[g].pending = 0
  BY <1>2, StoppedRuns DEF DelegationInv
<1> HIDE DEF U, fs
<1>5. 1 .. n \subseteq U
  <2> DEFINE T == (1 .. n) \ U
  <2>1. SUFFICES ASSUME T # {} PROVE FALSE OBVIOUS
  <2>2. T \in SUBSET Nat BY <1>2
  <2>3. PICK h \in T : \A k \in T : h <= k
    <3> HIDE DEF T
    <3> QED BY <2>1, <2>2, LeastNatural
  <2>4. h \in 1 .. n /\ h \notin U /\ h # 1 /\ frames[h].parent \notin U BY <1>3
  <2>5. frames[h].parent \in 1 .. h - 1 BY <1>2, <2>4 DEF DelegationInv, Tree
  <2>6. frames[h].parent \in T /\ ~ h <= frames[h].parent BY <1>2, <2>4, <2>5
  <2> QED BY <2>3, <2>6
<1>6. Tree' /\ Len(frames') = n
  <2>1. \A g \in 1 .. n : frames'[g].pending \in Nat BY <1>1, <1>4, <1>5
  <2> QED BY <1>1, <1>4, <2>1, TreeKept DEF DelegationInv
<1>7. \A g \in 1 .. n : frames'[g].phase = "over" /\ ~D!Live(g)' BY <1>1, <1>4, <1>5 DEF D!Live
<1>8. Waits' BY <1>2, <1>6, <1>7 DEF Waits
<1>9. Labelled' BY <1>1, <1>2, <1>6, <1>7 DEF Labelled
<1>10. Logged' BY <1>1, <1>4, <1>6, <1>7 DEF DelegationInv, Logged
<1>11. Narrowed' BY <1>1, <1>4, <1>6, NarrowedKept DEF DelegationInv
<1> QED BY <1>6, <1>8, <1>9, <1>10, <1>11 DEF DelegationInv
-----------------------------------------------------------------------------
(* New runs *)

\* What the runs under it may rely on: a new run is the next of the log, in a task whose
\* label its parent owned.
LEMMA SpawnedRun ==
    ASSUME DelegationInv, NEW f \in 1 .. Len(frames), D!Spawns(f)
    PROVE  LET child == Len(frames) + 1
               task == IF f = 1 THEN child ELSE frames[f].task
           IN  /\ frames[f].phase = "act" /\ frames[f].pending > Cardinality(D!Active(f))
               /\ f # 1 => D!Active(f) = {} /\ label[task] = f
               /\ Runs(frames', child)
               /\ \A g \in 1 .. Len(frames) : frames'[g] = frames[g]
               /\ frames'[child].parent = f /\ frames'[child].outer = f
               /\ frames'[child].task = task /\ frames'[child].phase = "think"
               /\ frames'[child].pending = 0 /\ frames'[child].closed = "none"
               /\ frames'[child].rows = 0 /\ frames'[child].returned = 0
               /\ label' = [t \in 1 .. child |->
                      IF t = task THEN child ELSE IF t = child THEN f ELSE label[t]]
<1> DEFINE n == Len(frames)
           child == n + 1
           task == IF f = 1 THEN child ELSE frames[f].task
           none == FALSE
<1>1. n \in Nat \ {0} /\ Runs(frames, n) /\ DOMAIN frames = 1 .. n /\ DOMAIN label = 1 .. n
  BY RunsSeq DEF DelegationInv, Tree
<1>2. D!MayStart(f) BY Zenon DEF D!Spawns
<1>3. frames[f].phase = "act" /\ frames[f].pending > Cardinality(D!Active(f))
      /\ (f # 1 => D!Active(f) = {})
  BY <1>2, SameCardinality, Zenon DEF D!MayStart
<1>4. D!Live(f) BY <1>3 DEF D!Live
<1>5. f # 1 => label[frames[f].task] = f /\ frames[f].task \in 1 .. n BY <1>3, <1>4, OwnLabel
<1> DEFINE outer == IF task \in DOMAIN label THEN label[task] ELSE label[frames[f].task]
<1>6. outer = f
  <2>1. CASE f = 1
    <3>1. task \notin DOMAIN label BY <1>1, <2>1
    <3>2. frames[1].task = 1 /\ label[1] = 1 BY DEF DelegationInv, Tree, Labelled
    <3> QED BY <2>1, <3>1, <3>2
  <2>2. CASE f # 1 BY <1>1, <1>5, <2>2
  <2> QED BY <2>1, <2>2
<1>7. \E tools, spawner, inherited :
        /\ frames' = Append(frames, D!Frame(f, tools, spawner, inherited, task, f))
        /\ label' = [t \in 1 .. child |->
               IF t = task THEN child ELSE IF t = child THEN f ELSE label[t]]
  <2>1. D!TaskOf(f, child) = task BY DEF D!TaskOf
  <2>2. \E tools, spawner, inherited :
        /\ frames' = Append(frames, D!Frame(f, tools, spawner, inherited, task, outer))
        /\ label' = [t \in 1 .. child |->
               IF t = task THEN child ELSE IF t = child THEN outer ELSE label[t]]
    <3> HIDE DEF task
    <3> QED BY <2>1 DEF D!Spawns
  <2> HIDE DEF outer
  <2> QED BY <1>6, <2>2
<1>8. PICK tools, spawner, inherited :
        frames' = Append(frames, D!Frame(f, tools, spawner, inherited, task, f))
  BY <1>7
<1> DEFINE run == D!Frame(f, tools, spawner, inherited, task, f)
<1>9. /\ DOMAIN run = Fields
      /\ run.parent = f /\ run.outer = f /\ run.task = task /\ run.phase = "think"
      /\ run.pending = 0 /\ run.closed = "none" /\ run.rows = 0 /\ run.returned = 0
  <2> DEFINE shape == [parent |-> f, tools |-> tools, spawner |-> spawner, inherited |-> inherited,
                       task |-> task, outer |-> f, phase |-> "think", step |-> 1, batch |-> 0,
                       pending |-> 0, ran |-> none, refused |-> 0, calls |-> 0, rows |-> 0,
                       returned |-> 0, closed |-> "none"]
  <2>1. run = shape BY DEF D!Frame
  <2> HIDE DEF none, task
  <2>2. /\ DOMAIN shape = Fields
        /\ shape.parent = f /\ shape.outer = f /\ shape.task = task /\ shape.phase = "think"
        /\ shape.pending = 0 /\ shape.closed = "none" /\ shape.rows = 0 /\ shape.returned = 0
    BY DEF Fields
  <2> QED BY <2>1, <2>2
<1> HIDE DEF run
<1>10. frames' = [g \in 1 .. n + 1 |-> IF g = n + 1 THEN run ELSE frames[g]]
  BY <1>1, <1>8, RunsSeq DEF run
<1>11. Runs(frames', child) /\ frames'[child] = run /\ \A g \in 1 .. n : frames'[g] = frames[g]
  <2>1. frames'[child] = run /\ \A g \in 1 .. n : frames'[g] = frames[g] BY <1>1, <1>10
  <2>2. \A g \in 1 .. n + 1 : g \in 1 .. n \/ g = n + 1 BY <1>1
  <2>3. \A g \in 1 .. child : DOMAIN frames'[g] = Fields BY <1>1, <1>9, <2>1, <2>2 DEF Runs
  <2>4. frames' = [g \in 1 .. child |-> frames'[g]] BY <1>10
  <2> QED BY <2>1, <2>3, <2>4 DEF Runs
<1> HIDE DEF n
<1> QED BY <1>3, <1>5, <1>7, <1>9, <1>11 DEF n

\* What a new run is given: of the tools of the registry its spawner resolves in, some;
\* below the limit a spawner of its own, at the limit one only by name.
LEMMA SpawnedTools ==
    ASSUME NEW f, NEW n \in Nat, n = Len(frames), Runs(frames, n), D!Spawns(f)
    PROVE  LET spawner == frames[f].spawner
               home == frames[spawner.home]
               run == frames'[n + 1]
               deeper == spawner.depth < MaxDepth
           IN  \E given \in SUBSET home.tools :
                 /\ run.tools = IF deeper THEN given \cup {D!Spawner} ELSE given
                 /\ run.spawner = IF deeper THEN [depth |-> spawner.depth + 1, home |-> n + 1]
                                  ELSE IF D!Spawner \in given THEN home.spawner ELSE D!NoSpawner
                 /\ run.inherited <=> ~deeper /\ D!Spawner \in given
                 /\ D!Spawner \in frames[f].tools
<1> DEFINE spawner == frames[f].spawner
           home == frames[spawner.home]
           deeper == spawner.depth < MaxDepth
           child == n + 1
           Tools(given) == IF deeper THEN given \cup {D!Spawner} ELSE given
           Made(given) == IF deeper THEN [depth |-> spawner.depth + 1, home |-> child]
                          ELSE IF D!Spawner \in given THEN home.spawner ELSE D!NoSpawner
           Inherits(given) == ~deeper /\ D!Spawner \in given
           none == FALSE
<1>1. PICK requested \in Requests :
        LET given == D!Resolve(spawner, requested)
        IN  \E task, outer :
              frames' = Append(frames, D!Frame(f, Tools(given), Made(given), Inherits(given), task, outer))
  <2> DEFINE task == D!TaskOf(f, child)
             outer == IF task \in DOMAIN label THEN label[task] ELSE label[frames[f].task]
  <2>1. PICK requested \in Requests :
          frames' = Append(frames,
              D!Frame(f, Tools(D!Resolve(spawner, requested)),
                      D!ChildSpawner(spawner, D!Resolve(spawner, requested), child),
                      Inherits(D!Resolve(spawner, requested)), task, outer))
    BY Zenon DEF D!Spawns
  <2> QED BY <2>1, Zenon DEF D!ChildSpawner
<1> DEFINE given == D!Resolve(spawner, requested)
<1>2. given \subseteq home.tools BY DEF D!Resolve
<1>3. D!Spawner \in frames[f].tools BY Zenon DEF D!Spawns
<1> HIDE DEF given
<1>4. PICK task, outer :
        frames' = Append(frames, D!Frame(f, Tools(given), Made(given), Inherits(given), task, outer))
  BY <1>1 DEF given
<1> DEFINE run == D!Frame(f, Tools(given), Made(given), Inherits(given), task, outer)
<1>5. frames'[child] = run
  <2> HIDE DEF run
  <2>1. frames' = [g \in 1 .. n + 1 |-> IF g = n + 1 THEN run ELSE frames[g]] BY <1>4, RunsSeq DEF run
  <2> QED BY <2>1
<1>6. run.tools = Tools(given) /\ run.spawner = Made(given) /\ (run.inherited <=> Inherits(given))
  <2> DEFINE inherits == Inherits(given)
             tools == Tools(given)
             made == Made(given)
             shape == [parent |-> f, tools |-> tools, spawner |-> made, inherited |-> inherits,
                       task |-> task, outer |-> outer, phase |-> "think", step |-> 1, batch |-> 0,
                       pending |-> 0, ran |-> none, refused |-> 0, calls |-> 0, rows |-> 0,
                       returned |-> 0, closed |-> "none"]
  <2>1. run = shape BY DEF D!Frame
  <2> HIDE DEF none, inherits, tools, made
  <2>2. shape.tools = tools /\ shape.spawner = made /\ shape.inherited = inherits OBVIOUS
  <2> HIDE DEF shape
  <2>3. run.tools = tools /\ run.spawner = made /\ run.inherited = inherits BY <2>1, <2>2
  <2> HIDE DEF run
  <2> QED BY <2>3, Zenon DEF inherits, tools, made
<1> HIDE DEF run
<1> QED BY <1>2, <1>3, <1>5, <1>6, Zenon

LEMMA SpawnsInv ==
    ASSUME DelegationInv, NEW f \in 1 .. Len(frames), D!Spawns(f) PROVE DelegationInv'
<1> DEFINE n == Len(frames)
           child == n + 1
           task == IF f = 1 THEN child ELSE frames[f].task
<1>1. n \in Nat \ {0} /\ Runs(frames, n) /\ DOMAIN frames = 1 .. n /\ DOMAIN label = 1 .. n
  BY RunsSeq DEF DelegationInv, Tree
<1>2. /\ frames[f].phase = "act" /\ frames[f].pending > Cardinality(D!Active(f))
      /\ f # 1 => D!Active(f) = {} /\ label[task] = f
      /\ Runs(frames', child)
      /\ \A g \in 1 .. n : frames'[g] = frames[g]
      /\ frames'[child].parent = f /\ frames'[child].outer = f
      /\ frames'[child].task = task /\ frames'[child].phase = "think"
      /\ frames'[child].pending = 0 /\ frames'[child].closed = "none"
      /\ frames'[child].rows = 0 /\ frames'[child].returned = 0
      /\ label' = [t \in 1 .. child |->
             IF t = task THEN child ELSE IF t = child THEN f ELSE label[t]]
  BY SpawnedRun
<1>3. Len(frames') = child /\ DOMAIN frames' = 1 .. child BY <1>1, <1>2, RunsSeq
<1>4. /\ 1 .. child = (1 .. n) \cup {child} /\ 2 .. child = (2 .. n) \cup {child}
      /\ 1 .. n = {1} \cup 2 .. n /\ child \notin 1 .. n /\ child # 1 /\ child \in Nat \ {0}
  BY <1>1
<1>5. \A g \in 1 .. child : D!Live(g)' <=> (g = child \/ D!Live(g)) BY <1>2, <1>4 DEF D!Live
<1>6. \A g \in 1 .. n : frames[g].parent \in 0 .. g - 1 /\ frames[g].parent # child
  BY <1>1, <1>4 DEF DelegationInv, Tree
<1> HIDE DEF child
<1>7. \A g \in 1 .. child : D!Active(g)' =
        IF g = f THEN D!Active(f) \cup {child} ELSE IF g = child THEN {} ELSE D!Active(g)
  <2> SUFFICES ASSUME NEW g \in 1 .. child
               PROVE  D!Active(g)' = IF g = f THEN D!Active(f) \cup {child}
                                     ELSE IF g = child THEN {} ELSE D!Active(g)
    OBVIOUS
  <2>1. D!Active(g)' = {h \in 1 .. child : frames'[h].parent = g /\ D!Live(h)'} BY <1>3 DEF D!Active
  <2>2. D!Active(g) = {h \in 1 .. n : frames[h].parent = g /\ D!Live(h)} BY <1>1 DEF D!Active
  <2>3. D!Active(g)' = {h \in 1 .. n : frames[h].parent = g /\ D!Live(h)}
                       \cup (IF g = f THEN {child} ELSE {})
    BY <1>2, <1>4, <1>5, <2>1
  <2>4. g = child => D!Active(g) = {} /\ g # f BY <1>4, <1>6, <2>2
  <2> QED BY <2>2, <2>3, <2>4
<1>8. Tree'
  <2>0. \A g \in 1 .. n : frames[g].pending \in Nat BY DEF DelegationInv, Tree
  <2>1. \A g \in 1 .. child : frames'[g].pending \in Nat
    <3> HIDE DEF n
    <3> QED BY <1>2, <1>4, <2>0
  <2>2. frames'[1].parent = 0 /\ frames'[1].task = 1 /\ frames'[1].outer = 1
    BY <1>2, <1>4 DEF DelegationInv, Tree
  <2>3. ASSUME NEW g \in 2 .. child
        PROVE  /\ frames'[g].parent \in 1 .. g - 1 /\ frames'[g].outer = frames'[g].parent
               /\ frames'[g].task \in 2 .. g
               /\ frames'[g].task = IF frames'[g].parent = 1 THEN g ELSE frames'[frames'[g].parent].task
    <3>1. CASE g \in 2 .. n
      <4>1. /\ frames[g].outer = frames[g].parent /\ frames[g].task \in 2 .. g
            /\ frames[g].task = IF frames[g].parent = 1 THEN g ELSE frames[frames[g].parent].task
            /\ frames[g].parent \in 1 .. g - 1 /\ frames[g].parent \in 1 .. n
        BY <1>1, <3>1 DEF DelegationInv, Tree
      <4>2. frames'[frames[g].parent].task = frames[frames[g].parent].task BY <1>2, <4>1
      <4>3. frames'[g] = frames[g] BY <1>2, <1>4, <3>1
      <4> HIDE DEF n
      <4> QED BY <4>1, <4>2, <4>3
    <3>2. CASE g = child
      <4>1. f # 1 => frames[f].task \in 2 .. f BY <1>1 DEF DelegationInv, Tree
      <4>2. task \in 2 .. child
        <5>1. f = 1 => task = child BY DEF child
        <5> QED BY <1>1, <4>1, <5>1 DEF child
      <4>3. f \in 1 .. child - 1 BY <1>1 DEF child
      <4>4. frames'[f].task = frames[f].task BY <1>2
      <4> QED BY <1>2, <3>2, <4>2, <4>3, <4>4
    <3> QED BY <1>4, <3>1, <3>2
  <2>4. DOMAIN label' = 1 .. child BY <1>2
  <2> QED BY <1>2, <1>3, <1>4, <2>1, <2>2, <2>3, <2>4 DEF Tree
<1>9. Waits'
  <2>1. ASSUME NEW g \in 2 .. child, D!Live(g)' PROVE frames'[frames'[g].parent].phase = "act"
    <3>1. CASE g = child BY <1>2, <3>1
    <3>2. CASE g \in 2 .. n
      <4>1. D!Live(g) /\ frames'[g] = frames[g] BY <1>2, <1>4, <1>5, <2>1, <3>2
      <4>2. frames[frames[g].parent].phase = "act" /\ frames[g].parent \in 1 .. n
        BY <1>1, <3>2, <4>1 DEF DelegationInv, Tree, Waits
      <4> QED BY <1>2, <4>1, <4>2
    <3> QED BY <1>4, <3>1, <3>2
  <2>2. ASSUME NEW g \in 1 .. child, frames'[g].phase = "act"
        PROVE  Cardinality(D!Active(g)') <= frames'[g].pending
    <3>1. g # child BY <1>2, <2>2
    <3>2. g \in 1 .. n /\ frames'[g] = frames[g] BY <1>2, <1>4, <3>1
    <3>3. CASE g # f
      <4>1. D!Active(g)' = D!Active(g) BY <1>7, <3>1, <3>3
      <4> QED BY <2>2, <3>2, <4>1 DEF DelegationInv, Waits
    <3>4. CASE g = f
      <4>1. D!Active(g)' = D!Active(f) \cup {child} BY <1>7, <3>4
      <4>2. IsFiniteSet(D!Active(f)) /\ Cardinality(D!Active(f)) \in Nat BY ActiveFinite DEF DelegationInv
      <4>3. child \notin D!Active(f) BY <1>1, <1>4 DEF D!Active
      <4>4. Cardinality(D!Active(f) \cup {child}) = Cardinality(D!Active(f)) + 1
        BY <4>2, <4>3, FS_AddElement
      <4>5. frames[f].pending \in Nat BY DEF DelegationInv, Tree
      <4> QED BY <1>2, <3>2, <3>4, <4>1, <4>2, <4>4, <4>5
    <3> QED BY <3>3, <3>4
  <2>3. ASSUME NEW g \in 2 .. child, NEW h \in 2 .. child, D!Live(g)', D!Live(h)',
               frames'[g].parent = frames'[h].parent, frames'[g].parent # 1
        PROVE  g = h
    <3>1. \A a \in 2 .. n : D!Live(a)' /\ frames'[a].parent = f => f = 1
      <4> SUFFICES ASSUME NEW a \in 2 .. n, D!Live(a)', frames'[a].parent = f PROVE f = 1 OBVIOUS
      <4>1. a \in 1 .. n /\ a \in DOMAIN frames /\ a \in 1 .. child /\ a # child BY <1>1, <1>4
      <4>2. frames'[a] = frames[a] /\ D!Live(a) BY <1>2, <1>5, <4>1
      <4>3. a \in D!Active(f) BY <4>1, <4>2 DEF D!Active
      <4> QED BY <1>2, <4>3
    <3>2. CASE g = child \/ h = child BY <1>2, <1>4, <2>3, <3>1, <3>2
    <3>3. CASE g \in 2 .. n /\ h \in 2 .. n
      <4>1. frames'[g] = frames[g] /\ frames'[h] = frames[h] /\ D!Live(g) /\ D!Live(h)
        BY <1>2, <1>4, <1>5, <2>3, <3>3
      <4>2. \A a, b \in 2 .. n :
              D!Live(a) /\ D!Live(b) /\ frames[a].parent = frames[b].parent /\ frames[a].parent # 1 => a = b
        BY DEF DelegationInv, Waits
      <4> QED BY <2>3, <3>3, <4>1, <4>2
    <3> QED BY <1>4, <3>2, <3>3
  <2> QED BY <1>3, <2>1, <2>2, <2>3 DEF Waits
<1>10. Labelled'
  <2>1. task # 1 /\ task \in 1 .. child
    <3>1. f # 1 => frames[f].task \in 2 .. f BY <1>1 DEF DelegationInv, Tree
    <3> QED BY <1>1, <1>4, <3>1 DEF child
  <2> HIDE DEF task
  <2>2. label'[1] = 1 BY <1>2, <1>4, <2>1 DEF DelegationInv, Labelled
  <2>3. ASSUME NEW g \in 2 .. child, D!Live(g)', D!Active(g)' = {} PROVE label'[frames'[g].task] = g
    <3>1. CASE g = child BY <1>2, <2>1, <3>1
    <3>2. CASE g \in 2 .. n
      <4>1. /\ g \in 1 .. child /\ g # child /\ g # f /\ D!Active(g) = {}
            /\ D!Live(g) /\ frames'[g] = frames[g]
        BY <1>2, <1>4, <1>5, <1>7, <2>3, <3>2
      <4>2. label[frames[g].task] = g BY <3>2, <4>1 DEF DelegationInv, Labelled
      <4>3. frames[g].task \in 1 .. n BY <1>1, <3>2 DEF DelegationInv, Tree
      <4>4. frames[g].task # task
        <5>1. f = 1 => task = child BY DEF task
        <5> QED BY <1>2, <1>4, <4>1, <4>2, <4>3, <5>1
      <4> QED BY <1>2, <1>4, <4>1, <4>2, <4>3, <4>4
    <3> QED BY <1>4, <3>1, <3>2
  <2> QED BY <1>3, <2>2, <2>3 DEF Labelled
<1>11. Logged'
  <2>1. \A g \in 1 .. child :
          frames'[g].rows = frames'[g].returned /\ (frames'[g].closed # "none" => ~D!Live(g)')
    BY <1>2, <1>4, <1>5 DEF DelegationInv, Logged
  <2> QED BY <1>3, <2>1 DEF Logged
<1>12. Narrowed'
  <2> DEFINE spawner == frames[f].spawner
             home == frames[spawner.home]
             run == frames'[child]
             deeper == spawner.depth < MaxDepth
  <2>1. PICK given \in SUBSET home.tools :
          /\ run.tools = IF deeper THEN given \cup {D!Spawner} ELSE given
          /\ run.spawner = IF deeper THEN [depth |-> spawner.depth + 1, home |-> child]
                           ELSE IF D!Spawner \in given THEN home.spawner ELSE D!NoSpawner
          /\ run.inherited <=> ~deeper /\ D!Spawner \in given
          /\ D!Spawner \in frames[f].tools
    BY <1>1, SpawnedTools DEF child
  <2>2. spawner.home \in 1 .. f /\ spawner.home \in 1 .. n /\ spawner.depth \in Nat
    BY <1>1, <2>1 DEF DelegationInv, Narrowed
  <2>3. /\ home.tools \subseteq TurnTools /\ home.spawner.depth \in Nat
        /\ D!Spawner \in home.tools => home.spawner.home \in 1 .. spawner.home
        /\ D!Spawner \in TurnTools /\ MaxDepth \in Nat
    BY <2>2, ServicesAssumption DEF DelegationInv, Narrowed, ServicesAssumption
  <2>4. D!NoSpawner.depth = 0 BY DEF D!NoSpawner
  <2>5. /\ run.tools \subseteq TurnTools /\ run.spawner.depth \in Nat
        /\ D!Spawner \in run.tools => run.spawner.home \in 1 .. child
    <3>1. CASE deeper BY <1>4, <2>1, <2>2, <2>3, <3>1
    <3>2. CASE ~deeper
      <4>1. run.tools = given /\ (D!Spawner \in given => run.spawner = home.spawner)
            /\ (D!Spawner \notin given => run.spawner = D!NoSpawner)
        BY <2>1, <3>2
      <4>2. D!Spawner \in given => home.spawner.home \in 1 .. child
        BY <1>1, <2>2, <2>3 DEF child
      <4> QED BY <2>3, <2>4, <4>1, <4>2
    <3> QED BY <3>1, <3>2
  <2>6. ~frames[f].inherited /\ spawner.home = f =>
          /\ run.tools \subseteq frames[f].tools
          /\ ~run.inherited /\ D!Spawner \in run.tools =>
               /\ run.spawner.home = child
               /\ run.spawner.depth = spawner.depth + 1
               /\ run.spawner.depth <= MaxDepth
    <3>1. CASE deeper BY <2>1, <2>2, <2>3, <3>1
    <3>2. CASE ~deeper BY <2>1, <3>2
    <3> QED BY <3>1, <3>2
  <2> HIDE DEF run, home, deeper
  <2>7. frames'[1].spawner = [depth |-> 1, home |-> 1] /\ ~frames'[1].inherited
    BY <1>2, <1>4 DEF DelegationInv, Narrowed
  <2>8. ASSUME NEW g \in 1 .. child
        PROVE  /\ frames'[g].tools \subseteq TurnTools
               /\ frames'[g].spawner.depth \in Nat
               /\ D!Spawner \in frames'[g].tools => frames'[g].spawner.home \in 1 .. g
    <3>1. CASE g = child BY <2>5, <3>1 DEF run
    <3>2. CASE g \in 1 .. n BY <1>2, <3>2 DEF DelegationInv, Narrowed
    <3> QED BY <1>4, <3>1, <3>2
  <2>9. ASSUME NEW g \in 2 .. child
        PROVE  LET mother == frames'[frames'[g].parent]
               IN  /\ D!Spawner \in mother.tools
                   /\ ~mother.inherited /\ mother.spawner.home = frames'[g].parent =>
                        /\ frames'[g].tools \subseteq mother.tools
                        /\ ~frames'[g].inherited /\ D!Spawner \in frames'[g].tools =>
                             /\ frames'[g].spawner.home = g
                             /\ frames'[g].spawner.depth = mother.spawner.depth + 1
                             /\ frames'[g].spawner.depth <= MaxDepth
    <3>1. CASE g = child
      <4>1. frames'[g] = run /\ frames'[g].parent = f /\ frames'[f] = frames[f]
        BY <1>2, <3>1 DEF run
      <4> QED BY <2>1, <2>6, <3>1, <4>1
    <3>2. CASE g \in 2 .. n
      <4> DEFINE p == frames[g].parent
      <4>1. frames'[g] = frames[g] /\ p \in 1 .. n BY <1>1, <1>2, <1>4, <3>2 DEF DelegationInv, Tree
      <4>2. frames'[p] = frames[p] BY <1>2, <4>1
      <4>3. /\ D!Spawner \in frames[p].tools
            /\ ~frames[p].inherited /\ frames[p].spawner.home = p =>
                 /\ frames[g].tools \subseteq frames[p].tools
                 /\ ~frames[g].inherited /\ D!Spawner \in frames[g].tools =>
                      /\ frames[g].spawner.home = g
                      /\ frames[g].spawner.depth = frames[p].spawner.depth + 1
                      /\ frames[g].spawner.depth <= MaxDepth
        BY <3>2 DEF DelegationInv, Narrowed
      <4> QED BY <4>1, <4>2, <4>3
    <3> QED BY <1>4, <3>1, <3>2
  <2> QED BY <1>3, <2>7, <2>8, <2>9 DEF Narrowed
<1> QED BY <1>8, <1>9, <1>10, <1>11, <1>12 DEF DelegationInv
-----------------------------------------------------------------------------
(* Delegations, together *)

LEMMA DelegationStarts == D!DelegationInit \/ D!DelegationIdle => DelegationInv
<1> DEFINE none == FALSE
           turn == [parent |-> 0, tools |-> TurnTools, spawner |-> [depth |-> 1, home |-> 1],
                    inherited |-> none, task |-> 1, outer |-> 1, phase |-> "think", step |-> 1,
                    batch |-> 0, pending |-> 0, ran |-> none, refused |-> 0, calls |-> 0, rows |-> 0,
                    returned |-> 0, closed |-> "none"]
           over == D!Ended(turn, "none")
<1>1. D!Turn = turn BY DEF D!Turn, D!Frame
<1> HIDE DEF none
<1>2. /\ DOMAIN turn = Fields
      /\ turn.parent = 0 /\ turn.task = 1 /\ turn.outer = 1 /\ turn.pending = 0
      /\ turn.rows = turn.returned /\ turn.phase = "think" /\ turn.closed = "none"
      /\ turn.tools = TurnTools /\ turn.spawner = [depth |-> 1, home |-> 1] /\ turn.inherited = none
  BY DEF Fields
<1> HIDE DEF turn
<1>3. /\ DOMAIN over = Fields /\ SameRun(over, turn)
      /\ over.phase = "over" /\ over.closed = "none" /\ over.pending = 0
      /\ over.rows = over.returned
  BY <1>2, EndedRun
<1> HIDE DEF over
<1>4. ASSUME NEW run, frames = <<run>>, label = << 1 >>, DOMAIN run = Fields,
             run.parent = 0, run.task = 1, run.outer = 1, run.pending = 0,
             run.rows = run.returned, run.phase # "act", run.closed = "none",
             run.tools = TurnTools, run.spawner = [depth |-> 1, home |-> 1], run.inherited = none
      PROVE  DelegationInv
  <2>1. Len(frames) = 1 /\ 1 .. 1 = {1} /\ 2 .. 1 = {} BY <1>4
  <2>2. frames[1] = run /\ frames = [g \in 1 .. 1 |-> frames[g]] BY <1>4
  <2>3. label[1] = 1 /\ DOMAIN label = 1 .. 1 BY <1>4
  <2>4. Tree BY <1>4, <2>1, <2>2, <2>3 DEF Tree, Runs
  <2>5. Waits /\ Labelled /\ Logged BY <1>4, <2>1, <2>2, <2>3 DEF Waits, Labelled, Logged
  <2>6. ~run.inherited BY <1>4, Zenon DEF none
  <2>7. Narrowed BY <1>4, <2>1, <2>2, <2>6 DEF Narrowed
  <2> QED BY <2>4, <2>5, <2>7 DEF DelegationInv
<1>5. ASSUME D!DelegationInit PROVE DelegationInv
  <2>1. frames = <<turn>> /\ label = <<1>> BY <1>1, <1>5 DEF D!DelegationInit
  <2> QED BY <1>2, <1>4, <2>1
<1>6. ASSUME D!DelegationIdle PROVE DelegationInv
  <2>1. frames = <<over>> /\ label = <<1>> BY <1>1, <1>6 DEF D!DelegationIdle, over
  <2>2. /\ over.parent = 0 /\ over.task = 1 /\ over.outer = 1
        /\ over.tools = TurnTools /\ over.spawner = [depth |-> 1, home |-> 1] /\ over.inherited = none
    BY <1>2, <1>3 DEF SameRun
  <2> QED BY <1>3, <1>4, <2>1, <2>2
<1> QED BY <1>5, <1>6

LEMMA DelegationStep == DelegationInv /\ [D!DelegationNext]_delegationVars => DelegationInv'
<1> SUFFICES ASSUME DelegationInv, [D!DelegationNext]_delegationVars PROVE DelegationInv' OBVIOUS
<1>1. DOMAIN frames = 1 .. Len(frames) BY RunsSeq DEF DelegationInv, Tree
<1>2. CASE UNCHANGED delegationVars
  BY <1>2 DEF delegationVars, DelegationInv, Tree, Waits, Labelled, Logged, Narrowed, D!Live, D!Active
<1>3. CASE D!Interrupted BY <1>3, InterruptedInv
<1>4. ASSUME NEW f \in 1 .. Len(frames),
             D!Answers(f) \/ D!CallsTools(f) \/ D!RequestFails(f) \/ D!RunsTool(f) \/ D!Spawns(f)
             \/ D!BatchDone(f) \/ D!TimesOut(f)
      PROVE  DelegationInv'
  BY <1>4, AnswersInv, CallsToolsInv, RequestFailsInv, RunsToolInv, SpawnsInv, BatchDoneInv, TimesOutInv
<1> QED BY <1>1, <1>2, <1>3, <1>4 DEF D!DelegationNext

\* Under a run that is over nothing runs: the first run that did would have a parent
\* that waits for it.
LEMMA DelegationSafe == DelegationInv => Attributed
<1> SUFFICES ASSUME DelegationInv PROVE Attributed OBVIOUS
<1> DEFINE n == Len(frames)
<1>1. n \in Nat /\ DOMAIN frames = 1 .. n BY RunsSeq DEF DelegationInv, Tree
<1>2. \A f \in 1 .. n : frames[f].rows = frames[f].returned BY DEF DelegationInv, Logged
<1>3. ASSUME NEW f \in 1 .. n, ~D!Live(f), NEW g \in D!Under(f), D!Live(g) PROVE FALSE
  <2> DEFINE T == {h \in D!Under(f) : D!Live(h)}
  <2>1. /\ D!Under(f) \subseteq 1 .. n
        /\ \A h \in 1 .. n : h \in D!Under(f) <=> (h = f \/ frames[h].parent \in D!Under(f))
    BY <1>3, UnderParent DEF DelegationInv
  <2>2. T \in SUBSET Nat /\ g \in T BY <1>3, <2>1
  <2>3. PICK h \in T : \A k \in T : h <= k
    <3> HIDE DEF T
    <3> QED BY <2>2, LeastNatural
  <2>4. h \in 1 .. n /\ D!Live(h) /\ h # f /\ frames[h].parent \in D!Under(f) BY <1>3, <2>1
  <2>5. h # 1
    <3>1. frames[1].parent = 0 BY DEF DelegationInv, Tree
    <3> QED BY <2>1, <2>4, <3>1
  <2>6. h \in 2 .. n BY <1>1, <2>4, <2>5
  <2>7. frames[h].parent \in 1 .. h - 1 /\ D!Live(frames[h].parent)
    BY <2>4, <2>6 DEF DelegationInv, Tree, Waits, D!Live
  <2>8. frames[h].parent \in T /\ ~ h <= frames[h].parent BY <2>4, <2>6, <2>7
  <2> QED BY <2>3, <2>8
<1>4. ASSUME NEW f \in DOMAIN D!Breakdown, D!Breakdown[f].status # "none", NEW g \in D!Under(f)
      PROVE  ~D!Live(g)
  <2>1. f \in 1 .. n /\ frames[f].closed # "none" BY <1>1, <1>4 DEF D!Breakdown
  <2>2. ~D!Live(f) BY <2>1 DEF DelegationInv, Logged
  <2> QED BY <1>3, <1>4, <2>1, <2>2
<1> QED BY <1>1, <1>2, <1>4 DEF Attributed
-----------------------------------------------------------------------------
(* How deep runs are nested *)

IsDepth(n, d) == d = [f \in 1 .. n |-> IF f = 1 THEN 0 ELSE 1 + d[frames[f].parent]]

LEMMA DepthExists ==
    ASSUME Tree PROVE \E d : IsDepth(Len(frames), d)
<1> DEFINE total == Len(frames)
           T == {n \in Nat : n <= total /\ ~\E d : IsDepth(n, d)}
<1>1. total \in Nat /\ \A g \in 1 .. total : g # 1 => frames[g].parent \in 1 .. g - 1
  <2>1. \A g \in 1 .. total : g # 1 => g \in 2 .. total BY DEF Tree
  <2> QED BY <2>1 DEF Tree
<1> HIDE DEF total
<1>2. SUFFICES ASSUME ~\E d : IsDepth(total, d) PROVE FALSE BY DEF total
<1>3. total \in T
  <2>1. total <= total BY <1>1
  <2> QED BY <1>1, <1>2, <2>1, Zenon
<1>4. PICK n \in T : \A m \in T : n <= m
  <2>1. T \in SUBSET Nat OBVIOUS
  <2> HIDE DEF T
  <2> QED BY <1>3, <2>1, LeastNatural
<1>5. n # 0
  <2> DEFINE none == [f \in 1 .. 0 |-> 0]
  <2>1. \A f \in 1 .. 0 : FALSE OBVIOUS
  <2>2. none = [f \in 1 .. 0 |-> IF f = 1 THEN 0 ELSE 1 + none[frames[f].parent]] BY <2>1
  <2> HIDE DEF none
  <2>3. IsDepth(0, none) BY <2>2, Zenon DEF IsDepth
  <2> QED BY <2>3
<1>6. PICK d : IsDepth(n - 1, d)
  <2>1. n - 1 \in Nat /\ n - 1 <= total /\ n - 1 \notin T BY <1>1, <1>4, <1>5
  <2> QED BY <2>1
<1> DEFINE new == IF n = 1 THEN 0 ELSE 1 + d[frames[n].parent]
           c == [f \in 1 .. n |-> IF f = n THEN new ELSE d[f]]
<1>7. \A f \in 1 .. n : f # 1 => frames[f].parent \in 1 .. f - 1 BY <1>1, <1>4
<1>8. \A f \in 1 .. n - 1 : d[f] = IF f = 1 THEN 0 ELSE 1 + d[frames[f].parent] BY <1>6 DEF IsDepth
<1>9. c[n] = new /\ \A f \in 1 .. n - 1 : c[f] = d[f] BY <1>4, <1>5
<1>10. c = [f \in 1 .. n |-> c[f]] OBVIOUS
<1> HIDE DEF c
<1>11. ASSUME NEW f \in 1 .. n PROVE c[f] = IF f = 1 THEN 0 ELSE 1 + c[frames[f].parent]
  <2>1. f # 1 => frames[f].parent \in 1 .. n - 1 /\ frames[f].parent \in 1 .. f - 1 BY <1>4, <1>7
  <2>2. CASE f = n BY <1>9, <2>1, <2>2
  <2>3. CASE f # n
    <3>1. f \in 1 .. n - 1 BY <1>4, <2>3
    <3> QED BY <1>8, <1>9, <2>1, <3>1
  <2> QED BY <2>2, <2>3
<1>12. IsDepth(n, c) BY <1>10, <1>11 DEF IsDepth
<1> QED BY <1>4, <1>12

\* Above a run that is itself under no run with a spawner given by name, each has its own
\* spawner, which knows how deep it is.
LEMMA NestingSafe == DelegationInv => NestingNarrows
<1> SUFFICES ASSUME DelegationInv PROVE NestingNarrows OBVIOUS
<1> DEFINE n == Len(frames)
           depth == CHOOSE depth :
               depth = [f \in 1 .. n |-> IF f = 1 THEN 0 ELSE 1 + depth[frames[f].parent]]
           given == {g \in 1 .. n : frames[g].inherited}
           Clean(f) == \A g \in given : g = f \/ f \notin D!Under(g)
<1>1. n \in Nat \ {0} /\ DOMAIN frames = 1 .. n /\ MaxDepth \in Nat \ {0}
  BY RunsSeq, ServicesAssumption DEF DelegationInv, Tree, ServicesAssumption
<1>2. depth = [f \in 1 .. n |-> IF f = 1 THEN 0 ELSE 1 + depth[frames[f].parent]]
  <2>1. PICK d : IsDepth(n, d) BY DepthExists DEF DelegationInv
  <2>2. d = [f \in 1 .. n |-> IF f = 1 THEN 0 ELSE 1 + d[frames[f].parent]] BY <2>1, Zenon DEF IsDepth
  <2> QED BY <2>2, Zenon
<1>3. SUFFICES \A f \in (1 .. n) \ {1} :
          /\ frames[f].tools \subseteq TurnTools
          /\ Clean(f) => depth[f] <= MaxDepth /\ frames[f].tools \subseteq frames[frames[f].parent].tools
  BY <1>1, Zenon DEF NestingNarrows
<1> HIDE DEF depth, given
<1>4. depth[1] = 0 /\ \A f \in (1 .. n) \ {1} : depth[f] = 1 + depth[frames[f].parent]
  <2>1. \A f \in 1 .. n : depth[f] = IF f = 1 THEN 0 ELSE 1 + depth[frames[f].parent] BY <1>2, Zenon
  <2> QED BY <1>1, <2>1
<1>5. \A f \in (1 .. n) \ {1} : f \in 2 .. n /\ frames[f].parent \in 1 .. f - 1 /\ frames[f].parent \in 1 .. n
  <2>1. \A f \in (1 .. n) \ {1} : f \in 2 .. n BY <1>1
  <2>2. \A f \in 2 .. n : frames[f].parent \in 1 .. f - 1 BY DEF DelegationInv, Tree
  <2> QED BY <1>1, <2>1, <2>2
<1>6. ASSUME NEW f \in (1 .. n) \ {1}, Clean(f)
      PROVE  Clean(frames[f].parent) /\ frames[f].parent \notin given
  <2> DEFINE p == frames[f].parent
  <2>1. ASSUME NEW g \in given, p \in D!Under(g) PROVE FALSE
    <3>1. g \in 1 .. n BY DEF given
    <3>2. f \in D!Under(g) BY <2>1, <3>1, UnderParent DEF DelegationInv
    <3>3. g = f BY <1>6, <3>2
    <3>4. D!Under(f) \subseteq 1 .. n
          /\ \A h \in 1 .. n : h \in D!Under(f) <=> (h = f \/ frames[h].parent \in D!Under(f))
      BY UnderParent DEF DelegationInv
    <3> DEFINE T == {h \in D!Under(f) : h < f}
    <3>5. p \in T BY <1>5, <2>1, <3>3
    <3>6. PICK h \in T : \A k \in T : h <= k
      <4>1. T \in SUBSET Nat BY <3>4
      <4> HIDE DEF T
      <4> QED BY <3>5, <4>1, LeastNatural
    <3>7. h \in 1 .. n /\ h # f /\ frames[h].parent \in D!Under(f) BY <3>4
    <3>8. h # 1
      <4>1. frames[1].parent = 0 BY DEF DelegationInv, Tree
      <4> QED BY <3>4, <3>7, <4>1
    <3>9. frames[h].parent \in 1 .. h - 1 BY <1>5, <3>7, <3>8
    <3>10. frames[h].parent \in T /\ ~ h <= frames[h].parent BY <3>4, <3>7, <3>9
    <3> QED BY <3>6, <3>10
  <2>2. p \in given => p \in D!Under(p) BY UnderParent DEF DelegationInv, given
  <2> QED BY <2>1, <2>2
<1> DEFINE Own(f) == D!Spawner \in frames[f].tools =>
                       /\ frames[f].spawner.home = f
                       /\ frames[f].spawner.depth = 1 + depth[f]
                       /\ frames[f].spawner.depth <= MaxDepth
           Mother(f) == frames[frames[f].parent]
<1>7. \A f \in (1 .. n) \ {1} :
        /\ D!Spawner \in Mother(f).tools
        /\ ~Mother(f).inherited /\ Mother(f).spawner.home = frames[f].parent =>
             /\ frames[f].tools \subseteq Mother(f).tools
             /\ ~frames[f].inherited /\ D!Spawner \in frames[f].tools =>
                  /\ frames[f].spawner.home = f
                  /\ frames[f].spawner.depth = Mother(f).spawner.depth + 1
                  /\ frames[f].spawner.depth <= MaxDepth
  BY <1>5 DEF DelegationInv, Narrowed
<1>8. \A f \in 1 .. n : Clean(f) /\ f \notin given => Own(f)
  <2> DEFINE T == {f \in 1 .. n : Clean(f) /\ f \notin given /\ ~Own(f)}
  <2> SUFFICES ASSUME T # {} PROVE FALSE OBVIOUS
  <2>1. PICK f \in T : \A k \in T : f <= k
    <3>1. T \in SUBSET Nat OBVIOUS
    <3> HIDE DEF T
    <3> QED BY <3>1, LeastNatural
  <2>2. f \in 1 .. n /\ Clean(f) /\ f \notin given /\ ~Own(f) OBVIOUS
  <2>3. f # 1
    <3>1. frames[1].spawner.home = 1 /\ frames[1].spawner.depth = 1 BY DEF DelegationInv, Narrowed
    <3>2. Own(1) BY <1>1, <1>4, <3>1
    <3> QED BY <2>2, <3>2
  <2> DEFINE p == frames[f].parent
  <2>4. p \in 1 .. n /\ ~ f <= p /\ Clean(p) /\ p \notin given BY <1>5, <1>6, <2>2, <2>3
  <2>5. Own(p) BY <2>1, <2>4
  <2>6. D!Spawner \in frames[p].tools /\ ~frames[p].inherited /\ ~frames[f].inherited
    BY <1>7, <2>2, <2>3, <2>4 DEF given
  <2>7. depth[f] = 1 + depth[p] /\ frames[p].spawner.home = p
        /\ frames[p].spawner.depth = 1 + depth[p]
    BY <1>4, <2>2, <2>3, <2>5, <2>6
  <2>8. frames[p].spawner.depth \in Nat BY <2>4 DEF DelegationInv, Narrowed
  <2>9. D!Spawner \in frames[f].tools =>
          /\ frames[f].spawner.home = f
          /\ frames[f].spawner.depth = frames[p].spawner.depth + 1
          /\ frames[f].spawner.depth <= MaxDepth
    BY <1>7, <2>2, <2>3, <2>6, <2>7
  <2>10. Own(f)
    <3>1. depth[f] = frames[p].spawner.depth BY <2>7, <2>8
    <3> HIDE DEF p
    <3> QED BY <2>8, <2>9, <3>1
  <2> QED BY <2>2, <2>10
<1>9. ASSUME NEW f \in (1 .. n) \ {1}
      PROVE  /\ frames[f].tools \subseteq TurnTools
             /\ Clean(f) => depth[f] <= MaxDepth /\ frames[f].tools \subseteq Mother(f).tools
  <2>1. frames[f].tools \subseteq TurnTools BY DEF DelegationInv, Narrowed
  <2>2. ASSUME Clean(f) PROVE depth[f] <= MaxDepth /\ frames[f].tools \subseteq Mother(f).tools
    <3> DEFINE p == frames[f].parent
    <3>1. Clean(p) /\ p \notin given /\ p \in 1 .. n BY <1>5, <1>6, <2>2
    <3>2. Own(p) /\ D!Spawner \in frames[p].tools /\ ~frames[p].inherited
      BY <1>7, <1>8, <3>1 DEF given
    <3>3. frames[f].tools \subseteq frames[p].tools BY <1>7, <3>2
    <3>4. depth[f] = 1 + depth[p] /\ frames[p].spawner.depth = 1 + depth[p]
          /\ frames[p].spawner.depth <= MaxDepth
      BY <1>4, <3>2
    <3>5. frames[p].spawner.depth \in Nat BY <3>1 DEF DelegationInv, Narrowed
    <3> HIDE DEF p
    <3>6. depth[f] <= MaxDepth
      <4> HIDE DEF depth
      <4>1. depth[f] = frames[p].spawner.depth BY <3>4, <3>5
      <4> QED BY <3>4, <4>1
    <3> QED BY <3>3, <3>6 DEF p
  <2> QED BY <2>1, <2>2
<1> QED BY <1>9, Zenon
-----------------------------------------------------------------------------
(* The services, together *)

ServicesInv == CompletionInv /\ DelegationInv /\ SkillsInv /\ RetrievalInv

LEMMA ServicesStart == Init => ServicesInv
BY CompletionStarts, DelegationStarts, SkillsStart, RetrievalStarts DEF Init, ServicesInv

LEMMA IdleStep ==
    /\ CompletionInv /\ UNCHANGED completionVars => CompletionInv'
    /\ SkillsInv /\ UNCHANGED skillVars => SkillsInv'
    /\ RetrievalInv /\ UNCHANGED retrievalVars => RetrievalInv'
<1>1. CompletionInv /\ UNCHANGED completionVars => CompletionInv'
  BY DEF completionVars, CompletionInv, CompletionType, Assembly, AnswerAssembled, Explained, C!Tries,
         C!Once, C!Empty
<1>2. SkillsInv /\ UNCHANGED skillVars => SkillsInv' BY DEF skillVars, SkillsInv, K!Holding
<1>3. RetrievalInv /\ UNCHANGED retrievalVars => RetrievalInv'
  BY DEF retrievalVars, RetrievalInv, RetrievalType, Fits, Covered, Within, Onward, R!Id, R!Text
<1> QED BY <1>1, <1>2, <1>3

LEMMA ServicesStep == ServicesInv /\ [Next]_vars => ServicesInv'
<1> SUFFICES ASSUME ServicesInv, [Next]_vars PROVE ServicesInv' OBVIOUS
<1>1. CompletionInv'
  <2>1. C!CompletionNext \/ UNCHANGED completionVars BY DEF Next, vars
  <2> QED BY <2>1, CompletionStep, IdleStep DEF ServicesInv
<1>2. DelegationInv'
  <2>1. [D!DelegationNext]_delegationVars BY DEF Next, vars
  <2> QED BY <2>1, DelegationStep DEF ServicesInv
<1>3. SkillsInv'
  <2>1. K!SkillsNext \/ UNCHANGED skillVars BY DEF Next, vars
  <2> QED BY <2>1, SkillsStep, IdleStep DEF ServicesInv
<1>4. RetrievalInv'
  <2>1. R!RetrievalNext \/ UNCHANGED retrievalVars BY DEF Next, vars
  <2> QED BY <2>1, RetrievalStep, IdleStep DEF ServicesInv
<1> QED BY <1>1, <1>2, <1>3, <1>4 DEF ServicesInv

LEMMA ServicesInvariant == Spec => []ServicesInv
BY ServicesStart, ServicesStep, PTL DEF Spec

\* The text of an answer is of one attempt, and so are its tool calls unless an error came
\* in a stream of that attempt or of one before, whatever pieces come and however often a
\* server refuses, fails or breaks off (the retries of chat and stream_chat, and the
\* assembly of a stream).
THEOREM AnswersAreAssembled == Spec => []AnswerAssembled
<1>1. ServicesInv => AnswerAssembled BY DEF ServicesInv, CompletionInv
<1> QED BY <1>1, ServicesInvariant, PTL

\* The usage log bills each delegation for its own responses, and nothing runs on under
\* one whose closing row is written, however many run, nest, fail or time out
\* (track_delegation and the deadline of spawn_subagent).
THEOREM UsageIsAttributed == Spec => []Attributed
<1>1. ServicesInv => Attributed BY DelegationSafe DEF ServicesInv
<1> QED BY <1>1, ServicesInvariant, PTL

\* No delegation has a tool its parent lacks or is nested deeper than the limit, but below
\* one that was given the spawner by name at the limit (_resolve_tools, _child_registry).
THEOREM DelegationsNarrow == Spec => []NestingNarrows
<1>1. ServicesInv => NestingNarrows BY NestingSafe DEF ServicesInv
<1> QED BY <1>1, ServicesInvariant, PTL

\* A new process reads from the skill files the library the last one had, up to what
\* markdown does not keep (the last use, tool calls, further lines), and to what the files
\* of two skills with one stem, a failed update or a user's copy take from it
\* (SkillManager, Skill.to_markdown and from_markdown).
THEOREM SkillsSurvive == Spec => []RestartForgetsNothing
<1>1. ServicesInv => RestartForgetsNothing BY SkillsSafe DEF ServicesInv
<1> QED BY <1>1, ServicesInvariant, PTL

\* No chunk of a document is longer than the size set; and where the overlap is less than
\* the least that is left of a window, all of the document but its blanks is in a stored
\* chunk (_chunk_text and the ids of the knowledge base).
THEOREM DocumentsAreFound == Spec => []EverythingFound
<1>1. ServicesInv => EverythingFound BY RetrievalSafe DEF ServicesInv
<1> QED BY <1>1, ServicesInvariant, PTL
===============================================================================
