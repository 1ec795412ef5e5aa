-------------------------------- MODULE Skills --------------------------------
(***************************************************************************)
(* The skill library: SkillManager (aegisx_agent/skills/manager.py), with    *)
(* Skill's markdown form (skills/skill.py) and AegisXAgent._maybe_create_skill *)
(* (core/agent.py).  The library in memory is indexed by name, the directory  *)
(* by the stem of the file, which several names may share.  A file is written  *)
(* in one step: a process that ends within a write is left out.               *)
(***************************************************************************)
EXTENDS Naturals, FiniteSets, Sequences, Functions

CONSTANTS
    Names,         \* the names models and users give, without surrounding blanks
    Stem,          \* _sanitize: from all names to stems
    Numbered,      \* skill_1, skill_2...
    Brought,       \* the files a user may have put in the directory
    MaxChanges,    \* bound: operations on the library
    MaxVersion     \* bound: updates that count the version up

VARIABLES
    library,   \* _skills: a function from the names to the skills in memory
    files,     \* the directory: a function from <<stem, suffix>> to what the file holds
    changes,   \* operations so far
    robbed,    \* history: the skills whose file another one overwrote or took with it
    halfway    \* history: the skills an update of which failed halfway

skillVars == <<library, files, changes, robbed, halfway>>

\* "numbered": three parts, the third a number; "short": not three parts; "odd": three
\* parts of which the third is no number.
Forms == {"numbered", "short", "odd"}

\* steps: what the texts say on the lines the markdown form has for them; more: whether
\* they say more: further lines, steps that are blank, tags with a comma.  (A further
\* line that itself reads like a line of the form is left out.)  version: its third
\* number; used: use_count; seen: last_used is set; calls: there are tool_calls.
IsSkill(skill) ==
    skill \in [name : {skill.name}, steps : Nat, more : BOOLEAN, version : Nat, form : Forms,
               used : Nat, seen : BOOLEAN, calls : BOOLEAN]

\* to_markdown and from_markdown, which reads line by line: the last use is not written,
\* tool calls are written for the reader and not parsed, and a text ends with its line.
Markdown(skill) == [skill EXCEPT !.more = FALSE, !.seen = FALSE, !.calls = FALSE]

\* A place in the directory, and what it holds: _load_all reads *.md and *.json.
IsFile(file, skill) ==
    file = <<file[1], file[2]>> /\ file[2] \in {".md", ".json"} /\ IsSkill(skill)

Holding(directory, name) == {file \in DOMAIN directory : directory[file].name = name}

\* _load_all reads the files in the order the directory lists them: of two that hold
\* one name the later stays.
Libraries(directory) ==
    LET names == {directory[file].name : file \in DOMAIN directory}
    IN  {[name \in names |-> directory[last[name]]] :
            last \in {last \in [names -> DOMAIN directory] :
                        \A name \in names : last[name] \in Holding(directory, name)}}

Put(f, key, value) == [k \in DOMAIN f \cup {key} |-> IF k = key THEN value ELSE f[k]]

\* skill.save to <stem>.md: whatever else the file held is gone.
Saved(skill) == Put(files, <<Stem[skill.name], ".md">>, Markdown(skill))

SkillsInit ==
    /\ files \in Brought
    /\ library \in Libraries(files)
    /\ changes = 0 /\ robbed = {} /\ halfway = {}

SkillsIdle ==
    /\ files = <<>> /\ library = <<>> /\ changes = 0 /\ robbed = {} /\ halfway = {}

Change == changes < MaxChanges /\ changes' = changes + 1

Held(places) == {files[file].name : file \in places \cap DOMAIN files}

\* A skill that is changed is saved.
Keep(skill) ==
    /\ library' = Put(library, skill.name, skill)
    /\ files' = Saved(skill)
    /\ robbed' = (robbed \cup Held({<<Stem[skill.name], ".md">>})) \ {skill.name}
    /\ halfway' = halfway \ {skill.name}

\* Skill(...) of create_skill: version 1.0.0, never used.
Fresh(name, more, calls) ==
    [name |-> name, steps |-> 1, more |-> more, version |-> 0, form |-> "numbered",
     used |-> 0, seen |-> FALSE, calls |-> calls]

Create == Change /\ \E name \in Names, rich \in BOOLEAN : Keep(Fresh(name, rich, rich))

\* _maybe_create_skill, of a turn with enough tool calls: a skill the model gives no
\* name is numbered, and takes the place of one with that number.
Capture ==
    /\ Change
    /\ \E name \in Names \cup {Numbered[Cardinality(DOMAIN library) + 1]}, more \in BOOLEAN :
         Keep(Fresh(name, more, FALSE))

\* import_skill_text, of text that names a skill: JSON keeps in memory what markdown
\* has not, and may give any version.
Import ==
    /\ Change
    /\ \E name \in Names, form \in Forms, rich \in BOOLEAN :
         Keep([Fresh(name, rich, rich) EXCEPT !.steps = 2, !.form = form, !.used = 1, !.seen = rich])

\* update_skill.  The texts and tool calls are changed before the version is bumped: an
\* odd one ends the update there, in memory only; a short one stays as it is.
Update ==
    /\ Change
    /\ \E name \in DOMAIN library : \E steps \in {1, 2}, rich \in BOOLEAN :
         LET changed == [library[name] EXCEPT !.steps = steps, !.more = rich, !.calls = rich]
         IN  \/ /\ changed.form = "odd"
                /\ library' = Put(library, name, changed)
                /\ halfway' = halfway \cup {name}
                /\ UNCHANGED <<files, robbed>>
             \/ changed.form = "short" /\ Keep(changed)
             \/ /\ changed.form = "numbered" /\ changed.version < MaxVersion
                /\ Keep([changed EXCEPT !.version = @ + 1])

\* Mutant: the use is counted, and saved with the next change.
RecordUseUnsaved ==
    /\ Change
    /\ \E name \in DOMAIN library :
         library' = Put(library, name, [library[name] EXCEPT !.used = @ + 1, !.seen = TRUE])
    /\ UNCHANGED <<files, robbed, halfway>>

\* record_use
RecordUse ==
    /\ Change
    /\ \E name \in DOMAIN library : Keep([library[name] EXCEPT !.used = @ + 1, !.seen = TRUE])

\* delete_skill removes the files of the stem, whichever skill they hold.
Delete ==
    /\ Change
    /\ \E name \in DOMAIN library :
         LET places == {Stem[name]} \X {".md", ".json"}
         IN  /\ library' = Restrict(library, DOMAIN library \ {name})
             /\ files' = Restrict(files, DOMAIN files \ places)
             /\ robbed' = (robbed \cup Held(places)) \ {name}
             /\ halfway' = halfway \ {name}

\* The next process reads the directory.
Restart ==
    /\ Change
    /\ library' \in Libraries(files)
    /\ robbed' = {} /\ halfway' = {}
    /\ UNCHANGED files

SkillsNext == Create \/ Capture \/ Import \/ Update \/ RecordUse \/ Delete \/ Restart
===============================================================================
