------------------------------- MODULE Audit -------------------------------
(***************************************************************************)
(* The two commands of `aegisx cyber` that read a source tree and contact no *)
(* target: audit looks up the declared dependencies in the advisories         *)
(* (aegisx_agent/cyber/cve.py, the manifests in sast.py), and sast looks for   *)
(* credentials, dangerous calls and settings in the files (sast.py).          *)
(*                                                                           *)
(* A version is the sequence of its numbers: what else its text has is not     *)
(* compared.  A declaration is a package with an operator and a version, and   *)
(* an upper bound where it has one.  A line of a file is the set of what the   *)
(* rules can match on it.  Tables of rules are cut to the kinds the engine      *)
(* tells apart.                                                              *)
(*                                                                           *)
(* Neither command opens its OsvClient: the live database is never asked, and  *)
(* every lookup is one in the bundled list.                                   *)
(***************************************************************************)
EXTENDS Integers, Findings, Sequences

CONSTANTS
    MaxFiles,    \* max_files of iter_source_files
    None         \* no report

VARIABLES
    project,    \* the tree that is read: it does not change
    store, report

-----------------------------------------------------------------------------
(* Versions and ranges *)

\* Tuples compare as Python's do: a prefix is less than what it starts.  Nothing
\* is known of a text without numbers, which compares as equal.
Compare(version, bound) ==
    LET common == 1 .. (IF Len(version) < Len(bound) THEN Len(version) ELSE Len(bound))
        differ == {i \in common : version[i] # bound[i]}
        first == CHOOSE i \in differ : \A j \in differ : i <= j
    IN  IF version = <<>> \/ bound = <<>> \/ version = bound THEN 0
        ELSE IF (IF differ = {} THEN Len(version) < Len(bound) ELSE version[first] < bound[first])
        THEN -1 ELSE 1

\* Mutant of Satisfies: an upper bound is itself below it.
SatisfiesClosed(version, clause) ==
    LET order == Compare(version, clause.bound)
    IN  CASE clause.op = ">=" -> order >= 0
          [] clause.op \in {"<=", "<"} -> order <= 0
          [] clause.op = ">" -> order > 0
          [] OTHER -> order = 0

Satisfies(version, clause) ==
    LET order == Compare(version, clause.bound)
    IN  CASE clause.op = ">=" -> order >= 0
          [] clause.op = "<=" -> order <= 0
          [] clause.op = ">" -> order > 0
          [] clause.op = "<" -> order < 0
          [] OTHER -> order = 0

InRange(version, range) ==
    range = {} \/ (version # <<>> /\ \A clause \in range : Satisfies(version, clause))

Below(bound) == [op |-> "<", bound |-> bound]
From(bound) == [op |-> ">=", bound |-> bound]

\* One entry of the bundled list for each ecosystem and each shape of a range.
Advisory(id, ecosystem, package, range, fixed) ==
    [id |-> id, ecosystem |-> ecosystem, package |-> package, range |-> range, fixed |-> fixed]

OfflineAdvisories ==
    {Advisory("rf4c", "pypi", "django", {From(<<3, 0>>), Below(<<3, 2, 4>>)}, <<3, 2, 4>>),
     Advisory("8q59", "pypi", "pyyaml", {Below(<<5, 4>>)}, <<5, 4>>),
     Advisory("35jh", "npm", "lodash", {Below(<<4, 17, 21>>)}, <<4, 17, 21>>),
     Advisory("4374", "go", "net", {Below(<<0, 17, 0>>)}, <<0, 17, 0>>),
     Advisory("0044", "crates.io", "openssl", {Below(<<0, 10, 55>>)}, <<0, 10, 55>>),
     Advisory("36518", "maven", "jackson", {Below(<<2, 13, 2, 1>>)}, <<2, 13, 2, 1>>),
     Advisory("30122", "rubygems", "rack", {Below(<<2, 2, 3>>)}, <<2, 2, 3>>)}

Lookup(ecosystem, package, version) ==
    {a \in OfflineAdvisories :
        a.ecosystem = ecosystem /\ a.package = package /\ InRange(version, a.range)}

-----------------------------------------------------------------------------
(* Manifests *)

Ecosystem(manifest) ==
    CASE manifest \in {"requirements", "pipfile", "pyproject", "poetry"} -> "pypi"
      [] manifest = "package.json" -> "npm"
      [] manifest = "go.mod" -> "go"
      [] manifest = "cargo" -> "crates.io"
      [] manifest = "gemfile" -> "rubygems"
      [] manifest = "composer" -> "packagist"
      [] manifest = "gradle" -> "maven"

\* The operators after which each parser finds the version.  The others leave it
\* empty; "" is a version with no operator.
PackageJson == {"", ">=", "<", "~", "^"}
Requirements == {"==", ">="}
Pipfile == {"==", ">=", "~=", "<", "!="}
PyProject == {"==", ">=", "~=", "<", "!="}
Poetry == {"==", "~=", "^"}
GoMod == {""}
Cargo == {"="}
Gemfile == {"~>"}
Composer == {">=", "~", "^"}
Gradle == {""}

Read(manifest) ==
    CASE manifest = "package.json" -> PackageJson [] manifest = "requirements" -> Requirements
      [] manifest = "pipfile" -> Pipfile [] manifest = "pyproject" -> PyProject
      [] manifest = "poetry" -> Poetry [] manifest = "go.mod" -> GoMod
      [] manifest = "cargo" -> Cargo [] manifest = "gemfile" -> Gemfile
      [] manifest = "composer" -> Composer [] manifest = "gradle" -> Gradle

\* A gem keeps the quotes and the comma of its line, and is no package of the list.
NameOf(d) == IF d.manifest = "gemfile" THEN "quoted" ELSE d.package

\* The numbers of the bound that follows are taken for more of the version.
VersionOf(d) == IF d.op \in Read(d.manifest) THEN d.version \o d.upto ELSE <<>>

-----------------------------------------------------------------------------
(* audit *)

AdvisoryFinding(a, name, version) ==
    [fingerprint |-> <<a.id, name, version>>, severity |-> "high", confidence |-> "probable",
     evidence |-> {"offline"}]

\* A dependency without a version is skipped.
FindingsOf(d) ==
    LET version == VersionOf(d)
    IN  IF version = <<>> THEN {}
        ELSE {AdvisoryFinding(a, NameOf(d), version) :
                  a \in Lookup(Ecosystem(d.manifest), NameOf(d), version)}

AuditDependencies ==
    /\ report = None
    /\ store' = Extend(store, UNION {FindingsOf(d) : d \in project.declares})
    /\ report' = store'
    /\ UNCHANGED project

-----------------------------------------------------------------------------
(* sast *)

SkipDirectories == {"node_modules", "build"}
SkipExtensions == {".png", ".lock"}

Language(suffix) ==
    CASE suffix = ".py" -> "python" [] suffix = ".js" -> "javascript" [] OTHER -> "other"

\* A directory above the tree counts like one in it.
Scannable(file) ==
    /\ {project.above, file.directory} \cap SkipDirectories = {}
    /\ file.suffix \notin SkipExtensions
    /\ ~file.minified /\ ~file.large

\* The files an analysis reads, by their number in the order of the paths.
SourceFiles ==
    LET worth == {i \in DOMAIN project.files : Scannable(project.files[i])}
    IN  {i \in worth : Cardinality(worth \cap 1 .. i) <= MaxFiles}

\* A rule with an entropy test asks the value too.
SecretRules ==
    {[mark |-> "key header", severity |-> "critical", entropy |-> FALSE],
     [mark |-> "assignment", severity |-> "high", entropy |-> TRUE]}

Placeholder(value) == value = "says example"
LowEntropy(value) == value = "repeated"

Secrets(file, text) ==
    {[rule |-> r.mark, severity |-> r.severity, confidence |-> "confirmed"] :
        r \in {r \in SecretRules :
                  \E on \in text : /\ on.mark = r.mark
                                   /\ r.entropy => ~Placeholder(on.value) /\ ~LowEntropy(on.value)}}

\* A rule for calls or settings has the languages it applies to.
SinkRules ==
    {[mark |-> "shell call", severity |-> "critical", languages |-> {"*"}],
     [mark |-> "weak hash", severity |-> "medium", languages |-> {"*"}]}

MisconfigRules ==
    {[mark |-> "any host", severity |-> "medium", languages |-> {"python"}],
     [mark |-> "any origin", severity |-> "medium", languages |-> {"*"}]}

Matched(rules, file, text) ==
    {[rule |-> r.mark, severity |-> r.severity, confidence |-> "probable"] :
        r \in {r \in rules : /\ {"*", Language(file.suffix)} \cap r.languages # {}
                             /\ \E on \in text : on.mark = r.mark}}

ScanLine(file, text) ==
    Secrets(file, text) \cup Matched(SinkRules, file, text) \cup Matched(MisconfigRules, file, text)

ScanFile(file) ==
    UNION {{[fingerprint |-> <<f.rule, file.name, i>>, severity |-> f.severity,
             confidence |-> f.confidence, evidence |-> {"sast"}] : f \in ScanLine(file, file.lines[i])} :
              i \in DOMAIN file.lines}

\* A file that cannot be read is an error of the outcome, and the next is read.
Analyze ==
    /\ report = None
    /\ store' = Extend(store, UNION {ScanFile(project.files[i]) :
                                        i \in {j \in SourceFiles : project.files[j].readable}})
    /\ report' = store'
    /\ UNCHANGED project

\* What a rule can match.
Marks == {r.mark : r \in SecretRules \cup SinkRules \cup MisconfigRules}

\* What a source tree holds.  The rules have no say on a version without numbers, or on
\* what they do not match; only the name of a script says that it is minified.
IsProject(tree) ==
    /\ \A d \in tree.declares : d.version \in Seq(Nat) \ {<<>>}
    /\ Len(tree.files) \in Nat /\ DOMAIN tree.files = 1 .. Len(tree.files)
    /\ \A i \in DOMAIN tree.files :
          /\ tree.files[i].minified => tree.files[i].suffix = ".js"
          /\ \A n \in DOMAIN tree.files[i].lines : \A on \in tree.files[i].lines[n] : on.mark \in Marks

NoProject == [declares |-> {}, files |-> <<>>, above |-> "home"]

=============================================================================
