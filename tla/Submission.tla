------------------------------ MODULE Submission ------------------------------
(***************************************************************************)
(* submission.py: which file of what was submitted is checked, and the     *)
(* audit of a LaTeX bundle that `doctor` makes of it; beside it, what the  *)
(* extraction of a run asks of the same tree.                              *)
(*                                                                         *)
(* A path is [dir, stem, suffix], its directory below the top of the       *)
(* submission.  A tree maps the paths that exist to entries: a file with   *)
(* the references of its active text, in order (comments and literal       *)
(* environments do not count, and every file is UTF-8), a directory, or a  *)
(* link: to a file of the submission, out of it, or nowhere.               *)
(*                                                                         *)
(* A reference is [kind, form, dir, stem, suffix].  Its form is "plain",   *)
(* "up" (it begins with ..), "dynamic" (it holds a macro) or "standard" (a *)
(* class or package that need not be in the bundle).                       *)
(***************************************************************************)
EXTENDS Sequences, SequencesExt, FiniteSets, FiniteSetsExt

\* A tree's entries have one of the kinds File, Directory, Link (with the path
\* it leads to as `target`), NoFile (it leads nowhere) and Outside.
File == "file"
Link == "link"
Directory == "directory"
NoFile == "no file"
Outside == "outside"

\* The directory a command is run in: somewhere else, or the submission.
Elsewhere == "elsewhere"
AtTheTop == "at the top"

Path == [dir : Seq(STRING), stem : STRING, suffix : STRING]
PathAt(dir, stem, suffix) == [dir |-> dir, stem |-> stem, suffix |-> suffix]

Reference ==
    {ref \in [kind : {"include", "class", "style", "bibliography", "image"},
              form : {"plain", "up", "dynamic", "standard"},
              dir : Seq(STRING), stem : STRING, suffix : STRING] :
        ref.form = "standard" => ref.kind \in {"class", "style"}}

IsEntry(entry) == entry.kind = File => entry.refs \in Seq(Reference)
IsTree(tree) == DOMAIN tree \subseteq Path /\ \A p \in DOMAIN tree : IsEntry(tree[p])

TopMain == PathAt(<<>>, "main", "tex")
TopPdf == PathAt(<<>>, "main", "pdf")

\* A name whose casefold is main.tex.
MainStems == {"main", "Main"}

\* Path.resolve: what a path leads to.
Target(tree, p) == IF tree[p].kind = Link THEN tree[p].target ELSE p

Lead(tree, p) ==
    IF p \in DOMAIN tree /\ Target(tree, p) \in DOMAIN tree
    THEN tree[Target(tree, p)].kind ELSE NoFile

IsFile(tree, p) == Lead(tree, p) = File

FilesOf(tree) == {p \in DOMAIN tree : tree[p].kind = File}

\* What is reached from `start` when next[f] is reached from f.
Spread(next, start) ==
    LET closed == {S \in SUBSET DOMAIN next :
                     start \in S /\ \A f \in S : next[f] \subseteq S}
    IN {f \in DOMAIN next : \A S \in closed : f \in S}

-----------------------------------------------------------------------------
Refuse == [ok |-> FALSE]

Accept(path, root) == [ok |-> TRUE, source |-> path, root |-> root]

\* Faulty variant: of several candidates the one nearest the top is taken.
TakeFirst(candidates) ==
    Accept(CHOOSE p \in candidates : \A q \in candidates : Len(p.dir) <= Len(q.dir), <<>>)

\* A single main.tex below the top is taken; several are for --root to choose.
TakeOnly(candidates) ==
    IF \E p \in candidates : candidates = {p}
    THEN Accept(CHOOSE p \in candidates : TRUE, <<>>) ELSE Refuse

\* resolve_submission.  source is <<>>, the directory of the tree, or <<p>>, the
\* file p; root is <<>>, or <<r>> for the --root r, which may be unsafe (absolute,
\* or with a .. in it).  The main.tex or main.pdf at the top is taken for its name,
\* whatever it leads to; what is named has to have a suffix that is known.
ResolveSubmission(tree, source, root) ==
    LET mains == {p \in DOMAIN tree : p.stem \in MainStems /\ p.suffix = "tex"}
        Take(p) == IF IsFile(tree, p) THEN Accept(Target(tree, p), <<>>) ELSE Refuse
        Only(p, suffixes) ==
            IF IsFile(tree, p) /\ Target(tree, p).suffix \in suffixes THEN Take(p) ELSE Refuse
    IN IF source # <<>> THEN
          IF root # <<>> \/ ~Only(source[1], {"tex", "pdf"}).ok THEN Refuse
          ELSE Accept(Target(tree, source[1]), Target(tree, source[1]).dir)
       ELSE IF root # <<>> THEN
          IF root[1].unsafe THEN Refuse ELSE Only(root[1].path, {"tex"})
       ELSE IF Lead(tree, TopMain) \in {File, Outside} THEN Take(TopMain)
       ELSE IF \E p \in mains : ~IsFile(tree, p) THEN Refuse
       ELSE IF mains # {} THEN TakeOnly({Target(tree, p) : p \in mains})
       ELSE Take(TopPdf)

-----------------------------------------------------------------------------
(* The audit. *)

SuffixesOf(kind) ==
    CASE kind = "include" -> <<"tex">>
      [] kind = "class" -> <<"cls">>
      [] kind = "style" -> <<"sty">>
      [] kind = "bibliography" -> <<"bib">>
      [] kind = "image" -> <<"pdf", "png", "jpg", "jpeg", "eps", "svg">>

\* _dependency_candidates: beside the file first, then below the root; a name
\* that has a suffix keeps it.
DependencyCandidates(root, current, ref) ==
    LET suffixes == IF ref.suffix # "" THEN <<ref.suffix>> ELSE SuffixesOf(ref.kind)
        Below(base) == [i \in 1 .. Len(suffixes) |->
                          PathAt(base \o ref.dir, ref.stem, suffixes[i])]
    IN Below(current.dir) \o (IF current.dir = root THEN <<>> ELSE Below(root))

\* resolved.is_relative_to(root)
Escapes(tree, root, p) ==
    \/ Lead(tree, p) = Outside
    \/ IsFile(tree, p) /\ ~IsPrefix(root, Target(tree, p).dir)

\* The candidates that lead to something, and those that are no directory.
There(tree, candidates) == {i \in DOMAIN candidates : Lead(tree, candidates[i]) # NoFile}
Deciding(tree, candidates) ==
    {i \in There(tree, candidates) : Lead(tree, candidates[i]) # Directory}

\* _dependency_exists: the first candidate that is not absent and not a
\* directory decides.
DependencyStatus(tree, root, candidates) ==
    LET deciding == Deciding(tree, candidates) IN
    IF deciding = {} THEN "missing"
    ELSE IF Escapes(tree, root, candidates[Min(deciding)]) THEN "outside" ELSE "found"

\* The first candidate that exists at all is the one followed.
ChildOf(tree, candidates) == candidates[Min(There(tree, candidates))]

\* What is wrong with the references of one file: unsafe, leading outside or
\* missing, or an include that is found behind a directory of its name.
OwnProblems(tree, root, current) ==
    UNION {
        LET ref == tree[current].refs[i]
            candidates == DependencyCandidates(root, current, ref)
            status == DependencyStatus(tree, root, candidates)
        IN CASE ref.form \in {"dynamic", "standard"} -> {}
             [] ref.form = "up" -> {[kind |-> ref.kind, why |-> "unsafe"]}
             [] ref.form = "plain" /\ status # "found" -> {[kind |-> ref.kind, why |-> status]}
             [] ref.form = "plain" /\ status = "found" ->
                  IF ref.kind = "include" /\ ~IsFile(tree, ChildOf(tree, candidates))
                  THEN {[kind |-> "include", why |-> "unreadable"]} ELSE {}
        : i \in DOMAIN tree[current].refs}

\* The files the audit goes on to from each file.
AuditIncludes(tree, root) ==
    [current \in FilesOf(tree) |->
        {child \in FilesOf(tree) : \E i \in DOMAIN tree[current].refs :
            LET ref == tree[current].refs[i]
                candidates == DependencyCandidates(root, current, ref)
            IN /\ ref.kind = "include" /\ ref.form = "plain"
               /\ DependencyStatus(tree, root, candidates) = "found"
               /\ child = Target(tree, ChildOf(tree, candidates))}]

\* Faulty variant: what the main file includes is not looked into.
MainFileProblems(tree, root, main) == OwnProblems(tree, root, main)

\* _collect_dependency_diagnostics, as the set of what is wrong in the main file
\* and the files it includes.  A file that is being visited adds nothing, and one
\* that is visited again nothing new.
DependencyProblems(tree, root, main) ==
    UNION {OwnProblems(tree, root, f) : f \in Spread(AuditIncludes(tree, root), main)}

\* validate_latex_bundle
BundleProblems(tree, root, main) == DependencyProblems(tree, root, main)

-----------------------------------------------------------------------------
(* The same tree as a run reads it (extract/latex.py). *)

\* _resolve_source: a name that exists, as it is written, in the directory the
\* command is run in, or else the one beside the including file.
Under(base, ref) ==
    PathAt(base \o ref.dir, ref.stem, IF ref.suffix = "" THEN "tex" ELSE ref.suffix)

IncludePath(tree, cwd, current, ref) ==
    LET written == PathAt(ref.dir, ref.stem, ref.suffix) IN
    IF cwd = AtTheTop /\ ref.form = "plain" /\ Lead(tree, written) # NoFile THEN Under(<<>>, ref)
    ELSE IF ref.form = "up" THEN Under(Front(current.dir), ref)
    ELSE Under(current.dir, ref)

\* _resolve_bibliography: below the root, never up; one that is not there is no
\* error.
BibliographyError(tree, root, ref) ==
    IF \/ ref.form = "up"
       \/ Escapes(tree, root, PathAt(root \o ref.dir, ref.stem, "bib"))
    THEN {"UnsafePathError"} ELSE {}

\* Why the references of one file cannot be had.  Each include must be there;
\* .. is allowed within the root.
OwnErrors(tree, root, cwd, current) ==
    UNION {
        LET ref == tree[current].refs[i]
            path == IncludePath(tree, cwd, current, ref)
        IN CASE ref.kind = "bibliography" -> BibliographyError(tree, root, ref)
             [] ref.kind = "include" ->
                  IF ref.form = "dynamic" THEN {"IncludeNotFoundError"}
                  ELSE IF ref.form = "up" /\ current.dir = <<>> THEN {"UnsafePathError"}
                  ELSE IF Lead(tree, path) = NoFile THEN {"IncludeNotFoundError"}
                  ELSE IF Escapes(tree, root, path) THEN {"UnsafePathError"}
                  ELSE IF ~IsFile(tree, path) THEN {"SourceNotFoundError"} ELSE {}
             [] OTHER -> {}
        : i \in DOMAIN tree[current].refs}

\* The files the expansion goes on to from each file.
ExpansionIncludes(tree, root, cwd) ==
    [current \in FilesOf(tree) |->
        {child \in FilesOf(tree) : \E i \in DOMAIN tree[current].refs :
            LET ref == tree[current].refs[i]
                path == IncludePath(tree, cwd, current, ref)
            IN /\ ref.kind = "include" /\ ref.form \in {"plain", "up"}
               /\ ref.form = "up" => current.dir # <<>>
               /\ IsFile(tree, path) /\ ~Escapes(tree, root, path)
               /\ child = Target(tree, path)}]

\* _expand_file and discover_bibliography_paths, as the set of what is wrong; a
\* file that is reached from itself is a cycle.
ExtractionErrors(tree, root, cwd, main) ==
    LET includes == ExpansionIncludes(tree, root, cwd)
        read == Spread(includes, main)
    IN (UNION {OwnErrors(tree, root, cwd, f) : f \in read})
       \cup {e \in {"IncludeCycleError"} :
               \E f \in read : \E g \in includes[f] : f \in Spread(includes, g)}

\* project_files: one entry that leads nowhere or outside, and no file of the
\* project can be listed.
ProjectIsListable(tree, root) ==
    \A p \in DOMAIN tree : IsPrefix(root, p.dir) =>
        Lead(tree, p) # NoFile /\ ~Escapes(tree, root, p)

\* What the hash of a project stands for: the files below its root.
ProjectFiles(tree, root) ==
    [p \in {p \in DOMAIN tree : IsPrefix(root, p.dir) /\ IsFile(tree, p)} |-> tree[p]]
=============================================================================
