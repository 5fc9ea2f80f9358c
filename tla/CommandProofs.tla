---------------------------- MODULE CommandProofs ----------------------------
(***************************************************************************)
(* What a run of the command line is made of belongs together, whatever is *)
(* edited while it runs; and the two readings of an \input graph, the      *)
(* audit of `doctor` and the expansion of a run, agree on every tree.      *)
(***************************************************************************)
EXTENDS Command, SequenceTheorems, TLAPS

-----------------------------------------------------------------------------
(* What is reached, and the first candidate that is there.                 *)

\* Spread is closed under the function it is made of, and holds its start.
LEMMA SpreadClosed ==
    ASSUME NEW next, NEW start \in DOMAIN next,
           \A f \in DOMAIN next : next[f] \subseteq DOMAIN next
    PROVE  /\ start \in Spread(next, start)
           /\ Spread(next, start) \subseteq DOMAIN next
           /\ \A f \in Spread(next, start) : next[f] \subseteq Spread(next, start)
BY DEF Spread

\* It is the least such set.
LEMMA SpreadLeast ==
    ASSUME NEW next, NEW start, NEW S \in SUBSET DOMAIN next,
           start \in S, \A f \in S : next[f] \subseteq S
    PROVE  Spread(next, start) \subseteq S
BY DEF Spread

\* The first candidate that is there is the child, and decides unless it is a
\* directory.
LEMMA FirstThere ==
    ASSUME NEW t, NEW c, NEW k \in DOMAIN c, DOMAIN c \subseteq Nat,
           Lead(t, c[k]) # NoFile,
           \A i \in DOMAIN c : i < k => Lead(t, c[i]) = NoFile
    PROVE  /\ ChildOf(t, c) = c[k]
           /\ Lead(t, c[k]) # Directory =>
                Deciding(t, c) # {} /\ Min(Deciding(t, c)) = k
<1>1. k \in There(t, c) /\ \A i \in There(t, c) : i \in Nat /\ k <= i
  BY DEF There
<1>2. Min(There(t, c)) = k
  BY <1>1 DEF Min
<1>3. ASSUME Lead(t, c[k]) # Directory
      PROVE  Deciding(t, c) # {} /\ Min(Deciding(t, c)) = k
  <2>1. k \in Deciding(t, c) /\ \A i \in Deciding(t, c) : i \in Nat /\ k <= i
    BY <1>1, <1>3 DEF Deciding
  <2>. QED
    BY <2>1 DEF Min
<1>. QED
  BY <1>2, <1>3 DEF ChildOf

\* The candidates of an include: beside the file, then below the root.
LEMMA IncludeCandidates ==
    ASSUME NEW root, NEW f, NEW ref \in Reference, ref.kind = "include"
    PROVE  LET c == DependencyCandidates(root, f, ref) IN
           /\ c[1] = Under(f.dir, ref) /\ 1 \in DOMAIN c /\ DOMAIN c \subseteq Nat \ {0}
           /\ f.dir # root => 2 \in DOMAIN c /\ c[2] = Under(root, ref)
<1> DEFINE suffixes == IF ref.suffix # "" THEN <<ref.suffix>> ELSE SuffixesOf(ref.kind)
           Below(base) == [i \in 1 .. Len(suffixes) |->
                             PathAt(base \o ref.dir, ref.stem, suffixes[i])]
<1>1. Len(suffixes) = 1 /\ suffixes[1] = IF ref.suffix = "" THEN "tex" ELSE ref.suffix
  BY DEF SuffixesOf
<1>2. ASSUME NEW base
      PROVE  Below(base) = <<Under(base, ref)>>
  <2>1. Below(base) = [i \in 1 .. 1 |-> PathAt(base \o ref.dir, ref.stem, suffixes[i])]
    BY <1>1
  <2>2. [i \in 1 .. 1 |-> PathAt(base \o ref.dir, ref.stem, suffixes[i])]
          = [i \in 1 .. 1 |-> Under(base, ref)]
    <3>1. \A i \in 1 .. 1 : i = 1
      OBVIOUS
    <3>2. PathAt(base \o ref.dir, ref.stem, suffixes[1]) = Under(base, ref)
      BY <1>1 DEF Under
    <3> HIDE DEF suffixes
    <3>. QED
      BY <3>1, <3>2
  <2>3. [i \in 1 .. 1 |-> Under(base, ref)] = <<Under(base, ref)>>
    OBVIOUS
  <2>. QED
    BY <2>1, <2>2, <2>3
<1>3. DependencyCandidates(root, f, ref)
        = Below(f.dir) \o (IF f.dir = root THEN <<>> ELSE Below(root))
  BY DEF DependencyCandidates
<1> HIDE DEF suffixes, Below
<1>4. ASSUME NEW x, NEW y
      PROVE  /\ <<x>> \o <<>> = <<x>>
             /\ DOMAIN (<<x>> \o <<y>>) = 1 .. 2
             /\ (<<x>> \o <<y>>)[1] = x /\ (<<x>> \o <<y>>)[2] = y
  <2>1. <<x>> \in Seq({x, y}) /\ <<y>> \in Seq({x, y})
    OBVIOUS
  <2>2. <<x>> \o <<>> = <<x>>
    BY <2>1, ConcatEmptySeq
  <2>3. /\ <<x>> \o <<y>> \in Seq({x, y}) /\ Len(<<x>> \o <<y>>) = 2
        /\ (<<x>> \o <<y>>)[1] = x /\ (<<x>> \o <<y>>)[2] = y
    BY <2>1, ConcatProperties
  <2>4. DOMAIN (<<x>> \o <<y>>) = 1 .. 2
    BY <2>3
  <2>. QED
    BY <2>2, <2>3, <2>4
<1>5. DependencyCandidates(root, f, ref)
        = Below(f.dir) \o (IF f.dir = root THEN <<>> ELSE <<Under(root, ref)>>)
  BY <1>2, <1>3
<1>6. CASE f.dir = root
  <2>1. DependencyCandidates(root, f, ref) = <<Under(f.dir, ref)>>
    BY <1>2, <1>4, <1>5, <1>6
  <2>. QED
    BY <2>1, <1>6
<1>7. CASE f.dir # root
  <2>1. DependencyCandidates(root, f, ref) = <<Under(f.dir, ref)>> \o <<Under(root, ref)>>
    BY <1>2, <1>5, <1>7
  <2>. QED
    BY <1>4, <2>1
<1>. QED
  BY <1>6, <1>7

-----------------------------------------------------------------------------
(* The two readings of an \input graph.                                    *)

\* An include of a project that is not shadowed, which the run finds, is the one
\* the audit follows, and neither absent nor behind a directory.
LEMMA RunFindsWhatIsFollowed ==
    ASSUME NEW t, IsTree(t), NEW root, NEW cwd, ~Shadowed(t, root, cwd),
           NEW f \in FilesOf(t), NEW i \in DOMAIN t[f].refs,
           t[f].refs[i].kind = "include", t[f].refs[i].form = "plain",
           Lead(t, IncludePath(t, cwd, f, t[f].refs[i])) # NoFile
    PROVE  LET path == IncludePath(t, cwd, f, t[f].refs[i])
               c == DependencyCandidates(root, f, t[f].refs[i])
           IN /\ ChildOf(t, c) = path
              /\ Lead(t, path) # Directory =>
                   DependencyStatus(t, root, c) =
                     IF Escapes(t, root, path) THEN "outside" ELSE "found"
<1> DEFINE ref == t[f].refs[i]
           path == IncludePath(t, cwd, f, ref)
           beside == Under(f.dir, ref)
           c == DependencyCandidates(root, f, ref)
<1>1. ref \in Reference
  BY DEF IsTree, IsEntry, FilesOf
<1>2. /\ c[1] = beside /\ 1 \in DOMAIN c /\ DOMAIN c \subseteq Nat \ {0}
      /\ f.dir # root => 2 \in DOMAIN c /\ c[2] = Under(root, ref)
  BY <1>1, IncludeCandidates
<1>3. \/ path = beside
      \/ path = Under(<<>>, ref) /\ Lead(t, beside) = NoFile /\ root = <<>>
  BY DEF IncludePath, Shadowed
<1> SUFFICES \E k \in DOMAIN c : c[k] = path /\ \A n \in DOMAIN c : n < k => Lead(t, c[n]) = NoFile
  <2> HIDE DEF path, c
  <2>1. PICK k \in DOMAIN c : c[k] = path /\ \A n \in DOMAIN c : n < k => Lead(t, c[n]) = NoFile
    OBVIOUS
  <2>2. /\ ChildOf(t, c) = path
        /\ Lead(t, path) # Directory => Deciding(t, c) # {} /\ Min(Deciding(t, c)) = k
    BY <1>2, <2>1, FirstThere DEF path
  <2>. QED
    BY <2>1, <2>2 DEF DependencyStatus, path, c
<1> HIDE DEF path, c, beside
<1>4. CASE path = beside
  BY <1>2, <1>4
<1>5. CASE path # beside
  <2>1. path = Under(<<>>, ref) /\ Lead(t, beside) = NoFile /\ root = <<>>
    BY <1>3, <1>5
  <2>2. f.dir # root
    BY <1>5, <2>1 DEF beside
  <2>3. c[2] = path /\ 2 \in DOMAIN c /\ \A n \in DOMAIN c : n < 2 => n = 1
    BY <1>2, <2>1, <2>2
  <2>. QED
    BY <1>2, <2>1, <2>3
<1>. QED
  BY <1>4, <1>5

\* What both traversals go on to are files of the tree.
LEMMA IncludesAreFiles ==
    ASSUME NEW t, NEW root, NEW cwd
    PROVE  /\ DOMAIN AuditIncludes(t, root) = FilesOf(t)
           /\ \A f \in FilesOf(t) : AuditIncludes(t, root)[f] \subseteq FilesOf(t)
           /\ DOMAIN ExpansionIncludes(t, root, cwd) = FilesOf(t)
           /\ \A f \in FilesOf(t) : ExpansionIncludes(t, root, cwd)[f] \subseteq FilesOf(t)
BY DEF AuditIncludes, ExpansionIncludes

\* Where the references of a file can all be had, the run expands every include
\* the audit follows, and the audit misses none.
LEMMA ExpandedIsAudited ==
    ASSUME NEW t, IsTree(t), NEW root, NEW cwd, ~Shadowed(t, root, cwd),
           NEW f \in FilesOf(t), OwnErrors(t, root, cwd, f) = {}
    PROVE  /\ AuditIncludes(t, root)[f] \subseteq ExpansionIncludes(t, root, cwd)[f]
           /\ [kind |-> "include", why |-> "missing"] \notin OwnProblems(t, root, f)
<1> DEFINE ref(i) == t[f].refs[i]
           path(i) == IncludePath(t, cwd, f, ref(i))
           c(i) == DependencyCandidates(root, f, ref(i))
<1>1. ASSUME NEW i \in DOMAIN t[f].refs, ref(i).kind = "include", ref(i).form = "plain"
      PROVE  /\ IsFile(t, path(i)) /\ ~Escapes(t, root, path(i))
             /\ ChildOf(t, c(i)) = path(i)
             /\ DependencyStatus(t, root, c(i)) = "found"
  <2>1. /\ Lead(t, path(i)) # NoFile /\ ~Escapes(t, root, path(i)) /\ IsFile(t, path(i))
    BY <1>1 DEF OwnErrors
  <2>2. Lead(t, path(i)) # Directory
    BY <2>1 DEF IsFile, File, Directory
  <2>. QED
    BY <1>1, <2>1, <2>2, RunFindsWhatIsFollowed
<1>2. ASSUME NEW child \in AuditIncludes(t, root)[f]
      PROVE  child \in ExpansionIncludes(t, root, cwd)[f]
  <2>1. PICK i \in DOMAIN t[f].refs :
           /\ ref(i).kind = "include" /\ ref(i).form = "plain"
           /\ child = Target(t, ChildOf(t, c(i))) /\ child \in FilesOf(t)
    BY <1>2 DEF AuditIncludes
  <2>2. child = Target(t, path(i)) /\ IsFile(t, path(i)) /\ ~Escapes(t, root, path(i))
    BY <1>1, <2>1
  <2>. QED
    BY <2>1, <2>2 DEF ExpansionIncludes
<1>3. ASSUME [kind |-> "include", why |-> "missing"] \in OwnProblems(t, root, f)
      PROVE  FALSE
  <2>1. PICK i \in DOMAIN t[f].refs :
           [kind |-> "include", why |-> "missing"] \in
             CASE ref(i).form \in {"dynamic", "standard"} -> {}
               [] ref(i).form = "up" -> {[kind |-> ref(i).kind, why |-> "unsafe"]}
               [] ref(i).form = "plain" /\ DependencyStatus(t, root, c(i)) # "found" ->
                    {[kind |-> ref(i).kind, why |-> DependencyStatus(t, root, c(i))]}
               [] ref(i).form = "plain" /\ DependencyStatus(t, root, c(i)) = "found" ->
                    IF ref(i).kind = "include" /\ ~IsFile(t, ChildOf(t, c(i)))
                    THEN {[kind |-> "include", why |-> "unreadable"]} ELSE {}
    BY <1>3 DEF OwnProblems
  <2>2. ref(i) \in Reference
    BY DEF IsTree, IsEntry, FilesOf
  <2> DEFINE status == DependencyStatus(t, root, c(i))
             unread == ~IsFile(t, ChildOf(t, c(i)))
  <2> HIDE DEF status, unread
  <2>3. ref(i).form = "plain" /\ ref(i).kind = "include" /\ status # "found"
    BY <2>1, <2>2 DEF Reference, status, unread
  <2>. QED
    BY <1>1, <2>3 DEF status
<1>. QED
  BY <1>2, <1>3

\* In a tree the audit finds nothing wrong with, whatever a file the audit reads
\* includes in the run is included in the audit.
LEMMA AuditedIsExpanded ==
    ASSUME NEW t, IsTree(t), NEW root, NEW cwd, ~Shadowed(t, root, cwd),
           NEW f \in FilesOf(t), OwnProblems(t, root, f) = {}
    PROVE  ExpansionIncludes(t, root, cwd)[f] \subseteq AuditIncludes(t, root)[f]
<1> DEFINE ref(i) == t[f].refs[i]
           path(i) == IncludePath(t, cwd, f, ref(i))
           c(i) == DependencyCandidates(root, f, ref(i))
<1> SUFFICES ASSUME NEW child \in ExpansionIncludes(t, root, cwd)[f]
             PROVE  child \in AuditIncludes(t, root)[f]
  OBVIOUS
<1>1. PICK i \in DOMAIN t[f].refs :
         /\ ref(i).kind = "include" /\ ref(i).form \in {"plain", "up"}
         /\ IsFile(t, path(i)) /\ ~Escapes(t, root, path(i))
         /\ child \in FilesOf(t) /\ child = Target(t, path(i))
  BY DEF ExpansionIncludes
<1>2. ref(i).form # "up"
  BY DEF OwnProblems
<1>3. /\ Lead(t, path(i)) # NoFile /\ Lead(t, path(i)) # Directory
  BY <1>1 DEF IsFile, File, NoFile, Directory
<1>4. /\ ChildOf(t, c(i)) = path(i) /\ DependencyStatus(t, root, c(i)) = "found"
  BY <1>1, <1>2, <1>3, RunFindsWhatIsFollowed
<1>. QED
  BY <1>1, <1>2, <1>4 DEF AuditIncludes

\* What the run misses in a file the audit found nothing wrong with is what the
\* audit does not look for.
LEMMA UnauditedError ==
    ASSUME NEW t, IsTree(t), NEW root \in Seq(STRING), NEW cwd, ~Shadowed(t, root, cwd),
           NEW f \in FilesOf(t), OwnProblems(t, root, f) = {},
           ProjectIsListable(t, root), OwnErrors(t, root, cwd, f) # {}
    PROVE  \E i \in DOMAIN t[f].refs :
             LET ref == t[f].refs[i] IN
             /\ ref.kind = "include"
             /\ \/ ref.form = "dynamic"
                \/ /\ Lead(t, IncludePath(t, cwd, f, ref)) = NoFile
                   /\ DependencyStatus(t, root, DependencyCandidates(root, f, ref)) = "found"
<1> DEFINE ref(i) == t[f].refs[i]
           path(i) == IncludePath(t, cwd, f, ref(i))
           c(i) == DependencyCandidates(root, f, ref(i))
           status(i) == DependencyStatus(t, root, c(i))
           unread(i) == ~IsFile(t, ChildOf(t, c(i)))
           inclError(i) ==
             IF ref(i).form = "dynamic" THEN {"IncludeNotFoundError"}
             ELSE IF ref(i).form = "up" /\ f.dir = <<>> THEN {"UnsafePathError"}
             ELSE IF Lead(t, path(i)) = NoFile THEN {"IncludeNotFoundError"}
             ELSE IF Escapes(t, root, path(i)) THEN {"UnsafePathError"}
             ELSE IF ~IsFile(t, path(i)) THEN {"SourceNotFoundError"} ELSE {}
<1>1. ASSUME NEW i \in DOMAIN t[f].refs
      PROVE  /\ ref(i) \in Reference
             /\ ref(i).form # "up"
             /\ ref(i).form = "plain" => status(i) = "found"
             /\ ref(i).form = "plain" /\ ref(i).kind = "include" => ~unread(i)
  <2>1. ref(i) \in Reference
    BY DEF IsTree, IsEntry, FilesOf
  <2>2. {} = CASE ref(i).form \in {"dynamic", "standard"} -> {}
               [] ref(i).form = "up" -> {[kind |-> ref(i).kind, why |-> "unsafe"]}
               [] ref(i).form = "plain" /\ status(i) # "found" ->
                    {[kind |-> ref(i).kind, why |-> status(i)]}
               [] ref(i).form = "plain" /\ status(i) = "found" ->
                    IF ref(i).kind = "include" /\ unread(i)
                    THEN {[kind |-> "include", why |-> "unreadable"]} ELSE {}
    BY DEF OwnProblems
  <2> HIDE DEF status, unread
  <2>. QED
    BY <2>1, <2>2 DEF Reference
<1>2. PICK i \in DOMAIN t[f].refs :
         \/ ref(i).kind = "bibliography" /\ BibliographyError(t, root, ref(i)) # {}
         \/ ref(i).kind = "include" /\ inclError(i) # {}
  BY DEF OwnErrors
<1>3. CASE ref(i).kind = "bibliography"
  <2>1. BibliographyError(t, root, ref(i)) # {}
    BY <1>2, <1>3
  <2>2. Escapes(t, root, PathAt(root \o ref(i).dir, ref(i).stem, "bib"))
    BY <1>1, <2>1 DEF BibliographyError
  <2> DEFINE p == PathAt(root \o ref(i).dir, ref(i).stem, "bib")
  <2>3. p \in DOMAIN t
    BY <2>2 DEF Escapes, IsFile, Lead, NoFile, Outside, File
  <2>4. ref(i).dir \in Seq(STRING)
    BY <1>1 DEF Reference
  <2>5. IsPrefix(root, root \o ref(i).dir)
    BY <2>4 DEF IsPrefix
  <2>6. p.dir = root \o ref(i).dir
    BY DEF PathAt
  <2>. QED
    BY <2>2, <2>3, <2>5, <2>6 DEF ProjectIsListable
<1>4. CASE ref(i).kind = "include" /\ ref(i).form = "plain"
  <2>1. CASE Lead(t, path(i)) = NoFile
    BY <1>1, <1>4, <2>1
  <2>2. CASE Lead(t, path(i)) # NoFile
    <3>1. ChildOf(t, c(i)) = path(i)
      BY <1>4, <2>2, RunFindsWhatIsFollowed
    <3>2. IsFile(t, path(i))
      BY <1>1, <1>4, <3>1
    <3>3. Lead(t, path(i)) # Directory
      BY <3>2 DEF IsFile, File, Directory
    <3>4. ~Escapes(t, root, path(i))
      BY <1>1, <1>4, <2>2, <3>3, RunFindsWhatIsFollowed
    <3>5. inclError(i) = {}
      BY <1>4, <2>2, <3>2, <3>4
    <3>. QED
      BY <1>2, <1>4, <3>5
  <2>. QED
    BY <2>1, <2>2
<1>5. CASE ref(i).kind = "include" /\ ref(i).form # "plain"
  BY <1>1, <1>5 DEF Reference
<1>. QED
  BY <1>2, <1>3, <1>4, <1>5

\* A project whose references can all be had is complete for the audit.
LEMMA ReadableIsComplete ==
    ASSUME NEW t, IsTree(t), NEW root, NEW cwd, ~Shadowed(t, root, cwd),
           NEW main \in FilesOf(t), ExtractionErrors(t, root, cwd, main) = {}
    PROVE  [kind |-> "include", why |-> "missing"] \notin DependencyProblems(t, root, main)
<1> DEFINE audited == Spread(AuditIncludes(t, root), main)
           read == Spread(ExpansionIncludes(t, root, cwd), main)
<1>1. \A f \in read : OwnErrors(t, root, cwd, f) = {}
  BY DEF ExtractionErrors
<1>2. /\ main \in read /\ read \subseteq FilesOf(t)
      /\ \A f \in read : ExpansionIncludes(t, root, cwd)[f] \subseteq read
  <2> HIDE DEF read
  <2>. QED
    BY IncludesAreFiles, SpreadClosed DEF read
<1>3. \A f \in read : AuditIncludes(t, root)[f] \subseteq ExpansionIncludes(t, root, cwd)[f]
  BY <1>1, <1>2, ExpandedIsAudited
<1>4. audited \subseteq read
  <2>1. read \in SUBSET DOMAIN AuditIncludes(t, root)
    BY <1>2, IncludesAreFiles
  <2>2. \A f \in read : AuditIncludes(t, root)[f] \subseteq read
    BY <1>2, <1>3
  <2> HIDE DEF read
  <2>. QED
    BY <1>2, <2>1, <2>2, SpreadLeast
<1>5. \A f \in audited :
        [kind |-> "include", why |-> "missing"] \notin OwnProblems(t, root, f)
  BY <1>1, <1>2, <1>4, ExpandedIsAudited
<1>. QED
  BY <1>5 DEF DependencyProblems

\* A project the audit finds complete can be read, but for what the audit does
\* not look for.
LEMMA CompleteIsReadable ==
    ASSUME NEW t, IsTree(t), NEW submission, NEW cwd,
           submission.root \in Seq(STRING), submission.source \in FilesOf(t),
           ~Shadowed(t, submission.root, cwd),
           DependencyProblems(t, submission.root, submission.source) = {},
           ~OutOfTheAudit(t, submission, cwd)
    PROVE  ExtractionErrors(t, submission.root, cwd, submission.source) = {}
<1> DEFINE root == submission.root
           main == submission.source
           audited == Spread(AuditIncludes(t, root), main)
           read == Spread(ExpansionIncludes(t, root, cwd), main)
<1>1. \A f \in audited : OwnProblems(t, root, f) = {}
  BY DEF DependencyProblems
<1>2. /\ main \in audited /\ audited \subseteq FilesOf(t)
      /\ \A f \in audited : AuditIncludes(t, root)[f] \subseteq audited
  <2> HIDE DEF audited
  <2>. QED
    BY IncludesAreFiles, SpreadClosed DEF audited
<1>3. read \subseteq audited
  <2>1. \A f \in audited : ExpansionIncludes(t, root, cwd)[f] \subseteq audited
    BY <1>1, <1>2, AuditedIsExpanded
  <2>2. audited \in SUBSET DOMAIN ExpansionIncludes(t, root, cwd)
    BY <1>2, IncludesAreFiles
  <2> HIDE DEF audited
  <2>. QED
    BY <1>2, <2>1, <2>2, SpreadLeast
<1>4. ASSUME NEW f \in read, OwnErrors(t, root, cwd, f) # {}
      PROVE  FALSE
  <2>1. f \in audited /\ f \in FilesOf(t) /\ OwnProblems(t, root, f) = {}
    BY <1>1, <1>2, <1>3
  <2>2. ProjectIsListable(t, root)
    BY DEF OutOfTheAudit
  <2>. QED
    BY <1>4, <2>1, <2>2, UnauditedError DEF OutOfTheAudit
<1>5. "IncludeCycleError" \notin ExtractionErrors(t, root, cwd, main)
  BY DEF OutOfTheAudit
<1>. QED
  BY <1>4, <1>5 DEF ExtractionErrors

\* What a submission resolves to is a file of it.
LEMMA ResolvedIsFile ==
    ASSUME NEW t, IsTree(t), NEW source, NEW root,
           ResolveSubmission(t, source, root).ok
    PROVE  LET submission == ResolveSubmission(t, source, root) IN
           /\ submission.source \in FilesOf(t) /\ IsFile(t, submission.source)
           /\ submission.root \in Seq(STRING)
<1> DEFINE submission == ResolveSubmission(t, source, root)
           mains == {p \in DOMAIN t : p.stem \in MainStems /\ p.suffix = "tex"}
           Take(p) == IF IsFile(t, p) THEN Accept(Target(t, p), <<>>) ELSE Refuse
           Only(p, suffixes) ==
             IF IsFile(t, p) /\ Target(t, p).suffix \in suffixes THEN Take(p) ELSE Refuse
           targets == {Target(t, p) : p \in mains}
<1>1. ASSUME NEW p, IsFile(t, p)
      PROVE  Target(t, p) \in FilesOf(t) /\ IsFile(t, Target(t, p)) /\ Target(t, p).dir \in Seq(STRING)
  <2>1. Target(t, p) \in DOMAIN t /\ t[Target(t, p)].kind = File
    BY <1>1 DEF IsFile, Lead, File, NoFile
  <2>2. Target(t, Target(t, p)) = Target(t, p)
    BY <2>1 DEF Target, File, Link
  <2>3. Target(t, p) \in Path
    BY <2>1 DEF IsTree
  <2>. QED
    BY <2>1, <2>2, <2>3 DEF FilesOf, IsFile, Lead, Path
<1>2. ASSUME NEW p, NEW suffixes, Only(p, suffixes).ok
      PROVE  /\ Only(p, suffixes) = Accept(Target(t, p), <<>>)
             /\ IsFile(t, p)
  BY <1>2 DEF Refuse
<1>3. \/ \E p : IsFile(t, p) /\ submission = Accept(Target(t, p), <<>>)
      \/ \E p : IsFile(t, p) /\ submission = Accept(Target(t, p), Target(t, p).dir)
  <2>1. CASE source # <<>>
    <3>1. submission = IF root # <<>> \/ ~Only(source[1], {"tex", "pdf"}).ok THEN Refuse
                       ELSE Accept(Target(t, source[1]), Target(t, source[1]).dir)
      BY <2>1 DEF ResolveSubmission
    <3>2. submission = Accept(Target(t, source[1]), Target(t, source[1]).dir)
          /\ Only(source[1], {"tex", "pdf"}).ok
      BY <3>1 DEF Refuse
    <3>. QED
      BY <1>2, <3>2
  <2>2. CASE source = <<>> /\ \E p, suffixes : submission \in {Only(p, suffixes), Take(p)}
    BY <1>2, <2>2 DEF Refuse
  <2>3. CASE source = <<>> /\ submission = TakeOnly(targets) /\ \A p \in mains : IsFile(t, p)
    <3>1. PICK q \in targets : targets = {q}
      BY <2>3 DEF TakeOnly, Refuse
    <3>2. submission = Accept(q, <<>>)
      BY <2>3, <3>1 DEF TakeOnly
    <3>. QED
      BY <2>3, <3>1, <3>2
  <2>4. \/ source # <<>>
        \/ source = <<>> /\ \E p, suffixes : submission \in {Only(p, suffixes), Take(p)}
        \/ source = <<>> /\ submission = TakeOnly(targets) /\ \A p \in mains : IsFile(t, p)
    BY DEF ResolveSubmission, Refuse
  <2>. QED
    BY <2>1, <2>2, <2>3, <2>4
<1>4. <<>> \in Seq(STRING)
  OBVIOUS
<1> HIDE DEF submission
<1>5. submission.source \in FilesOf(t) /\ IsFile(t, submission.source) /\ submission.root \in Seq(STRING)
  <2>1. CASE \E p : IsFile(t, p) /\ submission = Accept(Target(t, p), <<>>)
    <3>1. PICK p : IsFile(t, p) /\ submission = Accept(Target(t, p), <<>>)
      BY <2>1
    <3>2. submission.source = Target(t, p) /\ submission.root = <<>>
      BY <3>1 DEF Accept
    <3>. QED
      BY <1>1, <1>4, <3>1, <3>2
  <2>2. CASE \E p : IsFile(t, p) /\ submission = Accept(Target(t, p), Target(t, p).dir)
    <3>1. PICK p : IsFile(t, p) /\ submission = Accept(Target(t, p), Target(t, p).dir)
      BY <2>2
    <3>2. submission.source = Target(t, p) /\ submission.root = Target(t, p).dir
      BY <3>1 DEF Accept
    <3>. QED
      BY <1>1, <3>1, <3>2
  <2>. QED
    BY <1>3, <2>1, <2>2
<1>. QED
  BY <1>5 DEF submission

-----------------------------------------------------------------------------
(* Another thesis                                                          *)

\* What is taken is all there is.
LEMMA OnlyOneIsTaken ==
    ASSUME NEW S, TakeOnly(S).ok
    PROVE  \E x : S = {x} /\ TakeOnly(S).source = x
<1>1. PICK x \in S : S = {x}
  BY DEF TakeOnly, Refuse
<1>2. (CHOOSE y \in S : TRUE) = x
  BY <1>1
<1>3. TakeOnly(S) = Accept(x, <<>>)
  BY <1>1, <1>2 DEF TakeOnly
<1>. QED
  BY <1>1, <1>3 DEF Accept

\* With files added, but for the main.tex at the top, the same command checks
\* the same thesis or is refused, unless it was what the main.pdf at the top
\* leads to.
LEMMA AddedFilesChooseNoOther ==
    ASSUME NEW t, NEW u, DOMAIN t \subseteq DOMAIN u, \A p \in DOMAIN t : u[p] = t[p],
           TopMain \notin DOMAIN u \ DOMAIN t, NEW source, NEW root,
           ResolveSubmission(t, source, root).ok, ResolveSubmission(u, source, root).ok,
           ResolveSubmission(t, source, root).source.suffix = "tex",
           TopPdf \in DOMAIN t => ResolveSubmission(t, source, root).source # Target(t, TopPdf)
    PROVE  ResolveSubmission(u, source, root).source = ResolveSubmission(t, source, root).source
<1> DEFINE mains(v) == {p \in DOMAIN v : p.stem \in MainStems /\ p.suffix = "tex"}
           Take(v, p) == IF IsFile(v, p) THEN Accept(Target(v, p), <<>>) ELSE Refuse
           Only(v, p, suffixes) ==
             IF IsFile(v, p) /\ Target(v, p).suffix \in suffixes THEN Take(v, p) ELSE Refuse
           targets(v) == {Target(v, p) : p \in mains(v)}
           before == ResolveSubmission(t, source, root)
           after == ResolveSubmission(u, source, root)
<1>1. ASSUME NEW p, IsFile(t, p)
      PROVE  IsFile(u, p) /\ Target(u, p) = Target(t, p) /\ p \in DOMAIN t
  BY <1>1 DEF IsFile, Lead, Target, File, NoFile
<1>2. ASSUME NEW v, NEW p, NEW suffixes, Only(v, p, suffixes).ok
      PROVE  /\ Only(v, p, suffixes).source = Target(v, p)
             /\ IsFile(v, p)
  BY <1>2 DEF Refuse, Accept
<1>2a. ASSUME NEW v, NEW p, Take(v, p).ok
       PROVE  Take(v, p).source = Target(v, p) /\ IsFile(v, p)
  BY <1>2a DEF Refuse, Accept
<1>3. ASSUME NEW p, NEW suffixes, Only(t, p, suffixes).ok, Only(u, p, suffixes).ok
      PROVE  Only(u, p, suffixes).source = Only(t, p, suffixes).source
  BY <1>1, <1>2, <1>3
<1>4. CASE source # <<>>
  <2>1. before.source = Target(t, source[1]) /\ Only(t, source[1], {"tex", "pdf"}).ok
    BY <1>4 DEF ResolveSubmission, Refuse, Accept
  <2>2. after.source = Target(u, source[1]) /\ Only(u, source[1], {"tex", "pdf"}).ok
    BY <1>4 DEF ResolveSubmission, Refuse, Accept
  <2>. QED
    BY <1>1, <1>2, <2>1, <2>2
<1>5. CASE source = <<>> /\ root # <<>>
  <2>1. before = Only(t, root[1].path, {"tex"}) /\ after = Only(u, root[1].path, {"tex"})
    BY <1>5 DEF ResolveSubmission, Refuse
  <2> HIDE DEF Only, before, after
  <2>2. before.ok /\ after.ok
    BY DEF before, after
  <2>3. after.source = before.source
    BY <1>3, <2>1, <2>2
  <2>. QED
    BY <2>3 DEF before, after
<1>6. CASE source = <<>> /\ root = <<>>
  <2> DEFINE tops(v) == Lead(v, TopMain) \in {File, Outside}
  <2>1. ASSUME NEW v
        PROVE  ResolveSubmission(v, source, root) =
                 IF tops(v) THEN Take(v, TopMain)
                 ELSE IF \E p \in mains(v) : ~IsFile(v, p) THEN Refuse
                 ELSE IF mains(v) # {} THEN TakeOnly(targets(v))
                 ELSE Take(v, TopPdf)
    BY <1>6 DEF ResolveSubmission
  <2>2. TopMain \in DOMAIN t => TopMain \in mains(t)
    BY DEF TopMain, PathAt, MainStems
  <2>3. CASE tops(t)
    <3>1. before = Take(t, TopMain)
      BY <2>1, <2>3
    <3>2. IsFile(t, TopMain)
      BY <1>2a, <3>1
    <3>3. tops(u)
      BY <1>1, <3>2 DEF IsFile
    <3>4. after = Take(u, TopMain)
      BY <2>1, <3>3
    <3> HIDE DEF Take, before, after
    <3>5. before.ok /\ after.ok
      BY DEF before, after
    <3>6. after.source = before.source
      BY <1>1, <1>2a, <3>1, <3>2, <3>4, <3>5
    <3>. QED
      BY <3>6 DEF before, after
  <2>4. CASE ~tops(t) /\ mains(t) # {}
    <3>1. before = TakeOnly(targets(t)) /\ \A p \in mains(t) : IsFile(t, p)
      <4>1. before = IF \E p \in mains(t) : ~IsFile(t, p) THEN Refuse ELSE TakeOnly(targets(t))
        BY <2>1, <2>4
      <4>2. before # Refuse
        BY DEF Refuse
      <4> HIDE DEF before, mains
      <4>. QED
        BY <4>1, <4>2
    <3>2. TopMain \notin DOMAIN t
      BY <2>2, <2>4, <3>1 DEF IsFile
    <3>3. ~tops(u)
      BY <3>2 DEF Lead, File, Outside, NoFile
    <3>4. mains(t) \subseteq mains(u)
      OBVIOUS
    <3>5. after = TakeOnly(targets(u))
      BY <2>1, <2>4, <3>3, <3>4 DEF Refuse
    <3>6. PICK x : targets(t) = {x} /\ before.source = x
      <4>1. TakeOnly(targets(t)).ok
        BY <3>1
      <4>2. \E z : targets(t) = {z} /\ TakeOnly(targets(t)).source = z
        <5> HIDE DEF targets
        <5>. QED
          BY <4>1, OnlyOneIsTaken
      <4>. QED
        BY <3>1, <4>2
    <3>7. PICK y : targets(u) = {y} /\ after.source = y
      <4>1. TakeOnly(targets(u)).ok
        BY <3>5
      <4>2. \E z : targets(u) = {z} /\ TakeOnly(targets(u)).source = z
        <5> HIDE DEF targets
        <5>. QED
          BY <4>1, OnlyOneIsTaken
      <4>. QED
        BY <3>5, <4>2
    <3>8. x \in targets(u)
      BY <1>1, <3>1, <3>4, <3>6
    <3>. QED
      BY <3>6, <3>7, <3>8
  <2>5. CASE ~tops(t) /\ mains(t) = {}
    <3>1. before = Take(t, TopPdf)
      BY <2>1, <2>5
    <3>2. before.source = Target(t, TopPdf) /\ TopPdf \in DOMAIN t
      BY <1>1, <1>2a, <3>1
    <3>. QED
      BY <3>2
  <2>. QED
    BY <2>3, <2>4, <2>5
<1>. QED
  BY <1>4, <1>5, <1>6

-----------------------------------------------------------------------------
(* The invariant                                                           *)

RunFields == {"pc", "request", "labels", "untouched", "refused", "submission", "setup", "key",
              "verdict", "cached", "sent", "shown"}

Extracted == {"formal", "semantic", "publish", "summary"}
WithSetup == {"hash", "extract"} \cup Extracted
Underway == {"arguments", "setup"} \cup WithSetup

\* A run is refused at the end only; there is a verdict after the formal stage
\* only, and something sent after the semantic one.
Phases ==
    /\ scene \in Scenes /\ IsTree(tree)
    /\ run.pc \in Over \cup Underway
    /\ run.pc # "idle" => DOMAIN run = RunFields
    /\ run.pc \in Underway => run.refused = "no"
    /\ run.pc # "idle" =>
         /\ run.verdict.judged => run.pc \in {"semantic", "publish", "summary"} \/ Completed
         /\ run.sent # "nothing" => run.pc \in {"publish", "summary"} \/ Completed

\* The rules are chosen by the profile of the settings, and so is the header of
\* the report.
OneProfile ==
    /\ run.pc \in WithSetup \/ Completed =>
         run.setup.rubric.profile = run.setup.config.work_profile
    /\ run.pc = "summary" /\ IncludesStage(run.request, "aggregate") =>
         report.header /\ report.profile = run.setup.config.work_profile

\* Of a tree that nobody has touched: what was resolved, hashed and extracted,
\* and what the audit said.
ThisTree ==
    /\ doctor.asked =>
         doctor.problems = AuditOf(tree, ResolveSubmission(tree, doctor.source, doctor.root))
    /\ run.pc # "idle" =>
         /\ \/ run.pc \in {"setup"} \cup WithSetup
            \/ Completed
            \/ run.pc = "done" /\ run.refused \in {"setup", "hash", "extract"}
            => run.submission.ok
         /\ run.untouched =>
              /\ run.submission.ok =>
                   run.submission = ResolveSubmission(tree, run.request.source, run.request.root)
              /\ run.pc \in Extracted \/ Completed =>
                   Extractable(tree, run.submission, run.request.cwd)
              /\ run.refused = "hash" => ~Hashable(tree, run.submission)
              /\ run.refused = "extract" => ~Extractable(tree, run.submission, run.request.cwd)

\* The summary shows the profile of the settings.
SummaryOfSettings ==
    Completed /\ IncludesStage(run.request, "aggregate") =>
        run.shown.profile = run.setup.rubric.profile

IInv == Phases /\ OneProfile /\ ThisTree /\ OnlyWithConsent /\ SummaryOfSettings

-----------------------------------------------------------------------------
(* The invariant is inductive                                              *)

\* The rules a run loads are those of the profile it loads.
LEMMA RulesOfTheProfile ==
    ASSUME NEW d, NEW path, NEW rubric, NEW profile,
           LoadConfigAndRubric(d, path, rubric, profile).ok
    PROVE  LET setup == LoadConfigAndRubric(d, path, rubric, profile) IN
           setup.rubric.profile = setup.config.work_profile
<1> DEFINE config == LoadConfig(d, path)
           chosen == WithProfile(config, profile)
           effective == ExpandRubric(rubric, chosen)
<1>1. effective.ok => effective.profile = chosen.work_profile
  BY DEF ExpandRubric, Refused
<1>2. LoadConfigAndRubric(d, path, rubric, profile) =
        IF ~config.ok \/ ~chosen.ok THEN Refused
        ELSE IF effective.ok THEN [ok |-> TRUE, config |-> chosen, rubric |-> effective]
             ELSE Refused
  BY DEF LoadConfigAndRubric
<1> HIDE DEF config, chosen, effective
<1>. QED
  BY <1>1, <1>2 DEF Refused

\* A provider in the cloud is had only with the consent that decides.
LEMMA ConsentDecides ==
    ASSUME NEW environ, NEW config, NEW request,
           LoadLlmConfig(environ, config, request).ok,
           LoadLlmConfig(environ, config, request).provider = "yandex"
    PROVE  LET v == CloudVariable(environ) IN
           v \notin False /\ (v = Absent => config.cloud = "true")
<1> DEFINE provider == ProviderAsked(environ, config, request)
           key == ValueOf(environ, "LLM_API_KEY", "")
           model == FirstGiven(<<request.model, ValueOf(environ, "LLM_MODEL", Absent)>>)
           bad == \/ provider \notin {"ollama", "yandex"}
                  \/ CloudVariable(environ) \notin True \cup False \cup {Absent}
                  \/ ValueOf(environ, "LLM_TIMEOUT", "number") # "number"
                  \/ provider = "yandex" /\ (key = "" \/ model = Absent)
                  \/ provider = "yandex" /\ ~CloudAllowed(environ, config)
<1>1. LoadLlmConfig(environ, config, request) =
        IF provider = "disabled" THEN [ok |-> TRUE, provider |-> provider, model |-> "none"]
        ELSE IF bad THEN Refused
        ELSE [ok |-> TRUE, provider |-> provider,
              model |-> IF model = Absent THEN "qwen" ELSE model]
  BY DEF LoadLlmConfig
<1>2. provider = "yandex" /\ ~bad
  <2> HIDE DEF provider, bad, model
  <2>. QED
    BY <1>1 DEF Refused
<1>3. CloudAllowed(environ, config)
  BY <1>2
<1>. QED
  BY <1>3 DEF CloudAllowed, True, False, Absent

\* A step of the run that is not refused leaves what it does not name.
LEMMA RunGoesOn ==
    ASSUME DOMAIN run = RunFields, NEW step, GoTo(step)
    PROVE  /\ DOMAIN run' = RunFields /\ run'.pc = step
           /\ \A field \in RunFields \ {"pc"} : run'[field] = run[field]
BY DEF GoTo, RunFields

\* A refusal ends the run, with what it had.
LEMMA RunIsRefused ==
    ASSUME DOMAIN run = RunFields, NEW step, Refusal(step)
    PROVE  /\ DOMAIN run' = RunFields /\ run'.pc = "done" /\ run'.refused = step
           /\ \A field \in RunFields \ {"pc", "refused", "shown"} : run'[field] = run[field]
BY DEF Refusal, RunFields

\* Initially.
LEMMA InitIInv == Init => IInv
<1> SUFFICES ASSUME Init PROVE IInv
  OBVIOUS
<1>1. run.pc = "idle" /\ ~doctor.asked
  BY DEF Init, NoRun, NoDoctor
<1>2. Phases
  BY <1>1, ScenesAssumption DEF Init, Phases, Over, Underway, WithSetup, Extracted
<1>3. OneProfile /\ ThisTree /\ OnlyWithConsent /\ SummaryOfSettings
  BY <1>1 DEF OneProfile, ThisTree, OnlyWithConsent, SummaryOfSettings, Completed, WithSetup, Extracted
<1>. QED
  BY <1>2, <1>3 DEF IInv

\* What the invariant speaks of stays.
LEMMA IInvUnchanged ==
    ASSUME IInv, UNCHANGED <<scene, tree, report, run, doctor>>
    PROVE  IInv'
BY DEF IInv, Phases, OneProfile, ThisTree, OnlyWithConsent, SummaryOfSettings, Completed

\* An edit of the tree: all that was said of the tree as it was is dropped.
LEMMA IInvTouch ==
    ASSUME IInv, NEW t, IsTree(t), Touch(t)
    PROVE  IInv'
<1>1. ~doctor'.asked /\ tree' = t /\ scene' = scene /\ report' = report
  BY DEF Touch, NoDoctor
<1>2. CASE run.pc = "idle"
  <2>1. run' = run
    BY <1>2 DEF Touch
  <2>. QED
    BY <1>1, <1>2, <2>1
    DEF IInv, Phases, OneProfile, ThisTree, OnlyWithConsent, SummaryOfSettings, Completed,
        Over, Underway, WithSetup, Extracted
<1>3. CASE run.pc # "idle"
  <2>1. /\ DOMAIN run' = RunFields /\ ~run'.untouched
        /\ \A field \in RunFields \ {"untouched"} : run'[field] = run[field]
    BY <1>3 DEF Touch, IInv, Phases, RunFields
  <2>2. /\ run'.pc = run.pc /\ run'.request = run.request /\ run'.refused = run.refused
        /\ run'.submission = run.submission /\ run'.setup = run.setup
        /\ run'.verdict = run.verdict /\ run'.sent = run.sent /\ run'.shown = run.shown
    BY <2>1 DEF RunFields
  <2>3. Phases'
    BY <1>1, <2>1, <2>2 DEF IInv, Phases, Completed
  <2>4. ThisTree'
    BY <1>1, <2>1, <2>2 DEF IInv, ThisTree, Completed
  <2>5. OneProfile' /\ OnlyWithConsent' /\ SummaryOfSettings'
    BY <1>1, <2>2 DEF IInv, OneProfile, OnlyWithConsent, SummaryOfSettings, Completed
  <2>. QED
    BY <2>3, <2>4, <2>5 DEF IInv
<1>. QED
  BY <1>2, <1>3

\* The edits keep a tree a tree.
LEMMA IInvEdit ==
    ASSUME IInv, EditConfig \/ AddFile \/ RemoveFile
    PROVE  IInv'
<1>1. CASE EditConfig
  BY <1>1, IInvUnchanged DEF EditConfig
<1>2. CASE AddFile
  <2> DEFINE with(e) == [q \in {e.path} \cup DOMAIN tree |-> IF q = e.path THEN e.entry ELSE tree[q]]
  <2>1. PICK e \in scene.entries : Touch(with(e))
    BY <1>2 DEF AddFile
  <2>2. e.path \in Path /\ IsEntry(e.entry) /\ IsTree(tree)
    BY ScenesAssumption DEF IInv, Phases
  <2>3. IsTree(with(e))
    BY <2>2 DEF IsTree
  <2> HIDE DEF with
  <2>. QED
    BY <2>1, <2>3, IInvTouch
<1>3. CASE RemoveFile
  <2>1. PICK p \in DOMAIN tree : Touch([q \in DOMAIN tree \ {p} |-> tree[q]])
    BY <1>3 DEF RemoveFile
  <2>2. IsTree([q \in DOMAIN tree \ {p} |-> tree[q]])
    BY DEF IInv, Phases, IsTree
  <2>. QED
    BY <2>1, <2>2, IInvTouch
<1>. QED
  BY <1>1, <1>2, <1>3

\* The audit is made of the tree as it is.
LEMMA IInvDoctor ==
    ASSUME IInv, Doctor
    PROVE  IInv'
<1>1. doctor'.problems = AuditOf(tree, ResolveSubmission(tree, doctor'.source, doctor'.root))
  BY DEF Doctor
<1>. QED
  BY <1>1 DEF Doctor, IInv, Phases, OneProfile, ThisTree, OnlyWithConsent, SummaryOfSettings, Completed

\* A run begins with nothing.
LEMMA IInvStartRun ==
    ASSUME IInv, StartRun
    PROVE  IInv'
<1>1. /\ DOMAIN run' = RunFields /\ run'.pc = "arguments" /\ run'.refused = "no"
      /\ run'.submission = Refuse /\ run'.verdict = NoVerdict /\ run'.sent = "nothing"
  BY DEF StartRun, RunFields
<1>2. UNCHANGED <<scene, tree, doctor, report>>
  BY DEF StartRun
<1>3. Phases'
  BY <1>1, <1>2 DEF IInv, Phases, Over, Underway, NoVerdict
<1>4. ThisTree'
  BY <1>1, <1>2 DEF IInv, ThisTree, Completed, WithSetup, Extracted, Refuse
<1>5. OneProfile' /\ OnlyWithConsent' /\ SummaryOfSettings'
  BY <1>1 DEF OneProfile, OnlyWithConsent, SummaryOfSettings, Completed, WithSetup, Extracted
<1>. QED
  BY <1>3, <1>4, <1>5 DEF IInv

\* A refusal at a step that has just been found to fail.
LEMMA IInvRefusal ==
    ASSUME IInv, NEW step, run.pc \in Underway, Refusal(step),
           UNCHANGED <<scene, tree, doctor, report>>,
           step = run.pc, step \in {"arguments", "setup", "hash", "extract"},
           step = "hash" => ~Hashable(tree, run.submission),
           step = "extract" => ~Extractable(tree, run.submission, run.request.cwd)
    PROVE  IInv'
<1>1. run.pc # "idle" /\ DOMAIN run = RunFields
  BY DEF IInv, Phases, Underway, WithSetup, Extracted
<1>2. /\ DOMAIN run' = RunFields /\ run'.pc = "done" /\ run'.refused = step
      /\ run'.request = run.request /\ run'.submission = run.submission
      /\ run'.verdict = run.verdict /\ run'.sent = run.sent /\ run'.untouched = run.untouched
  BY <1>1, RunIsRefused DEF RunFields
<1>3. ~Completed /\ ~Completed'
  BY <1>2 DEF Completed
<1>4. ~run.verdict.judged /\ run.sent = "nothing"
  BY <1>1, <1>3 DEF IInv, Phases
<1>5. Phases'
  BY <1>2, <1>3, <1>4 DEF IInv, Phases, Over, Underway, WithSetup, Extracted
<1>6. ThisTree'
  <2>1. step # "arguments" => run.submission.ok
    BY <1>1 DEF IInv, ThisTree, WithSetup
  <2>2. step = "arguments" => run'.refused \notin {"setup", "hash", "extract", "no"}
    BY <1>2
  <2>. QED
    BY <1>1, <1>2, <1>3, <2>1, <2>2 DEF IInv, ThisTree, WithSetup, Extracted
<1>7. OneProfile' /\ OnlyWithConsent' /\ SummaryOfSettings'
  BY <1>2, <1>3, <1>4 DEF OneProfile, OnlyWithConsent, SummaryOfSettings, WithSetup, Extracted
<1>. QED
  BY <1>5, <1>6, <1>7 DEF IInv

\* Resolving the submission.
LEMMA IInvArguments ==
    ASSUME IInv, Arguments
    PROVE  IInv'
<1> DEFINE submission == ResolveSubmission(tree, run.request.source, run.request.root)
<1>1. run.pc = "arguments" /\ UNCHANGED <<scene, tree, doctor, report>>
  BY DEF Arguments
<1>2. CASE Refusal("arguments")
  BY <1>1, <1>2, IInvRefusal DEF Underway
<1>3. CASE submission.ok /\ run' = [run EXCEPT !.pc = "setup", !.submission = submission]
  <2> HIDE DEF submission
  <2>1. DOMAIN run = RunFields /\ run.pc # "idle"
    BY <1>1 DEF IInv, Phases
  <2>2. /\ DOMAIN run' = RunFields /\ run'.pc = "setup" /\ run'.submission = submission
        /\ run'.request = run.request /\ run'.refused = run.refused
        /\ run'.verdict = run.verdict /\ run'.sent = run.sent
    BY <1>3, <2>1 DEF RunFields
  <2>3. run.refused = "no" /\ ~run.verdict.judged /\ run.sent = "nothing"
    BY <1>1 DEF IInv, Phases, Underway, Completed
  <2>4. Phases'
    BY <1>1, <2>2, <2>3 DEF IInv, Phases, Underway
  <2>5. ThisTree'
    <3>1. submission = ResolveSubmission(tree', run'.request.source, run'.request.root)
      BY <1>1, <2>2 DEF submission
    <3>. QED
      BY <1>1, <1>3, <2>2, <2>3, <3>1 DEF IInv, ThisTree, Completed, Extracted
  <2>6. OneProfile' /\ OnlyWithConsent' /\ SummaryOfSettings'
    BY <2>2, <2>3 DEF OneProfile, OnlyWithConsent, SummaryOfSettings, Completed, WithSetup, Extracted
  <2>. QED
    BY <2>4, <2>5, <2>6 DEF IInv
<1>. QED
  BY <1>2, <1>3 DEF Arguments

\* Reading the settings.
LEMMA IInvReadSetup ==
    ASSUME IInv, ReadSetup
    PROVE  IInv'
<1> DEFINE setup == LoadConfigAndRubric(disk, ConfigPath, Rubric, run.request.profile)
<1>1. run.pc = "setup" /\ UNCHANGED <<scene, tree, doctor, report>>
  BY DEF ReadSetup
<1>2. CASE Refusal("setup")
  BY <1>1, <1>2, IInvRefusal DEF Underway
<1>3. CASE setup.ok /\ run' = [run EXCEPT !.pc = "hash", !.setup = setup]
  <2>1. setup.rubric.profile = setup.config.work_profile
    BY <1>3, RulesOfTheProfile
  <2> HIDE DEF setup
  <2>2. DOMAIN run = RunFields /\ run.pc # "idle"
    BY <1>1 DEF IInv, Phases
  <2>3. /\ DOMAIN run' = RunFields /\ run'.pc = "hash" /\ run'.setup = setup
        /\ run'.request = run.request /\ run'.refused = run.refused
        /\ run'.submission = run.submission /\ run'.untouched = run.untouched
        /\ run'.verdict = run.verdict /\ run'.sent = run.sent
    BY <1>3, <2>2 DEF RunFields
  <2>4. run.refused = "no" /\ ~run.verdict.judged /\ run.sent = "nothing"
    BY <1>1 DEF IInv, Phases, Underway, Completed
  <2>5. Phases'
    BY <1>1, <2>3, <2>4 DEF IInv, Phases, Underway, WithSetup
  <2>6. ThisTree'
    BY <1>1, <2>2, <2>3, <2>4 DEF IInv, ThisTree, Completed, Extracted
  <2>7. OneProfile' /\ OnlyWithConsent' /\ SummaryOfSettings'
    BY <2>1, <2>3, <2>4 DEF OneProfile, OnlyWithConsent, SummaryOfSettings, Completed, WithSetup
  <2>. QED
    BY <2>5, <2>6, <2>7 DEF IInv
<1>. QED
  BY <1>2, <1>3 DEF ReadSetup

\* Hashing what is checked.
LEMMA IInvHash ==
    ASSUME IInv, Hash
    PROVE  IInv'
<1>1. run.pc = "hash" /\ UNCHANGED <<scene, tree, doctor, report>>
  BY DEF Hash
<1>2. CASE ~Hashable(tree, run.submission) /\ Refusal("hash")
  BY <1>1, <1>2, IInvRefusal DEF Underway, WithSetup
<1>3. ASSUME NEW key, run' = [run EXCEPT !.pc = "extract", !.key = key]
      PROVE  IInv'
  <2>1. DOMAIN run = RunFields /\ run.pc # "idle"
    BY <1>1 DEF IInv, Phases
  <2>2. /\ DOMAIN run' = RunFields /\ run'.pc = "extract" /\ run'.setup = run.setup
        /\ run'.request = run.request /\ run'.refused = run.refused
        /\ run'.submission = run.submission /\ run'.untouched = run.untouched
        /\ run'.verdict = run.verdict /\ run'.sent = run.sent
    BY <1>3, <2>1 DEF RunFields
  <2>3. run.refused = "no" /\ ~run.verdict.judged /\ run.sent = "nothing"
    BY <1>1 DEF IInv, Phases, Underway, WithSetup, Completed
  <2>4. Phases'
    BY <1>1, <2>2, <2>3 DEF IInv, Phases, Underway, WithSetup
  <2>5. ThisTree'
    BY <1>1, <2>1, <2>2, <2>3 DEF IInv, ThisTree, Completed, WithSetup, Extracted
  <2>6. OneProfile' /\ OnlyWithConsent' /\ SummaryOfSettings'
    BY <1>1, <2>2, <2>3
    DEF IInv, OneProfile, OnlyWithConsent, SummaryOfSettings, Completed, WithSetup
  <2>. QED
    BY <2>4, <2>5, <2>6 DEF IInv
<1>. QED
  BY <1>2, <1>3 DEF Hash

\* Extracting: what goes on can be extracted.
LEMMA IInvExtract ==
    ASSUME IInv, Extract
    PROVE  IInv'
<1>1. run.pc = "extract" /\ UNCHANGED <<scene, tree, doctor, report>>
  BY DEF Extract
<1>2. CASE ~Extractable(tree, run.submission, run.request.cwd) /\ Refusal("extract")
  BY <1>1, <1>2, IInvRefusal DEF Underway, WithSetup
<1>3. ASSUME NEW step \in {"formal", "semantic"}, GoTo(step),
             Extractable(tree, run.submission, run.request.cwd)
      PROVE  IInv'
  <2>1. DOMAIN run = RunFields /\ run.pc # "idle"
    BY <1>1 DEF IInv, Phases
  <2>2. /\ DOMAIN run' = RunFields /\ run'.pc = step /\ run'.setup = run.setup
        /\ run'.request = run.request /\ run'.refused = run.refused
        /\ run'.submission = run.submission /\ run'.untouched = run.untouched
        /\ run'.verdict = run.verdict /\ run'.sent = run.sent
    BY <1>3, <2>1, RunGoesOn DEF RunFields
  <2>3. run.refused = "no" /\ ~run.verdict.judged /\ run.sent = "nothing"
    BY <1>1 DEF IInv, Phases, Underway, WithSetup, Completed
  <2>4. Phases'
    BY <1>1, <2>2, <2>3 DEF IInv, Phases, Underway, WithSetup, Extracted
  <2>5. ThisTree'
    BY <1>1, <1>3, <2>1, <2>2, <2>3 DEF IInv, ThisTree, Completed, WithSetup, Extracted
  <2>6. OneProfile' /\ OnlyWithConsent' /\ SummaryOfSettings'
    BY <1>1, <2>2, <2>3
    DEF IInv, OneProfile, OnlyWithConsent, SummaryOfSettings, Completed, WithSetup, Extracted
  <2>. QED
    BY <2>4, <2>5, <2>6 DEF IInv
<1>. QED
  BY <1>2, <1>3 DEF Extract

\* The verdict of the formal stage.
LEMMA IInvFormal ==
    ASSUME IInv, Formal
    PROVE  IInv'
<1>1. run.pc = "formal" /\ UNCHANGED <<scene, tree, doctor, report>>
  BY DEF Formal
<1>2. PICK verdict, cached :
        run' = [run EXCEPT !.pc = "semantic", !.verdict = verdict, !.cached = cached]
  BY DEF Formal
<1>3. DOMAIN run = RunFields /\ run.pc # "idle"
  BY <1>1 DEF IInv, Phases
<1>4. /\ DOMAIN run' = RunFields /\ run'.pc = "semantic" /\ run'.setup = run.setup
      /\ run'.request = run.request /\ run'.refused = run.refused
      /\ run'.submission = run.submission /\ run'.untouched = run.untouched
      /\ run'.sent = run.sent
  BY <1>2, <1>3 DEF RunFields
<1>5. run.refused = "no" /\ run.sent = "nothing"
  BY <1>1 DEF IInv, Phases, Underway, WithSetup, Extracted, Completed
<1>6. Phases'
  BY <1>1, <1>4, <1>5 DEF IInv, Phases, Underway, WithSetup, Extracted
<1>7. ThisTree'
  BY <1>1, <1>3, <1>4, <1>5 DEF IInv, ThisTree, Completed, WithSetup, Extracted
<1>8. OneProfile' /\ OnlyWithConsent' /\ SummaryOfSettings'
  BY <1>1, <1>4, <1>5
  DEF IInv, OneProfile, OnlyWithConsent, SummaryOfSettings, Completed, WithSetup, Extracted
<1>. QED
  BY <1>6, <1>7, <1>8 DEF IInv

\* What is sent is sent with consent.
LEMMA IInvSemantic ==
    ASSUME IInv, Semantic
    PROVE  IInv'
<1> DEFINE llm == LoadLlmConfig(run.request.environ, run.setup.config, run.request)
           v == CloudVariable(run.request.environ)
<1>1. run.pc = "semantic" /\ UNCHANGED <<scene, tree, doctor, report>>
  BY DEF Semantic
<1>2. DOMAIN run = RunFields /\ run.pc # "idle"
  BY <1>1 DEF IInv, Phases
<1>3. run.refused = "no" /\ run.sent = "nothing"
  BY <1>1 DEF IInv, Phases, Underway, WithSetup, Extracted, Completed
<1>4. \/ GoTo("publish")
      \/ /\ ~run.request.no_llm /\ llm.ok
         /\ \/ run' = [run EXCEPT !.pc = "publish", !.sent = "nothing"]
            \/ run' = [run EXCEPT !.pc = "publish", !.sent = llm.provider]
  BY DEF Semantic
<1>5. llm.ok /\ llm.provider = "yandex" =>
        v \notin False /\ (v = Absent => run.setup.config.cloud = "true")
  BY ConsentDecides
<1> HIDE DEF llm, v
<1>6. /\ DOMAIN run' = RunFields /\ run'.pc = "publish" /\ run'.setup = run.setup
      /\ run'.request = run.request /\ run'.refused = run.refused
      /\ run'.submission = run.submission /\ run'.untouched = run.untouched
      /\ \/ run'.sent = "nothing"
         \/ run'.sent = llm.provider /\ ~run.request.no_llm /\ llm.ok
  <2>1. CASE GoTo("publish")
    BY <1>2, <1>3, <2>1, RunGoesOn DEF RunFields
  <2>2. CASE ~GoTo("publish")
    BY <1>2, <1>4, <2>2 DEF RunFields
  <2>. QED
    BY <2>1, <2>2
<1>7. Phases'
  BY <1>1, <1>6, <1>3 DEF IInv, Phases, Underway, WithSetup, Extracted
<1>8. ThisTree'
  BY <1>1, <1>2, <1>3, <1>6 DEF IInv, ThisTree, Completed, WithSetup, Extracted
<1>9. OneProfile' /\ SummaryOfSettings'
  BY <1>1, <1>3, <1>6 DEF IInv, OneProfile, SummaryOfSettings, Completed, WithSetup, Extracted
<1>10. OnlyWithConsent'
  BY <1>5, <1>6 DEF OnlyWithConsent, v
<1>. QED
  BY <1>7, <1>8, <1>9, <1>10 DEF IInv

\* The header that is published.
LEMMA IInvPublish ==
    ASSUME IInv, Publish
    PROVE  IInv'
<1>1. run.pc = "publish" /\ UNCHANGED <<scene, tree, doctor>> /\ GoTo("summary")
  BY DEF Publish
<1>2. DOMAIN run = RunFields /\ run.pc # "idle"
  BY <1>1 DEF IInv, Phases
<1>3. /\ DOMAIN run' = RunFields /\ run'.pc = "summary" /\ run'.setup = run.setup
      /\ run'.request = run.request /\ run'.refused = run.refused
      /\ run'.submission = run.submission /\ run'.untouched = run.untouched
      /\ run'.verdict = run.verdict /\ run'.sent = run.sent
  BY <1>1, <1>2, RunGoesOn DEF RunFields
<1>4. IncludesStage(run.request, "aggregate") =>
        report'.header /\ report'.profile = run.setup.config.work_profile
  BY DEF Publish
<1>5. run.refused = "no"
  BY <1>1 DEF IInv, Phases, Underway, WithSetup, Extracted
<1>6. Phases'
  BY <1>1, <1>3, <1>5 DEF IInv, Phases, Underway, WithSetup, Extracted
<1>7. ThisTree'
  BY <1>1, <1>2, <1>3, <1>5 DEF IInv, ThisTree, Completed, WithSetup, Extracted
<1>8. OneProfile' /\ OnlyWithConsent' /\ SummaryOfSettings'
  BY <1>1, <1>3, <1>4
  DEF IInv, OneProfile, OnlyWithConsent, SummaryOfSettings, Completed, WithSetup, Extracted
<1>. QED
  BY <1>6, <1>7, <1>8 DEF IInv

\* The summary shows that header.
LEMMA IInvSummarise ==
    ASSUME IInv, Summarise
    PROVE  IInv'
<1>1. run.pc = "summary" /\ UNCHANGED <<scene, tree, doctor, report>>
  BY DEF Summarise
<1>2. DOMAIN run = RunFields /\ run.pc # "idle"
  BY <1>1 DEF IInv, Phases
<1>3. /\ DOMAIN run' = RunFields /\ run'.pc = "done" /\ run'.setup = run.setup
      /\ run'.request = run.request /\ run'.refused = run.refused
      /\ run'.submission = run.submission /\ run'.untouched = run.untouched
      /\ run'.verdict = run.verdict /\ run'.sent = run.sent
      /\ run'.shown.profile = ProfileShown
  BY <1>2 DEF Summarise, RunFields
<1>4. run.refused = "no" /\ Completed'
  BY <1>1, <1>3 DEF IInv, Phases, Underway, WithSetup, Extracted, Completed
<1>5. run.setup.rubric.profile = run.setup.config.work_profile
  BY <1>1 DEF IInv, OneProfile, WithSetup, Extracted
<1>6. Phases'
  BY <1>1, <1>3, <1>4 DEF IInv, Phases, Underway, WithSetup, Extracted, Over
<1>7. ThisTree'
  BY <1>1, <1>2, <1>3, <1>4 DEF IInv, ThisTree, WithSetup, Extracted
<1>8. OneProfile' /\ OnlyWithConsent'
  BY <1>1, <1>2, <1>3, <1>5 DEF IInv, OneProfile, OnlyWithConsent
<1>9. SummaryOfSettings'
  <2>1. IncludesStage(run.request, "aggregate") =>
          ProfileShown = run.setup.config.work_profile
    BY <1>1 DEF IInv, OneProfile, ProfileShown
  <2>. QED
    BY <1>3, <1>5, <2>1 DEF SummaryOfSettings
<1>. QED
  BY <1>6, <1>7, <1>8, <1>9 DEF IInv

\* Every step.
LEMMA NextIInv == IInv /\ [Next]_vars => IInv'
<1> SUFFICES ASSUME IInv, [Next]_vars PROVE IInv'
  OBVIOUS
<1>1. CASE EditConfig \/ AddFile \/ RemoveFile
  BY <1>1, IInvEdit
<1>2. CASE Doctor
  BY <1>2, IInvDoctor
<1>3. CASE StartRun
  BY <1>3, IInvStartRun
<1>4. CASE Arguments
  BY <1>4, IInvArguments
<1>5. CASE ReadSetup
  BY <1>5, IInvReadSetup
<1>6. CASE Hash
  BY <1>6, IInvHash
<1>7. CASE Extract
  BY <1>7, IInvExtract
<1>8. CASE Formal
  BY <1>8, IInvFormal
<1>9. CASE Semantic
  BY <1>9, IInvSemantic
<1>10. CASE Publish
  BY <1>10, IInvPublish
<1>11. CASE Summarise
  BY <1>11, IInvSummarise
<1>12. CASE UNCHANGED vars
  BY <1>12, IInvUnchanged DEF vars
<1>. QED
  BY <1>1, <1>2, <1>3, <1>4, <1>5, <1>6, <1>7, <1>8, <1>9, <1>10, <1>11, <1>12 DEF Next

-----------------------------------------------------------------------------
(* The theorems                                                            *)

\* In every state a run holds together: the phases, the profile of the rules and
\* of the report, what was resolved, hashed and extracted of an untouched tree
\* (cli.py, orchestrator.py).
THEOREM RunHoldsTogether == Spec => []IInv
<1>1. Init => IInv
  BY InitIInv
<1>2. IInv /\ [Next]_vars => IInv'
  BY NextIInv
<1>. QED
  BY <1>1, <1>2, PTL DEF Spec

\* Nothing of a thesis goes to the provider in the cloud without the consent that
\* decides, nor to any with --no-llm, whatever is edited meanwhile
\* (llm/config.py, orchestrator.py).
THEOREM ConsentIsNeeded == Spec => []OnlyWithConsent
<1>1. IInv => OnlyWithConsent
  BY DEF IInv
<1>. QED
  BY <1>1, RunHoldsTogether, PTL

\* The profile of the settings as the scene began, without --profile.
FirstProfile == LoadConfigAndRubric(scene.disk, ConfigPath, Rubric, Absent).rubric.profile

\* A verdict that was not in the cache is that of the settings of the run; and
\* while nothing is edited and no command names a profile, all verdicts are those
\* of the first profile, those in the cache too.
OneRubric ==
    /\ edits \in Nat
    /\ run.pc # "idle" => run.request \in scene.requests
    /\ run.pc # "idle" /\ run.verdict.judged /\ ~run.cached => run.verdict.by = run.setup.rubric
    /\ edits = 0 /\ NoProfileAsked =>
         /\ disk = scene.disk
         /\ run.pc \in WithSetup \/ Completed => run.setup.rubric.profile = FirstProfile
         /\ \A key \in DOMAIN cache : cache[key].judged => cache[key].by.profile = FirstProfile
         /\ run.pc # "idle" /\ run.verdict.judged => run.verdict.by.profile = FirstProfile

\* Initially.
LEMMA InitOneRubric == Init => OneRubric
<1> SUFFICES ASSUME Init PROVE OneRubric
  OBVIOUS
<1>1. run.pc = "idle" /\ edits = 0 /\ disk = scene.disk /\ DOMAIN cache = {}
  BY DEF Init, NoRun
<1>. QED
  BY <1>1 DEF OneRubric, WithSetup, Extracted, Completed

\* A step that leaves the verdict and the settings, and puts no verdict in the
\* cache.
LEMMA OneRubricKept ==
    ASSUME OneRubric, UNCHANGED <<scene, disk, edits>>, run.pc # "idle",
           run'.pc # "idle", run'.request = run.request, run'.setup = run.setup,
           run'.verdict = run.verdict, run'.cached = run.cached,
           run'.pc \in WithSetup \/ Completed' => run.pc \in WithSetup \/ Completed,
           \A key \in DOMAIN cache' :
              cache'[key].judged => key \in DOMAIN cache /\ cache'[key] = cache[key]
    PROVE  OneRubric'
<1>1. NoProfileAsked' = NoProfileAsked /\ FirstProfile' = FirstProfile
  BY DEF NoProfileAsked, FirstProfile
<1>2. ASSUME edits = 0, NoProfileAsked
      PROVE  \A key \in DOMAIN cache' : cache'[key].judged => cache'[key].by.profile = FirstProfile
  BY <1>2 DEF OneRubric
<1>. QED
  BY <1>1, <1>2 DEF OneRubric

\* An edit: what is said of an unedited project no longer has to hold.
LEMMA OneRubricEdit ==
    ASSUME IInv, OneRubric, EditConfig \/ AddFile \/ RemoveFile
    PROVE  OneRubric'
<1>1. edits' = edits + 1 /\ scene' = scene
  BY DEF EditConfig, AddFile, RemoveFile, Touch
<1>2. run' = run \/ (run.pc # "idle" /\ run' = [run EXCEPT !.untouched = FALSE])
  BY DEF EditConfig, AddFile, RemoveFile, Touch
<1>3. /\ edits' \in Nat /\ edits' # 0
  BY <1>1 DEF OneRubric
<1>4. run.pc # "idle" => DOMAIN run = RunFields
  BY DEF IInv, Phases
<1>5. /\ run'.pc = run.pc
      /\ run.pc # "idle" => /\ run'.request = run.request /\ run'.verdict = run.verdict
                            /\ run'.cached = run.cached /\ run'.setup = run.setup
  BY <1>2, <1>4 DEF RunFields
<1>. QED
  BY <1>1, <1>3, <1>5 DEF OneRubric

\* Reading the settings of an unedited project.
LEMMA OneRubricReadSetup ==
    ASSUME IInv, OneRubric, ReadSetup
    PROVE  OneRubric'
<1> DEFINE setup == LoadConfigAndRubric(disk, ConfigPath, Rubric, run.request.profile)
<1>1. run.pc = "setup" /\ UNCHANGED <<scene, disk, cache, edits>>
  BY DEF ReadSetup
<1>2. DOMAIN run = RunFields /\ ~run.verdict.judged /\ run.refused = "no"
  BY <1>1 DEF IInv, Phases, Underway, Completed
<1>3. CASE Refusal("setup")
  <2>1. /\ run'.pc = "done" /\ run'.refused = "setup" /\ run'.request = run.request
        /\ run'.setup = run.setup /\ run'.verdict = run.verdict /\ run'.cached = run.cached
    BY <1>2, <1>3, RunIsRefused DEF RunFields
  <2>2. run'.pc \notin WithSetup /\ ~Completed'
    BY <2>1 DEF WithSetup, Extracted, Completed
  <2>. QED
    BY <1>1, <2>1, <2>2, OneRubricKept
<1>4. CASE run' = [run EXCEPT !.pc = "hash", !.setup = setup]
  <2>1. /\ run'.pc = "hash" /\ run'.setup = setup /\ run'.request = run.request
        /\ run'.verdict = run.verdict
    BY <1>2, <1>4 DEF RunFields
  <2>2. ASSUME edits = 0, NoProfileAsked PROVE setup.rubric.profile = FirstProfile
    <3>1. run.request.profile = Absent /\ disk = scene.disk
      BY <1>1, <2>2 DEF OneRubric, NoProfileAsked
    <3>. QED
      BY <3>1 DEF FirstProfile
  <2>3. NoProfileAsked' = NoProfileAsked /\ FirstProfile' = FirstProfile
    BY <1>1 DEF NoProfileAsked, FirstProfile
  <2> HIDE DEF setup
  <2>. QED
    BY <1>1, <1>2, <2>1, <2>2, <2>3 DEF OneRubric
<1>. QED
  BY <1>3, <1>4 DEF ReadSetup

\* The verdict of the formal stage: from the cache, or that of the settings.
LEMMA OneRubricFormal ==
    ASSUME IInv, OneRubric, Formal
    PROVE  OneRubric'
<1>1. run.pc = "formal" /\ UNCHANGED <<scene, disk, edits>>
  BY DEF Formal
<1>2. DOMAIN run = RunFields
  BY <1>1 DEF IInv, Phases
<1>3. PICK key, verdict :
        /\ verdict = IF key \in DOMAIN cache THEN cache[key]
                     ELSE VerdictOf(run.submission, run.setup)
        /\ run' = [run EXCEPT !.pc = "semantic", !.verdict = verdict,
                              !.cached = key \in DOMAIN cache]
        /\ cache' = CacheWith(key, verdict)
  BY DEF Formal
<1>4. /\ run'.pc = "semantic" /\ run'.request = run.request /\ run'.setup = run.setup
      /\ run'.verdict = verdict /\ (run'.cached <=> key \in DOMAIN cache)
  BY <1>2, <1>3 DEF RunFields
<1>5. key \notin DOMAIN cache => verdict.by = run.setup.rubric
  BY <1>3 DEF VerdictOf
<1>6. NoProfileAsked' = NoProfileAsked /\ FirstProfile' = FirstProfile
  BY <1>1 DEF NoProfileAsked, FirstProfile
<1>7. ASSUME edits = 0, NoProfileAsked
      PROVE  /\ disk = scene.disk /\ run.setup.rubric.profile = FirstProfile
             /\ verdict.judged => verdict.by.profile = FirstProfile
             /\ \A k \in DOMAIN cache' : cache'[k].judged => cache'[k].by.profile = FirstProfile
  <2>1. /\ disk = scene.disk /\ run.setup.rubric.profile = FirstProfile
        /\ \A k \in DOMAIN cache : cache[k].judged => cache[k].by.profile = FirstProfile
    BY <1>1, <1>7 DEF OneRubric, WithSetup, Extracted
  <2>2. verdict.judged => verdict.by.profile = FirstProfile
    BY <1>3, <1>5, <2>1
  <2>3. \A k \in DOMAIN cache' :
          \/ k = key /\ cache'[k] = verdict
          \/ k \in DOMAIN cache /\ cache'[k] = cache[k]
    BY <1>3 DEF CacheWith
  <2>. QED
    BY <2>1, <2>2, <2>3
<1>. QED
  BY <1>1, <1>4, <1>5, <1>6, <1>7 DEF OneRubric

\* The other steps of a run.
LEMMA OneRubricRun ==
    ASSUME IInv, OneRubric,
           Arguments \/ Hash \/ Extract \/ Semantic \/ Publish \/ Summarise
    PROVE  OneRubric'
<1>1. /\ UNCHANGED <<scene, disk, edits>>
      /\ run.pc \in {"arguments", "hash", "extract", "semantic", "publish", "summary"}
  BY DEF Arguments, Hash, Extract, Semantic, Publish, Summarise
<1>2. DOMAIN run = RunFields /\ run.pc # "idle"
  BY <1>1 DEF IInv, Phases
<1>3. cache' = cache \/ \E key : cache' = CacheWith(key, NoVerdict)
  BY DEF Arguments, Hash, Extract, Semantic, Publish, Summarise
<1>4. \A key \in DOMAIN cache' :
        cache'[key].judged => key \in DOMAIN cache /\ cache'[key] = cache[key]
  <2>1. ASSUME NEW k, cache' = CacheWith(k, NoVerdict), NEW key \in DOMAIN cache',
               cache'[key].judged
        PROVE  key \in DOMAIN cache /\ cache'[key] = cache[key]
    <3>1. ~NoVerdict.judged
      BY DEF NoVerdict
    <3>2. DOMAIN cache' = {k} \cup DOMAIN cache /\ cache'[k] = NoVerdict
          /\ \A q \in DOMAIN cache : q # k => cache'[q] = cache[q]
      BY <2>1 DEF CacheWith
    <3>. QED
      BY <2>1, <3>1, <3>2
  <2>. QED
    BY <1>3, <2>1
<1>5. CASE \E step \in {"arguments", "hash", "extract"} : Refusal(step)
  <2>1. /\ run'.pc = "done" /\ run'.refused # "no" /\ run'.request = run.request
        /\ run'.setup = run.setup /\ run'.verdict = run.verdict /\ run'.cached = run.cached
    BY <1>2, <1>5, RunIsRefused DEF RunFields
  <2>2. run'.pc \notin WithSetup /\ ~Completed'
    BY <2>1 DEF WithSetup, Extracted, Completed
  <2>. QED
    BY <1>1, <1>2, <1>4, <2>1, <2>2, OneRubricKept
<1>6. CASE Arguments /\ ~Refusal("arguments")
  <2>1. /\ run'.pc = "setup" /\ run'.request = run.request
        /\ run'.setup = run.setup /\ run'.verdict = run.verdict /\ run'.cached = run.cached
    BY <1>2, <1>6 DEF Arguments, RunFields
  <2>2. run'.pc \notin WithSetup /\ ~Completed'
    BY <2>1 DEF WithSetup, Extracted, Completed
  <2>. QED
    BY <1>1, <1>2, <1>4, <2>1, <2>2, OneRubricKept
<1>7. ASSUME run.pc \in WithSetup,
             run'.pc # "idle" /\ run'.request = run.request
               /\ run'.setup = run.setup /\ run'.verdict = run.verdict /\ run'.cached = run.cached
      PROVE  OneRubric'
  BY <1>1, <1>2, <1>4, <1>7, OneRubricKept
<1>8. CASE Hash /\ ~Refusal("hash")
  <2>1. PICK key : run' = [run EXCEPT !.pc = "extract", !.key = key]
    BY <1>8 DEF Hash
  <2>. QED
    BY <1>2, <1>7, <1>8, <2>1 DEF Hash, WithSetup, RunFields
<1>9. CASE \/ Extract /\ ~Refusal("extract")
           \/ Semantic \/ Publish \/ Summarise
  <2>1. \/ \E step \in {"formal", "semantic", "publish", "summary"} : GoTo(step)
        \/ \E sent : run' = [run EXCEPT !.pc = "publish", !.sent = sent]
        \/ \E shown : run' = [run EXCEPT !.pc = "done", !.shown = shown]
    BY <1>9 DEF Extract, Semantic, Publish, Summarise
  <2>2. run.pc \in WithSetup
    BY <1>9 DEF Extract, Semantic, Publish, Summarise, WithSetup, Extracted
  <2>3. /\ run'.pc # "idle" /\ run'.request = run.request
        /\ run'.setup = run.setup /\ run'.verdict = run.verdict /\ run'.cached = run.cached
    BY <1>2, <2>1 DEF GoTo, RunFields
  <2>. QED
    BY <1>7, <2>2, <2>3
<1>. QED
  BY <1>5, <1>6, <1>8, <1>9

\* Every step.
LEMMA NextOneRubric == IInv /\ OneRubric /\ [Next]_vars => OneRubric'
<1> SUFFICES ASSUME IInv, OneRubric, [Next]_vars PROVE OneRubric'
  OBVIOUS
<1>1. CASE EditConfig \/ AddFile \/ RemoveFile
  BY <1>1, OneRubricEdit
<1>2. CASE Doctor \/ UNCHANGED vars
  <2>1. UNCHANGED <<scene, disk, cache, run, edits>>
    BY <1>2 DEF Doctor, vars
  <2>. QED
    BY <2>1 DEF OneRubric, Completed, NoProfileAsked, FirstProfile
<1>3. CASE StartRun
  <2>1. /\ run'.pc = "arguments" /\ run'.verdict = NoVerdict /\ run'.request \in scene.requests
        /\ UNCHANGED <<scene, disk, cache, edits>>
    BY <1>3 DEF StartRun
  <2>2. run'.pc \notin WithSetup /\ ~Completed' /\ ~run'.verdict.judged
    BY <2>1 DEF WithSetup, Extracted, Completed, NoVerdict
  <2>. QED
    BY <2>1, <2>2 DEF OneRubric, NoProfileAsked, FirstProfile
<1>4. CASE ReadSetup
  BY <1>4, OneRubricReadSetup
<1>5. CASE Formal
  BY <1>5, OneRubricFormal
<1>6. CASE Arguments \/ Hash \/ Extract \/ Semantic \/ Publish \/ Summarise
  BY <1>6, OneRubricRun
<1>. QED
  BY <1>1, <1>2, <1>3, <1>4, <1>5, <1>6 DEF Next

\* The summary of a run names the profile of the settings its stages ran with,
\* whatever is edited between the two readings of the configuration, and it is
\* the one the rules of the published findings were chosen by, unless they came
\* from the cache of a project that was edited or where a command names a
\* profile (cli.py, orchestrator.py).
THEOREM SummaryNamesItsProfile == Spec => []SummaryFitsRun
<1>1. Init => OneRubric
  BY InitOneRubric
<1>2. IInv /\ OneRubric /\ [Next]_vars => OneRubric'
  BY NextOneRubric
<1>3. IInv /\ OneRubric => SummaryFitsRun
  <2> SUFFICES ASSUME IInv, OneRubric, Completed, IncludesStage(run.request, "aggregate")
               PROVE  /\ run.shown.profile = run.setup.rubric.profile
                      /\ run.verdict.judged /\ run.verdict.by.profile # run.shown.profile =>
                           run.cached /\ (edits > 0 \/ ~NoProfileAsked)
    BY DEF SummaryFitsRun
  <2>1. run.shown.profile = run.setup.rubric.profile
    BY DEF IInv, SummaryOfSettings
  <2>2. run.pc # "idle" /\ edits \in Nat
    BY DEF Completed, OneRubric
  <2>3. run.verdict.judged /\ ~run.cached => run.verdict.by.profile = run.setup.rubric.profile
    BY <2>2 DEF OneRubric
  <2>4. run.verdict.judged /\ edits = 0 /\ NoProfileAsked =>
          run.verdict.by.profile = run.setup.rubric.profile
    BY <2>2 DEF OneRubric
  <2>. QED
    BY <2>1, <2>2, <2>3, <2>4
<1>. QED
  BY <1>1, <1>2, <1>3, RunHoldsTogether, PTL DEF Spec

\* The audit of a tree and the run of it, on what they resolve to.
LEMMA TheyAgree ==
    ASSUME IInv, run.pc # "idle", doctor.asked, run.untouched,
           doctor.source = run.request.source, doctor.root = run.request.root,
           run.submission.ok => ~Shadowed(tree, run.submission.root, run.request.cwd)
    PROVE  /\ run.verdict.judged => [kind |-> "include", why |-> "missing"] \notin doctor.problems
           /\ run.refused \in {"hash", "extract"} /\ doctor.problems = {} =>
                OutOfTheAudit(tree, run.submission, run.request.cwd)
<1> DEFINE submission == run.submission
           cwd == run.request.cwd
<1>1. ASSUME submission.ok
      PROVE  /\ submission.source \in FilesOf(tree) /\ IsFile(tree, submission.source)
             /\ submission.root \in Seq(STRING) /\ IsTree(tree)
             /\ ~Shadowed(tree, submission.root, cwd)
             /\ doctor.problems = AuditOf(tree, submission)
  <2>1. /\ IsTree(tree)
        /\ submission = ResolveSubmission(tree, run.request.source, run.request.root)
    BY <1>1 DEF IInv, Phases, ThisTree
  <2>2. doctor.problems = AuditOf(tree, submission)
    BY <2>1 DEF IInv, ThisTree
  <2>. QED
    BY <1>1, <2>1, <2>2, ResolvedIsFile
<1>2. ASSUME run.verdict.judged
      PROVE  [kind |-> "include", why |-> "missing"] \notin doctor.problems
  <2>1. run.pc \in Extracted \/ Completed
    BY <1>2 DEF IInv, Phases, Extracted
  <2>2. submission.ok /\ Extractable(tree, submission, cwd)
    BY <2>1 DEF IInv, ThisTree, WithSetup
  <2>3. CASE submission.source.suffix = "pdf"
    BY <1>1, <2>2, <2>3 DEF AuditOf
  <2>4. CASE submission.source.suffix = "tex"
    <3>1. ExtractionErrors(tree, submission.root, cwd, submission.source) = {}
      BY <2>2, <2>4 DEF Extractable
    <3>2. doctor.problems = DependencyProblems(tree, submission.root, submission.source)
      BY <1>1, <2>2, <2>4 DEF AuditOf, BundleProblems
    <3>. QED
      BY <1>1, <2>2, <3>1, <3>2, ReadableIsComplete
  <2>. QED
    BY <2>2, <2>3, <2>4 DEF Extractable
<1>3. ASSUME run.refused \in {"hash", "extract"}, doctor.problems = {},
             ~OutOfTheAudit(tree, submission, cwd)
      PROVE  FALSE
  <2>1. submission.ok
    <3>1. run.pc = "done"
      BY <1>3 DEF IInv, Phases, Over
    <3>. QED
      BY <1>3, <3>1 DEF IInv, ThisTree
  <2>2. \/ run.refused = "hash" /\ ~Hashable(tree, submission)
        \/ run.refused = "extract" /\ ~Extractable(tree, submission, cwd)
    BY <1>3 DEF IInv, ThisTree
  <2>3. CASE submission.source.suffix = "pdf"
    BY <1>1, <2>1, <2>2, <2>3 DEF Hashable, Extractable
  <2>4. CASE submission.source.suffix = "tex"
    <3>1. DependencyProblems(tree, submission.root, submission.source) = {}
      BY <1>1, <1>3, <2>1, <2>4 DEF AuditOf, BundleProblems
    <3>2. ProjectIsListable(tree, submission.root)
      BY <1>3 DEF OutOfTheAudit
    <3>3. ExtractionErrors(tree, submission.root, cwd, submission.source) = {}
      BY <1>1, <1>3, <2>1, <3>1, CompleteIsReadable
    <3>. QED
      BY <1>1, <2>1, <2>2, <2>4, <3>2, <3>3 DEF Hashable, Extractable
  <2>5. submission.source.suffix \in {"pdf", "tex"}
    BY <1>1, <1>3, <2>1 DEF AuditOf
  <2>. QED
    BY <2>3, <2>4, <2>5
<1>. QED
  BY <1>2, <1>3

\* Of every untouched tree without shadowed includes, `doctor` and a run agree:
\* where the run could expand all includes the audit misses none, and what the
\* audit finds complete is refused only for what it does not look for
\* (submission.py, extract/latex.py).
THEOREM DoctorAndRunAgree == Spec => []DoctorAgreesWithRun
<1>1. IInv => DoctorAgreesWithRun
  BY TheyAgree DEF DoctorAgreesWithRun
<1>. QED
  BY <1>1, RunHoldsTogether, PTL

\* Whatever the tree, a file added to it makes no command check another thesis
\* without a word (submission.py).
THEOREM AddingChoosesNoOther == Spec => NeverAnotherThesis
<1> DEFINE Kept ==
      \A request \in scene.requests :
        LET before == ResolveSubmission(tree, request.source, request.root)
            after == ResolveSubmission(tree', request.source, request.root)
        IN /\ DOMAIN tree \subseteq DOMAIN tree'
           /\ TopMain \notin DOMAIN tree' \ DOMAIN tree
           /\ before.ok /\ before.source.suffix = "tex" /\ after.ok
           /\ TopPdf \in DOMAIN tree => before.source # Target(tree, TopPdf)
           => after.source = before.source
<1>1. [Next]_vars => [Kept]_tree
  <2> SUFFICES ASSUME [Next]_vars, tree' # tree, DOMAIN tree \subseteq DOMAIN tree',
                      TopMain \notin DOMAIN tree' \ DOMAIN tree,
                      NEW request \in scene.requests,
                      ResolveSubmission(tree, request.source, request.root).ok,
                      ResolveSubmission(tree, request.source, request.root).source.suffix = "tex",
                      ResolveSubmission(tree', request.source, request.root).ok,
                      TopPdf \in DOMAIN tree =>
                        ResolveSubmission(tree, request.source, request.root).source
                          # Target(tree, TopPdf)
               PROVE  ResolveSubmission(tree', request.source, request.root).source
                        = ResolveSubmission(tree, request.source, request.root).source
    OBVIOUS
  <2>1. AddFile \/ RemoveFile
    BY DEF Next, vars, EditConfig, Doctor, StartRun, Arguments, ReadSetup, Hash, Extract, Formal,
           Semantic, Publish, Summarise
  <2>2. \A p \in DOMAIN tree : tree'[p] = tree[p]
    <3>1. CASE AddFile
      BY <3>1 DEF AddFile, Touch
    <3>2. CASE RemoveFile
      BY <3>2 DEF RemoveFile, Touch
    <3>. QED
      BY <2>1, <3>1, <3>2
  <2>. QED
    BY <2>2, AddedFilesChooseNoOther
<1>. QED
  BY <1>1, PTL DEF Spec, NeverAnotherThesis
=============================================================================
