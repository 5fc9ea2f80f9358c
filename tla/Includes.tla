------------------------------- MODULE Includes -------------------------------
(***************************************************************************)
(* LatexExtractor: the files of a LaTeX project, what is taken out of them *)
(* before a directive is looked for, how \input finds its file, and the    *)
(* two other walks of the same project: the bibliography and the one the   *)
(* formal rules read (LatexProjectReader).                                 *)
(*                                                                         *)
(* A file is a sequence of lines.  A line holds one thing: a piece of text *)
(* (a title when it is a heading), an \input, a bibliography command, or   *)
(* the begin or end of a verbatim environment; `comment` says that a %     *)
(* stands in front of it.                                                  *)
(***************************************************************************)
EXTENDS Sequences, SequencesExt, FiniteSets, FiniteSetsExt, Naturals

CONSTANTS
    File,      \* the files a project may have
    Name       \* the names an \input may give

NoFile == "no file"
Outside == "outside"         \* resolves, but not below the project root
Directory == "directory"

\* A project p: its main file, p.lines[f], the files p.utf8 that can be decoded,
\* p.near[f][n], what n names beside the file f, and p.cwd[n], what it names in
\* the working directory of the process if it exists there as it is written.

Kinds == {"text", "heading", "input", "bib", "begin", "end", "literal"}
FileLine == [kind : Kinds, arg : STRING, comment : BOOLEAN, block : Seq(STRING)]
Targets == File \cup {NoFile, Outside, Directory}

-----------------------------------------------------------------------------
\* The line the environment opened at b ends at; an unterminated one ends with
\* the file.  Environments nest.
LiteralEnd(lines, b) ==
    LET Count(e, kind) == Cardinality({i \in b .. e : lines[i].kind = kind})
        Closing == {e \in b .. Len(lines) : Count(e, "begin") = Count(e, "end")}
    IN IF Closing = {} THEN Len(lines) ELSE Min(Closing)

\* _protect_literal_environments: what an environment holds becomes one opaque
\* thing, on the line of its begin.
Protect(lines) ==
    LET From[i \in 1 .. Len(lines) + 1] ==
            IF i > Len(lines) THEN <<>>
            ELSE IF lines[i].kind # "begin" THEN <<lines[i]>> \o From[i + 1]
            ELSE LET e == LiteralEnd(lines, i) IN
                 <<[lines[i] EXCEPT !.kind = "literal",
                                    !.block = [k \in 1 .. e - i + 1 |->
                                                 lines[i + k - 1].arg]]>>
                 \o From[e + 1]
    IN From[1]

\* _strip_comments, applied after the protection.
StripComments(lines) == SelectSeq(lines, LAMBDA line : ~line.comment)

Directives(p, f) == StripComments(Protect(p.lines[f]))

-----------------------------------------------------------------------------
\* _resolve_source: a name that exists in the working directory wins over the
\* file beside the including one.
Resolve(p, f, n) ==
    IF p.cwd[n] # NoFile THEN p.cwd[n] ELSE p.near[f][n]

ErrorOf(target) ==
    CASE target = NoFile -> "IncludeNotFoundError"
      [] target = Outside -> "UnsafePathError"
      [] target = Directory -> "SourceNotFoundError"

IsProject(p) ==
    /\ p.main \in File /\ p.near \in [File -> [Name -> Targets]] /\ p.cwd \in [Name -> Targets]
    /\ \A f \in File :
          /\ Directives(p, f) \in Seq(FileLine)
          /\ \A line \in ToSet(Directives(p, f)) : line.kind = "input" => line.arg \in Name

\* What the \input commands of a file lead to.
InputsOf(p, f) ==
    {Resolve(p, f, line.arg) :
       line \in {l \in ToSet(Directives(p, f)) : l.kind = "input"}}

\* The files the \input graph reaches from f.
Reach(p, f) ==
    LET closed == {S \in SUBSET File :
                     f \in S /\ \A g \in S : InputsOf(p, g) \cap File \subseteq S}
    IN {g \in File : \A S \in closed : g \in S}

\* Everything that is reached from f is a readable file of the project, and
\* nothing is reached from itself.
IsSound(p, f) ==
    \A g \in Reach(p, f) :
        /\ g \in p.utf8 /\ InputsOf(p, g) \subseteq File
        /\ \A h \in InputsOf(p, g) : g \notin Reach(p, h)

\* LatexProjectReader._expand_for_analysis: every file below `stack`, each one
\* beside the file that includes it; a file on the stack is left out.  Given that
\* the includes resolve: one that cannot be read raises.
ExpandForAnalysis(p) ==
    LET Inlined[stack \in SUBSET File] == [f \in File |->
            IF f \in stack THEN <<>>
            ELSE FlattenSeq([i \in 1 .. Len(Directives(p, f)) |->
                LET line == Directives(p, f)[i]
                    child == p.near[f][line.arg]
                IN IF line.kind # "input" THEN <<line>>
                   ELSE IF child \notin File THEN <<>>
                   ELSE Inlined[stack \cup {f}][child]])]
    IN Inlined[{}][p.main]

\* The bibliography commands of a file.
BibliographyOf(p, f) ==
    {line.arg : line \in {l \in ToSet(Directives(p, f)) : l.kind = "bib"}}

\* Faulty variant: only the main file is looked at.
BibliographyOfMain(p) == BibliographyOf(p, p.main)

\* _bibliography_references: its own commands and those of its includes; a file
\* that is being visited is not visited again.  Given that the includes resolve.
BibliographyReferences(p) ==
    LET Below[visited \in SUBSET File] == [f \in File |->
            IF f \in visited THEN {}
            ELSE BibliographyOf(p, f) \cup
                 UNION {Below[visited \cup {f}][child] : child \in InputsOf(p, f) \cap File}]
    IN Below[{}][p.main]
=============================================================================
