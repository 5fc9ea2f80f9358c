----------------------------- MODULE ThesisText ------------------------------
(***************************************************************************)
(* What the content rules read out of a LaTeX project: LatexProjectReader, *)
(* latex_symbols.py, cite_symbols.py and bib_parser.py.                    *)
(*                                                                         *)
(* The expanded body is a sequence of items, each with a kind and what the *)
(* patterns find in it; comments are gone, and an item that stands in a    *)
(* literal environment (verbatim, lstlisting) is marked.  The kinds:       *)
(*   section, chapter, subsection, subsubsection: the title                *)
(*   figure, table, longtable: label, caption, number, refs, endhead       *)
(*   ref: labels          cite, footcite, nocite: a set of keys            *)
(*   words: how many      footnote: whether it has a URL or a year         *)
(*   list: the lengths of its items    declared: metric and number         *)
(*   par, bracket, math, abbreviation, algorithm, block, appendix, url     *)
(* A .bib file is a sequence of pieces: an entry, text between entries, or *)
(* an entry that lacks its closing brace.                                  *)
(***************************************************************************)
EXTENDS Sequences, SequencesExt, FiniteSets, FiniteSetsExt, Integers

CONSTANTS
    Inside,     \* pairs of titles: the first is a part of the second
    Named,      \* [title -> the canonical name STR-01 gives it]
    KindOf,     \* [title -> the kind of section the extractor gives it]
    NoLabel, AllKeys

Written(body) == SelectSeq(body, LAMBDA x : ~x.literal)
Of(body, kinds) == {k \in DOMAIN body : body[k].kind \in kinds}
Items(body, kinds) == {body[k] : k \in Of(body, kinds)}

\* LatexProjectSnapshot.sections: the headings the extractor found.
Headings == {"chapter", "section", "subsection", "subsubsection"}
HeadingLevel(kind) == CASE kind = "chapter" -> 1 [] kind = "section" -> 2
                 [] kind = "subsection" -> 3 [] OTHER -> 4
Sections(body) ==
    LET Found[k \in 0 .. Len(body)] ==
            IF k = 0 THEN <<>>
            ELSE IF body[k].literal \/ body[k].kind \notin Headings THEN Found[k - 1]
            ELSE Append(Found[k - 1], [title |-> body[k].arg,
                                       level |-> HeadingLevel(body[k].kind)])
    IN Found[Len(body)]

NoBody == [found |-> FALSE, text |-> <<>>]

\* Faulty variant: the section goes on to the end of the document.
SectionBodyToEnd(body, title) ==
    LET heads == {k \in Of(body, {"section"}) : <<title, body[k].arg>> \in Inside} IN
    IF heads = {} THEN NoBody
    ELSE [found |-> TRUE, text |-> SubSeq(body, Min(heads) + 1, Len(body))]

\* section_body: from the first \section whose heading contains the title to
\* the next \section, those in literal environments not excepted.
SectionBody(body, title) ==
    LET heads == {k \in Of(body, {"section"}) : <<title, body[k].arg>> \in Inside}
        from == Min(heads)
        ends == {k \in Of(body, {"section"}) : k > from}
    IN IF heads = {} THEN NoBody
       ELSE [found |-> TRUE,
             text |-> SubSeq(body, from + 1,
                             IF ends = {} THEN Len(body) ELSE Min(ends) - 1)]

------------------------------------------------------------------------------
(* latex_symbols.py                                                        *)

Floats == {"figure", "table", "longtable"}
FigureBlocks(body) == Items(body, {"figure"})
TableBlocks(body) == Items(body, {"table", "longtable"})

\* reference_targets: what is referenced outside floats.  A command with two
\* labels names neither of them.
ReferenceTargets(body) == {x.arg : x \in Items(body, {"ref"})}

ContainsList(body) == Of(body, {"list"}) # {}
ContainsSubsubsection(body) == Of(body, {"subsubsection"}) # {}
LongtableWithoutHeader(body) == \E f \in Items(body, {"longtable"}) : ~f.arg.endhead

------------------------------------------------------------------------------
(* cite_symbols.py                                                         *)

\* Faulty variant: the keys of one command are not told apart.
CiteKeysUnsplit(body) ==
    UNION {x.arg : x \in {x \in Items(body, {"cite", "footcite"}) : Cardinality(x.arg) = 1}}

\* cite_keys
CiteKeys(body) == UNION {x.arg : x \in Items(body, {"cite", "footcite"})}
NociteKeys(body) == UNION {x.arg : x \in Items(body, {"nocite"})}

\* The words of a text; a command counts as its name and its keys.
Words(x) ==
    CASE x.kind = "words" -> x.arg
      [] x.kind \in {"cite", "footcite", "nocite"} -> 1 + Cardinality(x.arg)
      [] OTHER -> 0
WordCount(body) ==
    LET Sum[k \in 0 .. Len(body)] == IF k = 0 THEN 0 ELSE Sum[k - 1] + Words(body[k])
    IN Sum[Len(body)]

\* The places a paragraph ends.
Paragraphs(body) ==
    LET cuts == {0} \cup Of(body, {"par"}) \cup {Len(body) + 1}
        Next(c) == Min({d \in cuts : d > c})
    IN {SubSeq(body, c + 1, Next(c) - 1) : c \in cuts \ {Max(cuts)}}
ParagraphsWithoutCite(body) ==
    {p \in Paragraphs(body) : WordCount(p) >= 150 /\ Of(p, {"cite", "footcite"}) = {}}

------------------------------------------------------------------------------
(* bib_parser.py                                                           *)

\* parse_bib_text: an entry without a key or without a comma is skipped; what
\* follows an entry that does not close is not read.
ParseBibText(file) ==
    LET open == {k \in DOMAIN file : file[k].kind = "unclosed"}
        read == SubSeq(file, 1, IF open = {} THEN Len(file) ELSE Min(open) - 1)
        entries == SelectSeq(read, LAMBDA p : p.kind = "entry" /\ p.entry.key # "")
    IN [k \in DOMAIN entries |-> entries[k].entry]

\* load_bib_entries, of the files that exist.  All of them can be read here: one
\* that cannot ends the rule with a tool error, as in FormalEngine.
LoadBibEntries(files) == FlattenSeq([k \in DOMAIN files |-> ParseBibText(files[k])])
=============================================================================
