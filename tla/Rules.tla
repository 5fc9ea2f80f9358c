-------------------------------- MODULE Rules --------------------------------
(***************************************************************************)
(* The formal rules over the life of a submission: it is checked, revised  *)
(* and checked again.  A verdict is a function of the submission alone; a  *)
(* revision adds a citation, adds an object to the text, takes a source    *)
(* of evidence away, or hands over the spans of the PDF in another order.  *)
(* `before` and `earlier` are the submission of the first check and its    *)
(* verdicts.                                                               *)
(***************************************************************************)
EXTENDS ContentRules

CONSTANTS
    Submissions,   \* what is handed in first
    NewKeys,       \* keys a revision cites
    NewObjects     \* items a revision puts into the text

\* A text is a sequence of items, of a PDF that can be read the spans are one,
\* and an object is no heading.  A rank stands for a font, a size and a text.
IsItem(x) ==
    /\ x = [kind |-> x.kind, arg |-> x.arg, literal |-> x.literal]
    /\ x.kind = "words" => x.arg \in Nat
    /\ x.kind \in {"cite", "footcite", "nocite"} => IsFiniteSet(x.arg)
    /\ x.kind \in Headings => x.arg \in DOMAIN KindOf
IsText(body) == body \in Seq(ToSet(body)) /\ \A x \in ToSet(body) : IsItem(x)
IsPdf(pdf) ==
    /\ {"pages", "service", "spans", "readable", "objects"} \subseteq DOMAIN pdf
    /\ pdf.spans \in Seq(ToSet(pdf.spans))
    /\ \A s \in ToSet(pdf.spans) :
         /\ {s.page, s.chars, s.size, s.rank} \subseteq Nat
         /\ {s.box.x0, s.box.y0, s.box.x1, s.box.y1} \subseteq Int
    /\ \A s, t \in ToSet(pdf.spans) :
         s.rank = t.rank => s.font = t.font /\ s.size = t.size /\ s.text = t.text
    /\ IsFiniteSet(DOMAIN pdf.pages)
IsSubmission(s) ==
    /\ {"latex", "class", "protected", "pdf", "body", "bib", "declared", "paged",
        "sections", "preamble", "build"} \subseteq DOMAIN s
    /\ IsText(s.body)
    /\ s.pdf # NoPdf => IsPdf(s.pdf)

\* Other orders of the same spans: from last to first, and from another page on.
Reorderings(spans) ==
    LET n == Len(spans) IN
    {Reverse(spans)} \cup {SubSeq(spans, k + 1, n) \o SubSeq(spans, 1, k) : k \in 1 .. n - 1}

\* A PDF is a PDF in whatever order its spans come.
ASSUME SubmissionsAssumption ==
    /\ \A s \in Submissions :
         /\ IsSubmission(s)
         /\ s.pdf # NoPdf => \A spans \in Reorderings(s.pdf.spans) :
                                [s.pdf EXCEPT !.spans = spans] # NoPdf
    /\ \A x \in NewObjects : IsItem(x) /\ x.kind \notin Headings

VARIABLES submission, verdict, before, earlier, revision

vars == <<submission, verdict, before, earlier, revision>>

FormatIds == {"FMT-01", "FMT-02", "FMT-03", "FMT-04", "FMT-05"}
\* The rules whose required_sources name the .bib files.
BibIds == {"BIB-02", "BIB-03", "BIB-04", "BIB-05", "REV-01", "REV-02", "REV-03", "REV-04"}
RuleIds == FormatIds \cup BibIds \cup
    {"STR-01", "STR-02", "STR-03", "STR-04", "BIB-01", "REV-07",
     "FIG-01", "FIG-02", "FIG-03", "FIG-04", "FIG-05", "FIG-06", "FIG-07",
     "TAB-01", "TAB-02", "TAB-03", "CAP-01", "MTH-01", "ANN-02", "ANN-03",
     "INT-02", "SSA-01", "ARC-01", "RES-01", "TSK-02", "ALG-01", "ALG-03",
     "APP-01", "SYS-01", "SYS-02", "SYS-03"}

Run(s, r) ==
    CASE r \in FormatIds -> FormatVerdicts(s)[r]
      [] r = "STR-01" -> Str01(s) [] r = "STR-02" -> Str02(s)
      [] r = "STR-03" -> Str03(s) [] r = "STR-04" -> Str04(s)
      [] r = "BIB-01" -> Bib01(s) [] r = "BIB-02" -> Bib02(s)
      [] r = "BIB-03" -> Bib03(s) [] r = "BIB-04" -> Bib04(s)
      [] r = "BIB-05" -> Bib05(s) [] r = "REV-01" -> Rev01(s)
      [] r = "REV-02" -> Rev02(s) [] r = "REV-03" -> Rev03(s)
      [] r = "REV-04" -> Rev04(s) [] r = "REV-07" -> Rev07(s)
      [] r = "FIG-01" -> Fig01(s) [] r = "FIG-02" -> Fig02(s)
      [] r = "FIG-03" -> Fig03(s) [] r = "FIG-04" -> ClassAnswer(s, {"counterwithin"})
      [] r = "FIG-05" -> ClassAnswer(s, {"figure caption"})
      [] r = "FIG-06" -> ClassAnswer(s, {"no hyphens"})
      [] r = "FIG-07" -> ClassAnswer(s, {"stretch"})
      [] r = "TAB-01" -> ClassAnswer(s, {"table caption"})
      [] r = "TAB-02" -> Tab02(s) [] r = "TAB-03" -> Tab03(s)
      [] r = "CAP-01" -> Cap01(s) [] r = "MTH-01" -> Mth01(s)
      [] r = "ANN-02" -> Ann02(s) [] r = "ANN-03" -> Ann03(s)
      [] r = "INT-02" -> Int02(s) [] r = "SSA-01" -> Ssa01(s)
      [] r = "ARC-01" -> Arc01(s) [] r = "RES-01" -> Res01(s)
      [] r = "TSK-02" -> Tsk02(s) [] r = "ALG-01" -> Alg01(s)
      [] r = "ALG-03" -> Alg03(s) [] r = "APP-01" -> App01(s)
      [] r = "SYS-01" -> Sys01(s) [] r = "SYS-02" -> Sys02(s)
      [] r = "SYS-03" -> Sys03(s)

\* FormalEngine._evaluate_rule: a rule without its sources is not run.
Judged(s, r) ==
    LET latexOnly == r \notin FormatIds \cup {"APP-01"} IN
    IF latexOnly /\ ~s.latex THEN "unverifiable"
    ELSE IF r \in BibIds /\ s.bib = <<>>
      THEN IF s.declared THEN "unverifiable" ELSE "not_applicable"
    ELSE IF r = "ANN-03" /\ s.pdf = NoPdf THEN "unverifiable"
    ELSE Run(s, r)

NotJudged == [r \in RuleIds |-> "none"]

Init ==
    /\ submission \in Submissions
    /\ verdict = NotJudged
    /\ before = submission /\ earlier = NotJudged
    /\ revision = "none"

Checked == verdict # NotJudged

\* One run of every rule.
Judge ==
    /\ ~Checked
    /\ verdict' = [r \in RuleIds |-> Judged(submission, r)]
    /\ UNCHANGED <<submission, before, earlier, revision>>

Revise(kind, revised) ==
    /\ Checked /\ revision = "none"
    /\ submission' = revised
    /\ revision' = kind
    /\ before' = submission /\ earlier' = verdict
    /\ verdict' = NotJudged

\* A key nothing cited is cited, in a command of its own or in one there is.
Cite ==
    /\ submission.latex
    /\ \E key \in NewKeys \ CiteKeys(submission.body) :
         LET body == submission.body IN
         \/ \E k \in 0 .. Len(body) :
              /\ k # 0 => ~body[k].literal
              /\ Revise("cited", [submission EXCEPT !.body = InsertAt(@, k + 1,
                   [kind |-> "cite", arg |-> {key}, literal |-> FALSE])])
         \/ \E k \in Of(body, {"cite"}) :
              Revise("cited", [submission EXCEPT !.body[k].arg = @ \cup {key}])

\* An object is put into a section.
Insert ==
    /\ submission.latex
    /\ \E x \in NewObjects, k \in DOMAIN submission.body :
         Revise("inserted", [submission EXCEPT !.body = InsertAt(@, k + 1, x)])

\* The sections of a bundle that has no pages: those of a LaTeX project until
\* somebody adds the pages of its PDF.
Unpaged(sections) ==
    [k \in DOMAIN sections |-> [title |-> sections[k].title, level |-> sections[k].level,
                               first |-> 0, last |-> 0]]

\* The class file or the .bib files are no longer there, or the pages of the
\* bundle, or the PDF and with it the pages.
Withdraw ==
    /\ submission.latex
    /\ \/ /\ submission.class # NoClass
          /\ Revise("withdrawn", [submission EXCEPT !.class = NoClass,
                                                    !.protected = "missing"])
       \/ /\ submission.bib # <<>>
          /\ Revise("withdrawn", [submission EXCEPT !.bib = <<>>])
       \/ /\ submission.paged
          /\ Revise("withdrawn", [submission EXCEPT !.paged = FALSE,
                                                    !.sections = Unpaged(@)])
       \/ /\ submission.pdf # NoPdf
          /\ Revise("withdrawn", [submission EXCEPT !.pdf = NoPdf, !.paged = FALSE,
                                                    !.sections = Unpaged(@)])

\* The same spans, extracted in another order.
Reorder ==
    /\ HasText(submission)
    /\ \E spans \in Reorderings(submission.pdf.spans) :
         Revise("reordered", [submission EXCEPT !.pdf.spans = spans])

Next == Judge \/ Cite \/ Insert \/ Withdraw \/ Reorder

Spec == Init /\ [][Next]_vars

------------------------------------------------------------------------------
(* Properties.                                                             *)

Silent == {"unverifiable", "not_applicable"}
Revised(kind) == Checked /\ revision = kind

\* FMT-01 and FMT-05 pass no PDF they have not looked at: what is shown has a
\* place, text enough for a judgement is set in Times, and what lies beyond the
\* margins is a number or stands on another page as well.  No more than that:
\* text set apart (listings, tables, formulas) may have any font, and text that
\* stands on two pages goes for a running header wherever it is.
PassIsMeasured ==
    LET pdf == submission.pdf
        spans == pdf.spans
        text == {i \in DOMAIN spans : spans[i].page \notin pdf.service /\ spans[i].chars >= 1}
        Repeated(i) == \E j \in text : /\ spans[j].page # spans[i].page
                                       /\ Normalized(spans[j]) = Normalized(spans[i])
    IN Checked /\ ~submission.latex =>
       /\ verdict["FMT-01"] = "pass" =>
            /\ \A i \in text : spans[i].size > 0 => Reliable(spans[i].box)
            /\ 100 * Chars(spans, {i \in text : spans[i].font = "times"}) >= 95 * MinChars
       /\ verdict["FMT-05"] = "pass" =>
            \A i \in {i \in text : spans[i].chars >= 2} :
              /\ spans[i].page \in DOMAIN pdf.pages /\ Reliable(spans[i].box)
              /\ \/ WithinMargins(spans[i].box, pdf.pages[spans[i].page])
                 \/ spans[i].text = "digits" \/ Repeated(i)

\* The verdicts do not depend on the order in which the extractor hands over
\* the spans of a page, or the pages.
OrderDoesNotMatter == Revised("reordered") => verdict = earlier

\* Evidence that is taken away silences a rule or leaves its verdict alone: it
\* turns no fail into a pass, no pass into a fail, and no warning into a pass.
\* Two exceptions.  The typography of a LaTeX project is judged by the class
\* alone when there is no PDF, so what the PDF alone had shown is forgiven; and
\* STR-04, other than STR-03, passes the sections whose pages it does not know.
LessEvidenceOnlySilences ==
    Revised("withdrawn") =>
      \A r \in RuleIds :
        \/ verdict[r] = earlier[r]
        \/ verdict[r] \in Silent
        \/ earlier[r] = "fail" /\ verdict[r] = "warn"
        \/ r \in FormatIds /\ submission.pdf = NoPdf /\ earlier[r] = "fail"
        \/ r = "STR-04" /\ ~submission.paged /\ verdict[r] = "pass"

\* To cite one more source never costs a verdict of the rules that ask for
\* citations, wherever it is cited.
CitationNeverCosts ==
    Revised("cited") =>
      \A r \in {"REV-01", "REV-02", "REV-07", "BIB-05"} :
        verdict[r] = "warn" => earlier[r] = "warn"

\* The section an item stands in, of those section_body knows: on the level of
\* \section, in literal text or not.
SectionOf(body, k) ==
    LET heads == {h \in Of(body, {"section"}) : h < k} IN
    IF heads = {} THEN "none" ELSE body[Max(heads)].arg
SectionsOf(body) == {body[k].arg : k \in Of(body, {"section"})}

TitlesOf(kind) == {t \in DOMAIN KindOf : KindOf[t] = kind}
\* The titles each of these rules is about.
About == [r \in {"SSA-01", "ARC-01", "RES-01", "TSK-02", "ALG-01", "ALG-03",
                 "ANN-02", "INT-02"} |->
    CASE r = "SSA-01" -> AsIsTitles [] r = "ARC-01" -> ToBeTitles
      [] r = "RES-01" -> ResultTitles [] r = "TSK-02" -> TaskTitles
      [] r = "ANN-02" -> {Annotation} \cup TitlesOf("annotation")
      [] r = "INT-02" -> {Introduction} \cup TitlesOf("introduction")
      [] OTHER -> AlgorithmTitles]

\* What changed stands in a section none of the rule's titles names.
Elsewhere(r) ==
    LET new == submission.body
        at == CHOOSE k \in DOMAIN new : new = InsertAt(before.body, k, new[k])
    IN SectionOf(new, at) \notin About[r]
Overlapping(r) ==
    \E title \in About[r], other \in SectionsOf(submission.body) :
      title # other /\ <<title, other>> \in Inside

\* What is put into one section changes no verdict about another, when no
\* heading contains the title the rule looks for.
SectionsKeepApart ==
    Revised("inserted") =>
      \A r \in DOMAIN About :
        Elsewhere(r) /\ ~Overlapping(r) => verdict[r] = earlier[r]

\* docs/formal-engine.md of SSA-01, ARC-01 and RES-01: what stands in other
\* sections is ignored.
OnlyItsOwnSection ==
    Revised("inserted") =>
      \A r \in {"SSA-01", "ARC-01", "RES-01"} :
        Elsewhere(r) => verdict[r] = earlier[r]
=============================================================================
