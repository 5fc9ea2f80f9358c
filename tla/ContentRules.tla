---------------------------- MODULE ContentRules -----------------------------
(***************************************************************************)
(* The rules about the source: structure.py, bibliography.py, review.py,   *)
(* figures.py, tables.py, captions.py, formulas.py, annotation.py,         *)
(* monolith.py, section_floats.py, task_items.py, algorithm.py,            *)
(* appendix.py and system.py.  Each answers with one status: of the        *)
(* findings of a rule that can report several, the gravest.                *)
(*                                                                         *)
(* Beside the fields of FormatRules a submission has: body; bib, the .bib  *)
(* files declared; paged, whether the document bundle has pages, and its   *)
(* sections with theirs, 0 when unknown; protected, whether the reference  *)
(* hashes are agreed on, missing or do not match; preamble, the forbidden  *)
(* commands in the preamble; build, what latexmk and chktex report.        *)
(***************************************************************************)
EXTENDS FormatRules, ThesisText

CONSTANTS
    Canonical,                \* _CANONICAL_SOFTWARE, the required sections
    PageRange,                \* [canonical name -> [low, high]], _PAGE_RANGES
    Review, Mathematics,      \* the titles REV and MTH look for
    Annotation, Introduction, \* the titles ANN-02 and INT-02 fall back to
    TaskTitles, AlgorithmTitles, AsIsTitles, ToBeTitles, ResultTitles,
    MinSources, MinForeign,   \* 20 and 10
    Recent,                   \* defense_year - 5
    ShareTwice                \* recent_sources_share, doubled

ASSUME MinimaAssumption == MinSources \in Nat /\ MinForeign \in Nat

\* combine_class_script
CombineClassScript(class, script, optional, warn) ==
    IF class = "no" THEN "fail"
    ELSE IF script = "no" THEN IF warn THEN "warn" ELSE "fail"
    ELSE IF class = "unknown" \/ (script = "unknown" /\ ~optional) THEN "unverifiable"
    ELSE "pass"

Warn(bad) == IF bad THEN "warn" ELSE "pass"
Fail(bad) == IF bad THEN "fail" ELSE "pass"
ClassAnswer(sub, directives) ==
    CASE ClassSets(sub, directives) = "yes" -> "pass"
      [] ClassSets(sub, directives) = "no" -> "fail"
      [] OTHER -> "unverifiable"

------------------------------------------------------------------------------
(* Structure.                                                              *)

\* STR-01: the required sections occur in this order, others between them.
Str01(sub) ==
    LET titles == SelectSeq(Sections(sub.body), LAMBDA s : s.level <= 2)
        found[n \in 0 .. Len(titles)] ==
          IF n = 0 THEN 0
          ELSE IF found[n - 1] < Len(Canonical)
                  /\ Named[titles[n].title] = Canonical[found[n - 1] + 1]
            THEN found[n - 1] + 1 ELSE found[n - 1]
    IN Fail(found[Len(titles)] < Len(Canonical))

Str02(sub) == Fail(ContainsSubsubsection(sub.body))

\* STR-03 and STR-04 know the pages of sections only from the bundle, and are
\* not run (supports()) where there is neither a PDF nor a page in the bundle.
Paged(sub) == {s \in ToSet(sub.sections) : s.first # 0 /\ s.last # 0}
Paginated(sub) == sub.pdf # NoPdf \/ sub.paged
ShortSubsection(sub) == \E s \in Paged(sub) : s.level = 3 /\ s.last - s.first < 1

\* Faulty variant: like STR-04, it does not ask whether the bundle has pages.
Str03Unasked(sub) ==
    IF ~Paginated(sub) THEN "not_applicable" ELSE Warn(ShortSubsection(sub))

Str03(sub) ==
    IF ~Paginated(sub) THEN "not_applicable"
    ELSE IF ~sub.paged THEN "unverifiable" ELSE Warn(ShortSubsection(sub))

\* A section whose pages are unknown counts as one of a proper length.
Str04(sub) ==
    IF ~Paginated(sub) THEN "not_applicable"
    ELSE Warn(\E s \in {s \in Paged(sub) : Named[s.title] \in DOMAIN PageRange} :
                LET pages == s.last - s.first + 1 IN
                \/ pages < PageRange[Named[s.title]].low
                \/ pages > PageRange[Named[s.title]].high)

------------------------------------------------------------------------------
(* Bibliography and review.                                                *)

Entries(sub) == ToSet(LoadBibEntries(sub.bib))
\* _entries_by_key: of two entries with one key the last counts.
EntryOf(sub, key) ==
    LET all == LoadBibEntries(sub.bib) IN
    all[Max({k \in DOMAIN all : all[k].key = key})]
Known(sub, keys) == {EntryOf(sub, k) : k \in {k \in keys : \E e \in Entries(sub) : e.key = k}}
Required(type) == {"author", "title", "year"} \cup (IF type = "online" THEN {"url"} ELSE {})

Bib01(sub) ==
    IF Of(sub.body, {"footcite"}) # {} THEN "fail"
    ELSE Warn(\E x \in Items(sub.body, {"footnote"}) : x.arg)
Bib02(sub) ==
    CombineClassScript(ClassSets(sub, {"gost"}),
                       Answer(Of(sub.body, {"bracket"}) = {}), FALSE, FALSE)
Bib03(sub) ==
    CombineClassScript(ClassSets(sub, {"gost"}),
        IF Entries(sub) = {} THEN "unknown"
        ELSE Answer(\A e \in Entries(sub) : Required(e.type) \subseteq e.fields),
        FALSE, FALSE)
Bib04(sub) ==
    IF \E e \in Entries(sub) : "url" \in e.fields /\ "urldate" \notin e.fields THEN "fail"
    ELSE IF Entries(sub) = {} THEN "not_applicable" ELSE "pass"
Bib05(sub) ==
    Warn(\/ AllKeys \in NociteKeys(sub.body)
         \/ ~(NociteKeys(sub.body) \subseteq CiteKeys(sub.body))
         \/ ~({e.key : e \in Entries(sub)} \subseteq CiteKeys(sub.body)))

\* The review is the section of that title; without it there is nothing to ask.
OfReview(sub, Verdict(_)) ==
    LET review == SectionBody(sub.body, Review) IN
    IF review.found THEN Verdict(review.text) ELSE "not_applicable"
\* Of the sources the review cites those the .bib files know.
Cited(sub, text) == Known(sub, CiteKeys(text))

Rev01(sub) == OfReview(sub, LAMBDA text : Warn(Cardinality(CiteKeys(text)) < MinSources))
Rev02(sub) == OfReview(sub, LAMBDA text :
    Warn(Cardinality({e \in Cited(sub, text) :
                        e.foreign /\ e.type \in {"article", "inproceedings"}}) < MinForeign))
Rev03(sub) == OfReview(sub, LAMBDA text :
    LET dated == {e \in Cited(sub, text) : "year" \in e.fields /\ e.year # 0} IN
    IF dated = {} THEN "unverifiable"
    ELSE Warn(2 * Cardinality({e \in dated : e.year >= Recent})
                < ShareTwice * Cardinality(dated)))
Rev04(sub) == OfReview(sub, LAMBDA text :
    Fail(\E e \in Cited(sub, text) : "url" \in e.fields /\ e.forbidden))
Rev07(sub) == OfReview(sub, LAMBDA text :
    Warn(\/ Cardinality(CiteKeys(text)) < Max({1, WordCount(text) \div 300})
         \/ ParagraphsWithoutCite(text) # {}))

------------------------------------------------------------------------------
(* Floats, captions and formulas.                                          *)

\* FIG-02 and TAB-03: every float has a label and is referenced outside one.
Referenced(sub, blocks, bad) ==
    IF \E f \in blocks : \/ f.arg.label = NoLabel
                         \/ f.arg.label \notin ReferenceTargets(sub.body) THEN bad
    ELSE IF blocks = {} THEN "not_applicable" ELSE "pass"
Fig02(sub) == Referenced(sub, FigureBlocks(sub.body), "fail")
Tab03(sub) == Referenced(sub, TableBlocks(sub.body), "warn")

\* FIG-01: the caption stands on the page of the first mention or the next.
Fig01(sub) ==
    LET On(kind, n) == {s.page : s \in {s \in ToSet(sub.pdf.spans) :
                                          s.text = kind /\ s.number = n}}
        Late(f) ==
          LET captions == On("caption", f.arg.number)
              mentions == {p \in On("mention", f.arg.number) : p <= Min(captions)}
          IN /\ f.arg.number # 0 /\ f.arg.label # NoLabel
             /\ captions # {}
             /\ mentions \cup captions # {}
             /\ Min(captions) > Min(mentions \cup captions) + 1
    IN IF ~HasText(sub) THEN "not_applicable"
       ELSE Warn(\E f \in FigureBlocks(sub.body) : Late(f))
Fig03(sub) == CombineClassScript(ClassSets(sub, {"risref"}),
                                 Answer(Of(sub.body, {"abbreviation"}) = {}), FALSE, FALSE)
Tab02(sub) == CombineClassScript(ClassSets(sub, {"endhead"}),
                                 Answer(~LongtableWithoutHeader(sub.body)), FALSE, TRUE)
Cap01(sub) ==
    LET captions == {f.arg.caption : f \in Items(sub.body, Floats)} \ {"none"} IN
    IF captions = {} THEN "not_applicable" ELSE Fail(captions # {"good"})
Mth01(sub) ==
    LET section == SectionBody(sub.body, Mathematics) IN
    IF ~section.found THEN "not_applicable"
    ELSE CombineClassScript(ClassSets(sub, {"amsmath"}),
                            Answer(Of(section.text, {"math"}) = {}), FALSE, FALSE)

------------------------------------------------------------------------------
(* Rules about one section.  Structural sources leave literal text out.    *)

\* The body of the first section P holds of.
FirstSection(sub, P(_)) ==
    LET sections == Sections(sub.body)
        good == {k \in DOMAIN sections : P(sections[k])}
    IN IF good = {} THEN NoBody ELSE SectionBody(sub.body, sections[Min(good)].title)

Monolith(sub, kind, fallback) ==
    LET kinds == {s \in ToSet(Sections(sub.body)) : KindOf[s.title] = kind}
        section == IF kinds = {} THEN SectionBody(sub.body, fallback)
                   ELSE FirstSection(sub, LAMBDA s : KindOf[s.title] = kind)
    IN IF ~section.found THEN "unverifiable" ELSE Fail(ContainsList(section.text))
Ann02(sub) == Monolith(sub, "annotation", Annotation)
Int02(sub) == Monolith(sub, "introduction", Introduction)

\* ANN-03: the four numbers the annotation states, each stated once, are
\* those of the source and the PDF.
Metrics == {"pages", "figures", "tables", "appendices"}
Actual(sub, metric) ==
    LET body == Written(sub.body)
        marks == Of(body, {"appendix"})
        top == {k \in Of(body, {"chapter", "section"}) :
                  \/ marks # {} /\ k > Min(marks)
                  \/ marks = {} /\ Named[body[k].arg] = "appendix"}
    IN CASE metric = "pages" -> Len(sub.pdf.pages)
         [] metric = "figures" -> Cardinality(Of(body, {"figure"}))
         [] metric = "tables" -> Cardinality(Of(body, {"table", "longtable"}))
         [] metric = "appendices" -> Cardinality(top)
Ann03(sub) ==
    LET section == FirstSection(sub, LAMBDA s : KindOf[s.title] = "annotation")
        stated == Items(Written(section.text), {"declared"})
        Values(m) == {x.arg.number : x \in {x \in stated : x.arg.metric = m}}
    IN IF ~section.found \/ \E m \in Metrics : Cardinality(Values(m)) # 1 THEN "unverifiable"
       ELSE IF sub.pdf = NoPdf THEN "unverifiable"
       ELSE IF sub.pdf.pages = <<>> THEN "unverifiable"
       ELSE Fail(\E m \in Metrics : Values(m) # {Actual(sub, m)})

\* _run_presence: the body of one of the sections holds such an environment.
Presence(sub, titles, environments) ==
    LET sections == {s \in ToSet(Sections(sub.body)) : s.level <= 2 /\ s.title \in titles}
        bodies == {b \in {SectionBody(sub.body, s.title) : s \in sections} : b.found}
    IN IF bodies = {} THEN "unverifiable"
       ELSE Warn(\A b \in bodies : Of(Written(b.text), environments) = {})
Ssa01(sub) == Presence(sub, AsIsTitles, {"figure"})
Arc01(sub) == Presence(sub, ToBeTitles, {"figure"})
Res01(sub) == Presence(sub, ResultTitles, Floats)

Tsk02(sub) ==
    LET section == FirstSection(sub, LAMBDA s : s.level <= 2 /\ s.title \in TaskTitles)
        lengths == UNION {ToSet(x.arg) : x \in Items(Written(section.text), {"list"})}
    IN IF ~section.found \/ lengths = {} THEN "unverifiable"
       ELSE Warn(\E n \in lengths : n < 30)
AlgorithmHas(sub, kinds) ==
    LET section == FirstSection(sub, LAMBDA s : s.level <= 2 /\ s.title \in AlgorithmTitles)
    IN IF ~section.found THEN "unverifiable"
       ELSE Warn(Of(Written(section.text), kinds) = {})
Alg01(sub) == AlgorithmHas(sub, {"figure", "algorithm"})
Alg03(sub) == AlgorithmHas(sub, {"block"})
\* APP-01 of a LaTeX project: one appendix holds the address of a repository.
\* A section of the bundle, of whatever level, ends where the next one begins.
App01(sub) ==
    LET heads == {k \in Of(sub.body, Headings) : ~sub.body[k].literal}
        appendices == {k \in heads : Named[sub.body[k].arg] = "appendix"}
        End(k) == Min({j \in heads : j > k} \cup {Len(sub.body) + 1})
    IN IF appendices = {} THEN "not_applicable"
       ELSE IF \E k \in appendices, u \in Of(sub.body, {"url"}) : k < u /\ u < End(k)
         THEN "pass" ELSE "info"

------------------------------------------------------------------------------
(* The protected class, the preamble and the build.                        *)

Sys01(sub) == CASE sub.protected = "agreed" -> "pass"
                [] sub.protected = "mismatch" -> "fail" [] OTHER -> "unverifiable"
Sys02(sub) == Fail(sub.preamble # {})
\* A build that neither succeeds nor fails in a way the rule names has no finding.
Sys03(sub) ==
    CASE sub.build.status = "tool missing" -> "unverifiable"
      [] sub.build.status \in {"timeout", "missing dependency", "compile error"} -> "fail"
      [] sub.build.status = "success" ->
           IF sub.build.overfull \/ sub.build.chktex = "warnings" THEN "warn"
           ELSE IF sub.build.chktex = "absent" THEN "unverifiable" ELSE "pass"
=============================================================================
