------------------------------ MODULE PdfLayout ------------------------------
(***************************************************************************)
(* _pdf_metrics.py: what of a typeset page is body text, and what of it    *)
(* lies outside the margins.                                               *)
(*                                                                         *)
(* Lengths are half points.  A span has its page, its box, its font (the   *)
(* family the font's name stands for), whether it is bold, its size, how   *)
(* many visible characters it has, and what the patterns find in its text: *)
(* `text` is "prose", "digits", "caption", "code" or "operator", and       *)
(* `words` is what is left of it when digits are masked.  `rank` is where  *)
(* its font, size and text stand among those of the file, in the order of  *)
(* names and numbers.  Spans come in the extractor's order; a span is      *)
(* named by its place in that order.                                       *)
(***************************************************************************)
EXTENDS Sequences, SequencesExt, FiniteSets, FiniteSetsExt, Functions, Integers

CONSTANT Tolerance          \* geometry_tolerance_pt, in half points
ASSUME ToleranceAssumption == Tolerance \in Nat

\* 30, 10, 20 and 20 mm, each widened by the tolerance of 2 mm.
LeftMargin == 159
RightMargin == 45
TopMargin == 102
BottomMargin == 102
NoZone == "body"

\* A page turned sideways is measured by its height.
MetricPage(page) ==
    IF page.rotation \in {90, 270}
      THEN [width |-> page.height, height |-> page.width, rotation |-> 0]
      ELSE page

MarginBounds(page) ==
    LET p == MetricPage(page) IN
    [left |-> LeftMargin, right |-> p.width - RightMargin,
     top |-> TopMargin, bottom |-> p.height - BottomMargin]

Overflow(box, page) ==
    LET b == MarginBounds(page) IN
    Max({0, b.left - box.x0, box.x1 - b.right, b.top - box.y0, box.y1 - b.bottom})
WithinMargins(box, page) == Overflow(box, page) <= Tolerance

Reliable(box) == box.x1 > box.x0 /\ box.y1 > box.y0

\* _bbox_marginal_zone: within a line and a half of the upper or lower margin.
Zone(box, page, nominal) ==
    LET b == MarginBounds(page)
        height == Max({box.y1 - box.y0, nominal, 16})
    IN IF 2 * (box.y1 - b.top) <= 3 * height THEN "header"
       ELSE IF 2 * (b.bottom - box.y0) <= 3 * height THEN "footer" ELSE NoZone

Normalized(s) == IF s.text = "digits" THEN "#"
                 ELSE IF s.text = "operator" THEN "" ELSE s.words

Half(n) == (n + 1) \div 2
Pages(pages, service) == DOMAIN pages \ service
\* Faulty variant: once is often enough.
RequiredPagesOne(pages, service) == 1

\* Marginalia are what stands on every other page, on two at least.
RequiredPages(pages, service) == Max({2, Half(Cardinality(Pages(pages, service)))})

\* The tops lie, relative to their pages, within a fortieth of each other.
Level(tops, pages) ==
    \A s \in tops, t \in tops :
      LET hs == MetricPage(pages[s.page]).height
          ht == MetricPage(pages[t.page]).height
      IN 40 * (s.top * ht - t.top * hs) <= hs * ht

\* The candidates of classify_marginal_spans and their zone.
SpanZone(s, pages, service) ==
    IF s.page \in Pages(pages, service) /\ Reliable(s.box) /\ s.chars >= 1
      THEN Zone(s.box, pages[s.page], s.size) ELSE NoZone

IsPageNumber(s, pages, service) ==
    LET b == MarginBounds(pages[s.page]) IN
    /\ SpanZone(s, pages, service) = "footer"
    /\ s.text = "digits"
    /\ s.box.y0 >= b.bottom - Max({s.size, 16})
    /\ s.box.x0 >= b.left /\ s.box.x1 <= b.right

\* classify_marginal_spans: the spans that are page numbers, and those whose
\* text stands at one height of one zone on enough pages.
MarginalSpans(spans, pages, service) ==
    LET zone == [i \in DOMAIN spans |-> SpanZone(spans[i], pages, service)]
        numbers == {i \in DOMAIN spans : IsPageNumber(spans[i], pages, service)}
        others == {i \in DOMAIN spans \ numbers :
                     zone[i] # NoZone /\ Normalized(spans[i]) # ""}
        Same(i) == {j \in others : /\ zone[j] = zone[i]
                                   /\ Normalized(spans[j]) = Normalized(spans[i])}
        repeated ==
          {i \in others :
             /\ Cardinality({spans[j].page : j \in Same(i)})
                  >= RequiredPages(pages, service)
             /\ Level({[page |-> spans[j].page, top |-> spans[j].box.y0] :
                         j \in Same(i)}, pages)}
    IN [numbers |-> numbers, repeated |-> repeated]
Marginal(spans, pages, service) == UNION Range(MarginalSpans(spans, pages, service))

------------------------------------------------------------------------------
(* Margins.                                                                *)

\* Of the spans looked at: those measured, those outside the margins, and how
\* many could not be measured.
Measured(spans, pages, looked) ==
    LET content == {i \in looked : /\ spans[i].page \in DOMAIN pages
                                   /\ Reliable(spans[i].box)}
    IN [content |-> content,
        outside |-> {i \in content :
                       ~WithinMargins(spans[i].box, pages[spans[i].page])},
        unmeasured |-> Cardinality(looked \ content)]
\* check_body_margins: all but marginalia, single characters and service pages.
BodyMargins(spans, pages, service) ==
    Measured(spans, pages,
             {i \in DOMAIN spans \ Marginal(spans, pages, service) :
                spans[i].page \notin service /\ spans[i].chars >= 2})

\* check_layout_object_margins: images and drawings, less those repeated in
\* a margin on enough pages.
LayoutOutside(objects, pages, service) ==
    LET shown == {o \in objects : o.page \in Pages(pages, service)}
        ZoneOf(o) == Zone(o.box, pages[o.page], 16)
        Same(o) == {p \in shown : /\ ZoneOf(p) = ZoneOf(o) /\ p.kind = o.kind
                                  /\ p.signature = o.signature}
        marginal ==
          {o \in shown :
             /\ ZoneOf(o) # NoZone
             /\ Cardinality({p.page : p \in Same(o)}) >= RequiredPages(pages, service)
             /\ Level({[page |-> p.page, top |-> p.box.y0] : p \in Same(o)}, pages)}
    IN {o \in shown \ marginal : ~WithinMargins(o.box, pages[o.page])}

\* extract_pdf_layout_objects: drawings thinner than two points are lines of
\* a frame or a rule and not measured.  A PDF that cannot be read has none.
LayoutObjects(pdf) ==
    IF ~pdf.readable THEN {}
    ELSE {o \in pdf.objects :
            /\ Reliable(o.box)
            /\ o.kind = "vector" => o.box.x1 - o.box.x0 > 4 /\ o.box.y1 - o.box.y0 > 4}

------------------------------------------------------------------------------
(* Lines.                                                                  *)

\* _canonical_span_key; spans equal in it keep the order they came in.
SpanKey(s) == <<s.page, s.box.y0, s.box.x0, s.box.y1, s.box.x1, s.rank>>
Before(s, t) ==
    \E k \in 1 .. 6 : /\ SpanKey(s)[k] < SpanKey(t)[k]
                      /\ \A l \in 1 .. k - 1 : SpanKey(s)[l] = SpanKey(t)[l]
InOrder(spans, set) ==
    LET First(i, j) == \/ Before(spans[i], spans[j])
                       \/ ~Before(spans[j], spans[i]) /\ i < j
    IN [k \in 1 .. Cardinality(set) |->
          CHOOSE i \in set : Cardinality({j \in set : First(j, i)}) = k - 1]

\* _same_visual_line: they overlap by a third of the lower one, or their
\* middles are less than half a letter apart.
SameVisualLine(s, t) ==
    LET overlap == Min({s.box.y1, t.box.y1}) - Max({s.box.y0, t.box.y0})
        lower == Min({s.box.y1 - s.box.y0, t.box.y1 - t.box.y0})
        apart == s.box.y0 + s.box.y1 - t.box.y0 - t.box.y1
    IN \/ 100 * overlap >= 35 * lower
       \/ 10 * (IF apart < 0 THEN -apart ELSE apart) <= 9 * Max({s.size, t.size, 16})

\* Faulty variant: spans are taken in the order the extractor gave them.
VisualLinesAsGiven(spans, set) ==
    LET order == SelectSeq([i \in DOMAIN spans |-> i], LAMBDA i : i \in set)
        lines[n \in 0 .. Len(order)] ==
          IF n = 0 THEN <<>>
          ELSE LET done == lines[n - 1]
                   i == order[n]
               IN IF done # <<>> /\ \E j \in done[Len(done)] :
                                      /\ spans[j].page = spans[i].page
                                      /\ SameVisualLine(spans[i], spans[j])
                    THEN [done EXCEPT ![Len(done)] = @ \cup {i}]
                    ELSE Append(done, {i})
    IN lines[Len(order)]

\* _visual_lines: a span joins the last line of its page that holds a span
\* of its height.
VisualLines(spans, set) ==
    LET order == InOrder(spans, set)
        lines[n \in 0 .. Len(order)] ==
          IF n = 0 THEN <<>>
          ELSE LET done == lines[n - 1]
                   i == order[n]
                   fits == {k \in DOMAIN done :
                              \E j \in done[k] : /\ spans[j].page = spans[i].page
                                                 /\ SameVisualLine(spans[i], spans[j])}
               IN IF fits = {} THEN Append(done, {i})
                  ELSE [done EXCEPT ![Max(fits)] = @ \cup {i}]
    IN lines[Len(order)]

\* How many visible characters a set of spans has.
Chars(spans, set) ==
    LET Sum[k \in 0 .. Len(spans)] ==
          IF k = 0 THEN 0
          ELSE Sum[k - 1] + (IF k \in set THEN spans[k].chars ELSE 0)
    IN Sum[Len(spans)]
LineTop(spans, line) == Min({spans[i].box.y0 : i \in line})
LineBottom(spans, line) == Max({spans[i].box.y1 : i \in line})
LineLeft(spans, line) == Min({spans[i].box.x0 : i \in line})
LinePage(spans, line) == CHOOSE p \in {spans[i].page : i \in line} : TRUE
\* The share of a line's characters that are in some of its spans.
Mostly(spans, some, line, percent) ==
    LET all == Chars(spans, line) IN
    all > 0 /\ 100 * Chars(spans, some) >= percent * all
MostlyMono(spans, line) == Mostly(spans, {i \in line : spans[i].font = "mono"}, line, 80)

Adjacent(spans, upper, lower) ==
    LET height == Max({LineBottom(spans, upper) - LineTop(spans, upper),
                       LineBottom(spans, lower) - LineTop(spans, lower), 16})
        gap == LineTop(spans, lower) - LineBottom(spans, upper)
    IN /\ LinePage(spans, upper) = LinePage(spans, lower)
       /\ -height <= 4 * gap /\ 2 * gap <= 3 * height

\* Of the lines named, in their order, those that stand in one run: a line
\* joins the run of the line before it if it follows that line and the line
\* the run begins with.
Runs(named, follows, begins) ==
    LET first[k \in named] ==
          LET earlier == {l \in named : l < k}
              last == Max(earlier)
          IN IF earlier # {} /\ <<last, k>> \in follows /\ <<first[last], k>> \in begins
               THEN first[last] ELSE k
    IN {{k \in named : first[k] = b} : b \in named}
Spans(lines, run) == UNION {lines[k] : k \in run}

Distance(a, b) == IF a < b THEN b - a ELSE a - b

\* _listing_indexes: three lines and more of one monospaced font that begin
\* at one place, read like code and are not a couple of letters.  "mono" stands
\* for one font, which four fifths of such a line are in: the test that a line
\* has the dominant font of the line its run begins with always holds here.
CodeScore(spans, line) == 2 * Cardinality({i \in line : spans[i].text = "code"})
ListingSpans(spans, lines) ==
    LET mono == {k \in DOMAIN lines : MostlyMono(spans, lines[k])}
        Left(k) == LineLeft(spans, lines[k])
        follows == {p \in mono \X mono : Adjacent(spans, lines[p[1]], lines[p[2]])}
        begins == {p \in mono \X mono : Distance(Left(p[1]), Left(p[2])) <= 72}
        Listing(run) == /\ Cardinality(run) >= 3
                        /\ CodeScore(spans, Spans(lines, run)) >= 2
                        /\ Chars(spans, Spans(lines, run)) >= 12
    IN Spans(lines, UNION {run \in Runs(mono, follows, begins) : Listing(run)})

\* _line_cell_starts: where a gap of a letter and a half ends, by the places
\* of the spans in the order of the line.
CellStarts(spans, line) ==
    LET order == InOrder(spans, {i \in line : spans[i].chars >= 1})
        Starts(k) == \/ k = 1
                     \/ 2 * (spans[order[k]].box.x0 - spans[order[k - 1]].box.x1)
                          > 3 * Max({spans[order[k]].size, spans[order[k - 1]].size, 16})
    IN [k \in {k \in DOMAIN order : Starts(k)} |-> spans[order[k]].box.x0]
\* _cell_starts_align
Aligned(upper, lower) ==
    Cardinality({k \in DOMAIN upper :
                   \E l \in DOMAIN lower : Distance(upper[k], lower[l]) <= 24}) >= 2

\* _table_indexes: three rows and more of cells that begin at the same
\* places, two of them with numbers, and not set as code.
TableSpans(spans, lines) ==
    LET cells == [k \in DOMAIN lines |-> CellStarts(spans, lines[k])]
        rows == {k \in DOMAIN lines : Cardinality(DOMAIN cells[k]) >= 2}
        follows == {p \in rows \X rows : /\ Adjacent(spans, lines[p[1]], lines[p[2]])
                                         /\ Aligned(cells[p[1]], cells[p[2]])}
        numeric == {k \in rows : \E i \in lines[k] : spans[i].text = "digits"}
        mono == {k \in rows : MostlyMono(spans, lines[k])}
        Table(run) == /\ Cardinality(run) >= 3
                      /\ Cardinality(run \cap numeric) >= 2
                      /\ 2 * Cardinality(run \cap mono) < Cardinality(run)
    IN Spans(lines, UNION {run \in Runs(rows, follows, rows \X rows) : Table(run)})

\* _formula_indexes: in a line with mathematics, the mathematics.
MathToken(s) == s.text \in {"digits", "operator"}
FormulaSpans(spans, lines) ==
    LET Specific(line) == {i \in line : spans[i].font = "math"}
        Roman(line) == {i \in line : spans[i].font = "cm"}
        Tokens(line) == {i \in line : MathToken(spans[i])}
        Operators(line) == {i \in line : spans[i].text = "operator"}
        Formula(line) ==
          \/ /\ Specific(line) # {}
             /\ Cardinality(Specific(line)) >= 2 \/ Operators(line) # {}
          \/ /\ Specific(line) = {}
             /\ Cardinality(Roman(line)) >= 2 /\ Operators(line) # {}
             /\ Mostly(spans, Tokens(line), line, 60)
        Symbols(line) == Specific(line) \cup Roman(line) \cup Tokens(line)
    IN UNION {Symbols(lines[k]) : k \in {k \in DOMAIN lines : Formula(lines[k])}}

\* The median of the values of a function, doubled: of an even number of
\* values it lies between two.
MedianTwice(f) ==
    LET n == Cardinality(DOMAIN f)
        Nth(k) == Min({v \in Range(f) : Cardinality({x \in DOMAIN f : f[x] <= v}) >= k})
    IN Nth((n + 1) \div 2) + Nth((n + 2) \div 2)

\* _dominant_font_size: the size most characters have, the smaller of two.
DominantSize(spans, set) ==
    LET sizes == {spans[i].size : i \in set}
        Weight(z) == Chars(spans, {i \in set : spans[i].size = z})
    IN Min({z \in sizes : \A y \in sizes : Weight(y) <= Weight(z)})

\* A line in larger type than the body, or bold with room above or below.
HeadingSpans(spans, lines, size) ==
    LET Large(l) == MedianTwice([i \in l |-> spans[i].size]) > 2 * size + 3
        Apart(k, m) == /\ m \in DOMAIN lines
                       /\ LinePage(spans, lines[k]) = LinePage(spans, lines[m])
                       /\ Distance(LineTop(spans, lines[k]), LineTop(spans, lines[m]))
                            > 2 * size
        Isolated(k) == /\ Mostly(spans, {i \in lines[k] : spans[i].bold}, lines[k], 80)
                       /\ Apart(k, k - 1) \/ Apart(k, k + 1)
    IN Spans(lines, {k \in DOMAIN lines : /\ Chars(spans, lines[k]) <= 160
                                          /\ Large(lines[k]) \/ Isolated(k)})

CaptionSpans(spans, lines) ==
    Spans(lines, {k \in DOMAIN lines :
                    /\ spans[InOrder(spans, lines[k])[1]].text = "caption"
                    /\ Chars(spans, lines[k]) <= 240})

\* What select_body_spans sets apart, given the lines and the size of the body.
SetApart(spans, lines, size) ==
    CaptionSpans(spans, lines) \cup TableSpans(spans, lines) \cup ListingSpans(spans, lines)
    \cup FormulaSpans(spans, lines) \cup HeadingSpans(spans, lines, size)
BodyOf(spans, candidates) ==
    IF candidates = {} THEN {}
    ELSE candidates \ SetApart(spans, VisualLines(spans, candidates),
                               DominantSize(spans, candidates))
\* select_body_spans: what is left when service pages, spans without text or
\* size, unreliable boxes, marginalia and all that is set apart are gone.
BodySelection(spans, pages, service) ==
    LET shown == {i \in DOMAIN spans : spans[i].page \notin service}
        sized == {i \in shown : spans[i].chars >= 1 /\ spans[i].size > 0}
        placed == {i \in sized : Reliable(spans[i].box)}
    IN [body |-> BodyOf(spans, placed \ Marginal(spans, pages, service)),
        invalid |-> sized \ placed]

------------------------------------------------------------------------------
(* Headings and lines of FMT-02 and FMT-03.                                *)

\* body_spans
TextSpans(spans, service) ==
    {i \in DOMAIN spans : /\ spans[i].page \notin service
                          /\ spans[i].size > 0 /\ spans[i].chars >= 2}

\* heading_spans: bold, or larger than the median by a twentieth.
HeadingLike(spans, service) ==
    LET text == TextSpans(spans, service) IN
    {i \in text : \/ spans[i].bold
                  \/ 40 * spans[i].size >= 21 * MedianTwice([j \in text |-> spans[j].size])}

\* median_line_spacing_ratio, in thousandths: the distance of the tops of
\* two lines to the size of the type, per page; then over the pages.
PageSpacing(spans, text) ==
    LET tops == {spans[i].box.y0 : i \in text}
        Next(y) == Min({z \in tops : z > y})
        steps == tops \ {Max(tops)}
    IN (1000 * MedianTwice([y \in steps |-> Next(y) - y]))
         \div MedianTwice([i \in text |-> spans[i].size])

LineSpacing(spans, service) ==
    LET text == TextSpans(spans, service)
        On(p) == {i \in text : spans[i].page = p}
        pages == {p \in {spans[i].page : i \in text} :
                    Cardinality({spans[i].box.y0 : i \in On(p)}) >= 2}
    IN [measured |-> pages # {},
        twice |-> IF pages = {} THEN 0
                  ELSE MedianTwice([p \in pages |-> PageSpacing(spans, On(p))])]
=============================================================================
