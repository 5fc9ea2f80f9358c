------------------------------- MODULE PdfText -------------------------------
(***************************************************************************)
(* PdfExtractor: the order the blocks of a page are read in, how far the   *)
(* extraction can be trusted, and the headings.                            *)
(*                                                                         *)
(* A block stands for its text: where it lies on the page, in hundredths   *)
(* of the page's width and height, and the word and font size of its text. *)
(* PyMuPDF gives the blocks of a page.                                     *)
(***************************************************************************)
EXTENDS Sequences, SequencesExt, FiniteSets, FiniteSetsExt, Integers

CONSTANT Slack    \* how far a block may reach into the columns: two points

ByY(a, b) == a.y0 < b.y0 \/ (a.y0 = b.y0 /\ a.x0 < b.x0)
Sorted(blocks) ==
    [k \in 1 .. Cardinality(blocks) |->
       CHOOSE b \in blocks : Cardinality({a \in blocks : ByY(a, b)}) = k - 1]

\* The pages of a file hold blocks of text, no two of them at one place and none
\* so thin that it could stand above and below the columns at once.
IsPage(blocks) ==
    /\ IsFiniteSet(blocks)
    /\ \A b \in blocks : {b.x0, b.x1, b.y0, b.y1} \subseteq Int /\ b.y1 - b.y0 > 2 * Slack
    /\ \A a, b \in blocks : a = b \/ ByY(a, b) \/ ByY(b, a)

IsPdf(pdf) ==
    /\ Len(pdf.pages) \in Nat /\ DOMAIN pdf.pages = 1 .. Len(pdf.pages)
    /\ Len(pdf.outline) \in Nat /\ DOMAIN pdf.outline = 1 .. Len(pdf.outline)
    /\ \A n \in 1 .. Len(pdf.pages) : IsPage(pdf.pages[n].blocks)

Narrow(b) == b.x1 - b.x0 < 65

\* _ordered_blocks: two columns are read one after the other, what lies across
\* the page above, between or below them.
OrderedBlocks(blocks) ==
    LET narrow == {b \in blocks : Narrow(b)}
        left == {b \in narrow : (b.x0 + b.x1) \div 2 < 50}
        right == narrow \ left
        full == blocks \ narrow
        top == {b \in full : b.y1 <= Min({n.y0 : n \in narrow}) + Slack}
        bottom == {b \in full : b.y0 >= Max({n.y1 : n \in narrow}) - Slack}
    IN IF left = {} \/ right = {} THEN Sorted(blocks)
       ELSE Sorted(top) \o Sorted(left) \o Sorted(full \ (top \cup bottom))
            \o Sorted(right) \o Sorted(bottom)

\* _extract_document: the text, each piece with its page and its block.
Text(pdf) ==
    FlattenSeq([p \in 1 .. Len(pdf.pages) |->
        LET order == OrderedBlocks(pdf.pages[p].blocks) IN
        [k \in 1 .. Len(order) |-> [word |-> order[k].word, page |-> p,
                                    block |-> order[k]]]])

Quality(text) ==
    IF \/ text = <<>>
       \/ \E t \in ToSet(text) : t.block.x0 = t.block.x1 \/ t.block.y0 = t.block.y1
      THEN "degraded" ELSE "high"

\* _outline_headings: at the title on its page, else at the top of the page.
OutlineHeadings(pdf, text) ==
    LET Top(p) == 1 + Cardinality({i \in 1 .. Len(text) : text[i].page < p})
        At(o) == {i \in 1 .. Len(text) : text[i].page = o.page /\ text[i].word = o.title}
        Heading(o) ==
            [title |-> o.title, level |-> o.level, page |-> o.page,
             start |-> IF At(o) = {} THEN Top(o.page) ELSE Min(At(o)),
             origin |-> "pdf_outline"]
    IN FlattenSeq([k \in 1 .. Len(pdf.outline) |->
            IF pdf.outline[k].page \in DOMAIN pdf.pages
            THEN <<Heading(pdf.outline[k])>> ELSE <<>>])

\* The median of the font sizes, in tenths of a point, doubled when it falls
\* between two of them.
MedianSizeTwice(text) ==
    LET sizes == SortSeq([i \in 1 .. Len(text) |-> text[i].block.size],
                         LAMBDA a, b : a < b)
        n == Len(sizes)
    IN sizes[(n + 1) \div 2] + sizes[(n + 2) \div 2]

\* A title that stands on several pages at one height near an edge.
IsRunningHeader(text, i) ==
    LET same == {j \in 1 .. Len(text) : text[j].word = text[i].word}
        heights == {text[j].block.y0 : j \in same}
    IN /\ Cardinality({text[j].page : j \in same}) >= 2
       /\ text[i].block.y0 < 15 \/ text[i].block.y0 > 85
       /\ Max(heights) - Min(heights) < 3

\* _font_headings: larger than the median by 18 percent, and not repeated.
FontHeadings(text) ==
    LET body == MedianSizeTwice(text)
        IsLarge(i) == /\ 200 * text[i].block.size >= 118 * body
                      /\ ~IsRunningHeader(text, i)
        Heading(i) == [title |-> text[i].word, level |-> 1, page |-> text[i].page,
                       start |-> i, origin |-> "pdf_heading"]
    IN FlattenSeq([i \in 1 .. Len(text) |-> IF IsLarge(i) THEN <<Heading(i)>> ELSE <<>>])

Headings(pdf, text) ==
    IF OutlineHeadings(pdf, text) # <<>> THEN OutlineHeadings(pdf, text)
    ELSE FontHeadings(text)
=============================================================================
