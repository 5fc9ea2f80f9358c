----------------------------- MODULE FormatRules -----------------------------
(***************************************************************************)
(* formatting.py: FMT-01 to FMT-05.  Each joins what the protected class   *)
(* file sets with what is measured on the pages of the PDF.                *)
(*                                                                         *)
(* A submission has: latex, whether there is a LaTeX project; class, the   *)
(* directives found in its protected class file, or NoClass; pdf, NoPdf or *)
(* the pages and spans of the PDF, the pages analyze_page_roles excludes,  *)
(* and its images and drawings.  An answer is "yes", "no" or "unknown".    *)
(***************************************************************************)
EXTENDS PdfLayout

CONSTANTS NoClass, NoPdf,
          FontSize,         \* font_size_pt, in half points
          MinChars          \* _BODY_TEXT_MIN_CHARS
ASSUME FormatAssumption == FontSize \in Nat /\ MinChars \in Nat

Answer(b) == IF b THEN "yes" ELSE "no"

\* class_file_text and the patterns of the rules.
ClassSets(sub, directives) ==
    IF ~sub.latex \/ sub.class = NoClass THEN "unknown"
    ELSE Answer(directives \subseteq sub.class)

\* pdf_metrics_available
HasText(sub) == sub.pdf # NoPdf /\ sub.pdf.spans # <<>>

\* _combine_class_pdf: without a LaTeX project the PDF must answer, with one
\* the class must; a "no" of either decides.
CombineClassPdf(sub, class, pdf) ==
    IF class = "no" \/ pdf = "no" THEN "fail"
    ELSE IF \/ sub.latex /\ class = "unknown"
            \/ ~sub.latex /\ pdf = "unknown" THEN "unverifiable"
    ELSE "pass"

\* supports(): a LaTeX project or a PDF of its own.
Supported(sub, verdict) == IF sub.latex \/ sub.pdf # NoPdf THEN verdict ELSE "not_applicable"

\* FMT-01: the failure is proven even if all that could not be placed matched.
FontOf(spans, selection) ==
    LET body == Chars(spans, selection.body)
        invalid == Chars(spans, selection.invalid)
        times == Chars(spans, {i \in selection.body : spans[i].font = "times"})
        sized == Chars(spans, {i \in selection.body : Distance(spans[i].size, FontSize) <= 1})
        Enough(n, of) == 100 * n >= 95 * of
    IN IF body < 1 THEN "unknown"
       ELSE IF ~(Enough(times + invalid, body + invalid) /\ Enough(sized + invalid, body + invalid))
         THEN "no"
       ELSE IF selection.invalid # {} \/ body < MinChars THEN "unknown"
       ELSE Answer(Enough(times, body) /\ Enough(sized, body))
BodyFont(sub) ==
    IF ~HasText(sub) THEN "unknown"
    ELSE FontOf(sub.pdf.spans, BodySelection(sub.pdf.spans, sub.pdf.pages, sub.pdf.service))
Fmt01(sub) == CombineClassPdf(sub, ClassSets(sub, {"fontspec", "times"}), BodyFont(sub))

\* FMT-02: nineteen in twenty headings are bold, counted by spans.
HeadingBold(sub) ==
    LET headings == HeadingLike(sub.pdf.spans, sub.pdf.service)
        bold == {i \in headings : sub.pdf.spans[i].bold}
    IN IF ~HasText(sub) THEN "unknown"
       ELSE IF headings = {} THEN "unknown"
       ELSE Answer(100 * Cardinality(bold) >= 95 * Cardinality(headings))
Fmt02(sub) == CombineClassPdf(sub, ClassSets(sub, {"titlesec"}), HeadingBold(sub))

\* FMT-03: one and a half lines, up to a tenth.
Spacing(sub) ==
    LET spacing == LineSpacing(sub.pdf.spans, sub.pdf.service) IN
    IF ~HasText(sub) THEN "unknown"
    ELSE IF ~spacing.measured THEN "unknown"
    ELSE Answer(2700 <= spacing.twice /\ spacing.twice <= 3300)
Fmt03(sub) == CombineClassPdf(sub, ClassSets(sub, {"spacing"}), Spacing(sub))

\* FMT-04: only the class can tell.
Fmt04(sub) ==
    CASE ClassSets(sub, {"parindent"}) = "yes" -> "pass"
      [] ClassSets(sub, {"parindent"}) = "no" -> "fail"
      [] OTHER -> "unverifiable"

\* FMT-05: what lies outside fails; what could not be placed, and a PDF with
\* no text to measure, leave the question open.
MarginsOf(text, outside) ==
    IF text.outside # {} \/ outside # {} THEN "no"
    ELSE IF text.unmeasured > 0 \/ text.content = {} THEN "unknown" ELSE "yes"
Margins(sub) ==
    IF sub.pdf = NoPdf THEN "unknown"
    ELSE IF sub.pdf.pages = <<>> THEN "unknown"
    ELSE MarginsOf(BodyMargins(sub.pdf.spans, sub.pdf.pages, sub.pdf.service),
                   LayoutOutside(LayoutObjects(sub.pdf), sub.pdf.pages, sub.pdf.service))
Fmt05(sub) == CombineClassPdf(sub, ClassSets(sub, {"margins"}), Margins(sub))

FormatVerdicts(sub) ==
    [r \in {"FMT-01", "FMT-02", "FMT-03", "FMT-04", "FMT-05"} |->
       Supported(sub, CASE r = "FMT-01" -> Fmt01(sub) [] r = "FMT-02" -> Fmt02(sub)
                        [] r = "FMT-03" -> Fmt03(sub) [] r = "FMT-04" -> Fmt04(sub)
                        [] r = "FMT-05" -> Fmt05(sub))]
=============================================================================
