----------------------------- MODULE Extraction ------------------------------
(***************************************************************************)
(* LatexExtractor.extract and PdfExtractor.extract: the traversal of the   *)
(* \input graph file by file, then text, sections and, one by one, the     *)
(* chunks.  BatchPlanner.plan is asked of the result.                      *)
(***************************************************************************)
EXTENDS Includes, Documents

CONSTANTS
    Slack,       \* how far a block of a PDF may reach into its columns
    Infinity,    \* more than the lines of any file
    Sources,     \* the inputs: [kind |-> "latex", project |-> ...] or
                 \* [kind |-> "pdf", pdf |-> ...]
    Specs        \* rule specifications

Pages == INSTANCE PageRoles
Pdf == INSTANCE PdfText

VARIABLES
    source,      \* the input
    pc,
    error,       \* the exception raised, or "none"
    stack,       \* the calls of _expand_file: each a file and its next line
    lines,       \* the text expanded so far
    sourceFiles, \* the files read, in the order of the first visit
    doc,         \* the extracted document
    sections,
    chunks,
    cursor,      \* the section, the start of its next chunk, its number
    service,     \* the pages that are forms
    batches      \* [Specs -> the batch planned for it]

\* What is extracted: projects of finitely many files, none of them endless, and
\* PDFs; each word has a length, and any of them may be a title.
ASSUME SourcesAssumption ==
    /\ IsFiniteSet(File) /\ Slack \in Nat /\ Infinity \in Nat
    /\ DOMAIN Bytes \subseteq DOMAIN Base
    /\ \A s \in Sources : s.kind = "latex" =>
        /\ IsProject(s.project)
        /\ \A f \in File : Len(Directives(s.project, f)) + 1 < Infinity
        /\ \A f \in File : \A line \in ToSet(Directives(s.project, f)) :
             {line.arg} \cup ToSet(line.block) \subseteq DOMAIN Bytes
    /\ \A s \in Sources : s.kind = "pdf" =>
        /\ s.pdf.readable = "yes" => Pdf!IsPdf(s.pdf)
        /\ \A n \in 1 .. Len(s.pdf.pages) : \A b \in s.pdf.pages[n].blocks :
             b.word \in DOMAIN Bytes
        /\ \A o \in ToSet(s.pdf.outline) : o.title \in DOMAIN Base

\* RuleSpec.__post_init__
ASSUME SpecsAssumption ==
    \A spec \in Specs : spec.perSection \in Nat \ {0} /\ spec.total \in Nat \ {0}

planned == <<service, batches>>
vars == <<source, pc, error, stack, lines, sourceFiles, doc, sections, chunks,
          cursor, planned>>
expansion == <<stack, lines, sourceFiles>>
result == <<doc, sections, chunks, cursor, planned>>

NoDoc == [text |-> <<>>, headings |-> <<>>, quality |-> "high"]
p == source.project

Init ==
    /\ source \in Sources
    /\ pc = "open" /\ error = "none"
    /\ stack = <<>> /\ lines = <<>> /\ sourceFiles = <<>>
    /\ doc = NoDoc /\ sections = <<>> /\ chunks = <<>>
    /\ cursor = [section |-> 1, start |-> 1, sequence |-> 1]
    /\ service = {} /\ batches = [spec \in {} |-> NoDoc]

Fail(name) == pc' = "failed" /\ error' = name

-----------------------------------------------------------------------------
(* _expand_file                                                            *)

\* Faulty variant: a second \input of a file counts as a cycle.
VisitSecondIsCycle(f, callers) ==
    IF f \in ToSet(sourceFiles)
      THEN Fail("IncludeCycleError") /\ UNCHANGED <<stack, sourceFiles>>
    ELSE /\ stack' = Append(callers, [file |-> f, line |-> 1])
         /\ sourceFiles' = Append(sourceFiles, f)
         /\ UNCHANGED <<pc, error>>

\* The beginning of the call for f below `callers`.
Visit(f, callers) ==
    IF \E i \in 1 .. Len(callers) : callers[i].file = f
      THEN Fail("IncludeCycleError") /\ UNCHANGED <<stack, sourceFiles>>
    ELSE IF f \notin p.utf8
      THEN Fail("ExtractionError") /\ UNCHANGED <<stack, sourceFiles>>
    ELSE /\ stack' = Append(callers, [file |-> f, line |-> 1])
         /\ sourceFiles' = IF f \in ToSet(sourceFiles) THEN sourceFiles
                           ELSE Append(sourceFiles, f)
         /\ UNCHANGED <<pc, error>>

OpenLatex ==
    /\ pc = "open" /\ source.kind = "latex" /\ stack = <<>> /\ sourceFiles = <<>>
    /\ Visit(p.main, <<>>)
    /\ UNCHANGED <<source, lines, result>>

Top == Last(stack)
Here == Directives(p, Top.file)
Advanced == Append(Front(stack), [Top EXCEPT !.line = @ + 1])

Expanding == pc = "open" /\ stack # <<>> /\ error = "none"

\* What stands before the next \input is kept.
Keep ==
    /\ Expanding /\ Top.line <= Len(Here) /\ Here[Top.line].kind # "input"
    /\ lines' = Append(lines, Here[Top.line])
    /\ stack' = Advanced
    /\ UNCHANGED <<source, pc, error, sourceFiles, result>>

\* Faulty variant: the caller goes on where it was.
IncludeAgain ==
    /\ Expanding /\ Top.line <= Len(Here) /\ Here[Top.line].kind = "input"
    /\ LET child == Resolve(p, Top.file, Here[Top.line].arg) IN
       IF child \in File THEN Visit(child, stack)
       ELSE Fail(ErrorOf(child)) /\ UNCHANGED <<stack, sourceFiles>>
    /\ UNCHANGED <<source, lines, result>>

Include ==
    /\ Expanding /\ Top.line <= Len(Here) /\ Here[Top.line].kind = "input"
    /\ LET child == Resolve(p, Top.file, Here[Top.line].arg) IN
       IF child \in File THEN Visit(child, Advanced)
       ELSE Fail(ErrorOf(child)) /\ UNCHANGED <<stack, sourceFiles>>
    /\ UNCHANGED <<source, lines, result>>

Return ==
    /\ Expanding /\ Top.line > Len(Here)
    /\ stack' = Front(stack)
    /\ pc' = IF Len(stack) = 1 THEN "convert" ELSE pc
    /\ UNCHANGED <<source, error, lines, sourceFiles, result>>

-----------------------------------------------------------------------------
(* The document                                                            *)

Piece(word) == [word |-> word, page |-> NoPage]

\* _to_plain_text: literal bodies are text, bibliography commands are not.
TextOf(line) ==
    CASE line.kind = "bib" -> <<>>
      [] line.kind = "literal" -> [k \in 1 .. Len(line.block) |-> Piece(line.block[k])]
      [] OTHER -> <<Piece(line.arg)>>

PlainText(ls) == FlattenSeq([i \in 1 .. Len(ls) |-> TextOf(ls[i])])

\* _latex_headings: each title where it first stands behind the one before.
LatexHeadings(ls, text) ==
    LET Found[k \in 0 .. Len(ls)] ==
            IF k = 0 THEN <<>>
            ELSE LET found == Found[k - 1]
                     from == IF found = <<>> THEN 1 ELSE Last(found).start + 1
                     at == {i \in from .. Len(text) : text[i].word = ls[k].arg}
                 IN IF ls[k].kind # "heading" THEN found
                    ELSE Append(found,
                           [title |-> ls[k].arg, level |-> 1, page |-> NoPage,
                            start |-> IF at = {} THEN from ELSE Min(at),
                            origin |-> "latex_ast"])
    IN Found[Len(ls)]

ConvertLatex ==
    /\ pc = "convert"
    /\ LET text == PlainText(lines) IN
       doc' = [text |-> text, headings |-> LatexHeadings(lines, text),
               quality |-> "high"]
    /\ pc' = "detect"
    /\ UNCHANGED <<source, error, expansion, sections, chunks, cursor, planned>>

ExtractPdf ==
    /\ pc = "open" /\ source.kind = "pdf"
    /\ IF source.pdf.readable = "yes"
         THEN /\ doc' = [doc EXCEPT !.text = Pdf!Text(source.pdf)]
              /\ pc' = "headings" /\ UNCHANGED error
         ELSE /\ Fail(IF source.pdf.readable = "password" THEN "PdfEncryptedError"
                      ELSE "PdfExtractionError")
              /\ UNCHANGED doc
    /\ UNCHANGED <<source, expansion, sections, chunks, cursor, planned>>

PdfHeadings ==
    /\ pc = "headings"
    /\ doc' = [doc EXCEPT !.headings = Pdf!Headings(source.pdf, doc.text),
                          !.quality = Pdf!Quality(doc.text)]
    /\ pc' = "detect"
    /\ UNCHANGED <<source, error, expansion, sections, chunks, cursor, planned>>

DetectSections ==
    /\ pc = "detect"
    /\ sections' = Detect(doc)
    /\ cursor' = [cursor EXCEPT !.start = sections'[1].start]
    /\ pc' = "chunk"
    /\ UNCHANGED <<source, error, expansion, doc, chunks, planned>>

ChunkNext ==
    /\ pc = "chunk" /\ cursor.section <= Len(sections)
    /\ LET s == sections[cursor.section]
           chunk == NextChunk(doc, s, cursor.start, cursor.sequence)
       IN IF cursor.start < s.end
            THEN /\ chunks' = Append(chunks, chunk)
                 /\ cursor' = [cursor EXCEPT !.start = chunk.end, !.sequence = @ + 1]
            ELSE /\ cursor' = [section |-> cursor.section + 1, start |-> s.end,
                               sequence |-> 1]
                 /\ UNCHANGED chunks
    /\ UNCHANGED <<source, pc, error, expansion, doc, sections, planned>>

\* analyze_page_roles of the finished bundle.
Forms ==
    IF source.kind = "latex" THEN {}
    ELSE LET pages == [n \in 1 .. Len(source.pdf.pages) |-> source.pdf.pages[n].page]
             introductions ==
               {sections[i].pages[1] : i \in
                  {k \in 1 .. Len(sections) : MatchesRole(sections[k], "introduction")}}
         IN Pages!ServicePages(pages,
              Pages!IntroductionPage(pages, introductions \ {NoPage}))

FindForms ==
    /\ pc = "chunk" /\ cursor.section > Len(sections)
    /\ service' = Forms
    /\ pc' = "plan"
    /\ UNCHANGED <<source, error, expansion, doc, sections, chunks, cursor, batches>>

PlanBatches ==
    /\ pc = "plan"
    /\ batches' = [spec \in Specs |-> Plan(doc, sections, chunks, service, spec)]
    /\ pc' = "done"
    /\ UNCHANGED <<source, error, expansion, doc, sections, chunks, cursor, service>>

Step == \/ OpenLatex \/ Keep \/ Include \/ Return \/ ConvertLatex \/ ExtractPdf
        \/ PdfHeadings \/ DetectSections \/ ChunkNext \/ FindForms \/ PlanBatches

Stopped == pc \in {"done", "failed"} /\ UNCHANGED vars

Next == Step \/ Stopped
Spec == Init /\ [][Next]_vars

-----------------------------------------------------------------------------
(* Properties of the traversal                                             *)

TypeOK ==
    /\ pc \in {"open", "convert", "headings", "detect", "chunk", "plan",
              "done", "failed"}
    /\ \A i \in 1 .. Len(stack) : stack[i].file \in File
    /\ sourceFiles \in Seq(File)
    /\ (error # "none") = (pc = "failed")

\* A project is extracted if and only if everything its \input graph reaches is
\* a readable file of the project and the graph has no cycle; the files listed
\* are those it reaches, each once.
ExtractedIffSound ==
    source.kind = "latex" =>
        /\ pc = "done" => IsSound(p, p.main) /\ ToSet(sourceFiles) = Reach(p, p.main)
        /\ pc = "failed" => ~IsSound(p, p.main)
        /\ IsInjective(sourceFiles)

\* The traversal succeeds exactly on sound projects, with one error if not.
TraversalIsSound == TypeOK /\ ExtractedIffSound

Shadowed == \E n \in Name : p.cwd[n] # NoFile

\* Unless the working directory has a file of an included name, the formal rules
\* and the extraction read one and the same text: two walks of the project that
\* share no code for the includes.
BothReadersAgree ==
    source.kind = "latex" /\ pc = "done" /\ ~Shadowed => lines = ExpandForAnalysis(p)

\* A bibliography counts as declared if and only if a bibliography command is
\* left in the expanded text: not one in a comment or a listing.
DeclaredIffInText ==
    source.kind = "latex" /\ pc = "done" =>
        BibliographyReferences(p)
          = {l.arg : l \in {k \in ToSet(lines) : k.kind = "bib"}}

\* Extraction, formal rules and the search for bibliographies read one text.
ReadersAgree == BothReadersAgree /\ DeclaredIffInText

\* Only comments are taken out: whatever stands in a file that was read, and is
\* not commented out, is in the expanded text.
OnlyCommentsAreRemoved ==
    source.kind = "latex" /\ pc = "done" =>
        \A f \in ToSet(sourceFiles) : \A k \in 1 .. Len(p.lines[f]) :
            p.lines[f][k].kind \in {"text", "heading"} /\ ~p.lines[f][k].comment =>
                \E l \in ToSet(lines) :
                    p.lines[f][k].arg = l.arg \/ p.lines[f][k].arg \in ToSet(l.block)

-----------------------------------------------------------------------------
(* Properties of sections, chunks and batches                              *)

\* Sections follow each other and cover the text, whatever the headings found.
SectionsTile ==
    pc \in {"chunk", "plan", "done"} =>
        /\ sections[1].start = 1 /\ Last(sections).end = Length(doc) + 1
        /\ \A i \in 1 .. Len(sections) - 1 : sections[i].end = sections[i + 1].start

\* The new text of the chunks so far is the text up to the cursor: nothing is
\* lost, repeated or left for ever, wherever the cuts fall.
ChunksRestoreTheText ==
    /\ \A i \in 1 .. Len(chunks) :
         /\ chunks[i].content < chunks[i].end
         /\ chunks[i].content = IF i = 1 THEN 1 ELSE chunks[i - 1].end
    /\ pc = "done" => (IF chunks = <<>> THEN 1 ELSE Last(chunks).end) = Length(doc) + 1

\* A chunk with its overlap keeps to the budget; the overlap keeps to a tenth of
\* it and to the section.
ChunksKeepToBudget ==
    \A i \in 1 .. Len(chunks) :
        LET c == chunks[i]
            s == {t \in ToSet(sections) : t.start <= c.content /\ c.content < t.end}
        IN /\ EstimateTokens(doc, c.start, c.end) <= Budget
           /\ EstimateTokens(doc, c.start, c.content) <= Budget \div 10
           /\ \E t \in s : t.start <= c.start /\ c.end <= t.end

\* Two sections have one address only if a title ends in the number another
\* title's repetition gets, or in the address of what stands before all titles.
AddressesDiffer ==
    \A i, j \in 1 .. Len(sections) :
        i # j /\ sections[i].id = sections[j].id =>
            /\ \E k \in {i, j} : sections[k].id = Base[sections[k].title]
            /\ Len(sections[i].id) > 1 \/ sections[i].id = <<"document-preamble">>

\* Nothing that stands on a form (names, dates, signatures) is sent to the model,
\* not even as the overlap of a chunk of the next page.  A title that stands on
\* none of the section's first pages may be found on a form, but says no more.
NoFormIsForwarded ==
    pc = "done" => \A spec \in Specs : \A c \in ToSet(batches[spec].chunks) :
        \A i \in c.start .. c.end - 1 : doc.text[i].page \in service =>
            spec.headingsOnly /\ \E s \in ToSet(sections) : doc.text[i].word = s.title

\* A batch keeps the first and the last chunk of each section it is about (with
\* an address of its own), and loses one only at the limit of the whole batch.
HeadAndTailAreKept ==
    pc = "done" /\ source.kind = "latex" => \A spec \in Specs :
        LET batch == batches[spec].chunks IN
        /\ Len(batch) <= spec.total
        /\ Len(batch) < spec.total /\ spec.perSection > 1 /\ ~spec.headingsOnly =>
             \A s \in ToSet(sections) :
                 /\ \E role \in ToSet(spec.roles) : MatchesRole(s, role)
                 /\ HasBody(doc, s)
                 /\ \A t \in ToSet(sections) : t.id = s.id => t = s
                 => \A c \in ToSet(chunks) :
                      c.section = s.id /\ (c.content = s.start \/ c.end = s.end)
                        => c \in ToSet(batch)

\* The text of a PDF is what its blocks say, page by page, and each block is read
\* once, whatever the columns.
EveryBlockIsRead ==
    source.kind = "pdf" /\ pc = "detect" =>
        /\ \A i \in 1 .. Len(doc.text) :
             LET t == doc.text[i] IN
             /\ t.page \in 1 .. Len(source.pdf.pages)
             /\ t.block \in source.pdf.pages[t.page].blocks /\ t.word = t.block.word
        /\ \A n \in 1 .. Len(source.pdf.pages) : \A b \in source.pdf.pages[n].blocks :
             \E i \in 1 .. Len(doc.text) :
                 \A k \in 1 .. Len(doc.text) :
                     doc.text[k].page = n /\ doc.text[k].block = b <=> k = i

\* Behind the introduction a page is a form only if it says so in its heading:
\* no page of the main text is left out of the checks for its words.
MainTextIsNoForm ==
    source.kind = "pdf" /\ pc = "done" =>
        \A i \in 1 .. Len(sections) : MatchesRole(sections[i], "introduction")
            => \A n \in service :
                 n >= sections[i].pages[1] => "review" \in source.pdf.pages[n].page.titles

\* The text is read, divided and cut without loss or repetition.
TextIsWhole ==
    SectionsTile /\ ChunksRestoreTheText /\ ChunksKeepToBudget /\ EveryBlockIsRead
\* No page of a form is forwarded, and no page of the main text is taken for one.
FormsStayOut == NoFormIsForwarded /\ MainTextIsNoForm
\* Sections can be told apart by their addresses, and batches keep their ends.
BatchesKeepSections == AddressesDiffer /\ HeadAndTailAreKept

Position == [i \in 1 .. Cardinality(File) |->
               IF i <= Len(stack) THEN stack[i].line ELSE Infinity]
Later(f, g) == \E i \in DOMAIN f : f[i] < g[i] /\ \A k \in 1 .. i - 1 : f[k] = g[k]

\* Every step moves forward in the order of the document, in the expansion as in
\* the cutting: neither can go round for ever, whatever the files include.
OnlyForward ==
    [][/\ stack # <<>> /\ pc' # "failed" => Later(Position, Position')
       /\ pc = "chunk" /\ pc' = "chunk" =>
            Later(<<cursor.section, cursor.start>>, <<cursor'.section, cursor'.start>>)]_vars
=============================================================================
