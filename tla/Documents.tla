------------------------------ MODULE Documents ------------------------------
(***************************************************************************)
(* Sections, chunks and batches of an extracted document: SectionDetector, *)
(* Chunker and BatchPlanner.                                               *)
(*                                                                         *)
(* A text is a sequence of pieces of words.  Offsets count pieces, from 1; *)
(* an end offset is the one after the last piece.  What follows a piece    *)
(* (nothing, a space, the end of a sentence or of a paragraph) belongs to  *)
(* it, so a cut is always between two pieces.                              *)
(***************************************************************************)
EXTENDS Sequences, SequencesExt, FiniteSetsExt, Integers

CONSTANTS
    Bytes,         \* [pieces -> their length in UTF-8]
    Boundary,      \* [pieces -> 3: paragraph, 2: sentence, 1: space, 0: none]
    Base,          \* [titles -> <<slug or alias>>, or <<slug, number>>]
    Roles,         \* [titles -> the section roles the title matches]
    Near,          \* headings at most so far apart are one (2 characters)
    Budget,        \* token budget of a chunk
    OverlapTokens  \* floor(Budget * 0.1)

ASSUME BudgetAssumption ==
    /\ Budget \in Nat \ {0} /\ OverlapTokens = Budget \div 10
    /\ Near \in Nat
    /\ \A w \in DOMAIN Bytes : Bytes[w] \in 1 .. 4 * (Budget - OverlapTokens)

\* Titles have addresses, and the text without a title is no introduction.
ASSUME TitlesAssumption ==
    /\ \A t \in DOMAIN Base :
         Len(Base[t]) \in Nat \ {0} /\ Base[t] = [k \in 1 .. Len(Base[t]) |-> Base[t][k]]
    /\ "introduction" \notin Roles["document"]

NoPage == 0
Origin == {"latex_ast", "pdf_outline", "pdf_heading"}
Priority(origin) ==
    CASE origin = "latex_ast" -> 0 [] origin = "pdf_outline" -> 1
      [] origin = "pdf_heading" -> 2

\* A document: its pieces, each with its page, and its heading candidates.
Length(d) == Len(d.text)
Word(d, i) == d.text[i].word

\* The bytes of the first k pieces.
BytesBefore(d) ==
    LET Sum[k \in 0 .. Length(d)] == IF k = 0 THEN 0 ELSE Sum[k - 1] + Bytes[Word(d, k)]
    IN Sum

BytesOf(d, start, end) == BytesBefore(d)[end - 1] - BytesBefore(d)[start - 1]

\* estimate_tokens: a quarter of the bytes, rounded up.
EstimateTokens(d, start, end) == (BytesOf(d, start, end) + 3) \div 4

\* Pages the pieces of a range stand on, as first and last; else the default.
PageRange(d, start, end, default) ==
    LET pages == {d.text[i].page : i \in start .. end - 1} \ {NoPage}
    IN IF pages = {} THEN default ELSE <<Min(pages), Max(pages)>>

-----------------------------------------------------------------------------
(* SectionDetector                                                         *)

HeadingLess(g, h) ==
    \/ g.start < h.start
    \/ g.start = h.start /\ Priority(g.origin) < Priority(h.origin)
    \/ g.start = h.start /\ g.origin = h.origin /\ g.level < h.level

SameHeading(g, h) ==
    \/ h.start - g.start <= Near
    \/ g.title = h.title /\ g.page = h.page

\* sorted: the headings within the text, each put behind those it is not less
\* than.
Ordered(d) ==
    LET Placed[k \in 0 .. Len(d.headings)] ==
            IF k = 0 THEN <<>>
            ELSE LET before == Placed[k - 1]
                     h == d.headings[k]
                     greater == {i \in DOMAIN before : HeadingLess(h, before[i])}
                 IN IF h.start > Length(d) + 1 THEN before
                    ELSE InsertAt(before, Min(greater \cup {Len(before) + 1}), h)
    IN Placed[Len(d.headings)]

\* _deduplicate: of neighbours that are one heading, the one found best.
Deduplicate(d) ==
    LET ordered == Ordered(d)
        Kept[k \in 0 .. Len(ordered)] ==
            IF k = 0 THEN <<>>
            ELSE LET kept == Kept[k - 1]
                     h == ordered[k]
                 IN IF kept = <<>> \/ ~SameHeading(Last(kept), h) THEN Append(kept, h)
                    ELSE IF Priority(h.origin) < Priority(Last(kept).origin)
                      THEN Append(Front(kept), h) ELSE kept
    IN Kept[Len(ordered)]

Section(d, id, title, start, end, page) ==
    [id |-> id, title |-> title, start |-> start, end |-> end,
     pages |-> PageRange(d, start, end, <<page, page>>)]

\* The nth of the sections with one base gets the base and n as its name.
SectionId(headings, i) ==
    LET base == Base[headings[i].title]
        serial == Cardinality({j \in 1 .. i : Base[headings[j].title] = base})
    IN IF serial = 1 THEN base ELSE Append(base, serial)

\* detect: one section for each heading, and what stands before the first.
Detect(d) ==
    LET hs == Deduplicate(d)
        End(i) == IF i < Len(hs) THEN hs[i + 1].start ELSE Length(d) + 1
    IN IF hs = <<>>
         THEN <<Section(d, <<"document">>, "document", 1, Length(d) + 1, NoPage)>>
       ELSE (IF hs[1].start > 1
               THEN <<Section(d, <<"document-preamble">>, "document", 1,
                              hs[1].start, NoPage)>>
               ELSE <<>>)
            \o [i \in 1 .. Len(hs) |-> Section(d, SectionId(hs, i), hs[i].title,
                                               hs[i].start, End(i), hs[i].page)]

-----------------------------------------------------------------------------
(* Chunker                                                                 *)

\* _last_boundary: a paragraph, else a sentence, else a space, in the last two
\* thirds of the window; only the end of the whole text needs none.
LastBoundary(d, start, hardEnd) ==
    LET Ends(kind) == {e \in start + 1 .. hardEnd : Boundary[Word(d, e - 1)] >= kind}
        Good(kind) == /\ Ends(kind) # {}
                      /\ BytesOf(d, start, Max(Ends(kind)))
                           >= BytesOf(d, start, hardEnd) \div 3
    IN IF hardEnd > Length(d) THEN hardEnd
       ELSE IF Good(3) THEN Max(Ends(3))
       ELSE IF Good(2) THEN Max(Ends(2))
       ELSE IF Good(1) THEN Max(Ends(1)) ELSE hardEnd

\* _max_fitting_end: what the bisection comes to.
MaxFittingEnd(d, start, end) ==
    Max({start + 1} \cup {e \in start + 1 .. end :
                            EstimateTokens(d, start, e) <= Budget})

\* Faulty variant: the overlap may be as long as a chunk, and may leave the
\* section.
OverlapUnbounded(d, start, sectionStart) ==
    Min({start} \cup {m \in 1 .. start : EstimateTokens(d, m, start) <= Budget})

\* _overlap_start
OverlapStart(d, start, sectionStart) ==
    IF start = sectionStart \/ OverlapTokens = 0 THEN start
    ELSE Min({m \in sectionStart .. start :
                EstimateTokens(d, m, start) <= OverlapTokens})

\* Faulty variant: the pages are those of the new text.
NextChunkOwnPages(d, s, contentStart, sequence) ==
    LET from == OverlapStart(d, contentStart, s.start)
        end == LastBoundary(d, contentStart, MaxFittingEnd(d, from, s.end))
    IN [id |-> <<s.id, sequence>>, section |-> s.id, start |-> from,
        content |-> contentStart, end |-> end,
        pages |-> PageRange(d, contentStart, end, s.pages)]

\* The body of the loop of Chunker.chunk.
NextChunk(d, s, contentStart, sequence) ==
    LET from == OverlapStart(d, contentStart, s.start)
        hardEnd == MaxFittingEnd(d, from, s.end)
        boundary == LastBoundary(d, contentStart, hardEnd)
        end == IF boundary <= contentStart THEN hardEnd ELSE boundary
    IN [id |-> <<s.id, sequence>>, section |-> s.id, start |-> from,
        content |-> contentStart, end |-> end,
        pages |-> PageRange(d, from, end, s.pages)]

-----------------------------------------------------------------------------
(* BatchPlanner                                                            *)

MatchesRole(s, role) == role \in Roles[s.title]

\* A section whose only text is its title has no body.
HasBody(d, s) ==
    \E i \in s.start .. s.end - 1 : i > s.start \/ Word(d, i) # s.title

\* Faulty variant: the first chunks, not the first and the last ones.
FirstChunks(chunks, limit) == SubSeq(chunks, 1, Min({limit, Len(chunks)}))

\* _bounded_section_chunks
BoundedSectionChunks(chunks, limit) ==
    LET head == (limit + 1) \div 2
        tail == limit - head
    IN IF Len(chunks) <= limit THEN chunks
       ELSE SubSeq(chunks, 1, head)
            \o SubSeq(chunks, Len(chunks) - tail + 1, Len(chunks))

\* _heading_chunk: the first place in the section its title stands at.
HeadingChunks(d, s) ==
    LET at == {i \in s.start .. s.end - 1 : Word(d, i) = s.title}
    IN IF at = {} THEN <<>>
       ELSE <<[id |-> <<"heading", s.title>>, section |-> s.id, start |-> Min(at),
               content |-> Min(at), end |-> Min(at) + 1,
               pages |-> <<s.pages[1], s.pages[1]>>]>>

IntersectsServicePage(chunk, service) ==
    (chunk.pages[1] .. chunk.pages[2]) \cap service # {}

\* The elements of s that are in S, in their order.
Only(s, S) ==
    LET Kept[k \in 0 .. Len(s)] ==
            IF k = 0 THEN <<>>
            ELSE IF s[k] \in S THEN Append(Kept[k - 1], s[k]) ELSE Kept[k - 1]
    IN Kept[Len(s)]

\* What a rule may be told of a section: its title or its chunks, without forms.
Candidates(d, s, chunks, service, spec) ==
    LET all == IF spec.headingsOnly THEN HeadingChunks(d, s)
               ELSE Only(chunks, {c \in ToSet(chunks) : c.section = s.id})
    IN Only(all, {c \in ToSet(all) : ~IntersectsServicePage(c, service)})

\* plan: the chunks of the sections a rule is about, and the roles it lacks.
Plan(d, sections, chunks, service, spec) ==
    LET Plays(s, role) == MatchesRole(s, role) /\ HasBody(d, s)
        selected == Only(sections, {s \in ToSet(sections) :
                                      \E role \in ToSet(spec.roles) : Plays(s, role)})
        all == FlattenSeq([i \in 1 .. Len(selected) |->
                   BoundedSectionChunks(
                       Candidates(d, selected[i], chunks, service, spec), spec.perSection)])
    IN [chunks |-> SubSeq(all, 1, Min({spec.total, Len(all)})),
        missing |-> IF ~spec.requireAll THEN {}
                    ELSE {role \in ToSet(spec.roles) :
                            ~\E s \in ToSet(sections) : Plays(s, role)}]
=============================================================================
