---------------------------- MODULE MCExtraction -----------------------------
(***************************************************************************)
(* Projects of up to three files in every mix of directives, single files  *)
(* of up to five lines to be cut, and PDFs of two pages.                   *)
(***************************************************************************)
EXTENDS Extraction

Line(kind, arg) == [kind |-> kind, arg |-> arg, comment |-> FALSE, block |-> <<>>]
Commented(line) == [line EXCEPT !.comment = TRUE]

Titles == {"Introduction", "Task", "Task 2", "Assignment", "Document preamble"}
Words == {"short", "word", "sentence", "paragraph", "long"} \cup Titles

MCBytes == [w \in Words \cup {"begin", "end", "refs", "more", "a.tex", "b.tex", "gone"} |->
              CASE w = "short" -> 3 [] w = "word" -> 9 [] w = "sentence" -> 14
                [] w = "paragraph" -> 6 [] w = "long" -> 34 [] OTHER -> 8]
MCBoundary == [w \in DOMAIN MCBytes |->
                 CASE w = "word" -> 1 [] w = "sentence" -> 2
                   [] w \in {"short", "long"} -> 0 [] OTHER -> 3]
MCBase == [t \in DOMAIN MCBytes \cup {"document"} |->
             CASE t = "Introduction" -> <<"introduction">>
               [] t = "Task" -> <<"task">> [] t = "Task 2" -> <<"task", 2>>
               [] t = "Document preamble" -> <<"document-preamble">>
               [] OTHER -> <<t>>]
MCRoles == [t \in DOMAIN MCBase |->
              CASE t = "Introduction" -> {"introduction"}
                [] t \in Titles \ {"Introduction"} -> {"task"}
                [] OTHER -> {}]

MCName == {"a.tex", "b.tex", "gone"}
Nowhere == [n \in MCName |-> NoFile]
Beside == [n \in MCName |-> CASE n = "a.tex" -> "a" [] n = "b.tex" -> "b" [] OTHER -> NoFile]

Latex(main, a, b, utf8, near, cwd) ==
    [kind |-> "latex",
     project |-> [main |-> "main", lines |-> [main |-> main, a |-> a, b |-> b],
                  utf8 |-> utf8, near |-> near, cwd |-> cwd]]

Includes1 == {Line("text", "word"), Line("input", "a.tex"), Line("bib", "refs"),
              Line("begin", "begin"), Line("end", "end"),
              Commented(Line("input", "gone")), Line("input", "b.tex")}

Same == [f \in {"main", "a", "b"} |-> Beside]

Projects ==
    {Latex(main, <<x, Line("text", "short")>>, <<y>>, {"main", "a", "b"}, Same, Nowhere) :
       main \in {<<u, v, w>> : u \in Includes1, v \in Includes1, w \in Includes1},
       x \in {Line("input", "b.tex"), Line("bib", "more")},
       y \in {Line("input", "a.tex"), Line("heading", "Task")}}
    \cup
    {Latex(<<Line("input", "a.tex"), Line("bib", "refs"), Line("input", "b.tex")>>,
           <<x, Line("text", "short")>>, <<Line("heading", "Task")>>, u,
           [Same EXCEPT !["a"]["b.tex"] = t], c) :
       x \in {Line("input", "b.tex"), Commented(Line("begin", "begin")), Line("input", "gone")},
       u \in {{"main", "a", "b"}, {"main", "a"}},
       t \in {"b", NoFile, Outside, Directory, "main"},
       c \in {Nowhere, [Nowhere EXCEPT !["b.tex"] = "a"],
              [Nowhere EXCEPT !["a.tex"] = Outside]}}

Pieces == {Line("text", w) : w \in {"short", "word", "sentence", "paragraph", "long"}}
          \cup {Line("heading", "Task"), Line("heading", "Introduction")}

LongTexts ==
    {Latex(main, <<>>, <<>>, {"main"}, Same, Nowhere) :
       main \in UNION {[1 .. n -> Pieces] : n \in 0 .. 4}
         \cup {<<Line("heading", "Task")>> \o t \o t \o <<Line("heading", "Task")>> \o t
               \o <<Line("heading", "Task 2"), Line("text", "long")>> :
                 t \in [1 .. 3 -> Pieces]}
         \cup {<<Line("text", w), Line("heading", "Document preamble")>> : w \in Words}}

Block(x0, x1, y0, word, size) ==
    [x0 |-> x0, x1 |-> x1, y0 |-> y0, y1 |-> y0 + 4, word |-> word, size |-> size]

Blocks(n) ==
    {Block(10, 90, 5, "Task", 160), Block(10, 45, 20, "word", 120),
     Block(55, 90, 20, "short", 120), Block(10, 90, 30, "sentence", 120),
     Block(10, 45, 50, IF n = 1 THEN "Assignment" ELSE "Introduction", 160),
     Block(10, 90, 80, "paragraph", 120)}

Form == [anchors |-> {"assignment", "assignment phrase", "institution"}, titles |-> {},
         support |-> 3]
Plain == [anchors |-> {}, titles |-> {}, support |-> 0]
Review == [anchors |-> {}, titles |-> {"review"}, support |-> 2]

Pdfs ==
    {[kind |-> "pdf",
      pdf |-> [readable |-> "yes", outline |-> o,
               pages |-> <<[blocks |-> x, page |-> k], [blocks |-> y, page |-> l]>>]] :
        x \in {b \in SUBSET Blocks(1) : Cardinality(b) \in {2, 6}},
        y \in {b \in SUBSET Blocks(2) : Cardinality(b) = 5} \cup {Blocks(2)},
        k \in {Form}, l \in {Form, Plain, Review},
        o \in {<<>>, <<[title |-> "Introduction", level |-> 1, page |-> 2]>>}}
    \cup {[kind |-> "pdf",
           pdf |-> [readable |-> "yes",
                    outline |-> <<[title |-> "Task", level |-> 1, page |-> 1]>>,
                    pages |-> <<[blocks |-> {Block(10, 90, 20, v, 120),
                                             Block(10, 90, 30, "short", 120)},
                                 page |-> k],
                                [blocks |-> {Block(10, 90, 20, "word", 120),
                                             Block(10, 90, 30, w, 120)},
                                 page |-> l]>>]] :
             v \in Words, w \in Words, k \in {Form, Plain}, l \in {Form, Plain}}
    \cup {[kind |-> "pdf",
           pdf |-> [readable |-> r, outline |-> <<>>, pages |-> <<>>]] :
             r \in {"yes", "no", "password"}}

MCSources == Projects \cup LongTexts \cup Pdfs

MCSpecs ==
    {[roles |-> <<"task">>, perSection |-> 2, total |-> 3, requireAll |-> FALSE,
      headingsOnly |-> FALSE],
     [roles |-> <<"task", "introduction">>, perSection |-> 2, total |-> 4,
      requireAll |-> TRUE, headingsOnly |-> FALSE],
     [roles |-> <<"introduction", "task">>, perSection |-> 1, total |-> 1, requireAll |-> FALSE,
      headingsOnly |-> TRUE]}
=============================================================================
