------------------------------- MODULE MCRules -------------------------------
(* LaTeX projects put together from small sections, each with a variation *)
(* or two, and PDFs put together from lines on two or three pages.        *)
EXTENDS Rules, TLC

MCCanonical == <<"annotation", "introduction", "review", "conclusion">>
MCPageRange == [review |-> [low |-> 1, high |-> 2]]
MCTitles == {"annotation", "introduction", "review", "as is", "to be", "results",
             "tasks", "algorithm", "conclusion", "appendix", "as is elsewhere", "math"}
MCInside == {<<t, t>> : t \in MCTitles} \cup {<<"as is", "as is elsewhere">>}
MCNamed == [t \in MCTitles |-> t]
MCKindOf == [t \in MCTitles |-> IF t \in {"annotation", "introduction"} THEN t ELSE "other"]

Item(kind, arg) == [kind |-> kind, arg |-> arg, literal |-> FALSE]
Section(title) == Item("section", title)
Float(label, refs) == [label |-> label, caption |-> "good", number |-> 1, refs |-> refs, endhead |-> TRUE]
Figure == Item("figure", Float("a", {}))
Table == Item("table", Float("b", {}))
Declared(metric, n) == Item("declared", [metric |-> metric, number |-> n])
Coded(x) == [x EXCEPT !.literal = TRUE]

MCNewKeys == {"k2", "k3"}
MCNewObjects == {Item("figure", Float("c", {})), Item("list", <<10>>), Item("block", 1),
                 Coded(Item("figure", Float("d", {})))}

\* w: the words of the review; f: whether the as-is section has its figure;
\* x: a heading that contains "as is" comes first; c: a coded figure.
Body(w, f, x, c) ==
    (IF x THEN <<Section("as is elsewhere"), Item("words", 9)>> ELSE <<>>)
    \o <<Section("annotation"), Declared("pages", 2), Declared("figures", 1),
         Declared("tables", 1), Declared("appendices", 1)>>
    \o <<Section("introduction"), Item("words", 9)>>
    \o <<Section("review"), Item("words", w), Item("cite", {"k1"}), Item("par", 0),
         Item("words", 149)>>
    \o <<Section("as is")>> \o (IF f THEN <<Figure>> ELSE IF c THEN <<Coded(Figure)>> ELSE <<>>)
    \o <<Section("tasks"), Item("list", <<31, 30>>)>>
    \o <<Section("algorithm"), Item("block", 1)>>
    \o <<Section("results"), Table, Item("ref", "a"), Item("ref", "b")>>
    \o <<Section("conclusion"), Section("appendix"), Item("url", 0)>>

Entry(key, fields, foreign) ==
    [kind |-> "entry",
     entry |-> [key |-> key, type |-> IF foreign THEN "article" ELSE "online",
                fields |-> fields, foreign |-> foreign, year |-> 2024, forbidden |-> FALSE]]
All == {"author", "title", "year", "url", "urldate"}
Bib(n) == CASE n = 1 -> <<<<Entry("k1", All, TRUE), Entry("k2", All \ {"urldate"}, FALSE)>>>>
            [] n = 2 -> <<<<Entry("k1", {"title"}, TRUE), [kind |-> "unclosed", entry |-> 0]>>,
                          <<Entry("k3", All, FALSE), Entry("k3", All \ {"year"}, TRUE)>>>>
Bibs == {Bib(1), Bib(2)}
GoodClass == {"fontspec", "times", "gost", "risref", "amsmath", "endhead"}
Classes == {GoodClass, {"titlesec", "margins", "parindent"}}

Box(x, y, w, h) == [x0 |-> x, y0 |-> y, x1 |-> x + w, y1 |-> y + h]
\* A4 in half points: 1190 by 1684; the body lies in 159..1145, 102..1582.
Page == [width |-> 1190, height |-> 1684, rotation |-> 0]
Sideways == [width |-> 1684, height |-> 1190, rotation |-> 90]
Plain(page, box, text, chars) ==
    [page |-> page, box |-> box, font |-> "times", bold |-> FALSE, size |-> 28,
     chars |-> chars, text |-> text, words |-> text, number |-> 0, rank |-> 0]
\* The lines a page is made of; named by what they try.
Line(p, name) ==
    CASE name = "upper"   -> Plain(p, Box(200, 300, 800, 28), "prose", 15)
      [] name = "lower"   -> Plain(p, Box(200, 342, 800, 28), "prose", 15)
      [] name = "mono"    -> [Plain(p, Box(200, 384, 400, 28), "prose", 4)
                                EXCEPT !.font = "mono", !.words = "mono"]
      [] name = "heading" -> [Plain(p, Box(200, 200, 300, 28), "prose", 6)
                                EXCEPT !.bold = TRUE, !.words = "heading"]
      [] name = "large"   -> [Plain(p, Box(200, 384, 400, 36), "prose", 16)
                                EXCEPT !.size = 36, !.words = "large"]
      [] name = "header"  -> [Plain(p, Box(200, 60, 400, 28), "prose", 9)
                                EXCEPT !.words = "running"]
      [] name = "foot"    -> [Plain(p, Box(200, 1600, 400, 28), "prose", 9)
                                EXCEPT !.words = "foot"]
      [] name = "number"  -> Plain(p, Box(640, 1600, 20, 28), "digits", 2)
      [] name = "wide"    -> Plain(p, Box(800, 600, 347, 28), "prose", 9)
      [] name = "caption" -> Plain(p, Box(200, 700, 300, 28), "caption", 12)
      [] name = "right"   -> Plain(p, Box(700, 314, 300, 28), "prose", 8)
      [] name = "lost"    -> [Plain(p, Box(200, 500, 0, 28), "prose", 9)
                                EXCEPT !.words = "lost"]
      [] name = "shadow"  -> [Plain(p, Box(200, 200, 300, 28), "prose", 6)
                                EXCEPT !.words = "heading"]
\* In the order of their fonts, sizes and texts; a shadow differs from its
\* heading in the weight alone.
Rank == [name \in {"mono", "caption", "number", "heading", "shadow", "right", "lost", "header",
                   "foot", "wide", "upper", "lower", "large"} |->
           CASE name = "mono" -> 1 [] name = "caption" -> 2 [] name = "number" -> 3
             [] name \in {"heading", "shadow"} -> 4 [] name = "right" -> 5
             [] name = "lost" -> 6 [] name = "header" -> 7 [] name = "foot" -> 8
             [] name = "wide" -> 9 [] name \in {"upper", "lower"} -> 10 [] name = "large" -> 11]
Placed(p, name) == [Line(p, name) EXCEPT !.rank = Rank[name]]
Pdf(pages, service, chosen) ==
    [pages |-> pages, service |-> service, readable |-> TRUE, objects |-> {},
     spans |-> [k \in 1 .. Len(chosen) |-> Placed(chosen[k][1], chosen[k][2])]]

\* Sets of one to four lines, in one order.
Lines(pages, names) == pages \X names
Orders(S) == {CHOOSE q \in [1 .. Cardinality(S) -> S] : \A i, j \in DOMAIN q : i # j => q[i] # q[j]}
Texts(pages, names, n) ==
    UNION {Orders(S) : S \in kSubset(2, Lines(pages, names)) \cup kSubset(n, Lines(pages, names))}

Object(p, box) == [page |-> p, box |-> box, kind |-> "image", signature |-> "logo"]
Pdfs ==
    {Pdf(<<Page, Page>>, service, t) :
        service \in {{}}, t \in Texts({1, 2}, {"upper", "header", "foot", "number", "lost"}, 3)}
    \cup {Pdf(<<Page, Sideways>>, {}, t) : t \in Texts({2}, {"upper", "lower", "wide", "caption"}, 3)}
    \cup {Pdf(<<Page, Page>>, {2}, t) : t \in Texts({1, 2}, {"upper", "foot", "wide"}, 3)}
    \cup {Pdf(<<Page>>, {}, t) :
            t \in Texts({1}, {"upper", "lower", "mono", "heading", "large", "right", "caption"}, 4)}
    \cup {Pdf(<<Page>>, {}, t) :
            t \in Texts({1}, {"upper", "lower", "heading", "shadow", "right"}, 3)}
    \cup {[Pdf(<<Page, Page>>, {}, <<<<1, "upper">>, <<2, "upper">>>>)
             EXCEPT !.objects = objects] :
            objects \in {{Object(1, Box(20, 30, 60, 60))},
                         {Object(1, Box(20, 30, 60, 60)), Object(2, Box(20, 30, 60, 60))},
                         {Object(1, Box(20, 400, 60, 60)), Object(2, Box(20, 400, 60, 60))}}}

Base == [latex |-> FALSE, class |-> NoClass, protected |-> "missing", pdf |-> NoPdf,
         body |-> <<>>, bib |-> <<>>, declared |-> FALSE, paged |-> FALSE, sections |-> <<>>,
         preamble |-> {}, build |-> [status |-> "success", overfull |-> FALSE, chktex |-> "clean"]]

\* Three lines of code, and three rows of a table with a number in each.
Code(k) == [Plain(1, Box(240, 500 + 42 * k, 300, 28), "code", 12)
              EXCEPT !.font = "mono", !.words = "code", !.rank = 13]
Cell(row, column) ==
    [Plain(1, Box(240 + 300 * column, 500 + 42 * row, 100, 28),
           IF column = 0 THEN "prose" ELSE "digits", 9)
       EXCEPT !.words = "cell", !.rank = 14 + column]
Framed(set) == [Pdf(<<Page>>, {}, <<<<1, "upper">>, <<1, "lower">>>>) EXCEPT !.spans = @ \o set]
Listed == Framed([k \in 1 .. 3 |-> Code(k)])
Tabular == Framed([k \in 1 .. 6 |-> Cell((k - 1) \div 2, (k - 1) % 2)])

Compiled == Pdf(<<Page, Page>>, {}, <<<<1, "upper">>, <<1, "lower">>, <<2, "upper">>, <<2, "wide">>>>)
Thesis(class, body, bib, pdf) ==
    [Base EXCEPT !.latex = TRUE, !.class = class, !.protected = "agreed",
                 !.body = body, !.bib = bib, !.declared = TRUE, !.pdf = pdf]
\* Everything the floats, the bibliography and the build can get wrong.
Odd == <<Section("review"), Item("footcite", {"k1"}), Item("footnote", TRUE),
         Item("nocite", {"k2"}), Item("bracket", 0), Item("subsubsection", "tasks"),
         Section("as is"), Item("figure", Float(NoLabel, {"b"})), Figure,
         Item("longtable", [Float("e", {}) EXCEPT !.endhead = FALSE, !.caption = "lower"]),
         Item("ref", "a"), Item("abbreviation", 0), Section("math"), Item("math", 0),
         Section("tasks"), Item("list", <<29>>), Item("appendix", 0), Section("appendix")>>
\* The figure is mentioned on the first page and stands on the third.
Late == [Compiled EXCEPT !.pages = <<Page, Page, Page>>, !.spans = @ \o
           <<[Placed(1, "lower") EXCEPT !.text = "mention", !.number = 1, !.rank = 12],
             [Placed(3, "caption") EXCEPT !.number = 1]>>]
Builds == {[status |-> "success", overfull |-> TRUE, chktex |-> "clean"],
           [status |-> "success", overfull |-> FALSE, chktex |-> "absent"],
           [status |-> "compile error", overfull |-> FALSE, chktex |-> "clean"]}
\* A bundle with pages, as the rules' own tests put it together, and without, as
\* the extractor of LaTeX projects leaves it.
Numbered == <<[title |-> "review", level |-> 2, first |-> 1, last |-> 3],
              [title |-> "tasks", level |-> 3, first |-> 3, last |-> 3]>>
Theses ==
    {Thesis(class, Body(w, TRUE, FALSE, FALSE), bib, pdf) :
        class \in Classes, w \in {147, 600}, bib \in Bibs, pdf \in {NoPdf, Compiled}}
    \cup {Thesis(GoodClass, Body(9, f, x, c), Bib(1), NoPdf) :
             f \in BOOLEAN, x \in BOOLEAN, c \in BOOLEAN}
    \cup {[Thesis(GoodClass, body, Bib(1), pdf) EXCEPT !.paged = paged,
                !.sections = IF paged THEN Numbered ELSE Unpaged(Numbered),
                !.preamble = forbidden, !.build = build] :
             body \in {Odd}, pdf \in {NoPdf, Late}, paged \in BOOLEAN,
             forbidden \in {{}, {"geometry"}}, build \in Builds}

MCSubmissions == {[Base EXCEPT !.pdf = pdf] : pdf \in Pdfs \cup {Listed, Tabular}} \cup Theses
==============================================================================
