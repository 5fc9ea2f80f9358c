--------------------------- MODULE MCFormalEngine ----------------------------
(***************************************************************************)
(* A rubric of four rules, one of them semantic only, and every mix of the *)
(* ways the engine can meet the three formal ones.                         *)
(***************************************************************************)
EXTENDS FormalEngine

MCCapabilities == <<{"class", "script"}, {"llm"}, {"script", "llm"}, {"class"}>>
MCSeverity == <<"error", "error", "warn", "error">>

Plain == [registered |-> "implemented", required |-> {}, supports |-> "yes",
          raises |-> FALSE, outcome |-> <<>>]

Says(i, status, locator, print) ==
    [id |-> i, layer |-> PrimaryLayer(i), severity |-> Severity[i],
     status |-> status, approval |-> FALSE, locator |-> locator, print |-> print]

\* Two findings at one place and one before them, none where it belongs.
Ties(i) == <<Says(i, "pass", 1, 2), Says(i, "fail", 1, 1), Says(i, "pass", 0, 3)>>

Situations(i) ==
    {[Plain EXCEPT !.registered = "no"],
     [Plain EXCEPT !.required = {"bib_files"}],
     [Plain EXCEPT !.supports = "raises"],
     [Plain EXCEPT !.raises = TRUE],
     [Plain EXCEPT !.outcome = <<Says(i, "pass", 0, 1)>>]}

\* The first rule finds several things, the last one needs a compiled project.
AllSituations ==
    {<<a, Plain, b, c>> :
       a \in Situations(1) \cup {[Plain EXCEPT !.outcome = Ties(1)]},
       b \in Situations(3) \cup {Plain},
       c \in {[Plain EXCEPT !.required = {"latex_project", "compiled_pdf"}],
              [Plain EXCEPT !.supports = "no"],
              [Plain EXCEPT !.outcome = Ties(4)],
              [Plain EXCEPT !.registered = "unsupported"]}}

\* The context: a LaTeX project with or without a bibliography and a PDF, or a
\* single PDF.
Contexts ==
    {[canceled |-> x, parallel |-> p, mode |-> IF p THEN "strict" ELSE m,
      failClosed |-> c, latex |-> l, bib |-> FALSE,
      bibExpected |-> l /\ ~p, pdf |-> ~l, metrics |-> ~l] :
        x \in {FALSE}, p \in BOOLEAN, m \in Modes, c \in BOOLEAN, l \in BOOLEAN}
    \cup {[canceled |-> TRUE, parallel |-> TRUE, mode |-> "strict",
           failClosed |-> FALSE, latex |-> TRUE, bib |-> TRUE,
           bibExpected |-> TRUE, pdf |-> TRUE, metrics |-> TRUE]}

With(c, s) ==
    [canceled |-> c.canceled, parallel |-> c.parallel, mode |-> c.mode,
     failClosed |-> c.failClosed, latex |-> c.latex, bib |-> c.bib,
     bibExpected |-> c.bibExpected, pdf |-> c.pdf, metrics |-> c.metrics,
     situation |-> s]

MCAsk == {With(c, s) : c \in Contexts, s \in AllSituations}
=============================================================================
