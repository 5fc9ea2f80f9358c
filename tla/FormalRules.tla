----------------------------- MODULE FormalRules -----------------------------
(***************************************************************************)
(* What one formal rule answers: FormalEngine._evaluate_rule, the registry *)
(* it looks the rule up in and the sources of the execution context, as    *)
(* functions of the question asked.  A rule is its index in the rubric.    *)
(*                                                                         *)
(* A question is one call of FormalEngine.run: the context, and for each   *)
(* rule the situation the engine meets it in.  What an implementation      *)
(* looks at is not modelled here, only that it answers or raises.          *)
(***************************************************************************)
EXTENDS Gate, Sequences, FiniteSets, Naturals

CONSTANTS
    Size,         \* number of rules in the rubric
    Capabilities, \* [1 .. Size -> sets of capabilities]
    Disabled,     \* the rules a profile switches off
    Severity      \* [1 .. Size -> Severities]

Capability == {"class", "script", "llm", "vision"}

ASSUME RubricAssumption ==
    /\ Size \in Nat /\ Disabled \subseteq 1 .. Size
    /\ Capabilities \in [1 .. Size -> (SUBSET Capability) \ {{}}]
    /\ Severity \in [1 .. Size -> Severities]

\* The place of a finding and the fingerprint of its JSON, by their rank.
FormalFinding == [id : 1 .. Size, layer : Layers, severity : Severities,
                  status : Statuses, approval : BOOLEAN,
                  locator : Nat, print : Nat]

SourceKinds == {"latex_project", "bib_files", "pdf", "compiled_pdf"}

\* Registry, required_sources, supports(), and what run() returns or raises.
Situation == [registered : {"no", "unsupported", "implemented"},
              required : SUBSET SourceKinds,
              supports : {"yes", "no", "raises"},
              raises : BOOLEAN, outcome : Seq(FormalFinding)]

\* pdf: the input or the compiled PDF is on disk; metrics: its text is at hand.
Question == [canceled : BOOLEAN, parallel : BOOLEAN, mode : Modes,
             failClosed : BOOLEAN, latex : BOOLEAN, bib : BOOLEAN,
             bibExpected : BOOLEAN, pdf : BOOLEAN, metrics : BOOLEAN,
             situation : [1 .. Size -> Situation]]

-----------------------------------------------------------------------------
\* rule.enabled and _rule_has_formal_capability
FormalIndices == {i \in 1 .. Size :
    i \notin Disabled /\ Capabilities[i] \cap {"class", "script"} # {}}

\* primary_formal_layer
PrimaryLayer(i) ==
    IF {"class", "script"} \subseteq Capabilities[i] THEN "class+script"
    ELSE IF "class" \in Capabilities[i] THEN "class" ELSE "script"

HasSource(q, kind) ==
    \/ kind = "latex_project" /\ q.latex
    \/ kind = "bib_files" /\ q.bib
    \/ kind = "pdf" /\ (q.pdf \/ q.metrics)
    \/ kind = "compiled_pdf" /\ q.pdf

MissingSources(q, required) == {kind \in required : ~HasSource(q, kind)}

MakeFinding(i, severity, status) ==
    [id |-> i, layer |-> PrimaryLayer(i), severity |-> severity,
     status |-> status, approval |-> FALSE, locator |-> 0, print |-> 0]

\* Faulty variant: a rule that raises is an error of the thesis.
BlamesTheThesis(q, i) == MakeFinding(i, "error", "fail")

ToolErrorFinding(q, i) ==
    IF q.failClosed THEN MakeFinding(i, "error", "fail")
                    ELSE MakeFinding(i, "warn", "unverifiable")

\* The findings _evaluate_rule returns; each test stands after the ones above.
EvaluateRule(q, i) ==
    LET s == q.situation[i]
        missing == MissingSources(q, s.required)
    IN
    IF s.registered # "implemented"
      THEN <<MakeFinding(i, Severity[i], "unverifiable")>>
    ELSE IF missing = {"bib_files"} /\ q.latex /\ ~(q.bib \/ q.bibExpected)
      THEN <<MakeFinding(i, Severity[i], "not_applicable")>>
    ELSE IF missing # {} THEN <<MakeFinding(i, Severity[i], "unverifiable")>>
    ELSE IF s.supports = "no"
      THEN <<MakeFinding(i, Severity[i], "not_applicable")>>
    ELSE IF s.raises THEN <<ToolErrorFinding(q, i)>>
    ELSE s.outcome

\* supports() is called outside the try: what it raises leaves _evaluate_rule.
EvaluationRaises(q, i) ==
    LET s == q.situation[i] IN
    /\ s.registered = "implemented" /\ MissingSources(q, s.required) = {}
    /\ s.supports = "raises"

\* The exception run() caught: the implementation was reached and raised.
Crashed(q, i) ==
    LET s == q.situation[i] IN
    /\ s.registered = "implemented" /\ MissingSources(q, s.required) = {}
    /\ s.supports = "yes" /\ s.raises

\* The findings of rule i, each named by its rule and its place in the tuple.
ItemsOfRule(q, i) == {<<i, k>> : k \in 1 .. Len(EvaluateRule(q, i))}
Items(q) == UNION {ItemsOfRule(q, i) : i \in FormalIndices}
Found(q, x) == EvaluateRule(q, x[1])[x[2]]
=============================================================================
