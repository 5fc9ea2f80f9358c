------------------------ MODULE SemanticEngineProofs -------------------------
(***************************************************************************)
(* What a report of the semantic stage says, for any rules, any endpoint   *)
(* and any retry policy.                                                   *)
(***************************************************************************)
EXTENDS SemanticEngine, SequenceTheorems, TLAPS

IInv == ReportSoFar /\ VerdictsAreGrounded /\ RetryWithinBudget

(* The findings reported so far                                            *)

\* What the properties ask of finding number n.
Grounded(n, f, answers) ==
    IF f.diagnostic = "none"
      THEN \E a \in Answer :
             /\ <<n, a>> \in answers /\ a.status = f.status
             /\ a.rule /\ a.quotes = "exact"
             /\ a.status \in {"pass", "warn", "info"} => a.elements = "all"
      ELSE f.status \in {"unverifiable", "not_applicable"}

Explained(n, f) ==
    f.diagnostic = "provider_disabled" <=>
        provider = "disabled" /\ n \in Specified \ NoSection

\* A report of the rule at hand goes to the end of the list, and keeps every
\* property of the list if the finding has it.
LEMMA ReportKeeps ==
  ASSUME TypeOK, OneFindingPerRule, ReasonIsTheLastOne, VerdictsAreGrounded,
         rule \in 1 .. Size, provider' = provider,
         NEW status \in SemanticStatus, NEW code \in Diagnostic,
         Report(status, code), accepted \subseteq accepted',
         Grounded(rule, [rule |-> rule, status |-> status, diagnostic |-> code],
                  accepted'),
         Explained(rule, [rule |-> rule, status |-> status, diagnostic |-> code])
  PROVE  /\ findings' \in Seq(SemanticFinding)
         /\ rule' \in 1 .. Size + 1
         /\ OneFindingPerRule' /\ ReasonIsTheLastOne' /\ VerdictsAreGrounded'
<1> DEFINE f == [rule |-> rule, status |-> status, diagnostic |-> code]
<1>1. Size \in Nat
  BY SemanticAssumption
<1>2. f \in SemanticFinding
  BY DEF SemanticFinding
<1>3. findings \in Seq(SemanticFinding) /\ findings' = Append(findings, f)
      /\ rule' = rule + 1
  BY DEF TypeOK, Report
<1>4. /\ findings' \in Seq(SemanticFinding)
      /\ Len(findings') = Len(findings) + 1
      /\ \A n \in 1 .. Len(findings) : findings'[n] = findings[n]
      /\ findings'[Len(findings) + 1] = f
  BY <1>2, <1>3, AppendProperties
<1>5. Len(findings) = rule - 1 /\ Len(findings) \in Nat
  BY <1>3, LenProperties DEF OneFindingPerRule
<1>6. \A n \in 1 .. Len(findings') : n \in 1 .. Len(findings) \/ n = rule
  BY <1>1, <1>4, <1>5
<1>7. findings'[rule] = f
  BY <1>1, <1>4, <1>5
<1>8. OneFindingPerRule'
  <2>1. Len(findings') = rule' - 1
    BY <1>1, <1>3, <1>4, <1>5
  <2>2. ASSUME NEW n \in 1 .. Len(findings') PROVE findings'[n].rule = n
    BY <1>4, <1>6, <1>7 DEF OneFindingPerRule
  <2>3. QED
    BY <2>1, <2>2 DEF OneFindingPerRule
<1>9. ReasonIsTheLastOne'
  <2>1. ASSUME NEW n \in 1 .. Len(findings') PROVE Explained(n, findings'[n])
    <3>1. CASE n \in 1 .. Len(findings)
      BY <3>1, <1>4 DEF ReasonIsTheLastOne, Explained
    <3>2. CASE n = rule
      BY <3>2, <1>7
    <3>3. QED
      BY <3>1, <3>2, <1>6
  <2>2. QED
    BY <2>1 DEF ReasonIsTheLastOne, Explained
<1>10. VerdictsAreGrounded'
  <2>1. ASSUME NEW n \in 1 .. Len(findings')
        PROVE  Grounded(n, findings'[n], accepted')
    <3>1. CASE n \in 1 .. Len(findings)
      <4>1. Grounded(n, findings[n], accepted)
        BY <3>1 DEF VerdictsAreGrounded, Grounded
      <4>2. Grounded(n, findings[n], accepted')
        BY <4>1 DEF Grounded
      <4>3. QED
        BY <3>1, <4>2, <1>4
    <3>2. CASE n = rule
      BY <3>2, <1>7
    <3>3. QED
      BY <3>1, <3>2, <1>6
  <2>2. QED
    BY <2>1 DEF VerdictsAreGrounded, Grounded
<1>11. rule' \in 1 .. Size + 1
  BY <1>1, <1>3
<1>12. QED
  BY <1>4, <1>8, <1>9, <1>10, <1>11

\* Steps that report nothing leave what is said of the report alone.
LEMMA SilentStepKeeps ==
  ASSUME OneFindingPerRule, ReasonIsTheLastOne, VerdictsAreGrounded,
         UNCHANGED <<provider, rule, findings, accepted>>
  PROVE  OneFindingPerRule' /\ ReasonIsTheLastOne' /\ VerdictsAreGrounded'
BY DEF OneFindingPerRule, ReasonIsTheLastOne, VerdictsAreGrounded

\* report.json keeps every finding the model could not judge.
LEMMA Visible ==
  ASSUME TypeOK, OneFindingPerRule
  PROVE  FailureIsVisible
<1> SUFFICES ASSUME NEW n \in 1 .. Len(findings),
                    findings[n].status = "unverifiable"
             PROVE  \E f \in PublishedFindings(Domain) :
                      f.id = n /\ f.status = "unverifiable"
  BY DEF FailureIsVisible
<1>1. findings[n].rule = n
  BY DEF OneFindingPerRule
<1>2. ToDomain(findings[n]) \in Domain
  BY DEF Domain
<1>3. /\ ToDomain(findings[n]).id = n
      /\ ToDomain(findings[n]).status = "unverifiable"
  BY <1>1 DEF ToDomain
<1>4. QED
  BY <1>2, <1>3 DEF PublishedFindings

-----------------------------------------------------------------------------
(* The steps                                                               *)

LEMMA InitInv == Init => IInv
<1> SUFFICES ASSUME Init PROVE IInv
  OBVIOUS
<1> USE SemanticAssumption DEF Init
<1>1. TypeOK
  <2>1. findings \in Seq(SemanticFinding)
    OBVIOUS
  <2>2. /\ rule \in 1 .. Size + 1 /\ attempt \in 0 .. 2
        /\ tries \in 0 .. MaxAttempts /\ elapsed \in Nat
    OBVIOUS
  <2>3. held \in BOOLEAN /\ diagnostic \in Diagnostic
    BY Zenon DEF Diagnostic
  <2>4. accepted \subseteq (1 .. Size) \X Answer
    OBVIOUS
  <2>5. failure \in Failure \cup {"none"}
    OBVIOUS
  <2>6. QED
    BY <2>1, <2>2, <2>3, <2>4, <2>5 DEF TypeOK
<1>2. StepInOrder
  BY DEF StepInOrder
<1>3. OneFindingPerRule /\ ReasonIsTheLastOne /\ VerdictsAreGrounded
  <2>1. Len(findings) = 0
    OBVIOUS
  <2>2. QED
    BY <2>1 DEF OneFindingPerRule, ReasonIsTheLastOne, VerdictsAreGrounded
<1>4. RetryWithinBudget
  BY DEF RetryWithinBudget
<1>5. QED
  BY <1>1, <1>2, <1>3, <1>4, Visible DEF IInv, ReportSoFar

\* A wait is a number, whatever the server asked for.
LEMMA WaitsType == ASSUME NEW f \in Failure, NEW w \in Waits(f) PROVE w \in Nat
BY SemanticAssumption DEF Waits

LEMMA StepKeepsInv ==
  ASSUME IInv, Step PROVE IInv'
<1> USE SemanticAssumption DEF IInv, ReportSoFar
<1>0. rule \in Nat /\ Size \in Nat
  BY DEF TypeOK
<1>1. ASSUME NothingToAsk PROVE IInv'
  <2> DEFINE Says(code) == /\ Report("not_applicable", code)
                           /\ code # "none" /\ code # "provider_disabled"
                           /\ rule \notin Specified \ NoSection
                           /\ code \in Diagnostic
  <2>1. PICK code : Says(code)
    BY <1>1 DEF NothingToAsk, Diagnostic
  <2>2. UNCHANGED <<provider, http, accepted>> /\ rule \in 1 .. Size
    BY <1>1, <1>0 DEF NothingToAsk, TypeOK
  <2> DEFINE f == [rule |-> rule, status |-> "not_applicable", diagnostic |-> code]
  <2>3. Grounded(rule, f, accepted') /\ Explained(rule, f)
    BY <2>1 DEF Grounded, Explained
  <2>4. /\ findings' \in Seq(SemanticFinding) /\ rule' \in 1 .. Size + 1
        /\ OneFindingPerRule' /\ ReasonIsTheLastOne' /\ VerdictsAreGrounded'
    BY <2>1, <2>2, <2>3, ReportKeeps DEF SemanticStatus
  <2>5. TypeOK'
    BY <2>1, <2>2, <2>4 DEF TypeOK, Report, http, Diagnostic
  <2>6. StepInOrder'
    BY <1>1, <2>1, <2>2 DEF StepInOrder, Report, http, NothingToAsk
  <2>7. RetryWithinBudget'
    BY <2>1 DEF RetryWithinBudget, Report
  <2>8. FailureIsVisible'
    BY <2>4, <2>5, Visible, PTL
  <2>9. QED
    BY <2>4, <2>5, <2>6, <2>7, <2>8
<1>2. ASSUME UNCHANGED <<provider, rule, findings, accepted>>,
             TypeOK', StepInOrder', RetryWithinBudget'
      PROVE  IInv'
  <2>1. OneFindingPerRule' /\ ReasonIsTheLastOne' /\ VerdictsAreGrounded'
    BY <1>2, SilentStepKeeps
  <2>2. FailureIsVisible'
    BY <1>2, <2>1, Visible, PTL
  <2>3. QED
    BY <1>2, <2>1, <2>2
<1>3. ASSUME Ask PROVE IInv'
  <2>1. TypeOK'
    BY <1>3 DEF Ask, TypeOK, http
  <2>2. StepInOrder'
    BY <1>3 DEF Ask, StepInOrder, http
  <2>3. RetryWithinBudget'
    BY <1>3 DEF Ask, RetryWithinBudget
  <2>4. QED
    BY <1>2, <1>3, <2>1, <2>2, <2>3 DEF Ask
<1>4. ASSUME Request PROVE IInv'
  <2>1. pc = "request" /\ attempt' = attempt + 1 /\ tries' = 0 /\ elapsed' = 0
        /\ failure' = "none"
        /\ UNCHANGED <<provider, rule, diagnostic, findings, accepted>>
    BY <1>4 DEF Request
  <2>2. attempt < 2 /\ rule \in Specified \ NoSection /\ diagnostic # "none"
        /\ (provider # "disabled" => diagnostic # "provider_disabled")
    BY <2>1 DEF StepInOrder
  <2>3. \/ provider = "disabled" /\ pc' = "unavailable" /\ held' = FALSE
        \/ provider # "disabled" /\ pc' = "http" /\ held' = TRUE
    <3>1. held = (pc = "http")
      BY DEF StepInOrder
    <3>2. pc # "http"
      BY <2>1
    <3>3. held = FALSE
      BY <3>1, <3>2, Zenon
    <3>4. CASE provider = "disabled"
      BY <1>4, <3>3, <3>4, Zenon DEF Request
    <3>5. CASE provider # "disabled"
      BY <1>4, <3>5, Zenon DEF Request
    <3>6. QED
      BY <3>4, <3>5
  <2>4. held' \in BOOLEAN /\ held' = (pc' = "http")
    BY <2>3
  <2>5. TypeOK'
    BY <2>1, <2>2, <2>3, <2>4 DEF TypeOK
  <2>6. StepInOrder'
    <3>1. MaxAttempts > 0
      OBVIOUS
    <3>2. /\ pc' # "rule" /\ pc' # "request" /\ pc' # "giveUp"
          /\ rule' \in Specified \ NoSection /\ diagnostic' # "none"
          /\ (pc' = "http" => provider' # "disabled" /\ tries' < MaxAttempts)
          /\ IF provider' = "disabled" THEN pc' = "unavailable"
                                       ELSE diagnostic' # "provider_disabled"
      BY <2>1, <2>2, <2>3, <3>1
    <3>3. QED
      BY <2>4, <3>2, Zenon DEF StepInOrder
  <2>7. RetryWithinBudget'
    BY <2>1 DEF RetryWithinBudget
  <2>8. QED
    BY <1>2, <2>1, <2>5, <2>6, <2>7
<1>5. ASSUME Invalid PROVE IInv'
  <2>1. TypeOK'
    BY <1>5 DEF Invalid, TypeOK, http, Diagnostic
  <2>2. StepInOrder'
    BY <1>5 DEF Invalid, StepInOrder, TypeOK, http
  <2>3. RetryWithinBudget'
    BY <1>5 DEF Invalid, RetryWithinBudget
  <2>4. QED
    BY <1>2, <1>5, <2>1, <2>2, <2>3 DEF Invalid
<1>6. ASSUME Unavailable PROVE IInv'
  <2>1. TypeOK'
    BY <1>6 DEF Unavailable, TypeOK, http, Diagnostic
  <2>2. StepInOrder'
    BY <1>6 DEF Unavailable, StepInOrder, TypeOK, http
  <2>3. RetryWithinBudget'
    BY <1>6 DEF Unavailable, RetryWithinBudget
  <2>4. QED
    BY <1>2, <1>6, <2>1, <2>2, <2>3 DEF Unavailable
<1>7. ASSUME GiveUp PROVE IInv'
  <2>1. /\ Report("unverifiable", diagnostic) /\ pc = "giveUp"
        /\ UNCHANGED <<provider, http, accepted>>
    BY <1>7 DEF GiveUp
  <2>2. rule \in Specified \ NoSection /\ rule \in 1 .. Size
    BY <2>1 DEF StepInOrder
  <2> DEFINE f == [rule |-> rule, status |-> "unverifiable", diagnostic |-> diagnostic]
  <2>3. Grounded(rule, f, accepted') /\ Explained(rule, f)
    BY <2>1, <2>2 DEF Grounded, Explained, StepInOrder
  <2>4. /\ findings' \in Seq(SemanticFinding) /\ rule' \in 1 .. Size + 1
        /\ OneFindingPerRule' /\ ReasonIsTheLastOne' /\ VerdictsAreGrounded'
    <3>1. diagnostic \in Diagnostic /\ "unverifiable" \in SemanticStatus
      BY DEF TypeOK, SemanticStatus
    <3>2. QED
      BY <2>1, <2>2, <2>3, <3>1, ReportKeeps
  <2>5. TypeOK'
    BY <2>1, <2>4 DEF TypeOK, Report, http, Diagnostic
  <2>6. StepInOrder'
    BY <2>1 DEF StepInOrder, Report, http
  <2>7. RetryWithinBudget'
    BY <2>1 DEF RetryWithinBudget, Report
  <2>8. FailureIsVisible'
    BY <2>4, <2>5, Visible, PTL
  <2>9. QED
    BY <2>4, <2>5, <2>6, <2>7, <2>8
<1>8. QED
  BY <1>1, <1>3, <1>4, <1>5, <1>6, <1>7 DEF Step

\* A failed attempt is followed by another only before MaxElapsed.
LEMMA AttemptFailsKeepsInv ==
  ASSUME IInv, NEW f \in Failure, NEW d \in Durations, NEW w \in Waits(f),
         AttemptFails(f, d, w)
  PROVE  IInv'
<1> USE SemanticAssumption DEF IInv, ReportSoFar
<1> DEFINE Again == IsRetryable(f) /\ ~StopRetrying(tries + 1, elapsed + d, w)
<1>1. pc = "http" /\ tries' = tries + 1 /\ failure' = f
      /\ UNCHANGED <<provider, rule, attempt, diagnostic, findings, accepted>>
  BY DEF AttemptFails
<1>2. /\ provider # "disabled" /\ tries < MaxAttempts /\ diagnostic # "none"
      /\ diagnostic # "provider_disabled" /\ rule \in Specified \ NoSection
  BY <1>1 DEF StepInOrder
<1>3. w \in Nat /\ d \in Nat /\ tries \in Nat /\ elapsed \in Nat
  BY WaitsType DEF TypeOK
<1>4. \/ /\ Again /\ elapsed' = elapsed + d + w /\ pc' = "http" /\ held' = TRUE
      \/ /\ elapsed' = elapsed + d /\ held' = FALSE
         /\ pc' \in {"invalid", "unavailable"}
  <2>1. held = TRUE
    BY <1>1, Zenon DEF StepInOrder
  <2>2. CASE Again
    BY <1>1, <2>1, <2>2, Zenon DEF AttemptFails
  <2>3. CASE ~Again
    <3>1. /\ elapsed' = elapsed + d /\ held' = FALSE
          /\ pc' = IF f = "http400" THEN "invalid" ELSE "unavailable"
      BY <2>3, Zenon DEF AttemptFails
    <3>2. QED
      BY <3>1
  <2>4. QED
    BY <2>2, <2>3
<1>5. Again => /\ tries + 1 < MaxAttempts /\ elapsed + d + w < MaxElapsed
               /\ f \in {"timeout", "http429", "http5xx"}
  BY <1>3 DEF IsRetryable, StopRetrying
<1>6. held' \in BOOLEAN /\ held' = (pc' = "http")
  BY <1>4
<1>7. TypeOK'
  BY <1>1, <1>2, <1>3, <1>4, <1>6 DEF TypeOK
<1>8. StepInOrder'
  <2>1. /\ pc' # "rule" /\ pc' # "request" /\ pc' # "giveUp"
        /\ rule' \in Specified \ NoSection /\ diagnostic' # "none"
        /\ provider' # "disabled" /\ diagnostic' # "provider_disabled"
    BY <1>1, <1>2, <1>4
  <2>2. pc' = "http" => tries' < MaxAttempts
    BY <1>1, <1>3, <1>4, <1>5
  <2>3. QED
    BY <1>6, <2>1, <2>2, Zenon DEF StepInOrder
<1>9. RetryWithinBudget'
  BY <1>1, <1>3, <1>4, <1>5 DEF RetryWithinBudget
<1>10. OneFindingPerRule' /\ ReasonIsTheLastOne' /\ VerdictsAreGrounded'
  BY <1>1, SilentStepKeeps
<1>11. FailureIsVisible'
  BY <1>7, <1>10, Visible, PTL
<1>12. QED
  BY <1>7, <1>8, <1>9, <1>10, <1>11

\* An answer becomes a finding only with its rule, its elements and exact quotes.
LEMMA AttemptSucceedsKeepsInv ==
  ASSUME IInv, NEW a \in Answer \cup {Malformed}, NEW d \in Durations,
         AttemptSucceeds(a, d)
  PROVE  IInv'
<1> USE SemanticAssumption DEF IInv, ReportSoFar
<1> DEFINE c == Canonical(rule, a)
<1>1. pc = "http" /\ tries' = tries + 1 /\ elapsed' = elapsed + d
      /\ held' = FALSE /\ UNCHANGED <<provider, failure>>
  BY DEF AttemptSucceeds
<1>2. /\ provider # "disabled" /\ tries < MaxAttempts /\ diagnostic # "none"
      /\ diagnostic # "provider_disabled" /\ rule \in Specified \ NoSection
  BY <1>1 DEF StepInOrder
<1>3. elapsed + d \in Nat /\ tries + 1 \in 0 .. MaxAttempts /\ rule \in 1 .. Size
  BY <1>2 DEF TypeOK
<1>4. ValidForBatch(c) => c \in Answer
  <2>1. CASE a \in Answer
    BY <2>1 DEF Answer, Canonical
  <2>2. CASE a = Malformed
    BY <2>2 DEF Malformed, Canonical, ValidForBatch
  <2>3. QED
    BY <2>1, <2>2
<1>5. CASE ~ValidForBatch(c)
  <2>1. pc' = "invalid" /\ UNCHANGED <<rule, attempt, diagnostic, findings, accepted>>
    BY <1>5 DEF AttemptSucceeds
  <2>2. TypeOK'
    BY <1>1, <1>3, <2>1 DEF TypeOK
  <2>3. StepInOrder'
    BY <1>1, <1>2, <2>1 DEF StepInOrder
  <2>4. RetryWithinBudget'
    BY <2>1 DEF RetryWithinBudget
  <2>5. OneFindingPerRule' /\ ReasonIsTheLastOne' /\ VerdictsAreGrounded'
    BY <1>1, <2>1, SilentStepKeeps
  <2>6. FailureIsVisible'
    BY <2>2, <2>5, Visible, PTL
  <2>7. QED
    BY <2>2, <2>3, <2>4, <2>5, <2>6
<1>6. CASE ValidForBatch(c) /\ ~EvidenceValid(c)
  <2>1. /\ pc' = IF attempt < 2 THEN "request" ELSE "giveUp"
        /\ diagnostic' = "invalid_evidence"
        /\ UNCHANGED <<rule, attempt, findings, accepted>>
    BY <1>6 DEF AttemptSucceeds
  <2>2. TypeOK'
    BY <1>1, <1>3, <2>1 DEF TypeOK, Diagnostic
  <2>3. StepInOrder'
    BY <1>1, <1>2, <2>1 DEF StepInOrder
  <2>4. RetryWithinBudget'
    BY <2>1 DEF RetryWithinBudget
  <2>5. OneFindingPerRule' /\ ReasonIsTheLastOne' /\ VerdictsAreGrounded'
    BY <1>1, <2>1, SilentStepKeeps
  <2>6. FailureIsVisible'
    BY <2>2, <2>5, Visible, PTL
  <2>7. QED
    BY <2>2, <2>3, <2>4, <2>5, <2>6
<1>7. CASE ValidForBatch(c) /\ EvidenceValid(c)
  <2>1. Report(c.status, "none") /\ accepted' = accepted \cup {<<rule, c>>}
    BY <1>7 DEF AttemptSucceeds
  <2>2. c \in Answer /\ c.status \in SemanticStatus
    BY <1>4, <1>7 DEF Answer
  <2> DEFINE f == [rule |-> rule, status |-> c.status, diagnostic |-> "none"]
  <2>3. Grounded(rule, f, accepted')
    BY <1>7, <2>1, <2>2 DEF Grounded, ValidForBatch, EvidenceValid
  <2>4. Explained(rule, f)
    BY <1>2 DEF Explained
  <2>5. /\ findings' \in Seq(SemanticFinding) /\ rule' \in 1 .. Size + 1
        /\ OneFindingPerRule' /\ ReasonIsTheLastOne' /\ VerdictsAreGrounded'
    <3>1. accepted \subseteq accepted' /\ "none" \in Diagnostic
      BY <2>1 DEF Diagnostic
    <3>2. QED
      BY <1>1, <1>3, <2>1, <2>2, <2>3, <2>4, <3>1, ReportKeeps
  <2>6. TypeOK'
    <3>1. accepted' \subseteq (1 .. Size) \X Answer
      BY <1>3, <2>1, <2>2 DEF TypeOK
    <3>2. /\ pc' = "rule" /\ attempt' = 0 /\ diagnostic' \in Diagnostic
          /\ provider' \in {"local", "cloud", "disabled"}
          /\ failure' \in Failure \cup {"none"}
      BY <1>1, <2>1 DEF TypeOK, Report, Diagnostic
    <3>3. tries' \in 0 .. MaxAttempts /\ elapsed' \in Nat
      BY <1>1, <1>3
    <3>4. held' \in BOOLEAN
      BY <1>1
    <3>5. QED
      BY <2>5, <3>1, <3>2, <3>3, <3>4 DEF TypeOK
  <2>7. StepInOrder'
    BY <1>1, <1>2, <2>1 DEF StepInOrder, Report
  <2>8. RetryWithinBudget'
    BY <2>1 DEF RetryWithinBudget, Report
  <2>9. FailureIsVisible'
    BY <2>5, <2>6, Visible, PTL
  <2>10. QED
    BY <2>5, <2>6, <2>7, <2>8, <2>9
<1>8. QED
  BY <1>5, <1>6, <1>7

-----------------------------------------------------------------------------
(* The theorems                                                            *)

\* For any rules, any endpoint and any retry policy: a finding for each rule so
\* far, in order, with the reason it deserves and none of the failures hidden;
\* verdicts from grounded answers; retries within the budget.  The places of
\* SemanticEngine._evaluate and call_with_retry (StepInOrder) carry it.
THEOREM IInvariant == Spec => []IInv
<1>1. Init => IInv
  BY InitInv
<1>2. IInv /\ [Next]_vars => IInv'
  <2> SUFFICES ASSUME IInv, [Next]_vars PROVE IInv'
    OBVIOUS
  <2>1. CASE Step
    BY <2>1, StepKeepsInv
  <2>2. CASE Endpoint
    <3>1. PICK d \in Durations :
            \/ \E f \in Failure : \E w \in Waits(f) : AttemptFails(f, d, w)
            \/ \E a \in Answer \cup {Malformed} : AttemptSucceeds(a, d)
      BY <2>2 DEF Endpoint
    <3>2. CASE \E f \in Failure : \E w \in Waits(f) : AttemptFails(f, d, w)
      BY <3>2, AttemptFailsKeepsInv
    <3>3. CASE \E a \in Answer \cup {Malformed} : AttemptSucceeds(a, d)
      BY <3>3, AttemptSucceedsKeepsInv
    <3>4. QED
      BY <3>1, <3>2, <3>3
  <2>3. CASE UNCHANGED vars
    <3> USE <2>3 DEF vars, http
    <3>1. TypeOK' /\ StepInOrder'
      BY DEF IInv, ReportSoFar, TypeOK, StepInOrder
    <3>2. OneFindingPerRule' /\ ReasonIsTheLastOne'
      BY DEF IInv, ReportSoFar, OneFindingPerRule, ReasonIsTheLastOne
    <3>3. FailureIsVisible'
      BY DEF IInv, ReportSoFar, FailureIsVisible, Domain, ToDomain, PublishedFindings
    <3>4. VerdictsAreGrounded' /\ RetryWithinBudget'
      BY DEF IInv, VerdictsAreGrounded, RetryWithinBudget
    <3>5. QED
      BY <3>1, <3>2, <3>3, <3>4 DEF IInv, ReportSoFar
  <2>4. QED
    BY <2>1, <2>2, <2>3 DEF Next, Done
<1>3. QED
  BY <1>1, <1>2, PTL DEF Spec

\* One rule that fails takes no other with it, and every failure is explained
\* and visible (SemanticEngine.run).
THEOREM ReportIsComplete == Spec => []ReportSoFar
<1>1. IInv => ReportSoFar
  BY DEF IInv
<1>2. QED
  BY <1>1, IInvariant, PTL

\* What the model invents never becomes a verdict (EvidenceVerifier.verify and
\* _validate_response_for_batch).
THEOREM VerdictsGrounded == Spec => []VerdictsAreGrounded
<1>1. IInv => VerdictsAreGrounded
  BY DEF IInv
<1>2. QED
  BY <1>1, IInvariant, PTL

\* For any policy and any Retry-After, a retry begins within the time budget and
\* after a transient failure (call_with_retry).
THEOREM RetriesInBudget == Spec => []RetryWithinBudget
<1>1. IInv => RetryWithinBudget
  BY DEF IInv
<1>2. QED
  BY <1>1, IInvariant, PTL
=============================================================================
