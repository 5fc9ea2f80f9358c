--------------------------- MODULE SemanticEngine ----------------------------
(***************************************************************************)
(* SemanticEngine.run: the semantic rules in order, for each at most two   *)
(* requests to the language model, and inside each request the HTTP        *)
(* attempts of call_with_retry.  The endpoint is the environment: every    *)
(* attempt may time out, fail, be refused or be answered by anything that  *)
(* the response schema lets through, and takes any of the Durations.       *)
(***************************************************************************)
EXTENDS Gate, Sequences, Integers

CONSTANTS
    Size,         \* number of semantic rules selected, in sorted order
    Specified,    \* the rules RULE_SPECS has a specification for
    NoSection,    \* the rules whose batch is empty or misses a required role
    Numbered,     \* the rules with eight elements or more (index names)
    MaxElapsed, MaxAttempts, Maximum,    \* RetryPolicy
    Durations,    \* how long an HTTP attempt may take
    RetryAfter    \* values of the Retry-After header; -1: none, or unreadable

ASSUME SemanticAssumption ==
    /\ Size \in Nat /\ Specified \subseteq 1 .. Size
    /\ NoSection \subseteq 1 .. Size /\ Numbered \subseteq 1 .. Size
    /\ MaxElapsed \in Nat /\ MaxAttempts \in Nat \ {0} /\ Maximum \in Nat \ {0}
    /\ Durations \subseteq Nat /\ RetryAfter \subseteq Nat \cup {-1}

SemanticStatus == {"pass", "warn", "info", "not_applicable", "unverifiable"}
Diagnostic == {"none", "not_implemented", "section_missing", "provider_disabled",
               "provider_error", "provider_timeout", "invalid_schema",
               "invalid_evidence"}

\* What an HTTP attempt comes to: an answer or an exception.
Failure == {"timeout", "connection", "http4xx", "http400", "http429", "http5xx"}

\* An answer the response schema accepts: whether it names the rule asked for;
\* its elements, by their names, by their indices, not all of them, or none; and
\* its quotes: none that is not exact and of an allowed chunk (an answer that
\* quotes nothing is "exact" as well), or one that is.
Answer == [rule : BOOLEAN, status : SemanticStatus,
           elements : {"all", "indices", "some", "none"},
           quotes : {"exact", "absent", "foreign", "repeated"}]

\* A refusal, a stream, a truncated, empty or malformed answer.
Malformed == [rule |-> FALSE, status |-> "info", elements |-> "none",
              quotes |-> "absent"]

SemanticFinding == [rule : 1 .. Size, status : SemanticStatus,
                    diagnostic : Diagnostic]

VARIABLES
    provider,     \* "local", "cloud" or "disabled"
    pc,           \* next step
    rule,         \* the rule at hand
    attempt,      \* requests for this rule so far: 0, 1, 2
    tries,        \* HTTP attempts of this request so far
    elapsed,      \* time since its first attempt began
    failure,      \* the last exception of this request, or "none"
    diagnostic,   \* local variable of _evaluate
    held,         \* the semaphore of the provider, max_concurrency = 1
    findings,     \* the findings so far
    accepted      \* history: the answers that became findings

http == <<tries, elapsed, failure, held>>
vars == <<provider, pc, rule, attempt, http, diagnostic, findings, accepted>>

Init ==
    /\ provider \in {"local", "cloud", "disabled"}
    /\ pc = "rule" /\ rule = 1 /\ attempt = 0
    /\ tries = 0 /\ elapsed = 0 /\ failure = "none" /\ held = FALSE
    /\ diagnostic = "invalid_schema"
    /\ findings = <<>> /\ accepted = {}

-----------------------------------------------------------------------------
(* SemanticEngine.run                                                      *)

\* A finding for the rule at hand, and on to the next one.
Report(status, code) ==
    /\ findings' = Append(findings,
         [rule |-> rule, status |-> status, diagnostic |-> code])
    /\ rule' = rule + 1 /\ attempt' = 0 /\ diagnostic' = "invalid_schema"
    /\ pc' = "rule"

\* _not_implemented, or section_missing without a request.
NothingToAsk ==
    /\ pc = "rule" /\ rule <= Size
    /\ \/ rule \notin Specified /\ Report("not_applicable", "not_implemented")
       \/ /\ rule \in Specified /\ rule \in NoSection
          /\ Report("not_applicable", "section_missing")
    /\ UNCHANGED <<provider, http, accepted>>

Ask ==
    /\ pc = "rule" /\ rule <= Size
    /\ rule \in Specified \ NoSection
    /\ pc' = "request"
    /\ UNCHANGED <<provider, rule, attempt, http, diagnostic, findings, accepted>>

-----------------------------------------------------------------------------
(* LlmProvider.request and call_with_retry                                 *)

\* Enters the semaphore; the disabled provider raises at once.
Request ==
    /\ pc = "request"
    /\ attempt' = attempt + 1
    /\ IF provider = "disabled"
         THEN pc' = "unavailable" /\ UNCHANGED held
         ELSE ~held /\ held' = TRUE /\ pc' = "http"
    /\ tries' = 0 /\ elapsed' = 0 /\ failure' = "none"
    /\ UNCHANGED <<provider, rule, diagnostic, findings, accepted>>

\* is_retryable: timeouts, 429 and 5xx; a refused connection is not.
IsRetryable(f) == f \in {"timeout", "http429", "http5xx"}

\* wait: Retry-After, capped by the budget, or exponential with jitter.
Waits(f) ==
    IF f \in {"http429", "http5xx"}
      THEN {IF r > MaxElapsed THEN MaxElapsed ELSE r : r \in RetryAfter \ {-1}}
           \cup (IF -1 \in RetryAfter THEN 1 .. Maximum ELSE {})
      ELSE 1 .. Maximum

\* Faulty variant: the sleep is not counted against the budget.
StopRetryingLate(n, time, wait) == n >= MaxAttempts \/ time >= MaxElapsed

\* stop_after_attempt | stop_before_delay, before the sleep.
StopRetrying(n, time, wait) == n >= MaxAttempts \/ time + wait >= MaxElapsed

\* An HTTP attempt that raises: sleep and try again, or leave the semaphore.
AttemptFails(f, duration, wait) ==
    /\ pc = "http" /\ tries' = tries + 1
    /\ failure' = f
    /\ IF IsRetryable(f) /\ ~StopRetrying(tries + 1, elapsed + duration, wait)
         THEN elapsed' = elapsed + duration + wait /\ UNCHANGED <<pc, held>>
         ELSE /\ elapsed' = elapsed + duration /\ held' = FALSE
              /\ pc' = IF f = "http400" THEN "invalid" ELSE "unavailable"
    /\ UNCHANGED <<provider, rule, attempt, diagnostic, findings, accepted>>

\* A rule whose wire names are indices gets its element names back.
Canonical(r, a) ==
    IF a.elements = "indices" /\ r \in Numbered
      THEN [a EXCEPT !.elements = "all"] ELSE a

\* Faulty variant: the elements are not compared with the specification.
ValidRuleOnly(a) == a.rule

\* _validate_response_for_batch
ValidForBatch(a) ==
    a.rule /\ (a.status \in {"pass", "warn", "info"} => a.elements = "all")

\* EvidenceVerifier.verify over the finding's and the elements' quotes.
EvidenceValid(a) == a.quotes = "exact"

\* An HTTP attempt that is answered; the answer is read after the semaphore.
AttemptSucceeds(a, duration) ==
    /\ pc = "http" /\ tries' = tries + 1
    /\ elapsed' = elapsed + duration /\ held' = FALSE
    /\ LET c == Canonical(rule, a) IN
       IF ~ValidForBatch(c) THEN
            /\ pc' = "invalid"
            /\ UNCHANGED <<rule, attempt, diagnostic, findings, accepted>>
       ELSE IF ~EvidenceValid(c) THEN
            /\ pc' = IF attempt < 2 THEN "request" ELSE "giveUp"
            /\ diagnostic' = "invalid_evidence"
            /\ UNCHANGED <<rule, attempt, findings, accepted>>
       ELSE Report(c.status, "none") /\ accepted' = accepted \cup {<<rule, c>>}
    /\ UNCHANGED <<provider, failure>>

-----------------------------------------------------------------------------
(* The except clauses of _evaluate                                         *)

\* Faulty variant: the repair begins the rule anew.
InvalidStartsOver ==
    /\ pc = "invalid"
    /\ diagnostic' = "invalid_schema"
    /\ pc' = "request" /\ attempt' = 0
    /\ UNCHANGED <<provider, rule, http, findings, accepted>>

\* LlmResponseError, ValidationError, TypeError, ValueError: once more.
Invalid ==
    /\ pc = "invalid"
    /\ diagnostic' = "invalid_schema"
    /\ pc' = IF attempt < 2 THEN "request" ELSE "giveUp"
    /\ UNCHANGED <<provider, rule, attempt, http, findings, accepted>>

\* Faulty variant: whatever is unavailable counts as a provider error.
UnavailableUnexplained ==
    /\ pc = "unavailable"
    /\ diagnostic' = "provider_error"
    /\ pc' = "giveUp"
    /\ UNCHANGED <<provider, rule, attempt, http, findings, accepted>>

\* LlmUnavailableError: no second request.
Unavailable ==
    /\ pc = "unavailable"
    /\ diagnostic' = IF provider = "disabled" THEN "provider_disabled"
                     ELSE IF failure = "timeout" THEN "provider_timeout"
                     ELSE "provider_error"
    /\ pc' = "giveUp"
    /\ UNCHANGED <<provider, rule, attempt, http, findings, accepted>>

GiveUp ==
    /\ pc = "giveUp"
    /\ Report("unverifiable", diagnostic)
    /\ UNCHANGED <<provider, http, accepted>>

Done == pc = "rule" /\ rule > Size /\ UNCHANGED vars

Step == NothingToAsk \/ Ask \/ Request \/ Invalid \/ Unavailable \/ GiveUp
Endpoint ==
    \E d \in Durations :
      \/ \E f \in Failure : \E w \in Waits(f) : AttemptFails(f, d, w)
      \/ \E a \in Answer \cup {Malformed} : AttemptSucceeds(a, d)

Next == Step \/ Endpoint \/ Done
Spec == Init /\ [][Next]_vars

\* The code goes on, and every HTTP attempt ends (httpx has timeouts).
FairSpec == Spec /\ WF_vars(Step) /\ WF_vars(Endpoint)

-----------------------------------------------------------------------------
(* What the pipeline makes of the findings                                 *)

\* semantic_finding_to_domain
ToDomain(f) ==
    LET status == IF f.status = "pass" THEN "info" ELSE f.status IN
    [id |-> f.rule, layer |-> "llm",
     severity |-> IF status = "warn" THEN "warn" ELSE "info",
     status |-> status, approval |-> FALSE]

Domain == {ToDomain(findings[n]) : n \in 1 .. Len(findings)}

-----------------------------------------------------------------------------
(* Properties                                                              *)

TypeOK ==
    /\ provider \in {"local", "cloud", "disabled"}
    /\ pc \in {"rule", "request", "http", "invalid", "unavailable", "giveUp"}
    /\ rule \in 1 .. Size + 1 /\ attempt \in 0 .. 2
    /\ tries \in 0 .. MaxAttempts /\ elapsed \in Nat
    /\ failure \in Failure \cup {"none"} /\ diagnostic \in Diagnostic
    /\ held \in BOOLEAN
    /\ findings \in Seq(SemanticFinding)
    /\ accepted \subseteq (1 .. Size) \X Answer

\* One rule that fails takes no other with it: the report has a finding for each
\* rule up to the one at hand, in order, once each.
OneFindingPerRule ==
    /\ Len(findings) = rule - 1
    /\ \A n \in 1 .. Len(findings) : findings[n].rule = n

\* A verdict (pass, warn, info) is published only from one answer to that rule
\* that quotes nothing but what its chunks say, if it quotes at all, and has every
\* element of its specification; a rule that was never answered so is
\* unverifiable with a reason.
VerdictsAreGrounded ==
    \A n \in 1 .. Len(findings) :
        IF findings[n].diagnostic = "none"
          THEN \E a \in Answer :
                 /\ <<n, a>> \in accepted /\ a.status = findings[n].status
                 /\ a.rule /\ a.quotes = "exact"
                 /\ a.status \in {"pass", "warn", "info"} =>
                      a.elements = "all"
          ELSE findings[n].status \in {"unverifiable", "not_applicable"}

\* The reason published is the one of the last request: a disabled provider is
\* never blamed on the network or on the answers, nor the other way round.
ReasonIsTheLastOne ==
    \A n \in 1 .. Len(findings) :
        findings[n].diagnostic = "provider_disabled" <=>
            provider = "disabled" /\ n \in Specified \ NoSection

\* Whatever the model could not judge stays visible in report.json.
FailureIsVisible ==
    \A n \in 1 .. Len(findings) :
        findings[n].status = "unverifiable" =>
            \E f \in PublishedFindings(Domain) : f.id = n /\ f.status = "unverifiable"

\* Where the engine stands says what can have happened: who is asked, how often,
\* who holds the semaphore, and which reason a rule would be given up for.
StepInOrder ==
    /\ pc = "rule" => attempt = 0
    /\ pc # "rule" => rule \in Specified \ NoSection
    /\ pc = "request" => attempt < 2
    /\ held = (pc = "http")
    /\ pc = "http" => provider # "disabled" /\ tries < MaxAttempts
    /\ diagnostic # "none"
    /\ IF provider = "disabled"
         THEN /\ pc \in {"rule", "request", "unavailable", "giveUp"}
              /\ pc = "giveUp" => diagnostic = "provider_disabled"
         ELSE diagnostic # "provider_disabled"

\* The report so far: a finding for each rule, with the reason it deserves, and
\* none of the failures hidden.
ReportSoFar ==
    /\ TypeOK /\ StepInOrder /\ OneFindingPerRule
    /\ ReasonIsTheLastOne /\ FailureIsVisible

\* A retry begins within the time budget and after a transient failure only,
\* however long the attempts took and whatever Retry-After asked for.
RetryWithinBudget ==
    pc = "http" /\ tries > 0 =>
        elapsed < MaxElapsed /\ failure \in {"timeout", "http429", "http5xx"}

\* Every run of the stage ends, with a finding for every rule.
EveryRuleAnswered == <>(rule > Size /\ Len(findings) = Size)
=============================================================================
