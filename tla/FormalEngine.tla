---------------------------- MODULE FormalEngine -----------------------------
(***************************************************************************)
(* FormalEngine.run step by step: the rules one after the other, or one    *)
(* thread of a pool for each (as many threads as rules) with the main      *)
(* thread taking the results as they come.  FormalVerdict is what it has   *)
(* to amount to.  Nothing bounds the time a rule takes: rule_timeout_s is  *)
(* an argument the code deletes.                                           *)
(***************************************************************************)
EXTENDS FormalRules

CONSTANT Ask     \* the questions asked

ASSUME AskAssumption == Ask \subseteq Question

VARIABLES
    question,    \* the arguments of the call
    pc,          \* the main thread
    job,         \* [FormalIndices -> state of that rule's evaluation]
    collected,   \* the list `collected`: the findings, as items
    answer       \* what the call returns or raises

vars == <<question, pc, job, collected, answer>>

Verdict == INSTANCE FormalVerdict

JobStates == {"waiting", "submitted", "finished", "taken"}

Init ==
    /\ question \in Ask
    /\ pc = "called"
    /\ job = [i \in FormalIndices |-> "waiting"]
    /\ collected = <<>>
    /\ answer = Verdict!NoAnswer

Begin ==
    /\ pc = "called"
    /\ IF question.canceled
         THEN pc' = "done" /\ answer' = Verdict!Refused /\ UNCHANGED job
         ELSE /\ pc' = "evaluate" /\ UNCHANGED answer
              /\ job' = [i \in FormalIndices |->
                           IF question.parallel THEN "submitted" ELSE "waiting"]
    /\ UNCHANGED <<question, collected>>

\* collected.extend(...): the tuple of rule i, in its own order.
Extend(i) ==
    collected' = collected \o
        [k \in 1 .. Len(EvaluateRule(question, i)) |-> <<i, k>>]

\* The comprehension of the sequential mode: the first rule not evaluated yet.
EvaluateNext(i) ==
    /\ pc = "evaluate" /\ ~question.parallel /\ job[i] = "waiting"
    /\ \A j \in FormalIndices : j < i => job[j] = "taken"
    /\ job' = [job EXCEPT ![i] = "taken"]
    /\ IF EvaluationRaises(question, i)
         THEN pc' = "done" /\ answer' = Verdict!Raised /\ UNCHANGED collected
         ELSE Extend(i) /\ UNCHANGED <<pc, answer>>
    /\ UNCHANGED question

\* A thread of the pool ends the evaluation of rule i.
Work(i) ==
    /\ job[i] = "submitted"
    /\ job' = [job EXCEPT ![i] = "finished"]
    /\ UNCHANGED <<question, pc, collected, answer>>

\* Faulty variant: a result that raises is passed over.
TakeQuietly(i) ==
    /\ pc = "evaluate" /\ job[i] = "finished"
    /\ job' = [job EXCEPT ![i] = "taken"]
    /\ IF EvaluationRaises(question, i) THEN UNCHANGED collected ELSE Extend(i)
    /\ UNCHANGED <<question, pc, answer>>

\* as_completed yields the future of rule i, and result() is called on it.
Take(i) ==
    /\ pc = "evaluate" /\ job[i] = "finished"
    /\ job' = [job EXCEPT ![i] = "taken"]
    /\ IF EvaluationRaises(question, i)
         THEN pc' = "leave" /\ UNCHANGED collected
         ELSE Extend(i) /\ UNCHANGED pc
    /\ UNCHANGED <<question, answer>>

\* Faulty variant: after an exception the rules are submitted again.
LeaveAndRetry ==
    /\ pc = "leave" /\ \A i \in FormalIndices : job[i] # "submitted"
    /\ pc' = "evaluate" /\ collected' = <<>>
    /\ job' = [i \in FormalIndices |-> "submitted"]
    /\ UNCHANGED <<question, answer>>

\* The exception leaves the with block, which waits for every thread first.
Leave ==
    /\ pc = "leave" /\ \A i \in FormalIndices : job[i] # "submitted"
    /\ pc' = "done" /\ answer' = Verdict!Raised
    /\ UNCHANGED <<question, job, collected>>

\* Faulty variant: the fingerprint is left out of the key.
SortKeyLessByPlace(q, x, y) ==
    \/ x[1] < y[1]
    \/ x[1] = y[1] /\ Found(q, x).locator < Found(q, y).locator

\* _sort_key: place in the rubric, first locator, fingerprint.
SortKeyLess(q, x, y) ==
    LET f == Found(q, x)
        g == Found(q, y)
    IN \/ x[1] < y[1]
       \/ x[1] = y[1] /\ f.locator < g.locator
       \/ x[1] = y[1] /\ f.locator = g.locator /\ f.print < g.print

\* sorted() is stable: what stands before place n of s is less, or equal and
\* left of it.
SortedBefore(q, s, m, n) ==
    \/ SortKeyLess(q, s[m], s[n])
    \/ ~SortKeyLess(q, s[n], s[m]) /\ m < n

SortFindings(q, s) ==
    [p \in 1 .. Len(s) |->
       Found(q, s[CHOOSE n \in 1 .. Len(s) :
           Cardinality({m \in 1 .. Len(s) : SortedBefore(q, s, m, n)}) = p - 1])]

Conclude ==
    /\ pc = "evaluate" /\ \A i \in FormalIndices : job[i] = "taken"
    /\ pc' = "done"
    /\ answer' = [kind |-> "result",
                  findings |-> SortFindings(question, collected),
                  exit |-> FormalExitCode(
                             {Found(question, collected[n]) :
                                n \in 1 .. Len(collected)}, question.mode)]
    /\ UNCHANGED <<question, job, collected>>

Main == \/ Begin \/ Leave \/ Conclude
        \/ \E i \in FormalIndices : EvaluateNext(i) \/ Take(i)

Done == pc = "done" /\ UNCHANGED vars

Next == Main \/ (\E i \in FormalIndices : Work(i)) \/ Done

Spec == Init /\ [][Next]_vars

\* The interpreter and the pool schedule every thread; evaluations end.
FairSpec == /\ Spec /\ WF_vars(Main)
            /\ \A i \in FormalIndices : WF_vars(Work(i))

-----------------------------------------------------------------------------
(* Properties                                                              *)

ItemsAt == UNION {ItemsOfRule(question, i) : i \in {j \in FormalIndices :
             job[j] = "taken" /\ ~EvaluationRaises(question, j)}}

TypeOK ==
    /\ question \in Ask
    /\ pc \in {"called", "evaluate", "leave", "done"}
    /\ job \in [FormalIndices -> JobStates]
    /\ collected \in Seq((1 .. Size) \X (Nat \ {0}))
    /\ answer.kind \in {"none", "refused", "raised", "result"}

\* What has been collected is every finding of every rule taken so far, each of
\* them once, and the findings of one rule in that rule's order: no interleaving
\* of the pool loses, repeats or splits an answer.
CollectedOnce ==
    /\ {collected[n] : n \in 1 .. Len(collected)} = ItemsAt
    /\ \A m, n \in 1 .. Len(collected) :
         m # n => collected[m] # collected[n]
    /\ \A m, n \in 1 .. Len(collected) :
         m < n /\ collected[m][1] = collected[n][1]
           => collected[m][2] < collected[n][2]

\* An exception is raised only if a rule's supports() raised, and a result only
\* if none did, although the other threads go on meanwhile.
RaisedIffRuleRaises ==
    /\ answer.kind = "raised" =>
         \E i \in FormalIndices : EvaluationRaises(question, i)
    /\ answer.kind = "result" =>
         \A i \in FormalIndices : ~EvaluationRaises(question, i)
    /\ pc = "leave" => \E i \in FormalIndices :
         job[i] = "taken" /\ EvaluationRaises(question, i)

\* Where the main thread stands says what can have happened: no evaluation
\* before the call begins, no answer before it ends, and no result taken by the
\* loop that raised.
MainInOrder ==
    /\ pc = "called" => job = [i \in FormalIndices |-> "waiting"]
    /\ pc \notin {"called", "done"} => ~question.canceled
    /\ pc # "done" => answer = Verdict!NoAnswer
    /\ pc = "evaluate" => \A i \in FormalIndices :
         job[i] = "taken" => ~EvaluationRaises(question, i)

IInv == TypeOK /\ CollectedOnce /\ RaisedIffRuleRaises /\ MainInOrder

\* Fail-open, in either gate mode, whatever blocks the merge is a rule that was
\* evaluated or could not be: never a rule whose implementation crashed.
CrashNeverBlocks ==
    answer.exit = "FORMAL_FAILURE" /\ ~question.failClosed =>
        \E i \in FormalIndices :
            /\ ~Crashed(question, i)
            /\ \E k \in 1 .. Len(EvaluateRule(question, i)) :
                 FindingBlocksMerge(EvaluateRule(question, i)[k], question.mode)

\* run() is FormalVerdict: the pool and the sequential mode give one and the
\* same report for a question, whatever the order the threads end in.
EngineIsVerdict == Verdict!Spec

\* Every call returns or raises: the with block waits for threads that all end.
EveryCallEnds == <>(answer # Verdict!NoAnswer)
=============================================================================
