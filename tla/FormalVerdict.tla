---------------------------- MODULE FormalVerdict ----------------------------
(***************************************************************************)
(* What FormalEngine.run promises, whatever its mode and its threads do:   *)
(* one answer to each question, and the same question has the same answer. *)
(* The findings stand in the order of the rubric, those of one rule by     *)
(* place, then by fingerprint.                                             *)
(***************************************************************************)
EXTENDS FormalRules

VARIABLES question, answer

NoAnswer == [kind |-> "none", findings |-> <<>>, exit |-> "none"]
Refused == [kind |-> "refused", findings |-> <<>>, exit |-> "none"]
Raised == [kind |-> "raised", findings |-> <<>>, exit |-> "none"]

\* x stands before y in the answer to q.
StandsBefore(q, x, y) ==
    LET f == Found(q, x)
        g == Found(q, y)
    IN \/ x[1] < y[1]
       \/ x[1] = y[1] /\ f.locator < g.locator
       \/ x[1] = y[1] /\ f.locator = g.locator /\ f.print < g.print
       \/ /\ x[1] = y[1] /\ f.locator = g.locator /\ f.print = g.print
          /\ x[2] < y[2]

Listing(q) ==
    [p \in 1 .. Cardinality(Items(q)) |->
       Found(q, CHOOSE x \in Items(q) :
                  Cardinality({y \in Items(q) : StandsBefore(q, y, x)}) = p - 1)]

Expected(q) ==
    IF q.canceled THEN Refused
    ELSE IF \E i \in FormalIndices : EvaluationRaises(q, i) THEN Raised
    ELSE [kind |-> "result", findings |-> Listing(q),
          exit |-> FormalExitCode({Found(q, x) : x \in Items(q)}, q.mode)]

Init == question \in Question /\ answer = NoAnswer

Reply ==
    /\ answer = NoAnswer
    /\ answer' = Expected(question)
    /\ UNCHANGED question

Spec == Init /\ [][Reply]_<<question, answer>>
=============================================================================
