------------------------- MODULE FormalEngineProofs --------------------------
(***************************************************************************)
(* The formal engine implements its sequential verdict, for any rubric,    *)
(* any questions and any schedule of the pool.                             *)
(***************************************************************************)
EXTENDS FormalEngine, FiniteSetTheorems, SequenceTheorems, TLAPS

-----------------------------------------------------------------------------
(* Ranks in a finite strict order                                          *)

StrictOrder(R, T) ==
    /\ R \subseteq T \X T
    /\ \A x \in T : <<x, x>> \notin R
    /\ \A x, y, z \in T : <<x, y>> \in R /\ <<y, z>> \in R => <<x, z>> \in R
    /\ \A x, y \in T : x # y => <<x, y>> \in R \/ <<y, x>> \in R

Below(R, T, x) == {y \in T : <<y, x>> \in R}

\* In a finite strict order no two elements have the same number of elements
\* below them: sorting by that number is well defined.
LEMMA RankInjective ==
  ASSUME NEW T, IsFiniteSet(T), NEW R, StrictOrder(R, T),
         NEW x \in T, NEW y \in T,
         Cardinality(Below(R, T, x)) = Cardinality(Below(R, T, y))
  PROVE  x = y
<1>1. ASSUME NEW a \in T, NEW b \in T, <<a, b>> \in R
      PROVE  Cardinality(Below(R, T, a)) # Cardinality(Below(R, T, b))
  <2>1. Below(R, T, a) \subseteq Below(R, T, b)
    BY <1>1 DEF Below, StrictOrder
  <2>2. a \in Below(R, T, b) /\ a \notin Below(R, T, a)
    BY <1>1 DEF Below, StrictOrder
  <2>3. IsFiniteSet(Below(R, T, b))
    BY FS_Subset DEF Below
  <2>4. QED
    BY <2>1, <2>2, <2>3, FS_Subset
<1>2. QED
  BY <1>1 DEF StrictOrder

\* Every number below the size of the set is the rank of some element.
LEMMA RankSurjective ==
  ASSUME NEW T, IsFiniteSet(T), NEW R, StrictOrder(R, T),
         NEW n \in 0 .. Cardinality(T) - 1
  PROVE  \E x \in T : Cardinality(Below(R, T, x)) = n
<1> DEFINE N == Cardinality(T)
           I == 0 .. N - 1
           rank == [x \in T |-> Cardinality(Below(R, T, x))]
<1>1. N \in Nat
  BY FS_CardinalityType
<1>2. ASSUME NEW x \in T PROVE Cardinality(Below(R, T, x)) \in I
  <2>1. Below(R, T, x) \subseteq T \ {x}
    BY DEF Below, StrictOrder
  <2>2. IsFiniteSet(T \ {x}) /\ Cardinality(T \ {x}) = N - 1
    BY FS_RemoveElement
  <2>3. /\ IsFiniteSet(Below(R, T, x))
        /\ Cardinality(Below(R, T, x)) <= N - 1
    BY <2>1, <2>2, FS_Subset
  <2>4. Cardinality(Below(R, T, x)) \in Nat
    BY <2>3, FS_CardinalityType
  <2>5. QED
    BY <1>1, <2>3, <2>4
<1>3. IsFiniteSet(I) /\ Cardinality(I) = N
  BY <1>1, FS_Interval
<1>4. rank \in Injection(T, I)
  BY <1>2, RankInjective DEF Injection, IsInjective
<1>5. rank \in Surjection(T, I)
  BY <1>3, <1>4, FS_Injection
<1>6. QED
  BY <1>5 DEF Surjection

-----------------------------------------------------------------------------
(* The answers of rules                                                    *)

LEMMA MakeFindingType ==
  ASSUME NEW i \in 1 .. Size, NEW severity \in Severities, NEW status \in Statuses
  PROVE  MakeFinding(i, severity, status) \in FormalFinding
<1>1. PrimaryLayer(i) \in Layers
  BY DEF PrimaryLayer, Layers
<1>2. QED
  BY <1>1 DEF MakeFinding, FormalFinding

\* Whatever the situation, a rule answers with a sequence of findings.
LEMMA EvaluateRuleType ==
  ASSUME NEW q \in Question, NEW i \in 1 .. Size
  PROVE  EvaluateRule(q, i) \in Seq(FormalFinding)
<1>1. q.situation[i].outcome \in Seq(FormalFinding)
  BY DEF Question, Situation
<1>2. Severity[i] \in Severities
  BY RubricAssumption
<1>3. /\ MakeFinding(i, Severity[i], "unverifiable") \in FormalFinding
      /\ MakeFinding(i, Severity[i], "not_applicable") \in FormalFinding
      /\ MakeFinding(i, "error", "fail") \in FormalFinding
      /\ MakeFinding(i, "warn", "unverifiable") \in FormalFinding
  BY <1>2, MakeFindingType DEF Severities, Statuses
<1>4. ToolErrorFinding(q, i) \in FormalFinding
  BY <1>3 DEF ToolErrorFinding
<1>5. EvaluateRule(q, i) \in {<<MakeFinding(i, Severity[i], "unverifiable")>>,
                             <<MakeFinding(i, Severity[i], "not_applicable")>>,
                             <<ToolErrorFinding(q, i)>>,
                             q.situation[i].outcome}
  BY DEF EvaluateRule
<1>6. \A f \in FormalFinding : <<f>> \in Seq(FormalFinding)
  OBVIOUS
<1>7. QED
  BY <1>1, <1>3, <1>4, <1>5, <1>6

LEMMA IndicesInRubric == FormalIndices \subseteq 1 .. Size
BY DEF FormalIndices

LEMMA ItemsOfRuleType ==
  ASSUME NEW q \in Question, NEW i \in FormalIndices
  PROVE  /\ Len(EvaluateRule(q, i)) \in Nat
         /\ ItemsOfRule(q, i) \subseteq (1 .. Size) \X (Nat \ {0})
         /\ IsFiniteSet(ItemsOfRule(q, i))
         /\ \A k \in 1 .. Len(EvaluateRule(q, i)) :
              Found(q, <<i, k>>) \in FormalFinding
<1>1. EvaluateRule(q, i) \in Seq(FormalFinding) /\ i \in 1 .. Size
  BY EvaluateRuleType, IndicesInRubric
<1>2. Len(EvaluateRule(q, i)) \in Nat
  BY <1>1
<1>3. ItemsOfRule(q, i) = {i} \X (1 .. Len(EvaluateRule(q, i)))
  BY DEF ItemsOfRule
<1>4. IsFiniteSet({i})
  BY FS_Singleton
<1>5. IsFiniteSet(1 .. Len(EvaluateRule(q, i)))
  BY <1>2, FS_Interval
<1>6. IsFiniteSet(ItemsOfRule(q, i))
  BY <1>3, <1>4, <1>5, FS_Product
<1>7. QED
  BY <1>1, <1>2, <1>3, <1>6 DEF Found

-----------------------------------------------------------------------------
(* The inductive invariant                                                 *)

LEMMA InitIInv == Init => IInv
<1> SUFFICES ASSUME Init PROVE IInv
  OBVIOUS
<1>1. TypeOK
  BY DEF Init, TypeOK, JobStates, Verdict!NoAnswer
<1>2. CollectedOnce
  BY DEF Init, CollectedOnce, ItemsAt
<1>3. RaisedIffRuleRaises /\ MainInOrder
  BY DEF Init, RaisedIffRuleRaises, MainInOrder, Verdict!NoAnswer
<1>4. QED
  BY <1>1, <1>2, <1>3 DEF IInv

\* Appending the answer of a rule that was not taken yet keeps the list sound.
LEMMA ExtendKeeps ==
  ASSUME TypeOK, CollectedOnce, NEW i \in FormalIndices,
         job[i] # "taken", ~EvaluationRaises(question, i), Extend(i),
         question' = question, job' = [job EXCEPT ![i] = "taken"]
  PROVE  CollectedOnce' /\ collected' \in Seq((1 .. Size) \X (Nat \ {0}))
<1> DEFINE n == Len(collected)
           k == Len(EvaluateRule(question, i))
           added == [j \in 1 .. k |-> <<i, j>>]
<1>1. question \in Question /\ i \in 1 .. Size
  BY AskAssumption, IndicesInRubric DEF TypeOK
<1>2. k \in Nat
  BY <1>1, EvaluateRuleType
<1>3. added \in Seq((1 .. Size) \X (Nat \ {0})) /\ Len(added) = k
  BY <1>1, <1>2
<1>4. collected \in Seq((1 .. Size) \X (Nat \ {0})) /\ n \in Nat
  BY DEF TypeOK
<1>5. collected' = collected \o added
  BY DEF Extend
<1>6. /\ collected' \in Seq((1 .. Size) \X (Nat \ {0}))
      /\ Len(collected') = n + k
      /\ \A m \in 1 .. n : collected'[m] = collected[m]
      /\ \A m \in n + 1 .. n + k : collected'[m] = <<i, m - n>>
  BY <1>2, <1>3, <1>4, <1>5
<1>7. ItemsAt' = ItemsAt \cup ItemsOfRule(question, i)
  <2>1. {j \in FormalIndices : job'[j] = "taken" /\ ~EvaluationRaises(question', j)}
          = {j \in FormalIndices : job[j] = "taken" /\ ~EvaluationRaises(question, j)}
              \cup {i}
    BY DEF TypeOK
  <2>2. QED
    BY <2>1 DEF ItemsAt
<1>8. \A m \in 1 .. n : collected[m][1] # i
  BY DEF CollectedOnce, ItemsAt, ItemsOfRule
<1>9. {collected'[m] : m \in 1 .. Len(collected')} = ItemsAt'
  <2>1. 1 .. n + k = (1 .. n) \cup (n + 1 .. n + k)
    BY <1>2, <1>4
  <2>2. {collected'[m] : m \in 1 .. n} = ItemsAt
    BY <1>6 DEF CollectedOnce
  <2>3. {collected'[m] : m \in n + 1 .. n + k} = ItemsOfRule(question, i)
    <3>1. ASSUME NEW m \in n + 1 .. n + k
          PROVE  m - n \in 1 .. k /\ collected'[m] = <<i, m - n>>
      <4>1. n \in Nat /\ k \in Nat
        BY <1>2, <1>4
      <4>2. m - n \in 1 .. k
        BY <4>1
      <4>3. collected'[m] = <<i, m - n>>
        BY <1>6
      <4>4. QED
        BY <4>2, <4>3
    <3>2. ASSUME NEW j \in 1 .. k
          PROVE  n + j \in n + 1 .. n + k /\ (n + j) - n = j
      BY <1>2, <1>4
    <3>3. ASSUME NEW x \in ItemsOfRule(question, i)
          PROVE  x \in {collected'[m] : m \in n + 1 .. n + k}
      <4>1. PICK j \in 1 .. k : x = <<i, j>>
        BY DEF ItemsOfRule
      <4>2. n + j \in n + 1 .. n + k /\ collected'[n + j] = x
        BY <3>1, <3>2, <4>1
      <4>3. QED
        BY <4>2
    <3>4. QED
      BY <3>1, <3>3 DEF ItemsOfRule
  <2>4. QED
    BY <1>6, <1>7, <2>1, <2>2, <2>3
<1>10. /\ \A m \in 1 .. n : collected'[m][1] # i
       /\ \A m \in n + 1 .. n + k : collected'[m][1] = i /\ collected'[m][2] = m - n
  <2>1. ASSUME NEW m \in n + 1 .. n + k
        PROVE  collected'[m][1] = i /\ collected'[m][2] = m - n
    <3>1. collected'[m] = <<i, m - n>>
      BY <1>6
    <3>2. QED
      BY <3>1
  <2>2. ASSUME NEW m \in 1 .. n
        PROVE  collected'[m][1] # i
    BY <1>6, <1>8
  <2>3. QED
    BY <2>1, <2>2
<1>11. ASSUME NEW l \in 1 .. n + k, NEW m \in 1 .. n + k
       PROVE  /\ l # m => collected'[l] # collected'[m]
              /\ l < m /\ collected'[l][1] = collected'[m][1]
                   => collected'[l][2] < collected'[m][2]
  <2>1. CASE l \in 1 .. n /\ m \in 1 .. n
    BY <1>6, <2>1 DEF CollectedOnce
  <2>2. CASE l \in n + 1 .. n + k /\ m \in n + 1 .. n + k
    <3>1. collected'[l][2] = l - n /\ collected'[m][2] = m - n
      BY <1>10, <2>2
    <3>2. l \in Nat /\ m \in Nat
      BY <1>2, <1>4
    <3>3. QED
      BY <1>4, <3>1, <3>2
  <2>3. CASE ~(l \in 1 .. n <=> m \in 1 .. n)
    <3>1. collected'[l][1] # collected'[m][1]
      BY <1>2, <1>4, <1>10, <2>3
    <3>2. QED
      BY <3>1
  <2>4. QED
    BY <1>2, <1>4, <2>1, <2>2, <2>3
<1>12. QED
  BY <1>6, <1>9, <1>11 DEF CollectedOnce

\* A step that takes no result leaves the list and what it stands for alone.
LEMMA NothingTaken ==
  ASSUME CollectedOnce, question' = question, collected' = collected,
         \A i \in FormalIndices :
           job'[i] = "taken" /\ ~EvaluationRaises(question, i)
             <=> job[i] = "taken" /\ ~EvaluationRaises(question, i)
  PROVE  CollectedOnce'
<1>1. ItemsAt' = ItemsAt
  BY DEF ItemsAt
<1>2. QED
  BY <1>1 DEF CollectedOnce

LEMMA StepIInv == IInv /\ [Next]_vars => IInv'
<1> SUFFICES ASSUME IInv, [Next]_vars PROVE IInv'
  OBVIOUS
<1> USE DEF IInv
<1>1. CASE Begin
  <2>1. /\ pc = "called" /\ question' = question /\ collected' = collected
        /\ job = [i \in FormalIndices |-> "waiting"]
    BY <1>1 DEF Begin, MainInOrder
  <2>2. TypeOK'
    BY <1>1, <2>1 DEF Begin, TypeOK, JobStates, Verdict!Refused
  <2>3. \A i \in FormalIndices : job[i] # "taken" /\ job'[i] # "taken"
    BY <1>1, <2>1 DEF Begin
  <2>4. CollectedOnce'
    BY <2>1, <2>3, NothingTaken
  <2>5. RaisedIffRuleRaises' /\ MainInOrder'
    BY <1>1, <2>1, <2>3
       DEF Begin, RaisedIffRuleRaises, MainInOrder, Verdict!Refused, Verdict!NoAnswer
  <2>6. QED
    BY <2>2, <2>4, <2>5
<1>2. ASSUME NEW i \in FormalIndices, EvaluateNext(i) PROVE IInv'
  <2>1. /\ pc = "evaluate" /\ question' = question /\ job[i] # "taken"
        /\ job' = [job EXCEPT ![i] = "taken"]
        /\ job' \in [FormalIndices -> JobStates]
    BY <1>2 DEF EvaluateNext, TypeOK, JobStates
  <2>2. CASE EvaluationRaises(question, i)
    <3>1. /\ pc' = "done" /\ answer' = Verdict!Raised /\ collected' = collected
      BY <1>2, <2>2 DEF EvaluateNext
    <3>2. TypeOK'
      BY <2>1, <3>1 DEF TypeOK, Verdict!Raised
    <3>3. \A j \in FormalIndices :
            job'[j] = "taken" /\ ~EvaluationRaises(question, j)
              <=> job[j] = "taken" /\ ~EvaluationRaises(question, j)
      BY <2>1, <2>2 DEF TypeOK
    <3>4. CollectedOnce'
      BY <2>1, <3>1, <3>3, NothingTaken
    <3>5. RaisedIffRuleRaises' /\ MainInOrder'
      BY <2>1, <2>2, <3>1
         DEF RaisedIffRuleRaises, MainInOrder, Verdict!Raised
    <3>6. QED
      BY <3>2, <3>4, <3>5
  <2>3. CASE ~EvaluationRaises(question, i)
    <3>1. Extend(i) /\ pc' = pc /\ answer' = answer
      BY <1>2, <2>3 DEF EvaluateNext
    <3>2. CollectedOnce' /\ TypeOK'
      BY <2>1, <2>3, <3>1, ExtendKeeps DEF TypeOK
    <3>3. RaisedIffRuleRaises' /\ MainInOrder'
      BY <2>1, <2>3, <3>1 DEF RaisedIffRuleRaises, MainInOrder, TypeOK
    <3>4. QED
      BY <3>2, <3>3
  <2>4. QED
    BY <2>2, <2>3
<1>3. ASSUME NEW i \in FormalIndices, Work(i) PROVE IInv'
  <2>1. /\ question' = question /\ pc' = pc /\ collected' = collected
        /\ answer' = answer /\ job[i] = "submitted"
        /\ job' = [job EXCEPT ![i] = "finished"]
    BY <1>3 DEF Work
  <2>2. TypeOK'
    BY <2>1 DEF TypeOK, JobStates
  <2>3. \A j \in FormalIndices : job'[j] = "taken" <=> job[j] = "taken"
    BY <2>1 DEF TypeOK
  <2>4. CollectedOnce'
    BY <2>1, <2>3, NothingTaken
  <2>5. pc # "called"
    BY <2>1 DEF MainInOrder
  <2>6. RaisedIffRuleRaises' /\ MainInOrder'
    BY <2>1, <2>3, <2>5 DEF RaisedIffRuleRaises, MainInOrder
  <2>7. QED
    BY <2>2, <2>4, <2>6
<1>4. ASSUME NEW i \in FormalIndices, Take(i) PROVE IInv'
  <2>1. /\ pc = "evaluate" /\ question' = question /\ answer' = answer
        /\ job[i] # "taken" /\ job' = [job EXCEPT ![i] = "taken"]
        /\ job' \in [FormalIndices -> JobStates]
    BY <1>4 DEF Take, TypeOK, JobStates
  <2>2. CASE EvaluationRaises(question, i)
    <3>1. pc' = "leave" /\ collected' = collected
      BY <1>4, <2>2 DEF Take
    <3>2. TypeOK'
      BY <2>1, <3>1 DEF TypeOK
    <3>3. /\ job'[i] = "taken"
          /\ \A j \in FormalIndices :
               job'[j] = "taken" /\ ~EvaluationRaises(question, j)
                 <=> job[j] = "taken" /\ ~EvaluationRaises(question, j)
      BY <2>1, <2>2 DEF TypeOK
    <3>4. CollectedOnce'
      BY <2>1, <3>1, <3>3, NothingTaken
    <3>5. RaisedIffRuleRaises' /\ MainInOrder'
      BY <2>1, <2>2, <3>1, <3>3
         DEF RaisedIffRuleRaises, MainInOrder, Verdict!NoAnswer
    <3>6. QED
      BY <3>2, <3>4, <3>5
  <2>3. CASE ~EvaluationRaises(question, i)
    <3>1. Extend(i) /\ pc' = pc
      BY <1>4, <2>3 DEF Take
    <3>2. CollectedOnce' /\ TypeOK'
      BY <2>1, <2>3, <3>1, ExtendKeeps DEF TypeOK
    <3>3. RaisedIffRuleRaises' /\ MainInOrder'
      BY <2>1, <2>3, <3>1 DEF RaisedIffRuleRaises, MainInOrder, TypeOK
    <3>4. QED
      BY <3>2, <3>3
  <2>4. QED
    BY <2>2, <2>3
<1>5. CASE Leave
  <2>1. /\ pc = "leave" /\ pc' = "done" /\ answer' = Verdict!Raised
        /\ question' = question /\ job' = job /\ collected' = collected
    BY <1>5 DEF Leave
  <2>2. TypeOK' /\ CollectedOnce'
    BY <2>1, NothingTaken DEF TypeOK, Verdict!Raised
  <2>3. RaisedIffRuleRaises' /\ MainInOrder'
    BY <2>1 DEF RaisedIffRuleRaises, MainInOrder, Verdict!Raised
  <2>4. QED
    BY <2>2, <2>3
<1>6. CASE Conclude
  <2>1. /\ pc = "evaluate" /\ pc' = "done" /\ answer'.kind = "result"
        /\ question' = question /\ job' = job /\ collected' = collected
        /\ \A i \in FormalIndices : job[i] = "taken"
    BY <1>6 DEF Conclude
  <2>2. TypeOK' /\ CollectedOnce'
    BY <2>1, NothingTaken DEF TypeOK
  <2>3. RaisedIffRuleRaises' /\ MainInOrder'
    BY <2>1 DEF RaisedIffRuleRaises, MainInOrder
  <2>4. QED
    BY <2>2, <2>3
<1>7. CASE UNCHANGED vars
  <2>1. /\ question' = question /\ pc' = pc /\ job' = job
        /\ collected' = collected /\ answer' = answer
    BY <1>7 DEF vars
  <2>2. TypeOK' /\ CollectedOnce'
    BY <2>1, NothingTaken DEF TypeOK
  <2>3. RaisedIffRuleRaises' /\ MainInOrder'
    BY <2>1 DEF RaisedIffRuleRaises, MainInOrder
  <2>4. QED
    BY <2>2, <2>3
<1>8. QED
  BY <1>1, <1>2, <1>3, <1>4, <1>5, <1>6, <1>7 DEF Next, Main, Done

\* In every state of every run of the engine the list holds each finding of the
\* rules taken so far once, an exception is one a rule raised, and the main
\* thread is where its answer says: FormalEngine.run and _run_parallel.
THEOREM IInvariant == Spec => []IInv
<1>1. QED
  BY InitIInv, StepIInv, PTL DEF Spec

-----------------------------------------------------------------------------
(* The order of the findings                                               *)

\* The verdict reads a rubric and its rules as the engine does.
LEMMA SameRule ==
  ASSUME NEW q, NEW i
  PROVE  /\ Verdict!EvaluateRule(q, i) = EvaluateRule(q, i)
         /\ Verdict!EvaluationRaises(q, i) = EvaluationRaises(q, i)
<1>1. \A required : Verdict!MissingSources(q, required) = MissingSources(q, required)
  BY DEF Verdict!MissingSources, MissingSources, Verdict!HasSource, HasSource,
         Verdict!SourceKinds, SourceKinds
<1>2. \A severity, status :
        Verdict!MakeFinding(i, severity, status) = MakeFinding(i, severity, status)
  BY DEF Verdict!MakeFinding, MakeFinding, Verdict!PrimaryLayer, PrimaryLayer
<1>3. Verdict!ToolErrorFinding(q, i) = ToolErrorFinding(q, i)
  BY <1>2 DEF Verdict!ToolErrorFinding, ToolErrorFinding
<1>4. QED
  BY <1>1, <1>2, <1>3 DEF Verdict!EvaluateRule, EvaluateRule,
                          Verdict!EvaluationRaises, EvaluationRaises

LEMMA SameItems ==
  ASSUME NEW q
  PROVE  /\ Verdict!FormalIndices = FormalIndices
         /\ Verdict!Items(q) = Items(q)
         /\ \A x : Verdict!Found(q, x) = Found(q, x)
BY SameRule DEF Verdict!FormalIndices, FormalIndices, Verdict!Items, Items,
                Verdict!ItemsOfRule, ItemsOfRule, Verdict!Found, Found

LEMMA SameCardinality == \A S : Verdict!Cardinality(S) = Cardinality(S)
BY DEF Verdict!Cardinality, Cardinality

\* The order of the verdict on the findings of q.
BeforeIn(q) == {z \in Items(q) \X Items(q) : Verdict!StandsBefore(q, z[1], z[2])}

LEMMA ItemsType ==
  ASSUME NEW q \in Question
  PROVE  /\ IsFiniteSet(Items(q))
         /\ Items(q) \subseteq (1 .. Size) \X (Nat \ {0})
         /\ \A x \in Items(q) :
              /\ x = <<x[1], x[2]>> /\ x[1] \in Nat /\ x[2] \in Nat
              /\ Found(q, x).locator \in Nat /\ Found(q, x).print \in Nat
<1>1. IsFiniteSet(FormalIndices)
  <2>1. Size \in Nat /\ IsFiniteSet(1 .. Size)
    BY RubricAssumption, FS_Interval
  <2>2. QED
    BY <2>1, FS_Subset, IndicesInRubric
<1>2. IsFiniteSet({ItemsOfRule(q, i) : i \in FormalIndices})
  <2> DEFINE sets == {ItemsOfRule(q, i) : i \in FormalIndices}
             f == [i \in FormalIndices |-> ItemsOfRule(q, i)]
  <2>1. f \in Surjection(FormalIndices, sets)
    BY DEF Surjection
  <2>2. QED
    BY <1>1, <2>1, FS_Surjection
<1>3. IsFiniteSet(Items(q))
  BY <1>2, ItemsOfRuleType, FS_UNION DEF Items
<1>4. \A x \in Items(q) : Found(q, x) \in FormalFinding
  BY ItemsOfRuleType DEF Items, ItemsOfRule
<1>5. Items(q) \subseteq (1 .. Size) \X (Nat \ {0})
  BY ItemsOfRuleType DEF Items
<1>6. \A x \in Items(q) : x = <<x[1], x[2]>> /\ x[1] \in Nat /\ x[2] \in Nat
  BY <1>5, RubricAssumption
<1>7. QED
  BY <1>3, <1>4, <1>5, <1>6 DEF FormalFinding

LEMMA VerdictOrder ==
  ASSUME NEW q \in Question
  PROVE  StrictOrder(BeforeIn(q), Items(q))
<1> USE ItemsType
<1> DEFINE T == Items(q)
<1>1. \A x, y \in T : <<x, y>> \in BeforeIn(q) <=> Verdict!StandsBefore(q, x, y)
  BY DEF BeforeIn
<1>2. \A x \in T : /\ x = <<x[1], x[2]>> /\ x[1] \in Nat /\ x[2] \in Nat
                   /\ Found(q, x).locator \in Nat /\ Found(q, x).print \in Nat
  OBVIOUS
<1> USE SameItems DEF Verdict!StandsBefore
<1>3. \A x \in T : ~Verdict!StandsBefore(q, x, x)
  BY <1>2
<1>4. \A x, y, z \in T :
        Verdict!StandsBefore(q, x, y) /\ Verdict!StandsBefore(q, y, z)
          => Verdict!StandsBefore(q, x, z)
  BY <1>2
<1>5. \A x, y \in T :
        x # y => Verdict!StandsBefore(q, x, y) \/ Verdict!StandsBefore(q, y, x)
  BY <1>2
<1>6. BeforeIn(q) \subseteq T \X T
  BY DEF BeforeIn
<1>7. QED
  BY <1>1, <1>3, <1>4, <1>5, <1>6 DEF StrictOrder

\* Sorting a list that holds every item once, those of one rule in its order,
\* gives the listing of the verdict: the order of collection does not matter.
LEMMA SortIsListing ==
  ASSUME NEW q \in Question, NEW s \in Seq((1 .. Size) \X (Nat \ {0})),
         {s[n] : n \in 1 .. Len(s)} = Items(q),
         \A m, n \in 1 .. Len(s) : m # n => s[m] # s[n],
         \A m, n \in 1 .. Len(s) :
           m < n /\ s[m][1] = s[n][1] => s[m][2] < s[n][2]
  PROVE  SortFindings(q, s) = Verdict!Listing(q)
<1> DEFINE N == Len(s)
           T == Items(q)
           R == BeforeIn(q)
           Rank(x) == Cardinality(Below(R, T, x))
           Sorted(n) == {m \in 1 .. N : SortedBefore(q, s, m, n)}
<1>1. N \in Nat /\ IsFiniteSet(T) /\ StrictOrder(R, T)
  BY ItemsType, VerdictOrder
<1>2. ASSUME NEW m \in 1 .. N, NEW n \in 1 .. N
      PROVE  SortedBefore(q, s, m, n) <=> <<s[m], s[n]>> \in R
  <2>1. s[m] \in T /\ s[n] \in T
    OBVIOUS
  <2>2. \A x \in T : /\ x[1] \in Nat /\ x[2] \in Nat
                      /\ Found(q, x).locator \in Nat /\ Found(q, x).print \in Nat
    BY ItemsType
  <2>3. <<s[m], s[n]>> \in R <=> Verdict!StandsBefore(q, s[m], s[n])
    BY <2>1 DEF BeforeIn
  <2>4. /\ m = n => s[m] = s[n]
        /\ m < n /\ s[m][1] = s[n][1] => s[m][2] < s[n][2]
        /\ n < m /\ s[m][1] = s[n][1] => s[n][2] < s[m][2]
    OBVIOUS
  <2>5. SortedBefore(q, s, m, n) <=> Verdict!StandsBefore(q, s[m], s[n])
    <3> DEFINE rx == s[m][1]
               ry == s[n][1]
               lx == Found(q, s[m]).locator
               ly == Found(q, s[n]).locator
               px == Found(q, s[m]).print
               py == Found(q, s[n]).print
               kx == s[m][2]
               ky == s[n][2]
               Less == \/ rx < ry
                       \/ rx = ry /\ lx < ly
                       \/ rx = ry /\ lx = ly /\ px < py
               More == \/ ry < rx
                       \/ ry = rx /\ ly < lx
                       \/ ry = rx /\ ly = lx /\ py < px
    <3>1. /\ rx \in Nat /\ lx \in Nat /\ px \in Nat /\ kx \in Nat
          /\ ry \in Nat /\ ly \in Nat /\ py \in Nat /\ ky \in Nat
      BY <2>1, <2>2
    <3>2. m \in Nat /\ n \in Nat
      BY <1>1
    <3>3. SortedBefore(q, s, m, n) <=> Less \/ (~More /\ m < n)
      BY DEF SortedBefore, SortKeyLess
    <3>4. Verdict!StandsBefore(q, s[m], s[n]) <=>
            Less \/ (rx = ry /\ lx = ly /\ px = py /\ kx < ky)
      BY SameItems DEF Verdict!StandsBefore
    <3>5. /\ m = n => rx = ry /\ lx = ly /\ px = py /\ kx = ky
          /\ m < n /\ rx = ry => kx < ky
          /\ n < m /\ rx = ry => ky < kx
      BY <2>4
    <3> HIDE DEF rx, ry, lx, ly, px, py, kx, ky
    <3>6. Less \/ (~More /\ m < n)
            <=> Less \/ (rx = ry /\ lx = ly /\ px = py /\ kx < ky)
      BY <3>1, <3>2, <3>5
    <3>7. QED
      BY <3>3, <3>4, <3>6
  <2>6. QED
    BY <2>3, <2>5
<1>3. s \in Bijection(1 .. N, T)
  <2>1. s \in [1 .. N -> T]
    OBVIOUS
  <2>2. s \in Injection(1 .. N, T)
    BY <2>1 DEF Injection, IsInjective
  <2>3. s \in Surjection(1 .. N, T)
    BY <2>1 DEF Surjection
  <2>4. QED
    BY <2>2, <2>3 DEF Bijection
<1>4. Cardinality(T) = N
  <2>1. ExistsBijection(1 .. N, T)
    BY <1>3 DEF ExistsBijection
  <2>2. QED
    BY <1>1, <2>1, FS_CountingElements
<1>5. ASSUME NEW n \in 1 .. N PROVE Cardinality(Sorted(n)) = Rank(s[n])
  <2> DEFINE A == Sorted(n)
             B == Below(R, T, s[n])
             f == [m \in A |-> s[m]]
  <2>1. s[n] \in T /\ \A m \in 1 .. N : s[m] \in T
    OBVIOUS
  <2>2. \A m \in 1 .. N : m \in A <=> s[m] \in B
    BY <1>2, <2>1 DEF Below
  <2>3. f \in Injection(A, B)
    BY <2>2 DEF Injection, IsInjective
  <2>4. \A y \in B : \E m \in A : f[m] = y
    BY <2>2 DEF Below
  <2>5. f \in Bijection(A, B)
    BY <2>3, <2>4 DEF Bijection, Surjection, Injection
  <2>6. IsFiniteSet(A)
    <3>1. IsFiniteSet(1 .. N)
      BY <1>1, FS_Interval
    <3>2. QED
      BY <3>1, FS_Subset
  <2>7. QED
    BY <2>5, <2>6, FS_Bijection DEF ExistsBijection
<1>6. ASSUME NEW p \in 1 .. N
      PROVE  s[CHOOSE n \in 1 .. N : Cardinality(Sorted(n)) = p - 1]
               = CHOOSE x \in T : Rank(x) = p - 1
  <2> DEFINE n0 == CHOOSE n \in 1 .. N : Cardinality(Sorted(n)) = p - 1
             x0 == CHOOSE x \in T : Rank(x) = p - 1
  <2>1. PICK x \in T : Rank(x) = p - 1
    <3>1. p - 1 \in 0 .. Cardinality(T) - 1
      BY <1>1, <1>4
    <3>2. QED
      BY <1>1, <3>1, RankSurjective
  <2>2. x0 \in T /\ Rank(x0) = p - 1
    BY <2>1
  <2>3. PICK n \in 1 .. N : s[n] = x
    OBVIOUS
  <2>4. n0 \in 1 .. N /\ Cardinality(Sorted(n0)) = p - 1
    BY <1>5, <2>1, <2>3
  <2>5. s[n0] \in T /\ Rank(s[n0]) = p - 1
    BY <1>5, <2>4
  <2>6. s[n0] = x0
    BY <1>1, <2>2, <2>5, RankInjective
  <2>7. QED
    BY <2>6
<1>7. \A x \in T : {y \in T : Verdict!StandsBefore(q, y, x)} = Below(R, T, x)
  BY DEF Below, BeforeIn
<1>8. Verdict!Listing(q) = [p \in 1 .. N |-> Found(q, CHOOSE x \in T : Rank(x) = p - 1)]
  <2>1. ASSUME NEW p \in 1 .. N
        PROVE  (CHOOSE x \in T :
                  Cardinality({y \in T : Verdict!StandsBefore(q, y, x)}) = p - 1)
                 = CHOOSE x \in T : Rank(x) = p - 1
    BY <1>7
  <2>2. Verdict!Listing(q) =
          [p \in 1 .. N |-> Found(q, CHOOSE x \in T :
             Cardinality({y \in T : Verdict!StandsBefore(q, y, x)}) = p - 1)]
    BY <1>4, SameItems, SameCardinality DEF Verdict!Listing
  <2>3. QED
    BY <2>1, <2>2
<1>9. SortFindings(q, s) = [p \in 1 .. N |->
          Found(q, s[CHOOSE n \in 1 .. N : Cardinality(Sorted(n)) = p - 1])]
  BY DEF SortFindings
<1>10. QED
  BY <1>6, <1>8, <1>9

-----------------------------------------------------------------------------
(* The engine implements its verdict                                       *)

LEMMA SameQuestions == Verdict!Question = Question
<1>1. Verdict!FormalFinding = FormalFinding
  BY DEF Verdict!FormalFinding, FormalFinding, Verdict!Layers, Layers,
         Verdict!Severities, Severities, Verdict!Statuses, Statuses
<1>2. Verdict!Situation = Situation
  BY <1>1 DEF Verdict!Situation, Situation, Verdict!SourceKinds, SourceKinds
<1>3. QED
  BY <1>2 DEF Verdict!Question, Question, Verdict!Modes, Modes

LEMMA SameExitCode ==
  ASSUME NEW F, NEW mode
  PROVE  Verdict!FormalExitCode(F, mode) = FormalExitCode(F, mode)
<1>1. \A f : Verdict!FindingBlocksMerge(f, mode) <=> FindingBlocksMerge(f, mode)
  BY DEF Verdict!FindingBlocksMerge, FindingBlocksMerge,
         Verdict!FormalLayers, FormalLayers
<1>2. QED
  BY <1>1 DEF Verdict!FormalExitCode, FormalExitCode,
              Verdict!BlocksMerge, BlocksMerge

\* What Conclude answers is what the verdict replies to the question.
LEMMA ConcludeReplies ==
  ASSUME IInv, Conclude
  PROVE  answer' = Verdict!Expected(question)
<1> DEFINE q == question
           s == collected
<1>1. /\ q \in Question
      /\ s \in Seq((1 .. Size) \X (Nat \ {0}))
      /\ ~q.canceled
      /\ \A i \in FormalIndices : job[i] = "taken" /\ ~EvaluationRaises(q, i)
  BY AskAssumption DEF IInv, TypeOK, MainInOrder, Conclude
<1>2. ItemsAt = Items(q)
  <2>1. {i \in FormalIndices : job[i] = "taken" /\ ~EvaluationRaises(question, i)}
          = FormalIndices
    BY <1>1
  <2>2. QED
    BY <2>1 DEF ItemsAt, Items
<1>3. /\ {s[n] : n \in 1 .. Len(s)} = Items(q)
      /\ \A m, n \in 1 .. Len(s) : m # n => s[m] # s[n]
      /\ \A m, n \in 1 .. Len(s) :
           m < n /\ s[m][1] = s[n][1] => s[m][2] < s[n][2]
  BY <1>2 DEF IInv, CollectedOnce
<1>4. SortFindings(q, s) = Verdict!Listing(q)
  BY <1>1, <1>3, SortIsListing
<1>5. {Found(q, s[n]) : n \in 1 .. Len(s)} = {Found(q, x) : x \in Items(q)}
  BY <1>3
<1>6. answer' = [kind |-> "result", findings |-> SortFindings(q, s),
                 exit |-> FormalExitCode({Found(q, s[n]) : n \in 1 .. Len(s)}, q.mode)]
  BY DEF Conclude
<1>7. Verdict!Expected(q) =
        [kind |-> "result", findings |-> Verdict!Listing(q),
         exit |-> FormalExitCode({Found(q, x) : x \in Items(q)}, q.mode)]
  <2>1. ~\E i \in Verdict!FormalIndices : Verdict!EvaluationRaises(q, i)
    BY <1>1, SameItems, SameRule
  <2>2. {Verdict!Found(q, x) : x \in Verdict!Items(q)} = {Found(q, x) : x \in Items(q)}
    BY SameItems
  <2>3. QED
    BY <1>1, <2>1, <2>2, SameExitCode DEF Verdict!Expected
<1>8. QED
  BY <1>4, <1>5, <1>6, <1>7

\* An exception is what the verdict replies where a rule raises.
LEMMA RaisedReplies ==
  ASSUME IInv, NEW i \in FormalIndices, EvaluationRaises(question, i),
         ~question.canceled
  PROVE  Verdict!Expected(question) = Verdict!Raised
BY SameItems, SameRule DEF Verdict!Expected

\* Every step of the engine is the one reply of the verdict or nothing to it.
LEMMA StepIsReply ==
  ASSUME IInv, [Next]_vars
  PROVE  [Verdict!Reply]_<<question, answer>>
<1> DEFINE Replies == /\ answer = Verdict!NoAnswer
                      /\ answer' = Verdict!Expected(question)
                      /\ question' = question
<1>0. ASSUME Replies PROVE [Verdict!Reply]_<<question, answer>>
  BY <1>0 DEF Verdict!Reply
<1>1. CASE Begin
  <2>1. CASE question.canceled
    <3>1. answer' = Verdict!Expected(question)
      BY <1>1, <2>1 DEF Begin, Verdict!Expected
    <3>2. Replies
      BY <1>1, <3>1 DEF Begin, IInv, MainInOrder
    <3>3. QED
      BY <1>0, <3>2
  <2>2. CASE ~question.canceled
    BY <1>1, <2>2 DEF Begin
  <2>3. QED
    BY <2>1, <2>2
<1>2. ASSUME NEW i \in FormalIndices, EvaluateNext(i)
      PROVE  [Verdict!Reply]_<<question, answer>>
  <2>1. CASE EvaluationRaises(question, i)
    <3>1. /\ answer' = Verdict!Raised /\ question' = question
          /\ answer = Verdict!NoAnswer /\ ~question.canceled
      BY <1>2, <2>1 DEF EvaluateNext, IInv, MainInOrder
    <3>2. Replies
      BY <2>1, <3>1, RaisedReplies
    <3>3. QED
      BY <1>0, <3>2
  <2>2. CASE ~EvaluationRaises(question, i)
    BY <1>2, <2>2 DEF EvaluateNext
  <2>3. QED
    BY <2>1, <2>2
<1>3. ASSUME NEW i \in FormalIndices, Work(i) \/ Take(i)
      PROVE  [Verdict!Reply]_<<question, answer>>
  BY <1>3 DEF Work, Take
<1>4. CASE Leave
  <2>1. /\ answer' = Verdict!Raised /\ question' = question
        /\ answer = Verdict!NoAnswer /\ ~question.canceled
        /\ \E i \in FormalIndices : EvaluationRaises(question, i)
    BY <1>4 DEF Leave, IInv, MainInOrder, RaisedIffRuleRaises
  <2>2. Replies
    BY <2>1, RaisedReplies
  <2>3. QED
    BY <1>0, <2>2
<1>5. CASE Conclude
  <2>1. Replies
    BY <1>5, ConcludeReplies DEF Conclude, IInv, MainInOrder
  <2>2. QED
    BY <1>0, <2>1
<1>6. CASE UNCHANGED vars
  BY <1>6 DEF vars
<1>7. QED
  BY <1>1, <1>2, <1>3, <1>4, <1>5, <1>6 DEF Next, Main, Done

\* Whatever the schedule of the pool, FormalEngine.run gives one report for a
\* question, in one order, and raises only where it would have raised alone.
THEOREM EngineRefinesVerdict == Spec => EngineIsVerdict
<1>1. Init => Verdict!Init
  BY SameQuestions, AskAssumption DEF Init, Verdict!Init
<1>2. IInv /\ [Next]_vars => [Verdict!Reply]_<<question, answer>>
  BY StepIsReply
<1>3. Spec => Verdict!Spec
  BY <1>1, <1>2, IInvariant, PTL DEF Spec, Verdict!Spec
<1>4. QED
  BY <1>3 DEF EngineIsVerdict

\* An answer is the verdict on the question, and stays so.
Answered == answer \in {Verdict!NoAnswer, Verdict!Expected(question)}

\* FormalEngine.run returns or raises once, and only what the verdict says.
THEOREM AnsweredAlways == Spec => []Answered
<1>1. Init => Answered
  BY DEF Init, Answered
<1>2. Answered /\ [Verdict!Reply]_<<question, answer>> => Answered'
  <2> SUFFICES ASSUME Answered, [Verdict!Reply]_<<question, answer>>
               PROVE  Answered'
    OBVIOUS
  <2>1. question' = question
    BY DEF Verdict!Reply
  <2>2. Verdict!Expected(question)' = Verdict!Expected(question)
    BY <2>1
  <2>3. QED
    BY <2>2 DEF Answered, Verdict!Reply
<1>3. IInv /\ [Next]_vars => [Verdict!Reply]_<<question, answer>>
  BY StepIsReply
<1>4. QED
  BY <1>1, <1>2, <1>3, IInvariant, PTL DEF Spec

\* What a crashed rule answers, fail-open, blocks no merge in either mode.
LEMMA CrashIsNoVerdict ==
  ASSUME NEW q, NEW i, Crashed(q, i), ~q.failClosed, NEW mode
  PROVE  \A k \in 1 .. Len(EvaluateRule(q, i)) :
           ~FindingBlocksMerge(EvaluateRule(q, i)[k], mode)
<1>1. EvaluateRule(q, i) = <<ToolErrorFinding(q, i)>>
  BY DEF Crashed, EvaluateRule
<1>2. ToolErrorFinding(q, i).severity = "warn"
  BY DEF ToolErrorFinding, MakeFinding
<1>3. ~FindingBlocksMerge(ToolErrorFinding(q, i), mode)
  BY <1>2 DEF FindingBlocksMerge
<1>4. Len(EvaluateRule(q, i)) = 1 /\ EvaluateRule(q, i)[1] = ToolErrorFinding(q, i)
  BY <1>1
<1>5. QED
  BY <1>3, <1>4

\* In fail-open runs the implementation of a rule may crash as it likes: what
\* blocks a merge is a rule that did not (_tool_error_finding, run's exit code).
THEOREM CrashesNeverBlock == Spec => []CrashNeverBlocks
<1>1. Answered => CrashNeverBlocks
  <2> SUFFICES ASSUME Answered, answer.exit = "FORMAL_FAILURE", ~question.failClosed
               PROVE  \E i \in FormalIndices :
                        /\ ~Crashed(question, i)
                        /\ \E k \in 1 .. Len(EvaluateRule(question, i)) :
                             FindingBlocksMerge(EvaluateRule(question, i)[k],
                                                question.mode)
    BY DEF CrashNeverBlocks
  <2>1. answer = Verdict!Expected(question)
    BY DEF Answered, Verdict!NoAnswer
  <2>2. FormalExitCode({Found(question, x) : x \in Items(question)}, question.mode)
          = "FORMAL_FAILURE"
    BY <2>1, SameItems, SameExitCode
       DEF Verdict!Expected, Verdict!Refused, Verdict!Raised
  <2>3. PICK x \in Items(question) :
          FindingBlocksMerge(Found(question, x), question.mode)
    BY <2>2 DEF FormalExitCode, BlocksMerge
  <2>4. PICK i \in FormalIndices : x \in ItemsOfRule(question, i)
    BY DEF Items
  <2>5. PICK k \in 1 .. Len(EvaluateRule(question, i)) : x = <<i, k>>
    BY <2>4 DEF ItemsOfRule
  <2>6. FindingBlocksMerge(EvaluateRule(question, i)[k], question.mode)
    BY <2>3, <2>5 DEF Found
  <2>7. QED
    BY <2>6, CrashIsNoVerdict
<1>2. QED
  BY <1>1, AnsweredAlways, PTL
=============================================================================
