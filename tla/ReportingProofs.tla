-------------------------- MODULE ReportingProofs ---------------------------
(***************************************************************************)
(* The gate policy and its published labels, for any number of findings of *)
(* any kind: the three copies of the policy agree, and what the header     *)
(* says follows from what was found.                                       *)
(***************************************************************************)
EXTENDS Reporting, FiniteSetTheorems, TLAPS

\* The validator's own copy of the policy decides exactly as gate.py does.
LEMMA ValidatorAgrees ==
  ASSUME NEW F, NEW m \in Modes
  PROVE  HasBlockingFormalFinding(F, m) <=> BlocksMerge(F, m)
BY DEF HasBlockingFormalFinding, BlocksMerge, FindingBlocksMerge, Modes,
       FormalLayers, BlockingStatuses

\* A set of findings picked from a finite set counts more than zero iff it has
\* a member.
LEMMA CountPositive ==
  ASSUME NEW F, IsFiniteSet(F), NEW G, G \subseteq F
  PROVE  /\ Cardinality(G) \in Nat
         /\ Cardinality(G) > 0 <=> G # {}
<1>1. IsFiniteSet(G)
  BY FS_Subset
<1>2. Cardinality(G) \in Nat /\ (Cardinality(G) = 0 <=> G = {})
  BY <1>1, FS_CardinalityType, FS_EmptySet
<1>3. QED
  BY <1>2

\* A stage adds at most one finding to what it replaces.
LEMMA StillFinite ==
  ASSUME NEW F, IsFiniteSet(F), NEW x, NEW G, G \subseteq F \cup {x}
  PROVE  IsFiniteSet(G)
BY FS_AddElement, FS_Subset

\* What blocks a run blocks it in one of its stages, and never in the semantic one.
LEMMA BlocksInAStage ==
  ASSUME NEW m \in Modes, found.semantic \subseteq SemanticFinding
  PROVE  BlocksMerge(AllFound, m) <=>
           BlocksMerge(found.build, m) \/ BlocksMerge(found.formal, m)
<1>1. \A f \in found.semantic : ~FindingBlocksMerge(f, m)
  BY DEF SemanticFinding, FindingBlocksMerge, FormalLayers
<1>2. QED
  BY <1>1 DEF BlocksMerge, AllFound

\* What blocks in one mode blocks in strict mode.
LEMMA StrictBlocksMore ==
  ASSUME NEW F, NEW m \in Modes, BlocksMerge(F, m)
  PROVE  BlocksMerge(F, "strict")
BY DEF BlocksMerge, FindingBlocksMerge, Modes

-----------------------------------------------------------------------------
LEMMA InitIInv == Init => IInv
<1> SUFFICES ASSUME Init PROVE IInv
  OBVIOUS
<1>1. found = [build |-> {}, formal |-> {}, semantic |-> {}] /\ AllFound = {}
  BY DEF Init, AllFound
<1>2. TypeOK
  <2>1. found \in [build : SUBSET Finding, formal : SUBSET Finding,
                   semantic : SUBSET SemanticFinding]
    BY <1>1
  <2>2. IsFiniteSet(AllFound)
    BY <1>1, FS_EmptySet
  <2>3. QED
    BY <2>1, <2>2 DEF Init, TypeOK
<1>3. DocMatchesRun /\ ExitMatchesGate
  BY DEF Init, DocMatchesRun, ExitMatchesGate, Published, NoDoc
<1>4. BuildAnswersForItself
  BY <1>1 DEF BuildAnswersForItself, BlocksMerge
<1>5. QED
  BY <1>2, <1>3, <1>4 DEF IInv

\* Before the exit code is settled nothing but the findings, and what comes of
\* them, changes.
LEMMA StageIInv ==
  ASSUME IInv, stage # "settled", stage' \in {"build", "formal", "semantic"},
         UNCHANGED <<mode, failClosed, exit, doc>>,
         found' \in [build : SUBSET Finding, formal : SUBSET Finding,
                     semantic : SUBSET SemanticFinding],
         NEW x, AllFound' \subseteq AllFound \cup {x},
         built' \in {"no", "fresh", "restored"}, internal' \in BOOLEAN,
         degraded' \in BOOLEAN, BuildAnswersForItself'
  PROVE  IInv'
<1>1. exit = "running" /\ doc = NoDoc
  BY DEF IInv, DocMatchesRun
<1>2. IsFiniteSet(AllFound')
  BY StillFinite DEF IInv, TypeOK
<1>3. TypeOK'
  BY <1>2 DEF IInv, TypeOK
<1>4. DocMatchesRun' /\ ExitMatchesGate'
  BY <1>1 DEF DocMatchesRun, ExitMatchesGate, Published, NoDoc
<1>5. QED
  BY <1>3, <1>4 DEF IInv

\* What a build stage comes to, fresh or not: one finding, which blocks only
\* after a failure in a fail-closed run.
LEMMA BuildOutcome ==
  ASSUME NEW result \in BuildResults, NEW closed \in BOOLEAN
  PROVE  /\ BuildReports(result, closed) \subseteq Finding
         /\ \E x : BuildReports(result, closed) \subseteq {x}
         /\ BlocksMerge(BuildReports(result, closed), "strict") =>
              result = "failed" /\ closed
<1>1. \A severity \in Severities, status \in Statuses :
         BuildFinding(severity, status) \in Finding
  BY ReportingAssumption
     DEF BuildFinding, Finding, FindingOf, Layers, AdvisoryLayers
<1>2. ToolIsMissing \in Finding /\ BuildFailed(closed) \in Finding
  BY <1>1 DEF ToolIsMissing, BuildFailed, Severities, Statuses
<1>3. /\ ~FindingBlocksMerge(ToolIsMissing, "strict")
      /\ FindingBlocksMerge(BuildFailed(closed), "strict") => closed
  BY DEF ToolIsMissing, BuildFailed, BuildFinding, FindingBlocksMerge
<1>4. CASE result = "success"
  BY <1>4 DEF BlocksMerge, BuildReports
<1>5. CASE result = "tool_missing"
  BY <1>2, <1>3, <1>5 DEF BlocksMerge, BuildReports
<1>6. CASE result = "failed"
  BY <1>2, <1>3, <1>6 DEF BlocksMerge, BuildReports
<1>7. QED
  BY <1>4, <1>5, <1>6 DEF BuildResults

LEMMA BuildIInv ==
  ASSUME IInv, NEW result \in BuildResults, Build(result)
  PROVE  IInv'
<1> DEFINE F == BuildReports(result, failClosed)
<1>1. failClosed \in BOOLEAN /\ found' = [found EXCEPT !.build = F]
  BY DEF IInv, TypeOK, Build
<1>2. /\ F \subseteq Finding
      /\ \E x : F \subseteq {x}
      /\ BlocksMerge(F, "strict") => result = "failed" /\ failClosed
  BY <1>1, BuildOutcome
<1> HIDE DEF F
<1>3. /\ found' \in [build : SUBSET Finding, formal : SUBSET Finding,
                     semantic : SUBSET SemanticFinding]
      /\ found'.build = F
      /\ \E x : AllFound' \subseteq AllFound \cup {x}
  BY <1>1, <1>2 DEF IInv, TypeOK, AllFound
<1>4. BuildAnswersForItself'
  BY <1>2, <1>3 DEF BuildAnswersForItself, Build
<1>5. QED
  BY <1>1, <1>3, <1>4, StageIInv DEF Build

LEMMA RestoreIInv ==
  ASSUME IInv, NEW result \in BuildResults, NEW closed \in BOOLEAN,
         Restore(result, closed)
  PROVE  IInv'
<1> DEFINE F == BuildReports(result, closed)
<1>1. found' = [found EXCEPT !.build = F]
  BY DEF Restore
<1>2. F \subseteq Finding /\ \E x : F \subseteq {x}
  BY BuildOutcome
<1> HIDE DEF F
<1>3. /\ found' \in [build : SUBSET Finding, formal : SUBSET Finding,
                     semantic : SUBSET SemanticFinding]
      /\ \E x : AllFound' \subseteq AllFound \cup {x}
  BY <1>1, <1>2 DEF IInv, TypeOK, AllFound
<1>4. BuildAnswersForItself'
  BY DEF BuildAnswersForItself, Restore
<1>5. QED
  BY <1>3, <1>4, StageIInv DEF Restore, IInv, TypeOK

LEMMA StepIInv == IInv /\ [Next]_vars => IInv'
<1> SUFFICES ASSUME IInv, [Next]_vars PROVE IInv'
  OBVIOUS
<1>1. ASSUME NEW result \in BuildResults, Build(result) PROVE IInv'
  BY <1>1, BuildIInv
<1>2. ASSUME NEW result \in BuildResults, NEW closed \in BOOLEAN,
             Restore(result, closed)
      PROVE  IInv'
  BY <1>2, RestoreIInv
<1>3. ASSUME NEW f \in Finding, Collect(f) PROVE IInv'
  <2>1. /\ found' \in [build : SUBSET Finding, formal : SUBSET Finding,
                       semantic : SUBSET SemanticFinding]
        /\ found'.build = found.build
        /\ AllFound' \subseteq AllFound \cup {f}
    BY <1>3 DEF Collect, IInv, TypeOK, AllFound
  <2>2. BuildAnswersForItself'
    BY <1>3, <2>1 DEF Collect, IInv, BuildAnswersForItself
  <2>3. QED
    BY <1>3, <2>1, <2>2, StageIInv DEF Collect, IInv, TypeOK
<1>4. CASE EngineFails
  <2> DEFINE f == BuildFailed(failClosed)
  <2>1. failClosed \in BOOLEAN /\ internal \in BOOLEAN
    BY DEF IInv, TypeOK
  <2>2. f \in Finding
    <3>1. f \in BuildReports("failed", failClosed) /\ "failed" \in BuildResults
      BY DEF BuildReports, BuildResults
    <3>2. QED
      BY <2>1, <3>1, BuildOutcome
  <2> HIDE DEF f
  <2>3. /\ found' \in [build : SUBSET Finding, formal : SUBSET Finding,
                       semantic : SUBSET SemanticFinding]
        /\ found'.build = found.build
        /\ AllFound' \subseteq AllFound \cup {f}
    BY <1>4, <2>2 DEF EngineFails, IInv, TypeOK, AllFound, f
  <2>4. BuildAnswersForItself'
    BY <1>4, <2>3 DEF EngineFails, IInv, BuildAnswersForItself
  <2>5. QED
    BY <1>4, <2>1, <2>3, <2>4, StageIInv DEF EngineFails, IInv, TypeOK
<1>5. CASE GoOn
  <2>1. BuildAnswersForItself' /\ AllFound' = AllFound
    BY <1>5 DEF GoOn, IInv, BuildAnswersForItself, AllFound
  <2>2. QED
    BY <1>5, <2>1, StageIInv DEF GoOn, IInv, TypeOK
<1>6. ASSUME NEW f \in SemanticFinding, Advise(f) PROVE IInv'
  <2>1. /\ found' \in [build : SUBSET Finding, formal : SUBSET Finding,
                       semantic : SUBSET SemanticFinding]
        /\ found'.build = found.build
        /\ AllFound' \subseteq AllFound \cup {f}
    BY <1>6 DEF Advise, IInv, TypeOK, AllFound
  <2>2. BuildAnswersForItself'
    BY <1>6, <2>1 DEF Advise, IInv, BuildAnswersForItself
  <2>3. QED
    BY <1>6, <2>1, <2>2, StageIInv DEF Advise, IInv, TypeOK
<1>7. CASE Settle
  <2>1. exit = "running" /\ doc = NoDoc
    BY <1>7 DEF Settle, IInv, DocMatchesRun
  <2>2. exit' \in {"SUCCESS", "FORMAL_FAILURE", "INTERNAL_ERROR"}
    BY <1>7 DEF Settle, FormalExitCode
  <2>3. TypeOK' /\ BuildAnswersForItself'
    BY <1>7, <2>2 DEF Settle, IInv, TypeOK, AllFound, BuildAnswersForItself
  <2>4. DocMatchesRun'
    BY <1>7, <2>1, <2>2 DEF Settle, DocMatchesRun, Published, NoDoc
  <2>5. ExitMatchesGate'
    BY <1>7 DEF Settle, ExitMatchesGate
  <2>6. QED
    BY <2>3, <2>4, <2>5 DEF IInv
<1>8. CASE Publish
  <2>1. TypeOK' /\ ExitMatchesGate' /\ BuildAnswersForItself'
    BY <1>8 DEF Publish, IInv, TypeOK, AllFound, ExitMatchesGate, BuildAnswersForItself
  <2>2. DocMatchesRun'
    BY <1>8 DEF Publish, IInv, DocMatchesRun, Published, AllFound
  <2>3. QED
    BY <2>1, <2>2 DEF IInv
<1>9. CASE Refuse
  <2>1. TypeOK' /\ ExitMatchesGate' /\ BuildAnswersForItself'
    BY <1>9 DEF Refuse, IInv, TypeOK, AllFound, ExitMatchesGate, BuildAnswersForItself
  <2>2. DocMatchesRun'
    BY <1>9 DEF Refuse, IInv, DocMatchesRun, Published, RefusedDoc
  <2>3. QED
    BY <2>1, <2>2 DEF IInv
<1>10. CASE UNCHANGED vars
  BY <1>10 DEF vars, IInv, TypeOK, AllFound, DocMatchesRun, Published,
               ExitMatchesGate, BuildAnswersForItself
<1>11. QED
  BY <1>1, <1>2, <1>3, <1>4, <1>5, <1>6, <1>7, <1>8, <1>9, <1>10 DEF Next, Done

-----------------------------------------------------------------------------
\* Orchestrator.run's findings, exit code and document stay in step.
THEOREM IInvariant == Spec => []IInv
<1>1. QED
  BY InitIInv, StepIInv, PTL DEF Spec

\* RunReport.validate_exit_code refuses the exit code a run has settled on where
\* a fail-closed run's build failure came out of the cache, and nowhere else.
THEOREM RefusedExactlyThen == Spec => []RefusedForARestoredBuildOnly
<1>1. IInv => RefusedForARestoredBuildOnly
  <2> SUFFICES ASSUME IInv, exit # "running"
               PROVE  ~ValidExitCode(AllFound, mode, exit) <=>
                        /\ built = "restored" /\ ~internal
                        /\ BlocksMerge(found.build, mode)
                        /\ ~BlocksMerge(found.formal, mode)
    BY DEF RefusedForARestoredBuildOnly
  <2>1. /\ mode \in Modes /\ internal \in BOOLEAN
        /\ exit = IF internal THEN "INTERNAL_ERROR" ELSE FormalExitCode(found.formal, mode)
    BY DEF IInv, TypeOK, ExitMatchesGate
  <2>2. CASE internal
    BY <2>1, <2>2 DEF ValidExitCode
  <2>3. CASE ~internal
    <3>1. HasBlockingFormalFinding(AllFound, mode) <=>
            BlocksMerge(found.build, mode) \/ BlocksMerge(found.formal, mode)
      BY <2>1, ValidatorAgrees, BlocksInAStage DEF IInv, TypeOK
    <3>2. exit = "FORMAL_FAILURE" <=> BlocksMerge(found.formal, mode)
      BY <2>1, <2>3 DEF FormalExitCode
    <3>3. exit \notin {"CONFIG_ERROR", "INTERNAL_ERROR"}
      BY <2>1, <2>3 DEF FormalExitCode
    <3>4. BlocksMerge(found.build, mode) => built = "restored"
      BY <2>1, <2>3, StrictBlocksMore DEF IInv, BuildAnswersForItself
    <3>5. QED
      BY <2>3, <3>1, <3>2, <3>3, <3>4 DEF ValidExitCode
  <2>4. QED
    BY <2>1, <2>2, <2>3
<1>2. QED
  BY IInvariant, <1>1, PTL

\* count_findings: the two counters of the header decide the gate.
THEOREM CountersDecide == Spec => []CountsDecideGate
<1>1. IInv => CountsDecideGate
  <2> SUFFICES ASSUME IInv, Published, ~internal
               PROVE  doc.exit = "FORMAL_FAILURE" <=>
                        \/ doc.counts.formal_errors > 0
                        \/ mode = "strict" /\ doc.counts.blocking_unverifiable > 0
    BY DEF CountsDecideGate
  <2>1. doc.exit = exit /\ ValidExitCode(AllFound, mode, exit) /\ mode \in Modes
    BY DEF IInv, TypeOK, DocMatchesRun
  <2>2. doc.counts = CountFindings(AllFound)
    BY DEF IInv, DocMatchesRun
  <2>3. Cardinality(FormalErrors(AllFound)) > 0 <=> FormalErrors(AllFound) # {}
    BY CountPositive DEF FormalErrors, IInv, TypeOK
  <2>4. Cardinality(BlockingUnverifiable(AllFound)) > 0
          <=> BlockingUnverifiable(AllFound) # {}
    BY CountPositive DEF BlockingUnverifiable, IInv, TypeOK
  <2>5. BlocksMerge(AllFound, mode) <=>
          \/ FormalErrors(AllFound) # {}
          \/ mode = "strict" /\ BlockingUnverifiable(AllFound) # {}
    BY DEF BlocksMerge, FindingBlocksMerge, FormalErrors, BlockingUnverifiable,
           FindingIsBlockingUnverifiable
  <2>6. exit \notin {"CONFIG_ERROR", "INTERNAL_ERROR"}
    BY DEF IInv, DocMatchesRun, ExitMatchesGate, FormalExitCode
  <2>7. exit = "FORMAL_FAILURE" <=> BlocksMerge(AllFound, mode)
    BY <2>1, <2>6, ValidatorAgrees DEF ValidExitCode
  <2>8. QED
    BY <2>1, <2>2, <2>3, <2>4, <2>5, <2>7 DEF CountFindings
<1>2. QED
  BY IInvariant, <1>1, PTL

\* gate.py: what the LLM and vision layers report never changes the exit code.
THEOREM AdvisoryLayersIgnored == Spec => []AdvisoryLayersNeverDecide
<1>1. IInv => AdvisoryLayersNeverDecide
  BY DEF IInv, ExitMatchesGate, AdvisoryLayersNeverDecide, FormalExitCode,
         BlocksMerge, FindingBlocksMerge
<1>2. QED
  BY IInvariant, <1>1, PTL

\* A run advisory mode lets through and strict mode would not says so twice.
THEOREM AdvisoryVisible == Spec => []AdvisoryIsVisible
<1>1. IInv => AdvisoryIsVisible
  <2> SUFFICES ASSUME IInv, Published, doc.exit = "SUCCESS",
                      BlocksMerge(AllFound, "strict")
               PROVE  doc.gate_status = "degraded" /\ doc.degraded
    BY DEF AdvisoryIsVisible
  <2>1. exit = "SUCCESS" /\ ~BlocksMerge(AllFound, mode) /\ mode \in Modes
    BY ValidatorAgrees DEF IInv, TypeOK, DocMatchesRun, ValidExitCode
  <2>2. mode = "advisory"
    BY <2>1 DEF Modes
  <2>3. PICK f \in AllFound : FindingIsBlockingUnverifiable(f)
    BY <2>1, <2>2 DEF BlocksMerge, FindingBlocksMerge, FindingIsBlockingUnverifiable
  <2>4. GateStatusFor(AllFound, mode, exit) = "degraded"
    BY <2>1, <2>2, <2>3 DEF GateStatusFor, SuppressedUnverifiable
  <2>5. f \in BlockingUnverifiable(AllFound)
    BY <2>3 DEF BlockingUnverifiable, FindingIsBlockingUnverifiable
  <2>6. Cardinality(BlockingUnverifiable(AllFound)) > 0
    BY <2>5, CountPositive DEF BlockingUnverifiable, IInv, TypeOK
  <2>7. HeaderDegraded(AllFound, degraded)
    BY <2>6 DEF HeaderDegraded, CountFindings
  <2>8. QED
    BY <2>4, <2>7 DEF IInv, DocMatchesRun
<1>2. QED
  BY IInvariant, <1>1, PTL

\* gate_status_for: green labels go with exit code 0, and only with it.
THEOREM LabelFitsExit == Spec => []StatusFitsExit
<1>1. IInv => StatusFitsExit
  <2> SUFFICES ASSUME IInv, Published
               PROVE  doc.gate_status \in {"pass", "degraded"} <=> doc.exit = "SUCCESS"
    BY DEF StatusFitsExit
  <2>1. /\ doc.exit = exit
        /\ doc.gate_status = GateStatusFor(AllFound, mode, exit)
        /\ exit \in {"SUCCESS", "FORMAL_FAILURE", "INTERNAL_ERROR"}
        /\ ValidExitCode(AllFound, mode, exit)
    BY DEF IInv, DocMatchesRun, ExitMatchesGate, FormalExitCode, Published, NoDoc
  <2>2. exit = "SUCCESS" => ~BlocksMerge(AllFound, mode)
    BY <2>1, ValidatorAgrees DEF ValidExitCode, IInv, TypeOK
  <2>3. QED
    BY <2>1, <2>2 DEF GateStatusFor
<1>2. QED
  BY IInvariant, <1>1, PTL

\* build_published_report lists every finding that decides the gate.
THEOREM DecidersListed == Spec => []DecidersAreListed
<1>1. IInv => DecidersAreListed
  BY DEF IInv, DocMatchesRun, DecidersAreListed, PublishedFindings, FindingBlocksMerge
<1>2. QED
  BY IInvariant, <1>1, PTL
=============================================================================
