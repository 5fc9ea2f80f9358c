--------------------------- MODULE PipelineProofs ---------------------------
(***************************************************************************)
(* What holds of a shared output directory for every project, rubric, set  *)
(* of requests and number of runs, edits and faults.                       *)
(***************************************************************************)
EXTENDS Pipeline, TLAPS

-----------------------------------------------------------------------------
(* The findings of each stage                                              *)

LEMMA FailureFindingType == TypeOK => FailureFinding \in Findings
<1> SUFFICES ASSUME TypeOK PROVE FailureFinding \in Findings
  OBVIOUS
<1>1. BuildRule \in Rule
  BY RuleAssumption
<1>2. SystemFinding("error", "fail") \in Findings
  BY <1>1 DEF SystemFinding, Findings, FindingOf, Layers, Severities, Statuses,
              AdvisoryLayers
<1>3. SystemFinding("warn", "unverifiable") \in Findings
  BY <1>1 DEF SystemFinding, Findings, FindingOf, Layers, Severities, Statuses,
              AdvisoryLayers
<1>4. QED
  BY <1>2, <1>3 DEF FailureFinding

LEMMA SystemFindingType == SystemFinding("warn", "unverifiable") \in Findings
<1>1. BuildRule \in Rule
  BY RuleAssumption
<1>2. QED
  BY <1>1 DEF SystemFinding, Findings, FindingOf, Layers, Severities, Statuses,
              AdvisoryLayers

LEMMA LlmFindingType ==
  /\ LlmFinding("warn", "unverifiable") \in Findings
  /\ LlmFindings \subseteq Findings
<1> USE DEF LlmFinding, Findings, FindingOf, Layers, Severities, Statuses,
            AdvisoryLayers, AdvisoryStatuses
<1>1. LlmFinding("warn", "unverifiable") \in Findings
  OBVIOUS
<1>2. LlmFinding("warn", "warn") \in Findings
  OBVIOUS
<1>3. LlmFinding("info", "unverifiable") \in Findings
  OBVIOUS
<1>4. QED
  BY <1>1, <1>2, <1>3 DEF LlmFindings

LEMMA AnswersType == ASSUME NEW a \in SemanticAnswers PROVE a \in SUBSET Findings
BY LlmFindingType DEF SemanticAnswers

LEMMA RuleFindingType ==
  ASSUME NEW r \in Rule, NEW s \in Severities, NEW t \in Statuses
  PROVE  RuleFinding(r, s, t) \in Findings
BY DEF RuleFinding, Findings, FindingOf, Layers, AdvisoryLayers

LEMMA VerdictsType ==
  ASSUME NEW answer \in Answers, NEW raised, NEW t
  PROVE  Verdicts(answer, raised, t) \in SUBSET Findings
<1> SUFFICES ASSUME NEW r \in Judged
             PROVE  /\ ToolError(r) \in Findings
                    /\ RuleFinding(r, EffectiveSeverity(r),
                         IF r = BuildRule THEN BuildRuleStatus(answer)
                                          ELSE RuleStatus(r, t)) \in Findings
  BY DEF Verdicts
<1>1. r \in Rule
  BY DEF Judged
<1>2. ToolError(r) \in Findings
  <2>1. /\ "error" \in Severities /\ "fail" \in Statuses
        /\ "warn" \in Severities /\ "unverifiable" \in Statuses
    BY DEF Severities, Statuses
  <2>2. QED
    BY <1>1, <2>1, RuleFindingType DEF ToolError
<1>3. EffectiveSeverity(r) \in Severities
  BY <1>1, RuleAssumption DEF EffectiveSeverity, Severities
<1>4. BuildRuleStatus(answer) \in Statuses
  BY DEF BuildRuleStatus, Statuses, Answers
<1>5. RuleStatus(r, t) \in Statuses
  BY DEF RuleStatus, Statuses
<1>6. QED
  BY <1>1, <1>2, <1>3, <1>4, <1>5, RuleFindingType

-----------------------------------------------------------------------------
(* Type correctness                                                        *)

LEMMA NoFileType == NoFile \in Files
BY PipelineBounds DEF NoFile, Files

LEMMA FirstTreeType == FirstTree \in Trees
BY NoFileType, SourceAssumption, PipelineBounds DEF FirstTree, Trees

LEMMA FreshType == Fresh \in Memories
<1>1. NoKey \in FormalKeys
  BY FirstTreeType, NoFileType DEF NoKey, FormalKeys
<1>2. QED
  BY <1>1, FirstTreeType, NoFileType DEF Fresh, Memories, NoFindings

LEMMA PdfInType == ASSUME NEW t \in Trees PROVE PdfIn(t) \in Files
BY PipelineBounds DEF PdfIn, Trees, Files

\* What is in the project tree after latexmk is a tree again.
LEMMA LatexmkLeavesType ==
  ASSUME TypeOK, NEW answer \in Answers, LatexmkLeaves(answer)
  PROVE  tree' \in Trees
<1>1. tree \in Trees /\ runs \in 0 .. MaxRuns
  BY DEF TypeOK
<1>2. ASSUME NEW l \in Logs PROVE l \in 0 .. MaxRuns
  BY <1>1 DEF Logs, Trees
<1>3. CASE answer = "tool_missing"
  BY <1>1, <1>3 DEF LatexmkLeaves
<1>4. CASE answer = "failed"
  BY <1>1, <1>2, <1>4 DEF LatexmkLeaves, Trees
<1>5. CASE answer = "success" /\ tree.src \in NoPdf
  BY <1>1, <1>2, <1>5, NoFileType DEF LatexmkLeaves, Trees
<1>6. CASE answer = "success" /\ tree.src \notin NoPdf
  <2>1. [src |-> tree.src, run |-> runs] \in Files
    BY <1>1 DEF Trees, Files
  <2>2. QED
    BY <1>1, <1>6, <2>1 DEF LatexmkLeaves, Trees
<1>7. QED
  BY <1>3, <1>4, <1>5, <1>6 DEF Answers

LEMMA FormalKeyType == TypeOK => FormalKey \in FormalKeys
<1> SUFFICES ASSUME TypeOK PROVE FormalKey \in FormalKeys
  OBVIOUS
<1>1. tree \in Trees /\ mem \in Memories /\ req \in RunRequest
  BY RequestAssumption DEF TypeOK
<1>2. tree.src \in Source /\ tree.pdf \in Files
  BY <1>1 DEF Trees
<1>3. BibOf[tree.src] \in Nat
  BY <1>2, SourceAssumption
<1>4. mem.hash \in Trees /\ mem.toolMissing \in BOOLEAN /\ req.failClosed \in BOOLEAN
  BY <1>1 DEF Memories, RunRequest
<1>5. QED
  BY <1>2, <1>3, <1>4, NoFileType DEF FormalKey, FormalKeys

LEMMA InitTypeOK == Init => TypeOK
<1> SUFFICES ASSUME Init PROVE TypeOK
  OBVIOUS
<1>1. tree \in Trees /\ mem \in Memories
  BY FirstTreeType, FreshType DEF Init
<1>2. CacheOK
  BY DEF Init, CacheOK, EmptyCache
<1>3. out \in Outputs
  <2>1. NoReport \in Reports
    BY PipelineBounds DEF NoReport, Reports
  <2>2. QED
    BY <2>1, PipelineBounds DEF Init, Outputs
<1>4. pc \in Points /\ req \in Request /\ sigint \in BOOLEAN
  BY DEF Init, Points
<1>5. exit \in ExitCodes \cup {"none", "running", "killed"}
  BY DEF Init
<1>6. runs \in 0 .. MaxRuns /\ edits \in 0 .. MaxEdits /\ faults \in 0 .. MaxFaults
  BY PipelineBounds DEF Init
<1>7. QED
  BY <1>1, <1>2, <1>3, <1>4, <1>5, <1>6 DEF TypeOK

\* The cache after an entry is added, replaced or lost.
LEMMA PutBuildType ==
  ASSUME CacheOK, NEW k \in Trees, NEW v \in BuildEntries,
         cache' = [cache EXCEPT !.build = Put(@, k, v)]
  PROVE  CacheOK'
BY DEF CacheOK, Put

LEMMA PutFormalType ==
  ASSUME CacheOK, NEW k \in FormalKeys, NEW v \in SUBSET Findings,
         cache' = [cache EXCEPT !.formal = Put(@, k, v)]
  PROVE  CacheOK'
BY DEF CacheOK, Put

LEMMA PutSemanticType ==
  ASSUME CacheOK, NEW k \in SemanticKeys, NEW v \in SUBSET Findings,
         cache' = [cache EXCEPT !.semantic = Put(@, k, v)]
  PROVE  CacheOK'
BY DEF CacheOK, Put

LEMMA CacheLose ==
  ASSUME CacheOK, NEW stage \in DOMAIN cache, NEW k,
         cache' = [cache EXCEPT ![stage] = Without(@, k)]
  PROVE  CacheOK'
BY DEF CacheOK, Without

LEMMA BuildStep == TypeOK /\ Build => TypeOK'
<1> SUFFICES ASSUME TypeOK, Build PROVE TypeOK'
  OBVIOUS
<1>0. tree \in Trees /\ CacheOK /\ mem \in Memories /\ mem.hash \in Trees
  BY DEF TypeOK, Memories
<1>1. PdfAtHand \in Files
  BY <1>0, PdfInType DEF PdfAtHand
<1>2. CASE BuildHit
  <2> DEFINE e == cache.build[mem.hash]
  <2>1. e \in BuildEntries
    BY <1>0, <1>2 DEF BuildHit, CacheOK
  <2>2. mem' \in Memories
    BY <1>0, <1>2, <2>1 DEF BuildHit, BuildEntries, Memories
  <2>3. QED
    BY <1>2, <2>2 DEF BuildHit, TypeOK, CacheOK, env, Points
<1>3. CASE BuildMiss
  <2>1. mem' \in Memories
    BY <1>0, <1>1, <1>3 DEF BuildMiss, Memories
  <2>2. QED
    BY <1>3, <2>1 DEF BuildMiss, TypeOK, CacheOK, env, Points, Finish, ExitCodes
<1>4. CASE PutBuild
  <2>1. [findings |-> mem.found.build, pdf |-> mem.pdf,
         toolMissing |-> mem.toolMissing, degraded |-> mem.degraded] \in BuildEntries
    BY <1>0 DEF Memories, BuildEntries
  <2>2. CacheOK'
    BY <1>0, <1>4, <2>1, PutBuildType DEF PutBuild
  <2>3. QED
    BY <1>4, <2>2 DEF PutBuild, Goto, TypeOK, env, Points
<1>5. CASE ExtractOnly
  <2>1. mem' \in Memories
    BY <1>0, <1>1, <1>5 DEF ExtractOnly, Memories
  <2>2. QED
    BY <1>5, <2>1 DEF ExtractOnly, TypeOK, CacheOK, env, Points, Finish, ExitCodes
<1>6. ASSUME NEW answer \in Answers, Latexmk(answer) PROVE TypeOK'
  <2>1. tree' \in Trees /\ tree'.pdf \in Files
    BY <1>6, LatexmkLeavesType DEF Latexmk, Trees
  <2>2. req.failClosed \in BOOLEAN
    BY RequestAssumption DEF TypeOK, RunRequest
  <2>3. mem' \in Memories
    BY <1>0, <1>6, <2>1, <2>2, SystemFindingType, FailureFindingType
       DEF Latexmk, Memories
  <2>4. faults' \in 0 .. MaxFaults
    BY <1>6, PipelineBounds DEF Latexmk, LatexmkAnswers, Fault, TypeOK
  <2>5. QED
    BY <1>6, <2>1, <2>3, <2>4 DEF Latexmk, TypeOK, CacheOK, Points
<1>7. CASE WriteStage("build", "writeBuild", "check1")
  <2>1. out' \in Outputs
    BY <1>7 DEF WriteStage, TypeOK, Outputs, Stage
  <2>2. QED
    BY <1>7, <2>1 DEF WriteStage, Goto, TypeOK, CacheOK, env, Points
<1>8. CASE CheckCanceled("check1", IF "formal" \in req.stages THEN "formal" ELSE "check2")
  BY <1>8 DEF CheckCanceled, Goto, TypeOK, CacheOK, env, Points
<1>9. QED
  BY <1>2, <1>3, <1>4, <1>5, <1>6, <1>7, <1>8 DEF Build

LEMMA FormalStep == TypeOK /\ Formal => TypeOK'
<1> SUFFICES ASSUME TypeOK, Formal PROVE TypeOK'
  OBVIOUS
<1>0. /\ tree \in Trees /\ CacheOK /\ mem \in Memories
      /\ mem.key \in FormalKeys /\ mem.found.formal \in SUBSET Findings
  BY DEF TypeOK, Memories
<1>2. CASE FormalHit
  <2>1. cache.formal[FormalKey] \in SUBSET Findings
    BY <1>0, <1>2 DEF FormalHit, CacheOK
  <2>2. mem' \in Memories
    BY <1>0, <1>2, <2>1 DEF FormalHit, Memories
  <2>3. QED
    BY <1>2, <2>2 DEF FormalHit, TypeOK, CacheOK, env, Points
<1>3. CASE FormalMiss
  <2>1. mem' \in Memories
    BY <1>0, <1>3, FormalKeyType DEF FormalMiss, Memories
  <2>2. QED
    BY <1>3, <2>1 DEF FormalMiss, TypeOK, CacheOK, env, Points
<1>4. CASE EngineFails
  <2>1. req.failClosed \in BOOLEAN
    BY RequestAssumption DEF TypeOK, RunRequest
  <2>2. mem' \in Memories
    BY <1>0, <1>4, <2>1, FailureFindingType DEF EngineFails, Memories
  <2>3. faults' \in 0 .. MaxFaults
    BY <1>4, PipelineBounds DEF EngineFails, Fault, TypeOK
  <2>4. QED
    BY <1>4, <2>2, <2>3 DEF EngineFails, TypeOK, CacheOK, Points
<1>5. CASE PutFormal
  <2>1. CacheOK'
    BY <1>0, <1>5, PutFormalType DEF PutFormal
  <2>2. QED
    BY <1>5, <2>1 DEF PutFormal, Goto, TypeOK, env, Points
<1>6. ASSUME NEW answer \in Answers, NEW raised, Engine(answer, raised) PROVE TypeOK'
  <2>1. tree' \in Trees
    BY <1>0, <1>6, LatexmkLeavesType DEF Engine
  <2>2. mem' \in Memories
    BY <1>0, <1>6, VerdictsType DEF Engine, Memories
  <2>3. faults' \in 0 .. MaxFaults
    BY <1>6, PipelineBounds DEF Engine, LatexmkAnswers, Fault, TypeOK
  <2>4. QED
    BY <1>6, <2>1, <2>2, <2>3 DEF Engine, Goto, TypeOK, CacheOK, Points
<1>7. CASE WriteStage("formal", "writeFormal", "check2")
  <2>1. out' \in Outputs
    BY <1>7 DEF WriteStage, TypeOK, Outputs, Stage
  <2>2. QED
    BY <1>7, <2>1 DEF WriteStage, Goto, TypeOK, CacheOK, env, Points
<1>8. CASE CheckCanceled("check2", IF "semantic" \in req.stages THEN "semantic" ELSE "check3")
  BY <1>8 DEF CheckCanceled, Goto, TypeOK, CacheOK, env, Points
<1>9. QED
  BY <1>2, <1>3, <1>4, <1>5, <1>6, <1>7, <1>8 DEF Formal

LEMMA SemanticStep == TypeOK /\ Semantic => TypeOK'
<1> SUFFICES ASSUME TypeOK, Semantic PROVE TypeOK'
  OBVIOUS
<1>0. CacheOK /\ mem \in Memories /\ mem.hash \in Trees
  BY DEF TypeOK, Memories
<1>1. CASE SemanticConfigError
  <2>1. mem' \in Memories
    BY <1>0, <1>1, LlmFindingType DEF SemanticConfigError, Memories
  <2>2. QED
    BY <1>1, <2>1 DEF SemanticConfigError, TypeOK, CacheOK, env, Points
<1>2. CASE SemanticSkip
  BY <1>2 DEF SemanticSkip, TypeOK, CacheOK, env, Points
<1>3. CASE SemanticHit
  <2>1. cache.semantic[SemanticKey] \in SUBSET Findings
    BY <1>0, <1>3 DEF SemanticHit, CacheOK
  <2>2. mem' \in Memories
    BY <1>0, <1>3, <2>1 DEF SemanticHit, Memories
  <2>3. QED
    BY <1>3, <2>2 DEF SemanticHit, TypeOK, CacheOK, env, Points
<1>4. ASSUME NEW answer \in SemanticAnswers, SemanticMiss(answer) PROVE TypeOK'
  <2>1. answer \in SUBSET Findings
    BY AnswersType
  <2>2. mem' \in Memories
    BY <1>0, <1>4, <2>1 DEF SemanticMiss, Memories
  <2>3. SemanticKey \in SemanticKeys
    BY <1>0, <1>4 DEF SemanticMiss, SemanticKey, SemanticKeys
  <2>4. CacheOK'
    BY <1>0, <1>4, <2>1, <2>3, PutSemanticType DEF SemanticMiss
  <2>5. QED
    BY <1>4, <2>2, <2>4 DEF SemanticMiss, TypeOK, env, Points
<1>5. CASE WriteStage("semantic", "writeSemantic", "check3")
  <2>1. out' \in Outputs
    BY <1>5 DEF WriteStage, TypeOK, Outputs, Stage
  <2>2. QED
    BY <1>5, <2>1 DEF WriteStage, Goto, TypeOK, CacheOK, env, Points
<1>6. CASE CheckCanceled("check3", "publish")
  BY <1>6 DEF CheckCanceled, Goto, TypeOK, CacheOK, env, Points
<1>7. QED
  BY <1>1, <1>2, <1>3, <1>4, <1>5, <1>6 DEF Semantic

LEMMA ExitCodesType ==
  /\ ResolveExitCode \in ExitCodes
  /\ FormalExitCode(AllFound(mem), req.mode) \in ExitCodes
BY DEF ResolveExitCode, FormalExitCode, ExitCodes

LEMMA ReportsType ==
  ASSUME TypeOK, NEW code \in ExitCodes
  PROVE  Report(code) \in Reports /\ RawReport(code) \in Reports
<1>1. GateStatusFor(AllFound(mem), req.mode, code) \in GateStatuses
  BY DEF GateStatusFor, GateStatuses
<1>2. mem.degraded \in BOOLEAN
  BY DEF TypeOK, Memories
<1>3. HeaderDegraded(AllFound(mem), mem.degraded) \in BOOLEAN
  BY <1>2 DEF HeaderDegraded
<1>4. runs \in 0 .. MaxRuns
  BY DEF TypeOK
<1>5. QED
  BY <1>1, <1>3, <1>4 DEF Report, RawReport, Reports

LEMMA PublicationStep == TypeOK /\ Publication => TypeOK'
<1> SUFFICES ASSUME TypeOK, Publication PROVE TypeOK'
  OBVIOUS
<1>0. out \in Outputs /\ runs \in 0 .. MaxRuns
  BY DEF TypeOK
<1>1. /\ Report(ResolveExitCode) \in Reports
      /\ RawReport(ResolveExitCode) \in Reports
      /\ RawReport(FormalExitCode(AllFound(mem), req.mode)) \in Reports
  BY ExitCodesType, ReportsType
<1>2. CASE PublishReport
  <2>1. out' \in Outputs
    BY <1>0, <1>1, <1>2 DEF PublishReport, Outputs
  <2>2. QED
    BY <1>2, <2>1 DEF PublishReport, TypeOK, CacheOK, env, Points
<1>3. CASE RejectReport
  BY <1>3 DEF RejectReport, Finish, TypeOK, CacheOK, Points, ExitCodes
<1>4. CASE PublishMarkdown
  <2>1. out' \in Outputs
    BY <1>0, <1>4 DEF PublishMarkdown, Outputs
  <2>2. QED
    BY <1>4, <2>1 DEF PublishMarkdown, Goto, TypeOK, CacheOK, env, Points
<1>5. CASE PublishSummary
  <2>1. out' \in Outputs
    BY <1>0, <1>1, <1>5 DEF PublishSummary, Outputs
  <2>2. QED
    BY <1>5, <2>1 DEF PublishSummary, Goto, TypeOK, CacheOK, env, Points
<1>6. CASE WriteStage("aggregate", "writeAggregate", "runState")
  <2>1. out' \in Outputs
    BY <1>0, <1>6 DEF WriteStage, Outputs, Stage
  <2>2. QED
    BY <1>6, <2>1 DEF WriteStage, Goto, TypeOK, CacheOK, env, Points
<1>7. CASE WriteRunState
  <2>1. out' \in Outputs
    BY <1>0, <1>7 DEF WriteRunState, Outputs
  <2>2. QED
    BY <1>7, <2>1, ExitCodesType DEF WriteRunState, Finish, TypeOK, CacheOK, Points
<1>8. CASE WriteCanceled
  <2>1. out' \in Outputs
    BY <1>0, <1>1, <1>8 DEF WriteCanceled, Outputs
  <2>2. QED
    BY <1>8, <2>1 DEF WriteCanceled, Goto, TypeOK, CacheOK, env, Points
<1>9. CASE WriteCanceledReport
  <2>1. out' \in Outputs
    BY <1>0, <1>1, <1>9 DEF WriteCanceledReport, Outputs
  <2>2. QED
    BY <1>9, <2>1, ExitCodesType
       DEF WriteCanceledReport, Goto, TypeOK, CacheOK, Points
<1>10. QED
  BY <1>2, <1>3, <1>4, <1>5, <1>6, <1>7, <1>8, <1>9 DEF Publication

\* Start of a run, and what the environment does.
Surroundings ==
    \/ \E r \in Request : Launch(r)
    \/ HashSource
    \/ \E s \in Source : Edit(s)
    \/ Clean \/ Sigint \/ Crash \/ RaiseError \/ LoseEntry

LEMMA SurroundingsStep == TypeOK /\ Surroundings => TypeOK'
<1> SUFFICES ASSUME TypeOK, Surroundings PROVE TypeOK'
  OBVIOUS
<1>0. /\ tree \in Trees /\ CacheOK /\ mem \in Memories
      /\ faults \in 0 .. MaxFaults /\ MaxFaults \in Nat
  BY PipelineBounds DEF TypeOK
<1>1. ASSUME NEW r \in Request, Launch(r) PROVE TypeOK'
  <2>1. mem' \in Memories
    BY <1>1, FreshType DEF Launch
  <2>2. runs' \in 0 .. MaxRuns
    BY <1>1, PipelineBounds DEF Launch, TypeOK
  <2>3. QED
    BY <1>1, <2>1, <2>2 DEF Launch, TypeOK, CacheOK, Points
<1>2. CASE HashSource
  <2>1. mem' \in Memories
    BY <1>0, <1>2 DEF HashSource, Memories
  <2>2. QED
    BY <1>2, <2>1 DEF HashSource, Goto, TypeOK, CacheOK, env, Points
<1>3. ASSUME NEW s \in Source, Edit(s) PROVE TypeOK'
  <2>1. tree' \in Trees
    BY <1>0, <1>3 DEF Edit, Trees
  <2>2. edits' \in 0 .. MaxEdits
    BY <1>3, PipelineBounds DEF Edit, TypeOK
  <2>3. QED
    BY <1>3, <2>1, <2>2 DEF Edit, TypeOK, CacheOK
<1>4. CASE Clean
  <2>0. 0 \in 0 .. MaxRuns
    BY PipelineBounds
  <2>1. tree' \in Trees
    <3>1. tree' = [tree EXCEPT !.pdf = NoFile, !.log = 0]
      BY <1>4 DEF Clean
    <3>2. QED
      BY <1>0, <2>0, <3>1, NoFileType DEF Trees
  <2>2. faults' \in 0 .. MaxFaults
    BY <1>0, <1>4 DEF Clean, Fault
  <2>3. QED
    BY <1>4, <2>1, <2>2 DEF Clean, TypeOK, CacheOK
<1>5. CASE Sigint \/ Crash \/ RaiseError
  <2>1. faults' \in 0 .. MaxFaults
    BY <1>0, <1>5 DEF Sigint, Crash, RaiseError, Fault
  <2>2. QED
    BY <1>5, <2>1 DEF Sigint, Crash, RaiseError, TypeOK, CacheOK, Points, ExitCodes
<1>6. CASE LoseEntry
  <2>1. CacheOK'
    BY <1>0, <1>6, CacheLose DEF LoseEntry
  <2>2. faults' \in 0 .. MaxFaults
    BY <1>0, <1>6 DEF LoseEntry, Fault
  <2>3. QED
    BY <1>6, <2>1, <2>2 DEF LoseEntry, TypeOK
<1>7. QED
  BY <1>1, <1>2, <1>3, <1>4, <1>5, <1>6 DEF Surroundings

LEMMA TypeStep == TypeOK /\ [Next]_vars => TypeOK'
<1> SUFFICES ASSUME TypeOK, [Next]_vars PROVE TypeOK'
  OBVIOUS
<1>1. CASE UNCHANGED vars
  BY <1>1 DEF vars, env, TypeOK, CacheOK
<1>2. CASE Next
  <2>1. Build \/ Formal \/ Semantic \/ Publication \/ Surroundings
    BY <1>2 DEF Next, RunStep, Surroundings
  <2>2. QED
    BY <2>1, BuildStep, FormalStep, SemanticStep, PublicationStep, SurroundingsStep
<1>3. QED
  BY <1>1, <1>2

-----------------------------------------------------------------------------
(* Fail-open runs                                                          *)

\* What the build and semantic stages say cannot block, so the exit code that
\* the formal findings give is the one RunReport asks for.
LEMMA HarmlessAccepted ==
  ASSUME Harmless(mem.found.build), Harmless(mem.found.semantic), req.mode \in Modes
  PROVE  Accepted(FormalExitCode(mem.found.formal, req.mode))
<1> DEFINE Blocks(f) == FindingBlocksMerge(f, req.mode)
<1>1. ASSUME NEW f, Blocks(f) PROVE FindingBlocksMerge(f, "strict")
  BY <1>1 DEF FindingBlocksMerge
<1>2. ASSUME NEW f \in AllFound(mem), Blocks(f) PROVE f \in mem.found.formal
  BY <1>1, <1>2 DEF AllFound, Harmless
<1>3. BlocksMerge(AllFound(mem), req.mode) <=> BlocksMerge(mem.found.formal, req.mode)
  BY <1>2 DEF BlocksMerge, AllFound
<1>4. HasBlockingFormalFinding(AllFound(mem), req.mode)
        <=> BlocksMerge(AllFound(mem), req.mode)
  BY DEF HasBlockingFormalFinding, BlocksMerge, FindingBlocksMerge, FormalLayers,
         BlockingStatuses, Modes
<1>5. QED
  BY <1>3, <1>4 DEF Accepted, ValidExitCode, FormalExitCode

LEMMA HarmlessFindings ==
  /\ Harmless({}) /\ Harmless({SystemFinding("warn", "unverifiable")})
  /\ ~req.failClosed => Harmless({FailureFinding})
  /\ \A answer \in SemanticAnswers : Harmless(answer)
  /\ Harmless({LlmFinding("warn", "unverifiable")})
<1> USE DEF Harmless, FindingBlocksMerge, FormalLayers
<1>1. Harmless({})
  OBVIOUS
<1>2. Harmless({SystemFinding("warn", "unverifiable")})
  BY DEF SystemFinding
<1>3. ~req.failClosed => Harmless({FailureFinding})
  BY DEF FailureFinding, SystemFinding
<1>4. Harmless({LlmFinding("warn", "unverifiable")})
  BY DEF LlmFinding
<1>5. ASSUME NEW answer \in SemanticAnswers PROVE Harmless(answer)
  <2>1. \A f \in answer : f.layer = "llm"
    BY DEF SemanticAnswers, LlmFindings, LlmFinding
  <2>2. QED
    BY <2>1
<1>6. QED
  BY <1>1, <1>2, <1>3, <1>4, <1>5

LEMMA QuietStep ==
  ASSUME TypeOK, FailOpenOnly, QuietRuns, [Next]_vars
  PROVE  QuietRuns'
<1>0. /\ ~req.failClosed /\ req.mode \in Modes
      /\ Harmless(mem.found.build) /\ Harmless(mem.found.semantic)
      /\ mem \in Memories /\ ~mem.internal /\ exit # "INTERNAL_ERROR"
      /\ CacheOK
  BY RequestAssumption DEF TypeOK, FailOpenOnly, QuietRuns, HarmlessStages, RunRequest
<1>1. /\ \A k \in DOMAIN cache.build : Harmless(cache.build[k].findings)
      /\ \A k \in DOMAIN cache.semantic : Harmless(cache.semantic[k])
  BY DEF QuietRuns, HarmlessStages
<1>2. Accepted(ResolveExitCode) /\ ResolveExitCode # "INTERNAL_ERROR"
  BY <1>0, HarmlessAccepted DEF ResolveExitCode, FormalExitCode
<1> DEFINE SameCache == cache' = cache
           QuietMem == /\ Harmless(mem'.found.build) /\ Harmless(mem'.found.semantic)
                       /\ ~mem'.internal
<1>3. ASSUME SameCache, QuietMem, exit' # "INTERNAL_ERROR" PROVE QuietRuns'
  BY <1>1, <1>3 DEF QuietRuns, HarmlessStages, Harmless
<1>4. ASSUME mem' = mem PROVE QuietMem
  BY <1>0, <1>4
<1> HIDE DEF SameCache, QuietMem
<1>5. CASE Build
  <2>1. CASE BuildHit
    <3>1. QuietMem
      BY <1>0, <1>1, <2>1 DEF BuildHit, QuietMem, Memories
    <3>2. QED
      BY <1>0, <1>3, <2>1, <3>1 DEF BuildHit, env, SameCache
  <2>2. CASE BuildMiss \/ ExtractOnly
    <3>1. QuietMem
      BY <1>0, <2>2 DEF BuildMiss, ExtractOnly, QuietMem, Memories
    <3>2. QED
      BY <1>0, <1>3, <2>2, <3>1 DEF BuildMiss, ExtractOnly, Finish, env, SameCache
  <2>3. CASE PutBuild
    <3>1. cache'.semantic = cache.semantic
      BY <1>0, <2>3 DEF PutBuild, CacheOK
    <3>2. \A k \in DOMAIN cache'.build : Harmless(cache'.build[k].findings)
      BY <1>0, <1>1, <2>3 DEF PutBuild, CacheOK, Put
    <3>3. mem' = mem /\ exit' = exit
      BY <2>3 DEF PutBuild, env
    <3>4. QED
      BY <1>0, <1>1, <3>1, <3>2, <3>3 DEF QuietRuns, HarmlessStages, Harmless
  <2>4. ASSUME NEW answer \in Answers, Latexmk(answer) PROVE QuietRuns'
    <3>1. QuietMem
      BY <1>0, <2>4, HarmlessFindings DEF Latexmk, QuietMem, Memories
    <3>2. QED
      BY <1>0, <1>3, <2>4, <3>1 DEF Latexmk, SameCache
  <2>5. CASE \/ WriteStage("build", "writeBuild", "check1")
             \/ CheckCanceled("check1", IF "formal" \in req.stages THEN "formal"
                                                                  ELSE "check2")
    BY <1>0, <1>3, <1>4, <2>5 DEF WriteStage, CheckCanceled, env, SameCache
  <2>6. QED
    BY <1>5, <2>1, <2>2, <2>3, <2>4, <2>5 DEF Build
<1>6. CASE Formal
  <2>1. CASE FormalHit \/ FormalMiss
    <3>1. QuietMem
      BY <1>0, <2>1 DEF FormalHit, FormalMiss, QuietMem, Memories
    <3>2. QED
      BY <1>0, <1>3, <2>1, <3>1 DEF FormalHit, FormalMiss, env, SameCache
  <2>2. CASE EngineFails
    <3>1. QuietMem
      BY <1>0, <2>2 DEF EngineFails, QuietMem, Memories
    <3>2. QED
      BY <1>0, <1>3, <2>2, <3>1 DEF EngineFails, SameCache
  <2>3. CASE PutFormal
    <3>1. cache'.semantic = cache.semantic /\ cache'.build = cache.build
      BY <1>0, <2>3 DEF PutFormal, CacheOK
    <3>2. mem' = mem /\ exit' = exit
      BY <2>3 DEF PutFormal, env
    <3>3. QED
      BY <1>0, <1>1, <3>1, <3>2 DEF QuietRuns, HarmlessStages, Harmless
  <2>4. ASSUME NEW answer \in Answers, NEW raised, Engine(answer, raised)
        PROVE  QuietRuns'
    <3>1. QuietMem
      BY <1>0, <2>4 DEF Engine, QuietMem, Memories
    <3>2. QED
      BY <1>0, <1>3, <2>4, <3>1 DEF Engine, SameCache
  <2>5. CASE \/ WriteStage("formal", "writeFormal", "check2")
             \/ CheckCanceled("check2", IF "semantic" \in req.stages THEN "semantic"
                                                                    ELSE "check3")
    BY <1>0, <1>3, <1>4, <2>5 DEF WriteStage, CheckCanceled, env, SameCache
  <2>6. QED
    BY <1>6, <2>1, <2>2, <2>3, <2>4, <2>5 DEF Formal
<1>7. CASE Semantic
  <2>1. CASE SemanticConfigError \/ SemanticHit \/ SemanticSkip
    <3>1. ASSUME NEW F, Harmless(F), mem' = [mem EXCEPT !.found.semantic = F]
          PROVE  QuietMem
      BY <1>0, <3>1 DEF QuietMem, Memories
    <3>2. ASSUME SemanticConfigError PROVE QuietMem
      BY <3>1, <3>2, HarmlessFindings DEF SemanticConfigError
    <3>3. ASSUME SemanticHit PROVE QuietMem
      BY <1>1, <3>1, <3>3 DEF SemanticHit
    <3>4. ASSUME SemanticSkip PROVE QuietMem
      BY <1>4, <3>4 DEF SemanticSkip
    <3>5. QuietMem
      BY <2>1, <3>2, <3>3, <3>4
    <3>6. QED
      BY <1>0, <1>3, <2>1, <3>5
         DEF SemanticConfigError, SemanticHit, SemanticSkip, env, SameCache
  <2>2. ASSUME NEW answer \in SemanticAnswers, SemanticMiss(answer) PROVE QuietRuns'
    <3>1. QuietMem
      BY <1>0, <2>2, HarmlessFindings DEF SemanticMiss, QuietMem, Memories
    <3>2. cache'.build = cache.build /\ exit' = exit
      BY <1>0, <2>2 DEF SemanticMiss, CacheOK, env
    <3>3. \A k \in DOMAIN cache'.semantic : Harmless(cache'.semantic[k])
      BY <1>0, <1>1, <2>2, HarmlessFindings DEF SemanticMiss, CacheOK, Put
    <3>4. QED
      BY <1>0, <1>1, <3>1, <3>2, <3>3
         DEF QuietRuns, HarmlessStages, Harmless, QuietMem
  <2>3. CASE WriteStage("semantic", "writeSemantic", "check3")
             \/ CheckCanceled("check3", "publish")
    BY <1>0, <1>3, <1>4, <2>3 DEF WriteStage, CheckCanceled, env, SameCache
  <2>4. QED
    BY <1>7, <2>1, <2>2, <2>3 DEF Semantic
<1>8. CASE Publication
  <2>1. ~RejectReport
    BY <1>2 DEF RejectReport
  <2>2. mem' = mem /\ SameCache
    BY <1>8 DEF Publication, PublishReport, RejectReport, PublishMarkdown,
       PublishSummary, WriteStage, WriteRunState, WriteCanceled,
       WriteCanceledReport, SameCache
  <2>3. exit' # "INTERNAL_ERROR"
    BY <1>0, <1>2, <1>8, <2>1 DEF Publication, PublishReport, PublishMarkdown,
       PublishSummary, WriteStage, WriteRunState, WriteCanceled,
       WriteCanceledReport, Finish, FormalExitCode, env
  <2>4. QED
    BY <1>3, <1>4, <2>2, <2>3
<1>9. CASE Surroundings
  <2>1. ASSUME NEW r \in Request, Launch(r) PROVE QuietRuns'
    <3>1. mem'.found = NoFindings /\ ~mem'.internal
      BY <2>1 DEF Launch, Fresh
    <3>2. QuietMem
      BY <3>1, HarmlessFindings DEF QuietMem, NoFindings
    <3>3. QED
      BY <1>3, <2>1, <3>2 DEF Launch, SameCache
  <2>2. CASE HashSource
    <3>1. QuietMem
      BY <1>0, <2>2 DEF HashSource, QuietMem, Memories
    <3>2. QED
      BY <1>0, <1>3, <2>2, <3>1 DEF HashSource, env, SameCache
  <2>3. CASE (\E s \in Source : Edit(s)) \/ Clean \/ Sigint \/ Crash \/ RaiseError
    BY <1>0, <1>3, <1>4, <2>3 DEF Edit, Clean, Sigint, Crash, RaiseError, SameCache
  <2>4. CASE LoseEntry
    <3>1. /\ \A k \in DOMAIN cache'.build : Harmless(cache'.build[k].findings)
          /\ \A k \in DOMAIN cache'.semantic : Harmless(cache'.semantic[k])
      BY <1>0, <1>1, <2>4 DEF LoseEntry, CacheOK, Without
    <3>2. mem' = mem /\ exit' = exit
      BY <2>4 DEF LoseEntry
    <3>3. QED
      BY <1>0, <3>1, <3>2 DEF QuietRuns, HarmlessStages, Harmless
  <2>5. QED
    BY <1>9, <2>1, <2>2, <2>3, <2>4 DEF Surroundings
<1>10. CASE UNCHANGED vars
  BY <1>0, <1>3, <1>4, <1>10 DEF vars, env, SameCache
<1>11. QED
  <2>1. [Next]_vars
    OBVIOUS
  <2>2. Build \/ Formal \/ Semantic \/ Publication \/ Surroundings \/ UNCHANGED vars
    BY <2>1 DEF Next, RunStep, Surroundings
  <2>3. QED
    BY <2>2, <1>5, <1>6, <1>7, <1>8, <1>9, <1>10

-----------------------------------------------------------------------------
(* The published files                                                     *)

LEMMA RunNumbers ==
  TypeOK => /\ runs \in Nat /\ out.report.run \in Nat /\ out.markdown \in Nat
            /\ out.summary.run \in Nat /\ out.runState \in Nat
BY PipelineBounds DEF TypeOK, Outputs, Reports

\* Steps that leave the reports alone, as most do.
LEMMA ReportsUntouched ==
  ASSUME ReportNeverOlder, ReportInOrder, TypeOK,
         /\ out'.report = out.report /\ out'.markdown = out.markdown
         /\ out'.summary = out.summary /\ out'.runState = out.runState,
         runs' = runs, pc' \notin Written,
         (pc # "idle" /\ pc \notin Written) \/ pc' = "idle"
  PROVE  ReportNeverOlder' /\ ReportInOrder'
<1>1. ReportNeverOlder'
  BY DEF ReportNeverOlder
<1>2. out.report.run <= runs /\ (pc' # "idle" => out.report.run < runs)
  BY DEF ReportInOrder
<1>3. pc' \notin {"markdown", "summary"}
  BY DEF Written
<1>4. QED
  BY <1>1, <1>2, <1>3 DEF ReportInOrder

LEMMA BeforePublication ==
  ASSUME ReportNeverOlder, ReportInOrder, TypeOK, Build \/ Formal \/ Semantic
  PROVE  ReportNeverOlder' /\ ReportInOrder'
<1>1. CASE Build
  BY <1>1, ReportsUntouched DEF Build, BuildHit, BuildMiss, PutBuild, ExtractOnly,
     Latexmk, WriteStage, CheckCanceled, Goto, Finish, env, Written, TypeOK, Outputs
<1>2. CASE Formal
  BY <1>2, ReportsUntouched DEF Formal, FormalHit, FormalMiss, EngineFails, PutFormal,
     Engine, WriteStage, CheckCanceled, Goto, env, Written, TypeOK, Outputs
<1>3. CASE Semantic
  BY <1>3, ReportsUntouched DEF Semantic, SemanticConfigError, SemanticSkip,
     SemanticHit, SemanticMiss, WriteStage, CheckCanceled, Goto, env, Written,
     TypeOK, Outputs
<1>4. QED
  BY <1>1, <1>2, <1>3

LEMMA AroundRuns ==
  ASSUME ReportNeverOlder, ReportInOrder, TypeOK, Surroundings
  PROVE  ReportNeverOlder' /\ ReportInOrder'
<1>1. ASSUME NEW r \in Request, Launch(r) PROVE ReportNeverOlder' /\ ReportInOrder'
  <2>1. out' = out /\ runs' = runs + 1 /\ pc' = "hash"
    BY <1>1 DEF Launch
  <2>2. out.report.run < runs'
    BY <2>1, RunNumbers DEF ReportInOrder
  <2>3. QED
    BY <2>1, <2>2, RunNumbers DEF ReportNeverOlder, ReportInOrder, Written
<1>2. CASE HashSource
  BY <1>2, ReportsUntouched DEF HashSource, Goto, env, Written
<1>3. CASE (\E s \in Source : Edit(s)) \/ Clean \/ Sigint \/ LoseEntry
  <2>1. out' = out /\ runs' = runs /\ pc' = pc /\ mem' = mem /\ req' = req
    BY <1>3 DEF Edit, Clean, Sigint, LoseEntry
  <2>2. Report(ResolveExitCode)' = Report(ResolveExitCode)
    BY <2>1 DEF Report, ResolveExitCode, AllFound
  <2>3. QED
    BY <2>1, <2>2 DEF ReportNeverOlder, ReportInOrder
<1>4. CASE Crash \/ RaiseError
  BY <1>4, ReportsUntouched DEF Crash, RaiseError, Written
<1>5. QED
  BY <1>1, <1>2, <1>3, <1>4 DEF Surroundings

LEMMA DuringPublication ==
  ASSUME ReportNeverOlder, ReportInOrder, TypeOK, Publication
  PROVE  ReportNeverOlder' /\ ReportInOrder'
<1>0. /\ mem' = mem /\ req' = req /\ runs' = runs
      /\ Report(ResolveExitCode)' = Report(ResolveExitCode)
  <2>1. mem' = mem /\ req' = req /\ runs' = runs
    BY DEF Publication, PublishReport, RejectReport, PublishMarkdown,
       PublishSummary, WriteStage, WriteRunState, WriteCanceled,
       WriteCanceledReport, Finish, env
  <2>2. QED
    BY <2>1 DEF Report, ResolveExitCode, AllFound
<1>a. out \in Outputs
  BY DEF TypeOK
<1>1. CASE PublishReport
  \* The files of earlier runs are older than the report of this one.
  <2>1. out.report.run < runs
    BY <1>1 DEF PublishReport, ReportInOrder, Written
  <2>2. /\ out.markdown < runs /\ out.summary.run < runs /\ out.runState < runs
    BY <2>1, RunNumbers DEF ReportNeverOlder
  <2>3. /\ out'.markdown = out.markdown /\ out'.summary = out.summary
        /\ out'.runState = out.runState /\ out'.report.run = runs
    BY <1>a, <1>1 DEF PublishReport, Outputs, Report, RawReport
  <2>4. ReportNeverOlder'
    BY <2>2, <2>3, RunNumbers DEF ReportNeverOlder
  <2>5. pc' = "markdown" => out'.report = Report(ResolveExitCode)
    BY <1>a, <1>1 DEF PublishReport, Outputs
  <2>6. pc' \in {"markdown", "runState"}
    BY <1>1 DEF PublishReport
  <2>7. QED
    BY <1>0, <2>3, <2>4, <2>5, <2>6, RunNumbers DEF ReportInOrder, Written
<1>2. CASE RejectReport
  BY <1>2, ReportsUntouched DEF RejectReport, Finish, Written
<1>3. CASE PublishMarkdown
  <2>1. /\ out'.markdown = runs /\ out'.report = out.report
        /\ out'.summary = out.summary /\ out'.runState = out.runState
        /\ pc = "markdown" /\ pc' = "summary"
    BY <1>a, <1>3 DEF PublishMarkdown, Goto, Outputs
  <2>2. out.report.run = runs /\ out.report = Report(ResolveExitCode)
    BY <2>1 DEF ReportInOrder, Written
  <2>3. QED
    BY <1>0, <2>1, <2>2, RunNumbers DEF ReportNeverOlder, ReportInOrder, Written
<1>4. CASE PublishSummary
  <2>1. /\ out'.summary = Report(ResolveExitCode) /\ out'.report = out.report
        /\ out'.markdown = out.markdown /\ out'.runState = out.runState
        /\ pc = "summary" /\ pc' = "writeAggregate"
    BY <1>a, <1>4 DEF PublishSummary, Goto, Outputs
  <2>2. out.report.run = runs /\ out.report = Report(ResolveExitCode)
    BY <2>1 DEF ReportInOrder, Written
  <2>3. QED
    BY <1>0, <2>1, <2>2, RunNumbers DEF ReportNeverOlder, ReportInOrder, Written
<1>5. CASE WriteStage("aggregate", "writeAggregate", "runState")
  <2>1. /\ out'.report = out.report /\ out'.markdown = out.markdown
        /\ out'.summary = out.summary /\ out'.runState = out.runState
        /\ pc = "writeAggregate" /\ pc' = "runState"
    BY <1>a, <1>5 DEF WriteStage, Goto, Outputs
  <2>2. out.report.run = runs
    BY <2>1 DEF ReportInOrder, Written
  <2>3. QED
    BY <1>0, <2>1, <2>2, RunNumbers DEF ReportNeverOlder, ReportInOrder, Written
<1>6. CASE WriteRunState
  <2>1. /\ out'.report = out.report /\ out'.markdown = out.markdown
        /\ out'.summary = out.summary /\ out'.runState = runs
        /\ pc = "runState" /\ pc' = "idle"
    BY <1>a, <1>6 DEF WriteRunState, Finish, Outputs
  <2>2. out.report.run = runs
    BY <2>1 DEF ReportInOrder, Written
  <2>3. QED
    BY <1>0, <2>1, <2>2, RunNumbers DEF ReportNeverOlder, ReportInOrder, Written
<1>7. CASE WriteCanceled
  <2>1. /\ out'.report = out.report /\ out'.markdown = out.markdown
        /\ out'.summary = out.summary /\ out'.runState = out.runState
        /\ pc = "cancelFile" /\ pc' = "cancelReport"
    BY <1>a, <1>7 DEF WriteCanceled, Goto, Outputs
  <2>2. QED
    BY <1>0, <2>1, ReportsUntouched DEF Written
<1>8. CASE WriteCanceledReport
  \* The report of a canceled run has no header to contradict a summary with.
  <2>1. /\ out'.report.run = runs /\ out'.report.gate = "none"
        /\ out'.markdown = out.markdown /\ out'.summary = out.summary
        /\ out'.runState = out.runState /\ pc' = "idle" /\ pc = "cancelReport"
    BY <1>a, <1>8 DEF WriteCanceledReport, Goto, Outputs, RawReport
  <2>2. out.report.run < runs
    BY <2>1 DEF ReportInOrder, Written
  <2>3. /\ out.markdown < runs /\ out.summary.run < runs /\ out.runState < runs
    BY <2>2, RunNumbers DEF ReportNeverOlder
  <2>4. QED
    BY <1>0, <2>1, <2>3, RunNumbers DEF ReportNeverOlder, ReportInOrder, Written
<1>9. QED
  BY <1>1, <1>2, <1>3, <1>4, <1>5, <1>6, <1>7, <1>8 DEF Publication

-----------------------------------------------------------------------------
\* Types, harmless caches of fail-open runs, and the order of publication are
\* kept by every step of every run.
THEOREM IInvariant == Spec => []IInv
<1>1. Init => IInv
  <2> SUFFICES ASSUME Init PROVE IInv
    OBVIOUS
  <2>1. TypeOK
    BY InitTypeOK
  <2>2. QuietRuns
    BY HarmlessFindings
       DEF Init, QuietRuns, HarmlessStages, Fresh, NoFindings, EmptyCache
  <2>3. ReportNeverOlder /\ ReportInOrder
    BY DEF Init, ReportNeverOlder, ReportInOrder, NoReport, Written
  <2>4. QED
    BY <2>1, <2>2, <2>3 DEF IInv
<1>2. IInv /\ [Next]_vars => IInv'
  <2> SUFFICES ASSUME IInv, [Next]_vars PROVE IInv'
    OBVIOUS
  <2>1. TypeOK'
    BY TypeStep DEF IInv
  <2>2. FailOpenOnly' <=> FailOpenOnly
    BY DEF FailOpenOnly
  <2>3. FailOpenOnly' => QuietRuns'
    BY <2>2, QuietStep DEF IInv
  <2>4. ReportNeverOlder' /\ ReportInOrder'
    <3>1. CASE UNCHANGED vars
      <4>1. out' = out /\ runs' = runs /\ pc' = pc /\ mem' = mem /\ req' = req
        BY <3>1 DEF vars, env
      <4>2. Report(ResolveExitCode)' = Report(ResolveExitCode)
        BY <4>1 DEF Report, ResolveExitCode, AllFound
      <4>3. QED
        BY <4>1, <4>2 DEF IInv, ReportNeverOlder, ReportInOrder
    <3>2. CASE Next
      <4>1. Build \/ Formal \/ Semantic \/ Publication \/ Surroundings
        BY <3>2 DEF Next, RunStep, Surroundings
      <4>2. QED
        BY <4>1, BeforePublication, DuringPublication, AroundRuns DEF IInv
    <3>3. QED
      BY <3>1, <3>2
  <2>5. QED
    BY <2>1, <2>3, <2>4 DEF IInv
<1>3. QED
  BY <1>1, <1>2, PTL DEF Spec

\* Where every run is fail-open, no tool that fails and no cached result makes
\* one end with an internal error, and RunReport never refuses its exit code.
THEOREM FailOpenNeverFails == Spec => []FailOpenNeverInternal
<1>1. IInv => FailOpenNeverInternal
  BY DEF IInv, QuietRuns, FailOpenNeverInternal
<1>2. QED
  BY <1>1, IInvariant, PTL

\* Wherever runs are interrupted, report.json is as new as every file derived
\* from it, and a summary of the same run says the same.
THEOREM ReportIsNewest == Spec => []ReportNeverOlder
<1>1. IInv => ReportNeverOlder
  BY DEF IInv
<1>2. QED
  BY <1>1, IInvariant, PTL

\* A fail-open run that comes to its report has it accepted: RejectReport, the
\* exception of RunReport's validator, is never enabled.
THEOREM FailOpenReportAccepted ==
  Spec => [](FailOpenOnly => Accepted(ResolveExitCode))
<1>1. IInv => (FailOpenOnly => Accepted(ResolveExitCode))
  <2> SUFFICES ASSUME IInv, FailOpenOnly PROVE Accepted(ResolveExitCode)
    OBVIOUS
  <2>1. QuietRuns /\ TypeOK
    BY DEF IInv
  <2>2. req.mode \in Modes
    BY <2>1, RequestAssumption DEF TypeOK, RunRequest
  <2>3. QED
    BY <2>1, <2>2, HarmlessAccepted DEF QuietRuns, HarmlessStages, ResolveExitCode
<1>2. QED
  BY <1>1, IInvariant, PTL

-----------------------------------------------------------------------------
(***************************************************************************)
(* That the caches of Pipeline never make a verdict wrong: what is stored  *)
(* under a key is about the revision in that key, and what a run takes out *)
(* is about the project as it is.  Revisions, rules, requests, runs, edits *)
(* and faults are any, but for what each theorem assumes.                  *)
(***************************************************************************)

Nobody == "edit" \notin FaultKinds     \* nobody edits during a run

\* Before any stage has extracted anything, and while the rules are judged.
Early == {"hash", "build", "latexmk", "extract"}
Judging == {"engine", "engineFails", "putFormal"}

\* From the hash on, the revision is the one that was hashed; until the first
\* stage is done, nothing in the project has changed.
HashIsCurrent ==
    /\ pc \notin {"idle", "hash"} => tree.src = mem.hash.src
    /\ pc \in {"build", "latexmk", "extract"} => tree = mem.hash
    /\ pc \in Early => mem.pdf = NoFile /\ ~mem.file /\ mem.found.formal = {}
    /\ pc \in {"build", "latexmk", "putBuild", "writeBuild"} => "build" \in req.stages
    /\ pc = "extract" => "build" \notin req.stages
    /\ pc \in Judging => /\ mem.key.hash = mem.hash
                         /\ mem.key.failClosed = req.failClosed
                         /\ mem.key.toolMissing = mem.toolMissing

-----------------------------------------------------------------------------
(* Steps that pass the findings on                                         *)

\* The steps after the formal findings are known, those between two stages, and
\* the interruptions of a run.
Passing ==
    \/ Semantic \/ Publication \/ Sigint \/ Crash \/ RaiseError \/ UNCHANGED vars
    \/ WriteStage("build", "writeBuild", "check1")
    \/ CheckCanceled("check1", IF "formal" \in req.stages THEN "formal" ELSE "check2")
    \/ WriteStage("formal", "writeFormal", "check2")
    \/ CheckCanceled("check2", IF "semantic" \in req.stages THEN "semantic" ELSE "check3")

\* Everything that the verdict depends on stays as it is.
SameMatter ==
    /\ tree' = tree /\ req' = req /\ runs' = runs
    /\ cache'.build = cache.build /\ cache'.formal = cache.formal
    /\ mem'.hash = mem.hash /\ mem'.key = mem.key
    /\ mem'.pdf = mem.pdf /\ mem'.file = mem.file
    /\ mem'.toolMissing = mem.toolMissing /\ mem'.degraded = mem.degraded
    /\ mem'.found.formal = mem.found.formal /\ mem'.found.build = mem.found.build

Later == {"writeFormal", "check2", "semantic", "writeSemantic", "check3", "publish",
          "markdown"}
Ending == {"summary", "writeAggregate", "runState", "cancelFile", "cancelReport"}

Onward ==
    \/ pc' = pc \/ pc' = "idle"
    \/ pc \notin Early \cup {"idle"} /\ pc' \in Ending
    \/ pc \in Later /\ pc' \in Later
    \/ pc = "writeBuild" /\ pc' = "check1"
    \/ pc = "check1" /\ pc' = "formal" /\ "formal" \in req.stages
    \/ pc = "check1" /\ pc' = "check2" /\ "formal" \notin req.stages

LEMMA PassingOn == TypeOK /\ Passing => SameMatter /\ Onward
<1> SUFFICES ASSUME TypeOK, Passing PROVE SameMatter /\ Onward
  OBVIOUS
<1>0. CacheOK /\ mem \in Memories
  BY DEF TypeOK
<1>1. CASE Semantic
  <2>1. SameMatter
    BY <1>0, <1>1 DEF Semantic, SemanticConfigError, SemanticSkip, SemanticHit,
       SemanticMiss, WriteStage, CheckCanceled, env, SameMatter, CacheOK, Memories
  <2>2. Onward
    BY <1>1 DEF Semantic, SemanticConfigError, SemanticSkip, SemanticHit,
       SemanticMiss, WriteStage, CheckCanceled, Goto, Onward, Early, Later, Ending
  <2>3. QED
    BY <2>1, <2>2
<1>2. CASE Publication
  <2>1. SameMatter
    BY <1>2 DEF Publication, PublishReport, RejectReport, PublishMarkdown,
       PublishSummary, WriteStage, WriteRunState, WriteCanceled,
       WriteCanceledReport, Finish, env, SameMatter
  <2>2. Onward
    BY <1>2 DEF Publication, PublishReport, RejectReport, PublishMarkdown,
       PublishSummary, WriteStage, WriteRunState, WriteCanceled,
       WriteCanceledReport, Finish, Goto, Onward, Early, Later, Ending
  <2>3. QED
    BY <2>1, <2>2
<1>3. CASE Sigint \/ Crash \/ RaiseError \/ UNCHANGED vars
  BY <1>3 DEF Sigint, Crash, RaiseError, vars, env, SameMatter, Onward
<1>4. CASE \/ WriteStage("build", "writeBuild", "check1")
           \/ WriteStage("formal", "writeFormal", "check2")
  BY <1>4 DEF WriteStage, Goto, env, SameMatter, Onward, Later
<1>5. CASE \/ CheckCanceled("check1", IF "formal" \in req.stages THEN "formal"
                                                                  ELSE "check2")
           \/ CheckCanceled("check2", IF "semantic" \in req.stages THEN "semantic"
                                                                    ELSE "check3")
  BY <1>5 DEF CheckCanceled, Goto, env, SameMatter, Onward, Early,
     Later, Ending
<1>6. QED
  BY <1>1, <1>2, <1>3, <1>4, <1>5 DEF Passing

\* Whatever latexmk comes to, the revision stays; the PDF is the one before, or
\* gone, or new and of this revision.
Compiled ==
    /\ tree'.src = tree.src
    /\ tree'.pdf \in {tree.pdf, NoFile, [src |-> tree.src, run |-> runs]}

LEMMA LatexmkCompiles ==
  ASSUME TypeOK, NEW answer, LatexmkLeaves(answer) \/ UNCHANGED tree
  PROVE  Compiled
<1>1. tree \in Trees
  BY DEF TypeOK
<1>2. QED
  BY <1>1 DEF LatexmkLeaves, Compiled, Trees

LEMMA LatexmkSucceeds ==
  ASSUME TypeOK, LatexmkLeaves("success")
  PROVE  \/ UNCHANGED tree /\ tree.pdf.src = tree.src
         \/ tree'.pdf = NoFile /\ tree.src \in NoPdf
         \/ tree'.pdf = [src |-> tree.src, run |-> runs] /\ tree.src \notin NoPdf
<1>1. tree \in Trees
  BY DEF TypeOK
<1>2. QED
  BY <1>1 DEF LatexmkLeaves, Trees

\* The other steps.
Telling ==
    \/ \E r \in Request : Launch(r)
    \/ HashSource \/ ExtractOnly \/ BuildHit \/ BuildMiss \/ PutBuild
    \/ \E answer \in Answers : Latexmk(answer)
    \/ FormalHit \/ FormalMiss \/ EngineFails \/ PutFormal
    \/ \E answer \in Answers : \E raised : Engine(answer, raised)
    \/ (\E s \in Source : Edit(s)) \/ Clean \/ LoseEntry

\* Each step is one or the other.
LEMMA StepCases == [Next]_vars => Passing \/ Telling
<1> SUFFICES ASSUME [Next]_vars PROVE Passing \/ Telling
  OBVIOUS
<1>1. Build => Passing \/ Telling
  BY DEF Build, Passing, Telling
<1>2. Formal => Passing \/ Telling
  BY DEF Formal, Passing, Telling
<1>3. QED
  BY <1>1, <1>2 DEF Next, RunStep, Passing, Telling

LEMMA TypeCorrect == Spec => []TypeOK
<1>1. IInv => TypeOK
  BY DEF IInv
<1>2. QED
  BY <1>1, IInvariant, PTL

\* What is in the caches after an entry is added, or lost.
LEMMA FormalAdded ==
  ASSUME CacheOK, PutFormal
  PROVE  /\ cache'.build = cache.build
         /\ \A k \in DOMAIN cache'.formal :
              \/ k = mem.key /\ cache'.formal[k] = mem.found.formal
              \/ k \in DOMAIN cache.formal /\ cache'.formal[k] = cache.formal[k]
BY DEF PutFormal, CacheOK, Put

LEMMA BuildAdded ==
  ASSUME CacheOK, PutBuild
  PROVE  /\ cache'.formal = cache.formal
         /\ \A k \in DOMAIN cache'.build :
              \/ /\ k = mem.hash
                 /\ cache'.build[k].pdf = mem.pdf
                 /\ cache'.build[k].degraded = mem.degraded
                 /\ cache'.build[k].toolMissing = mem.toolMissing
                 /\ cache'.build[k].findings = mem.found.build
              \/ k \in DOMAIN cache.build /\ cache'.build[k] = cache.build[k]
BY DEF PutBuild, CacheOK, Put

LEMMA EntryLost ==
  ASSUME CacheOK, LoseEntry
  PROVE  /\ \A k \in DOMAIN cache'.formal :
              k \in DOMAIN cache.formal /\ cache'.formal[k] = cache.formal[k]
         /\ \A k \in DOMAIN cache'.build :
              k \in DOMAIN cache.build /\ cache'.build[k] = cache.build[k]
BY DEF LoseEntry, CacheOK, Without

-----------------------------------------------------------------------------
(* The hash stays current                                                  *)

LEMMA HashStep ==
  ASSUME Nobody, TypeOK, HashIsCurrent, [Next]_vars
  PROVE  HashIsCurrent'
<1>0. CacheOK /\ mem \in Memories /\ tree \in Trees
  BY DEF TypeOK
<1>1. CASE Passing
  <2>1. SameMatter /\ Onward
    BY <1>1, PassingOn
  <2>2. CASE pc' = pc \/ pc' = "idle"
    BY <2>1, <2>2 DEF SameMatter, HashIsCurrent, Early, Judging
  <2>3. CASE pc # "idle" /\ pc' # pc /\ pc' # "idle"
    <3>1. pc # "hash" /\ pc' \notin Early \cup Judging \cup {"putBuild", "writeBuild"}
      BY <2>1, <2>3 DEF Onward, Early, Later, Ending, Judging
    <3>2. QED
      BY <2>1, <2>3, <3>1 DEF SameMatter, HashIsCurrent, Early
  <2>4. QED
    BY <2>1, <2>2, <2>3 DEF Onward, Later
<1>2. ASSUME NEW r \in Request, Launch(r) PROVE HashIsCurrent'
  BY <1>2 DEF Launch, Fresh, NoFindings, HashIsCurrent, Early, Judging
<1>3. CASE HashSource
  BY <1>0, <1>3 DEF HashSource, Goto, env, HashIsCurrent, Early, Judging, Memories
<1>4. CASE ExtractOnly \/ BuildMiss
  BY <1>0, <1>4 DEF ExtractOnly, BuildMiss, Finish, env, HashIsCurrent, Early,
     Judging, Memories
<1>5. CASE BuildHit \/ PutBuild
  BY <1>0, <1>5 DEF BuildHit, PutBuild, Goto, env, HashIsCurrent, Early, Judging,
     Memories
<1>6. ASSUME NEW answer \in Answers, Latexmk(answer) PROVE HashIsCurrent'
  <2>1. Compiled
    BY <1>6, LatexmkCompiles DEF Latexmk
  <2>2. mem'.hash = mem.hash /\ req' = req /\ pc' = "putBuild" /\ pc = "latexmk"
    BY <1>0, <1>6 DEF Latexmk, Memories
  <2>3. QED
    BY <2>1, <2>2 DEF HashIsCurrent, Compiled, Early, Judging
<1>7. CASE FormalHit \/ FormalMiss
  BY <1>0, <1>7 DEF FormalHit, FormalMiss, FormalKey, env, HashIsCurrent, Early,
     Judging, Memories
<1>8. CASE EngineFails \/ PutFormal
  BY <1>0, <1>8 DEF EngineFails, PutFormal, Goto, env, HashIsCurrent, Early, Judging,
     Memories
<1>9. ASSUME NEW answer \in Answers, NEW raised, Engine(answer, raised)
      PROVE  HashIsCurrent'
  <2>1. Compiled
    BY <1>9, LatexmkCompiles DEF Engine
  <2>2. /\ mem'.hash = mem.hash /\ mem'.key = mem.key /\ req' = req
        /\ mem'.toolMissing = mem.toolMissing /\ pc' = "putFormal" /\ pc = "engine"
    BY <1>0, <1>9 DEF Engine, Goto, Memories
  <2>3. QED
    BY <2>1, <2>2 DEF HashIsCurrent, Compiled, Early, Judging
<1>10. CASE (\E s \in Source : Edit(s)) \/ Clean \/ LoseEntry
  BY <1>10 DEF Nobody, Edit, Clean, LoseEntry, HashIsCurrent, Early, Judging
<1>11. QED
  BY <1>1, <1>2, <1>3, <1>4, <1>5, <1>6, <1>7, <1>8, <1>9, <1>10, StepCases
     DEF Telling

-----------------------------------------------------------------------------
(* Every rule judged, or the gap explained                                 *)

EveryRuleAsked == \A r \in Request : Rule \subseteq r.rules

\* The one finding of an engine that failed, by the policy of the run.
Stands(failClosed) == IF failClosed THEN SystemFinding("error", "fail")
                                    ELSE SystemFinding("warn", "unverifiable")

\* Formal findings, of a run with this policy, leave out nothing but SYS-03, and
\* that only if its build found no latexmk; or one finding stands for them all.
Covers(found, failClosed, toolMissing) ==
    \/ found = {Stands(failClosed)}
    \/ \A r \in Rule : \/ \E f \in found : f.id = r
                       \/ r = BuildRule /\ toolMissing

\* A build stage that found no latexmk has said so.
Reported(toolMissing, found) ==
    toolMissing => SystemFinding("warn", "unverifiable") \in found

FormalCovers == Covers(mem.found.formal, req.failClosed, mem.toolMissing)

\* So do the findings of this run, and those under any key; and the key that
\* this run will store under is its own.
CoverInv ==
    /\ pc \in Judging => /\ mem.key.failClosed = req.failClosed
                         /\ mem.key.toolMissing = mem.toolMissing
    /\ \A k \in DOMAIN cache.formal :
         Covers(cache.formal[k], k.failClosed, k.toolMissing)
    /\ \A k \in DOMAIN cache.build :
         Reported(cache.build[k].toolMissing, cache.build[k].findings)
    /\ pc = "putFormal" => FormalCovers
    /\ pc \in Later /\ "formal" \in req.stages => FormalCovers
    /\ pc \in Early => ~mem.toolMissing
    /\ Reported(mem.toolMissing, mem.found.build)

LEMMA VerdictsCover ==
  ASSUME NEW answer, NEW raised, NEW t, Rule \subseteq req.rules
  PROVE  Covers(Verdicts(answer, raised, t), req.failClosed, mem.toolMissing)
<1>1. ASSUME NEW r \in Judged PROVE \E f \in Verdicts(answer, raised, t) : f.id = r
  <2> DEFINE f == IF r \in raised THEN ToolError(r)
                  ELSE RuleFinding(r, EffectiveSeverity(r),
                         IF r = BuildRule THEN BuildRuleStatus(answer)
                                          ELSE RuleStatus(r, t))
  <2>1. f \in Verdicts(answer, raised, t)
    BY DEF Verdicts
  <2>2. f.id = r
    BY DEF ToolError, RuleFinding
  <2>3. QED
    BY <2>1, <2>2
<1>2. ASSUME NEW r \in Rule PROVE r \in Judged \/ (r = BuildRule /\ mem.toolMissing)
  BY DEF Judged
<1>3. QED
  BY <1>1, <1>2 DEF Covers

LEMMA CoverStep ==
  ASSUME EveryRuleAsked, TypeOK, CoverInv, [Next]_vars
  PROVE  CoverInv'
<1>0. CacheOK /\ mem \in Memories /\ req \in Request
  BY DEF TypeOK
<1>1. CASE Passing
  <2>1. SameMatter /\ Onward
    BY <1>1, PassingOn
  <2>2. /\ pc' \in Judging \cup Early => pc' = pc
        /\ pc' \in Later /\ "formal" \in req.stages => pc \in Later
    BY <2>1 DEF Onward, Early, Later, Ending, Judging
  <2>3. FormalCovers' <=> FormalCovers
    BY <2>1 DEF SameMatter, FormalCovers
  <2>4. QED
    BY <2>1, <2>2, <2>3 DEF SameMatter, CoverInv, Judging, Early
<1>2. ASSUME NEW r \in Request, Launch(r) PROVE CoverInv'
  BY <1>2 DEF Launch, Fresh, CoverInv, Judging, Later, Early, Reported
<1>3. CASE \/ HashSource \/ ExtractOnly \/ BuildHit \/ BuildMiss
           \/ \E answer \in Answers : Latexmk(answer)
           \/ (\E s \in Source : Edit(s)) \/ Clean
  <2>1. cache' = cache
    BY <1>3 DEF HashSource, ExtractOnly, BuildHit, BuildMiss, Latexmk, Edit, Clean
  <2>2. \/ pc' \notin Judging \cup Later
        \/ pc' = pc /\ mem' = mem /\ req' = req
    BY <1>3 DEF HashSource, ExtractOnly, BuildHit, BuildMiss, Latexmk, Edit, Clean,
       Finish, Goto, Judging, Later
  <2>3. Reported(mem'.toolMissing, mem'.found.build)
    <3>1. CASE HashSource \/ ExtractOnly \/ BuildMiss \/ Clean
               \/ \E s \in Source : Edit(s)
      <4>1. mem'.toolMissing = mem.toolMissing /\ mem'.found = mem.found
        BY <1>0, <3>1 DEF HashSource, ExtractOnly, BuildMiss, Edit, Clean, Memories
      <4>2. QED
        BY <4>1 DEF CoverInv
    <3>2. CASE BuildHit
      <4>1. /\ mem.hash \in DOMAIN cache.build
            /\ mem'.toolMissing = cache.build[mem.hash].toolMissing
            /\ mem'.found.build = cache.build[mem.hash].findings
        BY <1>0, <3>2 DEF BuildHit, Memories
      <4>2. QED
        BY <4>1 DEF CoverInv
    <3>3. ASSUME NEW answer \in Answers, Latexmk(answer)
          PROVE  Reported(mem'.toolMissing, mem'.found.build)
      <4>1. CASE answer = "tool_missing"
        <5>1. mem'.found.build = {SystemFinding("warn", "unverifiable")}
          BY <1>0, <3>3, <4>1 DEF Latexmk, Memories
        <5>2. QED
          BY <5>1 DEF Reported
      <4>2. CASE answer # "tool_missing"
        <5>1. mem'.toolMissing = mem.toolMissing /\ pc = "latexmk"
          BY <1>0, <3>3, <4>2 DEF Latexmk, Memories
        <5>2. ~mem.toolMissing
          BY <5>1 DEF CoverInv, Early
        <5>3. QED
          BY <5>1, <5>2 DEF Reported
      <4>3. QED
        BY <4>1, <4>2
    <3>4. QED
      BY <1>3, <3>1, <3>2, <3>3
  <2>4. pc' \in Early => ~mem'.toolMissing
    BY <1>0, <1>3 DEF HashSource, ExtractOnly, BuildHit, BuildMiss, Latexmk, Edit,
       Clean, Finish, Goto, CoverInv, Early, Memories
  <2>5. CASE pc' \notin Judging \cup Later
    BY <2>1, <2>3, <2>4, <2>5 DEF CoverInv, Judging, Later, Early
  <2>6. CASE pc' = pc /\ mem' = mem /\ req' = req
    BY <2>1, <2>3, <2>4, <2>6 DEF CoverInv, FormalCovers
  <2>7. QED
    BY <2>2, <2>5, <2>6
<1>4. CASE PutBuild
  <2>1. /\ pc' = "writeBuild" /\ mem' = mem /\ cache'.formal = cache.formal
    BY <1>0, <1>4, BuildAdded DEF PutBuild, Goto
  <2>2. \A k \in DOMAIN cache'.build :
          Reported(cache'.build[k].toolMissing, cache'.build[k].findings)
    BY <1>0, <1>4, BuildAdded DEF CoverInv
  <2>3. QED
    BY <2>1, <2>2 DEF CoverInv, Judging, Later, Early
<1>5. CASE FormalHit
  <2>1. /\ mem'.found.formal = cache.formal[FormalKey]
        /\ FormalKey \in DOMAIN cache.formal /\ req' = req /\ cache' = cache
        /\ mem'.toolMissing = mem.toolMissing /\ mem'.found.build = mem.found.build
        /\ pc' = "writeFormal"
    BY <1>0, <1>5 DEF FormalHit, Memories
  <2>2. FormalKey.toolMissing = mem.toolMissing /\ FormalKey.failClosed = req.failClosed
    BY DEF FormalKey
  <2>3. FormalCovers'
    BY <2>1, <2>2 DEF CoverInv, FormalCovers
  <2>4. QED
    BY <2>1, <2>3 DEF CoverInv, Judging, Early
<1>6. CASE FormalMiss
  <2>1. /\ cache' = cache /\ pc' \in {"engine", "engineFails"} /\ req' = req
        /\ mem'.key = FormalKey
        /\ mem'.toolMissing = mem.toolMissing /\ mem'.found = mem.found
    BY <1>0, <1>6 DEF FormalMiss, Memories
  <2>2. FormalKey.toolMissing = mem.toolMissing /\ FormalKey.failClosed = req.failClosed
    BY DEF FormalKey
  <2>3. QED
    BY <2>1, <2>2 DEF CoverInv, Later, Early
<1>7. CASE EngineFails
  <2>1. /\ cache' = cache /\ pc \in Judging /\ pc' = "putFormal" /\ req' = req
        /\ mem'.found.formal = {FailureFinding} /\ mem'.key = mem.key
        /\ mem'.toolMissing = mem.toolMissing /\ mem'.found.build = mem.found.build
    BY <1>0, <1>7 DEF EngineFails, Memories, Judging
  <2>2. FormalCovers'
    BY <2>1 DEF FormalCovers, Covers, Stands, FailureFinding
  <2>3. QED
    BY <2>1, <2>2 DEF CoverInv, Later, Early
<1>8. CASE PutFormal
  <2>1. /\ FormalCovers /\ mem.key.failClosed = req.failClosed
        /\ mem.key.toolMissing = mem.toolMissing
        /\ mem' = mem /\ req' = req /\ pc' = "writeFormal"
        /\ cache'.build = cache.build
    BY <1>0, <1>8, FormalAdded DEF PutFormal, Goto, CoverInv, Judging
  <2>2. \A k \in DOMAIN cache'.formal :
          Covers(cache'.formal[k], k.failClosed, k.toolMissing)
    BY <1>0, <1>8, <2>1, FormalAdded DEF CoverInv, FormalCovers
  <2>3. FormalCovers'
    BY <2>1 DEF FormalCovers
  <2>4. QED
    BY <2>1, <2>2, <2>3 DEF CoverInv, Judging, Early
<1>9. ASSUME NEW answer \in Answers, NEW raised, Engine(answer, raised)
      PROVE  CoverInv'
  <2>1. /\ mem'.found.formal = Verdicts(answer, raised, tree')
        /\ mem'.toolMissing = mem.toolMissing /\ mem'.key = mem.key
        /\ mem'.found.build = mem.found.build
        /\ cache' = cache /\ req' = req /\ pc \in Judging /\ pc' = "putFormal"
    BY <1>0, <1>9 DEF Engine, Goto, Memories, Judging
  <2>2. FormalCovers'
    BY <1>0, <2>1, VerdictsCover DEF EveryRuleAsked, FormalCovers
  <2>3. QED
    BY <2>1, <2>2 DEF CoverInv, Later, Early
<1>10. CASE LoseEntry
  <2>1. mem' = mem /\ pc' = "idle"
    BY <1>10 DEF LoseEntry
  <2>2. QED
    BY <1>0, <1>10, <2>1, EntryLost DEF CoverInv, Judging, Later, Early
<1>11. QED
  BY <1>1, <1>2, <1>3, <1>4, <1>5, <1>6, <1>7, <1>8, <1>9, <1>10, StepCases
     DEF Telling

\* A report never leaves a rule out without saying why, whatever the caches were
\* filled by, whatever fails, raises, is killed or interrupted: if no run narrows
\* the rules with --only, a rule without a finding is SYS-03 in a run whose build
\* stage reports it, or the finding of a failed engine stands for all.
THEOREM GapsExplained ==
  ASSUME EveryRuleAsked
  PROVE  Spec => []GapsAreExplained
<1>1. Init => CoverInv
  BY DEF Init, EmptyCache, Fresh, CoverInv, Judging, Later, Reported
<1>2. TypeOK /\ CoverInv /\ [Next]_vars => CoverInv'
  BY CoverStep
<1>3. CoverInv => GapsAreExplained
  BY DEF CoverInv, GapsAreExplained, JustPublished, FormalCovers, Covers, Stands,
     Reported, FailureFinding, Later
<1>4. QED
  BY <1>1, <1>2, <1>3, TypeCorrect, PTL DEF Spec

-----------------------------------------------------------------------------
(* No false fail                                                           *)

\* A PDF is of revision s, or there is none.
NotOfAnother(file, s) == file.src \in {0, s}

\* What fails, SYS-03 apart, is violated by revision s.
Blames(s, found) ==
    \A f \in found : f.status = "fail" /\ f.id # BuildRule => s \in Violates[f.id]

\* A PDF of another revision, once replaced, never comes back.
Replaced(k) == NotOfAnother(k.pdf, k.src) \/ tree.pdf # k.pdf

BuildsAreOfTheirKey ==
    \A k \in DOMAIN cache.build :
        /\ k.pdf.run < runs
        /\ NotOfAnother(cache.build[k].pdf, k.src)
        /\ IsTex /\ cache.build[k].pdf # NoFile => Replaced(k)

FailsAreOfTheirKey ==
    \A k \in DOMAIN cache.formal :
        ~k.failClosed /\ NotOfAnother(k.pdf, k.hash.src) =>
            Blames(k.hash.src, cache.formal[k])

\* What the rules are given is about revision s only.
Given(s) ==
    /\ NotOfAnother(mem.pdf, s)
    /\ mem.file => NotOfAnother(PdfAtHand, s)

\* Without the build stage they are given the PDF that lies there.
AsItLies == /\ mem.file => mem.pdf = PdfAtHand
            /\ ~mem.file => mem.pdf = NoFile

FilesInv ==
    /\ tree.pdf.run <= runs
    /\ pc = "hash" => tree.pdf.run < runs
    /\ pc \notin {"idle", "hash"} => mem.hash.pdf.run < runs
    /\ BuildsAreOfTheirKey
    /\ IsTex /\ pc = "putBuild" /\ mem.pdf # NoFile => Replaced(mem.hash)

GivenInv ==
    /\ pc \in {"putBuild", "writeBuild", "check1", "formal"} =>
         IF "build" \in req.stages THEN Given(mem.hash.src) ELSE AsItLies
    /\ pc = "engine" /\ NotOfAnother(mem.key.pdf, mem.hash.src) => Given(mem.hash.src)
    /\ pc \in Judging /\ "build" \in req.stages =>
         NotOfAnother(mem.key.pdf, mem.hash.src)

FailInv ==
    /\ FailsAreOfTheirKey
    /\ pc = "putFormal" /\ ~req.failClosed /\ NotOfAnother(mem.key.pdf, mem.hash.src) =>
         Blames(mem.hash.src, mem.found.formal)
    /\ pc # "idle" /\ "build" \in req.stages /\ ~req.failClosed =>
         Blames(mem.hash.src, mem.found.formal)

\* A PDF that latexmk replaced has the number of this run.
LEMMA StaysReplaced ==
  ASSUME NEW k, k.pdf.run < runs, runs \in Nat, Replaced(k), Compiled
  PROVE  Replaced(k)'
<1>1. CASE NotOfAnother(k.pdf, k.src)
  BY <1>1 DEF Replaced
<1>2. CASE tree.pdf # k.pdf /\ ~NotOfAnother(k.pdf, k.src)
  <2>1. k.pdf.src # 0
    BY <1>2 DEF NotOfAnother
  <2>2. NoFile # k.pdf /\ [src |-> tree.src, run |-> runs] # k.pdf
    BY <2>1 DEF NoFile
  <2>3. QED
    BY <1>2, <2>2 DEF Compiled, Replaced
<1>3. QED
  BY <1>1, <1>2 DEF Replaced

LEMMA FilesStep ==
  ASSUME Nobody, TypeOK, HashIsCurrent, FilesInv, GivenInv, [Next]_vars
  PROVE  FilesInv'
<1>0. /\ CacheOK /\ mem \in Memories /\ tree \in Trees /\ runs \in Nat
      /\ tree.pdf.run \in Nat /\ mem.hash.pdf.run \in Nat
      /\ \A k \in DOMAIN cache.build : k.pdf.run \in Nat
  BY PipelineBounds DEF TypeOK, Trees, Files, Memories, CacheOK
<1>1. CASE Passing
  <2>1. SameMatter /\ Onward
    BY <1>1, PassingOn
  <2>2. /\ pc' \notin {"idle", "hash"} => pc \notin {"idle", "hash"}
        /\ pc' \in {"hash", "putBuild"} => pc' = pc
    BY <2>1 DEF Onward, Early, Later, Ending
  <2>3. BuildsAreOfTheirKey'
    BY <2>1 DEF SameMatter, FilesInv, BuildsAreOfTheirKey, Replaced
  <2>4. QED
    BY <2>1, <2>2, <2>3 DEF SameMatter, FilesInv, Replaced
<1>2. ASSUME NEW r \in Request, Launch(r) PROVE FilesInv'
  <2>1. runs' = runs + 1 /\ tree' = tree /\ cache' = cache /\ pc' = "hash"
    BY <1>2 DEF Launch
  <2>2. BuildsAreOfTheirKey'
    BY <1>0, <2>1 DEF FilesInv, BuildsAreOfTheirKey, Replaced
  <2>3. QED
    BY <1>0, <2>1, <2>2 DEF FilesInv
<1>3. ASSUME runs' = runs, tree' = tree, cache' = cache, mem'.hash = mem.hash,
             pc' \notin {"hash", "putBuild"}, pc \notin {"idle", "hash"}
      PROVE  FilesInv'
  <2>1. BuildsAreOfTheirKey'
    BY <1>3 DEF FilesInv, BuildsAreOfTheirKey, Replaced
  <2>2. QED
    BY <1>3, <2>1 DEF FilesInv
<1>4. CASE HashSource
  <2>1. /\ runs' = runs /\ tree' = tree /\ cache' = cache /\ mem'.hash = tree
        /\ pc = "hash" /\ pc' \in {"build", "extract"}
    BY <1>0, <1>4 DEF HashSource, Goto, env, Memories
  <2>2. BuildsAreOfTheirKey'
    BY <2>1 DEF FilesInv, BuildsAreOfTheirKey, Replaced
  <2>3. QED
    BY <2>1, <2>2 DEF FilesInv
<1>5. CASE ExtractOnly \/ BuildHit \/ FormalHit \/ FormalMiss
  BY <1>0, <1>3, <1>5 DEF ExtractOnly, BuildHit, FormalHit, FormalMiss, Finish, env,
     Memories
<1>6. CASE BuildMiss
  <2>1. /\ runs' = runs /\ tree' = tree /\ cache' = cache /\ mem'.hash = mem.hash
        /\ pc = "build" /\ pc' # "hash"
    BY <1>0, <1>6 DEF BuildMiss, Finish, env, Memories
  <2>2. BuildsAreOfTheirKey'
    BY <2>1 DEF FilesInv, BuildsAreOfTheirKey, Replaced
  <2>3. pc' = "putBuild" => ~IsTex
    BY <1>6 DEF BuildMiss, Finish
  <2>4. QED
    BY <2>1, <2>2, <2>3 DEF FilesInv
<1>7. ASSUME NEW answer \in Answers, Latexmk(answer) PROVE FilesInv'
  <2>1. /\ runs' = runs /\ cache' = cache /\ mem'.hash = mem.hash
        /\ pc = "latexmk" /\ pc' = "putBuild" /\ Compiled
    BY <1>0, <1>7, LatexmkCompiles DEF Latexmk, Memories
  <2>2. BuildsAreOfTheirKey'
    BY <1>0, <2>1, StaysReplaced DEF FilesInv, BuildsAreOfTheirKey
  <2>3. mem'.pdf # NoFile => Replaced(mem.hash)'
    <3>1. mem.pdf = NoFile /\ tree = mem.hash /\ mem.hash.pdf.run < runs
      BY <2>1 DEF HashIsCurrent, Early, FilesInv
    <3>2. mem'.pdf # NoFile => answer = "success" /\ tree'.pdf # NoFile
      BY <1>0, <1>7, <3>1 DEF Latexmk, Memories
    <3>3. ASSUME answer = "success", tree'.pdf # NoFile
          PROVE  \/ tree'.pdf = tree.pdf /\ tree.pdf.src = tree.src
                 \/ tree'.pdf.run = runs
      <4>1. LatexmkLeaves("success")
        BY <1>7, <3>3 DEF Latexmk
      <4>2. QED
        BY <3>3, <4>1, LatexmkSucceeds
    <3>4. QED
      BY <1>0, <2>1, <3>1, <3>2, <3>3 DEF Replaced, NotOfAnother
  <2>4. tree'.pdf.run <= runs
    BY <1>0, <2>1 DEF Compiled, NoFile, FilesInv
  <2>5. QED
    BY <2>1, <2>2, <2>3, <2>4 DEF FilesInv, Replaced
<1>8. CASE PutBuild
  <2>1. /\ runs' = runs /\ tree' = tree /\ mem' = mem
        /\ pc = "putBuild" /\ pc' = "writeBuild"
    BY <1>8 DEF PutBuild, Goto, env
  <2>2. /\ mem.hash.pdf.run < runs /\ NotOfAnother(mem.pdf, mem.hash.src)
        /\ IsTex /\ mem.pdf # NoFile => Replaced(mem.hash)
    BY <2>1 DEF FilesInv, HashIsCurrent, GivenInv, Given
  <2>3. BuildsAreOfTheirKey'
    BY <1>0, <1>8, <2>1, <2>2, BuildAdded DEF FilesInv, BuildsAreOfTheirKey, Replaced
  <2>4. QED
    BY <2>1, <2>3 DEF FilesInv
<1>9. ASSUME NEW answer \in Answers, NEW raised, Engine(answer, raised)
      PROVE  FilesInv'
  <2>1. /\ runs' = runs /\ cache' = cache /\ mem'.hash = mem.hash
        /\ pc = "engine" /\ pc' = "putFormal" /\ Compiled
    BY <1>0, <1>9, LatexmkCompiles DEF Engine, Goto, Memories
  <2>2. BuildsAreOfTheirKey'
    BY <1>0, <2>1, StaysReplaced DEF FilesInv, BuildsAreOfTheirKey
  <2>3. tree'.pdf.run <= runs
    BY <1>0, <2>1 DEF Compiled, NoFile, FilesInv
  <2>4. QED
    BY <2>1, <2>2, <2>3 DEF FilesInv
<1>10. CASE EngineFails
  BY <1>0, <1>3, <1>10 DEF EngineFails, Memories
<1>11. CASE PutFormal
  <2>1. /\ runs' = runs /\ tree' = tree /\ mem' = mem /\ cache'.build = cache.build
        /\ pc = "putFormal" /\ pc' = "writeFormal"
    BY <1>0, <1>11, FormalAdded DEF PutFormal, Goto, env
  <2>2. BuildsAreOfTheirKey'
    BY <2>1 DEF FilesInv, BuildsAreOfTheirKey, Replaced
  <2>3. QED
    BY <2>1, <2>2 DEF FilesInv
<1>12. CASE (\E s \in Source : Edit(s)) \/ Clean
  <2>1. /\ runs' = runs /\ cache' = cache /\ pc = "idle" /\ pc' = pc
        /\ tree'.pdf \in {tree.pdf, NoFile}
    BY <1>0, <1>12 DEF Nobody, Edit, Clean, Trees
  <2>2. ASSUME NEW k, Replaced(k) PROVE Replaced(k)'
    BY <2>1, <2>2 DEF Replaced, NotOfAnother, NoFile
  <2>3. BuildsAreOfTheirKey'
    BY <2>1, <2>2 DEF FilesInv, BuildsAreOfTheirKey
  <2>4. QED
    BY <1>0, <2>1, <2>3 DEF FilesInv, NoFile
<1>13. CASE LoseEntry
  <2>1. /\ runs' = runs /\ tree' = tree /\ pc = "idle" /\ pc' = pc
    BY <1>13 DEF LoseEntry
  <2>2. BuildsAreOfTheirKey'
    BY <1>0, <1>13, <2>1, EntryLost DEF FilesInv, BuildsAreOfTheirKey, Replaced
  <2>3. QED
    BY <2>1, <2>2 DEF FilesInv
<1>14. QED
  BY <1>1, <1>2, <1>4, <1>5, <1>6, <1>7, <1>8, <1>9, <1>10, <1>11, <1>12, <1>13,
     StepCases DEF Telling

LEMMA GivenStep ==
  ASSUME Nobody, TypeOK, HashIsCurrent, FilesInv, GivenInv, [Next]_vars
  PROVE  GivenInv'
<1>0. CacheOK /\ mem \in Memories /\ tree \in Trees
  BY DEF TypeOK
<1>1. CASE Passing
  <2>1. SameMatter /\ Onward
    BY <1>1, PassingOn
  <2>2. /\ pc' \in {"putBuild", "writeBuild"} \cup Judging => pc' = pc
        /\ pc' \in {"check1", "formal"} => pc \in {"writeBuild", "check1", "formal"}
    BY <2>1 DEF Onward, Early, Judging, Later, Ending
  <2>3. QED
    BY <2>1, <2>2 DEF SameMatter, GivenInv, Given, AsItLies, PdfAtHand, Judging
<1>2. CASE \/ \E r \in Request : Launch(r)
           \/ HashSource \/ FormalHit \/ PutFormal \/ LoseEntry \/ Clean
           \/ \E s \in Source : Edit(s)
  <2>1. pc' \in {"idle", "hash", "build", "extract", "writeFormal"}
    BY <1>2 DEF Launch, HashSource, Goto, FormalHit, PutFormal, LoseEntry, Clean, Edit,
       Nobody
  <2>2. QED
    BY <2>1 DEF GivenInv, Judging
<1>3. CASE ExtractOnly
  <2>1. /\ tree' = tree /\ req' = req /\ pc' \in {"idle", "check1"}
        /\ "build" \notin req.stages
    BY <1>3 DEF ExtractOnly, Finish, HashIsCurrent
  <2>2. pc' = "check1" => AsItLies'
    BY <1>0, <1>3, <2>1 DEF ExtractOnly, Finish, AsItLies, PdfAtHand, Memories
  <2>3. QED
    BY <2>1, <2>2 DEF GivenInv, Judging
<1>4. CASE BuildMiss
  <2>1. /\ tree' = tree /\ req' = req /\ pc' \in {"idle", "latexmk", "putBuild"}
        /\ "build" \in req.stages /\ tree = mem.hash
    BY <1>4 DEF BuildMiss, Finish, HashIsCurrent
  <2>2. pc' = "putBuild" => Given(mem.hash.src)'
    <3>1. ASSUME pc' = "putBuild"
          PROVE  ~IsTex /\ mem'.pdf = PdfAtHand /\ mem'.hash = mem.hash
      BY <1>0, <1>4, <3>1 DEF BuildMiss, Finish, Memories
    <3>2. QED
      BY <2>1, <3>1 DEF Given, NotOfAnother, PdfAtHand, PdfIn
  <2>3. QED
    BY <2>1, <2>2 DEF GivenInv, Judging
<1>5. CASE BuildHit
  <2> DEFINE e == cache.build[mem.hash]
  <2>1. /\ tree' = tree /\ req' = req /\ pc' = "writeBuild"
        /\ "build" \in req.stages /\ tree = mem.hash /\ mem.hash \in DOMAIN cache.build
        /\ mem'.hash = mem.hash /\ mem'.pdf = e.pdf
        /\ mem'.file <=> e.pdf # NoFile /\ PdfAtHand # NoFile
    BY <1>0, <1>5 DEF BuildHit, HashIsCurrent, Memories
  <2>2. /\ NotOfAnother(e.pdf, mem.hash.src)
        /\ IsTex /\ e.pdf # NoFile => Replaced(mem.hash)
    BY <2>1 DEF FilesInv, BuildsAreOfTheirKey
  <2>3. e.pdf # NoFile => NotOfAnother(PdfAtHand, mem.hash.src)
    BY <2>1, <2>2 DEF NotOfAnother, PdfAtHand, PdfIn, Replaced
  <2>4. Given(mem.hash.src)'
    BY <2>1, <2>2, <2>3 DEF Given, PdfAtHand
  <2>5. QED
    BY <2>1, <2>4 DEF GivenInv, Judging
<1>6. ASSUME NEW answer \in Answers, Latexmk(answer) PROVE GivenInv'
  <2>1. /\ req' = req /\ mem'.hash = mem.hash /\ pc' = "putBuild" /\ Compiled
        /\ "build" \in req.stages /\ tree.src = mem.hash.src
        /\ mem.pdf = NoFile /\ ~mem.file
    BY <1>0, <1>6, LatexmkCompiles DEF Latexmk, Memories, HashIsCurrent, Early
  <2>2. \/ mem'.pdf = NoFile /\ ~mem'.file
        \/ answer = "success" /\ tree'.pdf # NoFile /\ mem'.pdf = tree'.pdf
    BY <1>0, <1>6, <2>1 DEF Latexmk, Memories
  <2>3. ASSUME answer = "success" PROVE NotOfAnother(tree'.pdf, tree.src)
    <3>1. LatexmkLeaves("success")
      BY <1>6, <2>3 DEF Latexmk
    <3>2. QED
      BY <3>1, LatexmkSucceeds DEF NotOfAnother, NoFile
  <2>4. Given(mem.hash.src)'
    <3>1. CASE mem'.pdf = NoFile /\ ~mem'.file
      BY <3>1 DEF Given, NotOfAnother, NoFile
    <3>2. CASE answer = "success" /\ mem'.pdf = tree'.pdf
      BY <2>1, <2>3, <3>2 DEF Given, NotOfAnother, PdfAtHand, PdfIn, Compiled
    <3>3. QED
      BY <2>2, <3>1, <3>2
  <2>5. QED
    BY <2>1, <2>4 DEF GivenInv, Judging
<1>7. CASE PutBuild
  BY <1>7 DEF PutBuild, Goto, env, GivenInv, Given, AsItLies, PdfAtHand, Judging
<1>8. CASE FormalMiss
  <2>1. /\ tree' = tree /\ req' = req /\ pc = "formal" /\ pc' \in Judging
        /\ mem'.hash = mem.hash /\ mem'.pdf = mem.pdf /\ mem'.file = mem.file
        /\ mem'.key.pdf = IF IsTex /\ mem.file THEN tree.pdf ELSE NoFile
        /\ tree.src = mem.hash.src
    BY <1>0, <1>8 DEF FormalMiss, FormalKey, Memories, Judging, HashIsCurrent
  <2>2. CASE "build" \in req.stages
    <3>1. Given(mem.hash.src)
      BY <2>1, <2>2 DEF GivenInv
    <3>2. Given(mem.hash.src)' /\ NotOfAnother(mem'.key.pdf, mem'.hash.src)
      BY <2>1, <3>1 DEF Given, NotOfAnother, PdfAtHand, PdfIn, NoFile
    <3>3. QED
      BY <2>1, <3>2 DEF GivenInv, Judging
  <2>3. CASE "build" \notin req.stages
    <3>1. AsItLies
      BY <2>1, <2>3 DEF GivenInv
    <3>2. NotOfAnother(mem'.key.pdf, mem'.hash.src) => Given(mem.hash.src)'
      BY <2>1, <3>1 DEF AsItLies, Given, NotOfAnother, PdfAtHand, PdfIn, NoFile
    <3>3. QED
      BY <2>1, <2>3, <3>2 DEF GivenInv, Judging
  <2>4. QED
    BY <2>2, <2>3
<1>9. CASE EngineFails \/ \E answer \in Answers : \E raised : Engine(answer, raised)
  <2>1. /\ req' = req /\ mem'.hash = mem.hash /\ mem'.key = mem.key
        /\ pc \in Judging /\ pc' = "putFormal"
    BY <1>0, <1>9 DEF EngineFails, Engine, Goto, Memories, Judging
  <2>2. QED
    BY <2>1 DEF GivenInv, Judging
<1>10. QED
  BY <1>1, <1>2, <1>3, <1>4, <1>5, <1>6, <1>7, <1>8, <1>9, StepCases DEF Telling

\* A rule fails, on a project that has not changed, for what it was given.
LEMMA VerdictsBlame ==
  ASSUME NEW answer, NEW raised, NEW t \in Trees, ~req.failClosed,
         NotOfAnother(mem.pdf, t.src),
         mem.file => NotOfAnother(PdfIn(t), t.src)
  PROVE  Blames(t.src, Verdicts(answer, raised, t))
<1> SUFFICES ASSUME NEW f \in Verdicts(answer, raised, t),
                    f.status = "fail", f.id # BuildRule
             PROVE  t.src \in Violates[f.id]
  BY DEF Blames
<1>1. PICK r \in Judged :
        f = IF r \in raised THEN ToolError(r)
            ELSE RuleFinding(r, EffectiveSeverity(r),
                   IF r = BuildRule THEN BuildRuleStatus(answer) ELSE RuleStatus(r, t))
  BY DEF Verdicts
<1>2. r \in Rule /\ r \notin raised /\ f.id = r /\ f.status = RuleStatus(r, t)
  BY <1>1 DEF ToolError, RuleFinding, Judged
<1>3. Sees(r, t) \in Violates[r]
  BY <1>2 DEF RuleStatus
<1>4. Sees(r, t) \in {0, t.src}
  BY <1>2, RuleAssumption DEF Sees, NotOfAnother
<1>5. 0 \notin Violates[r]
  BY <1>2, RuleAssumption, SourceAssumption
<1>6. QED
  BY <1>2, <1>3, <1>4, <1>5

LEMMA FailStep ==
  ASSUME Nobody, TypeOK, HashIsCurrent, GivenInv, FailInv, [Next]_vars
  PROVE  FailInv'
<1>0. CacheOK /\ mem \in Memories /\ tree \in Trees
  BY DEF TypeOK
<1> DEFINE Found == mem.found.formal
<1>1. CASE Passing
  <2>1. SameMatter /\ Onward
    BY <1>1, PassingOn
  <2>2. (pc' = "putFormal" => pc = "putFormal") /\ (pc' # "idle" => pc # "idle")
    BY <2>1 DEF Onward, Early, Later, Ending
  <2>3. QED
    BY <2>1, <2>2 DEF SameMatter, FailInv, FailsAreOfTheirKey
<1>2. ASSUME cache'.formal = cache.formal, pc' # "putFormal",
             pc' = "idle" \/ mem'.found.formal = {}
      PROVE  FailInv'
  BY <1>2 DEF FailInv, FailsAreOfTheirKey, Blames
<1>3. ASSUME NEW r \in Request, Launch(r) PROVE FailInv'
  BY <1>2, <1>3 DEF Launch, Fresh, NoFindings
<1>4. CASE \/ HashSource \/ ExtractOnly \/ BuildHit \/ BuildMiss
           \/ \E answer \in Answers : Latexmk(answer)
           \/ (\E s \in Source : Edit(s)) \/ Clean
  <2>1. cache' = cache /\ pc' # "putFormal"
    BY <1>4 DEF HashSource, ExtractOnly, BuildHit, BuildMiss, Latexmk, Edit, Clean,
       Goto, Finish, env, Nobody
  <2>2. pc \in Early \/ pc' = "idle"
    BY <1>4 DEF HashSource, ExtractOnly, BuildHit, BuildMiss, Latexmk, Edit, Clean,
       Goto, Early, Nobody
  <2>3. mem'.found.formal = mem.found.formal
    <3>1. CASE HashSource \/ ExtractOnly \/ BuildHit \/ BuildMiss
      <4>1. CASE HashSource
        BY <1>0, <4>1 DEF HashSource, Memories
      <4>2. CASE BuildHit
        BY <1>0, <4>2 DEF BuildHit, Memories
      <4>3. CASE ExtractOnly \/ BuildMiss
        BY <1>0, <4>3 DEF ExtractOnly, BuildMiss, Finish, Memories
      <4>4. QED
        BY <3>1, <4>1, <4>2, <4>3
    <3>2. ASSUME NEW answer \in Answers, Latexmk(answer)
          PROVE  mem'.found.formal = mem.found.formal
      BY <1>0, <3>2 DEF Latexmk, Memories
    <3>3. CASE (\E s \in Source : Edit(s)) \/ Clean
      BY <3>3 DEF Edit, Clean
    <3>4. QED
      BY <1>4, <3>1, <3>2, <3>3
  <2>4. QED
    BY <1>2, <2>1, <2>2, <2>3 DEF HashIsCurrent
<1>5. CASE PutBuild \/ FormalMiss
  <2>1. /\ cache'.formal = cache.formal /\ req' = req
        /\ mem'.hash = mem.hash /\ mem'.found.formal = mem.found.formal
        /\ pc # "idle" /\ pc' # "putFormal"
    BY <1>0, <1>5, BuildAdded DEF PutBuild, FormalMiss, Goto, env, Memories
  <2>2. QED
    BY <2>1 DEF FailInv, FailsAreOfTheirKey
<1>6. CASE FormalHit
  <2>1. /\ cache' = cache /\ req' = req /\ mem'.hash = mem.hash
        /\ mem'.found.formal = cache.formal[FormalKey] /\ FormalKey \in DOMAIN cache.formal
        /\ pc = "formal" /\ pc' = "writeFormal"
    BY <1>0, <1>6 DEF FormalHit, Memories, env
  <2>2. /\ FormalKey.hash = mem.hash /\ FormalKey.failClosed = req.failClosed
        /\ FormalKey.pdf = IF IsTex /\ mem.file THEN tree.pdf ELSE NoFile
    BY DEF FormalKey
  <2>3. ASSUME "build" \in req.stages PROVE NotOfAnother(FormalKey.pdf, mem.hash.src)
    BY <2>1, <2>2, <2>3 DEF GivenInv, Given, NotOfAnother, PdfAtHand, PdfIn, NoFile
  <2>4. "build" \in req.stages /\ ~req.failClosed =>
          Blames(mem.hash.src, cache.formal[FormalKey])
    BY <2>1, <2>2, <2>3 DEF FailInv, FailsAreOfTheirKey
  <2>5. QED
    BY <2>1, <2>4 DEF FailInv, FailsAreOfTheirKey
<1>7. CASE EngineFails
  <2>1. /\ cache' = cache /\ req' = req /\ mem'.hash = mem.hash /\ mem'.key = mem.key
        /\ mem'.found.formal = {FailureFinding} /\ pc' = "putFormal"
    BY <1>0, <1>7 DEF EngineFails, Memories
  <2>2. ~req.failClosed => FailureFinding.status # "fail"
    BY DEF FailureFinding, SystemFinding
  <2>3. ~req.failClosed => Blames(mem.hash.src, {FailureFinding})
    BY <2>2 DEF Blames
  <2>4. QED
    BY <2>1, <2>3 DEF FailInv, FailsAreOfTheirKey
<1>8. ASSUME NEW answer \in Answers, NEW raised, Engine(answer, raised) PROVE FailInv'
  <2>1. /\ cache' = cache /\ req' = req /\ mem'.hash = mem.hash /\ mem'.key = mem.key
        /\ mem'.found.formal = Verdicts(answer, raised, tree')
        /\ pc = "engine" /\ pc' = "putFormal" /\ Compiled
    BY <1>0, <1>8, LatexmkCompiles DEF Engine, Goto, Memories
  <2>2. tree.src = mem.hash.src /\ tree'.src = tree.src /\ tree' \in Trees
    BY <2>1, TypeStep DEF HashIsCurrent, Compiled, TypeOK
  <2>3. ASSUME NotOfAnother(mem.key.pdf, mem.hash.src), ~req.failClosed
        PROVE  Blames(mem.hash.src, Verdicts(answer, raised, tree'))
    <3>1. Given(mem.hash.src)
      BY <2>1, <2>3 DEF GivenInv
    <3>2. mem.file => NotOfAnother(PdfIn(tree'), tree'.src)
      BY <2>1, <2>2, <3>1 DEF Given, PdfAtHand, PdfIn, Compiled, NotOfAnother, NoFile
    <3>3. QED
      BY <2>2, <2>3, <3>1, <3>2, VerdictsBlame DEF Given
  <2>4. "build" \in req.stages => NotOfAnother(mem.key.pdf, mem.hash.src)
    BY <2>1 DEF GivenInv, Judging
  <2>5. QED
    BY <2>1, <2>3, <2>4 DEF FailInv, FailsAreOfTheirKey
<1>9. CASE PutFormal
  <2>1. /\ req' = req /\ mem' = mem /\ pc = "putFormal" /\ pc' = "writeFormal"
        /\ mem.key.hash = mem.hash /\ mem.key.failClosed = req.failClosed
    BY <1>9 DEF PutFormal, Goto, env, HashIsCurrent, Judging
  <2>2. FailsAreOfTheirKey'
    BY <1>0, <1>9, <2>1, FormalAdded DEF FailInv, FailsAreOfTheirKey
  <2>3. QED
    BY <2>1, <2>2 DEF FailInv
<1>10. CASE LoseEntry
  <2>1. mem' = mem /\ pc = "idle" /\ pc' = pc
    BY <1>10 DEF LoseEntry
  <2>2. QED
    BY <1>0, <1>10, <2>1, EntryLost DEF FailInv, FailsAreOfTheirKey
<1>11. QED
  BY <1>1, <1>3, <1>4, <1>5, <1>6, <1>7, <1>8, <1>9, <1>10, StepCases DEF Telling

\* A fail-open run blames the thesis for no violation of another revision: not
\* one whose findings are in the cache, nor one whose PDF still lies there.  The
\* other runs, those with --only, fail-closed ones among them, may be any.
THEOREM NoFailIsFalse ==
  ASSUME Nobody
  PROVE  Spec => []NoFalseFailHere
<1> DEFINE Inv == HashIsCurrent /\ FilesInv /\ GivenInv /\ FailInv
<1>1. Init => Inv
  <2> SUFFICES ASSUME Init PROVE Inv
    OBVIOUS
  <2>1. tree.pdf.run = 0 /\ runs = 0 /\ pc = "idle"
    BY DEF Init, FirstTree, NoFile
  <2>2. BuildsAreOfTheirKey /\ FailsAreOfTheirKey
    BY DEF Init, EmptyCache, BuildsAreOfTheirKey, FailsAreOfTheirKey
  <2>3. QED
    BY <2>1, <2>2 DEF HashIsCurrent, FilesInv, GivenInv, FailInv, Early, Judging
<1>2. TypeOK /\ Inv /\ [Next]_vars => Inv'
  BY HashStep, FilesStep, GivenStep, FailStep
<1>3. Inv => NoFalseFailHere
  BY DEF HashIsCurrent, FailInv, Blames, NoFalseFail, NoFalseFailHere, JustPublished,
         FullRequest, Stage
<1> HIDE DEF Inv
<1>4. QED
  BY <1>1, <1>2, <1>3, TypeCorrect, PTL DEF Spec

\* Where every run is fail-open, none does.
COROLLARY NoFailIsEverFalse ==
  ASSUME Nobody, FailOpenOnly
  PROVE  Spec => []NoFalseFail
<1>1. TypeOK /\ NoFalseFailHere => NoFalseFail
  BY DEF TypeOK, FailOpenOnly, NoFalseFailHere
<1>2. QED
  BY <1>1, NoFailIsFalse, TypeCorrect, PTL

-----------------------------------------------------------------------------
(* No false pass                                                           *)

\* A LaTeX project whose PDF and log stay where latexmk left them; runs that ask
\* for every rule, with the severities of a draft.  Each part is needed: a run with
\* --only or --final shares its cache entries with one without, and a tree that
\* has lost its PDF looks as it did before the build.
Steady ==
    /\ IsTex /\ Nobody /\ "clean" \notin FaultKinds
    /\ Violates[BuildRule] = {}      \* SYS-03 fails on Broken
    /\ EveryRuleAsked /\ \A r \in Request : ~r.final

Fails(found) ==
    \E f \in found : f.layer = "script" /\ f.severity = "error" /\ f.status = "fail"

\* Without a failure, and unless a tool failed, revision s violates no rule.
Tells(s, found) ==
    \/ Fails(found)
    \/ \E f \in found : f.severity = "warn" /\ f.status = "unverifiable"
    \/ \A r \in Rule : RuleSeverity[r] = "error" => s \notin Violates[r]

\* LaTeX compiles revision s, and this is the PDF.
Compiles(s, file) == s \notin Broken \cup NoPdf /\ file # NoFile /\ file.src = s

\* The findings under such a key are those of a run that saw all of revision s.
Whole(k) == k.pdf.src = k.hash.src /\ k.hash.src \notin NoPdf

\* latexmk leaves a newer log when it replaces the PDF, and logs only get newer.
LogInv ==
    /\ tree.log <= runs
    /\ pc = "hash" => tree.log < runs
    /\ pc \notin {"idle", "hash"} => mem.hash.log < runs

BuildFine == ~mem.degraded /\ ~Fails(mem.found.build)

\* What a build without a complaint stands for, cached or not.
BuiltInv ==
    /\ \A k \in DOMAIN cache.build :
         /\ cache.build[k].pdf # NoFile => cache.build[k].pdf = k.pdf \/ k.log < tree.log
         /\ \/ cache.build[k].degraded \/ Fails(cache.build[k].findings)
            \/ Compiles(k.src, cache.build[k].pdf)
    /\ pc = "putBuild" /\ mem.pdf # NoFile =>
         mem.pdf = mem.hash.pdf \/ mem.hash.log < tree.log
    /\ pc \in Early => ~mem.degraded
    /\ pc \notin Early \cup {"idle"} /\ "build" \in req.stages /\ BuildFine =>
         Compiles(mem.hash.src, mem.pdf)

\* The PDF whose text is judged is the one that lies there.
AtHandInv ==
    /\ pc \in {"putBuild", "writeBuild", "check1", "formal", "engine"} =>
         /\ mem.file <=> mem.pdf # NoFile
         /\ mem.pdf # NoFile => mem.pdf = tree.pdf
    /\ pc = "engine" => mem.key.pdf = mem.pdf

PassInv ==
    /\ \A k \in DOMAIN cache.formal : Whole(k) => Tells(k.hash.src, cache.formal[k])
    /\ pc \in Judging /\ "build" \in req.stages /\ BuildFine => Whole(mem.key)
    /\ pc = "putFormal" /\ Whole(mem.key) => Tells(mem.hash.src, mem.found.formal)
    /\ pc \in Later /\ {"build", "formal"} \subseteq req.stages /\ BuildFine =>
         Tells(mem.hash.src, mem.found.formal)

LEMMA LogsGrow ==
  ASSUME TypeOK, NEW answer, LatexmkLeaves(answer) \/ UNCHANGED tree,
         tree.log <= runs
  PROVE  tree.log <= tree'.log /\ tree'.log <= runs
<1>1. tree \in Trees /\ runs \in Nat /\ tree.log \in Nat
  BY PipelineBounds DEF TypeOK, Trees
<1>2. \/ tree'.log = tree.log \/ tree'.log = runs
  BY <1>1 DEF LatexmkLeaves, Trees, Logs
<1>3. QED
  BY <1>1, <1>2

LEMMA LogStep ==
  ASSUME Nobody, "clean" \notin FaultKinds, TypeOK, LogInv, [Next]_vars
  PROVE  LogInv'
<1>0. /\ CacheOK /\ mem \in Memories /\ tree \in Trees /\ runs \in Nat
      /\ tree.log \in Nat /\ mem.hash.log \in Nat
  BY PipelineBounds DEF TypeOK, Trees, Memories
<1>1. CASE Passing
  <2>1. SameMatter /\ Onward
    BY <1>1, PassingOn
  <2>2. /\ pc' \notin {"idle", "hash"} => pc \notin {"idle", "hash"}
        /\ pc' = "hash" => pc' = pc
    BY <2>1 DEF Onward, Early, Later, Ending
  <2>3. QED
    BY <2>1, <2>2 DEF SameMatter, LogInv
<1>2. ASSUME NEW r \in Request, Launch(r) PROVE LogInv'
  BY <1>0, <1>2 DEF Launch, LogInv
<1>3. CASE HashSource
  BY <1>0, <1>3 DEF HashSource, Goto, env, Memories, LogInv
<1>4. ASSUME runs' = runs, tree' = tree, mem'.hash = mem.hash, pc' # "hash",
             pc \notin {"idle", "hash"}
      PROVE  LogInv'
  BY <1>4 DEF LogInv
<1>5. CASE ExtractOnly \/ BuildMiss \/ BuildHit \/ FormalHit \/ FormalMiss
  <2>1. /\ runs' = runs /\ tree' = tree /\ pc' # "hash" /\ pc \notin {"idle", "hash"}
    BY <1>5 DEF ExtractOnly, BuildMiss, BuildHit, FormalHit, FormalMiss, Finish, env
  <2>2. mem'.hash = mem.hash
    BY <1>0, <1>5 DEF ExtractOnly, BuildMiss, BuildHit, FormalHit, FormalMiss, Memories
  <2>3. QED
    BY <1>4, <2>1, <2>2
<1>6. CASE PutBuild \/ EngineFails \/ PutFormal
  BY <1>0, <1>4, <1>6 DEF PutBuild, EngineFails, PutFormal, Goto, env, Memories
<1>7. CASE \/ \E answer \in Answers : Latexmk(answer)
           \/ \E answer \in Answers : \E raised : Engine(answer, raised)
  <2>1. /\ runs' = runs /\ pc' \notin {"idle", "hash"} /\ pc \notin {"idle", "hash"}
        /\ mem'.hash = mem.hash
    BY <1>0, <1>7 DEF Latexmk, Engine, Goto, Memories
  <2>2. tree'.log <= runs
    BY <1>7, LogsGrow DEF Latexmk, Engine, LogInv
  <2>3. QED
    BY <2>1, <2>2 DEF LogInv
<1>8. CASE (\E s \in Source : Edit(s)) \/ Clean \/ LoseEntry
  BY <1>0, <1>8 DEF Nobody, Edit, Clean, Fault, LoseEntry, LogInv, Trees
<1>9. QED
  BY <1>1, <1>2, <1>3, <1>5, <1>6, <1>7, <1>8, StepCases DEF Telling

LEMMA BuiltStep ==
  ASSUME Steady, TypeOK, HashIsCurrent, LogInv, BuiltInv, [Next]_vars
  PROVE  BuiltInv'
<1>0. /\ CacheOK /\ mem \in Memories /\ tree \in Trees /\ runs \in Nat
      /\ tree.log \in Nat /\ mem.hash.log \in Nat
      /\ \A k \in DOMAIN cache.build : k.log \in Nat
      /\ IsTex
  BY PipelineBounds DEF TypeOK, Trees, Memories, CacheOK, Steady
<1> DEFINE Entries == \A k \in DOMAIN cache.build :
             /\ cache.build[k].pdf # NoFile =>
                  cache.build[k].pdf = k.pdf \/ k.log < tree.log
             /\ \/ cache.build[k].degraded \/ Fails(cache.build[k].findings)
                \/ Compiles(k.src, cache.build[k].pdf)
<1>1. ASSUME cache'.build = cache.build, tree.log <= tree'.log, tree'.log \in Nat
      PROVE  Entries'
  BY <1>0, <1>1 DEF BuiltInv, Compiles, Fails
<1>2. CASE Passing
  <2>1. SameMatter /\ Onward
    BY <1>2, PassingOn
  <2>2. Entries'
    BY <2>1 DEF SameMatter, BuiltInv, Compiles, Fails
  <2>3. /\ pc' = "putBuild" \/ pc' \in Early => pc' = pc
        /\ pc' \notin Early \cup {"idle"} => pc \notin Early \cup {"idle"}
    BY <2>1 DEF Onward, Early, Later, Ending
  <2>4. QED
    BY <2>1, <2>2, <2>3 DEF SameMatter, BuiltInv, BuildFine, Compiles, Fails
<1>3. ASSUME NEW r \in Request, Launch(r) PROVE BuiltInv'
  <2>1. tree' = tree /\ cache' = cache /\ pc' = "hash" /\ ~mem'.degraded
    BY <1>3 DEF Launch, Fresh
  <2>2. QED
    BY <1>0, <1>1, <2>1 DEF BuiltInv, Early
<1>4. CASE HashSource \/ ExtractOnly \/ BuildMiss
  <2>1. tree' = tree /\ cache' = cache /\ req' = req /\ pc \in Early
    BY <1>4 DEF HashSource, ExtractOnly, BuildMiss, Goto, Early
  <2>2. mem'.degraded = mem.degraded
    BY <1>0, <1>4 DEF HashSource, ExtractOnly, BuildMiss, Memories
  <2>3. \/ pc' \in {"idle"} \cup Early
        \/ "build" \notin req.stages /\ pc' = "check1"
    BY <1>0, <1>4 DEF HashSource, ExtractOnly, BuildMiss, Goto, Finish, Early,
       HashIsCurrent
  <2>4. QED
    BY <1>0, <1>1, <2>1, <2>2, <2>3 DEF BuiltInv, Early
<1>5. CASE BuildHit
  <2>1. /\ tree' = tree /\ cache' = cache /\ mem'.hash = mem.hash
        /\ mem.hash \in DOMAIN cache.build /\ pc' = "writeBuild"
        /\ mem'.pdf = cache.build[mem.hash].pdf
        /\ mem'.degraded = cache.build[mem.hash].degraded
        /\ mem'.found.build = cache.build[mem.hash].findings
    BY <1>0, <1>5 DEF BuildHit, Memories
  <2>2. BuildFine' => Compiles(mem.hash.src, mem'.pdf)
    BY <2>1 DEF BuiltInv, BuildFine
  <2>3. QED
    BY <1>0, <1>1, <2>1, <2>2 DEF BuiltInv, Early
<1>6. ASSUME NEW answer \in Answers, Latexmk(answer) PROVE BuiltInv'
  <2>1. /\ cache' = cache /\ req' = req /\ mem'.hash = mem.hash /\ pc' = "putBuild"
        /\ tree = mem.hash /\ mem.hash.log < runs /\ mem.pdf = NoFile
    BY <1>0, <1>6 DEF Latexmk, Memories, HashIsCurrent, Early, LogInv
  <2>2. tree.log <= tree'.log /\ tree'.log \in Nat
    <3>1. tree' \in Trees
      BY <1>6, LatexmkLeavesType DEF Latexmk
    <3>2. QED
      BY <1>6, <3>1, LogsGrow, PipelineBounds DEF Latexmk, LogInv, Trees
  <2>3. \/ mem'.pdf = NoFile /\ ~BuildFine'
        \/ answer = "success" /\ tree'.pdf # NoFile /\ mem'.pdf = tree'.pdf
    <3>1. CASE mem'.pdf = mem.pdf
      <4>1. \/ mem'.degraded
            \/ mem'.found.build = {FailureFinding} /\ req.failClosed
            \/ answer = "success" /\ tree'.pdf # NoFile /\ mem'.pdf = tree'.pdf
        BY <1>0, <1>6, <3>1 DEF Latexmk, Memories
      <4>2. req.failClosed => Fails({FailureFinding})
        BY DEF FailureFinding, SystemFinding, Fails
      <4>3. QED
        BY <2>1, <3>1, <4>1, <4>2 DEF BuildFine
    <3>2. CASE mem'.pdf # mem.pdf
      BY <1>0, <1>6, <3>2 DEF Latexmk, Memories
    <3>3. QED
      BY <3>1, <3>2
  <2>4. ASSUME answer = "success", tree'.pdf # NoFile
        PROVE  /\ Compiles(mem.hash.src, tree'.pdf)
               /\ tree'.pdf = mem.hash.pdf \/ mem.hash.log < tree'.log
    <3>1. LatexmkLeaves("success") /\ tree.src \notin Broken
      BY <1>6, <2>4 DEF Latexmk, LatexmkAnswers, DueAnswer
    <3>2. \/ UNCHANGED tree /\ tree.pdf.src = tree.src /\ tree.src \notin NoPdf
          \/ /\ tree'.pdf = [src |-> tree.src, run |-> runs] /\ tree'.log = runs
             /\ tree.src \notin NoPdf
      BY <1>0, <2>4, <3>1 DEF LatexmkLeaves, Trees
    <3>3. QED
      BY <2>1, <2>4, <3>1, <3>2 DEF Compiles
  <2>5. QED
    BY <1>1, <2>1, <2>2, <2>3, <2>4 DEF BuiltInv, Early
<1>7. CASE PutBuild
  <2>1. /\ tree' = tree /\ req' = req /\ mem' = mem /\ pc = "putBuild"
        /\ pc' = "writeBuild"
    BY <1>7 DEF PutBuild, Goto, env
  <2>2. /\ mem.pdf # NoFile => mem.pdf = mem.hash.pdf \/ mem.hash.log < tree.log
        /\ "build" \in req.stages /\ BuildFine => Compiles(mem.hash.src, mem.pdf)
        /\ "build" \in req.stages
    BY <2>1 DEF BuiltInv, Early, HashIsCurrent
  <2>3. Entries'
    BY <1>0, <1>7, <2>1, <2>2, BuildAdded DEF BuiltInv, BuildFine, Compiles, Fails
  <2>4. QED
    BY <2>1, <2>2, <2>3 DEF BuiltInv, BuildFine, Early
<1>8. CASE FormalHit \/ FormalMiss \/ EngineFails \/ PutFormal
  <2>1. /\ tree' = tree /\ cache'.build = cache.build /\ req' = req
        /\ pc \notin Early \cup {"idle"} /\ pc' \notin Early \cup {"idle", "putBuild"}
    BY <1>0, <1>8, FormalAdded DEF FormalHit, FormalMiss, EngineFails, PutFormal, Goto,
       Early
  <2>2. /\ mem'.hash = mem.hash /\ mem'.pdf = mem.pdf /\ mem'.degraded = mem.degraded
        /\ mem'.found.build = mem.found.build
    BY <1>0, <1>8 DEF FormalHit, FormalMiss, EngineFails, PutFormal, Memories
  <2>3. QED
    BY <1>0, <1>1, <2>1, <2>2 DEF BuiltInv, BuildFine
<1>9. ASSUME NEW answer \in Answers, NEW raised, Engine(answer, raised) PROVE BuiltInv'
  <2>1. /\ cache' = cache /\ req' = req /\ pc = "engine" /\ pc' = "putFormal"
        /\ mem'.hash = mem.hash /\ mem'.pdf = mem.pdf /\ mem'.degraded = mem.degraded
        /\ mem'.found.build = mem.found.build
    BY <1>0, <1>9 DEF Engine, Goto, Memories
  <2>2. tree.log <= tree'.log /\ tree'.log \in Nat
    <3>1. tree' \in Trees
      BY <1>0, <1>9, LatexmkLeavesType DEF Engine
    <3>2. QED
      BY <1>9, <2>1, <3>1, LogsGrow, PipelineBounds DEF Engine, LogInv, Trees
  <2>3. QED
    BY <1>1, <2>1, <2>2 DEF BuiltInv, BuildFine, Early
<1>10. CASE (\E s \in Source : Edit(s)) \/ Clean
  <2>1. /\ cache' = cache /\ tree'.log = tree.log /\ pc = "idle" /\ pc' = "idle"
    BY <1>0, <1>10 DEF Nobody, Steady, Edit, Clean, Fault, Trees
  <2>2. QED
    BY <1>0, <1>1, <2>1 DEF BuiltInv, Early
<1>11. CASE LoseEntry
  <2>1. tree' = tree /\ pc = "idle" /\ pc' = "idle"
    BY <1>11 DEF LoseEntry
  <2>2. Entries'
    BY <1>0, <1>11, <2>1, EntryLost DEF BuiltInv, Compiles, Fails
  <2>3. QED
    BY <2>1, <2>2 DEF BuiltInv, Early
<1>12. QED
  BY <1>2, <1>3, <1>4, <1>5, <1>6, <1>7, <1>8, <1>9, <1>10, <1>11, StepCases
     DEF Telling

LEMMA AtHandStep ==
  ASSUME Steady, TypeOK, HashIsCurrent, LogInv, BuiltInv, AtHandInv, [Next]_vars
  PROVE  AtHandInv'
<1>0. /\ CacheOK /\ mem \in Memories /\ tree \in Trees /\ tree.log \in Nat
      /\ IsTex /\ PdfAtHand = tree.pdf
  BY PipelineBounds DEF TypeOK, Trees, Steady, PdfAtHand, PdfIn
<1> DEFINE Lying == {"putBuild", "writeBuild", "check1", "formal", "engine"}
           Same(pdf, file) == (file <=> pdf # NoFile) /\ (pdf # NoFile => pdf = tree.pdf)
<1>1. CASE Passing
  <2>1. SameMatter /\ Onward
    BY <1>1, PassingOn
  <2>2. (pc' \in Lying => pc \in Lying) /\ (pc' = "engine" => pc' = pc)
    BY <2>1 DEF Onward, Early, Later, Ending
  <2>3. QED
    BY <2>1, <2>2 DEF SameMatter, AtHandInv
<1>2. CASE \/ \E r \in Request : Launch(r)
           \/ HashSource \/ FormalHit \/ EngineFails \/ PutFormal
           \/ \E answer \in Answers : \E raised : Engine(answer, raised)
           \/ (\E s \in Source : Edit(s)) \/ Clean \/ LoseEntry
  <2>1. pc' \notin Lying
    BY <1>2 DEF Launch, HashSource, FormalHit, EngineFails, PutFormal, Engine, Edit,
       Clean, LoseEntry, Goto, Steady, Nobody
  <2>2. QED
    BY <2>1 DEF AtHandInv
<1>3. CASE ExtractOnly
  <2>1. /\ tree' = tree /\ pc' # "engine"
        /\ pc' \in Lying => Same(mem'.pdf, mem'.file)
    BY <1>0, <1>3 DEF ExtractOnly, Finish, Memories
  <2>2. QED
    BY <2>1 DEF AtHandInv
<1>4. CASE BuildMiss
  BY <1>0, <1>4 DEF BuildMiss, AtHandInv
<1>5. CASE BuildHit
  <2> DEFINE e == cache.build[mem.hash]
  <2>1. /\ tree' = tree /\ pc' = "writeBuild" /\ tree = mem.hash
        /\ mem.hash \in DOMAIN cache.build /\ mem'.pdf = e.pdf
        /\ mem'.file <=> e.pdf # NoFile /\ tree.pdf # NoFile
    BY <1>0, <1>5 DEF BuildHit, HashIsCurrent, Memories
  <2>2. e.pdf # NoFile => e.pdf = tree.pdf
    BY <1>0, <2>1 DEF BuiltInv
  <2>3. QED
    BY <2>1, <2>2 DEF AtHandInv
<1>6. ASSUME NEW answer \in Answers, Latexmk(answer) PROVE AtHandInv'
  <2>1. mem.pdf = NoFile /\ ~mem.file /\ pc' = "putBuild"
    BY <1>6 DEF Latexmk, HashIsCurrent, Early
  <2>2. \/ mem'.pdf = NoFile /\ ~mem'.file
        \/ tree'.pdf # NoFile /\ mem'.pdf = tree'.pdf /\ mem'.file
    BY <1>0, <1>6, <2>1 DEF Latexmk, Memories
  <2>3. QED
    BY <2>1, <2>2 DEF AtHandInv
<1>7. CASE PutBuild
  BY <1>7 DEF PutBuild, Goto, env, AtHandInv
<1>8. CASE FormalMiss
  <2>1. /\ tree' = tree /\ pc = "formal" /\ mem'.pdf = mem.pdf /\ mem'.file = mem.file
        /\ mem'.key.pdf = IF mem.file THEN tree.pdf ELSE NoFile
    BY <1>0, <1>8 DEF FormalMiss, FormalKey, Memories
  <2>2. QED
    BY <2>1 DEF AtHandInv
<1>9. QED
  BY <1>1, <1>2, <1>3, <1>4, <1>5, <1>6, <1>7, <1>8, StepCases DEF Telling

\* A rule that sees the revision it violates says so, or that a tool failed.
LEMMA VerdictsTell ==
  ASSUME Steady, TypeOK, NEW answer, NEW raised, NEW t \in Trees,
         mem.file, mem.pdf.src = t.src, t.pdf.src = t.src, t.src # 0
  PROVE  Tells(t.src, Verdicts(answer, raised, t))
<1>0. Rule \subseteq req.rules /\ ~req.final /\ IsTex
  BY DEF Steady, EveryRuleAsked, TypeOK
<1> SUFFICES ASSUME NEW r \in Rule, RuleSeverity[r] = "error", t.src \in Violates[r]
             PROVE  \E f \in Verdicts(answer, raised, t) :
                      \/ f.layer = "script" /\ f.severity = "error" /\ f.status = "fail"
                      \/ f.severity = "warn" /\ f.status = "unverifiable"
  BY DEF Tells, Fails
<1> DEFINE g == IF r \in raised THEN ToolError(r)
                ELSE RuleFinding(r, EffectiveSeverity(r), RuleStatus(r, t))
<1>1. r # BuildRule
  BY DEF Steady
<1>2. g \in Verdicts(answer, raised, t)
  BY <1>0, <1>1 DEF Verdicts, Judged
<1>3. Sees(r, t) = t.src
  <2>1. mem.pdf # NoFile
    BY DEF NoFile
  <2>2. QED
    BY <1>0, <2>1, RuleAssumption DEF Sees, PdfIn
<1>4. RuleStatus(r, t) = "fail" /\ EffectiveSeverity(r) = "error"
  BY <1>0, <1>3 DEF RuleStatus, EffectiveSeverity
<1>5. \/ g.layer = "script" /\ g.severity = "error" /\ g.status = "fail"
      \/ g.severity = "warn" /\ g.status = "unverifiable"
  BY <1>4 DEF ToolError, RuleFinding
<1>6. QED
  BY <1>2, <1>5

LEMMA PassStep ==
  ASSUME Steady, TypeOK, HashIsCurrent, BuiltInv, AtHandInv, PassInv, [Next]_vars
  PROVE  PassInv'
<1>0. /\ CacheOK /\ mem \in Memories /\ tree \in Trees /\ IsTex
      /\ tree.src \in Nat \ {0}
  BY SourceAssumption DEF TypeOK, Steady, Trees
<1> DEFINE Entries == \A k \in DOMAIN cache.formal :
                        Whole(k) => Tells(k.hash.src, cache.formal[k])
<1>1. ASSUME cache'.formal = cache.formal, pc' \notin Judging \cup Later
      PROVE  PassInv'
  BY <1>1 DEF PassInv, Judging, Tells, Fails, Whole
<1>2. CASE Passing
  <2>1. SameMatter /\ Onward
    BY <1>2, PassingOn
  <2>2. /\ pc' \in Judging => pc' = pc
        /\ pc' \in Later /\ "formal" \in req.stages => pc \in Later
    BY <2>1 DEF Onward, Early, Judging, Later, Ending
  <2>3. QED
    BY <2>1, <2>2 DEF SameMatter, PassInv, BuildFine, Fails, Judging
<1>3. CASE \/ \E r \in Request : Launch(r)
           \/ HashSource \/ ExtractOnly \/ BuildHit \/ BuildMiss \/ PutBuild
           \/ \E answer \in Answers : Latexmk(answer)
           \/ (\E s \in Source : Edit(s)) \/ Clean
  <2>1. cache'.formal = cache.formal
    BY <1>0, <1>3, BuildAdded DEF Launch, HashSource, ExtractOnly, BuildHit, BuildMiss,
       Latexmk, Edit, Clean
  <2>2. pc' \notin Judging \cup Later
    BY <1>3 DEF Launch, HashSource, ExtractOnly, BuildHit, BuildMiss, PutBuild, Latexmk,
       Edit, Clean, Goto, Finish, Judging, Later, Steady, Nobody
  <2>3. QED
    BY <1>1, <2>1, <2>2
<1>4. CASE FormalHit
  <2>1. /\ cache' = cache /\ req' = req /\ pc = "formal" /\ pc' = "writeFormal"
        /\ mem'.hash = mem.hash /\ mem'.degraded = mem.degraded
        /\ mem'.found.build = mem.found.build /\ FormalKey \in DOMAIN cache.formal
        /\ mem'.found.formal = cache.formal[FormalKey]
    BY <1>0, <1>4 DEF FormalHit, Memories
  <2>2. ASSUME "build" \in req.stages, BuildFine PROVE Whole(FormalKey)
    <3>1. Compiles(mem.hash.src, mem.pdf) /\ mem.file /\ mem.pdf = tree.pdf
      BY <2>1, <2>2 DEF BuiltInv, AtHandInv, Early, Compiles
    <3>2. QED
      BY <1>0, <3>1 DEF FormalKey, Whole, Compiles
  <2>3. Whole(FormalKey) => Tells(mem.hash.src, cache.formal[FormalKey])
    <3>1. FormalKey.hash = mem.hash
      BY DEF FormalKey
    <3>2. QED
      BY <2>1, <3>1 DEF PassInv
  <2>4. QED
    BY <2>1, <2>2, <2>3 DEF PassInv, BuildFine, Judging
<1>5. CASE FormalMiss
  <2>1. /\ cache' = cache /\ req' = req /\ pc = "formal"
        /\ pc' \in {"engine", "engineFails"}
        /\ mem'.hash = mem.hash /\ mem'.degraded = mem.degraded
        /\ mem'.key.pdf = IF mem.file THEN tree.pdf ELSE NoFile
        /\ mem'.key.hash = mem.hash /\ mem'.found.build = mem.found.build
    BY <1>0, <1>5 DEF FormalMiss, FormalKey, Memories
  <2>2. ASSUME "build" \in req.stages, BuildFine PROVE Whole(mem'.key)
    <3>1. Compiles(mem.hash.src, mem.pdf) /\ mem.file /\ mem.pdf = tree.pdf
      BY <2>1, <2>2 DEF BuiltInv, AtHandInv, Early, Compiles
    <3>2. QED
      BY <2>1, <3>1 DEF Whole, Compiles
  <2>3. QED
    BY <2>1, <2>2 DEF PassInv, BuildFine, Judging, Later
<1>6. CASE EngineFails
  <2>1. /\ cache' = cache /\ req' = req /\ pc \in Judging /\ pc' = "putFormal"
        /\ mem'.hash = mem.hash /\ mem'.degraded = mem.degraded /\ mem'.key = mem.key
        /\ mem'.found.formal = {FailureFinding} /\ mem'.found.build = mem.found.build
    BY <1>0, <1>6 DEF EngineFails, Memories, Judging
  <2>2. Tells(mem.hash.src, {FailureFinding})
    BY DEF FailureFinding, SystemFinding, Tells, Fails
  <2>3. QED
    BY <2>1, <2>2 DEF PassInv, BuildFine, Judging, Later
<1>7. ASSUME NEW answer \in Answers, NEW raised, Engine(answer, raised) PROVE PassInv'
  <2>1. /\ cache' = cache /\ req' = req /\ pc = "engine" /\ pc' = "putFormal"
        /\ mem'.hash = mem.hash /\ mem'.degraded = mem.degraded /\ mem'.key = mem.key
        /\ mem'.found.formal = Verdicts(answer, raised, tree')
        /\ mem'.found.build = mem.found.build
        /\ LatexmkLeaves(answer) \/ UNCHANGED tree
    BY <1>0, <1>7 DEF Engine, Goto, Memories
  <2>2. /\ tree.src = mem.hash.src /\ mem.key.hash = mem.hash /\ mem.key.pdf = mem.pdf
        /\ mem.file <=> mem.pdf # NoFile
        /\ mem.pdf # NoFile => mem.pdf = tree.pdf
    BY <2>1 DEF HashIsCurrent, AtHandInv, Judging
  <2>3. ASSUME Whole(mem.key) PROVE Tells(mem.hash.src, Verdicts(answer, raised, tree'))
    <3>1. /\ mem.pdf.src = tree.src /\ tree.src \notin NoPdf
          /\ mem.file /\ mem.pdf = tree.pdf
      BY <1>0, <2>2, <2>3 DEF Whole, NoFile
    <3>2. tree'.src = tree.src /\ tree'.pdf = tree.pdf /\ tree' \in Trees
      <4>1. tree' \in Trees
        BY <1>0, <2>1, LatexmkLeavesType
      <4>2. QED
        BY <1>0, <2>1, <3>1, <4>1 DEF LatexmkLeaves, Trees
    <3>3. QED
      BY <1>0, <2>2, <3>1, <3>2, VerdictsTell
  <2>4. QED
    BY <2>1, <2>3 DEF PassInv, BuildFine, Judging, Later
<1>8. CASE PutFormal
  <2>1. /\ req' = req /\ mem' = mem /\ pc = "putFormal" /\ pc' = "writeFormal"
        /\ mem.key.hash = mem.hash
    BY <1>8 DEF PutFormal, Goto, env, HashIsCurrent, Judging
  <2>2. Whole(mem.key) => Tells(mem.hash.src, mem.found.formal)
    BY <2>1 DEF PassInv
  <2>3. Entries'
    BY <1>0, <1>8, <2>1, <2>2, FormalAdded DEF PassInv
  <2>4. "build" \in req.stages /\ BuildFine => Whole(mem.key)
    BY <2>1 DEF PassInv, Judging
  <2>5. QED
    BY <2>1, <2>2, <2>3, <2>4 DEF PassInv, BuildFine, Judging
<1>9. CASE LoseEntry
  <2>1. pc' = "idle"
    BY <1>9 DEF LoseEntry
  <2>2. Entries'
    BY <1>0, <1>9, EntryLost DEF PassInv
  <2>3. QED
    BY <2>1, <2>2 DEF PassInv, Judging, Later
<1>10. QED
  BY <1>2, <1>3, <1>4, <1>5, <1>6, <1>7, <1>8, <1>9, StepCases DEF Telling

\* What RunReport refuses is not published.
PublishedIsAccepted == pc = "markdown" => Accepted(ResolveExitCode)

LEMMA AcceptedStep ==
  ASSUME PublishedIsAccepted, [Next]_vars PROVE PublishedIsAccepted'
<1> SUFFICES ASSUME pc' = "markdown" PROVE Accepted(ResolveExitCode)'
  BY DEF PublishedIsAccepted
<1>1. /\ mem' = mem /\ req' = req
      /\ pc = "markdown" \/ Accepted(ResolveExitCode)
  <2>1. CASE Passing
    <3>1. CASE Semantic
      BY <3>1 DEF Semantic, SemanticConfigError, SemanticSkip, SemanticHit,
         SemanticMiss, WriteStage, CheckCanceled, Goto
    <3>2. CASE Publication
      BY <3>2 DEF Publication, PublishReport, RejectReport, PublishMarkdown,
         PublishSummary, WriteStage, WriteRunState, WriteCanceled,
         WriteCanceledReport, Finish, Goto
    <3>3. CASE Passing /\ ~Semantic /\ ~Publication
      BY <3>3 DEF Passing, Sigint, Crash, RaiseError, vars, WriteStage, CheckCanceled,
         Goto
    <3>4. QED
      BY <2>1, <3>1, <3>2, <3>3
  <2>2. CASE Telling
    <3>1. pc' # "markdown" \/ (pc' = pc /\ mem' = mem /\ req' = req)
      BY <2>2 DEF Telling, Launch, HashSource, ExtractOnly, BuildHit, BuildMiss,
         PutBuild, Latexmk, FormalHit, FormalMiss, EngineFails, PutFormal, Engine, Edit,
         Clean, LoseEntry, Goto, Finish
    <3>2. QED
      BY <3>1
  <2>3. QED
    BY <2>1, <2>2, StepCases
<1>2. Accepted(ResolveExitCode)
  BY <1>1 DEF PublishedIsAccepted
<1>3. QED
  BY <1>1, <1>2 DEF Accepted, ResolveExitCode, AllFound

\* In the steady setting a full run that publishes a clean pass has looked at the
\* project as it is: it compiles, and violates no rule of severity error; the
\* findings may be of another run, before any number of edits, crashes, lost
\* entries and failing tools.
THEOREM NoPassIsFalse ==
  ASSUME Steady
  PROVE  Spec => []NoFalsePass
<1> DEFINE Inv == /\ HashIsCurrent /\ LogInv /\ BuiltInv /\ AtHandInv /\ PassInv
                 /\ PublishedIsAccepted
<1>1. Init => Inv
  <2> SUFFICES ASSUME Init PROVE Inv
    OBVIOUS
  <2>1. /\ tree.log = 0 /\ runs = 0 /\ pc = "idle"
        /\ DOMAIN cache.build = {} /\ DOMAIN cache.formal = {}
    BY DEF Init, FirstTree, EmptyCache
  <2>2. QED
    BY <2>1 DEF HashIsCurrent, LogInv, BuiltInv, AtHandInv, PassInv,
       PublishedIsAccepted, Early, Judging, Later
<1>2. TypeOK /\ Inv /\ [Next]_vars => Inv'
  <2>1. Steady => Nobody /\ "clean" \notin FaultKinds
    BY DEF Steady
  <2>2. QED
    BY <2>1, HashStep, LogStep, BuiltStep, AtHandStep, PassStep, AcceptedStep
<1>3. IInv /\ Inv => NoFalsePass
  <2> SUFFICES ASSUME IInv, Inv, JustPublished, FullRequest,
                      out.report.exit = "SUCCESS", ~out.report.degraded,
                      ~ToolErrorReported
               PROVE  /\ tree.src \notin Broken
                      /\ \A r \in Rule : EffectiveSeverity(r) = "error" =>
                                           tree.src \notin Violates[r]
    BY DEF NoFalsePass
  <2>1. /\ pc = "markdown" /\ tree.src = mem.hash.src /\ ~req.final
        /\ Stage \subseteq req.stages
    BY DEF JustPublished, FullRequest, HashIsCurrent, Steady, IInv, TypeOK
  <2>2. out.report = Report(ResolveExitCode)
    BY <2>1 DEF IInv, ReportInOrder
  <2>3. ResolveExitCode = "SUCCESS" /\ ~mem.degraded
    <3>1. out.report.exit = ResolveExitCode
      BY <2>2 DEF Report
    <3>2. out.report.degraded = HeaderDegraded(AllFound(mem), mem.degraded)
      BY <2>2 DEF Report
    <3>3. QED
      BY <3>1, <3>2 DEF HeaderDegraded
  <2>4. ~Fails(mem.found.build) /\ ~Fails(mem.found.formal)
    <3>1. ValidExitCode(AllFound(mem), req.mode, "SUCCESS")
      BY <2>1, <2>3 DEF PublishedIsAccepted, Accepted
    <3>2. ~HasBlockingFormalFinding(AllFound(mem), req.mode)
      BY <3>1 DEF ValidExitCode
    <3>3. ~Fails(AllFound(mem))
      BY <3>2 DEF HasBlockingFormalFinding, BlockingStatuses, Fails
    <3>4. QED
      BY <3>3 DEF Fails, AllFound
  <2>5. Compiles(mem.hash.src, mem.pdf) /\ Tells(mem.hash.src, mem.found.formal)
    BY <2>1, <2>3, <2>4 DEF BuiltInv, BuildFine, PassInv, Early, Later, Stage
  <2>6. ASSUME NEW r \in Rule, EffectiveSeverity(r) = "error"
        PROVE  tree.src \notin Violates[r]
    BY <2>1, <2>4, <2>5, <2>6 DEF EffectiveSeverity, Tells, ToolErrorReported
  <2>7. QED
    BY <2>1, <2>5, <2>6 DEF Compiles
<1> HIDE DEF Inv
<1>4. QED
  BY <1>1, <1>2, <1>3, TypeCorrect, IInvariant, PTL DEF Spec

-----------------------------------------------------------------------------
(* No PDF, no silence                                                      *)

\* What a LaTeX build without a PDF has said, now or when it was stored.
SaidInv ==
    /\ \A k \in DOMAIN cache.build : cache.build[k].pdf = NoFile =>
         cache.build[k].degraded \/ Fails(cache.build[k].findings)
    /\ pc \in {"build", "latexmk", "putBuild", "writeBuild"} => "build" \in req.stages
    /\ pc = "extract" => "build" \notin req.stages
    /\ pc \notin Early \cup {"idle"} /\ "build" \in req.stages /\ mem.pdf = NoFile =>
         ~BuildFine

LEMMA SaidStep ==
  ASSUME IsTex, TypeOK, SaidInv, [Next]_vars
  PROVE  SaidInv'
<1>0. CacheOK /\ mem \in Memories
  BY DEF TypeOK
<1> DEFINE Entries == \A k \in DOMAIN cache.build : cache.build[k].pdf = NoFile =>
             cache.build[k].degraded \/ Fails(cache.build[k].findings)
<1>1. cache'.build = cache.build => Entries'
  BY DEF SaidInv, Fails
<1>2. CASE Passing
  <2>1. SameMatter /\ Onward
    BY <1>0, <1>2, PassingOn
  <2>2. /\ pc' \in Early \cup {"putBuild", "writeBuild"} => pc' = pc
        /\ pc' \notin Early \cup {"idle"} => pc \notin Early \cup {"idle"}
    BY <2>1 DEF Onward, Early, Later, Ending
  <2>3. QED
    BY <1>1, <2>1, <2>2 DEF SameMatter, SaidInv, BuildFine, Fails, Early
<1>3. CASE (\E r \in Request : Launch(r)) \/ HashSource \/ ExtractOnly \/ BuildMiss
  <2>1. cache' = cache
    BY <1>3 DEF Launch, HashSource, ExtractOnly, BuildMiss
  <2>2. CASE \E r \in Request : Launch(r)
    BY <1>1, <2>1, <2>2 DEF Launch, SaidInv, Early
  <2>3. CASE HashSource
    BY <1>1, <2>1, <2>3 DEF HashSource, Goto, SaidInv, Early
  <2>4. CASE ExtractOnly
    BY <1>1, <2>1, <2>4 DEF ExtractOnly, Finish, SaidInv, Early
  <2>5. CASE BuildMiss
    BY <1>1, <2>1, <2>5 DEF BuildMiss, SaidInv, Early
  <2>6. QED
    BY <1>3, <2>2, <2>3, <2>4, <2>5
<1>4. CASE BuildHit
  <2>1. /\ cache' = cache /\ req' = req /\ mem.hash \in DOMAIN cache.build
        /\ pc = "build" /\ pc' = "writeBuild"
        /\ mem'.pdf = cache.build[mem.hash].pdf
        /\ mem'.degraded = cache.build[mem.hash].degraded
        /\ mem'.found.build = cache.build[mem.hash].findings
    BY <1>0, <1>4 DEF BuildHit, Memories
  <2>2. QED
    BY <1>1, <2>1 DEF SaidInv, BuildFine, Fails
<1>5. ASSUME NEW answer \in Answers, Latexmk(answer) PROVE SaidInv'
  <2>1. cache' = cache /\ req' = req /\ pc = "latexmk" /\ pc' = "putBuild"
    BY <1>5 DEF Latexmk
  <2>2. mem'.pdf = NoFile => ~BuildFine'
    <3>1. ASSUME mem'.pdf = NoFile
          PROVE  \/ mem'.degraded
                 \/ mem'.found.build = {FailureFinding} /\ req.failClosed
      BY <1>0, <1>5, <3>1 DEF Latexmk, Memories
    <3>2. req.failClosed => Fails({FailureFinding})
      BY DEF FailureFinding, SystemFinding, Fails
    <3>3. QED
      BY <3>1, <3>2 DEF BuildFine, Fails
  <2>3. QED
    BY <1>1, <2>1, <2>2 DEF SaidInv
<1>6. CASE PutBuild
  <2>1. req' = req /\ mem' = mem /\ pc = "putBuild" /\ pc' = "writeBuild"
    BY <1>6 DEF PutBuild, Goto
  <2>2. "build" \in req.stages /\ (mem.pdf = NoFile => ~BuildFine)
    BY <2>1 DEF SaidInv, Early
  <2>3. Entries'
    BY <1>0, <1>6, <2>2, BuildAdded DEF SaidInv, BuildFine, Fails
  <2>4. QED
    BY <2>1, <2>2, <2>3 DEF SaidInv, BuildFine, Fails
<1>7. CASE \/ FormalHit \/ FormalMiss \/ EngineFails \/ PutFormal
           \/ \E answer \in Answers : \E raised : Engine(answer, raised)
  <2>1. /\ cache'.build = cache.build /\ req' = req
        /\ pc \notin Early \cup {"idle"}
        /\ pc' \notin Early \cup {"idle", "putBuild", "writeBuild"}
    BY <1>0, <1>7, FormalAdded DEF FormalHit, FormalMiss, EngineFails, PutFormal,
       Engine, Goto, Early
  <2>2. /\ mem'.pdf = mem.pdf /\ mem'.degraded = mem.degraded
        /\ mem'.found.build = mem.found.build
    BY <1>0, <1>7 DEF FormalHit, FormalMiss, EngineFails, PutFormal, Engine, Memories
  <2>3. QED
    BY <1>1, <2>1, <2>2 DEF SaidInv, BuildFine, Fails, Early
<1>8. CASE (\E s \in Source : Edit(s)) \/ Clean
  BY <1>1, <1>8 DEF Edit, Clean, Fault, SaidInv, BuildFine, Fails
<1>9. CASE LoseEntry
  <2>1. pc' = "idle" /\ Entries'
    BY <1>0, <1>9, EntryLost DEF LoseEntry, SaidInv, Fails
  <2>2. QED
    BY <2>1 DEF SaidInv
<1>10. QED
  BY <1>2, <1>3, <1>4, <1>5, <1>6, <1>7, <1>8, <1>9, StepCases DEF Telling

\* A full LaTeX run that had no PDF to measure never publishes a success that
\* does not call itself degraded, whoever filled the cache, edited meanwhile or
\* killed an earlier run.
THEOREM NoSilenceWithoutPdf == Spec => []NoPdfIsDegraded
<1> DEFINE Inv == SaidInv /\ PublishedIsAccepted
<1>1. CASE ~IsTex
  <2>1. NoPdfIsDegraded
    BY <1>1 DEF NoPdfIsDegraded
  <2>2. QED
    BY <2>1, PTL
<1>2. CASE IsTex
  <2>1. Init => Inv
    BY DEF Init, EmptyCache, SaidInv, PublishedIsAccepted
  <2>2. TypeOK /\ Inv /\ [Next]_vars => Inv'
    BY <1>2, SaidStep, AcceptedStep
  <2>3. IInv /\ Inv => NoPdfIsDegraded
    <3> SUFFICES ASSUME IInv, Inv, JustPublished, FullRequest, mem.pdf = NoFile,
                        out.report.exit = "SUCCESS"
                 PROVE  out.report.degraded
      BY DEF NoPdfIsDegraded
    <3>1. pc = "markdown" /\ Stage \subseteq req.stages
      BY DEF JustPublished, FullRequest
    <3>2. /\ out.report.exit = ResolveExitCode
          /\ out.report.degraded = HeaderDegraded(AllFound(mem), mem.degraded)
      BY <3>1 DEF IInv, ReportInOrder, Report
    <3>3. ~HasBlockingFormalFinding(AllFound(mem), req.mode)
      BY <3>1, <3>2 DEF PublishedIsAccepted, Accepted, ValidExitCode
    <3>4. ~Fails(mem.found.build)
      BY <3>3 DEF HasBlockingFormalFinding, BlockingStatuses, Fails, AllFound
    <3>5. mem.degraded
      BY <3>1, <3>4 DEF SaidInv, BuildFine, Early, Stage
    <3>6. QED
      BY <3>2, <3>5 DEF HeaderDegraded
  <2> HIDE DEF Inv
  <2>4. QED
    BY <2>1, <2>2, <2>3, TypeCorrect, IInvariant, PTL DEF Spec
<1>3. QED
  BY <1>1, <1>2

-----------------------------------------------------------------------------
(***************************************************************************)
(* That a run of Pipeline can be repeated: its exit code is a function of  *)
(* its request and of the tree that was hashed, whichever of its stages    *)
(* came out of the cache, and whatever filled it.                          *)
(***************************************************************************)

\* The steady setting, fail-open, with tools and rules that answer.  Runs may be
\* killed or meet an OSError, entries may be lost, and the project may be edited
\* between runs.
Reproducible ==
    Steady /\ FailOpenOnly /\ FaultKinds \subseteq {"crash", "io", "lose"}

\* Revisions whose build leaves no PDF that can be read.
Unseen == Broken \cup NoPdf \cup BadPdf

\* The build of revision s comes to this PDF.
BuildFits(s, file) ==
    /\ file = NoFile <=> s \in Unseen
    /\ file # NoFile => file.src = s

\* The revision a metric on the layout sees after the engine has run latexmk on
\* revision s: latexmk may have replaced or removed the PDF that was extracted.
Shown(s, file) ==
    CASE file = NoFile -> 0
      [] file # NoFile /\ s \in Broken -> file.src
      [] file # NoFile /\ s \in NoPdf \ Broken -> 0
      [] file # NoFile /\ s \notin NoPdf \cup Broken -> s

Looks(r, s, file) ==
    CASE Reads[r] = "project" -> s
      [] Reads[r] = "pdf" -> file.src
      [] Reads[r] = "layout" -> Shown(s, file)

\* The findings on revision s and a PDF.
Judgement(s, file) ==
    {RuleFinding(r, RuleSeverity[r],
       IF r = BuildRule THEN (IF s \in Broken THEN "fail" ELSE "pass")
       ELSE IF Looks(r, s, file) \in Violates[r] THEN "fail" ELSE "pass") : r \in Rule}

\* What a run with request q on a tree with this hash has to end with.
DuePdf(hash, q) ==
    IF "build" \notin q.stages THEN hash.pdf
    ELSE IF hash.src \in Unseen THEN NoFile ELSE [src |-> hash.src, run |-> 0]
DueFindings(hash, q) ==
    IF "formal" \in q.stages THEN Judgement(hash.src, DuePdf(hash, q)) ELSE {}
DueExit(hash, q) ==
    IF "build" \notin q.stages /\ Unreadable(hash.pdf) THEN "CONFIG_ERROR"
    ELSE FormalExitCode(DueFindings(hash, q), q.mode)

\* No tool is missing and nobody cancels; a build comes to what it must.
BuildInv ==
    /\ ~sigint /\ pc # "engineFails" /\ ~mem.toolMissing
    /\ \A k \in DOMAIN cache.build :
         ~cache.build[k].toolMissing /\ BuildFits(k.src, cache.build[k].pdf)
    /\ pc \notin Early \cup {"idle"} =>
         IF "build" \in req.stages THEN BuildFits(mem.hash.src, mem.pdf)
         ELSE mem.pdf = mem.hash.pdf /\ ~Unreadable(mem.hash.pdf)

Unjudged == {"putBuild", "writeBuild", "check1", "formal", "engine"}
Decided == {"writeFormal", "check2", "semantic", "writeSemantic", "check3", "publish",
            "markdown", "summary", "writeAggregate", "runState"}

\* And so do the rules, in this run and in each run that filled the cache.
DueInv ==
    /\ \A k \in DOMAIN cache.formal : cache.formal[k] = Judgement(k.hash.src, k.pdf)
    /\ pc \in Unjudged => mem.found.formal = {}
    /\ pc \in {"formal", "engine", "putFormal"} => "formal" \in req.stages
    /\ pc \in {"engine", "putFormal"} =>
         mem.key.hash = mem.hash /\ mem.key.pdf = mem.pdf
    /\ pc = "putFormal" => mem.found.formal = Judgement(mem.hash.src, mem.pdf)
    /\ pc \in Decided => mem.found.formal = DueFindings(mem.hash, req)

\* Every run that came to an end by itself ended as it had to.
SeenInv == \A a \in seen : a.exit = DueExit(a.tree, a.req)

-----------------------------------------------------------------------------
(* The build                                                               *)

\* In this setting latexmk answers what is due, and every rule is judged.
LEMMA NoFaults ==
  ASSUME Reproducible
  PROVE  /\ ~Fault("latexmk") /\ ~Fault("rule") /\ ~Fault("engine") /\ ~Fault("sigint")
         /\ IsTex /\ Nobody /\ "clean" \notin FaultKinds
BY DEF Reproducible, Steady, Fault

\* What latexmk leaves of revision s, where it found this PDF.
LEMMA DueLeaves ==
  ASSUME TypeOK, LatexmkLeaves(DueAnswer)
  PROVE  /\ tree'.src = tree.src
         /\ tree.src \in Broken => tree'.pdf = tree.pdf
         /\ tree.src \in NoPdf \ Broken => tree'.pdf = NoFile
         /\ tree.src \notin NoPdf \cup Broken => tree'.pdf.src = tree.src
<1>1. tree \in Trees
  BY DEF TypeOK
<1>2. CASE tree.src \in Broken
  BY <1>1, <1>2 DEF DueAnswer, LatexmkLeaves, Trees
<1>3. CASE tree.src \notin Broken
  <2>1. LatexmkLeaves("success")
    BY <1>3 DEF DueAnswer
  <2>2. CASE tree.src \in NoPdf
    BY <1>1, <1>3, <2>1, <2>2 DEF LatexmkLeaves, Trees
  <2>3. CASE tree.src \notin NoPdf
    <3>1. \/ UNCHANGED tree /\ tree.pdf.src = tree.src
          \/ tree' = [tree EXCEPT !.log = runs,
                                  !.pdf = [src |-> tree.src, run |-> runs]]
      BY <2>1, <2>3 DEF LatexmkLeaves
    <3>2. /\ tree'.src = tree.src
          /\ \/ tree'.pdf = tree.pdf /\ tree.pdf.src = tree.src
             \/ tree'.pdf = [src |-> tree.src, run |-> runs]
      BY <1>1, <3>1 DEF Trees
    <3>3. QED
      BY <1>3, <2>3, <3>2
  <2>4. QED
    BY <2>2, <2>3
<1>4. QED
  BY <1>2, <1>3

LEMMA BuildStepFits ==
  ASSUME Reproducible, TypeOK, HashIsCurrent, BuildInv, [Next]_vars
  PROVE  BuildInv'
<1>0. /\ CacheOK /\ mem \in Memories /\ tree \in Trees /\ IsTex
      /\ PdfAtHand = tree.pdf
  BY NoFaults DEF TypeOK, PdfAtHand, PdfIn
<1> DEFINE Entries == \A k \in DOMAIN cache.build :
             ~cache.build[k].toolMissing /\ BuildFits(k.src, cache.build[k].pdf)
<1>1. cache'.build = cache.build => Entries'
  BY DEF BuildInv, BuildFits
<1>2. CASE Passing
  <2>1. SameMatter /\ Onward
    BY <1>2, PassingOn
  <2>2. ~sigint'
    BY <1>2, NoFaults DEF BuildInv, Passing, Semantic, SemanticConfigError,
       SemanticSkip, SemanticHit, SemanticMiss, Publication, PublishReport,
       RejectReport, PublishMarkdown, PublishSummary, WriteStage, WriteRunState,
       WriteCanceled, WriteCanceledReport, CheckCanceled, Finish, Sigint, Crash,
       RaiseError, env, vars
  <2>3. /\ pc' # "engineFails"
        /\ pc' \notin Early \cup {"idle"} => pc \notin Early \cup {"idle"}
    BY <2>1 DEF BuildInv, Onward, Early, Later, Ending
  <2>4. QED
    BY <1>1, <2>1, <2>2, <2>3 DEF SameMatter, BuildInv, BuildFits, Unreadable
<1>3. CASE (\E r \in Request : Launch(r)) \/ HashSource \/ BuildMiss
  <2>1. cache' = cache /\ ~sigint' /\ ~mem'.toolMissing
    BY <1>0, <1>3 DEF Launch, Fresh, HashSource, BuildMiss, env, BuildInv, Memories
  <2>2. pc' \in Early
    BY <1>0, <1>3 DEF Launch, HashSource, BuildMiss, Goto, Early
  <2>3. QED
    BY <1>1, <2>1, <2>2 DEF BuildInv, Early
<1>4. CASE ExtractOnly
  <2>1. /\ cache' = cache /\ req' = req /\ ~sigint' /\ ~mem'.toolMissing
        /\ mem'.hash = mem.hash /\ tree = mem.hash /\ "build" \notin req.stages
    BY <1>0, <1>4 DEF ExtractOnly, Finish, env, BuildInv, HashIsCurrent, Memories
  <2>2. \/ pc' = "idle"
        \/ pc' = "check1" /\ mem'.pdf = mem.hash.pdf /\ ~Unreadable(mem.hash.pdf)
    BY <1>0, <1>4, <2>1 DEF ExtractOnly, Finish, Memories
  <2>3. QED
    BY <1>1, <2>1, <2>2 DEF BuildInv, Unreadable
<1>5. CASE BuildHit
  <2>1. /\ cache' = cache /\ req' = req /\ sigint' = sigint /\ mem'.hash = mem.hash
        /\ mem.hash \in DOMAIN cache.build /\ pc' = "writeBuild"
        /\ "build" \in req.stages
        /\ mem'.pdf = cache.build[mem.hash].pdf
        /\ mem'.toolMissing = cache.build[mem.hash].toolMissing
    BY <1>0, <1>5 DEF BuildHit, env, HashIsCurrent, Memories
  <2>2. QED
    BY <1>1, <2>1 DEF BuildInv, BuildFits
<1>6. ASSUME NEW answer \in Answers, Latexmk(answer) PROVE BuildInv'
  <2>1. /\ cache' = cache /\ req' = req /\ sigint' = sigint /\ mem'.hash = mem.hash
        /\ pc' = "putBuild" /\ "build" \in req.stages /\ mem.pdf = NoFile
        /\ tree.src = mem.hash.src
    BY <1>0, <1>6 DEF Latexmk, HashIsCurrent, Early, Memories
  <2>2. answer = DueAnswer /\ LatexmkLeaves(DueAnswer) /\ answer # "tool_missing"
    BY <1>6, NoFaults DEF Latexmk, LatexmkAnswers, DueAnswer
  <2>3. ~mem'.toolMissing
    BY <1>0, <1>6, <2>2 DEF Latexmk, BuildInv, Memories
  <2>4. BuildFits(mem.hash.src, mem'.pdf)
    <3> DEFINE readable == answer = "success" /\ tree'.pdf # NoFile
                             /\ ~Unreadable(tree'.pdf)
    <3>1. mem'.pdf = IF readable THEN tree'.pdf ELSE NoFile
      BY <1>0, <1>6, <2>1 DEF Latexmk, Memories
    <3>2. tree.src # 0
      BY <1>0, SourceAssumption DEF Trees
    <3>3. CASE tree.src \in Broken \cup NoPdf
      <4>1. ~readable
        BY <2>2, <3>3, DueLeaves DEF DueAnswer
      <4>2. QED
        BY <2>1, <3>1, <3>3, <4>1 DEF BuildFits, Unseen
    <3>4. CASE tree.src \notin Broken \cup NoPdf
      <4>1. answer = "success" /\ tree'.pdf.src = tree.src /\ tree'.pdf # NoFile
        BY <2>2, <3>2, <3>4, DueLeaves DEF DueAnswer, NoFile
      <4>2. readable <=> tree.src \notin BadPdf
        BY <4>1 DEF Unreadable
      <4>3. QED
        BY <2>1, <3>1, <3>4, <4>1, <4>2 DEF BuildFits, Unseen
    <3>5. QED
      BY <3>3, <3>4
  <2>5. QED
    BY <1>1, <2>1, <2>3, <2>4 DEF BuildInv, BuildFits
<1>7. CASE PutBuild
  <2>1. /\ req' = req /\ mem' = mem /\ sigint' = sigint /\ pc = "putBuild"
        /\ pc' = "writeBuild" /\ "build" \in req.stages
    BY <1>7 DEF PutBuild, Goto, env, HashIsCurrent
  <2>2. BuildFits(mem.hash.src, mem.pdf) /\ ~mem.toolMissing
    BY <2>1 DEF BuildInv, Early
  <2>3. Entries'
    <3>1. ASSUME NEW k \in DOMAIN cache'.build
          PROVE  ~cache'.build[k].toolMissing /\ BuildFits(k.src, cache'.build[k].pdf)
      <4>1. \/ k = mem.hash /\ cache'.build[k] =
                 [findings |-> mem.found.build, pdf |-> mem.pdf,
                  toolMissing |-> mem.toolMissing, degraded |-> mem.degraded]
            \/ k \in DOMAIN cache.build /\ cache'.build[k] = cache.build[k]
        BY <1>0, <1>7, <3>1 DEF PutBuild, Put, CacheOK
      <4>2. QED
        BY <2>2, <4>1 DEF BuildInv
    <3>2. QED
      BY <3>1 DEF BuildFits
  <2>4. QED
    BY <2>1, <2>2, <2>3 DEF BuildInv, BuildFits
<1>8. CASE \/ FormalHit \/ FormalMiss \/ EngineFails \/ PutFormal
           \/ \E answer \in Answers : \E raised : Engine(answer, raised)
  <2>1. /\ cache'.build = cache.build /\ req' = req /\ sigint' = sigint
        /\ pc \notin Early \cup {"idle"} /\ pc' # "engineFails"
    BY <1>0, <1>8, FormalAdded DEF FormalHit, FormalMiss, EngineFails, PutFormal,
       Engine, Goto, env, Early, BuildInv
  <2>2. /\ mem'.hash = mem.hash /\ mem'.pdf = mem.pdf
        /\ mem'.toolMissing = mem.toolMissing
    BY <1>0, <1>8 DEF FormalHit, FormalMiss, EngineFails, PutFormal, Engine, Memories
  <2>3. QED
    BY <1>1, <2>1, <2>2 DEF BuildInv, BuildFits, Unreadable
<1>9. CASE (\E s \in Source : Edit(s)) \/ Clean \/ LoseEntry
  <2>1. /\ mem' = mem /\ sigint' = sigint /\ pc' = "idle"
    BY <1>9, NoFaults DEF Nobody, Edit, Clean, LoseEntry
  <2>2. Entries'
    BY <1>0, <1>1, <1>9, EntryLost DEF Edit, Clean, LoseEntry, BuildInv
  <2>3. QED
    BY <2>1, <2>2 DEF BuildInv
<1>10. QED
  BY <1>2, <1>3, <1>4, <1>5, <1>6, <1>7, <1>8, <1>9, StepCases DEF Telling

-----------------------------------------------------------------------------
(* The rules                                                               *)

\* Which run made the PDF does not matter.
LEMMA JudgedAlike ==
  ASSUME NEW s, NEW f, NEW g, f # NoFile, g # NoFile, f.src = g.src
  PROVE  Judgement(s, f) = Judgement(s, g)
<1>1. Shown(s, f) = Shown(s, g)
  BY DEF Shown
<1>2. \A r \in Rule : Looks(r, s, f) = Looks(r, s, g)
  BY <1>1 DEF Looks
<1>3. QED
  BY <1>2 DEF Judgement

\* What the engine answers depends on the revision and on the PDF it was given.
LEMMA VerdictsAreDue ==
  ASSUME Reproducible, TypeOK, ~mem.toolMissing, LatexmkLeaves(DueAnswer),
         mem.file <=> mem.pdf # NoFile, mem.pdf # NoFile => mem.pdf = tree.pdf
  PROVE  Verdicts(DueAnswer, {}, tree') = Judgement(tree.src, mem.pdf)
<1>0. Judged = Rule /\ ~req.final /\ IsTex
  BY DEF Judged, Reproducible, Steady, EveryRuleAsked, TypeOK
<1>1. \A r \in Rule : EffectiveSeverity(r) = RuleSeverity[r]
  BY <1>0 DEF EffectiveSeverity
<1>2. BuildRuleStatus(DueAnswer) = IF tree.src \in Broken THEN "fail" ELSE "pass"
  BY <1>0 DEF BuildRuleStatus, DueAnswer
<1>3. ASSUME NEW r \in Rule PROVE Sees(r, tree') = Looks(r, tree.src, mem.pdf)
  <2>1. CASE Reads[r] = "layout" /\ mem.pdf # NoFile
    <3>1. Sees(r, tree') = tree'.pdf.src
      BY <1>0, <2>1 DEF Sees, PdfIn
    <3>2. tree'.pdf.src = Shown(tree.src, mem.pdf)
      BY <2>1, DueLeaves DEF Shown, NoFile
    <3>3. QED
      BY <2>1, <3>1, <3>2 DEF Looks
  <2>2. CASE Reads[r] = "layout" /\ mem.pdf = NoFile
    BY <2>2 DEF Sees, Looks, Shown
  <2>3. CASE Reads[r] \in {"project", "pdf"}
    BY <1>0, <2>3, DueLeaves DEF Sees, Looks
  <2>4. QED
    BY <2>1, <2>2, <2>3, RuleAssumption
<1>4. \A r \in Rule : RuleStatus(r, tree') =
                        IF Looks(r, tree.src, mem.pdf) \in Violates[r] THEN "fail"
                                                                       ELSE "pass"
  BY <1>0, <1>3 DEF RuleStatus
<1>5. QED
  BY <1>0, <1>1, <1>2, <1>4 DEF Verdicts, Judgement

\* The findings on what this run was given are those that are due.
LEMMA GivenIsDue ==
  ASSUME TypeOK, BuildInv, pc \notin Early \cup {"idle"}, "formal" \in req.stages
  PROVE  DueFindings(mem.hash, req) = Judgement(mem.hash.src, mem.pdf)
<1>1. mem.hash.src # 0
  BY SourceAssumption DEF TypeOK, Memories, Trees
<1>2. CASE "build" \notin req.stages
  BY <1>2 DEF BuildInv, DueFindings, DuePdf
<1>3. CASE "build" \in req.stages
  <2>1. BuildFits(mem.hash.src, mem.pdf)
    BY <1>3 DEF BuildInv
  <2>2. CASE mem.hash.src \in Unseen
    BY <1>3, <2>1, <2>2 DEF BuildFits, DueFindings, DuePdf
  <2>3. CASE mem.hash.src \notin Unseen
    <3> DEFINE due == [src |-> mem.hash.src, run |-> 0]
    <3>1. due # NoFile /\ mem.pdf # NoFile /\ mem.pdf.src = due.src
      BY <1>1, <2>1, <2>3 DEF BuildFits, NoFile
    <3>2. Judgement(mem.hash.src, due) = Judgement(mem.hash.src, mem.pdf)
      BY <3>1, JudgedAlike
    <3>3. QED
      BY <1>3, <2>3, <3>2 DEF DueFindings, DuePdf
  <2>4. QED
    BY <2>2, <2>3
<1>4. QED
  BY <1>2, <1>3

\* How a run comes to its end, when it is not canceled.
LEMMA DecidedOnward ==
  ASSUME Passing, pc' \in Decided, ~sigint
  PROVE  \/ pc \in Decided
         \/ pc = "check1" /\ "formal" \notin req.stages
<1>1. CASE Semantic
  BY <1>1 DEF Semantic, SemanticConfigError, SemanticSkip, SemanticHit, SemanticMiss,
     WriteStage, CheckCanceled, Goto, Decided
<1>2. CASE Publication
  BY <1>2 DEF Publication, PublishReport, RejectReport, PublishMarkdown,
     PublishSummary, WriteStage, WriteRunState, WriteCanceled, WriteCanceledReport,
     Finish, Goto, Decided
<1>3. CASE Passing /\ ~Semantic /\ ~Publication
  BY <1>3 DEF Passing, Sigint, Crash, RaiseError, vars, WriteStage, CheckCanceled,
     Goto, Decided
<1>4. QED
  BY <1>1, <1>2, <1>3

LEMMA DueStep ==
  ASSUME Reproducible, TypeOK, HashIsCurrent, AtHandInv, BuildInv, DueInv, [Next]_vars
  PROVE  DueInv'
<1>0. /\ CacheOK /\ mem \in Memories /\ tree \in Trees /\ IsTex
  BY NoFaults DEF TypeOK
<1> DEFINE Entries == \A k \in DOMAIN cache.formal :
                        cache.formal[k] = Judgement(k.hash.src, k.pdf)
           Ruling == {"formal", "engine", "putFormal"}
<1>1. cache'.formal = cache.formal => Entries'
  BY DEF DueInv
<1>2. CASE Passing
  <2>1. SameMatter /\ Onward
    BY <1>2, PassingOn
  <2>2. /\ pc' \in Unjudged => pc \in Unjudged
        /\ pc' \in {"engine", "putFormal"} => pc' = pc
        /\ pc' \in Ruling => "formal" \in req.stages
    BY <2>1 DEF DueInv, Onward, Early, Unjudged, Later, Ending
  <2>3. pc' \in Decided => mem.found.formal = DueFindings(mem.hash, req)
    BY <1>2, DecidedOnward DEF BuildInv, DueInv, Unjudged, DueFindings
  <2>4. mem'.hash = mem.hash /\ req' = req /\ mem'.found.formal = mem.found.formal
    BY <2>1 DEF SameMatter
  <2>5. DueFindings(mem.hash, req)' = DueFindings(mem.hash, req)
    BY <2>4
  <2>6. QED
    BY <1>1, <2>1, <2>2, <2>3, <2>4, <2>5 DEF SameMatter, DueInv
<1>3. CASE \/ \E r \in Request : Launch(r)
           \/ HashSource \/ ExtractOnly \/ BuildHit \/ BuildMiss \/ PutBuild
           \/ \E answer \in Answers : Latexmk(answer)
           \/ (\E s \in Source : Edit(s)) \/ Clean
  <2>1. cache'.formal = cache.formal
    BY <1>0, <1>3, BuildAdded DEF Launch, HashSource, ExtractOnly, BuildHit, BuildMiss,
       Latexmk, Edit, Clean
  <2>2. /\ pc' \notin Decided \cup Ruling
        /\ pc' \in Unjudged => pc \in Early \cup Unjudged
    <3>1. CASE (\E r \in Request : Launch(r)) \/ HashSource
      BY <3>1 DEF Launch, HashSource, Goto, Decided, Unjudged
    <3>2. CASE ExtractOnly \/ BuildHit \/ BuildMiss
      BY <3>2 DEF ExtractOnly, BuildHit, BuildMiss, Finish, Decided, Unjudged, Early
    <3>3. CASE PutBuild \/ \E answer \in Answers : Latexmk(answer)
      BY <3>3 DEF PutBuild, Latexmk, Goto, Decided, Unjudged, Early
    <3>4. CASE (\E s \in Source : Edit(s)) \/ Clean
      BY <3>4, NoFaults DEF Edit, Clean, Nobody, Decided, Unjudged
    <3>5. QED
      BY <1>3, <3>1, <3>2, <3>3, <3>4
  <2>3. pc' \in Unjudged => mem'.found.formal = mem.found.formal
    <3>1. CASE (\E r \in Request : Launch(r)) \/ HashSource
      BY <3>1 DEF Launch, HashSource, Goto, Unjudged
    <3>2. CASE ExtractOnly \/ BuildMiss
      BY <1>0, <3>2 DEF ExtractOnly, BuildMiss, Memories
    <3>3. CASE BuildHit
      BY <1>0, <3>3 DEF BuildHit, Memories
    <3>4. ASSUME NEW answer \in Answers, Latexmk(answer)
          PROVE  mem'.found.formal = mem.found.formal
      BY <1>0, <3>4 DEF Latexmk, Memories
    <3>5. CASE PutBuild \/ (\E s \in Source : Edit(s)) \/ Clean
      BY <3>5 DEF PutBuild, Edit, Clean
    <3>6. QED
      BY <1>3, <3>1, <3>2, <3>3, <3>4, <3>5
  <2>4. pc \in Early => mem.found.formal = {}
    BY DEF HashIsCurrent
  <2>5. QED
    BY <1>1, <2>1, <2>2, <2>3, <2>4 DEF DueInv, Unjudged, Early
<1>4. CASE FormalHit \/ FormalMiss
  <2>1. /\ cache' = cache /\ req' = req /\ pc = "formal" /\ mem'.hash = mem.hash
        /\ mem'.pdf = mem.pdf /\ "formal" \in req.stages
    BY <1>0, <1>4 DEF FormalHit, FormalMiss, DueInv, Memories
  <2>2. FormalKey.hash = mem.hash /\ FormalKey.pdf = mem.pdf
    BY <1>0, <2>1 DEF FormalKey, AtHandInv
  <2>3. CASE FormalHit
    <3>1. /\ pc' = "writeFormal" /\ FormalKey \in DOMAIN cache.formal
          /\ mem'.found.formal = cache.formal[FormalKey]
      BY <1>0, <2>3 DEF FormalHit, Memories
    <3>2. mem'.found.formal = DueFindings(mem.hash, req)
      BY <2>1, <2>2, <3>1, GivenIsDue DEF DueInv, Early
    <3>3. DueFindings(mem.hash, req)' = DueFindings(mem.hash, req)
      BY <2>1
    <3>4. QED
      BY <1>1, <2>1, <3>1, <3>2, <3>3 DEF DueInv, Unjudged
  <2>4. CASE FormalMiss
    <3>1. /\ pc' = "engine" /\ mem'.found.formal = mem.found.formal
          /\ mem'.key = FormalKey
      BY <1>0, <2>4 DEF FormalMiss, BuildInv, Memories
    <3>2. QED
      BY <1>1, <2>1, <2>2, <3>1 DEF DueInv, Unjudged, Decided
  <2>5. QED
    BY <1>4, <2>3, <2>4
<1>5. CASE EngineFails
  BY <1>5, NoFaults DEF EngineFails, BuildInv
<1>6. ASSUME NEW answer \in Answers, NEW raised, Engine(answer, raised) PROVE DueInv'
  <2>1. /\ cache' = cache /\ req' = req /\ pc = "engine" /\ pc' = "putFormal"
        /\ mem'.hash = mem.hash /\ mem'.pdf = mem.pdf /\ mem'.key = mem.key
        /\ mem'.found.formal = Verdicts(answer, raised, tree')
    BY <1>0, <1>6 DEF Engine, Goto, Memories
  <2>2. raised = {} /\ answer = DueAnswer
    BY <1>6, NoFaults DEF Engine, LatexmkAnswers
  <2>3. BuildRule \in Judged
    BY RuleAssumption DEF Judged, BuildInv, Reproducible, Steady, EveryRuleAsked, TypeOK
  <2>4. LatexmkLeaves(DueAnswer)
    BY <1>0, <1>6, <2>2, <2>3 DEF Engine
  <2>5. /\ tree.src = mem.hash.src /\ ~mem.toolMissing
        /\ mem.file <=> mem.pdf # NoFile
        /\ mem.pdf # NoFile => mem.pdf = tree.pdf
    BY <2>1 DEF HashIsCurrent, AtHandInv, BuildInv
  <2>6. Verdicts(DueAnswer, {}, tree') = Judgement(mem.hash.src, mem.pdf)
    BY <2>4, <2>5, VerdictsAreDue
  <2>7. QED
    BY <1>1, <2>1, <2>2, <2>6 DEF DueInv, Unjudged, Decided
<1>7. CASE PutFormal
  <2>1. /\ req' = req /\ mem' = mem /\ pc = "putFormal" /\ pc' = "writeFormal"
        /\ mem.key.hash = mem.hash /\ mem.key.pdf = mem.pdf /\ "formal" \in req.stages
        /\ mem.found.formal = Judgement(mem.hash.src, mem.pdf)
    BY <1>7 DEF PutFormal, Goto, env, DueInv
  <2>2. Entries'
    BY <1>0, <1>7, <2>1, FormalAdded DEF DueInv
  <2>3. mem.found.formal = DueFindings(mem.hash, req)
    BY <2>1, GivenIsDue DEF Early
  <2>4. DueFindings(mem.hash, req)' = DueFindings(mem.hash, req)
    BY <2>1
  <2>5. QED
    BY <2>1, <2>2, <2>3, <2>4 DEF DueInv, Unjudged
<1>8. CASE LoseEntry
  <2>1. pc' = "idle" /\ Entries'
    BY <1>0, <1>8, EntryLost DEF LoseEntry, DueInv
  <2>2. QED
    BY <2>1 DEF DueInv, Unjudged, Decided
<1>9. QED
  BY <1>2, <1>3, <1>4, <1>5, <1>6, <1>7, <1>8, StepCases DEF Telling

-----------------------------------------------------------------------------
(* Every run ends as it must                                               *)

LEMMA SeenStep ==
  ASSUME Reproducible, IInv, IInv', HashIsCurrent, BuildInv, DueInv, SeenInv,
         [Next]_vars
  PROVE  SeenInv'
<1>0. TypeOK /\ mem \in Memories /\ IsTex /\ FailOpenOnly /\ PdfAtHand = tree.pdf
  BY NoFaults DEF IInv, TypeOK, Reproducible, PdfAtHand, PdfIn
<1>1. ASSUME seen' = seen PROVE SeenInv'
  BY <1>1 DEF SeenInv
<1>2. ASSUME NEW code, code = DueExit(mem.hash, req),
             seen' = seen \cup {[tree |-> mem.hash, req |-> req, exit |-> code]}
      PROVE  SeenInv'
  BY <1>2 DEF SeenInv
<1>3. CASE Passing
  <2>1. CASE Publication
    <3>1. CASE WriteRunState
      <4>1. /\ pc = "runState" /\ ~mem.internal
            /\ seen' = seen \cup {[tree |-> mem.hash, req |-> req,
                                   exit |-> ResolveExitCode]}
        BY <1>0, <3>1 DEF WriteRunState, Finish, IInv, QuietRuns
      <4>2. ResolveExitCode = FormalExitCode(DueFindings(mem.hash, req), req.mode)
        BY <4>1 DEF ResolveExitCode, DueInv, Decided
      <4>3. ~("build" \notin req.stages /\ Unreadable(mem.hash.pdf))
        BY <4>1 DEF BuildInv, Early
      <4>4. QED
        BY <1>2, <4>1, <4>2, <4>3 DEF DueExit
    <3>2. CASE RejectReport
      <4>1. exit' = "INTERNAL_ERROR"
        BY <3>2 DEF RejectReport, Finish
      <4>2. QED
        BY <1>0, <4>1 DEF IInv, QuietRuns, FailOpenOnly
    <3>3. CASE Publication /\ ~WriteRunState /\ ~RejectReport
      BY <1>1, <3>3 DEF Publication, PublishReport, PublishMarkdown, PublishSummary,
         WriteStage, WriteCanceled, WriteCanceledReport, env
    <3>4. QED
      BY <2>1, <3>1, <3>2, <3>3
  <2>2. CASE Passing /\ ~Publication
    BY <1>1, <2>2 DEF Passing, Semantic, SemanticConfigError, SemanticSkip, SemanticHit,
       SemanticMiss, WriteStage, CheckCanceled, Sigint, Crash, RaiseError, env, vars
  <2>3. QED
    BY <1>3, <2>1, <2>2
<1>4. CASE ExtractOnly
  <2>1. tree = mem.hash /\ "build" \notin req.stages
    BY <1>4 DEF ExtractOnly, HashIsCurrent
  <2>2. CASE Unreadable(mem.hash.pdf)
    BY <1>0, <1>2, <1>4, <2>1, <2>2 DEF ExtractOnly, Finish, DueExit
  <2>3. CASE ~Unreadable(mem.hash.pdf)
    BY <1>0, <1>1, <1>4, <2>1, <2>3 DEF ExtractOnly, env
  <2>4. QED
    BY <2>2, <2>3
<1>5. CASE Telling /\ ~ExtractOnly
  <2>1. seen' = seen
    BY <1>0, <1>5 DEF Telling, Launch, HashSource, BuildHit, BuildMiss, PutBuild,
       Latexmk, FormalHit, FormalMiss, EngineFails, PutFormal, Engine, Edit, Clean,
       LoseEntry, env
  <2>2. QED
    BY <1>1, <2>1
<1>6. QED
  BY <1>3, <1>4, <1>5, StepCases

\* In the reproducible setting two runs of the same request on the same tree end
\* with the same exit code, whatever was stored, lost, killed or answered by the
\* model in between, and however the project was edited and restored.
THEOREM SameInputSameExit ==
  ASSUME Reproducible
  PROVE  Spec => []SameInputSameVerdict
<1> DEFINE Inv == /\ HashIsCurrent /\ LogInv /\ BuiltInv /\ AtHandInv
                 /\ BuildInv /\ DueInv /\ SeenInv
<1>1. Init => Inv
  <2> SUFFICES ASSUME Init PROVE Inv
    OBVIOUS
  <2>1. /\ tree.log = 0 /\ runs = 0 /\ pc = "idle" /\ ~sigint /\ seen = {}
        /\ ~mem.toolMissing /\ DOMAIN cache.build = {} /\ DOMAIN cache.formal = {}
    BY DEF Init, FirstTree, EmptyCache, Fresh
  <2>2. QED
    BY <2>1 DEF HashIsCurrent, LogInv, BuiltInv, AtHandInv, BuildInv, DueInv, SeenInv,
       Early, Judging, Later, Unjudged, Decided
<1>2. IInv /\ IInv' /\ Inv /\ [Next]_vars => Inv'
  <2>1. Reproducible => Steady /\ Nobody /\ "clean" \notin FaultKinds
    BY NoFaults DEF Reproducible
  <2>2. IInv => TypeOK
    BY DEF IInv
  <2>3. QED
    BY <2>1, <2>2, HashStep, LogStep, BuiltStep, AtHandStep, BuildStepFits, DueStep,
       SeenStep
<1>3. Inv => SameInputSameVerdict
  BY DEF SeenInv, SameInputSameVerdict
<1> HIDE DEF Inv
<1>4. QED
  BY <1>1, <1>2, <1>3, IInvariant, PTL DEF Spec
=============================================================================
