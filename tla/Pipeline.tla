------------------------------ MODULE Pipeline ------------------------------
(***************************************************************************)
(* One output directory over several `normocontrol run`s: the stages of    *)
(* Orchestrator.run with their caches, what latexmk leaves in the project  *)
(* tree between runs, the files a run publishes, Ctrl+C, and the crashes,  *)
(* edits and lost cache entries between any two of its steps.  Runs do not *)
(* overlap here: OutputLock is the module about that.                      *)
(*                                                                         *)
(* Data is abstracted to revisions.  A revision stands for everything the  *)
(* base key hashes: the project's files, the rubric and the configuration. *)
(* A rule is what it reads and the revisions that violate it.              *)
(***************************************************************************)
EXTENDS Gate

CONSTANTS
    Source,        \* revisions of the project, positive numbers
    FirstSource,   \* the revision the first run may find
    IsTex,         \* FALSE: the input is a single PDF
    Broken,        \* revisions LaTeX does not compile
    NoPdf,         \* revisions for which latexmk succeeds and leaves no PDF
    BadPdf,        \* revisions whose PDF cannot be read
    BibOf,         \* [Source -> Nat], which .bib files a revision has
    Rule,          \* the formal rules of the rubric
    BuildRule,     \* SYS-03, the rule that runs latexmk again
    RuleSeverity,  \* [Rule -> Severities]
    FinalError,    \* rules whose severity_final is "error"
    Reads,         \* [Rule -> {"project", "pdf", "layout"}]
    Violates,      \* [Rule -> SUBSET Source]
    Request,       \* the requests (RunRequest) that users make
    FaultKinds,    \* what may go wrong, of AllFaults
    MaxRuns, MaxEdits, MaxFaults    \* bounds

AllFaults == {"crash", "io", "lose", "sigint", "engine", "rule", "latexmk",
              "clean", "edit"}
Stage == {"build", "formal", "semantic", "aggregate"}

\* --only: a set of stages and a set of rules, the semantic check GEN-01 among
\* them; --no-llm, an unusable provider configuration, or a provider.
RunRequest == [failClosed : BOOLEAN, mode : Modes, final : BOOLEAN,
               stages : SUBSET Stage, rules : SUBSET (Rule \cup {"GEN-01"}),
               llm : {"none", "bad", "ok"}]

ASSUME SourceAssumption ==
    /\ Source \subseteq Nat \ {0} /\ FirstSource \in Source
    /\ Broken \subseteq Source /\ NoPdf \subseteq Source /\ BadPdf \subseteq Source
    /\ IsTex \in BOOLEAN /\ BibOf \in [Source -> Nat]
ASSUME RuleAssumption ==
    /\ BuildRule \in Rule /\ FinalError \subseteq Rule
    /\ RuleSeverity \in [Rule -> Severities]
    /\ Reads \in [Rule -> {"project", "pdf", "layout"}]
    /\ Violates \in [Rule -> SUBSET Source]
ASSUME RequestAssumption == Request \subseteq RunRequest
ASSUME PipelineBounds ==
    /\ FaultKinds \subseteq AllFaults
    /\ MaxRuns \in Nat /\ MaxEdits \in Nat /\ MaxFaults \in Nat

VARIABLES
    tree,      \* the project tree: [src, pdf, log]
    cache,     \* StageCache: key -> payload for each cached stage
    out,       \* which run wrote each file of --out, and what it says
    pc,        \* the next step of the run; "idle" between runs
    req,       \* the request of this run
    mem,       \* the local variables of this run
    sigint,    \* Orchestrator._canceled
    exit,      \* exit code of the last run, "running", or "killed"
    seen,      \* history: [tree, req, exit] of the runs that ended by themselves
    runs, edits, faults    \* how many so far

env == <<sigint, exit, seen, runs, edits, faults>>
vars == <<tree, cache, out, pc, req, mem, env>>

-----------------------------------------------------------------------------
(* Project tree, cache keys, files                                         *)

\* The compiled PDF: the revision it shows and the run whose latexmk made it
\* (PDFs carry the time they are made: two of them are never the same).
NoFile == [src |-> 0, run |-> 0]
Files == [src : Source \cup {0}, run : 0 .. MaxRuns]

\* log: the run whose latexmk last left its log, 0 when there is none.
Trees == [src : Source, pdf : Files, log : 0 .. MaxRuns]

\* CacheKeyParts: stage and source_hash, and model_hash as far as each stage
\* has one.  project_files hashes every file under the root, so the compiled
\* PDF and the logs of earlier runs are part of source_hash.
FormalKeys == [hash : Trees, failClosed : BOOLEAN, toolMissing : BOOLEAN,
               bib : Nat, pdf : Files]
SemanticKeys == [hash : Trees, llm : {"ok"}]

Put(f, k, v) == [x \in DOMAIN f \cup {k} |-> IF x = k THEN v ELSE f[x]]
Without(f, k) == [x \in DOMAIN f \ {k} |-> f[x]]
EmptyCache == [x \in {} |-> x]

NoFindings == [build |-> {}, formal |-> {}, semantic |-> {}]
AllFound(m) == m.found.build \cup m.found.formal \cup m.found.semantic

\* hash: the tree as it was hashed; pdf: the PDF whose text was extracted;
\* file: pdf_path is set; key: the formal stage's cache key.
FirstTree == [src |-> FirstSource, pdf |-> NoFile, log |-> 0]
NoKey == [hash |-> FirstTree, failClosed |-> FALSE, toolMissing |-> FALSE,
          bib |-> 0, pdf |-> NoFile]
Fresh == [hash |-> FirstTree, pdf |-> NoFile, file |-> FALSE,
          toolMissing |-> FALSE, degraded |-> FALSE, internal |-> FALSE,
          found |-> NoFindings, key |-> NoKey]

NoReport == [run |-> 0, exit |-> "none", gate |-> "none", degraded |-> FALSE]

Init ==
    /\ tree = FirstTree
    /\ cache = [build |-> EmptyCache, formal |-> EmptyCache, semantic |-> EmptyCache]
    /\ out = [report |-> NoReport, markdown |-> 0, summary |-> NoReport,
              runState |-> 0, canceled |-> NoReport, stage |-> [s \in Stage |-> 0]]
    /\ pc = "idle" /\ req \in Request /\ mem = Fresh
    /\ sigint = FALSE /\ exit = "none" /\ seen = {}
    /\ runs = 0 /\ edits = 0 /\ faults = 0

Fault(kind) == kind \in FaultKinds /\ faults < MaxFaults /\ faults' = faults + 1

Goto(from, to) == pc = from /\ pc' = to

\* The run ends by itself with this exit code.
Finish(code) ==
    /\ pc' = "idle" /\ exit' = code
    /\ seen' = seen \cup {[tree |-> mem.hash, req |-> req, exit |-> code]}
    /\ UNCHANGED <<sigint, runs, edits, faults>>

-----------------------------------------------------------------------------
(* Start: Orchestrator.run up to the first stage                           *)

Launch(r) ==
    /\ pc = "idle" /\ runs < MaxRuns
    /\ pc' = "hash" /\ req' = r /\ mem' = Fresh
    /\ sigint' = FALSE /\ exit' = "running" /\ runs' = runs + 1
    /\ UNCHANGED <<tree, cache, out, seen, edits, faults>>

\* Faulty variant: the digest misses an edit of the sources.
HashNames ==
    /\ Goto("hash", IF "build" \in req.stages THEN "build" ELSE "extract")
    /\ mem' = [mem EXCEPT !.hash = [tree EXCEPT !.src = FirstSource]]
    /\ UNCHANGED <<tree, cache, out, req, env>>

HashSource ==
    /\ Goto("hash", IF "build" \in req.stages THEN "build" ELSE "extract")
    /\ mem' = [mem EXCEPT !.hash = tree]
    /\ UNCHANGED <<tree, cache, out, req, env>>

\* The PDF that a PDF run reads is its input; the one a LaTeX run reads was
\* left next to the source.
PdfIn(t) == IF IsTex THEN t.pdf ELSE [src |-> t.src, run |-> 0]
PdfAtHand == PdfIn(tree)
Unreadable(f) == f # NoFile /\ f.src \in BadPdf

\* _extract_only(include_compiled_pdf=True), when the build is not selected.
ExtractOnly ==
    /\ pc = "extract"
    /\ IF Unreadable(PdfAtHand)
         THEN Finish("CONFIG_ERROR") /\ UNCHANGED mem
         ELSE /\ pc' = "check1"
              /\ mem' = [mem EXCEPT !.pdf = PdfAtHand, !.file = PdfAtHand # NoFile]
              /\ UNCHANGED env
    /\ UNCHANGED <<tree, cache, out, req>>

-----------------------------------------------------------------------------
(* _stage_build                                                            *)

\* Faulty variant: the meta of a cached build is not restored.
BuildHitForgets ==
    /\ pc = "build" /\ mem.hash \in DOMAIN cache.build
    /\ pc' = "writeBuild"
    /\ mem' = [mem EXCEPT !.pdf = cache.build[mem.hash].pdf,
                          !.file = cache.build[mem.hash].pdf # NoFile]
    /\ UNCHANGED <<tree, cache, out, req, env>>

\* pdf_path is restored only if the file is (still) there.
BuildHit ==
    /\ pc = "build" /\ mem.hash \in DOMAIN cache.build
    /\ pc' = "writeBuild"
    /\ LET e == cache.build[mem.hash] IN
         mem' = [mem EXCEPT !.pdf = e.pdf, !.toolMissing = e.toolMissing,
                            !.file = e.pdf # NoFile /\ PdfAtHand # NoFile,
                            !.degraded = e.degraded, !.found.build = e.findings]
    /\ UNCHANGED <<tree, cache, out, req, env>>

BuildMiss ==
    /\ pc = "build" /\ mem.hash \notin DOMAIN cache.build
    /\ IF IsTex THEN pc' = "latexmk" /\ UNCHANGED <<mem, env>>
       ELSE IF Unreadable(PdfAtHand)
         THEN Finish("CONFIG_ERROR") /\ UNCHANGED mem
       ELSE /\ pc' = "putBuild"
            /\ mem' = [mem EXCEPT !.pdf = PdfAtHand, !.file = TRUE]
            /\ UNCHANGED env
    /\ UNCHANGED <<tree, cache, out, req>>

Answers == {"success", "failed", "tool_missing"}

\* What latexmk answers if nothing goes wrong, and what it may answer: it may
\* be missing, or take too long.
DueAnswer == IF tree.src \in Broken THEN "failed" ELSE "success"
LatexmkAnswers(answer) ==
    \/ answer = DueAnswer /\ UNCHANGED faults
    \/ answer \in {"tool_missing", "failed"} /\ Fault("latexmk")

\* What it leaves: nothing if it is missing; if it succeeds a PDF of this
\* revision, the same one if that is up to date; and without a PDF a log, which
\* a later latexmk that finds nothing changed may leave as it is.
Logs == IF tree.log = 0 THEN {runs} ELSE {tree.log, runs}
LatexmkLeaves(answer) ==
    \/ answer = "tool_missing" /\ UNCHANGED tree
    \/ answer = "failed" /\ \E l \in Logs : tree' = [tree EXCEPT !.log = l]
    \/ /\ answer = "success" /\ tree.src \in NoPdf
       /\ \E l \in Logs : tree' = [tree EXCEPT !.log = l, !.pdf = NoFile]
    \/ /\ answer = "success" /\ tree.src \notin NoPdf
       /\ IF tree.pdf.src = tree.src THEN UNCHANGED tree
          ELSE tree' = [tree EXCEPT !.log = runs,
                                    !.pdf = [src |-> tree.src, run |-> runs]]

SystemFinding(severity, status) ==
    [id |-> BuildRule, layer |-> "script", severity |-> severity,
     status |-> status, approval |-> FALSE]

\* Faulty variant: a failed build blocks whatever the request says.
AlwaysBlocking == SystemFinding("error", "fail")

\* _record_compiled_pdf_failure, and the failed build of _stage_build.
FailureFinding ==
    IF req.failClosed THEN SystemFinding("error", "fail")
                      ELSE SystemFinding("warn", "unverifiable")

\* build_service.build and, after a success, PdfExtractor.extract.
Latexmk(answer) ==
    /\ pc = "latexmk" /\ LatexmkAnswers(answer) /\ LatexmkLeaves(answer)
    /\ pc' = "putBuild"
    /\ LET readable == answer = "success" /\ tree'.pdf # NoFile
                         /\ ~Unreadable(tree'.pdf)
           missing == answer = "tool_missing"
       IN mem' =
            IF readable THEN [mem EXCEPT !.pdf = tree'.pdf, !.file = TRUE]
            ELSE IF missing
              THEN [mem EXCEPT !.toolMissing = TRUE, !.degraded = TRUE,
                      !.found.build = {SystemFinding("warn", "unverifiable")}]
            ELSE [mem EXCEPT !.degraded = ~req.failClosed,
                    !.internal = req.failClosed, !.found.build = {FailureFinding}]
    /\ UNCHANGED <<cache, out, req, sigint, exit, seen, runs, edits>>

PutBuild ==
    /\ Goto("putBuild", "writeBuild")
    /\ cache' = [cache EXCEPT !.build = Put(@, mem.hash,
                   [findings |-> mem.found.build, pdf |-> mem.pdf,
                    toolMissing |-> mem.toolMissing, degraded |-> mem.degraded])]
    /\ UNCHANGED <<tree, out, req, mem, env>>

\* _write_stage_artifact: out/stages/<stage>.json.
WriteStage(stage, from, to) ==
    /\ Goto(from, to)
    /\ out' = [out EXCEPT !.stage[stage] = runs]
    /\ UNCHANGED <<tree, cache, req, mem, env>>

\* Faulty variant: the flag is not looked at between two stages.
GoOn(from, to) ==
    /\ Goto(from, to)
    /\ UNCHANGED <<tree, cache, out, req, mem, env>>

\* `if self._canceled: return self._canceled_report(...)`, between two stages.
CheckCanceled(from, to) ==
    /\ Goto(from, IF sigint THEN "cancelFile" ELSE to)
    /\ UNCHANGED <<tree, cache, out, req, mem, env>>

-----------------------------------------------------------------------------
(* _stage_formal and the formal engine                                     *)

\* filter_rubric: --only, and SYS-03 not where the build found no latexmk.
Judged == {r \in Rule \cap req.rules : ~(mem.toolMissing /\ r = BuildRule)}

EffectiveSeverity(r) ==
    IF req.final /\ r \in FinalError THEN "error" ELSE RuleSeverity[r]

\* Faulty variant: the key does not say whether the build found latexmk.
FormalKeyBlind ==
    [hash |-> mem.hash, failClosed |-> req.failClosed, toolMissing |-> FALSE,
     bib |-> IF IsTex THEN BibOf[tree.src] ELSE 0,
     pdf |-> IF IsTex /\ mem.file THEN tree.pdf ELSE NoFile]

\* The formal key: neither --only nor --final is part of it.
FormalKey ==
    [hash |-> mem.hash, failClosed |-> req.failClosed,
     toolMissing |-> mem.toolMissing,
     bib |-> IF IsTex THEN BibOf[tree.src] ELSE 0,
     pdf |-> IF IsTex /\ mem.file THEN tree.pdf ELSE NoFile]

FormalHit ==
    /\ pc = "formal" /\ FormalKey \in DOMAIN cache.formal
    /\ pc' = "writeFormal"
    /\ mem' = [mem EXCEPT !.found.formal = cache.formal[FormalKey]]
    /\ UNCHANGED <<tree, cache, out, req, env>>

\* ExecutionContext(canceled=self._canceled): the engine refuses to run if
\* SIGINT arrived between the check before this stage and here.
FormalMiss ==
    /\ pc = "formal" /\ FormalKey \notin DOMAIN cache.formal
    /\ pc' = IF sigint THEN "engineFails" ELSE "engine"
    /\ mem' = [mem EXCEPT !.key = FormalKey]
    /\ UNCHANGED <<tree, cache, out, req, env>>

\* The revision a rule sees in tree t, 0 if there is nothing to look at.  Rules
\* on the LaTeX project read it from disk again; page metrics use the extracted
\* text; FMT-05 opens the PDF as well, for its images and drawings.
Sees(r, t) ==
    CASE Reads[r] = "project" -> IF IsTex THEN t.src ELSE 0
      [] Reads[r] = "pdf" -> mem.pdf.src
      [] Reads[r] = "layout" ->
           IF mem.pdf = NoFile \/ ~mem.file THEN 0 ELSE PdfIn(t).src

\* A LaTeX rule without LaTeX is unverifiable.  A metric without a PDF passes
\* on the class file alone.
RuleStatus(r, t) ==
    IF Sees(r, t) \in Violates[r] THEN "fail"
    ELSE IF Reads[r] = "project" /\ ~IsTex THEN "unverifiable"
    ELSE "pass"

BuildRuleStatus(answer) ==
    CASE ~IsTex -> "unverifiable"
      [] answer = "tool_missing" -> "unverifiable"
      [] answer = "failed" -> "fail"
      [] answer = "success" -> "pass"

RuleFinding(r, severity, status) ==
    [id |-> r, layer |-> "script", severity |-> severity, status |-> status,
     approval |-> FALSE]

\* _tool_error_finding
ToolError(r) == IF req.failClosed THEN RuleFinding(r, "error", "fail")
                                  ELSE RuleFinding(r, "warn", "unverifiable")

\* The findings of FormalEngine.run over tree t when the rules `raised` raise.
Verdicts(answer, raised, t) ==
    {IF r \in raised THEN ToolError(r)
     ELSE RuleFinding(r, EffectiveSeverity(r),
            IF r = BuildRule THEN BuildRuleStatus(answer) ELSE RuleStatus(r, t)) :
       r \in Judged}

\* FormalEngine.run in rubric order: SYS-03 runs latexmk once more, before the
\* rules that look at a PDF.
Engine(answer, raised) ==
    /\ Goto("engine", "putFormal")
    /\ \/ raised = {} /\ LatexmkAnswers(answer)
       \/ raised # {} /\ answer = DueAnswer /\ Fault("rule")
    /\ IF IsTex /\ BuildRule \in Judged \ raised
         THEN LatexmkLeaves(answer) ELSE UNCHANGED tree
    /\ mem' = [mem EXCEPT !.found.formal = Verdicts(answer, raised, tree')]
    /\ UNCHANGED <<cache, out, req, sigint, exit, seen, runs, edits>>

\* `except Exception` around the engine: one finding instead of all of them.
EngineFails ==
    /\ \/ pc = "engineFails" /\ UNCHANGED faults
       \/ pc = "engine" /\ Fault("engine")
    /\ pc' = "putFormal"
    /\ mem' = [mem EXCEPT !.found.formal = {FailureFinding},
                          !.internal = @ \/ req.failClosed]
    /\ UNCHANGED <<tree, cache, out, req, sigint, exit, seen, runs, edits>>

PutFormal ==
    /\ Goto("putFormal", "writeFormal")
    /\ cache' = [cache EXCEPT !.formal = Put(@, mem.key, mem.found.formal)]
    /\ UNCHANGED <<tree, out, req, mem, env>>

-----------------------------------------------------------------------------
(* _stage_semantic: advisory only                                          *)

LlmFinding(severity, status) ==
    [id |-> "GEN-01", layer |-> "llm", severity |-> severity, status |-> status,
     approval |-> FALSE]

\* What the stage may come to: the answers of the model that --only asks for,
\* as semantic_finding_to_domain grades them, or one finding for an exception.
LlmFindings == {LlmFinding("warn", "warn"), LlmFinding("info", "unverifiable")}
SemanticAnswers ==
    {{}, {LlmFinding("warn", "unverifiable")}}
        \cup {{f} : f \in {g \in LlmFindings : g.id \in req.rules}}

SemanticKey == [hash |-> mem.hash, llm |-> req.llm]

\* The provider configuration is refused: a finding that is not cached.
SemanticConfigError ==
    /\ pc = "semantic" /\ req.llm = "bad"
    /\ pc' = "writeSemantic"
    /\ mem' = [mem EXCEPT !.found.semantic = {LlmFinding("warn", "unverifiable")}]
    /\ UNCHANGED <<tree, cache, out, req, env>>

\* --no-llm: an empty stage.
SemanticSkip ==
    /\ pc = "semantic" /\ req.llm = "none"
    /\ pc' = "writeSemantic"
    /\ UNCHANGED <<tree, cache, out, req, mem, env>>

SemanticHit ==
    /\ pc = "semantic" /\ req.llm = "ok" /\ SemanticKey \in DOMAIN cache.semantic
    /\ pc' = "writeSemantic"
    /\ mem' = [mem EXCEPT !.found.semantic = cache.semantic[SemanticKey]]
    /\ UNCHANGED <<tree, cache, out, req, env>>

\* The findings are cached, those for an exception like the others.
SemanticMiss(answer) ==
    /\ pc = "semantic" /\ req.llm = "ok" /\ SemanticKey \notin DOMAIN cache.semantic
    /\ pc' = "writeSemantic"
    /\ mem' = [mem EXCEPT !.found.semantic = answer]
    /\ cache' = [cache EXCEPT !.semantic = Put(@, SemanticKey, answer)]
    /\ UNCHANGED <<tree, out, req, env>>

-----------------------------------------------------------------------------
(* Exit code and publication                                               *)

ResolveExitCode ==
    IF mem.internal THEN "INTERNAL_ERROR"
    ELSE FormalExitCode(mem.found.formal, req.mode)

Report(exitCode) ==
    [run |-> runs, exit |-> exitCode,
     gate |-> GateStatusFor(AllFound(mem), req.mode, exitCode),
     degraded |-> HeaderDegraded(AllFound(mem), mem.degraded)]

\* A RunReport serialized as it is: no header.
RawReport(exitCode) ==
    [run |-> runs, exit |-> exitCode, gate |-> "none", degraded |-> FALSE]

Accepted(exitCode) == ValidExitCode(AllFound(mem), req.mode, exitCode)

\* RunReport(...) raises: `except Exception` of the CLI, exit code 4.
RejectReport ==
    /\ pc = "publish" /\ ~Accepted(ResolveExitCode)
    /\ Finish("INTERNAL_ERROR")
    /\ UNCHANGED <<tree, cache, out, req, mem>>

\* Faulty variant: report.json is not the first file to be written.
SummaryFirst ==
    /\ pc = "publish" /\ Accepted(ResolveExitCode)
    /\ out' = [out EXCEPT !.summary = Report(ResolveExitCode)]
    /\ pc' = IF "aggregate" \in req.stages THEN "markdown" ELSE "runState"
    /\ UNCHANGED <<tree, cache, req, mem, env>>

\* publish_reports writes report.json first; without the aggregate stage the
\* raw report is written.
PublishReport ==
    /\ pc = "publish" /\ Accepted(ResolveExitCode)
    /\ IF "aggregate" \in req.stages
         THEN /\ out' = [out EXCEPT !.report = Report(ResolveExitCode)]
              /\ pc' = "markdown"
         ELSE /\ out' = [out EXCEPT !.report = RawReport(ResolveExitCode)]
              /\ pc' = "runState"
    /\ UNCHANGED <<tree, cache, req, mem, env>>

PublishMarkdown ==
    /\ Goto("markdown", "summary")
    /\ out' = [out EXCEPT !.markdown = runs]
    /\ UNCHANGED <<tree, cache, req, mem, env>>

PublishSummary ==
    /\ Goto("summary", "writeAggregate")
    /\ out' = [out EXCEPT !.summary = Report(ResolveExitCode)]
    /\ UNCHANGED <<tree, cache, req, mem, env>>

\* run_state.json, and the end of the run.
WriteRunState ==
    /\ pc = "runState"
    /\ out' = [out EXCEPT !.runState = runs]
    /\ Finish(ResolveExitCode)
    /\ UNCHANGED <<tree, cache, req, mem>>

\* _canceled_report: canceled.json, then the raw report.
WriteCanceled ==
    /\ Goto("cancelFile", "cancelReport")
    /\ out' = [out EXCEPT !.canceled = RawReport(FormalExitCode(AllFound(mem), req.mode))]
    /\ UNCHANGED <<tree, cache, req, mem, env>>

WriteCanceledReport ==
    /\ Goto("cancelReport", "idle")
    /\ out' = [out EXCEPT !.report = RawReport(FormalExitCode(AllFound(mem), req.mode))]
    /\ exit' = FormalExitCode(AllFound(mem), req.mode)
    /\ UNCHANGED <<tree, cache, req, mem, sigint, seen, runs, edits, faults>>

-----------------------------------------------------------------------------
(* The environment                                                         *)

\* The author edits the project (between runs, unless "edit" is a fault).
Edit(s) ==
    /\ edits < MaxEdits /\ s # tree.src /\ (pc = "idle" \/ "edit" \in FaultKinds)
    /\ tree' = [tree EXCEPT !.src = s] /\ edits' = edits + 1
    /\ UNCHANGED <<cache, out, pc, req, mem, sigint, exit, seen, runs, faults>>

\* A clean checkout, the output directory restored with its cache.
Clean ==
    /\ pc = "idle" /\ Fault("clean")
    /\ tree' = [tree EXCEPT !.pdf = NoFile, !.log = 0]
    /\ UNCHANGED <<cache, out, pc, req, mem, sigint, exit, seen, runs, edits>>

\* Ctrl+C: the handler only sets a flag.
Sigint ==
    /\ pc # "idle" /\ ~sigint /\ Fault("sigint")
    /\ sigint' = TRUE
    /\ UNCHANGED <<tree, cache, out, pc, req, mem, exit, seen, runs, edits>>

Crash ==
    /\ pc # "idle" /\ Fault("crash")
    /\ pc' = "idle" /\ exit' = "killed"
    /\ UNCHANGED <<tree, cache, out, req, mem, sigint, seen, runs, edits>>

\* An OSError: `input/output error`, exit code 3.
RaiseError ==
    /\ pc # "idle" /\ Fault("io")
    /\ pc' = "idle" /\ exit' = "CONFIG_ERROR"
    /\ UNCHANGED <<tree, cache, out, req, mem, sigint, seen, runs, edits>>

\* An entry is deleted, or unreadable: _read_cache takes both for a miss.  A run
\* reads each key before it writes it, so between runs is as good as at any time.
LoseEntry ==
    /\ pc = "idle" /\ Fault("lose")
    /\ \E stage \in DOMAIN cache : \E key \in DOMAIN cache[stage] :
         cache' = [cache EXCEPT ![stage] = Without(@, key)]
    /\ UNCHANGED <<tree, out, pc, req, mem, sigint, exit, seen, runs, edits>>

-----------------------------------------------------------------------------
Build ==
    \/ BuildHit \/ BuildMiss \/ PutBuild \/ ExtractOnly
    \/ \E answer \in Answers : Latexmk(answer)
    \/ WriteStage("build", "writeBuild", "check1")
    \/ CheckCanceled("check1", IF "formal" \in req.stages THEN "formal" ELSE "check2")

Formal ==
    \/ FormalHit \/ FormalMiss \/ EngineFails \/ PutFormal
    \/ \E answer \in Answers :
         \E raised \in {{}} \cup {{r} : r \in Judged} : Engine(answer, raised)
    \/ WriteStage("formal", "writeFormal", "check2")
    \/ CheckCanceled("check2", IF "semantic" \in req.stages THEN "semantic" ELSE "check3")

Semantic ==
    \/ SemanticConfigError \/ SemanticSkip \/ SemanticHit
    \/ \E answer \in SemanticAnswers : SemanticMiss(answer)
    \/ WriteStage("semantic", "writeSemantic", "check3")
    \/ CheckCanceled("check3", "publish")

Publication ==
    \/ PublishReport \/ RejectReport \/ PublishMarkdown \/ PublishSummary
    \/ WriteStage("aggregate", "writeAggregate", "runState")
    \/ WriteRunState \/ WriteCanceled \/ WriteCanceledReport

\* What the program does by itself: fairness is only ever asked of this.
RunStep == HashSource \/ Build \/ Formal \/ Semantic \/ Publication

Next ==
    \/ \E r \in Request : Launch(r)
    \/ RunStep
    \/ \E s \in Source : Edit(s)
    \/ Clean \/ Sigint \/ Crash \/ RaiseError \/ LoseEntry

Spec == Init /\ [][Next]_vars

\* A run that has been started goes on; nobody has to start one, and nothing
\* has to go wrong.
FairSpec == Spec /\ WF_vars(RunStep)

-----------------------------------------------------------------------------
(* Properties                                                              *)

Findings == FindingOf(Rule \cup {"GEN-01"})
BuildEntries == [findings : SUBSET Findings, pdf : Files,
                 toolMissing : BOOLEAN, degraded : BOOLEAN]
Reports == [run : 0 .. MaxRuns, exit : ExitCodes \cup {"none"},
            gate : GateStatuses \cup {"none"}, degraded : BOOLEAN]
Points == {"idle", "hash", "extract", "build", "latexmk", "putBuild",
           "writeBuild", "check1", "formal", "engine", "engineFails",
           "putFormal", "writeFormal", "check2", "semantic", "writeSemantic",
           "check3", "publish", "markdown", "summary", "writeAggregate",
           "runState", "cancelFile", "cancelReport"}

Outputs == [report : Reports, markdown : 0 .. MaxRuns, summary : Reports,
            runState : 0 .. MaxRuns, canceled : Reports,
            stage : [Stage -> 0 .. MaxRuns]]
Memories == [hash : Trees, pdf : Files, file : BOOLEAN, toolMissing : BOOLEAN,
             degraded : BOOLEAN, internal : BOOLEAN, key : FormalKeys,
             found : [build : SUBSET Findings, formal : SUBSET Findings,
                      semantic : SUBSET Findings]]

CacheOK ==
    /\ DOMAIN cache = {"build", "formal", "semantic"}
    /\ \A k \in DOMAIN cache.build : k \in Trees /\ cache.build[k] \in BuildEntries
    /\ \A k \in DOMAIN cache.formal :
         k \in FormalKeys /\ cache.formal[k] \in SUBSET Findings
    /\ \A k \in DOMAIN cache.semantic :
         k \in SemanticKeys /\ cache.semantic[k] \in SUBSET Findings

TypeOK ==
    /\ tree \in Trees /\ CacheOK /\ out \in Outputs
    /\ pc \in Points /\ req \in Request /\ mem \in Memories
    /\ sigint \in BOOLEAN
    /\ exit \in ExitCodes \cup {"none", "running", "killed"}
    /\ runs \in 0 .. MaxRuns /\ edits \in 0 .. MaxEdits /\ faults \in 0 .. MaxFaults

\* The request asks for everything: no --only.
FullRequest == req.stages = Stage /\ Rule \subseteq req.rules

\* report.json of this run has just been written, with its header.
JustPublished == pc = "markdown"

\* fail_closed=false reports a tool error as an unverifiable warning.
ToolErrorReported ==
    \E f \in mem.found.formal : f.severity = "warn" /\ f.status = "unverifiable"

\* A full run that publishes a clean pass has looked at the project as it is:
\* whatever the caches held, no rule of severity error is violated by it.
NoFalsePass ==
    /\ JustPublished /\ FullRequest
    /\ out.report.exit = "SUCCESS" /\ ~out.report.degraded /\ ~ToolErrorReported
    => /\ tree.src \notin Broken
       /\ \A r \in Rule :
            EffectiveSeverity(r) = "error" => tree.src \notin Violates[r]

\* A LaTeX run that had no PDF to measure never lets the merge through without
\* saying so, whoever filled the cache.
NoPdfIsDegraded ==
    /\ JustPublished /\ FullRequest /\ IsTex /\ mem.pdf = NoFile
    /\ out.report.exit = "SUCCESS"
    => out.report.degraded

\* Nor does it blame the project for a violation of an earlier revision.
NoFalseFail ==
    JustPublished /\ FullRequest =>
        \A f \in mem.found.formal :
            f.status = "fail" /\ f.id # BuildRule => tree.src \in Violates[f.id]

\* The same of fail-open runs alone: fail-closed, a rule that raises counts as
\* failed (_tool_error_finding), which says nothing of the thesis.
NoFalseFailHere == ~req.failClosed => NoFalseFail

\* A report never leaves a rule out without saying why, whichever run filled the
\* cache it comes from, with another set of stages or before latexmk went
\* missing: a rule has no finding only where the build stage of this very run
\* reports SYS-03 as unverifiable, or where the one finding of an engine that
\* failed stands for them all, graded as this request asks.
GapsAreExplained ==
    JustPublished /\ "formal" \in req.stages /\ Rule \subseteq req.rules =>
        \/ mem.found.formal = {FailureFinding}
        \/ \A r \in Rule :
             \/ \E f \in mem.found.formal : f.id = r
             \/ r = BuildRule /\ SystemFinding("warn", "unverifiable") \in mem.found.build

\* A full run judges every formal rule (SYS-03 apart, when the build stage has
\* found no latexmk).  Not so of the code: an entry stored by a run with --only,
\* or by one that Ctrl+C reached in the formal stage, serves later runs as well.
EveryRuleJudged ==
    JustPublished /\ FullRequest =>
        \A r \in Rule :
            \/ \E f \in mem.found.formal : f.id = r
            \/ r = BuildRule /\ mem.toolMissing

\* Two runs of the same request on the same tree, whatever was cached, lost,
\* killed or answered by the model in between, end with the same exit code.
SameInputSameVerdict ==
    \A a, b \in seen : a.tree = b.tree /\ a.req = b.req => a.exit = b.exit

\* report.json is never older than the files derived from it, wherever a run
\* was interrupted; and files of the same run tell the same story.
ReportNeverOlder ==
    /\ \A n \in {out.markdown, out.summary.run, out.runState} : n <= out.report.run
    /\ out.summary.run = out.report.run /\ out.report.gate # "none"
         => out.summary = out.report

\* --final raises the severity of the rules that have a severity_final.
FinalSeverityApplied ==
    JustPublished /\ req.final =>
        \A f \in mem.found.formal : f.id \in FinalError => f.severity = "error"

\* report.json is always published: a run that comes as far as publishing,
\* and is not interrupted, leaves a report of its own.
ReportAlwaysPublished ==
    [][pc = "publish" /\ pc' # pc /\ UNCHANGED faults => out'.report.run = runs]_vars

\* Ctrl+C before the last check between stages ends the run as canceled.
Cancelable == {"hash", "extract", "build", "latexmk", "putBuild", "writeBuild",
               "check1", "formal", "engine", "engineFails", "putFormal",
               "writeFormal", "check2", "semantic", "writeSemantic", "check3"}

CancelHonoured ==
    sigint /\ pc \in Cancelable ~>
        pc = "idle" /\ (out.canceled.run = runs \/ exit = "CONFIG_ERROR")

-----------------------------------------------------------------------------
(* Fail-open runs                                                          *)

FailOpenOnly == \A r \in Request : ~r.failClosed

\* Nothing a fail-open build stage, or a semantic stage, reports can block.
Harmless(findings) == \A f \in findings : ~FindingBlocksMerge(f, "strict")

HarmlessStages ==
    /\ Harmless(mem.found.build) /\ Harmless(mem.found.semantic)
    /\ \A k \in DOMAIN cache.build : Harmless(cache.build[k].findings)
    /\ \A k \in DOMAIN cache.semantic : Harmless(cache.semantic[k])

\* Where every run is fail-open, none ends with an internal error: not from a
\* failing tool, and not because RunReport refuses the exit code.
FailOpenNeverInternal == FailOpenOnly => exit # "INTERNAL_ERROR"

QuietRuns == HarmlessStages /\ ~mem.internal /\ exit # "INTERNAL_ERROR"

\* How far report.json is, while a run goes on and after it.
Written == {"markdown", "summary", "writeAggregate", "runState"}

ReportInOrder ==
    /\ out.report.run <= runs
    /\ pc \in Written => out.report.run = runs
    /\ pc \notin Written \cup {"idle"} => out.report.run < runs
    /\ pc \in {"markdown", "summary"} => out.report = Report(ResolveExitCode)

\* The inductive invariant: types, that nothing harmful has got into the caches
\* of fail-open runs, and that a run writes report.json before what derives
\* from it.
IInv ==
    /\ TypeOK
    /\ FailOpenOnly => QuietRuns
    /\ ReportNeverOlder /\ ReportInOrder
=============================================================================
