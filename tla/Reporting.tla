----------------------------- MODULE Reporting ------------------------------
(***************************************************************************)
(* How the findings of a run become its exit code and its published        *)
(* report: Orchestrator.run collects the findings of its stages, settles   *)
(* the exit code from those of the formal stage, builds a RunReport of     *)
(* them all, whose validator may refuse it, and publishes it.              *)
(***************************************************************************)
EXTENDS Gate

CONSTANTS
    Check,         \* the rules and checks findings come from
    BuildCheck,    \* SYS-03, the check of the build stage
    MaxFindings    \* bound on the findings of the formal and the semantic stage

ASSUME ReportingAssumption == BuildCheck \in Check /\ MaxFindings \in Nat

VARIABLES
    mode,        \* the gate mode, fixed when the run starts
    failClosed,  \* the request's policy for tools that fail
    found,       \* what the stages have reported so far
    stage,       \* the stage at hand
    built,       \* the build stage: "no" (not run), "fresh", or "restored"
    internal,    \* RunState.exit_code is INTERNAL_ERROR
    degraded,    \* the build stage's meta["degraded"]
    exit,        \* the settled exit code, or "running"
    doc          \* the published report.json, NoDoc, or NoDoc refused

vars == <<mode, failClosed, found, stage, built, internal, degraded, exit, doc>>

Finding == FindingOf(Check)

\* What each stage may report.  The build stage has one check: a missing latexmk
\* is a warning; a failed build, or no PDF after one, is what the policy says.
\* A semantic finding is of the LLM layer.  A formal one is whatever the model of
\* domain.py lets a rule construct.
BuildFinding(severity, status) ==
    [id |-> BuildCheck, layer |-> "script", severity |-> severity,
     status |-> status, approval |-> FALSE]

ToolIsMissing == BuildFinding("warn", "unverifiable")
BuildFailed(closed) ==
    IF closed THEN BuildFinding("error", "fail") ELSE BuildFinding("warn", "unverifiable")

BuildResults == {"success", "failed", "tool_missing"}
BuildReports(result, closed) ==
    CASE result = "success" -> {}
      [] result = "tool_missing" -> {ToolIsMissing}
      [] result = "failed" -> {BuildFailed(closed)}

SemanticFinding == {f \in Finding : f.layer = "llm"}

AllFound == found.build \cup found.formal \cup found.semantic

NoDoc == [kind |-> "none"]
RefusedDoc == [kind |-> "refused"]

Init ==
    /\ mode \in Modes /\ failClosed \in BOOLEAN
    /\ found = [build |-> {}, formal |-> {}, semantic |-> {}]
    /\ stage = "build" /\ built = "no"
    /\ internal = FALSE /\ degraded = FALSE
    /\ exit = "running"
    /\ doc = NoDoc

-----------------------------------------------------------------------------
(* The stages                                                              *)

\* Faulty variant: a fail-closed build that fails leaves the exit code alone.
BuildQuietly(result) ==
    /\ stage = "build" /\ stage' = "formal" /\ built' = "fresh"
    /\ found' = [found EXCEPT !.build = BuildReports(result, failClosed)]
    /\ degraded' = (result = "tool_missing" \/ (result = "failed" /\ ~failClosed))
    /\ UNCHANGED <<mode, failClosed, internal, exit, doc>>

\* _stage_build, not from the cache.
Build(result) ==
    /\ stage = "build" /\ stage' = "formal" /\ built' = "fresh"
    /\ found' = [found EXCEPT !.build = BuildReports(result, failClosed)]
    /\ degraded' = (result = "tool_missing" \/ (result = "failed" /\ ~failClosed))
    /\ internal' = (result = "failed" /\ failClosed)
    /\ UNCHANGED <<mode, failClosed, exit, doc>>

\* _stage_build from the cache, whose key has no policy: findings and meta are
\* those of the run that filled it, fail-closed or not, and the exit code of that
\* run is not restored.
Restore(result, closed) ==
    /\ stage = "build" /\ stage' = "formal" /\ built' = "restored"
    /\ found' = [found EXCEPT !.build = BuildReports(result, closed)]
    /\ degraded' = (result = "tool_missing" \/ (result = "failed" /\ ~closed))
    /\ UNCHANGED <<mode, failClosed, internal, exit, doc>>

Room == Cardinality(found.formal) + Cardinality(found.semantic) < MaxFindings

\* Faulty variant: a finding is still taken after the exit code was settled.
CollectLate(f) ==
    /\ Room
    /\ found' = [found EXCEPT !.formal = @ \cup {f}]
    /\ UNCHANGED <<mode, failClosed, stage, built, internal, degraded, exit, doc>>

\* A rule of the formal stage reports a finding.
Collect(f) ==
    /\ stage = "formal" /\ Room
    /\ found' = [found EXCEPT !.formal = @ \cup {f}]
    /\ UNCHANGED <<mode, failClosed, stage, built, internal, degraded, exit, doc>>

\* The formal engine raises: one finding in place of the others.
EngineFails ==
    /\ stage = "formal" /\ stage' = "semantic"
    /\ found' = [found EXCEPT !.formal = {BuildFailed(failClosed)}]
    /\ internal' = (internal \/ failClosed)
    /\ UNCHANGED <<mode, failClosed, built, degraded, exit, doc>>

\* --only: a stage is not run; or the formal stage is over.
GoOn ==
    /\ \/ stage = "build" /\ stage' = "formal"
       \/ stage = "formal" /\ stage' = "semantic"
    /\ UNCHANGED <<mode, failClosed, found, built, internal, degraded, exit, doc>>

\* The semantic stage reports a finding.
Advise(f) ==
    /\ stage = "semantic" /\ Room
    /\ found' = [found EXCEPT !.semantic = @ \cup {f}]
    /\ UNCHANGED <<mode, failClosed, stage, built, internal, degraded, exit, doc>>

-----------------------------------------------------------------------------
(* The verdict and its document                                            *)

\* _resolve_exit_code: the findings of the formal stage decide.
Settle ==
    /\ stage = "semantic" /\ stage' = "settled"
    /\ exit' = IF internal THEN "INTERNAL_ERROR"
                           ELSE FormalExitCode(found.formal, mode)
    /\ UNCHANGED <<mode, failClosed, found, built, internal, degraded, doc>>

\* RunReport(...) of all stages is accepted and publish_reports writes report.json.
Publish ==
    /\ exit # "running" /\ doc = NoDoc
    /\ ValidExitCode(AllFound, mode, exit)
    /\ doc' = [kind |-> "report", exit |-> exit,
               gate_status |-> GateStatusFor(AllFound, mode, exit),
               degraded |-> HeaderDegraded(AllFound, degraded),
               counts |-> CountFindings(AllFound),
               listed |-> PublishedFindings(AllFound)]
    /\ UNCHANGED <<mode, failClosed, found, stage, built, internal, degraded, exit>>

\* The validator of RunReport raises: the process ends without a report.
Refuse ==
    /\ exit # "running" /\ doc = NoDoc
    /\ ~ValidExitCode(AllFound, mode, exit)
    /\ doc' = RefusedDoc
    /\ UNCHANGED <<mode, failClosed, found, stage, built, internal, degraded, exit>>

\* The process has ended.
Done == doc # NoDoc /\ UNCHANGED vars

Next ==
    \/ \E result \in BuildResults : Build(result)
    \/ \E result \in BuildResults, closed \in BOOLEAN : Restore(result, closed)
    \/ \E f \in Finding : Collect(f)
    \/ EngineFails \/ GoOn
    \/ \E f \in SemanticFinding : Advise(f)
    \/ Settle \/ Publish \/ Refuse \/ Done

Spec == Init /\ [][Next]_vars

-----------------------------------------------------------------------------
(* Properties                                                              *)

TypeOK ==
    /\ mode \in Modes /\ failClosed \in BOOLEAN
    /\ found \in [build : SUBSET Finding, formal : SUBSET Finding,
                  semantic : SUBSET SemanticFinding]
    /\ IsFiniteSet(AllFound)
    /\ stage \in {"build", "formal", "semantic", "settled"}
    /\ built \in {"no", "fresh", "restored"}
    /\ internal \in BOOLEAN /\ degraded \in BOOLEAN
    /\ exit \in {"running", "SUCCESS", "FORMAL_FAILURE", "INTERNAL_ERROR"}

Published == doc.kind = "report"

\* The report that a run publishes is a function of its findings: nothing is
\* dropped or added between the decision and the document; and no report
\* contradicts its exit code.
DocMatchesRun ==
    /\ doc.kind \in {"none", "refused", "report"}
    /\ doc.kind = "none" => doc = NoDoc
    /\ exit = "running" => doc = NoDoc
    /\ stage = "settled" <=> exit # "running"
    /\ Published =>
        /\ ValidExitCode(AllFound, mode, exit)
        /\ doc.exit = exit
        /\ doc.gate_status = GateStatusFor(AllFound, mode, exit)
        /\ doc.degraded = HeaderDegraded(AllFound, degraded)
        /\ doc.counts = CountFindings(AllFound)
        /\ doc.listed = PublishedFindings(AllFound)

ExitMatchesGate ==
    exit # "running" =>
        exit = IF internal THEN "INTERNAL_ERROR"
                           ELSE FormalExitCode(found.formal, mode)

\* Only a build that fails in a fail-closed run blocks, and that run is an
\* internal error, unless its build comes out of the cache.
BuildAnswersForItself ==
    /\ built = "no" => found.build = {}
    /\ BlocksMerge(found.build, "strict") => internal \/ built = "restored"

IInv == TypeOK /\ DocMatchesRun /\ ExitMatchesGate /\ BuildAnswersForItself

\* The validator of domain.py looks at the findings of all stages and repeats the
\* policy of gate.py, while the exit code is settled from the formal stage alone.
\* The two disagree, and the report is refused, in one case: the cache handed
\* over the blocking build failure of a fail-closed run, nothing of the formal
\* stage blocks, and nothing has made this run an internal error.
RefusedForARestoredBuildOnly ==
    exit # "running" =>
        (~ValidExitCode(AllFound, mode, exit) <=>
            /\ built = "restored" /\ ~internal
            /\ BlocksMerge(found.build, mode) /\ ~BlocksMerge(found.formal, mode))

\* The counters of the header are enough to decide the gate, as CI and the
\* Markdown summary do: exit 2 iff a formal error, or in strict mode a blocking
\* incomplete check, is counted.
CountsDecideGate ==
    Published /\ ~internal =>
        (doc.exit = "FORMAL_FAILURE" <=>
            \/ doc.counts.formal_errors > 0
            \/ mode = "strict" /\ doc.counts.blocking_unverifiable > 0)

\* LLM and vision findings, of whatever stage, never decide: without them the
\* exit code is the same.
AdvisoryLayersNeverDecide ==
    exit \in {"SUCCESS", "FORMAL_FAILURE"} =>
        exit = FormalExitCode({f \in found.formal : f.layer \in FormalLayers}, mode)

\* Advisory mode excuses what could not be checked, visibly: a run it lets
\* through and strict mode would not is labelled degraded in both header fields.
AdvisoryIsVisible ==
    Published /\ doc.exit = "SUCCESS" /\ BlocksMerge(AllFound, "strict") =>
        doc.gate_status = "degraded" /\ doc.degraded

\* The label and the exit code never contradict each other.
StatusFitsExit ==
    Published => (doc.gate_status \in {"pass", "degraded"} <=> doc.exit = "SUCCESS")

\* What decides the gate, or would in strict mode, is in the list people read.
DecidersAreListed ==
    Published => \A f \in AllFound : FindingBlocksMerge(f, "strict") => f \in doc.listed
=============================================================================
