------------------------------- MODULE Command -------------------------------
(***************************************************************************)
(* cli.py, from the arguments of `run` to the summary it prints, and        *)
(* `doctor`, in a project that is edited meanwhile.  The stages of a run    *)
(* are in the module Pipeline; here a run reads the configuration twice     *)
(* (for the summary, for the stages) and hashes it later, reads the tree    *)
(* at four moments, and keeps results in a cache under keys made of what    *)
(* it hashed.  A verdict is abstracted to what it was computed from: the    *)
(* file that was checked and the settings of the rules.                     *)
(*                                                                         *)
(* One command runs at a time (OutputLock has them run together), and the   *)
(* build cache, whose key is the formal one's, is left to Pipeline.  No     *)
(* project here has a compiled PDF (latexmk is absent) or a bibliography,   *)
(* which the key of the formal stage also contains.                         *)
(***************************************************************************)
EXTENDS Setup, Submission, Naturals

CONSTANTS
    ConfigPath,   \* the file --config names
    Rubric,       \* the rubric of the project
    Scenes,       \* how a project may start, what may be asked and edited, and
                  \* the bound on its runs
    MaxEdits      \* bound: edits

VARIABLES
    scene,      \* the scene played: its requests, contents and entries never change
    disk,       \* the configuration files
    tree,       \* the submission
    cache,      \* the stage cache: key -> what was computed
    report,     \* the published report.json, or NoReport
    run,        \* the run, or the last one
    doctor,     \* what `doctor` said of the tree as it is, or NoDoctor
    runs, edits \* counters for the bounds

ASSUME ScenesAssumption ==
    \A s \in Scenes : /\ IsTree(s.tree)
                      /\ \A e \in s.entries : e.path \in Path /\ IsEntry(e.entry)

vars == <<scene, disk, tree, cache, report, run, doctor, runs, edits>>

NoRun == [pc |-> "idle"]
NoReport == [header |-> FALSE]
NoDoctor == [asked |-> FALSE]
NoVerdict == [judged |-> FALSE]

Over == {"idle", "done"}

Init ==
    /\ scene \in Scenes
    /\ disk = scene.disk
    /\ tree = scene.tree
    /\ cache = <<>>
    /\ report = NoReport
    /\ run = NoRun
    /\ doctor = NoDoctor
    /\ runs = 0
    /\ edits = 0

-----------------------------------------------------------------------------
(* The user. *)

EditConfig ==
    /\ edits < MaxEdits
    /\ \E f \in DOMAIN disk : \E content \in scene.contents[f] :
          /\ content # disk[f]
          /\ disk' = [disk EXCEPT ![f] = content]
    /\ edits' = edits + 1
    /\ UNCHANGED <<scene, tree, cache, report, run, doctor, runs>>

\* untouched: the tree is the one the run started with.
Touch(t) ==
    /\ tree' = t
    /\ run' = IF run.pc = "idle" THEN run ELSE [run EXCEPT !.untouched = FALSE]
    /\ doctor' = NoDoctor
    /\ edits' = edits + 1
    /\ UNCHANGED <<scene, disk, cache, report, runs>>

AddFile ==
    /\ edits < MaxEdits
    /\ \E e \in scene.entries :
          /\ e.path \notin DOMAIN tree
          /\ Touch([q \in {e.path} \cup DOMAIN tree |-> IF q = e.path THEN e.entry ELSE tree[q]])

RemoveFile ==
    /\ edits < MaxEdits
    /\ \E p \in DOMAIN tree : Touch([q \in DOMAIN tree \ {p} |-> tree[q]])

\* The audit of a LaTeX bundle; anything else has to be a PDF.
AuditOf(t, submission) ==
    IF ~submission.ok \/ submission.source.suffix = "pdf" THEN {}
    ELSE IF submission.source.suffix = "tex"
    THEN BundleProblems(t, submission.root, submission.source)
    ELSE {[kind |-> "input", why |-> "unreadable"]}

\* doctor: resolve_submission, then the audit.  It changes nothing on disk, so it
\* may as well run at once.
Doctor ==
    /\ run.pc \in Over
    /\ doctor = NoDoctor
    /\ \E request \in scene.requests :
        LET submission == ResolveSubmission(tree, request.source, request.root) IN
        doctor' = [asked |-> TRUE, source |-> request.source, root |-> request.root,
                   ok |-> submission.ok,
                   problems |-> AuditOf(tree, submission)]
    /\ UNCHANGED <<scene, disk, tree, cache, report, run, runs, edits>>

-----------------------------------------------------------------------------
(* A run.  Each action is one read of what may be edited. *)

\* _summary_labels: the labels of a summary, from the options alone when the
\* configuration or the provider is refused.
SummaryLabels(request) ==
    LET config == LoadConfig(disk, ConfigPath)
        llm == LoadLlmConfig(request.environ, config, request)
        asked == FirstGiven(<<request.provider, "configured">>)
    IN [profile |-> IF request.profile # Absent THEN request.profile
                    ELSE IF config.ok THEN config.work_profile ELSE "unknown",
        provider |-> IF config.ok /\ llm.ok THEN llm.provider
                     ELSE IF request.no_llm THEN "disabled" ELSE asked]

\* The run goes on to a step.
GoTo(step) == run' = [run EXCEPT !.pc = step]

\* _emit_error_run_summary, exit 3: the labels as they are, and no artifacts.
Refusal(step) ==
    run' = [run EXCEPT !.pc = "done", !.refused = step,
                       !.shown = [exit |-> 3, profile |-> run.labels.profile]]

\* run_command up to run_pipeline.
StartRun ==
    /\ run.pc \in Over
    /\ runs < scene.runs
    /\ runs' = runs + 1
    /\ \E request \in scene.requests :
        run' = [pc |-> "arguments", request |-> request, labels |-> SummaryLabels(request),
                untouched |-> TRUE, refused |-> "no", submission |-> Refuse, setup |-> Refused,
                key |-> Refused, verdict |-> NoVerdict, cached |-> FALSE, sent |-> "nothing",
                shown |-> [exit |-> 0, profile |-> "unknown"]]
    /\ UNCHANGED <<scene, disk, tree, cache, report, doctor, edits>>

\* parse_only, parse_gate_mode, the output lock and resolve_submission.
Arguments ==
    /\ run.pc = "arguments"
    /\ LET submission == ResolveSubmission(tree, run.request.source, run.request.root) IN
       IF ArgumentsAreKnown(run.request) /\ submission.ok
       THEN run' = [run EXCEPT !.pc = "setup", !.submission = submission]
       ELSE Refusal("arguments")
    /\ UNCHANGED <<scene, disk, tree, cache, report, doctor, runs, edits>>

ReadSetup ==
    /\ run.pc = "setup"
    /\ LET setup == LoadConfigAndRubric(disk, ConfigPath, Rubric, run.request.profile) IN
       IF setup.ok THEN run' = [run EXCEPT !.pc = "hash", !.setup = setup]
       ELSE Refusal("setup")
    /\ UNCHANGED <<scene, disk, tree, cache, report, doctor, runs, edits>>

\* _source_hash and the hashes of the rubric and of the file --config names.
Hashable(t, submission) ==
    IF submission.source.suffix = "tex" THEN ProjectIsListable(t, submission.root)
    ELSE IsFile(t, submission.source)

Hash ==
    /\ run.pc = "hash"
    /\ LET source == run.submission.source IN
       IF Hashable(tree, run.submission)
       THEN run' = [run EXCEPT !.pc = "extract",
                               !.key = [source |-> IF source.suffix = "tex"
                                                   THEN ProjectFiles(tree, run.submission.root)
                                                   ELSE source :> tree[source],
                                        config |-> disk[ConfigPath]]]
       ELSE Refusal("hash")
    /\ UNCHANGED <<scene, disk, tree, cache, report, doctor, runs, edits>>

\* _extract_only: what is not LaTeX has to be a PDF.
Extractable(t, submission, cwd) ==
    /\ IsFile(t, submission.source)
    /\ \/ submission.source.suffix = "pdf"
       \/ /\ submission.source.suffix = "tex"
          /\ ExtractionErrors(t, submission.root, cwd, submission.source) = {}

Extract ==
    /\ run.pc = "extract"
    /\ IF Extractable(tree, run.submission, run.request.cwd)
       THEN GoTo(IF IncludesStage(run.request, "formal") THEN "formal" ELSE "semantic")
       ELSE Refusal("extract")
    /\ UNCHANGED <<scene, disk, tree, cache, report, doctor, runs, edits>>

\* What a stage keeps its result under.
KeyOf(stage, model) ==
    [stage |-> stage, model |-> model, source |-> run.key.source, config |-> run.key.config]

\* StageCache.put: the cache with what a key now has.
CacheWith(key, result) ==
    [k \in {key} \cup DOMAIN cache |-> IF k = key THEN result ELSE cache[k]]

\* The verdict of the rules on a file with the settings of the run.
VerdictOf(submission, setup) ==
    [judged |-> TRUE, main |-> submission.source, by |-> setup.rubric]

\* _stage_formal: from the cache, or computed and kept.
Formal ==
    /\ run.pc = "formal"
    /\ LET key == KeyOf("formal", <<"formal">>)
           verdict == IF key \in DOMAIN cache THEN cache[key]
                      ELSE VerdictOf(run.submission, run.setup)
       IN /\ run' = [run EXCEPT !.pc = "semantic", !.verdict = verdict,
                                !.cached = key \in DOMAIN cache]
          /\ cache' = CacheWith(key, verdict)
    /\ UNCHANGED <<scene, disk, tree, report, doctor, runs, edits>>

\* _stage_semantic: not with --no-llm; a provider that is refused is a remark.
Semantic ==
    /\ run.pc = "semantic"
    /\ LET llm == LoadLlmConfig(run.request.environ, run.setup.config, run.request)
           key == KeyOf("semantic", <<llm.provider, llm.model>>)
       IN IF run.request.no_llm \/ ~IncludesStage(run.request, "semantic") \/ ~llm.ok
          THEN GoTo("publish") /\ cache' = cache
          ELSE /\ run' = [run EXCEPT !.pc = "publish",
                                     !.sent = IF key \in DOMAIN cache \/ llm.provider = "disabled"
                                              THEN "nothing" ELSE llm.provider]
               /\ cache' = CacheWith(key, NoVerdict)
    /\ UNCHANGED <<scene, disk, tree, report, doctor, runs, edits>>

\* The aggregate stage; without it report.json has no header.
Publish ==
    /\ run.pc = "publish"
    /\ GoTo("summary")
    /\ report' = IF IncludesStage(run.request, "aggregate")
                 THEN [header |-> TRUE, profile |-> run.setup.config.work_profile,
                       verdict |-> run.verdict]
                 ELSE NoReport
    /\ UNCHANGED <<scene, disk, tree, cache, doctor, runs, edits>>

\* Faulty variant: the summary keeps the profile it read first.
ProfileOfLabels == run.labels.profile

\* The profile in the header of the published report, if it has one.
ProfileShown == IF report.header THEN report.profile ELSE run.labels.profile

Summarise ==
    /\ run.pc = "summary"
    /\ run' = [run EXCEPT !.pc = "done", !.shown = [exit |-> 0, profile |-> ProfileShown]]
    /\ UNCHANGED <<scene, disk, tree, cache, report, doctor, runs, edits>>

Next ==
    \/ EditConfig
    \/ AddFile
    \/ RemoveFile
    \/ Doctor
    \/ StartRun
    \/ Arguments
    \/ ReadSetup
    \/ Hash
    \/ Extract
    \/ Formal
    \/ Semantic
    \/ Publish
    \/ Summarise

Spec == Init /\ [][Next]_vars

-----------------------------------------------------------------------------
\* A run that ended with a report; the labels come from another reading of the
\* configuration than the settings.
Completed == run.pc = "done" /\ run.refused = "no"

\* Nothing of a thesis goes to a language model with --no-llm, and to the
\* provider in the cloud only when the variable of the environment that decides
\* says so or, if none is set, the configuration the run loaded, whatever was
\* edited afterwards (llm/config.py).  The consent goes by the provider's name:
\* where the address of a local one leads is not asked.
OnlyWithConsent ==
    run.pc # "idle" /\ run.sent # "nothing" =>
        /\ ~run.request.no_llm
        /\ run.sent = "yandex" =>
             LET v == CloudVariable(run.request.environ) IN
             v \notin False /\ (v = Absent => run.setup.config.cloud = "true")

\* No command of the scene names a profile.
NoProfileAsked == \A request \in scene.requests : request.profile = Absent

\* The summary of a completed run names the work profile of the settings its
\* stages ran with, although the label was read before and the configuration may
\* have been edited between the two readings (cli.py, run_command).  That is not
\* always the profile the rules of the published findings were chosen by: no key
\* of the cache holds the profile or the included files of the configuration
\* (orchestrator.py, base_key), so findings of another run may be published
\* under it; but only from the cache, and only in a project that was edited or
\* where a command names a profile.
SummaryFitsRun ==
    Completed /\ IncludesStage(run.request, "aggregate") =>
        /\ run.shown.profile = run.setup.rubric.profile
        /\ run.verdict.judged /\ run.verdict.by.profile # run.shown.profile =>
             run.cached /\ (edits > 0 \/ ~NoProfileAsked)

\* Adding a file to a submission never makes the same command check another
\* LaTeX thesis without a word: it is refused, unless the file is the main.tex
\* at the top, which goes before any other, or what was checked is the target of
\* a main.pdf at the top, which comes after any other (submission.py).
NeverAnotherThesis ==
    [][ \A request \in scene.requests :
            LET before == ResolveSubmission(tree, request.source, request.root)
                after == ResolveSubmission(tree', request.source, request.root)
            IN /\ DOMAIN tree \subseteq DOMAIN tree'
               /\ TopMain \notin DOMAIN tree' \ DOMAIN tree
               /\ before.ok /\ before.source.suffix = "tex" /\ after.ok
               /\ TopPdf \in DOMAIN tree => before.source # Target(tree, TopPdf)
               => after.source = before.source ]_tree

\* An include that a run takes from the working directory although there is one
\* beside the file, or although the project begins elsewhere.
Shadowed(t, root, cwd) ==
    \E f \in FilesOf(t) : \E i \in DOMAIN t[f].refs :
        LET ref == t[f].refs[i]
            beside == Under(f.dir, ref)
        IN /\ ref.kind = "include" /\ ref.form = "plain"
           /\ IncludePath(t, cwd, f, ref) # beside
           /\ Lead(t, beside) # NoFile \/ root # <<>>

\* What the audit does not look for and a run needs: entries that lead nowhere,
\* a cycle and, in the files it reads, an include named by a macro or found
\* below the root only.
OutOfTheAudit(t, submission, cwd) ==
    LET root == submission.root
        main == submission.source
    IN \/ ~ProjectIsListable(t, root)
       \/ "IncludeCycleError" \in ExtractionErrors(t, root, cwd, main)
       \/ \E f \in Spread(AuditIncludes(t, root), main) : \E i \in DOMAIN t[f].refs :
             LET ref == t[f].refs[i] IN
             /\ ref.kind = "include"
             /\ \/ ref.form = "dynamic"
                \/ /\ Lead(t, IncludePath(t, cwd, f, ref)) = NoFile
                   /\ DependencyStatus(t, root, DependencyCandidates(root, f, ref)) = "found"

\* `doctor` and a run of the same tree agree about its includes, unless one of
\* them is taken from the working directory instead: what a run could expand the
\* audit does not call missing, and a tree the audit finds complete is refused
\* only for what the audit does not look for (submission.py, extract/latex.py).
DoctorAgreesWithRun ==
    /\ run.pc # "idle" /\ doctor.asked
    /\ run.untouched /\ doctor.source = run.request.source /\ doctor.root = run.request.root
    /\ run.submission.ok => ~Shadowed(tree, run.submission.root, run.request.cwd)
    =>
    /\ run.verdict.judged => [kind |-> "include", why |-> "missing"] \notin doctor.problems
    /\ run.refused \in {"hash", "extract"} /\ doctor.problems = {} =>
         OutOfTheAudit(tree, run.submission, run.request.cwd)

\* The verdict a run publishes was computed from the file it resolved and with
\* the settings it loaded, from the cache or not: what differs has another key
\* (cache.py, orchestrator.py).
VerdictIsOfThisRun ==
    Completed /\ run.verdict.judged => run.verdict = VerdictOf(run.submission, run.setup)
=============================================================================
