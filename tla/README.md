# TLA+ models of normocontrol (GostCheck)

`normocontrol` checks a student's thesis (a LaTeX project or a PDF) against the
rules of a rubric. One command, `normocontrol run`, builds the document, applies
formal rules, optionally asks a language model for advice, decides whether the
document may be merged, and publishes a report in an output directory that also
holds its cache and its lock. A run is short, but it is repeated: by the author,
by CI, in parallel jobs, after Ctrl+C, after a crash, with other options, over
the same output directory. What is hard to test in it is what one run leaves
behind for the next one; that is what these models are about first.

Paths below are relative to the Python package `src/normocontrol/`.

## 1. Inventory

| Part | State | Operations | Hard behaviour | What makes it correct |
|---|---|---|---|---|
| Orchestrator (`orchestrator.py`, `run_context.py`) | `RunState`, `_canceled`, stage results, the files in `--out` | `run`, `_stage_build`, `_stage_formal`, `_stage_semantic`, `_canceled_report` | Ctrl+C, crashes between files, a project edited during a run, exceptions that become findings | the verdict is about the project as it is; the report is always there and tells one story |
| Stage cache (`cache.py`) | one JSON file for each key | `get`, `put` | stale entries, results cached for another request | a hit is what a miss would have computed |
| Output lock (`cache.py`) | the file `.normocontrol.lock` and its age | `acquire`, `release`, `_is_stale` | two processes between two system calls; a run longer than the stale age; a killed run | one run at a time; never locked out for ever |
| Gate policy (`rules/gate.py`, `domain.py`) | none | `evaluate_gate`, `formal_exit_code`, the validators of `Finding` and `RunReport` | the policy is written down three times | the copies agree; advice never blocks |
| Published report (`reporting/`) | `report.json`, `summary.json`, Markdown | `build_published_report`, `count_findings`, `publish_reports` | labels in degraded and advisory runs | header, counters and list say what was decided |
| Formal engine (`rules/engine.py`, `rules/registry.py`) | registry; a thread pool in parallel mode | `run`, `_evaluate_rule` | rules that raise; futures completing in any order | parallel and sequential runs give the same report |
| Formal rules (`rules/*.py`) | none | one `run` for each rule | missing PDF, missing LaTeX, headings that contain one another, spans in any order | no pass without having looked; what should not matter does not |
| latexmk, ChkTeX (`tools/`) | a child process | `build`, `run` | missing tool, time limit, success without output | each outcome is told apart |
| Semantic engine (`semantic/`) | batches, audit trail | `plan`, `run`, `_evaluate` | some batches fail, others do not; invented evidence | every rule answered once; no unverified quotation |
| LLM providers (`llm/`) | HTTP client | `complete_json`, `call_with_retry` | retries, deadline, error classes | bounded attempts; only retryable errors retried |
| Extraction (`extract/`) | none | `_expand_file`, `project_files`, `chunk`, page roles | cyclic `\input`, roots, overlap | terminates; covers all of the text |
| Submission (`submission.py`) | none | `resolve_submission`, the audit of `doctor` | ambiguous input, links, a second copy of the include rules | one thesis; `doctor` and the run agree |
| Rubric, configuration, CLI (`rubric/`, `llm/config.py`, `cli.py`) | files that are read more than once | `load_config`, `expand_rubric`, `load_llm_config`, `run`, `doctor` | an editor between two readings; four places to consent to a cloud | the summary names the run's settings; a cloud provider is used only with consent |
| Evaluation, scripts, workflows, demo | files | scoring, release checks, the pull-request comment | create-or-update of the comment | one comment for each pull request |

Interaction: the CLI makes a `RunRequest` and calls the orchestrator. The
orchestrator takes the lock, hashes the project, and for each stage looks into
the cache before it calls extraction, latexmk, the formal engine or the semantic
engine. SYS-03, one of the formal rules, runs latexmk a second time from inside
the engine. Stage findings go through the gate into a `RunReport`, whose
validator checks the exit code again, and then to the reporting package.

## 2. Modules

| Module | Models | Uses |
|---|---|---|
| `OutputLock`, `OutputLockProofs` | lock file, one system call a step, any set of processes | |
| `Gate` | gate policy, validators, counters and labels as operators | |
| `Reporting`, `ReportingProofs` | how the stages' findings become exit code and header, or a report that is refused | `Gate` |
| `Pipeline`, `PipelineProofs` | several runs over one output directory | `Gate` |
| `FormalRules` | what one rule answers the engine, as functions | `Gate` |
| `FormalVerdict` | what the engine promises: the abstract specification | `FormalRules` |
| `FormalEngine`, `FormalEngineProofs` | the engine, sequential and with its pool; it implements `FormalVerdict` | `FormalRules`, `FormalVerdict` |
| `SemanticEngine`, `SemanticEngineProofs` | the semantic stage: rules, requests, HTTP attempts | `Gate` |
| `Includes` | LaTeX files, `\input`, what protects text from it | |
| `Documents` | sections, chunks, batches | |
| `PageRoles`, `PdfText` | pages that are forms; reading order and headings of a PDF | |
| `Extraction`, `ExtractionProofs` | the extraction of a project or PDF, step by step | the four above |
| `PdfLayout` | body text and margins of typeset pages | |
| `FormatRules` | FMT-01 to FMT-05 | `PdfLayout` |
| `ThesisText` | what the content rules read out of a project and its .bib files | |
| `ContentRules` | the other formal rules | `FormatRules`, `ThesisText` |
| `Rules`, `RulesProofs` | a submission judged, revised and judged again | `ContentRules` |
| `Setup` | configuration, rubric, arguments, language model | |
| `Submission` | which file is checked; `doctor`'s audit; the run's own traversal | |
| `Command`, `CommandProofs` | `run` and `doctor` while somebody edits | `Setup`, `Submission` |
| `MC...` | instances for TLC | |

### OutputLock

`lock` is the file: its creator (a history value: no guard of `acquire` looks
at it) and its age in ticks. `pc[p]` is the system call process `p` makes next; `held` is
`_held`. Actions `CheckExists`, `CheckStale`, `Unlink`, `Create`, `Write` are
the lines of `acquire`, in their order; `WriteFails` is an `OSError` of the
write, which leaves the file behind and `_held` false. `Release` is `release`
as the `finally` block of `Orchestrator.run` calls it. `Tick` is the clock;
`LongRuns = FALSE` restricts it to runs that end before their own file is stale.
`MaxFaults` bounds kills and failed writes, `MaxReclaims` is where a history
counter stops counting (it is in no guard).

### Gate and Reporting

A finding is reduced to rule, layer, severity, status and whether its message
asks for approval, which is all that decides anything. `FindingBlocksMerge`
and its neighbours are `rules/gate.py`, `ValidExitCode` is the validator
of `RunReport`, `CountFindings` and `GateStatusFor` are
`reporting/json_report.py`: each written from its own copy in the code.
`Reporting` is one run reduced to this: the build stage (`Build`, or `Restore` from
the cache, whose entry may come from a run of the other policy), the formal stage
(`Collect`, `EngineFails`), the advice (`Advise`); `GoOn` passes a stage that `--only`
leaves out. `Settle` is `_resolve_exit_code`, which looks at the findings of the formal
stage and at `RunState.exit_code`, while the validator (`Publish`, `Refuse`) looks at
those of all stages. Which stages' findings are at hand is kept apart in `found`,
because of this difference. `Pipeline` has the same over several runs, with the
caches themselves.

### Pipeline

A *revision* (`Source`) stands for all the base key hashes: the project's files,
the rubric, the configuration, the tool version. Some revisions do not compile
(`Broken`), compile to nothing (`NoPdf`) or to an unreadable file (`BadPdf`). A
rule is what it reads and which revisions violate it: `"project"` rules read the
LaTeX files from disk, `"pdf"` rules the text extracted by the build stage,
`"layout"` rules (FMT-05) the PDF file as well. `tree` is the project directory:
its revision, the compiled PDF and the last log. PDF and log count in the source
hash, because `project_files` lists every file under the root.

`cache` maps the keys of the three cached stages to payloads; a key has the
parts that `CacheKeyParts` is given, and no others. `mem` holds the local
variables of `run`, `out` which run wrote each file of `--out` and what it says,
`pc` the next step. Stages are split where the code writes to disk or reads the
cancel flag: hash, look up, latexmk, put, stage file, check of the flag, and so
on, so that a crash, an input/output error, Ctrl+C or an edit can come between any two of
them. `Latexmk` and `Engine` are each one step: what they call runs to the end or
raises.

| Source | Definitions |
|---|---|
| `run` up to the first stage | `Launch`, `HashSource`, `ExtractOnly` |
| `_stage_build` | `BuildHit`, `BuildMiss`, `Latexmk`, `FailureFinding`, `PutBuild` |
| `_stage_formal`, `FormalEngine.run` | `Judged`, `FormalKey`, `FormalHit`, `FormalMiss`, `Engine`, `Verdicts`, `EngineFails`, `PutFormal` |
| `_stage_semantic` | `SemanticConfigError`, `SemanticSkip`, `SemanticHit`, `SemanticMiss` |
| exit code, `RunReport`, `publish_reports` | `ResolveExitCode`, `Accepted`, `RejectReport`, `PublishReport`, `PublishMarkdown`, `PublishSummary`, `WriteRunState` |
| `_canceled_report` | `CheckCanceled`, `WriteCanceled`, `WriteCanceledReport` |
| environment | `Edit`, `Clean`, `Sigint`, `Crash`, `RaiseError`, `LoseEntry` |

Runs do not overlap in `Pipeline`: it assumes the exclusion that `OutputLock` is
about, and a run after a crash is one that comes after the lock went stale.
`MCInputs` runs it beside a second instance of itself whose input is a single PDF
(`IsTex` false).

### FormalRules, FormalVerdict, FormalEngine

A rule is its index in the rubric; a *question* is one call of
`FormalEngine.run`: mode, context, and for each rule the situation the engine
meets it in (registered or not, the sources it requires, what `supports` says,
whether it raises, what it reports). `FormalRules` is `_evaluate_rule`: the order
of its early returns, the tool-error finding, the fingerprint and sort key.
`FormalEngine` is the call itself: `Begin`, then in sequential mode
`EvaluateNext` rule by rule; in parallel mode a thread for each rule, which ends at any
time (`Work`) and whose result the main thread takes in any order (`Take`), waiting
for all of them when one raised (`Leave`); and `Conclude`, which sorts. `FormalVerdict` answers every question in
one step with the sequential list. `Verdict == INSTANCE FormalVerdict` maps
`question` and `answer` to themselves, and `EngineIsVerdict` is `Verdict!Spec`.

### SemanticEngine

`SemanticEngine.run` walks the semantic rules in sorted order. For each it takes
a batch (none: the section is missing; `NothingToAsk`), makes a request (`Ask`, `Request`), and a second one when the
first answer is invalid for its batch (`Invalid`); inside a request `call_with_retry` makes
HTTP attempts. `pc` says which of these comes next, `elapsed` is the time since
the first attempt of the request, `held` the semaphore of the provider.
`Endpoint` is the environment: an attempt takes any of `Durations` and ends in
a timeout, a status with or without a `Retry-After`, a refused connection or any
answer that the response schema lets through. An answer is what the checks look
at: rule, status, whether its quotations stand in the batch, whether all elements
of the specification are answered.

### Includes, Documents, PageRoles, PdfText, Extraction

A LaTeX file is a sequence of lines that each hold one thing (text, heading,
`\input`, bibliography command, begin or end of a literal environment), possibly
behind a `%`. `stack` holds the calls of `_expand_file`; `Keep`, `Include` and
`Return` are its loop, with the cycle, root, encoding and existence checks in the
order the code makes them. From then on a text is a sequence of pieces, each with
its length in bytes and the kind of boundary that follows it. `ChunkNext` cuts
one chunk (budget, boundary, overlap), `FindForms` and `PlanBatches` decide what
may be sent to a model. A PDF page is a set of blocks with coordinates in
hundredths; what PyMuPDF does to find them is not in the model. `Includes` also
has the two other walks of the same files: that for bibliographies and that of the
formal rules (`LatexProjectReader`). `Reach` is what a file leads to and `IsSound`
says which projects can be extracted at all; neither is code, the traversal is
measured against them. `Only` and `Candidates` are the choices `plan` makes for a
specification, `Forms` the sections kept from a model.

What is assumed of an input (`SourcesAssumption`, `TitlesAssumption`): finitely many
files with finitely many lines; a word has a length, at most what fits behind the
overlap of a chunk; of a page (`IsPdf`), that its blocks are where PyMuPDF puts
them: no two at one place, and none thinner than four points, the slack within which
a block counts to both columns and would be read twice. `SpecsAssumption` is what
`RuleSpec.__post_init__` refuses to go without (`semantic/batching.py:36-50`).

### PdfLayout, FormatRules, ThesisText, ContentRules, Rules

Spans have a page, a box in half points, a font, a size, a number of characters,
a class of text and a rank, which is where font, size and text stand in the order
by which `_canonical_span_key` breaks a tie of page and box. Everything
`_pdf_metrics.py` computes from them (margins, what repeats in them, visual lines,
listings, tables, formulas, headings, the selection of body text, line spacing) is
an operator on a sequence of spans that names them by their places, and so is each
rule. A
LaTeX project is a sequence of items: what the patterns of the rules find in the
text, one after the other. `Rules` judges a submission with every rule
(`Judge`), changes it once (`Cite`, `Insert`, `Withdraw`, `Reorder`) and judges it
again: its properties compare the two verdicts.

### Setup, Submission, Command

`Setup` has what a command reads: configuration files that include others, the
profile, the rubric with its placeholders, arguments, and the resolution of
the language model from options, environment and configuration. `Submission` has
the tree of what was handed in (files, directories, links inside, outside and to
nowhere), which file of it is checked (`ResolveSubmission`), what `doctor` says
about it (`BundleProblems`) and what an extraction would say (`ExtractionErrors`),
each from its own code. `Command` runs them in the order of `cli.py`, one action
for each moment something on disk is read: labels, arguments and tree,
configuration again, hash, extraction. Between any two of them a configuration
file or a file of the tree may change. `Spread` is the least set of files closed
under a relation of includes; both the audit and the extraction are stated with it,
each with its own candidates for an include. `Shadowed` are the trees in which these
lists lead to different files.

## 3. Runs

Runs that pass:

| Run | Shows | Bounds |
|---|---|---|
| `lock_reclaim` | holders of the lock beyond the owner of the file are paid for by reclaims, one each; after any kill the directory is free again some day | 3 processes started over and over, runs of any length, 2 faults |
| `reporting` | `RunReport` refuses a report in one case only, a blocking build failure out of the cache; advice decides nothing; header and list are honest | a build run or restored, with each of its outcomes; every set of up to 2 formal and semantic findings; both modes and policies |
| `core` | no cached result gives a wrong verdict: no false pass, no false fail, same input same exit code | a LaTeX project or a PDF; 4 revisions, 5 rules, 3 fail-open runs, 2 edits, 2 crashes or lost entries (1 for a PDF) |
| `faults` | a pass without a PDF is labelled degraded, a fail-open run blames the thesis for no failing tool, a rule without a finding is accounted for in the same report, `report.json` is never older than what derives from it, Ctrl+C is honoured | 4 revisions (one without a PDF, one with an unreadable one), 6 requests, 2 runs, 1 edit, 1 fault of any of eight kinds |
| `engine` | the parallel engine implements the sequential verdict; a rule that raises never blocks a fail-open merge; every call ends | 4 rules, one of them for a model; all mixes of 6, 6 and 4 situations; two contexts; fail-open and fail-closed |
| `semantic` | each rule gets one explained finding, what a verdict quotes was sent, retries keep to the budget, every rule is answered | 4 rules (one unspecified, one without its section), 2 requests each, 3 attempts in a budget of 6 with attempts of 0, 2 and 9 |
| `extraction` | extraction succeeds exactly on sound projects; its readers agree; text is cut without loss; forms stay out of what is sent; batches keep the ends of sections; no step goes back | 3 files in every mix of 7 kinds of line; every text of up to 4 of 7 pieces and longer ones of 3 sections; PDFs of 2 pages, plain or forms, with titles that stand on their page or do not; specifications by section, by heading and for everything; a budget of 10 tokens |
| `rules` | what passes was looked at; the order of spans does not matter; less evidence only silences; a citation never costs; sections keep apart | projects of 10 sections with variations, with and without page numbers, PDFs of 2 and 3 pages of a few lines; one revision |
| `command` | a cloud provider is used only with consent; the summary names the profile the run read, and verdicts of another come only from the cache; `doctor` and run agree; a new file never means another thesis unnoticed | 327 submissions with 6 requests and 1 run; 15 configurations with 15 requests, or the 13 of them without `--profile`, and 2 runs; 1 edit |

Why the bounds are enough. Two findings in `reporting` beside that of the build: the
policy is a disjunction over single findings, and two cover one that blocks beside one
that does not (the theorems remove the bound). Three runs in `core` fill the cache,
change the project, come back and use each entry: a LaTeX run changes the tree it
hashes, so that the first entry that can be hit is that of the second run, and two
crashes stand before either. Four rules in `engine` cover a tie in the sort key,
one of the main thread's rules before and after a raising one, and a rule that is
not formal; the theorems remove the bound. In `semantic` one long attempt passes
the deadline, two short ones do not, and the rule after a failed one is there.
In `extraction` a cycle of two files, a file reached twice and three cuts in
one section fit; 10 tokens make the overlap one piece and the longest piece
longer than a chunk. A running header needs two pages and its threshold is
crossed with three.

Fairness. `lock_reclaim` assumes that a live process takes its next system call
and that time passes (`WF` of `Step` and `Tick`); nobody has to start a run.
`faults` assumes `WF(RunStep)`: a started run goes on, which a sequential program
whose child processes have a time limit does. `engine` assumes `WF` of the main
thread and of each thread of the pool: the interpreter schedules them, and a rule
that is evaluated ends (nothing else ends it: `rule_timeout_s` is not used).
`semantic` assumes `WF` of the engine and of the endpoint, whose attempts end
because the HTTP client has time limits. No fairness is asked of any fault, edit
or launch. `extraction` needs none: that every step goes forward (`OnlyForward`) is
an action property, from which termination follows.

Runs that end in a violation, each a disagreement between code and
documentation:

| Run | Property | What happens |
|---|---|---|
| `lock_three` | `MutualExclusion` | A releases between B's `exists()` and `stat()`: B takes the missing file for stale and unlinks C's fresh one. B and C both hold the lock (`cache.py:198-206`). |
| `rules_section` | `OnlyItsOwnSection` | a rule about the section "as is" is judged on the body of an earlier section whose heading contains these words (`rules/latex_source.py:96`); `docs/formal-engine.md:167` says other sections are ignored |
| `command_cache` | `VerdictIsOfThisRun` | two runs over one directory with different main files: the second takes the verdict of the first from the cache, whose key does not name the file, nor the profile (`orchestrator.py:128-134`) |

Counterexamples run by hand. These configurations are kept beside the others;
each ends in the violation of its only property (`tlc -config X.cfg MCPipeline`, or
`MCExtraction` for the last one):

| Configuration | Property | What happens |
|---|---|---|
| `Pipeline_final.cfg` | `FinalSeverityApplied` | the key of the formal stage does not contain `--final` (`orchestrator.py:562`): after a draft run the `--final` run reports draft severities; `docs/cli.md:93` says they are raised |
| `Pipeline_only.cfg` | `EveryRuleJudged` | nor `--only`: a full run after `--only SYS-01` reports on SYS-01 alone, and passes |
| `Pipeline_sigint.cfg` | `EveryRuleJudged` | Ctrl+C just before the engine: "run canceled" is cached as the result of the formal stage and used by later runs (`orchestrator.py:590`) |
| `Pipeline_refused.cfg` | `ReportAlwaysPublished` | after a fail-closed run, a fail-open one takes a blocking build finding from the cache with exit code 0; `RunReport` refuses the pair and nothing is published (`docs/cli.md:137` says a report always is) |
| `Extraction_comment.cfg` | `OnlyCommentsAreRemoved` | a commented `\begin{verbatim}` protects everything to the next `\end{verbatim}`, or the end of the file (`extract/latex.py:46`): an `\input` after it is not followed |

Where the passing properties stop, in the model as in the code.

- `SameInputSameVerdict` is checked for fail-open runs, because a build stage
  taken from the cache does not restore the internal error of a failed
  fail-closed build (first run 4, next run 2). `RefusedForARestoredBuildOnly` is the
  same gap seen by the validator of `RunReport`: it states when a report is refused,
  not that none is.
- `NoFalsePass` is checked where the PDF survives between runs: with the cache
  restored into a clean checkout (`Clean`) FMT-05 no longer sees the images.
  `NoFalsePass` and `NoFalseFail` need a project that is not edited during a run: it
  is hashed once and read by every stage.
- `GapsAreExplained` lets the one finding of a failed engine stand for all rules, and
  "run canceled" is such a finding: what `Pipeline_sigint.cfg` shows is not excluded
  by it. `EveryRuleJudged`, which excludes it, does not hold of the code and is run by
  hand. It is about requests for all rules; with `--only` see `Pipeline_only.cfg`.
- `SummaryFitsRun`: the profile in the summary is that of the settings the run read.
  No cache key holds it, nor the files a configuration includes
  (`orchestrator.py:129-134`, `:561-568`), so that the findings below may have been
  chosen by another one: run with `--profile software`, then with `--profile
  research`. The property says that this comes from the cache only, and only where a
  command names a profile or something was edited.
- `OnlyWithConsent` goes by the provider's name, as `llm/config.py` does. A provider
  called local may have an `LLM_BASE_URL` elsewhere (`llm/config.py:48`); addresses are
  not in the model.
- `LessEvidenceOnlySilences` names two exceptions. The typography of a LaTeX project
  without a PDF is left to its class file, so what only the PDF showed is forgiven.
  And STR-04, other than STR-03, passes sections whose pages it does not know
  (`rules/structure.py:216-240`). The second is one of the rule as written: the
  extractor of LaTeX projects gives a bundle no pages, only `extract/pdf.py` does, and
  the tests add them by hand (`tests/integration/test_latex_rules.py:135-178`), so a run of
  the program meets STR-03 as unverifiable or not applicable, and STR-04 as passed or
  not applicable. The model has bundles with pages and without.
- `PassIsMeasured` is no proof of good typography: listings, tables and formulas may
  have any font, text that stands on two pages goes for a running header wherever it
  is, and a page taken for marginalia as a whole is not caught.
- `VerdictsAreGrounded`: quotations are exact where there are any; an answer that
  quotes nothing is accepted, as in the code.
- `ReadersAgree` leaves out working directories that hold a file of an included name:
  the extraction finds it there, the formal rules do not.
- `FormsStayOut` lets section titles pass: a chunk found by its heading is labelled
  with the first page of its section, and where the outline names a title that its
  page does not show, `_heading_chunk` finds these words on a later page, which may be
  a form (`semantic/batching.py:170-189`).
- `BatchesKeepSections` says that addresses differ *unless a title says so*: a heading
  "Document preamble" has the address `document-preamble` of the text before the first
  heading.
- `DoctorAgreesWithRun` names what the audit does not look for (`OutOfTheAudit`):
  nested includes relative to the root, includes named by a macro, cycles, links to
  nowhere.
- `NeverAnotherThesis` excepts a new `main.tex` at the top, which goes before any
  other file, and a thesis found as the target of a `main.pdf`, which comes after any
  other.
- `SectionsKeepApart` is about headings of which none contains another's title,
  literal ones included, as `section_body` counts them.
- `VerdictIsOfThisRun` is violated by a second main file, and by an edit of an included
  configuration file or another `--profile` as well (`orchestrator.py:129`).

Two small things of the code are left out: a `.bib` file that cannot be read
(`rules/bib_parser.py:150`) makes its rules fail with a tool error, which is in
`FormalEngine` and not in `ContentRules`; and a document has one monospaced font, so
that a line of it is one whose dominant font it is (`_pdf_metrics.py:468`).

## 4. Proofs

TLC checks small instances; the following hold for every value of the constants.

`OutputLockProofs`, from `ProcAssumption` (finitely many processes),
`StaleAssumption` and the bounds:

- `IInvariant`: `Spec => []IInv`. `IInv` is the type invariant, `held` exactly
  while running, and the count `|Holders| <= files + reclaims`. The second part
  is needed because only it makes a `Release` that removes the file also remove a
  holder; the third is then kept by `Create` (one holder, one file more), by
  `Unlink` (one file less, one reclaim more) and by `Release`.
- `HoldersBounded`: its third conjunct.
- `ExclusiveUntilReclaim`: as long as nothing was reclaimed there is at most one
  holder. This is the part of "exclusive lock" that the code does keep, for any
  number of processes and runs of any length.

`ReportingProofs`, for any set of checks and any bound on findings: `IInvariant`
(type, the report in the file is a function of the collected findings, the exit
code fits the gate). Its last conjunct, `BuildAnswersForItself`, is what the others
need of the build stage: a finding of it that blocks belongs to a run that is an
internal error, unless it was restored. From it follow `RefusedExactlyThen`, in both
directions (`RefusedForARestoredBuildOnly`), `CountersDecide` (a counter is positive
exactly if a finding of its kind exists, by finiteness), `AdvisoryLayersIgnored`,
`AdvisoryVisible`, `LabelFitsExit` and `DecidersListed`.

`PipelineProofs`, for every project, rubric, set of requests and number of runs,
edits and faults: `IInvariant`, `Spec => []IInv`, and three results from it.

- `FailOpenNeverFails`: where every request is fail-open, no run ends with an
  internal error. The exit code is that of the formal findings alone, while
  `RunReport` looks at those of all stages; so the invariant has to say that
  what the build and semantic stages report cannot block, in this run
  (`mem.found`) and in every cache entry a later run may take it from
  (`HarmlessStages`). `HarmlessAccepted` is the lemma that joins the two copies
  of the policy.
- `FailOpenReportAccepted`: `RunReport` accepts the exit code of such a run.
  `Pipeline_refused.cfg` shows that one fail-closed request is enough to lose this.
- `ReportIsNewest` (`ReportNeverOlder`): wherever runs are interrupted, the files
  derived from `report.json` are never newer than it. `ReportInOrder` strengthens
  it with the position of the run: before publication the report is of an earlier
  run, during it of this one and equal to what the summary is going to be.

The assumptions are those that `Pipeline` names: revisions are positive numbers,
`SYS-03` is a rule, requests are well-formed, bounds are numbers. The steps of
type correctness (`BuildStep`, `FormalStep` and so on) have one case for each action.

The second half of `PipelineProofs`, from the same assumptions and for every project,
rubric and number of runs, edits and faults, says when a verdict is right although it
may come out of a cache. The first three theorems name what they need of the setting:

- `GapsExplained` (`GapsAreExplained`), where every request asks for all rules
  (`EveryRuleAsked`): a run with `--only` stores its findings under the key of a run
  without it, which `Pipeline_only.cfg` shows to lose this. Nothing else is asked:
  engines may fail, signals come, entries get lost. `CoverInv` says of each formal
  entry that it leaves out nothing but SYS-03, and that only if its key says that
  latexmk is missing, or that it is the finding of a failed engine under the policy in
  its key (`Covers`); and of each build, cached or not, that a missing latexmk is among
  its findings (`Reported`). So it matters that both are parts of the key.
- `NoFailIsFalse`, where nobody edits during a run (`Nobody`): a full, fail-open run
  fails no rule that the revision at hand does not violate. The key of a formal
  entry holds the PDF as it was at the hash, but the rules read the PDF that the
  build stage answers, and that may be a cached one. `FilesInv` therefore follows
  files by the run that wrote them: the PDF of another revision, once latexmk has
  replaced it, never lies there again (`Replaced`), because runs are numbered.
  `GivenInv` draws from it that the rules are given the hashed revision, and
  `FailInv` that entries and findings blame no other. `NoFailIsEverFalse` is the
  same for settings in which every request is fail-open (`NoFalseFail`).
- `NoPassIsFalse`, in the `Steady` setting: a full run that publishes a pass has
  looked at the project as it is. In `Steady` nobody edits during a run, no PDF is
  removed behind the program's back, and no request has `--only` or `--final`; TLC
  finds `NoFalsePass` violated without any one of the four. Crashes, signals, lost
  cache entries, failing tools and fail-closed requests are all allowed. `LogInv`
  (logs only get newer) tells a tree before its build from one after it; with it
  `BuiltInv` says what a build without complaint stands for, cached or not,
  `AtHandInv` that the PDF judged is the one that lies there, and `PassInv` that
  findings of a whole view of a revision tell its violations.

- `NoSilenceWithoutPdf` (`NoPdfIsDegraded`), without any hypothesis: a full LaTeX
  run that had no PDF never publishes a success that does not call itself degraded.
  `SaidInv` says that the build has put this into its findings or its meta, in this
  run and in every entry it may be taken from; `PublishedIsAccepted`, that a finding
  which blocks does not pass as a success.

Each step of these invariants first sets aside the actions that pass findings on
unchanged (`StepCases`, `PassingOn`), then has one case for each of the others.

`SameInputSameExit` (`SameInputSameVerdict`) is proved in the
`Reproducible` setting: the steady one, all runs fail-open, and no failing tool,
rule or engine and no signal, but any number of killed runs, errors of the file
system, lost entries and edits between runs. Two runs are compared through what
both owe to their hash and request: `DueExit` is the exit code as a function of the
two. `BuildInv` says that each build, cached or not, came to the PDF it must come to
up to the run that made it, `DueInv` that each formal entry holds the `Judgement` of
the revision and the PDF in its key, and `SeenInv` that every run so far ended with
`DueExit`. Two lemmas carry the argument: `VerdictsAreDue` (what the engine answers,
although SYS-03 runs latexmk once more before the metrics look at the PDF) and
`JudgedAlike` (which run made a PDF does not matter). That RunReport never refuses
such a run is taken from `IInv`.

`FormalEngineProofs`, for any rubric, any set of questions and any number of
threads (`RubricAssumption`, `AskAssumption`):

- `IInvariant`. Beside types, `CollectedOnce` (what is collected are the items of
  the rules that were taken, each once), `RaisedIffRuleRaises` and `MainInOrder`
  (where the main thread stands bounds what can have been taken). The refinement
  needs all three: the answer is a sort of what was collected, and only that the
  collection is the right set, without repetition, makes it the abstract one.
- `EngineRefinesVerdict`: `Spec => Verdict!Spec`. The sort is treated through
  ranks: the place of an item is the number of items before it under
  `SortKeyLess`, which is a strict total order on the items of a question, so
  that the order of collection drops out.
- `AnsweredAlways` and `CrashesNeverBlock`.

`SemanticEngineProofs`, for any number of rules, any retry policy, endpoint and
`Retry-After` (`SemanticAssumption`): `IInvariant`, whose strengthening
`StepInOrder` says which rule can be where (who may be asked, how often, who holds
the semaphore, which reason is due), and from it `ReportIsComplete`,
`VerdictsGrounded` and `RetriesInBudget`.

`CommandProofs`, for any scenes, rubric and number of edits (`ScenesAssumption`: the
trees and edits are those of a file system). `RunHoldsTogether` is the invariant: at
each step, what the run works on was permitted by the setup it read before
(`Phases`), the rubric has the profile of the configuration and the published header
has it too (`OneProfile`), so that the summary is of the settings
(`SummaryOfSettings`), and until the first edit all of it is about the tree the run
began with (`ThisTree`).

- `ConsentIsNeeded` (`OnlyWithConsent`) follows from it.
- `SummaryNamesItsProfile` (`SummaryFitsRun`) needs one invariant more, about the cache
  as well as the run: as long as nothing is edited and no command names a profile,
  every verdict, stored or at hand, was judged by the one profile that the
  configuration names (`OneRubric`); and a verdict that is not from the cache was
  always judged by the settings of its run.
- `DoctorAndRunAgree` (`DoctorAgreesWithRun`): the audit and the extraction resolve
  includes by two copies of a candidate list. The proof shows that without shadowed
  includes both reach the same files, by two inclusions of least closed sets
  (`SpreadLeast`), and that each error of one is a problem of the other.
- `AddingChoosesNoOther` (`NeverAnotherThesis`): an action property; a file that is
  added only adds candidates, and a choice among several is refused.

`ExtractionProofs`, for any project of any size, any PDF that satisfies `IsPdf`, any
budget, titles and specifications:

- `ExpansionIsSound` (`TraversalIsSound`): a project is extracted exactly if it is
  sound, and then what was read is what is reached. The invariant
  (`ExpansionKeepsItsCalls`) says of each call on the stack that all its passed lines
  lead to has been read and is sound; a call that returns makes its file sound
  (`SoundByInputs`: a file whose inputs are sound and do not lead back to it).
- `TextStaysWhole` (`TextIsWhole`): sections tile the text, chunks restore it inside
  their sections and keep to the budget, no block of a page is lost or read twice.
  The functions of `Documents` recurse over numbers, so that they can be reasoned
  about: `Recursion` turns such a definition into its equations and `Upwards` is
  induction over the numbers up to a bound, from the least counterexample
  (`LeastOfNat`). With them: the bytes before a piece grow, headings that are placed and
  deduplicated rise, and so the sections tile (`DetectTiles`); a chunk ends behind
  its beginning and within the budget (`ChunkFits`). For pages, the order of blocks
  is a list of each block once because ranks differ (`SortedLists`).
- `AlwaysForward` (`OnlyForward`): for the expansion the measure is the sequence of
  lines of the calls, of which there are at most as many as files (`CallsAreFew`).
- `ReadersDoAgree` (`ReadersAgree`): the extraction walks with a stack of calls, the
  formal rules and the search for bibliographies by recursion. The proof puts one
  walk beside them, a text for each file below each set of files (`Walk`). It exists
  (`WalkExists`: rounds of it settle) and is the only one (`WalkIsOnly`), since each
  file entered is one more of finitely many (`DownTheFiles`); both recursions are this
  walk. The invariant (`ExpansionReadsInOrder`) says of each call on the stack that
  its text is that of the calls above it and of the lines it has passed, so the text
  of the first is the walk's when it returns.
- `FormsAreKeptOut` (`FormsStayOut`) and `BatchesKeepEnds` (`BatchesKeepSections`),
  from `PlanningKeepsToTheDocument`: what is planned is a choice from candidates
  (`OnlyIs`, `PlanIs`) whose pages are those of the text (`PageRangeIs`); first and
  last chunk of a section survive the choice; two sections with one base differ in
  their serial number (`SerialIs`).

`RulesProofs`, for every set of submissions, keys and objects, whatever the text, the
titles, the spans and the .bib files. `SubmissionsAssumption` says what every reader
of the code yields: a text is a sequence of items whose headings have titles the
extractor knows a kind for, word counts and character counts are numbers, the keys of
a command and the pages of a PDF are finitely many, and two spans of one rank have one
font, size and text; an object that is put into the text is no heading, and a PDF
stays one when its spans come in another order. `MinimaAssumption`: the two minima of the rubric are numbers.

- `VerdictsAreOfTheirText` is the invariant: both submissions are well-formed, the
  verdicts are those of the rules on them, and the second is the first but for the
  revision. The properties below compare what the rules say of two texts.
- `LessEvidenceIsQuieter` (`LessEvidenceOnlySilences`): rule by rule, from what it reads.
  One that asks the class alone has nothing to say without it (`ClassIsSilent`), one
  that joins it with the source or the PDF falls back to these, the two rules about pages
  ask for them first (`WithoutPages`), and the rest do not read what was taken
  (`RestIsSame`).
- `WhatPassesIsMeasured` (`PassIsMeasured`): body text is a part of the measured spans, a
  sum over more spans is no smaller (`CharsGrow`), and an outlier beyond the margins has
  been compared with every page.
- `CitingIsFree` (`CitationNeverCosts`) follows a citation through the text. `Grown` says
  the new text is the old one but for one place, and `Place` where each place of the old
  one is in the new: they keep their order (`PlaceIs`). So the first heading of
  the review, the next `\section` and the ends of paragraphs move with them (`SectionMoves`,
  `ParagraphsGain`), and what lies between two of them is what it was or has gained the key
  (`PartStays`, `PartGains`). A key more (`KeysGain`) weighs 300 words, and a
  citation has at most two (`WordsGain`), so REV-07 does not turn against it.
- `SectionsAreApart` (`SectionsKeepApart`): the headings of the text are what they were
  (`SectionsStay`); if the object stood between the first heading that contains the title
  and the next `\section`, that heading would be the last before it, and so its title one
  of the rule's or overlapping it (`SectionStays`). The verdicts of the eight rules are
  functions of these two things.

- `OrderIsNoEvidence` (`OrderDoesNotMatter`) is the case of the run's reorderings of
  `SpansInAnyOrder`: under any permutation of the spans (`Shuffled`) the verdicts are the
  same. Each operator of `PdfLayout` that returns places returns those of the same spans
  in the other order (`Back`), and each that returns a number or an answer returns the
  same one. The sums and the medians are over the same values (`CharsBack`,
  `MedianBack`). Visual lines are the hard part, since a span joins a line by those
  before it and a sort keeps spans of equal key in the order they came in. Spans of equal
  key have one height and one size (`KeyTells`), so they are neighbours in the order and
  in one line (`TiesTogether`); the lines are settled by the sequence of keys, which is
  the same in both orders (`SameKeys`, `BesideInAnyOrder`), so each line is the same
  spans again (`LinesBack`). What is set apart is read off the lines (`ListingBack`,
  `TableBack`, `FormulaBack`, `HeadingBack`, `CaptionBack`), the body is the rest
  (`SelectionBack`), and no rule reads the spans but through these.

The order theorem corrected the model: it could not be proved while `Before` compared
page and box alone (the code goes on to font, size and text), nor while the starts of a
table row were a set (the code counts two cells that begin at one place twice).

Only model-checked: liveness (`NotLockedOut`, `CancelHonoured`, `EveryCallEnds`,
`EveryRuleAnswered`), which needs ENABLED.

## 5. Plan

Done: everything in the table of modules.

Next, in this order:

1. `StageCache`: `get` and `put` file by file (temporary file, rename, corrupt
   JSON), refining a register for each key; `Pipeline`'s cache is that register.
2. `CiComment`: create-or-update of the pull-request comment by concurrent
   workflows.
3. `SharedOut`: `OutputLock` composed with publication, to say what two holders
   of the lock do to one another's files.
4. Evaluation metrics against their definitions.

## 6. Not modelled

Text processing is abstracted to what it decides: the regular expressions that
find items in LaTeX and anchors in pages, fingerprints, redaction, rendering of
console and Markdown. Left out as a whole: ChkTeX's parser (its warnings become
findings one to one and decide nothing), the wording of semantic rules and
prompts, the Yandex wire format, logging, the decoding of latexmk's output, the
layout of cache files, archives and file sizes of a submission, the evaluation
of a labelled set (one pass of arithmetic with no state), and the scripts,
workflows and demo beside the program. The components table of `PROJECT.json`
names each part with the reason.
