-------------------------------- MODULE Setup --------------------------------
(***************************************************************************)
(* What a command is run with: the configuration file and the files it     *)
(* includes (rubric/loader.py), the rubric expanded for a profile          *)
(* (rubric/expansion.py, profiles.py), the arguments (cli.py,              *)
(* run_context.py) and the language model (llm/config.py).                 *)
(*                                                                         *)
(* A configuration is a function from dotted keys to values, so that       *)
(* merging nested mappings is merging functions; YAML booleans are the     *)
(* strings "true" and "false".  A result is a record with `ok`.            *)
(***************************************************************************)
EXTENDS Sequences, SequencesExt, FiniteSets, TLC

CONSTANTS
    WorkProfile,   \* the work profiles
    DisabledFor    \* _DISABLED_PREFIXES: profile -> prefixes of its disabled rules

Absent == "absent"    \* an option or a variable that is not given

Refused == [ok |-> FALSE]

\* An entry of a mapping, or a default when it has none.
ValueOf(mapping, key, default) ==
    IF key \in DOMAIN mapping THEN mapping[key] ELSE default

\* `or`: the first of the values that is given and not empty.
FirstGiven(values) ==
    LET given == SelectSeq(values, LAMBDA v : v \notin {Absent, ""})
    IN IF given = <<>> THEN Absent ELSE Head(given)

-----------------------------------------------------------------------------
(* The configuration.  disk[f] is the content of the file f: whether it can *)
(* be read as a mapping, the files it includes, in order, and its own keys.*)

\* _merge: the keys of the overlay win.
Merge(base, overlay) == overlay @@ base

\* _resolve_config: the included files in order, then the file's own keys; a
\* file that includes itself, through whatever chain, is refused.
ResolveConfig(disk, path) ==
    LET Resolved[f \in DOMAIN disk, chain \in SUBSET DOMAIN disk] ==
            IF f \in chain \/ ~disk[f].readable THEN Refused
            ELSE LET included == [i \in DOMAIN disk[f].include |->
                                    Resolved[disk[f].include[i], chain \cup {f}]]
                 IN IF \E i \in DOMAIN included : ~included[i].ok THEN Refused
                    ELSE [ok |-> TRUE,
                          values |-> Merge(FoldLeft(LAMBDA merged, r : Merge(merged, r.values),
                                                    <<>>, included),
                                           disk[f].values)]
    IN Resolved[path, {}]

\* What the schema allows a key to have; any other key is refused.
AllowedValues ==
    [work_profile |-> WorkProfile,
     gate_mode |-> {"strict", "advisory"},
     approved |-> {"yes", "no"},              \* approved_params names the parameter
     param |-> {"default", "override"},       \* params overrides it
     provider |-> {"disabled", "ollama", "yandex", "bogus"},
     cloud |-> {"true", "false"}]

\* load_config: a work profile must be chosen; the others have defaults.
LoadConfig(disk, path) ==
    LET resolved == ResolveConfig(disk, path) IN
    IF /\ resolved.ok
       /\ "work_profile" \in DOMAIN resolved.values
       /\ \A k \in DOMAIN resolved.values :
             k \in DOMAIN AllowedValues /\ resolved.values[k] \in AllowedValues[k]
    THEN [ok |-> TRUE,
          work_profile |-> resolved.values["work_profile"],
          gate_mode |-> ValueOf(resolved.values, "gate_mode", "strict"),
          approved |-> ValueOf(resolved.values, "approved", "no"),
          param |-> ValueOf(resolved.values, "param", "default"),
          provider |-> ValueOf(resolved.values, "provider", "disabled"),
          cloud |-> ValueOf(resolved.values, "cloud", "false")]
    ELSE Refused

\* --profile over the configuration; an unknown one is refused.
WithProfile(config, profile) ==
    IF profile = Absent THEN config
    ELSE IF profile \in WorkProfile THEN [config EXCEPT !.work_profile = profile]
    ELSE Refused

-----------------------------------------------------------------------------
(* The rubric: its rules, the prefix of each and whether its text holds a  *)
(* placeholder the parameters know, one they do not know, or none.         *)

RuleEnabled(prefix, profile) == prefix \notin DisabledFor[profile]

\* expand_rubric: every placeholder must be a parameter and every parameter
\* must be used.  Only an approved value is put in the text of a rule; the
\* checks read the override itself, approved or not.
ExpandRubric(rubric, config) ==
    IF \/ \E r \in DOMAIN rubric : rubric[r].placeholder = "unknown"
       \/ \A r \in DOMAIN rubric : rubric[r].placeholder # "known"
    THEN Refused
    ELSE [ok |-> TRUE,
          profile |-> config.work_profile,
          rules |-> {r \in DOMAIN rubric : RuleEnabled(rubric[r].prefix, config.work_profile)},
          text |-> IF config.approved = "yes" THEN config.param ELSE "placeholder",
          measure |-> config.param]

\* _load_config_and_rubric
LoadConfigAndRubric(disk, path, rubric, profile) ==
    LET config == LoadConfig(disk, path) IN
    IF ~config.ok \/ ~WithProfile(config, profile).ok THEN Refused
    ELSE LET chosen == WithProfile(config, profile)
             effective == ExpandRubric(rubric, chosen)
         IN IF effective.ok THEN [ok |-> TRUE, config |-> chosen, rubric |-> effective]
            ELSE Refused

-----------------------------------------------------------------------------
(* The arguments. *)

StageNames == {"build", "formal", "semantic", "aggregate"}

\* parse_only and parse_gate_mode: an unknown stage or rule, or gate mode.
ArgumentsAreKnown(request) ==
    /\ request.only \subseteq StageNames \cup {"rule"}
    /\ request.gate_mode \in {Absent, "strict", "advisory"}

\* OnlyFilter.includes_stage: all of them unless some are named.
IncludesStage(request, stage) ==
    \/ request.only \cap StageNames = {}
    \/ stage \in request.only

-----------------------------------------------------------------------------
(* The language model. *)

True == {"1", "true", "yes", "on"}
False == {"0", "false", "no", "off", ""}

\* The variable that decides about the cloud: ALLOW_CLOUD_DATA if it is set at
\* all, else LLM_ALLOW_CLOUD_DATA.
CloudVariable(environ) ==
    ValueOf(environ, "ALLOW_CLOUD_DATA", ValueOf(environ, "LLM_ALLOW_CLOUD_DATA", Absent))

\* Faulty variant: consent anywhere is consent.
CloudAllowedAnywhere(environ, config) ==
    CloudVariable(environ) \in True \/ config.cloud = "true"

\* allow_cloud_data: a variable that is set decides, the configuration else.
CloudAllowed(environ, config) ==
    IF CloudVariable(environ) = Absent THEN config.cloud = "true"
    ELSE CloudVariable(environ) \in True

\* The provider asked for: --no-llm, the option, the environment, the
\* configuration.
ProviderAsked(environ, config, request) ==
    IF request.no_llm THEN "disabled"
    ELSE FirstGiven(<<request.provider, ValueOf(environ, "LLM_PROVIDER", Absent),
                      config.provider>>)

\* load_llm_config and LlmConfig.validate_profile.  No configuration here names
\* a model, which the code would take last.  LLM_TIMEOUT stands for all the
\* numbers of the environment.  The address of a provider (base_url) is left out:
\* "ollama" is the provider of that name, wherever LLM_BASE_URL says it is.
LoadLlmConfig(environ, config, request) ==
    LET provider == ProviderAsked(environ, config, request)
        key == ValueOf(environ, "LLM_API_KEY", "")
        model == FirstGiven(<<request.model, ValueOf(environ, "LLM_MODEL", Absent)>>)
    IN IF provider = "disabled" THEN [ok |-> TRUE, provider |-> provider, model |-> "none"]
       ELSE IF \/ provider \notin {"ollama", "yandex"}
               \/ CloudVariable(environ) \notin True \cup False \cup {Absent}
               \/ ValueOf(environ, "LLM_TIMEOUT", "number") # "number"
               \/ provider = "yandex" /\ (key = "" \/ model = Absent)
               \/ provider = "yandex" /\ ~CloudAllowed(environ, config)
       THEN Refused
       ELSE [ok |-> TRUE, provider |-> provider,
             model |-> IF model = Absent THEN "qwen" ELSE model]
=============================================================================
