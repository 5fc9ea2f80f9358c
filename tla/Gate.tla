-------------------------------- MODULE Gate --------------------------------
(***************************************************************************)
(* The merge gate policy, as three places of the code state it on their    *)
(* own: rules/gate.py decides the exit code, the validator of RunReport in *)
(* domain.py accepts or rejects it, and reporting/json_report.py counts    *)
(* findings and derives the labels of the published header.                *)
(*                                                                         *)
(* A finding is the part of domain.Finding that decides anything: the rule *)
(* or check it came from, its layer, severity, status, and whether its     *)
(* message asks for an approval.                                           *)
(***************************************************************************)
EXTENDS Naturals, FiniteSets

Layers == {"class", "script", "class+script", "llm", "vision"}
Severities == {"info", "warn", "error"}
Statuses == {"pass", "fail", "warn", "info", "not_applicable",
             "unverifiable", "skipped"}
Modes == {"strict", "advisory"}
ExitCodes == {"SUCCESS", "FORMAL_FAILURE", "CONFIG_ERROR", "INTERNAL_ERROR"}
GateStatuses == {"pass", "fail", "error", "degraded"}

FormalLayers == {"class", "script", "class+script"}
AdvisoryLayers == {"llm", "vision"}

\* Finding.prevent_advisory_failure: what a finding of an advisory layer may be.
AdvisoryStatuses == {"warn", "info", "not_applicable", "unverifiable"}

\* The findings the model of domain.py lets anybody construct.
FindingOf(Id) ==
    {f \in [id : Id, layer : Layers, severity : Severities,
            status : Statuses, approval : BOOLEAN] :
        f.layer \in AdvisoryLayers => f.status \in AdvisoryStatuses}

-----------------------------------------------------------------------------
(* rules/gate.py                                                           *)

\* Faulty variant: the layer of a finding is not looked at.
BlocksAnyLayer(f, mode) ==
    /\ f.severity = "error"
    /\ f.status = "fail" \/ (mode = "strict" /\ f.status = "unverifiable")

FindingBlocksMerge(f, mode) ==
    /\ f.layer \in FormalLayers
    /\ f.severity = "error"
    /\ f.status = "fail" \/ (mode = "strict" /\ f.status = "unverifiable")

FindingIsBlockingUnverifiable(f) ==
    /\ f.layer \in FormalLayers
    /\ f.severity = "error"
    /\ f.status = "unverifiable"

BlocksMerge(findings, mode) == \E f \in findings : FindingBlocksMerge(f, mode)

SuppressedUnverifiable(findings, mode) ==
    IF mode = "strict" THEN {}
    ELSE {f \in findings : FindingIsBlockingUnverifiable(f)}

FormalExitCode(findings, mode) ==
    IF BlocksMerge(findings, mode) THEN "FORMAL_FAILURE" ELSE "SUCCESS"

-----------------------------------------------------------------------------
(* domain.py: RunReport.validate_exit_code, with its own copy of the policy *)

BlockingStatuses(mode) ==
    IF mode = "strict" THEN {"fail", "unverifiable"} ELSE {"fail"}

HasBlockingFormalFinding(findings, mode) ==
    \E f \in findings :
        /\ f.layer \in {"class", "script", "class+script"}
        /\ f.severity = "error"
        /\ f.status \in BlockingStatuses(mode)

ValidExitCode(findings, mode, exit) ==
    \/ exit \in {"CONFIG_ERROR", "INTERNAL_ERROR"}
    \/ HasBlockingFormalFinding(findings, mode) <=> exit = "FORMAL_FAILURE"

-----------------------------------------------------------------------------
(* reporting/json_report.py                                                *)

FormalErrors(findings) ==
    {f \in findings : /\ f.layer \in FormalLayers
                      /\ f.severity = "error"
                      /\ f.status = "fail"}

BlockingUnverifiable(findings) ==
    {f \in findings : f.status = "unverifiable" /\ FindingIsBlockingUnverifiable(f)}

CountFindings(findings) ==
    [formal_errors |-> Cardinality(FormalErrors(findings)),
     blocking_unverifiable |-> Cardinality(BlockingUnverifiable(findings))]

\* Faulty variant: a suppressed incomplete check leaves the status at "pass".
StatusWithoutDegraded(findings, mode, exit) ==
    IF exit = "FORMAL_FAILURE" \/ BlocksMerge(findings, mode) THEN "fail"
    ELSE IF exit \in {"CONFIG_ERROR", "INTERNAL_ERROR"} THEN "error"
    ELSE "pass"

GateStatusFor(findings, mode, exit) ==
    IF exit = "FORMAL_FAILURE" \/ BlocksMerge(findings, mode) THEN "fail"
    ELSE IF exit \in {"CONFIG_ERROR", "INTERNAL_ERROR"} THEN "error"
    ELSE IF mode = "advisory" /\ SuppressedUnverifiable(findings, mode) # {}
      THEN "degraded"
    ELSE "pass"

HeaderDegraded(findings, metaDegraded) ==
    metaDegraded \/ CountFindings(findings).blocking_unverifiable > 0

PublishedFindings(findings) ==
    {f \in findings :
        f.status \notin {"pass", "skipped", "not_applicable"} \/ f.approval}
=============================================================================
