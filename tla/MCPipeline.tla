----------------------------- MODULE MCPipeline -----------------------------
(***************************************************************************)
(* Instances of Pipeline for TLC: six revisions of a thesis and five       *)
(* rules, one for each way a rule reads its input.                         *)
(*                                                                         *)
(*   1  in order, ANN-03 apart        4  does not compile                 *)
(*   2  FMT-05 (layout): an image      5  compiles to no PDF               *)
(*      in the margin                  6  compiles to an unreadable PDF    *)
(*   3  SYS-01 (project) and FMT-03 (pdf) violated                         *)
(***************************************************************************)
EXTENDS Pipeline

MCRule == {"SYS-01", "SYS-03", "FMT-03", "FMT-05", "ANN-03"}

MCSeverity == [r \in MCRule |-> IF r = "ANN-03" THEN "warn" ELSE "error"]

MCReads == [r \in MCRule |->
    CASE r = "FMT-03" -> "pdf" [] r = "FMT-05" -> "layout" [] OTHER -> "project"]

MCViolates == [r \in MCRule |-> Source \cap
    (CASE r \in {"SYS-01", "FMT-03"} -> {3} [] r = "FMT-05" -> {2}
       [] r = "ANN-03" -> {1} [] OTHER -> {})]

MCBib == [s \in Source |-> IF s = 3 THEN 2 ELSE 1]

Full == [failClosed |-> FALSE, mode |-> "strict", final |-> FALSE,
         stages |-> Stage, rules |-> MCRule \cup {"GEN-01"}, llm |-> "none"]

WithLlm == [Full EXCEPT !.llm = "ok", !.mode = "advisory"]
BadLlm == [Full EXCEPT !.llm = "bad"]
FormalOnly == [Full EXCEPT !.stages = {"formal", "aggregate"}]
NoAggregate == [Full EXCEPT !.stages = {"build", "formal"}]
FullClosed == [Full EXCEPT !.failClosed = TRUE]
FullFinal == [Full EXCEPT !.final = TRUE]
OnlySys == [Full EXCEPT !.rules = {"SYS-01"}]

CoreRequests == {Full, FormalOnly}
ToolRequests == {Full, FullClosed}
FaultRequests == {Full, FullClosed, FormalOnly, WithLlm, BadLlm, NoAggregate}

\* One more request than Full, for each question a run asks of the cache.
FinalRequests == {Full, FullFinal}
OnlyRequests == {Full, OnlySys}
FullRequests == {Full}
=============================================================================
