------------------------------- MODULE MCInputs -------------------------------
(***************************************************************************)
(* Pipeline for both kinds of input, one chosen at the start: a LaTeX      *)
(* project (IsTex of the configuration), or a single PDF, of which the     *)
(* revisions LaTeX would not compile cannot be read.                       *)
(***************************************************************************)
EXTENDS MCPipeline

MaxPdfFaults == 1     \* bound: a PDF run leaves less behind than latexmk does

VARIABLE input

Pdf == INSTANCE Pipeline WITH IsTex <- FALSE, BadPdf <- Broken, MaxFaults <- MaxPdfFaults

InputsInit == Init /\ input \in {"latex", "pdf"}

InputsNext ==
    \/ input = "latex" /\ Next /\ UNCHANGED input
    \/ input = "pdf" /\ Pdf!Next /\ UNCHANGED input

InputsSpec == InputsInit /\ [][InputsNext]_<<vars, input>>
=============================================================================
