---------------------------- MODULE MCOutputLock ----------------------------
(***************************************************************************)
(* Instances of OutputLock for TLC.  The processes are interchangeable:    *)
(* symmetry is sound for the runs that check safety only.                  *)
(***************************************************************************)
EXTENDS OutputLock, TLC

ProcSymmetry == Permutations(Proc)
=============================================================================
