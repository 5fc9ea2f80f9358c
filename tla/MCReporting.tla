---------------------------- MODULE MCReporting -----------------------------
(***************************************************************************)
(* Instances of Reporting for TLC.                                         *)
(***************************************************************************)
EXTENDS Reporting
=============================================================================
