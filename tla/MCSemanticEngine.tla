-------------------------- MODULE MCSemanticEngine ---------------------------
(* Four rules: one that is not specified, one whose section is missing, one *)
(* with eight elements and one with fewer.                                  *)
EXTENDS SemanticEngine
MCRetryAfter == {-1, 0, 3, 9}
=============================================================================
