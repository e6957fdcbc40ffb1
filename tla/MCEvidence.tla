----------------------------- MODULE MCEvidence ------------------------------
(* Model values for Evidence.                                               *)
EXTENDS Evidence, TLC

CONSTANTS s1, s2, p1
=============================================================================
