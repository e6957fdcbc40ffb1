---------------------------- MODULE MCGeneration ----------------------------
(* Model values for Generation.                                             *)
EXTENDS Generation, TLC

CONSTANTS a, b, w1, f, g
=============================================================================
