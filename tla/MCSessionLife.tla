---------------------------- MODULE MCSessionLife ----------------------------
(* Model values for SessionLife.                                            *)
EXTENDS SessionLife, TLC

CONSTANTS a, b, p

\* One session with two commands, one that only logs in.
MCCommands == (a :> 2) @@ (b :> 0)

=============================================================================
