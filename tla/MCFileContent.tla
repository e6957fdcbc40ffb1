---------------------------- MODULE MCFileContent ----------------------------
(* Model values and bounds for FileContent.                                 *)
EXTENDS FileContent, TLC

CONSTANTS t1

MCGenerated == {<<t1>>}
MCText == {t1}
\* A write past the end, a cut, and a write beyond the limit.
MCRequest ==
  {[kind |-> "write", at |-> 1, n |-> 1], [kind |-> "truncate", at |-> 0, n |-> 0],
   [kind |-> "write", at |-> 2, n |-> 1]}
MCManifestClass == [f \in File |-> "ai_backed"]
Symmetry == Permutations(Job) \union Permutations(Mutator)

=============================================================================
