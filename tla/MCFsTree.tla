------------------------------- MODULE MCFsTree -------------------------------
(* Model values and bounds for FsTree.                                      *)
EXTENDS FsTree, TLC

CONSTANTS etc, hosts

\* A directory below the root and a file in it.
MCManifest ==
  <<[path |-> <<etc>>, kind |-> "dir", class |-> "none"],
    [path |-> <<etc, hosts>>, kind |-> "file", class |-> "ai_backed"]>>
MCTarget == {<<etc>>, <<etc, hosts>>, <<etc, etc>>, <<etc, Dot>>}
Symmetry == Permutations(Call) \union Permutations(Boot)

=============================================================================
