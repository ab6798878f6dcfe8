------------------------------ MODULE MCStorage ------------------------------
(* Storage on a small instance.                                            *)
EXTENDS Storage, TLC

CONSTANTS a1, a2, m1, m2, f1, f2

MCEntries ==
  {[valid |-> TRUE, lba_start |-> 1, lba_length |-> 3],    \* fits
   [valid |-> TRUE, lba_start |-> 9, lba_length |-> 2],    \* too long
   [valid |-> TRUE, lba_start |-> 7, lba_length |-> 10]}   \* wraps around, and is published

MCMountPaths == {<<"/", "b">>, <<"/", "b", "2">>}
MCFilePaths == {<<"/", "b", "/", "f">>, <<"/", "b", "2", "/", "f">>}

Symm == Permutations({a1, a2}) \cup Permutations({m1, m2}) \cup Permutations({f1, f2})
=============================================================================
