------------------------------ MODULE MCWatcher ------------------------------
(* Small instances of Watcher for TLC. *)
EXTENDS Watcher, TLC

CONSTANTS r, x, y

\* The directories below the root are interchangeable.
Symmetry == Permutations(Dir \ {Root})
=============================================================================
