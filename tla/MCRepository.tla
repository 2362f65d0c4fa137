----------------------------- MODULE MCRepository -----------------------------
(* Small instances of Repository for TLC. *)
EXTENDS Repository, TLC

CONSTANTS h1, h2, f1, f2

\* Hosts and files are interchangeable.
Symmetry == Permutations(Host) \cup Permutations(Name)
=============================================================================
