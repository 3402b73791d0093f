-------------------------- MODULE MCSignController --------------------------
(* Two tasks and the thread of a third, on one file that may be given      *)
(* either of two contents, across two reopens.                             *)
EXTENDS SignController, TLC

Symmetry == Permutations(Tasks) \cup Permutations(Contents)
=============================================================================
