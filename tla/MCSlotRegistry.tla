--------------------------- MODULE MCSlotRegistry ---------------------------
(* Two slots on two files; two variables that share one STRING file; one   *)
(* message, that calls the first; two icons that share one picture file.   *)
EXTENDS SlotRegistry, TLC

CONSTANTS v1, v2, m1

MCNames == {v1, v2}
MCTexts == {m1}
MCCalls == m1 :> v1

Symmetry == Permutations(Keys) \cup Permutations(Labels) \cup Permutations(Icons)
=============================================================================
