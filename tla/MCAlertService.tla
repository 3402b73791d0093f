--------------------------- MODULE MCAlertService ---------------------------
EXTENDS AlertService, TLC

Symmetry == Permutations(Callers) \cup Permutations(Texts)
=============================================================================
