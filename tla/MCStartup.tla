----------------------------- MODULE MCStartup -----------------------------
(* Three keys, two labels, pools of one file or two, of either size.            *)
EXTENDS Startup, TLC

KeySymmetry == Permutations(Keys)
=============================================================================
