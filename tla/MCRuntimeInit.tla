---------------------------- MODULE MCRuntimeInit ----------------------------
(* Symmetry for RuntimeInit: a call is told apart from another by nothing.    *)
EXTENDS RuntimeInit, TLC

MCSymmetry == Permutations(Calls)
=============================================================================
