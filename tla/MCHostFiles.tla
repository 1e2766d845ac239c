---------------------------- MODULE MCHostFiles ----------------------------
(* Calls are alike, whichever function they are of *)
EXTENDS HostFiles, TLC

MCSymmetry == Permutations(Callers)
=============================================================================
