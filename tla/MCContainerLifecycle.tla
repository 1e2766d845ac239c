------------------------ MODULE MCContainerLifecycle ------------------------
(* Symmetry for ContainerLifecycle.                                        *)
EXTENDS ContainerLifecycle, TLC

MCSymmetry == Permutations(Calls)
=============================================================================
