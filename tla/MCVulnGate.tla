----------------------------- MODULE MCVulnGate -----------------------------
(* Values for the constants of VulnGate.                                   *)
EXTENDS VulnGate, TLC

\* No package, a package, and one below it
MCPackages == {<<>>, <<"p">>, <<"p", "q">>}

MCSymmetry == Permutations(FindingIds) \cup Permutations(Modules)
=============================================================================
