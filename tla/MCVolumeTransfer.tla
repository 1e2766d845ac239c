------------------------- MODULE MCVolumeTransfer -------------------------
(* Values for the constants of VolumeCopies.                               *)
EXTENDS VolumeCopies, TLC

MCSymmetry == Permutations(Calls)

MCAllOps == AllOps

\* RemoveVolume as a caller that wants the volume gone asks for it, as one
\* that does not force asks for it, and with the zero value of the record
MCBehaviors ==
  { [force |-> TRUE,  retryForce |-> FALSE, ignoreNotFound |-> TRUE,  attempts |-> 2],
    [force |-> FALSE, retryForce |-> TRUE,  ignoreNotFound |-> FALSE, attempts |-> 2],
    [force |-> FALSE, retryForce |-> FALSE, ignoreNotFound |-> FALSE, attempts |-> 0] }
=============================================================================
