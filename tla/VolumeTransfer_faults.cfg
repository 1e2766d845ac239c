\* Two calls of any operation, every fault of Podman and of the caller
CONSTANTS
  Calls = {c1, c2}
  Ops <- MCAllOps
  Entries = 2
  RetryAttempts = 3
  Behaviors <- MCBehaviors
  Faults = {"refuse", "lost", "cancel", "walk", "early"}
  Nobody = Nobody
SYMMETRY MCSymmetry
SPECIFICATION Spec
INVARIANTS
  TypeOK
  NilMeansWholeFolder
  OverwriteStartsFresh
  NoLeakedContainer
  RemovalIsEffective
  SkipWritesOnlyItsOwnVolume
PROPERTIES
  CopiesAsPromised
