\* Three calls on two names, every fault, removals by others
CONSTANTS
  Calls = {c1, c2, c3}
  Names = {n1, n2}
  InitName = n1
  Kinds = {"create", "start", "init"}
  Faults = {"refuse", "lost", "cancel", "remove"}
  Nobody = Nobody
SYMMETRY MCSymmetry
SPECIFICATION Spec
INVARIANTS
  TypeOK
  LeftoverIsReported
  OkOwnsItsContainer
PROPERTIES
  ImplementsCreateIfAbsent
