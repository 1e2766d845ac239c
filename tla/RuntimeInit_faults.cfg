\* Three calls of Init or Shutdown, every fault, every environment
CONSTANTS
  Calls = {c1, c2, c3}
  Faults = {"connect", "store", "mounted", "cancel"}
  Hosts <- Environments
  Nil = Nil
SYMMETRY MCSymmetry
SPECIFICATION Spec
INVARIANTS
  TypeOK
  OneRuntime
  HostCheckAgrees
