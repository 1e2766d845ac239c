\* Every list of up to two exceptions against every stream of up to two messages
CONSTANTS
  FindingIds = {i1, i2}
  Modules = {m1, m2}
  Packages <- MCPackages
  MaxExceptions = 2
  MaxMessages = 2
SYMMETRY MCSymmetry
SPECIFICATION GateSpec
INVARIANTS
  PassMeansApproved
  WarningsAreTrue
