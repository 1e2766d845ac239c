\* Three calls of any of the three functions, one after another or at once; any may
\* fail or die anywhere
SPECIFICATION Spec
CONSTANTS
  Callers = {c1, c2, c3}
  Scripts = {1, 2}
  Parsing = {1}
  MaxRows = 2
  Faults = {"io", "crash"}
  NoFile = NoFile
SYMMETRY MCSymmetry
INVARIANTS
  TypeOK
  InstalledIsWhole
  RacersSucceed
  OnlyCheckedScripts
PROPERTIES
  OkInstallsMyScript
  ScriptIsMine
  RowsAreTheReports
