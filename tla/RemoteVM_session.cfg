SPECIFICATION Spec
CONSTANTS
  Commands = {"create", "prepare", "sync", "run", "run-integration", "delete"}
  MaxCommands = 3
  Faults = {"fail", "lost", "kill"}
INVARIANTS
  TypeOK
  VerdictIsEarned
  SyncIsWhole
