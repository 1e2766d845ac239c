SPECIFICATION Spec
CONSTANTS
  Commands = {"create", "prepare", "sync", "run"}
  MaxCommands = 3
  Faults = {}
INVARIANTS
  RunVerdictIsEarned
