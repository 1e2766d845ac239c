\* The comment on the status log: a failing script, and nothing else goes wrong
CONSTANTS
  MaxRuns = 1
  Codes = {0, 1, 2}
  Faults = {}
SPECIFICATION Spec
INVARIANTS
  FailureIsRecorded
