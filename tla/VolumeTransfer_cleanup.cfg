\* The cleanup after a copy that failed for a reason of the host folder
CONSTANTS
  Calls = {c1, c2}
  Ops = {"update"}
  Entries = 1
  RetryAttempts = 2
  Behaviors = {}
  Faults = {"walk"}
  Nobody = Nobody
SPECIFICATION Spec
INVARIANTS
  CleanupRemovesContainer
