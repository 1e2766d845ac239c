\* Three starts of the container, every fault
CONSTANTS
  MaxRuns = 3
  Codes = {0, 1, 2}
  Faults = {"io", "kill", "busy"}
SPECIFICATION FairSpec
INVARIANTS
  TypeOK
  StatusIsItsAuthors
  
PROPERTIES
  EveryoneEnds
