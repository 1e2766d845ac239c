\* Every fault; Podman may answer at the footer
CONSTANTS
  Entries = 3
  Wire = 2
  Early = TRUE
  Faults = {"refuse", "cancel", "walk"}
SPECIFICATION FairSpec
INVARIANTS
  TypeOK
  NoSpuriousFailure
  ErrorsReachTheCaller
PROPERTIES
  ImplementsCopy
  CallReturns
