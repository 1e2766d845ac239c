\* Three calls of any function for two references that share an archive file
SPECIFICATION Spec
CONSTANTS
  Callers = {c1, c2, c3}
  Kinds = {"build", "buildAndPush", "userNamespace", "buildUserNamespace",
           "create", "createFromDockerfile", "push"}
  Refs = {r1, r2}
  r1 = r1
  r2 = r2
  f1 = f1
  Archive <- MCArchive
  Configs <- MCConfigs
  Trim <- MCTrim
  CacheRefs <- MCCacheRefs
  Faults = {"fail", "close"}
  None = None
SYMMETRY MCSymmetry
INVARIANTS
  TypeOK
  PushedIsBuilt
  FailureHasACause
  ContainerIsReturned
PROPERTIES
  ArchiveIsTheImage
