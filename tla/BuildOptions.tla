---------------------------- MODULE BuildOptions ----------------------------
(***************************************************************************)
(* What a UserNamespaceBuildConfig turns into (image_options.go): the      *)
(* options of the store, those of the build, the environment the process   *)
(* should have, and the profile that tells a caller beforehand how a build *)
(* will run.  Each has checks of its own, and each is made on its own.     *)
(***************************************************************************)
EXTENDS Integers

CONSTANTS
  Trim(_),   \* strings.TrimSpace
  CacheRefs  \* the strings reference.ParseNormalizedNamed accepts

DefaultRunRoot == "/storage/run/containers/storage"
DefaultGraphRoot == "/storage/.local/share/containers/storage"
DefaultRuntime == "crun"
DefaultMountProgram == "/usr/bin/fuse-overlayfs"

Blank(s) == Trim(s) = ""

FirstNonEmpty(s, t) == IF ~Blank(s) THEN s ELSE IF ~Blank(t) THEN t ELSE ""

-----------------------------------------------------------------------------
(* The options of the store *)

StorageModes == {"vfs", "native-overlay", "fuse-overlay"}

StoreAccepts(config) == config.storageMode \in StorageModes

WithStoreRoots(config, opts) ==
  [opts EXCEPT !.runRoot = IF Blank(config.runRoot) THEN @ ELSE config.runRoot,
               !.graphRoot = IF Blank(config.graphRoot) THEN @ ELSE config.graphRoot]

DefaultStoreOptions ==
  [runRoot |-> DefaultRunRoot, graphRoot |-> DefaultGraphRoot, driver |-> "overlay",
   mountProgram |-> {}]

MountProgram(config) ==
  IF Blank(config.mountProgram) THEN DefaultMountProgram ELSE Trim(config.mountProgram)

\* UserNamespaceStoreOptions, of a config that StoreAccepts; mountProgram is the value
\* of the driver's option of that name, if it has one.
StoreOptions(config) ==
  [WithStoreRoots(config, DefaultStoreOptions) EXCEPT
     !.driver = IF config.storageMode = "vfs" THEN "vfs" ELSE "overlay",
     !.mountProgram = IF config.storageMode = "fuse-overlay" THEN {MountProgram(config)} ELSE {}]

-----------------------------------------------------------------------------
(* The options of the build and of the push *)

\* define.Isolation, under the names its String gives
Isolation == [i \in {"", "chroot", "oci", "rootless"} |-> IF i = "" THEN "chroot" ELSE i]

CacheAccepts(config) == Blank(config.cacheRef) \/ Trim(config.cacheRef) \in CacheRefs

BuildAccepts(config) == config.isolation \in DOMAIN Isolation /\ CacheAccepts(config)

\* UserNamespaceSystemContext, for the build and for the push
SystemContext(config) ==
  [certDir |-> Trim(config.certDir), skipTLS |-> config.insecure]

\* UserNamespaceImageBuildOptions, of a config that BuildAccepts
ImageBuildOptions(config) ==
  [output |-> config.outputRef,
   context |-> IF Blank(config.context) THEN "." ELSE config.context,
   runtime |-> FirstNonEmpty(config.runtime, DefaultRuntime),
   cache |-> IF Blank(config.cacheRef) THEN {} ELSE {Trim(config.cacheRef)},
   isolation |-> Isolation[config.isolation],
   systemContext |-> SystemContext(config)]

-----------------------------------------------------------------------------
(* What a caller is told *)

EnvironmentAccepts(config) == config.isolation \in DOMAIN Isolation

\* UserNamespaceBuildEnvironment: BUILDAH_ISOLATION and BUILDAH_RUNTIME
Environment(config) ==
  [isolation |-> Isolation[config.isolation], runtime |-> DefaultRuntime]

ProfileAccepts(config) == StoreAccepts(config) /\ config.isolation \in DOMAIN Isolation

\* UserNamespaceBuildExecutionProfile, of a config that ProfileAccepts: the mount program
\* is read back from the options of the store ("" when there is none).
Profile(config) ==
  LET store == StoreOptions(config) IN
  [driver |-> store.driver, graphRoot |-> store.graphRoot, runRoot |-> store.runRoot,
   mountProgram |-> IF store.mountProgram = {} THEN "" ELSE CHOOSE p \in store.mountProgram : TRUE,
   isolation |-> Isolation[config.isolation],
   runtime |-> FirstNonEmpty(config.runtime, DefaultRuntime),
   certDir |-> Trim(config.certDir)]

=============================================================================
