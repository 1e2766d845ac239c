--------------------------- MODULE ImagePipeline ---------------------------
(***************************************************************************)
(* Concurrent calls that build, push, create and export images             *)
(* (image_runtime.go, buildconfig.go, image_builder_runtime.go,            *)
(* image_export_runtime.go).  They share the tags of a store, the registry,*)
(* the archive files and one hash; each has a temporary Dockerfile or a    *)
(* working container of its own.  The image that call c builds is named c. *)
(* A build in a user namespace has a config (BuildOptions): its storage is *)
(* checked before its store is opened, and the rest of it afterwards.      *)
(***************************************************************************)
EXTENDS FiniteSets, BuildOptions

CONSTANTS
  Callers,  \* the calls
  Kinds,    \* the functions they call
  Refs,     \* the image references
  Configs,  \* the configs of the builds in a user namespace
  Archive,  \* the archive file of each reference (imageArchivePath): references with
            \* one last path element share it
  Faults,   \* "fail": a step fails; "close": the close of an archive fails
  None      \* no image

\* BuildDockerfileContentUserNamespace is given its store, BuildAndPushUserNamespace
\* opens its own.
Configured == {"buildUserNamespace", "userNamespace"}
Builds == {"build", "buildAndPush"} \cup Configured
Creates == {"create", "createFromDockerfile"}

ASSUME PipelineAssumption ==
  /\ Kinds \subseteq Builds \cup Creates \cup {"push"}
  /\ Faults \subseteq {"fail", "close"}
  /\ None \notin Callers
  /\ DOMAIN Archive = Refs
  /\ \A k \in Configs : k.outputRef \in Refs \/ Blank(k.outputRef)

\* The calls there may be, each with its function, its reference and its config
Calls ==
  [kind : Kinds \ Configured, ref : Refs, config : {None}] \cup
  {[kind |-> k, ref |-> config.outputRef, config |-> config] :
     k \in Kinds \cap Configured, config \in Configs}

Files == {Archive[r] : r \in Refs}

\* The caller's store, and those NewUserNamespaceStoreWithConfig opens, by their roots
Stores == {"given"} \cup {StoreOptions(k).graphRoot : k \in Configs}

VARIABLES
  pc,         \* where each call is
  call,       \* which of the calls it is
  failed,     \* its named result err is set
  tag,        \* per store, the image under each reference
  registry,   \* the image under each reference of the registry
  archive,    \* per file, the image it was last opened for and what is in it
  dockerfile, \* the calls whose temporary Dockerfile exists
  container,  \* the calls whose working container exists
  pushed,     \* per call, the image it pushed
  returned,   \* per call, whether it returned its builder, and the image ID
  rival,      \* history: per call, another one took its tag or its file meanwhile
  busy,       \* history: per call, the store was in use when it shut it down
  struck      \* history: per call, a step of its own failed, or the process died

shared == <<tag, registry, archive>>
own == <<dockerfile, container, pushed, returned>>
history == <<rival, busy, struck>>
vars == <<pc, call, failed, shared, own, history>>

Configuring == {"mkdir", "add", "chmod", "install"}
Ended == {"ok", "err", "dead"}

Ref(c) == call[c].ref
File(c) == Archive[Ref(c)]
Store(c) ==
  IF call[c].kind = "userNamespace" THEN StoreOptions(call[c].config).graphRoot ELSE "given"

\* The type invariant; a temporary Dockerfile lasts from its creation to the deferred
\* removal unless that fails, and a call configures and commits a container that exists.
TypeOK ==
  /\ pc \in [Callers -> {"idle", "open", "temp", "build", "building", "unlink", "push",
                         "shutdown", "base", "builder", "commit", "export", "exporting",
                         "close"} \cup Configuring \cup Ended]
  /\ \A c \in Callers : pc[c] # "idle" => call[c] \in Calls
  /\ failed \in [Callers -> BOOLEAN]
  /\ tag \in [Stores -> [Refs -> Callers \cup {None}]]
  /\ registry \in [Refs -> Callers \cup {None}]
  /\ archive \in [Files -> [of : Callers \cup {None}, state : {"none", "part", "whole", "mixed"}]]
  /\ pushed \in [Callers -> Callers \cup {None}]
  /\ returned \in [Callers -> [builder : BOOLEAN, id : Callers \cup {None}]]
  /\ rival \in [Callers -> BOOLEAN] /\ busy \in [Callers -> BOOLEAN]
  /\ struck \in [Callers -> BOOLEAN]
  /\ \A c \in Callers :
       /\ pc[c] \in {"build", "building"} => c \in dockerfile
       /\ c \in dockerfile => pc[c] \in {"build", "building", "unlink"} \/ struck[c]
       /\ pc[c] \in Configuring \cup {"commit"} => c \in container

Init ==
  /\ pc = [c \in Callers |-> "idle"]
  /\ call = [c \in Callers |-> None]
  /\ failed = [c \in Callers |-> FALSE]
  /\ tag = [s \in Stores |-> [r \in Refs |-> None]]
  /\ registry = [r \in Refs |-> None]
  /\ archive = [f \in Files |-> [of |-> None, state |-> "none"]]
  /\ dockerfile = {} /\ container = {}
  /\ pushed = [c \in Callers |-> None]
  /\ returned = [c \in Callers |-> [builder |-> FALSE, id |-> None]]
  /\ rival = [c \in Callers |-> FALSE]
  /\ busy = [c \in Callers |-> FALSE]
  /\ struck = [c \in Callers |-> FALSE]

-----------------------------------------------------------------------------

Goto(c, l) == pc' = [pc EXCEPT ![c] = l] /\ UNCHANGED <<call, failed>>

\* Step of c fails: the deferred calls at l, if any, come next.
FailTo(c, l) ==
  /\ "fail" \in Faults
  /\ pc' = [pc EXCEPT ![c] = l]
  /\ failed' = [failed EXCEPT ![c] = TRUE]
  /\ struck' = [struck EXCEPT ![c] = TRUE]
  /\ UNCHANGED <<call, rival, busy>>

\* BuildDockerfileContentUserNamespace takes a blank reference: its image has no name.
First(x) ==
  CASE x.kind = "userNamespace" -> IF Blank(x.config.outputRef) THEN "err" ELSE "open"
    [] x.kind = "buildUserNamespace" -> IF BuildAccepts(x.config) THEN "temp" ELSE "err"
    [] x.kind \in {"build", "buildAndPush"} -> "temp"
    [] x.kind = "push" -> "push"
    [] x.kind = "create" -> "builder"
    [] x.kind = "createFromDockerfile" -> "base"

Begin(c) ==
  /\ pc[c] = "idle"
  /\ \E x \in Calls : call' = [call EXCEPT ![c] = x] /\ pc' = [pc EXCEPT ![c] = First(x)]
  /\ UNCHANGED <<failed, shared, own, history>>

-----------------------------------------------------------------------------
(* Build and push *)

\* Where the deferred calls of a build lead to once the Dockerfile is gone
Return(c) == IF failed[c] THEN "err" ELSE "ok"
LastOf(c) == IF call[c].kind = "userNamespace" THEN "shutdown" ELSE "err"

\* The config of c is rejected: the deferred calls at l, if any, come next.
Reject(c, l) ==
  /\ pc' = [pc EXCEPT ![c] = l]
  /\ failed' = [failed EXCEPT ![c] = TRUE]
  /\ UNCHANGED <<call, history>>

\* The options of the build, once the store is open
OptionsOf(c) ==
  IF BuildAccepts(call[c].config) THEN Goto(c, "temp") /\ UNCHANGED history ELSE Reject(c, LastOf(c))

OpenStore(c) ==
  /\ pc[c] = "open"
  /\ \/ StoreAccepts(call[c].config) /\ OptionsOf(c)
     \/ ~StoreAccepts(call[c].config) /\ Reject(c, "err")
     \/ StoreAccepts(call[c].config) /\ FailTo(c, "err")
  /\ UNCHANGED <<shared, own>>

\* writeDockerfileTempFile removes the file itself on an error.
WriteTemp(c) ==
  /\ pc[c] = "temp"
  /\ \/ dockerfile' = dockerfile \cup {c} /\ Goto(c, "build") /\ UNCHANGED history
     \/ FailTo(c, LastOf(c)) /\ UNCHANGED dockerfile
  /\ UNCHANGED <<shared, container, pushed, returned>>

\* imagebuildah mounts layers of the store from here to the end of the build.
BuildBegin(c) ==
  /\ pc[c] = "build"
  /\ Goto(c, "building")
  /\ UNCHANGED <<shared, own, history>>

\* Those that have built or committed under the reference and not yet used it
Between(s, r) ==
  {k \in Callers : pc[k] \in {"unlink", "push"} /\ Store(k) = s /\ Ref(k) = r}

Tag(c) ==
  /\ tag' = IF Ref(c) \in Refs THEN [tag EXCEPT ![Store(c)][Ref(c)] = c] ELSE tag
  /\ rival' = [k \in Callers |-> rival[k] \/ k \in Between(Store(c), Ref(c)) \ {c}]

BuildEnd(c) ==
  /\ pc[c] = "building"
  /\ \/ Tag(c) /\ Goto(c, "unlink") /\ UNCHANGED <<busy, struck>>
     \/ FailTo(c, "unlink") /\ UNCHANGED tag
  /\ UNCHANGED <<registry, archive, own>>

\* MUTANT of Unlinked: the temporary file is not removed after the build.
UnlinkedNot(c) == dockerfile

Unlinked(c) == dockerfile \ {c}

\* MUTANT of AfterBuild: the store is shut down as soon as the build is over.
AfterBuildShuts(c) ==
  IF failed[c] \/ call[c].kind = "userNamespace" THEN LastOf(c)
  ELSE IF call[c].kind = "buildAndPush" THEN "push" ELSE "ok"

\* MUTANT of AfterBuild: a failed build is pushed as well.
AfterBuildAlways(c) ==
  IF call[c].kind \in {"buildAndPush", "userNamespace"} THEN "push" ELSE Return(c)

AfterBuild(c) ==
  IF failed[c] THEN LastOf(c)
  ELSE IF call[c].kind \in {"buildAndPush", "userNamespace"} THEN "push" ELSE "ok"

\* The deferred cleanup, which ignores an error of its own
Unlink(c) ==
  /\ pc[c] = "unlink"
  /\ \/ dockerfile' = Unlinked(c) /\ UNCHANGED struck
     \/ /\ "fail" \in Faults /\ UNCHANGED dockerfile
        /\ struck' = [struck EXCEPT ![c] = TRUE]
  /\ Goto(c, AfterBuild(c))
  /\ UNCHANGED <<shared, container, pushed, returned, rival, busy>>

\* buildah.Push looks the reference up again and pushes what is under it now.
Push(c) ==
  /\ pc[c] = "push"
  /\ \/ /\ tag[Store(c)][Ref(c)] # None
        /\ registry' = [registry EXCEPT ![Ref(c)] = tag[Store(c)][Ref(c)]]
        /\ pushed' = [pushed EXCEPT ![c] = tag[Store(c)][Ref(c)]]
        /\ Goto(c, IF call[c].kind = "userNamespace" THEN "shutdown" ELSE "ok")
        /\ UNCHANGED history
     \/ /\ tag[Store(c)][Ref(c)] = None
        /\ pc' = [pc EXCEPT ![c] = LastOf(c)] /\ failed' = [failed EXCEPT ![c] = TRUE]
        /\ UNCHANGED <<call, registry, pushed, history>>
     \/ FailTo(c, LastOf(c)) /\ UNCHANGED <<registry, pushed>>
  /\ UNCHANGED <<tag, archive, dockerfile, container, returned>>

Mounted(s) == {k \in Callers : pc[k] = "building" /\ Store(k) = s}

\* store.Shutdown(false) refuses while a layer is mounted; its error becomes the
\* call's when there was none.
ShutdownResult(c) ==
  IF failed[c] \/ Mounted(Store(c)) # {} THEN {"err"}
  ELSE IF "fail" \in Faults THEN {"ok", "err"} ELSE {"ok"}

Shutdown(c) ==
  /\ pc[c] = "shutdown"
  /\ \E res \in ShutdownResult(c) :
       /\ Goto(c, res)
       /\ struck' = [struck EXCEPT ![c] = @ \/ (res = "err" /\ Mounted(Store(c)) = {})]
  /\ busy' = [busy EXCEPT ![c] = Mounted(Store(c)) # {}]
  /\ UNCHANGED <<shared, own, rival>>

-----------------------------------------------------------------------------
(* Create and export *)

\* images.Build of CreateImageWithDockerfile
BuildBase(c) ==
  /\ pc[c] = "base"
  /\ \/ Goto(c, "builder") /\ UNCHANGED history
     \/ FailTo(c, "err")
  /\ UNCHANGED <<shared, own>>

NewBuilder(c) ==
  /\ pc[c] = "builder"
  /\ \/ container' = container \cup {c} /\ Goto(c, "mkdir") /\ UNCHANGED history
     \/ FailTo(c, "err") /\ UNCHANGED container
  /\ UNCHANGED <<shared, dockerfile, pushed, returned>>

AfterStep == [mkdir |-> "add", add |-> "chmod", chmod |-> "install", install |-> "commit"]

Hand(c, builder, id) == returned' = [returned EXCEPT ![c] = [builder |-> builder, id |-> id]]

\* MUTANT of ConfigureFailed: createConfiguredBuilder returns no builder on an error.
ConfigureFailedBare(c) == FailTo(c, "err") /\ UNCHANGED returned

ConfigureFailed(c) == FailTo(c, "err") /\ Hand(c, TRUE, None)

\* The directories, the scripts, their permissions and install.sh, in this order
Configure(c) ==
  /\ pc[c] \in Configuring
  /\ \/ Goto(c, AfterStep[pc[c]]) /\ UNCHANGED <<returned, history>>
     \/ ConfigureFailed(c)
  /\ UNCHANGED <<shared, dockerfile, container, pushed>>

\* Every Add writes into one package-wide hash (image.go:22, 431-433): two at a time
\* race on its buffer and may end the process; calls still to come are of another one.
Race ==
  /\ \E c, k \in Callers : c # k /\ pc[c] = "add" /\ pc[k] = "add"
  /\ pc' = [c \in Callers |-> IF pc[c] \in Ended \cup {"idle"} THEN pc[c] ELSE "dead"]
  /\ struck' = [c \in Callers |-> struck[c] \/ pc[c] \notin Ended \cup {"idle"}]
  /\ UNCHANGED <<call, failed, shared, own, rival, busy>>

Commit(c) ==
  /\ pc[c] = "commit"
  /\ \/ Tag(c) /\ Goto(c, "export") /\ UNCHANGED <<returned, busy, struck>>
     \/ FailTo(c, "err") /\ Hand(c, TRUE, None) /\ UNCHANGED tag
  /\ UNCHANGED <<registry, archive, dockerfile, container, pushed>>

Writers(f) == {k \in Callers : pc[k] \in {"exporting", "close"} /\ File(k) = f}

\* A file that another call is writing, once truncated, has that call's bytes at
\* their old offset.
Opened(c) == [of |-> c, state |-> IF Writers(File(c)) = {} THEN "part" ELSE "mixed"]

OpenArchive(c) ==
  /\ pc[c] = "export"
  /\ \/ /\ archive' = [archive EXCEPT ![File(c)] = Opened(c)]
        /\ rival' = [k \in Callers |->
                       rival[k] \/ (IF k = c THEN Writers(File(c)) # {} ELSE k \in Writers(File(c)))]
        /\ Goto(c, "exporting")
        /\ UNCHANGED <<returned, busy, struck>>
     \/ FailTo(c, "err") /\ Hand(c, TRUE, c) /\ UNCHANGED archive
  /\ UNCHANGED <<tag, registry, dockerfile, container, pushed>>

\* MUTANT of Exported: what is exported is the image under the reference.
ExportedByName(c) == tag[Store(c)][Ref(c)]

\* images.Export takes the image by its ID.
Exported(c) == c

\* All of the image has gone through the writer, or the export failed.
Export(c) ==
  /\ pc[c] = "exporting"
  /\ \/ /\ archive' = [archive EXCEPT ![File(c)] =
             IF @ = [of |-> c, state |-> "part"] THEN [of |-> Exported(c), state |-> "whole"]
             ELSE [@ EXCEPT !.state = "mixed"]]
        /\ Goto(c, "close")
        /\ UNCHANGED history
     \/ FailTo(c, "close") /\ UNCHANGED archive
  /\ UNCHANGED <<tag, registry, own>>

\* The deferred close: its error, after which the file may lack its end, is logged.
Close(c) ==
  /\ pc[c] = "close"
  /\ \/ UNCHANGED <<archive, struck>>
     \/ /\ "close" \in Faults
        /\ struck' = [struck EXCEPT ![c] = TRUE]
        /\ archive' = [archive EXCEPT ![File(c)].state = IF @ = "whole" THEN "part" ELSE @]
  /\ Goto(c, Return(c)) /\ Hand(c, TRUE, c)
  /\ UNCHANGED <<tag, registry, dockerfile, container, pushed, rival, busy>>

-----------------------------------------------------------------------------

Step(c) ==
  \/ Begin(c) \/ OpenStore(c) \/ WriteTemp(c) \/ BuildBegin(c) \/ BuildEnd(c) \/ Unlink(c)
  \/ Push(c) \/ Shutdown(c)
  \/ BuildBase(c) \/ NewBuilder(c) \/ Configure(c) \/ Commit(c)
  \/ OpenArchive(c) \/ Export(c) \/ Close(c)

AllEnded == (\A c \in Callers : pc[c] \in Ended) /\ UNCHANGED vars

Next == (\E c \in Callers : Step(c)) \/ Race \/ AllEnded

Spec == Init /\ [][Next]_vars

-----------------------------------------------------------------------------
(* Properties *)

\* A build-and-push that returns without an error has pushed the image it built,
\* unless another call built under the same reference in between
\* (image_runtime.go:156-222: the push looks the reference up again).
PushedIsBuilt ==
  \A c \in Callers :
    pc[c] = "ok" /\ call[c].kind \in {"buildAndPush", "userNamespace"} /\ ~rival[c] =>
      pushed[c] = c

Rejected(c) ==
  /\ call[c].kind \in Configured
  /\ \/ ~BuildAccepts(call[c].config)
     \/ /\ call[c].kind = "userNamespace"
        /\ ~StoreAccepts(call[c].config) \/ Blank(call[c].config.outputRef)

\* A call fails only when a step of its own has failed, its config is rejected or, in a
\* user namespace, another build was using the store it shut down, and only in the last
\* case after its push; a rejected config is never built (image_runtime.go:192-222).
FailureHasACause ==
  \A c \in Callers :
    /\ pc[c] = "err" /\ ~struck[c] /\ call[c].kind # "push" =>
         IF Rejected(c) THEN pushed[c] = None ELSE busy[c] /\ pushed[c] # None
    /\ pc[c] = "ok" => ~Rejected(c)

\* A call that creates an image and returns nil leaves in the archive the whole image
\* whose ID it returned, whatever has become of the name since the commit, unless
\* another call wrote the same file meanwhile or the close failed
\* (buildconfig_runtime.go:55-73, image_export_runtime.go:52-96).
ArchiveIsTheImage ==
  [][\A c \in Callers :
       /\ pc[c] = "close" /\ pc'[c] = "ok"
       /\ ~rival'[c] /\ ~struck'[c]
       => archive'[File(c)] = [of |-> returned'[c].id, state |-> "whole"]]_vars

\* A call that fails returns the builder whenever its working container exists, so
\* that the caller can delete it (buildconfig.go:351-382).
ContainerIsReturned ==
  \A c \in Callers : pc[c] \in {"ok", "err"} /\ c \in container => returned[c].builder

=============================================================================
