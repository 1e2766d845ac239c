------------------------- MODULE ImagePipelineProofs -------------------------
(***************************************************************************)
(* Proofs about ImagePipeline, for any number of calls, references and     *)
(* configs.  The inductive invariant has three parts: what holds of each   *)
(* call by itself, what the tags are to the builds that have yet to use    *)
(* them, and what the archive files are to the calls that write them.      *)
(***************************************************************************)
EXTENDS ImagePipeline, TLAPS

\* What a caller is told of a build beforehand is what the store and the build then get,
\* and it names a mount program only for fuse-overlay (image_options.go).
THEOREM ProfileForecastsTheBuild ==
  ASSUME NEW config, ProfileAccepts(config), BuildAccepts(config)
  PROVE  LET profile == Profile(config)
             store == StoreOptions(config)
             build == ImageBuildOptions(config)
         IN  /\ profile.driver = store.driver
             /\ profile.runRoot = store.runRoot /\ profile.graphRoot = store.graphRoot
             /\ {profile.mountProgram} \ {""} = store.mountProgram \ {""}
             /\ store.mountProgram # {} <=> config.storageMode = "fuse-overlay"
             /\ profile.runtime = build.runtime /\ profile.isolation = build.isolation
             /\ profile.certDir = build.systemContext.certDir
<1> DEFINE store == StoreOptions(config)
<1>1. \/ store.mountProgram = {} /\ config.storageMode # "fuse-overlay"
      \/ /\ store.mountProgram = {MountProgram(config)}
         /\ config.storageMode = "fuse-overlay"
  BY DEF StoreOptions, WithStoreRoots, DefaultStoreOptions
<1>2. store.mountProgram # {} => store.mountProgram = {Profile(config).mountProgram}
  <2> SUFFICES ASSUME store.mountProgram # {} PROVE store.mountProgram = {Profile(config).mountProgram}
    OBVIOUS
  <2>1. PICK p : store.mountProgram = {p}
    BY <1>1
  <2>2. (CHOOSE q \in store.mountProgram : TRUE) = p
    BY <2>1
  <2>3. Profile(config).mountProgram = p
    BY <2>1, <2>2 DEF Profile
  <2> QED
    BY <2>1, <2>3
<1>3. store.mountProgram = {} => Profile(config).mountProgram = ""
  BY DEF Profile
<1>4. /\ Profile(config).driver = store.driver
      /\ Profile(config).runRoot = store.runRoot /\ Profile(config).graphRoot = store.graphRoot
      /\ Profile(config).runtime = ImageBuildOptions(config).runtime
      /\ Profile(config).isolation = ImageBuildOptions(config).isolation
      /\ Profile(config).certDir = ImageBuildOptions(config).systemContext.certDir
  BY DEF Profile, ImageBuildOptions, SystemContext
<1> HIDE DEF store
<1> QED
  BY <1>1, <1>2, <1>3, <1>4 DEF store

-----------------------------------------------------------------------------
(* The invariant *)

Labels ==
  {"idle", "open", "temp", "build", "building", "unlink", "push", "shutdown", "base",
   "builder", "mkdir", "add", "chmod", "install", "commit", "export", "exporting",
   "close", "ok", "err", "dead"}

TypeInv ==
  /\ pc \in [Callers -> Labels]
  /\ call \in [Callers -> Calls \cup {None}]
  /\ \A c \in Callers : pc[c] # "idle" => call[c] \in Calls
  /\ failed \in [Callers -> BOOLEAN]
  /\ tag \in [Stores -> [Refs -> Callers \cup {None}]]
  /\ registry \in [Refs -> Callers \cup {None}]
  /\ archive \in [Files -> [of : Callers \cup {None}, state : {"none", "part", "whole", "mixed"}]]
  /\ pushed \in [Callers -> Callers \cup {None}]
  /\ returned \in [Callers -> [builder : BOOLEAN, id : Callers \cup {None}]]
  /\ rival \in [Callers -> BOOLEAN] /\ busy \in [Callers -> BOOLEAN]
  /\ struck \in [Callers -> BOOLEAN]

Kind(c) == call[c].kind

\* Each step belongs to some of the functions; a rejected config is not built.
Way(c) ==
  /\ pc[c] = "idle" => ~failed[c] /\ pushed[c] = None
  /\ pc[c] = "open" =>
       /\ Kind(c) = "userNamespace" /\ ~Blank(call[c].config.outputRef)
       /\ ~failed[c] /\ pushed[c] = None
  /\ pc[c] \in {"temp", "build", "building"} => Kind(c) \in Builds /\ ~failed[c] /\ ~Rejected(c)
  /\ pc[c] = "unlink" => Kind(c) \in Builds /\ ~Rejected(c)
  /\ pc[c] = "push" =>
       Kind(c) \in {"push", "buildAndPush", "userNamespace"} /\ ~failed[c] /\ ~Rejected(c)
  /\ pc[c] = "shutdown" =>
       /\ Kind(c) = "userNamespace"
       /\ failed[c] \/ (~Rejected(c) /\ pushed[c] # None)
  /\ pc[c] \in {"base", "builder", "commit", "export", "exporting", "close"} \cup Configuring =>
       Kind(c) \in Creates

\* A failure is that of a step, of the config or of a push of what was never built.
Blame(c) ==
  /\ failed[c] => struck[c] \/ Rejected(c) \/ Kind(c) = "push"
  /\ pushed[c] # None => ~Rejected(c)
  /\ pc[c] = "err" /\ ~struck[c] /\ Kind(c) # "push" =>
       IF Rejected(c) THEN pushed[c] = None ELSE busy[c] /\ pushed[c] # None
  /\ pc[c] = "ok" => ~Rejected(c)

Keeps(c) ==
  /\ pc[c] \in {"build", "building"} => c \in dockerfile
  /\ c \in dockerfile => pc[c] \in {"build", "building", "unlink"} \/ struck[c]
  /\ pc[c] \in Configuring \cup {"commit"} => c \in container
  /\ c \in container =>
       \/ pc[c] \in Configuring \cup {"commit", "export", "exporting", "close", "dead"}
       \/ returned[c].builder

CallInv == \A c \in Callers : Way(c) /\ Blame(c) /\ Keeps(c)

\* Until a build has used its tag, there is an image under it, which is its own unless a
\* rival has built or committed under the same reference.
OwnTag(c) ==
  /\ pc[c] \in {"unlink", "push"} /\ ~failed[c] /\ Kind(c) \in Builds /\ Ref(c) \in Refs =>
       /\ tag[Store(c)][Ref(c)] # None
       /\ ~rival[c] => tag[Store(c)][Ref(c)] = c
  /\ pc[c] = "shutdown" /\ ~failed[c] /\ ~rival[c] => pushed[c] = c
  /\ pc[c] = "ok" /\ Kind(c) \in {"buildAndPush", "userNamespace"} /\ ~rival[c] => pushed[c] = c

TagInv == \A c \in Callers : OwnTag(c)

\* Writers of one file are rivals; without one, a call finds what it has written.
OwnArchive(c) ==
  /\ pc[c] = "exporting" /\ ~rival[c] => archive[File(c)] = [of |-> c, state |-> "part"]
  /\ pc[c] = "close" /\ ~rival[c] /\ ~struck[c] =>
       archive[File(c)] = [of |-> c, state |-> "whole"]
  /\ pc[c] \in {"exporting", "close"} =>
       \A k \in Callers \ {c} :
         pc[k] \in {"exporting", "close"} /\ File(k) = File(c) => rival[c]

ArchiveInv == \A c \in Callers : OwnArchive(c)

IInv == TypeInv /\ CallInv /\ TagInv /\ ArchiveInv

-----------------------------------------------------------------------------
(* What the calls there may be are *)

LEMMA CallType ==
  ASSUME NEW x \in Calls
  PROVE  /\ x.kind \in Kinds
         /\ x.kind \notin Configured => x.ref \in Refs
         /\ x.kind \in Configured => x.config \in Configs /\ x.ref = x.config.outputRef
<1>1. CASE x \in [kind : Kinds \ Configured, ref : Refs, config : {None}]
  BY <1>1
<1>2. CASE \E k \in Kinds \cap Configured, config \in Configs :
             x = [kind |-> k, ref |-> config.outputRef, config |-> config]
  BY <1>2
<1> QED
  BY <1>1, <1>2 DEF Calls

\* The store, the reference and the file of a call
LEMMA StoreType ==
  ASSUME NEW c \in Callers, call[c] \in Calls
  PROVE  Store(c) \in Stores
  BY CallType DEF Store, Stores, Configured

LEMMA FileType ==
  ASSUME NEW c \in Callers, call[c] \in Calls, Kind(c) \in Creates
  PROVE  Ref(c) \in Refs /\ File(c) \in Files
  BY CallType DEF Creates, Configured, Kind, Ref, File, Files

LEMMA PushType ==
  ASSUME TypeInv, CallInv, NEW c \in Callers, pc[c] = "push"
  PROVE  Ref(c) \in Refs /\ call[c] \in Calls
<1>1. call[c] \in Calls /\ Kind(c) \in {"push", "buildAndPush", "userNamespace"} /\ ~Rejected(c)
  BY DEF TypeInv, CallInv, Way
<1>2. CASE Kind(c) = "userNamespace"
  <2>1. call[c].config \in Configs /\ Ref(c) = call[c].config.outputRef
    BY <1>1, <1>2, CallType DEF Kind, Configured, Ref
  <2>2. ~Blank(call[c].config.outputRef)
    BY <1>1, <1>2 DEF Rejected, Kind, Configured
  <2> QED
    BY <1>1, <2>1, <2>2, PipelineAssumption
<1> QED
  BY <1>1, <1>2, CallType DEF Kind, Configured, Ref

-----------------------------------------------------------------------------
(* The initial states, and what no step of a call does to another *)

LEMMA InitInv == Init => IInv
<1> SUFFICES ASSUME Init PROVE IInv
  OBVIOUS
<1> USE PipelineAssumption DEF Init
<1>1. TypeInv
  BY DEF TypeInv, Labels
<1>2. CallInv
  BY DEF CallInv, Way, Blame, Keeps, Configuring
<1>3. TagInv /\ ArchiveInv
  BY DEF TagInv, ArchiveInv, OwnTag, OwnArchive
<1> QED
  BY <1>1, <1>2, <1>3 DEF IInv

\* What CallInv says of k is about these.
Unmoved(k) ==
  /\ pc'[k] = pc[k] /\ call'[k] = call[k] /\ failed'[k] = failed[k]
  /\ pushed'[k] = pushed[k] /\ returned'[k] = returned[k]
  /\ busy'[k] = busy[k] /\ struck'[k] = struck[k]
  /\ k \in dockerfile' <=> k \in dockerfile
  /\ k \in container' <=> k \in container

LEMMA StepMovesOne ==
  ASSUME TypeInv, NEW c \in Callers, NEW k \in Callers \ {c}, Step(c)
  PROVE  Unmoved(k)
<1> USE DEF TypeInv, Unmoved, shared, own, history, Goto, FailTo, Hand
<1>1. CASE Begin(c)
  BY <1>1 DEF Begin
<1>2. CASE OpenStore(c)
  BY <1>2 DEF OpenStore, OptionsOf, Reject
<1>3. CASE WriteTemp(c)
  BY <1>3 DEF WriteTemp
<1>4. CASE BuildBegin(c)
  BY <1>4 DEF BuildBegin
<1>5. CASE BuildEnd(c)
  BY <1>5 DEF BuildEnd
<1>6. CASE Unlink(c)
  BY <1>6 DEF Unlink, Unlinked
<1>7. CASE Push(c)
  BY <1>7 DEF Push
<1>8. CASE Shutdown(c)
  BY <1>8 DEF Shutdown
<1>9. CASE BuildBase(c)
  BY <1>9 DEF BuildBase
<1>10. CASE NewBuilder(c)
  BY <1>10 DEF NewBuilder
<1>11. CASE Configure(c)
  BY <1>11 DEF Configure, ConfigureFailed
<1>12. CASE Commit(c)
  BY <1>12 DEF Commit
<1>13. CASE OpenArchive(c)
  BY <1>13 DEF OpenArchive
<1>14. CASE Export(c)
  BY <1>14 DEF Export
<1>15. CASE Close(c)
  BY <1>15 DEF Close
<1> QED
  BY <1>1, <1>2, <1>3, <1>4, <1>5, <1>6, <1>7, <1>8, <1>9, <1>10, <1>11, <1>12, <1>13,
     <1>14, <1>15 DEF Step

LEMMA UnmovedKeeps ==
  ASSUME NEW k \in Callers, Unmoved(k), Way(k), Blame(k), Keeps(k)
  PROVE  Way(k)' /\ Blame(k)' /\ Keeps(k)'
  BY DEF Unmoved, Way, Blame, Keeps, Kind, Rejected

-----------------------------------------------------------------------------
(* A step of call c *)

LEMMA TagType ==
  ASSUME TypeInv, NEW c \in Callers, pc[c] # "idle", Tag(c)
  PROVE  /\ tag' \in [Stores -> [Refs -> Callers \cup {None}]]
         /\ rival' \in [Callers -> BOOLEAN]
<1>1. Store(c) \in Stores
  BY StoreType DEF TypeInv
<1>2. tag' \in [Stores -> [Refs -> Callers \cup {None}]]
  BY <1>1 DEF TypeInv, Tag
<1>3. rival' \in [Callers -> BOOLEAN]
  BY DEF TypeInv, Tag
<1> QED
  BY <1>2, <1>3

LEMMA HandType ==
  ASSUME TypeInv, NEW c \in Callers, NEW b \in BOOLEAN, NEW i \in Callers \cup {None}, Hand(c, b, i)
  PROVE  returned' \in [Callers -> [builder : BOOLEAN, id : Callers \cup {None}]]
  BY DEF TypeInv, Hand

LEMMA TypeStep ==
  ASSUME TypeInv, CallInv, NEW c \in Callers, Step(c)
  PROVE  TypeInv'
<1> USE DEF TypeInv, Labels, shared, own, history, Goto, FailTo, Hand
<1>1. CASE Begin(c)
  <2>1. PICK x \in Calls : call' = [call EXCEPT ![c] = x] /\ pc' = [pc EXCEPT ![c] = First(x)]
    BY <1>1 DEF Begin
  <2>2. First(x) \in Labels
    BY CallType, PipelineAssumption DEF First, Builds, Configured, Creates
  <2> QED
    BY <1>1, <2>1, <2>2 DEF Begin
<1>2. CASE OpenStore(c)
  BY <1>2 DEF OpenStore, OptionsOf, Reject, LastOf
<1>3. CASE WriteTemp(c)
  BY <1>3 DEF WriteTemp, LastOf
<1>4. CASE BuildBegin(c)
  BY <1>4 DEF BuildBegin
<1>5. CASE BuildEnd(c)
  BY <1>5, TagType DEF BuildEnd
<1>6. CASE Unlink(c)
  BY <1>6 DEF Unlink, AfterBuild, LastOf
<1>7. CASE Push(c)
  <2>1. Ref(c) \in Refs /\ Store(c) \in Stores
    BY <1>7, PushType, StoreType DEF Push
  <2>2. tag[Store(c)][Ref(c)] \in Callers \cup {None}
    BY <2>1
  <2> QED
    BY <1>7, <2>1, <2>2 DEF Push, LastOf
<1>8. CASE Shutdown(c)
  BY <1>8 DEF Shutdown, ShutdownResult
<1>9. CASE BuildBase(c)
  BY <1>9 DEF BuildBase
<1>10. CASE NewBuilder(c)
  BY <1>10 DEF NewBuilder
<1>11. CASE Configure(c)
  <2>1. pc[c] \in Configuring => AfterStep[pc[c]] \in Labels
    BY DEF Configuring, AfterStep
  <2>2. returned' \in [Callers -> [builder : BOOLEAN, id : Callers \cup {None}]]
    BY <1>11, HandType DEF Configure, ConfigureFailed
  <2>3. pc' \in [Callers -> Labels] /\ \A k \in Callers : pc'[k] # "idle" => pc[k] # "idle"
    BY <1>11, <2>1 DEF Configure, ConfigureFailed, Configuring
  <2> QED
    BY <1>11, <2>2, <2>3 DEF Configure, ConfigureFailed
<1>12. CASE Commit(c)
  <2>1. returned' \in [Callers -> [builder : BOOLEAN, id : Callers \cup {None}]]
    BY <1>12, HandType DEF Commit
  <2>2. tag' \in [Stores -> [Refs -> Callers \cup {None}]] /\ rival' \in [Callers -> BOOLEAN]
    BY <1>12, TagType DEF Commit
  <2> QED
    BY <1>12, <2>1, <2>2 DEF Commit
<1>13. CASE OpenArchive(c)
  <2>1. File(c) \in Files
    BY <1>13, FileType DEF OpenArchive, CallInv, Way
  <2>2. archive' \in [Files -> [of : Callers \cup {None}, state : {"none", "part", "whole", "mixed"}]]
    BY <1>13, <2>1 DEF OpenArchive, Opened
  <2>3. rival' \in [Callers -> BOOLEAN]
    BY <1>13 DEF OpenArchive
  <2>4. returned' \in [Callers -> [builder : BOOLEAN, id : Callers \cup {None}]]
    BY <1>13, HandType DEF OpenArchive
  <2> QED
    BY <1>13, <2>2, <2>3, <2>4 DEF OpenArchive
<1> DEFINE Entries == [of : Callers \cup {None}, state : {"none", "part", "whole", "mixed"}]
<1>14. CASE Export(c)
  <2>1. File(c) \in Files
    BY <1>14, FileType DEF Export, CallInv, Way
  <2>2. /\ [of |-> Exported(c), state |-> "whole"] \in Entries
        /\ [archive[File(c)] EXCEPT !.state = "mixed"] \in Entries
    BY <2>1 DEF Exported
  <2>3. archive' \in [Files -> Entries]
    BY <1>14, <2>2 DEF Export
  <2> QED
    BY <1>14, <2>3 DEF Export
<1>15. CASE Close(c)
  <2>1. File(c) \in Files
    BY <1>15, FileType DEF Close, CallInv, Way
  <2>2. \A x \in {"none", "part", "whole", "mixed"} :
          [archive[File(c)] EXCEPT !.state = x] \in Entries
    BY <2>1
  <2>3. archive[File(c)].state \in {"none", "part", "whole", "mixed"}
    BY <2>1
  <2>4. archive' \in [Files -> Entries]
    BY <1>15, <2>2, <2>3 DEF Close
  <2>5. returned' \in [Callers -> [builder : BOOLEAN, id : Callers \cup {None}]]
    BY <1>15, HandType DEF Close
  <2> QED
    BY <1>15, <2>4, <2>5 DEF Close, Return
<1> QED
  BY <1>1, <1>2, <1>3, <1>4, <1>5, <1>6, <1>7, <1>8, <1>9, <1>10, <1>11, <1>12, <1>13,
     <1>14, <1>15 DEF Step

LEMMA BeginStep ==
  ASSUME TypeInv, CallInv, NEW c \in Callers, Begin(c)
  PROVE  Way(c)' /\ Blame(c)' /\ Keeps(c)'
<1> USE DEF Builds, Creates, Configured
<1>1. PICK x \in Calls : call' = [call EXCEPT ![c] = x] /\ pc' = [pc EXCEPT ![c] = First(x)]
  BY DEF Begin
<1>2. First(x) \in {"open", "temp", "push", "builder", "base", "err"}
  BY CallType, PipelineAssumption DEF First
<1>3. First(x) = "open" => x.kind = "userNamespace" /\ ~Blank(x.config.outputRef)
  BY CallType, PipelineAssumption DEF First
<1>4. First(x) = "temp" => /\ x.kind \in Builds /\ x.kind # "userNamespace"
                           /\ x.kind = "buildUserNamespace" => BuildAccepts(x.config)
  BY CallType, PipelineAssumption DEF First
<1>5. First(x) = "push" => x.kind = "push"
  BY CallType, PipelineAssumption DEF First
<1>6. First(x) \in {"builder", "base"} => x.kind \in Creates
  BY CallType, PipelineAssumption DEF First
<1>7. First(x) = "err" =>
        \/ x.kind = "userNamespace" /\ Blank(x.config.outputRef)
        \/ x.kind = "buildUserNamespace" /\ ~BuildAccepts(x.config)
  BY CallType, PipelineAssumption DEF First
<1>8. /\ pc[c] = "idle" /\ pc'[c] = First(x) /\ call'[c] = x /\ ~failed'[c] /\ pushed'[c] = None
      /\ UNCHANGED <<dockerfile, container, struck, busy, returned>>
  BY <1>1 DEF Begin, TypeInv, CallInv, Way, shared, own, history
<1>9. Way(c)'
  BY <1>2, <1>3, <1>4, <1>5, <1>6, <1>7, <1>8 DEF Way, Kind, Rejected, Configuring
<1>10. Blame(c)'
  BY <1>2, <1>7, <1>8 DEF Blame, Kind, Rejected
<1>11. Keeps(c)'
  BY <1>2, <1>8 DEF CallInv, Keeps, Configuring
<1> QED
  BY <1>9, <1>10, <1>11

LEMMA CallStep ==
  ASSUME TypeInv, CallInv, TagInv, NEW c \in Callers, Step(c)
  PROVE  Way(c)' /\ Blame(c)' /\ Keeps(c)'
<1> SUFFICES ASSUME ~Begin(c) PROVE Way(c)' /\ Blame(c)' /\ Keeps(c)'
  BY BeginStep
<1>1. Way(c) /\ Blame(c) /\ Keeps(c)
  BY DEF CallInv
<1>2. call' = call
  BY DEF Step, OpenStore, OptionsOf, Reject, WriteTemp, BuildBegin, BuildEnd, Unlink, Push,
         Shutdown, BuildBase, NewBuilder, Configure, ConfigureFailed, Commit, OpenArchive,
         Export, Close, Goto, FailTo
<1>3. Kind(c)' = Kind(c) /\ (Rejected(c)' <=> Rejected(c)) /\ call'[c].config = call[c].config
  BY <1>2 DEF Kind, Rejected
<1>4. /\ pc \in [Callers -> Labels] /\ failed \in [Callers -> BOOLEAN]
      /\ pushed \in [Callers -> Callers \cup {None}] /\ returned \in [Callers -> [builder : BOOLEAN, id : Callers \cup {None}]]
      /\ busy \in [Callers -> BOOLEAN] /\ struck \in [Callers -> BOOLEAN]
  BY DEF TypeInv
<1> USE <1>1, <1>3, <1>4 DEF shared, own, history, Goto, FailTo, Hand, Configuring
<1>5. CASE OpenStore(c)
  <2>1. StoreAccepts(call[c].config) /\ BuildAccepts(call[c].config) <=> ~Rejected(c)
    BY <1>5 DEF OpenStore, Way, Rejected, Kind, Configured
  <2> USE <2>1
  <2>2. Way(c)'
    BY <1>5 DEF OpenStore, OptionsOf, Reject, LastOf, Way, Builds, Configured, Creates, Kind
  <2>3. Blame(c)'
    BY <1>5 DEF OpenStore, OptionsOf, Reject, LastOf, Way, Blame, Kind
  <2>4. Keeps(c)'
    BY <1>5 DEF OpenStore, OptionsOf, Reject, LastOf, Keeps
  <2> QED
    BY <2>2, <2>3, <2>4
<1>6. CASE WriteTemp(c)
  <2>1. Way(c)'
    BY <1>6 DEF WriteTemp, LastOf, Way, Builds, Configured, Creates, Kind
  <2>2. Blame(c)'
    BY <1>6 DEF WriteTemp, LastOf, Way, Blame, Kind
  <2>3. Keeps(c)'
    BY <1>6 DEF WriteTemp, LastOf, Keeps
  <2> QED
    BY <2>1, <2>2, <2>3
<1>7. CASE BuildBegin(c)
  <2>1. Way(c)'
    BY <1>7 DEF BuildBegin, Way, Builds, Configured, Creates
  <2>2. Blame(c)'
    BY <1>7 DEF BuildBegin, Way, Blame
  <2>3. Keeps(c)'
    BY <1>7 DEF BuildBegin, Keeps
  <2> QED
    BY <2>1, <2>2, <2>3
<1>8. CASE BuildEnd(c)
  <2>1. Way(c)'
    BY <1>8 DEF BuildEnd, Tag, Way, Builds, Configured, Creates
  <2>2. Blame(c)'
    BY <1>8 DEF BuildEnd, Tag, Way, Blame
  <2>3. Keeps(c)'
    BY <1>8 DEF BuildEnd, Tag, Keeps
  <2> QED
    BY <2>1, <2>2, <2>3
<1>9. CASE Unlink(c)
  <2>1. Way(c)'
    BY <1>9 DEF Unlink, Unlinked, AfterBuild, LastOf, Way, Builds, Configured, Creates, Kind
  <2>2. Blame(c)'
    BY <1>9 DEF Unlink, Unlinked, AfterBuild, LastOf, Way, Blame, Kind
  <2>3. Keeps(c)'
    BY <1>9 DEF Unlink, Unlinked, AfterBuild, LastOf, Keeps
  <2> QED
    BY <2>1, <2>2, <2>3
<1>10. CASE Push(c)
  <2>1. Ref(c) \in Refs /\ call[c] \in Calls
    BY <1>10, PushType DEF Push
  <2>2. Store(c) \in Stores /\ tag[Store(c)][Ref(c)] \in Callers \cup {None}
    BY <2>1, StoreType DEF TypeInv
  <2>3. tag[Store(c)][Ref(c)] = None => Kind(c) = "push"
    BY <1>10, <2>1 DEF Push, TagInv, OwnTag, Way, Builds, Configured
  <2> USE <2>2, <2>3
  <2>4. Way(c)'
    BY <1>10 DEF Push, LastOf, Way, Builds, Configured, Creates, Kind
  <2>5. Blame(c)'
    BY <1>10 DEF Push, LastOf, Way, Blame, Kind
  <2>6. Keeps(c)'
    BY <1>10 DEF Push, LastOf, Keeps
  <2> QED
    BY <2>4, <2>5, <2>6
<1>11. CASE Shutdown(c)
  <2>1. Way(c)'
    BY <1>11 DEF Shutdown, ShutdownResult, Way, Builds, Configured, Creates
  <2>2. Blame(c)'
    BY <1>11 DEF Shutdown, ShutdownResult, Way, Blame
  <2>3. Keeps(c)'
    BY <1>11 DEF Shutdown, ShutdownResult, Keeps
  <2> QED
    BY <2>1, <2>2, <2>3
<1>12. CASE BuildBase(c)
  <2>1. Way(c)'
    BY <1>12 DEF BuildBase, Way, Builds, Configured, Creates
  <2>2. Blame(c)'
    BY <1>12 DEF BuildBase, Way, Blame
  <2>3. Keeps(c)'
    BY <1>12 DEF BuildBase, Keeps
  <2> QED
    BY <2>1, <2>2, <2>3
<1>13. CASE NewBuilder(c)
  <2>1. Way(c)'
    BY <1>13 DEF NewBuilder, Way, Builds, Configured, Creates
  <2>2. Blame(c)'
    BY <1>13 DEF NewBuilder, Way, Blame
  <2>3. Keeps(c)'
    BY <1>13 DEF NewBuilder, Keeps
  <2> QED
    BY <2>1, <2>2, <2>3
<1>14. CASE Configure(c)
  <2>1. Way(c)'
    BY <1>14 DEF Configure, ConfigureFailed, AfterStep, Way, Builds, Configured, Creates
  <2>2. Blame(c)'
    BY <1>14 DEF Configure, ConfigureFailed, AfterStep, Way, Blame
  <2>3. Keeps(c)'
    BY <1>14 DEF Configure, ConfigureFailed, AfterStep, Keeps
  <2> QED
    BY <2>1, <2>2, <2>3
<1>15. CASE Commit(c)
  <2>1. Way(c)'
    BY <1>15 DEF Commit, Way, Builds, Configured, Creates
  <2>2. Blame(c)'
    BY <1>15 DEF Commit, Way, Blame
  <2>3. Keeps(c)'
    BY <1>15 DEF Commit, Keeps
  <2> QED
    BY <2>1, <2>2, <2>3
<1>16. CASE OpenArchive(c)
  <2>1. Way(c)'
    BY <1>16 DEF OpenArchive, Way, Builds, Configured, Creates
  <2>2. Blame(c)'
    BY <1>16 DEF OpenArchive, Way, Blame
  <2>3. Keeps(c)'
    BY <1>16 DEF OpenArchive, Keeps
  <2> QED
    BY <2>1, <2>2, <2>3
<1>17. CASE Export(c)
  <2>1. Way(c)'
    BY <1>17 DEF Export, Way, Builds, Configured, Creates
  <2>2. Blame(c)'
    BY <1>17 DEF Export, Way, Blame
  <2>3. Keeps(c)'
    BY <1>17 DEF Export, Keeps
  <2> QED
    BY <2>1, <2>2, <2>3
<1>18. CASE Close(c)
  <2>1. Way(c)'
    BY <1>18 DEF Close, Return, Way, Builds, Configured, Creates
  <2>2. Blame(c)'
    BY <1>18 DEF Close, Return, Way, Blame, Rejected, Kind, Creates, Configured
  <2>3. Keeps(c)'
    BY <1>18 DEF Close, Return, Keeps
  <2> QED
    BY <2>1, <2>2, <2>3
<1> QED
  BY <1>5, <1>6, <1>7, <1>8, <1>9, <1>10, <1>11, <1>12, <1>13, <1>14, <1>15, <1>16, <1>17, <1>18 DEF Step

-----------------------------------------------------------------------------
(* Tags and archives, as a step of call c leaves them *)

\* Only the end of a build and a commit set a tag, and what makes a rival of a call stays.
LEMMA StepTags ==
  ASSUME TypeInv, NEW c \in Callers, Step(c)
  PROVE  /\ \/ tag' = tag
            \/ Tag(c) /\ pc[c] \in {"building", "commit"}
         /\ \A k \in Callers : rival[k] => rival'[k]
  BY DEF TypeInv, Step, Begin, OpenStore, OptionsOf, Reject, WriteTemp, BuildBegin, BuildEnd,
         Unlink, Push, Shutdown, BuildBase, NewBuilder, Configure, ConfigureFailed, Commit,
         OpenArchive, Export, Close, FailTo, Tag, shared, history

LEMMA TagKept ==
  ASSUME TypeInv, CallInv, TagInv, NEW c \in Callers, NEW k \in Callers \ {c}, Step(c)
  PROVE  OwnTag(k)'
<1>1. Unmoved(k) /\ OwnTag(k)
  BY StepMovesOne DEF TagInv
<1>2. Kind(k)' = Kind(k) /\ Ref(k)' = Ref(k) /\ Store(k)' = Store(k)
  BY <1>1 DEF Unmoved, Kind, Ref, Store
<1>3. CASE tag' = tag
  BY <1>1, <1>2, <1>3, StepTags DEF Unmoved, OwnTag
<1>4. CASE Tag(c) /\ pc[c] \in {"building", "commit"}
  <2> SUFFICES ASSUME pc[k] \in {"unlink", "push"}, Ref(k) \in Refs, ~failed[k], Kind(k) \in Builds
               PROVE  /\ tag'[Store(k)][Ref(k)] # None
                      /\ ~rival'[k] => tag'[Store(k)][Ref(k)] = k
    BY <1>1, <1>2, StepTags DEF Unmoved, OwnTag
  <2>1. Store(c) \in Stores /\ Store(k) \in Stores
    BY <1>4, StoreType DEF TypeInv
  <2>2. CASE Store(k) = Store(c) /\ Ref(k) = Ref(c)
    <3>1. tag'[Store(k)][Ref(k)] = c
      BY <1>4, <2>1, <2>2 DEF Tag, TypeInv
    <3>2. rival'[k]
      BY <1>4, <2>2 DEF Tag, Between
    <3> QED
      BY <3>1, <3>2, PipelineAssumption
  <2>3. CASE ~(Store(k) = Store(c) /\ Ref(k) = Ref(c))
    <3>1. tag'[Store(k)][Ref(k)] = tag[Store(k)][Ref(k)]
      BY <1>4, <2>1, <2>3 DEF Tag, TypeInv
    <3> QED
      BY <1>1, <3>1, StepTags DEF OwnTag
  <2> QED
    BY <2>2, <2>3
<1> QED
  BY <1>3, <1>4, StepTags

LEMMA TagStep ==
  ASSUME TypeInv, CallInv, TagInv, NEW c \in Callers, Step(c)
  PROVE  OwnTag(c)'
<1>1. Way(c) /\ OwnTag(c)
  BY DEF CallInv, TagInv
<1>2. /\ pc \in [Callers -> Labels] /\ failed \in [Callers -> BOOLEAN]
      /\ pushed \in [Callers -> Callers \cup {None}]
  BY DEF TypeInv
<1> USE <1>1, <1>2 DEF shared, own, history, Goto, FailTo, OwnTag
<1>3. CASE Begin(c)
  <2>1. PICK x \in Calls : call' = [call EXCEPT ![c] = x] /\ pc' = [pc EXCEPT ![c] = First(x)]
    BY <1>3 DEF Begin
  <2>2. pc'[c] = First(x) /\ Kind(c)' = x.kind
    BY <1>3, <2>1 DEF Begin, TypeInv, Kind
  <2>3. First(x) \in {"open", "temp", "push", "builder", "base", "err"}
    BY CallType, PipelineAssumption DEF First, Builds, Creates, Configured
  <2>4. First(x) = "push" => x.kind \notin Builds
    BY CallType, PipelineAssumption DEF First, Builds, Creates, Configured
  <2> QED
    BY <2>2, <2>3, <2>4
<1>4. CASE ~Begin(c)
  <2>1. call' = call
    BY <1>4 DEF Step, OpenStore, OptionsOf, Reject, WriteTemp, BuildBegin, BuildEnd, Unlink, Push,
                Shutdown, BuildBase, NewBuilder, Configure, ConfigureFailed, Commit, OpenArchive,
                Export, Close
  <2>2. Kind(c)' = Kind(c) /\ Ref(c)' = Ref(c) /\ Store(c)' = Store(c)
    BY <2>1 DEF Kind, Ref, Store
  <2> USE <2>2
  <2>3. CASE BuildEnd(c)
    <3>1. CASE Tag(c)
      <4>1. Store(c) \in Stores
        BY <2>3, StoreType DEF BuildEnd, TypeInv
      <4>2. Ref(c) \in Refs => tag'[Store(c)][Ref(c)] = c
        BY <3>1, <4>1 DEF Tag, TypeInv
      <4> QED
        BY <2>3, <4>2, PipelineAssumption DEF BuildEnd
    <3> QED
      BY <2>3, <3>1 DEF BuildEnd
  <2>4. CASE Unlink(c)
    BY <2>4 DEF Unlink, AfterBuild, LastOf, Kind
  <2>5. CASE Push(c)
    <3>1. Ref(c) \in Refs
      BY <2>5, PushType DEF Push
    <3> QED
      BY <2>5, <3>1 DEF Push, LastOf, Way, Builds, Configured, Kind
  <2>6. CASE Shutdown(c)
    BY <2>6 DEF Shutdown, ShutdownResult
  <2>7. CASE OpenStore(c)
    BY <2>7 DEF OpenStore, OptionsOf, Reject, LastOf
  <2>8. CASE WriteTemp(c) \/ BuildBegin(c)
    BY <2>8 DEF WriteTemp, LastOf, BuildBegin
  <2>9. CASE BuildBase(c) \/ NewBuilder(c) \/ Commit(c) \/ OpenArchive(c) \/ Export(c)
    BY <2>9 DEF BuildBase, NewBuilder, Commit, OpenArchive, Export
  <2>10. CASE Configure(c)
    <3>1. pc[c] \in Configuring => AfterStep[pc[c]] \in {"add", "chmod", "install", "commit"}
      BY DEF Configuring, AfterStep
    <3> QED
      BY <2>10, <3>1 DEF Configure, ConfigureFailed
  <2>11. CASE Close(c)
    BY <2>11 DEF Close, Return, Way, Creates
  <2> QED
    BY <1>4, <2>3, <2>4, <2>5, <2>6, <2>7, <2>8, <2>9, <2>10, <2>11 DEF Step
<1> QED
  BY <1>3, <1>4

LEMMA ArchiveKept ==
  ASSUME TypeInv, CallInv, ArchiveInv, NEW c \in Callers, NEW k \in Callers \ {c}, Step(c)
  PROVE  OwnArchive(k)'
<1>1. Unmoved(k) /\ OwnArchive(k) /\ OwnArchive(c)
  BY StepMovesOne DEF ArchiveInv
<1>2. \A j \in Callers \ {c} : pc'[j] = pc[j] /\ File(j)' = File(j)
  BY StepMovesOne DEF Unmoved, File, Ref
<1>3. \A j \in Callers : rival[j] => rival'[j]
  BY StepTags
<1>4. CASE OpenArchive(c)
  <2>1. Ref(c)' = Ref(c) /\ File(c)' = File(c)
    BY <1>4 DEF OpenArchive, Goto, FailTo, File, Ref
  <2>2. CASE archive' = archive /\ pc'[c] \notin {"exporting", "close"}
    BY <1>1, <1>2, <1>3, <2>2 DEF OwnArchive, Unmoved
  <2>3. CASE /\ archive' = [archive EXCEPT ![File(c)] = Opened(c)]
             /\ \A j \in Writers(File(c)) \ {c} : rival'[j]
    <3>1. CASE File(k) = File(c) /\ pc[k] \in {"exporting", "close"}
      <4>1. rival'[k]
        BY <2>3, <3>1 DEF Writers
      <4> QED
        BY <4>1 DEF OwnArchive
    <3>2. CASE File(k) # File(c) /\ pc[k] \in {"exporting", "close"}
      <4>1. archive'[File(k)] = archive[File(k)]
        BY <2>3, <3>2, FileType, <1>1 DEF TypeInv, CallInv, Way
      <4> QED
        BY <1>1, <1>2, <1>3, <2>1, <3>2, <4>1 DEF OwnArchive, Unmoved
    <3>3. CASE pc[k] \notin {"exporting", "close"}
      BY <1>1, <3>3 DEF OwnArchive, Unmoved
    <3> QED
      BY <3>1, <3>2, <3>3
  <2> QED
    BY <1>4, <2>2, <2>3 DEF OpenArchive, FailTo, TypeInv, Writers
<1>5. CASE Export(c) \/ Close(c)
  <2>1. pc[c] \in {"exporting", "close"} /\ File(c)' = File(c)
    BY <1>5 DEF Export, Close, Goto, FailTo, File, Ref
  <2>2. CASE pc[k] \in {"exporting", "close"} /\ File(k) = File(c)
    BY <1>1, <1>3, <2>1, <2>2 DEF OwnArchive
  <2>3. CASE pc[k] \in {"exporting", "close"} /\ File(k) # File(c)
    <3>1. archive'[File(k)] = archive[File(k)]
      BY <1>5, <2>3, FileType DEF Export, Close, TypeInv, CallInv, Way
    <3> QED
      BY <1>1, <1>2, <1>3, <2>1, <2>3, <3>1 DEF OwnArchive, Unmoved
  <2>4. CASE pc[k] \notin {"exporting", "close"}
    BY <1>1, <2>4 DEF OwnArchive, Unmoved
  <2> QED
    BY <2>2, <2>3, <2>4
<1>6. CASE ~OpenArchive(c) /\ ~Export(c) /\ ~Close(c)
  <2>1. archive' = archive
    BY <1>6 DEF Step, Begin, OpenStore, WriteTemp, BuildBegin, BuildEnd, Unlink, Push, Shutdown,
                BuildBase, NewBuilder, Configure, Commit, shared
  <2>2. pc'[c] \notin {"exporting", "close"}
    <3>1. pc[c] \in Configuring => AfterStep[pc[c]] \in {"add", "chmod", "install", "commit"}
      BY DEF Configuring, AfterStep
    <3>2. Begin(c) => pc'[c] \notin {"exporting", "close"}
      BY CallType, PipelineAssumption DEF Begin, First, TypeInv, Builds, Creates, Configured
    <3> QED
      BY <1>6, <3>1, <3>2
      DEF Step, OpenStore, OptionsOf, Reject, WriteTemp, BuildBegin, BuildEnd, Unlink,
          AfterBuild, LastOf, Push, Shutdown, ShutdownResult, BuildBase, NewBuilder, Configure,
          ConfigureFailed, Commit, Goto, FailTo, TypeInv
  <2> QED
    BY <1>1, <1>2, <1>3, <2>1, <2>2 DEF OwnArchive, Unmoved
<1> QED
  BY <1>4, <1>5, <1>6

LEMMA ArchiveStep ==
  ASSUME TypeInv, CallInv, ArchiveInv, NEW c \in Callers, Step(c)
  PROVE  OwnArchive(c)'
<1>1. OwnArchive(c) /\ \A k \in Callers \ {c} : pc'[k] = pc[k] /\ File(k)' = File(k)
  BY StepMovesOne DEF ArchiveInv, Unmoved, File, Ref
<1> USE DEF Goto, FailTo
<1>2. CASE OpenArchive(c)
  <2>1. File(c)' = File(c) /\ pc[c] = "export"
    BY <1>2 DEF OpenArchive, File, Ref
  <2>2. CASE pc'[c] = "err"
    BY <2>2 DEF OwnArchive
  <2>3. CASE pc'[c] = "exporting"
    <3>1. archive'[File(c)] = Opened(c)
      BY <1>2, <2>3, FileType DEF OpenArchive, TypeInv, CallInv, Way
    <3>2. Writers(File(c)) # {} => rival'[c]
      BY <1>2, <2>3 DEF OpenArchive, TypeInv
    <3>3. ASSUME NEW k \in Callers \ {c}, pc'[k] \in {"exporting", "close"}, File(k)' = File(c)'
          PROVE  k \in Writers(File(c))
      BY <1>1, <2>1, <3>3 DEF Writers
    <3> QED
      BY <2>1, <2>3, <3>1, <3>2, <3>3 DEF OwnArchive, Opened
  <2> QED
    BY <1>2, <2>2, <2>3 DEF OpenArchive, TypeInv
<1>3. CASE Export(c)
  <2>1. File(c) \in Files /\ File(c)' = File(c) /\ pc[c] = "exporting" /\ pc'[c] = "close"
    BY <1>3, FileType DEF Export, File, Ref, TypeInv, CallInv, Way
  <2>2. rival' = rival
    BY <1>3 DEF Export, history
  <2>3. ~rival[c] /\ ~struck'[c] => archive'[File(c)] = [of |-> c, state |-> "whole"]
    BY <1>1, <1>3, <2>1 DEF Export, Exported, OwnArchive, TypeInv
  <2> QED
    BY <1>1, <2>1, <2>2, <2>3 DEF OwnArchive
<1>4. CASE ~OpenArchive(c) /\ ~Export(c)
  <2>1. pc'[c] \notin {"exporting", "close"}
    <3>1. pc[c] \in Configuring => AfterStep[pc[c]] \in {"add", "chmod", "install", "commit"}
      BY DEF Configuring, AfterStep
    <3>2. Begin(c) => pc'[c] \notin {"exporting", "close"}
      BY CallType, PipelineAssumption DEF Begin, First, TypeInv, Builds, Creates, Configured
    <3> QED
      BY <1>4, <3>1, <3>2
      DEF Step, OpenStore, OptionsOf, Reject, WriteTemp, BuildBegin, BuildEnd, Unlink,
          AfterBuild, LastOf, Push, Shutdown, ShutdownResult, BuildBase, NewBuilder, Configure,
          ConfigureFailed, Commit, Close, Return, TypeInv
  <2> QED
    BY <2>1 DEF OwnArchive
<1> QED
  BY <1>2, <1>3, <1>4

-----------------------------------------------------------------------------
(* Every step *)

LEMMA StepInv ==
  ASSUME IInv, NEW c \in Callers, Step(c)
  PROVE  IInv'
<1>1. TypeInv'
  BY TypeStep DEF IInv
<1>2. CallInv'
  <2> SUFFICES ASSUME NEW k \in Callers PROVE Way(k)' /\ Blame(k)' /\ Keeps(k)'
    BY DEF CallInv
  <2>1. CASE k = c
    BY <2>1, CallStep DEF IInv
  <2>2. CASE k # c
    BY <2>2, StepMovesOne, UnmovedKeeps DEF IInv, CallInv
  <2> QED
    BY <2>1, <2>2
<1>3. TagInv'
  BY TagStep, TagKept DEF IInv, TagInv
<1>4. ArchiveInv'
  BY ArchiveStep, ArchiveKept DEF IInv, ArchiveInv
<1> QED
  BY <1>1, <1>2, <1>3, <1>4 DEF IInv

LEMMA RaceInv ==
  ASSUME IInv, Race
  PROVE  IInv'
<1> USE DEF Race, IInv, TypeInv, shared, own, Ended
<1>1. TypeInv'
  BY DEF Labels
<1>2. ASSUME NEW k \in Callers PROVE Way(k)' /\ Blame(k)' /\ Keeps(k)'
  <2>1. CASE pc[k] \in Ended \cup {"idle"}
    <3>1. Unmoved(k)
      BY <2>1 DEF Unmoved
    <3> QED
      BY <3>1, UnmovedKeeps DEF CallInv
  <2>2. CASE pc[k] \notin Ended \cup {"idle"}
    <3>1. /\ pc'[k] = "dead" /\ struck'[k] /\ Kind(k)' = Kind(k) /\ (Rejected(k)' <=> Rejected(k))
          /\ UNCHANGED <<failed, pushed, returned, busy, dockerfile, container>>
      BY <2>2 DEF Kind, Rejected
    <3> QED
      BY <3>1 DEF CallInv, Way, Blame, Keeps, Configuring
  <2> QED
    BY <2>1, <2>2
<1>3. TagInv'
  BY DEF TagInv, OwnTag, Kind, Ref, Store
<1>4. ArchiveInv'
  BY DEF ArchiveInv, OwnArchive
<1> QED
  BY <1>1, <1>2, <1>3, <1>4 DEF CallInv

LEMMA NextInv == IInv /\ [Next]_vars => IInv'
<1>1. ASSUME IInv, UNCHANGED vars PROVE IInv'
  BY <1>1 DEF vars, shared, own, history, IInv, TypeInv, CallInv, Way, Blame, Keeps, TagInv,
              OwnTag, ArchiveInv, OwnArchive, Kind, Rejected, Ref, Store, File
<1> QED
  BY <1>1, StepInv, RaceInv DEF Next, AllEnded

LEMMA SpecInv == Spec => []IInv
  BY InitInv, NextInv, PTL DEF Spec

-----------------------------------------------------------------------------
(* Theorems *)

\* The type invariant: a Dockerfile lasts from its creation to the deferred removal, and a
\* call configures and commits only a container that exists.
THEOREM TypeCorrect == Spec => []TypeOK
<1>1. IInv => TypeOK
  BY DEF IInv, TypeInv, CallInv, Keeps, TypeOK, Labels, Configuring, Ended
<1> QED
  BY <1>1, SpecInv, PTL

\* A build-and-push that returns nil has pushed what it built, unless another call built or
\* committed under its reference before the push (image_runtime.go:156-222).
THEOREM PushesItsBuild == Spec => []PushedIsBuilt
<1>1. IInv => PushedIsBuilt
  BY DEF IInv, TagInv, OwnTag, PushedIsBuilt, Kind
<1> QED
  BY <1>1, SpecInv, PTL

\* No call fails for a reason that is not its own, but for a shutdown that meets another
\* build in the store, after the push; no rejected config succeeds
\* (image_runtime.go:192-222).
THEOREM FailuresHaveCauses == Spec => []FailureHasACause
<1>1. IInv => FailureHasACause
  BY DEF IInv, CallInv, Blame, FailureHasACause, Kind
<1> QED
  BY <1>1, SpecInv, PTL

\* A working container that a failed call leaves behind is the caller's to delete
\* (buildconfig.go:351-382).
THEOREM ContainersAreReturned == Spec => []ContainerIsReturned
<1>1. IInv => ContainerIsReturned
  BY DEF IInv, CallInv, Keeps, ContainerIsReturned, Configuring
<1> QED
  BY <1>1, SpecInv, PTL

\* What a call that creates an image leaves in the archive is the image whose ID it returns,
\* without a rival for the file and an error of the close (buildconfig_runtime.go:55-73).
THEOREM ArchivesAreTheImages == Spec => ArchiveIsTheImage
<1> DEFINE A == \A c \in Callers :
                  /\ pc[c] = "close" /\ pc'[c] = "ok"
                  /\ ~rival'[c] /\ ~struck'[c]
                  => archive'[File(c)] = [of |-> returned'[c].id, state |-> "whole"]
<1>1. ASSUME IInv, [Next]_vars PROVE A
  <2> SUFFICES ASSUME NEW c \in Callers, pc[c] = "close", pc'[c] = "ok", ~rival'[c], ~struck'[c]
               PROVE  archive'[File(c)] = [of |-> returned'[c].id, state |-> "whole"]
    OBVIOUS
  <2>1. Close(c)
    <3>1. PICK k \in Callers : Step(k)
      BY <1>1 DEF Next, vars, AllEnded, Race, Ended, IInv, TypeInv
    <3>2. k = c
      BY <1>1, <3>1, StepMovesOne DEF IInv, Unmoved
    <3> QED
      BY <3>1, <3>2 DEF Step, Begin, OpenStore, WriteTemp, BuildBegin, BuildEnd, Unlink, Push,
                        Shutdown, BuildBase, NewBuilder, Configure, Commit, OpenArchive, Export,
                        Configuring
  <2>2. returned'[c].id = c /\ struck' = struck /\ archive' = archive /\ rival' = rival
    BY <1>1, <2>1 DEF Close, Hand, IInv, TypeInv
  <2> QED
    BY <1>1, <2>2 DEF IInv, ArchiveInv, OwnArchive
<1>2. IInv /\ [Next]_vars => [A]_vars
  BY <1>1
<1> QED
  BY <1>2, SpecInv, PTL DEF Spec, ArchiveIsTheImage

=============================================================================
