# podbridge5 in TLA+

podbridge5 is a Go library over the Podman bindings and Buildah: it creates
containers and pods, moves host folders into named volumes and back, builds and
exports images, and prepares task containers with an executor script and a
healthcheck. Its own logic is not in the requests it sends but in what happens
between them: a volume is looked up and then created, a container is created and
then started, a temporary file is written and then renamed, and other callers,
other processes, cancelled contexts and failing requests come in between. That is
what these modules model.

Contents: [Inventory](#inventory), [Modules](#modules), [Runs](#runs), [Fairness](#fairness),
[Proofs](#proofs), [Disagreements](#disagreements-with-comments-and-documents), [Not
modelled](#not-modelled), [Plan](#plan).

To check: `tlc -config <cfg> <module>` for each row of the table of runs, and `tlapm` on
each module that ends in `Proofs`.

## Inventory

| part | source | state | operations |
|---|---|---|---|
| volume transfer | `volume.go`, `volume_plan.go`, `volume_runtime.go` | the named volume and its files, one temporary container per call, a pipe and a goroutine per write, the counters of the retry loops | `CreateVolume`, `DeleteVolume`, `RemoveVolume`, `OverwriteVolume`, `VolumeExists`, `WriteFolderToVolume` in three modes, `ReadDataFromVolume` |
| container lifecycle | `container.go`, `container_runtime.go`, `init-container.go` | containers under their names | `CreateContainer`, `StartContainer`, `CreateInitContainer`, inspection and health |
| runtime | `rootless.go`, `connect_linux_5.go` | `initMu`, `initialized`, `pbCtx`, `pbStore` | `Init`, `InitWithContext`, `Shutdown` |
| connection policy | `runtime_init_policy.go`, the host check of the `Makefile` | the environment of the process | the precedence of connection sources, the check before the tests |
| executor file | `executor.go` | `executor.sh` and its temporary name, `user_script.txt` and `user_script.sh`, in one directory | `GenerateExecutor`, `ProcessScript` |
| executor and healthcheck | the script in `executor.go`, `healthcheck.sh`, `HealthCheckContainer` in `container.go` | the result log, the status log, its temporary file, the lock file, Podman's health log | a run of the executor, a healthcheck, the report on the latest one |
| govulncheck gate | `cmd/govulncheckgate/main.go` | the exceptions, the findings, which exceptions were used | one run of the gate |
| image build and push | `image.go`, `image_runtime.go`, `image_options.go` | a temporary Dockerfile, the tags of the stores, the registry, a package-level digester | `BuildDockerfileContent`, `PushImage`, `BuildAndPushUserNamespace`, `UserNamespaceRuntimeProfile` |
| build configuration and export | `buildconfig.go`, `buildconfig_runtime.go`, `image_builder_runtime.go`, `image_export_runtime.go` | a builder with its working container, an image, an archive file per base name | `CreateImage`, `CreateImageWithDockerfile`, `SaveImage` |
| remote VM helper | `hack/remotevm/main.go` | a virtual machine, its host, the files on both and under `artifacts` | `create`, `prepare`, `sync`, `run`, `run-integration`, `delete` |
| container specification | `container.go`, `resource.go`, `mount.go`, `runtime_contract.go`, `runtime_execution_policy.go` | one specification under construction | `NewSpec` with the options `With...`, `ParseHealthcheckConfig` |
| statistics | `resource.go` | one CSV file per path, a stream of reports | `LogContainerStatsToCSV` |
| pods, overlays, logging | `pod.go`, `mount.go`, `log.go` | none of their own | single requests, a mount |
| scripts and build files | `install.sh`, `executor.sh`, the workflows | none that lasts | commands run one after another |

**How the parts meet.** Everything goes through one Podman, whose names (volumes,
containers, images) are the shared state: no lock of the library protects them.
`Init` gives the connection every other call takes as its context, to the Podman that the
connection policy names. A volume write is a small client of the container bindings: it
creates, starts, copies into, stops and removes a container. The executor file is bound into
a container whose healthcheck is `healthcheck.sh`; the two scripts meet only in the status
log and its lock file, and `HealthCheckContainer` reads what the latest check has left in
Podman's log. The user script lies beside the executor, the statistics of the container go to a
third file on the host. An init container is an ordinary container with a fixed name. An image
is built into a store under a reference, looked up again by that reference to be pushed, and
exported by its ID into a file named after the reference. The remote VM helper runs the
repository's tests in a machine and brings their log back.

**What is hard, and what makes each part correct.**

* *Volume transfer.* Every decision is a check followed by an act. A forced
  removal kills the temporary containers of other calls. A lost reply makes the
  retry find nothing. The clean-up uses the context of the call. Correct means: nil
  is said only of a folder that has arrived whole, an overwrite never lands in the old
  data, a removal that says nil has removed, a skip never touches a volume somebody
  else made, and no container is left behind.
* *The streaming copy.* Two goroutines, a pipe without a buffer and an HTTP request
  close each other's ends. Correct means: it always comes to an end and nothing is lost
  silently.
* *Container lifecycle.* Two creates race for one name, the name found taken is free by the time
  it is inspected, a start fails after a create, the caller cancels. Correct means:
  create-if-absent, and nobody takes a container he has not made. The clean-up after a failed
  start cannot reach Podman (see [Disagreements](#disagreements-with-comments-and-documents)), so
  what is left of "leaves nothing" is that the caller is told.
* *Runtime.* Calls from many goroutines over one mutex, in an environment that may name
  several Podmans or none. Correct means: one store behind one connection, no half state
  after a failure, and a host check that says what the process will find.
* *Files of a task.* One temporary name for every executor, a text that is written in place,
  a log that is removed and then made anew, crashes between any two system calls. Correct
  means: what is under the final names is one complete script that can be executed, and a
  log that is reported written holds its own rows and no others.
* *Executor and healthcheck.* Two programs under `set -e`, restarts on the files of an
  earlier run, a report that is read some time after the check it is of. Correct means: the
  recorded code is the one of the run that recorded it, reports are earned, nobody waits for
  ever.
* *Gate.* The groups come in the order of a Go map while the used flags are shared
  between them. Correct means: pass only what is approved, warn only of what is unused.
* *Image pipeline.* Tags and archive files belong to whoever wrote them last; the store is
  shut down while others build in it; a step fails when a working container or a temporary
  file exists; one config is turned into the options of a build in one place and into a
  forecast of them in another. Correct means: what is pushed and exported is what was built, a
  failure has a cause, everything made on the way goes or is handed to the caller, and the
  forecast is true.
* *Specification.* Options in any order on one record, some of which set what others rely on,
  and 64-bit arithmetic. Correct means: what `NewSpec` returns is a specification Podman can
  use, and a quota is the one that was asked for.
* *Remote VM.* Logs and archives of earlier commands lie in three places, connections
  break while scripts go on, and `log.Fatal` skips deferred calls. Correct means: a verdict
  is that of the command's own tests, and a tree that is synced is one whole tree.

`PROJECT.json` lists every hazard at its line with the properties that cover it.

## Modules

| module | models | abstracts |
|---|---|---|
| `ArchiveCopy` | what a copy of a folder promises: in order, nothing twice, "ok" only for the whole | the abstract specification of the copy |
| `ArchiveStream` | `volume.go:264-381`: the producer goroutine, the pipe, the request, the waiting caller | entries are numbers; two of them may be under way in the request |
| `VolumeTransfer` | any number of calls of the volume API on one named volume | a file is the call whose data it holds; a copy is one step per entry |
| `VolumeCopies` | the composition: each call of `VolumeTransfer` copies as `ArchiveCopy` says | |
| `VolumeTransferProofs` | theorems about `VolumeTransfer` and `VolumeCopies`: the invariants, the values its calls return, the refinement of `ArchiveCopy` | |
| `CreateIfAbsent` | what creating containers by name promises | the abstract specification of the lifecycle |
| `ContainerLifecycle` | `CreateContainer`, `StartContainer`, `CreateInitContainer` by concurrent callers | the spec of a container is its name |
| `ContainerLifecycleProofs` | theorems about `ContainerLifecycle`, with the refinement of `CreateIfAbsent`, and about `SpecOptions`, whose specification it creates a container from | |
| `ConnectionPolicy` | the connection target and the host check as functions of the environment | a socket is the directory it lies in, a value of a variable its text and the white space around it |
| `RuntimeInit` | `Init`, `InitWithContext`, `Shutdown` by concurrent goroutines, in an environment of `ConnectionPolicy` | a connection is the call that made it |
| `RuntimeInitProofs` | theorems about `RuntimeInit` | |
| `ArchiveStreamProofs` | theorems about `ArchiveStream`, with the refinement of `ArchiveCopy` | |
| `ExecutorFile` | `GenerateExecutor` by callers and processes on one directory | a script is its length: which one covers the other is all that matters |
| `UserScript` | `ProcessScript` by callers and processes on the same directory | as above; what `bash -n` accepts is a set |
| `StatsLog` | `LogContainerStatsToCSV` by callers and processes on one path | a row is the report it is of, and may be cut |
| `HostFiles` | the composition: calls of the three functions side by side | the calls share the host and no name |
| `HostFilesProofs` | theorems about `HostFiles`, and with it about its three components | |
| `ExecutorHealth` | `executor.sh` and `healthcheck.sh` in one container, over its restarts, and the report on the latest check | a step is one command |
| `ExecutorHealthProofs` | theorems about `ExecutorHealth` | |
| `BuildOptions` | a `UserNamespaceBuildConfig` as store options, build options, environment and profile | strings by what `TrimSpace` and the reference parser make of them |
| `ImagePipeline` | builds, pushes, creates and exports by concurrent callers on two stores, configured by `BuildOptions` | an image is the call that built it |
| `ImagePipelineProofs` | theorems about `ImagePipeline` and `BuildOptions` | |
| `SpecOptions` | `NewSpec` and its options, the healthcheck policy, the CPU limits | strings are constants; integers have their widths |
| `RemoteVM` | the commands of the remote VM helper, one after another, and their scripts in the machine | a file carries the number of the command that made it |
| `VulnGate` | the gate from its two inputs to its exit status | a package is the sequence of its path elements |
| `CommandProofs` | theorems about the two commands outside the library, `RemoteVM` and `VulnGate` | |
| `MCVolumeTransfer`, `MCContainerLifecycle`, `MCRuntimeInit`, `MCHostFiles`, `MCImagePipeline`, `MCVulnGate` | symmetry and values of constants | |

**How a module corresponds to the code.** An action of `VolumeTransfer` or `ContainerLifecycle` is
one Podman request together with the Go code that runs up to the next one, since only a request
lets others see or change the shared state; `pc[c]` names the request a call is about to make and
`"ok"`, `"err"` (and `"exists"`, or `"left"` for the error of a start joined with that of the
removal after it) its return value. An action of `ImagePipeline` is one operation on a store, the
registry or a file. An action of `ExecutorFile`, `UserScript` and `StatsLog` is one system call on
a name, and `HostFiles` lets each call take the steps of one of the three. An action of
`SpecOptions` is one option, applied to the specification that those before it have left. An
action of `ExecutorHealth` is one shell command, and one of `ArchiveStream` one operation on the
pipe or one step of the request. An action of `RuntimeInit` is a section between a lock, a request
and an unlock. An action of `RemoteVM` is one command on the host, one transfer, or one command of
a script in the machine.

*Volumes have incarnations.* A removed and recreated volume has the same name and
other contents, and almost every question about `WriteFolderToVolume` is whether a
call still works on the incarnation it set out for. `VolumeTransfer` names an
incarnation by the call and the request that made it (`Instances`): the explicit
`volumes.Create`, or the container create that makes Podman create a missing volume
(`volume_runtime.go:44-50`, where the name alone is passed).

*The environment.* `Faults` says what may go wrong in a run: a request refused without
effect, a request whose reply is lost after its effect, a cancelled context, an unreadable
entry of the folder, an answer of Podman before the body has ended, errors whose
text holds "404" (`isNotFoundErr` searches the text), a killed process, a broken connection.
External parts (Podman, `io.Pipe`, `net/http`, Buildah's store, the kernel) are modelled by
how the code uses them and are marked external in the map. `Removable` and
`RemoveContainer` take Podman's rule that a volume in use, or a container that runs, is not
removed without force. `Race` of `ImagePipeline` is undefined behaviour of the code itself:
two builders adding files at a time share one package-level hash (`image.go:432`), and the
process may die of it.

*The copy is modelled twice.* In `VolumeTransfer` a copy is one atomic extraction per
entry and one return, because two calls' copies interleaving is enough there.
`ArchiveStream` shows that the goroutine, the pipe and the request do behave so:
`ImplementsCopy` maps the stream to `ArchiveCopy`, `CopiesAsPromised` maps each call of
`VolumeTransfer` to the same module.

*History variables* record what a property has to know of the past: `blind` in the lifecycle
(calls that never learnt of their container), `struck` in `RuntimeInit`, `raced`, `racedUser`,
`racedStats` and `struck` in `HostFiles` and its components, `rival`, `busy` and `struck` in
`ImagePipeline`, `overlap` and `struck` in `RemoteVM`. No guard reads them.

## Runs

A passing run checks the properties named; a violation run checks one statement made by
a comment or a message of the code, which the code does not keep.

| run | question | bounds |
|---|---|---|
| `VolumeTransfer_faults` | Do two calls of any operation keep the promises against every fault? | 2 calls, 2 entries, 3 attempts, three removal behaviours; 1.40 million states |
| `ArchiveStream_copy` | Does the stream implement the copy, and end? | 3 entries, 2 in the request; 3 thousand states |
| `ContainerLifecycle_faults` | Is create-if-absent implemented, and is what stays behind told of, against every fault? | 3 calls, 2 names; 0.30 million states |
| `RuntimeInit_faults` | One runtime, nothing half done, a host check that says what Init finds? | 3 calls, all 2464 environments; 2.51 million states |
| `ImagePipeline_races` | Is what is pushed, exported and handed back what was built? | 3 calls of 7 kinds, 2 references that share an archive file, configs that agree and disagree; 2.3 million states |
| `RemoteVM_session` | Are verdicts and synced trees those of their own command? | 3 commands; 0.93 million states |
| `HostFiles_race` | What is on the host when callers of three functions race, die or fail? | 3 callers, scripts of 2 lengths, 2 rows; 0.99 million states |
| `ExecutorHealth_restart` | Are recorded codes and verdicts right, and does everything end? | 3 starts, exit codes 0, 1 and 2; 0.53 million states |
| `VulnGate_small` | Does the gate pass only what is approved? | 2 exceptions, 2 messages; 0.63 million states |
| `VolumeTransfer_cleanup` | violation of `CleanupRemovesContainer` | a walk error is enough |
| `ExecutorHealth_failure` | violation of `FailureIsRecorded` | one start, no fault |
| `RemoteVM_run` | violation of `RunVerdictIsEarned` | three commands, no fault |

**What the properties say.**

* `VolumeTransfer`: `NilMeansWholeFolder` relates the value a write returns to what has been
  extracted and to what the volume then holds, path by path, through removals that kill its
  container, walk errors, cancellations and failing requests. It has two exceptions, each of one
  call: ModeSkip that found a volume writes nothing, and a call whose walk broke off may be told
  "ok" if Podman answered at the footer that `tw.Close` writes even then (`footer`), before the
  error reaches it. `OverwriteStartsFresh` relates the incarnation an overwrite mounts to the one
  there when it was called. `RemovalIsEffective` is about the return values of `RemoveVolume` and
  `DeleteVolume` with retries, `RetryForce` and `IgnoreNotFound` (leave out the test for "not
  found" and it breaks). `NoLeakedContainer` says exactly when a container may stay.
  `SkipWritesOnlyItsOwnVolume` shows that `IgnoreIfExists: false` is what protects a racing skip.
  `CopiesAsPromised` is the refinement. `TypeOK` holds the bounds of the retry loops.
* `ArchiveStream`: `NoSpuriousFailure` (the footer goes before the close),
  `ErrorsReachTheCaller`, `CallReturns` (the producer closes the pipe whatever has happened,
  which ends the body that Podman waits for, and closing either side frees a producer that is
  blocked, so `wg.Wait` ends), `ImplementsCopy`.
* `ContainerLifecycle`: `LeftoverIsReported` (the container of a failed start stays, its
  caller is told so, and no other call can have its name), `OkOwnsItsContainer`,
  `ImplementsCreateIfAbsent` ("exists" is answered only while somebody else owns the name).
* `RuntimeInit`: `OneRuntime` (one store behind one connection, after failures too),
  `HostCheckAgrees` (the check of the `Makefile` reads the environment in its own way: where it
  fails no `Init` succeeds, and where it passes no `Init` is without a Podman, but for white
  space in a variable, for a socket that only the check looks for, and for a fault). `TypeOK`
  has mutual exclusion.
* `ImagePipeline`: `PushedIsBuilt` (the push finds its image by name, so it holds only without a
  rival under the name), `FailureHasACause` (the one failure a call may meet through no step of
  its own is the shutdown of a store another build has in use, and its push is done by then; a
  push alone, which also fails where nothing is under its reference, is left out, and the layers
  of a build are taken to be mounted from its beginning to its end), `ContainerIsReturned` (on
  every error path the caller gets the builder it needs to remove the container),
  `ArchiveIsTheImage` (the export goes by ID, so a name taken by another call since the commit
  does no harm).
* `RemoteVM`: `VerdictIsEarned` and `SyncIsWhole` say that nothing earlier commands left in any of
  the three places stands in for a command's own log, coverage or archive. The coverage file is
  the exception: `main.go:363` removes the old log and not the old coverage, so a run whose tests
  come to nothing (no Go after a `prepare` that broke off at `main.go:89`) reports their failure
  and fetches an earlier coverage file with it. Both properties except a command that begins while
  the script of an earlier one, cut off from it, still goes on: that script then shares the tree
  and appends its `EXITCODE` to the newer log. `TypeOK` says when a temporary directory may stay.
* `HostFiles`: `InstalledIsWhole` and `OkInstallsMyScript` hold while calls of
  `GenerateExecutor` come one at a time, wherever they die (`raced` remembers that two have
  overlapped). `RacersSucceed` is what is left when they race and the system fails none of
  them. Two callers that race with *different* scripts can install a mixture of both; nothing
  in the repository promises otherwise, so no property says so. `OnlyCheckedScripts` holds
  however calls race and die, since `ProcessScript` has a temporary name of its own for each;
  `ScriptIsMine` ties the executable script to the text beside it, which is written in place.
  `RowsAreTheReports` relates the file a call leaves to the reports it has received.
* `ExecutorHealth`: `StatusIsItsAuthors`, `ReportIsEarned`, `EveryoneEnds`. `ReportIsEarned` is
  about what a caller of `HealthCheckContainer` is told in any start of the container: it reads
  the entry of the latest check, which a step of the executor may have outdated since. The
  entry remembers the run it was made in and the run whose status it rests on, so that the
  property can name its exceptions: a check that read the status log of an earlier run
  (`executor.go:45-46` clears the result log and not the status log, and until the executor
  replaces it the check cannot know), a report of an earlier start, a process that `ps` finds
  waiting, and a log or a lock file the check could not write, which under `set -e` ends it with
  1 (`healthcheck.sh:2`, 10-12, 18) beside an executor that runs well.
* `VulnGate`: `PassMeansApproved` compares the gate, which groups, matches and
  accumulates, with a direct reading of the exceptions' own rule; `WarningsAreTrue` is about
  flags shared between groups that come in any order; it says nothing of an exception that
  has expired. A stream that is cut between two messages is well formed, and neither the gate
  nor the property can tell.

**Why the bounds are enough.** A call of `VolumeTransfer` meets another one in the
volume and in its container only: with two calls every pair of requests meets in every
order. Chains of three (remove, recreate, mount) occur too, since an overwrite removes and
creates by itself and a container create makes a missing volume. Two entries are enough for
a copy that is partly done, three attempts for a retry that fails, loses a reply and then
finds nothing. The theorems below hold for any number of each. In `ContainerLifecycle` the
third call takes a name whose container somebody has just removed. In `ImagePipeline` the third call
takes the tag or the archive file while one builds and another pushes, exports or shuts the
store down. Three commands of `RemoteVM` are one to prepare the machine (or to break
off), one to leave something behind and one to find it. Three callers of `GenerateExecutor`
allow one to die, a second to inherit its file and a third to find the result; the other two
functions of `HostFiles` need no more, and two rows let a log be cut in its middle. Three starts
of a container let a code outlive one run that is killed. In `ArchiveStream`, one entry
extracted, one in the request and one in the pipe are three. Two messages and two exceptions
make two groups with an exception that fits either, both or none. The counters are bounded by
the code itself (entries, attempts) or by a constant named as a bound (`MaxRuns`,
`MaxCommands`, `MaxExceptions`, `MaxMessages`). Symmetry is used in runs without liveness,
over calls or over identifiers, which no definition tells apart.

Every property has a mutant: a plausible slip in the code under which TLC finds it
violated. The mutants stand next to the definitions they change, marked `MUTANT of`.

## Fairness

Fairness is assumed where liveness is checked, and only for what the code or the system
drives on its own.

* `ArchiveStream`: weak fairness of the producer, of the request with Podman, and of the
  caller. A goroutine that can run does; the transport reads the body it was given and
  closes it; Podman works through what it received and answers once the body has ended. The
  faults are actions of their own and outside of it: a refusal of Podman (`Refuse`), its answer
  before the end of the body (`ReplyEarly`), a walk that breaks off, a cancellation, and the
  failure of `CopyFromArchiveWithOptions`, which is counted on (`CallerRuns`) only where the
  context is done already. So a producer that forgets to close the pipe is not saved by any of
  them, and that is the mutant of `CallReturns`.
* `ExecutorHealth`: weak fairness of the two programs, strong fairness of each `flock`,
  which the kernel grants to those who wait. That a user script ends is assumed: the
  executor has no timeout of its own.

## Proofs

All theorems are for every value of the constants that satisfies the assumption of the
component's module (`ConstantsAssumption`, `StreamAssumption`, `LifecycleAssumption`,
`RuntimeAssumption`, `HostFilesAssumption`, `HealthAssumption`, `PipelineAssumption`,
`RemoteAssumption`, `GateAssumption`), which the passing run over that module evaluates;
`SpecOptions` assumes nothing. A few theorems have a hypothesis of their own: `RemovalEffective`
excludes one fault, `ProfileForecastsTheBuild` is about the configs that both functions accept,
and those about `SpecOptions` are for the 64-bit numbers and durations a Go program can hold.
Each component has one inductive invariant; the theorems are its consequences.

`VolumeTransferProofs`, any number of calls, entries and attempts, any removal behaviours and
faults:

* `TypeCorrect`: `Spec => []TypeOK`. The part that is not typing is the bound on the
  failed attempts of each loop, which rests on `RetryTypes` (what a failed attempt leaves
  behind).
* `NoLeak`: `Spec => []NoLeakedContainer`. The property speaks of returned calls only and
  is not inductive. `ContainerInv` says what a call knows of its container at each label:
  none before it is created, one of two states between create and copy (a forced removal of
  the volume may have killed it, `DropKills`), and after the stop request only a done
  context or a fault lets it go on running.
* `OverwriteFresh`: `Spec => []OverwriteStartsFresh`. `IncarnationInv` says that the
  incarnation a call would make is unknown to everyone until it makes it, so names of
  incarnations are never reused; `FreshInv` carries the fact from the create to the mount.
  `StepFacts` sums up what any one step does to the volume, the history and the labels, so
  that the induction is over that summary and not over fifteen actions.

On top of these, what its calls return:

* `WholeFolder`: `Spec => []NilMeansWholeFolder`, with its two exceptions. `ResultInv` says what
  the pending result of a call means before it returns: "ok" only for a copy whose every entry
  was extracted, or one that Podman answered at the footer of a broken-off walk. `EndInv` says
  that nobody but ModeSkip ends with nil before it has mounted a volume, and `PlaceInv` that what
  a call had extracted is there, or a path of another call that mounts the same incarnation.
* `RemovalEffective`: `Spec => []RemovalIsEffective`, for any faults without the one that puts
  "404" into the text of an error that means something else. With it the property is false,
  since `isNotFoundErr` takes such an error for a missing volume. `RemovalInv` says where
  a removing call may be, and that "ok" means the incarnation it was called for is gone; that
  it does not come back is `IncarnationInv`.
* `SkipOwnsItsVolume`: `Spec => []SkipWritesOnlyItsOwnVolume`. `OpInv` says which operations come
  to the labels of a removal, and `SkipInv` that a skipping call which has passed its setup has
  itself made the volume that is there.
* `CopiesRefine`: `Spec => CopiesAsPromised`. `CopyInv` says that only writing calls copy and that
  Podman extracts nothing for a call that was told "ok"; under it every step of a call is a step
  of its `ArchiveCopy` or none. With `Refines` of `ArchiveStreamProofs` the copy of the whole
  transfer and that of the goroutine meet in one specification.

`ContainerLifecycleProofs`, any number of calls and names and any faults:

* `TypeCorrect`, `LeftoversReported`, `OkOwns`: the invariants `TypeOK`, `LeftoverIsReported` and
  `OkOwnsItsContainer`. `CallInv` says that a call has a name once it has begun, no
  container before its create request, and one, though it may be gone, when its start has
  failed; `OkInv` states ownership by the state of the container
  rather than by the owner of the name, which is what the removals of others change.
* `Refines`: `Spec => ImplementsCreateIfAbsent`. The mapping takes a call's answer to be its
  final label and the calls that took a name to be those with a container, alive or gone.
  `StepRefines` shows that each request is a step of `CreateIfAbsent` or a stutter, under the
  invariant.

`RuntimeInitProofs`, any number of calls, any faults and any set of environments:

* `TypeCorrect` and `RuntimeIsOne`. `OneRuntime` speaks of the moments when nobody is
  inside; `StoreInv` is what holds at every moment, with the fact that a call about to open
  the store has found the runtime down under the mutex it still holds.
* `HostChecked`: `Spec => []HostCheckAgrees`. `ReachInv` carries "the target can be
  reached" from the connect to the returned context, also when a later call returns a stored
  connection, and "it could not, or a fault struck" to the returned error; `ChecksAgree` is the
  comparison of the two ways to look for sockets, environment by environment.

`ArchiveStreamProofs`, any folder, any number of entries on the wire, any faults:

* `TypeCorrect`, `FailuresHaveFaults` (`NoSpuriousFailure`), `ErrorsArrive`
  (`ErrorsReachTheCaller`). `OfferInv` says what a blocked write carries at each label of the
  producer, `PipeInv` what a closed end says of the side that closed it, `AnswerInv` what an
  answer of Podman rests on, and `CleanInv` that without a fault nothing has gone wrong.
* `Refines`: `Spec => ImplementsCopy`. Nearly every step of the goroutine, the pipe and the
  request is a stutter of the copy; what it takes is that an entry is never extracted after an
  answer, and that the walk has ended when the answer is "ok".

`HostFilesProofs`, any number of calls, any scripts and number of rows, any faults:

* `RacersDoSucceed`: `Spec => []RacersSucceed`. The property speaks of the moment when nobody is
  running any more. `WinnerInv` says what a call that gives up rests on: the temporary file it
  misses was taken by one that is past its rename or its comparison and can only succeed.
  `ModeInv` says that the installed file is executable or a `chmod` that will find it is to come,
  and `AgreedInv` that callers with one script write nothing else into any file, so that a file
  with a name is empty only before a write to it that is still to come.
* `InstalledWhole`, `OkInstalls`, `OnlyChecked`, `ScriptMine`, `RowsAreReports` and `TypeCorrect`.
  Each component has an invariant of its own (`ExecutorInv`, `UserInv`, `StatsInv` with
  `SoleStatsInv` and `LogInv`); the composition carries each over the steps of the others,
  as they share no variable, and `OneFunction` says that a call moves in one component only.
  The invariants of sole callers say how far the one running call has come and what its
  files hold at that label; none of the properties is inductive without them.

`ImagePipelineProofs`, any number of calls, kinds, references, configs and archive names:

* `TypeCorrect`, `PushesItsBuild` (`PushedIsBuilt`), `FailuresHaveCauses`
  (`FailureHasACause`), `ContainersAreReturned` (`ContainerIsReturned`) and
  `ArchivesAreTheImages` (`ArchiveIsTheImage`). `CallInv` says which way a call of each kind
  takes, what a failure was caused by and what the call still has to remove; `TagInv` what is
  under its reference between its build and its push; `ArchiveInv` that two writers of one
  file know each other as rivals.
* `ProfileForecastsTheBuild`: what `UserNamespaceRuntimeProfile` tells of a config is what the
  store and the build options made of that config have, for every config. It is not a property
  of a run: the checks of the two functions differ, and the theorem says for which configs
  both answer.

`ExecutorHealthProofs`, any number of starts of the container, any faults:

* `TypeCorrect`, `RecordedByItsAuthor` (`StatusIsItsAuthors`) and `ReportsAreEarned`
  (`ReportIsEarned`). `StatusInv` says what the executor has in hand at each of its commands,
  and that the temporary file and the status log hold the code of the run that wrote
  them; `CheckInv` what a check knows at each of its own commands, of which run the latest report
  is, and what has become of an executor for good once a code is known. The second is needed
  because the report is read long after the check that it is of.

`CommandProofs`, any commands, any number of them, any faults; and any exceptions file, any
stream:

* `RemoteTypeCorrect`, `VerdictsAreEarned` (`VerdictIsEarned`) and `SyncsAreWhole`
  (`SyncIsWhole`), from one invariant with a part for each thing that travels. `WayInv` says which
  way a command takes and how far its script must be at each place, `TmpInv` which directories
  exist, `ScriptInv` that without an overlap no script but the latest goes on. `SyncInv` follows
  the archive from the host into the worktree, `TestInv` the log and the coverage file in the
  machine, and `FetchInv` the two files on their way back, one after the other. `OnlyLatest`, that
  a script which steps without an overlap is the one of the latest command, is what
  the last three rest on.
* `PassesAreApproved` (`PassMeansApproved`) and `WarningsHold` (`WarningsAreTrue`). `DecodeInv` says
  what the findings decoded so far are; `EvaluateInv` that what is noted is exactly what the
  findings of the IDs done so far call for, whichever these are. `ParentIsPrefix` relates the walk
  up the parents of a package to the prefix the model compares.
* `OrderIsIrrelevant`: by the same invariant the complaints and the warnings are a function of the
  two inputs, so that the order of the Go map, which differs from run to run, cannot change the
  verdict. It is the converse of the two others as well: nothing is complained of without need.

`ContainerLifecycleProofs`, about `SpecOptions`, every string, every 64-bit integer:

* `QuotaIsExact` and `QuotaOverflows`: `WithNanoCPUs` sets the quota it should up to 92233 CPUs.
  Beyond that the product has overflowed and the quota is smaller than it should be, whatever
  the number; it is not positive up to twice that, and further up the wrapped quota may be
  positive again, and far too small.
* `AcceptedHealth`: what `ParseHealthcheckConfig` accepts has usable durations.
* `SpecIsUsable`: after any options in any order a quota has a period and shares have both, a
  destination has one volume, and a healthcheck is usable. Its invariant is the same three
  facts with the types of the fields they speak of.

`SpecOptions` is in no run, since its integers are wider than those of TLC. 2^63 stands as a
product of smaller numbers.

Model-checked only: the two liveness properties, `CallReturns` of `ArchiveStream` and
`EveryoneEnds` of `ExecutorHealth`, since liveness under fairness and ENABLED are beyond the
prover. Every other property of a passing run is a theorem.

## Disagreements with comments and documents

Checked by a violation run each, and listed under "findings":

* `VolumeTransfer_cleanup`: after a failed copy `WriteFolderToVolume` cancels its own
  context and the deferred clean-up then runs under it, so the container stays.
* `ExecutorHealth_failure`: under `set -euo pipefail` a failing user script ends the shell
  before its code is recorded, against the comment at `executor.go:75`.
* `RemoteVM_run`: the test command of `run` ends in a `chown` (`main.go:119`), whose status
  is the one recorded, so `run` reports success for tests that failed, against
  `main.go:385-386`.

Met while modelling, present in the models and not given a run of their own:

* `volume.go:252` mounts the volume by name some requests after it was recreated: two
  overwrites may both return nil having extracted into one volume, while `volume.go:30`
  speaks of replacing its data.
* `container_runtime.go:143`: a name taken between check and create gives an error that
  does not wrap `ErrContainerAlreadyExists` (`container.go:160-161`).
* `volume.go:26` says ModeSkip leaves a volume with *data* alone; `volume_plan.go:18-22`
  skips any volume that exists, also an empty one left by a write that failed.
* `rootless.go:62` joins `ErrRuntimeNotInitialized` to every error of the store's shutdown,
  also of a runtime that is initialised and busy (`docs/runtime-policy.en.md:47`).
* `rootless.go:33-35` returns the stored connection also when the context it was made from
  has been cancelled.
* `docs/runtime-policy.en.md:49-65` gives the host check and the code the same rules.
  `Makefile:155-158` accepts a socket under `/run` that a process with a runtime directory of
  its own never tries, and `Makefile:135-147` takes the variables as they are, while
  `runtime_init_policy.go:22` and `:30` trim them: with a blank `XDG_RUNTIME_DIR` or a padded
  `CONTAINER_HOST` the check may fail where `Init` succeeds.
* `container_runtime.go:96-97` removes the container of a failed start with
  `context.Background()`. The bindings find their connection in the context, and this one has
  none, so the removal always fails and the container keeps its name;
  `container_runtime_test.go:151-169` sees the removal of a fake that does not look at it.
* `hack/remotevm/main.go:363` removes the log of an earlier run before the tests, and not its
  coverage file.
* `cmd/govulncheckgate/main.go:219` fails the gate for an expired exception that matches,
  although another one covers the finding (the comment at 195-196 asks for one).
* `image_builder_runtime.go:62-68` runs `chmod 755` with the files of `PermissionFiles`
  behind it; an empty list makes a command that always fails.
* `image_options.go:330` sets `BUILDAH_RUNTIME` in the environment of a build without looking at
  `config.Runtime`, which the build options do follow: the two name different runtimes for a
  config that chooses one.
* `image.go:466` takes what follows the last ":" for a tag, so that a reference with a port and
  without a tag is cut inside its registry (`buildconfig.go:104`, `buildconfig.go:312`).
* `BuildDockerfileContentUserNamespace` accepts a config with a blank `outputRef`, where the
  function that also pushes refuses it.
* `resource.go:21-83`: a log returns nil also when rows could not be written in between;
  `RowsAreTheReports` says what it holds then.
* `container.go:183-200`: the report is that of the latest check, however long ago it was.
* `resource.go:138` and the conversion of `retries` in `runtime_contract.go`: a quota of 0 below
  10000 nanoCPUs and a wrong one above 92233 CPUs; a number of retries beyond an int
  becomes negative.
* `hack/remotevm/main.go:353-359`: a script cut off from its command appends its `EXITCODE`
  to whatever log is there when its tests end, which may be that of a newer command.

## Not modelled

* Pods: each function is one request without a decision. `MountOverlay` makes directories and
  one mount system call. `ReexecIfNeeded` replaces the process.
* The setters and `NewConfig` of `BuildConfig`, and the validation they share with the YAML
  reader: fields of a record that are filled in and tested for being empty.
* The classification of Buildah's errors by their text, `SaveImage` called on its own, and the
  functional options that copy files into an image.
* The text of the executor and of the Dockerfiles.
* A healthcheck that Podman kills at its timeout; the names of `CreateTemp`, which are taken to
  be new ones each time.
* `install.sh`, the hand-written `executor.sh`, workflows, tests, logging: no state that
  outlives a command.
* Delays: `withRetry` sleeps between attempts; time plays no other part than that anything
  may happen in between.

## Plan

1. Done: `VolumeTransfer` with `ArchiveCopy`, `ArchiveStream` and `VolumeCopies`; the
   lifecycle with `CreateIfAbsent`; `RuntimeInit` with `ConnectionPolicy`; `HostFiles` with
   `ExecutorFile`, `UserScript` and `StatsLog`; `ExecutorHealth` with the report; `VulnGate`;
   `ImagePipeline` with `BuildOptions`; `RemoteVM`; `SpecOptions`; the theorems above.
2. Theorems about the operators that runs only exercise: the precedence of `ConnectionPolicy`,
   the options of `BuildOptions` beyond the profile.
3. The composition of a task from end to end: an executor that `GenerateExecutor` has
   installed, bound into a container of `ContainerLifecycle` and run as `ExecutorHealth` has it.
4. The smaller requests: pods with their init containers on top of `ContainerLifecycle`.
