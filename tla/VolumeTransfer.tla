--------------------------- MODULE VolumeTransfer ---------------------------
(***************************************************************************)
(* Concurrent calls of the volume API of volume.go, volume_plan.go and     *)
(* volume_runtime.go on ONE named Podman volume: WriteFolderToVolume in    *)
(* its modes, ReadDataFromVolume, RemoveVolume, DeleteVolume, CreateVolume.*)
(*                                                                         *)
(* A call is a goroutine that runs one operation.  A step of a call is one *)
(* Podman request with the code that runs up to the next request; between  *)
(* two requests any other call, a cancellation or a failure may come in.   *)
(* Every write sends the same relative paths, the entries 1..Entries.      *)
(***************************************************************************)
EXTENDS Integers, FiniteSets

CONSTANTS
  Calls,          \* the calls made on the volume, each by its own goroutine
  Ops,            \* the operations that may be called (a subset of AllOps)
  Entries,        \* how many tar entries the host folder has
  RetryAttempts,  \* attempts of withRetry in VolumeExists and OverwriteVolume
  Behaviors,      \* the RemoveBehavior values given to RemoveVolume
  Faults,         \* what the environment may do (a subset of AllFaults)
  Nobody          \* no call: what a path holds before anyone wrote it

Modes  == {"skip", "update", "overwrite", "unknown"}
AllOps == Modes \cup {"read", "remove", "delete", "create"}

\* refuse:  Podman fails a request, which has no effect
\* lost:    a request takes effect but its reply does not reach the caller
\* cancel:  the caller cancels the context of a call that is running
\* walk:    walking the host folder fails part way
\* early:   the copy is answered at the tar footer, before the body ended
\* name404: the text of every error of a removal contains "404"
AllFaults == {"refuse", "lost", "cancel", "walk", "early", "name404"}

Behavior == [force : BOOLEAN, retryForce : BOOLEAN,
             ignoreNotFound : BOOLEAN, attempts : Nat]

\* What RemoveVolume goes by: Attempts <= 0 counts as 1.
NormalBehavior == {b \in Behavior : b.attempts # 0}
Normalized(b) == IF b.attempts = 0 THEN [b EXCEPT !.attempts = 1] ELSE b

ASSUME ConstantsAssumption ==
  /\ Ops \subseteq AllOps
  /\ Faults \subseteq AllFaults
  /\ Entries \in Nat
  /\ RetryAttempts \in Nat \ {0}
  /\ Behaviors \subseteq Behavior
  /\ Nobody \notin Calls

\* An incarnation of the volume, named by the call that made it and by the
\* request that did: volume create, or container create on a missing volume.
Instances == Calls \X {"volume", "container"}
NoVolume  == <<Nobody, "none">>

Final == {"ok", "err"}
Labels == {"idle", "check", "owCheck", "remove", "force", "delCheck",
           "delRemove", "create", "image", "ctrCreate", "start", "copyInit",
           "copy", "read", "stop", "rm"} \cup Final
ContainerStates == {"none", "created", "running", "extracting", "stopped", "gone"}
Live == {"created", "running", "extracting", "stopped"}

VARIABLES
  volume,    \* the incarnation under the name, or NoVolume
  content,   \* per incarnation and path, the call whose data it holds
  ctr,       \* the state of the temporary container of each call
  mount,     \* the incarnation that container mounts
  pc,        \* where each call is; "ok" and "err" are its return values
  op,        \* what each call runs
  beh,       \* the RemoveBehavior of its removal
  attempt,   \* attempts of the current withRetry loop that have failed
  ctxDone,   \* the context of the call is cancelled
  sent,      \* entries of the call's archive that have been extracted
  walkErr,   \* the producer hit a walk error
  footer,    \* Podman has answered the copy ok at the footer of a broken-off walk
  res,       \* the value the call returns once its cleanup has run
  before,    \* history: the incarnation present when the call began
  refused    \* history: a fault struck a request of the call

podman  == <<volume, content, ctr, mount>>
locals  == <<op, beh, attempt, ctxDone, sent, walkErr, footer, res>>
history == <<before, refused>>
vars    == <<podman, pc, locals, history>>

\* The type invariant; the attempts that failed stay below the number withRetry
\* was given (volume.go:448-475).
TypeOK ==
  /\ volume \in Instances \cup {NoVolume}
  /\ content \in [Instances -> [1..Entries -> Calls \cup {Nobody}]]
  /\ ctr \in [Calls -> ContainerStates]
  /\ mount \in [Calls -> Instances \cup {NoVolume}]
  /\ pc \in [Calls -> Labels]
  /\ op \in [Calls -> AllOps \cup {"none"}]
  /\ beh \in [Calls -> NormalBehavior]
  /\ attempt \in [Calls -> Nat]
  /\ \A c \in Calls :
       /\ pc[c] \in {"check", "owCheck"} => attempt[c] < RetryAttempts
       /\ pc[c] \in {"remove", "force"} => attempt[c] < beh[c].attempts
  /\ ctxDone \in [Calls -> BOOLEAN]
  /\ sent \in [Calls -> 0..Entries]
  /\ walkErr \in [Calls -> BOOLEAN]
  /\ footer \in [Calls -> BOOLEAN]
  /\ res \in [Calls -> Final]
  /\ before \in [Calls -> Instances \cup {NoVolume}]
  /\ refused \in [Calls -> BOOLEAN]

\* OverwriteVolume's removal: plain first, forced on failure, absence is fine.
OverwriteBehavior == [force |-> FALSE, retryForce |-> TRUE,
                      ignoreNotFound |-> TRUE, attempts |-> RetryAttempts]

Init ==
  /\ volume = NoVolume
  /\ content = [i \in Instances |-> [e \in 1..Entries |-> Nobody]]
  /\ ctr = [c \in Calls |-> "none"]
  /\ mount = [c \in Calls |-> NoVolume]
  /\ pc = [c \in Calls |-> "idle"]
  /\ op = [c \in Calls |-> "none"]
  /\ beh = [c \in Calls |-> OverwriteBehavior]
  /\ attempt = [c \in Calls |-> 0]
  /\ ctxDone = [c \in Calls |-> FALSE]
  /\ sent = [c \in Calls |-> 0]
  /\ walkErr = [c \in Calls |-> FALSE]
  /\ footer = [c \in Calls |-> FALSE]
  /\ res = [c \in Calls |-> "err"]
  /\ before = [c \in Calls |-> NoVolume]
  /\ refused = [c \in Calls |-> FALSE]

-----------------------------------------------------------------------------
(* Helpers *)

At(c, labels) == pc[c] \in labels
Goto(c, l) == pc' = [pc EXCEPT ![c] = l]

\* A request of c is hit by fault f: the history remembers it.
Struck(c, f) == f \in Faults /\ refused' = [refused EXCEPT ![c] = TRUE]

Exists == volume # NoVolume
Users(i) == {k \in Calls : mount[k] = i /\ ctr[k] \in Live}
HasData(i) == \E e \in 1..Entries : content[i][e] # Nobody

\* MUTANT of PlanVolumeSetup: ModeOverwrite reuses a volume it finds.
PlanOverwriteAsUpdate(mode, exists) ==
  CASE mode \in {"overwrite", "update"} -> IF exists THEN "Reuse" ELSE "Create"
    [] mode = "skip" -> IF exists THEN "Skip" ELSE "Create"
    [] OTHER         -> "Unknown"

\* planVolumeSetup, and where WriteFolderToVolume goes with its answer
PlanVolumeSetup(mode, exists) ==
  CASE mode = "overwrite" -> "Overwrite"
    [] mode = "skip"      -> IF exists THEN "Skip" ELSE "Create"
    [] mode = "update"    -> IF exists THEN "Reuse" ELSE "Create"
    [] OTHER              -> "Unknown"

\* MUTANT of SetupLabel: a volume that is reused is left as it is.
SetupLabelReuseDone(action) ==
  CASE action \in {"Skip", "Reuse"} -> "ok"
    [] action = "Create"    -> "create"
    [] action = "Overwrite" -> "owCheck"
    [] OTHER                -> "err"

SetupLabel(action) ==
  CASE action = "Skip"      -> "ok"
    [] action = "Create"    -> "create"
    [] action = "Reuse"     -> "image"
    [] action = "Overwrite" -> "owCheck"
    [] OTHER                -> "err"

\* MUTANT of Retry: one attempt too many.
RetryOnceMore(c, attempts, again, failed) ==
  IF attempt[c] < attempts
  THEN attempt' = [attempt EXCEPT ![c] = @ + 1] /\ Goto(c, again)
  ELSE attempt' = [attempt EXCEPT ![c] = 0] /\ Goto(c, failed)

\* withRetry: the attempt of c failed; go back to the label again while
\* attempts are left, give up at the label failed otherwise
Retry(c, attempts, again, failed) ==
  IF attempt[c] + 1 < attempts
  THEN attempt' = [attempt EXCEPT ![c] = @ + 1] /\ Goto(c, again)
  ELSE attempt' = [attempt EXCEPT ![c] = 0] /\ Goto(c, failed)

-----------------------------------------------------------------------------
(* Entry points *)

FirstLabel(o) ==
  CASE o \in Modes    -> "check"
    [] o = "read"     -> "image"
    [] o = "remove"   -> "remove"
    [] o = "delete"   -> "delCheck"
    [] o = "create"   -> "create"

\* The behaviors an operation may run with; DeleteVolume only chooses force.
BehaviorsOf(o) ==
  CASE o = "remove" -> {Normalized(b) : b \in Behaviors}
    [] o = "delete" -> {[OverwriteBehavior EXCEPT !.force = f] : f \in BOOLEAN}
    [] OTHER        -> {OverwriteBehavior}

\* A write whose host folder is not a directory returns before any request.
Begin(c) ==
  /\ pc[c] = "idle"
  /\ \E o \in Ops :
       /\ op' = [op EXCEPT ![c] = o]
       /\ \E b \in BehaviorsOf(o) : beh' = [beh EXCEPT ![c] = b]
       /\ \/ Goto(c, FirstLabel(o))
          \/ o \in Modes /\ Goto(c, "err")
  /\ attempt' = [attempt EXCEPT ![c] = 0]
  /\ before' = [before EXCEPT ![c] = volume]
  /\ UNCHANGED <<podman, ctxDone, sent, walkErr, footer, res, refused>>

-----------------------------------------------------------------------------
(* Volume setup *)

\* VolumeExists: once for the plan, once more inside OverwriteVolume
CheckExists(c) ==
  /\ At(c, {"check", "owCheck"})
  /\ \/ /\ ctxDone[c]
        /\ Goto(c, "err")
        /\ UNCHANGED <<attempt, refused>>
     \/ /\ ~ctxDone[c]
        /\ Goto(c, IF pc[c] = "check" THEN SetupLabel(PlanVolumeSetup(op[c], Exists))
                   ELSE IF Exists THEN "remove" ELSE "create")
        /\ attempt' = [attempt EXCEPT ![c] = 0]
        /\ UNCHANGED refused
     \/ /\ ~ctxDone[c]
        /\ Struck(c, "refuse")
        /\ Retry(c, RetryAttempts, pc[c], "err")
  /\ UNCHANGED <<podman, op, beh, ctxDone, sent, walkErr, footer, res, before>>

\* Podman deletes the volume; with force, the containers using it go first.
Removable(force) == Exists /\ (force \/ Users(volume) = {})

DropVolume ==
  /\ ctr' = [k \in Calls |-> IF k \in Users(volume) THEN "gone" ELSE ctr[k]]
  /\ volume' = NoVolume
  /\ UNCHANGED <<content, mount>>

\* Where a successful removal leads
Removed(c) == IF op[c] = "overwrite" THEN "create" ELSE "ok"

\* isNotFoundErr matches "404" or "not found" in the text of the error: it
\* may recognise a missing volume, and a text with "404" in it always passes.
IsNotFound(missing) == (IF missing THEN BOOLEAN ELSE {}) \cup {"name404" \in Faults}

\* MUTANT of RemoveFailed: IgnoreNotFound swallows every error.
RemoveFailedIgnored(c, missing) ==
  Retry(c, beh[c].attempts, "remove",
        IF beh[c].ignoreNotFound THEN Removed(c) ELSE "err")

\* A failed attempt of RemoveVolume, and what is left when it was the last.
RemoveFailed(c, missing) ==
  \E notFound \in IsNotFound(missing) :
    Retry(c, beh[c].attempts, "remove",
          IF beh[c].ignoreNotFound /\ notFound THEN Removed(c) ELSE "err")

\* The first request of an attempt, with the force the caller asked for
TryRemove(c) ==
  /\ pc[c] = "remove"
  /\ \/ /\ ctxDone[c]
        /\ Goto(c, "err")
        /\ UNCHANGED <<podman, attempt, refused>>
     \/ /\ ~ctxDone[c]
        /\ Removable(beh[c].force)
        /\ DropVolume
        /\ Goto(c, Removed(c))
        /\ attempt' = [attempt EXCEPT ![c] = 0]
        /\ UNCHANGED refused
     \/ /\ ~ctxDone[c]
        /\ \E missing \in BOOLEAN :
             /\ \/ /\ ~Removable(beh[c].force)
                   /\ missing = ~Exists
                   /\ UNCHANGED <<podman, refused>>
                \/ ~missing /\ Struck(c, "refuse") /\ UNCHANGED podman
                \/ ~missing /\ Removable(beh[c].force) /\ Struck(c, "lost") /\ DropVolume
             /\ IF beh[c].retryForce /\ ~beh[c].force
                THEN Goto(c, "force") /\ UNCHANGED attempt
                ELSE RemoveFailed(c, missing)
  /\ UNCHANGED <<op, beh, ctxDone, sent, walkErr, footer, res, before>>

\* The second request of an attempt: the same removal, forced
RetryForced(c) ==
  /\ pc[c] = "force"
  /\ \/ /\ ~ctxDone[c]
        /\ Removable(TRUE)
        /\ DropVolume
        /\ Goto(c, Removed(c))
        /\ attempt' = [attempt EXCEPT ![c] = 0]
        /\ UNCHANGED refused
     \/ /\ ~ctxDone[c] /\ ~Exists
        /\ RemoveFailed(c, TRUE)
        /\ UNCHANGED <<podman, refused>>
     \/ /\ \/ ctxDone[c] /\ UNCHANGED <<podman, refused>>
           \/ Struck(c, "refuse") /\ UNCHANGED podman
           \/ ~ctxDone[c] /\ Removable(TRUE) /\ Struck(c, "lost") /\ DropVolume
        /\ RemoveFailed(c, FALSE)
  /\ UNCHANGED <<op, beh, ctxDone, sent, walkErr, footer, res, before>>

\* DeleteVolume: one existence check, one removal, no retry
DeleteCheck(c) ==
  /\ pc[c] = "delCheck"
  /\ \/ ~ctxDone[c] /\ Exists /\ Goto(c, "delRemove") /\ UNCHANGED refused
     \/ (ctxDone[c] \/ ~Exists) /\ Goto(c, "err") /\ UNCHANGED refused
     \/ Struck(c, "refuse") /\ Goto(c, "err")
  /\ UNCHANGED <<podman, locals, before>>

DeleteRemove(c) ==
  /\ pc[c] = "delRemove"
  /\ \/ /\ ~ctxDone[c] /\ Removable(beh[c].force)
        /\ DropVolume
        /\ \/ Goto(c, "ok") /\ UNCHANGED refused
           \/ Goto(c, "err") /\ Struck(c, "lost")
     \/ /\ \/ (ctxDone[c] \/ ~Removable(beh[c].force)) /\ UNCHANGED refused
           \/ Struck(c, "refuse")
        /\ Goto(c, "err")
        /\ UNCHANGED podman
  /\ UNCHANGED <<locals, before>>

\* MUTANT of IgnoreIfExists: WriteFolderToVolume passes TRUE.
IgnoreIfExistsAlways(c) == TRUE

\* CreateVolume: ignoreIfExists is FALSE inside WriteFolderToVolume, and TRUE
\* is what the operation "create" passes
IgnoreIfExists(c) == op[c] = "create"

CreateVolume(c) ==
  LET created == IF op[c] = "create" THEN "ok" ELSE "image"
  IN
  /\ pc[c] = "create"
  /\ \/ /\ ~ctxDone[c] /\ ~Exists
        /\ volume' = <<c, "volume">>
        /\ \/ Goto(c, created) /\ UNCHANGED refused
           \/ Goto(c, "err") /\ Struck(c, "lost")
     \/ /\ ~ctxDone[c] /\ Exists
        /\ Goto(c, IF IgnoreIfExists(c) THEN created ELSE "err")
        /\ UNCHANGED <<volume, refused>>
     \/ /\ (ctxDone[c] /\ UNCHANGED refused) \/ Struck(c, "refuse")
        /\ Goto(c, "err")
        /\ UNCHANGED volume
  /\ UNCHANGED <<content, ctr, mount, locals, before>>

-----------------------------------------------------------------------------
(* startVolumeContainer *)

EnsureImage(c) ==
  /\ pc[c] = "image"
  /\ \/ ~ctxDone[c] /\ Goto(c, "ctrCreate") /\ UNCHANGED refused
     \/ ctxDone[c] /\ Goto(c, "err") /\ UNCHANGED refused
     \/ Struck(c, "refuse") /\ Goto(c, "err")
  /\ UNCHANGED <<podman, locals, before>>

\* Podman makes a named volume that the container mounts and that is missing.
CreateContainer(c) ==
  /\ pc[c] = "ctrCreate"
  /\ \/ /\ ~ctxDone[c]
        /\ volume' = IF Exists THEN volume ELSE <<c, "container">>
        /\ mount' = [mount EXCEPT ![c] = volume']
        /\ ctr' = [ctr EXCEPT ![c] = "created"]
        /\ \/ Goto(c, "start") /\ UNCHANGED refused
           \/ Goto(c, "err") /\ Struck(c, "lost")
     \/ /\ (ctxDone[c] /\ UNCHANGED refused) \/ Struck(c, "refuse")
        /\ Goto(c, "err")
        /\ UNCHANGED <<volume, mount, ctr>>
  /\ UNCHANGED <<content, locals, before>>

\* A failed start runs the cleanup at once and returns the error.
StartContainer(c) ==
  /\ pc[c] = "start"
  /\ \/ /\ ~ctxDone[c] /\ ctr[c] = "created"
        /\ ctr' = [ctr EXCEPT ![c] = "running"]
        /\ \/ Goto(c, IF op[c] = "read" THEN "read" ELSE "copyInit") /\ UNCHANGED refused
           \/ Goto(c, "stop") /\ Struck(c, "lost")
     \/ /\ \/ (ctxDone[c] \/ ctr[c] # "created") /\ UNCHANGED refused
           \/ Struck(c, "refuse")
        /\ Goto(c, "stop")
        /\ UNCHANGED ctr
  /\ UNCHANGED <<volume, content, mount, locals, before>>

-----------------------------------------------------------------------------
(* The copy.  ArchiveStream has the producer goroutine, the pipe and the    *)
(* request in detail; both implement ArchiveCopy.                           *)

CopyError(c) ==
  /\ ctxDone' = [ctxDone EXCEPT ![c] = TRUE]
  /\ Goto(c, "stop")

\* CopyFromArchiveWithOptions either starts the request or fails; on an error
\* WriteFolderToVolume cancels its own context before its cleanup runs.
CopyInit(c) ==
  /\ pc[c] = "copyInit"
  /\ \/ /\ ~ctxDone[c] /\ ctr[c] = "running"
        /\ ctr' = [ctr EXCEPT ![c] = "extracting"]
        /\ Goto(c, "copy")
        /\ UNCHANGED <<ctxDone, refused>>
     \/ /\ \/ (ctxDone[c] \/ ctr[c] # "running") /\ UNCHANGED refused
           \/ Struck(c, "refuse")
        /\ CopyError(c)
        /\ UNCHANGED ctr
  /\ UNCHANGED <<volume, content, mount, op, beh, attempt, sent, walkErr, footer, res, before>>

\* Podman extracts one more entry into the mounted incarnation.  What it has
\* received it may still extract after the caller has given up.
Extract(c) ==
  /\ ctr[c] = "extracting"
  /\ sent[c] < Entries
  /\ ~walkErr[c]
  /\ sent' = [sent EXCEPT ![c] = @ + 1]
  /\ content' = [content EXCEPT ![mount[c]][sent[c] + 1] = c]
  /\ UNCHANGED <<volume, ctr, mount, pc, op, beh, attempt, ctxDone, walkErr, footer, res, history>>

WalkError(c) ==
  /\ "walk" \in Faults
  /\ pc[c] = "copy" /\ ~walkErr[c]
  /\ walkErr' = [walkErr EXCEPT ![c] = TRUE]
  /\ UNCHANGED <<podman, pc, op, beh, attempt, ctxDone, sent, footer, res, history>>

\* An archive that broke off between two entries still ends in a footer: Podman
\* may answer there, before the error that the pipe is closed with arrives.
AnswerAtFooter(c) ==
  /\ "early" \in Faults
  /\ pc[c] = "copy" /\ walkErr[c] /\ ctr[c] = "extracting" /\ ~footer[c]
  /\ footer' = [footer EXCEPT ![c] = TRUE]
  /\ UNCHANGED <<podman, pc, op, beh, attempt, ctxDone, sent, walkErr, res, history>>

\* MUTANT of Copied: the error of the copy function is not looked at.
CopiedUnchecked(c) == TRUE

Copied(c) == IF walkErr[c] THEN footer[c] ELSE sent[c] = Entries

CopyReturn(c) ==
  /\ pc[c] = "copy"
  /\ \/ /\ ~ctxDone[c] /\ ctr[c] = "extracting" /\ Copied(c)
        /\ ctr' = [ctr EXCEPT ![c] = "running"]
        /\ res' = [res EXCEPT ![c] = "ok"]
        /\ Goto(c, "stop")
        /\ UNCHANGED <<ctxDone, refused>>
     \/ /\ \/ (ctxDone[c] \/ walkErr[c] \/ ctr[c] # "extracting") /\ UNCHANGED refused
           \/ Struck(c, "refuse")
        /\ CopyError(c)
        /\ UNCHANGED <<ctr, res>>
  /\ UNCHANGED <<volume, content, mount, op, beh, attempt, sent, walkErr, footer, before>>

\* ReadDataFromVolume: the archive of one path, looked up in what came back
ReadFile(c) ==
  /\ pc[c] = "read"
  /\ \/ /\ ~ctxDone[c] /\ ctr[c] = "running" /\ HasData(mount[c])
        /\ res' = [res EXCEPT ![c] = "ok"]
        /\ UNCHANGED refused
     \/ /\ \/ (ctxDone[c] \/ ctr[c] # "running" \/ ~HasData(mount[c])) /\ UNCHANGED refused
           \/ Struck(c, "refuse")
        /\ UNCHANGED res
  /\ Goto(c, "stop")
  /\ UNCHANGED <<podman, op, beh, attempt, ctxDone, sent, walkErr, footer, before>>

-----------------------------------------------------------------------------
(* The cleanup closure: both requests use the context of the call, and an   *)
(* error of either is only logged.                                          *)

\* MUTANT of StopContainer: the cleanup goes straight to the removal.
StopContainerSkipped(c) ==
  /\ pc[c] = "stop"
  /\ Goto(c, "rm")
  /\ UNCHANGED <<podman, locals, history>>

StopContainer(c) ==
  /\ pc[c] = "stop"
  /\ Goto(c, "rm")
  /\ \/ /\ ~ctxDone[c] /\ ctr[c] \in {"running", "extracting"}
        /\ ctr' = [ctr EXCEPT ![c] = "stopped"]
        /\ UNCHANGED refused
     \/ /\ \/ (ctxDone[c] \/ ctr[c] \notin {"running", "extracting"}) /\ UNCHANGED refused
           \/ Struck(c, "refuse")
        /\ UNCHANGED ctr
  /\ UNCHANGED <<volume, content, mount, locals, before>>

\* Without force, Podman refuses to remove a running container.
RemoveContainer(c) ==
  /\ pc[c] = "rm"
  /\ Goto(c, res[c])
  /\ \/ /\ ~ctxDone[c] /\ ctr[c] \in {"created", "stopped"}
        /\ ctr' = [ctr EXCEPT ![c] = "gone"]
        /\ UNCHANGED refused
     \/ /\ \/ (ctxDone[c] \/ ctr[c] \notin {"created", "stopped"}) /\ UNCHANGED refused
           \/ Struck(c, "refuse")
        /\ UNCHANGED ctr
  /\ UNCHANGED <<volume, content, mount, locals, before>>

\* The caller's context is cancelled while the call runs.
Cancel(c) ==
  /\ "cancel" \in Faults
  /\ pc[c] \notin {"idle"} \cup Final
  /\ ~ctxDone[c]
  /\ ctxDone' = [ctxDone EXCEPT ![c] = TRUE]
  /\ UNCHANGED <<podman, pc, op, beh, attempt, sent, walkErr, footer, res, history>>

-----------------------------------------------------------------------------

\* A step of the call's own code and of the request it waits for
Advance(c) ==
  \/ CheckExists(c) \/ TryRemove(c) \/ RetryForced(c)
  \/ DeleteCheck(c) \/ DeleteRemove(c) \/ CreateVolume(c)
  \/ EnsureImage(c) \/ CreateContainer(c) \/ StartContainer(c)
  \/ CopyInit(c) \/ CopyReturn(c) \/ ReadFile(c)
  \/ StopContainer(c) \/ RemoveContainer(c)

AllReturned ==
  /\ \A c \in Calls : pc[c] \in Final
  /\ UNCHANGED vars

Next ==
  \/ \E c \in Calls : \/ Begin(c) \/ Advance(c) \/ Extract(c)
                      \/ WalkError(c) \/ AnswerAtFooter(c) \/ Cancel(c)
  \/ AllReturned

Spec == Init /\ [][Next]_vars

-----------------------------------------------------------------------------
(* Properties *)

Returned(c) == pc[c] \in Final
Writes(c) == op[c] \in {"skip", "update", "overwrite"}

\* What a path of an incarnation may hold when nothing was lost: the data of a call
\* that mounts it and has had that entry extracted
WritersOf(i, e) == {k \in Calls : mount[k] = i /\ sent[k] >= e}

\* A write that returns nil has had its whole folder extracted, and every path of it
\* in the volume it was written to holds this data or that of another call that wrote
\* it there: an error of the walk, of the pipe or of Podman, a removal that killed its
\* container, a cancellation all reach the caller (volume.go:224-262, 360-375).  Two
\* exceptions: ModeSkip, which found a volume and wrote nothing, and the call whose
\* walk broke off and whose copy Podman had answered at the footer by then.
NilMeansWholeFolder ==
  \A c \in Calls :
    Writes(c) /\ pc[c] = "ok" =>
      \/ op[c] = "skip" /\ mount[c] = NoVolume
      \/ walkErr[c] /\ footer[c]
      \/ /\ mount[c] # NoVolume /\ sent[c] = Entries
         /\ \A e \in 1..Entries : content[mount[c]][e] \in WritersOf(mount[c], e)

\* ModeOverwrite never writes into the volume that existed when it was called,
\* whoever removes or creates volumes meanwhile: it always goes through a
\* create with IgnoreIfExists FALSE (volume.go:162-182, 239-242).
OverwriteStartsFresh ==
  \A c \in Calls :
    op[c] = "overwrite" /\ mount[c] # NoVolume => mount[c] # before[c]

\* The temporary container of a call that has returned is gone, unless the
\* context of the call was cancelled (by its caller or by itself after a copy
\* error) or a fault struck one of its requests (volume_runtime.go:106-121).
NoLeakedContainer ==
  \A c \in Calls :
    Returned(c) /\ ctr[c] \in Live => ctxDone[c] \/ refused[c]

\* RemoveVolume and DeleteVolume return nil only when the volume that existed
\* when they were called is gone (volume.go:105-160).
RemovalIsEffective ==
  \A c \in Calls :
    op[c] \in {"remove", "delete"} /\ pc[c] = "ok" =>
      before[c] = NoVolume \/ volume # before[c]

\* As long as nobody removes volumes, a ModeSkip call writes into no volume
\* but the one it created itself, however many calls race to create it
\* (volume_plan.go:18-22, volume.go:235).
SkipWritesOnlyItsOwnVolume ==
  (\A k \in Calls : op[k] \notin {"overwrite", "remove", "delete"}) =>
    \A c \in Calls :
      op[c] = "skip" /\ mount[c] # NoVolume => mount[c][1] = c

\* The cleanup stops and removes the container (volume_runtime_test.go:138-141,
\* 177): the one of a call that has returned is gone, however the copy went, unless
\* a fault struck one of the requests of the call.
CleanupRemovesContainer ==
  \A c \in Calls : Returned(c) /\ ctr[c] \in Live => refused[c]

=============================================================================
