------------------------- MODULE ContainerLifecycle -------------------------
(***************************************************************************)
(* Concurrent calls of CreateContainer, StartContainer and                 *)
(* CreateInitContainer (container.go, container_runtime.go,                *)
(* init-container.go) on one Podman.  A step is one Podman request with the*)
(* code up to the next one.  Containers come under names; a container is   *)
(* called by the call that created it, which creates at most one.          *)
(***************************************************************************)
EXTENDS FiniteSets

CONSTANTS
  Calls,     \* the calls, each with its own goroutine
  Names,     \* container names
  InitName,  \* the name all init containers share (init-container.go:25)
  Kinds,     \* the functions called, of {"create", "start", "init"}
  Faults,    \* what the environment may do (a subset of AllFaults)
  Nobody     \* no container

\* refuse: Podman fails a request, which has no effect
\* lost:   a request takes effect but its reply does not reach the caller
\* cancel: the caller cancels the context of a running call
\* remove: someone else removes a container by its name
AllFaults == {"refuse", "lost", "cancel", "remove"}

ASSUME LifecycleAssumption ==
  /\ InitName \in Names
  /\ Kinds \subseteq {"create", "start", "init"}
  /\ Faults \subseteq AllFaults
  /\ Nobody \notin Calls \cup Names

VARIABLES
  owner,    \* the container under each name, or Nobody
  ctr,      \* the state of the container of each call
  pc,       \* where each call is, or its answer
  kind,     \* which function it is
  name,     \* the name in its spec
  ctxDone,  \* its context is cancelled
  blind     \* history: the reply to its create request was lost

podman == <<owner, ctr>>
vars   == <<podman, pc, kind, name, ctxDone, blind>>

\* "left" is the error of a failed start joined with that of the removal that followed.
Answers == {"ok", "exists", "err", "left"}
Labels == {"idle", "check", "inspect", "image", "create", "start", "cleanup"} \cup Answers
Live == {"created", "running", "exited"}

\* The type invariant; a name and the container under it agree, and a call that is
\* about to start a container has one of its own.
TypeOK ==
  /\ owner \in [Names -> Calls \cup {Nobody}]
  /\ ctr \in [Calls -> {"none", "gone"} \cup Live]
  /\ pc \in [Calls -> Labels]
  /\ kind \in [Calls -> {"none", "create", "start", "init"}]
  /\ name \in [Calls -> Names \cup {Nobody}]
  /\ ctxDone \in [Calls -> BOOLEAN]
  /\ blind \in [Calls -> BOOLEAN]
  /\ \A n \in Names : \A c \in Calls :
       owner[n] = c <=> ctr[c] \in Live /\ name[c] = n
  /\ \A c \in Calls : pc[c] = "start" => ctr[c] \in {"created", "gone"}

Init ==
  /\ owner = [n \in Names |-> Nobody]
  /\ ctr = [c \in Calls |-> "none"]
  /\ pc = [c \in Calls |-> "idle"]
  /\ kind = [c \in Calls |-> "none"]
  /\ name = [c \in Calls |-> Nobody]
  /\ ctxDone = [c \in Calls |-> FALSE]
  /\ blind = [c \in Calls |-> FALSE]

Goto(c, l) == pc' = [pc EXCEPT ![c] = l]

\* A request of c does not go through: its context is done, or Podman fails it.
NoReply(c) == ctxDone[c] \/ "refuse" \in Faults

-----------------------------------------------------------------------------

\* A spec that does not validate, or lacks a name or an image, fails at once.
Begin(c) ==
  /\ pc[c] = "idle"
  /\ \E k \in Kinds, n \in Names :
       /\ k = "init" => n = InitName
       /\ kind' = [kind EXCEPT ![c] = k]
       /\ name' = [name EXCEPT ![c] = n]
  /\ Goto(c, "check") \/ Goto(c, "err")
  /\ UNCHANGED <<podman, ctxDone, blind>>

Taken(c) == owner[name[c]] # Nobody

CheckExists(c) ==
  /\ pc[c] = "check"
  /\ \/ ~ctxDone[c] /\ Goto(c, IF Taken(c) THEN "inspect" ELSE "image")
     \/ NoReply(c) /\ Goto(c, "err")
  /\ UNCHANGED <<podman, kind, name, ctxDone, blind>>

\* MUTANT of InspectAnswer: the existing container is reported unseen.
InspectUnseen(c) == "exists"

\* The container that was there may be gone when it is inspected.
InspectAnswer(c) == IF Taken(c) THEN "exists" ELSE "err"

InspectContainer(c) ==
  /\ pc[c] = "inspect"
  /\ \/ ~ctxDone[c] /\ Goto(c, InspectAnswer(c))
     \/ NoReply(c) /\ Goto(c, "err")
  /\ UNCHANGED <<podman, kind, name, ctxDone, blind>>

\* The image is there or is pulled.
EnsureImage(c) ==
  /\ pc[c] = "image"
  /\ \/ ~ctxDone[c] /\ Goto(c, "create")
     \/ NoReply(c) /\ Goto(c, "err")
  /\ UNCHANGED <<podman, kind, name, ctxDone, blind>>

Created(c) == IF kind[c] = "create" THEN "ok" ELSE "start"

\* MUTANT of ConflictAnswer: a name taken meanwhile counts as created.
ConflictReused(c) == Created(c)

\* Podman refuses a second container of one name; the error is passed on.
ConflictAnswer(c) == "err"

CreateContainer(c) ==
  /\ pc[c] = "create"
  /\ \/ /\ ~ctxDone[c] /\ ~Taken(c)
        /\ owner' = [owner EXCEPT ![name[c]] = c]
        /\ ctr' = [ctr EXCEPT ![c] = "created"]
        /\ \/ Goto(c, Created(c)) /\ UNCHANGED blind
           \/ "lost" \in Faults /\ Goto(c, "err") /\ blind' = [blind EXCEPT ![c] = TRUE]
     \/ /\ ~ctxDone[c] /\ Taken(c)
        /\ Goto(c, ConflictAnswer(c))
        /\ UNCHANGED <<podman, blind>>
     \/ NoReply(c) /\ Goto(c, "err") /\ UNCHANGED <<podman, blind>>
  /\ UNCHANGED <<kind, name, ctxDone>>

StartContainer(c) ==
  /\ pc[c] = "start"
  /\ \/ /\ ~ctxDone[c] /\ ctr[c] = "created"
        /\ ctr' = [ctr EXCEPT ![c] = "running"]
        /\ Goto(c, "ok") \/ ("lost" \in Faults /\ Goto(c, "cleanup"))
     \/ /\ NoReply(c) \/ ctr[c] # "created"
        /\ Goto(c, "cleanup") /\ UNCHANGED ctr
  /\ UNCHANGED <<owner, kind, name, ctxDone, blind>>

\* MUTANT of CleanupAnswer: the error of the removal is dropped.
CleanupAnswerDropped(c) == "err"

\* The removal has a context of its own, in which there is no connection to Podman (it is
\* a value of the context that NewConnection returns): it fails before it sends anything.
CleanupAnswer(c) == "left"

Cleanup(c) ==
  /\ pc[c] = "cleanup"
  /\ Goto(c, CleanupAnswer(c))
  /\ UNCHANGED <<podman, kind, name, ctxDone, blind>>

-----------------------------------------------------------------------------
(* The rest of the world                                                    *)

Cancel(c) ==
  /\ "cancel" \in Faults
  /\ pc[c] \notin {"idle"} \cup Answers /\ ~ctxDone[c]
  /\ ctxDone' = [ctxDone EXCEPT ![c] = TRUE]
  /\ UNCHANGED <<podman, pc, kind, name, blind>>

\* Container k is removed, running or not, and its name is free again.
Drop(k) ==
  /\ ctr' = [ctr EXCEPT ![k] = "gone"]
  /\ owner' = [owner EXCEPT ![name[k]] = Nobody]

RemoveByName(n) ==
  /\ "remove" \in Faults
  /\ owner[n] # Nobody
  /\ Drop(owner[n])
  /\ UNCHANGED <<pc, kind, name, ctxDone, blind>>

\* The process of a container ends; the container stays.
Exits(c) ==
  /\ ctr[c] = "running"
  /\ ctr' = [ctr EXCEPT ![c] = "exited"]
  /\ UNCHANGED <<owner, pc, kind, name, ctxDone, blind>>

Advance(c) ==
  \/ CheckExists(c) \/ InspectContainer(c) \/ EnsureImage(c)
  \/ CreateContainer(c) \/ StartContainer(c) \/ Cleanup(c)

AllAnswered == (\A c \in Calls : pc[c] \in Answers) /\ UNCHANGED vars

Next ==
  \/ \E c \in Calls : Begin(c) \/ Advance(c) \/ Cancel(c) \/ Exits(c)
  \/ \E n \in Names : RemoveByName(n)
  \/ AllAnswered

Spec == Init /\ [][Next]_vars

-----------------------------------------------------------------------------
(* Properties *)

\* A call that fails tells its caller of the container it leaves, unless it never learnt
\* of its creation; and until somebody else removes that container its name stays taken:
\* every other call for it has failed or lost a container of its own
\* (container_runtime.go:95-101, 113-132).
LeftoverIsReported ==
  \A c \in Calls :
    /\ pc[c] = "err" /\ ctr[c] \in Live => blind[c]
    /\ pc[c] = "left" /\ ctr[c] # "gone" =>
         \A d \in Calls \ {c} : name[d] = name[c] /\ pc[d] = "ok" => ctr[d] = "gone"

\* A call that returns nil has created the container itself, and one it started
\* has been running, unless someone removed it: a name is never shared or taken over
\* (container_runtime.go:106-152).
OkOwnsItsContainer ==
  \A c \in Calls : pc[c] = "ok" =>
    \/ ctr[c] = "gone"
    \/ /\ owner[name[c]] = c
       /\ kind[c] # "create" => ctr[c] # "created"

ResultOf(l) == IF l = "left" THEN "err" ELSE IF l \in Answers THEN l ELSE "none"

\* The calls implement create-if-absent: "exists" is answered only while another
\* container has the name (container_runtime.go:106-132).
Promise == INSTANCE CreateIfAbsent WITH
  want <- name, took <- {c \in Calls : ctr[c] # "none"},
  result <- [c \in Calls |-> ResultOf(pc[c])]

ImplementsCreateIfAbsent == Promise!Spec

=============================================================================
