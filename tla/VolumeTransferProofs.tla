------------------------ MODULE VolumeTransferProofs ------------------------
(***************************************************************************)
(* Proofs about VolumeTransfer, for any number of calls, any operations,   *)
(* any folder size and, unless a theorem says otherwise, every fault; at   *)
(* the end those about what a call may say: a write's nil is for a whole   *)
(* folder, a removal's for a volume that is gone.  These lead up to the    *)
(* composition: each call copies as ArchiveCopy promises.                  *)
(***************************************************************************)
EXTENDS VolumeCopies, TLAPS

(* Typing *)

LEMMA OverwriteBehaviorNormal == OverwriteBehavior \in NormalBehavior
  BY ConstantsAssumption DEF OverwriteBehavior, NormalBehavior, Behavior

\* Whatever an operation runs with has at least one attempt.
LEMMA BehaviorsNormal ==
  ASSUME NEW o \in AllOps, NEW b \in BehaviorsOf(o)
  PROVE  b \in NormalBehavior
<1>1. CASE o = "remove"
  <2>1. PICK a \in Behaviors : b = Normalized(a)
    BY <1>1 DEF BehaviorsOf
  <2> QED
    BY <2>1, ConstantsAssumption DEF Normalized, NormalBehavior, Behavior
<1>2. CASE o = "delete"
  <2>1. PICK f \in BOOLEAN : b = [OverwriteBehavior EXCEPT !.force = f]
    BY <1>2 DEF BehaviorsOf
  <2> QED
    BY <2>1, OverwriteBehaviorNormal DEF NormalBehavior, Behavior
<1>3. CASE o \notin {"remove", "delete"}
  BY <1>3, OverwriteBehaviorNormal DEF BehaviorsOf
<1> QED
  BY <1>1, <1>2, <1>3

LEMMA InitTypeOK == Init => TypeOK
  BY OverwriteBehaviorNormal, ConstantsAssumption
  DEF Init, TypeOK, Instances, Labels, Final, ContainerStates, AllOps, Modes

\* A failed attempt leaves the loop or keeps the count below its bound.
LEMMA RetryTypes ==
  ASSUME TypeOK, NEW c \in Calls, NEW attempts \in Nat \ {0},
         NEW again \in Labels, NEW failed \in Labels,
         Retry(c, attempts, again, failed)
  PROVE  /\ pc' \in [Calls -> Labels]
         /\ attempt' \in [Calls -> Nat]
         /\ \A k \in Calls \ {c} : pc'[k] = pc[k] /\ attempt'[k] = attempt[k]
         /\ attempt'[c] < attempts
         /\ pc'[c] \in {again, failed}
<1>1. pc \in [Calls -> Labels] /\ attempt \in [Calls -> Nat]
  BY DEF TypeOK
<1>2. CASE attempt[c] + 1 < attempts
  <2>1. attempt' = [attempt EXCEPT ![c] = @ + 1] /\ pc' = [pc EXCEPT ![c] = again]
    BY <1>2 DEF Retry, Goto
  <2> QED
    BY <1>1, <1>2, <2>1
<1>3. CASE ~(attempt[c] + 1 < attempts)
  <2>1. attempt' = [attempt EXCEPT ![c] = 0] /\ pc' = [pc EXCEPT ![c] = failed]
    BY <1>3 DEF Retry, Goto
  <2> QED
    BY <1>1, <2>1
<1> QED
  BY <1>2, <1>3

LEMMA DropTypes ==
  ASSUME TypeOK, DropVolume
  PROVE  /\ volume' \in Instances \cup {NoVolume}
         /\ ctr' \in [Calls -> ContainerStates]
         /\ content' = content /\ mount' = mount
  BY DEF TypeOK, DropVolume, ContainerStates

\* A failed removal request, whatever it did to the volume, keeps the types.
LEMMA RemoveStepTypes ==
  ASSUME TypeOK, NEW c \in Calls, NEW missing \in BOOLEAN,
         pc[c] \in {"remove", "force"},
         \/ UNCHANGED <<podman, refused>>
         \/ Struck(c, "refuse") /\ UNCHANGED podman
         \/ Struck(c, "lost") /\ DropVolume,
         \/ Goto(c, "force") /\ UNCHANGED attempt
         \/ RemoveFailed(c, missing),
         UNCHANGED <<op, beh, ctxDone, sent, walkErr, footer, res, before>>
  PROVE  TypeOK'
<1>1. /\ volume' \in Instances \cup {NoVolume}
      /\ ctr' \in [Calls -> ContainerStates]
      /\ content' = content /\ mount' = mount
      /\ refused' \in [Calls -> BOOLEAN]
  BY DropTypes DEF TypeOK, Struck, podman
<1>2. beh[c].attempts \in Nat \ {0}
  BY DEF TypeOK, NormalBehavior, Behavior
<1>3. /\ pc' \in [Calls -> Labels]
      /\ attempt' \in [Calls -> Nat]
      /\ \A k \in Calls \ {c} : pc'[k] = pc[k] /\ attempt'[k] = attempt[k]
      /\ attempt'[c] < beh[c].attempts
      /\ pc'[c] \notin {"check", "owCheck"}
  <2>1. CASE Goto(c, "force") /\ UNCHANGED attempt
    BY <2>1 DEF Goto, TypeOK, Labels
  <2>2. CASE RemoveFailed(c, missing)
    <3>1. PICK notFound \in IsNotFound(missing) :
            Retry(c, beh[c].attempts, "remove",
                  IF beh[c].ignoreNotFound /\ notFound THEN Removed(c) ELSE "err")
      BY <2>2 DEF RemoveFailed
    <3> DEFINE failed == IF beh[c].ignoreNotFound /\ notFound THEN Removed(c) ELSE "err"
    <3>2. failed \in {"create", "ok", "err"}
      BY DEF Removed
    <3> HIDE DEF failed
    <3>3. Retry(c, beh[c].attempts, "remove", failed)
      BY <3>1 DEF failed
    <3>4. "remove" \in Labels /\ failed \in Labels
      BY <3>2 DEF Labels, Final
    <3> QED
      BY <1>2, <3>2, <3>3, <3>4, RetryTypes
  <2> QED
    BY <2>1, <2>2
<1> QED
  BY <1>1, <1>2, <1>3 DEF TypeOK

LEMMA StepTypeOK == TypeOK /\ [Next]_vars => TypeOK'
<1> SUFFICES ASSUME TypeOK, [Next]_vars PROVE TypeOK'
  OBVIOUS
<1>1. ASSUME NEW c \in Calls, Begin(c) PROVE TypeOK'
  <2>1. PICK o \in Ops : /\ op' = [op EXCEPT ![c] = o]
                         /\ \E b \in BehaviorsOf(o) : beh' = [beh EXCEPT ![c] = b]
                         /\ Goto(c, FirstLabel(o)) \/ Goto(c, "err")
    BY <1>1 DEF Begin
  <2>2. o \in AllOps
    BY ConstantsAssumption
  <2>3. PICK b \in BehaviorsOf(o) : beh' = [beh EXCEPT ![c] = b]
    BY <2>1
  <2>4. b \in NormalBehavior
    BY <2>2, BehaviorsNormal
  <2>5. FirstLabel(o) \in Labels
    BY <2>2 DEF FirstLabel, AllOps, Modes, Labels
  <2>6. "err" \in Labels
    BY DEF Labels, Final
  <2>7. pc' \in [Calls -> Labels]
    BY <2>1, <2>5, <2>6 DEF Goto, TypeOK
  <2>8. \A k \in Calls \ {c} : pc'[k] = pc[k]
    BY <2>1 DEF Goto, TypeOK
  <2>9. attempt' = [attempt EXCEPT ![c] = 0]
    BY <1>1 DEF Begin
  <2>10. beh' \in [Calls -> NormalBehavior]
    BY <2>3, <2>4 DEF TypeOK
  <2>11. \A k \in Calls : /\ pc'[k] \in {"check", "owCheck"} => attempt'[k] < RetryAttempts
                          /\ pc'[k] \in {"remove", "force"} => attempt'[k] < beh'[k].attempts
    BY <2>3, <2>4, <2>8, <2>9, ConstantsAssumption DEF TypeOK, NormalBehavior, Behavior
  <2> QED
    BY <1>1, <2>1, <2>2, <2>7, <2>10, <2>11 DEF Begin, TypeOK, podman
<1>2. ASSUME NEW c \in Calls, CheckExists(c) PROVE TypeOK'
  <2>1. CASE ctxDone[c] /\ Goto(c, "err") /\ UNCHANGED <<attempt, refused>>
    BY <1>2, <2>1 DEF CheckExists, TypeOK, Goto, Labels, Final, podman
  <2>2. CASE /\ Goto(c, IF pc[c] = "check" THEN SetupLabel(PlanVolumeSetup(op[c], Exists))
                         ELSE IF Exists THEN "remove" ELSE "create")
             /\ attempt' = [attempt EXCEPT ![c] = 0]
             /\ UNCHANGED refused
    <3> DEFINE to == IF pc[c] = "check" THEN SetupLabel(PlanVolumeSetup(op[c], Exists))
                     ELSE IF Exists THEN "remove" ELSE "create"
    <3>1. to \in Labels
      BY DEF SetupLabel, Labels, Final
    <3> HIDE DEF to
    <3>2. pc' = [pc EXCEPT ![c] = to]
      BY <2>2 DEF Goto, to
    <3> QED
      BY <1>2, <2>2, <3>1, <3>2, ConstantsAssumption
      DEF CheckExists, TypeOK, NormalBehavior, Behavior, podman
  <2>3. CASE Struck(c, "refuse") /\ Retry(c, RetryAttempts, pc[c], "err")
    <3>1. pc[c] \in {"check", "owCheck"} /\ pc[c] \in Labels /\ "err" \in Labels
      BY <1>2 DEF CheckExists, At, TypeOK, Labels, Final
    <3>2. /\ pc' \in [Calls -> Labels]
          /\ attempt' \in [Calls -> Nat]
          /\ \A k \in Calls \ {c} : pc'[k] = pc[k] /\ attempt'[k] = attempt[k]
          /\ attempt'[c] < RetryAttempts
          /\ pc'[c] \in {pc[c], "err"}
      BY <2>3, <3>1, RetryTypes, ConstantsAssumption
    <3> QED
      BY <1>2, <2>3, <3>1, <3>2 DEF CheckExists, TypeOK, Struck, podman
  <2> QED
    BY <1>2, <2>1, <2>2, <2>3 DEF CheckExists
<1>3. ASSUME NEW c \in Calls, TryRemove(c) PROVE TypeOK'
  <2>1. CASE ctxDone[c] /\ Goto(c, "err") /\ UNCHANGED <<podman, attempt, refused>>
    BY <1>3, <2>1 DEF TryRemove, TypeOK, Goto, Labels, Final, podman
  <2>2. CASE DropVolume /\ Goto(c, Removed(c)) /\ attempt' = [attempt EXCEPT ![c] = 0] /\ UNCHANGED refused
    BY <1>3, <2>2, DropTypes DEF TryRemove, TypeOK, Goto, Removed, Labels, Final
  <2>3. ASSUME \/ UNCHANGED <<podman, refused>>
               \/ Struck(c, "refuse") /\ UNCHANGED podman
               \/ Struck(c, "lost") /\ DropVolume,
               NEW missing \in BOOLEAN,
               \/ Goto(c, "force") /\ UNCHANGED attempt
               \/ RemoveFailed(c, missing)
        PROVE  TypeOK'
    BY <1>3, <2>3, RemoveStepTypes DEF TryRemove
  <2>4. CASE \E missing \in BOOLEAN :
               /\ \/ /\ ~Removable(beh[c].force)
                     /\ missing = ~Exists
                     /\ UNCHANGED <<podman, refused>>
                  \/ ~missing /\ Struck(c, "refuse") /\ UNCHANGED podman
                  \/ ~missing /\ Removable(beh[c].force) /\ Struck(c, "lost") /\ DropVolume
               /\ IF beh[c].retryForce /\ ~beh[c].force
                  THEN Goto(c, "force") /\ UNCHANGED attempt
                  ELSE RemoveFailed(c, missing)
    <3>1. PICK missing \in BOOLEAN :
               /\ \/ UNCHANGED <<podman, refused>>
                  \/ Struck(c, "refuse") /\ UNCHANGED podman
                  \/ Struck(c, "lost") /\ DropVolume
               /\ \/ Goto(c, "force") /\ UNCHANGED attempt
                  \/ RemoveFailed(c, missing)
      BY <2>4
    <3> QED
      BY <2>3, <3>1
  <2> QED
    BY <1>3, <2>1, <2>2, <2>4 DEF TryRemove
<1>4. ASSUME NEW c \in Calls, RetryForced(c) PROVE TypeOK'
  <2>1. CASE DropVolume /\ Goto(c, Removed(c)) /\ attempt' = [attempt EXCEPT ![c] = 0] /\ UNCHANGED refused
    BY <1>4, <2>1, DropTypes DEF RetryForced, TypeOK, Goto, Removed, Labels, Final
  <2>2. ASSUME \/ UNCHANGED <<podman, refused>>
               \/ Struck(c, "refuse") /\ UNCHANGED podman
               \/ Struck(c, "lost") /\ DropVolume,
               NEW missing \in BOOLEAN, RemoveFailed(c, missing)
        PROVE  TypeOK'
    BY <1>4, <2>2, RemoveStepTypes DEF RetryForced
  <2>3. CASE ~Exists /\ RemoveFailed(c, TRUE) /\ UNCHANGED <<podman, refused>>
    BY <2>2, <2>3
  <2>4. CASE /\ \/ UNCHANGED <<podman, refused>>
                \/ Struck(c, "refuse") /\ UNCHANGED podman
                \/ Struck(c, "lost") /\ DropVolume
             /\ RemoveFailed(c, FALSE)
    BY <2>2, <2>4
  <2> QED
    BY <1>4, <2>1, <2>3, <2>4 DEF RetryForced
<1>5. ASSUME NEW c \in Calls, DeleteCheck(c) PROVE TypeOK'
  BY <1>5 DEF TypeOK, podman, locals, history, Goto, DeleteCheck, Struck, Labels, Final
<1>6. ASSUME NEW c \in Calls, DeleteRemove(c) PROVE TypeOK'
  <2>1. CASE DropVolume
    BY <1>6, <2>1, DropTypes DEF DeleteRemove, Struck, TypeOK, Goto, locals, Labels, Final
  <2>2. CASE UNCHANGED podman
    BY <1>6, <2>2 DEF DeleteRemove, Struck, TypeOK, Goto, podman, locals, Labels, Final
  <2> QED
    BY <1>6, <2>1, <2>2 DEF DeleteRemove
<1>7. ASSUME NEW c \in Calls, CreateVolume(c) PROVE TypeOK'
  <2>1. <<c, "volume">> \in Instances
    BY DEF Instances
  <2>2. volume' \in Instances \cup {NoVolume}
    BY <1>7, <2>1 DEF CreateVolume, TypeOK
  <2> QED
    BY <1>7, <2>2 DEF CreateVolume, IgnoreIfExists, Struck, TypeOK, Goto, locals, Labels, Final
<1>8. ASSUME NEW c \in Calls, EnsureImage(c) PROVE TypeOK'
  BY <1>8 DEF TypeOK, podman, locals, history, Goto, EnsureImage, Struck, Labels, Final
<1>9. ASSUME NEW c \in Calls, CreateContainer(c) PROVE TypeOK'
  <2>1. <<c, "container">> \in Instances
    BY DEF Instances
  <2>2. volume' \in Instances \cup {NoVolume}
    <3>1. volume' \in {volume, <<c, "container">>}
      BY <1>9 DEF CreateContainer
    <3> QED
      BY <2>1, <3>1 DEF TypeOK
  <2>3. mount' \in [Calls -> Instances \cup {NoVolume}]
    <3>1. mount' = [mount EXCEPT ![c] = volume'] \/ mount' = mount
      BY <1>9 DEF CreateContainer
    <3> QED
      BY <2>2, <3>1 DEF TypeOK
  <2>4. ctr' \in [Calls -> ContainerStates]
    BY <1>9 DEF CreateContainer, TypeOK, ContainerStates
  <2>5. pc' = [pc EXCEPT ![c] = pc'[c]] /\ pc'[c] \in {"start", "err"} /\ pc' \in [Calls -> Labels]
    BY <1>9 DEF CreateContainer, Goto, TypeOK, Labels, Final
  <2>6. refused' \in [Calls -> BOOLEAN]
    BY <1>9 DEF CreateContainer, Struck, TypeOK
  <2> QED
    BY <1>9, <2>2, <2>3, <2>4, <2>5, <2>6 DEF CreateContainer, TypeOK, locals
<1>10. ASSUME NEW c \in Calls, StartContainer(c) PROVE TypeOK'
  BY <1>10 DEF TypeOK, podman, locals, history, Goto, StartContainer, Struck, Labels, Final, ContainerStates
<1>11. ASSUME NEW c \in Calls, CopyInit(c) PROVE TypeOK'
  BY <1>11 DEF TypeOK, podman, locals, history, Goto, CopyInit, Struck, Labels, Final, ContainerStates, CopyError
<1>12. ASSUME NEW c \in Calls, CopyReturn(c) PROVE TypeOK'
  BY <1>12 DEF TypeOK, podman, locals, history, Goto, CopyReturn, Struck, Labels, Final, ContainerStates, CopyError
<1>13. ASSUME NEW c \in Calls, ReadFile(c) PROVE TypeOK'
  BY <1>13 DEF TypeOK, podman, locals, history, Goto, ReadFile, Struck, Labels, Final
<1>14. ASSUME NEW c \in Calls, StopContainer(c) PROVE TypeOK'
  BY <1>14 DEF TypeOK, podman, locals, history, Goto, StopContainer, Struck, Labels, Final, ContainerStates
<1>15. ASSUME NEW c \in Calls, RemoveContainer(c) PROVE TypeOK'
  BY <1>15 DEF TypeOK, podman, locals, history, Goto, RemoveContainer, Struck, Labels, Final, ContainerStates
<1>16. ASSUME NEW c \in Calls, Extract(c) PROVE TypeOK'
  <2> DEFINE row == [content[mount[c]] EXCEPT ![sent[c] + 1] = c]
  <2>1. content' = [content EXCEPT ![mount[c]] = row]
    BY <1>16 DEF Extract
  <2>2. mount[c] \in Instances => row \in [1..Entries -> Calls \cup {Nobody}]
    BY DEF TypeOK
  <2> HIDE DEF row
  <2>3. content' \in [Instances -> [1..Entries -> Calls \cup {Nobody}]]
    BY <2>1, <2>2 DEF TypeOK
  <2>4. sent' \in [Calls -> 0..Entries]
    BY <1>16, ConstantsAssumption DEF Extract, TypeOK
  <2> QED
    BY <1>16, <2>3, <2>4 DEF Extract, TypeOK, history
<1>17. ASSUME NEW c \in Calls, WalkError(c) \/ AnswerAtFooter(c) PROVE TypeOK'
  BY <1>17 DEF TypeOK, podman, locals, history, Goto, WalkError, AnswerAtFooter
<1>18. ASSUME NEW c \in Calls, Cancel(c) PROVE TypeOK'
  BY <1>18 DEF TypeOK, podman, locals, history, Goto, Cancel, Final
<1>19. CASE UNCHANGED vars
  BY <1>19 DEF TypeOK, vars, podman, locals, history
<1> QED
  BY <1>1, <1>2, <1>3, <1>4, <1>5, <1>6, <1>7, <1>8, <1>9, <1>10, <1>11, <1>12, <1>13, <1>14, <1>15, <1>16, <1>17, <1>18, <1>19 DEF Next, Advance, AllReturned

\* Every value keeps its type and no retry loop makes more attempts than it was
\* given (volume.go:448-475), whatever Podman and the callers do.
THEOREM TypeCorrect == Spec => []TypeOK
<1>1. Init => TypeOK
  BY InitTypeOK
<1>2. TypeOK /\ [Next]_vars => TypeOK'
  BY StepTypeOK
<1> QED
  BY <1>1, <1>2, PTL DEF Spec

-----------------------------------------------------------------------------
(* The life of the temporary container *)

PreContainer == {"idle", "check", "owCheck", "remove", "force", "delCheck",
                 "delRemove", "create", "image", "ctrCreate"}

\* What a call knows of its container at each label.  Only a done context or a
\* fault lets a container past the two requests of the cleanup.
ContainerInv ==
  \A c \in Calls :
    /\ pc[c] \in PreContainer => ctr[c] = "none" /\ mount[c] = NoVolume
    /\ pc[c] = "start" => ctr[c] \in {"created", "gone"}
    /\ pc[c] \in {"copyInit", "read"} => ctr[c] \in {"running", "gone"}
    /\ pc[c] = "copy" => ctr[c] \in {"extracting", "gone"}
    /\ pc[c] = "rm" /\ ctr[c] \in {"running", "extracting"} => ctxDone[c] \/ refused[c]
    /\ pc[c] \in Final /\ ctr[c] \in Live => ctxDone[c] \/ refused[c]

\* A removal of the volume changes a container only by killing it.
LEMMA DropKills ==
  ASSUME TypeOK, DropVolume
  PROVE  /\ mount' = mount
         /\ \A k \in Calls : ctr'[k] = ctr[k] \/ (ctr[k] \in Live /\ ctr'[k] = "gone")
  BY DEF TypeOK, DropVolume, Users

LEMMA InitContainerInv == Init => ContainerInv
  BY DEF Init, ContainerInv, PreContainer, Final, Live

LEMMA StepContainerInv == TypeOK /\ ContainerInv /\ [Next]_vars => ContainerInv'
<1> SUFFICES ASSUME TypeOK, ContainerInv, [Next]_vars PROVE ContainerInv'
  OBVIOUS
<1>1. ASSUME NEW c \in Calls, Begin(c) PROVE ContainerInv'
  <2>1. PICK o \in Ops : Goto(c, FirstLabel(o)) \/ Goto(c, "err")
    BY <1>1 DEF Begin
  <2>2. FirstLabel(o) \in PreContainer
    BY ConstantsAssumption DEF FirstLabel, AllOps, Modes, PreContainer
  <2>3. /\ pc' \in [Calls -> Labels \cup PreContainer]
        /\ \A k \in Calls \ {c} : pc'[k] = pc[k]
        /\ pc'[c] \in PreContainer \cup {"err"}
    BY <2>1, <2>2 DEF Goto, TypeOK, Labels, Final
  <2>4. pc[c] \in PreContainer
    BY <1>1 DEF Begin, PreContainer
  <2> QED
    BY <1>1, <2>3, <2>4 DEF Begin, ContainerInv, podman, PreContainer, Final, Live
<1>2. ASSUME NEW c \in Calls, CheckExists(c) PROVE ContainerInv'
  BY <1>2 DEF TypeOK, podman, locals, history, Goto, ContainerInv, PreContainer, Final, Live, CheckExists, At, SetupLabel, PlanVolumeSetup, Retry, Struck
<1>3. ASSUME NEW c \in Calls, TryRemove(c) PROVE ContainerInv'
  BY DropKills, <1>3 DEF TypeOK, podman, locals, history, Goto, ContainerInv, PreContainer, Final, Live, TryRemove, Removed, RemoveFailed, Retry, Struck
<1>4. ASSUME NEW c \in Calls, RetryForced(c) PROVE ContainerInv'
  <2>1. pc[c] \in PreContainer
    BY <1>4 DEF RetryForced, PreContainer
  <2>2. /\ \A k \in Calls \ {c} : pc'[k] = pc[k]
        /\ pc'[c] \in {"remove", "create", "ok", "err"}
    BY <1>4 DEF RetryForced, RemoveFailed, Retry, Removed, Goto, TypeOK
  <2>3. /\ mount' = mount
        /\ \A k \in Calls : ctr'[k] = ctr[k] \/ (ctr[k] \in Live /\ ctr'[k] = "gone")
    BY <1>4, DropKills DEF RetryForced, podman
  <2>4. /\ ctxDone' = ctxDone
        /\ \A k \in Calls : refused[k] => refused'[k]
    BY <1>4 DEF RetryForced, Struck, TypeOK
  <2> QED
    BY <2>1, <2>2, <2>3, <2>4 DEF ContainerInv, PreContainer, Final, Live
<1>5. ASSUME NEW c \in Calls, DeleteCheck(c) PROVE ContainerInv'
  BY <1>5 DEF TypeOK, podman, locals, history, Goto, ContainerInv, PreContainer, Final, Live, DeleteCheck, Struck
<1>6. ASSUME NEW c \in Calls, DeleteRemove(c) PROVE ContainerInv'
  BY DropKills, <1>6 DEF TypeOK, podman, locals, history, Goto, ContainerInv, PreContainer, Final, Live, DeleteRemove, Struck
<1>7. ASSUME NEW c \in Calls, CreateVolume(c) PROVE ContainerInv'
  BY <1>7 DEF TypeOK, podman, locals, history, Goto, ContainerInv, PreContainer, Final, Live, CreateVolume, Struck
<1>8. ASSUME NEW c \in Calls, EnsureImage(c) PROVE ContainerInv'
  BY <1>8 DEF TypeOK, podman, locals, history, Goto, ContainerInv, PreContainer, Final, Live, EnsureImage, Struck
<1>9. ASSUME NEW c \in Calls, CreateContainer(c) PROVE ContainerInv'
  BY <1>9 DEF TypeOK, podman, locals, history, Goto, ContainerInv, PreContainer, Final, Live, CreateContainer, Struck
<1>10. ASSUME NEW c \in Calls, StartContainer(c) PROVE ContainerInv'
  <2>1. ctr[c] \in {"created", "gone"}
    BY <1>10 DEF StartContainer, ContainerInv
  <2>2. /\ \A k \in Calls \ {c} : pc'[k] = pc[k] /\ ctr'[k] = ctr[k]
        /\ \/ pc'[c] = "stop"
           \/ pc'[c] \in {"read", "copyInit"} /\ ctr'[c] = "running"
    BY <1>10 DEF StartContainer, Goto, TypeOK
  <2>3. /\ ctxDone' = ctxDone /\ mount' = mount
        /\ \A k \in Calls : refused[k] => refused'[k]
    BY <1>10 DEF StartContainer, Struck, TypeOK, locals
  <2> QED
    BY <2>1, <2>2, <2>3 DEF ContainerInv, PreContainer, Final, Live
<1>11. ASSUME NEW c \in Calls, CopyInit(c) PROVE ContainerInv'
  <2>1. /\ \A k \in Calls \ {c} : pc'[k] = pc[k] /\ ctr'[k] = ctr[k]
        /\ \/ pc'[c] = "stop"
           \/ pc'[c] = "copy" /\ ctr'[c] = "extracting"
    BY <1>11 DEF CopyInit, CopyError, Goto, TypeOK
  <2>2. /\ mount' = mount
        /\ \A k \in Calls : (ctxDone[k] => ctxDone'[k]) /\ (refused[k] => refused'[k])
    BY <1>11 DEF CopyInit, CopyError, Struck, TypeOK
  <2> QED
    BY <2>1, <2>2 DEF ContainerInv, PreContainer, Final, Live
<1>12. ASSUME NEW c \in Calls, CopyReturn(c) PROVE ContainerInv'
  BY <1>12 DEF TypeOK, podman, locals, history, Goto, ContainerInv, PreContainer, Final, Live, CopyReturn, Struck, CopyError
<1>13. ASSUME NEW c \in Calls, ReadFile(c) PROVE ContainerInv'
  BY <1>13 DEF TypeOK, podman, locals, history, Goto, ContainerInv, PreContainer, Final, Live, ReadFile, Struck
<1>14. ASSUME NEW c \in Calls, StopContainer(c) PROVE ContainerInv'
  BY <1>14 DEF TypeOK, podman, locals, history, Goto, ContainerInv, PreContainer, Final, Live, StopContainer, Struck, ContainerStates
<1>15. ASSUME NEW c \in Calls, RemoveContainer(c) PROVE ContainerInv'
  BY <1>15 DEF TypeOK, podman, locals, history, Goto, ContainerInv, PreContainer, Final, Live, RemoveContainer, Struck, ContainerStates
<1>16. ASSUME NEW c \in Calls, Extract(c) PROVE ContainerInv'
  BY <1>16 DEF TypeOK, podman, locals, history, Goto, ContainerInv, PreContainer, Final, Live, Extract
<1>17. ASSUME NEW c \in Calls, WalkError(c) \/ AnswerAtFooter(c) PROVE ContainerInv'
  BY <1>17 DEF TypeOK, podman, locals, history, Goto, ContainerInv, PreContainer, Final, Live, WalkError, AnswerAtFooter
<1>18. ASSUME NEW c \in Calls, Cancel(c) PROVE ContainerInv'
  BY <1>18 DEF TypeOK, podman, locals, history, Goto, ContainerInv, PreContainer, Final, Live, Cancel
<1>19. CASE UNCHANGED vars
  BY <1>19 DEF ContainerInv, vars, podman, locals, history
<1> QED
  BY <1>1, <1>2, <1>3, <1>4, <1>5, <1>6, <1>7, <1>8, <1>9, <1>10, <1>11, <1>12, <1>13, <1>14, <1>15, <1>16, <1>17, <1>18, <1>19 DEF Next, Advance, AllReturned

\* A call that has returned has left no container behind, unless its context was
\* cancelled, by the caller or by the copy error path itself, or a fault struck
\* one of its requests (volume_runtime.go:106-121).
THEOREM NoLeak == Spec => []NoLeakedContainer
<1>1. Init => TypeOK /\ ContainerInv
  BY InitTypeOK, InitContainerInv
<1>2. TypeOK /\ ContainerInv /\ [Next]_vars => (TypeOK /\ ContainerInv)'
  BY StepTypeOK, StepContainerInv
<1>3. ContainerInv => NoLeakedContainer
  BY DEF ContainerInv, NoLeakedContainer, Returned
<1> QED
  BY <1>1, <1>2, <1>3, PTL DEF Spec

-----------------------------------------------------------------------------
(* Incarnations of the volume are never made twice *)

PreVolume == PreContainer \ {"image", "ctrCreate"}

\* Until a call has passed the request that makes it, nobody has seen the
\* incarnation that request would make.
IncarnationInv ==
  \A c, k \in Calls :
    /\ pc[c] \in PreVolume => volume # <<c, "volume">> /\ before[k] # <<c, "volume">>
    /\ pc[c] \in PreContainer => volume # <<c, "container">> /\ before[k] # <<c, "container">>

\* Between its volume create and its container create, and ever after, an
\* overwriting call has left the volume it found behind.
FreshInv ==
  \A c \in Calls : op[c] = "overwrite" =>
    /\ pc[c] \in {"image", "ctrCreate"} => before[c] = NoVolume \/ volume # before[c]
    /\ mount[c] # NoVolume => mount[c] # before[c]

\* What a step can do to the volume, to the history and to the labels: only a
\* create at its own label makes an incarnation, and no label is revisited from
\* behind it.
StepFacts(c) ==
  /\ \/ volume' = volume
     \/ volume' = NoVolume
     \/ volume' = <<c, "volume">> /\ pc[c] = "create" /\ pc'[c] \notin PreVolume
     \/ volume' = <<c, "container">> /\ pc[c] = "ctrCreate" /\ pc'[c] \notin PreContainer
  /\ before' = before \/ (pc[c] = "idle" /\ before' = [before EXCEPT ![c] = volume])
  /\ op' = op \/ (pc[c] = "idle" /\ op' = [op EXCEPT ![c] = op'[c]])
  /\ mount' = mount
     \/ /\ pc[c] = "ctrCreate" /\ mount' = [mount EXCEPT ![c] = volume']
        /\ volume' = IF volume = NoVolume THEN <<c, "container">> ELSE volume
  /\ \A k \in Calls : pc'[k] = pc[k] \/ k = c
  /\ pc'[c] \in PreVolume => pc[c] \in PreVolume
  /\ pc'[c] \in PreContainer => pc[c] \in PreContainer
  /\ op'[c] = "overwrite" /\ pc'[c] \in {"image", "ctrCreate"} =>
       \/ pc[c] \in {"image", "ctrCreate"}
       \/ pc[c] = "create" /\ volume = NoVolume /\ volume' = <<c, "volume">>

LEMMA StepGivesFacts ==
  ASSUME TypeOK, NEW c \in Calls,
         Begin(c) \/ Advance(c) \/ Extract(c) \/ WalkError(c) \/ AnswerAtFooter(c) \/ Cancel(c)
  PROVE  StepFacts(c)
<1>1. CASE Begin(c)
  BY ConstantsAssumption, <1>1 DEF TypeOK, podman, locals, history, Goto, StepFacts, PreVolume, PreContainer, Final, Begin, FirstLabel, AllOps, Modes
<1>2. CASE CheckExists(c)
  BY <1>2 DEF TypeOK, podman, locals, history, Goto, StepFacts, PreVolume, PreContainer, Final, CheckExists, At, SetupLabel, PlanVolumeSetup, Retry
<1>3. CASE TryRemove(c)
  BY <1>3 DEF TypeOK, podman, locals, history, Goto, StepFacts, PreVolume, PreContainer, Final, TryRemove, Removed, RemoveFailed, Retry, DropVolume
<1>4. CASE RetryForced(c)
  BY <1>4 DEF TypeOK, podman, locals, history, Goto, StepFacts, PreVolume, PreContainer, Final, RetryForced, Removed, RemoveFailed, Retry, DropVolume
<1>5. CASE DeleteCheck(c)
  BY <1>5 DEF TypeOK, podman, locals, history, Goto, StepFacts, PreVolume, PreContainer, Final, DeleteCheck
<1>6. CASE DeleteRemove(c)
  BY <1>6 DEF TypeOK, podman, locals, history, Goto, StepFacts, PreVolume, PreContainer, Final, DeleteRemove, DropVolume
<1>7. CASE CreateVolume(c)
  BY <1>7 DEF TypeOK, podman, locals, history, Goto, StepFacts, PreVolume, PreContainer, Final, CreateVolume, Exists, IgnoreIfExists
<1>8. CASE EnsureImage(c)
  BY <1>8 DEF TypeOK, podman, locals, history, Goto, StepFacts, PreVolume, PreContainer, Final, EnsureImage
<1>9. CASE CreateContainer(c)
  BY <1>9 DEF TypeOK, podman, locals, history, Goto, StepFacts, PreVolume, PreContainer, Final, CreateContainer, Exists
<1>10. CASE StartContainer(c)
  BY <1>10 DEF TypeOK, podman, locals, history, Goto, StepFacts, PreVolume, PreContainer, Final, StartContainer
<1>11. CASE CopyInit(c)
  BY <1>11 DEF TypeOK, podman, locals, history, Goto, StepFacts, PreVolume, PreContainer, Final, CopyInit, CopyError
<1>12. CASE CopyReturn(c)
  BY <1>12 DEF TypeOK, podman, locals, history, Goto, StepFacts, PreVolume, PreContainer, Final, CopyReturn, CopyError
<1>13. CASE ReadFile(c)
  BY <1>13 DEF TypeOK, podman, locals, history, Goto, StepFacts, PreVolume, PreContainer, Final, ReadFile
<1>14. CASE StopContainer(c)
  BY <1>14 DEF TypeOK, podman, locals, history, Goto, StepFacts, PreVolume, PreContainer, Final, StopContainer
<1>15. CASE RemoveContainer(c)
  BY <1>15 DEF TypeOK, podman, locals, history, Goto, StepFacts, PreVolume, PreContainer, Final, RemoveContainer
<1>16. CASE Extract(c)
  BY <1>16 DEF TypeOK, podman, locals, history, Goto, StepFacts, PreVolume, PreContainer, Final, Extract
<1>17. CASE WalkError(c) \/ AnswerAtFooter(c)
  BY <1>17 DEF TypeOK, podman, locals, history, Goto, StepFacts, PreVolume, PreContainer, Final, WalkError, AnswerAtFooter
<1>18. CASE Cancel(c)
  BY <1>18 DEF TypeOK, podman, locals, history, Goto, StepFacts, PreVolume, PreContainer, Final, Cancel
<1> QED
  BY <1>1, <1>2, <1>3, <1>4, <1>5, <1>6, <1>7, <1>8, <1>9, <1>10, <1>11, <1>12, <1>13, <1>14, <1>15, <1>16, <1>17, <1>18 DEF Advance

LEMMA InitIncarnations == Init => IncarnationInv /\ FreshInv
<1>1. \A c \in Calls : NoVolume # <<c, "volume">> /\ NoVolume # <<c, "container">>
  BY ConstantsAssumption DEF NoVolume
<1> QED
  BY <1>1 DEF Init, IncarnationInv, FreshInv

LEMMA StepIncarnations ==
  TypeOK /\ ContainerInv /\ IncarnationInv /\ FreshInv /\ [Next]_vars
    => (IncarnationInv /\ FreshInv)'
<1> SUFFICES ASSUME TypeOK, ContainerInv, IncarnationInv, FreshInv, [Next]_vars
             PROVE  (IncarnationInv /\ FreshInv)'
  OBVIOUS
<1>1. CASE UNCHANGED vars
  BY <1>1 DEF IncarnationInv, FreshInv, vars, podman, locals, history
<1>2. ASSUME NEW c \in Calls, StepFacts(c) PROVE (IncarnationInv /\ FreshInv)'
  <2>1. \A k \in Calls : NoVolume # <<k, "volume">> /\ NoVolume # <<k, "container">>
    BY ConstantsAssumption DEF NoVolume
  <2>2. \A k, l \in Calls : /\ <<k, "volume">> # <<l, "container">>
                            /\ k # l => <<k, "volume">> # <<l, "volume">>
                            /\ k # l => <<k, "container">> # <<l, "container">>
    OBVIOUS
  <2>3. \A k \in Calls : before'[k] \in {before[k], volume}
    BY <1>2 DEF StepFacts, TypeOK
  <2>4. IncarnationInv'
    <3> SUFFICES ASSUME NEW k \in Calls, NEW l \in Calls
                 PROVE  /\ pc'[k] \in PreVolume =>
                             volume' # <<k, "volume">> /\ before'[l] # <<k, "volume">>
                        /\ pc'[k] \in PreContainer =>
                             volume' # <<k, "container">> /\ before'[l] # <<k, "container">>
      BY DEF IncarnationInv, PreVolume, PreContainer
    <3>1. /\ pc'[k] \in PreVolume => pc[k] \in PreVolume
          /\ pc'[k] \in PreContainer => pc[k] \in PreContainer
      BY <1>2 DEF StepFacts
    <3>2. /\ pc[k] \in PreVolume => volume # <<k, "volume">> /\ before[l] # <<k, "volume">>
          /\ pc[k] \in PreContainer => volume # <<k, "container">> /\ before[l] # <<k, "container">>
      BY DEF IncarnationInv
    <3>3. before'[l] = before[l] \/ before'[l] = volume
      BY <2>3
    <3>4. pc'[k] \in PreVolume => volume' # <<k, "volume">>
      BY <1>2, <2>1, <2>2, <3>1, <3>2 DEF StepFacts
    <3>5. pc'[k] \in PreContainer => volume' # <<k, "container">>
      BY <1>2, <2>1, <2>2, <3>1, <3>2 DEF StepFacts
    <3> QED
      BY <3>1, <3>2, <3>3, <3>4, <3>5
  <2>5. FreshInv'
    <3> SUFFICES ASSUME NEW k \in Calls, op'[k] = "overwrite"
                 PROVE  /\ pc'[k] \in {"image", "ctrCreate"} =>
                             before'[k] = NoVolume \/ volume' # before'[k]
                        /\ mount'[k] # NoVolume => mount'[k] # before'[k]
      BY DEF FreshInv
    <3>1. CASE k = c /\ pc[c] = "idle"
      BY <1>2, <3>1 DEF StepFacts, ContainerInv, PreContainer, TypeOK
    <3>2. CASE ~(k = c /\ pc[c] = "idle")
      <4>1. before'[k] = before[k] /\ op[k] = "overwrite"
        BY <1>2, <3>2 DEF StepFacts, TypeOK
      <4>2. pc'[k] \in {"image", "ctrCreate"} => before'[k] = NoVolume \/ volume' # before'[k]
        BY <1>2, <2>1, <2>2, <4>1 DEF StepFacts, FreshInv, IncarnationInv, PreVolume, PreContainer
      <4>3. mount'[k] # NoVolume => mount'[k] # before'[k]
        BY <1>2, <2>1, <2>2, <4>1 DEF StepFacts, FreshInv, IncarnationInv, PreContainer, TypeOK
      <4> QED
        BY <4>2, <4>3
    <3> QED
      BY <3>1, <3>2
  <2> QED
    BY <2>4, <2>5
<1> QED
  BY <1>1, <1>2, StepGivesFacts DEF Next, AllReturned

\* However many calls create and remove the volume meanwhile, ModeOverwrite does
\* not write into the volume that existed when it was called (volume.go:162-182).
THEOREM OverwriteFresh == Spec => []OverwriteStartsFresh
<1> DEFINE Inv == TypeOK /\ ContainerInv /\ IncarnationInv /\ FreshInv
<1>1. Init => Inv
  BY InitTypeOK, InitContainerInv, InitIncarnations
<1>2. Inv /\ [Next]_vars => Inv'
  BY StepTypeOK, StepContainerInv, StepIncarnations
<1>3. Inv => OverwriteStartsFresh
  BY DEF FreshInv, OverwriteStartsFresh
<1> QED
  BY <1>1, <1>2, <1>3, PTL DEF Spec

-----------------------------------------------------------------------------
(* What a call may say                                                      *)

Complete(c) == sent[c] = Entries \/ (walkErr[c] /\ footer[c])

\* The value a call will return is "ok" only after a whole copy or a read, and a call
\* that has mounted a volume returns that value.
ResultInv ==
  \A c \in Calls :
    /\ pc[c] = "idle" => res[c] = "err"
    /\ pc[c] = "read" => op[c] = "read"
    /\ res[c] = "ok" => op[c] = "read" \/ Complete(c)
    /\ pc[c] = "ok" /\ mount[c] # NoVolume => res[c] = "ok"

LEMMA InitResultInv == Init => ResultInv
  BY DEF Init, ResultInv

LEMMA StepResultInv == TypeOK /\ ContainerInv /\ ResultInv /\ [Next]_vars => ResultInv'
<1> SUFFICES ASSUME TypeOK, ContainerInv, ResultInv, [Next]_vars PROVE ResultInv'
  OBVIOUS
<1> USE DEF Goto, Final, podman, locals, history
<1>1. ASSUME NEW c \in Calls, Begin(c) PROVE ResultInv'
  <2>1. /\ \A k \in Calls \ {c} : pc'[k] = pc[k] /\ op'[k] = op[k]
        /\ pc'[c] \in {"check", "image", "remove", "delCheck", "create", "err"}
    BY <1>1, ConstantsAssumption DEF Begin, FirstLabel, AllOps, Modes, TypeOK
  <2>2. res[c] = "err" /\ UNCHANGED <<mount, res, sent, walkErr, footer>>
    BY <1>1 DEF Begin, ResultInv
  <2> QED
    BY <2>1, <2>2 DEF ResultInv, Complete
<1>2. ASSUME NEW c \in Calls, CheckExists(c) PROVE ResultInv'
  BY <1>2 DEF TypeOK, ContainerInv, PreContainer, ResultInv, Complete, CheckExists, At, SetupLabel, PlanVolumeSetup, Retry, Struck
<1>3. ASSUME NEW c \in Calls, TryRemove(c) PROVE ResultInv'
  <2>1. /\ pc[c] = "remove" /\ mount' = mount
        /\ \A k \in Calls \ {c} : pc'[k] = pc[k]
        /\ pc'[c] \in {"remove", "force", "create", "ok", "err"}
    BY <1>3, DropKills DEF TryRemove, RemoveFailed, Retry, Removed, TypeOK
  <2> QED
    BY <1>3, <2>1 DEF TryRemove, ContainerInv, PreContainer, ResultInv, Complete
<1>4. ASSUME NEW c \in Calls, RetryForced(c) PROVE ResultInv'
  <2>1. /\ pc[c] = "force" /\ mount' = mount
        /\ \A k \in Calls \ {c} : pc'[k] = pc[k]
        /\ pc'[c] \in {"remove", "create", "ok", "err"}
    BY <1>4, DropKills DEF RetryForced, RemoveFailed, Retry, Removed, TypeOK
  <2> QED
    BY <1>4, <2>1 DEF RetryForced, ContainerInv, PreContainer, ResultInv, Complete
<1>5. ASSUME NEW c \in Calls, DeleteCheck(c) PROVE ResultInv'
  BY <1>5 DEF TypeOK, ContainerInv, PreContainer, ResultInv, Complete, DeleteCheck, Struck
<1>6. ASSUME NEW c \in Calls, DeleteRemove(c) PROVE ResultInv'
  <2>1. /\ pc[c] = "delRemove" /\ mount' = mount
        /\ \A k \in Calls \ {c} : pc'[k] = pc[k]
        /\ pc'[c] \in {"ok", "err"}
    BY <1>6, DropKills DEF DeleteRemove, TypeOK
  <2> QED
    BY <1>6, <2>1 DEF DeleteRemove, ContainerInv, PreContainer, ResultInv, Complete
<1>7. ASSUME NEW c \in Calls, CreateVolume(c) PROVE ResultInv'
  BY <1>7 DEF TypeOK, ContainerInv, PreContainer, ResultInv, Complete, CreateVolume, IgnoreIfExists, Struck
<1>8. ASSUME NEW c \in Calls, EnsureImage(c) PROVE ResultInv'
  BY <1>8 DEF TypeOK, ContainerInv, PreContainer, ResultInv, Complete, EnsureImage, Struck
<1>9. ASSUME NEW c \in Calls, CreateContainer(c) PROVE ResultInv'
  BY <1>9 DEF TypeOK, ContainerInv, PreContainer, ResultInv, Complete, CreateContainer, Struck
<1>10. ASSUME NEW c \in Calls, StartContainer(c) PROVE ResultInv'
  BY <1>10 DEF TypeOK, ContainerInv, PreContainer, ResultInv, Complete, StartContainer, Struck
<1>11. ASSUME NEW c \in Calls, CopyInit(c) PROVE ResultInv'
  BY <1>11 DEF TypeOK, ContainerInv, PreContainer, ResultInv, Complete, CopyInit, CopyError, Struck
<1>12. ASSUME NEW c \in Calls, CopyReturn(c) PROVE ResultInv'
  <2>1. pc' = [pc EXCEPT ![c] = "stop"] /\ UNCHANGED <<mount, op, sent, walkErr, footer>>
    BY <1>12 DEF CopyReturn, CopyError
  <2>2. CASE UNCHANGED res
    BY <2>1, <2>2 DEF TypeOK, ResultInv, Complete
  <2>3. CASE Copied(c) /\ res' = [res EXCEPT ![c] = "ok"]
    <3>1. Complete(c)
      BY <2>3 DEF Copied, Complete
    <3> QED
      BY <2>1, <2>3, <3>1 DEF TypeOK, ResultInv, Complete
  <2> QED
    BY <1>12, <2>2, <2>3 DEF CopyReturn
<1>13. ASSUME NEW c \in Calls, ReadFile(c) PROVE ResultInv'
  BY <1>13 DEF TypeOK, ContainerInv, PreContainer, ResultInv, Complete, ReadFile, Struck
<1>14. ASSUME NEW c \in Calls, StopContainer(c) PROVE ResultInv'
  BY <1>14 DEF TypeOK, ContainerInv, PreContainer, ResultInv, Complete, StopContainer, Struck
<1>15. ASSUME NEW c \in Calls, RemoveContainer(c) PROVE ResultInv'
  BY <1>15 DEF TypeOK, ContainerInv, PreContainer, ResultInv, Complete, RemoveContainer, Struck
<1>16. ASSUME NEW c \in Calls, Extract(c) PROVE ResultInv'
  BY <1>16 DEF TypeOK, ContainerInv, PreContainer, ResultInv, Complete, Extract
<1>17. ASSUME NEW c \in Calls, WalkError(c) \/ AnswerAtFooter(c) PROVE ResultInv'
  <2>1. CASE WalkError(c)
    BY <2>1 DEF TypeOK, ContainerInv, PreContainer, ResultInv, Complete, WalkError
  <2>2. CASE AnswerAtFooter(c)
    BY <2>2 DEF TypeOK, ContainerInv, PreContainer, ResultInv, Complete, AnswerAtFooter
  <2> QED
    BY <1>17, <2>1, <2>2
<1>18. ASSUME NEW c \in Calls, Cancel(c) PROVE ResultInv'
  BY <1>18 DEF TypeOK, ContainerInv, PreContainer, ResultInv, Complete, Cancel
<1>19. CASE UNCHANGED vars
  BY <1>19 DEF ResultInv, Complete, vars
<1> QED
  BY <1>1, <1>2, <1>3, <1>4, <1>5, <1>6, <1>7, <1>8, <1>9, <1>10, <1>11, <1>12, <1>13, <1>14, <1>15, <1>16, <1>17, <1>18, <1>19
  DEF Next, Advance, AllReturned

\* How a call comes to an end: only ModeSkip ends with nil before it mounts a volume, and
\* nothing is extracted for a call that has not mounted one yet.
EndInv ==
  \A c \in Calls :
    /\ pc[c] = "owCheck" => op[c] = "overwrite"
    /\ pc[c] \in {"remove", "force"} => op[c] \in {"overwrite", "remove"}
    /\ pc[c] \in {"delCheck", "delRemove"} => op[c] = "delete"
    /\ pc[c] \in PreContainer => sent[c] = 0
    /\ pc[c] \in {"start", "copyInit", "copy", "read", "stop", "rm"} => mount[c] # NoVolume
    /\ pc[c] = "ok" /\ mount[c] = NoVolume => op[c] \in {"skip", "remove", "delete", "create"}
    /\ ctr[c] \in Live => mount[c] # NoVolume

\* What a call has had extracted is in the volume it mounts, unless another call that
\* mounts it has written the same path there.
PlaceInv ==
  /\ \A c \in Calls : \A e \in 1..sent[c] : mount[c] # NoVolume /\ content[mount[c]][e] # Nobody
  /\ \A i \in Instances : \A e \in 1..Entries :
       content[i][e] = Nobody \/ content[i][e] \in WritersOf(i, e)

LEMMA InitPlaces == Init => EndInv /\ PlaceInv
<1> SUFFICES ASSUME Init PROVE EndInv /\ PlaceInv
  OBVIOUS
<1>1. EndInv
  BY DEF Init, EndInv, Live
<1>2. PlaceInv
  BY DEF Init, PlaceInv
<1> QED
  BY <1>1, <1>2

\* What a step of c leaves of EndInv for c itself
LEMMA StepEnds ==
  ASSUME TypeOK, ContainerInv, EndInv, NEW c \in Calls,
         Begin(c) \/ Advance(c) \/ Extract(c) \/ WalkError(c) \/ AnswerAtFooter(c) \/ Cancel(c)
  PROVE  /\ pc'[c] = "owCheck" => op'[c] = "overwrite"
         /\ pc'[c] \in {"remove", "force"} => op'[c] \in {"overwrite", "remove"}
         /\ pc'[c] \in {"delCheck", "delRemove"} => op'[c] = "delete"
         /\ pc'[c] \in PreContainer => sent'[c] = 0
         /\ pc'[c] \in {"start", "copyInit", "copy", "read", "stop", "rm"} => mount'[c] # NoVolume
         /\ pc'[c] = "ok" /\ mount'[c] = NoVolume => op'[c] \in {"skip", "remove", "delete", "create"}
         /\ ctr'[c] \in Live => mount'[c] # NoVolume
         /\ \A k \in Calls \ {c} : /\ pc'[k] = pc[k] /\ op'[k] = op[k] /\ sent'[k] = sent[k]
                                   /\ mount'[k] = mount[k]
                                   /\ ctr'[k] \in Live => ctr[k] \in Live
         /\ (content' = content /\ sent' = sent) \/ Extract(c)
<1> USE DEF TypeOK, ContainerInv, PreContainer, EndInv, Goto, Final, Live, podman, locals, history
<1>1. CASE Begin(c)
  <2>1. PICK o \in Ops : op' = [op EXCEPT ![c] = o] /\ (Goto(c, FirstLabel(o)) \/ Goto(c, "err"))
    BY <1>1 DEF Begin
  <2>2. o \in Modes \cup {"read", "remove", "delete", "create"}
    BY ConstantsAssumption DEF AllOps
  <2>3. \/ o \in Modes /\ FirstLabel(o) = "check"
        \/ o = "read" /\ FirstLabel(o) = "image"
        \/ o = "create" /\ FirstLabel(o) = "create"
        \/ o = "remove" /\ FirstLabel(o) = "remove"
        \/ o = "delete" /\ FirstLabel(o) = "delCheck"
    BY <2>2 DEF FirstLabel, Modes
  <2>4. op'[c] = o /\ pc'[c] \in {FirstLabel(o), "err"}
    BY <2>1
  <2> QED
    BY <1>1, <2>1, <2>3, <2>4 DEF Begin
<1>2. CASE Extract(c)
  BY <1>2 DEF Extract
<1>3. CASE WalkError(c) \/ AnswerAtFooter(c) \/ Cancel(c)
  BY <1>3 DEF WalkError, AnswerAtFooter, Cancel
<1>4. CASE CheckExists(c)
  <2>1. /\ UNCHANGED <<podman, op, sent>> /\ pc[c] \in {"check", "owCheck"}
        /\ \A k \in Calls \ {c} : pc'[k] = pc[k]
        /\ \/ pc'[c] \in {"err", pc[c], "create", "image"}
           \/ pc'[c] = "ok" /\ op[c] = "skip"
           \/ pc'[c] = "remove" /\ pc[c] = "owCheck"
           \/ pc'[c] = "owCheck" /\ op[c] = "overwrite"
    BY <1>4 DEF CheckExists, At, SetupLabel, PlanVolumeSetup, Retry
  <2> QED
    BY <2>1
<1>5. CASE TryRemove(c) \/ RetryForced(c)
  <2>1. /\ UNCHANGED <<op, sent>> /\ pc[c] \in {"remove", "force"}
        /\ \A k \in Calls \ {c} : pc'[k] = pc[k]
        /\ pc'[c] \in {"remove", "force", "err", Removed(c)}
    BY <1>5 DEF TryRemove, RetryForced, RemoveFailed, Retry
  <2>2. /\ UNCHANGED <<content, mount>>
        /\ \A k \in Calls : ctr'[k] = ctr[k] \/ (ctr[k] \in Live /\ ctr'[k] = "gone")
    BY <1>5, DropKills DEF TryRemove, RetryForced, DropVolume
  <2> QED
    BY <2>1, <2>2 DEF Removed
<1>6. CASE DeleteCheck(c)
  BY <1>6 DEF DeleteCheck
<1>7. CASE DeleteRemove(c)
  <2>1. /\ UNCHANGED <<content, mount>>
        /\ \A k \in Calls : ctr'[k] = ctr[k] \/ (ctr[k] \in Live /\ ctr'[k] = "gone")
    BY <1>7, DropKills DEF DeleteRemove, DropVolume
  <2> QED
    BY <1>7, <2>1 DEF DeleteRemove
<1>8. CASE CreateVolume(c)
  BY <1>8 DEF CreateVolume
<1>9. CASE EnsureImage(c)
  BY <1>9 DEF EnsureImage
<1>10. CASE CreateContainer(c)
  <2>1. <<c, "container">> # NoVolume
    BY ConstantsAssumption DEF NoVolume
  <2> QED
    BY <1>10, <2>1 DEF CreateContainer, Exists
<1>11. CASE StartContainer(c)
  BY <1>11 DEF StartContainer
<1>12. CASE CopyInit(c)
  BY <1>12 DEF CopyInit, CopyError
<1>13. CASE CopyReturn(c)
  BY <1>13 DEF CopyReturn, CopyError
<1>14. CASE ReadFile(c)
  BY <1>14 DEF ReadFile
<1>15. CASE StopContainer(c)
  BY <1>15 DEF StopContainer
<1>16. CASE RemoveContainer(c)
  BY <1>16 DEF RemoveContainer
<1> QED
  BY <1>1, <1>2, <1>3, <1>4, <1>5, <1>6, <1>7, <1>8, <1>9, <1>10, <1>11, <1>12, <1>13, <1>14,
     <1>15, <1>16 DEF Advance

LEMMA StepPlaces ==
  TypeOK /\ ContainerInv /\ EndInv /\ PlaceInv /\ [Next]_vars => EndInv' /\ PlaceInv'
<1> SUFFICES ASSUME TypeOK, ContainerInv, EndInv, PlaceInv, [Next]_vars PROVE EndInv' /\ PlaceInv'
  OBVIOUS
<1>1. CASE UNCHANGED vars
  BY <1>1 DEF EndInv, PlaceInv, WritersOf, vars, podman, locals
<1>2. ASSUME NEW c \in Calls,
             Begin(c) \/ Advance(c) \/ Extract(c) \/ WalkError(c) \/ AnswerAtFooter(c) \/ Cancel(c)
      PROVE  EndInv' /\ PlaceInv'
  <2>1. EndInv'
    BY <1>2, StepEnds DEF EndInv
  <2>2. /\ \A k \in Calls \ {c} : sent'[k] = sent[k] /\ mount'[k] = mount[k]
        /\ (content' = content /\ sent' = sent) \/ Extract(c)
    BY <1>2, StepEnds
  <2>3. CASE Extract(c)
    <3>1. /\ mount' = mount /\ mount[c] \in Instances /\ sent[c] + 1 \in 1..Entries
          /\ sent' = [sent EXCEPT ![c] = sent[c] + 1]
          /\ content' = [content EXCEPT ![mount[c]][sent[c] + 1] = c]
      BY <2>3, ConstantsAssumption DEF Extract, TypeOK, EndInv, Live
    <3>2. \A i \in Instances, e \in 1..Entries :
            content'[i][e] = IF i = mount[c] /\ e = sent[c] + 1 THEN c ELSE content[i][e]
      BY <3>1 DEF TypeOK
    <3>3. \A k \in Calls : sent[k] \in 0..Entries /\ sent'[k] = IF k = c THEN sent[c] + 1 ELSE sent[k]
      BY <3>1 DEF TypeOK
    <3>4. ASSUME NEW k \in Calls, NEW e \in 1..sent'[k]
          PROVE  mount'[k] # NoVolume /\ content'[mount'[k]][e] # Nobody
      <4>1. CASE k = c /\ e = sent[c] + 1
        BY <3>1, <3>2, <4>1, ConstantsAssumption DEF NoVolume, Instances
      <4>2. CASE ~(k = c /\ e = sent[c] + 1)
        <5>1. e \in 1..sent[k] /\ e \in 1..Entries
          BY <3>3, <4>2, ConstantsAssumption
        <5>2. mount[k] # NoVolume /\ content[mount[k]][e] # Nobody /\ mount[k] \in Instances
          BY <5>1 DEF PlaceInv, TypeOK
        <5> QED
          BY <3>1, <3>2, <5>1, <5>2, ConstantsAssumption
      <4> QED
        BY <4>1, <4>2
    <3>5. ASSUME NEW i \in Instances, NEW e \in 1..Entries
          PROVE  content'[i][e] = Nobody \/ content'[i][e] \in WritersOf(i, e)'
      <4>1. CASE i = mount[c] /\ e = sent[c] + 1
        BY <3>1, <3>2, <3>3, <4>1 DEF WritersOf
      <4>2. CASE ~(i = mount[c] /\ e = sent[c] + 1)
        <5>1. content'[i][e] = content[i][e]
          BY <3>2, <4>2
        <5>2. WritersOf(i, e) \subseteq WritersOf(i, e)'
          BY <3>1, <3>3 DEF WritersOf
        <5> QED
          BY <5>1, <5>2 DEF PlaceInv
      <4> QED
        BY <4>1, <4>2
    <3>6. \A k \in Calls : \A e \in 1..sent'[k] : mount'[k] # NoVolume /\ content'[mount'[k]][e] # Nobody
      BY <3>4
    <3>7. \A i \in Instances : \A e \in 1..Entries :
            content'[i][e] = Nobody \/ content'[i][e] \in WritersOf(i, e)'
      BY <3>5
    <3> QED
      BY <2>1, <3>6, <3>7, Zenon DEF PlaceInv
  <2>4. CASE content' = content /\ sent' = sent
    <3>1. \A k \in Calls : sent[k] = 0 \/ mount'[k] = mount[k]
      <4>1. mount'[c] = mount[c] \/ pc[c] = "ctrCreate"
        BY <1>2, StepGivesFacts DEF StepFacts
      <4> QED
        BY <2>2, <4>1 DEF EndInv, PreContainer
    <3>2. ASSUME NEW i \in Instances, NEW e \in 1..Entries
          PROVE  WritersOf(i, e) \subseteq WritersOf(i, e)'
      BY <2>4, <3>1 DEF WritersOf, TypeOK
    <3>3. \A k \in Calls : \A e \in 1..sent'[k] : mount'[k] # NoVolume /\ content'[mount'[k]][e] # Nobody
      <4> SUFFICES ASSUME NEW k \in Calls, NEW e \in 1..sent'[k]
                   PROVE  mount'[k] # NoVolume /\ content'[mount'[k]][e] # Nobody
        OBVIOUS
      <4>1. e \in 1..sent[k] /\ sent[k] # 0
        BY <2>4 DEF TypeOK
      <4> QED
        BY <2>4, <3>1, <4>1 DEF PlaceInv
    <3>4. \A i \in Instances : \A e \in 1..Entries :
            content'[i][e] = Nobody \/ content'[i][e] \in WritersOf(i, e)'
      BY <2>4, <3>2 DEF PlaceInv
    <3> QED
      BY <2>1, <3>3, <3>4, Zenon DEF PlaceInv
  <2> QED
    BY <2>1, <2>2, <2>3, <2>4
<1> QED
  BY <1>1, <1>2 DEF Next, AllReturned

\* A write that returns nil has had its whole folder extracted, and every path of it holds
\* this data or that of another call which wrote it to the same volume; errors of the walk,
\* of Podman, removals that kill its container and cancellations all reach the caller
\* (volume.go:360-375).  The exceptions are ModeSkip, which found a volume and wrote
\* nothing, and a walk that broke off with the copy answered at the footer.
THEOREM WholeFolder == Spec => []NilMeansWholeFolder
<1> DEFINE Inv == TypeOK /\ ContainerInv /\ ResultInv /\ EndInv /\ PlaceInv
<1>1. Init => Inv
  BY InitTypeOK, InitContainerInv, InitResultInv, InitPlaces
<1>2. Inv /\ [Next]_vars => Inv'
  BY StepTypeOK, StepContainerInv, StepResultInv, StepPlaces
<1>3. Inv => NilMeansWholeFolder
  <2> SUFFICES ASSUME Inv, NEW c \in Calls, Writes(c), pc[c] = "ok",
                      ~(op[c] = "skip" /\ mount[c] = NoVolume), ~(walkErr[c] /\ footer[c])
               PROVE  /\ mount[c] # NoVolume /\ sent[c] = Entries
                      /\ \A e \in 1..Entries : content[mount[c]][e] \in WritersOf(mount[c], e)
    BY DEF NilMeansWholeFolder
  <2>1. mount[c] # NoVolume
    BY DEF EndInv, Writes
  <2>2. sent[c] = Entries
    BY <2>1 DEF ResultInv, Complete, Writes
  <2>3. mount[c] \in Instances
    BY <2>1 DEF TypeOK
  <2> QED
    BY <2>1, <2>2, <2>3 DEF PlaceInv
<1> QED
  BY <1>1, <1>2, <1>3, PTL DEF Spec

-----------------------------------------------------------------------------
(* Removals *)

Removes(c) == op[c] \in {"remove", "delete"}

\* A removal keeps to its own labels, and once it has said "ok" the volume it found
\* is gone for ever.
RemovalInv ==
  \A c \in Calls : pc[c] # "idle" /\ Removes(c) =>
    /\ pc[c] \in {"remove", "force", "delCheck", "delRemove"} \cup Final
    /\ pc[c] = "ok" => before[c] = NoVolume \/ volume # before[c]

LEMMA InitRemovalInv == Init => RemovalInv
  BY DEF Init, RemovalInv

\* A removal that moves stays at its labels, and says "ok" only when it has dropped the
\* volume or found none; where "404" counts as missing this does not hold.
RemovalFacts(c) ==
  pc[c] # "idle" /\ Removes(c) =>
    /\ pc'[c] \in {"remove", "force", "delCheck", "delRemove"} \cup Final
    /\ pc'[c] = "ok" => pc[c] = "ok" \/ volume' = NoVolume

LEMMA StepRemovalFacts ==
  ASSUME TypeOK, RemovalInv, "name404" \notin Faults, NEW c \in Calls,
         Begin(c) \/ Advance(c) \/ Extract(c) \/ WalkError(c) \/ AnswerAtFooter(c) \/ Cancel(c)
  PROVE  RemovalFacts(c)
<1> SUFFICES ASSUME pc[c] \in {"remove", "force", "delCheck", "delRemove"} \cup Final, Removes(c)
             PROVE  /\ pc'[c] \in {"remove", "force", "delCheck", "delRemove"} \cup Final
                    /\ pc'[c] = "ok" => pc[c] = "ok" \/ volume' = NoVolume
  BY DEF RemovalFacts, RemovalInv
<1>1. CASE Extract(c) \/ WalkError(c) \/ AnswerAtFooter(c) \/ Cancel(c)
  BY <1>1 DEF Extract, WalkError, AnswerAtFooter, Cancel
<1>2. CASE TryRemove(c)
  BY <1>2 DEF TypeOK, TryRemove, RemoveFailed, IsNotFound, Retry, Removed, Removes, Exists, DropVolume,
              Goto, Final, podman
<1>3. CASE RetryForced(c)
  BY <1>3 DEF TypeOK, RetryForced, RemoveFailed, IsNotFound, Retry, Removed, Removes, Exists, DropVolume,
              Goto, Final, podman
<1>4. CASE DeleteCheck(c)
  BY <1>4 DEF TypeOK, DeleteCheck, Goto, Final
<1>5. CASE DeleteRemove(c)
  BY <1>5 DEF TypeOK, DeleteRemove, DropVolume, Goto, Final
<1> QED
  BY <1>1, <1>2, <1>3, <1>4, <1>5
  DEF Advance, Begin, CheckExists, At, CreateVolume, EnsureImage, CreateContainer, StartContainer,
      CopyInit, CopyReturn, ReadFile, StopContainer, RemoveContainer, Final

\* RemoveVolume and DeleteVolume return nil only when the volume that existed when they
\* were called is gone, through retries, forced attempts and lost replies
\* (volume.go:105-160), if no error of Podman has "404" in its text otherwise.
THEOREM RemovalEffective ==
  ASSUME "name404" \notin Faults
  PROVE  Spec => []RemovalIsEffective
<1> DEFINE Inv == TypeOK /\ ContainerInv /\ IncarnationInv /\ FreshInv /\ RemovalInv
<1>1. Init => Inv
  BY InitTypeOK, InitContainerInv, InitIncarnations, InitRemovalInv
<1>2. Inv /\ [Next]_vars => RemovalInv'
  <2> SUFFICES ASSUME Inv, [Next]_vars PROVE RemovalInv'
    OBVIOUS
  <2>1. CASE UNCHANGED vars
    BY <2>1 DEF RemovalInv, Removes, vars, podman, locals, history
  <2>2. ASSUME NEW c \in Calls, Begin(c) \/ Advance(c) \/ Extract(c) \/ WalkError(c) \/ AnswerAtFooter(c) \/ Cancel(c)
        PROVE  RemovalInv'
    <3>1. StepFacts(c) /\ RemovalFacts(c)
      BY <2>2, StepGivesFacts, StepRemovalFacts
    <3> SUFFICES ASSUME NEW k \in Calls, pc'[k] # "idle", Removes(k)'
                 PROVE  /\ pc'[k] \in {"remove", "force", "delCheck", "delRemove"} \cup Final
                        /\ pc'[k] = "ok" => before'[k] = NoVolume \/ volume' # before'[k]
      BY DEF RemovalInv
    <3>2. CASE pc[k] = "idle"
      <4>1. k = c /\ Begin(c)
        BY <2>2, <3>1, <3>2
        DEF StepFacts, Extract, WalkError, AnswerAtFooter, Cancel, Advance, CheckExists, At, TryRemove, RetryForced,
            DeleteCheck, DeleteRemove, CreateVolume, EnsureImage, CreateContainer, StartContainer,
            CopyInit, CopyReturn, ReadFile, StopContainer, RemoveContainer
      <4> QED
        BY <4>1, ConstantsAssumption DEF Begin, FirstLabel, Goto, Removes, TypeOK, AllOps, Modes, Final
    <3>3. CASE pc[k] # "idle"
      <4>1. before'[k] = before[k] /\ op'[k] = op[k] /\ Removes(k)
        BY <3>1, <3>3 DEF StepFacts, Removes, TypeOK
      <4>2. \/ pc'[k] = pc[k]
            \/ /\ pc'[k] \in {"remove", "force", "delCheck", "delRemove"} \cup Final
               /\ pc'[k] = "ok" => pc[k] = "ok" \/ volume' = NoVolume
        BY <3>1, <3>3, <4>1 DEF StepFacts, RemovalFacts
      <4>3. before[k] # NoVolume /\ volume # before[k] => volume' # before[k]
        BY <3>1 DEF StepFacts, IncarnationInv, PreVolume, PreContainer
      <4> QED
        BY <3>3, <4>1, <4>2, <4>3 DEF RemovalInv
    <3> QED
      BY <3>2, <3>3
  <2> QED
    BY <2>1, <2>2 DEF Next, AllReturned
<1>3. Inv /\ [Next]_vars => Inv'
  BY <1>2, StepTypeOK, StepContainerInv, StepIncarnations
<1>4. Inv => RemovalIsEffective
  BY DEF RemovalInv, Removes, RemovalIsEffective
<1> QED
  BY <1>1, <1>3, <1>4, PTL DEF Spec

-----------------------------------------------------------------------------
(* ModeSkip *)

Dropping == {"overwrite", "remove", "delete"}

\* Only calls that may remove a volume come to the labels of a removal.
OpInv ==
  \A c \in Calls :
    /\ pc[c] = "idle" => op[c] = "none"
    /\ pc[c] \in {"owCheck", "remove", "force", "delCheck", "delRemove"} => op[c] \in Dropping

\* As long as nobody removes volumes, a call of ModeSkip that has come past its setup has
\* created the volume that is there.
SkipInv ==
  (\A k \in Calls : op[k] \notin Dropping) =>
    \A c \in Calls : op[c] = "skip" =>
      /\ pc[c] \in {"image", "ctrCreate"} => volume = <<c, "volume">>
      /\ mount[c] # NoVolume => mount[c] = <<c, "volume">>

LEMMA InitSkipInv == Init => OpInv /\ SkipInv
  BY DEF Init, OpInv, SkipInv

\* The labels a step of c leads to, by what c is
LEMMA StepLabels ==
  ASSUME TypeOK, OpInv, NEW c \in Calls,
         Begin(c) \/ Advance(c) \/ Extract(c) \/ WalkError(c) \/ AnswerAtFooter(c) \/ Cancel(c)
  PROVE  /\ \A k \in Calls \ {c} :
              /\ pc'[k] = pc[k] /\ op'[k] = op[k]
              /\ res'[k] = res[k] /\ sent'[k] = sent[k]
              /\ walkErr'[k] = walkErr[k] /\ footer'[k] = footer[k]
         /\ op'[c] = op[c] \/ pc[c] = "idle"
         /\ pc'[c] # "idle" \/ UNCHANGED <<pc, op>>
         /\ pc'[c] \in {"owCheck", "remove", "force", "delCheck", "delRemove"} => op'[c] \in Dropping
<1> USE DEF TypeOK, OpInv, Dropping, Goto, podman, locals, history
<1>1. CASE Begin(c)
  BY <1>1, ConstantsAssumption DEF Begin, FirstLabel, AllOps, Modes
<1>2. CASE Extract(c) \/ WalkError(c) \/ AnswerAtFooter(c) \/ Cancel(c)
  BY <1>2 DEF Extract, WalkError, AnswerAtFooter, Cancel
<1>3. CASE CheckExists(c)
  BY <1>3 DEF CheckExists, At, Retry, SetupLabel, PlanVolumeSetup
<1>4. CASE TryRemove(c)
  BY <1>4 DEF TryRemove, RemoveFailed, Retry, Removed
<1>5. CASE RetryForced(c)
  BY <1>5 DEF RetryForced, RemoveFailed, Retry, Removed
<1>6. CASE DeleteCheck(c) \/ DeleteRemove(c)
  BY <1>6 DEF DeleteCheck, DeleteRemove
<1>7. CASE CreateVolume(c) \/ EnsureImage(c) \/ CreateContainer(c) \/ StartContainer(c)
  BY <1>7 DEF CreateVolume, EnsureImage, CreateContainer, StartContainer
<1>8. CASE CopyInit(c)
  BY <1>8 DEF CopyInit, CopyError
<1>9. CASE CopyReturn(c)
  BY <1>9 DEF CopyReturn, CopyError
<1>10. CASE ReadFile(c) \/ StopContainer(c) \/ RemoveContainer(c)
  BY <1>10 DEF ReadFile, StopContainer, RemoveContainer, Final
<1> QED
  BY <1>1, <1>2, <1>3, <1>4, <1>5, <1>6, <1>7, <1>8, <1>9, <1>10 DEF Advance

\* What a call that removes nothing does to the volume and to its mount
LEMMA StepKeepsVolume ==
  ASSUME TypeOK, OpInv, NEW c \in Calls, op[c] \notin Dropping,
         Begin(c) \/ Advance(c) \/ Extract(c) \/ WalkError(c) \/ AnswerAtFooter(c) \/ Cancel(c)
  PROVE  /\ volume' = volume \/ volume = NoVolume
         /\ \/ mount' = mount
            \/ pc[c] = "ctrCreate" /\ mount' = [mount EXCEPT ![c] = volume']
         /\ op'[c] = "skip" /\ pc'[c] \in {"image", "ctrCreate"} =>
              op[c] = "skip" /\ (pc[c] \in {"image", "ctrCreate"} \/ volume' = <<c, "volume">>)
<1> USE DEF TypeOK, OpInv, Dropping, Goto, podman, locals, history
<1>1. CASE Begin(c)
  BY <1>1, ConstantsAssumption DEF Begin, FirstLabel, AllOps, Modes
<1>2. CASE Extract(c) \/ WalkError(c) \/ AnswerAtFooter(c) \/ Cancel(c)
  BY <1>2 DEF Extract, WalkError, AnswerAtFooter, Cancel
<1>3. CASE CheckExists(c)
  BY <1>3 DEF CheckExists, At, Retry, SetupLabel, PlanVolumeSetup
<1>4. CASE TryRemove(c) \/ RetryForced(c) \/ DeleteCheck(c) \/ DeleteRemove(c)
  BY <1>4 DEF TryRemove, RetryForced, DeleteCheck, DeleteRemove
<1>5. CASE CreateVolume(c)
  BY <1>5 DEF CreateVolume, Exists, IgnoreIfExists
<1>6. CASE CreateContainer(c)
  BY <1>6 DEF CreateContainer, Exists
<1>7. CASE EnsureImage(c) \/ StartContainer(c)
  BY <1>7 DEF EnsureImage, StartContainer
<1>8. CASE CopyInit(c)
  BY <1>8 DEF CopyInit, CopyError
<1>9. CASE CopyReturn(c)
  BY <1>9 DEF CopyReturn, CopyError
<1>10. CASE ReadFile(c) \/ StopContainer(c) \/ RemoveContainer(c)
  BY <1>10 DEF ReadFile, StopContainer, RemoveContainer, Final
<1> QED
  BY <1>1, <1>2, <1>3, <1>4, <1>5, <1>6, <1>7, <1>8, <1>9, <1>10 DEF Advance

LEMMA StepOpInv == TypeOK /\ OpInv /\ [Next]_vars => OpInv'
<1> SUFFICES ASSUME TypeOK, OpInv, [Next]_vars PROVE OpInv'
  OBVIOUS
<1>1. CASE UNCHANGED vars
  BY <1>1 DEF OpInv, vars, locals
<1>2. ASSUME NEW c \in Calls, Begin(c) \/ Advance(c) \/ Extract(c) \/ WalkError(c) \/ AnswerAtFooter(c) \/ Cancel(c)
      PROVE  OpInv'
  BY <1>2, StepLabels DEF OpInv
<1> QED
  BY <1>1, <1>2 DEF Next, AllReturned

LEMMA StepSkipInv ==
  TypeOK /\ ContainerInv /\ OpInv /\ SkipInv /\ [Next]_vars => SkipInv'
<1> SUFFICES ASSUME TypeOK, ContainerInv, OpInv, SkipInv, [Next]_vars PROVE SkipInv'
  OBVIOUS
<1>1. CASE UNCHANGED vars
  BY <1>1 DEF SkipInv, vars, podman, locals
<1>2. ASSUME NEW c \in Calls, Begin(c) \/ Advance(c) \/ Extract(c) \/ WalkError(c) \/ AnswerAtFooter(c) \/ Cancel(c)
      PROVE  SkipInv'
  <2>1. /\ \A k \in Calls \ {c} : pc'[k] = pc[k] /\ op'[k] = op[k]
        /\ op'[c] = op[c] \/ (pc[c] = "idle" /\ op[c] = "none" /\ mount[c] = NoVolume)
    BY <1>2, StepLabels DEF OpInv, ContainerInv, PreContainer
  <2> SUFFICES ASSUME \A k \in Calls : op'[k] \notin Dropping, NEW k \in Calls, op'[k] = "skip"
               PROVE  /\ pc'[k] \in {"image", "ctrCreate"} => volume' = <<k, "volume">>
                      /\ mount'[k] # NoVolume => mount'[k] = <<k, "volume">>
    BY DEF SkipInv
  <2>2. \A l \in Calls : op[l] \notin Dropping
    BY <2>1 DEF Dropping
  <2>3. /\ volume' = volume \/ volume = NoVolume
        /\ \/ mount' = mount
           \/ pc[c] = "ctrCreate" /\ mount' = [mount EXCEPT ![c] = volume']
        /\ op'[c] = "skip" /\ pc'[c] \in {"image", "ctrCreate"} =>
             op[c] = "skip" /\ (pc[c] \in {"image", "ctrCreate"} \/ volume' = <<c, "volume">>)
    BY <1>2, <2>2, StepKeepsVolume
  <2>4. op[k] = "skip" =>
          /\ pc[k] \in {"image", "ctrCreate"} => volume = <<k, "volume">> /\ volume' = volume
          /\ mount[k] # NoVolume => mount[k] = <<k, "volume">>
    BY <2>2, <2>3 DEF SkipInv, NoVolume
  <2>5. CASE k # c
    BY <2>1, <2>3, <2>4, <2>5 DEF TypeOK
  <2>6. CASE k = c
    <3>1. pc'[c] \in {"image", "ctrCreate"} => volume' = <<c, "volume">>
      BY <2>3, <2>4, <2>6
    <3>2. CASE mount' = mount
      BY <2>1, <2>4, <2>6, <3>1, <3>2
    <3>3. CASE pc[c] = "ctrCreate" /\ mount' = [mount EXCEPT ![c] = volume']
      BY <2>1, <2>4, <2>6, <3>1, <3>3 DEF TypeOK
    <3> QED
      BY <2>3, <3>2, <3>3
  <2> QED
    BY <2>5, <2>6
<1> QED
  BY <1>1, <1>2 DEF Next, AllReturned

\* As long as nobody removes volumes, a write in ModeSkip goes into no volume but the one
\* the call has created, however many calls race to create it (volume_plan.go:18-22,
\* volume.go:235).
THEOREM SkipOwnsItsVolume == Spec => []SkipWritesOnlyItsOwnVolume
<1> DEFINE Inv == TypeOK /\ ContainerInv /\ OpInv /\ SkipInv
<1>1. Init => Inv
  BY InitTypeOK, InitContainerInv, InitSkipInv
<1>2. Inv /\ [Next]_vars => Inv'
  BY StepTypeOK, StepContainerInv, StepOpInv, StepSkipInv
<1>3. Inv => SkipWritesOnlyItsOwnVolume
  BY DEF SkipInv, SkipWritesOnlyItsOwnVolume, Dropping
<1> QED
  BY <1>1, <1>2, <1>3, PTL DEF Spec

-----------------------------------------------------------------------------
(* The composition *)

\* A call copies only if it writes, once, and nothing is extracted for it any more when
\* it has been told that the copy is done.
CopyInv ==
  \A c \in Calls :
    /\ pc[c] \notin {"stop", "rm"} \cup Final => res[c] = "err"
    /\ pc[c] = "check" => op[c] \in Modes
    /\ pc[c] \in {"owCheck", "copyInit", "copy"} => Writes(c)
    /\ pc[c] = "create" => Writes(c) \/ op[c] = "create"
    /\ pc[c] \in {"image", "ctrCreate", "start"} => Writes(c) \/ op[c] = "read"
    /\ pc[c] = "read" => op[c] = "read"
    /\ footer[c] => "early" \in Faults
    /\ ctr[c] = "extracting" =>
         /\ Writes(c)
         /\ pc[c] = "copy" \/ (pc[c] \in {"stop", "rm", "err"} /\ res[c] = "err")

LEMMA InitCopyInv == Init => CopyInv
  BY DEF Init, CopyInv, Final

\* What a step of c leaves of the invariant for c itself
LEMMA StepCopies ==
  ASSUME TypeOK, ContainerInv, OpInv, CopyInv, NEW c \in Calls,
         Begin(c) \/ Advance(c) \/ Extract(c) \/ WalkError(c) \/ AnswerAtFooter(c) \/ Cancel(c)
  PROVE  /\ pc'[c] \notin {"stop", "rm"} \cup Final => res'[c] = "err"
         /\ pc'[c] = "check" => op'[c] \in Modes
         /\ pc'[c] \in {"owCheck", "copyInit", "copy"} => Writes(c)'
         /\ pc'[c] = "create" => Writes(c)' \/ op'[c] = "create"
         /\ pc'[c] \in {"image", "ctrCreate", "start"} => Writes(c)' \/ op'[c] = "read"
         /\ pc'[c] = "read" => op'[c] = "read"
         /\ footer'[c] => "early" \in Faults
         /\ ctr'[c] = "extracting" =>
              /\ Writes(c)'
              /\ pc'[c] = "copy" \/ (pc'[c] \in {"stop", "rm", "err"} /\ res'[c] = "err")
<1> USE DEF TypeOK, ContainerInv, PreContainer, OpInv, CopyInv, Writes, Modes, Goto, Final,
            podman, locals, history
<1>1. CASE Begin(c)
  <2>1. PICK o \in Ops : op' = [op EXCEPT ![c] = o] /\ (Goto(c, FirstLabel(o)) \/ Goto(c, "err"))
    BY <1>1 DEF Begin
  <2>2. res'[c] = "err" /\ ctr'[c] = "none" /\ footer' = footer
    BY <1>1 DEF Begin
  <2>3. o \in Modes \cup {"read", "remove", "delete", "create"}
    BY ConstantsAssumption DEF AllOps
  <2>4. \/ o \in Modes /\ FirstLabel(o) = "check"
        \/ o = "read" /\ FirstLabel(o) = "image"
        \/ o = "create" /\ FirstLabel(o) = "create"
        \/ FirstLabel(o) \in {"remove", "delCheck"}
    BY <2>3 DEF FirstLabel
  <2>5. op'[c] = o /\ pc'[c] \in {FirstLabel(o), "err"}
    BY <2>1
  <2> QED
    BY <2>2, <2>3, <2>4, <2>5
<1>2. CASE Extract(c) \/ WalkError(c) \/ AnswerAtFooter(c) \/ Cancel(c)
  BY <1>2 DEF Extract, WalkError, AnswerAtFooter, Cancel
<1>3. CASE CheckExists(c)
  BY <1>3 DEF CheckExists, At, Retry, SetupLabel, PlanVolumeSetup
<1>4. CASE TryRemove(c) \/ RetryForced(c)
  <2>1. UNCHANGED <<op, res, footer>> /\ pc'[c] \in {"remove", "force", "err", Removed(c)}
    BY <1>4 DEF TryRemove, RetryForced, RemoveFailed, Retry
  <2>2. ctr'[c] # "extracting" /\ res[c] = "err"
    BY <1>4, DropKills DEF TryRemove, RetryForced
  <2> QED
    BY <2>1, <2>2 DEF Removed
<1>5. CASE DeleteCheck(c)
  BY <1>5 DEF DeleteCheck
<1>6. CASE DeleteRemove(c)
  BY <1>6, DropKills DEF DeleteRemove
<1>7. CASE CreateVolume(c) \/ EnsureImage(c)
  BY <1>7 DEF CreateVolume, EnsureImage
<1>8. CASE CreateContainer(c) \/ StartContainer(c)
  BY <1>8 DEF CreateContainer, StartContainer
<1>9. CASE CopyInit(c)
  BY <1>9 DEF CopyInit, CopyError
<1>10. CASE CopyReturn(c)
  BY <1>10 DEF CopyReturn, CopyError
<1>11. CASE ReadFile(c) \/ StopContainer(c)
  BY <1>11 DEF ReadFile, StopContainer
<1>12. CASE RemoveContainer(c)
  BY <1>12 DEF RemoveContainer
<1> QED
  BY <1>1, <1>2, <1>3, <1>4, <1>5, <1>6, <1>7, <1>8, <1>9, <1>10, <1>11, <1>12 DEF Advance

\* No step sets another call's container extracting.
LEMMA OthersContainer ==
  ASSUME TypeOK, NEW c \in Calls, NEW k \in Calls \ {c},
         Begin(c) \/ Advance(c) \/ Extract(c) \/ WalkError(c) \/ AnswerAtFooter(c) \/ Cancel(c)
  PROVE  ctr'[k] = ctr[k] \/ ctr'[k] = "gone"
<1> USE DEF TypeOK, podman
<1>1. CASE TryRemove(c) \/ RetryForced(c) \/ DeleteRemove(c)
  BY <1>1, DropKills DEF TryRemove, RetryForced, DeleteRemove
<1> QED
  BY <1>1 DEF Begin, Advance, Extract, WalkError, AnswerAtFooter, Cancel, CheckExists, DeleteCheck, CreateVolume,
              EnsureImage, CreateContainer, StartContainer, CopyInit, CopyReturn, ReadFile,
              StopContainer, RemoveContainer

LEMMA StepCopyInv ==
  TypeOK /\ ContainerInv /\ OpInv /\ CopyInv /\ [Next]_vars => CopyInv'
<1> SUFFICES ASSUME TypeOK, ContainerInv, OpInv, CopyInv, [Next]_vars PROVE CopyInv'
  OBVIOUS
<1>1. CASE UNCHANGED vars
  BY <1>1 DEF CopyInv, Writes, vars, podman, locals
<1>2. ASSUME NEW c \in Calls, Begin(c) \/ Advance(c) \/ Extract(c) \/ WalkError(c) \/ AnswerAtFooter(c) \/ Cancel(c)
      PROVE  CopyInv'
  <2>1. \A k \in Calls \ {c} :
          /\ pc'[k] = pc[k] /\ op'[k] = op[k] /\ res'[k] = res[k] /\ footer'[k] = footer[k]
          /\ ctr'[k] = ctr[k] \/ ctr'[k] = "gone"
    BY <1>2, StepLabels, OthersContainer
  <2> QED
    BY <1>2, <2>1, StepCopies DEF CopyInv, Writes
<1> QED
  BY <1>1, <1>2 DEF Next, AllReturned

\* As long as the result of a call is an error, ArchiveCopy has not said ok for it; and it
\* sees nothing of a call before its copy.
LEMMA PhaseOfError ==
  ASSUME NEW c \in Calls
  PROVE  /\ res[c] = "err" => CopyPhase(c) \in {"before", "copying", "err"}
         /\ pc[c] \notin {"copy", "stop", "rm"} \cup Final => CopyPhase(c) = "before"
         /\ ~Writes(c) => CopyPhase(c) = "before"
  BY Zenon DEF CopyPhase, Final

\* A call that has had nothing copied yet either begins to copy, or fails, or the copy
\* sees nothing of its step.
LEMMA BeforeCopy ==
  ASSUME NEW c \in Calls, CopyPhase(c) = "before", UNCHANGED <<sent[c], walkErr[c]>>,
         CopyPhase(c)' \in {"before", "copying", "err"}
  PROVE  Copy(c)!Next \/ UNCHANGED <<CopyPhase(c), sent[c], walkErr[c]>>
  BY DEF Copy!Next, Copy!Start

LEMMA CopySteps ==
  ASSUME TypeOK, ContainerInv, OpInv, CopyInv, NEW c \in Calls,
         Begin(c) \/ Advance(c) \/ Extract(c) \/ WalkError(c) \/ AnswerAtFooter(c) \/ Cancel(c)
  PROVE  Copy(c)!Next \/ UNCHANGED <<CopyPhase(c), sent[c], walkErr[c]>>
<1> USE DEF podman, locals, history
<1>1. CASE \/ Begin(c) \/ CheckExists(c) \/ TryRemove(c) \/ RetryForced(c) \/ DeleteCheck(c)
           \/ DeleteRemove(c) \/ CreateVolume(c) \/ EnsureImage(c) \/ CreateContainer(c)
           \/ StartContainer(c) \/ CopyInit(c)
  <2>1. /\ pc[c] \notin {"copy", "stop", "rm"} \cup Final
        /\ UNCHANGED <<res, sent, walkErr>>
    BY <1>1 DEF Begin, CheckExists, At, TryRemove, RetryForced, DeleteCheck, DeleteRemove,
                CreateVolume, EnsureImage, CreateContainer, StartContainer, CopyInit, Final
  <2>2. CopyPhase(c) = "before" /\ res'[c] = "err"
    BY <2>1, PhaseOfError DEF CopyInv
  <2>3. CopyPhase(c)' \in {"before", "copying", "err"}
    BY <2>2, Zenon DEF CopyPhase
  <2> QED
    BY <2>1, <2>2, <2>3, BeforeCopy
<1>2. CASE ReadFile(c)
  <2>1. ~Writes(c) /\ ~Writes(c)' /\ UNCHANGED <<sent, walkErr>>
    BY <1>2 DEF ReadFile, CopyInv, Writes
  <2>2. CopyPhase(c) = "before" /\ CopyPhase(c)' = "before"
    BY <2>1, Zenon DEF CopyPhase
  <2> QED
    BY <2>1, <2>2
<1>3. CASE CopyReturn(c)
  <2>1. /\ Writes(c) /\ Writes(c)' /\ pc[c] = "copy" /\ pc'[c] = "stop" /\ res[c] = "err"
        /\ UNCHANGED <<sent, walkErr>>
    BY <1>3 DEF CopyReturn, CopyError, CopyInv, Goto, TypeOK, Writes, Final
  <2>2. CopyPhase(c) = "copying" /\ CopyPhase(c)' = IF res'[c] = "ok" THEN "ok" ELSE "err"
    BY <2>1, Zenon DEF CopyPhase
  <2>3. CASE res' = [res EXCEPT ![c] = "ok"] /\ Copied(c)
    BY <2>1, <2>2, <2>3 DEF TypeOK, CopyInv, Copied, Copy!Next, Copy!Ok
  <2>4. CASE res' = res
    BY <2>1, <2>2, <2>4 DEF Copy!Next, Copy!Fail
  <2> QED
    BY <1>3, <2>3, <2>4 DEF CopyReturn
<1>4. CASE StopContainer(c) \/ RemoveContainer(c)
  <2>1. /\ pc[c] \in {"stop", "rm"} /\ pc'[c] \in {"rm", "ok", "err"}
        /\ pc'[c] = "ok" => res[c] = "ok"
        /\ UNCHANGED <<op, res, sent, walkErr>>
    BY <1>4 DEF StopContainer, RemoveContainer, Goto, TypeOK, Final
  <2>2. CopyPhase(c)' = CopyPhase(c)
    BY <2>1, Zenon DEF CopyPhase, Writes
  <2> QED
    BY <2>1, <2>2
<1>5. CASE Extract(c)
  <2>1. /\ sent[c] < Entries /\ sent'[c] = sent[c] + 1
        /\ UNCHANGED <<pc, op, res, walkErr>> /\ ctr[c] = "extracting"
    BY <1>5 DEF Extract, TypeOK
  <2>2. CopyPhase(c) \in {"copying", "err"} /\ CopyPhase(c)' = CopyPhase(c)
    BY <2>1, Zenon DEF CopyInv, CopyPhase, Writes
  <2> QED
    BY <2>1, <2>2 DEF Copy!Next, Copy!Extract
<1>6. CASE WalkError(c)
  <2>1. pc[c] = "copy" /\ UNCHANGED <<pc, op, res, sent>> /\ walkErr'[c] = TRUE
    BY <1>6 DEF WalkError, TypeOK
  <2>2. CopyPhase(c) = "copying" /\ CopyPhase(c)' = CopyPhase(c)
    BY <2>1, Zenon DEF CopyInv, CopyPhase, Writes
  <2> QED
    BY <2>1, <2>2 DEF Copy!Next, Copy!WalkError
<1>7. CASE AnswerAtFooter(c) \/ Cancel(c)
  BY <1>7, Zenon DEF AnswerAtFooter, Cancel, CopyPhase, Writes
<1> QED
  BY <1>1, <1>2, <1>3, <1>4, <1>5, <1>6, <1>7 DEF Advance

\* In every interleaving with other calls and with every fault, each call copies as
\* ArchiveCopy promises, which ArchiveStream implements (volume.go:264-381).
THEOREM CopiesRefine == Spec => CopiesAsPromised
<1> DEFINE Inv == TypeOK /\ ContainerInv /\ OpInv /\ CopyInv
           Copies == \A c \in Calls : Copy(c)!Next \/ UNCHANGED <<CopyPhase(c), sent[c], walkErr[c]>>
<1>1. Init => Inv
  BY InitTypeOK, InitContainerInv, InitSkipInv, InitCopyInv
<1>2. Inv /\ [Next]_vars => Inv'
  BY StepTypeOK, StepContainerInv, StepOpInv, StepCopyInv
<1>3. Init => \A c \in Calls : Copy(c)!Init
  BY DEF Init, Copy!Init, CopyPhase, Writes
<1>4. Inv /\ [Next]_vars => [Copies]_vars
  <2> SUFFICES ASSUME Inv, [Next]_vars, ~UNCHANGED vars, NEW k \in Calls
               PROVE  Copy(k)!Next \/ UNCHANGED <<CopyPhase(k), sent[k], walkErr[k]>>
    OBVIOUS
  <2>1. CASE AllReturned
    BY <2>1 DEF AllReturned
  <2>2. ASSUME NEW c \in Calls, Begin(c) \/ Advance(c) \/ Extract(c) \/ WalkError(c) \/ AnswerAtFooter(c) \/ Cancel(c)
        PROVE  Copy(k)!Next \/ UNCHANGED <<CopyPhase(k), sent[k], walkErr[k]>>
    <3>1. CASE k = c
      BY <2>2, <3>1, CopySteps
    <3>2. CASE k # c
      <4>1. pc'[k] = pc[k] /\ op'[k] = op[k] /\ res'[k] = res[k]
        BY <2>2, <3>2, StepLabels
      <4>2. sent'[k] = sent[k] /\ walkErr'[k] = walkErr[k]
        BY <2>2, <3>2, StepLabels
      <4>3. CopyPhase(k)' = CopyPhase(k)
        BY <4>1, Zenon DEF CopyPhase, Writes
      <4> QED
        BY <4>2, <4>3
    <3> QED
      BY <3>1, <3>2
  <2> QED
    BY <2>1, <2>2 DEF Next
<1> QED
  BY <1>1, <1>2, <1>3, <1>4, PTL DEF Spec, CopiesAsPromised

=============================================================================
