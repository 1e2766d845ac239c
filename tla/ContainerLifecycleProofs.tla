----------------------- MODULE ContainerLifecycleProofs -----------------------
(***************************************************************************)
(* Theorems about ContainerLifecycle for any number of calls and names and *)
(* any faults, up to the refinement of CreateIfAbsent; and, since it is the*)
(* specification that NewSpec returns which CreateContainer hands on,      *)
(* theorems about SpecOptions: its arithmetic, for every 64-bit argument,  *)
(* and what holds of a specification whatever the options.                 *)
(***************************************************************************)
EXTENDS ContainerLifecycle, Integers, TLAPS

\* What a call has at each place: no name before it has begun, no container before its
\* create request, and one, though it may be gone, when its start has failed.
CallInv ==
  \A c \in Calls :
    /\ pc[c] = "idle" => name[c] = Nobody
    /\ pc[c] # "idle" => name[c] \in Names
    /\ pc[c] \in {"idle", "check", "inspect", "image", "create"} => ctr[c] = "none"
    /\ pc[c] \in {"cleanup", "left"} => ctr[c] # "none"

\* OkOwnsItsContainer in terms of the state of the container.
OkInv ==
  \A c \in Calls : pc[c] = "ok" =>
    \/ ctr[c] = "gone"
    \/ ctr[c] \in Live /\ (kind[c] # "create" => ctr[c] # "created")

\* A call that fails without a word of its container has none, or never learnt of it.
ErrInv == \A c \in Calls : pc[c] = "err" /\ ctr[c] \in Live => blind[c]

IInv == TypeOK /\ CallInv /\ OkInv /\ ErrInv

-----------------------------------------------------------------------------
(* The invariant *)

LEMMA InitInv == Init => IInv
  BY LifecycleAssumption DEF Init, IInv, TypeOK, CallInv, OkInv, ErrInv, Live, Labels, Answers

\* A removed container leaves its own name free and every other name as it was.
LEMMA DropTypes ==
  ASSUME TypeOK, CallInv, NEW k \in Calls, ctr[k] \in Live, Drop(k), UNCHANGED name
  PROVE  /\ owner' \in [Names -> Calls \cup {Nobody}]
         /\ ctr' \in [Calls -> {"none", "gone"} \cup Live]
         /\ \A n \in Names : \A c \in Calls :
              owner'[n] = c <=> ctr'[c] \in Live /\ name'[c] = n
         /\ ctr'[k] = "gone" /\ \A c \in Calls \ {k} : ctr'[c] = ctr[c]
<1>1. name[k] \in Names /\ owner[name[k]] = k
  BY DEF TypeOK, CallInv, Live
<1> QED
  BY <1>1, LifecycleAssumption DEF TypeOK, Drop, Live

LEMMA BlindMarked ==
  ASSUME TypeOK, NEW c \in Calls, blind' = [blind EXCEPT ![c] = TRUE]
  PROVE  /\ blind' \in [Calls -> BOOLEAN] /\ blind'[c]
         /\ \A k \in Calls \ {c} : blind'[k] = blind[k]
<1>1. blind \in [Calls -> BOOLEAN]
  BY DEF TypeOK
<1>2. blind'[c] = TRUE
  BY <1>1, Zenon
<1>3. \A k \in Calls \ {c} : blind'[k] = blind[k]
  BY <1>1, Zenon
<1>4. blind' \in [Calls -> BOOLEAN]
  BY <1>1, Zenon
<1> QED
  BY <1>2, <1>3, <1>4

LEMMA NextInv == IInv /\ [Next]_vars => IInv'
<1> SUFFICES ASSUME IInv, [Next]_vars PROVE IInv'
  OBVIOUS
<1> USE LifecycleAssumption DEF Live, Labels, Answers, podman
<1>1. ASSUME NEW c \in Calls, Begin(c) PROVE IInv'
  BY <1>1 DEF IInv, TypeOK, CallInv, OkInv, ErrInv, Begin, Goto
<1>2. ASSUME NEW c \in Calls, CheckExists(c) PROVE IInv'
  BY <1>2 DEF IInv, TypeOK, CallInv, OkInv, ErrInv, CheckExists, Goto
<1>3. ASSUME NEW c \in Calls, InspectContainer(c) PROVE IInv'
  BY <1>3 DEF IInv, TypeOK, CallInv, OkInv, ErrInv, InspectContainer, InspectAnswer, Goto
<1>4. ASSUME NEW c \in Calls, EnsureImage(c) PROVE IInv'
  BY <1>4 DEF IInv, TypeOK, CallInv, OkInv, ErrInv, EnsureImage, Goto
<1>5. ASSUME NEW c \in Calls, CreateContainer(c) PROVE IInv'
  <2>1. CASE UNCHANGED <<podman, blind>> /\ Goto(c, "err")
    BY <1>5, <2>1 DEF IInv, TypeOK, CallInv, OkInv, ErrInv, CreateContainer, Goto
  <2>2. CASE /\ owner[name[c]] = Nobody /\ owner' = [owner EXCEPT ![name[c]] = c]
             /\ ctr' = [ctr EXCEPT ![c] = "created"]
             /\ \/ Goto(c, Created(c)) /\ UNCHANGED blind
                \/ Goto(c, "err") /\ blind' = [blind EXCEPT ![c] = TRUE]
    <3>1. name[c] \in Names /\ ctr[c] = "none" /\ UNCHANGED <<kind, name, ctxDone>>
      BY <1>5 DEF IInv, CallInv, CreateContainer
    <3>2. \A n \in Names : \A k \in Calls :
            owner'[n] = k <=> ctr'[k] \in Live /\ name'[k] = n
      BY <2>2, <3>1 DEF IInv, TypeOK
    <3>3. /\ pc'[c] \in {"ok", "start", "err"} /\ (pc'[c] = "ok" => kind[c] = "create")
          /\ pc' = [pc EXCEPT ![c] = pc'[c]]
      BY <2>2 DEF IInv, TypeOK, Created, Goto
    <3>4. blind' \in [Calls -> BOOLEAN] /\ (\A k \in Calls \ {c} : blind'[k] = blind[k])
      <4>1. CASE blind' = [blind EXCEPT ![c] = TRUE]
        BY <4>1, BlindMarked DEF IInv
      <4>2. CASE UNCHANGED blind
        BY <4>2 DEF IInv, TypeOK
      <4> QED
        BY <2>2, <4>1, <4>2
    <3>5. pc'[c] = "err" => blind'[c]
      <4>1. CASE Goto(c, "err") /\ blind' = [blind EXCEPT ![c] = TRUE]
        BY <4>1, BlindMarked DEF IInv
      <4>2. CASE Goto(c, Created(c))
        BY <4>2 DEF IInv, TypeOK, Created, Goto
      <4> QED
        BY <2>2, <4>1, <4>2
    <3>6. TypeOK'
      <4>1. /\ owner' \in [Names -> Calls \cup {Nobody}]
            /\ ctr' \in [Calls -> {"none", "gone"} \cup Live]
            /\ pc' \in [Calls -> Labels]
        BY <2>2, <3>1, <3>3 DEF IInv, TypeOK
      <4>2. /\ kind' \in [Calls -> {"none", "create", "start", "init"}]
            /\ name' \in [Calls -> Names \cup {Nobody}]
            /\ ctxDone' \in [Calls -> BOOLEAN]
        BY <3>1 DEF IInv, TypeOK
      <4>3. \A k \in Calls : pc'[k] = "start" => ctr'[k] \in {"created", "gone"}
        BY <2>2, <3>3 DEF IInv, TypeOK
      <4> QED
        BY <3>2, <3>4, <4>1, <4>2, <4>3 DEF TypeOK
    <3>7. CallInv' /\ OkInv'
      BY <2>2, <3>1, <3>3 DEF IInv, TypeOK, CallInv, OkInv
    <3>8. ErrInv'
      BY <2>2, <3>3, <3>4, <3>5 DEF IInv, TypeOK, ErrInv
    <3> QED
      BY <3>6, <3>7, <3>8 DEF IInv
  <2> QED
    BY <1>5, <2>1, <2>2 DEF CreateContainer, ConflictAnswer, Taken
<1>6. ASSUME NEW c \in Calls, StartContainer(c) PROVE IInv'
  BY <1>6 DEF IInv, TypeOK, CallInv, OkInv, ErrInv, StartContainer, Goto
<1>7. ASSUME NEW c \in Calls, Cleanup(c) PROVE IInv'
  BY <1>7 DEF IInv, TypeOK, CallInv, OkInv, ErrInv, Cleanup, CleanupAnswer, Goto
<1>8. ASSUME NEW n \in Names, RemoveByName(n) PROVE IInv'
  <2>1. owner[n] \in Calls /\ ctr[owner[n]] \in Live
    BY <1>8 DEF IInv, TypeOK, RemoveByName
  <2> QED
    BY <1>8, <2>1, DropTypes DEF IInv, TypeOK, CallInv, OkInv, ErrInv, RemoveByName
<1>9. ASSUME NEW c \in Calls, Exits(c) PROVE IInv'
  BY <1>9 DEF IInv, TypeOK, CallInv, OkInv, ErrInv, Exits
<1>10. ASSUME NEW c \in Calls, Cancel(c) PROVE IInv'
  BY <1>10 DEF IInv, TypeOK, CallInv, OkInv, ErrInv, Cancel
<1>11. CASE UNCHANGED vars
  BY <1>11 DEF IInv, TypeOK, CallInv, OkInv, ErrInv, vars
<1> QED
  BY <1>1, <1>2, <1>3, <1>4, <1>5, <1>6, <1>7, <1>8, <1>9, <1>10, <1>11
  DEF Next, Advance, AllAnswered

LEMMA Inductive == Spec => []IInv
  BY InitInv, NextInv, PTL DEF Spec

\* The type invariant: a name and the container under it agree
\* (container_runtime.go:82-152).
THEOREM TypeCorrect == Spec => []TypeOK
<1>1. IInv => TypeOK
  BY DEF IInv
<1> QED
  BY Inductive, <1>1, PTL

\* A failed call tells its caller of the container it leaves, unless it never learnt of its
\* creation, and no other call can have the name of that container
\* (container_runtime.go:95-101, 113-132).
THEOREM LeftoversReported == Spec => []LeftoverIsReported
<1>1. ASSUME IInv PROVE LeftoverIsReported
  <2>1. ASSUME NEW c \in Calls, pc[c] = "left", ctr[c] # "gone",
               NEW d \in Calls \ {c}, name[d] = name[c], pc[d] = "ok", ctr[d] # "gone"
        PROVE  FALSE
    <3>1. ctr[c] \in Live /\ ctr[d] \in Live /\ name[c] \in Names
      BY <1>1, <2>1 DEF IInv, TypeOK, CallInv, OkInv
    <3>2. owner[name[c]] = c /\ owner[name[c]] = d
      BY <1>1, <2>1, <3>1 DEF IInv, TypeOK
    <3> QED
      BY <3>2
  <2> QED
    BY <1>1, <2>1 DEF IInv, ErrInv, LeftoverIsReported
<1> QED
  BY Inductive, <1>1, PTL

\* A call that returns nil owns the container under its name, unless someone removed
\* it (container_runtime.go:106-152).
THEOREM OkOwns == Spec => []OkOwnsItsContainer
<1>1. IInv => OkOwnsItsContainer
  BY DEF IInv, TypeOK, CallInv, OkInv, OkOwnsItsContainer, Live
<1> QED
  BY Inductive, <1>1, PTL

-----------------------------------------------------------------------------
(* The refinement *)

\* The answers and the owners as CreateIfAbsent sees them
AnswerOf == [c \in Calls |-> ResultOf(pc[c])]
Took == {c \in Calls : ctr[c] # "none"}

LEMMA InitRefines == Init => Promise!Init
  BY DEF Init, Promise!Init, ResultOf, Answers

\* One call goes on, and the answers of the others stay.
LEMMA AnswerMoves ==
  ASSUME TypeOK, NEW c \in Calls, NEW l \in Labels, Goto(c, l)
  PROVE  AnswerOf' = [AnswerOf EXCEPT ![c] = ResultOf(l)]
<1>1. pc' = [pc EXCEPT ![c] = l]
  BY DEF Goto
<1> QED
  BY <1>1 DEF TypeOK, AnswerOf

\* A call that answers, the names being as they were
LEMMA AnswerStep ==
  ASSUME IInv, NEW c \in Calls, pc[c] \notin Answers \cup {"idle"},
         NEW r \in Answers, Goto(c, r), UNCHANGED <<podman, name>>,
         r = "ok" => ctr[c] # "none",
         r = "exists" => ctr[c] = "none" /\ owner[name[c]] # Nobody
  PROVE  Promise!Answer(c)
<1>1. name[c] \in Names /\ AnswerOf[c] = "none"
  BY DEF IInv, CallInv, AnswerOf, ResultOf, Answers
<1>2. AnswerOf' = [AnswerOf EXCEPT ![c] = ResultOf(r)]
  BY AnswerMoves DEF IInv, Labels
<1>3. Took' = Took /\ UNCHANGED <<name, owner>>
  BY DEF Took, podman
<1>4. (r = "ok" => c \in Took) /\ (r = "exists" => c \notin Took)
  BY DEF Took
<1>5. /\ ResultOf(r) \in {"ok", "exists", "err"}
      /\ ResultOf(r) = "ok" => r = "ok"
      /\ ResultOf(r) = "exists" => r = "exists"
  BY DEF ResultOf, Answers
<1> QED
  BY <1>1, <1>2, <1>3, <1>4, <1>5 DEF Promise!Answer, AnswerOf, Took

\* A call that goes on without an answer, the names being as they were
LEMMA SilentStep ==
  ASSUME IInv, NEW c \in Calls, pc[c] \notin Answers,
         NEW l \in Labels \ Answers, Goto(c, l), UNCHANGED <<owner, name>>, Took' = Took
  PROVE  UNCHANGED Promise!createVars
<1>1. AnswerOf' = [AnswerOf EXCEPT ![c] = "none"]
  BY AnswerMoves DEF IInv, ResultOf, Answers
<1>2. AnswerOf[c] = "none"
  BY DEF AnswerOf, ResultOf, Answers
<1>3. AnswerOf' = AnswerOf
  BY <1>1, <1>2 DEF AnswerOf
<1> QED
  BY <1>3 DEF Promise!createVars, AnswerOf, Took

LEMMA StepRefines == IInv /\ [Next]_vars => [Promise!Next]_(Promise!createVars)
<1> SUFFICES ASSUME IInv, [Next]_vars PROVE [Promise!Next]_(Promise!createVars)
  OBVIOUS
<1>1. ASSUME NEW c \in Calls, Begin(c) PROVE Promise!Ask(c)
  <2>1. PICK l \in {"check", "err"} : Goto(c, l)
    BY <1>1 DEF Begin
  <2>2. AnswerOf' = [AnswerOf EXCEPT ![c] = ResultOf(l)]
    BY <2>1, AnswerMoves DEF IInv, Labels, Answers
  <2>3. AnswerOf[c] = "none" /\ name[c] = Nobody
    BY <1>1 DEF IInv, CallInv, AnswerOf, Begin, ResultOf, Answers
  <2>4. AnswerOf' = AnswerOf \/ AnswerOf' = [AnswerOf EXCEPT ![c] = "err"]
    BY <2>1, <2>2, <2>3 DEF ResultOf, Answers, AnswerOf
  <2>5. Took' = Took /\ owner' = owner /\ \E n \in Names : name' = [name EXCEPT ![c] = n]
    BY <1>1 DEF Begin, Took, podman
  <2> QED
    BY <2>3, <2>4, <2>5 DEF Promise!Ask, AnswerOf, Took
<1>2. ASSUME NEW c \in Calls, CheckExists(c) \/ EnsureImage(c)
      PROVE  Promise!Answer(c) \/ UNCHANGED Promise!createVars
  <2>1. /\ pc[c] \in {"check", "image"} /\ UNCHANGED <<podman, name>>
        /\ \E l \in {"inspect", "image", "create", "err"} : Goto(c, l)
    BY <1>2 DEF CheckExists, EnsureImage
  <2>2. Took' = Took
    BY <2>1 DEF Took, podman
  <2> QED
    BY <2>1, <2>2, AnswerStep, SilentStep DEF Answers, Labels, podman
<1>3. ASSUME NEW c \in Calls, InspectContainer(c) PROVE Promise!Answer(c)
  <2>1. PICK r \in {"exists", "err"} : Goto(c, r) /\ (r = "exists" => owner[name[c]] # Nobody)
    BY <1>3 DEF InspectContainer, InspectAnswer, Taken
  <2>2. pc[c] = "inspect" /\ ctr[c] = "none" /\ UNCHANGED <<podman, name>>
    BY <1>3 DEF IInv, CallInv, InspectContainer
  <2> QED
    BY <2>1, <2>2, AnswerStep DEF Answers
<1>4. ASSUME NEW c \in Calls, CreateContainer(c) PROVE Promise!Take(c) \/ Promise!Answer(c)
  <2>1. pc[c] = "create" /\ ctr[c] = "none" /\ name[c] \in Names /\ UNCHANGED name
    BY <1>4 DEF IInv, CallInv, CreateContainer
  <2>2. CASE Goto(c, "err") /\ UNCHANGED podman
    BY <2>1, <2>2, AnswerStep DEF Answers
  <2>3. CASE /\ owner[name[c]] = Nobody /\ owner' = [owner EXCEPT ![name[c]] = c]
             /\ ctr' = [ctr EXCEPT ![c] = "created"]
             /\ \E l \in {"ok", "start", "err"} : Goto(c, l)
    <3>1. PICK l \in {"ok", "start", "err"} : Goto(c, l)
      BY <2>3
    <3>2. /\ AnswerOf[c] = "none"
          /\ AnswerOf' = [AnswerOf EXCEPT ![c] = ResultOf(l)]
      BY <2>1, <3>1, AnswerMoves DEF IInv, Labels, Answers, AnswerOf, ResultOf
    <3>3. \E r \in {"none", "ok", "err"} : AnswerOf' = [AnswerOf EXCEPT ![c] = r]
      BY <3>2 DEF ResultOf, Answers
    <3>4. c \notin Took /\ Took' = Took \cup {c}
      BY <2>1, <2>3 DEF IInv, TypeOK, Took
    <3> QED
      BY <2>1, <2>3, <3>2, <3>3, <3>4 DEF Promise!Take, AnswerOf, Took
  <2> QED
    BY <1>4, <2>2, <2>3 DEF CreateContainer, Created, ConflictAnswer, Taken
<1>5. ASSUME NEW c \in Calls, StartContainer(c)
      PROVE  Promise!Answer(c) \/ UNCHANGED Promise!createVars
  <2>1. pc[c] = "start" /\ ctr[c] # "none" /\ name[c] \in Names /\ UNCHANGED <<owner, name>>
    BY <1>5 DEF IInv, TypeOK, CallInv, StartContainer
  <2>2. Took' = Took
    BY <1>5, <2>1 DEF IInv, TypeOK, StartContainer, Took
  <2>3. CASE Goto(c, "cleanup")
    BY <2>1, <2>2, <2>3, SilentStep DEF Answers, Labels
  <2>4. CASE Goto(c, "ok")
    <3>1. AnswerOf[c] = "none" /\ AnswerOf' = [AnswerOf EXCEPT ![c] = "ok"] /\ c \in Took
      BY <2>1, <2>4, AnswerMoves DEF IInv, Labels, Answers, AnswerOf, ResultOf, Took
    <3> QED
      BY <2>1, <2>2, <3>1 DEF Promise!Answer, AnswerOf, Took
  <2> QED
    BY <1>5, <2>3, <2>4 DEF StartContainer
<1>6. ASSUME NEW c \in Calls, Cleanup(c) PROVE Promise!Answer(c)
  <2>1. pc[c] = "cleanup" /\ Goto(c, "left") /\ UNCHANGED <<podman, name>>
    BY <1>6 DEF Cleanup, CleanupAnswer
  <2> QED
    BY <2>1, AnswerStep DEF Answers
<1>7. ASSUME NEW n \in Names, RemoveByName(n) PROVE Promise!Free(n)
  <2>1. /\ owner[n] \in Calls /\ ctr[owner[n]] \in Live /\ name[owner[n]] = n
        /\ Drop(owner[n]) /\ UNCHANGED <<pc, name>>
    BY <1>7 DEF IInv, TypeOK, RemoveByName
  <2>2. owner[n] # Nobody /\ owner' = [owner EXCEPT ![n] = Nobody]
    BY <1>7, <2>1 DEF RemoveByName, Drop
  <2>3. Took' = Took
    BY <2>1 DEF IInv, TypeOK, Drop, Took, Live
  <2> QED
    BY <2>1, <2>2, <2>3 DEF Promise!Free, Took
<1>8. ASSUME NEW c \in Calls, Exits(c) \/ Cancel(c) PROVE UNCHANGED Promise!createVars
  <2>1. Took' = Took
    BY <1>8 DEF IInv, TypeOK, Exits, Cancel, Took, podman
  <2> QED
    BY <1>8, <2>1 DEF Exits, Cancel, podman, Promise!createVars, Took
<1>9. CASE UNCHANGED vars
  BY <1>9 DEF vars, podman, Promise!createVars
<1> QED
  BY <1>1, <1>2, <1>3, <1>4, <1>5, <1>6, <1>7, <1>8, <1>9
  DEF Next, Advance, AllAnswered, Promise!Next

\* The separate requests of the calls implement create-if-absent (CreateIfAbsent).
THEOREM Refines == Spec => ImplementsCreateIfAbsent
  BY Inductive, InitRefines, StepRefines, PTL DEF Spec, ImplementsCreateIfAbsent, Promise!Spec

-----------------------------------------------------------------------------
(* The options of a specification                                           *)

\* The constants and the variables of SpecOptions
CONSTANTS Strings, Duration, HostDirs, Join(_, _), Trim(_)
VARIABLES spec, result

Opt == INSTANCE SpecOptions

LEMMA HalfType == Opt!Half \in Nat
<1>1. Opt!TwoTo30 \in Nat
  BY SMT DEF Opt!TwoTo30
<1>2. Opt!TwoTo30 * Opt!TwoTo30 \in Nat
  BY <1>1, SMT
<1> QED
  BY <1>1, <1>2, SMT DEF Opt!Half

LEMMA WrapBelow ==
  ASSUME NEW x \in Int, 0 <= x, x < Opt!Half
  PROVE  Opt!Wrap(x) = x
<1>1. x + Opt!Half \in Nat /\ x + Opt!Half < 2 * Opt!Half
  BY HalfType, SMT
<1>2. (x + Opt!Half) % (2 * Opt!Half) = x + Opt!Half
  BY <1>1, HalfType, SMT
<1> QED
  BY <1>2, HalfType, SMT DEF Opt!Wrap

LEMMA WrapAbove ==
  ASSUME NEW x \in Int, Opt!Half <= x, x < 2 * Opt!Half
  PROVE  Opt!Wrap(x) = x - 2 * Opt!Half
<1>1. /\ x + Opt!Half = 2 * Opt!Half + (x - Opt!Half)
      /\ x - Opt!Half \in Nat /\ x - Opt!Half < 2 * Opt!Half
  BY HalfType, SMT
<1>2. (x + Opt!Half) % (2 * Opt!Half) = x - Opt!Half
  BY <1>1, HalfType, SMT
<1> QED
  BY <1>2, HalfType, SMT DEF Opt!Wrap

\* As long as the product fits, WithNanoCPUs sets the quota there should be, rounded down
\* to a microsecond: nothing below 10000 nanoCPUs (resource.go:122-146).
THEOREM QuotaIsExact ==
  ASSUME NEW n \in Nat, n * Opt!DefaultPeriod < Opt!Half
  PROVE  Opt!Quota(n) = n \div 10000
<1>1. n * Opt!DefaultPeriod \in Nat /\ n * Opt!DefaultPeriod = n * 100000
  BY SMT DEF Opt!DefaultPeriod
<1>2. Opt!Wrap(n * Opt!DefaultPeriod) = n * 100000
  BY <1>1, WrapBelow, SMT
<1>3. (n * 100000) \div 1000000000 = n \div 10000
  BY SMT
<1> QED
  BY <1>1, <1>2, <1>3, SMT DEF Opt!Quota, Opt!Quo

LEMMA HalfValue == Opt!Half = 9223372036854775808
<1>1. Opt!TwoTo30 = 1073741824
  BY SMT DEF Opt!TwoTo30
<1>2. Opt!TwoTo30 * Opt!TwoTo30 = 1152921504606846976
  BY <1>1, SMT
<1>3. 8 * Opt!TwoTo30 * Opt!TwoTo30 = 8 * (Opt!TwoTo30 * Opt!TwoTo30)
  BY <1>1, SMT
<1> QED
  BY <1>2, <1>3, SMT DEF Opt!Half

LEMMA WrapRange ==
  ASSUME NEW x \in Int
  PROVE  Opt!Wrap(x) \in Int /\ Opt!Wrap(x) < Opt!Half
<1>1. Opt!Half \in Nat /\ Opt!Half > 0
  BY HalfValue, SMT
<1>2. (x + Opt!Half) % (2 * Opt!Half) \in 0..(2 * Opt!Half - 1)
  BY <1>1, SMT
<1> QED
  BY <1>1, <1>2, SMT DEF Opt!Wrap

\* Beyond that the product has overflowed, and the quota is smaller than it should be,
\* however large the number; it is not even positive as long as the product is below 2^64
\* (resource.go:138).
THEOREM QuotaOverflows ==
  ASSUME NEW n \in Nat, Opt!Half <= n * Opt!DefaultPeriod
  PROVE  /\ Opt!Quota(n) < n \div 10000
         /\ n * Opt!DefaultPeriod < 2 * Opt!Half => Opt!Quota(n) <= 0
<1> DEFINE w == Opt!Wrap(n * Opt!DefaultPeriod)
<1>1. /\ n * Opt!DefaultPeriod \in Int /\ n * Opt!DefaultPeriod = n * 100000
      /\ Opt!Half = 9223372036854775808
  BY HalfValue, SMT DEF Opt!DefaultPeriod
<1>2. w \in Int /\ w < Opt!Half
  BY <1>1, WrapRange
<1>3. n \div 10000 > 0
  BY <1>1, SMT
<1>4. w < 0 => Opt!Quota(n) <= 0
  BY <1>2, SMT DEF Opt!Quota, Opt!Quo
<1>5. CASE n * Opt!DefaultPeriod < 2 * Opt!Half
  <2>1. w < 0
    BY <1>1, <1>5, WrapAbove, SMT
  <2>2. Opt!Quota(n) \in Int /\ n \div 10000 \in Int
    BY <1>2, SMT DEF Opt!Quota, Opt!Quo
  <2> QED
    BY <1>3, <1>4, <2>1, <2>2, SMT
<1>6. CASE 2 * Opt!Half <= n * Opt!DefaultPeriod
  <2>1. n >= 184467440737095
    BY <1>1, <1>6, SMT
  <2>2. n \div 10000 >= 18446744073
    BY <2>1, SMT
  <2>3. w >= 0 => Opt!Quota(n) = w \div 1000000000
    BY <1>2, SMT DEF Opt!Quota, Opt!Quo
  <2>4. w >= 0 => w \div 1000000000 <= 9223372036
    BY <1>1, <1>2, SMT
  <2>5. Opt!Quota(n) < n \div 10000
    BY <1>2, <1>3, <1>4, <2>2, <2>3, <2>4, SMT DEF Opt!Quota, Opt!Quo
  <2> QED
    BY <1>6, <2>5, <1>1, SMT
<1> QED
  BY <1>1, <1>5, <1>6, SMT

\* The policy of a duration: what it accepts is in range (runtime_execution_policy.go:21-55).
LEMMA PolicyType ==
  ASSUME Duration \in [DOMAIN Duration -> Opt!Int64], NEW text, NEW least,
         NEW allowZero \in BOOLEAN, NEW d \in Opt!PolicyDuration(text, least, allowZero)
  PROVE  /\ d \in Opt!Int64 /\ d = Duration[text]
         /\ d >= least \/ (allowZero /\ d = 0)
<1>1. text \in DOMAIN Duration /\ d = Duration[text] /\ (d >= least \/ (allowZero /\ d = 0))
  BY DEF Opt!PolicyDuration
<1>2. Duration[text] \in Opt!Int64
  BY <1>1
<1> QED
  BY <1>1, <1>2

\* An accepted healthcheck has usable durations; the retries, a uint, are kept up to the
\* largest int and negative beyond (runtime_contract.go:31-63).
THEOREM AcceptedHealth ==
  ASSUME Duration \in [DOMAIN Duration -> Opt!Int64], NEW shell \in BOOLEAN,
         NEW interval, NEW retries \in Opt!Uint64, NEW timeout, NEW start,
         NEW h \in Opt!HealthConfigs(shell, interval, retries, timeout, start)
  PROVE  /\ Opt!HealthConfigs(shell, interval, retries, timeout, start) = {h}
         /\ h.interval >= 0 /\ h.start >= 0 /\ h.timeout >= Opt!Second
         /\ h.retries = IF retries < Opt!Half THEN retries
                        ELSE retries - 2 * Opt!Half
         /\ h.retries # 0
<1>1. PICK i \in Opt!Interval(interval), t \in Opt!Timeout(timeout),
           s \in Opt!StartPeriod(start) :
        /\ h = [interval |-> i, retries |-> Opt!Wrap(retries), timeout |-> t, start |-> s]
        /\ shell /\ retries >= 1
  BY DEF Opt!HealthConfigs
<1>2. i >= 0 /\ t >= Opt!Second /\ s >= 0
  <2>1. i >= 0 \/ i = 0
    BY <1>1, PolicyType DEF Opt!Interval
  <2>2. t >= Opt!Second
    BY <1>1, PolicyType DEF Opt!Timeout
  <2>3. s >= 0
    BY <1>1, PolicyType DEF Opt!StartPeriod
  <2> QED
    BY <2>1, <2>2, <2>3, SMT DEF Opt!Second
<1>3. Opt!Wrap(retries) = IF retries < Opt!Half THEN retries
                      ELSE retries - 2 * Opt!Half
  BY WrapBelow, WrapAbove, HalfType, SMT DEF Opt!Uint64
<1>4. Opt!Interval(interval) = {i} /\ Opt!Timeout(timeout) = {t} /\ Opt!StartPeriod(start) = {s}
  BY <1>1 DEF Opt!Interval, Opt!Timeout, Opt!StartPeriod, Opt!PolicyDuration
<1>5. Opt!HealthConfigs(shell, interval, retries, timeout, start) = {h}
  BY <1>1, <1>4 DEF Opt!HealthConfigs
<1> QED
  <2>1. retries \in Nat /\ retries >= 1 /\ retries < 2 * Opt!Half /\ Opt!Half \in Nat
    BY <1>1, HalfType, SMT DEF Opt!Uint64
  <2>2. h.interval = i /\ h.timeout = t /\ h.start = s /\ h.retries = Opt!Wrap(retries)
    BY <1>1
  <2>3. Opt!Wrap(retries) # 0
    BY <1>3, <2>1, SMT
  <2> QED
    BY <1>2, <1>3, <1>5, <2>2, <2>3

-----------------------------------------------------------------------------
(* What holds of every specification *)

SpecFields ==
  {"field", "env", "mounts", "volumes", "workDir", "ports", "caps", "health", "quota", "period",
   "shares"}

OptionsInv ==
  /\ DOMAIN spec = SpecFields
  /\ Opt!QuotaHasPeriod /\ Opt!OneVolumePerDest /\ Opt!HealthIsUsable

LEMMA InitOptionsInv == Opt!Init => OptionsInv
  BY DEF Opt!Init, Opt!EmptySpec, OptionsInv, SpecFields, Opt!QuotaHasPeriod,
         Opt!OneVolumePerDest, Opt!HealthIsUsable

LEMMA NextOptionsInv ==
  ASSUME Duration \in [DOMAIN Duration -> Opt!Int64], OptionsInv, [Opt!Next]_Opt!vars
  PROVE  OptionsInv'
<1> USE DEF OptionsInv, SpecFields
<1>1. CASE UNCHANGED spec
  BY <1>1 DEF Opt!QuotaHasPeriod, Opt!OneVolumePerDest, Opt!HealthIsUsable
<1>2. CASE \/ Opt!Assign \/ Opt!AddEnvs \/ Opt!AddPort
           \/ Opt!AddSysAdmin \/ Opt!AddMount \/ Opt!BindFiles
  <2>1. /\ DOMAIN spec' = SpecFields
        /\ \A f \in {"quota", "period", "shares", "health", "volumes"} : spec'[f] = spec[f]
    <3>1. CASE Opt!Assign
      BY <3>1 DEF Opt!Assign, Opt!Building, Opt!WithField
    <3>2. CASE Opt!AddEnvs
      BY <3>2 DEF Opt!AddEnvs, Opt!Building, Opt!WithEnvs
    <3>3. CASE Opt!AddPort \/ Opt!AddSysAdmin
      BY <3>3 DEF Opt!AddPort, Opt!AddSysAdmin, Opt!Building
    <3>4. CASE Opt!AddMount
      BY <3>4, <1>1 DEF Opt!AddMount, Opt!Building, Opt!Fail, Opt!WithMount
    <3>5. CASE Opt!BindFiles
      BY <3>5 DEF Opt!BindFiles, Opt!Building, Opt!WithFileBindings, Opt!WithEnvs
    <3> QED
      BY <1>2, <3>1, <3>2, <3>3, <3>4, <3>5
  <2> QED
    BY <2>1 DEF Opt!QuotaHasPeriod, Opt!OneVolumePerDest, Opt!HealthIsUsable
<1>3. CASE Opt!LimitCPU
  <2>1. /\ DOMAIN spec' = SpecFields /\ spec'.health = spec.health /\ spec'.volumes = spec.volumes
        /\ spec'.quota # {} /\ spec'.period # {}
    BY <1>3 DEF Opt!LimitCPU, Opt!Building, Opt!WithCPULimits, Opt!WithNanoCPUs
  <2> QED
    BY <2>1 DEF Opt!QuotaHasPeriod, Opt!OneVolumePerDest, Opt!HealthIsUsable
<1>4. CASE Opt!CheckHealth
  <2>1. PICK shell \in BOOLEAN, retries \in Opt!Uint64, interval \in Strings, timeout \in Strings,
             start \in Strings :
          \/ Opt!Fail
          \/ Opt!Building([spec EXCEPT !.health =
               Opt!HealthConfigs(shell, interval, retries, timeout, start)])
    BY <1>4 DEF Opt!CheckHealth
  <2>2. CASE Opt!Building([spec EXCEPT !.health =
               Opt!HealthConfigs(shell, interval, retries, timeout, start)])
    <3>1. /\ DOMAIN spec' = SpecFields
          /\ spec'.health = Opt!HealthConfigs(shell, interval, retries, timeout, start)
          /\ \A f \in {"quota", "period", "shares", "volumes"} : spec'[f] = spec[f]
      BY <2>2 DEF Opt!Building
    <3>2. Opt!HealthIsUsable'
      BY <3>1, AcceptedHealth DEF Opt!HealthIsUsable
    <3> QED
      BY <3>1, <3>2 DEF Opt!QuotaHasPeriod, Opt!OneVolumePerDest
  <2> QED
    BY <1>1, <2>1, <2>2 DEF Opt!Fail
<1>5. CASE Opt!AddVolume
  <2>1. PICK vol \in Strings, dest \in Strings, subPath \in Strings :
          Opt!Fail \/ Opt!Building(Opt!WithNamedVolume(spec, Trim(vol), dest, subPath))
    BY <1>5 DEF Opt!AddVolume
  <2>2. CASE Opt!Building(Opt!WithNamedVolume(spec, Trim(vol), dest, subPath))
    <3>1. CASE \E v \in spec.volumes : v.dest = dest
      BY <1>1, <2>2, <3>1 DEF Opt!Building, Opt!WithNamedVolume
    <3>2. CASE ~\E v \in spec.volumes : v.dest = dest
      <4>1. /\ DOMAIN spec' = SpecFields
            /\ spec'.volumes =
                 spec.volumes \cup {[name |-> Trim(vol), dest |-> dest, subPath |-> subPath]}
            /\ \A f \in {"quota", "period", "shares", "health"} : spec'[f] = spec[f]
        BY <2>2, <3>2 DEF Opt!Building, Opt!WithNamedVolume
      <4> QED
        BY <3>2, <4>1 DEF Opt!QuotaHasPeriod, Opt!OneVolumePerDest, Opt!HealthIsUsable
    <3> QED
      BY <3>1, <3>2
  <2> QED
    BY <1>1, <2>1, <2>2 DEF Opt!Fail
<1> QED
  BY <1>1, <1>2, <1>3, <1>4, <1>5 DEF Opt!Next, Opt!Finish, Opt!vars

\* Whatever the options and their order, a quota comes with a period and shares with both,
\* a destination has one volume, and a healthcheck is one that Podman can run
\* (resource.go:107-146, volume.go:57-81, container.go:139-149).
THEOREM SpecIsUsable ==
  ASSUME Duration \in [DOMAIN Duration -> Opt!Int64]
  PROVE  Opt!Spec => [](Opt!QuotaHasPeriod /\ Opt!OneVolumePerDest /\ Opt!HealthIsUsable)
<1>1. Opt!Init => OptionsInv
  BY InitOptionsInv
<1>2. OptionsInv /\ [Opt!Next]_Opt!vars => OptionsInv'
  BY NextOptionsInv
<1>3. OptionsInv => Opt!QuotaHasPeriod /\ Opt!OneVolumePerDest /\ Opt!HealthIsUsable
  BY DEF OptionsInv
<1> QED
  BY <1>1, <1>2, <1>3, PTL DEF Opt!Spec
=============================================================================
