-------------------------- MODULE RuntimeInitProofs --------------------------
(***************************************************************************)
(* Theorems about RuntimeInit for any number of calls, any faults and any  *)
(* set of environments.                                                    *)
(***************************************************************************)
EXTENDS RuntimeInit, TLAPS

\* What holds in every state and not only while nobody is inside: the package
\* variables change together, and a call that is about to open the store has found
\* the runtime down under the mutex it still holds.
StoreInv ==
  /\ initialized <=> pbCtx # Nil
  /\ initialized <=> pbStore # Nil
  /\ stores = IF initialized THEN 1 ELSE 0
  /\ \A c \in Calls : pc[c] = "store" => ~initialized

\* A connection is made, kept and handed out only where the target can be reached, and a
\* call that found none was struck or could not reach it.
ReachInv ==
  /\ pbCtx # Nil => Reachable(env)
  /\ \A c \in Calls : pc[c] = "store" \/ got[c] # Nil => Reachable(env)
  /\ \A c \in Calls : answer[c] = "ConnectionUnavailable" => struck[c] \/ ~Reachable(env)

IInv == TypeOK /\ StoreInv /\ ReachInv

-----------------------------------------------------------------------------

\* The two ways to look for a socket agree but for white space and for the sockets that only
\* the check tries (runtime_init_policy.go:21-47, Makefile:132-167).
LEMMA ChecksAgree ==
  ASSUME NEW e \in Environments
  PROVE  /\ Reachable(e) => HostCheck(e) \/ Trimmed(e)
         /\ HostCheck(e) /\ ~Reachable(e) => Trimmed(e) \/ OtherSocket(e)
<1> USE DEF Reachable, Target, RuntimeDir, TrimSpace, HostCheck, Finds, Trimmed, OtherSocket
<1>1. /\ e.sockets \subseteq Dirs
      /\ e.host = Unset \/ e.host = Blank \/ e.host.is \in Dirs \cup {"remote"}
      /\ e.xdg = Unset \/ e.xdg = Blank \/ e.xdg.is \in Dirs
  BY DEF Environments, Values
<1>2. Unset.is = "" /\ Blank.is = "" /\ Unset.pad = "none" /\ Blank.pad = "lead"
  BY DEF Unset, Blank
<1>3. "" \notin Dirs \cup {"remote"} /\ "remote" \notin Dirs
  BY DEF Dirs
<1>4. CASE e.host # Unset
  BY <1>1, <1>2, <1>3, <1>4
<1>5. CASE e.host = Unset
  <2>1. CASE e.xdg = Unset
    BY <1>1, <1>2, <1>3, <1>5, <2>1
  <2>2. CASE e.xdg # Unset
    BY <1>1, <1>2, <1>3, <1>5, <2>2
  <2> QED
    BY <2>1, <2>2
<1> QED
  BY <1>4, <1>5

LEMMA InitInv == Init => IInv
<1> SUFFICES ASSUME Init PROVE IInv
  OBVIOUS
<1>1. TypeOK
  BY RuntimeAssumption DEF Init, TypeOK, Errors
<1>2. StoreInv
  BY DEF Init, StoreInv
<1>3. ReachInv
  BY DEF Init, ReachInv
<1> QED
  BY <1>1, <1>2, <1>3 DEF IInv

\* At most one call is past its Lock.
LEMMA OneInside ==
  ASSUME TypeOK, NEW c \in Calls, NEW k \in Calls,
         pc[c] \in {"init", "store", "down"}, pc[k] \in {"init", "store", "down"}
  PROVE  c = k
  BY DEF TypeOK

\* A call that is inside and returns leaves nobody inside.
LEMMA ReturnTypes ==
  ASSUME TypeOK, NEW c \in Calls, pc[c] \in {"init", "store", "down"},
         NEW err \in Errors, Return(c, err)
  PROVE  /\ mutex' = Nil
         /\ pc' \in [Calls -> {"idle", "lockInit", "lockDown", "init", "store", "down", "returned"}]
         /\ \A k \in Calls : pc'[k] \notin {"init", "store", "down"}
         /\ answer' \in [Calls -> Errors]
<1> USE DEF TypeOK, Return, Goto, Errors
<1>1. mutex' = Nil /\ answer' \in [Calls -> Errors]
  OBVIOUS
<1>2. pc' \in [Calls -> {"idle", "lockInit", "lockDown", "init", "store", "down", "returned"}]
  OBVIOUS
<1>3. ASSUME NEW k \in Calls PROVE pc'[k] \notin {"init", "store", "down"}
  BY OneInside
<1> QED
  BY <1>1, <1>2, <1>3

\* A history is set for one call.
LEMMA StruckSet ==
  ASSUME TypeOK, NEW c \in Calls, struck' = [struck EXCEPT ![c] = TRUE]
  PROVE  /\ struck' \in [Calls -> BOOLEAN] /\ struck'[c]
         /\ \A k \in Calls \ {c} : struck'[k] = struck[k]
<1>1. struck \in [Calls -> BOOLEAN]
  BY DEF TypeOK
<1>2. struck'[c] = TRUE
  BY <1>1, Zenon
<1>3. \A k \in Calls \ {c} : struck'[k] = struck[k]
  BY <1>1, Zenon
<1>4. struck' \in [Calls -> BOOLEAN]
  BY <1>1, Zenon
<1> QED
  BY <1>2, <1>3, <1>4

\* One call returns; the answers of the others stay.
LEMMA ReturnAnswers ==
  ASSUME TypeOK, NEW c \in Calls, NEW err \in Errors, Return(c, err)
  PROVE  answer'[c] = err /\ \A k \in Calls \ {c} : answer'[k] = answer[k]
  BY DEF TypeOK, Return

LEMMA NextInv == IInv /\ [Next]_vars => IInv'
<1> SUFFICES ASSUME IInv, [Next]_vars PROVE IInv'
  OBVIOUS
<1> USE RuntimeAssumption
<1>1. ASSUME NEW c \in Calls, Call(c) PROVE IInv'
  BY <1>1 DEF IInv, TypeOK, StoreInv, ReachInv, Call, Goto, package, results, Errors
<1>2. ASSUME NEW c \in Calls, Lock(c) PROVE IInv'
  BY <1>2 DEF IInv, TypeOK, StoreInv, ReachInv, Lock, Goto, package, results, Errors
<1>3. ASSUME NEW c \in Calls, Connect(c) PROVE IInv'
  <2>1. CASE AlreadyUp /\ got' = [got EXCEPT ![c] = pbCtx] /\ Return(c, "nil") /\ UNCHANGED struck
    <3>1. TypeOK' /\ StoreInv'
      BY <1>3, <2>1 DEF IInv, TypeOK, StoreInv, Connect, AlreadyUp, Return, Goto, package, Errors
    <3>2. \A k \in Calls : answer'[k] = "ConnectionUnavailable" => answer[k] = "ConnectionUnavailable"
      BY <2>1, ReturnAnswers DEF IInv, Errors
    <3>3. \A k \in Calls : (pc'[k] = "store" => pc[k] = "store") /\ (got'[k] # Nil => got[k] # Nil \/ pbCtx # Nil)
      BY <2>1 DEF IInv, TypeOK, Return, Goto
    <3>4. ReachInv'
      BY <1>3, <2>1, <3>2, <3>3 DEF IInv, ReachInv, Connect, package
    <3> QED
      BY <3>1, <3>4 DEF IInv
  <2>2. CASE /\ ~AlreadyUp /\ Reachable(env) /\ Goto(c, "store")
             /\ UNCHANGED <<mutex, answer, got, struck>>
    <3>1. TypeOK' /\ StoreInv'
      BY <1>3, <2>2 DEF IInv, TypeOK, StoreInv, Connect, AlreadyUp, Goto, package
    <3>2. ReachInv'
      BY <1>3, <2>2 DEF IInv, TypeOK, ReachInv, Connect, Goto, package
    <3> QED
      BY <3>1, <3>2 DEF IInv
  <2>3. CASE /\ Return(c, "ConnectionUnavailable") /\ UNCHANGED got
             /\ (~Reachable(env) /\ UNCHANGED struck) \/ struck' = [struck EXCEPT ![c] = TRUE]
    <3>1. /\ struck' \in [Calls -> BOOLEAN] /\ (Reachable(env) => struck'[c])
          /\ \A k \in Calls \ {c} : struck'[k] = struck[k]
      <4>1. CASE ~Reachable(env) /\ UNCHANGED struck
        BY <4>1 DEF IInv, TypeOK
      <4>2. CASE struck' = [struck EXCEPT ![c] = TRUE]
        BY <4>2, StruckSet DEF IInv
      <4> QED
        BY <2>3, <4>1, <4>2
    <3>2. TypeOK' /\ StoreInv'
      BY <1>3, <2>3, <3>1 DEF IInv, TypeOK, StoreInv, Connect, Return, Goto, package, Errors
    <3>3. \A k \in Calls \ {c} : answer'[k] = answer[k]
      BY <2>3, ReturnAnswers DEF IInv, Errors
    <3>4. \A k \in Calls : (pc'[k] = "store" => pc[k] = "store")
      BY <2>3 DEF IInv, TypeOK, Return, Goto
    <3>5. ReachInv'
      BY <1>3, <2>3, <3>1, <3>3, <3>4 DEF IInv, ReachInv, Connect, package
    <3> QED
      BY <3>2, <3>5 DEF IInv
  <2> QED
    BY <1>3, <2>1, <2>2, <2>3 DEF Connect
<1>4. ASSUME NEW c \in Calls, OpenStore(c) PROVE IInv'
  <2>1. \A k \in Calls : pc'[k] # "store"
    BY <1>4, OneInside DEF IInv, TypeOK, OpenStore, Return, Goto
  <2>2. TypeOK'
    <3>1. PICK err \in {"nil", "StoreUnavailable"} : Return(c, err)
      BY <1>4 DEF OpenStore
    <3>2. /\ mutex' = Nil
          /\ pc' \in [Calls -> {"idle", "lockInit", "lockDown", "init", "store", "down", "returned"}]
          /\ \A k \in Calls : pc'[k] \notin {"init", "store", "down"}
          /\ answer' \in [Calls -> Errors]
      BY <1>4, <3>1, ReturnTypes DEF IInv, OpenStore, Errors
    <3>3. /\ env' \in Hosts /\ got' \in [Calls -> Calls \cup {Nil}] /\ ctxDone' \in [Calls -> BOOLEAN]
          /\ struck' \in [Calls -> BOOLEAN]
          /\ pbCtx' \in Calls \cup {Nil} /\ pbStore' \in {"open", Nil} /\ stores' \in Nat
      BY <1>4 DEF IInv, TypeOK, OpenStore, package
    <3>4. initialized' \in BOOLEAN
      BY <1>4 DEF IInv, TypeOK, OpenStore, package
    <3> QED
      BY <3>2, <3>3, <3>4 DEF TypeOK
  <2>3. StoreInv'
    <3>1. ~initialized /\ stores = 0
      BY <1>4 DEF IInv, StoreInv, OpenStore
    <3>2. CASE UNCHANGED <<package, stores>>
      BY <2>1, <3>2 DEF IInv, StoreInv, package
    <3>3. CASE initialized' = TRUE /\ pbCtx' = c /\ pbStore' = "open" /\ stores' = stores + 1
      BY <2>1, <3>1, <3>3 DEF StoreInv
    <3> QED
      BY <1>4, <3>2, <3>3 DEF OpenStore
  <2>4. ReachInv'
    <3>1. PICK err \in {"nil", "StoreUnavailable"} : Return(c, err)
      BY <1>4 DEF OpenStore
    <3>2. \A k \in Calls : answer'[k] = "ConnectionUnavailable" => answer[k] = "ConnectionUnavailable"
      BY <3>1, ReturnAnswers DEF IInv, Errors
    <3>3. \A k \in Calls : got'[k] # Nil => got[k] # Nil \/ k = c
      BY <1>4 DEF IInv, TypeOK, OpenStore
    <3> QED
      BY <1>4, <2>1, <3>2, <3>3 DEF IInv, ReachInv, OpenStore, package
  <2> QED
    BY <2>2, <2>3, <2>4 DEF IInv
<1>5. ASSUME NEW c \in Calls, ShutDown(c) PROVE IInv'
  <2>1. \A k \in Calls : pc'[k] # "store"
    BY <1>5, OneInside DEF IInv, TypeOK, ShutDown, Return, Goto
  <2>2. \A k \in Calls : answer'[k] = "ConnectionUnavailable" => answer[k] = "ConnectionUnavailable"
    <3>1. PICK err \in {"nil", "NotInitialized"} : Return(c, err)
      BY <1>5 DEF ShutDown
    <3> QED
      BY <3>1, ReturnAnswers DEF IInv, Errors
  <2>3. CASE UNCHANGED <<package, stores>>
    <3>1. TypeOK'
      BY <1>5, <2>3 DEF IInv, TypeOK, ShutDown, Return, Goto, package, Errors
    <3>2. StoreInv'
      BY <2>1, <2>3 DEF IInv, StoreInv, package
    <3>3. ReachInv'
      BY <1>5, <2>1, <2>3, <2>2 DEF IInv, ReachInv, ShutDown, package
    <3> QED
      BY <3>1, <3>2, <3>3 DEF IInv
  <2>4. CASE initialized /\ Reset /\ stores' = stores - 1
    <3>1. stores = 1 /\ stores' = 0
      BY <2>4 DEF IInv, StoreInv
    <3>2. TypeOK'
      <4>1. PICK err \in {"nil", "NotInitialized"} : Return(c, err)
        BY <1>5 DEF ShutDown
      <4>2. /\ mutex' = Nil
            /\ pc' \in [Calls -> {"idle", "lockInit", "lockDown", "init", "store", "down", "returned"}]
            /\ \A k \in Calls : pc'[k] \notin {"init", "store", "down"}
            /\ answer' \in [Calls -> Errors]
        BY <1>5, <4>1, ReturnTypes DEF IInv, ShutDown, Errors
      <4>3. initialized' \in BOOLEAN
        BY <2>4 DEF Reset
      <4>4. /\ env' \in Hosts /\ got' \in [Calls -> Calls \cup {Nil}]
            /\ ctxDone' \in [Calls -> BOOLEAN] /\ struck' \in [Calls -> BOOLEAN]
            /\ pbCtx' \in Calls \cup {Nil} /\ pbStore' \in {"open", Nil} /\ stores' \in Nat
        BY <1>5, <2>4, <3>1 DEF IInv, TypeOK, ShutDown, Reset
      <4> QED
        BY <4>2, <4>3, <4>4 DEF TypeOK
    <3>3. StoreInv'
      BY <2>1, <2>4, <3>1 DEF StoreInv, Reset
    <3>4. ReachInv'
      BY <1>5, <2>1, <2>4, <2>2 DEF IInv, ReachInv, ShutDown, Reset
    <3> QED
      BY <3>2, <3>3, <3>4 DEF IInv
  <2> QED
    BY <1>5, <2>3, <2>4 DEF ShutDown
<1>6. ASSUME NEW c \in Calls, Cancel(c) PROVE IInv'
  BY <1>6 DEF IInv, TypeOK, StoreInv, ReachInv, Cancel, package, results, Errors
<1>7. CASE UNCHANGED vars
  BY <1>7 DEF IInv, TypeOK, StoreInv, ReachInv, vars, package, results, Errors
<1> QED
  BY <1>1, <1>2, <1>3, <1>4, <1>5, <1>6, <1>7 DEF Next, Advance, AllReturned

\* The type invariant of the runtime: only the holder of initMu is past its Lock
\* (rootless.go:29-31, 54-56).
THEOREM TypeCorrect == Spec => []TypeOK
<1>1. IInv => TypeOK
  BY DEF IInv
<1> QED
  BY InitInv, NextInv, <1>1, PTL DEF Spec

\* The three package variables tell one story, with one store behind a runtime that
\* is up and none behind one that is down (rootless.go:33-51, 61-67).
THEOREM RuntimeIsOne == Spec => []OneRuntime
<1>1. IInv => OneRuntime
  BY DEF IInv, StoreInv, OneRuntime
<1> QED
  BY InitInv, NextInv, <1>1, PTL DEF Spec

\* The host check and the code agree on whether Podman can be reached, but for white space,
\* for a socket that only the check looks for, and for faults
\* (docs/runtime-policy.en.md:49-65).
THEOREM HostChecked == Spec => []HostCheckAgrees
<1>1. ASSUME IInv PROVE HostCheckAgrees
  <2>1. env \in Environments
    BY <1>1, RuntimeAssumption DEF IInv, TypeOK
  <2> QED
    BY <1>1, <2>1, ChecksAgree DEF IInv, ReachInv, HostCheckAgrees
<1> QED
  BY InitInv, NextInv, <1>1, PTL DEF Spec

=============================================================================
