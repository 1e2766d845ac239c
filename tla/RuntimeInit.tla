----------------------------- MODULE RuntimeInit -----------------------------
(***************************************************************************)
(* The process-wide runtime of rootless.go: Init, InitWithContext and      *)
(* Shutdown called by many goroutines over one mutex and three package     *)
(* variables.  A connection is called by the call that made it, and lives  *)
(* as long as the context that call was given.  Where it leads is fixed by *)
(* the environment of the process (ConnectionPolicy).                      *)
(***************************************************************************)
EXTENDS Integers, ConnectionPolicy

CONSTANTS
  Calls,   \* the calls, each by its own goroutine
  Hosts,   \* the environments a process may run in
  Faults,  \* what the environment may do (a subset of AllFaults)
  Nil      \* Go's nil

\* connect: Podman cannot be reached;  store: the storage cannot be opened;
\* mounted: a layer is mounted, and the store refuses to shut down;
\* cancel:  the context given to InitWithContext is cancelled
AllFaults == {"connect", "store", "mounted", "cancel"}

ASSUME RuntimeAssumption ==
  Faults \subseteq AllFaults /\ Hosts \subseteq Environments /\ Nil \notin Calls \cup {"open"}

VARIABLES
  env,          \* the environment of the process
  mutex,        \* who holds initMu, or Nil
  initialized,  \* the package variables
  pbCtx,        \* the connection, or Nil
  pbStore,      \* "open" or Nil
  stores,       \* how many stores have been opened and not been shut down
  pc,           \* where each call is; "returned" when it has
  answer,       \* its error: "nil", or the sentinel that errors.Is finds
  got,          \* the connection an Init has returned
  ctxDone,      \* the context given to the call is cancelled
  struck        \* history: the call found no Podman through a fault

package == <<initialized, pbCtx, pbStore>>
results == <<answer, got>>
vars    == <<env, mutex, package, stores, pc, results, ctxDone, struck>>

Errors == {"nil", "ConnectionUnavailable", "StoreUnavailable", "NotInitialized"}

\* The type invariant; only the holder of the mutex is past its Lock.
TypeOK ==
  /\ env \in Hosts
  /\ mutex \in Calls \cup {Nil}
  /\ initialized \in BOOLEAN
  /\ pbCtx \in Calls \cup {Nil}
  /\ pbStore \in {"open", Nil}
  /\ stores \in Nat
  /\ pc \in [Calls -> {"idle", "lockInit", "lockDown", "init", "store", "down", "returned"}]
  /\ \A c \in Calls : pc[c] \in {"init", "store", "down"} <=> mutex = c
  /\ answer \in [Calls -> Errors]
  /\ got \in [Calls -> Calls \cup {Nil}]
  /\ ctxDone \in [Calls -> BOOLEAN]
  /\ struck \in [Calls -> BOOLEAN]

Init ==
  /\ env \in Hosts
  /\ mutex = Nil
  /\ initialized = FALSE /\ pbCtx = Nil /\ pbStore = Nil /\ stores = 0
  /\ pc = [c \in Calls |-> "idle"]
  /\ answer = [c \in Calls |-> "nil"]
  /\ got = [c \in Calls |-> Nil]
  /\ ctxDone = [c \in Calls |-> FALSE]
  /\ struck = [c \in Calls |-> FALSE]

-----------------------------------------------------------------------------

Goto(c, l) == pc' = [pc EXCEPT ![c] = l]

Call(c) ==
  /\ pc[c] = "idle"
  /\ \E l \in {"lockInit", "lockDown"} : Goto(c, l)
  /\ UNCHANGED <<env, mutex, package, stores, results, ctxDone, struck>>

\* MUTANT of Lock: the functions do not lock.
LockUnguarded(c) ==
  /\ pc[c] \in {"lockInit", "lockDown"}
  /\ mutex' = c
  /\ Goto(c, IF pc[c] = "lockInit" THEN "init" ELSE "down")
  /\ UNCHANGED <<env, package, stores, results, ctxDone, struck>>

Lock(c) ==
  /\ pc[c] \in {"lockInit", "lockDown"}
  /\ mutex = Nil
  /\ mutex' = c
  /\ Goto(c, IF pc[c] = "lockInit" THEN "init" ELSE "down")
  /\ UNCHANGED <<env, package, stores, results, ctxDone, struck>>

\* The deferred Unlock
Return(c, err) ==
  /\ mutex' = Nil
  /\ Goto(c, "returned")
  /\ answer' = [answer EXCEPT ![c] = err]

\* MUTANT of AlreadyUp: the flag is not looked at.
AlreadyUpIgnored == FALSE

AlreadyUp == initialized

\* initRuntime: the runtime that is up, whoever brought it up, or a connection
Connect(c) ==
  /\ pc[c] = "init"
  /\ \/ /\ AlreadyUp
        /\ got' = [got EXCEPT ![c] = pbCtx]
        /\ Return(c, "nil")
        /\ UNCHANGED struck
     \/ /\ ~AlreadyUp
        /\ \/ /\ ~ctxDone[c] /\ Reachable(env)
              /\ Goto(c, "store")
              /\ UNCHANGED <<mutex, answer, struck>>
           \/ /\ ~Reachable(env)
              /\ Return(c, "ConnectionUnavailable")
              /\ UNCHANGED struck
           \/ /\ "connect" \in Faults \/ ctxDone[c]
              /\ Return(c, "ConnectionUnavailable")
              /\ struck' = [struck EXCEPT ![c] = TRUE]
        /\ UNCHANGED got
  /\ UNCHANGED <<env, package, stores, ctxDone>>

\* NewStore, and the assignments once both are there
OpenStore(c) ==
  /\ pc[c] = "store"
  /\ \/ /\ initialized' = TRUE /\ pbCtx' = c /\ pbStore' = "open"
        /\ stores' = stores + 1
        /\ got' = [got EXCEPT ![c] = c]
        /\ Return(c, "nil")
     \/ /\ "store" \in Faults
        /\ Return(c, "StoreUnavailable")
        /\ UNCHANGED <<package, stores, got>>
  /\ UNCHANGED <<env, ctxDone, struck>>

Reset == initialized' = FALSE /\ pbCtx' = Nil /\ pbStore' = Nil

\* Shutdown; a store that refuses leaves everything as it is.
ShutDown(c) ==
  /\ pc[c] = "down"
  /\ \/ /\ ~initialized \/ pbStore = Nil
        /\ Return(c, "NotInitialized")
        /\ UNCHANGED <<package, stores>>
     \/ /\ initialized /\ pbStore # Nil
        /\ \/ /\ Reset
              /\ stores' = stores - 1
              /\ Return(c, "nil")
           \/ /\ "mounted" \in Faults
              /\ Return(c, "NotInitialized")
              /\ UNCHANGED <<package, stores>>
  /\ UNCHANGED <<env, got, ctxDone, struck>>

Cancel(c) ==
  /\ "cancel" \in Faults
  /\ ~ctxDone[c]
  /\ ctxDone' = [ctxDone EXCEPT ![c] = TRUE]
  /\ UNCHANGED <<env, mutex, package, stores, pc, results, struck>>

-----------------------------------------------------------------------------

Advance(c) == Lock(c) \/ Connect(c) \/ OpenStore(c) \/ ShutDown(c)

AllReturned == (\A c \in Calls : pc[c] = "returned") /\ UNCHANGED vars

Next == (\E c \in Calls : Call(c) \/ Advance(c) \/ Cancel(c)) \/ AllReturned

Spec == Init /\ [][Next]_vars

-----------------------------------------------------------------------------
(* Properties *)

\* While nobody is inside, the three package variables tell one story, and there
\* is exactly one open store behind a runtime that is up and none behind one that
\* is down: a failed or repeated Init leaks nothing and leaves no half state
\* (rootless.go:33-51, 61-67, runtime-policy.en.md:30).
OneRuntime ==
  mutex = Nil =>
    /\ initialized <=> pbCtx # Nil
    /\ initialized <=> pbStore # Nil
    /\ stores = IF initialized THEN 1 ELSE 0

\* The host check of the Makefile and the code agree on whether Podman can be reached, but
\* for white space, which only the code trims, and for a socket that only the check looks
\* for: where the check fails no Init succeeds, and where it passes no Init is without a
\* Podman, unless a fault is in its way (docs/runtime-policy.en.md:49-65: both follow the
\* same rules).
HostCheckAgrees ==
  \A c \in Calls :
    /\ got[c] # Nil => HostCheck(env) \/ Trimmed(env)
    /\ answer[c] = "ConnectionUnavailable" =>
         struck[c] \/ ~HostCheck(env) \/ Trimmed(env) \/ OtherSocket(env)

=============================================================================
