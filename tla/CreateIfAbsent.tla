--------------------------- MODULE CreateIfAbsent ---------------------------
(***************************************************************************)
(* What creating containers by name promises (container.go:157-163): a     *)
(* name has one owner at a time, a call takes a free name or none, an "ok" *)
(* is for a call that took its name, and "exists" is answered only while   *)
(* the name belongs to somebody else.  A call that fails keeps a name it   *)
(* has taken: only whoever removes containers frees it.                    *)
(* ContainerLifecycle implements it with separate Podman requests.         *)
(***************************************************************************)
CONSTANTS Calls, Names, Nobody

VARIABLES want,   \* the name each call is for, or Nobody
          owner,  \* the call that owns a name, or Nobody
          took,   \* the calls that have taken their name
          result  \* "none" | "ok" | "exists" | "err"

createVars == <<want, owner, took, result>>

Init ==
  /\ want = [c \in Calls |-> Nobody]
  /\ owner = [n \in Names |-> Nobody]
  /\ took = {}
  /\ result = [c \in Calls |-> "none"]

Ask(c) ==
  /\ want[c] = Nobody
  /\ \E n \in Names : want' = [want EXCEPT ![c] = n]
  /\ result' = result \/ result' = [result EXCEPT ![c] = "err"]
  /\ UNCHANGED <<owner, took>>

\* The name becomes the call's, whether or not the call gets to know.
Take(c) ==
  /\ want[c] \in Names /\ result[c] = "none" /\ c \notin took
  /\ owner[want[c]] = Nobody
  /\ owner' = [owner EXCEPT ![want[c]] = c]
  /\ took' = took \cup {c}
  /\ \E r \in {"none", "ok", "err"} : result' = [result EXCEPT ![c] = r]
  /\ UNCHANGED want

Answer(c) ==
  /\ want[c] \in Names /\ result[c] = "none"
  /\ \E r \in {"ok", "exists", "err"} :
       /\ r = "ok" => c \in took
       /\ r = "exists" => c \notin took /\ owner[want[c]] # Nobody
       /\ result' = [result EXCEPT ![c] = r]
  /\ UNCHANGED <<want, owner, took>>

Free(n) ==
  /\ owner[n] # Nobody
  /\ owner' = [owner EXCEPT ![n] = Nobody]
  /\ UNCHANGED <<want, took, result>>

Next ==
  \/ \E c \in Calls : Ask(c) \/ Take(c) \/ Answer(c)
  \/ \E n \in Names : Free(n)

Spec == Init /\ [][Next]_createVars
=============================================================================
