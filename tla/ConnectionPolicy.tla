-------------------------- MODULE ConnectionPolicy --------------------------
(***************************************************************************)
(* Which Podman a process talks to (runtime_init_policy.go:21-47), and     *)
(* what the host check of the Makefile says beforehand (Makefile:132-167). *)
(* A socket is named by the runtime directory it lies in: "user" stands    *)
(* for /run/user/<uid> and "root" for /run.  The value of a variable is    *)
(* what it is without the white space around it, and where that is: at the *)
(* front ("lead"), at the end only ("trail") or nowhere.  An environment   *)
(* gives                                                                   *)
(*   host      CONTAINER_HOST: a directory for its unix socket, "remote"   *)
(*             for any other URI,                                          *)
(*   xdg       XDG_RUNTIME_DIR,                                            *)
(*   rootless  what unshare.IsRootless answers,                            *)
(*   sockets   the directories that hold a Podman socket.                  *)
(***************************************************************************)

Dirs == {"user", "root", "other"}

Unset == [is |-> "", pad |-> "none"]
Blank == [is |-> "", pad |-> "lead"]

Values(texts) == [is : texts, pad : {"none", "lead", "trail"}] \cup {Unset, Blank}

Environments ==
  [host : Values(Dirs \cup {"remote"}), xdg : Values(Dirs), rootless : BOOLEAN,
   sockets : SUBSET Dirs]

TrimSpace(v) == v.is

RuntimeDir(e) ==
  IF TrimSpace(e.xdg) # "" THEN TrimSpace(e.xdg) ELSE IF e.rootless THEN "user" ELSE "root"

\* MUTANT of Target: the runtime directory wins over CONTAINER_HOST.
TargetXdgFirst(e) ==
  IF TrimSpace(e.xdg) = "" /\ TrimSpace(e.host) # "" THEN TrimSpace(e.host) ELSE RuntimeDir(e)

\* resolveRuntimeConnectionTarget
Target(e) == IF TrimSpace(e.host) # "" THEN TrimSpace(e.host) ELSE RuntimeDir(e)

Reachable(e) == Target(e) = "remote" \/ Target(e) \in e.sockets

\* The shell finds the socket of a value only if no white space is in its path.
Finds(e, v) == v.pad = "none" /\ v.is \in e.sockets

\* make runtime-host-check takes the variables as they are.  A CONTAINER_HOST that does not
\* begin with "unix:" is accepted unseen, a blank one too; without one the user's socket and
\* then the system's will do, whichever is there.
HostCheck(e) ==
  \/ /\ e.host # Unset
     /\ e.host.is = "remote" \/ e.host.pad = "lead" \/ Finds(e, e.host)
  \/ /\ e.host = Unset
     /\ \/ Finds(e, e.xdg)
        \/ e.xdg = Unset /\ "user" \in e.sockets
        \/ "root" \in e.sockets

\* White space in the variable that decides: only the code trims it.
Trimmed(e) == IF e.host # Unset THEN e.host.pad # "none" ELSE e.xdg.pad # "none"

\* The check is content with a socket of which the process does not know.
OtherSocket(e) ==
  /\ e.host = Unset
  /\ \E d \in e.sockets \ {Target(e)} : d = "root" \/ (e.xdg = Unset /\ d = "user")

=============================================================================
