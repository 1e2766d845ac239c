----------------------------- MODULE ArchiveCopy -----------------------------
(***************************************************************************)
(* What copying a host folder into a container promises, whoever carries   *)
(* it out: entries arrive in the order of the walk, nothing arrives twice  *)
(* or is left out, and "ok" is said only of the whole archive (of all that *)
(* the walk reached, when Early lets Podman answer at the tar footer of a  *)
(* walk that broke off).  After an error, entries already on their way may *)
(* still arrive.  ArchiveStream implements it with a goroutine, a pipe and *)
(* an HTTP request; VolumeTransfer uses it for each of its calls.          *)
(***************************************************************************)
EXTENDS Naturals

CONSTANTS Entries,  \* how many entries the folder has, a number
          Early     \* a Boolean: the copy may be answered at the tar footer

VARIABLES phase,    \* "before" | "copying" | "ok" | "err"
          sent,     \* entries extracted so far: 1..sent
          walkErr   \* the walk broke off

copyVars == <<phase, sent, walkErr>>

Init == phase = "before" /\ sent = 0 /\ walkErr = FALSE

\* Nothing has been started yet, and nothing will be if it fails now.
Start ==
  /\ phase = "before"
  /\ phase' \in {"copying", "err"}
  /\ UNCHANGED <<sent, walkErr>>

Extract ==
  /\ phase \in {"copying", "err"}
  /\ sent < Entries
  /\ sent' = sent + 1
  /\ UNCHANGED <<phase, walkErr>>

\* The walk may start before the copy does, and is over when the copy is ok.
WalkError ==
  /\ phase # "ok"
  /\ walkErr' = TRUE
  /\ UNCHANGED <<phase, sent>>

Ok ==
  /\ phase = "copying"
  /\ IF walkErr THEN Early ELSE sent = Entries
  /\ phase' = "ok"
  /\ UNCHANGED <<sent, walkErr>>

Fail ==
  /\ phase = "copying"
  /\ phase' = "err"
  /\ UNCHANGED <<sent, walkErr>>

Next == Start \/ Extract \/ WalkError \/ Ok \/ Fail

Spec == Init /\ [][Next]_copyVars
=============================================================================
