---------------------------- MODULE VolumeCopies ----------------------------
(***************************************************************************)
(* The composition of VolumeTransfer with the abstract copy: the copy that *)
(* each call makes behaves as ArchiveCopy says, which is what ArchiveStream*)
(* shows the goroutine, the pipe and the request of volume.go to do.       *)
(***************************************************************************)
EXTENDS VolumeTransfer

\* Where the copy of a call is, as ArchiveCopy sees it
CopyPhase(c) ==
  CASE ~Writes(c) -> "before"
    [] Writes(c) /\ pc[c] = "copy" -> "copying"
    [] Writes(c) /\ pc[c] \in {"stop", "rm", "ok", "err"} ->
         IF res[c] = "ok" THEN "ok" ELSE IF pc[c] = "ok" THEN "before" ELSE "err"
    [] OTHER -> "before"

Copy(c) == INSTANCE ArchiveCopy WITH
  Early <- "early" \in Faults, phase <- CopyPhase(c),
  sent <- sent[c], walkErr <- walkErr[c]

\* Each call copies as ArchiveCopy promises: in order, nothing twice, and a nil
\* only for what arrived (volume.go:264-381).
CopiesAsPromised ==
  /\ \A c \in Calls : Copy(c)!Init
  /\ [][\A c \in Calls : Copy(c)!Next \/ UNCHANGED <<CopyPhase(c), sent[c], walkErr[c]>>]_vars

=============================================================================
