---------------------------- MODULE ArchiveStream ----------------------------
(***************************************************************************)
(* The streaming copy of WriteFolderToVolume (volume.go:264-381): a        *)
(* producer goroutine walks the host folder and writes a tar archive into  *)
(* an io.Pipe, the HTTP request of the copy reads the pipe as its body,    *)
(* Podman extracts what it receives, and the calling goroutine waits for   *)
(* the request, closes the pipe on an error and waits for the producer.    *)
(*                                                                         *)
(* An io.Pipe has no buffer: a write blocks until the reader has taken it  *)
(* or one side is closed.  The entries between the request and the         *)
(* extraction arrive in order, so counters stand for the queue: got+1 to   *)
(* next are under way.                                                     *)
(***************************************************************************)
EXTENDS Integers

CONSTANTS
  Entries,  \* tar entries of the folder
  Wire,     \* entries the request may hold that Podman has not extracted
  Early,    \* Podman may answer at the tar footer, before the body has ended
  Faults    \* what the environment may do (a subset of AllFaults)

\* refuse: Podman or the connection fails;  cancel: the caller cancels;
\* walk: an entry of the folder cannot be read, or changes while it is
AllFaults == {"refuse", "cancel", "walk"}

ASSUME StreamAssumption ==
  /\ Entries \in Nat
  /\ Wire \in Nat \ {0}
  /\ Early \in BOOLEAN
  /\ Faults \subseteq AllFaults

Footer == Entries + 1

VARIABLES
  prod,       \* the producer: "walk", "tarClose", "pipeClose", "done"
  offer,      \* what its blocked pipe write carries: an entry, Footer, or 0
  next,       \* entries the reader of the pipe has taken
  walkErr,    \* the producer's walkErr is set
  tarBroken,  \* the tar writer cannot write its footer any more
  pipeW,      \* the write side: "open", closed with "eof" or with "err"
  pipeR,      \* the read side: "open" or "closed"
  req,        \* the request: "none", "active", "over"
  bodyEnd,    \* how the request saw its body end: "open", "eof", "err"
  footer,     \* the footer: "none", "sent" by the producer, "seen" by Podman
  got,        \* entries extracted into the volume
  reply,      \* Podman's answer: "none", "ok", "err"
  main,       \* the calling goroutine
  result,     \* what it will return: "none", "ok", "err"
  ctxDone,    \* its context is cancelled
  struck      \* history: a fault has happened

producer == <<prod, offer, next, walkErr, tarBroken>>
request  == <<req, bodyEnd, footer, got, reply>>
caller   == <<main, result, ctxDone>>
vars     == <<producer, pipeW, pipeR, request, caller, struck>>

\* The type invariant; nothing is extracted that was not taken from the pipe, and
\* the producer has no write pending when it closes its side (volume.go:275-297).
TypeOK ==
  /\ prod \in {"walk", "tarClose", "pipeClose", "done"}
  /\ offer \in {0, next + 1, Footer}
  /\ prod \in {"pipeClose", "done"} => offer = 0
  /\ next \in 0..Entries
  /\ got \in 0..next
  /\ next - got <= Wire
  /\ walkErr \in BOOLEAN /\ tarBroken \in BOOLEAN
  /\ pipeW \in {"open", "eof", "err"} /\ pipeR \in {"open", "closed"}
  /\ req \in {"none", "active", "over"}
  /\ bodyEnd \in {"open", "eof", "err"}
  /\ footer \in {"none", "sent", "seen"}
  /\ reply \in {"none", "ok", "err"}
  /\ main \in {"init", "copy", "closeR", "closeW", "wait", "returned"}
  /\ result \in {"none", "ok", "err"}
  /\ ctxDone \in BOOLEAN /\ struck \in BOOLEAN

Init ==
  /\ prod = "walk" /\ offer = 0 /\ next = 0
  /\ walkErr = FALSE /\ tarBroken = FALSE
  /\ pipeW = "open" /\ pipeR = "open"
  /\ req = "none" /\ bodyEnd = "open" /\ footer = "none"
  /\ got = 0 /\ reply = "none"
  /\ main = "init" /\ result = "none" /\ ctxDone = FALSE
  /\ struck = FALSE

Struck(f) == f \in Faults /\ struck' = TRUE

-----------------------------------------------------------------------------
(* The producer goroutine                                                   *)

\* The walk reaches the next entry and blocks in a write.
Offer ==
  /\ prod = "walk" /\ offer = 0 /\ next < Entries
  /\ offer' = next + 1
  /\ UNCHANGED <<prod, next, walkErr, tarBroken, pipeW, pipeR, request, caller, struck>>

\* MUTANT of BreakOff: the walk function swallows the error.
BreakOffSwallowed ==
  /\ prod = "walk" /\ offer = 0 /\ next < Entries
  /\ Struck("walk")
  /\ prod' = "tarClose"
  /\ UNCHANGED <<offer, next, walkErr, tarBroken, pipeW, pipeR, request, caller>>

\* An entry cannot be archived: an error before its header leaves the archive
\* well formed, one after its header does not; a file that shrank under io.Copy
\* is noticed at the next header, so never by the walk if it is the last one.
BreakOff ==
  /\ prod = "walk" /\ offer = 0 /\ next < Entries
  /\ Struck("walk")
  /\ \/ walkErr' = TRUE /\ tarBroken' \in BOOLEAN
     \/ next + 1 = Entries /\ tarBroken' = TRUE /\ UNCHANGED walkErr
  /\ prod' = "tarClose"
  /\ UNCHANGED <<offer, next, pipeW, pipeR, request, caller>>

EndWalk ==
  /\ prod = "walk" /\ offer = 0 /\ next = Entries
  /\ prod' = "tarClose"
  /\ UNCHANGED <<offer, next, walkErr, tarBroken, pipeW, pipeR, request, caller, struck>>

\* A write into a closed pipe fails; the tar writer remembers.
WriteFails ==
  /\ offer # 0
  /\ pipeR = "closed" \/ pipeW # "open"
  /\ offer' = 0
  /\ tarBroken' = TRUE
  /\ IF prod = "walk"
     THEN walkErr' = TRUE /\ prod' = "tarClose"
     ELSE prod' = "pipeClose" /\ UNCHANGED walkErr
  /\ UNCHANGED <<next, pipeW, pipeR, request, caller, struck>>

\* MUTANT of TarClose: the footer is left to be written while the pipe closes.
TarCloseNotAwaited ==
  /\ prod = "tarClose" /\ offer = 0
  /\ offer' = IF tarBroken THEN 0 ELSE Footer
  /\ prod' = "pipeClose"
  /\ UNCHANGED <<next, walkErr, tarBroken, pipeW, pipeR, request, caller, struck>>

\* MUTANT of TarClose: the tar writer is never closed.
TarCloseForgotten ==
  /\ prod = "tarClose" /\ offer = 0
  /\ prod' = "pipeClose"
  /\ UNCHANGED <<offer, next, walkErr, tarBroken, pipeW, pipeR, request, caller, struck>>

\* The first deferred function: tw.Close writes the footer if it still can.
TarClose ==
  /\ prod = "tarClose" /\ offer = 0
  /\ IF tarBroken THEN prod' = "pipeClose" /\ UNCHANGED offer
     ELSE offer' = Footer /\ UNCHANGED prod
  /\ UNCHANGED <<next, walkErr, tarBroken, pipeW, pipeR, request, caller, struck>>

\* MUTANT of ClosedWith: the producer always calls Close.
ClosedWithEOF == "eof"

\* CloseWithError(walkErr), or Close
ClosedWith == IF walkErr THEN "err" ELSE "eof"

\* MUTANT of PipeClose: nobody closes the write side.
PipeCloseForgotten ==
  /\ prod = "pipeClose"
  /\ prod' = "done"
  /\ UNCHANGED <<offer, next, walkErr, tarBroken, pipeW, pipeR, request, caller, struck>>

\* The second one; the first close of a side is the one that counts.
PipeClose ==
  /\ prod = "pipeClose"
  /\ pipeW' = IF pipeW = "open" THEN ClosedWith ELSE pipeW
  /\ prod' = "done"
  /\ UNCHANGED <<offer, next, walkErr, tarBroken, pipeR, request, caller, struck>>

-----------------------------------------------------------------------------
(* The request and Podman: external, known by the contracts of io.Pipe, of  *)
(* http.RoundTripper (which closes the body it was given) and of a copy     *)
(* that extracts a tar stream up to its footer                              *)

ReadBody ==
  /\ req = "active" /\ bodyEnd = "open"
  /\ offer # 0 /\ pipeR = "open" /\ pipeW = "open"
  /\ offer' = 0
  /\ IF offer = Footer
     THEN footer' = "sent" /\ prod' = "pipeClose" /\ UNCHANGED next
     ELSE next - got < Wire /\ next' = offer /\ UNCHANGED <<footer, prod>>
  /\ UNCHANGED <<walkErr, tarBroken, pipeW, pipeR, req, bodyEnd, got, reply, caller, struck>>

ReadEnd ==
  /\ req = "active" /\ bodyEnd = "open"
  /\ offer = 0 /\ pipeW # "open"
  /\ bodyEnd' = pipeW
  /\ UNCHANGED <<producer, pipeW, pipeR, req, footer, got, reply, caller, struck>>

ExtractEntry ==
  /\ reply = "none" /\ got < next
  /\ got' = got + 1
  /\ UNCHANGED <<producer, pipeW, pipeR, req, bodyEnd, footer, reply, caller, struck>>

SeeFooter ==
  /\ reply = "none" /\ got = next /\ footer = "sent"
  /\ footer' = "seen"
  /\ UNCHANGED <<producer, pipeW, pipeR, req, bodyEnd, got, reply, caller, struck>>

\* Podman answers when the body has ended: "ok" if the footer was in it.
Reply ==
  /\ req = "active" /\ reply = "none"
  /\ got = next /\ footer # "sent" /\ bodyEnd = "eof"
  /\ reply' = IF footer = "seen" THEN "ok" ELSE "err"
  /\ UNCHANGED <<producer, pipeW, pipeR, req, bodyEnd, footer, got, caller, struck>>

\* It may answer at the footer, while the body is still open.
ReplyEarly ==
  /\ Early
  /\ req = "active" /\ reply = "none" /\ footer = "seen" /\ bodyEnd # "eof"
  /\ reply' = "ok"
  /\ UNCHANGED <<producer, pipeW, pipeR, req, bodyEnd, footer, got, caller, struck>>

Refuse ==
  /\ req = "active" /\ reply = "none"
  /\ Struck("refuse")
  /\ reply' = "err"
  /\ UNCHANGED <<producer, pipeW, pipeR, req, bodyEnd, footer, got, caller>>

\* The request is over: its body is closed, which closes the pipe's read side.
RequestOver ==
  /\ req = "active"
  /\ reply # "none" \/ bodyEnd = "err" \/ ctxDone
  /\ req' = "over"
  /\ pipeR' = "closed"
  /\ UNCHANGED <<producer, pipeW, bodyEnd, footer, got, reply, caller, struck>>

-----------------------------------------------------------------------------
(* The calling goroutine                                                    *)

\* CopyFromArchiveWithOptions fails; the error path cancels and closes the pipe.
InitCopyFails ==
  /\ main = "init"
  /\ (ctxDone /\ UNCHANGED struck) \/ Struck("refuse")
  /\ result' = "err" /\ ctxDone' = TRUE /\ main' = "closeR"
  /\ UNCHANGED <<producer, pipeW, pipeR, request>>

\* It succeeds, and copyFunc sends the request.
InitCopy ==
  /\ main = "init" /\ ~ctxDone
  /\ req' = "active" /\ main' = "copy"
  /\ UNCHANGED <<producer, pipeW, pipeR, bodyEnd, footer, got, reply, result, ctxDone, struck>>

\* copyFunc returns Podman's answer or the error of the request.
CopyReturns ==
  /\ main = "copy"
  /\ \/ /\ reply = "ok"
        /\ result' = "ok" /\ main' = "wait"
        /\ UNCHANGED ctxDone
     \/ /\ reply = "err" \/ bodyEnd = "err" \/ ctxDone
        /\ result' = "err" /\ ctxDone' = TRUE /\ main' = "closeR"
  /\ UNCHANGED <<producer, pipeW, pipeR, request, struck>>

CloseReader ==
  /\ main = "closeR"
  /\ pipeR' = "closed" /\ main' = "closeW"
  /\ UNCHANGED <<producer, pipeW, request, result, ctxDone, struck>>

CloseWriter ==
  /\ main = "closeW"
  /\ pipeW' = IF pipeW = "open" THEN "err" ELSE pipeW
  /\ main' = "wait"
  /\ UNCHANGED <<producer, pipeR, request, result, ctxDone, struck>>

\* wg.Wait
Return ==
  /\ main = "wait" /\ prod = "done"
  /\ main' = "returned"
  /\ UNCHANGED <<producer, pipeW, pipeR, request, result, ctxDone, struck>>

Cancel ==
  /\ main # "returned" /\ ~ctxDone
  /\ Struck("cancel")
  /\ ctxDone' = TRUE
  /\ UNCHANGED <<producer, pipeW, pipeR, request, main, result>>

-----------------------------------------------------------------------------

Producer == Offer \/ EndWalk \/ WriteFails \/ TarClose \/ PipeClose
Podman   == ReadBody \/ ReadEnd \/ ExtractEntry \/ SeeFooter \/ Reply \/ RequestOver
Caller   == InitCopy \/ InitCopyFails \/ CopyReturns \/ CloseReader \/ CloseWriter \/ Return

Finished == main = "returned" /\ UNCHANGED vars

Next == Producer \/ Podman \/ Caller \/ ReplyEarly \/ Refuse \/ BreakOff \/ Cancel \/ Finished

Spec == Init /\ [][Next]_vars

\* Goroutines that can run do, the transport reads the body it was given and
\* closes it, Podman works through what it has received and answers once the body
\* has ended.  No fault is counted on, and neither is an answer before that end.
CallerRuns ==
  \/ InitCopy \/ (ctxDone /\ InitCopyFails)
  \/ CopyReturns \/ CloseReader \/ CloseWriter \/ Return

FairSpec == Spec /\ WF_vars(Producer) /\ WF_vars(Podman) /\ WF_vars(CallerRuns)

-----------------------------------------------------------------------------
(* Properties *)

\* When nothing goes wrong the copy succeeds: the footer is written before the
\* pipe is closed, so Podman always sees a complete archive (volume.go:273-274).
NoSpuriousFailure == result = "err" => struck

\* An error of the walk reaches the caller through the pipe and the request
\* (volume.go:276-278, 369-375).  Only an answer of Podman at the footer, before
\* the body has ended, can be faster than the error the pipe is closed with.
ErrorsReachTheCaller ==
  result = "ok" => IF walkErr THEN Early /\ bodyEnd # "eof" ELSE got = Entries

\* The call returns: the producer closes the pipe in every case, which ends the body
\* that Podman waits for, and closing either side frees a producer blocked in a write,
\* so neither the copy nor wg.Wait waits for ever (volume.go:273-281, 362-377).
CallReturns == <>(main = "returned")

\* What the abstract copy sees of the stream
CopyPhase ==
  CASE main = "init" -> "before"
    [] main = "copy" -> "copying"
    [] OTHER         -> result

Copy == INSTANCE ArchiveCopy WITH phase <- CopyPhase, sent <- got

\* The stream implements the copy that VolumeTransfer relies on.
ImplementsCopy == Copy!Spec

=============================================================================
