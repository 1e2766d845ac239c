------------------------- MODULE ArchiveStreamProofs -------------------------
(***************************************************************************)
(* Theorems about ArchiveStream for a folder of any size, any number of    *)
(* entries on the wire and any faults: its safety properties, and that     *)
(* each of its steps is a step of ArchiveCopy or none.                     *)
(***************************************************************************)
EXTENDS ArchiveStream, TLAPS

\* What the producer has in hand: an entry while it walks, the footer of a tar
\* writer that still works, and nothing once it closes the pipe.
OfferInv ==
  /\ offer # 0 => \/ prod = "walk" /\ offer = next + 1 /\ next < Entries
                  \/ prod = "tarClose" /\ offer = Footer /\ ~tarBroken
  /\ prod \in {"walk", "tarClose"} => footer = "none"
  /\ prod = "tarClose" => walkErr \/ tarBroken \/ next = Entries
  /\ prod \in {"pipeClose", "done"} => tarBroken \/ footer # "none"
  /\ footer # "none" => walkErr \/ next = Entries

\* What the ends of the pipe say of the two sides
PipeInv ==
  /\ pipeW = "eof" => prod = "done" /\ ~walkErr
  /\ pipeW # "open" => prod = "done" \/ result = "err"
  /\ bodyEnd # "open" => pipeW = bodyEnd
  /\ pipeR = "closed" => req = "over" \/ result = "err"
  /\ req = "over" => reply # "none" \/ bodyEnd = "err" \/ ctxDone

\* What an answer means
AnswerInv ==
  /\ footer = "seen" => got = next
  /\ reply = "ok" => footer = "seen" /\ (bodyEnd = "eof" \/ Early)
  /\ result = "ok" => reply = "ok"
  /\ main = "init" => req = "none" /\ next = 0
  /\ main \in {"init", "copy"} <=> result = "none"
  /\ main \in {"closeR", "closeW"} => result = "err"

\* Without a fault nothing has gone wrong anywhere.
CleanInv ==
  ~struck => /\ ~walkErr /\ ~tarBroken /\ ~ctxDone
             /\ pipeW # "err" /\ reply # "err" /\ result # "err"

IInv == TypeOK /\ OfferInv /\ PipeInv /\ AnswerInv /\ CleanInv

-----------------------------------------------------------------------------

LEMMA InitHolds == Init => IInv
<1> SUFFICES ASSUME Init PROVE IInv
  OBVIOUS
<1>1. next \in 0..Entries /\ got \in 0..next /\ next - got <= Wire
  BY StreamAssumption DEF Init
<1>2. TypeOK
  BY <1>1, Zenon DEF Init, TypeOK
<1>3. OfferInv /\ PipeInv /\ AnswerInv /\ CleanInv
  BY Zenon DEF Init, OfferInv, PipeInv, AnswerInv, CleanInv
<1> QED
  BY <1>2, <1>3 DEF IInv

LEMMA ProducerStep == IInv /\ (Producer \/ BreakOff) => IInv'
<1> SUFFICES ASSUME IInv, Producer \/ BreakOff PROVE IInv'
  OBVIOUS
<1> USE StreamAssumption DEF IInv, TypeOK, OfferInv, PipeInv, AnswerInv, CleanInv,
                             Footer, Struck, producer, request, caller
<1>1. CASE Offer
  BY <1>1, SMT DEF Offer
<1>2. CASE EndWalk
  BY <1>2, SMT DEF EndWalk
<1>3. CASE WriteFails
  <2> USE <1>3 DEF WriteFails
  <2>1. TypeOK'
    OBVIOUS
  <2>2. OfferInv'
    OBVIOUS
  <2>3. PipeInv'
    OBVIOUS
  <2>4. AnswerInv' /\ CleanInv'
    OBVIOUS
  <2> QED
    BY <2>1, <2>2, <2>3, <2>4
<1>4. CASE TarClose
  BY <1>4, SMT DEF TarClose
<1>5. CASE PipeClose
  BY <1>5, SMT DEF PipeClose, ClosedWith
<1>6. CASE BreakOff
  <2> USE <1>6 DEF BreakOff
  <2>1. TypeOK'
    OBVIOUS
  <2>2. OfferInv'
    OBVIOUS
  <2>3. PipeInv'
    OBVIOUS
  <2>4. AnswerInv' /\ CleanInv'
    OBVIOUS
  <2> QED
    BY <2>1, <2>2, <2>3, <2>4
<1> QED
  BY <1>1, <1>2, <1>3, <1>4, <1>5, <1>6 DEF Producer

LEMMA PodmanStep == IInv /\ (Podman \/ ReplyEarly \/ Refuse) => IInv'
<1> SUFFICES ASSUME IInv, Podman \/ ReplyEarly \/ Refuse PROVE IInv'
  OBVIOUS
<1> USE StreamAssumption DEF IInv, TypeOK, OfferInv, PipeInv, AnswerInv, CleanInv,
                             Footer, Struck, producer, request, caller
<1>1. CASE ReadBody
  BY <1>1, SMT DEF ReadBody
<1>2. CASE ReadEnd
  BY <1>2, SMT DEF ReadEnd
<1>3. CASE ExtractEntry
  BY <1>3, SMT DEF ExtractEntry
<1>4. CASE SeeFooter
  BY <1>4, SMT DEF SeeFooter
<1>5. CASE Reply
  <2> USE <1>5 DEF Reply
  <2>1. TypeOK' /\ OfferInv' /\ PipeInv'
    OBVIOUS
  <2>2. AnswerInv'
    OBVIOUS
  <2>3. CleanInv'
    OBVIOUS
  <2> QED
    BY <2>1, <2>2, <2>3
<1>6. CASE RequestOver
  BY <1>6, SMT DEF RequestOver
<1>7. CASE ReplyEarly
  BY <1>7, SMT DEF ReplyEarly
<1>8. CASE Refuse
  BY <1>8, SMT DEF Refuse
<1> QED
  BY <1>1, <1>2, <1>3, <1>4, <1>5, <1>6, <1>7, <1>8 DEF Podman

LEMMA CallerStep == IInv /\ (Caller \/ Cancel) => IInv'
<1> SUFFICES ASSUME IInv, Caller \/ Cancel PROVE IInv'
  OBVIOUS
<1> USE StreamAssumption DEF IInv, TypeOK, OfferInv, PipeInv, AnswerInv, CleanInv,
                             Footer, Struck, producer, request, caller
<1>1. CASE InitCopy
  <2> USE <1>1 DEF InitCopy
  <2>1. TypeOK' /\ OfferInv'
    OBVIOUS
  <2>2. PipeInv' /\ AnswerInv'
    OBVIOUS
  <2>3. CleanInv'
    OBVIOUS
  <2> QED
    BY <2>1, <2>2, <2>3
<1>2. CASE CopyReturns
  <2> USE <1>2 DEF CopyReturns
  <2>1. TypeOK'
    <3>1. /\ main' \in {"copy", "closeR", "wait"} /\ result' \in {"none", "ok", "err"}
          /\ ctxDone' \in BOOLEAN
      OBVIOUS
    <3>2. UNCHANGED <<producer, pipeW, pipeR, request, struck>>
      OBVIOUS
    <3> QED
      BY <3>1, <3>2
  <2>2. OfferInv'
    OBVIOUS
  <2>3. PipeInv'
    OBVIOUS
  <2>4. AnswerInv' /\ CleanInv'
    OBVIOUS
  <2> QED
    BY <2>1, <2>2, <2>3, <2>4
<1>3. CASE CloseReader
  BY <1>3, SMT DEF CloseReader
<1>4. CASE CloseWriter
  BY <1>4, SMT DEF CloseWriter
<1>5. CASE Return
  BY <1>5, SMT DEF Return
<1>6. CASE Cancel
  BY <1>6, SMT DEF Cancel
<1>7. CASE InitCopyFails
  <2> USE <1>7 DEF InitCopyFails
  <2>1. struck' = TRUE \/ (ctxDone /\ UNCHANGED struck)
    BY Zenon
  <2>2. TypeOK'
    <3>1. struck' \in BOOLEAN
      BY <2>1
    <3>2. /\ main' = "closeR" /\ result' = "err" /\ ctxDone' = TRUE
          /\ UNCHANGED <<producer, pipeW, pipeR, request>>
      OBVIOUS
    <3> QED
      BY <3>1, <3>2
  <2>3. OfferInv' /\ PipeInv'
    OBVIOUS
  <2>4. AnswerInv'
    OBVIOUS
  <2>5. CleanInv'
    BY <2>1
  <2> QED
    BY <2>2, <2>3, <2>4, <2>5
<1> QED
  BY <1>1, <1>2, <1>3, <1>4, <1>5, <1>6, <1>7 DEF Caller

\* The inductive invariant holds in every reachable state.
LEMMA Inductive == Spec => []IInv
<1>1. IInv /\ UNCHANGED vars => IInv'
  BY DEF IInv, TypeOK, OfferInv, PipeInv, AnswerInv, CleanInv, vars, producer, request, caller
<1>2. IInv /\ [Next]_vars => IInv'
  BY <1>1, ProducerStep, PodmanStep, CallerStep DEF Next, Finished
<1> QED
  BY <1>2, InitHolds, PTL DEF Spec

\* Every variable keeps to its values: nothing is extracted that was not taken from the
\* pipe, the wire holds no more than it may, and the producer closes the pipe with no
\* write pending (volume.go:275-297).
THEOREM TypeCorrect == Spec => []TypeOK
  BY Inductive, PTL DEF IInv

\* A copy fails only if a fault has struck: the footer is in the pipe before the pipe is
\* closed, whatever the order of the two goroutines (volume.go:271-280).
THEOREM FailuresHaveFaults == Spec => []NoSpuriousFailure
<1>1. IInv => NoSpuriousFailure
  BY DEF IInv, CleanInv, NoSpuriousFailure
<1> QED
  BY <1>1, Inductive, PTL

\* A copy that says ok has extracted every entry, unless Podman answered at the footer of
\* a walk that broke off, before the body had ended (volume.go:276-278, 369-375).
THEOREM ErrorsArrive == Spec => []ErrorsReachTheCaller
<1>1. IInv => ErrorsReachTheCaller
  BY DEF IInv, TypeOK, OfferInv, PipeInv, AnswerInv, ErrorsReachTheCaller
<1> QED
  BY <1>1, Inductive, PTL

-----------------------------------------------------------------------------
(* The stream implements the abstract copy *)

LEMMA InitRefines == Init => Copy!Init
  BY DEF Init, Copy!Init, CopyPhase

LEMMA StepRefines == IInv /\ [Next]_vars => [Copy!Next]_(Copy!copyVars)
<1> SUFFICES ASSUME IInv, [Next]_vars PROVE [Copy!Next]_(Copy!copyVars)
  OBVIOUS
<1> USE DEF producer, request, caller, CopyPhase
<1>1. CASE InitCopy \/ InitCopyFails
  BY <1>1 DEF InitCopy, InitCopyFails, Copy!Next, Copy!Start
<1>2. CASE CopyReturns /\ result' = "ok"
  <2>1. reply = "ok" /\ main = "copy" /\ main' = "wait" /\ UNCHANGED <<got, walkErr>>
    BY <1>2 DEF CopyReturns
  <2>2. IF walkErr THEN Early ELSE got = Entries
    BY <2>1 DEF IInv, TypeOK, OfferInv, PipeInv, AnswerInv
  <2> QED
    BY <1>2, <2>1, <2>2 DEF Copy!Next, Copy!Ok
<1>3. CASE CopyReturns /\ result' # "ok"
  BY <1>3 DEF CopyReturns, Copy!Next, Copy!Fail
<1>4. CASE ExtractEntry
  <2>1. CopyPhase \in {"copying", "err"}
    BY <1>4, StreamAssumption DEF ExtractEntry, IInv, TypeOK, AnswerInv
  <2>2. got < Entries
    BY <1>4, StreamAssumption DEF ExtractEntry, IInv, TypeOK
  <2> QED
    BY <1>4, <2>1, <2>2 DEF ExtractEntry, Copy!Next, Copy!Extract
<1>5. CASE WriteFails \/ BreakOff
  <2>1. UNCHANGED <<main, result, got>> /\ (walkErr' = walkErr \/ (walkErr' = TRUE /\ prod = "walk"))
    BY <1>5 DEF WriteFails, BreakOff
  <2>2. prod = "walk" => CopyPhase # "ok"
    BY DEF IInv, TypeOK, OfferInv, AnswerInv
  <2> QED
    BY <2>1, <2>2 DEF Copy!Next, Copy!WalkError, Copy!copyVars
<1>6. CASE CloseReader \/ CloseWriter \/ Return
  BY <1>6 DEF CloseReader, CloseWriter, Return, Copy!copyVars
<1>7. CASE \/ Offer \/ EndWalk \/ TarClose \/ PipeClose
           \/ ReadBody \/ ReadEnd \/ SeeFooter \/ Reply \/ ReplyEarly \/ Refuse
           \/ RequestOver \/ Cancel
  BY <1>7 DEF Offer, EndWalk, TarClose, PipeClose, ReadBody, ReadEnd, SeeFooter, Reply, ReplyEarly,
              Refuse, RequestOver, Cancel, Copy!copyVars
<1>8. CASE UNCHANGED vars
  BY <1>8 DEF vars, Copy!copyVars
<1> QED
  BY <1>1, <1>2, <1>3, <1>4, <1>5, <1>6, <1>7, <1>8
  DEF Next, Producer, Podman, Caller, Finished

\* The goroutine, the pipe and the request together do what ArchiveCopy promises: entries
\* in order, none twice, and ok only for the whole archive (volume.go:264-381).
THEOREM Refines == Spec => ImplementsCopy
  BY Inductive, InitRefines, StepRefines, PTL DEF Spec, ImplementsCopy, Copy!Spec

=============================================================================
