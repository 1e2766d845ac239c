------------------------- MODULE ExecutorHealthProofs -------------------------
(***************************************************************************)
(* Theorems about ExecutorHealth for any number of starts of the container,*)
(* any exit codes and any faults.                                          *)
(***************************************************************************)
EXTENDS ExecutorHealth, TLAPS

\* What the executor has in hand at each of its commands, and whose code the status
\* log holds
StatusInv ==
  /\ main # "off" => run # 0
  /\ author <= run
  /\ main = "run" => outcome[run].runs
  /\ main \in {"tmp", "flock", "move"} => code = outcome[run].code
  /\ main \in {"flock", "move"} => statusTmp = code
  /\ StatusIsItsAuthors

\* What a check knows while it goes on, what has become of the executor, for good, once
\* its code is known, and of when the last report is
CheckInv ==
  /\ \A r \in Runs : r > run => exit[r] = None
  /\ main = "off" => check = "idle" /\ ~lostBefore
  /\ main \in Alive => exit[run] = None
  /\ check \in {"flock", "read"} => status # None
  /\ lostBefore => Lost
  /\ latest.of <= run /\ latest.by <= latest.of
  /\ latest.code # None => latest.of # 0
  /\ ReportIsEarned

IInv == TypeOK /\ StatusInv /\ CheckInv

-----------------------------------------------------------------------------
(* The invariant *)

LEMMA OutcomeTypes ==
  ASSUME NEW o \in Outcomes
  PROVE  o.runs \in BOOLEAN /\ o.code \in Codes \cup {1} /\ (~o.runs => o.code = 1)
  BY DEF Outcomes

LEMMA CodeIsNoNone == \A c \in Codes \cup {0, 1} : c # None /\ c \in Int
  BY HealthAssumption DEF None

\* The entries of Podman's health log
Entries ==
  [code : {None, 0, 1}, lost : BOOLEAN, missed : BOOLEAN, of : 0..MaxRuns, by : 0..MaxRuns]

LEMMA JudgeTypes ==
  ASSUME TypeOK, NEW k \in {0, 1}, NEW missed \in BOOLEAN, NEW by \in 0..MaxRuns,
         Judge(k, missed, by)
  PROVE  latest' \in Entries /\ check' = "idle" /\ lostBefore' = lostBefore
<1>1. lostBefore \in BOOLEAN /\ run \in 0..MaxRuns
  BY DEF TypeOK
<1> QED
  BY <1>1, Zenon DEF Judge, Entries

\* The verdicts without a status
LEMMA PlainVerdicts ==
  ASSUME TypeOK, NEW k \in {0, 1}, NEW missed \in BOOLEAN, Judge(k, missed, 0)
  PROVE  latest' \in Entries /\ check' = "idle" /\ lostBefore' = lostBefore
<1>1. 0 \in 0..MaxRuns
  BY HealthAssumption
<1> QED
  BY <1>1, JudgeTypes, Zenon

LEMMA InitInv == Init => IInv
<1>1. Init => TypeOK
  <2>1. [code |-> None, lost |-> FALSE, missed |-> FALSE, of |-> 0, by |-> 0] \in Entries
    <3>1. 0 \in 0..MaxRuns
      BY HealthAssumption
    <3> QED
      BY <3>1, Zenon DEF Entries
  <2>2. Init => latest \in Entries /\ lostBefore \in BOOLEAN
    BY <2>1 DEF Init
  <2> QED
    BY <2>2, HealthAssumption DEF Init, TypeOK, Alive, Entries
<1>2. Init => StatusInv
  BY DEF Init, StatusInv, StatusIsItsAuthors, None
<1>3. Init => CheckInv
  BY DEF Init, CheckInv, ReportIsEarned, HealthCheckContainer, Alive, None, Lost
<1> QED
  BY <1>1, <1>2, <1>3 DEF IInv

LEMMA StepTypeOK == TypeOK /\ StatusInv /\ [Next]_vars => TypeOK'
<1> SUFFICES ASSUME TypeOK, StatusInv, [Next]_vars PROVE TypeOK'
  OBVIOUS
<1> USE HealthAssumption DEF TypeOK, Alive, files, executor, checker
<1>1. CASE StartContainer
  BY <1>1 DEF StartContainer
<1>2. CASE ClearResult
  BY <1>2 DEF ClearResult, WriteFails, Exit
<1>3. CASE Inspect
  BY <1>3 DEF Inspect, WriteFails, Exit
<1>4. CASE RunScript
  <2>1. run \in Runs /\ outcome[run].code \in Codes \cup {1}
    BY <1>4, OutcomeTypes DEF RunScript, StatusInv, Runs
  <2> QED
    BY <1>4, <2>1 DEF RunScript, WriteFails, Exit
<1>5. CASE WriteStatusTmp
  BY <1>5 DEF WriteStatusTmp, WriteFails, Exit
<1>6. CASE FlockExclusive
  BY <1>6 DEF FlockExclusive
<1>7. CASE MoveStatus
  BY <1>7 DEF MoveStatus, WriteFails, Exit
<1>8. CASE FinalLog
  BY <1>8 DEF FinalLog, WriteFails, Exit
<1>9. CASE StopContainer
  BY <1>9 DEF StopContainer
<1>10. CASE StartCheck
  <2>1. lostBefore' \in BOOLEAN
    BY <1>10, Zenon DEF StartCheck, Lost
  <2> QED
    BY <1>10, <2>1 DEF StartCheck
<1>11. CASE TestSize
  <2>1. \/ latest' \in Entries /\ check' = "idle" /\ lostBefore' = lostBefore
        \/ check' \in {"pgrep", "flock"} /\ UNCHANGED <<latest, lostBefore>>
    BY <1>11, PlainVerdicts DEF TestSize, LogFails
  <2> QED
    BY <1>11, <2>1 DEF TestSize, Entries
<1>12. CASE FlockShared
  BY <1>12 DEF FlockShared
<1>13. CASE ReadStatus
  <2>1. CodeVerdict(status) \in {0, 1} /\ author \in 0..MaxRuns
    BY DEF CodeVerdict
  <2>2. latest' \in Entries /\ check' = "idle" /\ lostBefore' = lostBefore
    BY <1>13, <2>1, JudgeTypes DEF ReadStatus, LogFails
  <2> QED
    BY <1>13, <2>2 DEF ReadStatus, Entries
<1>14. CASE Pgrep
  <2>1. \/ latest' \in Entries /\ check' = "idle" /\ lostBefore' = lostBefore
        \/ check' = "ps" /\ UNCHANGED <<latest, lostBefore>>
    BY <1>14, PlainVerdicts DEF Pgrep, LogFails
  <2> QED
    BY <1>14, <2>1 DEF Pgrep, Entries
<1>15. CASE Ps
  <2>1. latest' \in Entries /\ check' = "idle" /\ lostBefore' = lostBefore
    BY <1>15, PlainVerdicts DEF Ps, LogFails
  <2> QED
    BY <1>15, <2>1 DEF Ps, Entries
<1>16. CASE UNCHANGED vars
  BY <1>16 DEF vars
<1> QED
  BY <1>1, <1>2, <1>3, <1>4, <1>5, <1>6, <1>7, <1>8, <1>9, <1>10, <1>11, <1>12, <1>13, <1>14,
     <1>15, <1>16 DEF Next, Executor, Healthcheck, AllRun

\* The shell ends with the container still there, whatever its code.
LEMMA StepStatusInv == TypeOK /\ StatusInv /\ [Next]_vars => StatusInv'
<1> SUFFICES ASSUME TypeOK, StatusInv, [Next]_vars PROVE StatusInv'
  OBVIOUS
<1> USE DEF StatusInv, StatusIsItsAuthors, files, executor, checker
<1>1. CASE StartContainer
  BY <1>1 DEF StartContainer, TypeOK
<1>2. CASE ClearResult \/ FinalLog
  BY <1>2 DEF ClearResult, FinalLog, WriteFails, Exit
<1>3. CASE Inspect
  <2>1. run \in Runs
    BY <1>3 DEF Inspect, TypeOK, Runs
  <2>2. outcome[run].runs \/ outcome[run].code = 1
    BY <2>1, OutcomeTypes DEF TypeOK
  <2> QED
    BY <1>3, <2>2 DEF Inspect, WriteFails, Exit
<1>4. CASE RunScript
  BY <1>4 DEF RunScript, WriteFails, Exit
<1>5. CASE WriteStatusTmp
  BY <1>5 DEF WriteStatusTmp, WriteFails, Exit
<1>6. CASE FlockExclusive
  BY <1>6 DEF FlockExclusive
<1>7. CASE MoveStatus
  BY <1>7 DEF MoveStatus, WriteFails, Exit, TypeOK
<1>8. CASE StopContainer
  BY <1>8 DEF StopContainer
<1>9. CASE UNCHANGED <<executor, files>>
  BY <1>9
<1> QED
  BY <1>1, <1>2, <1>3, <1>4, <1>5, <1>6, <1>7, <1>8, <1>9
  DEF Next, Executor, Healthcheck, AllRun, vars, StartCheck, TestSize, FlockShared, ReadStatus,
      Pgrep, Ps, LogFails, Judge

\* What one command of the executor may do to what the checks look at
LEMMA ExecutorSteps ==
  ASSUME TypeOK, StatusInv, Executor
  PROVE  /\ main \in Alive /\ UNCHANGED <<run, outcome, checker>>
         /\ \/ main' \in Alive /\ exit' = exit
            \/ main' = "exited" /\ \E k : exit' = [exit EXCEPT ![run] = k]
         /\ status' = status \/ status' # None
<1> USE DEF checker, files, Alive, Exit, WriteFails
<1>1. CASE ClearResult \/ FinalLog
  BY <1>1 DEF ClearResult, FinalLog
<1>2. CASE Inspect
  BY <1>2 DEF Inspect
<1>3. CASE RunScript
  BY <1>3 DEF RunScript
<1>4. CASE WriteStatusTmp
  BY <1>4 DEF WriteStatusTmp
<1>5. CASE FlockExclusive
  BY <1>5 DEF FlockExclusive
<1>6. CASE MoveStatus
  BY <1>6, CodeIsNoNone DEF MoveStatus, StatusInv, TypeOK
<1> QED
  BY <1>1, <1>2, <1>3, <1>4, <1>5, <1>6 DEF Executor

\* What Podman's log says after a verdict, apart from its types
LEMMA JudgeFields ==
  ASSUME NEW k, NEW missed, NEW by, Judge(k, missed, by)
  PROVE  /\ latest'.code = k /\ latest'.lost = lostBefore /\ latest'.missed = missed
         /\ latest'.of = run /\ latest'.by = by
         /\ check' = "idle" /\ lostBefore' = lostBefore
  BY Zenon DEF Judge

\* A verdict on what was read, the executor being where it was
LEMMA StepVerdict ==
  ASSUME TypeOK, StatusInv, CheckInv, check # "idle",
         UNCHANGED <<executor, files>>,
         NEW k \in {0, 1}, NEW missed \in BOOLEAN, NEW by \in 0..run, Judge(k, missed, by),
         missed => k = 1,
         by # 0 /\ ~missed => k = CodeVerdict(outcome[by].code),
         by = 0 /\ k = 0 => main \in Alive,
         by = 0 /\ k = 1 => missed \/ main \notin Alive
  PROVE  CheckInv'
<1> USE DEF CheckInv, executor, files
<1>1. /\ latest'.code = k /\ latest'.lost = lostBefore /\ latest'.missed = missed
      /\ latest'.of = run /\ latest'.by = by
      /\ check' = "idle" /\ lostBefore' = lostBefore
  BY JudgeFields
<1>2. main # "off" /\ run # 0 /\ run \in Nat /\ run' = run /\ main' = main /\ outcome' = outcome
  BY HealthAssumption DEF TypeOK, StatusInv
<1>3. k = 0 /\ lostBefore => by \notin {0, run}
  BY <1>2 DEF Lost, CodeVerdict
<1>4. k > 0 /\ by \in {0, run} /\ main \in Alive => missed \/ outcome[run].code # 0
  BY <1>2 DEF CodeVerdict
<1>5. ReportIsEarned'
  BY <1>1, <1>2, <1>3, <1>4 DEF ReportIsEarned, HealthCheckContainer, CodeVerdict
<1>6. lostBefore' => Lost'
  BY <1>1 DEF Lost
<1> QED
  BY <1>1, <1>2, <1>5, <1>6

\* A verdict on the processes, or for want of a log
LEMMA StepPlain ==
  ASSUME TypeOK, StatusInv, CheckInv, check # "idle", UNCHANGED <<executor, files>>,
         \/ main \in Alive /\ Judge(0, FALSE, 0)
         \/ main \notin Alive /\ Judge(1, FALSE, 0)
         \/ Judge(1, TRUE, 0)
  PROVE  CheckInv'
<1>1. 0 \in 0..run /\ 0 # 1 /\ 0 \in {0, 1} /\ 1 \in {0, 1} /\ TRUE \in BOOLEAN /\ FALSE \in BOOLEAN
  BY DEF TypeOK
<1>2. ASSUME main \in Alive, Judge(0, FALSE, 0) PROVE CheckInv'
  BY <1>1, <1>2, StepVerdict, Zenon
<1>3. ASSUME main \notin Alive, Judge(1, FALSE, 0) PROVE CheckInv'
  BY <1>1, <1>3, StepVerdict, Zenon
<1>4. ASSUME Judge(1, TRUE, 0) PROVE CheckInv'
  BY <1>1, <1>4, StepVerdict, Zenon
<1> QED
  BY <1>2, <1>3, <1>4

LEMMA StepCheckInv == TypeOK /\ StatusInv /\ CheckInv /\ [Next]_vars => CheckInv'
<1> SUFFICES ASSUME TypeOK, StatusInv, CheckInv, [Next]_vars PROVE CheckInv'
  OBVIOUS
<1> USE DEF CheckInv, ReportIsEarned, HealthCheckContainer, Lost, files, executor, checker
<1>1. /\ run \in Nat /\ (\A r \in Runs : r \in Int)
      /\ latest.of \in Nat /\ latest.by \in Nat /\ author \in Nat
      /\ run = 0 => main = "off" /\ check = "idle"
  BY HealthAssumption DEF Runs, TypeOK, StatusInv
<1>2. CASE StartContainer
  <2>1. /\ run' = run + 1 /\ ~lostBefore /\ check = "idle" /\ main' = "clear"
        /\ UNCHANGED <<exit, outcome, checker>> /\ run < MaxRuns
    BY <1>2 DEF StartContainer
  <2>2. run' \in Runs
    BY <2>1, <1>1, HealthAssumption DEF Runs
  <2>3. (\A r \in Runs : r > run' => exit'[r] = None) /\ exit'[run'] = None
    BY <2>1, <2>2, <1>1
  <2>4. latest'.of <= run' /\ latest'.of # run'
    BY <2>1, <1>1
  <2> QED
    BY <2>1, <2>3, <2>4, <1>1
<1>3. CASE Executor
  <2>1. PICK k : exit' = exit \/ exit' = [exit EXCEPT ![run] = k]
    BY <1>3, ExecutorSteps
  <2>2. \A r \in Runs : r > run' => exit'[r] = None
    <3>1. DOMAIN exit = Runs /\ run' = run
      BY <1>3, ExecutorSteps DEF TypeOK
    <3>2. \A r \in Runs : r > run => r # run
      BY <1>1
    <3> QED
      BY <2>1, <3>1, <3>2
  <2>3. exit[run] = None /\ ~lostBefore
    BY <1>3, ExecutorSteps
  <2>4. main' \in Alive => exit'[run] = None
    BY <1>3, <2>3, ExecutorSteps DEF Alive
  <2>5. main' # "off" /\ (check' \in {"flock", "read"} => status' # None)
    BY <1>3, ExecutorSteps DEF Alive
  <2> QED
    BY <1>3, <2>2, <2>3, <2>4, <2>5, ExecutorSteps
<1>4. CASE StopContainer
  BY <1>4 DEF StopContainer, Alive
<1>5. CASE StartCheck
  BY <1>5 DEF StartCheck
<1>6. CASE TestSize
  <2>1. CASE Judge(1, TRUE, 0)
    BY <1>6, <2>1, StepPlain DEF TestSize
  <2>2. CASE check' = (IF status = None THEN "pgrep" ELSE "flock") /\ UNCHANGED <<latest, lostBefore>>
    BY <1>6, <2>2 DEF TestSize
  <2> QED
    BY <1>6, <2>1, <2>2 DEF TestSize, LogFails
<1>7. CASE FlockShared
  BY <1>7 DEF FlockShared
<1>8. CASE ReadStatus
  <2>1. /\ status # None /\ author # 0 /\ status = outcome[author].code
        /\ author \in 0..run /\ CodeVerdict(status) \in {0, 1}
    BY <1>1, <1>8 DEF ReadStatus, StatusInv, StatusIsItsAuthors, TypeOK, CodeVerdict
  <2>2. CASE Judge(1, TRUE, author)
    BY <1>8, <2>1, <2>2, StepVerdict DEF ReadStatus
  <2>3. CASE Judge(CodeVerdict(status), FALSE, author)
    BY <1>8, <2>1, <2>3, StepVerdict DEF ReadStatus
  <2> QED
    BY <1>8, <2>2, <2>3 DEF ReadStatus, LogFails
<1>9. CASE Pgrep
  <2>1. CASE check' = "ps" /\ UNCHANGED <<latest, lostBefore>>
    BY <1>9, <2>1 DEF Pgrep
  <2>2. CASE main \notin Alive /\ (Judge(1, FALSE, 0) \/ Judge(1, TRUE, 0))
    BY <1>9, <2>2, StepPlain DEF Pgrep
  <2> QED
    BY <1>9, <2>1, <2>2 DEF Pgrep, LogFails
<1>10. CASE Ps
  <2>1. \/ main \in Alive /\ Judge(0, FALSE, 0)
        \/ main \notin Alive /\ Judge(1, FALSE, 0)
        \/ Judge(1, TRUE, 0)
    BY <1>10 DEF Ps, LogFails
  <2> QED
    BY <1>10, <2>1, StepPlain DEF Ps
<1>11. CASE UNCHANGED vars
  BY <1>11 DEF vars
<1> QED
  BY <1>2, <1>3, <1>4, <1>5, <1>6, <1>7, <1>8, <1>9, <1>10, <1>11 DEF Next, Healthcheck, AllRun

\* The invariant of the two programs beside each other, over all starts of the container
\* (executor.go:38-89, healthcheck.sh:14-68).
THEOREM Inductive == Spec => []IInv
<1>1. IInv /\ [Next]_vars => IInv'
  BY StepTypeOK, StepStatusInv, StepCheckInv DEF IInv
<1> QED
  BY InitInv, <1>1, PTL DEF Spec

-----------------------------------------------------------------------------
(* Theorems *)

\* The variables have their types, and each lock is held by whom its program says.
THEOREM TypeCorrect == Spec => []TypeOK
<1>1. IInv => TypeOK
  BY DEF IInv
<1> QED
  BY Inductive, <1>1, PTL

\* The exit code in the status log is the one of the run that wrote it, however often
\* the container was stopped between two commands and started again on the files it
\* left (executor.go:76-80, 51-55).
THEOREM RecordedByItsAuthor == Spec => []StatusIsItsAuthors
<1>1. IInv => StatusIsItsAuthors
  BY DEF IInv, StatusInv
<1> QED
  BY Inductive, <1>1, PTL

\* In every run, a report tells the code of the run whose status it has read, hides no
\* failure that was there when its check began and blames no running executor, but for the
\* status of an earlier run, a busy process or a log that could not be written
\* (container.go:183-200, healthcheck.sh:16-68).
THEOREM ReportsAreEarned == Spec => []ReportIsEarned
<1>1. IInv => ReportIsEarned
  BY DEF IInv, CheckInv
<1> QED
  BY Inductive, <1>1, PTL

=============================================================================
