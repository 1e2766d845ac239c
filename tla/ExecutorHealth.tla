--------------------------- MODULE ExecutorHealth ---------------------------
(***************************************************************************)
(* The two programs of a task container that meet in its status log: the   *)
(* executor.sh that GenerateExecutor writes (executor.go:38-89), which runs*)
(* the user script and records its exit code, and healthcheck.sh, which    *)
(* Podman starts now and then beside it.  A step is one shell command;     *)
(* "set -e" makes every failing command of either program its last one.    *)
(* The container may be stopped at any time and started again on the files *)
(* it has left.                                                            *)
(***************************************************************************)
EXTENDS Integers

CONSTANTS
  MaxRuns,  \* bound: how often the container is started
  Codes,    \* the exit codes a user script may end with
  Faults    \* what the environment may do (a subset of AllFaults)

\* io:   a log, or the lock file, cannot be written
\* kill: the container is stopped while the executor runs
\* busy: a process that pgrep lists is in uninterruptible sleep, or was a
\*       passing child of the executor's shell
AllFaults == {"io", "kill", "busy"}

ASSUME HealthAssumption ==
  /\ MaxRuns \in Nat \ {0}
  /\ Codes \subseteq Nat
  /\ Faults \subseteq AllFaults

None == -1
Runs == 1..MaxRuns

\* What becomes of a user script: it is missing or does not parse, and is known
\* by code 1, or it runs and ends with a code of its own.
Outcomes == [runs : {TRUE}, code : Codes] \cup [runs : {FALSE}, code : {1}]

VARIABLES
  run,        \* the current start of the container, 0 before the first
  outcome,    \* what becomes of the user script in each run
  main,       \* where the executor is; "off": no container, "exited": it ended
  code,       \* the code it is about to record or to exit with
  exit,       \* its exit code in each run, None until it has ended
  statusTmp,  \* ${STATUS_LOG}.tmp: a code, or None
  status,     \* STATUS_LOG: a code, or None
  author,     \* history: the run that wrote STATUS_LOG
  lock,       \* who holds the lock file
  check,      \* where the healthcheck is
  latest,     \* the last entry of Podman's health log: the exit code of a check or
              \* None; history: whether lostBefore held of it, whether it was misled by a
              \* busy process or a log it could not write, the run it was made in, and
              \* the author of the status it read, 0 if none
  lostBefore  \* history: the check began when the script of this run had failed

files    == <<statusTmp, status, author>>
executor == <<run, outcome, main, code, exit>>
checker  == <<check, latest, lostBefore>>
vars     == <<executor, files, lock, checker>>

\* The steps of the executor, and those between flock -x and its release
Alive  == {"clear", "inspect", "run", "tmp", "flock", "move", "final"}

\* The type invariant; the lock is held by whom its program says
\* (executor.go:77-80, healthcheck.sh:20-30).
TypeOK ==
  /\ run \in 0..MaxRuns
  /\ outcome \in [Runs -> Outcomes]
  /\ main \in Alive \cup {"off", "exited"}
  /\ code \in Codes \cup {0, 1}
  /\ exit \in [Runs -> Codes \cup {None, 0, 1}]
  /\ statusTmp \in Codes \cup {None, 0, 1}
  /\ status \in Codes \cup {None, 0, 1}
  /\ author \in 0..MaxRuns
  /\ lock \in {"free", "executor", "checker"}
  /\ lock = "executor" <=> main = "move"
  /\ lock = "checker" <=> check = "read"
  /\ check \in {"idle", "size", "flock", "read", "pgrep", "ps"}
  /\ latest \in [code : {None, 0, 1}, lost : BOOLEAN, missed : BOOLEAN,
                of : 0..MaxRuns, by : 0..MaxRuns]
  /\ lostBefore \in BOOLEAN

Init ==
  /\ run = 0 /\ outcome \in [Runs -> Outcomes]
  /\ main = "off" /\ code = 0 /\ exit = [r \in Runs |-> None]
  /\ statusTmp = None /\ status = None /\ author = 0
  /\ lock = "free"
  /\ check = "idle" /\ lostBefore = FALSE
  /\ latest = [code |-> None, lost |-> FALSE, missed |-> FALSE, of |-> 0, by |-> 0]

-----------------------------------------------------------------------------
(* The executor                                                             *)

StartContainer ==
  /\ main = "off" /\ run < MaxRuns
  /\ run' = run + 1 /\ main' = "clear" /\ code' = 0
  /\ UNCHANGED <<outcome, exit, files, lock, checker>>

\* The shell ends with code n.
Exit(n) == main' = "exited" /\ exit' = [exit EXCEPT ![run] = n]

\* A command that writes a log fails, and "set -e" ends the shell.
WriteFails == "io" \in Faults /\ Exit(1) /\ UNCHANGED code

\* : > "$RESULT_LOG"
ClearResult ==
  /\ main = "clear"
  /\ (main' = "inspect" /\ UNCHANGED <<code, exit>>) \/ WriteFails
  /\ UNCHANGED <<run, outcome, files, lock, checker>>

\* Step 1: the script is there and parses, or record_failure 1 is called.
Inspect ==
  /\ main = "inspect"
  /\ \/ /\ ~outcome[run].runs
        /\ main' = "tmp" /\ code' = 1 /\ UNCHANGED exit
     \/ /\ outcome[run].runs
        /\ main' = "run" /\ UNCHANGED <<code, exit>>
     \/ ~outcome[run].runs /\ WriteFails
  /\ UNCHANGED <<run, outcome, files, lock, checker>>

\* MUTANT of RunScript: neither -e nor pipefail, and the exit code is tee's.
RunScriptOfTee ==
  /\ main = "run"
  /\ main' = "tmp" /\ code' = 0
  /\ UNCHANGED <<exit, run, outcome, files, lock, checker>>

\* Step 2: a script that fails fails the pipeline, and ends the shell there.
RunScript ==
  /\ main = "run"
  /\ \/ /\ outcome[run].code = 0
        /\ main' = "tmp" /\ code' = 0 /\ UNCHANGED exit
     \/ /\ outcome[run].code # 0
        /\ Exit(outcome[run].code) /\ UNCHANGED code
     \/ WriteFails
  /\ UNCHANGED <<run, outcome, files, lock, checker>>

\* Step 3, and record_failure: the code goes into a temporary file, which is
\* renamed under the exclusive lock.
WriteStatusTmp ==
  /\ main = "tmp"
  /\ \/ statusTmp' = code /\ main' = "flock" /\ UNCHANGED <<code, exit>>
     \/ WriteFails /\ UNCHANGED statusTmp
  /\ UNCHANGED <<run, outcome, status, author, lock, checker>>

FlockExclusive ==
  /\ main = "flock" /\ lock = "free"
  /\ lock' = "executor" /\ main' = "move"
  /\ UNCHANGED <<run, outcome, code, exit, files, checker>>

\* MUTANT of MoveStatus: the lock file stays locked.
MoveStatusKeepsLock ==
  /\ main = "move"
  /\ status' = statusTmp /\ statusTmp' = None /\ author' = run
  /\ main' = "final"
  /\ UNCHANGED <<run, outcome, code, exit, lock, checker>>

MoveStatus ==
  /\ main = "move"
  /\ lock' = "free"
  /\ \/ /\ status' = statusTmp /\ statusTmp' = None /\ author' = run
        /\ main' = "final" /\ UNCHANGED <<code, exit>>
     \/ WriteFails /\ UNCHANGED files
  /\ UNCHANGED <<run, outcome, checker>>

\* Step 4: the last line of the result log, then the exit
FinalLog ==
  /\ main = "final"
  /\ (Exit(code) /\ UNCHANGED code) \/ WriteFails
  /\ UNCHANGED <<run, outcome, files, lock, checker>>

\* The container goes down: some time after the executor has ended, or because
\* it is killed.  The healthcheck goes with it and the locks are released.
StopContainer ==
  /\ main = "exited" \/ (main \in Alive /\ "kill" \in Faults)
  /\ main' = "off" /\ lock' = "free"
  /\ check' = "idle" /\ lostBefore' = FALSE
  /\ UNCHANGED <<run, outcome, code, exit, files, latest>>

-----------------------------------------------------------------------------
(* healthcheck.sh                                                           *)

Lost == exit[run] # None /\ outcome[run].code # 0

StartCheck ==
  /\ main # "off" /\ check = "idle"
  /\ check' = "size" /\ lostBefore' = Lost
  /\ UNCHANGED <<executor, files, lock, latest>>

\* The check exits with code n, which Podman adds to its log.
Judge(n, missed, by) ==
  /\ check' = "idle"
  /\ latest' = [code |-> n, lost |-> lostBefore, missed |-> missed, of |-> run, by |-> by]
  /\ UNCHANGED lostBefore

\* log or touch fails, and "set -e" ends the check.
LogFails(by) == "io" \in Faults /\ Judge(1, TRUE, by)

\* MUTANT of TestSize: the log is read whether or not it has anything.
TestSizeSkipped ==
  /\ check = "size"
  /\ check' = "flock"
  /\ UNCHANGED <<executor, files, lock, latest, lostBefore>>

\* if [ -s "$EXIT_CODE_LOG_FILE" ], and the lock file is touched
TestSize ==
  /\ check = "size"
  /\ \/ /\ check' = IF status = None THEN "pgrep" ELSE "flock"
        /\ UNCHANGED <<latest, lostBefore>>
     \/ status # None /\ LogFails(0)
  /\ UNCHANGED <<executor, files, lock>>

FlockShared ==
  /\ check = "flock" /\ lock = "free"
  /\ lock' = "checker" /\ check' = "read"
  /\ UNCHANGED <<executor, files, latest, lostBefore>>

CodeVerdict(n) == IF n = 0 THEN 0 ELSE 1

\* MUTANT of ReadStatus: the lock file stays locked.
ReadStatusKeepsLock ==
  /\ check = "read"
  /\ Judge(CodeVerdict(status), FALSE, author) \/ LogFails(author)
  /\ UNCHANGED <<executor, files, lock>>

\* The exit code is read under the shared lock, and has priority.
ReadStatus ==
  /\ check = "read"
  /\ lock' = "free"
  /\ Judge(CodeVerdict(status), FALSE, author) \/ LogFails(author)
  /\ UNCHANGED <<executor, files>>

\* A check without a process to look at and without an exit code fails.
Pgrep ==
  /\ check = "pgrep"
  /\ \/ main \in Alive /\ check' = "ps" /\ UNCHANGED <<latest, lostBefore>>
     \/ main \notin Alive /\ (Judge(1, FALSE, 0) \/ LogFails(0))
  /\ UNCHANGED <<executor, files, lock>>

\* ps fails when the process has gone, and ends the check with it.
Ps ==
  /\ check = "ps"
  /\ \/ main \in Alive /\ (Judge(0, FALSE, 0) \/ LogFails(0))
     \/ main \notin Alive /\ Judge(1, FALSE, 0)
     \/ "busy" \in Faults /\ Judge(1, TRUE, 0)
  /\ UNCHANGED <<executor, files, lock>>

\* The exit code that HealthCheckContainer answers: that of the last entry, however
\* old, and -1 when there is none
HealthCheckContainer == latest.code

-----------------------------------------------------------------------------

Executor == ClearResult \/ Inspect \/ RunScript \/ WriteStatusTmp
            \/ FlockExclusive \/ MoveStatus \/ FinalLog

Healthcheck == TestSize \/ FlockShared \/ ReadStatus \/ Pgrep \/ Ps

AllRun == main = "off" /\ run = MaxRuns /\ UNCHANGED vars

Next ==
  \/ StartContainer \/ Executor \/ StopContainer
  \/ StartCheck \/ Healthcheck
  \/ AllRun

Spec == Init /\ [][Next]_vars

\* A shell that can go on does, and user scripts end; the kernel grants a lock to
\* whoever has waited for it through any number of other holders.
FairSpec ==
  /\ Spec
  /\ WF_vars(Executor) /\ SF_vars(FlockExclusive)
  /\ WF_vars(Healthcheck) /\ SF_vars(FlockShared)

-----------------------------------------------------------------------------
(* Properties *)

\* The exit code in the status log is the one of the run that wrote it: a run
\* killed between its temporary file and the rename leaves nothing that a later
\* run passes on as its own (executor.go:76-80, 51-55).
StatusIsItsAuthors ==
  status # None => author # 0 /\ status = outcome[author].code

\* What HealthCheckContainer answers is the code that some run's script ended with, or
\* comes of a look at the processes; and unless the check read the status that an earlier
\* run had left, it hides no failure that was there when it began, and none is reported
\* of an executor that is still running, but for a script that did fail, a busy process or
\* a log that the check could not write.  Neither the files a check reads beside the
\* executor nor the end of that between two of its commands mislead it
\* (container.go:183-200, healthcheck.sh:16-68).
ReportIsEarned ==
  HealthCheckContainer # None =>
    /\ latest.by # 0 /\ ~latest.missed =>
         HealthCheckContainer = CodeVerdict(outcome[latest.by].code)
    /\ HealthCheckContainer = 0 /\ latest.lost => latest.by \notin {0, latest.of}
    /\ HealthCheckContainer > 0 /\ latest.of = run /\ latest.by \in {0, run} /\ main \in Alive =>
         latest.missed \/ outcome[run].code # 0

\* Nobody waits for ever for the lock: a check comes to a verdict or its container
\* stops, and an executor that runs ends (healthcheck.sh:20-30, executor.go:76-89).
EveryoneEnds ==
  /\ (check # "idle") ~> (check = "idle")
  /\ (main = "clear") ~> (main \in {"exited", "off"})

\* The status is recorded for success and for failure alike, as the comment has
\* it (executor.go:75), when every log can be written.
FailureIsRecorded ==
  run > 0 /\ exit[run] # None => status = exit[run] /\ author = run

=============================================================================
