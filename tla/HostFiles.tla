----------------------------- MODULE HostFiles -----------------------------
(***************************************************************************)
(* The files that podbridge5 leaves on the host for one task: its executor *)
(* and its user script, in one directory, and the statistics of its        *)
(* container.  A call is one of GenerateExecutor, ProcessScript and        *)
(* LogContainerStatsToCSV, and calls run side by side.                     *)
(***************************************************************************)
EXTENDS Integers

CONSTANTS
  Callers,  \* the calls
  Scripts,  \* the scripts, as their lengths
  Parsing,  \* the user scripts bash -n accepts
  MaxRows,  \* bound: the reports on the container that a call may receive
  Faults,   \* "io": a system call or a request fails; "crash": a process dies
  NoFile    \* no file under a name

ASSUME HostFilesAssumption ==
  /\ Scripts \subseteq Nat \ {0}
  /\ Parsing \subseteq Scripts
  /\ MaxRows \in Nat
  /\ Faults \subseteq {"io", "crash"}
  /\ NoFile \notin Callers

VARIABLES
  final, tmp, content, exec, pc, script, fd, raced, struck, broken, \* ExecutorFile
  txt, sh, temp, body, mode, pcUser, text, racedUser,               \* UserScript
  csv, lines, pcStats, file, reports, stuck, racedStats             \* StatsLog

Executor == INSTANCE ExecutorFile
User == INSTANCE UserScript WITH pc <- pcUser, raced <- racedUser
Stats == INSTANCE StatsLog WITH pc <- pcStats, raced <- racedStats

executor == <<final, tmp, content, exec, pc, script, fd, raced, struck, broken>>
user == <<txt, sh, temp, body, mode, pcUser, text, racedUser>>
stats == <<csv, lines, pcStats, file, reports, stuck, racedStats>>
vars == <<executor, user, stats>>

Init == Executor!Init /\ User!Init /\ Stats!Init

\* Call c is of GenerateExecutor, of ProcessScript or of LogContainerStatsToCSV.
Execute(c) ==
  /\ pcUser[c] = "idle" /\ pcStats[c] = "idle"
  /\ Executor!Step(c)
  /\ UNCHANGED <<user, stats>>

Prepare(c) ==
  /\ pc[c] = "idle" /\ pcStats[c] = "idle"
  /\ User!Step(c)
  /\ UNCHANGED <<executor, stats>>

Log(c) ==
  /\ pc[c] = "idle" /\ pcUser[c] = "idle"
  /\ Stats!Step(c)
  /\ UNCHANGED <<executor, user>>

AllEnded ==
  /\ \A c \in Callers : \E p \in {pc, pcUser, pcStats} : p[c] \in {"ok", "err", "dead"}
  /\ UNCHANGED vars

Next == (\E c \in Callers : Execute(c) \/ Prepare(c) \/ Log(c)) \/ AllEnded

Spec == Init /\ [][Next]_vars

-----------------------------------------------------------------------------
(* Properties *)

\* The type invariants of the three components; a call that prepares the script of a
\* task has no hand in its executor (executor.go:28-32, 232-242; resource.go:19).
TypeOK ==
  /\ Executor!TypeOK /\ User!TypeOK /\ Stats!TypeOK
  /\ \A c \in Callers :
       /\ pc[c] # "idle" => pcUser[c] = "idle" /\ pcStats[c] = "idle"
       /\ pcUser[c] # "idle" => pcStats[c] = "idle"

\* As long as calls of GenerateExecutor come one at a time: what is under executorPath
\* is a complete script (executor.go:28-32, 126-127).
InstalledIsWhole == Executor!InstalledIsWhole

\* As long as calls of GenerateExecutor come one at a time: one that returns without an
\* error has installed its script (executor.go:113-134).
OkInstallsMyScript == Executor!OkInstallsMyScript

\* Racing calls of GenerateExecutor that meet no error of the system leave an executable
\* file, and a whole script if they agree on it (executor.go:32-134).
RacersSucceed == Executor!RacersSucceed

\* What is under user_script.sh is one whole script that bash has parsed, however calls
\* race, fail or die (executor.go:232-265).
OnlyCheckedScripts == User!OnlyCheckedScripts

\* As long as calls of ProcessScript come one at a time: one that returns nil leaves its
\* script, executable, and the same text (executor.go:226-270).
ScriptIsMine == User!ScriptIsMine

\* As long as calls of LogContainerStatsToCSV come one at a time: one that returns nil
\* leaves its own reports and nothing of an earlier log (resource.go:21-83).
RowsAreTheReports == Stats!RowsAreTheReports

=============================================================================
