------------------------------ MODULE RemoteVM ------------------------------
(***************************************************************************)
(* The test driver hack/remotevm/main.go: one command after another works  *)
(* on a virtual machine through the host that runs it.  Files travel       *)
(* between three places, and every command finds what earlier ones left    *)
(* behind.                                                                 *)
(*                                                                         *)
(* A command starts a script in the machine and waits for it; when the     *)
(* connection breaks or the command is killed, the script goes on          *)
(* (main.go:353-359 tells of such breaks).  The n-th command and its       *)
(* script are both named n; an archive, a log and a coverage file carry    *)
(* the number of the command that made them, 0 standing for no file.  The  *)
(* files of run and of run-integration, which have names of their own, are *)
(* taken for one log and one coverage file: there is a stale one whenever  *)
(* the code may meet one.                                                  *)
(***************************************************************************)
EXTENDS Integers, FiniteSets

CONSTANTS
  Commands,     \* the commands of main.go:69-145 in use
  MaxCommands,  \* the bound on how many commands are given
  Faults        \* "fail": a step fails; "lost": a connection breaks;
                \* "kill": a command is killed

ASSUME RemoteAssumption ==
  /\ Commands \subseteq {"create", "prepare", "sync", "run", "run-integration", "delete"}
  /\ MaxCommands \in Nat \ {0}
  /\ Faults \subseteq {"fail", "lost", "kill"}

VARIABLES
  n,        \* the number of the latest command
  cmds,     \* what each command is
  pc,       \* where it is: "idle" when it has ended
  file,     \* the file runTestsAndFetch fetches
  failing,  \* it returns an error once its deferred calls have run
  result,   \* what the latest command reported
  tmp,      \* the commands whose temporary directory exists
  local,    \* the files under artifacts
  host,     \* the files on the host
  vm,       \* the machine: its state, its worktree, the files in it
  script,   \* per command, where its script in the machine is
  tests,    \* per command, the worktree its tests run in, whether they passed, and
            \* whether they wrote a coverage file
  overlap,  \* history: a script was going on when the latest command began
  struck    \* history: a command was killed or a closing removal failed

command == <<n, cmds, pc, file, failing, result>>
vars == <<command, tmp, local, host, vm, script, tests, overlap, struck>>

Ids == 1..MaxCommands
Names == 0..MaxCommands
cmd == cmds[n]

NoArchive == [of |-> 0, whole |-> FALSE]
NoLog == [of |-> 0, code |-> "unknown"]
NoVM == [up |-> FALSE, ready |-> FALSE, tree |-> {}, whole |-> 0, dir |-> 0,
         archive |-> NoArchive, log |-> NoLog, cov |-> 0]

Going == {"setup", "rm", "tar", "untar", "open", "test", "echo"}
Orphans == {j \in Ids : script[j] \in Going /\ ~(j = n /\ pc = "await")}

Archives == [of : Names, whole : BOOLEAN]
Logs == [of : Names, code : {"0", "1", "unknown"}]

\* The type invariant; a sync has its archive while it works, a command awaits a script
\* it has started, a machine that does not exist holds nothing and runs nothing, and no
\* command leaves its temporary directory, but for one that was killed or whose deferred
\* removal on the host ended the process (main.go:153, 164).
TypeOK ==
  /\ n \in Names /\ cmds \in [Names -> Commands \cup {"none"}]
  /\ pc \in {"idle", "wipe", "launch", "await", "archive", "rmHost", "upload", "transfer",
             "dropHost", "cleanup", "clear", "get", "save", "drop"}
  /\ file \in {"log", "cov"} /\ failing \in BOOLEAN
  /\ result \in {"none", "ok", "failed", "err"}
  /\ tmp \subseteq Ids
  /\ local \in [log : Logs, cov : Names]
  /\ host \in [archive : Archives, log : Logs, cov : Names]
  /\ vm \in [up : BOOLEAN, ready : BOOLEAN, tree : SUBSET Ids, whole : Names, dir : Names,
             archive : Archives, log : Logs, cov : Names]
  /\ script \in [Ids -> Going \cup {"none", "ok", "failed"}]
  /\ tests \in [Ids -> [cwd : Names, passed : BOOLEAN, wrote : BOOLEAN]]
  /\ overlap \in BOOLEAN /\ struck \in BOOLEAN
  /\ pc \in {"rmHost", "upload", "transfer", "dropHost", "cleanup"} => n \in tmp
  /\ pc = "await" => script[n] # "none"
  /\ pc = "idle" /\ ~struck => tmp = {}
  /\ ~vm.up => vm = NoVM /\ \A j \in Ids : script[j] \notin Going

\* The machine may be there and prepared already: README.en.md:58-70 keeps one that
\* was not made by this driver.
Init ==
  /\ n = 0 /\ cmds = [k \in Names |-> "none"] /\ pc = "idle" /\ file = "log" /\ failing = FALSE
  /\ result = "none"
  /\ tmp = {} /\ local = [log |-> NoLog, cov |-> 0]
  /\ host = [archive |-> NoArchive, log |-> NoLog, cov |-> 0]
  /\ \E up, ready \in BOOLEAN : (ready => up) /\ vm = [NoVM EXCEPT !.up = up, !.ready = ready]
  /\ script = [j \in Ids |-> "none"] 
  /\ tests = [j \in Ids |-> [cwd |-> 0, passed |-> FALSE, wrote |-> FALSE]]
  /\ overlap = FALSE /\ struck = FALSE

-----------------------------------------------------------------------------
(* The command *)

Goto(l) == pc' = l /\ UNCHANGED <<n, cmds, file, failing, result>>
Exit(r) == pc' = "idle" /\ result' = r /\ UNCHANGED <<n, cmds, file, failing>>

\* A step that returns an error goes to the deferred calls at l.
FailTo(l) == pc' = l /\ failing' = TRUE /\ UNCHANGED <<n, cmds, file, result>>

MayFail == "fail" \in Faults

First(c) ==
  CASE c \in {"create", "delete"} -> "wipe"
    [] c = "sync" -> "archive"
    [] OTHER -> "await"

ScriptOf(c) == CASE c = "prepare" -> "setup" [] c = "sync" -> "rm" [] OTHER -> "open"

\* MultipassExec: the script of command k begins, or cannot
Exec(k, c) == script' = [script EXCEPT ![k] = IF vm.up THEN ScriptOf(c) ELSE "failed"]

Begin(c) ==
  /\ pc = "idle" /\ n < MaxCommands
  /\ n' = n + 1 /\ cmds' = [cmds EXCEPT ![n + 1] = c] /\ pc' = First(c)
  /\ file' = "log" /\ failing' = FALSE /\ result' = "none"
  /\ overlap' = (Orphans # {})
  /\ IF First(c) = "await" THEN Exec(n + 1, c) ELSE UNCHANGED script
  /\ UNCHANGED <<tmp, local, host, vm, tests, struck>>

\* multipass delete and purge: their errors are swallowed by "|| true", those
\* of the connection are not.
Wipe ==
  /\ pc = "wipe"
  /\ \/ /\ vm' = NoVM
        /\ script' = [j \in Ids |-> IF script[j] \in Going THEN "failed" ELSE script[j]]
        /\ IF cmd = "delete" THEN Exit("ok") ELSE Goto("launch")
     \/ /\ MayFail
        /\ IF cmd = "delete" THEN Exit("ok") ELSE Goto("launch")
        /\ UNCHANGED <<vm, script>>
     \/ MayFail /\ Exit("err") /\ UNCHANGED <<vm, script>>
  /\ UNCHANGED <<tmp, local, host, tests, overlap, struck>>

\* multipass launch fails when a machine of that name exists.
Launch ==
  /\ pc = "launch"
  /\ \/ ~vm.up /\ vm' = [vm EXCEPT !.up = TRUE] /\ Exit("ok")
     \/ (vm.up \/ MayFail) /\ Exit("err") /\ UNCHANGED vm
  /\ UNCHANGED <<tmp, local, host, script, tests, overlap, struck>>

\* MUTANT of Archive: archiveWorktree defers the cleanup it should return.
ArchiveFreed ==
  /\ pc = "archive"
  /\ Goto("rmHost")
  /\ UNCHANGED <<tmp, local, host, vm, script, tests, overlap, struck>>

\* archiveWorktree frees its directory when it fails.
Archive ==
  /\ pc = "archive"
  /\ \/ tmp' = tmp \cup {n} /\ Goto("rmHost")
     \/ MayFail /\ Exit("err") /\ UNCHANGED tmp
  /\ UNCHANGED <<local, host, vm, script, tests, overlap, struck>>

RmHost ==
  /\ pc = "rmHost"
  /\ \/ host' = [host EXCEPT !.archive = NoArchive] /\ Goto("upload")
     \/ MayFail /\ FailTo("cleanup") /\ UNCHANGED host
  /\ UNCHANGED <<tmp, local, vm, script, tests, overlap, struck>>

\* uploadFile: the removal of the remote archive is deferred only afterwards.
Upload ==
  /\ pc = "upload"
  /\ \/ host' = [host EXCEPT !.archive = [of |-> n, whole |-> TRUE]] /\ Goto("transfer")
     \/ /\ MayFail /\ FailTo("cleanup")
        /\ \/ host' = [host EXCEPT !.archive = [of |-> n, whole |-> FALSE]]
           \/ UNCHANGED host
  /\ UNCHANGED <<tmp, local, vm, script, tests, overlap, struck>>

\* MUTANT of TransferFailed: the error of the transfer is dropped.
TransferFailedIgnored == Goto("await") /\ Exec(n, "sync")

TransferFailed == FailTo("dropHost") /\ UNCHANGED script

Transfer ==
  /\ pc = "transfer"
  /\ \/ /\ vm.up /\ vm' = [vm EXCEPT !.archive = host.archive]
        /\ Goto("await") /\ Exec(n, "sync")
     \/ /\ ~vm.up \/ MayFail
        /\ TransferFailed
        /\ \/ UNCHANGED vm
           \/ vm.up /\ vm' = [vm EXCEPT !.archive = [of |-> n, whole |-> FALSE]]
  /\ UNCHANGED <<tmp, local, host, tests, overlap, struck>>

\* The deferred run() of syncWorktree ends the process when it fails, before
\* the deferred cleanup.
DropHost ==
  /\ pc = "dropHost"
  /\ \/ host' = [host EXCEPT !.archive = NoArchive] /\ Goto("cleanup") /\ UNCHANGED struck
     \/ MayFail /\ Exit("err") /\ struck' = TRUE /\ UNCHANGED host
  /\ UNCHANGED <<tmp, local, vm, script, tests, overlap>>

Cleanup ==
  /\ pc = "cleanup"
  /\ tmp' = tmp \ {n}
  /\ Exit(IF failing THEN "err" ELSE "ok")
  /\ UNCHANGED <<local, host, vm, script, tests, overlap, struck>>

\* What follows the script: the deferred calls of sync, the fetches of a run
After ==
  CASE cmd = "sync" -> IF script[n] = "ok" THEN Goto("dropHost") ELSE FailTo("dropHost")
    [] cmd = "prepare" -> Exit(IF script[n] = "ok" THEN "ok" ELSE "err")
    [] OTHER -> IF script[n] = "ok" THEN Goto("clear") ELSE Exit("err")

Await ==
  /\ pc = "await" /\ script[n] \notin Going
  /\ After
  /\ UNCHANGED <<tmp, local, host, vm, script, tests, overlap, struck>>

Lost ==
  /\ "lost" \in Faults
  /\ pc = "await"
  /\ IF cmd = "sync" THEN FailTo("dropHost") ELSE Exit("err")
  /\ UNCHANGED <<tmp, local, host, vm, script, tests, overlap, struck>>

NoFile(f) == IF f = "log" THEN NoLog ELSE 0

\* fetchRemoteFile, its four steps: remove a stale copy on the host, copy out of
\* the machine, download, and remove the copy by a deferred run()
Clear ==
  /\ pc = "clear"
  /\ \/ host' = [host EXCEPT ![file] = NoFile(file)] /\ Goto("get")
     \/ MayFail /\ Exit("err") /\ UNCHANGED host
  /\ UNCHANGED <<tmp, local, vm, script, tests, overlap, struck>>

GetFailed == FailTo("drop")

Get ==
  /\ pc = "get"
  /\ \/ /\ vm[file] # NoFile(file)
        /\ host' = [host EXCEPT ![file] = vm[file]] /\ Goto("save")
     \/ (MayFail \/ vm[file] = NoFile(file)) /\ GetFailed /\ UNCHANGED host
  /\ UNCHANGED <<tmp, local, vm, script, tests, overlap, struck>>

\* MUTANT of SaveFailed: the file that is there already is taken instead.
SaveFailedIgnored == Goto("drop") /\ UNCHANGED local

\* The download fails before os.Create or after it, leaving a file of no use.
SaveFailed ==
  /\ FailTo("drop")
  /\ UNCHANGED local \/ local' = [local EXCEPT ![file] = NoFile(file)]

Save ==
  /\ pc = "save"
  /\ \/ local' = [local EXCEPT ![file] = host[file]] /\ Goto("drop")
     \/ MayFail /\ SaveFailed
  /\ UNCHANGED <<tmp, host, vm, script, tests, overlap, struck>>

\* lastExitCode of the fetched log
Verdict == IF local.log.code = "0" THEN "ok" ELSE "failed"

Drop ==
  /\ pc = "drop"
  /\ \/ /\ host' = [host EXCEPT ![file] = NoFile(file)]
        /\ \/ failing /\ Exit("err")
           \/ ~failing /\ file = "cov" /\ Exit(Verdict)
           \/ /\ ~failing /\ file = "log"
              /\ file' = "cov" /\ pc' = "clear" /\ UNCHANGED <<n, cmds, failing, result>>
     \/ MayFail /\ Exit("err") /\ UNCHANGED host
  /\ UNCHANGED <<tmp, local, vm, script, tests, overlap, struck>>

Kill ==
  /\ "kill" \in Faults
  /\ pc # "idle"
  /\ Exit("err")
  /\ struck' = TRUE
  /\ UNCHANGED <<tmp, local, host, vm, script, tests, overlap>>

-----------------------------------------------------------------------------
(* The scripts in the machine *)

ScriptGoes(j, s) == script' = [script EXCEPT ![j] = s]
outside == <<command, tmp, local, host, overlap, struck>>

\* Any step of a script may fail; "set -e", or the last command, makes that its status.
\* A removal that fails has removed some of the files.
ScriptFails(j) ==
  /\ MayFail
  /\ script[j] \in {"setup", "rm", "tar", "untar", "open"}
  /\ ScriptGoes(j, "failed")
  /\ \/ UNCHANGED vm
     \/ /\ script[j] = "rm"
        /\ \E log \in {vm.log, NoLog}, cov \in {vm.cov, 0} :
             vm' = [vm EXCEPT !.whole = 0, !.log = log, !.cov = cov]
  /\ UNCHANGED <<outside, tests>>

\* prepare finds another version of Go or crun and removes it to put its own in place.
Replace(j) ==
  /\ script[j] = "setup" /\ vm.ready
  /\ vm' = [vm EXCEPT !.ready = FALSE]
  /\ UNCHANGED <<outside, script, tests>>

\* The commands of prepare end (main.go:75-112).
Setup(j) ==
  /\ script[j] = "setup"
  /\ vm' = [vm EXCEPT !.ready = TRUE]
  /\ ScriptGoes(j, "ok")
  /\ UNCHANGED <<outside, tests>>

\* rm -rf of the worktree, and of the logs in it
Emptied == [vm EXCEPT !.tree = {}, !.whole = 0, !.dir = 0, !.log = NoLog, !.cov = 0]

RmTree(j) ==
  /\ script[j] = "rm"
  /\ vm' = Emptied
  /\ ScriptGoes(j, "tar")
  /\ UNCHANGED <<outside, tests>>

\* tar -xzf begins; it fails on an archive that was cut short or is not there.
Untar(j) ==
  /\ script[j] = "tar"
  /\ \/ /\ vm.archive.of # 0
        /\ vm' = [vm EXCEPT !.tree = @ \cup {vm.archive.of}, !.whole = 0,
                            !.dir = IF @ = 0 THEN j ELSE @]
     \/ vm.archive.of = 0 /\ UNCHANGED vm
  /\ ScriptGoes(j, IF vm.archive.whole THEN "untar" ELSE "failed")
  /\ UNCHANGED <<outside, tests>>

\* tar ends, the archive is removed, and go.mod must be there.  The worktree is whole
\* when one archive was unpacked into the directory this script made.
Untarred(j) ==
  /\ script[j] = "untar"
  /\ \E v \in Names :
       /\ IF vm.dir = j /\ Cardinality(vm.tree) = 1 THEN v \in vm.tree ELSE v = 0
       /\ vm' = [vm EXCEPT !.whole = v, !.archive = NoArchive]
  /\ ScriptGoes(j, IF vm.tree = {} THEN "failed" ELSE "ok")
  /\ UNCHANGED <<outside, tests>>

InPlace(j) == vm.dir # 0 /\ vm.dir = tests[j].cwd

\* cd into the worktree; a new log replaces the old one.
OpenLog(j) ==
  /\ script[j] = "open"
  /\ tests' = [tests EXCEPT ![j].cwd = vm.dir]
  /\ IF vm.dir = 0 THEN ScriptGoes(j, "failed") /\ UNCHANGED vm
     ELSE ScriptGoes(j, "test") /\ vm' = [vm EXCEPT !.log = [of |-> j, code |-> "unknown"]]
  /\ UNCHANGED outside

\* go test: it cannot run in a machine that is not prepared, nor pass in a worktree that is
\* not whole; the coverage file of an earlier command stays until it comes as far as to
\* open its own.
GoTest(j) ==
  /\ script[j] = "test"
  /\ \E ok, wrote \in BOOLEAN :
       /\ ok => wrote /\ vm.whole # 0
       /\ wrote => vm.ready /\ InPlace(j)
       /\ wrote \/ MayFail \/ ~vm.ready \/ vm.whole = 0 \/ ~InPlace(j)
       /\ tests' = [tests EXCEPT ![j].passed = ok, ![j].wrote = wrote]
       /\ vm' = [vm EXCEPT !.cov = IF wrote THEN j ELSE @]
  /\ ScriptGoes(j, "echo")
  /\ UNCHANGED outside

\* The status of the braces is that of their last command: go test in
\* run-integration, in run the chown that follows it.
ExitCode(j) ==
  IF \/ cmds[j] = "run" /\ vm.cov # 0
     \/ cmds[j] = "run-integration" /\ tests[j].passed
  THEN "0" ELSE "1"

\* echo "EXITCODE=$?" >> log goes by name, to a log that may be another's by now.
Echo(j) ==
  /\ script[j] = "echo"
  /\ IF InPlace(j)
     THEN ScriptGoes(j, "ok") /\ vm' = [vm EXCEPT !.log.code = ExitCode(j)]
     ELSE ScriptGoes(j, "failed") /\ UNCHANGED vm
  /\ UNCHANGED <<outside, tests>>

-----------------------------------------------------------------------------

Command ==
  \/ Wipe \/ Launch \/ Archive \/ RmHost \/ Upload \/ Transfer \/ DropHost \/ Cleanup
  \/ Await \/ Lost \/ Clear \/ Get \/ Save \/ Drop \/ Kill

Machine(j) ==
  \/ ScriptFails(j) \/ Replace(j) \/ Setup(j) \/ RmTree(j) \/ Untar(j) \/ Untarred(j)
  \/ OpenLog(j) \/ GoTest(j) \/ Echo(j)

AllDone == pc = "idle" /\ n = MaxCommands /\ Orphans = {} /\ UNCHANGED vars

Next ==
  \/ \E c \in Commands : Begin(c)
  \/ Command
  \/ \E j \in Ids : Machine(j)
  \/ AllDone

Spec == Init /\ [][Next]_vars

-----------------------------------------------------------------------------
(* Properties *)

Ended(k, results) == pc = "idle" /\ cmd = k /\ result \in results

\* What run-integration reports is what its own tests did, unless the script of an
\* earlier command, cut off from it, was still going on when it began
\* (main.go:360-388): no log and no copy of a log or of a coverage file left anywhere by
\* commands that failed or were killed can stand in for its own.  The coverage file in the
\* worktree is not removed before the tests: a run whose tests wrote none reports their
\* failure and may fetch an earlier one.
VerdictIsEarned ==
  Ended("run-integration", {"ok", "failed"}) /\ ~overlap =>
    /\ (result = "ok") = tests[n].passed
    /\ local.log.of = n
    /\ local.cov = n \/ (result = "failed" /\ ~tests[n].wrote)

\* A sync that reports success has put its own worktree into the machine, whole and
\* alone, unless an earlier script was still going on (main.go:148-183): archives left
\* by commands that failed half-way are not unpacked.
SyncIsWhole ==
  Ended("sync", {"ok"}) /\ ~overlap => vm.whole = n /\ vm.tree = {n}

\* run reports success only when its tests passed (main.go:385-387).  The code does not
\* keep this: the status it reads is that of the chown after the tests (main.go:119).
RunVerdictIsEarned == Ended("run", {"ok"}) /\ ~overlap => tests[n].passed

=============================================================================
