---------------------------- MODULE CommandProofs ----------------------------
(***************************************************************************)
(* Theorems about the commands of the repository that are not part of the  *)
(* library: RemoteVM, for any commands, any number of them and any faults, *)
(* and the govulncheck gate of VulnGate, for any exceptions file and any   *)
(* stream of messages.                                                     *)
(***************************************************************************)
EXTENDS RemoteVM, VulnGate, FiniteSetTheorems, TLAPS

Syncing == {"archive", "rmHost", "upload", "transfer", "dropHost", "cleanup"}
Fetching == {"clear", "get", "save", "drop"}

\* Which way the current command takes, and how far its script may be at each place
WayInv ==
  /\ cmds[0] = "none"
  /\ pc # "idle" => n # 0
  /\ pc = "wipe" => cmd \in {"create", "delete"}
  /\ pc = "launch" => cmd = "create"
  /\ pc = "await" => cmd \in {"prepare", "sync", "run", "run-integration"}
  /\ pc \in Syncing => cmd = "sync"
  /\ pc \in Fetching => cmd \in {"run", "run-integration"} /\ script[n] = "ok"
  /\ pc \in {"archive", "rmHost", "upload", "transfer"} => script[n] = "none"
  /\ pc \in {"dropHost", "cleanup"} /\ ~failing => script[n] = "ok"
  /\ pc = "idle" /\ cmd \in {"sync", "run-integration"} /\ result \in {"ok", "failed"} =>
       script[n] = "ok"
  /\ cmd = "sync" => script[n] \in {"none", "rm", "tar", "untar", "ok", "failed"}
  /\ cmd = "run-integration" => script[n] \in {"none", "open", "test", "echo", "ok", "failed"}

\* The temporary directory of a command that was not struck
TmpInv ==
  /\ pc = "await" /\ cmd = "sync" => n \in tmp
  /\ ~struck => tmp \subseteq {n}
  /\ ~struck /\ tmp # {} => pc \in Syncing \ {"archive"} \/ (pc = "await" /\ cmd = "sync")

\* Scripts belong to commands that were given, and without an overlap to the latest one.
ScriptInv ==
  /\ \A j \in Ids : j > n => script[j] = "none"
  /\ ~overlap => \A j \in Ids \ {n} : script[j] \notin Going

\* The archive of a sync, from the host to the worktree it becomes
SyncInv ==
  /\ pc = "transfer" => host.archive = [of |-> n, whole |-> TRUE]
  /\ ~overlap /\ cmd = "sync" =>
       /\ script[n] \in {"rm", "tar", "untar"} => vm.archive = [of |-> n, whole |-> TRUE]
       /\ script[n] = "tar" => vm.tree = {} /\ vm.dir = 0
       /\ script[n] = "untar" => vm.tree = {n} /\ vm.dir = n
       /\ script[n] = "ok" => vm.tree = {n} /\ vm.whole = n

\* The log and the coverage file of the tests, while they are run
TestInv ==
  ~overlap /\ cmd = "run-integration" =>
    /\ script[n] \in {"test", "echo"} => vm.dir # 0 /\ tests[n].cwd = vm.dir
    /\ script[n] \in {"test", "echo", "ok"} => vm.log.of = n
    /\ script[n] \in {"echo", "ok"} =>
         /\ tests[n].wrote => vm.cov = n
         /\ tests[n].passed => tests[n].wrote
    /\ script[n] = "ok" => vm.log.code = IF tests[n].passed THEN "0" ELSE "1"

\* The two files on their way to the artifacts
FetchInv ==
  /\ pc \in Syncing \cup {"await"} => file = "log"
  /\ ~overlap /\ cmd = "run-integration" =>
       /\ pc = "save" => host[file] = vm[file] /\ vm[file] # NoFile(file)
       /\ pc = "drop" /\ ~failing => local[file] = vm[file] /\ vm[file] # NoFile(file)
       /\ pc \in Fetching /\ file = "cov" => local.log = vm.log

IInv ==
  TypeOK /\ WayInv /\ TmpInv /\ ScriptInv /\ SyncInv /\ TestInv /\ FetchInv /\ VerdictIsEarned

-----------------------------------------------------------------------------
(* What a step of a script is about *)

\* Where a script may be after a step
NextStage(s, t) ==
  \/ s \in {"setup", "rm", "tar", "untar", "open"} /\ t = "failed"
  \/ <<s, t>> \in {<<"setup", "setup">>, <<"setup", "ok">>, <<"rm", "tar">>,
                   <<"tar", "untar">>, <<"tar", "failed">>, <<"untar", "ok">>, <<"untar", "failed">>,
                   <<"open", "failed">>, <<"open", "test">>, <<"test", "echo">>, <<"echo", "ok">>,
                   <<"echo", "failed">>}

\* A script that steps is going on, so the machine is up; it moves no other script and
\* nothing outside the machine.
LEMMA MachineSteps ==
  ASSUME TypeOK, NEW j \in Ids, Machine(j)
  PROVE  /\ script[j] \in Going /\ vm.up
         /\ UNCHANGED outside
         /\ \A k \in Ids \ {j} : script'[k] = script[k]
         /\ NextStage(script[j], script'[j])
<1>1. script[j] \in Going
  BY DEF Machine, ScriptFails, Replace, Setup, RmTree, Untar, Untarred, OpenLog, GoTest, Echo, Going
<1>2. vm.up
  BY <1>1 DEF TypeOK
<1>3. CASE Replace(j)
  BY <1>1, <1>2, <1>3 DEF Replace, NextStage
<1>4. CASE ~Replace(j)
  <2>1. UNCHANGED outside /\ \E s : ScriptGoes(j, s) /\ NextStage(script[j], s)
    BY <1>4, Zenon
    DEF Machine, ScriptFails, Setup, RmTree, Untar, Untarred, OpenLog, GoTest, Echo, NextStage
  <2> QED
    BY <1>1, <1>2, <2>1 DEF ScriptGoes, TypeOK
<1> QED
  BY <1>3, <1>4

\* A command that waits goes on with the outcome of its script.
LEMMA AwaitSteps ==
  ASSUME Await
  PROVE  /\ pc = "await" /\ script[n] \notin Going
         /\ UNCHANGED <<n, cmds, file, tmp, local, host, vm, script, tests, overlap, struck>>
         /\ \/ /\ cmd = "sync" /\ pc' = "dropHost" /\ result' = result
               /\ (script[n] = "ok" /\ failing' = failing) \/ failing' = TRUE
            \/ /\ cmd = "prepare" /\ pc' = "idle" /\ failing' = failing
               /\ result' = IF script[n] = "ok" THEN "ok" ELSE "err"
            \/ /\ cmd \notin {"sync", "prepare"} /\ script[n] = "ok"
               /\ pc' = "clear" /\ failing' = failing /\ result' = result
            \/ /\ cmd \notin {"sync", "prepare"} /\ pc' = "idle" /\ result' = "err"
               /\ failing' = failing
<1>1. CASE cmd = "sync"
  BY <1>1, Zenon DEF Await, After, Goto, FailTo
<1>2. CASE cmd = "prepare"
  BY <1>2, Zenon DEF Await, After, Exit
<1>3. CASE cmd \notin {"sync", "prepare"}
  BY <1>3, Zenon DEF Await, After, Exit, Goto
<1> QED
  BY <1>1, <1>2, <1>3

LEMMA StepWayInv == TypeOK /\ WayInv /\ ScriptInv /\ [Next]_vars => WayInv'
<1> SUFFICES ASSUME TypeOK, WayInv, ScriptInv, [Next]_vars PROVE WayInv'
  OBVIOUS
<1> USE DEF WayInv, cmd, Syncing, Fetching
<1>0. n \in Nat /\ (n # 0 => n \in Ids)
  BY DEF TypeOK, Names, Ids
<1>1. ASSUME NEW c \in Commands, Begin(c) PROVE WayInv'
  <2>1. n + 1 \in Ids /\ n + 1 > n /\ script[n + 1] = "none"
    BY <1>1, <1>0, RemoteAssumption DEF Begin, ScriptInv, Ids
  <2>2. cmds'[n + 1] = c /\ cmds'[0] = "none"
    BY <1>1, <1>0, <2>1, RemoteAssumption DEF Begin, TypeOK, Names, Ids
  <2> QED
    BY <1>1, <2>1, <2>2, RemoteAssumption DEF Begin, First, Exec, ScriptOf, TypeOK
<1>2. CASE Wipe
  BY <1>2, <1>0 DEF Wipe, Goto, Exit, TypeOK, Going
<1>3. CASE Launch
  BY <1>3 DEF Launch, Exit
<1>4. CASE Archive \/ RmHost \/ Upload
  BY <1>4 DEF Archive, RmHost, Upload, Goto, Exit, FailTo
<1>5. CASE Transfer
  BY <1>5, <1>0 DEF Transfer, TransferFailed, Goto, FailTo, Exec, ScriptOf, TypeOK
<1>6. CASE DropHost \/ Cleanup
  BY <1>6 DEF DropHost, Cleanup, Goto, Exit
<1>7. CASE Await
  BY <1>7, AwaitSteps, RemoteAssumption, <1>0 DEF TypeOK
<1>8. CASE Lost
  BY <1>8, <1>0 DEF Lost, Exit, FailTo
<1>9. CASE Clear \/ Get \/ Save
  BY <1>9 DEF Clear, Get, Save, GetFailed, SaveFailed, Goto, Exit, FailTo
<1>10. CASE Drop
  BY <1>10 DEF Drop, Exit
<1>11. CASE Kill
  BY <1>11 DEF Kill, Exit
<1>12. ASSUME NEW j \in Ids, Machine(j) PROVE WayInv'
  <2>1. /\ script[j] \in Going /\ \A k \in Ids \ {j} : script'[k] = script[k]
        /\ NextStage(script[j], script'[j])
        /\ UNCHANGED <<n, cmds, pc, failing, result>>
    BY <1>12, MachineSteps DEF outside, command
  <2>2. CASE j = n
    BY <2>1, <2>2 DEF NextStage, Going
  <2>3. CASE j # n
    <3>1. n # 0 => script'[n] = script[n]
      BY <2>1, <2>3, <1>0
    <3> QED
      BY <2>1, <3>1
  <2> QED
    BY <2>2, <2>3
<1>13. CASE UNCHANGED vars
  BY <1>13 DEF vars, command
<1> QED
  BY <1>1, <1>2, <1>3, <1>4, <1>5, <1>6, <1>7, <1>8, <1>9, <1>10, <1>11, <1>12, <1>13
  DEF Next, Command, AllDone

LEMMA StepTmpInv == TypeOK /\ WayInv /\ TmpInv /\ [Next]_vars => TmpInv'
<1> SUFFICES ASSUME TypeOK, WayInv, TmpInv, [Next]_vars PROVE TmpInv'
  OBVIOUS
<1> USE DEF TmpInv, WayInv, cmd, Syncing
<1>1. ASSUME NEW c \in Commands, Begin(c) PROVE TmpInv'
  <2>1. pc = "idle" /\ pc' = First(c) /\ tmp' = tmp /\ struck' = struck
    BY <1>1 DEF Begin
  <2>2. First(c) = "await" => cmds'[n'] # "sync"
    <3>1. cmds'[n'] = c
      BY <1>1, RemoteAssumption DEF Begin, TypeOK, Names
    <3> QED
      BY <3>1 DEF First
  <2> QED
    BY <2>1, <2>2 DEF TypeOK
<1>2. CASE Wipe
  BY <1>2 DEF Wipe, Goto, Exit
<1>3. CASE Launch
  BY <1>3 DEF Launch, Exit
<1>4. CASE Archive \/ RmHost \/ Upload
  BY <1>4 DEF Archive, RmHost, Upload, Goto, Exit, FailTo
<1>5. CASE Transfer
  BY <1>5 DEF Transfer, TransferFailed, Goto, FailTo, TypeOK
<1>6. CASE DropHost \/ Cleanup
  BY <1>6 DEF DropHost, Cleanup, Goto, Exit
<1>7. CASE Await
  BY <1>7, AwaitSteps
<1>8. CASE Lost
  BY <1>8 DEF Lost, Exit, FailTo
<1>9. CASE Clear \/ Get \/ Save \/ Drop
  BY <1>9 DEF Clear, Get, Save, Drop, GetFailed, SaveFailed, Goto, Exit, FailTo, Fetching
<1>10. CASE Kill
  BY <1>10 DEF Kill, Exit
<1>11. ASSUME NEW j \in Ids, Machine(j) PROVE TmpInv'
  BY <1>11, MachineSteps DEF outside, command
<1>12. CASE UNCHANGED vars
  BY <1>12 DEF vars, command
<1> QED
  BY <1>1, <1>2, <1>3, <1>4, <1>5, <1>6, <1>7, <1>8, <1>9, <1>10, <1>11, <1>12
  DEF Next, Command, AllDone

LEMMA StepScriptInv == TypeOK /\ WayInv /\ ScriptInv /\ [Next]_vars => ScriptInv'
<1> SUFFICES ASSUME TypeOK, WayInv, ScriptInv, [Next]_vars PROVE ScriptInv'
  OBVIOUS
<1> USE DEF ScriptInv
<1>0. n \in Nat /\ (n # 0 => n \in Ids) /\ \A j \in Ids : j \in Nat
  BY DEF TypeOK, Names, Ids
<1>1. ASSUME NEW c \in Commands, Begin(c) PROVE ScriptInv'
  <2>1. /\ pc = "idle" /\ n' = n + 1 /\ overlap' = (Orphans # {})
        /\ \A j \in Ids \ {n + 1} : script'[j] = script[j]
    BY <1>1 DEF Begin, Exec, TypeOK
  <2>2. ~overlap' => \A j \in Ids : script[j] \notin Going
    BY <2>1 DEF Orphans
  <2> QED
    BY <2>1, <2>2, <1>0
<1>2. CASE Wipe
  BY <1>2 DEF Wipe, Goto, Exit, Going, TypeOK
<1>3. CASE Transfer
  BY <1>3, <1>0 DEF Transfer, TransferFailed, Goto, FailTo, Exec, TypeOK, WayInv
<1>4. CASE Await
  BY <1>4, AwaitSteps
<1>5. ASSUME NEW j \in Ids, Machine(j) PROVE ScriptInv'
  <2>1. /\ script[j] \in Going /\ \A k \in Ids \ {j} : script'[k] = script[k]
        /\ UNCHANGED <<n, overlap>>
    BY <1>5, MachineSteps DEF outside, command
  <2> QED
    BY <2>1, <1>0 DEF Going
<1>6. CASE UNCHANGED <<n, script, overlap>>
  BY <1>6
<1> QED
  BY <1>1, <1>2, <1>3, <1>4, <1>5, <1>6
  DEF Next, Command, AllDone, vars, command, Launch, Archive, RmHost, Upload, DropHost, Cleanup,
      Lost, Clear, Get, Save, Drop, Kill, Goto, Exit, FailTo, GetFailed, SaveFailed

-----------------------------------------------------------------------------
(* Typing *)

VMs == [up : BOOLEAN, ready : BOOLEAN, tree : SUBSET Ids, whole : Names, dir : Names,
        archive : Archives, log : Logs, cov : Names]
Hosts == [archive : Archives, log : Logs, cov : Names]
Locals == [log : Logs, cov : Names]

LEMMA NoVMType == NoVM \in VMs
  BY RemoteAssumption DEF VMs, NoVM, Archives, Logs, NoLog, NoArchive, Names

LEMMA ArchiveTypes ==
  ASSUME NEW j \in Ids
  PROVE  /\ [of |-> j, whole |-> TRUE] \in Archives /\ [of |-> j, whole |-> FALSE] \in Archives
         /\ NoArchive \in Archives
  BY RemoteAssumption DEF Archives, Ids, Names, NoArchive

LEMMA SetArchive ==
  ASSUME NEW v \in VMs, NEW a \in Archives
  PROVE  [v EXCEPT !.archive = a] \in VMs
  BY DEF VMs

LEMMA SetFile ==
  ASSUME NEW h, NEW f \in {"log", "cov"}, NEW x, f = "log" => x \in Logs, f = "cov" => x \in Names
  PROVE  /\ h \in Hosts => [h EXCEPT ![f] = x] \in Hosts
         /\ h \in Locals => [h EXCEPT ![f] = x] \in Locals
  BY DEF Hosts, Locals

LEMMA FileTypes ==
  ASSUME NEW f \in {"log", "cov"}
  PROVE  /\ f = "log" => NoFile(f) \in Logs
         /\ f = "cov" => NoFile(f) \in Names
         /\ \A h \in VMs \cup Hosts : (f = "log" => h[f] \in Logs) /\ (f = "cov" => h[f] \in Names)
  BY RemoteAssumption DEF NoFile, NoLog, Logs, Names, VMs, Hosts

LEMMA InitTypeOK == Init => TypeOK
<1> SUFFICES ASSUME Init PROVE TypeOK
  OBVIOUS
<1>1. PICK up \in BOOLEAN, ready \in BOOLEAN :
        (ready => up) /\ vm = [NoVM EXCEPT !.up = up, !.ready = ready]
  BY DEF Init
<1>2. vm \in VMs /\ (~vm.up => vm = NoVM)
  BY <1>1, NoVMType DEF NoVM, VMs
<1>3. 0 \in Names /\ NoLog \in Logs /\ NoArchive \in Archives
  BY RemoteAssumption DEF Names, NoLog, Logs, NoArchive, Archives
<1> QED
  BY <1>2, <1>3 DEF Init, TypeOK, VMs, Going

\* What a script may do to the machine and to its own tests
LEMMA MachineTypes ==
  ASSUME TypeOK, NEW j \in Ids, Machine(j)
  PROVE  /\ vm' \in VMs /\ vm'.up
         /\ tests' \in [Ids -> [cwd : Names, passed : BOOLEAN, wrote : BOOLEAN]]
         /\ script' \in [Ids -> Going \cup {"none", "ok", "failed"}]
<1>0. vm \in VMs /\ vm.up
  BY MachineSteps DEF TypeOK, VMs
<1>1. script' \in [Ids -> Going \cup {"none", "ok", "failed"}]
  <2>1. script'[j] \in Going \cup {"none", "ok", "failed"}
    BY MachineSteps DEF NextStage, Going
  <2>2. script' = [script EXCEPT ![j] = script'[j]]
    BY DEF Machine, ScriptFails, Replace, Setup, RmTree, Untar, Untarred, OpenLog, GoTest, Echo,
           ScriptGoes, TypeOK
  <2> QED
    BY <2>1, <2>2 DEF TypeOK
<1>2. CASE ScriptFails(j)
  <2>1. 0 \in Names /\ NoLog \in Logs /\ vm.log \in Logs /\ vm.cov \in Names
    BY <1>0, RemoteAssumption DEF Names, NoLog, Logs, VMs
  <2>2. \/ vm' = vm
        \/ \E log \in {vm.log, NoLog}, cov \in {vm.cov, 0} :
             vm' = [vm EXCEPT !.whole = 0, !.log = log, !.cov = cov]
    BY <1>2 DEF ScriptFails
  <2>3. vm' \in VMs /\ vm'.up
    BY <1>0, <2>1, <2>2 DEF VMs
  <2> QED
    BY <1>1, <1>2, <2>3 DEF ScriptFails, TypeOK
<1>3. CASE Replace(j) \/ Setup(j)
  BY <1>0, <1>1, <1>3 DEF Replace, Setup, VMs, TypeOK
<1>4. CASE RmTree(j)
  <2>1. 0 \in Names /\ NoLog \in Logs
    BY RemoteAssumption DEF Names, NoLog, Logs
  <2> QED
    BY <1>0, <1>1, <1>4, <2>1 DEF RmTree, Emptied, VMs, TypeOK
<1>5. CASE Untar(j)
  <2>1. vm.archive.of \in Names /\ (vm.archive.of # 0 => vm.archive.of \in Ids)
    BY <1>0 DEF VMs, Archives, Names, Ids
  <2>2. 0 \in Names /\ j \in Names /\ vm.dir \in Names /\ vm.tree \in SUBSET Ids
    BY <1>0, RemoteAssumption DEF VMs, Names, Ids
  <2>3. ASSUME NEW t \in SUBSET Ids, NEW d \in Names
        PROVE  [vm EXCEPT !.tree = t, !.whole = 0, !.dir = d] \in VMs
    BY <1>0, <2>2 DEF VMs
  <2>4. vm' \in VMs
    <3>1. CASE vm.archive.of = 0
      BY <1>0, <1>5, <3>1 DEF Untar
    <3>2. CASE vm.archive.of # 0
      <4>1. vm.tree \cup {vm.archive.of} \in SUBSET Ids
        BY <2>1, <2>2, <3>2
      <4> QED
        BY <1>5, <2>2, <2>3, <3>2, <4>1 DEF Untar
    <3> QED
      BY <3>1, <3>2
  <2>5. vm'.up /\ tests' = tests
    BY <1>0, <1>5 DEF Untar, VMs
  <2> QED
    BY <1>1, <2>4, <2>5 DEF TypeOK
<1>6. CASE Untarred(j)
  <2>1. PICK v \in Names : vm' = [vm EXCEPT !.whole = v, !.archive = NoArchive]
    BY <1>6 DEF Untarred
  <2> QED
    BY <1>0, <1>1, <1>6, <2>1, ArchiveTypes DEF Untarred, VMs, TypeOK
<1>7. CASE OpenLog(j)
  <2>1. vm.dir \in Names /\ [of |-> j, code |-> "unknown"] \in Logs
    BY <1>0 DEF VMs, Logs, Ids, Names
  <2> QED
    BY <1>0, <1>1, <1>7, <2>1 DEF OpenLog, VMs, TypeOK
<1>8. CASE GoTest(j)
  <2>1. PICK ok \in BOOLEAN, wrote \in BOOLEAN :
          /\ tests' = [tests EXCEPT ![j].passed = ok, ![j].wrote = wrote]
          /\ vm' = [vm EXCEPT !.cov = IF wrote THEN j ELSE vm.cov]
    BY <1>8 DEF GoTest
  <2>2. tests' \in [Ids -> [cwd : Names, passed : BOOLEAN, wrote : BOOLEAN]]
    BY <2>1 DEF TypeOK
  <2>3. j \in Names /\ vm.cov \in Names
    BY <1>0 DEF VMs, Ids, Names
  <2> QED
    BY <1>0, <1>1, <2>1, <2>2, <2>3 DEF VMs
<1>9. CASE Echo(j)
  <2>1. ExitCode(j) \in {"0", "1"}
    BY DEF ExitCode
  <2> QED
    BY <1>0, <1>1, <1>9, <2>1 DEF Echo, VMs, TypeOK, Logs
<1> QED
  BY <1>2, <1>3, <1>4, <1>5, <1>6, <1>7, <1>8, <1>9 DEF Machine

\* TypeOK in four parts
Places == {"idle", "wipe", "launch", "await", "archive", "rmHost", "upload", "transfer",
           "dropHost", "cleanup", "clear", "get", "save", "drop"}
CommandOK ==
  /\ n \in Names /\ cmds \in [Names -> Commands \cup {"none"}]
  /\ pc \in Places /\ file \in {"log", "cov"} /\ failing \in BOOLEAN
  /\ result \in {"none", "ok", "failed", "err"}
  /\ overlap \in BOOLEAN /\ struck \in BOOLEAN
FilesOK == local \in Locals /\ host \in Hosts
MachineOK ==
  /\ vm \in VMs
  /\ script \in [Ids -> Going \cup {"none", "ok", "failed"}]
  /\ tests \in [Ids -> [cwd : Names, passed : BOOLEAN, wrote : BOOLEAN]]
  /\ ~vm.up => vm = NoVM /\ \A j \in Ids : script[j] \notin Going
TmpOK ==
  /\ tmp \subseteq Ids
  /\ pc \in {"rmHost", "upload", "transfer", "dropHost", "cleanup"} => n \in tmp
  /\ pc = "await" => script[n] # "none"
  /\ pc = "idle" /\ ~struck => tmp = {}

LEMMA TypeParts == TypeOK <=> CommandOK /\ FilesOK /\ MachineOK /\ TmpOK
  BY Zenon DEF TypeOK, CommandOK, Places, FilesOK, Locals, Hosts, MachineOK, VMs, TmpOK

LEMMA StepCommandOK == TypeOK /\ [Next]_vars => CommandOK'
<1> SUFFICES ASSUME TypeOK, CommandOK, [Next]_vars PROVE CommandOK'
  BY TypeParts
<1> USE DEF CommandOK, Places, Goto, Exit, FailTo
<1>1. ASSUME NEW c \in Commands, Begin(c) PROVE CommandOK'
  <2>1. n + 1 \in Names /\ First(c) \in {"wipe", "archive", "await"}
    BY <1>1, RemoteAssumption DEF Begin, Names, First
  <2>2. overlap' \in BOOLEAN
    BY <1>1, Zenon DEF Begin
  <2> QED
    BY <1>1, <2>1, <2>2 DEF Begin
<1>2. CASE Wipe \/ Launch \/ Archive \/ RmHost \/ Upload
  BY <1>2 DEF Wipe, Launch, Archive, RmHost, Upload
<1>3. CASE Transfer \/ DropHost \/ Cleanup \/ Lost \/ Kill
  BY <1>3 DEF Transfer, TransferFailed, DropHost, Cleanup, Lost, Kill
<1>4. CASE Await
  BY <1>4, AwaitSteps
<1>5. CASE Clear \/ Get \/ Save \/ Drop
  BY <1>5 DEF Clear, Get, GetFailed, Save, SaveFailed, Drop, Verdict
<1>6. ASSUME NEW j \in Ids, Machine(j) PROVE CommandOK'
  BY <1>6, MachineSteps DEF outside, command
<1>7. CASE UNCHANGED vars
  BY <1>7 DEF vars, command
<1> QED
  BY <1>1, <1>2, <1>3, <1>4, <1>5, <1>6, <1>7 DEF Next, Command, AllDone

LEMMA StepFilesOK == TypeOK /\ WayInv /\ [Next]_vars => FilesOK'
<1> SUFFICES ASSUME TypeOK, WayInv, [Next]_vars PROVE FilesOK'
  OBVIOUS
<1>0. /\ FilesOK /\ vm \in VMs /\ file \in {"log", "cov"}
      /\ pc # "idle" => n \in Ids
  BY TypeParts DEF CommandOK, MachineOK, WayInv, Names, Ids
<1>1. CASE RmHost \/ Upload \/ DropHost
  <2>1. PICK a \in Archives : host' = host \/ host' = [host EXCEPT !.archive = a]
    BY <1>0, <1>1, ArchiveTypes DEF RmHost, Upload, DropHost
  <2>2. local' = local
    BY <1>1 DEF RmHost, Upload, DropHost
  <2> QED
    BY <1>0, <2>1, <2>2 DEF FilesOK, Hosts
<1>2. CASE Clear \/ Get \/ Drop
  <2>1. host' = host \/ host' = [host EXCEPT ![file] = NoFile(file)] \/ host' = [host EXCEPT ![file] = vm[file]]
    BY <1>2 DEF Clear, Get, Drop
  <2>2. local' = local
    BY <1>2 DEF Clear, Get, Drop
  <2> QED
    BY <1>0, <2>1, <2>2, FileTypes, SetFile DEF FilesOK
<1>3. CASE Save
  <2>1. local' = local \/ local' = [local EXCEPT ![file] = NoFile(file)] \/ local' = [local EXCEPT ![file] = host[file]]
    BY <1>3 DEF Save, SaveFailed
  <2>2. host' = host
    BY <1>3 DEF Save
  <2> QED
    BY <1>0, <2>1, <2>2, FileTypes, SetFile DEF FilesOK
<1>4. CASE UNCHANGED <<local, host>>
  BY <1>0, <1>4 DEF FilesOK
<1> QED
  BY <1>1, <1>2, <1>3, <1>4, MachineSteps, AwaitSteps
  DEF Next, Command, AllDone, vars, Begin, Wipe, Launch, Archive, Transfer, Cleanup, Lost, Kill,
      outside

LEMMA StepMachineOK == TypeOK /\ WayInv /\ [Next]_vars => MachineOK'
<1> SUFFICES ASSUME TypeOK, MachineOK, WayInv, [Next]_vars PROVE MachineOK'
  BY TypeParts
<1>0. FilesOK /\ (n # 0 => n \in Ids)
  BY TypeParts DEF CommandOK, Names, Ids
<1>1. ASSUME NEW k \in Ids, NEW c, Exec(k, c) PROVE
        /\ script' \in [Ids -> Going \cup {"none", "ok", "failed"}]
        /\ ~vm.up => \A j \in Ids : script'[j] \notin Going
  <2>1. ScriptOf(c) \in Going
    BY DEF ScriptOf, Going
  <2> QED
    BY <1>1, <2>1 DEF Exec, MachineOK, Going
<1>2. ASSUME NEW c \in Commands, Begin(c) PROVE MachineOK'
  <2>1. n + 1 \in Ids
    BY <1>2, TypeParts, RemoteAssumption DEF Begin, CommandOK, Names, Ids
  <2>2. (Exec(n + 1, c) \/ UNCHANGED script) /\ UNCHANGED <<vm, tests>>
    BY <1>2 DEF Begin
  <2> QED
    BY <1>1, <2>1, <2>2 DEF MachineOK
<1>3. CASE Wipe
  <2>1. script' \in [Ids -> Going \cup {"none", "ok", "failed"}] /\ tests' = tests
    BY <1>3 DEF Wipe, MachineOK
  <2>2. \/ UNCHANGED <<vm, script>>
        \/ vm' = NoVM /\ \A j \in Ids : script'[j] \notin Going
    <3>1. "failed" \notin Going
      BY DEF Going
    <3> QED
      BY <1>3, <3>1 DEF Wipe
  <2> QED
    BY <2>1, <2>2, NoVMType DEF MachineOK
<1>4. CASE Launch
  <2>1. /\ vm' = vm \/ vm' = [vm EXCEPT !.up = TRUE]
        /\ UNCHANGED <<script, tests>>
    BY <1>4 DEF Launch
  <2> QED
    BY <2>1 DEF MachineOK, VMs
<1>5. CASE Transfer
  <2>1. /\ UNCHANGED tests
        /\ \/ vm' = vm /\ script' = script
           \/ /\ vm.up /\ (Exec(n, "sync") \/ script' = script)
              /\ \E a \in Archives : vm' = [vm EXCEPT !.archive = a]
    BY <1>0, <1>5, ArchiveTypes DEF Transfer, TransferFailed, FilesOK, Hosts, WayInv
  <2> QED
    BY <1>0, <1>1, <1>5, <2>1 DEF MachineOK, VMs, WayInv, Transfer
<1>6. ASSUME NEW j \in Ids, Machine(j) PROVE MachineOK'
  BY <1>6, MachineTypes DEF MachineOK
<1>7. CASE UNCHANGED <<vm, script, tests>>
  BY <1>7 DEF MachineOK
<1> QED
  BY <1>2, <1>3, <1>4, <1>5, <1>6, <1>7, AwaitSteps
  DEF Next, Command, AllDone, vars, Archive, RmHost, Upload, DropHost, Cleanup, Lost, Clear, Get,
      Save, Drop, Kill

LEMMA StepTmpOK == TypeOK /\ WayInv /\ TmpInv /\ [Next]_vars => TmpOK'
<1> SUFFICES ASSUME TypeOK, WayInv, TmpInv, [Next]_vars PROVE TmpOK'
  OBVIOUS
<1>0. /\ TmpOK /\ (pc # "idle" => n \in Ids)
      /\ ~struck /\ pc \in {"idle", "wipe", "launch", "archive"} \cup Fetching => tmp = {}
      /\ ~struck /\ pc = "await" /\ cmd # "sync" => tmp = {}
      /\ ~struck => tmp \subseteq {n}
      /\ pc = "await" /\ cmd = "sync" => n \in tmp
  BY TypeParts DEF CommandOK, Names, Ids, WayInv, TmpInv, Syncing, Fetching
<1> USE DEF Goto, Exit, FailTo
<1>1. ASSUME NEW c \in Commands, Begin(c) PROVE TmpOK'
  <2>1. n + 1 \in Ids /\ First(c) \in {"wipe", "archive", "await"}
    BY <1>1, TypeParts, RemoteAssumption DEF Begin, CommandOK, Names, Ids, First
  <2>2. First(c) = "await" => script'[n + 1] # "none"
    BY <1>1, <2>1 DEF Begin, Exec, ScriptOf, TypeOK
  <2> QED
    BY <1>0, <1>1, <2>1, <2>2 DEF Begin, TmpOK
<1>2. CASE Wipe \/ Launch \/ Archive
  BY <1>0, <1>2 DEF Wipe, Launch, Archive, TmpOK
<1>3. CASE RmHost \/ Upload
  BY <1>0, <1>3 DEF RmHost, Upload, TmpOK
<1>4. CASE Transfer
  <2>1. Exec(n, "sync") => script'[n] # "none"
    BY <1>0, <1>4 DEF Transfer, Exec, ScriptOf, TypeOK
  <2> QED
    BY <1>0, <1>4, <2>1 DEF Transfer, TransferFailed, TmpOK
<1>5. CASE DropHost \/ Cleanup
  BY <1>0, <1>5 DEF DropHost, Cleanup, TmpOK
<1>6. CASE Await
  BY <1>0, <1>6, AwaitSteps DEF TmpOK
<1>7. CASE Lost \/ Kill
  BY <1>0, <1>7 DEF Lost, Kill, TmpOK
<1>8. CASE Clear \/ Get \/ Save \/ Drop
  BY <1>0, <1>8 DEF Clear, Get, GetFailed, Save, SaveFailed, Drop, TmpOK, Fetching
<1>9. ASSUME NEW j \in Ids, Machine(j) PROVE TmpOK'
  <2>1. /\ NextStage(script[j], script'[j]) /\ \A k \in Ids \ {j} : script'[k] = script[k]
        /\ UNCHANGED <<n, pc, tmp, struck>>
    BY <1>9, MachineSteps DEF outside, command
  <2>2. script'[j] # "none"
    BY <2>1 DEF NextStage
  <2> QED
    BY <1>0, <2>1, <2>2 DEF TmpOK
<1>10. CASE UNCHANGED vars
  BY <1>0, <1>10 DEF TmpOK, vars, command
<1> QED
  BY <1>1, <1>2, <1>3, <1>4, <1>5, <1>6, <1>7, <1>8, <1>9, <1>10 DEF Next, Command, AllDone

LEMMA StepTypeOK == TypeOK /\ WayInv /\ TmpInv /\ [Next]_vars => TypeOK'
<1>1. TypeOK' <=> CommandOK' /\ FilesOK' /\ MachineOK' /\ TmpOK'
  BY TypeParts, PTL
<1> QED
  BY <1>1, StepCommandOK, StepFilesOK, StepMachineOK, StepTmpOK

-----------------------------------------------------------------------------
(* What a command leaves in the machine                                     *)

\* Without an overlap the script that steps is that of the latest command.
LEMMA OnlyLatest ==
  ASSUME TypeOK, ScriptInv, ~overlap, NEW j \in Ids, Machine(j)
  PROVE  j = n
  BY MachineSteps DEF ScriptInv

\* The rest of the commands leave machine and script alone.
Quiet ==
  \/ Archive \/ RmHost \/ Upload \/ DropHost \/ Cleanup \/ Await \/ Lost
  \/ Clear \/ Get \/ Save \/ Drop \/ Kill

LEMMA QuietSteps ==
  ASSUME Quiet
  PROVE  /\ UNCHANGED <<n, cmds, vm, script, tests, overlap>>
         /\ pc # "idle"
         /\ pc' = "transfer" => Upload
  BY AwaitSteps
  DEF Quiet, Archive, RmHost, Upload, DropHost, Cleanup, Lost, Clear, Get, GetFailed, Save,
      SaveFailed, Drop, Kill, Goto, Exit, FailTo

LEMMA StepSyncInv ==
  TypeOK /\ WayInv /\ ScriptInv /\ SyncInv /\ [Next]_vars => SyncInv'
<1> SUFFICES ASSUME TypeOK, WayInv, ScriptInv, SyncInv, [Next]_vars PROVE SyncInv'
  OBVIOUS
<1>0. n \in Nat /\ (n # 0 => n \in Ids) /\ vm \in VMs /\ host \in Hosts
  BY TypeParts DEF CommandOK, MachineOK, FilesOK, Names, Ids
<1> USE DEF SyncInv, cmd
<1>1. ASSUME NEW c \in Commands, Begin(c) PROVE SyncInv'
  <2>1. n' = n + 1 /\ cmds'[n'] = c /\ pc' = First(c)
    BY <1>1, RemoteAssumption DEF Begin, TypeOK, Names
  <2>2. pc' # "transfer" /\ (c = "sync" => script'[n'] = "none")
    BY <1>0, <1>1, <2>1, RemoteAssumption DEF Begin, First, ScriptInv, Ids
  <2> QED
    BY <2>1, <2>2
<1>2. CASE Wipe \/ Launch
  BY <1>2 DEF Wipe, Launch, Goto, Exit, WayInv
<1>3. CASE Transfer
  <2>1. /\ pc' # "transfer" /\ UNCHANGED <<n, cmds>>
        /\ \/ script' = script
           \/ vm'.archive = host.archive /\ script'[n] = "rm"
    BY <1>0, <1>3 DEF Transfer, TransferFailed, Goto, FailTo, Exec, ScriptOf, WayInv, TypeOK, VMs
  <2> QED
    BY <1>3, <2>1 DEF Transfer, WayInv
<1>4. CASE Quiet
  <2>1. pc' = "transfer" => host'.archive = [of |-> n, whole |-> TRUE]
    BY <1>0, <1>4, QuietSteps DEF Upload, Goto, FailTo, Hosts
  <2> QED
    BY <1>4, <2>1, QuietSteps
<1>5. ASSUME NEW j \in Ids, Machine(j) PROVE SyncInv'
  <2>1. UNCHANGED <<n, cmds, pc, host, overlap>>
    BY <1>5, MachineSteps DEF outside, command
  <2>2. ASSUME ~overlap, cmd = "sync" PROVE SyncInv'
    <3>1. j = n /\ script[n] \in {"rm", "tar", "untar"}
      BY <1>5, <2>2, OnlyLatest, MachineSteps DEF WayInv, Going
    <3>2. script'[n] \in {"tar", "untar", "ok", "failed"}
      BY <1>5, <3>1, MachineSteps DEF NextStage
    <3>3. CASE script'[n] = "failed"
      BY <2>1, <3>3
    <3>4. CASE RmTree(n)
      <4>1. vm'.archive = vm.archive /\ vm'.tree = {} /\ vm'.dir = 0
        BY <1>0, <3>4 DEF RmTree, Emptied, VMs
      <4>2. script[n] = "rm" /\ script'[n] = "tar"
        BY <3>1, <3>4 DEF RmTree, ScriptGoes, TypeOK
      <4> QED
        BY <2>1, <2>2, <4>1, <4>2
    <3>5. CASE Untar(n)
      <4>1. script[n] = "tar" /\ vm.archive = [of |-> n, whole |-> TRUE] /\ vm.tree = {} /\ vm.dir = 0
        BY <2>2, <3>5 DEF Untar
      <4>2. vm'.archive = vm.archive /\ vm'.tree = {n} /\ vm'.dir = n
        <5>1. vm.archive.of = n /\ n # 0
          BY <3>1, <4>1 DEF Ids
        <5>2. vm' = [vm EXCEPT !.tree = vm.tree \cup {n}, !.whole = 0, !.dir = j]
          BY <3>1, <3>5, <4>1, <5>1 DEF Untar
        <5> QED
          BY <1>0, <3>1, <4>1, <5>2 DEF VMs
      <4>3. script'[n] = "untar"
        BY <3>1, <3>5, <4>1 DEF Untar, ScriptGoes, TypeOK
      <4> QED
        BY <2>1, <2>2, <4>1, <4>2, <4>3
    <3>6. CASE Untarred(n)
      <4>1. script[n] = "untar" /\ vm.tree = {n} /\ vm.dir = n /\ Cardinality({n}) = 1
        BY <2>2, <3>6, FS_Singleton DEF Untarred
      <4>2. vm'.tree = {n} /\ vm'.whole = n
        BY <1>0, <3>6, <4>1 DEF Untarred, VMs
      <4>3. script'[n] = "ok"
        BY <3>1, <3>6, <4>1 DEF Untarred, ScriptGoes, TypeOK
      <4> QED
        BY <2>1, <2>2, <4>2, <4>3
    <3> QED
      BY <1>5, <3>1, <3>3, <3>4, <3>5, <3>6
      DEF Machine, ScriptFails, ScriptGoes, Replace, Setup, OpenLog, GoTest, Echo, TypeOK
  <2> QED
    BY <2>1, <2>2
<1>6. CASE UNCHANGED vars
  BY <1>6 DEF vars, command
<1> QED
  BY <1>1, <1>2, <1>3, <1>4, <1>5, <1>6 DEF Next, Command, Quiet, AllDone

\* Tests that pass have written their coverage file, and it is in place.
LEMMA GoTestWrites ==
  ASSUME TypeOK, NEW j \in Ids, GoTest(j)
  PROVE  /\ tests'[j].passed => tests'[j].wrote
         /\ tests'[j].wrote => vm'.cov = j
<1>1. PICK ok \in BOOLEAN, wrote \in BOOLEAN :
        /\ ok => wrote
        /\ tests' = [tests EXCEPT ![j].passed = ok, ![j].wrote = wrote]
        /\ vm' = [vm EXCEPT !.cov = IF wrote THEN j ELSE vm.cov]
  BY DEF GoTest
<1>2. j \in DOMAIN tests /\ DOMAIN tests[j] = {"cwd", "passed", "wrote"}
  BY DEF TypeOK
<1>3. tests'[j] = [tests[j] EXCEPT !.passed = ok, !.wrote = wrote]
  BY <1>1, <1>2
<1>4. tests'[j].passed = ok /\ tests'[j].wrote = wrote
  BY <1>2, <1>3, Zenon
<1>5. wrote => vm'.cov = j
  BY <1>1 DEF TypeOK
<1> QED
  BY <1>1, <1>4, <1>5, Zenon

LEMMA StepTestInv ==
  TypeOK /\ WayInv /\ ScriptInv /\ TestInv /\ [Next]_vars => TestInv'
<1> SUFFICES ASSUME TypeOK, WayInv, ScriptInv, TestInv, [Next]_vars PROVE TestInv'
  OBVIOUS
<1>0. n \in Nat /\ (n # 0 => n \in Ids) /\ vm \in VMs
  BY TypeParts DEF CommandOK, MachineOK, Names, Ids
<1> USE DEF TestInv, cmd
<1>1. ASSUME NEW c \in Commands, Begin(c) PROVE TestInv'
  <2>1. n' = n + 1 /\ n' \in Ids /\ cmds'[n'] = c
    BY <1>0, <1>1, RemoteAssumption DEF Begin, TypeOK, Names, Ids
  <2>2. c = "run-integration" => script'[n'] \in {"open", "failed"}
    BY <1>1, <2>1 DEF Begin, First, Exec, ScriptOf, TypeOK
  <2> QED
    BY <1>0, <2>1, <2>2
<1>2. CASE Wipe \/ Launch \/ Transfer
  <2>1. cmds'[n'] = cmds[n] /\ cmds[n] # "run-integration"
    BY <1>2 DEF Wipe, Launch, Transfer, TransferFailed, Goto, Exit, FailTo, WayInv, Syncing
  <2> QED
    BY <1>0, <2>1
<1>3. CASE Quiet
  BY <1>3, QuietSteps
<1>4. ASSUME NEW j \in Ids, Machine(j) PROVE TestInv'
  <2>1. UNCHANGED <<n, cmds, overlap>>
    BY <1>4, MachineSteps DEF outside, command
  <2>2. ASSUME ~overlap, cmd = "run-integration" PROVE TestInv'
    <3>1. j = n /\ script[n] \in {"open", "test", "echo"}
      BY <1>4, <2>2, OnlyLatest, MachineSteps DEF WayInv, Going
    <3>2. CASE script'[n] = "failed"
      BY <1>0, <2>1, <3>2
    <3>3. CASE OpenLog(n) /\ script'[n] # "failed"
      <4>1. /\ vm.dir # 0 /\ script'[n] = "test"
            /\ vm'.dir = vm.dir /\ vm'.log.of = n
        BY <1>0, <3>1, <3>3 DEF OpenLog, ScriptGoes, VMs, TypeOK
      <4>2. tests'[n].cwd = vm.dir
        BY <3>1, <3>3 DEF OpenLog, TypeOK
      <4> QED
        BY <1>0, <2>1, <4>1, <4>2
    <3>4. CASE GoTest(n)
      <4>1. /\ script[n] = "test" /\ script'[n] = "echo"
            /\ vm'.dir = vm.dir /\ vm'.log = vm.log
        BY <1>0, <3>1, <3>4 DEF GoTest, ScriptGoes, VMs, TypeOK
      <4>2. tests'[n].cwd = tests[n].cwd
        BY <3>1, <3>4 DEF GoTest, TypeOK
      <4>3. tests'[n].wrote => vm'.cov = n
        BY <1>0, <3>1, <3>4, GoTestWrites
      <4>4. tests'[n].passed => tests'[n].wrote
        BY <3>1, <3>4, GoTestWrites
      <4> QED
        BY <1>0, <2>1, <2>2, <4>1, <4>2, <4>3, <4>4
    <3>5. CASE Echo(n) /\ script'[n] # "failed"
      <4>1. /\ script[n] = "echo" /\ script'[n] = "ok" /\ tests' = tests
            /\ vm'.dir = vm.dir /\ vm'.log.of = vm.log.of
            /\ vm'.cov = vm.cov /\ vm'.log.code = ExitCode(n)
        BY <1>0, <3>1, <3>5 DEF Echo, ScriptGoes, VMs, Logs, TypeOK
      <4>2. ExitCode(n) = IF tests[n].passed THEN "0" ELSE "1"
        BY <2>2, Zenon DEF ExitCode
      <4> QED
        BY <1>0, <2>1, <2>2, <4>1, <4>2
    <3>6. ScriptFails(n) => script'[n] = "failed"
      BY <3>1 DEF ScriptFails, ScriptGoes, TypeOK
    <3>7. ~(Replace(n) \/ Setup(n) \/ RmTree(n) \/ Untar(n) \/ Untarred(n))
      BY <3>1 DEF Replace, Setup, RmTree, Untar, Untarred
    <3> QED
      BY <1>4, <3>1, <3>2, <3>3, <3>4, <3>5, <3>6, <3>7, Zenon DEF Machine
  <2> QED
    BY <1>0, <2>1, <2>2
<1>5. CASE UNCHANGED vars
  BY <1>5 DEF vars, command
<1> QED
  BY <1>1, <1>2, <1>3, <1>4, <1>5 DEF Next, Command, Quiet, AllDone

-----------------------------------------------------------------------------
(* What a command brings back                                               *)

LEMMA StepFetchInv ==
  TypeOK /\ WayInv /\ ScriptInv /\ FetchInv /\ [Next]_vars => FetchInv'
<1> SUFFICES ASSUME TypeOK, WayInv, ScriptInv, FetchInv, [Next]_vars PROVE FetchInv'
  OBVIOUS
<1>0. /\ vm \in VMs /\ host \in Hosts /\ local \in Locals /\ file \in {"log", "cov"}
      /\ pc \in Places /\ (pc = "transfer" => cmd = "sync")
  BY TypeParts DEF CommandOK, MachineOK, FilesOK, WayInv, Syncing
<1> USE DEF FetchInv, cmd, Fetching, Syncing
<1>1. ASSUME NEW c \in Commands, Begin(c) PROVE FetchInv'
  <2>1. pc' \notin Fetching /\ file' = "log"
    BY <1>1 DEF Begin, First
  <2> QED
    BY <2>1
<1>2. CASE Wipe \/ Launch \/ Archive \/ RmHost \/ Upload \/ DropHost \/ Cleanup \/ Lost \/ Kill
  <2>1. /\ pc' \notin Fetching \cup {"await"} /\ file' = file
        /\ pc' \in Syncing => pc \in Syncing \cup {"await"}
    BY <1>2
    DEF Wipe, Launch, Archive, RmHost, Upload, DropHost, Cleanup, Lost, Kill, Goto, Exit, FailTo
  <2> QED
    BY <2>1
<1>3. CASE Transfer
  <2>1. /\ pc' \notin Fetching /\ file' = file /\ pc = "transfer"
        /\ pc' = "await" => cmd' = "sync"
    BY <1>0, <1>3 DEF Transfer, TransferFailed, Goto, FailTo
  <2> QED
    BY <2>1
<1>4. CASE Await
  BY <1>4, AwaitSteps
<1>5. CASE Clear
  BY <1>5 DEF Clear, Goto, Exit
<1>6. CASE Get
  <2>1. UNCHANGED <<n, cmds, file, local, vm, overlap>> /\ pc = "get"
    BY <1>6 DEF Get, GetFailed, Goto, FailTo
  <2>2. \/ pc' = "save" /\ host' = [host EXCEPT ![file] = vm[file]] /\ vm[file] # NoFile(file)
        \/ pc' = "drop" /\ failing' = TRUE
    BY <1>6 DEF Get, GetFailed, Goto, FailTo
  <2>3. host' = [host EXCEPT ![file] = vm[file]] => host'[file] = vm[file]
    BY <1>0 DEF Hosts
  <2>4. NoFile(file)' = NoFile(file)
    BY <2>1 DEF NoFile
  <2> QED
    BY <2>1, <2>2, <2>3, <2>4
<1>7. CASE Save
  <2>1. UNCHANGED <<n, cmds, file, host, vm, overlap>> /\ pc = "save" /\ pc' = "drop"
    BY <1>7 DEF Save, SaveFailed, Goto, FailTo
  <2>2. /\ failing' = TRUE \/ local' = [local EXCEPT ![file] = host[file]]
        /\ \E x : local' = local \/ local' = [local EXCEPT ![file] = x]
    BY <1>7 DEF Save, SaveFailed, Goto, FailTo
  <2>3. /\ local' = [local EXCEPT ![file] = host[file]] => local'[file] = host[file]
        /\ file = "cov" => local'.log = local.log
    BY <1>0, <2>2 DEF Locals
  <2>4. NoFile(file)' = NoFile(file)
    BY <2>1 DEF NoFile
  <2> QED
    BY <2>1, <2>2, <2>3, <2>4
<1>8. CASE Drop
  <2>1. /\ UNCHANGED <<n, cmds, local, vm, overlap>> /\ pc = "drop"
        /\ \/ pc' = "idle"
           \/ ~failing /\ file = "log" /\ file' = "cov" /\ pc' = "clear"
    BY <1>8 DEF Drop, Exit
  <2>2. CASE pc' = "idle"
    BY <2>1, <2>2
  <2>3. CASE pc' = "clear" /\ ~failing /\ file = "log"
    <3>1. ~overlap /\ cmd = "run-integration" => local.log = vm.log
      BY <2>1, <2>3
    <3> QED
      BY <2>1, <2>3, <3>1
  <2> QED
    BY <2>1, <2>2, <2>3
<1>9. ASSUME NEW j \in Ids, Machine(j) PROVE FetchInv'
  <2>1. UNCHANGED <<n, cmds, pc, file, overlap>>
    BY <1>9, MachineSteps DEF outside, command
  <2>2. ~overlap => pc \notin Fetching
    BY <1>9, OnlyLatest, MachineSteps DEF WayInv, Going
  <2> QED
    BY <2>1, <2>2
<1>10. CASE UNCHANGED vars
  BY <1>10 DEF vars, command, NoFile
<1> QED
  BY <1>1, <1>2, <1>3, <1>4, <1>5, <1>6, <1>7, <1>8, <1>9, <1>10 DEF Next, Command, AllDone

LEMMA StepVerdict == IInv /\ [Next]_vars => VerdictIsEarned'
<1> SUFFICES ASSUME IInv, [Next]_vars, cmd' = "run-integration", ~overlap', pc' = "idle",
                    result' \in {"ok", "failed"}
             PROVE  /\ (result' = "ok") = tests'[n'].passed
                    /\ local'.log.of = n'
                    /\ local'.cov = n' \/ (result' = "failed" /\ ~tests'[n'].wrote)
  BY DEF VerdictIsEarned, Ended
<1> USE DEF cmd
<1>0. /\ TypeOK /\ WayInv /\ ScriptInv
      /\ (n # 0 => n \in Ids) /\ vm \in VMs /\ tests \in [Ids -> [cwd : Names, passed : BOOLEAN, wrote : BOOLEAN]]
  BY TypeParts DEF IInv, CommandOK, MachineOK, Names, Ids
<1>1. CASE Drop
  <2>1. /\ pc = "drop" /\ ~failing /\ file = "cov" /\ result' = Verdict
        /\ UNCHANGED <<n, cmds, local, vm, tests, script, overlap>>
    BY <1>1 DEF Drop, Exit
  <2>2. script[n] = "ok" /\ local.log = vm.log /\ local.cov = vm.cov /\ vm.cov # 0
    BY <2>1 DEF IInv, WayInv, FetchInv, Fetching, NoFile
  <2>3. /\ vm.log.of = n /\ (tests[n].wrote => vm.cov = n)
        /\ tests[n].passed => tests[n].wrote
        /\ vm.log.code = IF tests[n].passed THEN "0" ELSE "1"
    BY <2>1, <2>2 DEF IInv, TestInv
  <2>4. tests[n].passed \in BOOLEAN
    BY <1>0, <2>1 DEF WayInv
  <2>5. result' = IF tests[n].passed THEN "ok" ELSE "failed"
    BY <2>1, <2>2, <2>3 DEF Verdict
  <2>6. (result' = "ok") = tests[n].passed
    BY <2>4, <2>5
  <2>7. vm.cov = n \/ (result' = "failed" /\ ~tests[n].wrote)
    BY <2>3, <2>5
  <2> QED
    BY <2>1, <2>2, <2>3, <2>6, <2>7
<1>2. CASE pc = "idle" /\ UNCHANGED <<n, cmds, result, tests, local, overlap>>
  <2>1. VerdictIsEarned
    BY DEF IInv
  <2> QED
    BY <1>2, <2>1 DEF VerdictIsEarned, Ended
<1>3. ASSUME NEW j \in Ids, Machine(j) PROVE FALSE
  <2>1. UNCHANGED <<n, cmds, pc, result, overlap>> /\ script[j] \in Going
    BY <1>0, <1>3, MachineSteps DEF outside, command
  <2>2. j = n /\ script[n] = "ok"
    BY <1>0, <1>3, <2>1, OnlyLatest DEF WayInv
  <2> QED
    BY <2>1, <2>2 DEF Going
<1>4. ASSUME NEW c \in Commands, Begin(c) PROVE FALSE
  BY <1>4 DEF Begin, First
<1>5. ~Await
  BY <1>0, AwaitSteps
<1>6. ~(Wipe \/ Launch \/ Archive \/ RmHost \/ Upload \/ Transfer \/ DropHost \/ Cleanup)
  BY <1>0
  DEF Wipe, Launch, Archive, RmHost, Upload, Transfer, TransferFailed, DropHost, Cleanup, Goto,
      Exit, FailTo, WayInv, Syncing
<1>7. ~(Lost \/ Clear \/ Get \/ Save \/ Kill)
  BY <1>0 DEF Lost, Clear, Get, GetFailed, Save, SaveFailed, Kill, Goto, Exit, FailTo, WayInv
<1> QED
  BY <1>1, <1>2, <1>3, <1>4, <1>5, <1>6, <1>7 DEF Next, Command, AllDone, vars, command

LEMMA InitInv == Init => IInv
<1> SUFFICES ASSUME Init PROVE IInv
  OBVIOUS
<1>1. TypeOK
  BY InitTypeOK
<1>2. pc = "idle" /\ n = 0 /\ cmd = "none" /\ tmp = {} /\ \A j \in Ids : script[j] = "none"
  BY RemoteAssumption DEF Init, Names, cmd
<1>3. WayInv /\ TmpInv /\ ScriptInv
  BY <1>2 DEF Init, WayInv, TmpInv, ScriptInv, cmd, Syncing, Fetching, Going
<1>4. SyncInv /\ TestInv /\ FetchInv /\ VerdictIsEarned
  BY <1>2 DEF SyncInv, TestInv, FetchInv, VerdictIsEarned, Ended, Fetching, Syncing
<1> QED
  BY <1>1, <1>3, <1>4 DEF IInv

\* The invariant of the driver, its machine and their files (main.go:69-183, 360-440).
THEOREM RemoteInductive == Spec => []IInv
<1>1. IInv /\ [Next]_vars => IInv'
  BY StepTypeOK, StepWayInv, StepTmpInv, StepScriptInv, StepSyncInv, StepTestInv, StepFetchInv,
     StepVerdict DEF IInv
<1> QED
  BY InitInv, <1>1, PTL DEF Spec

\* The variables have their types; a sync has its archive while it works, a machine that
\* does not exist runs nothing, and no command leaves its temporary directory unless it was
\* killed or its closing removal failed (main.go:153, 164).
THEOREM RemoteTypeCorrect == Spec => []TypeOK
<1>1. IInv => TypeOK
  BY DEF IInv
<1> QED
  BY RemoteInductive, <1>1, PTL

\* Of any number of commands after one another, with connections that break, commands that
\* are killed and scripts that go on, run-integration reports what its own tests did, from
\* its own log, unless an earlier script was going on when it began; the coverage file is its
\* own too, unless it reports the failure of tests that wrote none (main.go:360-388).
THEOREM VerdictsAreEarned == Spec => []VerdictIsEarned
<1>1. IInv => VerdictIsEarned
  BY DEF IInv
<1> QED
  BY RemoteInductive, <1>1, PTL

\* A sync that reports success has its own worktree in the machine, whole and alone, unless
\* an earlier script was going on when it began (main.go:148-183).
THEOREM SyncsAreWhole == Spec => []SyncIsWhole
<1>1. IInv => SyncIsWhole
  BY DEF IInv, WayInv, SyncInv, SyncIsWhole, Ended, cmd
<1> QED
  BY RemoteInductive, <1>1, PTL

-----------------------------------------------------------------------------
(* The govulncheck gate, whatever the exceptions file and the stream        *)

InputInv == exceptions \in Seq(Exceptions) /\ messages \in Seq(Messages)

\* What has been decoded is well formed, and reachable holds the findings in it.
DecodeInv ==
  /\ count \in 0..Len(messages)
  /\ \A k \in 1..count : messages[k].kind # "malformed"
  /\ reachable = {messages[k].finding : k \in {k \in 1..count : messages[k].kind = "finding"}}

\* The findings whose ID has been evaluated
Done == {f \in reachable : f.id \notin todo}

UncoveredIn(F) == {f \in F : ~ \E i \in Positions : Excuses(i, f)}
UsedIn(F) == {i \in Positions : \E f \in F : Excuses(i, f)}
ExpiredIn(F) ==
  {i \in Positions : \E f \in F : Matches(exceptions[i], f) /\ ~Excuses(i, f)}

\* Nothing is noted before the end of the stream, and then of the findings whose ID is done
\* exactly what there is to note, in whatever order the IDs have come.
EvaluateInv ==
  /\ gate \in {"load", "decode"} => uncovered = {} /\ used = {} /\ expired = {}
  /\ gate \in {"evaluate", "report", "pass"} =>
       /\ count = Len(messages) /\ messages # <<>>
       /\ uncovered = UncoveredIn(Done) /\ used = UsedIn(Done) /\ expired = ExpiredIn(Done)
  /\ gate \in {"report", "pass"} => todo = {}
  /\ gate = "pass" => uncovered = {}

GateInv == InputInv /\ DecodeInv /\ EvaluateInv

\* A parent of a package is a non-empty, shorter run of its first elements.
LEMMA ParentIsPrefix ==
  ASSUME NEW s \in Seq(STRING), NEW t \in Seq(STRING), s # <<>>
  PROVE  IsStrictPrefix(s, t) <=> \E k \in 1..(Len(t) - 1) : s = SubSeq(t, 1, k)
<1>1. s = SubSeq(s, 1, Len(s)) /\ t = SubSeq(t, 1, Len(t))
  OBVIOUS
<1>2. Len(s) \in Nat /\ Len(t) \in Nat /\ Len(s) # 0
  OBVIOUS
<1>3. ASSUME IsStrictPrefix(s, t) PROVE \E k \in 1..(Len(t) - 1) : s = SubSeq(t, 1, k)
  <2>1. Len(s) <= Len(t) /\ s = SubSeq(t, 1, Len(s)) /\ s # t
    BY <1>1, <1>3 DEF IsStrictPrefix, IsPrefix
  <2>2. Len(s) # Len(t)
    BY <1>1, <2>1
  <2>3. Len(s) \in 1..(Len(t) - 1)
    BY <1>2, <2>1, <2>2
  <2> QED
    BY <2>1, <2>3
<1>4. ASSUME NEW k \in 1..(Len(t) - 1), s = SubSeq(t, 1, k) PROVE IsStrictPrefix(s, t)
  <2>1. Len(s) = k /\ k < Len(t)
    BY <1>2, <1>4
  <2>2. Len(s) <= Len(t) /\ s # t
    BY <1>2, <2>1
  <2>3. SubSeq(s, 1, Len(s)) = SubSeq(t, 1, Len(s))
    BY <1>1, <1>4, <2>1, Zenon
  <2> QED
    BY <2>2, <2>3 DEF IsStrictPrefix, IsPrefix
<1> QED
  BY <1>3, <1>4

\* The walk up the parents of a package and the exception's own words agree.
LEMMA ExcusesIsApproves ==
  ASSUME InputInv, NEW i \in DOMAIN exceptions, NEW f \in Findings
  PROVE  Excuses(i, f) <=> Approves(exceptions[i], f)
<1>1. exceptions[i].pkg \in Seq(STRING) /\ f.pkg \in Seq(STRING)
  <2>1. exceptions[i] \in Exceptions
    BY DEF InputInv
  <2> QED
    BY <2>1, GateAssumption DEF Exceptions, Findings
<1>2. exceptions[i].pkg # <<>> =>
        (IsStrictPrefix(exceptions[i].pkg, f.pkg) <=>
           \E k \in 1..(Len(f.pkg) - 1) : exceptions[i].pkg = SubSeq(f.pkg, 1, k))
  BY <1>1, ParentIsPrefix
<1> QED
  BY <1>2 DEF Excuses, Matches, PackageCovers, Approves

LEMMA FindingsAreTyped == InputInv /\ DecodeInv => reachable \subseteq Findings
  BY DEF InputInv, DecodeInv, Messages

LEMMA InitGate == GateInit => GateInv
<1> SUFFICES ASSUME GateInit PROVE GateInv
  OBVIOUS
<1>1. InputInv
  BY DEF GateInit, InputInv, BoundedSeq, SeqOf
<1> QED
  BY <1>1 DEF GateInit, GateInv, InputInv, DecodeInv, EvaluateInv

\* The notes are about the exceptions file alone, and those of two groups are put together.
LEMMA NotesKeep ==
  ASSUME UNCHANGED exceptions
  PROVE  /\ UncoveredIn(Done)' = UncoveredIn(Done')
         /\ UsedIn(Done)' = UsedIn(Done')
         /\ ExpiredIn(Done)' = ExpiredIn(Done')
  BY DEF UncoveredIn, UsedIn, ExpiredIn, Positions, Excuses, Matches

LEMMA NotesAdd ==
  ASSUME NEW F, NEW G
  PROVE  /\ UncoveredIn(F \cup G) = UncoveredIn(F) \cup UncoveredIn(G)
         /\ UsedIn(F \cup G) = UsedIn(F) \cup UsedIn(G)
         /\ ExpiredIn(F \cup G) = ExpiredIn(F) \cup ExpiredIn(G)
<1>1. UncoveredIn(F \cup G) = UncoveredIn(F) \cup UncoveredIn(G)
  BY DEF UncoveredIn
<1>2. UsedIn(F \cup G) = UsedIn(F) \cup UsedIn(G)
  BY DEF UsedIn
<1>3. ExpiredIn(F \cup G) = ExpiredIn(F) \cup ExpiredIn(G)
  BY DEF ExpiredIn
<1> QED
  BY <1>1, <1>2, <1>3

LEMMA StepDecode ==
  ASSUME GateInv, Decode
  PROVE  GateInv'
<1>1. /\ gate = "decode" /\ UNCHANGED <<exceptions, messages, uncovered, used, expired>>
      /\ uncovered = {} /\ used = {} /\ expired = {}
  BY DEF Decode, GateInv, EvaluateInv
<1>2. InputInv'
  BY <1>1 DEF GateInv, InputInv
<1>3. CASE count = Len(messages)
  <2>1. /\ UNCHANGED <<count, reachable>> /\ todo' = {f.id : f \in reachable}
        /\ gate' = IF count = 0 THEN "fail" ELSE "evaluate"
    BY <1>3 DEF Decode, EndOfInput
  <2>2. DecodeInv'
    BY <1>1, <2>1 DEF GateInv, DecodeInv
  <2>3. gate' = "evaluate" => messages # <<>>
    BY <1>3, <2>1 DEF GateInv, InputInv
  <2>4. Done' = {}
    BY <2>1 DEF Done
  <2>5. UncoveredIn({}) = {} /\ UsedIn({}) = {} /\ ExpiredIn({}) = {}
    BY DEF UncoveredIn, UsedIn, ExpiredIn
  <2>6. EvaluateInv'
    BY <1>1, <1>3, <2>1, <2>3, <2>4, <2>5, NotesKeep DEF EvaluateInv
  <2> QED
    BY <1>2, <2>2, <2>6 DEF GateInv
<1>4. CASE count # Len(messages) /\ messages[count + 1].kind = "malformed"
  <2>1. gate' = "fail" /\ UNCHANGED <<count, reachable>>
    BY <1>4 DEF Decode
  <2> QED
    BY <1>1, <1>2, <2>1 DEF GateInv, DecodeInv, EvaluateInv
<1>5. CASE count # Len(messages) /\ messages[count + 1].kind # "malformed"
  <2> DEFINE m == messages[count + 1]
  <2>1. /\ gate' = gate /\ count' = count + 1
        /\ reachable' = reachable \cup (IF m.kind = "finding" THEN {m.finding} ELSE {})
    BY <1>5 DEF Decode
  <2>2. count' \in 0..Len(messages) /\ 1..count' = 1..count \cup {count + 1}
    BY <1>5, <2>1 DEF GateInv, InputInv, DecodeInv
  <2>3. DecodeInv'
    BY <1>1, <1>5, <2>1, <2>2 DEF GateInv, DecodeInv
  <2> QED
    BY <1>1, <1>2, <2>1, <2>3 DEF GateInv, EvaluateInv
<1> QED
  BY <1>3, <1>4, <1>5

LEMMA StepEvaluate ==
  ASSUME GateInv, NEW id \in FindingIds, Evaluate(id)
  PROVE  GateInv'
<1> DEFINE group == {f \in reachable : f.id = id}
<1>1. /\ UNCHANGED <<exceptions, messages, gate, count, reachable>>
      /\ gate = "evaluate" /\ id \in todo /\ todo' = todo \ {id}
      /\ used' = used \cup UsedIn(group) /\ expired' = expired \cup ExpiredIn(group)
      /\ uncovered' = uncovered \cup UncoveredIn(group)
  BY DEF Evaluate, NowUsed, Positions, UsedIn, ExpiredIn, UncoveredIn
<1>2. Done' = Done \cup group
  BY <1>1 DEF Done
<1>3. /\ uncovered = UncoveredIn(Done) /\ used = UsedIn(Done) /\ expired = ExpiredIn(Done)
      /\ count = Len(messages) /\ messages # <<>>
  BY <1>1 DEF GateInv, EvaluateInv
<1> HIDE DEF group
<1>4. /\ uncovered' = UncoveredIn(Done') /\ used' = UsedIn(Done') /\ expired' = ExpiredIn(Done')
  BY <1>1, <1>2, <1>3, NotesAdd
<1>5. EvaluateInv'
  BY <1>1, <1>3, <1>4, NotesKeep DEF EvaluateInv
<1> QED
  BY <1>1, <1>5 DEF GateInv, InputInv, DecodeInv

LEMMA StepGate == GateInv /\ [GateNext]_gateVars => GateInv'
<1> SUFFICES ASSUME GateInv, [GateNext]_gateVars PROVE GateInv'
  OBVIOUS
<1>1. CASE Load \/ Evaluated \/ Report \/ UNCHANGED gateVars
  <2>1. UNCHANGED <<exceptions, messages, count, reachable, todo, uncovered, used, expired>>
    BY <1>1 DEF Load, Evaluated, Report, gateVars
  <2>2. \/ gate' \in {gate, "fail"}
        \/ gate = "load" /\ gate' = "decode"
        \/ gate = "evaluate" /\ todo = {} /\ gate' = "report"
        \/ gate = "report" /\ gate' = "pass" /\ uncovered = {}
    BY <1>1 DEF Load, Evaluated, Report, gateVars
  <2>3. InputInv' /\ DecodeInv'
    BY <2>1 DEF GateInv, InputInv, DecodeInv
  <2>4. Done' = Done
    BY <2>1 DEF Done
  <2>5. EvaluateInv'
    BY <2>1, <2>2, <2>4, NotesKeep DEF GateInv, EvaluateInv
  <2> QED
    BY <2>3, <2>5 DEF GateInv
<1> QED
  BY <1>1, StepDecode, StepEvaluate DEF GateNext, Exited

\* The invariant of the gate: its inputs, what it has decoded, what it has noted of that.
THEOREM GateInductive == GateSpec => []GateInv
  BY InitGate, StepGate, PTL DEF GateSpec

\* At the end of the stream, what is reachable is what the stream reports.
LEMMA AllDecoded ==
  GateInv /\ gate \in {"evaluate", "report", "pass"} => reachable = Reported
<1> SUFFICES ASSUME GateInv, gate \in {"evaluate", "report", "pass"}
             PROVE  reachable = Reported
  OBVIOUS
<1>1. DOMAIN messages = 1..count
  BY DEF GateInv, InputInv, EvaluateInv
<1> QED
  BY <1>1 DEF GateInv, DecodeInv, Reported

\* At the end the notes are exactly what the exceptions file and the stream call for.
LEMMA AllNoted ==
  ASSUME GateInv, gate \in {"report", "pass"}
  PROVE  /\ uncovered = {f \in Reported : ~Approved(f)}
         /\ used = {i \in Positions : \E f \in Reported : Approves(exceptions[i], f)}
<1>1. Done = Reported /\ Done \subseteq Findings
  BY AllDecoded, FindingsAreTyped DEF GateInv, EvaluateInv, Done
<1>2. \A i \in Positions : \A f \in Done : Excuses(i, f) <=> Approves(exceptions[i], f)
  BY <1>1, ExcusesIsApproves DEF GateInv, Positions
<1>3. uncovered = UncoveredIn(Done) /\ used = UsedIn(Done)
  BY DEF GateInv, EvaluateInv
<1>4. UncoveredIn(Done) = {f \in Done : ~Approved(f)}
  BY <1>2 DEF UncoveredIn, Approved, Positions
<1>5. UsedIn(Done) = {i \in Positions : \E f \in Done : Approves(exceptions[i], f)}
  BY <1>2 DEF UsedIn
<1> QED
  BY <1>1, <1>3, <1>4, <1>5

\* The gate passes only on a stream that is well formed to its end and whose every finding
\* an exception in force approves, for any files and in whatever order the IDs are
\* evaluated (main.go:96-104, 158-193).
THEOREM PassesAreApproved == GateSpec => []PassMeansApproved
<1>1. GateInv => PassMeansApproved
  <2> SUFFICES ASSUME GateInv, gate = "pass"
               PROVE  /\ messages # <<>>
                      /\ \A k \in DOMAIN messages : messages[k].kind # "malformed"
                      /\ \A f \in Reported : Approved(f)
    BY DEF PassMeansApproved
  <2>1. messages # <<>> /\ DOMAIN messages = 1..count /\ uncovered = {}
    BY DEF GateInv, InputInv, EvaluateInv
  <2> QED
    BY <2>1, AllNoted DEF GateInv, DecodeInv
<1> QED
  BY GateInductive, <1>1, PTL

\* An exception that the gate calls unneeded approves nothing that the stream reports
\* (main.go:160-178, 226-227).
THEOREM WarningsHold == GateSpec => []WarningsAreTrue
<1>1. GateInv => WarningsAreTrue
  BY AllNoted DEF WarningsAreTrue, Positions
<1> QED
  BY GateInductive, <1>1, PTL

\* What the gate complains of, warns of and decides is a function of its two inputs: the
\* order in which the map yields the IDs does not matter (main.go:158-193).
THEOREM OrderIsIrrelevant ==
  GateSpec => [](gate = "report" =>
    /\ uncovered = {f \in Reported : ~Approved(f)}
    /\ used = {i \in DOMAIN exceptions : \E f \in Reported : Approves(exceptions[i], f)}
    /\ expired = {i \in DOMAIN exceptions : \E f \in Reported :
                    Matches(exceptions[i], f) /\ exceptions[i].expires # "future"})
<1>1. GateInv /\ gate = "report" =>
        expired = {i \in DOMAIN exceptions : \E f \in Reported :
                     Matches(exceptions[i], f) /\ exceptions[i].expires # "future"}
  <2> SUFFICES ASSUME GateInv, gate = "report"
               PROVE  ExpiredIn(Reported) =
                        {i \in DOMAIN exceptions : \E f \in Reported :
                           Matches(exceptions[i], f) /\ exceptions[i].expires # "future"}
    BY AllDecoded DEF GateInv, EvaluateInv, Done
  <2> QED
    BY DEF ExpiredIn, Positions, Excuses
<1>2. GateInv /\ gate = "report" =>
        /\ uncovered = {f \in Reported : ~Approved(f)}
        /\ used = {i \in DOMAIN exceptions :
                     \E f \in Reported : Approves(exceptions[i], f)}
  BY AllNoted DEF Positions
<1> QED
  BY GateInductive, <1>1, <1>2, PTL

=============================================================================
