---------------------------- MODULE ExecutorFile ----------------------------
(***************************************************************************)
(* GenerateExecutor (executor.go:16-143): callers that install an executor *)
(* script under one path, through one temporary name next to it.  A step   *)
(* is one system call on the two names; the callers may be goroutines or   *)
(* processes, and a process may die between two system calls.              *)
(*                                                                         *)
(* A file is named by the caller that created it, so that a caller can go  *)
(* on writing into a file that another one has renamed meanwhile.  A script*)
(* is its length: two scripts differ in the path of the user script only,  *)
(* and what matters is which one covers the other.                         *)
(***************************************************************************)
EXTENDS Integers

CONSTANTS
  Callers,  \* the calls of GenerateExecutor
  Scripts,  \* the scripts they may install, as their lengths
  Faults,   \* "io": a system call fails; "crash": a process dies
  NoFile    \* no file under a name

VARIABLES
  final,    \* the file under executorPath
  tmp,      \* the file under tmpFilePath
  content,  \* per file, the script its bytes begin with and its length
  exec,     \* per file, whether it has the permissions of line 132
  pc,       \* where each call is
  script,   \* what it installs
  fd,       \* the file its os.Create returned
  raced,    \* history: a call has begun while another was running
  struck,   \* history: a call has died or met an error of the system
  broken    \* history: and it was between its rename and its chmod

disk == <<final, tmp, content, exec>>
history == <<raced, struck, broken>>
vars == <<disk, pc, script, fd, history>>

Ended == {"ok", "err", "dead"}
Running == {"write", "check", "compare", "removeTmp", "rename", "chmod", "open"}

Empty == [head |-> 0, len |-> 0]

\* A file that holds one complete script and nothing else
Whole(f) == content[f].head # 0 /\ content[f].head = content[f].len

\* The type invariant; the temporary name and the final one never name one file
\* (executor.go:126-127).
TypeOK ==
  /\ final \in Callers \cup {NoFile}
  /\ tmp \in Callers \cup {NoFile}
  /\ tmp = NoFile \/ tmp # final
  /\ content \in [Callers -> [head : Scripts \cup {0}, len : Scripts \cup {0}]]
  /\ exec \in [Callers -> BOOLEAN]
  /\ pc \in [Callers -> {"idle"} \cup Running \cup Ended]
  /\ script \in [Callers -> Scripts \cup {0}]
  /\ fd \in [Callers -> Callers \cup {NoFile}]
  /\ raced \in BOOLEAN /\ struck \in BOOLEAN /\ broken \in BOOLEAN

Init ==
  /\ final = NoFile /\ tmp = NoFile
  /\ content = [f \in Callers |-> Empty]
  /\ exec = [f \in Callers |-> FALSE]
  /\ pc = [c \in Callers |-> "idle"]
  /\ script = [c \in Callers |-> 0]
  /\ fd = [c \in Callers |-> NoFile]
  /\ raced = FALSE /\ struck = FALSE /\ broken = FALSE

Quiet == \A c \in Callers : pc[c] \notin Running

Goto(c, l) == pc' = [pc EXCEPT ![c] = l]

\* A system call of c fails, and GenerateExecutor returns its error.
Fails(c) ==
  /\ "io" \in Faults /\ struck' = TRUE
  /\ Goto(c, "err")
  /\ UNCHANGED disk

-----------------------------------------------------------------------------

\* MUTANT of Truncated: os.Create without O_TRUNC.
TruncatedNot(f) == content[f]

Truncated(f) == Empty

\* os.Create(tmpFilePath), after the directory has been made: a new file, or
\* the one already under that name, truncated
Begin(c) ==
  /\ pc[c] = "idle"
  /\ raced' = (raced \/ ~Quiet)
  /\ \E s \in Scripts : script' = [script EXCEPT ![c] = s]
  /\ \/ /\ tmp' = IF tmp = NoFile THEN c ELSE tmp
        /\ fd' = [fd EXCEPT ![c] = tmp']
        /\ content' = [content EXCEPT ![tmp'] = Truncated(tmp')]
        /\ Goto(c, "write")
        /\ UNCHANGED <<final, exec, struck>>
     \/ Fails(c) /\ UNCHANGED fd
  /\ UNCHANGED broken

\* Writing s over a file from its start leaves the tail of what was longer.
Covered(f, s) == IF content[f].len < s THEN s ELSE content[f].len

Written(f, s) == [head |-> s, len |-> Covered(f, s)]

\* WriteString, Sync and Close; a write that fails may have been cut short,
\* and the temporary file stays.
Write(c) ==
  /\ pc[c] = "write"
  /\ \/ /\ content' = [content EXCEPT ![fd[c]] = Written(fd[c], script[c])]
        /\ Goto(c, "check")
        /\ UNCHANGED <<final, tmp, exec, struck>>
     \/ /\ "io" \in Faults /\ struck' = TRUE
        /\ content' = [content EXCEPT ![fd[c]] = [head |-> 0, len |-> Covered(fd[c], script[c])]]
        /\ Goto(c, "err")
        /\ UNCHANGED <<final, tmp, exec>>
     \/ Fails(c)
  /\ UNCHANGED <<script, fd, raced, broken>>

CheckFinal(c) ==
  /\ pc[c] = "check"
  /\ \/ Goto(c, IF final = NoFile THEN "rename" ELSE "compare") /\ UNCHANGED <<disk, struck>>
     \/ Fails(c)
  /\ UNCHANGED <<script, fd, raced, broken>>

\* What compareFiles may answer: files that mix scripts may agree or not.
Same(f, g) ==
  IF content[f] # content[g] THEN {FALSE}
  ELSE {TRUE} \cup (IF Whole(f) THEN {} ELSE {FALSE})

Compare(c) ==
  /\ pc[c] = "compare"
  /\ \/ /\ tmp # NoFile
        /\ \E same \in Same(final, tmp) : Goto(c, IF same THEN "removeTmp" ELSE "rename")
        /\ UNCHANGED <<disk, struck>>
     \/ tmp = NoFile /\ Goto(c, "err") /\ UNCHANGED <<disk, struck>>
     \/ Fails(c)
  /\ UNCHANGED <<script, fd, raced, broken>>

\* An error of the removal is only logged; no file is returned.
RemoveTmp(c) ==
  /\ pc[c] = "removeTmp"
  /\ \/ tmp' = NoFile /\ UNCHANGED struck
     \/ "io" \in Faults /\ struck' = TRUE /\ UNCHANGED tmp
  /\ Goto(c, "ok")
  /\ UNCHANGED <<final, content, exec, script, fd, raced, broken>>

\* MUTANT of Renamed: the rename keeps a file that is already there.
RenamedOnce == IF final = NoFile THEN tmp ELSE final

Renamed == tmp

\* MUTANT of Rename: a link, which leaves the temporary name in place.
RenameByLink(c) ==
  /\ pc[c] = "rename" /\ tmp # NoFile
  /\ final' = tmp
  /\ Goto(c, "chmod")
  /\ UNCHANGED <<tmp, content, exec, script, fd, history>>

Rename(c) ==
  /\ pc[c] = "rename"
  /\ \/ /\ tmp # NoFile
        /\ final' = Renamed /\ tmp' = NoFile
        /\ Goto(c, "chmod")
        /\ UNCHANGED <<content, exec, struck>>
     \/ tmp = NoFile /\ Goto(c, "err") /\ UNCHANGED <<disk, struck>>
     \/ Fails(c)
  /\ UNCHANGED <<script, fd, raced, broken>>

\* MUTANT of Chmodded: the permissions go to the file the caller created.
ChmoddedFd(c) == fd[c]

\* os.Chmod goes by name: it changes whatever file is under executorPath.
Chmodded(c) == final

Chmod(c) ==
  /\ pc[c] = "chmod"
  /\ \/ /\ exec' = [exec EXCEPT ![Chmodded(c)] = TRUE]
        /\ Goto(c, "open")
        /\ UNCHANGED <<final, tmp, content, struck, broken>>
     \/ Fails(c) /\ broken' = TRUE
  /\ UNCHANGED <<script, fd, raced>>

Open(c) ==
  /\ pc[c] = "open"
  /\ \/ Goto(c, "ok") /\ UNCHANGED <<disk, struck>>
     \/ Fails(c)
  /\ UNCHANGED <<script, fd, raced, broken>>

\* The process of a call dies.
Crash(c) ==
  /\ "crash" \in Faults
  /\ pc[c] \in Running
  /\ Goto(c, "dead")
  /\ struck' = TRUE
  /\ broken' = (broken \/ pc[c] = "chmod")
  /\ UNCHANGED <<disk, script, fd, raced>>

-----------------------------------------------------------------------------

Step(c) ==
  \/ Begin(c) \/ Write(c) \/ CheckFinal(c) \/ Compare(c) \/ RemoveTmp(c)
  \/ Rename(c) \/ Chmod(c) \/ Open(c) \/ Crash(c)

Next == \E c \in Callers : Step(c)

Spec == Init /\ [][Next]_vars

-----------------------------------------------------------------------------
(* Properties *)

\* As long as calls come one at a time, wherever they die or fail: what is under
\* executorPath is a complete script of some call; neither a temporary file left
\* behind nor a write cut short ever gets there (executor.go:28-32, 126-127).
InstalledIsWhole ==
  ~raced /\ final # NoFile => Whole(final)

\* As long as calls come one at a time: one that returns without an error has left
\* its script under executorPath, executable unless an earlier call ended between
\* its rename and its chmod; finding an equal file it does not set the permissions
\* again (executor.go:113-134).
OkInstallsMyScript ==
  [][\A c \in Callers :
       ~raced /\ pc[c] # "ok" /\ pc'[c] = "ok" =>
         /\ final' # NoFile
         /\ content'[final'] = [head |-> script[c], len |-> script[c]]
         /\ exec'[final'] \/ broken]_vars

\* Calls that race on one temporary name, none of which dies or meets an error
\* of the system: when all have ended some call has succeeded, the installed file is
\* executable although each caller's chmod goes by name, and it is whole if all had one
\* and the same script to install, although one may have renamed the file another was
\* about to write (executor.go:32-134).
RacersSucceed ==
  LET racers == {c \in Callers : pc[c] \in Ended} IN
  ~struck /\ Quiet /\ racers # {} =>
    /\ \E c \in racers : pc[c] = "ok"
    /\ final # NoFile /\ exec[final]
    /\ (\A c, k \in racers : script[c] = script[k]) => Whole(final)

=============================================================================
