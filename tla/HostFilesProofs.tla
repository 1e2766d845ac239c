-------------------------- MODULE HostFilesProofs --------------------------
(***************************************************************************)
(* Theorems about HostFiles for any number of calls, any scripts and any   *)
(* faults.  The three components share no variable, so that the invariant  *)
(* of each is shown for its own steps and carried over those of the others.*)
(***************************************************************************)
EXTENDS HostFiles, Sequences, TLAPS

\* A call of ProcessScript is past its check only with a script that bash accepts in
\* its own file, and the file under user_script.sh was created by such a call.
CheckedInv ==
  /\ \A c \in Callers : pcUser[c] = "rename" => body[c] \in Parsing
  /\ sh # NoFile => body[sh] \in Parsing /\ pcUser[sh] \notin {"idle", "txt", "createTemp", "write"}

\* As long as calls come one at a time, only one of them is running, and the text, its
\* own file and the name user_script.sh are as far as that call has come.
SoleUserInv ==
  ~racedUser => \A c, k \in Callers :
    pcUser[c] \in User!Running /\ pcUser[k] \in User!Running => c = k

TextInv ==
  ~racedUser => \A c \in Callers :
    /\ pcUser[c] = "txt" => txt = [head |-> 0, len |-> 0]
    /\ pcUser[c] \in {"createTemp", "write", "parse", "rename", "chmod"} =>
         txt = [head |-> text[c], len |-> text[c]]
    /\ pcUser[c] \in {"parse", "rename", "chmod"} => body[c] = text[c]
    /\ pcUser[c] = "chmod" => sh = c

UserInv == User!TypeOK /\ CheckedInv /\ SoleUserInv /\ TextInv

-----------------------------------------------------------------------------
(* ProcessScript *)

LEMMA UserInit == User!Init => UserInv
<1> SUFFICES ASSUME User!Init PROVE UserInv
  OBVIOUS
<1> USE HostFilesAssumption DEF User!Init, User!Running, User!Temporary, User!Ended
<1>1. User!TypeOK
  <2>1. txt \in [head : Scripts \cup {0}, len : Scripts \cup {0}]
    OBVIOUS
  <2> QED
    BY <2>1 DEF User!TypeOK
<1>2. CheckedInv /\ SoleUserInv /\ TextInv
  BY DEF CheckedInv, SoleUserInv, TextInv
<1> QED
  BY <1>1, <1>2 DEF UserInv

LEMMA UserStep ==
  ASSUME UserInv, NEW c \in Callers, User!Step(c)
  PROVE  UserInv'
<1> USE HostFilesAssumption
    DEF UserInv, User!Running, User!Temporary, User!Ended, User!Goto, User!Fails, User!disk
<1>1. CASE User!Begin(c)
  <2> USE <1>1 DEF User!Begin, User!Opened
  <2>1. User!TypeOK' /\ CheckedInv'
    BY DEF User!TypeOK, CheckedInv
  <2>2. pcUser \in [Callers -> {"idle"} \cup User!Running \cup User!Ended] /\ racedUser \in BOOLEAN
    BY DEF User!TypeOK
  <2>3. ~racedUser' => \A k \in Callers \ {c} : pcUser'[k] \notin User!Running
    BY <2>2 DEF User!Quiet
  <2>4. pcUser'[c] = "err" \/ (pcUser'[c] = "txt" /\ txt' = [head |-> 0, len |-> 0])
    BY <2>2
  <2>5. SoleUserInv'
    BY <2>3 DEF SoleUserInv
  <2>6. TextInv'
    BY <2>3, <2>4 DEF TextInv
  <2> QED
    BY <2>1, <2>5, <2>6
<1>2. CASE User!WriteText(c)
  <2> USE <1>2 DEF User!WriteText
  <2>1. User!TypeOK' /\ CheckedInv'
    BY DEF User!TypeOK, CheckedInv
  <2>2. SoleUserInv'
    BY DEF User!TypeOK, SoleUserInv
  <2>3. TextInv'
    BY DEF User!TypeOK, SoleUserInv, TextInv
  <2> QED
    BY <2>1, <2>2, <2>3
<1>3. CASE User!CreateTemp(c)
  <2> USE <1>3 DEF User!CreateTemp
  <2>1. User!TypeOK' /\ CheckedInv'
    BY DEF User!TypeOK, CheckedInv
  <2>2. SoleUserInv'
    BY DEF User!TypeOK, SoleUserInv
  <2>3. TextInv'
    BY DEF User!TypeOK, SoleUserInv, TextInv
  <2> QED
    BY <2>1, <2>2, <2>3
<1>4. CASE User!WriteTemp(c)
  <2> USE <1>4 DEF User!WriteTemp
  <2>1. User!TypeOK' /\ CheckedInv'
    BY DEF User!TypeOK, CheckedInv
  <2>2. SoleUserInv'
    BY DEF User!TypeOK, SoleUserInv
  <2>3. TextInv'
    BY DEF User!TypeOK, SoleUserInv, TextInv
  <2> QED
    BY <2>1, <2>2, <2>3
<1>5. CASE User!Parse(c)
  <2> USE <1>5 DEF User!Parse, User!Checked
  <2>1. User!TypeOK' /\ CheckedInv'
    BY DEF User!TypeOK, CheckedInv
  <2>2. SoleUserInv'
    BY DEF User!TypeOK, SoleUserInv
  <2>3. TextInv'
    BY DEF User!TypeOK, SoleUserInv, TextInv
  <2> QED
    BY <2>1, <2>2, <2>3
<1>6. CASE User!Rename(c)
  <2> USE <1>6 DEF User!Rename
  <2>1. User!TypeOK' /\ CheckedInv'
    BY DEF User!TypeOK, CheckedInv
  <2>2. SoleUserInv'
    BY DEF User!TypeOK, SoleUserInv
  <2>3. TextInv'
    BY DEF User!TypeOK, SoleUserInv, TextInv
  <2> QED
    BY <2>1, <2>2, <2>3
<1>7. CASE User!Chmod(c)
  <2> USE <1>7 DEF User!Chmod
  <2>1. User!TypeOK' /\ CheckedInv'
    BY DEF User!TypeOK, CheckedInv
  <2>2. SoleUserInv'
    BY DEF User!TypeOK, SoleUserInv
  <2>3. TextInv'
    BY DEF User!TypeOK, SoleUserInv, TextInv
  <2> QED
    BY <2>1, <2>2, <2>3
<1>8. CASE User!RemoveTemp(c)
  <2> USE <1>8 DEF User!RemoveTemp
  <2>1. User!TypeOK' /\ CheckedInv'
    BY DEF User!TypeOK, CheckedInv
  <2>2. SoleUserInv'
    BY DEF User!TypeOK, SoleUserInv
  <2>3. TextInv'
    BY DEF User!TypeOK, SoleUserInv, TextInv
  <2> QED
    BY <2>1, <2>2, <2>3
<1>9. CASE User!Crash(c)
  <2> USE <1>9 DEF User!Crash
  <2>1. User!TypeOK' /\ CheckedInv'
    BY DEF User!TypeOK, CheckedInv
  <2>2. SoleUserInv'
    BY DEF User!TypeOK, SoleUserInv
  <2>3. TextInv'
    BY DEF User!TypeOK, SoleUserInv, TextInv
  <2> QED
    BY <2>1, <2>2, <2>3
<1> QED
  BY <1>1, <1>2, <1>3, <1>4, <1>5, <1>6, <1>7, <1>8, <1>9 DEF User!Step

LEMMA UserKept == UserInv /\ UNCHANGED user => UserInv'
  BY DEF UserInv, CheckedInv, SoleUserInv, TextInv, User!TypeOK, user

-----------------------------------------------------------------------------
(* GenerateExecutor *)

\* A file that has a name was created by a call that has begun.
NamedInv == \A f \in {final, tmp} : f # NoFile => pc[f] # "idle"

\* As long as calls come one at a time, only one of them is running.
SoleInv ==
  ~raced => \A c, k \in Callers :
    pc[c] \in Executor!Running /\ pc[k] \in Executor!Running => c = k

Mine(f, c) == content[f] = [head |-> script[c], len |-> script[c]]

\* As long as calls come one at a time, the temporary file is the one that the running
\* call has open; it is empty until the write and that call's script from then on.
TmpInv ==
  ~raced => \A c \in Callers :
    /\ pc[c] \in Executor!Running => script[c] \in Scripts
    /\ pc[c] \in {"write", "check", "compare", "removeTmp", "rename"} =>
         tmp # NoFile /\ fd[c] = tmp
    /\ pc[c] = "write" => content[tmp] = Executor!Empty
    /\ pc[c] \in {"check", "compare", "removeTmp", "rename"} => Mine(tmp, c)

\* As long as calls come one at a time, the installed file is the running call's once it
\* is renamed or found equal, and it is executable but between a rename and its chmod.
FinalInv ==
  ~raced =>
    /\ \A c \in Callers :
         /\ pc[c] \in {"compare", "removeTmp", "chmod", "open"} => final # NoFile
         /\ pc[c] \in {"removeTmp", "chmod", "open"} => Mine(final, c)
    /\ final # NoFile => exec[final] \/ broken \/ \E c \in Callers : pc[c] = "chmod"

ExecutorInv ==
  Executor!TypeOK /\ NamedInv /\ SoleInv /\ TmpInv /\ FinalInv /\ Executor!InstalledIsWhole

LEMMA ExecutorInit == Executor!Init => ExecutorInv
<1> SUFFICES ASSUME Executor!Init PROVE ExecutorInv
  OBVIOUS
<1> USE HostFilesAssumption DEF Executor!Init, Executor!Running, Executor!Ended, Executor!Empty
<1>1. Executor!TypeOK
  <2>1. content \in [Callers -> [head : Scripts \cup {0}, len : Scripts \cup {0}]]
    OBVIOUS
  <2> QED
    BY <2>1 DEF Executor!TypeOK
<1>2. NamedInv /\ SoleInv /\ TmpInv /\ FinalInv /\ Executor!InstalledIsWhole
  BY DEF NamedInv, SoleInv, TmpInv, FinalInv, Executor!InstalledIsWhole
<1> QED
  BY <1>1, <1>2 DEF ExecutorInv

LEMMA ExecutorStep ==
  ASSUME ExecutorInv, NEW c \in Callers, Executor!Step(c)
  PROVE  ExecutorInv'
<1> USE HostFilesAssumption
    DEF ExecutorInv, Executor!Ended, Executor!Empty, Executor!Goto, Executor!Fails, Executor!disk
<1> DEFINE Labels == {"idle"} \cup Executor!Running \cup {"ok", "err", "dead"}
           File == [head : Scripts \cup {0}, len : Scripts \cup {0}]
<1>1. /\ pc \in [Callers -> Labels] /\ fd \in [Callers -> Callers \cup {NoFile}]
      /\ script \in [Callers -> Scripts \cup {0}] /\ content \in [Callers -> File]
      /\ final \in Callers \cup {NoFile} /\ tmp \in Callers \cup {NoFile}
      /\ tmp = NoFile \/ tmp # final
  BY DEF Executor!TypeOK
<1>2. exec \in [Callers -> BOOLEAN]
  BY DEF Executor!TypeOK
<1>3. CASE Executor!Begin(c)
  <2> USE <1>3 DEF Executor!Begin, Executor!Truncated
  <2>1. Executor!TypeOK'
    <3>1. Executor!Empty \in File
      OBVIOUS
    <3>2. content' \in [Callers -> File]
      BY <1>1, <3>1
    <3>3. tmp' \in Callers \cup {NoFile} /\ (tmp' = NoFile \/ tmp' # final')
      BY <1>1 DEF NamedInv
    <3>4. fd' \in [Callers -> Callers \cup {NoFile}] /\ script' \in [Callers -> Scripts \cup {0}]
      BY <1>1, <3>3
    <3>5. pc' \in [Callers -> Labels]
      BY <1>1 DEF Executor!Running
    <3> QED
      BY <3>2, <3>4, <3>5, <3>3 DEF Executor!TypeOK
  <2>2. NamedInv'
    BY <1>1 DEF NamedInv
  <2>3. SoleInv'
    BY <1>1 DEF SoleInv, Executor!Running, Executor!Quiet
  <2>4. raced' \/ \A k \in Callers : pc'[k] \in Executor!Running => k = c
    BY <1>1 DEF Executor!Quiet
  <2>5. (pc'[c] = "write" /\ raced' \in BOOLEAN) \/ pc'[c] = "err"
    BY <1>1
  <2>6. pc'[c] = "write" =>
          /\ tmp' \in Callers /\ tmp' # final' /\ fd'[c] = tmp'
          /\ content'[tmp'] = Executor!Empty /\ script'[c] \in Scripts
          /\ final' # NoFile => content'[final'] = content[final]
    BY <1>1 DEF NamedInv
  <2>7. TmpInv'
    BY <2>4, <2>5, <2>6 DEF TmpInv, Mine, Executor!Running
  <2>8. final' = final /\ (pc'[c] = "err" => content' = content) /\ (raced => raced')
    BY <1>1
  <2>9. /\ exec' = exec /\ broken' = broken /\ (~raced' => Executor!Quiet /\ ~raced)
         /\ \A k \in Callers \ {c} : pc'[k] = pc[k]
    BY <1>1
  <2>10. ~raced' /\ final # NoFile => exec[final] \/ broken
    BY <2>9 DEF FinalInv, Executor!Quiet, Executor!Running
  <2>11. FinalInv'
    BY <2>4, <2>5, <2>8, <2>9, <2>10 DEF FinalInv, Executor!Running
  <2>12. Executor!InstalledIsWhole'
    BY <1>1, <2>5, <2>6, <2>8 DEF Executor!InstalledIsWhole, Executor!Whole
  <2> QED
    BY <2>1, <2>2, <2>3, <2>7, <2>11, <2>12
<1>4. CASE Executor!Write(c)
  <2> USE <1>4 DEF Executor!Write, Executor!Written, Executor!Covered
  <2>1. Executor!TypeOK'
    <3>1. ASSUME NEW f \in Callers
          PROVE  Executor!Covered(f, script[c]) \in Scripts \cup {0}
      BY <1>1
    <3>2. ASSUME NEW f \in Callers
          PROVE  /\ Executor!Written(f, script[c]) \in File
                 /\ [head |-> 0, len |-> Executor!Covered(f, script[c])] \in File
      BY <1>1, <3>1
    <3>3. content' \in [Callers -> File]
      BY <1>1, <3>2
    <3> QED
      BY <3>3 DEF Executor!TypeOK, Executor!Running
  <2>2. NamedInv'
    BY <1>1 DEF NamedInv
  <2>3. SoleInv'
    BY <1>1 DEF SoleInv, Executor!Running
  <2>4. ~raced => \A k \in Callers \ {c} : pc'[k] \notin Executor!Running
    BY <1>1 DEF SoleInv, Executor!Running
  <2>5. ~raced => content[tmp] = Executor!Empty /\ fd[c] = tmp /\ tmp \in Callers /\ script[c] \in Scripts
    BY <1>1 DEF TmpInv, Mine, Executor!Running
  <2>6. \/ pc'[c] = "err"
        \/ /\ pc'[c] = "check" /\ tmp' = tmp
           /\ content' = [content EXCEPT ![fd[c]] = Executor!Written(fd[c], script[c])]
    BY <1>1
  <2>7. ~raced /\ pc'[c] = "check" => Mine(tmp, c)'
    <3> SUFFICES ASSUME ~raced, pc'[c] = "check" PROVE Mine(tmp, c)'
      OBVIOUS
    <3>1. content'[tmp'] = [head |-> script[c], len |-> Executor!Covered(tmp, script[c])]
      BY <1>1, <2>5, <2>6
    <3>2. Executor!Covered(tmp, script[c]) = script[c] /\ script[c] # 0
      <4>1. content[tmp] = [head |-> 0, len |-> 0] /\ script[c] \in Scripts
        BY <2>5
      <4>2. script[c] \in Nat /\ script[c] # 0
        BY <4>1
      <4>3. 0 < script[c]
        BY <4>2
      <4> QED
        BY <4>1, <4>2, <4>3
    <3> QED
      BY <3>1, <3>2 DEF Mine
  <2>8. TmpInv'
    BY <1>1, <2>4, <2>5, <2>6, <2>7 DEF TmpInv, Mine, Executor!Running
  <2>9. FinalInv'
    BY <1>1 DEF SoleInv, TmpInv, FinalInv, Mine, Executor!Running
  <2>10. Executor!InstalledIsWhole'
    BY <1>1, <2>5, <2>6 DEF Executor!InstalledIsWhole, Executor!Whole
  <2> QED
    BY <2>1, <2>2, <2>3, <2>8, <2>9, <2>10
<1>5. CASE Executor!CheckFinal(c)
  <2> USE <1>5 DEF Executor!CheckFinal
  <2>1. Executor!TypeOK'
    BY DEF Executor!TypeOK, Executor!Running
  <2>2. NamedInv'
    BY <1>1 DEF NamedInv
  <2>3. SoleInv'
    BY <1>1 DEF SoleInv, Executor!Running
  <2>4. TmpInv'
    BY <1>1 DEF SoleInv, TmpInv, Mine, Executor!Running
  <2>5. FinalInv'
    BY <1>1 DEF SoleInv, TmpInv, FinalInv, Mine, Executor!Running
  <2>6. Executor!InstalledIsWhole'
    BY <1>1 DEF Executor!InstalledIsWhole, Executor!Whole
  <2> QED
    BY <2>1, <2>2, <2>3, <2>4, <2>5, <2>6
<1>6. CASE Executor!Compare(c)
  <2> USE <1>6 DEF Executor!Compare, Executor!Same
  <2>1. Executor!TypeOK'
    BY DEF Executor!TypeOK, Executor!Running
  <2>2. /\ \E l \in {"removeTmp", "rename", "err"} : pc' = [pc EXCEPT ![c] = l]
        /\ final' = final /\ tmp' = tmp
    OBVIOUS
  <2>3. NamedInv'
    BY <1>1, <2>2 DEF NamedInv
  <2>4. SoleInv'
    BY <1>1 DEF SoleInv, Executor!Running
  <2>5. TmpInv'
    BY <1>1 DEF SoleInv, TmpInv, Mine, Executor!Running
  <2>6. FinalInv'
    BY <1>1 DEF SoleInv, TmpInv, FinalInv, Mine, Executor!Running
  <2>7. Executor!InstalledIsWhole'
    BY <1>1 DEF Executor!InstalledIsWhole, Executor!Whole
  <2> QED
    BY <2>1, <2>3, <2>4, <2>5, <2>6, <2>7
<1>7. CASE Executor!RemoveTmp(c)
  <2> USE <1>7 DEF Executor!RemoveTmp
  <2>1. Executor!TypeOK'
    BY DEF Executor!TypeOK, Executor!Running
  <2>2. NamedInv'
    BY <1>1 DEF NamedInv
  <2>3. SoleInv'
    BY <1>1 DEF SoleInv, Executor!Running
  <2>4. TmpInv'
    BY <1>1 DEF SoleInv, TmpInv, Mine, Executor!Running
  <2>5. FinalInv'
    BY <1>1 DEF SoleInv, TmpInv, FinalInv, Mine, Executor!Running
  <2>6. Executor!InstalledIsWhole'
    BY <1>1 DEF Executor!InstalledIsWhole, Executor!Whole
  <2> QED
    BY <2>1, <2>2, <2>3, <2>4, <2>5, <2>6
<1>8. CASE Executor!Rename(c)
  <2> USE <1>8 DEF Executor!Rename, Executor!Renamed
  <2>1. Executor!TypeOK'
    BY DEF Executor!TypeOK, Executor!Running
  <2>2. NamedInv'
    BY <1>1 DEF NamedInv
  <2>3. SoleInv'
    BY <1>1 DEF SoleInv, Executor!Running
  <2>4. TmpInv'
    BY <1>1 DEF SoleInv, TmpInv, Mine, Executor!Running
  <2>5. FinalInv'
    BY <1>1 DEF SoleInv, TmpInv, FinalInv, Mine, Executor!Running
  <2>6. Executor!InstalledIsWhole'
    <3>1. \/ final' = final /\ content' = content
          \/ final' = tmp /\ final' # NoFile /\ content' = content
      BY <1>1 DEF Executor!Renamed
    <3>2. ~raced => Mine(tmp, c) /\ script[c] \in Scripts
      BY <1>1 DEF TmpInv, Executor!Running
    <3>3. raced' = raced
      OBVIOUS
    <3> QED
      BY <3>1, <3>2, <3>3 DEF Executor!InstalledIsWhole, Executor!Whole, Mine
  <2> QED
    BY <2>1, <2>2, <2>3, <2>4, <2>5, <2>6
<1>9. CASE Executor!Chmod(c)
  <2> USE <1>9 DEF Executor!Chmod, Executor!Chmodded
  <2>1. Executor!TypeOK'
    BY DEF Executor!TypeOK, Executor!Running
  <2>2. NamedInv'
    BY <1>1 DEF NamedInv
  <2>3. SoleInv'
    BY <1>1 DEF SoleInv, Executor!Running
  <2>4. TmpInv'
    BY <1>1 DEF SoleInv, TmpInv, Mine, Executor!Running
  <2>5. FinalInv'
    BY <1>1, <1>2 DEF SoleInv, TmpInv, FinalInv, Mine, Executor!Running
  <2>6. Executor!InstalledIsWhole'
    BY <1>1 DEF Executor!InstalledIsWhole, Executor!Whole
  <2> QED
    BY <2>1, <2>2, <2>3, <2>4, <2>5, <2>6
<1>10. CASE Executor!Open(c)
  <2> USE <1>10 DEF Executor!Open
  <2>1. Executor!TypeOK'
    BY DEF Executor!TypeOK, Executor!Running
  <2>2. NamedInv'
    BY <1>1 DEF NamedInv
  <2>3. SoleInv'
    BY <1>1 DEF SoleInv, Executor!Running
  <2>4. TmpInv'
    BY <1>1 DEF SoleInv, TmpInv, Mine, Executor!Running
  <2>5. FinalInv'
    BY <1>1 DEF SoleInv, TmpInv, FinalInv, Mine, Executor!Running
  <2>6. Executor!InstalledIsWhole'
    BY <1>1 DEF Executor!InstalledIsWhole, Executor!Whole
  <2> QED
    BY <2>1, <2>2, <2>3, <2>4, <2>5, <2>6
<1>11. CASE Executor!Crash(c)
  <2> USE <1>11 DEF Executor!Crash
  <2>1. Executor!TypeOK'
    BY DEF Executor!TypeOK, Executor!Running
  <2>2. NamedInv'
    BY <1>1 DEF NamedInv
  <2>3. SoleInv'
    BY <1>1 DEF SoleInv, Executor!Running
  <2>4. TmpInv'
    BY <1>1 DEF SoleInv, TmpInv, Mine, Executor!Running
  <2>5. FinalInv'
    BY <1>1 DEF SoleInv, TmpInv, FinalInv, Mine, Executor!Running
  <2>6. Executor!InstalledIsWhole'
    BY <1>1 DEF Executor!InstalledIsWhole, Executor!Whole
  <2> QED
    BY <2>1, <2>2, <2>3, <2>4, <2>5, <2>6
<1> QED
  BY <1>3, <1>4, <1>5, <1>6, <1>7, <1>8, <1>9, <1>10, <1>11 DEF Executor!Step

LEMMA ExecutorKept == ExecutorInv /\ UNCHANGED executor => ExecutorInv'
  BY DEF ExecutorInv, NamedInv, SoleInv, TmpInv, FinalInv, Mine, Executor!TypeOK, Executor!InstalledIsWhole, Executor!Whole, executor

-----------------------------------------------------------------------------
(* GenerateExecutor by callers that race *)

PlaceInv ==
  \A c \in Callers :
    /\ pc[c] # "idle" => script[c] \in Scripts
    /\ pc[c] = "write" => fd[c] \in Callers
    /\ pc[c] \in {"compare", "removeTmp", "chmod", "open", "ok"} => final # NoFile

\* A call gives up only because another has taken the temporary file, and that one is
\* past its rename or its comparison, so that it succeeds.
WinnerInv ==
  ~struck =>
    /\ \A c \in Callers : pc[c] # "dead"
    /\ \/ \E c \in Callers : pc[c] = "err"
       \/ tmp = NoFile /\ \E c \in Callers : pc[c] # "idle"
       => \E c \in Callers : pc[c] \in {"chmod", "open", "ok"}

\* The installed file is executable, or a chmod that will find it is to come.
ModeInv == ~struck /\ final # NoFile => exec[final] \/ \E c \in Callers : pc[c] = "chmod"

Agreed == \A c, k \in Callers : pc[c] # "idle" /\ pc[k] # "idle" => script[c] = script[k]

\* Callers that agree write nothing but their one script into any file, and a file with a
\* name is empty only as long as a caller that has it open is about to write.
AgreedInv ==
  ~struck /\ Agreed => \A f \in Callers :
    /\ content[f] = Executor!Empty \/ \E c \in Callers : pc[c] # "idle" /\ Mine(f, c)
    /\ f \in {final, tmp} /\ content[f] = Executor!Empty =>
         \E c \in Callers : pc[c] = "write" /\ fd[c] = f

RaceInv == PlaceInv /\ WinnerInv /\ ModeInv /\ AgreedInv

LEMMA RaceInit == Executor!Init => RaceInv
<1> SUFFICES ASSUME Executor!Init PROVE RaceInv
  OBVIOUS
<1>1. /\ final = NoFile /\ tmp = NoFile
      /\ \A c \in Callers : pc[c] = "idle" /\ content[c] = Executor!Empty
  BY DEF Executor!Init
<1> QED
  BY <1>1, HostFilesAssumption DEF RaceInv, PlaceInv, WinnerInv, ModeInv, AgreedInv

LEMMA PlaceStep ==
  ASSUME ExecutorInv, PlaceInv, NEW c \in Callers, Executor!Step(c)
  PROVE  PlaceInv'
<1> USE HostFilesAssumption
    DEF ExecutorInv, PlaceInv, Executor!Goto, Executor!Fails, Executor!disk
<1>1. /\ pc \in [Callers -> {"idle"} \cup Executor!Running \cup Executor!Ended]
      /\ fd \in [Callers -> Callers \cup {NoFile}] /\ script \in [Callers -> Scripts \cup {0}]
      /\ final \in Callers \cup {NoFile} /\ tmp \in Callers \cup {NoFile}
  BY DEF Executor!TypeOK
<1>2. CASE Executor!Begin(c)
  <2>1. /\ final' = final
        /\ \E s \in Scripts : script' = [script EXCEPT ![c] = s]
        /\ \/ pc' = [pc EXCEPT ![c] = "err"] /\ fd' = fd
           \/ pc' = [pc EXCEPT ![c] = "write"] /\ \E f \in Callers : fd' = [fd EXCEPT ![c] = f]
    BY <1>1, <1>2 DEF Executor!Begin
  <2> QED
    BY <1>1, <2>1
<1>3. CASE Executor!Write(c) \/ Executor!CheckFinal(c) \/ Executor!Compare(c) \/ Executor!Crash(c)
  <2>1. /\ UNCHANGED <<final, fd, script>> /\ pc[c] # "idle"
        /\ \E l \in {"check", "rename", "compare", "removeTmp", "err", "dead"} :
             /\ pc' = [pc EXCEPT ![c] = l]
             /\ l \in {"compare", "removeTmp"} => final # NoFile
    BY <1>1, <1>3
    DEF Executor!Write, Executor!CheckFinal, Executor!Compare, Executor!Same, Executor!Crash,
        Executor!Running
  <2> QED
    BY <1>1, <2>1
<1>4. CASE Executor!RemoveTmp(c) \/ Executor!Rename(c) \/ Executor!Chmod(c) \/ Executor!Open(c)
  <2>1. /\ UNCHANGED <<fd, script>> /\ pc[c] # "idle"
        /\ \E l \in {"ok", "chmod", "open", "err"} : pc' = [pc EXCEPT ![c] = l]
        /\ final' # NoFile \/ (final' = final /\ pc'[c] = "err")
    BY <1>1, <1>4
    DEF Executor!RemoveTmp, Executor!Rename, Executor!Renamed, Executor!Chmod, Executor!Open
  <2> QED
    BY <1>1, <2>1
<1> QED
  BY <1>2, <1>3, <1>4 DEF Executor!Step

LEMMA RaceStep ==
  ASSUME ExecutorInv, RaceInv, NEW c \in Callers, Executor!Step(c)
  PROVE  RaceInv'
<1> USE HostFilesAssumption DEF Executor!Goto, Executor!Fails, Executor!disk
<1>1. PlaceInv'
  BY PlaceStep DEF RaceInv
<1> SUFFICES ASSUME ~struck' PROVE WinnerInv' /\ ModeInv' /\ AgreedInv'
  BY <1>1 DEF RaceInv, WinnerInv, ModeInv, AgreedInv
<1>2. /\ pc \in [Callers -> {"idle"} \cup Executor!Running \cup Executor!Ended]
      /\ fd \in [Callers -> Callers \cup {NoFile}] /\ script \in [Callers -> Scripts \cup {0}]
      /\ content \in [Callers -> [head : Scripts \cup {0}, len : Scripts \cup {0}]]
      /\ final \in Callers \cup {NoFile} /\ tmp \in Callers \cup {NoFile}
      /\ tmp = NoFile \/ tmp # final
      /\ exec \in [Callers -> BOOLEAN]
  BY DEF ExecutorInv, Executor!TypeOK
<1>3. ~struck /\ PlaceInv
  BY DEF RaceInv, Executor!Step, Executor!Begin, Executor!Write, Executor!CheckFinal,
         Executor!Compare, Executor!RemoveTmp, Executor!Rename, Executor!Chmod, Executor!Open,
         Executor!Crash
<1>4. CASE Executor!Begin(c)
  <2>1. /\ pc[c] = "idle" /\ pc' = [pc EXCEPT ![c] = "write"]
        /\ tmp' \in Callers /\ (tmp' = tmp \/ tmp' = c)
        /\ fd' = [fd EXCEPT ![c] = tmp']
        /\ content' = [content EXCEPT ![tmp'] = Executor!Empty]
        /\ UNCHANGED <<final, exec>>
        /\ \E s \in Scripts : script' = [script EXCEPT ![c] = s]
    BY <1>2, <1>4 DEF Executor!Begin, Executor!Truncated
  <2>2. tmp' # final'
    BY <1>2, <2>1 DEF ExecutorInv, NamedInv
  <2>3. WinnerInv'
    BY <1>2, <1>3, <2>1 DEF RaceInv, WinnerInv
  <2>4. ModeInv'
    BY <1>2, <1>3, <2>1 DEF RaceInv, ModeInv
  <2>5. ASSUME Agreed', NEW f \in Callers
        PROVE  /\ content'[f] = Executor!Empty \/ \E k \in Callers : pc'[k] # "idle" /\ Mine(f, k)'
               /\ f \in {final', tmp'} /\ content'[f] = Executor!Empty =>
                    \E k \in Callers : pc'[k] = "write" /\ fd'[k] = f
    <3>1. CASE f = tmp'
      BY <1>2, <2>1, <3>1
    <3>2. CASE f # tmp'
      <4>1. \A k \in Callers \ {c} : pc'[k] = pc[k] /\ script'[k] = script[k] /\ fd'[k] = fd[k]
        BY <1>2, <2>1
      <4>2. Agreed
        BY <2>1, <2>5, <4>1 DEF Agreed
      <4>3. content'[f] = content[f]
        BY <1>2, <2>1, <3>2
      <4>4. /\ content[f] = Executor!Empty \/ \E k \in Callers : pc[k] # "idle" /\ Mine(f, k)
            /\ f = final /\ content[f] = Executor!Empty =>
                 \E k \in Callers : pc[k] = "write" /\ fd[k] = f
        BY <1>3, <4>2 DEF RaceInv, AgreedInv
      <4> QED
        BY <2>1, <3>2, <4>1, <4>3, <4>4 DEF Mine
    <3> QED
      BY <3>1, <3>2
  <2> QED
    BY <2>3, <2>4, <2>5 DEF AgreedInv
<1>5. CASE Executor!Write(c)
  <2>1. /\ pc[c] = "write" /\ pc' = [pc EXCEPT ![c] = "check"] /\ fd[c] \in Callers
        /\ content' = [content EXCEPT ![fd[c]] = Executor!Written(fd[c], script[c])]
        /\ UNCHANGED <<final, tmp, exec, script, fd>>
    BY <1>3, <1>5 DEF Executor!Write, PlaceInv
  <2>2. WinnerInv'
    BY <1>2, <1>3, <2>1 DEF RaceInv, WinnerInv
  <2>3. ModeInv'
    BY <1>2, <1>3, <2>1 DEF RaceInv, ModeInv
  <2>4. ASSUME Agreed', NEW f \in Callers
        PROVE  /\ content'[f] = Executor!Empty \/ \E k \in Callers : pc'[k] # "idle" /\ Mine(f, k)'
               /\ f \in {final', tmp'} /\ content'[f] = Executor!Empty =>
                    \E k \in Callers : pc'[k] = "write" /\ fd'[k] = f
    <3>1. \A k \in Callers : (pc'[k] # "idle") = (pc[k] # "idle")
      BY <1>2, <2>1
    <3>2. Agreed
      BY <2>1, <2>4, <3>1 DEF Agreed
    <3>3. /\ content[f] = Executor!Empty \/ \E k \in Callers : pc[k] # "idle" /\ Mine(f, k)
          /\ f \in {final, tmp} /\ content[f] = Executor!Empty =>
               \E k \in Callers : pc[k] = "write" /\ fd[k] = f
      BY <1>3, <3>2 DEF RaceInv, AgreedInv
    <3>4. CASE f = fd[c]
      <4>1. script[c] \in Scripts /\ script[c] \in Nat \ {0}
        BY <1>3, <2>1 DEF PlaceInv
      <4>2. content[f].len = 0 \/ content[f].len = script[c]
        <5>1. CASE content[f] = Executor!Empty
          BY <5>1 DEF Executor!Empty
        <5>2. ASSUME NEW k \in Callers, pc[k] # "idle", Mine(f, k) PROVE content[f].len = script[c]
          <6>1. script[k] = script[c]
            BY <2>1, <3>2, <5>2 DEF Agreed
          <6> QED
            BY <5>2, <6>1 DEF Mine
        <5> QED
          BY <3>3, <5>1, <5>2
      <4>3. Executor!Covered(f, script[c]) = script[c]
        BY <4>1, <4>2 DEF Executor!Covered
      <4>4. content'[f] = [head |-> script[c], len |-> script[c]]
        BY <1>2, <2>1, <3>4, <4>3 DEF Executor!Written
      <4>5. content'[f] # Executor!Empty
        BY <4>1, <4>4 DEF Executor!Empty
      <4> QED
        BY <1>2, <2>1, <4>4, <4>5 DEF Mine
    <3>5. CASE f # fd[c]
      <4>1. content'[f] = content[f] /\ \A k \in Callers \ {c} : pc'[k] = pc[k]
        BY <1>2, <2>1, <3>5
      <4> QED
        BY <2>1, <3>1, <3>3, <3>5, <4>1 DEF Mine
    <3> QED
      BY <3>4, <3>5
  <2> QED
    BY <2>2, <2>3, <2>4 DEF AgreedInv
<1>6. CASE \/ Executor!CheckFinal(c) \/ Executor!Compare(c) \/ Executor!RemoveTmp(c)
           \/ Executor!Rename(c) \/ Executor!Chmod(c) \/ Executor!Open(c)
  <2>1. /\ UNCHANGED <<content, script, fd>> /\ pc[c] \notin {"idle", "write", "err", "ok"}
        /\ {final', tmp'} \subseteq {final, tmp, NoFile}
        /\ \E l : pc' = [pc EXCEPT ![c] = l] /\ l \notin {"idle", "dead"}
    BY <1>2, <1>6
    DEF Executor!CheckFinal, Executor!Compare, Executor!RemoveTmp, Executor!Rename,
        Executor!Renamed, Executor!Chmod, Executor!Open
  <2>2. AgreedInv'
    <3>1. Agreed' => Agreed
      BY <1>2, <2>1 DEF Agreed
    <3>2. ASSUME Agreed', NEW f \in Callers
          PROVE  /\ content'[f] = Executor!Empty \/ \E k \in Callers : pc'[k] # "idle" /\ Mine(f, k)'
                 /\ f \in {final', tmp'} /\ content'[f] = Executor!Empty =>
                      \E k \in Callers : pc'[k] = "write" /\ fd'[k] = f
      <4>1. /\ content[f] = Executor!Empty \/ \E k \in Callers : pc[k] # "idle" /\ Mine(f, k)
            /\ f \in {final, tmp} /\ content[f] = Executor!Empty =>
                 \E k \in Callers : pc[k] = "write" /\ fd[k] = f
        BY <1>3, <3>1, <3>2 DEF RaceInv, AgreedInv
      <4> QED
        BY <1>2, <2>1, <4>1 DEF Mine
    <3> QED
      BY <3>2 DEF AgreedInv
  <2>3. \/ /\ UNCHANGED <<final, tmp, exec>> /\ pc[c] \notin {"chmod", "open"}
           /\ pc'[c] \notin {"err", "chmod", "ok"}
        \/ /\ UNCHANGED <<final, tmp, exec>> /\ pc[c] \notin {"chmod", "open"}
           /\ pc'[c] = "err" /\ tmp = NoFile
        \/ UNCHANGED <<final, exec>> /\ pc[c] # "chmod" /\ pc'[c] = "ok"
        \/ UNCHANGED exec /\ pc'[c] = "chmod"
        \/ /\ UNCHANGED <<final, tmp>> /\ pc[c] = "chmod" /\ pc'[c] = "open"
           /\ exec' = [exec EXCEPT ![final] = TRUE]
    BY <1>2, <1>6
    DEF Executor!CheckFinal, Executor!Compare, Executor!RemoveTmp, Executor!Rename,
        Executor!Chmod, Executor!Chmodded, Executor!Open
  <2>4. \A k \in Callers \ {c} : pc'[k] = pc[k]
    BY <1>2, <2>1
  <2>5. ModeInv'
    BY <1>2, <1>3, <2>3, <2>4 DEF RaceInv, ModeInv
  <2>6. WinnerInv'
    <3>1. \A k \in Callers : pc'[k] # "dead"
      BY <1>2, <1>3, <2>1 DEF RaceInv, WinnerInv
    <3>2. CASE pc'[c] \in {"chmod", "open", "ok"}
      BY <3>1, <3>2 DEF WinnerInv
    <3>3. CASE tmp' = tmp /\ pc[c] \notin {"chmod", "open"} /\ (pc'[c] = "err" => tmp = NoFile)
      <4>1. \A k \in Callers : pc[k] \in {"chmod", "open", "ok"} => pc'[k] \in {"chmod", "open", "ok"}
        BY <2>1, <2>4, <3>3
      <4> QED
        BY <1>3, <2>1, <2>4, <3>1, <3>3, <4>1 DEF RaceInv, WinnerInv
    <3> QED
      BY <2>3, <3>2, <3>3
  <2> QED
    BY <2>2, <2>5, <2>6
<1> QED
  BY <1>4, <1>5, <1>6 DEF Executor!Step, Executor!Crash

LEMMA RaceKept == RaceInv /\ UNCHANGED executor => RaceInv'
  BY DEF RaceInv, PlaceInv, WinnerInv, ModeInv, AgreedInv, Agreed, Mine, executor

-----------------------------------------------------------------------------
(* LogContainerStatsToCSV *)

\* A call has a file open from its header on, and has received no report before it
\* subscribes; a file exists once the call it is named after has opened one.
OpenInv ==
  \A c \in Callers :
    /\ pcStats[c] \in {"header", "subscribe", "stream"} => file[c] # NoFile
    /\ pcStats[c] \in {"idle", "remove", "open", "header", "subscribe"} => reports[c] = 0 /\ ~stuck[c]
    /\ pcStats[c] \in {"idle", "remove", "open"} =>
         csv # c /\ lines[c] = <<>> /\ \A k \in Callers : file[k] # c
    /\ pcStats[c] = "subscribe" => Len(lines[file[c]]) > 0

\* The log of n reports of call c
LogN(c, n) == [i \in 1..n + 1 |-> IF i = 1 THEN Stats!Header ELSE Stats!Row(c, i - 1)]

\* As long as calls come one at a time, only one of them is running; the file it has
\* opened is a new one under csvPath, and holds the log of its reports until a row cannot
\* be written, and a part of it from then on.
SoleStatsInv ==
  ~racedStats => \A c, k \in Callers :
    pcStats[c] \in Stats!Running /\ pcStats[k] \in Stats!Running => c = k

LogInv ==
  ~racedStats => \A c \in Callers :
    /\ pcStats[c] = "open" => csv = NoFile
    /\ pcStats[c] \in {"header", "subscribe", "stream"} => csv = c /\ file[c] = c
    /\ pcStats[c] = "header" => lines[c] = <<>>
    /\ pcStats[c] \in {"subscribe", "stream"} =>
         /\ ~stuck[c] => lines[c] = LogN(c, reports[c])
         /\ \E n \in 0..reports[c] : Stats!Uncut(lines[c]) = LogN(c, n)

StatsInv == Stats!TypeOK /\ OpenInv

LEMMA StatsInit == Stats!Init => StatsInv
<1> SUFFICES ASSUME Stats!Init PROVE StatsInv
  OBVIOUS
<1> USE HostFilesAssumption DEF Stats!Init, Stats!Running, Stats!Ended
<1>1. Stats!TypeOK
  <2>1. lines \in [Callers -> Seq(Stats!Line)]
    OBVIOUS
  <2>2. 0 \in 0..MaxRows
    OBVIOUS
  <2>3. reports \in [Callers -> 0..MaxRows]
    BY <2>2
  <2> QED
    BY <2>1, <2>3 DEF Stats!TypeOK
<1>2. OpenInv
  BY DEF OpenInv
<1> QED
  BY <1>1, <1>2 DEF StatsInv

LEMMA LogNType ==
  ASSUME NEW c \in Callers, NEW n \in 0..MaxRows
  PROVE  LogN(c, n) \in Seq(Stats!Line) /\ Len(LogN(c, n)) = n + 1
<1> USE HostFilesAssumption
<1>1. ASSUME NEW i \in 1..n + 1 PROVE LogN(c, n)[i] \in Stats!Line
  BY DEF LogN, Stats!Line, Stats!Row
<1>2. DOMAIN LogN(c, n) = 1..n + 1 /\ n + 1 \in Nat
  BY DEF LogN
<1> QED
  BY <1>1, <1>2 DEF LogN

LEMMA LogNAppend ==
  ASSUME NEW c \in Callers, NEW n \in 0..MaxRows
  PROVE  Append(LogN(c, n), Stats!Row(c, n + 1)) = LogN(c, n + 1)
  BY LogNType, HostFilesAssumption DEF LogN

\* No line of the log is a line cut short, and one cut short behind it is taken off again.
LEMMA LogNUncut ==
  ASSUME NEW c \in Callers, NEW n \in 0..MaxRows
  PROVE  /\ Stats!Uncut(LogN(c, n)) = LogN(c, n)
         /\ Stats!Uncut(Append(LogN(c, n), Stats!Cut)) = LogN(c, n)
<1> USE HostFilesAssumption, LogNType DEF Stats!Uncut, Stats!Last, Stats!Front
<1>1. LogN(c, n)[n + 1] # Stats!Cut
  BY DEF LogN, Stats!Cut, Stats!Header, Stats!Row
<1>2. Stats!Uncut(LogN(c, n)) = LogN(c, n)
  BY <1>1
<1> DEFINE t == Append(LogN(c, n), Stats!Cut)
<1>3. t # <<>> /\ Len(t) = n + 2 /\ t[n + 2] = Stats!Cut
  OBVIOUS
<1>4. SubSeq(t, 1, n + 1) = LogN(c, n)
  OBVIOUS
<1> QED
  BY <1>2, <1>3, <1>4

LEMMA LogNPrefix ==
  ASSUME NEW c \in Callers, NEW m \in 0..MaxRows, NEW n \in m..MaxRows
  PROVE  Stats!IsPrefix(LogN(c, m), LogN(c, n))
  BY LogNType, HostFilesAssumption DEF LogN, Stats!IsPrefix

\* Writing a line keeps a file a sequence of lines that is no shorter and, when it is
\* written no further than behind the last one, reaches that line.
LEMMA PutKeeps ==
  ASSUME lines \in [Callers -> Seq(Stats!Line)], NEW c \in Callers, file[c] \in Callers,
         NEW i \in Nat \ {0}, NEW x \in Stats!Line, Stats!Put(c, i, x)
  PROVE  /\ lines' \in [Callers -> Seq(Stats!Line)]
         /\ \A f \in Callers : Len(lines'[f]) >= Len(lines[f])
         /\ \A f \in Callers \ {file[c]} : lines'[f] = lines[f]
         /\ i <= Len(lines[file[c]]) + 1 => Len(lines'[file[c]]) >= i
<1> DEFINE s == lines[file[c]]
           t == IF i <= Len(s) THEN [s EXCEPT ![i] = x] ELSE Append(s, x)
<1>1. s \in Seq(Stats!Line) /\ Len(s) \in Nat
  OBVIOUS
<1>2. t \in Seq(Stats!Line) /\ Len(t) >= Len(s) /\ (i <= Len(s) + 1 => Len(t) >= i)
  BY <1>1
<1>3. lines' = [lines EXCEPT ![file[c]] = t]
  BY DEF Stats!Put
<1> HIDE DEF t
<1> QED
  BY <1>1, <1>2, <1>3

LEMMA StatsStep ==
  ASSUME StatsInv, NEW c \in Callers, Stats!Step(c)
  PROVE  StatsInv'
<1> USE HostFilesAssumption DEF StatsInv, Stats!Goto, Stats!Fails
<1> DEFINE Labels == {"idle", "remove", "open", "header", "subscribe", "stream", "ok", "err", "dead"}
<1>1. /\ csv \in Callers \cup {NoFile} /\ lines \in [Callers -> Seq(Stats!Line)]
      /\ pcStats \in [Callers -> Labels] /\ file \in [Callers -> Callers \cup {NoFile}]
      /\ reports \in [Callers -> 0..MaxRows] /\ stuck \in [Callers -> BOOLEAN]
      /\ racedStats \in BOOLEAN
  BY DEF Stats!TypeOK, Stats!Running, Stats!Ended
<1>2. CASE Stats!Begin(c)
  <2> USE <1>2 DEF Stats!Begin, Stats!AfterStat, Stats!Quiet
  <2>1. Stats!TypeOK'
    BY <1>1 DEF Stats!TypeOK, Stats!Running, Stats!Ended, OpenInv
  <2>2. OpenInv'
    BY <1>1 DEF OpenInv
  <2> QED
    BY <2>1, <2>2
<1>3. CASE Stats!RemoveOld(c)
  <2> USE <1>3 DEF Stats!RemoveOld
  <2>1. Stats!TypeOK'
    BY <1>1 DEF Stats!TypeOK, Stats!Running, Stats!Ended, OpenInv
  <2>2. OpenInv'
    BY <1>1 DEF OpenInv
  <2> QED
    BY <2>1, <2>2
<1>4. CASE Stats!Open(c)
  <2> USE <1>4 DEF Stats!Open
  <2>1. /\ csv' \in Callers \cup {NoFile} /\ lines' = lines
        /\ \E l \in {"header", "err"}, f \in {file[c], csv'} :
             /\ pcStats' = [pcStats EXCEPT ![c] = l] /\ file' = [file EXCEPT ![c] = f]
             /\ l = "header" => f \in Callers
        /\ UNCHANGED <<reports, stuck, racedStats>>
    BY <1>1
  <2>2. Stats!TypeOK'
    BY <1>1, <2>1 DEF Stats!TypeOK, Stats!Running, Stats!Ended
  <2>3. OpenInv'
    BY <1>1 DEF OpenInv
  <2> QED
    BY <2>2, <2>3
<1>5. CASE Stats!WriteHeader(c)
  <2> USE <1>5 DEF Stats!WriteHeader
  <2>1. file[c] \in Callers /\ pcStats[c] = "header" /\ reports[c] = 0
    BY <1>1 DEF OpenInv
  <2>2. Stats!Header \in Stats!Line /\ Stats!Cut \in Stats!Line
    BY DEF Stats!Line
  <2>3. /\ lines' \in [Callers -> Seq(Stats!Line)]
        /\ \A f \in Callers : Len(lines'[f]) >= Len(lines[f])
        /\ \A f \in Callers \ {file[c]} : lines'[f] = lines[f]
        /\ pcStats'[c] = "subscribe" => Len(lines'[file[c]]) >= 1
    <3>1. CASE Stats!Put(c, 1, Stats!Header)
      BY <3>1, <1>1, <2>1, <2>2, PutKeeps
    <3>2. CASE Stats!Put(c, 1, Stats!Cut) /\ pcStats'[c] = "err"
      BY <3>2, <1>1, <2>1, <2>2, PutKeeps
    <3>3. CASE lines' = lines /\ pcStats'[c] = "err"
      BY <3>3, <1>1
    <3> QED
      BY <1>1, <3>1, <3>2, <3>3 DEF Stats!PutFails
  <2>4. /\ \E l \in {"subscribe", "err"} : pcStats' = [pcStats EXCEPT ![c] = l]
        /\ UNCHANGED <<csv, file, reports, stuck, racedStats>>
    OBVIOUS
  <2> HIDE <1>5
  <2> QED
    BY <1>1, <2>1, <2>3, <2>4 DEF Stats!TypeOK, Stats!Running, Stats!Ended, OpenInv
<1>6. CASE Stats!Subscribe(c)
  <2> USE <1>6 DEF Stats!Subscribe
  <2>1. Stats!TypeOK'
    BY <1>1 DEF Stats!TypeOK, Stats!Running, Stats!Ended, OpenInv
  <2>2. OpenInv'
    BY <1>1 DEF OpenInv
  <2> QED
    BY <2>1, <2>2
<1>7. CASE Stats!Report(c)
  <2> USE <1>7 DEF Stats!Report
  <2>1. /\ file[c] \in Callers /\ pcStats[c] = "stream"
        /\ reports[c] \in Nat /\ reports[c] < MaxRows
    BY <1>1 DEF OpenInv
  <2>2. Stats!Row(c, reports[c] + 1) \in Stats!Line /\ Stats!Cut \in Stats!Line
    BY <2>1 DEF Stats!Line, Stats!Row
  <2>3. /\ lines' \in [Callers -> Seq(Stats!Line)]
        /\ \A f \in Callers : Len(lines'[f]) >= Len(lines[f])
        /\ \A f \in Callers \ {file[c]} : lines'[f] = lines[f]
        /\ ~stuck'[c] => Len(lines'[file[c]]) > reports[c] + 1
    <3>1. CASE ~stuck[c] /\ stuck' = stuck /\ Stats!Put(c, reports[c] + 2, Stats!Row(c, reports[c] + 1))
      <4>1. Len(lines[file[c]]) > reports[c]
        BY <3>1, <2>1 DEF Stats!TypeOK
      <4>2. Len(lines[file[c]]) \in Nat
        BY <1>1, <2>1
      <4>3. reports[c] + 2 \in Nat \ {0} /\ reports[c] + 2 <= Len(lines[file[c]]) + 1
        BY <4>1, <4>2, <2>1
      <4>4. /\ lines' \in [Callers -> Seq(Stats!Line)]
            /\ \A f \in Callers : Len(lines'[f]) >= Len(lines[f])
            /\ \A f \in Callers \ {file[c]} : lines'[f] = lines[f]
            /\ Len(lines'[file[c]]) >= reports[c] + 2
        BY <3>1, <4>3, <1>1, <2>1, <2>2, PutKeeps
      <4>5. Len(lines'[file[c]]) \in Nat
        BY <4>4, <2>1
      <4> QED
        BY <4>4, <4>5, <2>1
    <3>2. CASE stuck'[c] /\ Stats!Put(c, reports[c] + 2, Stats!Cut)
      BY <3>2, <1>1, <2>1, <2>2, PutKeeps
    <3>3. CASE stuck'[c] /\ lines' = lines
      BY <3>3, <1>1
    <3> QED
      BY <1>1, <3>1, <3>2, <3>3 DEF Stats!PutFails
  <2>4. /\ reports' = [reports EXCEPT ![c] = @ + 1]
        /\ \E b \in BOOLEAN : stuck' = [stuck EXCEPT ![c] = b]
        /\ stuck[c] => stuck'[c]
        /\ UNCHANGED <<csv, pcStats, file, racedStats>>
    BY <1>1
  <2>5. reports' \in [Callers -> 0..MaxRows]
    BY <1>1, <2>1, <2>4
  <2> HIDE <1>7
  <2>6. ASSUME NEW k \in Callers, pcStats'[k] = "stream", ~stuck'[k]
        PROVE  Len(lines'[file'[k]]) > reports'[k]
    <3>1. CASE k = c
      BY <3>1, <2>1, <2>3, <2>4, <2>6, <1>1
    <3>2. CASE k # c
      <4>1. /\ file'[k] = file[k] /\ reports'[k] = reports[k] /\ file[k] \in Callers
            /\ Len(lines[file[k]]) > reports[k]
        BY <3>2, <2>4, <2>6, <1>1 DEF Stats!TypeOK, OpenInv
      <4>2. Len(lines[file[k]]) \in Nat /\ Len(lines'[file[k]]) \in Nat /\ reports[k] \in Nat
        BY <4>1, <2>3, <1>1
      <4> QED
        BY <4>1, <4>2, <2>3
    <3> QED
      BY <3>1, <3>2
  <2>7. Stats!TypeOK'
    BY <1>1, <2>1, <2>3, <2>4, <2>5, <2>6 DEF Stats!TypeOK, Stats!Running, Stats!Ended
  <2>8. OpenInv'
    BY <1>1, <2>1, <2>3, <2>4 DEF OpenInv
  <2> QED
    BY <2>7, <2>8
<1>8. CASE Stats!EndOfStream(c)
  <2> USE <1>8 DEF Stats!EndOfStream
  <2>1. Stats!TypeOK'
    BY <1>1 DEF Stats!TypeOK, Stats!Running, Stats!Ended, OpenInv
  <2>2. OpenInv'
    BY <1>1 DEF OpenInv
  <2> QED
    BY <2>1, <2>2
<1>9. CASE Stats!Crash(c)
  <2> USE <1>9 DEF Stats!Crash
  <2>1. Stats!TypeOK'
    BY <1>1 DEF Stats!TypeOK, Stats!Running, Stats!Ended, OpenInv
  <2>2. OpenInv'
    BY <1>1 DEF OpenInv
  <2> QED
    BY <2>1, <2>2
<1> QED
  BY <1>2, <1>3, <1>4, <1>5, <1>6, <1>7, <1>8, <1>9 DEF Stats!Step

LEMMA LogInit == Stats!Init => SoleStatsInv /\ LogInv
  BY DEF Stats!Init, SoleStatsInv, LogInv, Stats!Running

LEMMA LogStep ==
  ASSUME StatsInv, SoleStatsInv, LogInv, NEW c \in Callers, Stats!Step(c)
  PROVE  SoleStatsInv' /\ LogInv'
<1> USE HostFilesAssumption DEF Stats!Goto, Stats!Fails
<1> DEFINE Labels == {"idle", "remove", "open", "header", "subscribe", "stream", "ok", "err", "dead"}
<1>1. /\ csv \in Callers \cup {NoFile} /\ lines \in [Callers -> Seq(Stats!Line)]
      /\ pcStats \in [Callers -> Labels] /\ file \in [Callers -> Callers \cup {NoFile}]
      /\ reports \in [Callers -> 0..MaxRows] /\ stuck \in [Callers -> BOOLEAN]
      /\ racedStats \in BOOLEAN
  BY DEF StatsInv, Stats!TypeOK, Stats!Running, Stats!Ended
<1>2. CASE Stats!Begin(c)
  <2> USE <1>2 DEF Stats!Begin, Stats!AfterStat
  <2>1. SoleStatsInv'
    BY <1>1 DEF SoleStatsInv, Stats!Running, Stats!Quiet
  <2>2. LogInv'
    BY <1>1 DEF SoleStatsInv, LogInv, StatsInv, OpenInv, Stats!Running, Stats!Quiet
  <2> QED
    BY <2>1, <2>2
<1>3. CASE Stats!RemoveOld(c)
  <2> USE <1>3 DEF Stats!RemoveOld
  <2>1. SoleStatsInv'
    BY <1>1 DEF SoleStatsInv, Stats!Running
  <2>2. LogInv'
    BY <1>1 DEF SoleStatsInv, LogInv, StatsInv, OpenInv, Stats!Running
  <2> QED
    BY <2>1, <2>2
<1>4. CASE Stats!Open(c)
  <2> USE <1>4 DEF Stats!Open
  <2>1. SoleStatsInv'
    BY <1>1 DEF SoleStatsInv, Stats!Running
  <2>2. LogInv'
    BY <1>1 DEF SoleStatsInv, LogInv, StatsInv, OpenInv, Stats!Running
  <2> QED
    BY <2>1, <2>2
<1>5. CASE Stats!WriteHeader(c)
  <2> USE <1>5 DEF Stats!WriteHeader
  <2>1. SoleStatsInv'
    BY <1>1 DEF SoleStatsInv, Stats!Running
  <2>2. LogInv'
    <3> SUFFICES ASSUME ~racedStats PROVE LogInv'
      BY DEF LogInv
    <3>1. /\ csv = c /\ file[c] = c /\ lines[c] = <<>> /\ reports[c] = 0
          /\ \A k \in Callers \ {c} : pcStats[k] \notin Stats!Running
      BY <1>1 DEF LogInv, SoleStatsInv, StatsInv, OpenInv, Stats!Running
    <3>2. /\ UNCHANGED <<csv, file, reports, stuck, racedStats>>
          /\ pcStats' = [pcStats EXCEPT ![c] = "err"] \/
               (pcStats' = [pcStats EXCEPT ![c] = "subscribe"] /\ Stats!Put(c, 1, Stats!Header))
      OBVIOUS
    <3>3. CASE pcStats' = [pcStats EXCEPT ![c] = "subscribe"] /\ Stats!Put(c, 1, Stats!Header)
      <4>1. lines'[c] = <<Stats!Header>>
        BY <1>1, <3>1, <3>3 DEF Stats!Put
      <4>2. LogN(c, 0) = <<Stats!Header>> /\ 0 \in 0..MaxRows
        BY DEF LogN
      <4>3. Stats!Uncut(lines'[c]) = LogN(c, 0) /\ reports'[c] = 0 /\ 0 \in 0..reports'[c]
        BY <3>1, <3>2, <4>1, <4>2, LogNUncut
      <4>4. pcStats'[c] = "subscribe" /\ \A k \in Callers \ {c} : pcStats'[k] = pcStats[k]
        BY <1>1, <3>3
      <4>5. csv' = c /\ file'[c] = c /\ lines'[c] = LogN(c, reports'[c])
        BY <3>1, <3>2, <4>1, <4>2, <4>3
      <4> HIDE <1>5
      <4> QED
        BY <3>1, <4>3, <4>4, <4>5 DEF LogInv, Stats!Running
    <3> QED
      BY <1>1, <3>1, <3>2, <3>3 DEF LogInv, Stats!Running
  <2> QED
    BY <2>1, <2>2
<1>6. CASE Stats!Subscribe(c)
  <2> USE <1>6 DEF Stats!Subscribe
  <2>1. SoleStatsInv'
    BY <1>1 DEF SoleStatsInv, Stats!Running
  <2>2. LogInv'
    BY <1>1 DEF SoleStatsInv, LogInv, StatsInv, OpenInv, Stats!Running
  <2> QED
    BY <2>1, <2>2
<1>7. CASE Stats!Report(c)
  <2> USE <1>7 DEF Stats!Report
  <2>1. SoleStatsInv'
    BY <1>1 DEF SoleStatsInv, Stats!Running
  <2>2. LogInv'
    <3> SUFFICES ASSUME ~racedStats PROVE LogInv'
      BY DEF LogInv
    <3> DEFINE m == reports[c]
    <3>1. /\ csv = c /\ file[c] = c /\ m \in 0..MaxRows /\ m + 1 \in 0..MaxRows
          /\ ~stuck[c] => lines[c] = LogN(c, m)
          /\ \A k \in Callers \ {c} : pcStats[k] \notin Stats!Running
      BY <1>1 DEF LogInv, SoleStatsInv, Stats!Running
    <3>2. PICK n \in 0..m : Stats!Uncut(lines[c]) = LogN(c, n)
      BY <1>1 DEF LogInv
    <3>3. /\ UNCHANGED <<csv, pcStats, file, racedStats>> /\ pcStats[c] = "stream"
          /\ reports'[c] = m + 1
      BY <1>1
    <3>4. \E j \in 0..m + 1 : Stats!Uncut(lines'[c]) = LogN(c, j)
      <4>1. CASE lines' = lines
        BY <4>1, <3>1, <3>2
      <4>2. CASE ~stuck[c] /\ Stats!Put(c, m + 2, Stats!Row(c, m + 1))
        <5>1. lines'[c] = Append(LogN(c, m), Stats!Row(c, m + 1))
          BY <4>2, <1>1, <3>1, LogNType DEF Stats!Put
        <5>2. lines'[c] = LogN(c, m + 1)
          BY <5>1, <3>1, LogNAppend
        <5>3. Stats!Uncut(lines'[c]) = LogN(c, m + 1)
          BY <5>2, <3>1, LogNUncut
        <5>4. m + 1 \in 0..m + 1
          BY <3>1
        <5> HIDE DEF m
        <5> QED
          BY <5>3, <5>4
      <4>3. CASE ~stuck[c] /\ Stats!Put(c, m + 2, Stats!Cut)
        <5>1. lines'[c] = Append(LogN(c, m), Stats!Cut)
          BY <4>3, <1>1, <3>1, LogNType DEF Stats!Put
        <5> QED
          BY <5>1, <3>1, LogNUncut
      <4> QED
        BY <4>1, <4>2, <4>3 DEF Stats!PutFails
    <3>5. ~stuck'[c] => lines'[c] = LogN(c, m + 1)
      <4>1. ~stuck'[c] => ~stuck[c] /\ Stats!Put(c, m + 2, Stats!Row(c, m + 1))
        BY <1>1
      <4>2. ASSUME ~stuck[c], Stats!Put(c, m + 2, Stats!Row(c, m + 1))
            PROVE  lines'[c] = Append(LogN(c, m), Stats!Row(c, m + 1))
        BY <4>2, <1>1, <3>1, LogNType DEF Stats!Put
      <4> QED
        BY <4>1, <4>2, <3>1, LogNAppend
    <3> HIDE <1>7
    <3> QED
      BY <1>1, <3>1, <3>3, <3>4, <3>5 DEF LogInv, Stats!Running
  <2> QED
    BY <2>1, <2>2
<1>8. CASE Stats!EndOfStream(c)
  <2> USE <1>8 DEF Stats!EndOfStream
  <2>1. SoleStatsInv'
    BY <1>1 DEF SoleStatsInv, Stats!Running
  <2>2. LogInv'
    BY <1>1 DEF SoleStatsInv, LogInv, StatsInv, OpenInv, Stats!Running
  <2> QED
    BY <2>1, <2>2
<1>9. CASE Stats!Crash(c)
  <2> USE <1>9 DEF Stats!Crash
  <2>1. SoleStatsInv'
    BY <1>1 DEF SoleStatsInv, Stats!Running
  <2>2. LogInv'
    BY <1>1 DEF SoleStatsInv, LogInv, StatsInv, OpenInv, Stats!Running
  <2> QED
    BY <2>1, <2>2
<1> QED
  BY <1>2, <1>3, <1>4, <1>5, <1>6, <1>7, <1>8, <1>9 DEF Stats!Step

LEMMA StatsKept ==
  StatsInv /\ SoleStatsInv /\ LogInv /\ UNCHANGED stats => StatsInv' /\ SoleStatsInv' /\ LogInv'
  BY DEF StatsInv, OpenInv, SoleStatsInv, LogInv, Stats!TypeOK, stats

-----------------------------------------------------------------------------
(* The three side by side *)

OneFunction ==
  \A c \in Callers :
    /\ pc[c] # "idle" => pcUser[c] = "idle" /\ pcStats[c] = "idle"
    /\ pcUser[c] # "idle" => pcStats[c] = "idle"

IInv == ExecutorInv /\ RaceInv /\ UserInv /\ StatsInv /\ SoleStatsInv /\ LogInv /\ OneFunction

\* A step of call c moves no other call.
LEMMA StepMovesOne ==
  ASSUME NEW c \in Callers, NEW k \in Callers \ {c}
  PROVE  /\ ExecutorInv /\ Executor!Step(c) => pc'[k] = pc[k]
         /\ UserInv /\ User!Step(c) => pcUser'[k] = pcUser[k]
         /\ StatsInv /\ Stats!Step(c) => pcStats'[k] = pcStats[k]
<1>1. ASSUME ExecutorInv, Executor!Step(c) PROVE pc'[k] = pc[k]
  <2>1. \E l : Executor!Goto(c, l)
    BY <1>1
    DEF Executor!Step, Executor!Begin, Executor!Write, Executor!CheckFinal, Executor!Compare,
        Executor!RemoveTmp, Executor!Rename, Executor!Chmod, Executor!Open, Executor!Crash,
        Executor!Fails
  <2>2. pc = [j \in Callers |-> pc[j]]
    BY <1>1 DEF ExecutorInv, Executor!TypeOK
  <2> QED
    BY <2>1, <2>2 DEF Executor!Goto
<1>2. ASSUME UserInv, User!Step(c) PROVE pcUser'[k] = pcUser[k]
  <2>1. \E l : User!Goto(c, l)
    BY <1>2
    DEF User!Step, User!Begin, User!WriteText, User!CreateTemp, User!WriteTemp, User!Parse,
        User!Rename, User!Chmod, User!RemoveTemp, User!Crash, User!Fails
  <2>2. pcUser = [j \in Callers |-> pcUser[j]]
    BY <1>2 DEF UserInv, User!TypeOK
  <2> QED
    BY <2>1, <2>2 DEF User!Goto
<1>3. ASSUME StatsInv, Stats!Step(c) PROVE pcStats'[k] = pcStats[k]
  <2>1. Stats!Report(c) \/ \E l : Stats!Goto(c, l)
    BY <1>3
    DEF Stats!Step, Stats!Begin, Stats!RemoveOld, Stats!Open, Stats!WriteHeader,
        Stats!Subscribe, Stats!EndOfStream, Stats!Crash, Stats!Fails
  <2>2. pcStats = [j \in Callers |-> pcStats[j]]
    BY <1>3 DEF StatsInv, Stats!TypeOK
  <2> QED
    BY <2>1, <2>2 DEF Stats!Goto, Stats!Report
<1> QED
  BY <1>1, <1>2, <1>3

LEMMA InitInv == Init => IInv
<1> SUFFICES ASSUME Init PROVE IInv
  OBVIOUS
<1>1. ExecutorInv /\ RaceInv /\ UserInv /\ StatsInv /\ SoleStatsInv /\ LogInv
  BY ExecutorInit, RaceInit, UserInit, StatsInit, LogInit DEF Init
<1>2. OneFunction
  BY DEF Init, Executor!Init, User!Init, Stats!Init, OneFunction
<1> QED
  BY <1>1, <1>2 DEF IInv

LEMMA NextInv == IInv /\ [Next]_vars => IInv'
<1> SUFFICES ASSUME IInv, [Next]_vars PROVE IInv'
  OBVIOUS
<1> USE DEF IInv
<1>1. ASSUME NEW c \in Callers, Execute(c) PROVE IInv'
  <2>1. ExecutorInv' /\ RaceInv' /\ UserInv' /\ StatsInv' /\ SoleStatsInv' /\ LogInv'
    BY <1>1, ExecutorStep, RaceStep, UserKept, StatsKept DEF Execute
  <2>2. /\ pcUser' = pcUser /\ pcStats' = pcStats /\ pcUser[c] = "idle" /\ pcStats[c] = "idle"
        /\ \A k \in Callers \ {c} : pc'[k] = pc[k]
    BY <1>1, StepMovesOne DEF Execute, user, stats
  <2>3. OneFunction'
    BY <2>2 DEF OneFunction
  <2> QED
    BY <2>1, <2>3
<1>2. ASSUME NEW c \in Callers, Prepare(c) PROVE IInv'
  <2>1. ExecutorInv' /\ RaceInv' /\ UserInv' /\ StatsInv' /\ SoleStatsInv' /\ LogInv'
    BY <1>2, UserStep, ExecutorKept, RaceKept, StatsKept DEF Prepare
  <2>2. /\ pc' = pc /\ pcStats' = pcStats /\ pc[c] = "idle" /\ pcStats[c] = "idle"
        /\ \A k \in Callers \ {c} : pcUser'[k] = pcUser[k]
    BY <1>2, StepMovesOne DEF Prepare, executor, stats
  <2>3. OneFunction'
    BY <2>2 DEF OneFunction
  <2> QED
    BY <2>1, <2>3
<1>3. ASSUME NEW c \in Callers, Log(c) PROVE IInv'
  <2>1. ExecutorInv' /\ RaceInv' /\ UserInv' /\ StatsInv' /\ SoleStatsInv' /\ LogInv'
    BY <1>3, StatsStep, LogStep, ExecutorKept, RaceKept, UserKept DEF Log
  <2>2. /\ pc' = pc /\ pcUser' = pcUser /\ pc[c] = "idle" /\ pcUser[c] = "idle"
        /\ \A k \in Callers \ {c} : pcStats'[k] = pcStats[k]
    BY <1>3, StepMovesOne DEF Log, executor, user
  <2>3. OneFunction'
    BY <2>2 DEF OneFunction
  <2> QED
    BY <2>1, <2>3
<1>4. CASE UNCHANGED vars
  <2>1. UNCHANGED executor /\ UNCHANGED user /\ UNCHANGED stats
    BY <1>4 DEF vars
  <2>2. OneFunction'
    BY <2>1 DEF OneFunction, executor, user, stats
  <2> QED
    BY <2>1, <2>2, ExecutorKept, RaceKept, UserKept, StatsKept
<1> QED
  BY <1>1, <1>2, <1>3, <1>4 DEF Next, AllEnded

LEMMA SpecInv == Spec => []IInv
  BY InitInv, NextInv, PTL DEF Spec

\* The type invariants of the components hold beside each other, and a call is of one
\* function only.
THEOREM TypeCorrect == Spec => []TypeOK
<1>1. IInv => TypeOK
  BY DEF IInv, OneFunction, ExecutorInv, UserInv, StatsInv, TypeOK
<1> QED
  BY <1>1, SpecInv, PTL

\* As long as calls of GenerateExecutor come one at a time, what is under executorPath
\* is a complete script, wherever they fail or die (executor.go:28-32, 126-127).
THEOREM InstalledWhole == Spec => []InstalledIsWhole
<1>1. IInv => InstalledIsWhole
  BY DEF IInv, ExecutorInv, InstalledIsWhole
<1> QED
  BY <1>1, SpecInv, PTL

\* Any number of calls of GenerateExecutor race on the temporary name, and none dies or meets
\* an error of the system: when all have ended one of them has succeeded, the installed file is
\* executable, and it is whole if they agree on the script (executor.go:32-134).
THEOREM RacersDoSucceed == Spec => []RacersSucceed
<1>1. IInv => RacersSucceed
  <2> SUFFICES ASSUME IInv, ~struck, Executor!Quiet,
                      NEW c \in Callers, pc[c] \in Executor!Ended
               PROVE  /\ \E k \in Callers : pc[k] = "ok"
                      /\ final # NoFile /\ exec[final]
                      /\ (\A j, k \in Callers :
                            pc[j] \in Executor!Ended /\ pc[k] \in Executor!Ended =>
                              script[j] = script[k]) => Executor!Whole(final)
    BY DEF RacersSucceed, Executor!RacersSucceed, Executor!Ended
  <2>1. /\ ExecutorInv /\ PlaceInv /\ WinnerInv /\ ModeInv /\ AgreedInv
        /\ \A k \in Callers : pc[k] \in {"idle"} \cup Executor!Ended
    BY DEF IInv, RaceInv, ExecutorInv, Executor!TypeOK, Executor!Quiet
  <2>2. PICK w \in Callers : pc[w] = "ok"
    BY <2>1 DEF WinnerInv, Executor!Ended
  <2>3. final \in Callers /\ exec[final]
    BY <2>1, <2>2 DEF PlaceInv, ModeInv, ExecutorInv, Executor!TypeOK, Executor!Ended
  <2>4. ASSUME \A j, k \in Callers :
                 pc[j] \in Executor!Ended /\ pc[k] \in Executor!Ended => script[j] = script[k]
        PROVE  Executor!Whole(final)
    <3>1. Agreed
      BY <2>1, <2>4 DEF Agreed
    <3>2. PICK k \in Callers : pc[k] # "idle" /\ Mine(final, k)
      BY <2>1, <2>3, <3>1 DEF AgreedInv, Executor!Ended
    <3>3. script[k] # 0
      BY <2>1, <3>2, HostFilesAssumption DEF PlaceInv
    <3> QED
      BY <3>2, <3>3 DEF Mine, Executor!Whole
  <2> QED
    BY <2>2, <2>3, <2>4, HostFilesAssumption
<1> QED
  BY <1>1, SpecInv, PTL

\* What is under user_script.sh has been parsed by bash as a whole, however calls race,
\* fail or die (executor.go:232-265).
THEOREM OnlyChecked == Spec => []OnlyCheckedScripts
<1>1. IInv => OnlyCheckedScripts
  BY DEF IInv, UserInv, CheckedInv, OnlyCheckedScripts, User!OnlyCheckedScripts
<1> QED
  BY <1>1, SpecInv, PTL

\* As long as calls of GenerateExecutor come one at a time, one that returns without an
\* error has installed its script, executable unless an earlier call ended between its
\* rename and its chmod (executor.go:113-134).
THEOREM OkInstalls == Spec => OkInstallsMyScript
<1> DEFINE A == \A c \in Callers :
       ~raced /\ pc[c] # "ok" /\ pc'[c] = "ok" =>
         /\ final' # NoFile
         /\ content'[final'] = [head |-> script[c], len |-> script[c]]
         /\ exec'[final'] \/ broken
<1>1. ASSUME ExecutorInv, NEW k \in Callers, Executor!Step(k) PROVE A
  <2> SUFFICES ASSUME NEW c \in Callers, ~raced, pc[c] # "ok", pc'[c] = "ok"
               PROVE  /\ final' # NoFile
                      /\ content'[final'] = [head |-> script[c], len |-> script[c]]
                      /\ exec'[final'] \/ broken
    OBVIOUS
  <2>1. c = k
    BY <1>1, StepMovesOne
  <2>2. pc \in [Callers -> {"idle"} \cup Executor!Running \cup Executor!Ended]
    BY <1>1 DEF ExecutorInv, Executor!TypeOK
  <2>3. /\ pc[c] \in {"removeTmp", "open"}
        /\ UNCHANGED <<final, content, exec>>
    BY <1>1, <2>1, <2>2
    DEF Executor!Step, Executor!Begin, Executor!Write, Executor!CheckFinal, Executor!Compare,
        Executor!RemoveTmp, Executor!Rename, Executor!Chmod, Executor!Open, Executor!Crash,
        Executor!Fails, Executor!Goto, Executor!disk
  <2>4. final # NoFile /\ Mine(final, c)
    BY <1>1, <2>3 DEF ExecutorInv, FinalInv
  <2>5. \A j \in Callers : pc[j] # "chmod"
    BY <1>1, <2>3 DEF ExecutorInv, SoleInv, Executor!Running
  <2>6. exec[final] \/ broken
    BY <1>1, <2>4, <2>5 DEF ExecutorInv, FinalInv
  <2> QED
    BY <2>3, <2>4, <2>6 DEF Mine
<1>2. IInv /\ [Next]_vars => [A]_<<Executor!disk, pc, script, fd, Executor!history>>
  <2> SUFFICES ASSUME IInv, [Next]_vars
               PROVE  A \/ UNCHANGED <<Executor!disk, pc, script, fd, Executor!history>>
    OBVIOUS
  <2>1. (\E k \in Callers : Executor!Step(k)) \/ UNCHANGED executor
    BY DEF Next, Execute, Prepare, Log, AllEnded, vars
  <2>2. UNCHANGED executor => UNCHANGED <<Executor!disk, pc, script, fd, Executor!history>>
    BY DEF executor, Executor!disk, Executor!history
  <2> QED
    BY <1>1, <2>1, <2>2 DEF IInv
<1> QED
  BY <1>2, SpecInv, PTL DEF Spec, OkInstallsMyScript, Executor!OkInstallsMyScript, Executor!vars

\* As long as calls of ProcessScript come one at a time, one that returns nil has left its
\* own script, executable, and the same text (executor.go:226-270).
THEOREM ScriptMine == Spec => ScriptIsMine
<1> DEFINE A == \A c \in Callers :
       ~racedUser /\ pcUser[c] # "ok" /\ pcUser'[c] = "ok" =>
         /\ sh' = c /\ mode'[c] /\ body'[c] = text[c]
         /\ txt' = [head |-> text[c], len |-> text[c]]
<1>1. ASSUME UserInv, NEW k \in Callers, User!Step(k) PROVE A
  <2> SUFFICES ASSUME NEW c \in Callers, ~racedUser, pcUser[c] # "ok", pcUser'[c] = "ok"
               PROVE  /\ sh' = c /\ mode'[c] /\ body'[c] = text[c]
                      /\ txt' = [head |-> text[c], len |-> text[c]]
    OBVIOUS
  <2>1. c = k
    BY <1>1, StepMovesOne
  <2>2. /\ pcUser \in [Callers -> {"idle"} \cup User!Running \cup User!Ended]
        /\ mode \in [Callers -> BOOLEAN]
    BY <1>1 DEF UserInv, User!TypeOK
  <2>3. User!Chmod(c)
    BY <1>1, <2>1, <2>2
    DEF User!Step, User!Begin, User!WriteText, User!CreateTemp, User!WriteTemp, User!Parse,
        User!Rename, User!RemoveTemp, User!Crash, User!Fails, User!Goto, User!disk
  <2>4. sh = c /\ body[c] = text[c] /\ txt = [head |-> text[c], len |-> text[c]]
    BY <1>1, <2>3 DEF UserInv, TextInv, User!Chmod
  <2> QED
    BY <2>2, <2>3, <2>4 DEF User!Chmod, User!Goto, User!Fails
<1>2. IInv /\ [Next]_vars => [A]_<<User!disk, pcUser, text, racedUser>>
  <2> SUFFICES ASSUME IInv, [Next]_vars
               PROVE  A \/ UNCHANGED <<User!disk, pcUser, text, racedUser>>
    OBVIOUS
  <2>1. (\E k \in Callers : User!Step(k)) \/ UNCHANGED user
    BY DEF Next, Execute, Prepare, Log, AllEnded, vars
  <2>2. UNCHANGED user => UNCHANGED <<User!disk, pcUser, text, racedUser>>
    BY DEF user, User!disk
  <2> QED
    BY <1>1, <2>1, <2>2 DEF IInv
<1> QED
  BY <1>2, SpecInv, PTL DEF Spec, ScriptIsMine, User!ScriptIsMine, User!vars

\* As long as calls of LogContainerStatsToCSV come one at a time, one that returns nil has
\* left its own reports, in order and without those of an earlier log, and all of them
\* unless a row could not be written (resource.go:21-83).
THEOREM RowsAreReports == Spec => RowsAreTheReports
<1> DEFINE A == \A c \in Callers :
       ~racedStats /\ pcStats[c] # "ok" /\ pcStats'[c] = "ok" =>
         /\ csv' = file[c]
         /\ Stats!IsPrefix(Stats!Uncut(lines'[csv']), Stats!LogOf(c))
         /\ ~stuck[c] => lines'[csv'] = Stats!LogOf(c)
<1>1. ASSUME StatsInv, LogInv, NEW k \in Callers, Stats!Step(k) PROVE A
  <2> USE HostFilesAssumption
  <2> SUFFICES ASSUME NEW c \in Callers, ~racedStats, pcStats[c] # "ok", pcStats'[c] = "ok"
               PROVE  /\ csv' = file[c]
                      /\ Stats!IsPrefix(Stats!Uncut(lines'[csv']), Stats!LogOf(c))
                      /\ ~stuck[c] => lines'[csv'] = Stats!LogOf(c)
    OBVIOUS
  <2>1. c = k
    BY <1>1, StepMovesOne
  <2>2. /\ pcStats \in [Callers -> {"idle"} \cup Stats!Running \cup Stats!Ended]
        /\ reports[c] \in 0..MaxRows
    BY <1>1 DEF StatsInv, Stats!TypeOK
  <2>3. Stats!EndOfStream(c)
    BY <1>1, <2>1, <2>2
    DEF Stats!Step, Stats!Begin, Stats!AfterStat, Stats!RemoveOld, Stats!Open,
        Stats!WriteHeader, Stats!Subscribe, Stats!Report, Stats!Crash, Stats!Fails, Stats!Goto
  <2>4. /\ csv = c /\ file[c] = c /\ (~stuck[c] => lines[c] = LogN(c, reports[c]))
        /\ \E n \in 0..reports[c] : Stats!Uncut(lines[c]) = LogN(c, n)
    BY <1>1, <2>3 DEF LogInv, Stats!EndOfStream
  <2>5. Stats!LogOf(c) = LogN(c, reports[c])
    BY DEF Stats!LogOf, LogN
  <2>6. \A n \in 0..reports[c] : Stats!IsPrefix(LogN(c, n), LogN(c, reports[c]))
    BY <2>2, LogNPrefix
  <2> QED
    BY <2>3, <2>4, <2>5, <2>6 DEF Stats!EndOfStream
<1>2. IInv /\ [Next]_vars => [A]_Stats!vars
  <2> SUFFICES ASSUME IInv, [Next]_vars PROVE A \/ UNCHANGED Stats!vars
    OBVIOUS
  <2>1. (\E k \in Callers : Stats!Step(k)) \/ UNCHANGED stats
    BY DEF Next, Execute, Prepare, Log, AllEnded, vars
  <2>2. UNCHANGED stats => UNCHANGED Stats!vars
    BY DEF stats, Stats!vars
  <2> QED
    BY <1>1, <2>1, <2>2 DEF IInv
<1> QED
  BY <1>2, SpecInv, PTL DEF Spec, RowsAreTheReports, Stats!RowsAreTheReports

=============================================================================
