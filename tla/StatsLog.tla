------------------------------ MODULE StatsLog ------------------------------
(***************************************************************************)
(* LogContainerStatsToCSV (resource.go:18-84): calls that log the          *)
(* statistics of one container, to a file named after it.  A step is one   *)
(* system call or one report of Podman; a process may die between two.     *)
(*                                                                         *)
(* A file is named by the call that created it and holds lines: a call goes*)
(* on writing into a file that another has removed or opened meanwhile.    *)
(***************************************************************************)
EXTENDS Integers, Sequences, SequencesExt

CONSTANTS
  Callers,  \* the calls of LogContainerStatsToCSV
  MaxRows,  \* bound: the reports a call may receive
  Faults,   \* "io": a system call or a request fails; "crash": a process dies
  NoFile    \* no file under csvPath

VARIABLES
  csv,      \* the file under csvPath
  lines,    \* per file, what is in it
  pc,       \* where each call is
  file,     \* the file it has open
  reports,  \* how many reports with statistics it has received
  stuck,    \* its writer has met an error, which it keeps
  raced     \* history: a call has begun while another was running

vars == <<csv, lines, pc, file, reports, stuck, raced>>

Ended == {"ok", "err", "dead"}
Running == {"remove", "open", "header", "subscribe", "stream"}

Row(c, n) == [of |-> c, row |-> n]
Header == [of |-> NoFile, row |-> 0]
Cut == [of |-> NoFile, row |-> -1]  \* a line cut short

Line == [of : Callers, row : 1..MaxRows] \cup {Header, Cut}

\* The type invariant; the file has as many lines as calls with it open have written.
TypeOK ==
  /\ csv \in Callers \cup {NoFile}
  /\ lines \in [Callers -> Seq(Line)]
  /\ pc \in [Callers -> {"idle"} \cup Running \cup Ended]
  /\ file \in [Callers -> Callers \cup {NoFile}]
  /\ reports \in [Callers -> 0..MaxRows]
  /\ stuck \in [Callers -> BOOLEAN]
  /\ raced \in BOOLEAN
  /\ \A c \in Callers :
       pc[c] = "stream" /\ ~stuck[c] => Len(lines[file[c]]) > reports[c]

Init ==
  /\ csv = NoFile
  /\ lines = [f \in Callers |-> <<>>]
  /\ pc = [c \in Callers |-> "idle"]
  /\ file = [c \in Callers |-> NoFile]
  /\ reports = [c \in Callers |-> 0]
  /\ stuck = [c \in Callers |-> FALSE]
  /\ raced = FALSE

Quiet == \A c \in Callers : pc[c] \notin Running

Goto(c, l) == pc' = [pc EXCEPT ![c] = l]

Fails(c) == "io" \in Faults /\ Goto(c, "err")

\* Call c writes line x at place i, where its own descriptor stands: over what
\* another has written there
Put(c, i, x) ==
  lines' = [lines EXCEPT ![file[c]] =
              IF i <= Len(@) THEN [@ EXCEPT ![i] = x] ELSE Append(@, x)]

\* A write that fails may leave the beginning of a line.
PutFails(c, i) == UNCHANGED lines \/ Put(c, i, Cut)

-----------------------------------------------------------------------------

\* MUTANT of AfterStat: an existing file is opened as it is.
AfterStatOpen == "open"

AfterStat == IF csv = NoFile THEN "open" ELSE "remove"

\* os.Stat
Begin(c) ==
  /\ pc[c] = "idle"
  /\ raced' = (raced \/ ~Quiet)
  /\ Goto(c, AfterStat) \/ Fails(c)
  /\ UNCHANGED <<csv, lines, file, reports, stuck>>

\* os.Remove fails as well when another call has removed the file.
RemoveOld(c) ==
  /\ pc[c] = "remove"
  /\ \/ csv # NoFile /\ csv' = NoFile /\ Goto(c, "open")
     \/ csv = NoFile /\ Goto(c, "err") /\ UNCHANGED csv
     \/ Fails(c) /\ UNCHANGED csv
  /\ UNCHANGED <<lines, file, reports, stuck, raced>>

\* O_CREATE alone: a file that another call has created meanwhile is shared.
Open(c) ==
  /\ pc[c] = "open"
  /\ \/ /\ csv' = IF csv = NoFile THEN c ELSE csv
        /\ file' = [file EXCEPT ![c] = csv']
        /\ Goto(c, "header")
     \/ Fails(c) /\ UNCHANGED <<csv, file>>
  /\ UNCHANGED <<lines, reports, stuck, raced>>

WriteHeader(c) ==
  /\ pc[c] = "header"
  /\ \/ Put(c, 1, Header) /\ Goto(c, "subscribe")
     \/ PutFails(c, 1) /\ Fails(c)
  /\ UNCHANGED <<csv, file, reports, stuck, raced>>

Subscribe(c) ==
  /\ pc[c] = "subscribe"
  /\ Goto(c, "stream") \/ Fails(c)
  /\ UNCHANGED <<csv, lines, file, reports, stuck, raced>>

\* A report with statistics: a row that cannot be written is only logged, and the
\* writer, which keeps its error, writes none after it.
Report(c) ==
  /\ pc[c] = "stream" /\ reports[c] < MaxRows
  /\ reports' = [reports EXCEPT ![c] = @ + 1]
  /\ \/ stuck[c] /\ UNCHANGED <<lines, stuck>>
     \/ ~stuck[c] /\ Put(c, reports[c] + 2, Row(c, reports[c] + 1)) /\ UNCHANGED stuck
     \/ /\ "io" \in Faults /\ ~stuck[c]
        /\ PutFails(c, reports[c] + 2)
        /\ stuck' = [stuck EXCEPT ![c] = TRUE]
  /\ UNCHANGED <<csv, pc, file, raced>>

\* The channel is closed, or a report says that the deadline has passed; a report of
\* any other error ends the call with it.
EndOfStream(c) ==
  /\ pc[c] = "stream"
  /\ Goto(c, "ok") \/ Fails(c)
  /\ UNCHANGED <<csv, lines, file, reports, stuck, raced>>

\* The process of a call dies.
Crash(c) ==
  /\ "crash" \in Faults
  /\ pc[c] \in Running
  /\ Goto(c, "dead")
  /\ UNCHANGED <<csv, lines, file, reports, stuck, raced>>

-----------------------------------------------------------------------------

Step(c) ==
  \/ Begin(c) \/ RemoveOld(c) \/ Open(c) \/ WriteHeader(c) \/ Subscribe(c)
  \/ Report(c) \/ EndOfStream(c) \/ Crash(c)

Next == \E c \in Callers : Step(c)

Spec == Init /\ [][Next]_vars

-----------------------------------------------------------------------------
(* Properties *)

\* The log of c as it should be: the header and its reports
LogOf(c) == [i \in 1..reports[c] + 1 |-> IF i = 1 THEN Header ELSE Row(c, i - 1)]

Uncut(s) == IF s # <<>> /\ Last(s) = Cut THEN Front(s) ELSE s

\* As long as calls come one at a time: one that returns nil has left under csvPath its
\* own reports in order, without the lines of an earlier log and without a gap, and all
\* of them unless a row could not be written (resource.go:21-83).
RowsAreTheReports ==
  [][\A c \in Callers :
       ~raced /\ pc[c] # "ok" /\ pc'[c] = "ok" =>
         /\ csv' = file[c]
         /\ IsPrefix(Uncut(lines'[csv']), LogOf(c))
         /\ ~stuck[c] => lines'[csv'] = LogOf(c)]_vars

=============================================================================
