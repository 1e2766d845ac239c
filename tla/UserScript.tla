----------------------------- MODULE UserScript -----------------------------
(***************************************************************************)
(* ProcessScript (executor.go:210-271): callers that put a user script into*)
(* one directory, as the text user_script.txt and, when bash can parse it, *)
(* as the executable user_script.sh.  A step is one system call; a process *)
(* may die between two.                                                    *)
(*                                                                         *)
(* The text is written in place; the script goes through a temporary file  *)
(* with a name of its own, and is named here by the call that created it.  *)
(* A script is its length.                                                 *)
(***************************************************************************)
EXTENDS Integers

CONSTANTS
  Callers,  \* the calls of ProcessScript
  Scripts,  \* the scripts they are given, as their lengths
  Parsing,  \* those bash -n accepts
  Faults,   \* "io": a system call fails; "crash": a process dies
  NoFile    \* no file under a name

VARIABLES
  txt,   \* user_script.txt: the script its bytes begin with (0: none) and its length
  sh,    \* the file under user_script.sh
  temp,  \* the calls whose temporary name exists
  body,  \* per call, the whole script in the file it created, 0 for none
  mode,  \* per call, whether that file is executable
  pc,    \* where each call is
  text,  \* its scriptContent
  raced  \* history: a call has begun while another was running

disk == <<txt, sh, temp, body, mode>>
vars == <<disk, pc, text, raced>>

Ended == {"ok", "err", "dead"}
Temporary == {"write", "parse", "rename", "remove"}
Running == {"txt", "createTemp", "chmod"} \cup Temporary

\* The type invariant; a call that returns nil leaves no temporary file
\* (executor.go:238-242).
TypeOK ==
  /\ txt \in [head : Scripts \cup {0}, len : Scripts \cup {0}]
  /\ sh \in Callers \cup {NoFile}
  /\ temp \subseteq {c \in Callers : pc[c] \in Temporary \cup {"err", "dead"}}
  /\ body \in [Callers -> Scripts \cup {0}]
  /\ mode \in [Callers -> BOOLEAN]
  /\ pc \in [Callers -> {"idle"} \cup Running \cup Ended]
  /\ text \in [Callers -> Scripts \cup {0}]
  /\ raced \in BOOLEAN

Init ==
  /\ txt = [head |-> 0, len |-> 0]
  /\ sh = NoFile /\ temp = {}
  /\ body = [c \in Callers |-> 0]
  /\ mode = [c \in Callers |-> FALSE]
  /\ pc = [c \in Callers |-> "idle"]
  /\ text = [c \in Callers |-> 0]
  /\ raced = FALSE

Quiet == \A c \in Callers : pc[c] \notin Running

Goto(c, l) == pc' = [pc EXCEPT ![c] = l]

\* A system call of c fails; the deferred removal, if there is one, comes at l.
Fails(c, l) == "io" \in Faults /\ Goto(c, l)

-----------------------------------------------------------------------------

\* MUTANT of Opened: the text is opened without O_TRUNC.
OpenedInPlace == txt

Opened == [head |-> 0, len |-> 0]

\* The checks of the path, its directory, and os.WriteFile's open of the text
Begin(c) ==
  /\ pc[c] = "idle"
  /\ raced' = (raced \/ ~Quiet)
  /\ \E s \in Scripts : text' = [text EXCEPT ![c] = s]
  /\ \/ txt' = Opened /\ Goto(c, "txt")
     \/ Fails(c, "err") /\ UNCHANGED txt
  /\ UNCHANGED <<sh, temp, body, mode>>

\* A shorter text over a longer one leaves the tail of that; a write that fails
\* may have been cut short.
WriteText(c) ==
  /\ pc[c] = "txt"
  /\ \E head \in {text[c], 0} :
       /\ txt' = [head |-> head, len |-> IF txt.len < text[c] THEN text[c] ELSE txt.len]
       /\ IF head = 0 THEN Fails(c, "err") ELSE Goto(c, "createTemp")
  /\ UNCHANGED <<sh, temp, body, mode, text, raced>>

\* os.CreateTemp: a name nobody else has
CreateTemp(c) ==
  /\ pc[c] = "createTemp"
  /\ \/ temp' = temp \cup {c} /\ Goto(c, "write")
     \/ Fails(c, "err") /\ UNCHANGED temp
  /\ UNCHANGED <<txt, sh, body, mode, text, raced>>

WriteTemp(c) ==
  /\ pc[c] = "write"
  /\ \/ body' = [body EXCEPT ![c] = text[c]] /\ Goto(c, "parse")
     \/ Fails(c, "remove") /\ UNCHANGED body
  /\ UNCHANGED <<txt, sh, temp, mode, text, raced>>

\* MUTANT of Checked: it is the text that bash -n reads.
CheckedText(c) == txt.head

Checked(c) == body[c]

\* bash -n accepts the file, or does not, or cannot be run.
Parse(c) ==
  /\ pc[c] = "parse"
  /\ \/ Goto(c, IF Checked(c) \in Parsing THEN "rename" ELSE "remove")
     \/ Fails(c, "remove")
  /\ UNCHANGED <<disk, text, raced>>

Rename(c) ==
  /\ pc[c] = "rename"
  /\ \/ sh' = c /\ temp' = temp \ {c} /\ Goto(c, "chmod")
     \/ Fails(c, "remove") /\ UNCHANGED <<sh, temp>>
  /\ UNCHANGED <<txt, body, mode, text, raced>>

\* os.Chmod goes by name; the deferred removal finds nothing any more.
Chmod(c) ==
  /\ pc[c] = "chmod"
  /\ \/ mode' = [mode EXCEPT ![sh] = TRUE] /\ Goto(c, "ok")
     \/ Fails(c, "err") /\ UNCHANGED mode
  /\ UNCHANGED <<txt, sh, temp, body, text, raced>>

\* The deferred removal after an error, whose own error is logged
RemoveTemp(c) ==
  /\ pc[c] = "remove"
  /\ temp' = temp \ {c} \/ ("io" \in Faults /\ UNCHANGED temp)
  /\ Goto(c, "err")
  /\ UNCHANGED <<txt, sh, body, mode, text, raced>>

\* The process of a call dies.
Crash(c) ==
  /\ "crash" \in Faults
  /\ pc[c] \in Running
  /\ Goto(c, "dead")
  /\ UNCHANGED <<disk, text, raced>>

-----------------------------------------------------------------------------

Step(c) ==
  \/ Begin(c) \/ WriteText(c) \/ CreateTemp(c) \/ WriteTemp(c) \/ Parse(c)
  \/ Rename(c) \/ Chmod(c) \/ RemoveTemp(c) \/ Crash(c)

Next == \E c \in Callers : Step(c)

Spec == Init /\ [][Next]_vars

-----------------------------------------------------------------------------
(* Properties *)

\* Whatever is under user_script.sh is one whole script that bash has parsed, however
\* calls race, fail or die: none installs the bytes of another, half of its own, or a
\* script that another has had checked (executor.go:232-265).
OnlyCheckedScripts == sh # NoFile => body[sh] \in Parsing

\* As long as calls come one at a time, and wherever the earlier ones failed or died:
\* one that returns nil leaves its own script, executable, and the same script and
\* nothing more as the text (executor.go:226-270).
ScriptIsMine ==
  [][\A c \in Callers :
       ~raced /\ pc[c] # "ok" /\ pc'[c] = "ok" =>
         /\ sh' = c /\ mode'[c] /\ body'[c] = text[c]
         /\ txt' = [head |-> text[c], len |-> text[c]]]_vars

=============================================================================
