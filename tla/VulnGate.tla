------------------------------ MODULE VulnGate ------------------------------
(***************************************************************************)
(* cmd/govulncheckgate: the CI gate that reads a list of exceptions and the*)
(* message stream of govulncheck, and passes only when every reachable     *)
(* finding is excused.  Findings are grouped by their ID in a Go map, so   *)
(* the groups are evaluated in any order.  A package is the sequence of its*)
(* path elements, the empty one standing for "no package given".           *)
(***************************************************************************)
EXTENDS Integers, SequencesExt

CONSTANTS
  FindingIds, Modules, Packages,  \* what findings and exceptions speak of
  MaxExceptions,           \* bound: entries of the exceptions file
  MaxMessages              \* bound: messages of the stream

ASSUME GateAssumption ==
  /\ Packages \subseteq Seq(STRING)
  /\ MaxExceptions \in Nat /\ MaxMessages \in Nat

Exceptions == [id : FindingIds, module : Modules, pkg : Packages,
               expires : {"future", "past", "invalid"}]

\* A finding with a trace, known by its deepest frame; "other" stands for every
\* message without one, "malformed" for what is no message.
Findings == [id : FindingIds, module : Modules, pkg : Packages]
Messages == [kind : {"finding"}, finding : Findings]
            \cup [kind : {"other", "malformed"}]

VARIABLES
  exceptions,  \* the exceptions file
  messages,    \* the stream
  gate,        \* where it is: "load", "decode", "evaluate", "report", "pass", "fail"
  count,       \* messages decoded
  reachable,   \* the findings among them
  todo,        \* the IDs still to be evaluated
  uncovered,   \* the findings complained about
  expired,     \* the exceptions, by position, complained about
  used         \* the exceptions, by position, that have excused a finding

gateVars == <<exceptions, messages, gate, count, reachable, todo, uncovered, expired, used>>

GateInit ==
  /\ exceptions \in BoundedSeq(Exceptions, MaxExceptions)
  /\ messages \in BoundedSeq(Messages, MaxMessages)
  /\ gate = "load" /\ count = 0
  /\ reachable = {} /\ todo = {} /\ uncovered = {} /\ expired = {} /\ used = {}

-----------------------------------------------------------------------------

\* The file may be missing or not parse; the input may not open.
Load ==
  /\ gate = "load"
  /\ gate' \in {"decode", "fail"}
  /\ UNCHANGED <<exceptions, messages, count, reachable, todo, uncovered, expired, used>>

\* No message at all is a scan that failed, not a clean one.
EndOfInput == IF count = 0 THEN "fail" ELSE "evaluate"

\* parseReachableFindings takes one message, or has reached the end.
Decode ==
  /\ gate = "decode"
  /\ IF count = Len(messages)
     THEN /\ gate' = EndOfInput
          /\ todo' = {f.id : f \in reachable}
          /\ UNCHANGED <<count, reachable>>
     ELSE LET m == messages[count + 1]
          IN /\ UNCHANGED todo
             /\ IF m.kind = "malformed"
                THEN gate' = "fail" /\ UNCHANGED <<count, reachable>>
                ELSE /\ count' = count + 1
                     /\ reachable' = reachable \cup
                          (IF m.kind = "finding" THEN {m.finding} ELSE {})
                     /\ UNCHANGED gate
  /\ UNCHANGED <<exceptions, messages, uncovered, expired, used>>

\* The package itself or a parent of it; an exception without one covers none.
PackageCovers(exceptionPkg, findingPkg) ==
  \/ exceptionPkg = findingPkg
  \/ exceptionPkg # <<>> /\ IsStrictPrefix(exceptionPkg, findingPkg)

Matches(exc, f) ==
  /\ exc.id = f.id /\ exc.module = f.module
  /\ f.pkg # <<>> => PackageCovers(exc.pkg, f.pkg)

\* MUTANT of Excuses: the date is not compared.
ExcusesExpired(i, f) == exceptions[i].expires # "invalid" /\ Matches(exceptions[i], f)

Excuses(i, f) == exceptions[i].expires = "future" /\ Matches(exceptions[i], f)

Positions == DOMAIN exceptions

\* MUTANT of NowUsed: only what the last ID used is kept.
NowUsedLast(group) == {i \in Positions : \E f \in group : Excuses(i, f)}

NowUsed(group) == used \cup {i \in Positions : \E f \in group : Excuses(i, f)}

\* coveredByExceptions for one ID: every exception that matches is looked at, so
\* one that has expired is a failure next to one that has not.
Evaluate(id) ==
  LET group == {f \in reachable : f.id = id}
  IN
  /\ gate = "evaluate" /\ id \in todo
  /\ todo' = todo \ {id}
  /\ used' = NowUsed(group)
  /\ expired' = expired \cup
       {i \in Positions : \E f \in group : Matches(exceptions[i], f) /\ ~Excuses(i, f)}
  /\ uncovered' = uncovered \cup {f \in group : ~ \E i \in Positions : Excuses(i, f)}
  /\ UNCHANGED <<exceptions, messages, gate, count, reachable>>

Evaluated ==
  /\ gate = "evaluate" /\ todo = {}
  /\ gate' = "report"
  /\ UNCHANGED <<exceptions, messages, count, reachable, todo, uncovered, expired, used>>

\* The warnings, then the failures or the success; writing them may fail.
Report ==
  /\ gate = "report"
  /\ gate' \in {IF uncovered = {} /\ expired = {} THEN "pass" ELSE "fail", "fail"}
  /\ UNCHANGED <<exceptions, messages, count, reachable, todo, uncovered, expired, used>>

Exited == gate \in {"pass", "fail"} /\ UNCHANGED gateVars

GateNext ==
  Load \/ Decode \/ (\E id \in FindingIds : Evaluate(id)) \/ Evaluated \/ Report \/ Exited

GateSpec == GateInit /\ [][GateNext]_gateVars

-----------------------------------------------------------------------------
(* Properties *)

\* What the stream reports, read at one go
Reported == {messages[k].finding : k \in {k \in DOMAIN messages : messages[k].kind = "finding"}}

\* Whether an exception excuses a finding, as the file's own comment has it: same
\* ID, same module, the package or a parent of it, not expired
Approves(e, f) ==
  /\ e.id = f.id /\ e.module = f.module /\ e.expires = "future"
  /\ \/ f.pkg = <<>> \/ e.pkg = f.pkg
     \/ e.pkg # <<>> /\ \E n \in 1..(Len(f.pkg) - 1) : e.pkg = SubSeq(f.pkg, 1, n)

Approved(f) == \E i \in DOMAIN exceptions : Approves(exceptions[i], f)

\* The gate passes only on a stream that is not empty, is well formed to its end,
\* and reports nothing that is not approved (main.go:96-104, 158-193).
PassMeansApproved ==
  gate = "pass" =>
    /\ messages # <<>>
    /\ \A k \in DOMAIN messages : messages[k].kind # "malformed"
    /\ \A f \in Reported : Approved(f)

\* The warning that an exception is no longer needed is never given for one that
\* approves a reported finding, in whatever order the IDs come
\* (main.go:160-178, 226-227).
WarningsAreTrue ==
  gate = "report" =>
    \A i \in DOMAIN exceptions \ used : \A f \in Reported : ~Approves(exceptions[i], f)

=============================================================================
