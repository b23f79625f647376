------------------------------- MODULE Signals -------------------------------
(***************************************************************************)
(* print500000.c of studio15: a loop that prints its turns, a SIGINT       *)
(* handler that marks the turn it has interrupted, and a second loop over  *)
(* the same variable that reports the marks.                               *)
(*                                                                         *)
(* The signal may arrive between any two accesses to the shared variables; *)
(* one that arrives while another is pending is lost.  The handler is one  *)
(* step: main does not run meanwhile and SIGINT is blocked.  Between the   *)
(* end of a loop and the next assignment i is `size`, and the handler      *)
(* writes behind the array, which is where a compiler may put i itself.    *)
(***************************************************************************)
EXTENDS Integers, Sequences, SequencesExt

CONSTANTS size,       \* turns of the loops (500000 in the code)
          MaxSignals  \* bound: signals ever sent

SizeAssumption == size \in Nat \ {0}
SignalsAssumption == MaxSignals \in Nat

\* What is assumed of the constants.
ConstantsOK == SizeAssumption /\ SignalsAssumption

VARIABLES
  loop,      \* where main is: "start", "print", "report", "ended", "dead"
  at,        \* and where in its loop: "for", "test", "body", "step"
  i,
  called,    \* the turns that are marked
  pending,   \* a SIGINT has been sent and not delivered
  sent,      \* how many were sent
  marked,    \* history: the turns marked before the report began
  overrun,   \* history: a mark was written behind the array
  reported   \* the turns reported, in order

vars == <<loop, at, i, called, pending, sent, marked, overrun, reported>>
Turns == 0 .. size - 1
Running == loop \notin {"ended", "dead"}

Init ==
  /\ loop = "start" /\ at = "for"
  /\ i = 0
  /\ called = {} /\ marked = {}
  /\ pending = FALSE /\ sent = 0
  /\ overrun = FALSE
  /\ reported = <<>>

-----------------------------------------------------------------------------
Send ==
  /\ Running /\ sent < MaxSignals
  /\ sent' = sent + 1
  /\ pending' = TRUE
  /\ UNCHANGED <<loop, at, i, called, marked, overrun, reported>>

\* Before sigaction the signal ends the process.
Terminate ==
  /\ loop = "start" /\ pending
  /\ loop' = "dead" /\ pending' = FALSE
  /\ UNCHANGED <<at, i, called, sent, marked, overrun, reported>>

sigint_handler ==
  /\ loop \in {"print", "report"} /\ pending
  /\ pending' = FALSE
  /\ IF i \in Turns
     THEN /\ called' = called \cup {i}
          /\ marked' = IF loop = "print" THEN marked \cup {i} ELSE marked
          /\ UNCHANGED <<i, overrun>>
     ELSE /\ i' \in {i, 1}
          /\ overrun' = TRUE
          /\ UNCHANGED <<called, marked>>
  /\ UNCHANGED <<loop, at, sent, reported>>

-----------------------------------------------------------------------------
Sigaction ==
  /\ loop = "start"
  /\ loop' = "print"
  /\ UNCHANGED <<at, i, called, pending, sent, marked, overrun, reported>>

\* Mutant: the report does not set i to 0.
FirstOnce == IF loop = "report" THEN i ELSE 0
First == 0

Assign ==
  /\ loop \in {"print", "report"} /\ at = "for"
  /\ i' = First /\ at' = "test"
  /\ UNCHANGED <<loop, called, pending, sent, marked, overrun, reported>>

Test ==
  /\ loop \in {"print", "report"} /\ at = "test"
  /\ IF i < size
     THEN at' = "body" /\ UNCHANGED loop
     ELSE /\ at' = "for"
          /\ loop' = IF loop = "print" THEN "report" ELSE "ended"
  /\ UNCHANGED <<i, called, pending, sent, marked, overrun, reported>>

Body ==
  /\ loop \in {"print", "report"} /\ at = "body"
  /\ reported' = IF loop = "report" /\ i \in called THEN Append(reported, i) ELSE reported
  /\ at' = "step"
  /\ UNCHANGED <<loop, i, called, pending, sent, marked, overrun>>

\* i++ of a volatile variable is a load and a store; what the handler does in
\* between it could as well do before.
Step ==
  /\ loop \in {"print", "report"} /\ at = "step"
  /\ i' = i + 1 /\ at' = "test"
  /\ UNCHANGED <<loop, called, pending, sent, marked, overrun, reported>>

Main == Sigaction \/ Assign \/ Test \/ Body \/ Step

Next == Send \/ Terminate \/ sigint_handler \/ Main

Spec == Init /\ [][Next]_vars

-----------------------------------------------------------------------------
\* "%d was possibly interrupted": the report is right about every turn.  It
\* names marked turns only, it names every turn the first loop was interrupted
\* in, and none twice, unless the handler ran while i was behind the array.
ReportIsRight ==
  /\ ToSet(reported) \subseteq called
  /\ loop = "ended" => marked \subseteq ToSet(reported)
  /\ overrun \/ \A m, n \in DOMAIN reported : m < n => reported[m] < reported[n]
=============================================================================
