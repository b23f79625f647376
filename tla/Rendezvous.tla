----------------------------- MODULE Rendezvous -----------------------------
(***************************************************************************)
(* What mybarrier promises: workers meet twice, and nobody goes on from a  *)
(* meeting before every worker has reached it.                             *)
(***************************************************************************)
EXTENDS Naturals

CONSTANT Meetings  \* how many times the workers meet

VARIABLES workers, reached, passed

vars == <<workers, reached, passed>>

Init ==
  /\ reached = [w \in workers |-> 0]
  /\ passed  = [w \in workers |-> 0]

\* w comes to its next meeting.
Reach(w) ==
  /\ reached[w] = passed[w] /\ reached[w] < Meetings
  /\ reached' = [reached EXCEPT ![w] = @ + 1]
  /\ UNCHANGED <<workers, passed>>

\* w goes on from a meeting everybody has come to.
Pass(w) ==
  /\ passed[w] < reached[w]
  /\ \A v \in workers : reached[v] >= reached[w]
  /\ passed' = [passed EXCEPT ![w] = @ + 1]
  /\ UNCHANGED <<workers, reached>>

Next == \E w \in workers : Reach(w) \/ Pass(w)

Spec == Init /\ [][Next]_vars

=============================================================================
