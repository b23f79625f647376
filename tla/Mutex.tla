------------------------------- MODULE Mutex -------------------------------
(***************************************************************************)
(* What a lock promises the critical sections of main: one thread at a     *)
(* time.  Each thread enters once.                                         *)
(***************************************************************************)
CONSTANT Threads

VARIABLES owners,  \* the threads that hold the lock
          served   \* the threads that have given it back

vars == <<owners, served>>

Init == owners = {} /\ served = {}

Acquire(t) ==
  /\ owners = {} /\ t \notin served
  /\ owners' = {t}
  /\ UNCHANGED served

Release(t) ==
  /\ t \in owners
  /\ owners' = owners \ {t}
  /\ served' = served \cup {t}

Next == \E t \in Threads : Acquire(t) \/ Release(t)

Spec == Init /\ [][Next]_vars

=============================================================================
