---------------------------- MODULE SieveProofs ----------------------------
(***************************************************************************)
(* What the four sieve modules guarantee for every number of kthreads and  *)
(* every upper bound: type correctness, the two barriers, the safety of    *)
(* simple_exit's kfree, that no two kthreads work on one position, that no *)
(* prime is crossed out, no cross-out uncounted, and which composites are  *)
(* reported all the same.                                                  *)
(***************************************************************************)
EXTENDS Sieve, FiniteSetTheorems, TLAPS

-----------------------------------------------------------------------------
(* Type correctness.                                                       *)

\* The parameters of a step never change, and neither do the kthreads.
LEMMA InitType == Init => TypeOK
<1> SUFFICES ASSUME Init PROVE TypeOK
  OBVIOUS
<1>1. num_threads \in Nat /\ upper_bound \in Nat
  BY ParametersAssumption DEF Init
<1>2. program \in AllPrograms
  BY ProgramsAssumption DEF Init
<1> QED
  BY <1>1, <1>2 DEF Init, TypeOK, Threads, Nobody, Points, Idle

\* A kthread step keeps the types: one step per action.
LEMMA ThreadType ==
  ASSUME TypeOK, NEW t, Thread(t)
  PROVE  TypeOK'
<1> USE DEF TypeOK, At, Mapped, Goto, Threads, Nobody, Positions, Sundaram,
            params, mod, barrier, sieve
<1>1. CASE ArriveFirst(t)
  BY <1>1 DEF ArriveFirst, Arrive, Points, AtFirst, PastFirst
<1>2. CASE LeaveFirst(t)
  BY <1>2 DEF LeaveFirst, Leave, Points, AtFirst, PastFirst, Computing
<1>3. CASE ArriveSecond(t)
  BY <1>3 DEF ArriveSecond, Arrive, Points, AtFirst, PastFirst, AtSecond
<1>4. CASE LeaveSecond(t)
  BY <1>4 DEF LeaveSecond, Leave, Points, AtFirst, PastFirst, AtSecond, PastSecond
<1>5. CASE Claim(t)
  BY <1>5 DEF Claim, Take, Points, AtFirst, PastFirst, Computing
<1>6. CASE Bump(t)
  BY <1>6 DEF Bump, Points, AtFirst, PastFirst, Computing
<1>7. CASE SkipCrossed(t)
  BY <1>7 DEF SkipCrossed
<1>8. CASE ClaimEnd(t)
  BY <1>8 DEF ClaimEnd, Release, Points, AtFirst, PastFirst, Computing
<1>9. CASE Return(t)
  BY <1>9 DEF Return, Points, AtFirst, PastFirst
<1>10. CASE StartSieve(t)
  BY <1>10 DEF StartSieve, FirstMultiple, Points, AtFirst, PastFirst, Computing
<1>11. CASE CrossOut(t)
  <2>1. /\ UNCHANGED <<program, num_threads, upper_bound, module, arrays, spawned, pc, lock>>
        /\ UNCHANGED <<arrive_barrier, done, cur, distance>>
    BY <1>11 DEF CrossOut
  <2>2. arrays # "null" => number' \in [Positions -> Nat]
    BY <1>11 DEF CrossOut
  <2>3. counter' \in [Threads -> Nat]
    BY <1>11 DEF CrossOut
  <2>4. current_pos' \in [Threads -> Int]
    BY <1>11 DEF CrossOut
  <2> QED
    BY <2>1, <2>2, <2>3, <2>4
<1>12. CASE CrossOutSundaram(t)
  <2>1. /\ UNCHANGED <<program, num_threads, upper_bound, module, arrays, spawned, pc, lock>>
        /\ UNCHANGED <<arrive_barrier, done, cur, current_pos>>
    BY <1>12 DEF CrossOutSundaram
  <2>2. arrays # "null" => number' \in [Positions -> Nat]
    BY <1>12 DEF CrossOutSundaram
  <2>3. counter' \in [Threads -> Nat]
    BY <1>12 DEF CrossOutSundaram
  <2>4. distance' \in [Threads -> Int]
    BY <1>12 DEF CrossOutSundaram
  <2> QED
    BY <2>1, <2>2, <2>3, <2>4
<1>13. CASE NextClaim(t)
  BY <1>13 DEF NextClaim, Points, AtFirst, PastFirst, Computing
<1>14. CASE AddDone(t)
  BY <1>14 DEF AddDone, Points, AtFirst, PastFirst, AtSecond, PastSecond, Counted
<1>15. CASE ThreadReturn(t)
  BY <1>15 DEF ThreadReturn, Points, AtFirst, PastFirst, AtSecond, PastSecond, Counted
<1>16. CASE PassBySundaram(t)
  BY <1>16 DEF PassBySundaram
<1> QED
  BY <1>1, <1>2, <1>3, <1>4, <1>5, <1>6, <1>7, <1>8, <1>9, <1>10, <1>11, <1>12, <1>13,
     <1>14, <1>15, <1>16 DEF Thread, Compute

LEMMA NextType == TypeOK /\ [Next]_vars => TypeOK'
<1> SUFFICES ASSUME TypeOK, [Next]_vars PROVE TypeOK'
  OBVIOUS
<1> USE DEF TypeOK, Threads, Nobody, Positions, Sundaram, params, mod, barrier, sieve
<1>1. CASE SetUp
  BY <1>1 DEF SetUp, DoneReset
<1>2. CASE Spawn
  BY <1>2 DEF Spawn, MoreToSpawn, Goto, Points, Idle
<1>3. CASE InitReturn
  BY <1>3 DEF InitReturn
<1>4. ASSUME NEW t \in ThreadIds, Thread(t) PROVE TypeOK'
  BY <1>4, ThreadType
<1>5. ASSUME NEW t \in ThreadIds, Fault(t) PROVE TypeOK'
  BY <1>5 DEF Fault
<1>6. CASE Exit
  BY <1>6 DEF Exit, ExitEarly, ExitReport
<1>7. CASE Stopped \/ UNCHANGED vars
  BY <1>7 DEF Stopped, vars
<1> QED
  BY <1>1, <1>2, <1>3, <1>4, <1>5, <1>6, <1>7 DEF Next

\* Every variable keeps its type, whatever the parameters and the interleaving.
THEOREM TypeCorrect == Spec => []TypeOK
  BY InitType, NextType, PTL DEF Spec

-----------------------------------------------------------------------------
(* Counting kthreads by program point.                                     *)

LEMMA ThreadsFinite ==
  ASSUME TypeOK
  PROVE  IsFiniteSet(Threads) /\ Cardinality(Threads) = num_threads
<1>1. num_threads \in Nat
  BY DEF TypeOK
<1>2. 0 \in Int /\ num_threads - 1 \in Int
  BY <1>1
<1> QED
  BY <1>1, <1>2, FS_Interval DEF Threads

\* However many kthreads are in S, they are a finite number of at most all.
LEMMA InFinite ==
  ASSUME TypeOK, NEW S
  PROVE  /\ IsFiniteSet(In(S))
         /\ Cardinality(In(S)) \in 0 .. num_threads
         /\ Cardinality(In(S)) = num_threads => In(S) = Threads
<1>1. In(S) \in SUBSET Threads
  BY DEF In
<1>2. num_threads \in Nat
  BY DEF TypeOK
<1> QED
  BY <1>1, <1>2, ThreadsFinite, FS_Subset, FS_CardinalityType

\* A step of t to a point on the same side of S leaves In(S) as it is.
LEMMA Stay ==
  ASSUME TypeOK, UNCHANGED num_threads, NEW t \in Threads, NEW b, Goto(t, b),
         NEW S, pc[t] \in S <=> b \in S
  PROVE  In(S)' = In(S)
  BY DEF TypeOK, In, Goto, Threads

\* A step of t into S adds t to In(S) and one to its size.
LEMMA Enter ==
  ASSUME TypeOK, UNCHANGED num_threads, NEW t \in Threads, NEW b, Goto(t, b),
         NEW S, pc[t] \notin S, b \in S
  PROVE  /\ In(S)' = In(S) \cup {t}
         /\ Cardinality(In(S)') = Cardinality(In(S)) + 1
<1>1. In(S)' = In(S) \cup {t}
  BY DEF TypeOK, In, Goto, Threads
<1>2. t \notin In(S)
  BY DEF In
<1> QED
  BY <1>1, <1>2, InFinite, FS_AddElement

-----------------------------------------------------------------------------
(* The frame: barriers, done and the release of the arrays.                *)

\* Where the module is tells which arrays and kthreads exist.
LifeInv ==
  /\ module = "loading" => arrays = "null" /\ spawned = 0
  /\ module = "spawning" => arrays = "valid"
  /\ \A t \in Threads : t >= spawned => pc[t] = "none"
  /\ arrays = "null" => \A t \in Threads : pc[t] = "none"

\* arrive_barrier has counted every kthread once per barrier it has come to,
\* and done every kthread that has added itself.
CountInv ==
  /\ arrive_barrier = Cardinality(In(AtFirst)) + Cardinality(In(AtSecond))
  /\ arrays # "null" => done = Cardinality(In(Counted))

\* The two barrier properties and the counts they rest on: a kthread leaves a
\* spin on the number in arrive_barrier alone, so only the counts make the
\* number mean "everybody has arrived".
FrameInv ==
  /\ TypeOK
  /\ LifeInv
  /\ CountInv
  /\ NobodyComputesEarly
  /\ NobodyLeavesEarly
  /\ FreeIsSafe

Milestones == {AtFirst, PastFirst, AtSecond, PastSecond, Counted}

LEMMA InitFrame == Init => FrameInv
<1> SUFFICES ASSUME Init PROVE FrameInv
  OBVIOUS
<1>1. TypeOK
  BY InitType
<1>2. LifeInv
  BY DEF Init, LifeInv
<1>3. \A S \in Milestones : In(S) = {}
  BY DEF Init, Milestones, In, AtFirst, PastFirst, AtSecond, PastSecond, Counted, Computing
<1>4. CountInv
  <2>1. In(AtFirst) = {} /\ In(AtSecond) = {} /\ Cardinality({}) = 0
    BY <1>3, FS_EmptySet DEF Milestones
  <2>2. arrive_barrier = 0 /\ arrays = "null"
    BY DEF Init
  <2> QED
    BY <2>1, <2>2 DEF CountInv
<1>5. NobodyComputesEarly /\ NobodyLeavesEarly /\ FreeIsSafe
  BY <1>3 DEF NobodyComputesEarly, NobodyLeavesEarly, FreeIsSafe, Init, Milestones
<1> QED
  BY <1>1, <1>2, <1>4, <1>5 DEF FrameInv

\* A step that moves no kthread past a milestone and leaves the module, the
\* counts and the parameters alone disturbs nothing.
LEMMA QuietFrame ==
  ASSUME FrameInv, TypeOK', LifeInv', UNCHANGED <<params, arrays, barrier>>,
         \A S \in Milestones : In(S)' = In(S)
  PROVE  FrameInv'
<1>1. UNCHANGED Threads
  BY DEF params, Threads
<1>2. CountInv'
  BY DEF FrameInv, CountInv, barrier, Milestones
<1>3. NobodyComputesEarly' /\ NobodyLeavesEarly' /\ FreeIsSafe'
  BY <1>1 DEF FrameInv, NobodyComputesEarly, NobodyLeavesEarly, FreeIsSafe, Milestones
<1> QED
  BY <1>2, <1>3 DEF FrameInv

\* What a kthread's step leaves alone keeps LifeInv.
LEMMA ThreadLife ==
  ASSUME FrameInv, UNCHANGED <<params, mod>>, NEW t \in Threads, NEW b,
         pc[t] # "none", Goto(t, b)
  PROVE  LifeInv'
  BY DEF FrameInv, LifeInv, TypeOK, params, mod, Goto, Threads

\* A kthread's step keeps the invariant: five steps pass a milestone, the others
\* are quiet.
LEMMA ThreadFrame ==
  ASSUME FrameInv, NEW t, Thread(t)
  PROVE  FrameInv'
<1>1. TypeOK /\ TypeOK' /\ LifeInv /\ CountInv /\ num_threads \in Nat
  BY ThreadType DEF FrameInv, TypeOK
<1>2. t \in Threads /\ pc[t] # "none" /\ UNCHANGED <<params, mod>>
  BY DEF Thread, Compute, ArriveFirst, ArriveSecond, Arrive, LeaveFirst, LeaveSecond, Leave,
         Claim, Bump, SkipCrossed, ClaimEnd, Return, StartSieve, CrossOut, CrossOutSundaram,
         PassBySundaram, NextClaim, AddDone, ThreadReturn, At
<1>3. /\ UNCHANGED <<num_threads, arrays, Threads>>
      /\ arrays # "null"
  BY <1>1, <1>2 DEF params, mod, LifeInv, Threads
<1>4. ASSUME NEW b, Goto(t, b), UNCHANGED barrier,
             \A S \in Milestones : pc[t] \in S <=> b \in S
      PROVE  FrameInv'
  <2>1. LifeInv'
    BY <1>2, <1>4, ThreadLife
  <2>2. \A S \in Milestones : In(S)' = In(S)
    BY <1>1, <1>2, <1>3, <1>4, Stay
  <2> QED
    BY <1>1, <1>2, <1>3, <1>4, <2>1, <2>2, QuietFrame
<1>5. ASSUME UNCHANGED <<pc, barrier>> PROVE FrameInv'
  <2>1. LifeInv'
    BY <1>1, <1>2, <1>3, <1>5 DEF LifeInv, mod
  <2>2. \A S \in Milestones : In(S)' = In(S)
    BY <1>3, <1>5 DEF In
  <2> QED
    BY <1>1, <1>2, <1>3, <1>5, <2>1, <2>2, QuietFrame
<1>6. CASE Compute(t) \/ ThreadReturn(t)
  <2> USE DEF Milestones, AtFirst, PastFirst, AtSecond, PastSecond, Counted, Computing, At
  <2>1. CASE SkipCrossed(t) \/ CrossOut(t) \/ CrossOutSundaram(t) \/ PassBySundaram(t)
    BY <1>5, <2>1 DEF SkipCrossed, CrossOut, CrossOutSundaram, PassBySundaram
  <2>2. CASE Claim(t)
    BY <1>4, <2>2 DEF Claim
  <2>3. CASE Bump(t)
    BY <1>4, <2>3 DEF Bump
  <2>4. CASE ClaimEnd(t)
    BY <1>4, <2>4 DEF ClaimEnd
  <2>5. CASE Return(t)
    BY <1>4, <2>5 DEF Return
  <2>6. CASE StartSieve(t)
    BY <1>4, <2>6 DEF StartSieve
  <2>7. CASE NextClaim(t)
    BY <1>4, <2>7 DEF NextClaim
  <2>8. CASE ThreadReturn(t)
    BY <1>4, <2>8 DEF ThreadReturn
  <2> QED
    BY <1>6, <2>1, <2>2, <2>3, <2>4, <2>5, <2>6, <2>7, <2>8 DEF Compute
<1>7. ASSUME NEW b, Goto(t, b) PROVE LifeInv'
  BY <1>2, <1>7, ThreadLife
<1> DEFINE Moves(S) == In(S)' = In(S) \cup {t} /\ Cardinality(In(S)') = Cardinality(In(S)) + 1
<1>8. CASE ArriveFirst(t)
  <2>1. /\ pc[t] = "arrive0" /\ Goto(t, "wait0")
        /\ arrive_barrier' = arrive_barrier + 1 /\ done' = done
    BY <1>8 DEF ArriveFirst, Arrive, At
  <2>2. /\ In(PastFirst)' = In(PastFirst) /\ In(AtSecond)' = In(AtSecond)
        /\ In(PastSecond)' = In(PastSecond) /\ In(Counted)' = In(Counted)
    BY <1>1, <1>2, <1>3, <2>1, Stay
    DEF AtFirst, PastFirst, AtSecond, PastSecond, Counted, Computing
  <2>3. Moves(AtFirst)
    BY <1>1, <1>2, <1>3, <2>1, Enter
    DEF AtFirst, PastFirst, AtSecond, PastSecond, Counted, Computing
  <2>4. CountInv'
    BY <1>1, <1>3, <2>1, <2>2, <2>3, InFinite DEF CountInv
  <2>5. NobodyComputesEarly' /\ NobodyLeavesEarly' /\ FreeIsSafe'
    BY <1>2, <1>3, <2>2, <2>3
    DEF FrameInv, NobodyComputesEarly, NobodyLeavesEarly, FreeIsSafe
  <2> QED
    BY <1>1, <1>7, <2>1, <2>4, <2>5 DEF FrameInv
<1>9. CASE ArriveSecond(t)
  <2>1. /\ pc[t] = "arrive1" /\ Goto(t, "wait1")
        /\ arrive_barrier' = arrive_barrier + 1 /\ done' = done
    BY <1>9 DEF ArriveSecond, Arrive, At
  <2>2. /\ In(AtFirst)' = In(AtFirst) /\ In(PastFirst)' = In(PastFirst)
        /\ In(PastSecond)' = In(PastSecond) /\ In(Counted)' = In(Counted)
    BY <1>1, <1>2, <1>3, <2>1, Stay
    DEF AtFirst, PastFirst, AtSecond, PastSecond, Counted, Computing
  <2>3. Moves(AtSecond)
    BY <1>1, <1>2, <1>3, <2>1, Enter
    DEF AtFirst, PastFirst, AtSecond, PastSecond, Counted, Computing
  <2>4. CountInv'
    BY <1>1, <1>3, <2>1, <2>2, <2>3, InFinite DEF CountInv
  <2>5. NobodyComputesEarly' /\ NobodyLeavesEarly' /\ FreeIsSafe'
    BY <1>2, <1>3, <2>2, <2>3
    DEF FrameInv, NobodyComputesEarly, NobodyLeavesEarly, FreeIsSafe
  <2> QED
    BY <1>1, <1>7, <2>1, <2>4, <2>5 DEF FrameInv
<1>10. CASE LeaveFirst(t)
  <2>1. /\ pc[t] = "wait0" /\ Goto(t, "claim") /\ arrive_barrier >= num_threads
        /\ arrive_barrier' = arrive_barrier /\ done' = done
    BY <1>10 DEF LeaveFirst, Leave, At, barrier, FirstTarget, SecondTarget
  <2>2. /\ In(AtFirst)' = In(AtFirst) /\ In(AtSecond)' = In(AtSecond)
        /\ In(PastSecond)' = In(PastSecond) /\ In(Counted)' = In(Counted)
    BY <1>1, <1>2, <1>3, <2>1, Stay
    DEF AtFirst, PastFirst, AtSecond, PastSecond, Counted, Computing
  <2>3. Moves(PastFirst)
    BY <1>1, <1>2, <1>3, <2>1, Enter
    DEF AtFirst, PastFirst, AtSecond, PastSecond, Counted, Computing
  <2>4. CountInv'
    BY <1>1, <1>3, <2>1, <2>2 DEF CountInv
  <2>5. In(AtFirst) = Threads
    <3>1. CASE In(AtSecond) = {}
      BY <1>1, <2>1, <3>1, InFinite, FS_EmptySet DEF CountInv
    <3>2. CASE In(AtSecond) # {}
      BY <3>2 DEF FrameInv, NobodyComputesEarly, In, PastFirst
    <3> QED
      BY <3>1, <3>2
  <2>6. NobodyComputesEarly' /\ NobodyLeavesEarly' /\ FreeIsSafe'
    BY <1>2, <1>3, <2>2, <2>3, <2>5
    DEF FrameInv, NobodyComputesEarly, NobodyLeavesEarly, FreeIsSafe
  <2> QED
    BY <1>1, <1>7, <2>1, <2>4, <2>6 DEF FrameInv
<1>11. CASE LeaveSecond(t)
  <2>1. /\ pc[t] = "wait1" /\ Goto(t, "add") /\ arrive_barrier >= num_threads * 2
        /\ arrive_barrier' = arrive_barrier /\ done' = done
    BY <1>11 DEF LeaveSecond, Leave, At, barrier, FirstTarget, SecondTarget
  <2>2. /\ In(AtFirst)' = In(AtFirst) /\ In(PastFirst)' = In(PastFirst)
        /\ In(AtSecond)' = In(AtSecond) /\ In(Counted)' = In(Counted)
    BY <1>1, <1>2, <1>3, <2>1, Stay
    DEF AtFirst, PastFirst, AtSecond, PastSecond, Counted, Computing
  <2>3. Moves(PastSecond)
    BY <1>1, <1>2, <1>3, <2>1, Enter
    DEF AtFirst, PastFirst, AtSecond, PastSecond, Counted, Computing
  <2>4. CountInv'
    BY <1>1, <1>3, <2>1, <2>2 DEF CountInv
  <2>5. In(AtSecond) = Threads
    <3>1. /\ Cardinality(In(AtFirst)) \in 0 .. num_threads
          /\ Cardinality(In(AtSecond)) \in 0 .. num_threads
      BY <1>1, InFinite
    <3>2. Cardinality(In(AtSecond)) = num_threads
      BY <1>1, <2>1, <3>1 DEF CountInv
    <3> QED
      BY <1>1, <3>2, InFinite
  <2>6. NobodyComputesEarly' /\ NobodyLeavesEarly' /\ FreeIsSafe'
    BY <1>2, <1>3, <2>2, <2>3, <2>5
    DEF FrameInv, NobodyComputesEarly, NobodyLeavesEarly, FreeIsSafe
  <2> QED
    BY <1>1, <1>7, <2>1, <2>4, <2>6 DEF FrameInv
<1>12. CASE AddDone(t)
  <2>1. /\ pc[t] = "add" /\ Goto(t, "leaving")
        /\ arrive_barrier' = arrive_barrier /\ done' = done + 1
    BY <1>12 DEF AddDone, At
  <2>2. /\ In(AtFirst)' = In(AtFirst) /\ In(PastFirst)' = In(PastFirst)
        /\ In(AtSecond)' = In(AtSecond) /\ In(PastSecond)' = In(PastSecond)
    BY <1>1, <1>2, <1>3, <2>1, Stay
    DEF AtFirst, PastFirst, AtSecond, PastSecond, Counted, Computing
  <2>3. Moves(Counted)
    BY <1>1, <1>2, <1>3, <2>1, Enter
    DEF AtFirst, PastFirst, AtSecond, PastSecond, Counted, Computing
  <2>4. CountInv'
    BY <1>1, <1>3, <2>1, <2>2, <2>3, InFinite DEF CountInv
  <2>5. NobodyComputesEarly' /\ NobodyLeavesEarly' /\ FreeIsSafe'
    BY <1>2, <1>3, <2>2, <2>3
    DEF FrameInv, NobodyComputesEarly, NobodyLeavesEarly, FreeIsSafe
  <2> QED
    BY <1>1, <1>7, <2>1, <2>4, <2>5 DEF FrameInv
<1> QED
  BY <1>6, <1>8, <1>9, <1>10, <1>11, <1>12 DEF Thread

LEMMA NextFrame == FrameInv /\ [Next]_vars => FrameInv'
<1> SUFFICES ASSUME FrameInv, [Next]_vars PROVE FrameInv'
  OBVIOUS
<1>1. TypeOK /\ TypeOK' /\ LifeInv /\ CountInv
  BY NextType DEF FrameInv
<1>2. ASSUME LifeInv', UNCHANGED <<params, arrays, barrier, pc>> PROVE FrameInv'
  <2>1. \A S \in Milestones : In(S)' = In(S)
    BY <1>2 DEF In, params, Threads
  <2> QED
    BY <1>1, <1>2, <2>1, QuietFrame
<1>3. CASE SetUp
  <2>1. LifeInv' /\ UNCHANGED <<num_threads, pc, arrive_barrier>>
    BY <1>1, <1>3 DEF SetUp, LifeInv, params, Threads
  <2>2. \A S \in Milestones : In(S) = {} /\ In(S)' = {}
    <3>1. \A t \in Threads : pc[t] = "none"
      BY <1>1, <1>3 DEF SetUp, LifeInv
    <3>2. \A t \in Threads : t \in Threads' /\ pc'[t] = "none"
      BY <2>1, <3>1 DEF Threads
    <3> QED
      BY <2>1, <3>1, <3>2
      DEF In, Threads, Milestones, AtFirst, PastFirst, AtSecond, PastSecond, Counted, Computing
  <2>3. In(AtFirst)' = In(AtFirst) /\ In(AtSecond)' = In(AtSecond) /\ In(Counted)' = {}
        /\ In(PastFirst)' = {} /\ In(PastSecond)' = {}
    BY <2>2 DEF Milestones
  <2>4. arrays' # "null" => done' = 0
    BY <1>1, <1>3 DEF SetUp, DoneReset, LifeInv
  <2>5. CountInv'
    BY <1>1, <2>1, <2>3, <2>4, FS_EmptySet DEF CountInv
  <2>6. arrays' # "freed"
    BY <1>1, <1>3 DEF SetUp, LifeInv
  <2>7. NobodyComputesEarly' /\ NobodyLeavesEarly' /\ FreeIsSafe'
    BY <2>3, <2>6 DEF NobodyComputesEarly, NobodyLeavesEarly, FreeIsSafe
  <2> QED
    BY <1>1, <2>1, <2>5, <2>7 DEF FrameInv
<1>4. CASE Spawn
  <2>1. PICK b \in {"arrive0", "failed"} : Goto(spawned, b)
    BY <1>4 DEF Spawn
  <2>2. spawned \in Threads /\ pc[spawned] = "none" /\ arrays = "valid"
    BY <1>1, <1>4 DEF Spawn, MoreToSpawn, LifeInv, TypeOK, Threads
  <2>3. /\ UNCHANGED <<params, arrays, barrier>>
        /\ module' = "spawning" /\ spawned' = spawned + 1
    BY <1>4 DEF Spawn
  <2>4. LifeInv'
    BY <1>1, <2>1, <2>2, <2>3 DEF LifeInv, Goto, Threads, params, TypeOK
  <2>5. \A S \in Milestones : In(S)' = In(S)
    BY <1>1, <2>1, <2>2, <2>3, Stay
    DEF params, Milestones, AtFirst, PastFirst, AtSecond, PastSecond, Counted, Computing
  <2> QED
    BY <1>1, <2>3, <2>4, <2>5, QuietFrame
<1>5. CASE InitReturn
  BY <1>1, <1>2, <1>5 DEF InitReturn, LifeInv, params, Threads
<1>6. ASSUME NEW t \in ThreadIds, Thread(t) PROVE FrameInv'
  BY <1>6, ThreadFrame
<1>7. ASSUME NEW t \in ThreadIds, Fault(t) PROVE FrameInv'
  BY <1>1, <1>2, <1>7 DEF Fault, LifeInv, params, Threads
<1>8. CASE ExitEarly
  BY <1>1, <1>2, <1>8 DEF ExitEarly, LifeInv, params, Threads
<1>9. CASE ExitReport
  <2>1. LifeInv' /\ UNCHANGED <<params, pc, barrier>>
    BY <1>1, <1>9 DEF ExitReport, LifeInv, params, Threads
  <2>2. CASE UNCHANGED arrays
    BY <1>2, <2>1, <2>2
  <2>3. CASE arrays = "valid" /\ done = num_threads
    <3>1. In(Counted) = Threads
      BY <1>1, <2>3, InFinite DEF CountInv
    <3>2. UNCHANGED Threads /\ \A S \in Milestones : In(S)' = In(S)
      BY <2>1 DEF In, params, Threads
    <3>3. /\ In(AtFirst)' = In(AtFirst) /\ In(PastFirst)' = In(PastFirst)
          /\ In(AtSecond)' = In(AtSecond) /\ In(PastSecond)' = In(PastSecond)
          /\ In(Counted)' = In(Counted)
      BY <3>2 DEF Milestones
    <3>4. CountInv'
      BY <1>1, <2>1, <2>3, <3>3 DEF CountInv, barrier
    <3> QED
      BY <1>1, <2>1, <3>1, <3>2, <3>3, <3>4
      DEF FrameInv, NobodyComputesEarly, NobodyLeavesEarly, FreeIsSafe
  <2> QED
    BY <1>9, <2>2, <2>3 DEF ExitReport
<1>10. CASE Stopped \/ UNCHANGED vars
  BY <1>1, <1>2, <1>10 DEF Stopped, vars, LifeInv, params, mod, Threads
<1> QED
  BY <1>3, <1>4, <1>5, <1>6, <1>7, <1>8, <1>9, <1>10 DEF Next, Exit

LEMMA FrameInvariant == Spec => []FrameInv
  BY InitFrame, NextFrame, PTL DEF Spec

\* For every number of kthreads, none computes before all have been created
\* and have arrived, and none is counted in done while another can still cross
\* out a number.
THEOREM BothMeetings == Spec => []BarrierHolds
  BY FrameInvariant, PTL DEF FrameInv, BarrierHolds

\* simple_exit never frees an array that a kthread will use again.
THEOREM SafeFree == Spec => []FreeIsSafe
  BY FrameInvariant, PTL DEF FrameInv

-----------------------------------------------------------------------------
(* mybarrier implements Rendezvous.                                        *)

Gates == {AtFirst, PastFirst, AtSecond, PastSecond}

LEMMA InitMeets == Init => Meeting!Init
  BY DEF Init, Meeting!Init, Reached, Passed, AtFirst, PastFirst, AtSecond, PastSecond,
         Counted, Computing

\* A step that takes no kthread across a milestone is a stutter of Rendezvous.
LEMMA QuietMeets ==
  ASSUME UNCHANGED num_threads,
         \A u \in Threads : \A S \in Gates : pc'[u] \in S <=> pc[u] \in S
  PROVE  UNCHANGED Meeting!vars
  BY DEF Meeting!vars, Reached, Passed, Threads, Gates

LEMMA ThreadMeets ==
  ASSUME FrameInv, FrameInv', NEW t, Thread(t)
  PROVE  [Meeting!Next]_Meeting!vars
<1>1. t \in Threads /\ UNCHANGED <<num_threads, Threads>> /\ pc \in [Threads -> Points]
  BY DEF FrameInv, TypeOK, Threads, params,
         Thread, Compute, ArriveFirst, ArriveSecond, Arrive, LeaveFirst, LeaveSecond, Leave,
         Claim, Bump, SkipCrossed, ClaimEnd, Return, StartSieve, CrossOut, CrossOutSundaram,
         PassBySundaram, NextClaim, AddDone, ThreadReturn, At
<1> USE DEF Gates, AtFirst, PastFirst, AtSecond, PastSecond, Counted, Computing
<1>2. ASSUME NEW a, NEW b, pc[t] = a, Goto(t, b),
             \A S \in Gates : a \in S <=> b \in S
      PROVE  UNCHANGED Meeting!vars
  BY <1>1, <1>2, QuietMeets DEF Goto
<1>3. CASE Compute(t) \/ ThreadReturn(t)
  <2> USE DEF At
  <2>1. CASE SkipCrossed(t) \/ CrossOut(t) \/ CrossOutSundaram(t) \/ PassBySundaram(t)
    BY <1>1, <2>1, QuietMeets DEF SkipCrossed, CrossOut, CrossOutSundaram, PassBySundaram
  <2>2. CASE Claim(t)
    BY <1>2, <2>2 DEF Claim
  <2>3. CASE Bump(t)
    BY <1>2, <2>3 DEF Bump
  <2>4. CASE ClaimEnd(t)
    BY <1>2, <2>4 DEF ClaimEnd
  <2>5. CASE Return(t)
    BY <1>2, <2>5 DEF Return
  <2>6. CASE StartSieve(t)
    BY <1>2, <2>6 DEF StartSieve
  <2>7. CASE NextClaim(t)
    BY <1>2, <2>7 DEF NextClaim
  <2>8. CASE ThreadReturn(t)
    BY <1>2, <2>8 DEF ThreadReturn
  <2> QED
    BY <1>3, <2>1, <2>2, <2>3, <2>4, <2>5, <2>6, <2>7, <2>8 DEF Compute
<1>4. CASE ArriveFirst(t)
  <2>1. pc[t] = "arrive0" /\ pc' = [pc EXCEPT ![t] = "wait0"]
    BY <1>4 DEF ArriveFirst, Arrive, At, Goto
  <2>2. Reached[t] = 0 /\ Passed[t] = 0
    BY <1>1, <2>1 DEF Reached, Passed
  <2>3. Reached' = [Reached EXCEPT ![t] = 1]
    BY <1>1, <2>1 DEF Reached
  <2>4. Passed' = Passed
    BY <1>1, <2>1 DEF Passed
  <2>5. Meeting!Reach(t)
    BY <1>1, <2>2, <2>3, <2>4 DEF Meeting!Reach
  <2> QED
    BY <1>1, <2>5 DEF Meeting!Next
<1>5. CASE ArriveSecond(t)
  <2>1. pc[t] = "arrive1" /\ pc' = [pc EXCEPT ![t] = "wait1"]
    BY <1>5 DEF ArriveSecond, Arrive, At, Goto
  <2>2. Reached[t] = 1 /\ Passed[t] = 1
    BY <1>1, <2>1 DEF Reached, Passed
  <2>3. Reached' = [Reached EXCEPT ![t] = 2]
    BY <1>1, <2>1 DEF Reached
  <2>4. Passed' = Passed
    BY <1>1, <2>1 DEF Passed
  <2>5. Meeting!Reach(t)
    BY <1>1, <2>2, <2>3, <2>4 DEF Meeting!Reach
  <2> QED
    BY <1>1, <2>5 DEF Meeting!Next
<1>6. CASE LeaveFirst(t)
  <2>1. pc[t] = "wait0" /\ pc' = [pc EXCEPT ![t] = "claim"]
    BY <1>6 DEF LeaveFirst, Leave, At, Goto
  <2>2. \A u \in Threads : pc[u] \in AtFirst
    BY <1>1, <2>1 DEF FrameInv, NobodyComputesEarly, In
  <2>3. Reached[t] = 1 /\ Passed[t] = 0 /\ \A u \in Threads : Reached[u] >= 1
    BY <1>1, <2>1, <2>2 DEF Reached, Passed
  <2>4. Passed' = [Passed EXCEPT ![t] = 1]
    BY <1>1, <2>1 DEF Passed
  <2>5. Reached' = Reached
    BY <1>1, <2>1 DEF Reached
  <2>6. Meeting!Pass(t)
    BY <1>1, <2>3, <2>4, <2>5 DEF Meeting!Pass
  <2> QED
    BY <1>1, <2>6 DEF Meeting!Next
<1>7. CASE LeaveSecond(t)
  <2>1. pc[t] = "wait1" /\ pc' = [pc EXCEPT ![t] = "add"]
    BY <1>7 DEF LeaveSecond, Leave, At, Goto
  <2>2. \A u \in Threads : pc[u] \in AtSecond
    BY <1>1, <2>1 DEF FrameInv, NobodyLeavesEarly, In
  <2>3. Reached[t] = 2 /\ Passed[t] = 1 /\ \A u \in Threads : Reached[u] >= 2
    BY <1>1, <2>1, <2>2 DEF Reached, Passed
  <2>4. Passed' = [Passed EXCEPT ![t] = 2]
    BY <1>1, <2>1 DEF Passed
  <2>5. Reached' = Reached
    BY <1>1, <2>1 DEF Reached
  <2>6. Meeting!Pass(t)
    BY <1>1, <2>3, <2>4, <2>5 DEF Meeting!Pass
  <2> QED
    BY <1>1, <2>6 DEF Meeting!Next
<1>8. CASE AddDone(t)
  BY <1>2, <1>8 DEF AddDone, At
<1> QED
  BY <1>3, <1>4, <1>5, <1>6, <1>7, <1>8 DEF Thread

LEMMA NextMeets == FrameInv /\ FrameInv' /\ [Next]_vars => [Meeting!Next]_Meeting!vars
<1> SUFFICES ASSUME FrameInv, FrameInv', [Next]_vars PROVE [Meeting!Next]_Meeting!vars
  OBVIOUS
<1>1. ASSUME UNCHANGED <<num_threads, pc>> PROVE UNCHANGED Meeting!vars
  BY <1>1 DEF Meeting!vars, Reached, Passed, Threads
<1>2. CASE Spawn
  <2>1. /\ UNCHANGED num_threads /\ pc[spawned] = "none" /\ pc \in [Threads -> Points]
        /\ \E b \in {"arrive0", "failed"} : Goto(spawned, b)
    BY <1>2 DEF Spawn, MoreToSpawn, FrameInv, LifeInv, TypeOK, Threads, params
  <2> QED
    BY <2>1, QuietMeets
    DEF Goto, Gates, AtFirst, PastFirst, AtSecond, PastSecond, Counted, Computing
<1>3. ASSUME NEW t \in ThreadIds, Thread(t) PROVE [Meeting!Next]_Meeting!vars
  BY <1>3, ThreadMeets
<1>4. CASE SetUp \/ InitReturn \/ Exit \/ Stopped \/ UNCHANGED vars
  BY <1>1, <1>4 DEF SetUp, InitReturn, Exit, ExitEarly, ExitReport, Stopped, vars, params
<1>5. ASSUME NEW t \in ThreadIds, Fault(t) PROVE UNCHANGED Meeting!vars
  BY <1>1, <1>5 DEF Fault, params
<1> QED
  BY <1>2, <1>3, <1>4, <1>5 DEF Next

\* The frame implements Rendezvous: mybarrier, called twice over one counter
\* that is never reset, is a barrier both times.
THEOREM BarrierImplementsRendezvous == Spec => MeetsTwice
  BY InitMeets, NextMeets, FrameInvariant, PTL DEF Spec, MeetsTwice, Meeting!Spec

-----------------------------------------------------------------------------
(* The claim.                                                              *)

\* Who is between spin_lock and spin_unlock of the claim holds the lock, and
\* every claimed position lies below cur, but for the one being claimed.
ClaimInv ==
  /\ \A t \in Threads : pc[t] \in {"bump", "skip"} => lock = t
  /\ \A t \in Threads : Claimed(t) => IF pc[t] = "bump" THEN Base(t) = cur ELSE Base(t) < cur
  /\ ClaimsDistinct

LEMMA InitClaim == Init => ClaimInv
  BY DEF Init, ClaimInv, ClaimsDistinct, Claimed

\* What a step of t leaves of another kthread.
Others(t) == \A u \in Threads \ {t} : pc'[u] = pc[u] /\ Base(u)' = Base(u)

LEMMA ThreadOthers ==
  ASSUME TypeOK, NEW t, Thread(t)
  PROVE  t \in Threads /\ UNCHANGED <<params, mod>> /\ Others(t)
<1>1. t \in Threads /\ UNCHANGED <<params, mod>>
  BY DEF Thread, Compute, ArriveFirst, ArriveSecond, Arrive, LeaveFirst, LeaveSecond, Leave,
         Claim, Bump, SkipCrossed, ClaimEnd, Return, StartSieve, CrossOut, CrossOutSundaram,
         PassBySundaram, NextClaim, AddDone, ThreadReturn, At
<1>2. \A u \in Threads \ {t} : /\ pc'[u] = pc[u]
                               /\ current_pos'[u] = current_pos[u]
                               /\ distance'[u] = distance[u]
  BY DEF TypeOK, Goto, sieve,
         Thread, Compute, ArriveFirst, ArriveSecond, Arrive, LeaveFirst, LeaveSecond, Leave,
         Claim, Bump, SkipCrossed, ClaimEnd, Return, StartSieve, CrossOut, CrossOutSundaram,
         PassBySundaram, NextClaim, AddDone, ThreadReturn
<1> QED
  BY <1>1, <1>2 DEF Others, Base, params, Sundaram

\* A step of t keeps ClaimInv if t makes no new claim, moves none, and changes
\* cur and the lock only while it holds the lock.
LEMMA QuietClaim ==
  ASSUME TypeOK, TypeOK', ClaimInv, NEW t \in Threads, UNCHANGED params, Others(t),
         cur' >= cur,
         cur' # cur \/ lock' # lock => pc[t] \in {"bump", "skip"},
         pc'[t] # "bump",
         pc'[t] = "skip" => lock' = t,
         Claimed(t)' => Claimed(t) /\ Base(t)' = Base(t) /\ (pc[t] = "bump" => cur' > cur)
  PROVE  ClaimInv'
<1>1. UNCHANGED Threads
  BY DEF Threads, params
<1>2. \A u \in Threads : Base(u) \in Int
  BY DEF TypeOK, Base
<1>3. \A u \in Threads : Claimed(u)' => Claimed(u) /\ Base(u)' = Base(u)
  BY DEF Others, Claimed
<1>4. \A u \in Threads : pc'[u] \in {"bump", "skip"} => lock' = u
  BY DEF Others, ClaimInv
<1>5. ASSUME NEW u \in Threads, Claimed(u)'
      PROVE  IF pc'[u] = "bump" THEN Base(u)' = cur' ELSE Base(u)' < cur'
  <2>1. CASE u = t
    BY <1>2, <1>3, <1>5, <2>1 DEF ClaimInv, TypeOK
  <2>2. CASE u # t
    <3>1. pc'[u] = pc[u] /\ Claimed(u) /\ Base(u)' = Base(u)
      BY <1>3, <1>5, <2>2 DEF Others
    <3>2. CASE pc[u] = "bump"
      BY <2>2, <3>1, <3>2 DEF ClaimInv
    <3>3. CASE pc[u] # "bump"
      BY <1>2, <3>1, <3>3 DEF ClaimInv, TypeOK
    <3> QED
      BY <3>2, <3>3
  <2> QED
    BY <2>1, <2>2
<1>6. ClaimsDistinct'
  BY <1>1, <1>3 DEF ClaimInv, ClaimsDistinct
<1> QED
  BY <1>1, <1>4, <1>5, <1>6 DEF ClaimInv

LEMMA ThreadClaim ==
  ASSUME TypeOK, ClaimInv, NEW t, Thread(t)
  PROVE  ClaimInv'
<1>1. TypeOK' /\ t \in Threads /\ UNCHANGED params /\ UNCHANGED Threads /\ Others(t)
  BY ThreadType, ThreadOthers DEF params, Threads
<1>2. CASE Claim(t)
  <2>1. /\ lock = Nobody /\ lock' = t /\ cur' = cur
        /\ pc'[t] = "bump" /\ Base(t)' = cur
    BY <1>1, <1>2 DEF Claim, Take, At, Goto, TypeOK, Base
  <2>2. \A u \in Threads : pc[u] \notin {"bump", "skip"}
    BY <2>1 DEF ClaimInv, Threads, Nobody, TypeOK
  <2>3. \A u \in Threads : Base(u) \in Int
    BY DEF TypeOK, Base
  <2>4. \A u \in Threads \ {t} : Claimed(u)' => pc'[u] # "bump" /\ Base(u)' < cur
    BY <1>1, <2>2 DEF Others, ClaimInv, Claimed
  <2>5. \A u \in Threads : pc'[u] \in {"bump", "skip"} => lock' = u
    BY <1>1, <2>1, <2>2 DEF Others
  <2>6. \A u, v \in Threads : u # v /\ Claimed(u)' /\ Claimed(v)' => Base(u)' # Base(v)'
    <3> SUFFICES ASSUME NEW u \in Threads, NEW v \in Threads, u # v, Claimed(u)', Claimed(v)'
                 PROVE  Base(u)' # Base(v)'
      OBVIOUS
    <3>1. CASE u # t /\ v # t
      BY <1>1, <3>1 DEF Others, ClaimInv, ClaimsDistinct, Claimed
    <3>2. CASE u = t
      BY <1>1, <2>1, <2>3, <2>4, <3>2 DEF TypeOK, Others
    <3>3. CASE v = t
      BY <1>1, <2>1, <2>3, <2>4, <3>3 DEF TypeOK, Others
    <3> QED
      BY <3>1, <3>2, <3>3
  <2> QED
    BY <1>1, <2>1, <2>4, <2>5, <2>6 DEF ClaimInv, ClaimsDistinct
<1>3. ASSUME cur' >= cur,
             cur' # cur \/ lock' # lock => pc[t] \in {"bump", "skip"},
             pc'[t] # "bump",
             pc'[t] = "skip" => lock' = t,
             Claimed(t)' => Claimed(t) /\ Base(t)' = Base(t) /\ (pc[t] = "bump" => cur' > cur)
      PROVE  ClaimInv'
  BY <1>1, <1>3, QuietClaim
<1> USE DEF TypeOK, Claimed, Base, At, Goto, sieve
<1>4. CASE Bump(t)
  BY <1>1, <1>3, <1>4 DEF Bump, ClaimInv
<1>5. CASE SkipCrossed(t)
  BY <1>1, <1>3, <1>5 DEF SkipCrossed, ClaimInv
<1>6. CASE ClaimEnd(t)
  BY <1>1, <1>3, <1>6 DEF ClaimEnd, Release
<1>7. CASE Return(t)
  BY <1>1, <1>3, <1>7 DEF Return
<1>8. CASE StartSieve(t)
  <2>1. pc[t] = "check" /\ pc'[t] = "cross" /\ UNCHANGED <<cur, lock>>
    BY <1>1, <1>8 DEF StartSieve
  <2>2. Base(t)' = Base(t)
    BY <1>1, <1>8, <2>1 DEF StartSieve, params, Sundaram
  <2> QED
    BY <1>3, <2>1, <2>2
<1>9. CASE CrossOut(t)
  <2>1. pc[t] = "cross" /\ UNCHANGED <<pc, cur, lock>>
    BY <1>9 DEF CrossOut
  <2>2. Base(t)' = Base(t)
    BY <1>1, <1>9, <2>1 DEF CrossOut, params, Sundaram
  <2> QED
    BY <1>3, <2>1, <2>2
<1>10. CASE CrossOutSundaram(t)
  <2>1. pc[t] = "cross" /\ UNCHANGED <<pc, cur, lock>>
    BY <1>10 DEF CrossOutSundaram
  <2>2. Base(t)' = Base(t)
    BY <1>1, <1>10, <2>1 DEF CrossOutSundaram, params, Sundaram
  <2> QED
    BY <1>3, <2>1, <2>2
<1>11. CASE PassBySundaram(t)
  <2>1. pc[t] = "cross" /\ UNCHANGED <<pc, cur, lock>>
    BY <1>11 DEF PassBySundaram
  <2>2. Base(t)' = Base(t)
    BY <1>1, <1>11, <2>1 DEF PassBySundaram, params, Sundaram
  <2> QED
    BY <1>3, <2>1, <2>2
<1>12. CASE NextClaim(t)
  BY <1>1, <1>3, <1>12 DEF NextClaim
<1>13. CASE ArriveFirst(t)
  BY <1>1, <1>3, <1>13 DEF ArriveFirst, Arrive
<1>14. CASE ArriveSecond(t)
  BY <1>1, <1>3, <1>14 DEF ArriveSecond, Arrive
<1>15. CASE LeaveFirst(t)
  BY <1>1, <1>3, <1>15 DEF LeaveFirst, Leave
<1>16. CASE LeaveSecond(t)
  BY <1>1, <1>3, <1>16 DEF LeaveSecond, Leave, barrier
<1>17. CASE AddDone(t)
  BY <1>1, <1>3, <1>17 DEF AddDone, barrier
<1>18. CASE ThreadReturn(t)
  BY <1>1, <1>3, <1>18 DEF ThreadReturn
<1> QED
  BY <1>2, <1>4, <1>5, <1>6, <1>7, <1>8, <1>9, <1>10, <1>11, <1>12, <1>13, <1>14, <1>15, <1>16, <1>17, <1>18
  DEF Thread, Compute

LEMMA NextClaimInv == TypeOK /\ ClaimInv /\ [Next]_vars => ClaimInv'
<1> SUFFICES ASSUME TypeOK, ClaimInv, [Next]_vars PROVE ClaimInv'
  OBVIOUS
<1>1. ASSUME UNCHANGED <<params, lock, cur, current_pos, distance>>,
             \A t \in Threads : pc'[t] = pc[t] \/ pc'[t] \in {"arrive0", "failed"}
      PROVE  ClaimInv'
  BY <1>1 DEF params, ClaimInv, ClaimsDistinct, Claimed, Base, Threads, Sundaram
<1>2. CASE Spawn
  BY <1>1, <1>2 DEF Spawn, Goto, TypeOK, sieve
<1>3. ASSUME NEW t \in ThreadIds, Thread(t) PROVE ClaimInv'
  BY <1>3, ThreadClaim
<1>4. CASE SetUp \/ InitReturn \/ Exit \/ Stopped \/ UNCHANGED vars
  BY <1>1, <1>4 DEF SetUp, InitReturn, Exit, ExitEarly, ExitReport, Stopped, vars, sieve
<1>5. ASSUME NEW t \in ThreadIds, Fault(t) PROVE ClaimInv'
  BY <1>1, <1>5 DEF Fault, sieve
<1> QED
  BY <1>2, <1>3, <1>4, <1>5 DEF Next

\* For every number of kthreads and every array, no two kthreads ever sieve with
\* the same number.
THEOREM DistinctClaims == Spec => []ClaimsDistinct
<1>1. Init => ClaimInv
  BY InitClaim
<1>2. TypeOK /\ ClaimInv /\ [Next]_vars => ClaimInv'
  BY NextClaimInv
<1>3. ClaimInv => ClaimsDistinct
  BY DEF ClaimInv
<1> QED
  BY <1>1, <1>2, <1>3, TypeCorrect, PTL DEF Spec

-----------------------------------------------------------------------------
(* The sieve.                                                              *)

\* A product of two factors above 1 is composite in the bounded sense of Sieve.
LEMMA ProductComposite ==
  ASSUME NEW d \in Nat, NEW e \in Nat, d >= 2, e >= 2
  PROVE  Composite(d * e)
<1>1. d * e \in Nat /\ d <= d * e /\ e <= d * e
  BY SMTT(30)
<1> QED
  BY <1>1 DEF Composite

\* The factors a kthread sieves with are above 1: an Eratosthenes position stands
\* for a multiple of distance, a Sundaram one for (2i + 1)(2j + 1).
Sieving(t) ==
  /\ pc[t] \in {"bump", "skip", "check"} => current_pos[t] >= IF Sundaram THEN 1 ELSE 0
  /\ pc[t] = "cross" => IF Sundaram
       THEN current_pos[t] >= 1 /\ distance[t] >= current_pos[t]
       ELSE /\ distance[t] >= 2
            /\ \E k \in Nat : k >= 2 /\ current_pos[t] + 2 = k * distance[t]

SieveInv ==
  /\ cur >= IF Sundaram THEN 1 ELSE 0
  /\ \A t \in Threads : Sieving(t)
  /\ PrimesSurvive

LEMMA InitSieve == Init => SieveInv
  BY DEF Init, SieveInv, Sieving, PrimesSurvive

\* A step keeps the part of SieveInv about positions if it keeps t's part.
LEMMA OthersSieve ==
  ASSUME TypeOK, SieveInv, NEW t \in Threads, UNCHANGED params, cur' \in Nat, cur' >= cur,
         \A u \in Threads \ {t} : /\ pc'[u] = pc[u]
                                  /\ current_pos'[u] = current_pos[u]
                                  /\ distance'[u] = distance[u],
         Sieving(t)', PrimesSurvive'
  PROVE  SieveInv'
<1>1. UNCHANGED Threads /\ UNCHANGED Sundaram
  BY DEF Threads, params, Sundaram
<1>2. \A u \in Threads : Sieving(u)
  BY DEF SieveInv
<1>3. \A u \in Threads \ {t} : Sieving(u)'
  BY <1>1, <1>2 DEF Sieving
<1>4. \A u \in Threads : Sieving(u)'
  BY <1>3
<1>5. (cur >= IF Sundaram THEN 1 ELSE 0)'
  BY <1>1 DEF SieveInv, TypeOK
<1> QED
  BY <1>1, <1>4, <1>5 DEF SieveInv

LEMMA SameNumbers ==
  ASSUME SieveInv, UNCHANGED <<params, arrays, number>>
  PROVE  PrimesSurvive'
  BY DEF SieveInv, PrimesSurvive, params, Positions, Stands, Sundaram

\* Crossing out a composite crosses out no prime.
LEMMA CrossComposite ==
  ASSUME TypeOK, SieveInv, UNCHANGED <<params, arrays>>, NEW p,
         number' = [number EXCEPT ![p] = 0], Composite(Stands(p))
  PROVE  PrimesSurvive'
<1> SUFFICES ASSUME arrays # "null", NEW q \in Positions, number'[q] = 0
             PROVE  Composite(Stands(q)) \/ Stands(q) = 1
  BY DEF PrimesSurvive, params, Positions, Stands, Sundaram
<1>1. CASE q = p
  BY <1>1
<1>2. CASE q # p
  <2>1. number[q] = 0
    BY <1>2 DEF TypeOK
  <2> QED
    BY <2>1 DEF SieveInv, PrimesSurvive
<1> QED
  BY <1>1, <1>2

LEMMA ThreadSieve ==
  ASSUME TypeOK, SieveInv, NEW t, Thread(t)
  PROVE  SieveInv'
<1>1. t \in Threads /\ UNCHANGED <<params, mod>> /\ UNCHANGED Sundaram /\ arrays' = arrays
  BY ThreadOthers DEF params, Sundaram, mod
<1>2. \A u \in Threads \ {t} : /\ pc'[u] = pc[u]
                               /\ current_pos'[u] = current_pos[u]
                               /\ distance'[u] = distance[u]
  BY DEF TypeOK, Goto, sieve,
         Thread, Compute, ArriveFirst, ArriveSecond, Arrive, LeaveFirst, LeaveSecond, Leave,
         Claim, Bump, SkipCrossed, ClaimEnd, Return, StartSieve, CrossOut, CrossOutSundaram,
         PassBySundaram, NextClaim, AddDone, ThreadReturn
<1>3. cur' \in Nat /\ cur' >= cur /\ cur \in Nat
  BY DEF TypeOK, sieve,
         Thread, Compute, ArriveFirst, ArriveSecond, Arrive, LeaveFirst, LeaveSecond, Leave,
         Claim, Bump, SkipCrossed, ClaimEnd, Return, StartSieve, CrossOut, CrossOutSundaram,
         PassBySundaram, NextClaim, AddDone, ThreadReturn
<1>4. ASSUME Sieving(t)', PrimesSurvive' PROVE SieveInv'
  BY <1>1, <1>2, <1>3, <1>4, OthersSieve
<1>5. ASSUME number' = number PROVE PrimesSurvive'
  BY <1>1, <1>5, SameNumbers
<1>6. Sieving(t)
  BY <1>1 DEF SieveInv
<1>7. CASE CrossOut(t)
  <2>1. /\ pc[t] = "cross" /\ pc' = pc /\ ~Sundaram /\ UNCHANGED distance
        /\ number' = [number EXCEPT ![current_pos[t]] = 0]
        /\ current_pos'[t] = current_pos[t] + distance[t]
    BY <1>1, <1>7 DEF CrossOut, At, TypeOK
  <2>2. PICK k \in Nat : k >= 2 /\ current_pos[t] + 2 = k * distance[t]
    BY <1>6, <2>1 DEF Sieving
  <2>3. current_pos[t] \in Int /\ distance[t] \in Nat /\ distance[t] >= 2
    BY <1>1, <1>6, <2>1 DEF Sieving, TypeOK
  <2>4. Composite(Stands(current_pos[t]))
    BY <2>1, <2>2, <2>3, ProductComposite DEF Stands
  <2>5. current_pos'[t] + 2 = (k + 1) * distance[t]
    BY <2>1, <2>2, <2>3
  <2>6. Sieving(t)'
    BY <1>1, <2>1, <2>2, <2>3, <2>5 DEF Sieving
  <2> QED
    BY <1>1, <1>4, <2>1, <2>4, <2>6, CrossComposite
<1>8. CASE CrossOutSundaram(t)
  <2>1. /\ pc[t] = "cross" /\ pc' = pc /\ Sundaram /\ UNCHANGED current_pos
        /\ number' = [number EXCEPT ![Target(t)] = 0]
        /\ distance'[t] = distance[t] + 1
    BY <1>1, <1>8 DEF CrossOutSundaram, At, TypeOK
  <2>2. /\ current_pos[t] \in Nat /\ current_pos[t] >= 1
        /\ distance[t] \in Nat /\ distance[t] >= current_pos[t]
    BY <1>1, <1>6, <2>1 DEF Sieving, TypeOK
  <2>3. Stands(Target(t)) = (2 * current_pos[t] + 1) * (2 * distance[t] + 1)
    BY <2>1, <2>2 DEF Stands, Target, SundaramPosition
  <2>4. Composite(Stands(Target(t)))
    <3>1. 2 * current_pos[t] + 1 \in Nat /\ 2 * current_pos[t] + 1 >= 2
      BY <2>2
    <3>2. 2 * distance[t] + 1 \in Nat /\ 2 * distance[t] + 1 >= 2
      BY <2>2
    <3>3. Composite((2 * current_pos[t] + 1) * (2 * distance[t] + 1))
      BY <3>1, <3>2, ProductComposite
    <3> QED
      BY <2>3, <3>3
  <2>5. Sieving(t)'
    BY <1>1, <2>1, <2>2 DEF Sieving
  <2> QED
    BY <1>1, <1>4, <2>1, <2>4, <2>5, CrossComposite
<1>9. CASE StartSieve(t)
  <2>1. pc[t] = "check" /\ pc'[t] = "cross" /\ number' = number /\ current_pos[t] \in Int
    BY <1>1, <1>9 DEF StartSieve, At, Goto, TypeOK
  <2>2. CASE Sundaram
    <3>1. distance'[t] = current_pos[t] /\ current_pos'[t] = current_pos[t]
      BY <1>1, <1>9, <2>2 DEF StartSieve, TypeOK
    <3> QED
      BY <1>1, <1>4, <1>5, <1>6, <2>1, <2>2, <3>1 DEF Sieving
  <2>3. CASE ~Sundaram
    <3>1. distance'[t] = current_pos[t] + 2 /\ current_pos'[t] + 2 = 2 * distance'[t]
      BY <1>1, <1>9, <2>1, <2>3 DEF StartSieve, FirstMultiple, TypeOK
    <3>2. distance'[t] >= 2
      BY <1>6, <2>1, <2>3, <3>1 DEF Sieving
    <3>3. Sieving(t)'
      BY <1>1, <2>1, <2>3, <3>1, <3>2 DEF Sieving
    <3> QED
      BY <1>4, <1>5, <2>1, <3>3
  <2> QED
    BY <2>2, <2>3
<1>10. CASE Claim(t)
  <2>1. pc'[t] = "bump" /\ current_pos'[t] = cur /\ number' = number
    BY <1>1, <1>10 DEF Claim, Goto, TypeOK
  <2> QED
    BY <1>1, <1>3, <1>4, <1>5, <2>1 DEF Sieving, SieveInv
<1>11. CASE PassBySundaram(t)
  <2>1. /\ pc' = pc /\ pc[t] = "cross" /\ Sundaram /\ UNCHANGED <<current_pos, number>>
        /\ distance'[t] = distance[t] + 1 /\ distance[t] \in Int /\ current_pos[t] \in Int
    BY <1>1, <1>11 DEF PassBySundaram, At, TypeOK
  <2> QED
    BY <1>1, <1>4, <1>5, <1>6, <2>1 DEF Sieving
<1>12. ASSUME UNCHANGED <<number, current_pos, distance>>,
              pc'[t] # "cross",
              pc'[t] \in {"bump", "skip", "check"} => pc[t] \in {"bump", "skip", "check"}
       PROVE  SieveInv'
  BY <1>1, <1>4, <1>5, <1>6, <1>12 DEF Sieving
<1> USE DEF TypeOK, At, Goto, sieve
<1>13. CASE Bump(t) \/ SkipCrossed(t) \/ ClaimEnd(t) \/ Return(t)
  BY <1>1, <1>12, <1>13 DEF Bump, SkipCrossed, ClaimEnd, Return
<1>14. CASE NextClaim(t) \/ AddDone(t) \/ ThreadReturn(t)
  BY <1>1, <1>12, <1>14 DEF NextClaim, AddDone, ThreadReturn
<1>15. CASE ArriveFirst(t) \/ LeaveFirst(t) \/ ArriveSecond(t) \/ LeaveSecond(t)
  BY <1>1, <1>12, <1>15 DEF ArriveFirst, LeaveFirst, ArriveSecond, LeaveSecond, Arrive, Leave
<1> QED
  BY <1>7, <1>8, <1>9, <1>10, <1>11, <1>13, <1>14, <1>15 DEF Thread, Compute

LEMMA NextSieve == TypeOK /\ TypeOK' /\ SieveInv /\ LifeInv /\ [Next]_vars => SieveInv'
<1> SUFFICES ASSUME TypeOK, TypeOK', SieveInv, LifeInv, [Next]_vars PROVE SieveInv'
  OBVIOUS
<1>1. ASSUME UNCHANGED <<params, cur, current_pos, distance>>, PrimesSurvive',
             \A t \in Threads : pc'[t] = pc[t] \/ pc'[t] \in {"arrive0", "failed"}
      PROVE  SieveInv'
  BY <1>1 DEF params, SieveInv, Sieving, Threads, Sundaram
<1>2. ASSUME UNCHANGED <<params, cur, current_pos, distance, number>>,
             arrays' # "null" => arrays # "null",
             \A t \in Threads : pc'[t] = pc[t] \/ pc'[t] \in {"arrive0", "failed"}
      PROVE  SieveInv'
  BY <1>1, <1>2 DEF SieveInv, PrimesSurvive, params, Positions, Stands, Sundaram
<1>3. CASE SetUp
  <2>1. UNCHANGED <<params, cur, current_pos, distance, pc, Sundaram, upper_bound, Positions>>
    BY <1>3 DEF SetUp, params, Sundaram, Positions
  <2>2. CASE UNCHANGED <<arrays, number>>
    BY <1>2, <2>1, <2>2
  <2>3. CASE number' = [p \in Positions |-> IF Sundaram THEN p ELSE p + 2]
    <3>1. \A p \in Positions : number'[p] = 0 => Stands(p)' = 1
      BY <2>1, <2>3 DEF Stands, Positions, TypeOK
    <3> QED
      BY <1>1, <2>1, <3>1 DEF PrimesSurvive
  <2> QED
    BY <1>3, <2>2, <2>3 DEF SetUp
<1>4. CASE Spawn
  BY <1>2, <1>4 DEF Spawn, Goto, TypeOK, sieve
<1>5. ASSUME NEW t \in ThreadIds, Thread(t) PROVE SieveInv'
  BY <1>5, ThreadSieve
<1>6. CASE InitReturn \/ Exit \/ Stopped \/ UNCHANGED vars
  BY <1>2, <1>6 DEF InitReturn, Exit, ExitEarly, ExitReport, Stopped, vars, sieve, mod
<1>7. ASSUME NEW t \in ThreadIds, Fault(t) PROVE SieveInv'
  BY <1>2, <1>7 DEF Fault, sieve
<1> QED
  BY <1>3, <1>4, <1>5, <1>6, <1>7 DEF Next

\* For every program, every number of kthreads, every upper bound and every
\* interleaving, with or without the lock around the cross-out, no prime is
\* ever crossed out.
THEOREM PrimesAreSafe == Spec => []PrimesSurvive
<1>1. Init => SieveInv
  BY InitSieve
<1>2. TypeOK /\ TypeOK' /\ SieveInv /\ LifeInv /\ [Next]_vars => SieveInv'
  BY NextSieve
<1>3. SieveInv => PrimesSurvive
  BY DEF SieveInv
<1>4. FrameInv => TypeOK /\ LifeInv
  BY DEF FrameInv
<1> QED
  BY <1>1, <1>2, <1>3, <1>4, FrameInvariant, PTL DEF Spec

-----------------------------------------------------------------------------
(* What is crossed out, and how often.                                     *)

\* The first position a kthread claims.
Least == IF Sundaram THEN 1 ELSE 0

\* A number is the one its position stands for, or crossed out.
NumbersInv ==
  arrays # "null" =>
    /\ ~BadParameters
    /\ \A p \in Positions : number[p] \in {0, IF Sundaram THEN p ELSE p + 2}

LEMMA InitNumbers == Init => NumbersInv
  BY DEF Init, NumbersInv

\* A kthread's step crosses out one number or none.
LEMMA NumberStep ==
  ASSUME TypeOK, LifeInv, NEW t, Thread(t)
  PROVE  /\ arrays # "null"
         /\ \/ number' = number
            \/ CrossOut(t) /\ number' = [number EXCEPT ![current_pos[t]] = 0]
            \/ CrossOutSundaram(t) /\ number' = [number EXCEPT ![Target(t)] = 0]
<1>1. t \in Threads /\ pc[t] # "none"
  BY DEF Thread, Compute, ArriveFirst, ArriveSecond, Arrive, LeaveFirst, LeaveSecond, Leave,
         Claim, Bump, SkipCrossed, ClaimEnd, Return, StartSieve, CrossOut, CrossOutSundaram,
         PassBySundaram, NextClaim, AddDone, ThreadReturn, At
<1>2. arrays # "null"
  BY <1>1 DEF LifeInv
<1>3. \/ number' = number
      \/ CrossOut(t) /\ number' = [number EXCEPT ![current_pos[t]] = 0]
      \/ CrossOutSundaram(t) /\ number' = [number EXCEPT ![Target(t)] = 0]
  BY DEF sieve, Thread, Compute, ArriveFirst, ArriveSecond, Arrive, LeaveFirst, LeaveSecond, Leave,
         Claim, Bump, SkipCrossed, ClaimEnd, Return, StartSieve, CrossOut, CrossOutSundaram,
         PassBySundaram, NextClaim, AddDone, ThreadReturn
<1> QED
  BY <1>2, <1>3

\* Once the array is there, no step writes anything but 0 into it.
LEMMA NumbersFall ==
  ASSUME TypeOK, LifeInv, [Next]_vars, arrays # "null"
  PROVE  /\ UNCHANGED <<params, Threads, Positions, Sundaram, Least, BadParameters>>
         /\ arrays' # "null"
         /\ \A p \in Positions : number'[p] = number[p] \/ number'[p] = 0
<1>1. UNCHANGED params /\ arrays' # "null" /\ (number' = number \/ \E t : Thread(t))
  <2>1. CASE SetUp
    BY <2>1 DEF SetUp, LifeInv
  <2>2. CASE Spawn \/ InitReturn \/ Exit \/ Stopped \/ UNCHANGED vars
    BY <2>2 DEF Spawn, InitReturn, Exit, ExitEarly, ExitReport, Stopped, vars, sieve, mod
  <2>3. ASSUME NEW t \in ThreadIds, Fault(t) PROVE UNCHANGED params /\ arrays' # "null" /\ number' = number
    BY <2>3 DEF Fault, sieve
  <2>4. ASSUME NEW t \in ThreadIds, Thread(t) PROVE UNCHANGED params /\ arrays' # "null" /\ \E u : Thread(u)
    BY <2>4, ThreadOthers DEF mod
  <2> QED
    BY <2>1, <2>2, <2>3, <2>4 DEF Next
<1>2. \A p \in Positions : number'[p] = number[p] \/ number'[p] = 0
  BY <1>1, NumberStep DEF TypeOK
<1>3. UNCHANGED <<Threads, Positions, Sundaram, Least, BadParameters>>
  BY <1>1 DEF params, Threads, Positions, Sundaram, Least, BadParameters
<1> QED
  BY <1>1, <1>2, <1>3

LEMMA NextNumbers == TypeOK /\ LifeInv /\ NumbersInv /\ [Next]_vars => NumbersInv'
<1> SUFFICES ASSUME TypeOK, LifeInv, NumbersInv, [Next]_vars PROVE NumbersInv'
  OBVIOUS
<1>1. CASE arrays # "null"
  BY <1>1, NumbersFall DEF NumbersInv
<1>2. CASE arrays = "null"
  <2> SUFFICES ASSUME arrays' # "null" PROVE NumbersInv'
    BY DEF NumbersInv
  <2>1. SetUp
    <3>1. ~ \E t : Thread(t)
      BY <1>2, NumberStep
    <3>2. ~ (Spawn \/ InitReturn \/ Exit \/ Stopped \/ UNCHANGED vars)
      BY <1>2 DEF Spawn, InitReturn, Exit, ExitEarly, ExitReport, Stopped, vars, mod
    <3>3. ~ \E t : Fault(t)
      BY <1>2 DEF Fault
    <3> QED
      BY <3>1, <3>2, <3>3 DEF Next
  <2>2. /\ ~BadParameters /\ UNCHANGED params
        /\ number' = [p \in Positions |-> IF Sundaram THEN p ELSE p + 2]
    BY <1>2, <2>1 DEF SetUp
  <2>3. UNCHANGED <<Positions, Sundaram, BadParameters>>
    BY <2>2 DEF params, Positions, Sundaram, BadParameters
  <2> QED
    BY <2>2, <2>3 DEF NumbersInv
<1> QED
  BY <1>1, <1>2

-----------------------------------------------------------------------------
(* The count of cross-outs.                                                *)

Crossed == {p \in Positions : number[p] = 0}

\* The Eratosthenes modules have counted at least one cross-out for every number
\* that is crossed out, and none before there is an array.
LedgerInv ==
  /\ IsFiniteSet(CrossOuts)
  /\ arrays = "null" => CrossOuts = {}
  /\ arrays # "null" /\ ~Sundaram =>
       /\ IsFiniteSet(Crossed)
       /\ Cardinality(Crossed) <= Cardinality(CrossOuts)

LEMMA InitLedger == Init => LedgerInv
<1> SUFFICES ASSUME Init PROVE LedgerInv
  OBVIOUS
<1>1. \A t \in Threads : 1 .. counter[t] = {}
  BY DEF Init
<1>2. CrossOuts = {}
  BY <1>1 DEF CrossOuts
<1> QED
  BY <1>2, FS_EmptySet DEF LedgerInv, Init

LEMMA OneMoreCounted ==
  ASSUME TypeOK, UNCHANGED num_threads, NEW t \in Threads, IsFiniteSet(CrossOuts),
         counter' = [counter EXCEPT ![t] = @ + 1]
  PROVE  IsFiniteSet(CrossOuts') /\ Cardinality(CrossOuts') = Cardinality(CrossOuts) + 1
<1>1. UNCHANGED Threads /\ counter[t] \in Nat /\ counter'[t] = counter[t] + 1
  BY DEF Threads, TypeOK
<1>2. \A u \in Threads \ {t} : counter'[u] = counter[u]
  BY DEF TypeOK
<1>3. {t} \X (1 .. counter'[t]) = ({t} \X (1 .. counter[t])) \cup {<<t, counter[t] + 1>>}
  <2>1. 1 .. counter'[t] = (1 .. counter[t]) \cup {counter[t] + 1}
    BY <1>1
  <2> QED
    BY <2>1
<1>4. \A x : x \in CrossOuts' <=> x \in CrossOuts \/ x = <<t, counter[t] + 1>>
  <2>1. \A x : x \in CrossOuts' <=> \E u \in Threads : x \in {u} \X (1 .. counter'[u])
    BY <1>1 DEF CrossOuts
  <2>2. \A x : x \in CrossOuts <=> \E u \in Threads : x \in {u} \X (1 .. counter[u])
    BY DEF CrossOuts
  <2> QED
    BY <1>2, <1>3, <2>1, <2>2
<1>5. CrossOuts' = CrossOuts \cup {<<t, counter[t] + 1>>}
  BY <1>4
<1>6. <<t, counter[t] + 1>> \notin CrossOuts
  BY <1>1 DEF CrossOuts
<1> QED
  BY <1>5, <1>6, FS_AddElement

\* A cross-out that is counted adds at most one number to those crossed out.
LEMMA OneMoreCrossed ==
  ASSUME TypeOK, UNCHANGED params, NEW q, arrays # "null",
         number' = [number EXCEPT ![q] = 0], IsFiniteSet(Crossed)
  PROVE  IsFiniteSet(Crossed') /\ Cardinality(Crossed') <= Cardinality(Crossed) + 1
<1>1. UNCHANGED Positions
  BY DEF params, Positions, Sundaram
<1>2. \A p \in Positions : number'[p] = IF p = q THEN 0 ELSE number[p]
  BY DEF TypeOK
<1>3. Crossed' \in SUBSET (Crossed \cup {q})
  BY <1>1, <1>2 DEF Crossed
<1>4. /\ IsFiniteSet(Crossed \cup {q})
      /\ Cardinality(Crossed \cup {q}) <= Cardinality(Crossed) + 1
      /\ Cardinality(Crossed \cup {q}) \in Nat /\ Cardinality(Crossed) \in Nat
  <2>1. /\ IsFiniteSet(Crossed \cup {q})
        /\ Cardinality(Crossed \cup {q}) =
             IF q \in Crossed THEN Cardinality(Crossed) ELSE Cardinality(Crossed) + 1
    BY FS_AddElement
  <2>2. Cardinality(Crossed \cup {q}) \in Nat /\ Cardinality(Crossed) \in Nat
    BY <2>1, FS_CardinalityType
  <2> QED
    BY <2>1, <2>2
<1>5. /\ IsFiniteSet(Crossed') /\ Cardinality(Crossed') <= Cardinality(Crossed \cup {q})
      /\ Cardinality(Crossed') \in Nat
  BY <1>3, <1>4, FS_Subset, FS_CardinalityType
<1> QED
  BY <1>4, <1>5

LEMMA SameLedger ==
  ASSUME LedgerInv, UNCHANGED <<params, counter, number>>,
         arrays' = "null" <=> arrays = "null"
  PROVE  LedgerInv'
<1>1. UNCHANGED <<Threads, Positions, Sundaram>>
  BY DEF params, Threads, Positions, Sundaram
<1>2. UNCHANGED <<CrossOuts, Crossed>>
  BY <1>1 DEF CrossOuts, Crossed
<1> QED
  BY <1>1, <1>2 DEF LedgerInv

LEMMA NextLedger == TypeOK /\ LifeInv /\ LedgerInv /\ [Next]_vars => LedgerInv'
<1> SUFFICES ASSUME TypeOK, LifeInv, LedgerInv, [Next]_vars PROVE LedgerInv'
  OBVIOUS
<1>1. CASE SetUp
  <2>1. UNCHANGED <<params, counter>> /\ arrays = "null"
    BY <1>1 DEF SetUp, LifeInv
  <2>2. UNCHANGED <<Threads, Positions, Sundaram, CrossOuts>>
    BY <2>1 DEF params, Threads, Positions, Sundaram, CrossOuts
  <2>3. CASE UNCHANGED <<arrays, number>>
    BY <2>1, <2>3, SameLedger
  <2>4. CASE number' = [p \in Positions |-> IF Sundaram THEN p ELSE p + 2]
    <3>1. ASSUME ~Sundaram PROVE Crossed' = {}
      <4>1. \A p \in Positions : number'[p] = p + 2 /\ p \in Nat
        BY <2>4, <3>1 DEF Positions, TypeOK
      <4>2. \A p \in Positions : number'[p] # 0
        BY <4>1
      <4> QED
        BY <2>2, <4>2 DEF Crossed
    <3>2. CrossOuts = {} /\ IsFiniteSet({}) /\ Cardinality({}) = 0
      BY <2>1, FS_EmptySet DEF LedgerInv
    <3> QED
      BY <2>2, <3>1, <3>2 DEF LedgerInv
  <2> QED
    BY <1>1, <2>3, <2>4 DEF SetUp
<1>2. CASE Spawn \/ InitReturn \/ Exit \/ Stopped \/ UNCHANGED vars
  BY <1>2, SameLedger DEF Spawn, InitReturn, Exit, ExitEarly, ExitReport, Stopped, vars, sieve, mod
<1>3. ASSUME NEW t \in ThreadIds, Fault(t) PROVE LedgerInv'
  BY <1>3, SameLedger DEF Fault, sieve
<1>4. ASSUME NEW t \in ThreadIds, Thread(t) PROVE LedgerInv'
  <2>1. t \in Threads /\ UNCHANGED params /\ UNCHANGED arrays /\ arrays # "null"
    BY <1>4, ThreadOthers, NumberStep DEF mod
  <2>2. UNCHANGED <<num_threads, Sundaram>>
    BY <2>1 DEF params, Sundaram
  <2>3. CASE number' = number /\ UNCHANGED counter
    BY <2>1, <2>3, SameLedger
  <2>4. CASE CrossOut(t) \/ CrossOutSundaram(t)
    <3>1. counter' = [counter EXCEPT ![t] = @ + 1]
      BY <2>4 DEF CrossOut, CrossOutSundaram
    <3>2. IsFiniteSet(CrossOuts') /\ Cardinality(CrossOuts') = Cardinality(CrossOuts) + 1
      BY <2>1, <2>2, <3>1, OneMoreCounted DEF LedgerInv
    <3>3. ASSUME ~Sundaram
          PROVE  IsFiniteSet(Crossed') /\ Cardinality(Crossed') <= Cardinality(CrossOuts')
      <4>1. number' = [number EXCEPT ![current_pos[t]] = 0]
        BY <2>4, <3>3 DEF CrossOut, CrossOutSundaram
      <4>2. IsFiniteSet(Crossed) /\ Cardinality(Crossed) <= Cardinality(CrossOuts)
        BY <2>1, <3>3 DEF LedgerInv
      <4>3. IsFiniteSet(Crossed') /\ Cardinality(Crossed') <= Cardinality(Crossed) + 1
        BY <2>1, <4>1, <4>2, OneMoreCrossed
      <4>4. /\ Cardinality(Crossed) \in Nat /\ Cardinality(Crossed') \in Nat
            /\ Cardinality(CrossOuts) \in Nat
        BY <4>2, <4>3, FS_CardinalityType DEF LedgerInv
      <4> QED
        BY <3>2, <4>2, <4>3, <4>4
    <3> QED
      BY <2>1, <2>2, <3>2, <3>3 DEF LedgerInv
  <2>5. CrossOut(t) \/ CrossOutSundaram(t) \/ (number' = number /\ counter' = counter)
    BY <1>4 DEF sieve, Thread, Compute, ArriveFirst, ArriveSecond, Arrive, LeaveFirst, LeaveSecond,
         Leave, Claim, Bump, SkipCrossed, ClaimEnd, Return, StartSieve, PassBySundaram, NextClaim,
         AddDone, ThreadReturn
  <2> QED
    BY <2>3, <2>4, <2>5
<1> QED
  BY <1>1, <1>2, <1>3, <1>4 DEF Next

\* For every number of kthreads and every interleaving, locked or not, the kthreads
\* of the Eratosthenes modules have counted all that has been crossed out.
THEOREM NoneIsUncounted == Spec => []NoCrossOutLost
<1>1. ASSUME TypeOK, NumbersInv, LedgerInv PROVE NoCrossOutLost
  <2> SUFFICES ASSUME Finished, ~Sundaram PROVE Unnecessary >= 0
    BY DEF NoCrossOutLost
  <2>1. /\ arrays # "null" /\ ~BadParameters /\ upper_bound \in Nat
        /\ \A p \in Positions : number[p] \in {0, p + 2}
        /\ Positions = 0 .. upper_bound - 2
    BY <1>1 DEF Finished, NumbersInv, Positions, TypeOK
  <2>2. IsFiniteSet(Positions) /\ Cardinality(Positions) = upper_bound - 1
    <3>1. upper_bound - 2 \in Int /\ 0 <= upper_bound - 2
      BY <2>1 DEF BadParameters
    <3> QED
      BY <2>1, <3>1, FS_Interval
  <2>3. IsFiniteSet(Crossed) /\ Cardinality(Crossed) <= Cardinality(CrossOuts)
    BY <1>1, <2>1 DEF LedgerInv
  <2>4. Cardinality(Survivors) = upper_bound - 1 - Cardinality(Crossed) /\ IsFiniteSet(Survivors)
    <3>1. Survivors = Positions \ Crossed /\ Positions \cap Crossed = Crossed
      BY DEF Survivors, Crossed
    <3> QED
      BY <2>2, <3>1, FS_Difference
  <2>5. Cardinality(Reported) = Cardinality(Survivors)
    <3>1. PICK f : f = [p \in Survivors |-> number[p]]
      OBVIOUS
    <3>2. Reported = {number[p] : p \in Survivors}
      BY DEF Reported
    <3>3. f \in Surjection(Survivors, Reported)
      BY <3>1, <3>2 DEF Surjection
    <3>4. \A p \in Survivors : number[p] = p + 2 /\ p \in Int
      BY <2>1 DEF Survivors
    <3>5. f \in Injection(Survivors, Reported)
      BY <3>1, <3>2, <3>4 DEF Injection, IsInjective
    <3> QED
      BY <2>4, <3>3, <3>5, FS_Surjection
  <2>6. Cardinality(Crossed) \in Nat /\ Cardinality(CrossOuts) \in Nat
    BY <1>1, <2>3, FS_CardinalityType DEF LedgerInv
  <2> QED
    BY <2>1, <2>3, <2>4, <2>5, <2>6 DEF Unnecessary
<1>2. FrameInv => TypeOK /\ LifeInv
  BY DEF FrameInv
<1> QED
  BY <1>1, <1>2, InitNumbers, NextNumbers, InitLedger, NextLedger, FrameInvariant, PTL DEF Spec

-----------------------------------------------------------------------------
(* Multiples.                                                              *)

\* What a kthread crosses out that sieves with position q.
Multiple(q, p) ==
  IF Sundaram
  THEN \E j \in Nat : j >= q /\ j <= upper_bound \div 4 /\ p = SundaramPosition(q, j)
  ELSE \E k \in Nat : k >= 2 /\ p + 2 = k * (q + 2)

\* A product of two naturals is above a third times one of them only from one more
\* of it on: the multiples of d are d apart.
LEMMA MultiplesApart ==
  ASSUME NEW k \in Nat, NEW m \in Nat, NEW d \in Nat, k * d > m * d
  PROVE  k * d >= m * d + d
<1>1. k > m
  <2> SUFFICES ASSUME k <= m PROVE FALSE
    OBVIOUS
  <2>1. PICK x \in Nat : m = k + x
    <3>1. m - k \in Nat /\ m = k + (m - k)
      OBVIOUS
    <3> QED
      BY <3>1
  <2>2. m * d = k * d + x * d /\ x * d \in Nat /\ k * d \in Nat
    BY <2>1
  <2> QED
    BY <2>2
<1>2. PICK y \in Nat : k = m + 1 + y
  <2>1. k - m - 1 \in Nat /\ k = m + 1 + (k - m - 1)
    BY <1>1
  <2> QED
    BY <2>1
<1>3. k * d = m * d + d + y * d /\ y * d \in Nat /\ m * d \in Nat
  BY <1>2
<1> QED
  BY <1>3

LEMMA Divides ==
  ASSUME NEW d \in Nat, d >= 1, NEW e \in Nat
  PROVE  (d * e) % d = 0
<1> DEFINE n == d * e
           x == n \div d
           r == n % d
<1>1. n \in Nat /\ x \in Int /\ r \in Int /\ n = d * x + r /\ 0 <= r /\ r < d
  OBVIOUS
<1> QED
  OBVIOUS

LEMMA SundaramAssociative ==
  ASSUME NEW a \in Nat, NEW b \in Nat, NEW c \in Nat
  PROVE  SundaramPosition(SundaramPosition(a, b), c) = SundaramPosition(a, SundaramPosition(b, c))
  BY DEF SundaramPosition

LEMMA SundaramBounds ==
  ASSUME NEW a \in Nat, NEW b \in Nat
  PROVE  /\ SundaramPosition(a, b) \in Nat
         /\ SundaramPosition(a, b) >= a + b
         /\ a >= 1 => SundaramPosition(a, b) >= 3 * b + 1
         /\ 2 * SundaramPosition(a, b) + 1 = (2 * a + 1) * (2 * b + 1)
  BY DEF SundaramPosition

LEMMA EvenOrOdd ==
  ASSUME NEW n \in Nat
  PROVE  \E i \in Nat : n = 2 * i \/ n = 2 * i + 1
<1>1. n \div 2 \in Nat /\ (n = 2 * (n \div 2) \/ n = 2 * (n \div 2) + 1)
  OBVIOUS
<1> QED
  BY <1>1

\* A multiple of a multiple is a multiple.
LEMMA MultipleOfMultiple ==
  ASSUME TypeOK, NEW r \in Nat, r >= Least, NEW q \in Nat, Multiple(r, q),
         NEW p \in Positions, Multiple(q, p),
         Sundaram => 2 * p + 1 <= upper_bound
  PROVE  Multiple(r, p)
<1>1. CASE Sundaram
  <2>1. PICK b \in Nat : b >= r /\ q = SundaramPosition(r, b)
    BY <1>1 DEF Multiple
  <2>2. PICK c \in Nat : c >= q /\ p = SundaramPosition(q, c)
    BY <1>1 DEF Multiple
  <2>3. PICK e : e = SundaramPosition(b, c)
    OBVIOUS
  <2>4. e \in Nat /\ e >= b /\ p = SundaramPosition(r, e)
    <3>1. e \in Nat /\ e >= b
      BY <2>1, <2>2, <2>3, SundaramBounds
    <3>2. p = SundaramPosition(r, e)
      BY <2>1, <2>2, <2>3, SundaramAssociative
    <3> QED
      BY <3>1, <3>2
  <2>5. p >= 3 * e + 1 /\ p \in Nat
    BY <1>1, <2>4, SundaramBounds DEF Least
  <2>6. e <= upper_bound \div 4
    BY <1>1, <2>4, <2>5 DEF TypeOK
  <2> QED
    BY <1>1, <2>1, <2>4, <2>6 DEF Multiple
<1>2. CASE ~Sundaram
  <2>1. PICK k \in Nat : k >= 2 /\ q + 2 = k * (r + 2)
    BY <1>2 DEF Multiple
  <2>2. PICK m \in Nat : m >= 2 /\ p + 2 = m * (q + 2)
    BY <1>2 DEF Multiple
  <2>3. p + 2 = (m * k) * (r + 2)
    BY <2>1, <2>2
  <2>4. m * k \in Nat /\ m * k >= 2
    <3>1. m * k >= 2 * k
      BY <2>1, <2>2, SMTT(30)
    <3> QED
      BY <2>1, <2>2, <3>1
  <2> QED
    BY <1>2, <2>3, <2>4 DEF Multiple
<1> QED
  BY <1>1, <1>2

-----------------------------------------------------------------------------
(* What a sieve leaves out.                                                *)

\* Every multiple of position q has been crossed out.
Sieved(q) == \A p \in Positions : Multiple(q, p) => number[p] = 0

\* Past its search: the position claimed last has been dropped.
Returned == {"arrive1"} \cup AtSecond

Held(q)    == \E t \in Threads : Claimed(t) /\ Base(t) = q
Working(q) == \E t \in Threads : pc[t] = "cross" /\ Base(t) = q
Dropped(q) == \E t \in Threads : pc[t] \in Returned /\ current_pos[t] = q

\* What a kthread that crosses out has not come to yet.
Ahead(t, p) ==
  IF Sundaram
  THEN \E j \in Nat : /\ j >= distance[t] /\ j <= upper_bound \div 4
                      /\ p = SundaramPosition(current_pos[t], j)
  ELSE p >= current_pos[t]

\* A position that cur has passed is crossed out or somebody's: sieved with, being
\* sieved with, or dropped.
PassedInv ==
  \A q \in Positions : q >= Least /\ q < cur =>
    number[q] = 0 \/ Sieved(q) \/ Held(q) \/ Dropped(q)

\* Who has crossed a number out goes on to all the multiples, or has done so.
CrossedInv ==
  \A p \in Positions : p >= Least /\ number[p] = 0 =>
    \E q \in Nat : q >= Least /\ Multiple(q, p) /\ (Sieved(q) \/ Working(q))

CrossingInv ==
  \A t \in Threads : pc[t] = "cross" =>
    \A p \in Positions : Multiple(Base(t), p) => number[p] = 0 \/ Ahead(t, p)

\* A kthread stops searching when cur is at the end, and cur never goes back.
ReturnInv == \A t \in Threads : pc[t] \in Returned => AtEnd(cur)

\* A kthread alone has skipped nothing that is not crossed out.
AloneInv ==
  num_threads = 1 =>
    \A t \in Threads : pc[t] \in {"skip", "check"} \cup Returned =>
      \A p \in Positions : current_pos[t] < p /\ p < cur => number[p] = 0

CompleteInv ==
  /\ arrays = "null" => cur = Least
  /\ arrays # "null" => PassedInv /\ CrossedInv /\ CrossingInv /\ ReturnInv /\ AloneInv

\* What holds of every step of kthread t: the others stay as they are, numbers are
\* crossed out and never come back, and neither does cur.
StepOf(t) ==
  /\ t \in Threads /\ arrays # "null"
  /\ UNCHANGED <<params, arrays, Threads, Positions, Sundaram, Least>>
  /\ \A u \in Threads \ {t} : /\ pc'[u] = pc[u]
                              /\ current_pos'[u] = current_pos[u]
                              /\ distance'[u] = distance[u]
  /\ \A p \in Positions : number'[p] = number[p] \/ number'[p] = 0
  /\ cur \in Nat /\ cur' \in Nat /\ cur' >= cur

LEMMA ThreadStep ==
  ASSUME TypeOK, LifeInv, NEW t \in ThreadIds, Thread(t)
  PROVE  StepOf(t)
<1>1. t \in Threads /\ arrays # "null"
  BY ThreadOthers, NumberStep
<1>2. \A u \in Threads \ {t} : /\ pc'[u] = pc[u]
                               /\ current_pos'[u] = current_pos[u]
                               /\ distance'[u] = distance[u]
  BY DEF TypeOK, Goto, sieve,
         Thread, Compute, ArriveFirst, ArriveSecond, Arrive, LeaveFirst, LeaveSecond, Leave,
         Claim, Bump, SkipCrossed, ClaimEnd, Return, StartSieve, CrossOut, CrossOutSundaram,
         PassBySundaram, NextClaim, AddDone, ThreadReturn
<1>3. cur' \in Nat /\ cur' >= cur /\ cur \in Nat
  BY DEF TypeOK, sieve,
         Thread, Compute, ArriveFirst, ArriveSecond, Arrive, LeaveFirst, LeaveSecond, Leave,
         Claim, Bump, SkipCrossed, ClaimEnd, Return, StartSieve, CrossOut, CrossOutSundaram,
         PassBySundaram, NextClaim, AddDone, ThreadReturn
<1>4. /\ UNCHANGED <<params, Threads, Positions, Sundaram, Least>>
      /\ \A p \in Positions : number'[p] = number[p] \/ number'[p] = 0
  BY <1>1, NumbersFall DEF Next
<1>5. UNCHANGED arrays
  BY ThreadOthers DEF mod
<1> QED
  BY <1>1, <1>2, <1>3, <1>4, <1>5 DEF StepOf

\* What such a step leaves of the others' claims, and of what is sieved.
LEMMA StepKeeps ==
  ASSUME NEW t, StepOf(t)
  PROVE  /\ \A q, p : Multiple(q, p)' <=> Multiple(q, p)
         /\ \A q : Sieved(q) => Sieved(q)'
         /\ \A u \in Threads \ {t} : /\ Claimed(u)' <=> Claimed(u)
                                     /\ Base(u)' = Base(u)
                                     /\ \A p : Ahead(u, p)' <=> Ahead(u, p)
<1>1. \A q, p : Multiple(q, p)' <=> Multiple(q, p)
  BY DEF StepOf, Multiple, params
<1>2. \A q : Sieved(q) => Sieved(q)'
  BY <1>1 DEF StepOf, Sieved
<1>3. ASSUME NEW u \in Threads \ {t}
      PROVE  /\ Claimed(u)' <=> Claimed(u)
             /\ Base(u)' = Base(u)
             /\ \A p : Ahead(u, p)' <=> Ahead(u, p)
  BY <1>3 DEF StepOf, Claimed, Base, Ahead, params
<1> QED
  BY <1>1, <1>2, <1>3

\* A step keeps PassedInv if cur passes only what is crossed out or claimed, and
\* kthread t gives up no claim but one it has sieved with or drops.
LEMMA PassedStep ==
  ASSUME NEW t, StepOf(t), PassedInv,
         cur' = cur \/ (cur' = cur + 1 /\ (number[cur] = 0 \/ (Claimed(t)' /\ Base(t)' = cur))),
         NEW b, b = Base(t),
         Claimed(t) => \/ Claimed(t)' /\ Base(t)' = b
                       \/ Sieved(b)'
                       \/ pc'[t] \in Returned /\ current_pos'[t] = b,
         pc[t] \in Returned => pc'[t] \in Returned /\ current_pos'[t] = current_pos[t]
  PROVE  PassedInv'
<1>1. SUFFICES ASSUME NEW q \in Positions, q >= Least, q < cur'
               PROVE  number'[q] = 0 \/ Sieved(q)' \/ Held(q)' \/ Dropped(q)'
  BY DEF PassedInv, StepOf
<1>2. t \in Threads /\ Threads' = Threads
  BY DEF StepOf
<1>3. CASE q < cur
  <2>1. CASE number[q] = 0
    BY <2>1 DEF StepOf
  <2>2. CASE Sieved(q)
    BY <2>2, StepKeeps
  <2>3. CASE Held(q)
    <3>1. PICK u \in Threads : Claimed(u) /\ Base(u) = q
      BY <2>3 DEF Held
    <3>2. CASE u = t
      BY <1>2, <3>1, <3>2 DEF Held, Dropped
    <3>3. CASE u # t
      BY <1>2, <3>1, <3>3, StepKeeps DEF Held
    <3> QED
      BY <3>2, <3>3
  <2>4. CASE Dropped(q)
    <3>1. PICK u \in Threads : pc[u] \in Returned /\ current_pos[u] = q
      BY <2>4 DEF Dropped
    <3>2. pc'[u] \in Returned /\ current_pos'[u] = q
      BY <3>1 DEF StepOf
    <3> QED
      BY <1>2, <3>2 DEF Dropped
  <2> QED
    BY <1>1, <1>3, <2>1, <2>2, <2>3, <2>4 DEF PassedInv
<1>4. CASE ~(q < cur)
  <2>1. q = cur
    BY <1>1, <1>4 DEF StepOf, Positions
  <2>2. CASE number[cur] = 0
    BY <1>1, <2>1, <2>2 DEF StepOf
  <2>3. CASE Claimed(t)' /\ Base(t)' = cur
    BY <1>2, <2>1, <2>3 DEF Held
  <2> QED
    BY <1>1, <1>4, <2>2, <2>3 DEF StepOf
<1> QED
  BY <1>3, <1>4

\* A step keeps CrossedInv if t crosses out multiples of its position and leaves no
\* multiple behind when it ends.
LEMMA CrossedStep ==
  ASSUME NEW t, StepOf(t), CrossedInv, NEW b, b = Base(t),
         pc[t] = "cross" => (pc'[t] = "cross" /\ Base(t)' = b) \/ Sieved(b)',
         \A p \in Positions : number'[p] = number[p] \/
           (b \in Nat /\ b >= Least /\ Multiple(b, p) /\ pc[t] = "cross")
  PROVE  CrossedInv'
<1>1. SUFFICES ASSUME NEW p \in Positions, p >= Least, number'[p] = 0
               PROVE  \E q \in Nat : q >= Least /\ Multiple(q, p)' /\ (Sieved(q)' \/ Working(q)')
  BY DEF CrossedInv, StepOf
<1>2. t \in Threads /\ Threads' = Threads
  BY DEF StepOf
<1>3. ASSUME pc[t] = "cross" PROVE Sieved(b)' \/ Working(b)'
  BY <1>2, <1>3 DEF Working
<1>4. CASE number[p] = 0
  <2>1. PICK q \in Nat : q >= Least /\ Multiple(q, p) /\ (Sieved(q) \/ Working(q))
    BY <1>1, <1>4 DEF CrossedInv
  <2>2. Sieved(q)' \/ Working(q)'
    <3>1. CASE Sieved(q)
      BY <3>1, StepKeeps
    <3>2. CASE Working(q)
      <4>1. PICK u \in Threads : pc[u] = "cross" /\ Base(u) = q
        BY <3>2 DEF Working
      <4>2. CASE u = t
        BY <1>3, <4>1, <4>2
      <4>3. CASE u # t
        <5>1. pc'[u] = "cross" /\ Base(u)' = q
          BY <4>1, <4>3, StepKeeps DEF StepOf
        <5> QED
          BY <1>2, <5>1 DEF Working
      <4> QED
        BY <4>2, <4>3
    <3> QED
      BY <2>1, <3>1, <3>2
  <2> QED
    BY <2>1, <2>2, StepKeeps
<1>5. CASE number[p] # 0
  BY <1>1, <1>3, <1>5, StepKeeps
<1> QED
  BY <1>4, <1>5

\* The other kthreads have no more ahead of them than before.
LEMMA CrossingStep ==
  ASSUME NEW t, StepOf(t), CrossingInv,
         pc'[t] = "cross" =>
           \A p \in Positions : Multiple(Base(t), p)' => number'[p] = 0 \/ Ahead(t, p)'
  PROVE  CrossingInv'
<1>1. SUFFICES ASSUME NEW u \in Threads, pc'[u] = "cross", NEW p \in Positions,
                      Multiple(Base(u), p)'
               PROVE  number'[p] = 0 \/ Ahead(u, p)'
  BY DEF CrossingInv, StepOf
<1>2. CASE u = t
  BY <1>1, <1>2
<1>3. CASE u # t
  <2>1. PICK b : b = Base(u)
    OBVIOUS
  <2>2. Base(u)' = b /\ pc[u] = "cross" /\ (Ahead(u, p)' <=> Ahead(u, p))
    BY <1>1, <1>3, <2>1, StepKeeps DEF StepOf
  <2>3. Multiple(b, p)
    BY <1>1, <2>2, StepKeeps
  <2>4. number[p] = 0 \/ Ahead(u, p)
    BY <1>1, <2>1, <2>2, <2>3 DEF CrossingInv
  <2> QED
    BY <2>2, <2>4 DEF StepOf
<1> QED
  BY <1>2, <1>3

LEMMA FourTimes ==
  ASSUME NEW c \in Nat, NEW d \in Nat, d >= c, NEW n \in Nat, c * 4 > n
  PROVE  d * 4 > n
  OBVIOUS

\* cur stays at the end once it is there.
LEMMA EndStays ==
  ASSUME TypeOK, NEW t, StepOf(t), AtEnd(cur)
  PROVE  AtEnd(cur)'
<1>1. UNCHANGED <<upper_bound, Sundaram>> /\ upper_bound \in Nat
  BY DEF StepOf, params, TypeOK
<1>2. cur \in Nat /\ cur' \in Nat /\ cur' >= cur
  BY DEF StepOf
<1>3. CASE Sundaram
  <2>1. cur * 4 > upper_bound
    BY <1>3 DEF AtEnd
  <2>2. cur' * 4 > upper_bound
    BY <1>1, <1>2, <2>1, FourTimes
  <2> QED
    BY <1>1, <1>3, <2>2 DEF AtEnd
<1>4. CASE ~Sundaram
  <2>1. cur' >= upper_bound - 1
    BY <1>1, <1>2, <1>4 DEF AtEnd
  <2> QED
    BY <1>1, <1>4, <2>1 DEF AtEnd
<1> QED
  BY <1>3, <1>4

LEMMA ReturnStep ==
  ASSUME TypeOK, NEW t, StepOf(t), ReturnInv, pc'[t] \in Returned => AtEnd(cur)'
  PROVE  ReturnInv'
<1>1. AtEnd(cur) => AtEnd(cur)'
  BY EndStays
<1> QED
  BY <1>1 DEF ReturnInv, StepOf

\* The only kthread's own step decides.
LEMMA AloneStep ==
  ASSUME TypeOK, NEW t, StepOf(t),
         num_threads = 1 /\ pc'[t] \in {"skip", "check"} \cup Returned =>
           \A p \in Positions : current_pos'[t] < p /\ p < cur' => number'[p] = 0
  PROVE  AloneInv'
<1>1. SUFFICES ASSUME num_threads' = 1, NEW u \in Threads,
                      pc'[u] \in {"skip", "check"} \cup Returned
               PROVE  \A p \in Positions : current_pos'[u] < p /\ p < cur' => number'[p] = 0
  BY DEF AloneInv, StepOf
<1>2. num_threads = 1 /\ t = 0 /\ u = 0
  BY <1>1 DEF StepOf, params, Threads
<1> QED
  BY <1>1, <1>2

-----------------------------------------------------------------------------
(* Every step keeps the sieve complete.                                    *)

\* The position a kthread claims stays its own until it has sieved with it or drops it.
LEMMA BaseStays ==
  ASSUME TypeOK, NEW t \in ThreadIds,
         \/ Bump(t) \/ SkipCrossed(t) \/ ClaimEnd(t) \/ StartSieve(t)
         \/ CrossOut(t) \/ CrossOutSundaram(t) \/ PassBySundaram(t)
  PROVE  /\ Claimed(t) /\ Claimed(t)' /\ Base(t)' = Base(t)
         /\ pc[t] = "cross" => pc'[t] = "cross"
         /\ pc[t] \notin Returned /\ pc'[t] \notin Returned
<1>1. t \in Threads /\ UNCHANGED Sundaram
  BY DEF Bump, SkipCrossed, ClaimEnd, StartSieve, CrossOut, CrossOutSundaram, PassBySundaram,
         At, params, Sundaram
<1> USE DEF TypeOK, Claimed, Base, At, Goto, sieve, Returned, AtSecond, PastSecond, Counted
<1>2. CASE Bump(t)
  BY <1>1, <1>2 DEF Bump
<1>3. CASE SkipCrossed(t)
  BY <1>1, <1>3 DEF SkipCrossed
<1>4. CASE ClaimEnd(t)
  BY <1>1, <1>4 DEF ClaimEnd
<1>5. CASE StartSieve(t)
  <2>1. pc[t] = "check" /\ pc'[t] = "cross"
    BY <1>1, <1>5 DEF StartSieve
  <2>2. Base(t)' = Base(t)
    BY <1>1, <1>5, <2>1 DEF StartSieve
  <2> QED
    BY <2>1, <2>2
<1>6. CASE CrossOut(t)
  BY <1>1, <1>6 DEF CrossOut
<1>7. CASE CrossOutSundaram(t)
  BY <1>1, <1>7 DEF CrossOutSundaram
<1>8. CASE PassBySundaram(t)
  BY <1>1, <1>8 DEF PassBySundaram
<1> QED
  BY <1>2, <1>3, <1>4, <1>5, <1>6, <1>7, <1>8

\* Where the loop of compute ends, nothing is ahead any more.
LEMMA SievedAtEnd ==
  ASSUME TypeOK, CrossingInv, NEW t \in Threads, pc[t] = "cross", EndOfSieve(t)
  PROVE  Sieved(Base(t))
<1>1. SUFFICES ASSUME NEW p \in Positions, Ahead(t, p) PROVE FALSE
  BY DEF Sieved, CrossingInv
<1>2. CASE Sundaram
  BY <1>1, <1>2 DEF Ahead, EndOfSieve, CrossingSundaram, TypeOK
<1>3. CASE ~Sundaram
  BY <1>1, <1>3 DEF Ahead, EndOfSieve, Crossing, Positions, TypeOK
<1> QED
  BY <1>2, <1>3

\* The steps of a kthread that neither claim nor move cur nor cross out.
Plain(t) ==
  \/ ArriveFirst(t) \/ LeaveFirst(t) \/ ArriveSecond(t) \/ LeaveSecond(t)
  \/ AddDone(t) \/ ThreadReturn(t)

LEMMA PlainStep ==
  ASSUME TypeOK, NEW t \in ThreadIds, Plain(t)
  PROVE  /\ UNCHANGED sieve
         /\ ~Claimed(t) /\ ~Claimed(t)'
         /\ pc[t] \in Returned <=> pc'[t] \in Returned
<1> USE DEF TypeOK, Claimed, At, Goto, Returned, AtSecond, PastSecond, Counted, Threads
<1>1. CASE ArriveFirst(t) \/ ArriveSecond(t)
  BY <1>1 DEF ArriveFirst, ArriveSecond, Arrive
<1>2. CASE LeaveFirst(t) \/ LeaveSecond(t)
  BY <1>2 DEF LeaveFirst, LeaveSecond, Leave
<1>3. CASE AddDone(t) \/ ThreadReturn(t)
  BY <1>3 DEF AddDone, ThreadReturn
<1> QED
  BY <1>1, <1>2, <1>3 DEF Plain

LEMMA ThreadPassed ==
  ASSUME TypeOK, LifeInv, ClaimInv, PassedInv, CrossingInv, NEW t \in ThreadIds, Thread(t)
  PROVE  PassedInv'
<1>1. StepOf(t) /\ t \in Threads
  BY ThreadStep DEF StepOf
<1>2. PICK b : b = Base(t)
  OBVIOUS
<1>3. ASSUME cur' = cur \/ (cur' = cur + 1 /\ (number[cur] = 0 \/ (Claimed(t)' /\ Base(t)' = cur))),
             Claimed(t) => \/ Claimed(t)' /\ Base(t)' = b
                           \/ Sieved(b)'
                           \/ pc'[t] \in Returned /\ current_pos'[t] = b,
             pc[t] \in Returned => pc'[t] \in Returned /\ current_pos'[t] = current_pos[t]
      PROVE  PassedInv'
  BY <1>1, <1>2, <1>3, PassedStep
<1>4. CASE Bump(t)
  <2>1. Claimed(t)' /\ Base(t)' = b /\ pc[t] \notin Returned
    BY <1>2, <1>4, BaseStays
  <2>2. b = cur /\ cur' = cur + 1
    BY <1>1, <1>2, <1>4 DEF Bump, At, ClaimInv, Claimed
  <2> QED
    BY <1>3, <2>1, <2>2
<1>5. CASE SkipCrossed(t)
  <2>1. Claimed(t)' /\ Base(t)' = b /\ pc[t] \notin Returned
    BY <1>2, <1>5, BaseStays
  <2>2. number[cur] = 0 /\ cur' = cur + 1
    BY <1>5 DEF SkipCrossed, Skippable
  <2> QED
    BY <1>3, <2>1, <2>2
<1>6. CASE ClaimEnd(t) \/ StartSieve(t) \/ CrossOut(t) \/ CrossOutSundaram(t) \/ PassBySundaram(t)
  <2>1. Claimed(t)' /\ Base(t)' = b /\ pc[t] \notin Returned
    BY <1>2, <1>6, BaseStays
  <2>2. cur' = cur
    BY <1>6 DEF ClaimEnd, StartSieve, CrossOut, CrossOutSundaram, PassBySundaram, sieve
  <2> QED
    BY <1>3, <2>1, <2>2
<1>7. CASE Claim(t)
  BY <1>1, <1>3, <1>7 DEF Claim, At, Claimed, Returned, AtSecond, PastSecond, Counted
<1>8. CASE Return(t)
  <2>1. /\ pc[t] = "check" /\ pc'[t] \in Returned /\ UNCHANGED <<cur, current_pos>>
        /\ pc[t] \notin Returned
    BY <1>1, <1>8 DEF Return, At, Goto, TypeOK, sieve, Returned, AtSecond, PastSecond, Counted
  <2>2. current_pos'[t] = b
    BY <1>2, <2>1 DEF Base
  <2> QED
    BY <1>3, <2>1, <2>2
<1>9. CASE NextClaim(t)
  <2>1. pc[t] = "cross" /\ EndOfSieve(t) /\ cur' = cur
    BY <1>9 DEF NextClaim, At, sieve
  <2>2. Sieved(b)
    BY <1>1, <1>2, <2>1, SievedAtEnd
  <2>3. Sieved(b)'
    BY <1>1, <2>2, StepKeeps
  <2> QED
    BY <1>3, <2>1, <2>3 DEF Returned, AtSecond, PastSecond, Counted
<1>10. CASE Plain(t)
  BY <1>3, <1>10, PlainStep DEF sieve
<1> QED
  BY <1>4, <1>5, <1>6, <1>7, <1>8, <1>9, <1>10 DEF Thread, Compute, Plain

LEMMA ThreadCrossed ==
  ASSUME TypeOK, LifeInv, SieveInv, CrossedInv, CrossingInv, NEW t \in ThreadIds, Thread(t)
  PROVE  CrossedInv'
<1>1. StepOf(t) /\ t \in Threads
  BY ThreadStep DEF StepOf
<1>2. PICK b : b = Base(t)
  OBVIOUS
<1>3. ASSUME pc[t] = "cross" => (pc'[t] = "cross" /\ Base(t)' = b) \/ Sieved(b)',
             \A p \in Positions : number'[p] = number[p] \/
               (b \in Nat /\ b >= Least /\ Multiple(b, p) /\ pc[t] = "cross")
      PROVE  CrossedInv'
  BY <1>1, <1>2, <1>3, CrossedStep
<1>4. CASE CrossOut(t)
  <2>1. /\ pc[t] = "cross" /\ ~Sundaram /\ number' = [number EXCEPT ![current_pos[t]] = 0]
        /\ pc'[t] = "cross" /\ Base(t)' = b
    BY <1>2, <1>4, BaseStays DEF CrossOut, At
  <2>2. b = distance[t] - 2 /\ distance[t] \in Int /\ distance[t] >= 2
    BY <1>1, <1>2, <2>1 DEF Base, SieveInv, Sieving, TypeOK
  <2>3. Multiple(b, current_pos[t])
    BY <1>1, <2>1, <2>2 DEF SieveInv, Sieving, Multiple
  <2>4. \A p \in Positions : number'[p] = number[p] \/ p = current_pos[t]
    BY <1>1, <2>1 DEF StepOf, TypeOK
  <2>5. b \in Nat /\ b >= Least
    BY <2>1, <2>2 DEF Least
  <2> QED
    BY <1>3, <2>1, <2>3, <2>4, <2>5
<1>5. CASE CrossOutSundaram(t)
  <2>1. /\ pc[t] = "cross" /\ Sundaram /\ number' = [number EXCEPT ![Target(t)] = 0]
        /\ pc'[t] = "cross" /\ Base(t)' = b /\ CrossingSundaram(t)
    BY <1>2, <1>5, BaseStays DEF CrossOutSundaram, At
  <2>2. /\ b = current_pos[t] /\ b \in Nat /\ b >= Least
        /\ distance[t] \in Nat /\ distance[t] >= b
    BY <1>1, <1>2, <2>1 DEF Base, SieveInv, Sieving, TypeOK, Least
  <2>3. Multiple(b, Target(t))
    BY <2>1, <2>2 DEF Multiple, Target, CrossingSundaram
  <2>4. \A p \in Positions : number'[p] = number[p] \/ p = Target(t)
    BY <1>1, <2>1 DEF StepOf, TypeOK
  <2> QED
    BY <1>3, <2>1, <2>2, <2>3, <2>4
<1>6. CASE NextClaim(t)
  <2>1. pc[t] = "cross" /\ EndOfSieve(t) /\ number' = number
    BY <1>6 DEF NextClaim, At, sieve
  <2>2. Sieved(b)
    BY <1>1, <1>2, <2>1, SievedAtEnd
  <2>3. Sieved(b)'
    BY <1>1, <2>2, StepKeeps
  <2> QED
    BY <1>3, <2>1, <2>3
<1>7. CASE Bump(t) \/ SkipCrossed(t) \/ ClaimEnd(t) \/ StartSieve(t) \/ PassBySundaram(t)
  <2>1. number' = number
    BY <1>7 DEF Bump, SkipCrossed, ClaimEnd, StartSieve, PassBySundaram, sieve
  <2>2. pc[t] = "cross" => pc'[t] = "cross" /\ Base(t)' = b
    BY <1>2, <1>7, BaseStays
  <2> QED
    BY <1>3, <2>1, <2>2
<1>8. CASE Claim(t) \/ Return(t)
  BY <1>3, <1>8 DEF Claim, Return, At, sieve
<1>9. CASE Plain(t)
  BY <1>3, <1>9, PlainStep DEF sieve, Claimed
<1> QED
  BY <1>4, <1>5, <1>6, <1>7, <1>8, <1>9 DEF Thread, Compute, Plain

LEMMA ThreadCrossing ==
  ASSUME TypeOK, LifeInv, SieveInv, CrossingInv, NEW t \in ThreadIds, Thread(t)
  PROVE  CrossingInv'
<1>1. StepOf(t) /\ t \in Threads
  BY ThreadStep DEF StepOf
<1>2. PICK b : b = Base(t)
  OBVIOUS
<1>3. ASSUME pc'[t] = "cross", NEW p \in Positions, Multiple(b, p), number'[p] # 0
      PROVE  Ahead(t, p)' /\ Base(t)' = b
  <2>1. number[p] # 0 /\ (Sundaram' <=> Sundaram)
    BY <1>1, <1>3 DEF StepOf
  <2>2. CASE StartSieve(t)
    <3>1. pc[t] = "check" /\ Base(t)' = b
      BY <1>2, <2>2, BaseStays DEF StartSieve, At
    <3>2. b = current_pos[t] /\ b \in Nat
      BY <1>1, <1>2, <3>1 DEF Base, SieveInv, Sieving, TypeOK
    <3>3. CASE Sundaram
      <4>1. distance'[t] = b /\ current_pos'[t] = b /\ upper_bound' = upper_bound
        BY <1>1, <2>2, <3>2, <3>3 DEF StartSieve, TypeOK, params
      <4> QED
        BY <1>3, <2>1, <3>1, <3>3, <4>1 DEF Ahead, Multiple
    <3>4. CASE ~Sundaram
      <4>1. current_pos'[t] = b + (b + 2)
        BY <1>1, <2>2, <3>2, <3>4 DEF StartSieve, TypeOK, FirstMultiple
      <4>2. PICK k \in Nat : k >= 2 /\ p + 2 = k * (b + 2)
        BY <1>3, <3>4 DEF Multiple
      <4>3. k * (b + 2) >= 2 * (b + 2)
        BY <3>2, <4>2, SMTT(30)
      <4>4. p >= current_pos'[t]
        BY <3>2, <4>1, <4>2, <4>3 DEF Positions
      <4> QED
        BY <2>1, <3>1, <3>4, <4>4 DEF Ahead
    <3> QED
      BY <3>3, <3>4
  <2>3. CASE CrossOut(t)
    <3>1. /\ pc[t] = "cross" /\ Base(t)' = b /\ ~Sundaram
          /\ number' = [number EXCEPT ![current_pos[t]] = 0]
          /\ current_pos'[t] = current_pos[t] + distance[t]
      BY <1>1, <1>2, <2>3, BaseStays DEF CrossOut, At, TypeOK
    <3>2. b + 2 = distance[t] /\ distance[t] \in Nat /\ current_pos[t] \in Int
      BY <1>1, <1>2, <3>1 DEF Base, SieveInv, Sieving, TypeOK
    <3>3. PICK m \in Nat : current_pos[t] + 2 = m * distance[t]
      BY <1>1, <3>1 DEF SieveInv, Sieving
    <3>4. PICK k \in Nat : p + 2 = k * distance[t]
      BY <1>3, <3>1, <3>2 DEF Multiple
    <3>5. p > current_pos[t] /\ p \in Int
      <4>1. p >= current_pos[t]
        BY <1>1, <1>2, <1>3, <2>1, <3>1 DEF CrossingInv, Ahead
      <4>2. p # current_pos[t]
        BY <1>1, <1>3, <3>1 DEF StepOf, TypeOK
      <4> QED
        BY <3>2, <4>1, <4>2 DEF Positions
    <3>6. k * distance[t] > m * distance[t]
      BY <3>2, <3>3, <3>4, <3>5
    <3>7. k * distance[t] >= m * distance[t] + distance[t]
      BY <3>2, <3>6, MultiplesApart
    <3>8. p >= current_pos'[t]
      BY <3>1, <3>2, <3>3, <3>4, <3>5, <3>7
    <3> QED
      BY <2>1, <3>1, <3>8 DEF Ahead
  <2>4. CASE CrossOutSundaram(t) \/ PassBySundaram(t)
    <3>1. /\ pc[t] = "cross" /\ Base(t)' = b /\ Sundaram
          /\ distance'[t] = distance[t] + 1 /\ current_pos'[t] = current_pos[t]
          /\ distance[t] \in Int /\ upper_bound' = upper_bound /\ upper_bound \in Nat
      BY <1>1, <1>2, <2>4, BaseStays DEF CrossOutSundaram, PassBySundaram, At, TypeOK, params
    <3>2. PICK j \in Nat : /\ j >= distance[t] /\ j <= upper_bound \div 4
                           /\ p = SundaramPosition(current_pos[t], j)
      BY <1>1, <1>2, <1>3, <2>1, <3>1 DEF CrossingInv, Ahead
    <3>3. p # Target(t)
      <4>1. CASE CrossOutSundaram(t)
        BY <1>1, <1>3, <4>1 DEF CrossOutSundaram, StepOf, TypeOK
      <4>2. CASE PassBySundaram(t)
        BY <3>1, <4>2 DEF PassBySundaram, Positions
      <4> QED
        BY <2>4, <4>1, <4>2
    <3>4. j >= distance'[t]
      BY <3>1, <3>2, <3>3 DEF Target
    <3> QED
      BY <2>1, <3>1, <3>2, <3>4 DEF Ahead
  <2>5. CASE Plain(t)
    BY <1>3, <2>5, PlainStep DEF Claimed
  <2>6. CASE Claim(t) \/ Bump(t) \/ SkipCrossed(t) \/ ClaimEnd(t) \/ Return(t) \/ NextClaim(t)
    BY <1>1, <1>3, <2>6
    DEF Claim, Bump, SkipCrossed, ClaimEnd, Return, NextClaim, At, Goto, TypeOK
  <2> QED
    BY <2>2, <2>3, <2>4, <2>5, <2>6 DEF Thread, Compute, Plain
<1>4. ASSUME pc'[t] = "cross" PROVE Base(t)' = b
  <2>1. CASE Plain(t)
    BY <1>4, <2>1, PlainStep DEF Claimed
  <2>2. CASE Claim(t) \/ Return(t) \/ NextClaim(t)
    BY <1>1, <1>4, <2>2 DEF Claim, Return, NextClaim, Goto, TypeOK
  <2> QED
    BY <1>2, <2>1, <2>2, BaseStays DEF Thread, Compute, Plain
<1>5. pc'[t] = "cross" =>
        \A p \in Positions : Multiple(Base(t), p)' => number'[p] = 0 \/ Ahead(t, p)'
  <2> SUFFICES ASSUME pc'[t] = "cross", NEW p \in Positions, Multiple(Base(t), p)', number'[p] # 0
               PROVE  Ahead(t, p)'
    OBVIOUS
  <2>1. Base(t)' = b
    BY <1>4
  <2>2. Multiple(b, p)
    BY <1>1, <2>1, StepKeeps
  <2> QED
    BY <1>3, <2>2
<1> QED
  BY <1>1, <1>5, CrossingStep

LEMMA ThreadReturned ==
  ASSUME TypeOK, LifeInv, ReturnInv, NEW t \in ThreadIds, Thread(t)
  PROVE  ReturnInv'
<1>1. StepOf(t) /\ t \in Threads
  BY ThreadStep DEF StepOf
<1>2. ASSUME pc'[t] \in Returned PROVE AtEnd(cur)'
  <2>1. CASE Plain(t)
    <3>1. pc[t] \in Returned /\ cur' = cur
      BY <1>2, <2>1, PlainStep DEF sieve
    <3> QED
      BY <1>1, <3>1 DEF ReturnInv, StepOf, AtEnd, params
  <2>2. CASE Return(t)
    BY <1>1, <2>2 DEF Return, AtEnd, StepOf, params, sieve
  <2>3. CASE Claim(t) \/ NextClaim(t)
    BY <1>1, <1>2, <2>3
    DEF Claim, NextClaim, Goto, TypeOK, Returned, AtSecond, PastSecond, Counted
  <2> QED
    BY <1>2, <2>1, <2>2, <2>3, BaseStays DEF Thread, Compute, Plain
<1> QED
  BY <1>1, <1>2, ReturnStep

LEMMA ThreadAlone ==
  ASSUME TypeOK, LifeInv, ClaimInv, AloneInv, NEW t \in ThreadIds, Thread(t)
  PROVE  AloneInv'
<1>1. StepOf(t) /\ t \in Threads
  BY ThreadStep DEF StepOf
<1> DEFINE Watched == {"skip", "check"} \cup Returned
<1>2. ASSUME num_threads = 1, pc'[t] \in Watched, NEW p \in Positions,
             current_pos'[t] < p, p < cur'
      PROVE  number'[p] = 0
  <2>1. ASSUME pc[t] \in Watched, UNCHANGED <<cur, current_pos>> PROVE number'[p] = 0
    <3>1. number[p] = 0
      BY <1>1, <1>2, <2>1 DEF AloneInv
    <3> QED
      BY <1>1, <3>1 DEF StepOf
  <2> USE DEF At, Goto, TypeOK, Returned, AtSecond, PastSecond, Counted
  <2>2. CASE Plain(t)
    BY <1>1, <1>2, <2>1, <2>2, PlainStep DEF sieve, Claimed
  <2>3. CASE Claim(t) \/ NextClaim(t)
    BY <1>1, <1>2, <2>3 DEF Claim, NextClaim
  <2>4. CASE ClaimEnd(t) \/ Return(t)
    BY <1>1, <2>1, <2>4 DEF ClaimEnd, Return, sieve
  <2>5. CASE Bump(t)
    <3>1. current_pos'[t] = cur /\ cur' = cur + 1
      BY <1>1, <2>5 DEF Bump, ClaimInv, Claimed, Base
    <3> QED
      BY <1>1, <1>2, <3>1 DEF Positions
  <2>6. CASE SkipCrossed(t)
    <3>1. pc[t] = "skip" /\ UNCHANGED <<current_pos, number>> /\ cur' = cur + 1 /\ number[cur] = 0
      BY <2>6 DEF SkipCrossed, Skippable
    <3>2. CASE p = cur
      BY <3>1, <3>2
    <3>3. CASE p # cur
      <4>1. p < cur
        BY <1>1, <1>2, <3>1, <3>3 DEF Positions
      <4> QED
        BY <1>1, <1>2, <3>1, <4>1 DEF AloneInv
    <3> QED
      BY <3>2, <3>3
  <2>7. CASE StartSieve(t)
    BY <1>1, <1>2, <2>7 DEF StartSieve
  <2>8. CASE CrossOut(t) \/ CrossOutSundaram(t) \/ PassBySundaram(t)
    BY <1>1, <1>2, <2>8 DEF CrossOut, CrossOutSundaram, PassBySundaram
  <2> QED
    BY <2>2, <2>3, <2>4, <2>5, <2>6, <2>7, <2>8 DEF Thread, Compute, Plain
<1> QED
  BY <1>1, <1>2, AloneStep

\* What the other steps leave alone.
LEMMA SameSieve ==
  ASSUME CompleteInv, arrays # "null", arrays' # "null", UNCHANGED <<params, sieve>>, pc \in [Threads -> Points],
         \A t \in Threads : pc'[t] = pc[t] \/ (pc[t] = "none" /\ pc'[t] \in {"arrive0", "failed"})
  PROVE  CompleteInv'
<1>1. UNCHANGED <<Threads, Positions, Sundaram, upper_bound, Least, num_threads,
                  cur, number, current_pos, distance>>
  BY DEF params, sieve, Threads, Positions, Sundaram, Least
<1>2. \A t \in Threads : /\ Claimed(t)' <=> Claimed(t)
                         /\ Base(t)' = Base(t)
                         /\ pc'[t] = "cross" <=> pc[t] = "cross"
                         /\ pc'[t] \in Returned <=> pc[t] \in Returned
                         /\ pc'[t] \in {"skip", "check"} \cup Returned
                              <=> pc[t] \in {"skip", "check"} \cup Returned
                         /\ \A p : Ahead(t, p)' <=> Ahead(t, p)
  BY <1>1 DEF Claimed, Base, Returned, AtSecond, PastSecond, Counted, Ahead
<1>3. \A q, p : Multiple(q, p)' <=> Multiple(q, p)
  BY <1>1 DEF Multiple
<1>4. \A q : /\ Sieved(q)' <=> Sieved(q)
             /\ Held(q)' <=> Held(q)
             /\ Working(q)' <=> Working(q)
             /\ Dropped(q)' <=> Dropped(q)
  BY <1>1, <1>2, <1>3 DEF Sieved, Held, Working, Dropped
<1>5. PassedInv'
  BY <1>1, <1>4 DEF CompleteInv, PassedInv
<1>6. CrossedInv'
  BY <1>1, <1>3, <1>4 DEF CompleteInv, CrossedInv
<1>7. CrossingInv'
  BY <1>1, <1>2, <1>3 DEF CompleteInv, CrossingInv
<1>8. ReturnInv'
  BY <1>1, <1>2 DEF CompleteInv, ReturnInv, AtEnd
<1>9. AloneInv'
  BY <1>1, <1>2 DEF CompleteInv, AloneInv
<1> QED
  BY <1>5, <1>6, <1>7, <1>8, <1>9 DEF CompleteInv

LEMMA InitComplete == Init => CompleteInv
  BY DEF Init, CompleteInv, Least

LEMMA NextComplete ==
  ASSUME TypeOK, LifeInv, ClaimInv, SieveInv, CompleteInv, [Next]_vars
  PROVE  CompleteInv'
<1>1. CASE SetUp
  <2>1. /\ UNCHANGED <<params, pc, cur>> /\ arrays = "null"
        /\ \A t \in Threads : pc[t] = "none"
    BY <1>1 DEF SetUp, LifeInv
  <2>2. UNCHANGED <<Threads, Positions, Sundaram, Least>> /\ cur = Least
    BY <2>1 DEF CompleteInv, params, Threads, Positions, Sundaram, Least
  <2>3. CASE arrays' = "null"
    BY <2>1, <2>2, <2>3 DEF CompleteInv
  <2>4. CASE number' = [p \in Positions |-> IF Sundaram THEN p ELSE p + 2] /\ arrays' # "null"
    <3>1. \A p \in Positions : p >= Least => number'[p] # 0
      BY <2>2, <2>4 DEF Positions, Least, TypeOK
    <3>2. PassedInv'
      BY <2>1, <2>2 DEF PassedInv, Positions, Least
    <3>3. CrossedInv'
      BY <2>2, <3>1 DEF CrossedInv
    <3>4. CrossingInv' /\ ReturnInv' /\ AloneInv'
      BY <2>1, <2>2 DEF CrossingInv, ReturnInv, AloneInv, Returned, AtSecond, PastSecond, Counted
    <3> QED
      BY <2>4, <3>2, <3>3, <3>4 DEF CompleteInv
  <2> QED
    BY <1>1, <2>1, <2>3, <2>4 DEF SetUp
<1>2. ASSUME UNCHANGED <<params, sieve>>, arrays' = "null" <=> arrays = "null",
             \A t \in Threads : pc'[t] = pc[t] \/ (pc[t] = "none" /\ pc'[t] \in {"arrive0", "failed"})
      PROVE  CompleteInv'
  <2>1. CASE arrays = "null"
    BY <1>2, <2>1 DEF CompleteInv, Least, Sundaram, params, sieve
  <2>2. CASE arrays # "null"
    BY <1>2, <2>2, SameSieve DEF TypeOK
  <2> QED
    BY <2>1, <2>2
<1>3. CASE Spawn
  <2>1. pc[spawned] = "none" /\ spawned \in Threads
    BY <1>3 DEF Spawn, MoreToSpawn, LifeInv, TypeOK, Threads
  <2> QED
    BY <1>2, <1>3, <2>1 DEF Spawn, Goto, TypeOK
<1>4. ASSUME NEW t \in ThreadIds, Thread(t) PROVE CompleteInv'
  <2>1. arrays # "null" /\ arrays' # "null"
    BY <1>4, ThreadStep DEF StepOf
  <2>2. PassedInv /\ CrossedInv /\ CrossingInv /\ ReturnInv /\ AloneInv
    BY <2>1 DEF CompleteInv
  <2>3. PassedInv' /\ CrossedInv' /\ CrossingInv' /\ ReturnInv' /\ AloneInv'
    BY <1>4, <2>2, ThreadPassed, ThreadCrossed, ThreadCrossing, ThreadReturned, ThreadAlone
  <2> QED
    BY <2>1, <2>3 DEF CompleteInv
<1>5. CASE InitReturn \/ Exit \/ Stopped \/ UNCHANGED vars
  BY <1>2, <1>5 DEF InitReturn, Exit, ExitEarly, ExitReport, Stopped, vars, mod
<1>6. ASSUME NEW t \in ThreadIds, Fault(t) PROVE CompleteInv'
  BY <1>2, <1>6 DEF Fault
<1> QED
  BY <1>1, <1>3, <1>4, <1>5, <1>6 DEF Next

\* All that the sieve's results rest on.
ResultInv == FrameInv /\ ClaimInv /\ SieveInv /\ NumbersInv /\ CompleteInv

LEMMA ResultInvariant == Spec => []ResultInv
<1>1. Init => ResultInv
  BY InitFrame, InitClaim, InitSieve, InitNumbers, InitComplete DEF ResultInv
<1>2. ResultInv /\ [Next]_vars => ResultInv'
  <2> SUFFICES ASSUME ResultInv, [Next]_vars PROVE ResultInv'
    OBVIOUS
  <2>1. FrameInv /\ ClaimInv /\ SieveInv /\ NumbersInv /\ CompleteInv /\ TypeOK /\ LifeInv
    BY DEF ResultInv, FrameInv
  <2>2. FrameInv' /\ TypeOK'
    BY <2>1, NextFrame DEF FrameInv
  <2> QED
    BY <2>1, <2>2, NextClaimInv, NextSieve, NextNumbers, NextComplete DEF ResultInv
<1> QED
  BY <1>1, <1>2, PTL DEF Spec

-----------------------------------------------------------------------------
(* The primes that are reported.                                           *)

\* When all have finished, every search has come to the end and nobody holds a
\* position: one that cur has passed and that is a divisor of a survivor was dropped.
LEMMA WhenFinished ==
  ASSUME ResultInv, Finished
  PROVE  /\ AtEnd(cur)
         /\ \A q \in Positions : \A p \in Positions :
              /\ q >= Least /\ q < cur /\ Multiple(q, p) /\ number[p] # 0
              /\ Sundaram => 2 * p + 1 <= upper_bound
              => Dropped(q)
         /\ \A p \in Positions : p >= Least /\ number[p] = 0 =>
              \E r \in Nat : r >= Least /\ Multiple(r, p) /\ Sieved(r)
<1>1. /\ TypeOK /\ CountInv /\ NumbersInv /\ arrays # "null" /\ num_threads \in Nat
      /\ PassedInv /\ CrossedInv /\ ReturnInv
  BY DEF ResultInv, FrameInv, CompleteInv, Finished, TypeOK
<1>2. \A t \in Threads : pc[t] \in Counted
  <2>1. Cardinality(In(Counted)) = num_threads
    BY <1>1 DEF CountInv, Finished
  <2> QED
    BY <1>1, <2>1, InFinite DEF In
<1>3. 0 \in Threads
  BY <1>1 DEF NumbersInv, BadParameters, Threads
<1>4. AtEnd(cur)
  BY <1>1, <1>2, <1>3 DEF ReturnInv, Returned, AtSecond, PastSecond
<1>5. \A q : ~Held(q) /\ ~Working(q)
  BY <1>2 DEF Held, Working, Claimed, Counted
<1>6. \A p \in Positions : p >= Least /\ number[p] = 0 =>
        \E r \in Nat : r >= Least /\ Multiple(r, p) /\ Sieved(r)
  BY <1>1, <1>5 DEF CrossedInv
<1>7. ASSUME NEW q \in Positions, NEW p \in Positions,
             q >= Least, q < cur, Multiple(q, p), number[p] # 0,
             Sundaram => 2 * p + 1 <= upper_bound
      PROVE  Dropped(q)
  <2>1. number[q] # 0
    <3> SUFFICES ASSUME number[q] = 0 PROVE FALSE
      OBVIOUS
    <3>1. PICK r \in Nat : r >= Least /\ Multiple(r, q) /\ Sieved(r)
      BY <1>6, <1>7
    <3>2. Multiple(r, p)
      <4>1. q \in Nat
        BY DEF Positions
      <4> QED
        BY <1>1, <1>7, <3>1, <4>1, MultipleOfMultiple
    <3> QED
      BY <1>7, <3>1, <3>2 DEF Sieved
  <2>2. ~Sieved(q)
    BY <1>7 DEF Sieved
  <2> QED
    BY <1>1, <1>5, <1>7, <2>1, <2>2 DEF PassedInv
<1> QED
  BY <1>4, <1>6, <1>7

\* The two factors of a composite that the Eratosthenes modules report.
LEMMA FactorsOf ==
  ASSUME ResultInv, Finished, ~Sundaram,
         NEW p \in Positions, number[p] # 0, NEW d \in Nat, NEW e \in Nat,
         d >= 2, e >= 2, p + 2 = d * e
  PROVE  /\ d - 2 \in Positions /\ d - 2 < p /\ p < cur
         /\ Dropped(d - 2)
<1>1. upper_bound \in Nat /\ cur \in Nat /\ p \in Nat /\ p <= upper_bound - 2
  BY DEF ResultInv, FrameInv, TypeOK, Positions
<1>2. d * e >= 2 * d
  BY SMTT(30)
<1>3. d - 2 \in Nat /\ d - 2 < p
  BY <1>1, <1>2
<1>4. d - 2 \in Positions
  BY <1>1, <1>3 DEF Positions
<1>5. p < cur
  BY <1>1, WhenFinished DEF AtEnd
<1>6. Multiple(d - 2, p)
  <2>1. p + 2 = e * ((d - 2) + 2)
    BY SMTT(30)
  <2> QED
    BY <2>1 DEF Multiple
<1>7. d - 2 >= Least
  BY <1>3 DEF Least
<1> QED
  BY <1>1, <1>3, <1>4, <1>5, <1>6, <1>7, WhenFinished

\* And those of a composite that the Sundaram modules report.
LEMMA SundaramFactorsOf ==
  ASSUME ResultInv, Finished, Sundaram,
         NEW p \in Positions, number[p] # 0, 2 * p + 1 <= upper_bound,
         NEW i \in Nat, NEW j \in Nat, 1 <= i, i <= j, p = SundaramPosition(i, j)
  PROVE  /\ i \in Positions /\ i < p /\ j \in Positions /\ j < cur
         /\ j <= upper_bound \div 4
         /\ Dropped(i)
<1>1. upper_bound \in Nat /\ cur \in Nat /\ p \in Nat
  BY DEF ResultInv, FrameInv, TypeOK, Positions
<1>2. p >= i + j /\ p >= 3 * j + 1
  BY SundaramBounds
<1>3. j * 4 <= upper_bound
  BY <1>1, <1>2
<1>4. j <= upper_bound \div 4 /\ i \in Positions /\ i < p /\ j \in Positions
  BY <1>1, <1>2, <1>3 DEF Positions
<1>5. j < cur
  <2>1. cur * 4 > upper_bound
    BY WhenFinished DEF AtEnd
  <2> QED
    BY <1>1, <1>3, <2>1
<1>6. Multiple(i, p)
  BY <1>4 DEF Multiple
<1>7. i >= Least /\ i < cur
  BY <1>1, <1>5 DEF Least
<1> QED
  BY <1>4, <1>5, <1>6, <1>7, WhenFinished

\* An odd composite has odd factors: it is a cross-out of the Sundaram modules.
LEMMA SundaramFactors ==
  ASSUME NEW p \in Nat, Composite(2 * p + 1)
  PROVE  \E i \in Nat, j \in Nat :
           1 <= i /\ i <= j /\ p = SundaramPosition(i, j)
<1>1. PICK n \in Nat : n = 2 * p + 1
  OBVIOUS
<1>2. PICK d \in 2 .. n : \E e \in 2 .. n : n = d * e
  BY <1>1 DEF Composite
<1>3. PICK e \in 2 .. n : n = d * e
  BY <1>2
<1>4. d \in Nat /\ e \in Nat /\ d >= 2 /\ e >= 2
  OBVIOUS
<1>5. PICK i \in Nat : d = 2 * i \/ d = 2 * i + 1
  BY <1>4, EvenOrOdd
<1>6. PICK j \in Nat : e = 2 * j \/ e = 2 * j + 1
  BY <1>4, EvenOrOdd
<1>7. d # 2 * i
  <2> SUFFICES ASSUME d = 2 * i PROVE FALSE
    OBVIOUS
  <2>1. PICK x \in Nat : x = i * e
    BY <1>4
  <2>2. 2 * p + 1 = 2 * x
    BY <1>1, <1>3, <1>4, <2>1
  <2> QED
    BY <2>2
<1>8. e # 2 * j
  <2> SUFFICES ASSUME e = 2 * j PROVE FALSE
    OBVIOUS
  <2>1. PICK x \in Nat : x = d * j
    BY <1>4
  <2>2. 2 * p + 1 = 2 * x
    BY <1>1, <1>3, <1>4, <2>1
  <2> QED
    BY <2>2
<1>9. d = 2 * i + 1 /\ e = 2 * j + 1 /\ i >= 1 /\ j >= 1
  BY <1>4, <1>5, <1>6, <1>7, <1>8
<1>10. p = SundaramPosition(i, j) /\ p = SundaramPosition(j, i)
  <2>1. 2 * p + 1 = (2 * i + 1) * (2 * j + 1)
    BY <1>1, <1>3, <1>9
  <2> QED
    BY <2>1 DEF SundaramPosition
<1>11. CASE i <= j
  BY <1>9, <1>10, <1>11
<1>12. CASE j <= i
  BY <1>9, <1>10, <1>12
<1> QED
  BY <1>11, <1>12

\* A factor that is not the whole.
LEMMA ProperDivisor ==
  ASSUME NEW n \in Nat, NEW d \in Nat, NEW e \in Nat, d >= 2, e >= 2, n = d * e
  PROVE  d < n /\ n % d = 0
<1>1. d * e >= 2 * d
  BY SMTT(30)
<1>2. n % d = 0
  BY Divides
<1> QED
  BY <1>1, <1>2

\* The number a reported number stands at.
LEMMA ReportedAt ==
  ASSUME ResultInv, Finished, NEW n \in Reported, n # 2 \/ ~Sundaram
  PROVE  \E p \in Positions : /\ number[p] # 0 /\ n = Stands(p)
                              /\ n \in Nat /\ 2 <= n /\ n <= upper_bound
<1>1. /\ upper_bound \in Nat /\ arrays # "null"
      /\ \A p \in Positions : number[p] \in {0, IF Sundaram THEN p ELSE p + 2}
  BY DEF ResultInv, FrameInv, TypeOK, NumbersInv, Finished
<1>2. CASE Sundaram
  <2>1. n \in 3 .. upper_bound /\ \E p \in Survivors : n = Stands(p)
    BY <1>2 DEF Reported
  <2> QED
    BY <1>1, <2>1 DEF Survivors
<1>3. CASE ~Sundaram
  <2>1. PICK p \in Survivors : n = number[p]
    BY <1>3 DEF Reported
  <2>2. p \in Positions /\ number[p] # 0 /\ n = p + 2
    BY <1>1, <1>3, <2>1 DEF Survivors
  <2> QED
    BY <1>1, <1>3, <2>2 DEF Positions, Stands
<1> QED
  BY <1>2, <1>3

LEMMA TwoIsPrime == ~Composite(2)
  BY DEF Composite

\* For every number of kthreads, every upper bound and every interleaving, a
\* composite is reported only if one of its divisors was claimed and dropped.
THEOREM OnlyDroppedAreMissed == Spec => []MissedOnlyIfDropped
<1>1. ASSUME ResultInv PROVE MissedOnlyIfDropped
  <2> SUFFICES ASSUME Finished, NEW n \in Reported, Composite(n)
               PROVE  \E t \in Threads : LET d == Stands(current_pos[t]) IN d < n /\ n % d = 0
    BY DEF MissedOnlyIfDropped
  <2>1. PICK p \in Positions : /\ number[p] # 0 /\ n = Stands(p)
                               /\ n \in Nat /\ 2 <= n /\ n <= upper_bound
    BY <1>1, ReportedAt, TwoIsPrime
  <2>2. CASE ~Sundaram
    <3>1. PICK d \in Nat, e \in Nat : d >= 2 /\ e >= 2 /\ n = d * e
      BY DEF Composite
    <3>2. p + 2 = d * e
      BY <2>1, <2>2, <3>1 DEF Stands
    <3>3. Dropped(d - 2)
      BY <1>1, <2>1, <2>2, <3>1, <3>2, FactorsOf
    <3>4. PICK t \in Threads : current_pos[t] = d - 2
      BY <3>3 DEF Dropped
    <3>5. Stands(current_pos[t]) = d
      BY <2>2, <3>1, <3>4 DEF Stands
    <3>6. d < n /\ n % d = 0
      BY <2>1, <3>1, ProperDivisor
    <3> QED
      BY <3>5, <3>6
  <2>3. CASE Sundaram
    <3>1. n = 2 * p + 1 /\ p \in Nat
      BY <2>1, <2>3 DEF Stands, Positions
    <3>2. PICK i \in Nat, j \in Nat : 1 <= i /\ i <= j /\ p = SundaramPosition(i, j)
      BY <3>1, SundaramFactors
    <3>3. Dropped(i)
      BY <1>1, <2>1, <2>3, <3>1, <3>2, SundaramFactorsOf
    <3>4. PICK t \in Threads : current_pos[t] = i
      BY <3>3 DEF Dropped
    <3>5. Stands(current_pos[t]) = 2 * i + 1
      BY <2>3, <3>4 DEF Stands
    <3>6. n = (2 * i + 1) * (2 * j + 1)
      BY <3>1, <3>2, SundaramBounds
    <3>7. 2 * i + 1 < n /\ n % (2 * i + 1) = 0
      <4>1. PICK d \in Nat, e \in Nat : d = 2 * i + 1 /\ e = 2 * j + 1 /\ d >= 2 /\ e >= 2
        BY <3>2
      <4>2. n = d * e
        BY <3>6, <4>1
      <4> QED
        BY <2>1, <4>1, <4>2, ProperDivisor
    <3> QED
      BY <3>5, <3>7
  <2> QED
    BY <2>2, <2>3
<1> QED
  BY <1>1, ResultInvariant, PTL

-----------------------------------------------------------------------------
(* One kthread alone.                                                      *)

\* Every prime is reported, however many kthreads there are.
LEMMA PrimesReported ==
  ASSUME ResultInv, Finished
  PROVE  Primes \subseteq Reported
<1> SUFFICES ASSUME NEW n \in Primes PROVE n \in Reported
  OBVIOUS
<1>1. /\ upper_bound \in Nat /\ arrays # "null"
      /\ \A p \in Positions : number[p] \in {0, IF Sundaram THEN p ELSE p + 2}
      /\ \A p \in Positions : number[p] = 0 => Composite(Stands(p)) \/ Stands(p) = 1
  BY DEF ResultInv, FrameInv, TypeOK, NumbersInv, Finished, SieveInv, PrimesSurvive
<1>2. n \in Nat /\ 2 <= n /\ n <= upper_bound /\ ~Composite(n)
  BY <1>1 DEF Primes
<1>3. CASE ~Sundaram
  <2>1. n - 2 \in Positions /\ Stands(n - 2) = n
    BY <1>1, <1>2, <1>3 DEF Positions, Stands
  <2>2. number[n - 2] = n
    BY <1>1, <1>2, <1>3, <2>1
  <2>3. n - 2 \in Survivors
    BY <1>2, <2>1, <2>2 DEF Survivors
  <2> QED
    BY <1>3, <2>2, <2>3 DEF Reported
<1>4. CASE Sundaram /\ n # 2
  <2>1. PICK p \in Nat : n = 2 * p \/ n = 2 * p + 1
    BY <1>2, EvenOrOdd
  <2>2. n # 2 * p
    <3> SUFFICES ASSUME n = 2 * p PROVE FALSE
      OBVIOUS
    <3>1. p >= 2
      BY <1>2, <1>4
    <3>2. Composite(2 * p)
      BY <3>1, ProductComposite
    <3> QED
      BY <1>2, <3>2
  <2>3. p \in Positions /\ Stands(p) = n
    BY <1>1, <1>2, <1>4, <2>1, <2>2 DEF Positions, Stands
  <2>4. p \in Survivors
    BY <1>1, <1>2, <2>3 DEF Survivors
  <2> QED
    BY <1>1, <1>2, <1>4, <2>3, <2>4 DEF Reported
<1>5. CASE Sundaram /\ n = 2
  BY <1>5 DEF Reported
<1> QED
  BY <1>3, <1>4, <1>5

\* What the only kthread dropped is followed by nothing but crossed-out numbers.
LEMMA AfterTheDropped ==
  ASSUME ResultInv, Finished, num_threads = 1,
         NEW q, Dropped(q), NEW p \in Positions, q < p, p < cur
  PROVE  number[p] = 0
<1>1. PICK t \in Threads : pc[t] \in Returned /\ current_pos[t] = q
  BY DEF Dropped
<1>2. AloneInv
  BY DEF ResultInv, CompleteInv, Finished
<1> QED
  BY <1>1, <1>2 DEF AloneInv

\* A number that is crossed out as a multiple takes its own multiples with it.
LEMMA FactorOfFactor ==
  ASSUME TypeOK, Sundaram, NEW r \in Nat, r >= 1, NEW j \in Nat, Multiple(r, j),
         NEW i \in Nat, NEW p \in Nat, p = SundaramPosition(i, j), 2 * p + 1 <= upper_bound
  PROVE  Multiple(r, p)
<1>1. PICK c \in Nat : c >= r /\ j = SundaramPosition(r, c)
  BY DEF Multiple
<1>2. PICK e : e = SundaramPosition(i, c)
  OBVIOUS
<1>3. e \in Nat /\ e >= c
  <2>1. SundaramPosition(i, c) \in Nat /\ SundaramPosition(i, c) >= i + c
    BY SundaramBounds
  <2> QED
    BY <1>2, <2>1
<1>4. p = SundaramPosition(r, e)
  BY <1>1, <1>2 DEF SundaramPosition
<1>5. e <= upper_bound \div 4
  <2>1. p >= 3 * e + 1
    BY <1>3, <1>4, SundaramBounds
  <2> QED
    BY <1>3, <2>1 DEF TypeOK
<1> QED
  BY <1>1, <1>3, <1>4, <1>5 DEF Multiple

\* There is a prime between a number and its double (Chebyshev).
Chebyshev == \A m \in Nat \ {0} : \E r \in m + 1 .. 2 * m : ~Composite(r)

\* The Sundaram modules search up to a quarter of upper_bound.  That the square of
\* a dropped position's number is crossed out nevertheless rests on Chebyshev:
\* the only kthread claims and does not drop any number with a prime after it.
LEMMA NoSquareIsLeft ==
  ASSUME ResultInv, Finished, Sundaram, num_threads = 1, Chebyshev,
         NEW i \in Nat, 1 <= i, NEW p \in Nat, p = SundaramPosition(i, i),
         2 * p + 1 <= upper_bound, Dropped(i)
  PROVE  FALSE
<1>1. upper_bound \in Nat /\ cur \in Nat
  BY DEF ResultInv, FrameInv, TypeOK
<1>2. PICK m \in Nat \ {0} : m = 2 * i + 1
  <2>1. 2 * i + 1 \in Nat \ {0}
    OBVIOUS
  <2> QED
    BY <2>1
<1>3. PICK r \in m + 1 .. 2 * m : ~Composite(r)
  BY DEF Chebyshev
<1>4. PICK k \in Nat : r = 2 * k \/ r = 2 * k + 1
  <2>1. r \in Nat
    OBVIOUS
  <2> QED
    BY <2>1, EvenOrOdd
<1>5. r = 2 * k + 1
  <2> SUFFICES ASSUME r = 2 * k PROVE FALSE
    BY <1>4
  <2>1. k >= 2
    BY <1>2
  <2>2. Composite(2 * k)
    BY <2>1, ProductComposite
  <2> QED
    BY <1>3, <2>2
<1>6. i < k /\ 4 * k <= 8 * i
  BY <1>2, <1>5
<1>7. 8 * i <= upper_bound
  <2>1. PICK s \in Nat : s = i * i
    OBVIOUS
  <2>2. 2 * p + 1 = 4 * s + 4 * i + 1
    BY <2>1 DEF SundaramPosition
  <2>3. s >= i
    BY <2>1, SMTT(30)
  <2> QED
    BY <1>1, <2>2, <2>3
<1>8. k \in Positions /\ k < cur
  <2>1. cur * 4 > upper_bound
    BY WhenFinished DEF AtEnd
  <2> QED
    BY <1>1, <1>6, <1>7, <2>1 DEF Positions
<1>9. number[k] = 0
  BY <1>6, <1>8, AfterTheDropped
<1>10. Composite(r) \/ r = 1
  BY <1>5, <1>8, <1>9 DEF ResultInv, SieveInv, PrimesSurvive, Finished, Stands
<1> QED
  BY <1>2, <1>3, <1>10

\* For the Eratosthenes modules, and for the Sundaram modules given Chebyshev's
\* theorem: one kthread alone reports exactly the primes, for every upper bound.
THEOREM ExactAlone == Spec => []((Sundaram => Chebyshev) => ExactWhenSequential)
<1>1. ASSUME ResultInv, Sundaram => Chebyshev PROVE ExactWhenSequential
  <2> SUFFICES ASSUME Finished, num_threads = 1 PROVE Reported = Primes
    BY DEF ExactWhenSequential
  <2>1. Primes \subseteq Reported
    BY <1>1, PrimesReported
  <2>2. ASSUME NEW n \in Reported PROVE n \in Primes
    <3>1. CASE Sundaram /\ n = 2
      <4>1. upper_bound \in Nat /\ upper_bound >= 2
        BY <1>1 DEF ResultInv, FrameInv, TypeOK, NumbersInv, BadParameters, Finished
      <4> QED
        BY <3>1, <4>1, TwoIsPrime DEF Primes
    <3>2. CASE n # 2 \/ ~Sundaram
      <4>1. PICK p \in Positions : /\ number[p] # 0 /\ n = Stands(p)
                                   /\ n \in Nat /\ 2 <= n /\ n <= upper_bound
        BY <1>1, <2>2, <3>2, ReportedAt
      <4>2. upper_bound \in Nat
        BY <1>1 DEF ResultInv, FrameInv, TypeOK
      <4>3. SUFFICES ASSUME Composite(n) PROVE FALSE
        BY <4>1, <4>2 DEF Primes
      <4>4. CASE ~Sundaram
        <5>1. PICK d \in Nat, e \in Nat : d >= 2 /\ e >= 2 /\ n = d * e
          BY <4>3 DEF Composite
        <5>2. p + 2 = d * e
          BY <4>1, <4>4, <5>1 DEF Stands
        <5>3. d - 2 < p /\ p < cur /\ Dropped(d - 2)
          BY <1>1, <4>1, <4>4, <5>1, <5>2, FactorsOf
        <5> QED
          BY <1>1, <4>1, <5>3, AfterTheDropped
      <4>5. CASE Sundaram
        <5>1. n = 2 * p + 1 /\ p \in Nat
          BY <4>1, <4>5 DEF Stands, Positions
        <5>2. PICK i \in Nat, j \in Nat : 1 <= i /\ i <= j /\ p = SundaramPosition(i, j)
          BY <4>3, <5>1, SundaramFactors
        <5>3. /\ Dropped(i) /\ j \in Positions /\ j < cur /\ j <= upper_bound \div 4
              /\ 2 * p + 1 <= upper_bound
          BY <1>1, <4>1, <4>5, <5>1, <5>2, SundaramFactorsOf
        <5>4. CASE i = j
          BY <1>1, <4>5, <5>1, <5>2, <5>3, <5>4, NoSquareIsLeft
        <5>5. CASE i < j
          <6>1. number[j] = 0
            BY <1>1, <5>3, <5>5, AfterTheDropped
          <6>2. PICK r \in Nat : r >= Least /\ Multiple(r, j) /\ Sieved(r)
            <7>1. j >= Least
              BY <4>5, <5>2 DEF Least
            <7> QED
              BY <1>1, <5>3, <6>1, <7>1, WhenFinished
          <6>3. Multiple(r, p)
            <7>1. TypeOK /\ r >= 1
              BY <1>1, <4>5, <6>2 DEF ResultInv, FrameInv, Least
            <7> QED
              BY <4>5, <5>1, <5>2, <5>3, <6>2, <7>1, FactorOfFactor
          <6> QED
            BY <4>1, <6>2, <6>3 DEF Sieved
        <5> QED
          BY <5>2, <5>4, <5>5
      <4> QED
        BY <4>4, <4>5
    <3> QED
      BY <3>1, <3>2
  <2> QED
    BY <2>1, <2>2
<1> QED
  BY <1>1, ResultInvariant, PTL

=============================================================================
