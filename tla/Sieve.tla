------------------------------- MODULE Sieve -------------------------------
(***************************************************************************)
(* The four kernel modules of project2_kernel_memory_concurrent_use.       *)
(* They share one frame -- simple_init, kthreads that meet at a barrier,   *)
(* compute, meet again and add themselves to done, simple_exit -- and      *)
(* differ in the sieve (Eratosthenes or Sundaram) and in whether a number  *)
(* is crossed out under the spin lock or with a bare atomic_set.  Which    *)
(* program is loaded, and its two module parameters, are chosen in Init    *)
(* and never change (module_param with permission 0000).                   *)
(*                                                                         *)
(* A critical section is one step, except the claim, whose intermediate    *)
(* values of cur are visible to the unlocked read that follows it in       *)
(* another thread.                                                         *)
(***************************************************************************)
EXTENDS Integers, FiniteSets

CONSTANTS Programs,      \* the kernel modules that may be loaded
          Parameters     \* pairs <<num_threads, upper_bound>> insmod may give

AllPrograms == {"spinlock", "atomic", "sundrama_lock", "sundrama_atomic"}

ASSUME ProgramsAssumption == Programs \subseteq AllPrograms
ASSUME ParametersAssumption == Parameters \subseteq Nat \X Nat

VARIABLES
  program,         \* the module that is loaded
  num_threads,     \* module parameter
  upper_bound,     \* module parameter
  module,          \* where the module is in its life
  arrays,          \* number, counter and task: not allocated, valid or freed
  spawned,         \* loop index of the kthread_run loop in simple_init
  pc,              \* where each kthread is
  lock,            \* DEFINE_SPINLOCK(lock): its holder
  arrive_barrier,
  done,
  cur,
  number,
  counter,
  current_pos,     \* local of compute, per thread
  distance         \* local of compute, per thread (j in the Sundaram modules)

params  == <<program, num_threads, upper_bound>>
mod     == <<module, arrays, spawned>>
barrier == <<arrive_barrier, done>>
sieve   == <<cur, number, counter, current_pos, distance>>
vars    == <<params, mod, pc, lock, barrier, sieve>>

Nobody    == -1
ThreadIds == UNION {0 .. insmod[1] - 1 : insmod \in Parameters}
Threads   == 0 .. num_threads - 1

Sundaram == program \in {"sundrama_lock", "sundrama_atomic"}
Locked   == program \in {"spinlock", "sundrama_lock"}

Positions == IF Sundaram THEN 0 .. upper_bound ELSE 0 .. upper_bound - 2

\* Has the search position passed the last one worth claiming?
AtEnd(c) == IF Sundaram THEN c * 4 > upper_bound ELSE c >= upper_bound - 1

-----------------------------------------------------------------------------
(* Program points of a kthread.                                            *)

Computing   == {"claim", "bump", "skip", "check", "cross"}
Counted     == {"leaving", "exited"}
PastSecond  == {"add"} \cup Counted
AtSecond    == {"wait1"} \cup PastSecond
PastFirst   == Computing \cup {"arrive1"} \cup AtSecond
AtFirst     == {"wait0"} \cup PastFirst
Idle        == {"none", "failed"}
Points      == Idle \cup {"arrive0"} \cup AtFirst

In(S) == {t \in Threads : pc[t] \in S}

\* The code of the kthreads is mapped only while the module is in the kernel.
Mapped == module \in {"spawning", "live"}

At(t, point)   == Mapped /\ t \in Threads /\ pc[t] = point
Goto(t, point) == pc' = [pc EXCEPT ![t] = point]

\* spin_lock and spin_unlock; NoTake is a claim that forgets the former and
\* Keep one that forgets the latter.
NoTake(t) == lock' = t
Take(t)   == lock = Nobody /\ lock' = t
Keep      == UNCHANGED lock
Release   == lock' = Nobody

-----------------------------------------------------------------------------
Init ==
  /\ program \in Programs
  /\ \E insmod \in Parameters : num_threads = insmod[1] /\ upper_bound = insmod[2]
  /\ module = "loading" /\ arrays = "null" /\ spawned = 0
  /\ pc = [t \in Threads |-> "none"]
  /\ lock = Nobody
  /\ arrive_barrier = 0
  /\ done = num_threads
  /\ cur = IF Sundaram THEN 1 ELSE 0
  /\ number = <<>>
  /\ counter = [t \in Threads |-> 0]
  /\ current_pos = [t \in Threads |-> -1]
  /\ distance = [t \in Threads |-> 0]

BadParameters == num_threads < 1 \/ upper_bound < 2

\* The value done is reset to before the kthreads run, and a missing reset.
NoReset   == done
DoneReset == 0

\* simple_init up to the kthread_run loop.  kmalloc reports failure with NULL,
\* which IS_ERR does not recognise, so the pointer is used and the kernel oopses.
SetUp ==
  /\ module = "loading"
  /\ \/ module' = "oops" /\ UNCHANGED <<arrays, number, done>>
     \/ /\ BadParameters
        /\ module' = "live"
        /\ UNCHANGED <<arrays, number, done>>
     \/ /\ ~BadParameters
        /\ module' = "spawning"
        /\ arrays' = "valid"
        /\ number' = [p \in Positions |-> IF Sundaram THEN p ELSE p + 2]
        /\ done' = DoneReset
  /\ UNCHANGED <<params, spawned, pc, lock, arrive_barrier, cur, counter, current_pos, distance>>

\* The condition of the kthread_run loop, and one that runs it once too often.
OneTooMany  == spawned <= num_threads
MoreToSpawn == spawned < num_threads

\* One turn of the kthread_run loop.  An error pointer is stored unchecked.
Spawn ==
  /\ module = "spawning" /\ MoreToSpawn
  /\ \E point \in {"arrive0", "failed"} : Goto(spawned, point)
  /\ spawned' = spawned + 1
  /\ UNCHANGED <<params, module, arrays, lock, barrier, sieve>>

InitReturn ==
  /\ module = "spawning" /\ spawned = num_threads
  /\ module' = "live"
  /\ UNCHANGED <<params, arrays, spawned, pc, lock, barrier, sieve>>

-----------------------------------------------------------------------------
(* mybarrier: the arrival under the lock, then the spin.                   *)

\* How many arrivals end each spin, and two wrong counts.
OneShort     == num_threads - 1
FirstTarget  == num_threads
NotDoubled   == num_threads
SecondTarget == num_threads * 2

Arrive(t, from, to) ==
  /\ At(t, from) /\ lock = Nobody
  /\ arrive_barrier' = arrive_barrier + 1
  /\ Goto(t, to)
  /\ UNCHANGED <<params, mod, lock, done, sieve>>

Leave(t, from, to, target) ==
  /\ At(t, from) /\ arrive_barrier >= target
  /\ Goto(t, to)
  /\ UNCHANGED <<params, mod, lock, barrier, sieve>>

ArriveFirst(t)  == Arrive(t, "arrive0", "wait0")
LeaveFirst(t)   == Leave(t, "wait0", "claim", FirstTarget)
ArriveSecond(t) == Arrive(t, "arrive1", "wait1")
LeaveSecond(t)  == Leave(t, "wait1", "add", SecondTarget)

-----------------------------------------------------------------------------
(* compute                                                                 *)

Claim(t) ==
  /\ At(t, "claim") /\ Take(t)
  /\ current_pos' = [current_pos EXCEPT ![t] = cur]
  /\ Goto(t, "bump")
  /\ UNCHANGED <<params, mod, barrier, cur, number, counter, distance>>

Bump(t) ==
  /\ At(t, "bump")
  /\ cur' = cur + 1
  /\ Goto(t, "skip")
  /\ UNCHANGED <<params, mod, lock, barrier, number, counter, current_pos, distance>>

\* number[cur] is read before cur is compared with the end, and outside the array
\* once cur has passed it, which every further claim moves it beyond: what is read
\* there decides nothing, because the comparison is then false.
Unfiltered == ~AtEnd(cur)
Skippable  == ~AtEnd(cur) /\ number[cur] = 0

SkipCrossed(t) ==
  /\ At(t, "skip") /\ Skippable
  /\ cur' = cur + 1
  /\ UNCHANGED <<params, mod, pc, lock, barrier, number, counter, current_pos, distance>>

ClaimEnd(t) ==
  /\ At(t, "skip") /\ ~Skippable
  /\ Release
  /\ Goto(t, "check")
  /\ UNCHANGED <<params, mod, barrier, sieve>>

\* cur is read again, after the unlock: whoever claimed since then may have
\* moved it, and the thread then returns without sieving what it claimed.
Return(t) ==
  /\ At(t, "check") /\ AtEnd(cur)
  /\ Goto(t, "arrive1")
  /\ UNCHANGED <<params, mod, lock, barrier, sieve>>

\* Where the crossing starts; AtItself forgets to move on to the first multiple.
AtItself(p)      == p
FirstMultiple(p) == p + (p + 2)

StartSieve(t) ==
  /\ At(t, "check") /\ ~AtEnd(cur)
  /\ IF Sundaram
     THEN /\ distance' = [distance EXCEPT ![t] = current_pos[t]]
          /\ UNCHANGED current_pos
     ELSE /\ distance' = [distance EXCEPT ![t] = current_pos[t] + 2]
          /\ current_pos' = [current_pos EXCEPT ![t] = FirstMultiple(@)]
  /\ Goto(t, "cross")
  /\ UNCHANGED <<params, mod, lock, barrier, cur, number, counter>>

\* The loop of the Eratosthenes modules.
CrossingButLast(t) == current_pos[t] < upper_bound - 2
Crossing(t) == current_pos[t] < upper_bound - 1
CrossOut(t) ==
  /\ At(t, "cross") /\ ~Sundaram /\ Crossing(t)
  /\ Locked => lock = Nobody
  /\ number' = [number EXCEPT ![current_pos[t]] = 0]
  /\ current_pos' = [current_pos EXCEPT ![t] = @ + distance[t]]
  /\ counter' = [counter EXCEPT ![t] = @ + 1]
  /\ UNCHANGED <<params, mod, pc, lock, barrier, cur, distance>>

\* The loop of the Sundaram modules: i is current_pos, j is distance.
SundaramPosition(i, j) == j + i + 2 * i * j
CrossingSundaram(t) == distance[t] <= upper_bound \div 4
Target(t) == SundaramPosition(current_pos[t], distance[t])

CrossOutSundaram(t) ==
  /\ At(t, "cross") /\ Sundaram /\ CrossingSundaram(t) /\ Target(t) <= upper_bound
  /\ Locked => lock = Nobody
  /\ number' = [number EXCEPT ![Target(t)] = 0]
  /\ counter' = [counter EXCEPT ![t] = @ + 1]
  /\ distance' = [distance EXCEPT ![t] = @ + 1]
  /\ UNCHANGED <<params, mod, pc, lock, barrier, cur, current_pos>>

PassBySundaram(t) ==
  /\ At(t, "cross") /\ Sundaram /\ CrossingSundaram(t) /\ Target(t) > upper_bound
  /\ distance' = [distance EXCEPT ![t] = @ + 1]
  /\ UNCHANGED <<params, mod, pc, lock, barrier, cur, number, counter, current_pos>>

EndOfSieve(t) == ~(IF Sundaram THEN CrossingSundaram(t) ELSE Crossing(t))

\* A count that starts afresh with every claim (compare the line that compute
\* has commented out before its loop).
NextClaimRecount(t) ==
  /\ At(t, "cross") /\ EndOfSieve(t)
  /\ Goto(t, "claim")
  /\ counter' = [counter EXCEPT ![t] = 0]
  /\ UNCHANGED <<params, mod, lock, barrier, cur, number, current_pos, distance>>

NextClaim(t) ==
  /\ At(t, "cross") /\ EndOfSieve(t)
  /\ Goto(t, "claim")
  /\ UNCHANGED <<params, mod, lock, barrier, sieve>>

-----------------------------------------------------------------------------
(* The end of mythread_func.                                               *)

AddDone(t) ==
  /\ At(t, "add")
  /\ done' = done + 1
  /\ Goto(t, "leaving")
  /\ UNCHANGED <<params, mod, lock, arrive_barrier, sieve>>

ThreadReturn(t) ==
  /\ At(t, "leaving")
  /\ Goto(t, "exited")
  /\ UNCHANGED <<params, mod, lock, barrier, sieve>>

-----------------------------------------------------------------------------
(* simple_exit                                                             *)

Runnable(t) == pc[t] \notin Idle \cup {"exited"}

\* Does showinfo follow a null number or counter pointer?  The Sundaram
\* modules always store number[2]; the others only when a loop has a turn,
\* and upper_bound - 1 wraps to ULONG_MAX when upper_bound is 0.
ShowinfoFaults ==
  arrays = "null" /\ (Sundaram \/ num_threads # 0 \/ upper_bound # 1)

\* "No adequate time": the module goes and leaves memory and kthreads behind.
ExitEarly ==
  /\ module = "live" /\ done # num_threads
  /\ module' = "unloaded"
  /\ UNCHANGED <<params, arrays, spawned, pc, lock, barrier, sieve>>

ExitReport ==
  /\ module = "live" /\ done = num_threads
  /\ IF ShowinfoFaults
     THEN module' = "oops" /\ UNCHANGED arrays
     ELSE /\ module' = "unloaded"
          /\ arrays' = IF arrays = "valid" THEN "freed" ELSE arrays
  /\ UNCHANGED <<params, spawned, pc, lock, barrier, sieve>>

\* The next instruction of a kthread whose module is gone.
Fault(t) ==
  /\ module = "unloaded" /\ t \in Threads /\ Runnable(t)
  /\ module' = "oops"
  /\ UNCHANGED <<params, arrays, spawned, pc, lock, barrier, sieve>>

-----------------------------------------------------------------------------
Compute(t) ==
  \/ Claim(t) \/ Bump(t) \/ SkipCrossed(t) \/ ClaimEnd(t) \/ Return(t) \/ StartSieve(t)
  \/ CrossOut(t) \/ CrossOutSundaram(t) \/ PassBySundaram(t) \/ NextClaim(t)

Thread(t) ==
  \/ ArriveFirst(t) \/ LeaveFirst(t)
  \/ Compute(t)
  \/ ArriveSecond(t) \/ LeaveSecond(t)
  \/ AddDone(t) \/ ThreadReturn(t)

Exit == ExitEarly \/ ExitReport

\* The module has been removed, or its removal has brought the kernel down.
Stopped ==
  /\ module \in {"unloaded", "oops"}
  /\ module = "unloaded" => \A t \in Threads : ~Runnable(t)
  /\ UNCHANGED vars

Next ==
  \/ SetUp \/ Spawn \/ InitReturn
  \/ \E t \in ThreadIds : Thread(t) \/ Fault(t)
  \/ Exit
  \/ Stopped

Spec == Init /\ [][Next]_vars

(***************************************************************************)
(* Fairness: insmod and every kthread get processor time for ever (a CPU   *)
(* of their own, or a preemptible kernel: the spin of mybarrier never      *)
(* yields).  Nothing makes anybody remove the module.                      *)
(***************************************************************************)
FairSpec ==
  /\ Spec
  /\ WF_vars(SetUp) /\ WF_vars(Spawn) /\ WF_vars(InitReturn)
  /\ \A t \in ThreadIds : WF_vars(Thread(t))

-----------------------------------------------------------------------------
TypeOK ==
  /\ program \in AllPrograms /\ num_threads \in Nat /\ upper_bound \in Nat
  /\ module \in {"loading", "spawning", "live", "unloaded", "oops"}
  /\ arrays \in {"null", "valid", "freed"}
  /\ spawned \in 0 .. num_threads
  /\ pc \in [Threads -> Points]
  /\ lock \in Threads \cup {Nobody}
  /\ arrive_barrier \in Nat /\ done \in Nat /\ cur \in Nat
  /\ arrays # "null" => number \in [Positions -> Nat]
  /\ counter \in [Threads -> Nat]
  /\ current_pos \in [Threads -> Int]
  /\ distance \in [Threads -> Int]

(* The barrier.                                                            *)

\* No kthread sieves before every kthread has been created and has arrived at
\* the first barrier: a kthread_run that fails stops all the others.
NobodyComputesEarly == In(PastFirst) # {} => In(AtFirst) = Threads

\* No kthread adds itself to done while another may still cross out a number.
NobodyLeavesEarly == In(PastSecond) # {} => In(AtSecond) = Threads

\* The one counter, never reset, holds both meetings.
BarrierHolds == NobodyComputesEarly /\ NobodyLeavesEarly

\* simple_exit frees number and counter only when no kthread, created or still
\* to be created, will touch them again.
FreeIsSafe == arrays = "freed" => In(Counted) = Threads

\* mybarrier keeps the promise of Rendezvous, at both of its uses.
Reached == [t \in Threads |-> IF pc[t] \in AtSecond THEN 2
                              ELSE IF pc[t] \in AtFirst THEN 1 ELSE 0]
Passed  == [t \in Threads |-> IF pc[t] \in PastSecond THEN 2
                              ELSE IF pc[t] \in PastFirst THEN 1 ELSE 0]
Meeting == INSTANCE Rendezvous
             WITH Meetings <- 2, workers <- Threads, reached <- Reached, passed <- Passed
MeetsTwice == Meeting!Spec

(* The sieve.                                                              *)

\* The number a position of the array stands for.
Stands(p) == IF Sundaram THEN 2 * p + 1 ELSE p + 2

Composite(n) == \E d, e \in 2 .. n : n = d * e
Primes == {n \in 2 .. upper_bound : ~Composite(n)}

\* The position a kthread is sieving with.
Base(t) == IF pc[t] = "cross" /\ ~Sundaram THEN distance[t] - 2 ELSE current_pos[t]
Claimed(t) == pc[t] \in {"bump", "skip", "check", "cross"}

\* Two kthreads never work on the same position: what the lock around the
\* claim is for.
ClaimsDistinct == \A t, u \in Threads : t # u /\ Claimed(t) /\ Claimed(u) => Base(t) # Base(u)

\* No interleaving crosses out a prime.  (Position 0 of Sundaram stands for 1.)
PrimesSurvive ==
  arrays # "null" =>
    \A p \in Positions : number[p] = 0 => Composite(Stands(p)) \/ Stands(p) = 1

Survivors == {p \in Positions : number[p] # 0}

\* What showinfo prints as the primes.
Reported == IF Sundaram
            THEN {2} \cup {n \in 3 .. upper_bound : \E p \in Survivors : n = Stands(p)}
            ELSE {number[p] : p \in Survivors}

Finished == arrays = "valid" /\ done = num_threads

\* A composite is reported as a prime only if a kthread claimed a divisor of
\* it and then dropped the claim, because cur had reached the end when read again.
MissedOnlyIfDropped ==
  Finished =>
    \A n \in Reported : Composite(n) =>
      \E t \in Threads : LET d == Stands(current_pos[t]) IN d < n /\ n % d = 0

\* One kthread alone reports exactly the primes.
ExactWhenSequential == Finished /\ num_threads = 1 => Reported = Primes

\* The cross-outs the kthreads have counted, each by its kthread and its turn.
CrossOuts == UNION {{t} \X (1 .. counter[t]) : t \in Threads}

\* "how many times numbers were unnecessarily crossed out", as showinfo prints it.
Unnecessary ==
  Cardinality(CrossOuts) - (upper_bound - Cardinality(Reported) - (IF Sundaram THEN 0 ELSE 1))

\* No cross-out is lost from the kthreads' counts: the number printed by the
\* Eratosthenes modules is never negative.
NoCrossOutLost == Finished /\ ~Sundaram => Unnecessary >= 0

(* Progress.                                                               *)

AllCreated == module = "live" /\ In({"none", "failed"}) = {}

\* While nobody removes the module and every kthread_run succeeded, all the
\* kthreads get through both barriers and the whole array.
Terminates == AllCreated ~> (done = num_threads \/ module # "live")

(* What the source says and the code does not do.                          *)

\* "compute all the prime numbers up to a specified upper bound": nothing but
\* primes is reported, however many kthreads compute.
ReportsOnlyPrimes == Finished => Reported \subseteq Primes

=============================================================================
