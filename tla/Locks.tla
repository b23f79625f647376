------------------------------- MODULE Locks -------------------------------
(***************************************************************************)
(* The two user-space locks of studio11_build_own_locks: lock.c spins with *)
(* a compare-and-exchange, sleeplock.c counts in mylock and sleeps on a    *)
(* futex.  main runs the same team in both: every thread locks, runs the   *)
(* critical section and unlocks, once.  Each step is one atomic operation  *)
(* or system call, the granularity at which threads interleave.            *)
(***************************************************************************)
EXTENDS Integers

CONSTANT Threads   \* the OpenMP team

VARIABLES program,  \* which of the two programs runs
          mylock,   \* the lock word
          pc        \* where each thread is

vars == <<program, mylock, pc>>

LOCKED   == 0
UNLOCKED == 1

Sleeping == program = "sleeplock"

In(S) == {t \in Threads : pc[t] \in S}

Goto(t, point) == pc' = [pc EXCEPT ![t] = point]

Step(t, from, to) == pc[t] = from /\ Goto(t, to)

Init ==
  /\ program \in {"lock", "sleeplock"}
  /\ mylock = UNLOCKED
  /\ pc = [t \in Threads |-> "lock"]

-----------------------------------------------------------------------------
(* lock.c                                                                  *)

\* The compare-and-exchange that succeeds.  One that fails changes nothing and
\* is tried again; LockBlind is an exchange that does not compare.
LockBlind(t) ==
  /\ ~Sleeping /\ Step(t, "lock", "critical")
  /\ mylock' = LOCKED
  /\ UNCHANGED program

Lock(t) ==
  /\ ~Sleeping /\ Step(t, "lock", "critical")
  /\ mylock = UNLOCKED /\ mylock' = LOCKED
  /\ UNCHANGED program

\* The compare-and-exchange of unlock; when it fails, unlock reports an "Illegally
\* attempt to unlock" and returns.
Unlock(t) ==
  /\ ~Sleeping /\ Step(t, "critical", IF mylock = LOCKED THEN "finished" ELSE "illegal")
  /\ mylock' = IF mylock = LOCKED THEN UNLOCKED ELSE mylock
  /\ UNCHANGED program

-----------------------------------------------------------------------------
(* sleeplock.c: lock                                                       *)

\* Does the new value say that the lock is taken?  TooLax is off by one.
TooLax(v)   == v < -1
MustWait(v) == v < 0

\* __atomic_sub_fetch, first or after futex returns.
SubFetch(t) ==
  /\ Sleeping
  /\ \E from \in {"lock", "woken"} :
       Step(t, from, IF MustWait(mylock - 1) THEN "store" ELSE "critical")
  /\ mylock' = mylock - 1
  /\ UNCHANGED program

\* __atomic_store_n(ptr, -1); StoreOpen stores the wrong word.
StoreOpen(t) ==
  /\ Sleeping /\ Step(t, "store", "wait")
  /\ mylock' = 1
  /\ UNCHANGED program

StoreContended(t) ==
  /\ Sleeping /\ Step(t, "store", "wait")
  /\ mylock' = -1
  /\ UNCHANGED program

StillContended(v) == v = -1

\* FUTEX_WAIT sleeps if the word is still -1 and returns at once otherwise.
FutexWait(t) ==
  /\ Sleeping
  /\ Step(t, "wait", IF StillContended(mylock) THEN "asleep" ELSE "woken")
  /\ UNCHANGED <<program, mylock>>

\* futex may return without a FUTEX_WAKE.
SpuriousWake(t) ==
  /\ Sleeping /\ Step(t, "asleep", "woken")
  /\ UNCHANGED <<program, mylock>>

-----------------------------------------------------------------------------
(* sleeplock.c: unlock                                                     *)

\* Does the new value say that no thread waits?
NoWaiter(v) == v = 1

\* __atomic_add_fetch
AddFetch(t) ==
  /\ Sleeping
  /\ Step(t, "critical", IF NoWaiter(mylock + 1) THEN "finished" ELSE "restore")
  /\ mylock' = mylock + 1
  /\ UNCHANGED program

\* __atomic_store_n(ptr, 1)
StoreUnlocked(t) ==
  /\ Sleeping /\ Step(t, "restore", "wake")
  /\ mylock' = 1
  /\ UNCHANGED program

\* FUTEX_WAKE of INT_MAX threads; WakeOne is a FUTEX_WAKE of one.
WakeOne(t) ==
  /\ Sleeping /\ pc[t] = "wake"
  /\ \E u \in Threads :
       /\ pc[u] = "asleep" \/ In({"asleep"}) = {}
       /\ pc' = [pc EXCEPT ![u] = IF @ = "asleep" THEN "woken" ELSE @, ![t] = "finished"]
  /\ UNCHANGED <<program, mylock>>

FutexWake(t) ==
  /\ Sleeping /\ pc[t] = "wake"
  /\ pc' = [u \in Threads |->
              IF u = t THEN "finished" ELSE IF pc[u] = "asleep" THEN "woken" ELSE pc[u]]
  /\ UNCHANGED <<program, mylock>>

-----------------------------------------------------------------------------
Program(t) ==
  \/ Lock(t) \/ Unlock(t)
  \/ SubFetch(t) \/ StoreContended(t) \/ FutexWait(t)
  \/ AddFetch(t) \/ StoreUnlocked(t) \/ FutexWake(t)

Next == \E t \in Threads : Program(t) \/ SpuriousWake(t)

Spec == Init /\ [][Next]_vars

\* The scheduler runs every thread that can run; nothing promises a spurious wake-up.
FairSpec == Spec /\ \A t \in Threads : WF_vars(Program(t))

-----------------------------------------------------------------------------
Points == {"lock", "critical", "illegal", "finished", "store", "wait", "asleep", "woken",
           "restore", "wake"}

TypeOK ==
  /\ program \in {"lock", "sleeplock"}
  /\ mylock \in Int /\ mylock <= UNLOCKED
  /\ pc \in [Threads -> Points]

\* A thread holds the lock until it has made the word UNLOCKED again.
Holding == {"critical", "restore"}

\* One thread at a time runs the critical section, and nobody enters it while
\* an unlock has added to the word but not yet stored into it.
MutualExclusion == \A t, u \in In(Holding) : t = u

\* unlock never finds the lock open: "Illegally attempt to unlock" is unreachable.
NoIllegalUnlock == In({"illegal"}) = {}

\* Both are what excluding means: two inside would leave the second of them a
\* lock that is open already.
Excludes == MutualExclusion /\ NoIllegalUnlock

\* Both locks are a Mutex.
Served == {"wake", "finished"}
Exclusion == INSTANCE Mutex WITH owners <- In(Holding), served <- In(Served)
ImplementsMutex == Exclusion!Spec

\* While the lock is held, its word tells unlock about every thread that sleeps,
\* unless a FUTEX_WAKE for it is already on the way.
SleepersAreKnown ==
  Sleeping /\ In({"asleep"}) # {} /\ In({"critical"}) # {} =>
    mylock < 0 \/ In({"wake"}) # {}

\* Everybody gets the spin lock and gives it back.
SpinLockServesAll == ~Sleeping => <>(In({"finished"}) = Threads)

\* "exist waiting thread ... wake up another thread": the sleep lock serves
\* everybody, too.
SleepLockServesAll == Sleeping => <>(In({"finished"}) = Threads)

=============================================================================
