---------------------------- MODULE LocksProofs ----------------------------
(***************************************************************************)
(* Mutual exclusion of both locks for every team, finite or not, and that  *)
(* both implement Mutex.  The sleep lock's word counts, is overwritten     *)
(* with -1 by waiters and with 1 by unlock, so the argument cannot be that *)
(* the word is exact: it is that a held lock's word is at most LOCKED.     *)
(***************************************************************************)
EXTENDS Studios, TLAPS

LEMMA InitType == Own!Init => Own!TypeOK
  BY DEF Own!Init, Own!TypeOK, Own!Points, Own!UNLOCKED

\* While a thread holds the lock the word does not read UNLOCKED, and at most
\* one thread holds it.
HeldInv ==
  /\ Own!TypeOK
  /\ \A t \in Team : l_pc[t] \in Own!Holding => mylock <= Own!LOCKED
  /\ \A t \in Team : l_pc[t] = "critical" /\ ~Own!Sleeping => mylock = Own!LOCKED
  /\ Own!MutualExclusion
  /\ Own!NoIllegalUnlock

LEMMA InitHeld == Own!Init => HeldInv
  BY InitType DEF Own!Init, HeldInv, Own!MutualExclusion, Own!NoIllegalUnlock, Own!In,
                  Own!Holding

\* What one thread's step says about all the others.
LEMMA Others ==
  ASSUME Own!TypeOK, NEW t \in Team, Own!Program(t) \/ Own!SpuriousWake(t)
  PROVE  /\ UNCHANGED l_program /\ l_pc' \in [Team -> Own!Points]
         /\ \A u \in Team \ {t} : l_pc'[u] = l_pc[u] \/ (l_pc[u] = "asleep" /\ l_pc'[u] = "woken")
  BY DEF Own!TypeOK, Own!Program, Own!Lock, Own!Unlock, Own!SubFetch,
         Own!StoreContended, Own!FutexWait, Own!AddFetch, Own!StoreUnlocked,
         Own!FutexWake, Own!SpuriousWake, Own!Step, Own!Goto, Own!Points

LEMMA StepHeld ==
  ASSUME HeldInv, NEW t \in Team, Own!Program(t) \/ Own!SpuriousWake(t)
  PROVE  HeldInv'
<1>1. /\ Own!TypeOK /\ mylock \in Int
      /\ Own!Sleeping' = Own!Sleeping /\ l_program' \in {"lock", "sleeplock"}
      /\ l_pc' \in [Team -> Own!Points]
      /\ \A u \in Team \ {t} : l_pc'[u] = l_pc[u] \/ (l_pc[u] = "asleep" /\ l_pc'[u] = "woken")
  BY Others DEF HeldInv, Own!TypeOK, Own!Sleeping
\* A step that does not make t a holder, and stores at most LOCKED if it stores.
<1>2. ASSUME l_pc'[t] \in Own!Holding => l_pc[t] \in Own!Holding,
             l_pc'[t] # "illegal", Own!Sleeping,
             mylock' = mylock \/ (mylock' \in Int /\ mylock' <= Own!LOCKED)
      PROVE  HeldInv'
  BY <1>1, <1>2 DEF HeldInv, Own!TypeOK, Own!MutualExclusion, Own!NoIllegalUnlock,
                    Own!In, Own!Holding, Own!LOCKED, Own!UNLOCKED
<1>3. ASSUME mylock > Own!LOCKED PROVE \A u \in Team : l_pc[u] \notin Own!Holding
  BY <1>1, <1>3 DEF HeldInv, Own!LOCKED
\* A step that makes t a holder when nobody is.
<1>4. ASSUME l_pc'[t] = "critical", mylock > Own!LOCKED, mylock' = Own!LOCKED
      PROVE  HeldInv'
  BY <1>1, <1>3, <1>4 DEF HeldInv, Own!TypeOK, Own!MutualExclusion, Own!NoIllegalUnlock,
                          Own!In, Own!Holding, Own!LOCKED, Own!UNLOCKED
\* A step of the only holder that gives the lock back.
<1>5. ASSUME l_pc[t] \in Own!Holding, l_pc'[t] \in {"finished", "wake"}, mylock' = Own!UNLOCKED
      PROVE  HeldInv'
  <2>1. \A u \in Team \ {t} : l_pc[u] \notin Own!Holding /\ l_pc'[u] \notin Own!Holding
    BY <1>1, <1>5 DEF HeldInv, Own!MutualExclusion, Own!In, Own!Holding
  <2> QED
    BY <1>1, <1>5, <2>1 DEF HeldInv, Own!TypeOK, Own!MutualExclusion,
                            Own!NoIllegalUnlock, Own!In, Own!Holding, Own!LOCKED,
                            Own!UNLOCKED
<1>6. CASE Own!Lock(t)
  BY <1>1, <1>4, <1>6 DEF Own!Lock, Own!Step, Own!Goto, Own!TypeOK, Own!LOCKED,
                          Own!UNLOCKED
<1>7. CASE Own!Unlock(t)
  <2>1. l_pc[t] = "critical" /\ mylock = Own!LOCKED
    BY <1>7 DEF Own!Unlock, Own!Step, HeldInv
  <2>2. l_pc'[t] = "finished" /\ mylock' = Own!UNLOCKED
    BY <1>1, <1>7, <2>1 DEF Own!Unlock, Own!Step, Own!Goto, Own!TypeOK
  <2> QED
    BY <1>5, <2>1, <2>2 DEF Own!Holding
<1>8. CASE Own!SubFetch(t)
  <2>1. /\ l_pc'[t] = IF mylock - 1 < 0 THEN "store" ELSE "critical"
        /\ mylock' = mylock - 1 /\ Own!Sleeping
    BY <1>1, <1>8 DEF Own!SubFetch, Own!Step, Own!Goto, Own!TypeOK, Own!MustWait
  <2>2. CASE mylock - 1 < 0
    BY <1>1, <1>2, <2>1, <2>2 DEF Own!Holding, Own!LOCKED
  <2>3. CASE ~(mylock - 1 < 0)
    BY <1>1, <1>4, <2>1, <2>3 DEF Own!LOCKED, Own!UNLOCKED, Own!TypeOK
  <2> QED
    BY <2>2, <2>3
<1>9. CASE Own!StoreContended(t) \/ Own!FutexWait(t) \/ Own!SpuriousWake(t) \/ Own!FutexWake(t)
  BY <1>1, <1>2, <1>9 DEF Own!StoreContended, Own!FutexWait, Own!SpuriousWake,
                          Own!FutexWake, Own!StillContended, Own!Step, Own!Goto,
                          Own!TypeOK, Own!Holding, Own!LOCKED
<1>10. CASE Own!AddFetch(t)
  <2>1. /\ l_pc[t] = "critical" /\ mylock' = mylock + 1 /\ Own!Sleeping /\ mylock <= Own!LOCKED
        /\ l_pc'[t] = IF mylock + 1 = 1 THEN "finished" ELSE "restore"
    BY <1>1, <1>10 DEF Own!AddFetch, Own!Step, Own!Goto, Own!TypeOK, Own!NoWaiter,
                       HeldInv, Own!Holding
  <2>2. CASE mylock + 1 = 1
    BY <1>5, <2>1, <2>2 DEF Own!Holding, Own!UNLOCKED
  <2>3. CASE mylock + 1 # 1
    BY <1>1, <1>2, <2>1, <2>3 DEF Own!Holding, Own!LOCKED
  <2> QED
    BY <2>2, <2>3
<1>11. CASE Own!StoreUnlocked(t)
  BY <1>1, <1>5, <1>11 DEF Own!StoreUnlocked, Own!Step, Own!Goto, Own!TypeOK,
                           Own!Holding, Own!UNLOCKED
<1> QED
  BY <1>6, <1>7, <1>8, <1>9, <1>10, <1>11 DEF Own!Program

\* The lock programs in the composition.
LEMMA OneOfTheLocks == [Next]_vars => [Own!Next]_lockVars
  BY DEF Next, vars, lockVars

LEMMA HeldInvariant == Spec => []HeldInv
<1>1. Init => HeldInv
  BY InitHeld DEF Init
<1>2. HeldInv /\ [Own!Next]_lockVars => HeldInv'
  <2> SUFFICES ASSUME HeldInv, [Own!Next]_lockVars PROVE HeldInv'
    OBVIOUS
  <2>1. CASE UNCHANGED lockVars
    BY <2>1 DEF lockVars, HeldInv, Own!TypeOK, Own!MutualExclusion, Own!NoIllegalUnlock,
                Own!In, Own!Sleeping
  <2>2. ASSUME NEW t \in Team, Own!Program(t) \/ Own!SpuriousWake(t) PROVE HeldInv'
    BY <2>2, StepHeld
  <2> QED
    BY <2>1, <2>2 DEF Own!Next
<1> QED
  BY <1>1, <1>2, OneOfTheLocks, PTL DEF Spec

\* Every variable keeps its type, and the word never exceeds UNLOCKED.
THEOREM TypeCorrect == Spec => []Own!TypeOK
  BY HeldInvariant, PTL DEF HeldInv

\* For every team, at most one thread at a time runs the critical section of
\* lock.c or of sleeplock.c, and unlock never finds the spin lock open.
THEOREM Exclusive == Spec => []Excludes
  BY HeldInvariant, PTL DEF HeldInv, Excludes, Own!Excludes

-----------------------------------------------------------------------------
(* Both locks implement Mutex.                                             *)

LEMMA StepImplements ==
  ASSUME HeldInv, HeldInv', NEW t \in Team, Own!Program(t) \/ Own!SpuriousWake(t)
  PROVE  [Own!Exclusion!Next]_(Own!Exclusion!vars)
<1>1. /\ Own!TypeOK /\ l_pc' \in [Team -> Own!Points]
      /\ \A u \in Team \ {t} : l_pc'[u] = l_pc[u] \/ (l_pc[u] = "asleep" /\ l_pc'[u] = "woken")
  BY Others DEF HeldInv
<1>2. \A u, v \in Team : l_pc[u] \in Own!Holding /\ l_pc[v] \in Own!Holding => u = v
  BY DEF HeldInv, Own!MutualExclusion, Own!In
<1>3. \A u, v \in Team : l_pc'[u] \in Own!Holding /\ l_pc'[v] \in Own!Holding => u = v
  BY DEF HeldInv, Own!MutualExclusion, Own!In
<1>4. ASSUME l_pc[t] \in Own!Holding <=> l_pc'[t] \in Own!Holding,
             l_pc[t] \in Own!Served <=> l_pc'[t] \in Own!Served
      PROVE  UNCHANGED Own!Exclusion!vars
  BY <1>1, <1>4 DEF Own!Exclusion!vars, Own!In, Own!Holding, Own!Served
<1>5. ASSUME l_pc[t] \notin Own!Holding \cup Own!Served, l_pc'[t] = "critical",
             \A u \in Team : l_pc[u] \notin Own!Holding
      PROVE  Own!Exclusion!Next
  <2>1. Own!In(Own!Holding) = {} /\ Own!In(Own!Holding)' = {t}
    BY <1>1, <1>3, <1>5 DEF Own!In, Own!Holding
  <2>2. t \notin Own!In(Own!Served) /\ Own!In(Own!Served)' = Own!In(Own!Served)
    BY <1>1, <1>5 DEF Own!In, Own!Served
  <2> QED
    BY <2>1, <2>2 DEF Own!Exclusion!Next, Own!Exclusion!Acquire
<1>6. ASSUME l_pc[t] \in Own!Holding, l_pc'[t] \in Own!Served PROVE Own!Exclusion!Next
  <2>1. t \in Own!In(Own!Holding) /\ Own!In(Own!Holding)' = Own!In(Own!Holding) \ {t}
    BY <1>1, <1>6 DEF Own!In, Own!Holding, Own!Served
  <2>2. Own!In(Own!Served)' = Own!In(Own!Served) \cup {t}
    BY <1>1, <1>6 DEF Own!In, Own!Holding, Own!Served
  <2> QED
    BY <2>1, <2>2 DEF Own!Exclusion!Next, Own!Exclusion!Release
<1>7. ASSUME mylock > Own!LOCKED PROVE \A u \in Team : l_pc[u] \notin Own!Holding
  BY <1>1, <1>7 DEF HeldInv, Own!TypeOK, Own!LOCKED
<1> USE DEF Own!Holding, Own!Served, Own!Step, Own!Goto, Own!TypeOK, Own!LOCKED,
            Own!UNLOCKED
<1>8. CASE Own!Lock(t)
  BY <1>1, <1>5, <1>7, <1>8 DEF Own!Lock
<1>9. CASE Own!Unlock(t)
  <2>1. mylock = Own!LOCKED
    BY <1>9 DEF Own!Unlock, HeldInv
  <2> QED
    BY <1>1, <1>6, <1>9, <2>1 DEF Own!Unlock
<1>10. CASE Own!SubFetch(t)
  <2>1. l_pc[t] \in {"lock", "woken"} /\ l_pc'[t] = IF mylock - 1 < 0 THEN "store" ELSE "critical"
    BY <1>1, <1>10 DEF Own!SubFetch, Own!MustWait
  <2>2. CASE mylock - 1 < 0
    BY <1>4, <2>1, <2>2
  <2>3. CASE ~(mylock - 1 < 0)
    BY <1>1, <1>5, <1>7, <2>1, <2>3
  <2> QED
    BY <2>2, <2>3
<1>11. CASE Own!StoreContended(t) \/ Own!FutexWait(t) \/ Own!SpuriousWake(t) \/ Own!FutexWake(t)
  BY <1>1, <1>4, <1>11 DEF Own!StoreContended, Own!FutexWait, Own!SpuriousWake,
                           Own!FutexWake
<1>12. CASE Own!AddFetch(t)
  <2>1. l_pc[t] = "critical" /\ l_pc'[t] \in {"finished", "restore"}
    BY <1>1, <1>12 DEF Own!AddFetch
  <2> QED
    BY <1>4, <1>6, <2>1
<1>13. CASE Own!StoreUnlocked(t)
  BY <1>1, <1>6, <1>13 DEF Own!StoreUnlocked
<1> QED
  BY <1>8, <1>9, <1>10, <1>11, <1>12, <1>13 DEF Own!Program

\* The spin lock and the sleep lock are locks: every run of either is a run of
\* Mutex, in which a thread's unlock takes effect when the word is UNLOCKED again.
THEOREM LocksImplementMutex == Spec => ImplementsMutex
<1>1. Init => Own!Exclusion!Init
  BY DEF Init, Own!Init, Own!Exclusion!Init, Own!In, Own!Holding, Own!Served
<1>2. HeldInv /\ HeldInv' /\ [Own!Next]_lockVars =>
        [Own!Exclusion!Next]_(Own!Exclusion!vars)
  <2> SUFFICES ASSUME HeldInv, HeldInv', [Own!Next]_lockVars
           PROVE  [Own!Exclusion!Next]_(Own!Exclusion!vars)
    OBVIOUS
  <2>1. CASE UNCHANGED lockVars
    BY <2>1 DEF lockVars, Own!Exclusion!vars, Own!In
  <2>2. ASSUME NEW t \in Team, Own!Program(t) \/ Own!SpuriousWake(t)
        PROVE  [Own!Exclusion!Next]_(Own!Exclusion!vars)
    BY <2>2, StepImplements
  <2> QED
    BY <2>1, <2>2 DEF Own!Next
<1> QED
  BY <1>1, <1>2, HeldInvariant, OneOfTheLocks, PTL
  DEF Spec, ImplementsMutex, Own!ImplementsMutex, Own!Exclusion!Spec

-----------------------------------------------------------------------------
(* Sleepers while the lock is held.                                        *)

\* Whenever the word does not show a sleeper, a FUTEX_WAKE is on its way.
SleepInv ==
  (/\ Own!Sleeping /\ Own!In({"asleep"}) # {}
   /\ (Own!In({"critical"}) # {} /\ mylock >= 0) \/ mylock > 0)
  => Own!In({"wake"}) # {}

LEMMA StepSleep ==
  ASSUME HeldInv, SleepInv, NEW t \in Team, Own!Program(t) \/ Own!SpuriousWake(t)
  PROVE  SleepInv'
<1>1. /\ Own!TypeOK /\ mylock \in Int /\ Own!Sleeping' = Own!Sleeping
      /\ l_pc' \in [Team -> Own!Points]
      /\ \A u \in Team \ {t} : l_pc'[u] = l_pc[u] \/ (l_pc[u] = "asleep" /\ l_pc'[u] = "woken")
  BY Others DEF HeldInv, Own!TypeOK, Own!Sleeping
<1> USE DEF Own!Step, Own!Goto, Own!TypeOK, Own!In
<1>2. CASE Own!Lock(t) \/ Own!Unlock(t)
  BY <1>1, <1>2 DEF Own!Lock, Own!Unlock, SleepInv
<1>3. CASE Own!SubFetch(t)
  BY <1>1, <1>3 DEF Own!SubFetch, Own!MustWait, SleepInv
<1>4. CASE Own!StoreContended(t)
  BY <1>1, <1>4 DEF Own!StoreContended, SleepInv
<1>5. CASE Own!FutexWait(t) \/ Own!SpuriousWake(t)
  BY <1>1, <1>5 DEF Own!FutexWait, Own!SpuriousWake, Own!StillContended, SleepInv
<1>6. CASE Own!AddFetch(t)
  <2>1. \A u \in Team : l_pc'[u] # "critical"
    BY <1>1, <1>6 DEF Own!AddFetch, HeldInv, Own!MutualExclusion, Own!Holding
  <2>2. mylock' = mylock + 1 /\ l_pc[t] = "critical" /\ l_pc'[t] \notin {"asleep", "wake"}
    BY <1>1, <1>6 DEF Own!AddFetch
  <2> QED
    BY <1>1, <2>1, <2>2 DEF SleepInv
<1>7. CASE Own!StoreUnlocked(t)
  BY <1>1, <1>7 DEF Own!StoreUnlocked, SleepInv
<1>8. CASE Own!FutexWake(t)
  BY <1>1, <1>8 DEF Own!FutexWake, SleepInv
<1> QED
  BY <1>2, <1>3, <1>4, <1>5, <1>6, <1>7, <1>8 DEF Own!Program

\* For every team, a thread asleep while another holds the lock will be woken:
\* the sleep lock loses a wake-up only when the lock is free.
THEOREM HeldLockKnowsSleepers == Spec => []SleepersAreKnown
<1>1. Init => SleepInv
  BY DEF Init, Own!Init, SleepInv, Own!In
<1>2. HeldInv /\ SleepInv /\ [Own!Next]_lockVars => SleepInv'
  <2> SUFFICES ASSUME HeldInv, SleepInv, [Own!Next]_lockVars PROVE SleepInv'
    OBVIOUS
  <2>1. CASE UNCHANGED lockVars
    BY <2>1 DEF lockVars, SleepInv, Own!In, Own!Sleeping
  <2>2. ASSUME NEW t \in Team, Own!Program(t) \/ Own!SpuriousWake(t) PROVE SleepInv'
    BY <2>2, StepSleep
  <2> QED
    BY <2>1, <2>2 DEF Own!Next
<1>3. HeldInv /\ SleepInv => SleepersAreKnown
  BY DEF HeldInv, Own!TypeOK, SleepInv, SleepersAreKnown, Own!SleepersAreKnown
<1> QED
  BY <1>1, <1>2, <1>3, HeldInvariant, OneOfTheLocks, PTL DEF Spec

=============================================================================
