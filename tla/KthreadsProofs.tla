--------------------------- MODULE KthreadsProofs ---------------------------
(***************************************************************************)
(* Theorems about Kthreads, for every number of cores and increments.      *)
(* What simple_exit leaves behind depends on its order: the kthreads are   *)
(* stopped one by one while the timer still runs and wakes them, and the   *)
(* timer is cancelled last.                                                *)
(***************************************************************************)
EXTENDS Kthreads, FiniteSetTheorems, TLAPS

LEMMA NAbove == N \in Nat \ {0}
  BY BoundAssumption DEF N

-----------------------------------------------------------------------------
(* Types.                                                                  *)

LEMMA InitType == Init => TypeOK
<1> SUFFICES ASSUME Init PROVE TypeOK
  OBVIOUS
<1>1. 0 \in 0 .. N /\ -1 \in -1 .. N /\ 0 \in 0 .. iters /\ program \in AllPrograms
  BY NAbove, BoundAssumption, ProgramsAssumption DEF Init
<1> QED
  BY <1>1 DEF Init, TypeOK

LEMMA WokenType ==
  ASSUME TypeOK, NEW t \in Threads
  PROVE  /\ Woken(t) \in [Threads -> {"none", "created", "enter", "check", "body",
                                      "suspended", "exited"}]
         /\ \A u \in Threads : pc[u] \in {"none", "exited"} => Woken(t)[u] = pc[u]
  BY DEF TypeOK, Woken

LEMMA InsmodType == TypeOK /\ Insmod => TypeOK'
<1> SUFFICES ASSUME TypeOK, Insmod PROVE TypeOK'
  OBVIOUS
<1>1. N' = N /\ Threads' = Threads
  BY DEF N, Threads, Insmod, StartTimer, Create, Start, InitReturn, life
<1> USE <1>1, NAbove DEF life, ticking, counter
<1>2. CASE StartTimer
  BY <1>2 DEF StartTimer, TypeOK
<1>3. Creating => at \in Threads /\ at + 1 \in 0 .. N
  BY DEF Creating, TypeOK, Threads
<1>4. CASE Create
  BY <1>3, <1>4 DEF Create, TypeOK, Goto, Oops
<1>5. CASE Start
  BY <1>3, <1>5, WokenType DEF Start, TypeOK
<1>6. CASE InitReturn
  BY <1>6 DEF InitReturn, TypeOK
<1> QED
  BY <1>2, <1>4, <1>5, <1>6 DEF Insmod

LEMMA TimerType == TypeOK /\ (Tick \/ Callback \/ CancelTimer) => TypeOK'
<1> SUFFICES ASSUME TypeOK, Tick \/ Callback \/ CancelTimer PROVE TypeOK'
  OBVIOUS
<1>1. N' = N /\ Threads' = Threads
  BY DEF N, Threads, Tick, Callback, CancelTimer, WakeNext, hrtimer_forward_now, life
<1> USE <1>1, NAbove DEF life, ticking, counter
<1>2. CASE Tick
  BY <1>2 DEF Tick, TypeOK
<1>3. CASE WakeNext
  <2>1. waking \in Threads /\ waking' \in -1 .. N
    BY <1>3 DEF WakeNext, Threads
  <2>2. pc' = Woken(waking) \/ pc' = pc
    BY <1>3 DEF WakeNext
  <2>3. pc' \in [Threads -> {"none", "created", "enter", "check", "body", "suspended", "exited"}]
    BY <2>1, <2>2, WokenType DEF TypeOK
  <2>4. module' \in {"loading", "live", "exiting", "unloaded", "oops"}
    BY <1>3 DEF WakeNext, Oops, TypeOK
  <2> QED
    BY <1>3, <2>1, <2>3, <2>4 DEF WakeNext, TypeOK
<1>4. CASE hrtimer_forward_now
  BY <1>4 DEF hrtimer_forward_now, Restart, TypeOK
<1>5. CASE CancelTimer
  BY <1>5 DEF CancelTimer, TypeOK
<1> QED
  BY <1>2, <1>3, <1>4, <1>5 DEF Callback

LEMMA RunType == ASSUME TypeOK, NEW t, Run(t) PROVE TypeOK'
<1>1. N' = N /\ Threads' = Threads /\ t \in Threads
  BY DEF N, Threads, Run, Enter, Check, AtomicAdd, Load, Store, Suspend, Incrementing, At, life
<1> USE <1>1 DEF At, Goto, life, ticking, counter
<1>2. CASE Enter(t)
  BY <1>2 DEF Enter, TypeOK
<1>3. CASE Check(t)
  <2>1. iter' \in [Threads -> 0 .. iters]
    BY <1>3, BoundAssumption DEF Check, TypeOK
  <2> QED
    BY <1>3, <2>1 DEF Check, TypeOK
<1>4. Incrementing(t) => iter[t] + 1 \in 0 .. iters
  BY BoundAssumption DEF Incrementing, More, TypeOK
<1>5. CASE AtomicAdd(t)
  BY <1>4, <1>5 DEF AtomicAdd, Plus, TypeOK
<1>6. CASE Load(t)
  BY <1>6 DEF Load, TypeOK
<1>7. CASE Store(t)
  <2>1. loaded[t] \in Nat
    BY <1>7 DEF Store, TypeOK
  <2> QED
    BY <1>4, <1>7, <2>1 DEF Store, Plus, TypeOK
<1>8. CASE Suspend(t)
  BY <1>8 DEF Suspend, TypeOK
<1> QED
  BY <1>2, <1>3, <1>5, <1>6, <1>7, <1>8 DEF Run

LEMMA RmmodType == TypeOK /\ (BeginExit \/ Rmmod) => TypeOK'
<1> SUFFICES ASSUME TypeOK, BeginExit \/ Rmmod PROVE TypeOK'
  OBVIOUS
<1>1. N' = N /\ Threads' = Threads
  BY DEF N, Threads, BeginExit, Rmmod, SkipError, KthreadStop, KthreadStopped, ExitReturn
<1> USE <1>1, NAbove DEF ticking, counter
<1>2. Stopping => at \in Threads /\ at + 1 \in 0 .. N
  BY DEF Stopping, TypeOK, Threads
<1>3. CASE BeginExit
  BY <1>3 DEF BeginExit, TypeOK
<1>4. CASE SkipError
  BY <1>2, <1>4 DEF SkipError, TypeOK
<1>5. CASE KthreadStop
  BY <1>2, <1>5, WokenType DEF KthreadStop, TypeOK
<1>6. CASE KthreadStopped
  BY <1>2, <1>6 DEF KthreadStopped, TypeOK
<1>7. CASE ExitReturn
  BY <1>7 DEF ExitReturn, TypeOK
<1> QED
  BY <1>3, <1>4, <1>5, <1>6, <1>7 DEF Rmmod

LEMMA NextType == TypeOK /\ [Next]_vars => TypeOK'
<1> SUFFICES ASSUME TypeOK, [Next]_vars PROVE TypeOK'
  OBVIOUS
<1>1. CASE UNCHANGED vars
  BY <1>1 DEF vars, life, ticking, counter, TypeOK, N, Threads
<1> QED
  BY <1>1, InsmodType, TimerType, RunType, RmmodType DEF Next, Stopped

\* Every variable of the kthread modules keeps its type.
THEOREM TypeCorrect == Spec => []TypeOK
  BY InitType, NextType, PTL DEF Spec

-----------------------------------------------------------------------------
(* What is left behind, and what the callback may meet.                    *)

\* The turns simple_init has not made yet, and the pointers it has stored.
CreationInv ==
  /\ module = "loading" =>
       /\ \A t \in Threads : t > at \/ (t = at /\ ~half) =>
            pc[t] = "none" /\ task_pointer[t] # "error"
       /\ program = "multiple" =>
            \A t \in Threads : t < at \/ (t = at /\ half) => task_pointer[t] = "valid"
  /\ module = "live" /\ program = "multiple" => \A t \in Threads : task_pointer[t] = "valid"
  /\ \A t \in Threads : task_pointer[t] = "error" => pc[t] = "none"

\* A timer that is cancelled, or was never started, has no callback running.
TimerInv ==
  /\ ~Timed => timer = "off" /\ waking = -1
  /\ timer = "cancelled" => waking = -1

Gone(t) == pc[t] \in {"none", "exited"}

\* The kthreads simple_exit has passed are gone, although the timer may still
\* wake them.
ExitInv ==
  /\ module = "exiting" => \A t \in Threads : t < at => Gone(t)
  /\ module = "unloaded" => /\ \A t \in Threads : Gone(t)
                            /\ Timed => timer = "cancelled"

LifeInv == TypeOK /\ CreationInv /\ TimerInv /\ ExitInv

LEMMA InitLife == Init => LifeInv
  BY InitType DEF Init, LifeInv, CreationInv, TimerInv, ExitInv, Threads

LEMMA InsmodLife == LifeInv /\ Insmod => LifeInv'
<1> SUFFICES ASSUME LifeInv, Insmod PROVE LifeInv'
  OBVIOUS
<1>1. N' = N /\ Threads' = Threads /\ Timed' = Timed /\ program' = program
  BY DEF N, Threads, Timed, Insmod, StartTimer, Create, Start, InitReturn, life
<1>2. TypeOK /\ TypeOK' /\ CreationInv /\ TimerInv /\ ExitInv
  BY InsmodType DEF LifeInv
<1>3. module = "loading" /\ module' \in {"loading", "live", "oops"} /\ waking' = waking
  BY DEF Insmod, StartTimer, Create, Start, InitReturn, Creating, Oops, life, ticking
<1>4. TimerInv'
  <2>1. CASE StartTimer
    BY <1>1, <1>2, <2>1 DEF StartTimer, TimerInv
  <2>2. CASE Create \/ Start \/ InitReturn
    BY <1>1, <1>2, <2>2 DEF Create, Start, InitReturn, TimerInv, ticking
  <2> QED
    BY <2>1, <2>2 DEF Insmod
<1>5. ExitInv'
  BY <1>3 DEF ExitInv
<1>6. CreationInv'
  <2>1. CASE StartTimer
    BY <1>1, <1>2, <2>1 DEF StartTimer, CreationInv, life
  <2>2. CASE Create
    <3>1. at \in Threads /\ ~half /\ pc[at] = "none" /\ task_pointer[at] # "error"
      BY <1>2, <1>3, <2>2, NAbove DEF Create, Creating, CreationInv, TypeOK, Threads
    <3>2. \A t \in Threads : t \in Int
      BY NAbove DEF Threads
    <3>3. CASE program = "single"
      BY <1>1, <1>2, <1>3, <2>2, <3>1, <3>2, <3>3 DEF Create, CreationInv, TypeOK, Goto
    <3>4. CASE program # "single"
      BY <1>1, <1>2, <1>3, <2>2, <3>1, <3>2, <3>4 DEF Create, CreationInv, TypeOK, Goto, Oops
    <3> QED
      BY <3>3, <3>4
  <2>3. CASE Start
    <3>1. at \in Threads /\ half /\ at' = at + 1 /\ half' = FALSE
      BY <1>2, <1>3, <2>3, NAbove DEF Start, Creating, TypeOK, Threads
    <3>2. \A t \in Threads : t \in Int
      BY NAbove DEF Threads
    <3>3. CASE program = "single"
      <4>1. /\ task_pointer' = [task_pointer EXCEPT ![at] = "valid"]
            /\ pc' = pc /\ module' = module
        BY <2>3, <3>3 DEF Start
      <4> QED
        BY <1>1, <1>2, <1>3, <3>1, <3>2, <3>3, <4>1 DEF CreationInv, TypeOK
    <3>4. CASE program # "single"
      <4>1. pc' = Woken(at) /\ task_pointer' = task_pointer /\ module' = module
        BY <2>3, <3>4 DEF Start
      <4>2. \A t \in Threads : pc[t] = "none" => pc'[t] = "none"
        BY <1>2, <3>1, <4>1, WokenType
      <4> QED
        BY <1>1, <1>2, <1>3, <3>1, <3>2, <4>1, <4>2 DEF CreationInv, TypeOK
    <3> QED
      BY <3>3, <3>4
  <2>4. CASE InitReturn
    <3>1. at = N /\ module' = "live" /\ UNCHANGED <<task_pointer, pc>>
      BY <2>4 DEF InitReturn, AllCreated
    <3>2. \A t \in Threads : t < at
      BY <3>1, NAbove DEF Threads
    <3> QED
      BY <1>1, <1>2, <1>3, <3>1, <3>2 DEF CreationInv
  <2> QED
    BY <2>1, <2>2, <2>3, <2>4 DEF Insmod
<1> QED
  BY <1>2, <1>4, <1>5, <1>6 DEF LifeInv

\* A step that moves no kthread that is gone, and nothing of the module or its
\* pointers, keeps what is said about the kthreads.
LEMMA KeepKthreads ==
  ASSUME CreationInv, ExitInv, UNCHANGED <<program, at, half, task_pointer>>,
         module' = module \/ module' = "oops", Timed /\ timer = "cancelled" => timer' = timer,
         \A t \in Threads : Gone(t) => pc'[t] = pc[t]
  PROVE  CreationInv' /\ ExitInv'
<1>1. N' = N /\ Threads' = Threads /\ Timed' = Timed
  BY DEF N, Threads, Timed
<1> QED
  BY <1>1 DEF CreationInv, ExitInv, Gone

LEMMA TimerLife == LifeInv /\ (Tick \/ Callback \/ CancelTimer) => LifeInv'
<1> SUFFICES ASSUME LifeInv, Tick \/ Callback \/ CancelTimer PROVE LifeInv'
  OBVIOUS
<1>1. Timed' = Timed /\ UNCHANGED <<program, at, half, task_pointer>>
  BY DEF Timed, Tick, Callback, CancelTimer, WakeNext, hrtimer_forward_now, life
<1>2. TypeOK /\ TypeOK' /\ CreationInv /\ TimerInv /\ ExitInv
  BY TimerType DEF LifeInv
<1> USE NAbove
<1>3. CASE Tick
  <2>1. TimerInv'
    BY <1>1, <1>2, <1>3 DEF Tick, TimerInv, Timed
  <2> QED
    BY <1>1, <1>2, <1>3, <2>1, KeepKthreads DEF Tick, LifeInv, life
<1>4. CASE WakeNext
  <2>1. waking \in Threads /\ timer' = timer /\ (pc' = pc \/ pc' = Woken(waking))
    BY <1>4 DEF WakeNext
  <2>2. \A t \in Threads : Gone(t) => pc'[t] = pc[t]
    BY <1>2, <2>1, WokenType DEF Gone
  <2>3. module' = module \/ module' = "oops"
    BY <1>4 DEF WakeNext, Oops
  <2>4. TimerInv'
    BY <1>1, <1>2, <2>1 DEF TimerInv, Threads
  <2> QED
    BY <1>1, <1>2, <2>1, <2>2, <2>3, <2>4, KeepKthreads DEF LifeInv
<1>5. CASE hrtimer_forward_now
  <2>1. waking = N /\ timer # "cancelled"
    BY <1>2, <1>5 DEF hrtimer_forward_now, TimerInv
  <2>2. TimerInv'
    BY <1>1, <1>2, <1>5, <2>1 DEF hrtimer_forward_now, TimerInv, Restart
  <2> QED
    BY <1>1, <1>2, <1>5, <2>1, <2>2, KeepKthreads DEF hrtimer_forward_now, LifeInv, life
<1>6. CASE CancelTimer
  <2>1. TimerInv'
    BY <1>1, <1>2, <1>6 DEF CancelTimer, TimerInv, NotInCallback
  <2> QED
    BY <1>1, <1>2, <1>6, <2>1, KeepKthreads DEF CancelTimer, LifeInv, life
<1> QED
  BY <1>3, <1>4, <1>5, <1>6 DEF Callback

LEMMA RunLife == ASSUME LifeInv, NEW t, Run(t) PROVE LifeInv'
<1>1. /\ t \in Threads /\ UNCHANGED <<program, module, at, half, timer, waking, task_pointer>>
      /\ ~Gone(t)
  BY DEF Run, Enter, Check, AtomicAdd, Load, Store, Suspend, Incrementing, At, life, ticking, Gone
<1>2. \A u \in Threads \ {t} : pc'[u] = pc[u]
  BY DEF Run, Enter, Check, AtomicAdd, Load, Store, Suspend, Goto, LifeInv, TypeOK
<1>3. TypeOK' /\ CreationInv /\ TimerInv /\ ExitInv
  BY RunType DEF LifeInv
<1>4. TimerInv'
  BY <1>1, <1>3 DEF TimerInv, Timed
<1> QED
  BY <1>1, <1>2, <1>3, <1>4, KeepKthreads DEF LifeInv

LEMMA RmmodLife == LifeInv /\ (BeginExit \/ Rmmod) => LifeInv'
<1> SUFFICES ASSUME LifeInv, BeginExit \/ Rmmod PROVE LifeInv'
  OBVIOUS
<1>1. N' = N /\ Threads' = Threads /\ Timed' = Timed /\ UNCHANGED <<program, timer, waking>>
  BY DEF N, Threads, Timed, BeginExit, Rmmod, SkipError, KthreadStop, KthreadStopped, ExitReturn,
         ticking
<1>2. TypeOK /\ TypeOK' /\ CreationInv /\ TimerInv /\ ExitInv
  BY RmmodType DEF LifeInv
<1>3. TimerInv'
  BY <1>1, <1>2 DEF TimerInv
<1>4. \A t \in Threads : t \in Int /\ t < N /\ (Gone(t) => pc'[t] = pc[t])
  <2>1. \A t \in Threads : t \in Int /\ t < N
    BY NAbove DEF Threads
  <2>2. pc' = pc \/ (at \in Threads /\ pc' = Woken(at))
    BY <1>2, NAbove DEF BeginExit, Rmmod, SkipError, KthreadStop, KthreadStopped, ExitReturn,
                        Stopping, TypeOK, Threads
  <2> QED
    BY <1>2, <2>1, <2>2, WokenType DEF Gone
<1>5. module' \in {"exiting", "unloaded"}
  BY DEF BeginExit, Rmmod, SkipError, KthreadStop, KthreadStopped, ExitReturn, Stopping
<1>6. CreationInv'
  <2>1. \A t \in Threads : task_pointer'[t] = "error" => task_pointer[t] = "error"
    BY <1>2 DEF BeginExit, Rmmod, SkipError, KthreadStop, KthreadStopped, ExitReturn, TypeOK
  <2> QED
    BY <1>1, <1>2, <1>4, <1>5, <2>1 DEF CreationInv, Gone
<1>7. ExitInv'
  <2>1. CASE BeginExit
    <3>1. at' = 0 /\ module' = "exiting" /\ \A t \in Threads : ~(t < 0)
      BY <2>1, NAbove DEF BeginExit, Threads
    <3> QED
      BY <1>1, <3>1 DEF ExitInv
  <2>2. CASE SkipError \/ KthreadStopped
    <3>1. at \in Threads /\ Gone(at) /\ module = "exiting" /\ module' = module /\ at' = at + 1
      BY <1>2, <2>2, NAbove DEF SkipError, KthreadStopped, Stopping, CreationInv, Gone, TypeOK, Threads
    <3>2. \A t \in Threads : t < at + 1 => t < at \/ t = at
      BY <1>4, <3>1
    <3> QED
      BY <1>1, <1>2, <1>4, <3>1, <3>2 DEF ExitInv, Gone
  <2>3. CASE KthreadStop
    BY <1>1, <1>2, <1>4, <2>3 DEF KthreadStop, Stopping, ExitInv, Gone
  <2>4. CASE ExitReturn
    BY <1>1, <1>2, <1>4, <2>4 DEF ExitReturn, ExitInv, Gone
  <2> QED
    BY <2>1, <2>2, <2>3, <2>4 DEF Rmmod
<1> QED
  BY <1>2, <1>3, <1>6, <1>7 DEF LifeInv

LEMMA NextLife == LifeInv /\ [Next]_vars => LifeInv'
<1> SUFFICES ASSUME LifeInv, [Next]_vars PROVE LifeInv'
  OBVIOUS
<1>1. CASE UNCHANGED vars
  <2>1. N' = N /\ Threads' = Threads /\ Timed' = Timed
    BY <1>1 DEF vars, life, N, Threads, Timed
  <2>2. TypeOK'
    BY <1>1, NextType DEF LifeInv
  <2> QED
    BY <1>1, <2>1, <2>2 DEF vars, life, ticking, LifeInv, CreationInv, TimerInv, ExitInv, Gone
<1> QED
  BY <1>1, InsmodLife, TimerLife, RunLife, RmmodLife DEF Next, Stopped

LEMMA LifeInvariant == Spec => []LifeInv
  BY InitLife, NextLife, PTL DEF Spec

\* For every number of kthreads: when simple_exit has returned, no kthread, no
\* callback and no armed timer is left that would use the module.
THEOREM LeavesNothing == Spec => []NothingLeft
<1>1. LifeInv => NothingLeft
  BY DEF LifeInv, TypeOK, TimerInv, ExitInv, NothingLeft, Gone, In
<1> QED
  BY <1>1, LifeInvariant, PTL

\* For every number of kthreads: between init and exit the callback of the
\* multi-threaded module never brings the kernel down.
THEOREM LiveIsSafe == Spec => SafeWhileLive
<1>1. LifeInv /\ [Next]_vars => [program = "multiple" /\ module = "live" => module' # "oops"]_vars
  <2> SUFFICES ASSUME LifeInv, Next, program = "multiple", module = "live"
               PROVE  module' # "oops"
    OBVIOUS
  <2>1. CASE WakeNext
    <3>1. waking \in Threads /\ task_pointer[waking] = "valid"
      BY <2>1 DEF WakeNext, LifeInv, CreationInv
    <3> QED
      BY <2>1, <3>1 DEF WakeNext
  <2>2. CASE Insmod \/ Tick \/ hrtimer_forward_now \/ BeginExit \/ Rmmod \/ CancelTimer \/ Stopped
    BY <2>2 DEF Insmod, StartTimer, Create, Start, InitReturn, Creating, Tick,
                hrtimer_forward_now, BeginExit, Rmmod, SkipError, KthreadStop, KthreadStopped,
                ExitReturn, Stopping, CancelTimer, Stopped, life
  <2>3. ASSUME NEW t, Run(t) PROVE module' # "oops"
    BY <2>3 DEF Run, Enter, Check, AtomicAdd, Load, Store, Suspend, life
  <2> QED
    BY <2>1, <2>2, <2>3 DEF Next, Callback
<1> QED
  BY <1>1, LifeInvariant, PTL DEF Spec, SafeWhileLive

-----------------------------------------------------------------------------
(* The counters of studio10.                                               *)

\* A kthread of a counter module makes all its increments between its first check
\* and its suspension, and none afterwards: only kthread_stop wakes it again.
PhaseInv ==
  ~Timed =>
    /\ module = "loading" /\ half => at \in Threads /\ pc[at] = "created"
    /\ \A t \in Threads :
         /\ pc[t] \in {"none", "created", "enter"} => iter[t] = 0
         /\ pc[t] = "check" => iter[t] = 0 \/ (should_stop[t] /\ iter[t] = iters)
         /\ pc[t] = "suspended" => iter[t] = iters
         /\ pc[t] = "exited" => iter[t] \in {0, iters}
         /\ loaded[t] # NoValue => pc[t] = "body" /\ iter[t] < iters

Made == Cardinality(Increments)

AtomicInv ==
  program = "atomic_race" => shared_data = Made /\ \A t \in Threads : loaded[t] = NoValue

\* Neither the counter nor what a kthread has read of it is ahead of the increments.
UpperInv ==
  program = "race" =>
    /\ shared_data <= Made
    /\ \A t \in Threads : loaded[t] # NoValue => loaded[t] <= Made

\* From its second increment on a kthread reads what is not zero.  So the counter is
\* at least two, or somebody has just stored his first increment over the others'.
LowerInv ==
  program = "race" =>
    \A t \in Threads : iter[t] > 0 =>
      /\ shared_data > 1 \/ (shared_data = 1 /\ \E w \in Threads : iter[w] = 1)
      /\ loaded[t] # NoValue => loaded[t] > 0

CounterInv == PhaseInv /\ AtomicInv /\ UpperInv /\ LowerInv

LEMMA MadeType == TypeOK => IsFiniteSet(Increments) /\ Made \in Nat
<1>1. IsFiniteSet(Threads) /\ IsFiniteSet(0 .. iters)
  BY NAbove, BoundAssumption, FS_Interval DEF Threads
<1>2. IsFiniteSet(Threads \X (0 .. iters))
  BY <1>1, FS_Product
<1>3. IsFiniteSet(Increments)
  BY <1>2, FS_Subset DEF Increments
<1> QED
  BY <1>3, FS_CardinalityType DEF Made

\* One more turn of one loop is one more increment.
LEMMA OneMoreMade ==
  ASSUME TypeOK, UNCHANGED program, NEW t \in Threads, iter[t] < iters,
         iter' = [iter EXCEPT ![t] = @ + 1]
  PROVE  Made' = Made + 1
<1>1. Threads' = Threads
  BY DEF Threads, N
<1>2. iter[t] \in 0 .. iters /\ iter'[t] = iter[t] + 1
  BY DEF TypeOK
<1>3. \A u \in Threads : iter[u] \in Int /\ (u # t => iter'[u] = iter[u])
  BY BoundAssumption DEF TypeOK
<1>4. Increments' = Increments \cup {<<t, iter[t]>>}
  <2>1. ASSUME NEW u \in Threads, NEW k \in 0 .. iters
        PROVE  k < iter'[u] <=> k < iter[u] \/ (u = t /\ k = iter[t])
    BY BoundAssumption, <1>2, <1>3
  <2>2. \A x \in Threads \X (0 .. iters) :
          x[2] < iter'[x[1]] <=> x[2] < iter[x[1]] \/ x = <<t, iter[t]>>
    BY <2>1
  <2>3. <<t, iter[t]>> \in Threads \X (0 .. iters)
    BY <1>2
  <2> QED
    BY <1>1, <2>2, <2>3 DEF Increments
<1>5. <<t, iter[t]>> \notin Increments
  BY <1>2, BoundAssumption DEF Increments
<1> QED
  BY <1>4, <1>5, MadeType, FS_AddElement DEF Made

LEMMA InitCounter == Init => CounterInv
<1> SUFFICES ASSUME Init PROVE CounterInv
  OBVIOUS
<1>1. \A t \in Threads : pc[t] = "none" /\ iter[t] = 0 /\ loaded[t] = NoValue
  BY DEF Init
<1>2. shared_data = 0 /\ half = FALSE
  BY DEF Init
<1>3. Increments = {}
  BY <1>1 DEF Increments
<1>4. Made = 0
  BY <1>3, FS_EmptySet DEF Made
<1> QED
  BY <1>1, <1>2, <1>4 DEF CounterInv, PhaseInv, AtomicInv, UpperInv, LowerInv

LEMMA SameCounter ==
  ASSUME CounterInv, UNCHANGED <<program, counter>>
  PROVE  AtomicInv' /\ UpperInv' /\ LowerInv'
<1>1. Threads' = Threads
  BY DEF N, Threads
<1>2. UNCHANGED <<shared_data, iter, loaded>>
  BY DEF counter
<1>3. Increments' = Increments
  BY <1>1, <1>2 DEF Increments
<1>4. Made' = Made
  BY <1>3 DEF Made
<1> QED
  BY <1>1, <1>2, <1>4 DEF CounterInv, AtomicInv, UpperInv, LowerInv

\* Waking a kthread lets it start, or stop.
LEMMA WokenPhase ==
  ASSUME TypeOK, NEW t \in Threads
  PROVE  /\ \A u \in Threads \ {t} : Woken(t)[u] = pc[u]
         /\ Woken(t)[t] = IF pc[t] = "created" THEN "enter"
                          ELSE IF pc[t] = "suspended" THEN "check" ELSE pc[t]
  BY DEF TypeOK, Woken

LEMMA InsmodPhase == LifeInv /\ PhaseInv /\ Insmod => PhaseInv'
<1> SUFFICES ASSUME LifeInv, PhaseInv, Insmod, ~Timed PROVE PhaseInv'
  BY DEF PhaseInv, Timed, Insmod, StartTimer, Create, Start, InitReturn, life
<1>1. TypeOK /\ CreationInv /\ module = "loading" /\ program # "single"
  BY DEF LifeInv, Insmod, StartTimer, Create, Start, InitReturn, Creating, Timed, Monitors
<1>2. Threads' = Threads /\ Timed' = Timed /\ UNCHANGED <<should_stop, iter, loaded>>
  BY DEF N, Threads, Timed, Insmod, StartTimer, Create, Start, InitReturn, life, counter
<1>3. Creating => at \in Threads
  BY <1>1, NAbove DEF Creating, TypeOK, Threads
<1>4. CASE Create
  <2>1. at \in Threads /\ pc[at] = "none"
    BY <1>1, <1>3, <1>4 DEF Create, CreationInv
  <2>2. \/ half' = TRUE /\ at' = at /\ pc' = [pc EXCEPT ![at] = "created"]
        \/ half' = half /\ at' = at /\ pc' = pc
    BY <1>1, <1>4 DEF Create, Goto
  <2>3. half = FALSE
    BY <1>1, <1>4 DEF Create, TypeOK
  <2> QED
    BY <1>1, <1>2, <2>1, <2>2, <2>3 DEF PhaseInv, TypeOK
<1>5. CASE Start
  <2>1. at \in Threads /\ pc[at] = "created" /\ half' = FALSE /\ pc' = Woken(at)
    BY <1>1, <1>3, <1>5 DEF Start, Creating, PhaseInv
  <2>2. \A u \in Threads : pc'[u] = pc[u] \/ (pc[u] = "created" /\ pc'[u] = "enter")
    BY <1>1, <2>1, WokenPhase
  <2> QED
    BY <1>2, <2>1, <2>2 DEF PhaseInv
<1>6. CASE StartTimer \/ InitReturn
  BY <1>2, <1>6 DEF PhaseInv, StartTimer, InitReturn, life
<1> QED
  BY <1>4, <1>5, <1>6 DEF Insmod

LEMMA TimerPhase == LifeInv /\ PhaseInv /\ (Tick \/ Callback \/ CancelTimer) => PhaseInv'
<1> SUFFICES ASSUME LifeInv, PhaseInv, Tick \/ Callback \/ CancelTimer, ~Timed PROVE FALSE
  BY DEF PhaseInv, Timed, Tick, Callback, CancelTimer, WakeNext, hrtimer_forward_now, life
<1>1. timer = "off" /\ waking = -1
  BY DEF LifeInv, TimerInv
<1>2. N # -1 /\ -1 \notin Threads
  BY NAbove DEF Threads
<1> QED
  BY <1>1, <1>2 DEF Tick, Callback, CancelTimer, WakeNext, hrtimer_forward_now

LEMMA RmmodPhase == LifeInv /\ PhaseInv /\ (BeginExit \/ Rmmod) => PhaseInv'
<1> SUFFICES ASSUME LifeInv, PhaseInv, BeginExit \/ Rmmod, ~Timed PROVE PhaseInv'
  BY DEF PhaseInv, Timed, BeginExit, Rmmod, SkipError, KthreadStop, KthreadStopped, ExitReturn
<1>1. Threads' = Threads /\ Timed' = Timed /\ UNCHANGED <<iter, loaded>> /\ TypeOK
  BY DEF N, Threads, Timed, BeginExit, Rmmod, SkipError, KthreadStop, KthreadStopped,
         ExitReturn, counter, LifeInv
<1>2. module' # "loading"
  BY DEF BeginExit, Rmmod, SkipError, KthreadStop, KthreadStopped, ExitReturn, Stopping
<1>3. CASE KthreadStop
  <2>1. at \in Threads
    BY <1>1, <1>3, NAbove DEF KthreadStop, Stopping, TypeOK, Threads
  <2>2. pc' = Woken(at) /\ should_stop' = [should_stop EXCEPT ![at] = TRUE]
    BY <1>3 DEF KthreadStop
  <2>3. \A u \in Threads \ {at} : pc'[u] = pc[u] /\ should_stop'[u] = should_stop[u]
    BY <1>1, <2>1, <2>2, WokenPhase DEF TypeOK
  <2>4. should_stop'[at] /\ pc'[at] = IF pc[at] = "created" THEN "enter"
                                      ELSE IF pc[at] = "suspended" THEN "check" ELSE pc[at]
    BY <1>1, <2>1, <2>2, WokenPhase DEF TypeOK
  <2> QED
    BY <1>1, <1>2, <2>1, <2>3, <2>4 DEF PhaseInv
<1>4. CASE BeginExit \/ SkipError \/ KthreadStopped \/ ExitReturn
  <2>1. UNCHANGED <<pc, should_stop>>
    BY <1>4 DEF BeginExit, SkipError, KthreadStopped, ExitReturn
  <2> QED
    BY <1>1, <1>2, <2>1 DEF PhaseInv
<1> QED
  BY <1>3, <1>4 DEF Rmmod

\* A step of one kthread: the others keep their phases.
LEMMA OnePhase ==
  ASSUME PhaseInv, ~Timed, NEW t \in Threads,
         UNCHANGED <<program, module, at, half, should_stop>>, module # "loading" \/ ~half \/ t # at,
         \A u \in Threads \ {t} : pc'[u] = pc[u] /\ iter'[u] = iter[u] /\ loaded'[u] = loaded[u],
         pc'[t] \in {"none", "created", "enter"} => iter'[t] = 0,
         pc'[t] = "check" => iter'[t] = 0 \/ (should_stop[t] /\ iter'[t] = iters),
         pc'[t] = "suspended" => iter'[t] = iters,
         pc'[t] = "exited" => iter'[t] \in {0, iters},
         loaded'[t] # NoValue => pc'[t] = "body" /\ iter'[t] < iters
  PROVE  PhaseInv'
<1>1. Threads' = Threads
  BY DEF N, Threads
<1> QED
  BY <1>1 DEF PhaseInv

LEMMA RunPhase == ASSUME LifeInv, PhaseInv, AtomicInv, NEW t, Run(t) PROVE PhaseInv'
<1> SUFFICES ASSUME ~Timed PROVE PhaseInv'
  BY DEF PhaseInv, Timed, Run, Enter, Check, AtomicAdd, Load, Store, Suspend, life
<1>1. TypeOK /\ t \in Threads /\ UNCHANGED <<program, module, at, half, should_stop>>
  BY DEF LifeInv, Run, Enter, Check, AtomicAdd, Load, Store, Suspend, Incrementing, At, life
<1>2. pc[t] # "created"
  BY DEF Run, Enter, Check, AtomicAdd, Load, Store, Suspend, Incrementing, At
<1>3. module # "loading" \/ ~half \/ t # at
  BY <1>1, <1>2 DEF PhaseInv
<1>4. /\ \A u \in Threads \ {t} : pc'[u] = pc[u] /\ iter'[u] = iter[u] /\ loaded'[u] = loaded[u]
  BY <1>1 DEF TypeOK, Run, Enter, Check, AtomicAdd, Load, Store, Suspend, Goto, counter
<1>5. iters \in Nat /\ iter[t] \in 0 .. iters
  BY <1>1, BoundAssumption DEF TypeOK
<1>6. CASE Enter(t)
  <2>1. pc[t] = "enter" /\ pc'[t] \in {"check", "exited"} /\ UNCHANGED <<iter, loaded>>
    BY <1>1, <1>6 DEF Enter, At, Goto, TypeOK, counter
  <2> QED
    BY <1>1, <1>3, <1>4, <2>1, OnePhase DEF PhaseInv
<1>7. CASE Check(t)
  <2>1. pc[t] = "check" /\ pc'[t] = (IF should_stop[t] THEN "exited" ELSE "body") /\ loaded' = loaded
    BY <1>1, <1>7 DEF Check, At, Goto, TypeOK
  <2>2. iter'[t] = IF should_stop[t] THEN iter[t] ELSE 0
    BY <1>1, <1>7 DEF Check, TypeOK
  <2>3. loaded[t] = NoValue /\ iter[t] \in {0, iters}
    BY <1>1, <2>1 DEF PhaseInv
  <2> QED
    BY <1>1, <1>3, <1>4, <2>1, <2>2, <2>3, OnePhase
<1>8. CASE AtomicAdd(t)
  <2>1. pc[t] = "body" /\ pc' = pc /\ loaded' = loaded /\ program = "atomic_race"
    BY <1>8 DEF AtomicAdd, Incrementing, At, Atomic
  <2>2. iter[t] < iters /\ iter'[t] = iter[t] + 1
    BY <1>1, <1>8 DEF AtomicAdd, Incrementing, More, TypeOK
  <2>3. loaded'[t] = NoValue
    BY <1>1, <2>1 DEF AtomicInv
  <2> QED
    BY <1>1, <1>3, <1>4, <1>5, <2>1, <2>2, <2>3, OnePhase
<1>9. CASE Load(t)
  <2>1. pc[t] = "body" /\ pc' = pc /\ iter' = iter /\ iter[t] < iters
    BY <1>9 DEF Load, Incrementing, At, More
  <2> QED
    BY <1>1, <1>3, <1>4, <2>1, OnePhase
<1>10. CASE Store(t)
  <2>1. pc[t] = "body" /\ pc' = pc /\ loaded'[t] = NoValue
    BY <1>1, <1>10 DEF Store, Incrementing, At, TypeOK
  <2> QED
    BY <1>1, <1>3, <1>4, <2>1, OnePhase
<1>11. CASE Suspend(t)
  <2>1. pc'[t] = "suspended" /\ UNCHANGED <<iter, loaded>>
    BY <1>1, <1>11 DEF Suspend, Goto, TypeOK, counter
  <2>2. iter[t] = iters
    BY <1>5, <1>11 DEF Suspend, Incrementing, More
  <2>3. loaded[t] = NoValue
    BY <1>1, <1>5, <2>2 DEF PhaseInv
  <2> QED
    BY <1>1, <1>3, <1>4, <2>1, <2>2, <2>3, OnePhase
<1> QED
  BY <1>6, <1>7, <1>8, <1>9, <1>10, <1>11 DEF Run

\* The values: what an increment reads and stores.
LEMMA RunValues ==
  ASSUME LifeInv, CounterInv, NEW t, Run(t)
  PROVE  AtomicInv' /\ UpperInv' /\ LowerInv'
<1> USE NAbove, BoundAssumption
<1>1. CASE Timed
  BY <1>1 DEF Timed, Monitors, AtomicInv, UpperInv, LowerInv, Run, Enter, Check, AtomicAdd,
              Load, Store, Suspend, life
<1>2. /\ TypeOK /\ t \in Threads /\ program' = program /\ Threads' = Threads
      /\ PhaseInv /\ AtomicInv /\ UpperInv /\ LowerInv
  BY DEF LifeInv, CounterInv, Threads, N, Run, Enter, Check, AtomicAdd, Load, Store, Suspend,
         Incrementing, At, life
<1>3. /\ Made \in Nat /\ shared_data \in Nat /\ \A u \in Threads : iter[u] \in Nat
      /\ \A u \in Threads : loaded[u] # NoValue => loaded[u] \in Nat
  BY <1>2, MadeType DEF TypeOK
<1>4. CASE Enter(t) \/ Suspend(t)
  BY <1>4, <1>2, SameCounter DEF Enter, Suspend
<1>5. CASE Check(t) /\ ~Timed
  <2>1. pc[t] = "check" /\ UNCHANGED <<shared_data, loaded>>
    BY <1>5 DEF Check, At
  <2>2. iter' = iter
    <3>1. ~should_stop[t] => iter[t] = 0
      BY <1>2, <1>5, <2>1 DEF PhaseInv
    <3>2. \A u \in Threads : iter'[u] = iter[u]
      BY <1>2, <1>5, <3>1 DEF Check, TypeOK
    <3>3. iter \in [Threads -> 0 .. iters] /\ iter' \in [Threads -> 0 .. iters]
      BY <1>2, <1>5, RunType DEF TypeOK
    <3> QED
      BY <3>2, <3>3
  <2> QED
    BY <1>2, <2>1, <2>2, SameCounter DEF counter
<1>6. CASE AtomicAdd(t)
  <2>1. program = "atomic_race" /\ loaded' = loaded /\ shared_data' = shared_data + 1
    BY <1>6 DEF AtomicAdd, Atomic, Plus
  <2>2. iter[t] < iters /\ iter' = [iter EXCEPT ![t] = @ + 1]
    BY <1>6 DEF AtomicAdd, Incrementing, More
  <2>3. Made' = Made + 1
    BY <1>2, <2>2, OneMoreMade
  <2> QED
    BY <1>2, <1>3, <2>1, <2>3 DEF AtomicInv, UpperInv, LowerInv
<1>7. CASE Load(t)
  <2>1. program # "atomic_race" /\ UNCHANGED <<shared_data, iter>>
    BY <1>7 DEF Load, Atomic
  <2>2. \A u \in Threads : loaded'[u] = IF u = t THEN shared_data ELSE loaded[u]
    BY <1>2, <1>7 DEF Load, TypeOK
  <2>3. Increments' = Increments
    BY <1>2, <2>1 DEF Increments
  <2>4. Made' = Made
    BY <2>3 DEF Made
  <2>5. UpperInv'
    BY <1>2, <1>3, <2>1, <2>2, <2>4 DEF UpperInv
  <2>6. LowerInv'
    BY <1>2, <1>3, <2>1, <2>2 DEF LowerInv
  <2> QED
    BY <1>2, <2>1, <2>5, <2>6 DEF AtomicInv
<1>8. CASE Store(t)
  <2>1. /\ loaded[t] \in Nat /\ loaded[t] # NoValue
        /\ shared_data' = loaded[t] + 1 /\ iter' = [iter EXCEPT ![t] = @ + 1]
    BY <1>2, <1>8 DEF Store, Plus, TypeOK
  <2>2. program # "atomic_race"
    BY <1>2, <2>1 DEF AtomicInv
  <2>3. iter[t] < iters
    BY <1>8 DEF Store, Incrementing, More
  <2>4. Made' = Made + 1
    BY <1>2, <2>1, <2>3, OneMoreMade
  <2>5. \A u \in Threads : /\ loaded'[u] = IF u = t THEN NoValue ELSE loaded[u]
                           /\ iter'[u] = IF u = t THEN iter[u] + 1 ELSE iter[u]
    BY <1>2, <1>8, <2>1 DEF Store, TypeOK
  <2>6. UpperInv'
    BY <1>2, <1>3, <2>1, <2>4, <2>5 DEF UpperInv
  <2>7. LowerInv'
    <3> SUFFICES ASSUME program = "race", NEW u \in Threads, iter'[u] > 0
                 PROVE  /\ \/ shared_data' > 1
                           \/ shared_data' = 1 /\ \E w \in Threads : iter'[w] = 1
                        /\ loaded'[u] # NoValue => loaded'[u] > 0
      BY <1>2 DEF LowerInv
    <3>1. loaded'[u] # NoValue => loaded'[u] > 0
      BY <1>2, <2>5 DEF LowerInv
    <3>2. CASE iter[t] > 0
      <4>1. loaded[t] > 0
        BY <1>2, <2>1, <3>2 DEF LowerInv
      <4> QED
        BY <2>1, <3>1, <4>1
    <3>3. CASE iter[t] = 0
      BY <1>2, <2>1, <2>5, <3>1, <3>3
    <3> QED
      BY <1>2, <1>3, <3>2, <3>3
  <2> QED
    BY <1>2, <2>2, <2>6, <2>7 DEF AtomicInv
<1> QED
  BY <1>1, <1>4, <1>5, <1>6, <1>7, <1>8 DEF Run

LEMMA NextCounter == LifeInv /\ CounterInv /\ [Next]_vars => CounterInv'
<1> SUFFICES ASSUME LifeInv, CounterInv, [Next]_vars PROVE CounterInv'
  OBVIOUS
<1>1. PhaseInv /\ AtomicInv
  BY DEF CounterInv
<1>2. ASSUME Insmod \/ Tick \/ Callback \/ BeginExit \/ Rmmod \/ CancelTimer PROVE CounterInv'
  <2>1. UNCHANGED <<program, counter>>
    BY <1>2 DEF Insmod, StartTimer, Create, Start, InitReturn, Tick, Callback, WakeNext,
                hrtimer_forward_now, BeginExit, Rmmod, SkipError, KthreadStop, KthreadStopped,
                ExitReturn, CancelTimer, life
  <2>2. PhaseInv'
    BY <1>1, <1>2, InsmodPhase, TimerPhase, RmmodPhase
  <2> QED
    BY <2>1, <2>2, SameCounter DEF CounterInv
<1>3. ASSUME NEW t, Run(t) PROVE CounterInv'
  BY <1>1, <1>3, RunPhase, RunValues DEF CounterInv
<1>4. CASE UNCHANGED vars
  <2>1. PhaseInv'
    BY <1>1, <1>4 DEF PhaseInv, Timed, Threads, N, vars, life, counter
  <2> QED
    BY <1>4, <2>1, SameCounter DEF CounterInv, vars, life
<1> QED
  BY <1>2, <1>3, <1>4 DEF Next, Stopped

LEMMA CounterInvariant == Spec => []CounterInv
<1>1. Init => LifeInv /\ CounterInv
  BY InitLife, InitCounter
<1>2. (LifeInv /\ CounterInv) /\ [Next]_vars => (LifeInv /\ CounterInv)'
  BY NextLife, NextCounter
<1> QED
  BY <1>1, <1>2, PTL DEF Spec

\* For every number of kthreads and increments: the atomic counter is exact, and the
\* volatile one is between two and the number of increments when the module has gone.
THEOREM CountersAddUp == Spec => []Totals
<1>1. LifeInv /\ CounterInv => Totals
  <2> SUFFICES ASSUME LifeInv, CounterInv PROVE Totals
    OBVIOUS
  <2>1. TypeOK /\ Made \in Nat
    BY MadeType DEF LifeInv
  <2>2. AtomicTotal
    BY DEF CounterInv, AtomicInv, AtomicTotal, Made
  <2>3. ASSUME program = "race", module = "unloaded", NEW t \in Threads, iter[t] >= 2
        PROVE  shared_data \in 2 .. Made
    <3>1. \A u \in Threads : pc[u] \in {"none", "exited"}
      BY <2>3 DEF LifeInv, ExitInv, Gone
    <3>2. \A u \in Threads : iter[u] \in {0, iters}
      BY <2>3, <3>1 DEF CounterInv, PhaseInv, Timed, Monitors
    <3>3. iters \in Nat /\ iters >= 2
      BY <2>3, <3>2, BoundAssumption
    <3>4. ~ \E u \in Threads : iter[u] = 1
      BY <3>2, <3>3
    <3>5. iter[t] > 0
      BY <2>3, <3>2, <3>3
    <3>6. shared_data > 1 /\ shared_data <= Made /\ shared_data \in Nat
      BY <2>1, <2>3, <3>4, <3>5 DEF CounterInv, UpperInv, LowerInv, TypeOK
    <3> QED
      BY <2>1, <3>6
  <2>4. RaceBounds
    BY <2>3 DEF RaceBounds, Made
  <2> QED
    BY <2>2, <2>4 DEF Totals
<1> QED
  BY <1>1, LifeInvariant, CounterInvariant, PTL

=============================================================================
