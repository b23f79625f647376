------------------------------ MODULE Kthreads ------------------------------
(***************************************************************************)
(* The kernel modules that keep kthreads which suspend themselves until    *)
(* somebody wakes them up: the two monitoring modules of project1, whose   *)
(* hrtimer wakes them at every tick, and the two modules of studio10,      *)
(* whose kthreads increment a shared counter and have no timer.            *)
(*                                                                         *)
(* simple_init and simple_exit run in insmod and rmmod, the timer callback *)
(* in interrupt context, and each kthread on its own core; they interleave *)
(* at the granularity of the kernel calls they make.  An oops ends the     *)
(* behaviour.                                                              *)
(***************************************************************************)
EXTENDS Integers, FiniteSets

CONSTANTS Programs,  \* the modules that may be loaded
          Cores,     \* bound: kthreads of a multi-threaded module (4 in the code)
          iters      \* bound: increments of a kthread (1000000 in the code)

AllPrograms == {"multiple", "single", "race", "atomic_race"}

ASSUME ProgramsAssumption == Programs \subseteq AllPrograms
ASSUME BoundAssumption == Cores \in Nat \ {0} /\ iters \in Nat

VARIABLES
  program,       \* the module that is loaded
  module,        \* where its life is: loading, live, exiting, unloaded, oops
  at,            \* the turn of the loop over cores in simple_init or simple_exit
  half,          \* is that turn half done?
  timer,         \* mytimer: off, armed, cancelled
  waking,        \* the turn of the loop in mytimer_restart; -1 outside it
  task_pointer,  \* null, error, valid, or pointing to a task that is gone
  pc,            \* where each kthread is
  should_stop,   \* KTHREAD_SHOULD_STOP of each kthread
  shared_data,
  iter,          \* local of mythreads, per kthread
  loaded         \* the value an increment has read, per kthread

life    == <<program, module, at, half>>
ticking == <<timer, waking>>
counter == <<shared_data, iter, loaded>>
vars    == <<life, ticking, task_pointer, pc, should_stop, counter>>

Monitors == {"multiple", "single"}
Timed    == program \in Monitors
N        == IF program = "single" THEN 1 ELSE Cores
Threads  == 0 .. N - 1
NoValue  == -1

In(S) == {t \in Threads : pc[t] \in S}

Goto(t, point) == pc' = [pc EXCEPT ![t] = point]

Oops == module' = "oops"

\* Nobody takes a step once the kernel has oopsed.
Up == module # "oops"

Init ==
  /\ program \in Programs
  /\ module = "loading" /\ at = 0 /\ half = FALSE
  /\ timer = "off" /\ waking = -1
  /\ task_pointer = [t \in Threads |-> "null"]
  /\ pc = [t \in Threads |-> "none"]
  /\ should_stop = [t \in Threads |-> FALSE]
  /\ shared_data = 0
  /\ iter = [t \in Threads |-> 0]
  /\ loaded = [t \in Threads |-> NoValue]

-----------------------------------------------------------------------------
(* wake_up_process.  A kthread that has set its state to TASK_INTERRUPTIBLE *)
(* is suspended, whether or not schedule has already switched it out: a     *)
(* wake-up makes schedule return.  Any other wake-up is without effect.     *)

Woken(t) ==
  [pc EXCEPT ![t] = IF @ = "created" THEN "enter" ELSE IF @ = "suspended" THEN "check" ELSE @]

-----------------------------------------------------------------------------
(* simple_init: the timer is started before the first kthread exists.      *)

StartTimer ==
  /\ module = "loading" /\ Timed /\ timer = "off"
  /\ timer' = "armed"
  /\ UNCHANGED <<life, waking, task_pointer, pc, should_stop, counter>>

Creating == module = "loading" /\ (Timed => timer = "armed") /\ at < N

\* kthread_create stores the pointer; kthread_run, in the single-threaded module,
\* has not returned it yet when the kthread is already running.  kthread_bind
\* follows an error pointer, kthread_run does not.
Create ==
  /\ Creating /\ ~half
  /\ \/ /\ half' = TRUE
        /\ IF program = "single"
           THEN Goto(at, "enter") /\ UNCHANGED task_pointer
           ELSE Goto(at, "created") /\ task_pointer' = [task_pointer EXCEPT ![at] = "valid"]
        /\ UNCHANGED <<module, at>>
     \/ /\ program = "single"
        /\ task_pointer' = [task_pointer EXCEPT ![at] = "error"]
        /\ at' = at + 1
        /\ UNCHANGED <<module, half, pc>>
     \/ /\ program # "single"
        /\ Oops
        /\ UNCHANGED <<at, half, task_pointer, pc>>
  /\ UNCHANGED <<program, ticking, should_stop, counter>>

\* kthread_bind and wake_up_process, or kthread_run returns.
Start ==
  /\ Creating /\ half
  /\ IF program = "single"
     THEN task_pointer' = [task_pointer EXCEPT ![at] = "valid"] /\ UNCHANGED pc
     ELSE pc' = Woken(at) /\ UNCHANGED task_pointer
  /\ at' = at + 1 /\ half' = FALSE
  /\ UNCHANGED <<program, module, ticking, should_stop, counter>>

\* The end of the loop of simple_init, and one turn too early.
OneShort   == at >= N - 1
AllCreated == at = N

InitReturn ==
  /\ module = "loading" /\ (Timed => timer = "armed") /\ AllCreated
  /\ module' = "live"
  /\ UNCHANGED <<program, at, half, ticking, task_pointer, pc, should_stop, counter>>

-----------------------------------------------------------------------------
(* mytimer_restart                                                         *)

Tick ==
  /\ Up /\ timer = "armed" /\ waking = -1
  /\ waking' = 0
  /\ UNCHANGED <<life, timer, task_pointer, pc, should_stop, counter>>

\* One wake_up_process of the callback.  A null or an error pointer is followed.
\* The memory of a task that is gone may still show a dead task, which is not woken.
WakeNext ==
  /\ Up /\ waking \in Threads
  /\ CASE task_pointer[waking] = "valid" -> pc' = Woken(waking) /\ UNCHANGED module
       [] task_pointer[waking] = "freed" -> UNCHANGED pc /\ (Oops \/ UNCHANGED module)
       [] OTHER -> Oops /\ UNCHANGED pc
  /\ waking' = waking + 1
  /\ UNCHANGED <<program, at, half, timer, task_pointer, should_stop, counter>>

\* What the callback leaves behind: HRTIMER_RESTART, or HRTIMER_NORESTART.
NoRestart == "off"
Restart   == "armed"

hrtimer_forward_now ==
  /\ Up /\ waking = N
  /\ waking' = -1 /\ timer' = Restart
  /\ UNCHANGED <<life, task_pointer, pc, should_stop, counter>>

-----------------------------------------------------------------------------
(* mythreads.  The code of the kthreads needs the module.                  *)

At(t, point) == Up /\ t \in Threads /\ pc[t] = point

\* kthread calls mythreads unless it has been stopped already.
Enter(t) ==
  /\ At(t, "enter")
  /\ Goto(t, IF should_stop[t] THEN "exited" ELSE "check")
  /\ UNCHANGED <<life, ticking, task_pointer, should_stop, counter>>

\* while(!kthread_should_stop()), and what precedes the increments.
Check(t) ==
  /\ At(t, "check")
  /\ Goto(t, IF should_stop[t] THEN "exited" ELSE "body")
  /\ iter' = [iter EXCEPT ![t] = IF should_stop[t] THEN @ ELSE 0]
  /\ UNCHANGED <<life, ticking, task_pointer, should_stop, shared_data, loaded>>

\* The condition of the loop, and one that runs it once too often.
OneMore(i) == i <= iters
More(i)    == i < iters

Incrementing(t) == At(t, "body") /\ ~Timed /\ More(iter[t])

\* What shared_data++ stores; LostPlus is shared_data = shared_data++.
LostPlus(v) == v
Plus(v)     == v + 1

\* Is an increment one step?
NeverAtomic == FALSE
Atomic      == program = "atomic_race"

AtomicAdd(t) ==
  /\ Incrementing(t) /\ Atomic
  /\ shared_data' = Plus(shared_data)
  /\ iter' = [iter EXCEPT ![t] = @ + 1]
  /\ UNCHANGED <<life, ticking, task_pointer, pc, should_stop, loaded>>

Load(t) ==
  /\ Incrementing(t) /\ ~Atomic /\ loaded[t] = NoValue
  /\ loaded' = [loaded EXCEPT ![t] = shared_data]
  /\ UNCHANGED <<life, ticking, task_pointer, pc, should_stop, shared_data, iter>>

Store(t) ==
  /\ Incrementing(t) /\ loaded[t] # NoValue
  /\ shared_data' = Plus(loaded[t])
  /\ loaded' = [loaded EXCEPT ![t] = NoValue]
  /\ iter' = [iter EXCEPT ![t] = @ + 1]
  /\ UNCHANGED <<life, ticking, task_pointer, pc, should_stop>>

\* set_current_state(TASK_INTERRUPTIBLE) and schedule, long after the check.
Suspend(t) ==
  /\ At(t, "body") /\ ~Incrementing(t)
  /\ Goto(t, "suspended")
  /\ UNCHANGED <<life, ticking, task_pointer, should_stop, counter>>

-----------------------------------------------------------------------------
(* simple_exit: the kthreads are stopped one after the other, and then the *)
(* timer is cancelled.                                                     *)

BeginExit ==
  /\ module = "live"
  /\ module' = "exiting" /\ at' = 0
  /\ UNCHANGED <<program, half, ticking, task_pointer, pc, should_stop, counter>>

Stopping == module = "exiting" /\ at < N

\* IS_ERR
SkipError ==
  /\ Stopping /\ task_pointer[at] = "error"
  /\ at' = at + 1
  /\ UNCHANGED <<program, module, half, ticking, task_pointer, pc, should_stop, counter>>

\* kthread_stop sets the flag and wakes the kthread up...
KthreadStop ==
  /\ Stopping /\ ~half /\ task_pointer[at] # "error"
  /\ half' = TRUE
  /\ should_stop' = [should_stop EXCEPT ![at] = TRUE]
  /\ pc' = Woken(at)
  /\ UNCHANGED <<program, module, at, ticking, task_pointer, counter>>

\* ...and waits for it to end.  The task is gone after that.
KthreadStopped ==
  /\ Stopping /\ half /\ pc[at] = "exited"
  /\ half' = FALSE /\ at' = at + 1
  /\ task_pointer' = [task_pointer EXCEPT ![at] = "freed"]
  /\ UNCHANGED <<program, module, ticking, pc, should_stop, counter>>

\* hrtimer_cancel waits for a callback that is running; TryToCancel, which is
\* hrtimer_try_to_cancel, does not and goes on.
NotInCallback == waking = -1

TryToCancel ==
  /\ module = "exiting" /\ at = N /\ Timed /\ timer # "cancelled"
  /\ timer' = "cancelled"
  /\ UNCHANGED <<life, waking, task_pointer, pc, should_stop, counter>>

CancelTimer ==
  /\ module = "exiting" /\ at = N /\ Timed /\ NotInCallback /\ timer # "cancelled"
  /\ timer' = "cancelled"
  /\ UNCHANGED <<life, waking, task_pointer, pc, should_stop, counter>>

ExitReturn ==
  /\ module = "exiting" /\ at = N /\ (Timed => timer = "cancelled")
  /\ module' = "unloaded"
  /\ UNCHANGED <<program, at, half, ticking, task_pointer, pc, should_stop, counter>>

-----------------------------------------------------------------------------
Insmod   == StartTimer \/ Create \/ Start \/ InitReturn
Callback == WakeNext \/ hrtimer_forward_now
Run(t)   == Enter(t) \/ Check(t) \/ AtomicAdd(t) \/ Load(t) \/ Store(t) \/ Suspend(t)
Rmmod    == SkipError \/ KthreadStop \/ KthreadStopped \/ ExitReturn

Stopped == module \in {"unloaded", "oops"} /\ UNCHANGED vars

Next ==
  \/ Insmod \/ Tick \/ Callback
  \/ \E t \in 0 .. Cores - 1 : Run(t)
  \/ BeginExit \/ Rmmod \/ CancelTimer
  \/ Stopped

Spec == Init /\ [][Next]_vars

(***************************************************************************)
(* Fairness: insmod, rmmod and the kthreads get processor time, an armed   *)
(* timer expires, its callback runs to its end.  hrtimer_cancel spins, and *)
(* the callback does not run all the time.  Nothing starts rmmod.          *)
(***************************************************************************)
FairSpec ==
  /\ Spec
  /\ WF_vars(Insmod) /\ WF_vars(Tick) /\ WF_vars(Callback)
  /\ \A t \in 0 .. Cores - 1 : WF_vars(Run(t))
  /\ WF_vars(Rmmod) /\ SF_vars(CancelTimer)

-----------------------------------------------------------------------------
TypeOK ==
  /\ program \in AllPrograms
  /\ module \in {"loading", "live", "exiting", "unloaded", "oops"}
  /\ at \in 0 .. N /\ half \in BOOLEAN
  /\ timer \in {"off", "armed", "cancelled"} /\ waking \in -1 .. N
  /\ task_pointer \in [Threads -> {"null", "error", "valid", "freed"}]
  /\ pc \in [Threads -> {"none", "created", "enter", "check", "body", "suspended", "exited"}]
  /\ should_stop \in [Threads -> BOOLEAN]
  /\ shared_data \in Nat
  /\ iter \in [Threads -> 0 .. iters]
  /\ loaded \in [Threads -> Nat \cup {NoValue}]

\* When simple_exit returns and the module goes, its callback does not run, its timer
\* will not expire again, and none of its kthreads has an instruction left.
NothingLeft ==
  module = "unloaded" =>
    waking = -1 /\ timer # "armed" /\ In({"none", "exited"}) = Threads

\* From the return of simple_init to the start of simple_exit the callback of the
\* multi-threaded module only wakes tasks that exist, though the timer is started before
\* the first of them and cancelled after the last.
SafeWhileLive == [][program = "multiple" /\ module = "live" => module' # "oops"]_vars

\* The increments the kthreads have made: the turns of their loops.
Increments == {x \in Threads \X (0 .. iters) : x[2] < iter[x[1]]}

\* The atomic counter loses no increment.
AtomicTotal == program = "atomic_race" => shared_data = Cardinality(Increments)

\* The volatile counter may lose all but two increments, never more, and gains none.
RaceBounds ==
  program = "race" /\ module = "unloaded" /\ (\E t \in Threads : iter[t] >= 2) =>
    shared_data \in 2 .. Cardinality(Increments)

\* What rmmod prints of either counter.
Totals == AtomicTotal /\ RaceBounds

\* A monitoring kthread that has suspended itself is woken up again.
KeepsMonitoring ==
  \A t \in 0 .. Cores - 1 :
    (Timed /\ module = "live" /\ t \in In({"suspended"}))
      ~> (module # "live" \/ t \in In({"check"}))

\* rmmod of a monitoring module ends, even when kthread_stop wakes a kthread that has
\* passed its check but has not suspended itself yet: the next tick wakes it again.
ExitReturns == (Timed /\ module = "exiting") ~> (module \in {"unloaded", "oops"})

\* "stop kernel thread": rmmod of a module without a timer ends, too.
StopReturns == (~Timed /\ module = "exiting") ~> (module \in {"unloaded", "oops"})

=============================================================================
