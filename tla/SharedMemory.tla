---------------------------- MODULE SharedMemory ----------------------------
(***************************************************************************)
(* leader.c and follower.c of studio13: processes that hand an array over  *)
(* in a named shared memory region, by way of three guard variables they   *)
(* spin on.                                                                *)
(*                                                                         *)
(* Any number of leaders and followers may be started, at any time; each   *)
(* may fail, or be killed, at any point, and what it has done to the       *)
(* region stays.  A region outlives its name for those who have mapped it. *)
(* srand(3) makes every leader write the same numbers, so a part of the    *)
(* array is either still zero or written.                                  *)
(*                                                                         *)
(* The guards are volatile but nothing orders them with the array.  On an  *)
(* "ordered" memory stores become visible in program order; on a "weak"    *)
(* one, such as the ARM of a Raspberry Pi, a store to the array may become *)
(* visible after a later store to a guard.                                 *)
(***************************************************************************)
EXTENDS Integers, Functions

CONSTANTS Memories,             \* the memories to run on: "ordered", "weak"
          Leaders, Followers,   \* the processes, each started at most once
          Regions,              \* bound: the regions that may be created
          shared_mem_size       \* bound: the parts of data[] (1000000 in the code)

ASSUME MemoryAssumption == Memories \subseteq {"ordered", "weak"}
ASSUME ProcessAssumption == Leaders \cap Followers = {}
ASSUME SizeAssumption == shared_mem_size \in Nat

VARIABLES
  memory,        \* the memory of the machine
  name,          \* the region shared_mem_name stands for, or NoRegion
  sized,         \* the regions ftruncate has given their size
  write_guard, read_guard, delete_guard,   \* per region
  data,          \* the parts of data[] that are visibly written, per region
  pending,       \* the parts whose stores are not visible yet, per leader
  pc,            \* where each process is
  shared,        \* the region each process has opened
  copied,        \* parts memcpy has passed, per process
  array          \* the parts of data[] each follower has found written

guards == <<write_guard, read_guard, delete_guard>>
local  == <<shared, copied, array>>
stored == <<memory, data, pending>>
vars   == <<name, sized, guards, stored, pc, local>>

NoRegion  == 0
Processes == Leaders \cup Followers
Parts     == 1 .. shared_mem_size

Goto(p, point) == pc' = [pc EXCEPT ![p] = point]

Step(p, from, to) == pc[p] = from /\ Goto(p, to)

Of(p, guard) == guard[shared[p]]
Set(p, guard, value) == [guard EXCEPT ![shared[p]] = value]

\* Touching a region that has no size yet is a SIGBUS.
Sized(p) == shared[p] \in sized

\* Has memcpy something left to copy?  OnePartMore is off by one.
OnePartMore(p) == copied[p] <= shared_mem_size
PartsLeft(p)   == copied[p] < shared_mem_size

Init ==
  /\ memory \in Memories
  /\ name = NoRegion /\ sized = {}
  /\ write_guard = [r \in Regions |-> 0]
  /\ read_guard = [r \in Regions |-> 0]
  /\ delete_guard = [r \in Regions |-> 0]
  /\ data = [r \in Regions |-> {}]
  /\ pending = [l \in Leaders |-> {}]
  /\ pc = [p \in Processes |-> "start"]
  /\ shared = [p \in Processes |-> NoRegion]
  /\ copied = [p \in Processes |-> 0]
  /\ array = [f \in Followers |-> {}]

-----------------------------------------------------------------------------
(* leader.c                                                                *)

\* shm_open with O_CREAT: the region of that name, or a new and empty one.
Create(l) ==
  /\ Step(l, "start", "truncate")
  /\ \E r \in Regions :
       /\ IF name = NoRegion THEN r \notin Range(shared) ELSE r = name
       /\ name' = r
       /\ shared' = [shared EXCEPT ![l] = r]
  /\ UNCHANGED <<sized, guards, stored, copied, array>>

\* ftruncate, and mmap.  A region that has its size keeps what is in it.
Truncate(l) ==
  /\ Step(l, "truncate", "init")
  /\ sized' = sized \cup {shared[l]}
  /\ UNCHANGED <<name, guards, stored, local>>

\* Of the guards of an old region only write_guard is set to 0.
InitGuard(l) ==
  /\ Step(l, "init", "await follower")
  /\ write_guard' = Set(l, write_guard, 0)
  /\ UNCHANGED <<name, sized, read_guard, delete_guard, stored, local>>

SeeFollower(l) ==
  /\ Step(l, "await follower", "write")
  /\ Of(l, write_guard) # 0
  /\ UNCHANGED <<name, sized, guards, stored, local>>

\* One part of memcpy.
WritePart(l) ==
  /\ pc[l] = "write" /\ PartsLeft(l)
  /\ copied' = [copied EXCEPT ![l] = @ + 1]
  /\ IF memory = "weak"
     THEN pending' = [pending EXCEPT ![l] = @ \cup {copied'[l]}] /\ UNCHANGED data
     ELSE data' = Set(l, data, Of(l, data) \cup {copied'[l]}) /\ UNCHANGED pending
  /\ UNCHANGED <<memory, name, sized, guards, pc, shared, array>>

\* A store becomes visible, even if the leader has gone meanwhile.
Drain(l) ==
  /\ \E part \in pending[l] :
       /\ pending' = [pending EXCEPT ![l] = @ \ {part}]
       /\ data' = Set(l, data, Of(l, data) \cup {part})
  /\ UNCHANGED <<memory, name, sized, guards, pc, local>>

\* When the leader sets read_guard; TooEarly does not wait for memcpy, PastEnd
\* waits for more than memcpy does.
TooEarly(l) == TRUE
PastEnd(l)  == copied[l] > shared_mem_size
Written(l)  == copied[l] = shared_mem_size

NotifyReader(l) ==
  /\ Written(l)
  /\ Step(l, "write", "await reader")
  /\ read_guard' = Set(l, read_guard, 1)
  /\ UNCHANGED <<name, sized, write_guard, delete_guard, stored, local>>

SeeReader(l) ==
  /\ Step(l, "await reader", "unlink")
  /\ Of(l, delete_guard) # 0
  /\ UNCHANGED <<name, sized, guards, stored, local>>

\* shm_unlink removes the name, whichever region it stands for by now.
Unlink(l) ==
  /\ Step(l, "unlink", "done")
  /\ name' = NoRegion
  /\ UNCHANGED <<sized, guards, stored, local>>

-----------------------------------------------------------------------------
(* follower.c                                                              *)

\* shm_open without O_CREAT: mmap fails if there is no region of that name.
Open(f) ==
  /\ IF name = NoRegion
     THEN Step(f, "start", "failed") /\ UNCHANGED shared
     ELSE Step(f, "start", "signal") /\ shared' = [shared EXCEPT ![f] = name]
  /\ UNCHANGED <<name, sized, guards, stored, copied, array>>

Signal(f) ==
  /\ IF Sized(f)
     THEN Step(f, "signal", "await data") /\ write_guard' = Set(f, write_guard, 1)
     ELSE Step(f, "signal", "failed") /\ UNCHANGED write_guard
  /\ UNCHANGED <<name, sized, read_guard, delete_guard, stored, local>>

SeeData(f) ==
  /\ Step(f, "await data", "read")
  /\ Of(f, read_guard) # 0
  /\ UNCHANGED <<name, sized, guards, stored, local>>

ReadPart(f) ==
  /\ pc[f] = "read" /\ PartsLeft(f)
  /\ copied' = [copied EXCEPT ![f] = @ + 1]
  /\ array' = [array EXCEPT ![f] = @ \cup ({copied'[f]} \cap Of(f, data))]
  /\ UNCHANGED <<name, sized, guards, stored, pc, shared>>

NotifyDelete(f) ==
  /\ copied[f] = shared_mem_size
  /\ Step(f, "read", "done")
  /\ delete_guard' = Set(f, delete_guard, 1)
  /\ UNCHANGED <<name, sized, write_guard, read_guard, stored, local>>

-----------------------------------------------------------------------------
\* mmap or malloc fails, or the process is killed.
Fail(p) ==
  /\ pc[p] \notin {"start", "done", "failed"}
  /\ Goto(p, "failed")
  /\ UNCHANGED <<name, sized, guards, stored, local>>

Leader(l) ==
  \/ Create(l) \/ Truncate(l) \/ InitGuard(l) \/ SeeFollower(l)
  \/ WritePart(l) \/ NotifyReader(l) \/ SeeReader(l) \/ Unlink(l)

Follower(f) ==
  Open(f) \/ Signal(f) \/ SeeData(f) \/ ReadPart(f) \/ NotifyDelete(f)

Next ==
  \/ \E l \in Leaders : Leader(l) \/ Drain(l)
  \/ \E f \in Followers : Follower(f)
  \/ \E p \in Processes : Fail(p)

Spec == Init /\ [][Next]_vars

\* Every process that has been started gets processor time.
FairSpec ==
  /\ Spec
  /\ \A l \in Leaders : WF_vars(pc[l] # "start" /\ Leader(l))
  /\ \A f \in Followers : WF_vars(pc[f] # "start" /\ Follower(f))

-----------------------------------------------------------------------------
LeaderPoints   == {"truncate", "init", "await follower", "write", "await reader", "unlink"}
FollowerPoints == {"signal", "await data", "read"}

TypeOK ==
  /\ memory \in {"ordered", "weak"}
  /\ name \in Regions \cup {NoRegion}
  /\ sized \subseteq Regions
  /\ write_guard \in [Regions -> {0, 1}]
  /\ read_guard \in [Regions -> {0, 1}] /\ delete_guard \in [Regions -> {0, 1}]
  /\ data \in [Regions -> SUBSET Parts] /\ pending \in [Leaders -> SUBSET Parts]
  /\ pc \in [Processes -> {"start", "done", "failed"} \cup LeaderPoints \cup FollowerPoints]
  /\ shared \in [Processes -> Regions \cup {NoRegion}]
  /\ copied \in [Processes -> 0 .. shared_mem_size]
  /\ array \in [Followers -> SUBSET Parts]

\* While stores are seen in order, a follower never copies a part of the array that no
\* leader has written, whatever has happened to the region before and whoever has been
\* killed meanwhile.
WholeArray ==
  memory = "ordered" =>
    \A f \in Followers : pc[f] \in {"read", "done"} => array[f] = 1 .. copied[f]

Together(l, f) == shared[l] # NoRegion /\ shared[l] = shared[f]

Ended(l, f) == (pc[l] = "done" /\ pc[f] = "done") \/ "failed" \in {pc[l], pc[f]}

\* A follower that notifies a leader already waiting for it gets the data and lets the
\* leader go, unless one of them fails or another leader starts on the same region.
HandOver ==
  \A l \in Leaders, f \in Followers :
    (Together(l, f) /\ pc[l] = "await follower" /\ pc[f] = "signal")
      ~> (Ended(l, f) \/ \E k \in Leaders \ {l} : Together(k, f) /\ pc[k] = "init")

\* "The follower is created, notifies the leader to start writing, and waits for the
\* data": a follower that has notified a leader gets the data, unless one of them fails.
NotificationArrives ==
  \A l \in Leaders, f \in Followers :
    (Together(l, f) /\ pc[f] = "await data") ~> Ended(l, f)

=============================================================================
