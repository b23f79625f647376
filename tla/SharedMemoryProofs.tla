------------------------- MODULE SharedMemoryProofs -------------------------
(***************************************************************************)
(* Theorems about SharedMemory, for every set of leaders, followers and    *)
(* regions, and every size of the array.  A follower copies only whole     *)
(* arrays on ordered memory although the guards of a region survive the    *)
(* processes that set them: read_guard is set after the last part has been *)
(* written, no part is ever unwritten, and so the guard of a region stays  *)
(* true of it for ever.                                                    *)
(***************************************************************************)
EXTENDS SharedMemory, TLAPS

-----------------------------------------------------------------------------
(* Types.                                                                  *)

LEMMA InitType == Init => TypeOK
  BY MemoryAssumption, SizeAssumption DEF Init, TypeOK, Parts

\* How far each process has got; without it a step could touch no region.
ProgressInv ==
  /\ \A l \in Leaders : pc[l] \in {"start", "truncate", "init", "await follower"} => copied[l] = 0
  /\ \A l \in Leaders : pc[l] \in LeaderPoints => shared[l] \in Regions
  /\ \A f \in Followers : pc[f] \in {"start", "signal", "await data"} =>
       copied[f] = 0 /\ array[f] = {}
  /\ \A f \in Followers : pc[f] \in FollowerPoints \cup {"done"} => shared[f] \in Regions

\* There is room for one more part.
LEMMA OnePart ==
  ASSUME TypeOK, NEW p \in Processes, PartsLeft(p)
  PROVE  /\ copied[p] \in Nat /\ copied[p] + 1 \in Parts
         /\ copied[p] + 1 \in 0 .. shared_mem_size
<1>1. copied[p] \in 0 .. shared_mem_size /\ copied[p] < shared_mem_size
  BY DEF TypeOK, PartsLeft
<1> QED
  BY <1>1, SizeAssumption DEF Parts

LEMMA LeaderType ==
  ASSUME TypeOK, ProgressInv, NEW l \in Leaders, Leader(l) \/ Drain(l)
  PROVE  TypeOK'
<1> l \in Processes
  BY DEF Processes
<1> USE SizeAssumption DEF TypeOK, Step, Goto, Set, Of, LeaderPoints, guards, local, stored
<1>1. CASE Create(l)
  BY <1>1 DEF Create
<1>2. CASE Truncate(l)
  BY <1>2 DEF Truncate, ProgressInv
<1>3. CASE InitGuard(l)
  BY <1>3 DEF InitGuard
<1>4. CASE SeeFollower(l)
  BY <1>4 DEF SeeFollower
<1>5. CASE WritePart(l)
  <2>1. copied[l] + 1 \in 0 .. shared_mem_size /\ copied[l] + 1 \in Parts
    BY <1>5, OnePart DEF WritePart
  <2>2. copied' \in [Processes -> 0 .. shared_mem_size] /\ copied'[l] \in Parts
    BY <1>5, <2>1 DEF WritePart
  <2>3. CASE memory = "weak"
    <3>1. pending' = [pending EXCEPT ![l] = pending[l] \cup {copied'[l]}]
      BY <1>5, <2>3 DEF WritePart
    <3>2. pending' \in [Leaders -> SUBSET Parts]
      BY <2>2, <3>1
    <3> QED
      BY <1>5, <2>2, <2>3, <3>2 DEF WritePart
  <2>4. CASE memory # "weak"
    <3>1. data' = [data EXCEPT ![shared[l]] = data[shared[l]] \cup {copied'[l]}]
      BY <1>5, <2>4 DEF WritePart
    <3>2. data' \in [Regions -> SUBSET Parts]
      BY <2>2, <3>1
    <3> QED
      BY <1>5, <2>2, <2>4, <3>2 DEF WritePart
  <2> QED
    BY <2>3, <2>4
<1>6. CASE NotifyReader(l)
  BY <1>6 DEF NotifyReader
<1>7. CASE SeeReader(l)
  BY <1>7 DEF SeeReader
<1>8. CASE Unlink(l)
  BY <1>8 DEF Unlink
<1>9. CASE Drain(l)
  <2>1. PICK part \in pending[l] :
               /\ pending' = [pending EXCEPT ![l] = @ \ {part}]
               /\ data' = [data EXCEPT ![shared[l]] = data[shared[l]] \cup {part}]
    BY <1>9 DEF Drain
  <2>2. part \in Parts
    OBVIOUS
  <2>3. data' \in [Regions -> SUBSET Parts] /\ pending' \in [Leaders -> SUBSET Parts]
    BY <2>1, <2>2
  <2> QED
    BY <1>9, <2>3 DEF Drain
<1> QED
  BY <1>1, <1>2, <1>3, <1>4, <1>5, <1>6, <1>7, <1>8, <1>9 DEF Leader

LEMMA FollowerType ==
  ASSUME TypeOK, ProgressInv, NEW f \in Followers, Follower(f)
  PROVE  TypeOK'
<1> f \in Processes
  BY DEF Processes
<1> USE SizeAssumption DEF TypeOK, Step, Goto, Set, Of, FollowerPoints, guards, local, stored
<1>1. CASE Open(f)
  BY <1>1 DEF Open
<1>2. CASE Signal(f)
  BY <1>2 DEF Signal
<1>3. CASE SeeData(f)
  BY <1>3 DEF SeeData
<1>4. CASE ReadPart(f)
  <2>1. copied[f] + 1 \in 0 .. shared_mem_size /\ copied[f] + 1 \in Parts
    BY <1>4, OnePart DEF ReadPart
  <2>2. copied' \in [Processes -> 0 .. shared_mem_size] /\ copied'[f] \in Parts
    BY <1>4, <2>1 DEF ReadPart
  <2>3. array' \in [Followers -> SUBSET Parts]
    <3>1. array[f] \cup ({copied'[f]} \cap Of(f, data)) \in SUBSET Parts
      BY <2>2
    <3> HIDE DEF Of
    <3> QED
      BY <1>4, <3>1 DEF ReadPart
  <2> QED
    BY <1>4, <2>2, <2>3 DEF ReadPart
<1>5. CASE NotifyDelete(f)
  BY <1>5 DEF NotifyDelete
<1> QED
  BY <1>1, <1>2, <1>3, <1>4, <1>5 DEF Follower

LEMMA NextType == TypeOK /\ ProgressInv /\ [Next]_vars => TypeOK'
<1> SUFFICES ASSUME TypeOK, ProgressInv, [Next]_vars PROVE TypeOK'
  OBVIOUS
<1>1. ASSUME NEW p \in Processes, Fail(p) PROVE TypeOK'
  BY <1>1 DEF Fail, TypeOK, Goto, guards, local, stored
<1>2. CASE UNCHANGED vars
  BY <1>2 DEF vars, TypeOK, guards, local, stored
<1> QED
  BY <1>1, <1>2, LeaderType, FollowerType DEF Next

-----------------------------------------------------------------------------
(* Whole arrays.                                                           *)

\* What the guard of a region, and a place in the code, say about its array.
DataInv ==
  /\ \A l \in Leaders : pending[l] = {}
  /\ \A l \in Leaders : pc[l] = "write" => 1 .. copied[l] \subseteq data[shared[l]]
  /\ \A r \in Regions : read_guard[r] # 0 => data[r] = Parts
  /\ \A f \in Followers : pc[f] \in {"read", "done"} =>
       read_guard[shared[f]] # 0 /\ array[f] = 1 .. copied[f]

WholeInv == TypeOK /\ ProgressInv /\ (memory = "ordered" => DataInv)

LEMMA InitWhole == Init => WholeInv
<1> SUFFICES ASSUME Init PROVE WholeInv
  OBVIOUS
<1>1. TypeOK
  BY InitType
<1>2. ProgressInv
  BY DEF Init, ProgressInv, Processes, LeaderPoints, FollowerPoints
<1>3. DataInv
  BY DEF Init, DataInv, Processes
<1> QED
  BY <1>1, <1>2, <1>3 DEF WholeInv

LEMMA LeaderWhole ==
  ASSUME WholeInv, NEW l \in Leaders, Leader(l) \/ Drain(l)
  PROVE  WholeInv'
<1>1. TypeOK /\ TypeOK' /\ ProgressInv /\ (memory = "ordered" => DataInv) /\ l \in Processes
  BY LeaderType DEF WholeInv, Processes
<1>2. \A p \in Processes \ {l} : pc'[p] = pc[p] /\ shared'[p] = shared[p] /\ copied'[p] = copied[p]
  BY <1>1 DEF TypeOK, Leader, Create, Truncate, InitGuard, SeeFollower, WritePart, NotifyReader,
              SeeReader, Unlink, Drain, Step, Goto, local, stored, guards
<1>3. memory' = memory /\ array' = array
  BY DEF Leader, Create, Truncate, InitGuard, SeeFollower, WritePart, NotifyReader,
              SeeReader, Unlink, Drain, local, stored
<1>4. \A k \in Leaders : k \in Processes
  BY DEF Processes
<1>5. \A f \in Followers : f \in Processes \ {l}
  BY ProcessAssumption DEF Processes
<1> USE DEF Step, Goto, LeaderPoints, FollowerPoints, guards, local, stored
<1>6. ProgressInv'
  <2>1. \A f \in Followers : pc'[f] = pc[f] /\ shared'[f] = shared[f] /\ copied'[f] = copied[f]
    BY <1>2, <1>5
  <2>2. pc'[l] \in {"start", "truncate", "init", "await follower"} => copied'[l] = 0
    BY <1>1 DEF TypeOK, ProgressInv, Leader, Create, Truncate, InitGuard, SeeFollower, WritePart,
                NotifyReader, SeeReader, Unlink, Drain
  <2>3. pc'[l] \in LeaderPoints => shared'[l] \in Regions
    BY <1>1 DEF TypeOK, ProgressInv, Leader, Create, Truncate, InitGuard, SeeFollower, WritePart,
                NotifyReader, SeeReader, Unlink, Drain
  <2> QED
    BY <1>1, <1>2, <1>3, <1>4, <2>1, <2>2, <2>3 DEF ProgressInv
<1>7. ASSUME memory = "ordered" PROVE DataInv'
  <2>1. DataInv
    BY <1>1, <1>7
  <2>2. ASSUME UNCHANGED <<data, pending, read_guard>>,
               pc'[l] = "write" => 1 .. copied'[l] \subseteq data[shared'[l]]
        PROVE  DataInv'
    BY <1>2, <1>3, <1>4, <1>5, <2>1, <2>2 DEF DataInv
  <2>3. CASE Create(l) \/ Truncate(l) \/ InitGuard(l) \/ SeeReader(l) \/ Unlink(l)
    BY <1>1, <2>2, <2>3 DEF TypeOK, Create, Truncate, InitGuard, SeeReader, Unlink
  <2>4. CASE SeeFollower(l)
    <3>1. copied'[l] = 0 /\ shared' = shared
      BY <1>1, <2>4 DEF SeeFollower, ProgressInv
    <3>2. 1 .. copied'[l] \subseteq data[shared'[l]]
      BY <3>1
    <3> QED
      BY <2>2, <2>4, <3>2 DEF SeeFollower
  <2>5. CASE WritePart(l)
    <3>1. /\ data' = Set(l, data, Of(l, data) \cup {copied'[l]})
          /\ UNCHANGED <<pending, read_guard, pc, shared>>
      BY <1>7, <2>5 DEF WritePart
    <3>2. copied[l] \in Nat /\ copied'[l] = copied[l] + 1 /\ copied'[l] \in Parts
      <4>1. copied'[l] = copied[l] + 1
        BY <1>1, <2>5 DEF WritePart, TypeOK
      <4> QED
        BY <1>1, <2>5, <4>1, OnePart DEF WritePart
    <3>3. shared[l] \in Regions /\ 1 .. copied[l] \subseteq data[shared[l]]
      BY <1>1, <2>1, <2>5 DEF WritePart, ProgressInv, DataInv
    <3>4. /\ data'[shared[l]] = data[shared[l]] \cup {copied'[l]}
          /\ \A r \in Regions : data[r] \subseteq data'[r] /\ data'[r] \subseteq Parts
      BY <1>1, <3>1, <3>2, <3>3 DEF TypeOK, Set, Of
    <3>5. 1 .. copied'[l] \subseteq data'[shared'[l]]
      <4>1. 1 .. copied'[l] = 1 .. copied[l] \cup {copied'[l]}
        BY <3>2
      <4> QED
        BY <3>1, <3>3, <3>4, <4>1
    <3>6. \A k \in Leaders \ {l} : pc[k] = "write" => 1 .. copied'[k] \subseteq data'[shared'[k]]
      <4>1. SUFFICES ASSUME NEW k \in Leaders \ {l}, pc[k] = "write"
                     PROVE  1 .. copied'[k] \subseteq data'[shared'[k]]
        OBVIOUS
      <4>2. shared[k] \in Regions /\ 1 .. copied[k] \subseteq data[shared[k]]
        BY <1>1, <2>1, <4>1 DEF ProgressInv, DataInv
      <4> QED
        BY <1>2, <1>4, <3>1, <3>4, <4>2
    <3>7. \A r \in Regions : read_guard[r] # 0 => data'[r] = Parts
      <4>1. SUFFICES ASSUME NEW r \in Regions, read_guard[r] # 0 PROVE data'[r] = Parts
        OBVIOUS
      <4>2. data[r] = Parts
        BY <2>1, <4>1 DEF DataInv
      <4> QED
        BY <3>4, <4>2
    <3>8. \A f \in Followers : copied'[f] = copied[f]
      BY <1>2, <1>5
    <3> QED
      BY <1>3, <2>1, <3>1, <3>5, <3>6, <3>7, <3>8 DEF DataInv
  <2>6. CASE NotifyReader(l)
    <3>1. UNCHANGED <<data, pending, shared, copied>> /\ pc'[l] = "await reader"
      BY <1>1, <2>6 DEF NotifyReader, TypeOK
    <3>2. shared[l] \in Regions /\ data[shared[l]] = Parts
      <4>1. 1 .. copied[l] \subseteq data[shared[l]] /\ copied[l] = shared_mem_size
        BY <2>1, <2>6 DEF NotifyReader, Written, DataInv
      <4>2. shared[l] \in Regions
        BY <1>1, <2>6 DEF NotifyReader, ProgressInv
      <4> QED
        BY <1>1, <4>1, <4>2 DEF Parts, TypeOK
    <3>3. read_guard' = [read_guard EXCEPT ![shared[l]] = 1] /\ read_guard \in [Regions -> {0, 1}]
      BY <1>1, <2>6 DEF NotifyReader, Set, TypeOK
    <3>4. \A r \in Regions : read_guard'[r] # 0 => data[r] = Parts
      BY <2>1, <3>2, <3>3 DEF DataInv
    <3>5. \A f \in Followers : pc[f] \in {"read", "done"} =>
            read_guard'[shared[f]] # 0 /\ array[f] = 1 .. copied[f]
      <4>1. SUFFICES ASSUME NEW f \in Followers, pc[f] \in {"read", "done"}
                     PROVE  read_guard'[shared[f]] # 0 /\ array[f] = 1 .. copied[f]
        OBVIOUS
      <4>2. /\ shared[f] \in Regions /\ read_guard[shared[f]] # 0
            /\ array[f] = 1 .. copied[f]
        BY <1>1, <2>1, <4>1 DEF DataInv, ProgressInv
      <4> QED
        BY <3>3, <4>2
    <3> QED
      BY <1>2, <1>3, <1>4, <1>5, <2>1, <3>1, <3>4, <3>5 DEF DataInv
  <2>7. CASE Drain(l)
    BY <2>1, <2>7 DEF Drain, DataInv
  <2> QED
    BY <2>3, <2>4, <2>5, <2>6, <2>7 DEF Leader
<1> QED
  BY <1>1, <1>3, <1>6, <1>7 DEF WholeInv

LEMMA FollowerWhole ==
  ASSUME WholeInv, NEW f \in Followers, Follower(f)
  PROVE  WholeInv'
<1>1. TypeOK /\ TypeOK' /\ ProgressInv /\ (memory = "ordered" => DataInv) /\ f \in Processes
  BY FollowerType DEF WholeInv, Processes
<1> USE DEF Step, Goto, LeaderPoints, FollowerPoints, guards, local, stored
<1>2. /\ UNCHANGED <<memory, data, pending, read_guard>>
      /\ \A p \in Processes \ {f} : pc'[p] = pc[p] /\ shared'[p] = shared[p] /\ copied'[p] = copied[p]
      /\ \A g \in Followers \ {f} : array'[g] = array[g]
  BY <1>1 DEF TypeOK, Follower, Open, Signal, SeeData, ReadPart, NotifyDelete
<1>3. \A l \in Leaders : l \in Processes \ {f}
  BY ProcessAssumption DEF Processes
<1>4. \A g \in Followers : g \in Processes
  BY DEF Processes
<1>5. ProgressInv'
  <2>1. \A l \in Leaders : pc'[l] = pc[l] /\ shared'[l] = shared[l] /\ copied'[l] = copied[l]
    BY <1>2, <1>3
  <2>2. pc'[f] \in {"start", "signal", "await data"} => copied'[f] = 0 /\ array'[f] = {}
    BY <1>1 DEF TypeOK, ProgressInv, Follower, Open, Signal, SeeData, ReadPart, NotifyDelete
  <2>3. pc'[f] \in FollowerPoints \cup {"done"} => shared'[f] \in Regions
    BY <1>1 DEF TypeOK, ProgressInv, Follower, Open, Signal, SeeData, ReadPart, NotifyDelete
  <2> QED
    BY <1>1, <1>2, <1>4, <2>1, <2>2, <2>3 DEF ProgressInv
<1>6. ASSUME memory = "ordered" PROVE DataInv'
  <2>1. DataInv
    BY <1>1, <1>6
  <2>2. pc'[f] \in {"read", "done"} => read_guard[shared'[f]] # 0 /\ array'[f] = 1 .. copied'[f]
    <3>1. CASE Open(f) \/ Signal(f)
      BY <1>1, <3>1 DEF Open, Signal, TypeOK
    <3>2. CASE SeeData(f)
      <4>1. copied[f] = 0 /\ array[f] = {} /\ read_guard[shared[f]] # 0
        BY <1>1, <3>2 DEF SeeData, Of, ProgressInv
      <4>2. array[f] = 1 .. copied[f]
        BY <4>1
      <4> QED
        BY <3>2, <4>1, <4>2 DEF SeeData
    <3>3. CASE ReadPart(f)
      <4>1. /\ shared[f] \in Regions /\ data[shared[f]] = Parts
            /\ read_guard[shared[f]] # 0 /\ array[f] = 1 .. copied[f]
        BY <1>1, <2>1, <3>3 DEF ReadPart, DataInv, ProgressInv
      <4>2. copied[f] \in Nat /\ copied'[f] = copied[f] + 1 /\ copied'[f] \in Parts
        <5>1. copied'[f] = copied[f] + 1
          BY <1>1, <3>3 DEF ReadPart, TypeOK
        <5> QED
          BY <1>1, <3>3, <5>1, OnePart DEF ReadPart
      <4>3. array'[f] = array[f] \cup {copied'[f]} /\ shared' = shared
        <5>1. shared' = shared
          BY <3>3 DEF ReadPart
        <5>2. array \in [Followers -> SUBSET Parts]
          BY <1>1 DEF TypeOK
        <5>3. array'[f] = array[f] \cup ({copied'[f]} \cap Of(f, data))
          BY <3>3, <5>2 DEF ReadPart
        <5>4. {copied'[f]} \cap Of(f, data) = {copied'[f]}
          BY <4>1, <4>2 DEF Of
        <5> QED
          BY <5>1, <5>3, <5>4
      <4>4. (1 .. copied[f]) \cup {copied[f] + 1} = 1 .. copied[f] + 1
        BY <4>2
      <4>5. array'[f] = 1 .. copied'[f]
        BY <4>1, <4>2, <4>3, <4>4
      <4> QED
        BY <4>1, <4>3, <4>5
    <3>4. CASE NotifyDelete(f)
      BY <2>1, <3>4 DEF NotifyDelete, DataInv
    <3> QED
      BY <3>1, <3>2, <3>3, <3>4 DEF Follower
  <2> QED
    BY <1>2, <1>3, <1>4, <2>1, <2>2 DEF DataInv
<1> QED
  BY <1>1, <1>2, <1>5, <1>6 DEF WholeInv

LEMMA NextWhole == WholeInv /\ [Next]_vars => WholeInv'
<1> SUFFICES ASSUME WholeInv, [Next]_vars PROVE WholeInv'
  OBVIOUS
<1>1. TypeOK'
  BY NextType DEF WholeInv
<1>2. ASSUME NEW p \in Processes, Fail(p) PROVE WholeInv'
  <2>1. /\ UNCHANGED <<memory, data, pending, read_guard, shared, copied, array>>
        /\ \A q \in Processes : pc'[q] = pc[q] \/ pc'[q] = "failed"
    BY <1>2 DEF Fail, Goto, WholeInv, TypeOK, guards, local, stored
  <2>2. (\A l \in Leaders : l \in Processes) /\ (\A f \in Followers : f \in Processes)
    BY DEF Processes
  <2>3. ProgressInv'
    BY <2>1, <2>2 DEF WholeInv, ProgressInv, LeaderPoints, FollowerPoints
  <2>4. memory = "ordered" => DataInv'
    BY <2>1, <2>2 DEF WholeInv, DataInv
  <2> QED
    BY <1>1, <2>1, <2>3, <2>4 DEF WholeInv
<1>3. CASE UNCHANGED vars
  BY <1>1, <1>3 DEF vars, WholeInv, ProgressInv, DataInv, guards, local, stored
<1> QED
  BY <1>2, <1>3, LeaderWhole, FollowerWhole DEF Next

LEMMA WholeInvariant == Spec => []WholeInv
  BY InitWhole, NextWhole, PTL DEF Spec

\* Every variable of leader.c and follower.c keeps its type.
THEOREM TypeCorrect == Spec => []TypeOK
<1>1. WholeInv => TypeOK
  BY DEF WholeInv
<1> QED
  BY <1>1, WholeInvariant, PTL

\* On ordered memory a follower never copies a part of the array that no leader
\* has written, for any number of processes, restarts and regions: the handshake
\* of leader.c and follower.c is safe although a killed process leaves its guards.
THEOREM WholeArrayCopied == Spec => []WholeArray
<1>1. WholeInv => WholeArray
  BY DEF WholeInv, DataInv, WholeArray
<1> QED
  BY <1>1, WholeInvariant, PTL

=============================================================================
