---------------------------- MODULE PagingProofs ----------------------------
(***************************************************************************)
(* Theorems about Paging, for every number of threads, pages and mappings. *)
(*                                                                         *)
(* VMAInv is about VMAs, tracers and references: whoever runs, the VMAs of *)
(* a mapping are disjoint, are counted, and cover the faults under way.    *)
(* PageInv is about pages: each belongs to one mapping, by way of the page *)
(* table, the array of the tracer, or a fault.  MirrorInv relates table    *)
(* and array of a mapping that is in one piece.  CounterInv finds the set  *)
(* of pages whose size is the difference of the two counters, and OwnerInv *)
(* says who will give a held page back.                                    *)
(***************************************************************************)
EXTENDS Paging, FiniteSetTheorems, TLAPS

VMAsOf(m) == {v \in vmas : v.mapping = m}

Covers(v, m, i) == v.mapping = m /\ v.start <= i /\ i < v.end

\* The VMAs of the process are not empty and do not overlap.
ShapeInv ==
  /\ IsFiniteSet(vmas)
  /\ \A v \in vmas : v.start < v.end
  /\ \A v, w \in vmas : v.mapping = w.mapping => v = w \/ v.end <= w.start \/ w.end <= v.start

\* What is in use has a tracer, and a fault under way has its VMA.
UseInv ==
  /\ \A v \in vmas : v.mapping \in InUse
  /\ \A t \in Threads :
       \/ fault[t] = Idle
       \/ /\ fault[t].pc # "idle"
          /\ \E v \in vmas : Covers(v, fault[t].mapping, fault[t].at)

VMAInv == TypeOK /\ ShapeInv /\ ReferencesCounted /\ UseInv

-----------------------------------------------------------------------------
\* A page table entry lies in a VMA.
CoverInv ==
  \A m \in Mappings, i \in Indices : pte[<<m, i>>] # Null => \E v \in vmas : Covers(v, m, i)

\* The page of a fault that has not mapped it yet is nobody else's.
InFlight(t) == fault[t].pc \in {"count", "remap"}

FlightInv ==
  \A t \in Threads : InFlight(t) =>
    /\ fault[t].page \in held
    /\ \A m \in Mappings, i \in Indices : pte[<<m, i>>] # fault[t].page
    /\ \A m \in InUse : \A i \in DOMAIN pages[m] : pages[m][i] # fault[t].page
    /\ \A u \in Threads : InFlight(u) /\ fault[u].page = fault[t].page => u = t

\* A fault that has mapped its page has still to record it.
RecordInv ==
  \A t \in Threads : fault[t].pc = "record" =>
    fault[t].page \in Pages /\ pte[<<fault[t].mapping, fault[t].at>>] = fault[t].page

\* The pages in the array of a tracer are held, and no other mapping has them.
ArrayInv ==
  \A m \in InUse : \A i \in DOMAIN pages[m] : pages[m][i] \in Pages =>
    /\ pages[m][i] \in held
    /\ \A k \in Mappings, j \in Indices : pte[<<k, j>>] = pages[m][i] => k = m
    /\ \A k \in InUse : \A j \in DOMAIN pages[k] : pages[k][j] = pages[m][i] => k = m

\* The array is as long as what the VMAs leave of the mapping.
LengthInv ==
  \A v \in vmas : tracer[v.mapping] = "live" => 0 .. v.end - 1 \subseteq DOMAIN pages[v.mapping]

PageInv == CoverInv /\ MappedPagesHeld /\ FlightInv /\ RecordInv /\ ArrayInv /\ LengthInv

-----------------------------------------------------------------------------
\* A mapping nobody has split has one VMA, which starts where the array does.
WholeInv ==
  "split" \notin mishaps =>
    /\ \A v, w \in vmas : v.mapping = w.mapping => v = w
    /\ \A v \in vmas : /\ v.start = 0
                       /\ tracer[v.mapping] = "live" =>
                            DOMAIN pages[v.mapping] = 0 .. v.end - 1
    /\ \A t \in Threads : fault[t].offset = fault[t].at

MirrorInv == WholeInv /\ ArrayMirrorsTable

-----------------------------------------------------------------------------
(* Records of the faults.                                                  *)

Faults == [pc : {"idle", "alloc", "count", "remap", "record"}, mapping : 0 .. MaxMappings,
           at : Indices, offset : Indices, page : Pages \cup {Null}]

LEMMA IdleType == Idle \in Faults
  BY BoundAssumption DEF Idle, Indices, Faults

LEMMA GoesTo ==
  ASSUME fault \in [Threads -> Faults], NEW t \in Threads,
         NEW pc \in {"count", "remap", "record"}, FaultTo(t, pc)
  PROVE  /\ fault' \in [Threads -> Faults]
         /\ fault'[t].pc = pc /\ fault'[t].page = fault[t].page
         /\ fault'[t].mapping = fault[t].mapping
         /\ fault'[t].at = fault[t].at /\ fault'[t].offset = fault[t].offset
         /\ \A u \in Threads \ {t} : fault'[u] = fault[u]
  BY DEF Faults, FaultTo

LEMMA FindsPage ==
  ASSUME fault \in [Threads -> Faults], NEW t \in Threads, NEW page \in Pages,
         fault' = [fault EXCEPT ![t].pc = "count", ![t].page = page]
  PROVE  /\ fault' \in [Threads -> Faults]
         /\ fault'[t].pc = "count" /\ fault'[t].page = page
         /\ fault'[t].mapping = fault[t].mapping
         /\ fault'[t].at = fault[t].at /\ fault'[t].offset = fault[t].offset
         /\ \A u \in Threads \ {t} : fault'[u] = fault[u]
<1> DEFINE counting == [fault EXCEPT ![t].pc = "count"]
<1>1. /\ counting \in [Threads -> Faults]
      /\ counting[t].pc = "count" /\ counting[t].mapping = fault[t].mapping
      /\ counting[t].at = fault[t].at /\ counting[t].offset = fault[t].offset
      /\ \A u \in Threads \ {t} : counting[u] = fault[u]
  BY DEF Faults
<1>2. fault' = [counting EXCEPT ![t].page = page]
  BY Zenon
<1> HIDE DEF counting
<1>3. fault' \in [Threads -> Faults]
  <2>1. fault' = [counting EXCEPT ![t] = [counting[t] EXCEPT !.page = page]]
    BY Zenon, <1>2
  <2>2. counting[t] \in Faults
    BY <1>1
  <2>3. [counting[t] EXCEPT !.page = page] \in Faults
    BY <2>2 DEF Faults
  <2> HIDE DEF Faults
  <2> QED
    BY <1>1, <2>1, <2>3
<1>4. /\ fault'[t].pc = counting[t].pc /\ fault'[t].page = page
      /\ fault'[t].mapping = counting[t].mapping
      /\ fault'[t].at = counting[t].at /\ fault'[t].offset = counting[t].offset
      /\ \A u \in Threads \ {t} : fault'[u] = counting[u]
  BY <1>1, <1>2 DEF Faults
<1> QED
  BY <1>1, <1>3, <1>4

-----------------------------------------------------------------------------
(* VMAInv                                                                  *)

LEMMA InitVMA == Init => VMAInv
<1> SUFFICES ASSUME Init PROVE VMAInv
  OBVIOUS
<1>1. Idle \in Faults
  BY IdleType
<1>2. \A S : <<>> \in [0 .. 0 - 1 -> S]
  OBVIOUS
<1>3. TypeOK
  <2>1. \A m \in Mappings : \E n \in 0 .. MaxPages :
          pages[m] \in [0 .. n - 1 -> Pages \cup {Null, Stale}]
    <3> SUFFICES ASSUME NEW m \in Mappings
                 PROVE  pages[m] \in [0 .. 0 - 1 -> Pages \cup {Null, Stale}]
      BY BoundAssumption
    <3> QED
      BY <1>2 DEF Init
  <2> QED
    BY <1>1, <2>1 DEF Init, TypeOK, VMAs, Faults
<1>4. ShapeInv /\ UseInv
  BY FS_EmptySet DEF Init, ShapeInv, UseInv
<1>5. ReferencesCounted
  BY DEF Init, ReferencesCounted, InUse
<1> QED
  BY <1>3, <1>4, <1>5 DEF VMAInv

\* A fault under way is at an address of the process.
LEMMA FaultAddress ==
  ASSUME VMAInv, NEW t \in Threads, fault[t].pc # "idle"
  PROVE  fault[t].mapping \in Mappings /\ fault[t].at \in Indices
<1>1. fault[t] # Idle
  BY DEF Idle
<1>2. PICK v \in vmas : Covers(v, fault[t].mapping, fault[t].at)
  BY <1>1 DEF VMAInv, UseInv
<1>3. fault[t].mapping \in Mappings
  BY <1>2 DEF VMAInv, TypeOK, VMAs, Covers
<1>4. fault[t].at \in Indices
  BY DEF VMAInv, TypeOK
<1> QED
  BY <1>3, <1>4

\* What does not touch VMAs, tracers and their references.
LEMMA SameVMAs ==
  ASSUME VMAInv, UNCHANGED <<vmas, tracer, counter>>
  PROVE  ShapeInv' /\ ReferencesCounted'
  BY DEF VMAInv, ShapeInv, ReferencesCounted, InUse

LEMMA ModuleVMA ==
  ASSUME VMAInv,
         WriteParameter \/ kmod_paging_exit \/ Orphaned \/ Stopped \/ UNCHANGED vars
  PROVE  VMAInv'
<1>1. UNCHANGED <<counts, state, vmas, pte, held, fault, mishaps>>
  BY DEF WriteParameter, kmod_paging_exit, Orphaned, Stopped, vars
<1>2. module' \in {"loaded", "unloaded", "corrupt"} /\ demand_paging' \in BOOLEAN
  BY DEF WriteParameter, kmod_paging_exit, Orphaned, Stopped, vars, params, VMAInv, TypeOK
<1>3. TypeOK'
  BY <1>1, <1>2 DEF VMAInv, TypeOK, counts, state
<1>4. UseInv'
  BY <1>1 DEF VMAInv, UseInv, InUse, state, Covers
<1> QED
  BY <1>1, <1>3, <1>4, SameVMAs DEF VMAInv, state

-----------------------------------------------------------------------------
\* The faults, which touch neither VMAs nor references.
LEMMA FaultKeeps ==
  ASSUME NEW t \in Threads, do_fault(t)
  PROVE  UNCHANGED <<demand_paging, free_page_counter, tracer, counter, vmas>>
  BY DEF do_fault, TakeFault, AllocPage, CountPage, RemapPage, RecordPage, params, counts, state

LEMMA TakeFaultVMA ==
  ASSUME VMAInv, NEW t \in Threads, TakeFault(t)
  PROVE  VMAInv'
<1>1. UNCHANGED <<params, counts, state, vmas, pte, held, mishaps>> /\ module = "loaded"
  BY DEF TakeFault, FaultAt
<1>2. PICK v \in vmas : \E at \in v.start .. v.end - 1 :
        fault' = [fault EXCEPT ![t] = [pc |-> "alloc", mapping |-> v.mapping, at |-> at,
                                       offset |-> Offset(v, at), page |-> Null]]
  BY DEF TakeFault
<1>3. PICK at \in v.start .. v.end - 1 :
        fault' = [fault EXCEPT ![t] = [pc |-> "alloc", mapping |-> v.mapping, at |-> at,
                                       offset |-> Offset(v, at), page |-> Null]]
  BY <1>2
<1>4. v \in VMAs
  BY DEF VMAInv, TypeOK
<1>5. at \in Indices /\ Offset(v, at) \in Indices /\ v.mapping \in 0 .. MaxMappings
  BY <1>4, BoundAssumption DEF VMAs, Indices, Offset, Mappings
<1>6. TypeOK'
  BY <1>1, <1>3, <1>5 DEF VMAInv, TypeOK, params, counts, state
<1>7. Covers(v, v.mapping, at)
  BY <1>3, <1>4 DEF Covers, VMAs
<1>8. UseInv'
  BY <1>1, <1>3, <1>7 DEF VMAInv, TypeOK, UseInv, InUse, state, Covers
<1> QED
  BY <1>1, <1>6, <1>8, SameVMAs DEF VMAInv, state

\* The steps of a fault after the first: it goes on or returns.
LEMMA GoOnVMA ==
  ASSUME VMAInv, NEW t \in Threads,
         AllocPage(t) \/ CountPage(t) \/ RemapPage(t) \/ RecordPage(t)
  PROVE  VMAInv'
<1>1. UNCHANGED <<demand_paging, free_page_counter, tracer, counter, vmas>>
  BY DEF AllocPage, CountPage, RemapPage, RecordPage, params, counts, state
<1>2. fault[t] # Idle /\ fault[t].pc # "idle"
  BY DEF AllocPage, CountPage, RemapPage, RecordPage, FaultAt, Idle
<1>3. /\ fault' \in [Threads -> Faults]
      /\ \A u \in Threads \ {t} : fault'[u] = fault[u]
      /\ \/ fault'[t] = Idle
         \/ /\ fault'[t].pc # "idle" /\ fault'[t].mapping = fault[t].mapping
            /\ fault'[t].at = fault[t].at
  <2>1. fault \in [Threads -> Faults]
    BY DEF VMAInv, TypeOK, Faults
  <2>2. CASE fault' = fault
    BY <1>2, <2>1, <2>2
  <2>3. CASE FaultReturn(t)
    BY <2>1, <2>3, IdleType DEF FaultReturn
  <2>4. CASE \E page \in Pages : fault' = [fault EXCEPT ![t].pc = "count", ![t].page = page]
    BY <2>1, <2>4, FindsPage
  <2>5. CASE FaultTo(t, "remap")
    BY <2>1, <2>5, GoesTo
  <2>6. CASE FaultTo(t, "record")
    BY <2>1, <2>6, GoesTo
  <2> QED
    BY <2>2, <2>3, <2>4, <2>5, <2>6 DEF AllocPage, CountPage, RemapPage, RecordPage
<1>4. UseInv'
  BY <1>1, <1>2, <1>3 DEF VMAInv, UseInv, InUse, Covers
<1>5. allocate_page_counter' \in Nat /\ module' \in {"loaded", "unloaded", "corrupt"}
  BY DEF AllocPage, CountPage, RemapPage, RecordPage, params, counts, VMAInv, TypeOK
<1>6. held' \subseteq Pages /\ mishaps' \subseteq {"split", "failure"}
  BY DEF AllocPage, CountPage, RemapPage, RecordPage, VMAInv, TypeOK
<1>7. pte' \in [Mappings \X Indices -> Pages \cup {Null}]
  BY DEF AllocPage, CountPage, RemapPage, RecordPage, VMAInv, TypeOK
<1>8. \A m \in Mappings : \E n \in 0 .. MaxPages :
        pages'[m] \in [0 .. n - 1 -> Pages \cup {Null, Stale}]
  <2>1. CASE pages' = pages
    BY <2>1 DEF VMAInv, TypeOK
  <2>2. CASE pages' = [pages EXCEPT ![fault[t].mapping][fault[t].offset] = fault[t].page]
    <3> SUFFICES ASSUME NEW m \in Mappings
                 PROVE  \E n \in 0 .. MaxPages :
                          pages'[m] \in [0 .. n - 1 -> Pages \cup {Null, Stale}]
      OBVIOUS
    <3>1. PICK n \in 0 .. MaxPages : pages[m] \in [0 .. n - 1 -> Pages \cup {Null, Stale}]
      BY DEF VMAInv, TypeOK
    <3>2. pages'[m] = pages[m] \/ pages'[m] = [pages[m] EXCEPT ![fault[t].offset] = fault[t].page]
      BY <2>2 DEF VMAInv, TypeOK
    <3>3. fault[t].page \in Pages \cup {Null, Stale}
      BY DEF VMAInv, TypeOK
    <3> QED
      BY <3>1, <3>2, <3>3
  <2> QED
    BY <2>1, <2>2 DEF AllocPage, CountPage, RemapPage, RecordPage, state
<1>9. DOMAIN pages' = Mappings
  BY DEF AllocPage, CountPage, RemapPage, RecordPage, state, VMAInv, TypeOK
<1>10. TypeOK'
  BY <1>1, <1>3, <1>5, <1>6, <1>7, <1>8, <1>9 DEF VMAInv, TypeOK, Faults
<1> QED
  BY <1>1, <1>4, <1>10, SameVMAs DEF VMAInv

-----------------------------------------------------------------------------
\* mmap, open and close, which come when no fault is under way.
LEMMA VMAsFinite ==
  ASSUME ShapeInv, NEW m
  PROVE  IsFiniteSet(VMAsOf(m)) /\ Cardinality(VMAsOf(m)) \in Nat
  BY FS_Subset, FS_CardinalityType DEF ShapeInv, VMAsOf

LEMMA FreshUnused ==
  ASSUME VMAInv, NEW m \in Mappings, Fresh(m)
  PROVE  m \notin InUse /\ VMAsOf(m) = {}
  BY DEF VMAInv, UseInv, InUse, VMAsOf, Fresh

LEMMA MapVMA ==
  ASSUME VMAInv, NEW m \in Mappings, Fresh(m),
         NEW n \in 1 .. MaxPages, NEW kind \in {"live", "bare"}, NEW array,
         \E k \in 0 .. MaxPages : array \in [0 .. k - 1 -> Pages \cup {Null, Stale}],
         Map(m, n, kind, array),
         allocate_page_counter' \in Nat, held' \subseteq Pages,
         pte' \in [Mappings \X Indices -> Pages \cup {Null}]
  PROVE  VMAInv'
<1> DEFINE new == [mapping |-> m, start |-> 0, end |-> n]
<1>1. /\ vmas' = vmas \cup {new}
      /\ tracer' = [tracer EXCEPT ![m] = kind]
      /\ counter' = [counter EXCEPT ![m] = 1]
      /\ pages' = [pages EXCEPT ![m] = array]
      /\ UNCHANGED <<params, free_page_counter, fault, mishaps>>
  BY DEF Map
<1>2. new \in VMAs
  BY BoundAssumption DEF VMAs
<1>3. TypeOK'
  BY <1>1, <1>2 DEF VMAInv, TypeOK, params
<1>4. InUse' = InUse \cup {m}
  BY <1>1 DEF VMAInv, TypeOK, InUse
<1>5. m \notin InUse /\ VMAsOf(m) = {}
  BY FreshUnused
<1>6. ShapeInv'
  <2>1. IsFiniteSet(vmas')
    BY <1>1, FS_AddElement DEF VMAInv, ShapeInv
  <2> QED
    BY <1>1, <1>5, <2>1 DEF VMAInv, ShapeInv, VMAsOf
<1>7. ReferencesCounted'
  <2> SUFFICES ASSUME NEW k \in InUse'
               PROVE  counter'[k] = Cardinality(VMAsOf(k)')
    BY DEF ReferencesCounted, VMAsOf
  <2>1. CASE k = m
    <3>1. VMAsOf(m)' = {new}
      BY <1>1, <1>5 DEF VMAsOf
    <3>2. counter'[m] = 1
      BY <1>1 DEF VMAInv, TypeOK
    <3> QED
      BY <2>1, <3>1, <3>2, FS_Singleton
  <2>2. CASE k # m
    <3>1. VMAsOf(k)' = VMAsOf(k)
      BY <1>1, <2>2 DEF VMAsOf
    <3>2. counter'[k] = counter[k] /\ k \in InUse
      BY <1>1, <1>4, <2>2 DEF VMAInv, TypeOK, InUse
    <3>3. counter[k] = Cardinality(VMAsOf(k))
      BY <3>2 DEF VMAInv, ReferencesCounted, VMAsOf
    <3> QED
      BY <3>1, <3>2, <3>3
  <2> QED
    BY <2>1, <2>2
<1>8. UseInv'
  BY <1>1, <1>4 DEF VMAInv, UseInv, Fresh, Quiet
<1> QED
  BY <1>3, <1>6, <1>7, <1>8 DEF VMAInv

LEMMA MmapVMA ==
  ASSUME VMAInv, NEW m \in Mappings, paging_mmap(m)
  PROVE  VMAInv'
<1>1. CASE MapDemand(m)
  <2>1. PICK n \in 1 .. MaxPages :
          \/ \E array \in [0 .. n - 1 -> {Null, Stale}] : Map(m, n, "live", array)
          \/ Map(m, n, "bare", <<>>)
    BY <1>1 DEF MapDemand
  <2>2. Fresh(m) /\ UNCHANGED <<allocate_page_counter, pte, held>>
    BY <1>1 DEF MapDemand
  <2>3. /\ allocate_page_counter' \in Nat /\ held' \subseteq Pages
        /\ pte' \in [Mappings \X Indices -> Pages \cup {Null}]
    BY <2>2 DEF VMAInv, TypeOK
  <2>4. CASE \E array \in [0 .. n - 1 -> {Null, Stale}] : Map(m, n, "live", array)
    <3>1. PICK array \in [0 .. n - 1 -> {Null, Stale}] : Map(m, n, "live", array)
      BY <2>4
    <3>2. array \in [0 .. n - 1 -> Pages \cup {Null, Stale}] /\ n \in 0 .. MaxPages
      OBVIOUS
    <3> QED
      BY <2>2, <2>3, <3>1, <3>2, MapVMA
  <2>5. CASE Map(m, n, "bare", <<>>)
    <3>1. <<>> \in [0 .. 0 - 1 -> Pages \cup {Null, Stale}] /\ 0 \in 0 .. MaxPages
      BY BoundAssumption
    <3> QED
      BY <2>2, <2>3, <2>5, <3>1, MapVMA
  <2> QED
    BY <2>1, <2>4, <2>5
<1>2. CASE MapPrepaged(m)
  <2>1. PICK n \in 1 .. MaxPages : \E new \in Injection(0 .. n - 1, Pages \ held) :
          /\ Map(m, n, "live", new)
          /\ pte' = [x \in DOMAIN pte |-> IF x[1] = m /\ x[2] < n THEN new[x[2]] ELSE pte[x]]
          /\ held' = held \cup Range(new)
          /\ allocate_page_counter' = allocate_page_counter + n
    BY <1>2 DEF MapPrepaged
  <2>2. PICK new \in Injection(0 .. n - 1, Pages \ held) :
          /\ Map(m, n, "live", new)
          /\ pte' = [x \in DOMAIN pte |-> IF x[1] = m /\ x[2] < n THEN new[x[2]] ELSE pte[x]]
          /\ held' = held \cup Range(new)
          /\ allocate_page_counter' = allocate_page_counter + n
    BY <2>1
  <2>3. new \in [0 .. n - 1 -> Pages \ held]
    BY DEF Injection
  <2>4. new \in [0 .. n - 1 -> Pages \cup {Null, Stale}] /\ n \in 0 .. MaxPages
    BY <2>3
  <2>5. allocate_page_counter' \in Nat /\ held' \subseteq Pages
    BY <2>2, <2>3 DEF VMAInv, TypeOK, Range
  <2>6. pte' \in [Mappings \X Indices -> Pages \cup {Null}]
    <3>1. \A x \in Mappings \X Indices : x[2] < n => new[x[2]] \in Pages
      BY <2>3 DEF Indices
    <3> QED
      BY <2>2, <3>1 DEF VMAInv, TypeOK
  <2> QED
    BY <1>2, <2>2, <2>4, <2>5, <2>6, MapVMA DEF MapPrepaged
<1>3. CASE MapFails(m)
  <2>1. /\ tracer' = [tracer EXCEPT ![m] = "lost"]
        /\ counter' = [counter EXCEPT ![m] = 1]
        /\ mishaps' = mishaps \cup {"failure"}
        /\ UNCHANGED <<params, free_page_counter, pages, vmas, pte, fault>>
    BY <1>3 DEF MapFails
  <2>2. allocate_page_counter' \in Nat /\ held' \subseteq Pages
    <3>1. PICK n \in Indices : \E new \in Injection(0 .. n - 1, Pages \ held) :
            /\ \/ held' = held \cup Range(new)
               \/ \E page \in Pages \ (held \cup Range(new)) :
                    held' = held \cup Range(new) \cup {page}
            /\ allocate_page_counter' = allocate_page_counter + n
      BY <1>3 DEF MapFails
    <3>2. \A new \in Injection(0 .. n - 1, Pages \ held) : Range(new) \subseteq Pages
      BY DEF Injection, Range
    <3>3. held' \subseteq Pages
      BY <3>1, <3>2 DEF VMAInv, TypeOK
    <3>4. allocate_page_counter' = allocate_page_counter + n
      BY <3>1
    <3>5. allocate_page_counter' \in Nat
      BY <3>4 DEF Indices, VMAInv, TypeOK
    <3> QED
      BY <3>3, <3>5
  <2>3. TypeOK'
    BY <2>1, <2>2 DEF VMAInv, TypeOK, params
  <2>4. InUse' = InUse /\ m \notin InUse
    BY <1>3, <2>1, FreshUnused DEF MapFails, VMAInv, TypeOK, InUse
  <2>5. ReferencesCounted'
    BY <2>1, <2>4 DEF VMAInv, TypeOK, ReferencesCounted, InUse
  <2> QED
    BY <2>1, <2>3, <2>4, <2>5 DEF VMAInv, ShapeInv, UseInv, Covers
<1>4. CASE MapOops(m)
  <2>1. module' = "corrupt"
        /\ UNCHANGED <<demand_paging, counts, state, vmas, pte, held, fault, mishaps>>
    BY <1>4 DEF MapOops
  <2>2. TypeOK' /\ UseInv'
    BY <2>1 DEF VMAInv, TypeOK, UseInv, InUse, Covers, counts, state
  <2> QED
    BY <2>1, <2>2, SameVMAs DEF VMAInv, state
<1> QED
  BY <1>1, <1>2, <1>3, <1>4 DEF paging_mmap

LEMMA OpenVMA ==
  ASSUME VMAInv, NEW v \in vmas, NEW at \in Indices, paging_vma_open(v, at)
  PROVE  VMAInv'
<1> DEFINE lower == [v EXCEPT !.end = at]
           upper == [v EXCEPT !.start = at]
           rest == vmas \ {v}
<1>1. /\ vmas' = rest \cup {lower, upper}
      /\ counter' = [counter EXCEPT ![v.mapping] = @ + 1]
      /\ mishaps' = mishaps \cup {"split"}
      /\ UNCHANGED <<params, counts, tracer, pages, pte, held, fault>>
      /\ v.start < at /\ at < v.end /\ Quiet
  BY DEF paging_vma_open, Reference
<1>2. v \in VMAs /\ v.mapping \in Mappings
  BY DEF VMAInv, TypeOK, VMAs
<1>3. /\ lower = [mapping |-> v.mapping, start |-> v.start, end |-> at]
      /\ upper = [mapping |-> v.mapping, start |-> at, end |-> v.end]
  BY <1>2 DEF VMAs
<1> HIDE DEF lower, upper
<1>4. lower \in VMAs /\ upper \in VMAs
  BY <1>2, <1>3, BoundAssumption DEF VMAs, Indices
<1>5. TypeOK'
  <2>1. counter' \in [Mappings -> Nat]
    BY <1>1, <1>2 DEF VMAInv, TypeOK
  <2> QED
    BY <1>1, <1>4, <2>1 DEF VMAInv, TypeOK, params, counts
<1>6. \A w \in rest : w.mapping = v.mapping => w.end <= v.start \/ v.end <= w.start
  BY DEF VMAInv, ShapeInv
<1>7. \A w \in rest : w \in VMAs /\ w.start < w.end
  BY DEF VMAInv, ShapeInv, TypeOK
<1>8. lower \notin rest /\ upper \notin rest \cup {lower}
  BY <1>1, <1>2, <1>3, <1>6, <1>7 DEF VMAs, Indices
<1>9. ShapeInv'
  <2>1. IsFiniteSet(vmas')
    <3>1. IsFiniteSet(rest)
      BY FS_RemoveElement DEF VMAInv, ShapeInv
    <3>2. vmas' = (rest \cup {lower}) \cup {upper}
      BY <1>1
    <3> QED
      BY <3>1, <3>2, FS_AddElement
  <2>2. \A w \in vmas' : w.start < w.end
    BY <1>1, <1>3, <1>7
  <2>3. \A w \in rest : w.mapping = v.mapping =>
          /\ w.end <= lower.start \/ lower.end <= w.start
          /\ w.end <= upper.start \/ upper.end <= w.start
    BY <1>1, <1>2, <1>3, <1>6, <1>7 DEF VMAs, Indices
  <2>4. \A w, x \in rest : w.mapping = x.mapping => w = x \/ w.end <= x.start \/ x.end <= w.start
    BY DEF VMAInv, ShapeInv
  <2>5. lower.end <= upper.start /\ lower.mapping = v.mapping /\ upper.mapping = v.mapping
    BY <1>3 DEF Indices
  <2>6. ASSUME NEW w \in vmas', NEW x \in vmas', w.mapping = x.mapping
        PROVE  w = x \/ w.end <= x.start \/ x.end <= w.start
    BY <1>1, <2>3, <2>4, <2>5, <2>6
  <2> QED
    BY <2>1, <2>2, <2>6 DEF ShapeInv
<1>10. InUse' = InUse
  BY <1>1 DEF InUse
<1>11. ReferencesCounted'
  <2> SUFFICES ASSUME NEW m \in InUse
               PROVE  counter'[m] = Cardinality(VMAsOf(m)')
    BY <1>10 DEF ReferencesCounted, VMAsOf
  <2>1. counter[m] = Cardinality(VMAsOf(m)) /\ m \in Mappings
    BY DEF VMAInv, ReferencesCounted, VMAsOf, InUse
  <2>2. CASE m # v.mapping
    <3>1. VMAsOf(m)' = VMAsOf(m)
      BY <1>1, <1>3, <2>2 DEF VMAsOf
    <3> QED
      BY <1>1, <2>1, <2>2, <3>1 DEF VMAInv, TypeOK
  <2>3. CASE m = v.mapping
    <3> DEFINE others == VMAsOf(m) \ {v}
    <3>1. VMAsOf(m)' = (others \cup {lower}) \cup {upper}
      BY <1>1, <1>3, <2>3 DEF VMAsOf
    <3>2. lower \notin others /\ upper \notin others \cup {lower}
      BY <1>8 DEF VMAsOf
    <3>3. IsFiniteSet(VMAsOf(m)) /\ Cardinality(VMAsOf(m)) \in Nat
      BY VMAsFinite DEF VMAInv
    <3>4. IsFiniteSet(others) /\ Cardinality(others) = Cardinality(VMAsOf(m)) - 1
      BY <2>3, <3>3, FS_RemoveElement DEF VMAsOf
    <3> HIDE DEF others
    <3>5. /\ IsFiniteSet(others \cup {lower})
          /\ Cardinality(others \cup {lower}) = Cardinality(VMAsOf(m))
      <4>1. /\ IsFiniteSet(others \cup {lower})
            /\ Cardinality(others \cup {lower}) = Cardinality(others) + 1
        BY <3>2, <3>4, FS_AddElement
      <4> QED
        BY <3>3, <3>4, <4>1
    <3>6. Cardinality((others \cup {lower}) \cup {upper}) = Cardinality(VMAsOf(m)) + 1
      BY <3>2, <3>5, FS_AddElement
    <3>7. counter'[m] = counter[m] + 1
      BY <1>1, <2>1, <2>3 DEF VMAInv, TypeOK
    <3> QED
      BY <2>1, <3>1, <3>6, <3>7
  <2> QED
    BY <2>2, <2>3
<1>12. UseInv'
  BY <1>1, <1>3, <1>10 DEF VMAInv, UseInv, Quiet
<1> QED
  BY <1>5, <1>9, <1>11, <1>12 DEF VMAInv

\* Closing removes a VMA, takes a reference, and frees the tracer with the last one.
LEMMA CloseVMA ==
  ASSUME VMAInv, NEW v \in vmas, paging_vma_close(v)
  PROVE  /\ VMAInv'
         /\ tracer' = tracer \/ VMAsOf(v.mapping)' = {}
<1> DEFINE m == v.mapping
<1>1. /\ vmas' = vmas \ {v}
      /\ counter' = [counter EXCEPT ![m] = @ - 1]
      /\ UNCHANGED <<demand_paging, allocate_page_counter, pages, fault, mishaps>>
      /\ Quiet
  BY DEF paging_vma_close
<1>2. v \in VMAs /\ m \in Mappings /\ m \in InUse
  BY DEF VMAInv, TypeOK, VMAs, UseInv
<1>3. counter[m] = Cardinality(VMAsOf(m)) /\ v \in VMAsOf(m)
  BY <1>2 DEF VMAInv, ReferencesCounted, VMAsOf
<1>4. IsFiniteSet(VMAsOf(m)) /\ Cardinality(VMAsOf(m)) \in Nat
  BY VMAsFinite DEF VMAInv
<1>5. VMAsOf(m)' = VMAsOf(m) \ {v}
  BY <1>1 DEF VMAsOf
<1>6. /\ IsFiniteSet(VMAsOf(m)') /\ Cardinality(VMAsOf(m)') = Cardinality(VMAsOf(m)) - 1
      /\ Cardinality(VMAsOf(m)') \in Nat
  BY <1>3, <1>4, <1>5, FS_RemoveElement, FS_CardinalityType
<1>7. counter'[m] = Cardinality(VMAsOf(m)') /\ counter' \in [Mappings -> Nat]
  BY <1>1, <1>2, <1>3, <1>4, <1>6 DEF VMAInv, TypeOK
<1>8. \/ UNCHANGED tracer
      \/ tracer' = [tracer EXCEPT ![m] = "freed"] /\ VMAsOf(m)' = {}
  <2>1. CASE counter'[m] = 0
    <3>1. VMAsOf(m)' = {}
      BY <1>6, <1>7, <2>1, FS_EmptySet
    <3> QED
      BY <3>1 DEF paging_vma_close
  <2>2. CASE counter'[m] # 0
    BY <2>2 DEF paging_vma_close, LastReference
  <2> QED
    BY <2>1, <2>2
<1>9. TypeOK'
  <2>1. tracer' \in [Mappings -> {"none", "live", "bare", "lost", "freed"}]
    BY <1>2, <1>8 DEF VMAInv, TypeOK
  <2>2. module' \in {"loaded", "unloaded", "corrupt"}
    BY DEF paging_vma_close, VMAInv, TypeOK
  <2>3. held' \subseteq Pages
    BY DEF paging_vma_close, VMAInv, TypeOK
  <2>4. free_page_counter' \in Nat
    <3>1. Recorded(v) \subseteq 0 .. v.end - v.start - 1
      BY DEF Recorded, Visited, get_pages_count
    <3>2. IsFiniteSet(0 .. v.end - v.start - 1)
      BY <1>2, FS_Interval DEF VMAs
    <3>3. Cardinality(Recorded(v)) \in Nat
      BY <3>1, <3>2, FS_Subset, FS_CardinalityType
    <3> QED
      BY <3>3 DEF paging_vma_close, VMAInv, TypeOK
  <2>5. pte' \in [Mappings \X Indices -> Pages \cup {Null}]
    BY DEF paging_vma_close, VMAInv, TypeOK
  <2> QED
    BY <1>1, <1>7, <2>1, <2>2, <2>3, <2>4, <2>5 DEF VMAInv, TypeOK
<1>10. ShapeInv'
  BY <1>1, FS_RemoveElement DEF VMAInv, ShapeInv
<1>11. ReferencesCounted'
  <2> SUFFICES ASSUME NEW k \in InUse'
               PROVE  counter'[k] = Cardinality(VMAsOf(k)')
    BY DEF ReferencesCounted, VMAsOf
  <2>1. CASE k # m
    <3>1. VMAsOf(k)' = VMAsOf(k)
      BY <1>1, <2>1 DEF VMAsOf
    <3>2. k \in InUse /\ counter'[k] = counter[k]
      BY <1>1, <1>8, <2>1 DEF VMAInv, TypeOK, InUse
    <3>3. counter[k] = Cardinality(VMAsOf(k))
      BY <3>2 DEF VMAInv, ReferencesCounted, VMAsOf
    <3> QED
      BY <3>1, <3>2, <3>3
  <2> QED
    BY <1>7, <2>1
<1>12. UseInv'
  <2>1. \A w \in vmas' : w.mapping \in InUse'
    BY <1>1, <1>8 DEF VMAInv, TypeOK, UseInv, InUse, VMAsOf
  <2> QED
    BY <1>1, <2>1 DEF UseInv, Quiet
<1> QED
  BY <1>8, <1>9, <1>10, <1>11, <1>12 DEF VMAInv

LEMMA NextVMA == VMAInv /\ [Next]_vars => VMAInv'
  BY ModuleVMA, TakeFaultVMA, GoOnVMA, MmapVMA, OpenVMA, CloseVMA DEF Next, do_fault

LEMMA VMAInvariant == Spec => []VMAInv
  BY InitVMA, NextVMA, PTL DEF Spec

\* Every variable of the paging module keeps its type.
THEOREM TypeCorrect == Spec => []TypeOK
  BY VMAInvariant, PTL DEF VMAInv

\* The reference counter of a tracer that is in use is the number of its VMAs.
THEOREM CountsReferences == Spec => []ReferencesCounted
  BY VMAInvariant, PTL DEF VMAInv

\* The last close, and no other, frees the tracer: no VMA and no fault has it still.
THEOREM TracerLivesLongEnough == Spec => []TracerOutlivesUse
<1>1. VMAInv => TracerOutlivesUse
  BY DEF VMAInv, UseInv, TracerOutlivesUse, Covers
<1> QED
  BY <1>1, VMAInvariant, PTL

-----------------------------------------------------------------------------
(* PageInv                                                                 *)

LEMMA InitPage == Init => PageInv
  BY DEF Init, Idle, InUse, PageInv, CoverInv, MappedPagesHeld, FlightInv, RecordInv, ArrayInv,
         LengthInv, InFlight

\* A step that leaves table, array and pages alone, and no fault gets further with a page.
LEMMA SamePages ==
  ASSUME VMAInv, PageInv, UNCHANGED <<tracer, vmas, pages, pte, held>>,
         \A u \in Threads :
           /\ InFlight(u)' => InFlight(u) /\ fault'[u].page = fault[u].page
           /\ fault'[u].pc = "record" => fault'[u] = fault[u]
  PROVE  PageInv'
<1>1. InUse' = InUse
  BY DEF InUse
<1>2. CoverInv' /\ MappedPagesHeld' /\ ArrayInv' /\ LengthInv'
  BY <1>1 DEF PageInv, CoverInv, MappedPagesHeld, ArrayInv, LengthInv, Covers
<1>3. FlightInv'
  BY <1>1 DEF PageInv, FlightInv
<1>4. RecordInv'
  BY DEF PageInv, RecordInv
<1> QED
  BY <1>2, <1>3, <1>4 DEF PageInv

\* The steps of a fault that hand no page on.
LEMMA FaultSamePages ==
  ASSUME VMAInv, PageInv, NEW t \in Threads,
         UNCHANGED <<tracer, vmas, pages, pte, held>>,
         \/ UNCHANGED fault
         \/ FaultReturn(t)
         \/ fault[t].pc = "count" /\ FaultTo(t, "remap")
         \/ \E f \in Faults : f.pc = "alloc" /\ fault' = [fault EXCEPT ![t] = f]
  PROVE  PageInv'
<1>1. fault \in [Threads -> Faults]
  BY DEF VMAInv, TypeOK, Faults
<1>2. CASE UNCHANGED fault
  BY <1>2, SamePages DEF InFlight
<1>3. CASE FaultReturn(t)
  BY <1>1, <1>3, SamePages DEF FaultReturn, InFlight, Idle
<1>4. CASE fault[t].pc = "count" /\ FaultTo(t, "remap")
  <2>1. /\ fault'[t].pc = "remap" /\ fault'[t].page = fault[t].page
        /\ \A u \in Threads \ {t} : fault'[u] = fault[u]
    BY <1>1, <1>4, GoesTo
  <2> QED
    BY <1>4, <2>1, SamePages DEF InFlight
<1>5. CASE \E f \in Faults : f.pc = "alloc" /\ fault' = [fault EXCEPT ![t] = f]
  BY <1>1, <1>5, SamePages DEF InFlight
<1> QED
  BY <1>2, <1>3, <1>4, <1>5

\* alloc_page returns a page that nobody holds.
LEMMA AllocPages ==
  ASSUME VMAInv, PageInv, NEW t \in Threads, NEW page \in Pages \ held,
         UNCHANGED <<tracer, vmas, pages, pte>>,
         held' = held \cup {page},
         fault'[t].pc = "count", fault'[t].page = page,
         \A u \in Threads \ {t} : fault'[u] = fault[u]
  PROVE  PageInv'
<1>1. InUse' = InUse /\ InUse \subseteq Mappings
  BY DEF InUse
<1>2. CoverInv' /\ MappedPagesHeld' /\ ArrayInv' /\ LengthInv'
  BY <1>1 DEF PageInv, CoverInv, MappedPagesHeld, ArrayInv, LengthInv, Covers
<1>3. \A m \in Mappings, i \in Indices : pte[<<m, i>>] # page
  BY PointerAssumption DEF PageInv, MappedPagesHeld, VMAInv, TypeOK
<1>4. \A m \in InUse : \A i \in DOMAIN pages[m] : pages[m][i] # page
  BY DEF PageInv, ArrayInv
<1>5. FlightInv'
  <2>1. ASSUME NEW w \in Threads \ {t}, fault'[w].pc \in {"count", "remap"}
        PROVE  InFlight(w) /\ fault'[w] = fault[w] /\ fault[w].page \in held
    <3>1. fault'[w] = fault[w]
      OBVIOUS
    <3>2. InFlight(w)
      BY <2>1, <3>1 DEF InFlight
    <3> QED
      BY <3>1, <3>2 DEF PageInv, FlightInv
  <2>2. ASSUME NEW u \in Threads, fault'[u].pc \in {"count", "remap"}
        PROVE  /\ fault'[u].page \in held'
               /\ \A m \in Mappings, i \in Indices : pte[<<m, i>>] # fault'[u].page
               /\ \A m \in InUse : \A i \in DOMAIN pages[m] : pages[m][i] # fault'[u].page
    <3>1. CASE u = t
      BY <1>3, <1>4, <3>1
    <3>2. CASE u # t
      <4>1. InFlight(u) /\ fault'[u] = fault[u]
        BY <2>1, <2>2, <3>2
      <4> QED
        BY <4>1 DEF PageInv, FlightInv
    <3> QED
      BY <3>1, <3>2
  <2>3. ASSUME NEW u \in Threads, fault'[u].pc \in {"count", "remap"},
               NEW w \in Threads, fault'[w].pc \in {"count", "remap"},
               fault'[w].page = fault'[u].page
        PROVE  w = u
    <3>1. CASE u = t \/ w = t
      BY <2>1, <2>3, <3>1
    <3>2. CASE u # t /\ w # t
      <4>1. /\ InFlight(u) /\ fault'[u] = fault[u]
            /\ InFlight(w) /\ fault'[w] = fault[w]
        BY <2>1, <2>3, <3>2
      <4> QED
        BY <2>3, <4>1 DEF PageInv, FlightInv
    <3> QED
      BY <3>1, <3>2
  <2> QED
    BY <1>1, <2>2, <2>3 DEF FlightInv, InFlight
<1>6. RecordInv'
  BY DEF PageInv, RecordInv
<1> QED
  BY <1>2, <1>5, <1>6 DEF PageInv

\* remap_pfn_range maps the page of the fault, which is nobody else's.
LEMMA RemapPages ==
  ASSUME VMAInv, PageInv, NEW t \in Threads, NEW m \in Mappings, NEW i \in Indices,
         NEW page \in Pages,
         UNCHANGED <<tracer, vmas, pages, held>>,
         InFlight(t), fault[t].page = page,
         pte[<<m, i>>] = Null, pte' = [pte EXCEPT ![<<m, i>>] = page],
         \E v \in vmas : Covers(v, m, i),
         fault'[t].pc = "record", fault'[t].page = page,
         fault'[t].mapping = m, fault'[t].at = i,
         \A u \in Threads \ {t} : fault'[u] = fault[u]
  PROVE  PageInv'
<1>1. InUse' = InUse /\ InUse \subseteq Mappings
  BY DEF InUse
<1>2. /\ pte'[<<m, i>>] = page /\ DOMAIN pte' = DOMAIN pte /\ DOMAIN pte = Mappings \X Indices
      /\ \A x \in Mappings \X Indices : x # <<m, i>> => pte'[x] = pte[x]
  BY DEF VMAInv, TypeOK
<1>3. /\ page \in held
      /\ \A x \in Mappings \X Indices : pte[x] # page
      /\ \A k \in InUse : \A j \in DOMAIN pages[k] : pages[k][j] # page
      /\ \A u \in Threads : InFlight(u) /\ fault[u].page = page => u = t
  BY DEF PageInv, FlightInv
<1>4. CoverInv' /\ LengthInv'
  BY <1>2 DEF PageInv, CoverInv, LengthInv, Covers
<1>5. MappedPagesHeld'
  BY <1>2, <1>3 DEF PageInv, MappedPagesHeld
<1>6. FlightInv'
  <2>1. ASSUME NEW u \in Threads, fault'[u].pc \in {"count", "remap"}
        PROVE  /\ InFlight(u) /\ fault'[u] = fault[u] /\ fault'[u].page # page
    <3>1. u # t /\ fault'[u] = fault[u]
      BY <2>1
    <3>2. InFlight(u)
      BY <2>1, <3>1 DEF InFlight
    <3> QED
      BY <1>3, <3>1, <3>2
  <2>2. ASSUME NEW u \in Threads, fault'[u].pc \in {"count", "remap"}
        PROVE  /\ fault'[u].page \in held'
               /\ \A k \in Mappings, j \in Indices : pte'[<<k, j>>] # fault'[u].page
               /\ \A k \in InUse : \A j \in DOMAIN pages[k] : pages[k][j] # fault'[u].page
               /\ \A w \in Threads : fault'[w].pc \in {"count", "remap"}
                                       /\ fault'[w].page = fault'[u].page => w = u
    <3>1. InFlight(u) /\ fault'[u] = fault[u] /\ fault'[u].page # page
      BY <2>1, <2>2
    <3>2. /\ fault[u].page \in held
          /\ \A k \in Mappings, j \in Indices : pte[<<k, j>>] # fault[u].page
          /\ \A k \in InUse : \A j \in DOMAIN pages[k] : pages[k][j] # fault[u].page
          /\ \A w \in Threads : InFlight(w) /\ fault[w].page = fault[u].page => w = u
      BY <3>1 DEF PageInv, FlightInv
    <3>3. ASSUME NEW k \in Mappings, NEW j \in Indices
          PROVE  pte'[<<k, j>>] # fault'[u].page
      <4>1. <<k, j>> \in Mappings \X Indices
        OBVIOUS
      <4>2. pte'[<<k, j>>] = pte[<<k, j>>] \/ pte'[<<k, j>>] = page
        BY <1>2, <4>1
      <4> QED
        BY <3>1, <3>2, <4>2
    <3> QED
      BY <2>1, <3>1, <3>2, <3>3
  <2> QED
    BY <1>1, <2>2 DEF FlightInv, InFlight
<1>7. RecordInv'
  <2> SUFFICES ASSUME NEW u \in Threads, fault'[u].pc = "record"
               PROVE  fault'[u].page \in Pages
                        /\ pte'[<<fault'[u].mapping, fault'[u].at>>] = fault'[u].page
    BY DEF RecordInv
  <2>1. CASE u = t
    BY <1>2, <2>1
  <2>2. CASE u # t
    <3>1. fault'[u] = fault[u] /\ fault[u].pc = "record"
      BY <2>2
    <3>2. fault[u].page \in Pages /\ pte[<<fault[u].mapping, fault[u].at>>] = fault[u].page
      BY <3>1 DEF PageInv, RecordInv
    <3>3. fault[u].mapping \in Mappings /\ fault[u].at \in Indices
      BY <3>1, FaultAddress
    <3>4. <<fault[u].mapping, fault[u].at>> # <<m, i>>
      BY <3>2, PointerAssumption
    <3> QED
      BY <1>2, <3>1, <3>2, <3>3, <3>4
  <2> QED
    BY <2>1, <2>2
<1>8. ArrayInv'
  BY <1>1, <1>2, <1>3 DEF PageInv, ArrayInv
<1> QED
  BY <1>4, <1>5, <1>6, <1>7, <1>8 DEF PageInv

\* What becomes of an array when one entry of that of m is assigned.
Array(k, page, m) ==
  /\ DOMAIN pages'[k] = DOMAIN pages[k]
  /\ \A j \in DOMAIN pages[k] : pages'[k][j] = pages[k][j] \/ (k = m /\ pages'[k][j] = page)

LEMMA ArrayAssigned ==
  ASSUME TypeOK, NEW m \in Mappings, NEW o, NEW page, NEW k \in Mappings
  PROVE  pages' = [pages EXCEPT ![m][o] = page] => Array(k, page, m)
<1> DEFINE array == [pages[m] EXCEPT ![o] = page]
<1>1. pages' = [pages EXCEPT ![m][o] = page] => pages' = [pages EXCEPT ![m] = array]
  BY Zenon
<1>2. pages' = [pages EXCEPT ![m] = array] => pages'[k] = IF k = m THEN array ELSE pages[k]
  BY DEF TypeOK
<1>3. DOMAIN array = DOMAIN pages[m] /\ \A j \in DOMAIN pages[m] : array[j] \in {pages[m][j], page}
  OBVIOUS
<1> HIDE DEF array
<1>4. (pages'[k] = IF k = m THEN array ELSE pages[k]) => Array(k, page, m)
  BY <1>3 DEF Array
<1> QED
  BY <1>1, <1>2, <1>4, Zenon

\* The array names the page the fault has mapped.
LEMMA RecordPages ==
  ASSUME VMAInv, PageInv, NEW t \in Threads, NEW m \in InUse, NEW i \in Indices,
         NEW page \in Pages,
         UNCHANGED <<tracer, vmas, pte, held>>,
         pte[<<m, i>>] = page,
         \A k \in InUse : Array(k, page, m),
         \A u \in Threads : fault'[u].pc # "idle" => u # t,
         \A u \in Threads \ {t} : fault'[u] = fault[u]
  PROVE  PageInv'
<1>1. InUse' = InUse /\ InUse \subseteq Mappings
  BY DEF InUse
<1>3. /\ page \in held /\ \A k \in Mappings, j \in Indices : pte[<<k, j>>] = page => k = m
      /\ \A k \in InUse : \A j \in DOMAIN pages[k] : pages[k][j] = page => k = m
  <2>1. <<m, i>> \in DOMAIN pte /\ pte[<<m, i>>] # Null
    BY <1>1, PointerAssumption DEF VMAInv, TypeOK
  <2>2. page \in held /\ \A y \in DOMAIN pte : pte[y] = page => y = <<m, i>>
    BY <2>1 DEF PageInv, MappedPagesHeld
  <2>3. \A k \in Mappings, j \in Indices : <<k, j>> \in DOMAIN pte
    BY DEF VMAInv, TypeOK
  <2>4. \A k \in Mappings, j \in Indices : pte[<<k, j>>] = page => k = m
    BY <2>2, <2>3
  <2>5. \A k \in InUse : \A j \in DOMAIN pages[k] : pages[k][j] = page => k = m
    BY <1>1 DEF PageInv, ArrayInv
  <2> QED
    BY <2>2, <2>4, <2>5
<1>4. CoverInv' /\ MappedPagesHeld' /\ RecordInv'
  BY DEF PageInv, CoverInv, MappedPagesHeld, RecordInv, Covers
<1>5. LengthInv'
  BY <1>1 DEF Array, PageInv, LengthInv, VMAInv, UseInv
<1>6. FlightInv'
  <2>1. \A u \in Threads : fault'[u].pc \in {"count", "remap"} =>
          InFlight(u) /\ fault'[u] = fault[u]
    BY DEF InFlight
  <2>2. \A u \in Threads : InFlight(u) => fault[u].page # page
    BY <1>1 DEF PageInv, FlightInv
  <2> QED
    BY <1>1, <2>1, <2>2 DEF Array, PageInv, FlightInv, InFlight
<1>7. ArrayInv'
  BY <1>1, <1>3 DEF Array, PageInv, ArrayInv
<1> QED
  BY <1>4, <1>5, <1>6, <1>7 DEF PageInv

LEMMA FaultPage ==
  ASSUME VMAInv, PageInv, NEW t \in Threads, do_fault(t)
  PROVE  PageInv'
<1>1. UNCHANGED <<tracer, vmas>>
  BY FaultKeeps
<1>2. fault \in [Threads -> Faults] /\ fault[t] \in Faults
  BY DEF VMAInv, TypeOK, Faults
<1>3. CASE TakeFault(t)
  <2>1. UNCHANGED <<pages, pte, held>>
    BY <1>3 DEF TakeFault, state
  <2>2. PICK v \in vmas : \E at \in v.start .. v.end - 1 :
          fault' = [fault EXCEPT ![t] = [pc |-> "alloc", mapping |-> v.mapping, at |-> at,
                                         offset |-> Offset(v, at), page |-> Null]]
    BY <1>3 DEF TakeFault
  <2>3. PICK at \in v.start .. v.end - 1 :
          fault' = [fault EXCEPT ![t] = [pc |-> "alloc", mapping |-> v.mapping, at |-> at,
                                         offset |-> Offset(v, at), page |-> Null]]
    BY <2>2
  <2>4. v \in VMAs
    BY DEF VMAInv, TypeOK
  <2>5. at \in Indices /\ Offset(v, at) \in Indices /\ v.mapping \in 0 .. MaxMappings
    BY <2>4, BoundAssumption DEF VMAs, Indices, Offset, Mappings
  <2>6. \E f \in Faults : f.pc = "alloc" /\ fault' = [fault EXCEPT ![t] = f]
    BY <2>3, <2>5 DEF Faults
  <2> QED
    BY <1>1, <2>1, <2>6, FaultSamePages
<1>4. CASE AllocPage(t)
  <2>1. UNCHANGED <<pages, pte>>
    BY <1>4 DEF AllocPage, state
  <2>2. CASE FaultReturn(t) /\ UNCHANGED held
    BY <1>1, <2>1, <2>2, FaultSamePages
  <2>3. CASE \E page \in Pages \ held :
               /\ held' = held \cup {page}
               /\ fault' = [fault EXCEPT ![t].pc = "count", ![t].page = page]
    <3>1. PICK page \in Pages \ held :
            /\ held' = held \cup {page}
            /\ fault' = [fault EXCEPT ![t].pc = "count", ![t].page = page]
      BY <2>3
    <3>2. /\ fault'[t].pc = "count" /\ fault'[t].page = page
          /\ \A u \in Threads \ {t} : fault'[u] = fault[u]
      BY <1>2, <3>1, FindsPage
    <3>3. held' = held \cup {page}
      BY <3>1
    <3> QED
      BY <1>1, <2>1, <3>2, <3>3, AllocPages
  <2> QED
    BY <1>4, <2>2, <2>3 DEF AllocPage
<1>5. CASE CountPage(t)
  BY <1>1, <1>5, FaultSamePages DEF CountPage, FaultAt, state
<1>6. CASE RemapPage(t)
  <2> DEFINE x == <<fault[t].mapping, fault[t].at>>
  <2>1. UNCHANGED <<pages, held>> /\ fault[t].pc = "remap"
    BY <1>6 DEF RemapPage, FaultAt, state
  <2>2. CASE pte[x] = Null /\ pte' = [pte EXCEPT ![x] = fault[t].page] /\ FaultTo(t, "record")
    <3>1. fault[t].mapping \in Mappings /\ fault[t].at \in Indices
      BY <2>1, FaultAddress
    <3>2. \E v \in vmas : Covers(v, fault[t].mapping, fault[t].at)
      BY <2>1 DEF VMAInv, UseInv, Idle
    <3>3. InFlight(t)
      BY <2>1 DEF InFlight
    <3>4. fault[t].page \in Pages
      BY <3>3 DEF PageInv, FlightInv, VMAInv, TypeOK
    <3>5. /\ fault'[t].pc = "record" /\ fault'[t].page = fault[t].page
          /\ fault'[t].mapping = fault[t].mapping /\ fault'[t].at = fault[t].at
          /\ \A u \in Threads \ {t} : fault'[u] = fault[u]
      BY <1>2, <2>2, GoesTo
    <3> QED
      BY <1>1, <2>1, <2>2, <3>1, <3>2, <3>3, <3>4, <3>5, RemapPages
  <2>3. CASE UNCHANGED <<pte, fault>>
    BY <1>1, <2>1, <2>3, FaultSamePages
  <2>4. CASE FaultReturn(t) /\ UNCHANGED pte
    BY <1>1, <2>1, <2>4, FaultSamePages
  <2> QED
    BY <1>6, <2>2, <2>3, <2>4 DEF RemapPage
<1>7. CASE RecordPage(t)
  <2> DEFINE m == fault[t].mapping
  <2>1. UNCHANGED <<pte, held>> /\ fault[t].pc = "record"
    BY <1>7 DEF RecordPage, FaultAt
  <2>2. CASE UNCHANGED <<pages, fault>>
    BY <1>1, <2>1, <2>2, FaultSamePages
  <2>3. CASE /\ pages' = [pages EXCEPT ![m][fault[t].offset] = fault[t].page]
             /\ FaultReturn(t)
    <3>1. m \in InUse /\ fault[t].at \in Indices
      <4>1. fault[t] # Idle
        BY <2>1 DEF Idle
      <4>2. m \in InUse
        BY <4>1 DEF VMAInv, UseInv, Covers
      <4> QED
        BY <1>2, <4>2 DEF Faults
    <3>2. fault[t].page \in Pages /\ pte[<<m, fault[t].at>>] = fault[t].page
      BY <2>1 DEF PageInv, RecordInv
    <3>3. \A k \in InUse : Array(k, fault[t].page, m)
      BY <2>3, <3>1, ArrayAssigned DEF VMAInv, InUse
    <3>4. /\ \A u \in Threads : fault'[u].pc # "idle" => u # t
          /\ \A u \in Threads \ {t} : fault'[u] = fault[u]
      BY <1>2, <2>3 DEF FaultReturn, Idle
    <3> QED
      BY <1>1, <2>1, <3>1, <3>2, <3>3, <3>4, RecordPages
  <2> QED
    BY <1>7, <2>2, <2>3 DEF RecordPage
<1> QED
  BY <1>3, <1>4, <1>5, <1>6, <1>7 DEF do_fault

-----------------------------------------------------------------------------
\* No fault is under way while mmap, open and close run.
LEMMA QuietPages ==
  ASSUME Quiet, UNCHANGED fault
  PROVE  FlightInv' /\ RecordInv'
  BY DEF Quiet, FlightInv, RecordInv, InFlight, Idle

\* A new mapping has no page table entry yet.
LEMMA FreshPages ==
  ASSUME VMAInv, PageInv, NEW m \in Mappings, Fresh(m)
  PROVE  \A i \in Indices : pte[<<m, i>>] = Null
  BY FreshUnused DEF PageInv, CoverInv, Covers, VMAsOf

\* What mmap adds: the mapping m, and pages nobody held, which only m has.
LEMMA MapPages ==
  ASSUME VMAInv, PageInv, NEW m \in Mappings, Fresh(m), NEW n \in 1 .. MaxPages,
         NEW kind \in {"live", "bare"}, NEW array, Map(m, n, kind, array),
         kind = "live" => DOMAIN array = 0 .. n - 1,
         NEW new \in SUBSET (Pages \ held), held' = held \cup new,
         \A j \in DOMAIN array : array[j] \in new \cup {Null, Stale},
         pte' \in [Mappings \X Indices -> Pages \cup {Null}],
         \A k \in Mappings, i \in Indices :
           \/ pte'[<<k, i>>] = pte[<<k, i>>]
           \/ k = m /\ i < n /\ pte'[<<k, i>>] \in new,
         \A i, j \in Indices : pte'[<<m, i>>] # Null /\ pte'[<<m, i>>] = pte'[<<m, j>>] => i = j
  PROVE  PageInv'
<1>1. /\ vmas' = vmas \cup {[mapping |-> m, start |-> 0, end |-> n]}
      /\ tracer' = [tracer EXCEPT ![m] = kind]
      /\ pages' = [pages EXCEPT ![m] = array]
      /\ UNCHANGED fault
  BY DEF Map
<1>2. /\ m \notin InUse /\ InUse' = InUse \cup {m} /\ InUse \subseteq Mappings
      /\ VMAsOf(m) = {} /\ pages'[m] = array
      /\ \A k \in InUse : pages'[k] = pages[k]
  BY <1>1, FreshUnused DEF VMAInv, TypeOK, InUse
<1>3. FlightInv' /\ RecordInv'
  BY <1>1, QuietPages DEF Fresh
<1>4. \A i \in Indices : pte[<<m, i>>] = Null
  BY FreshPages
<1>5. \A k \in Mappings, i \in Indices : pte[<<k, i>>] # Null => pte[<<k, i>>] \in held
  BY DEF VMAInv, TypeOK, PageInv, MappedPagesHeld
<1>6. CoverInv'
  <2> SUFFICES ASSUME NEW k \in Mappings, NEW i \in Indices, pte'[<<k, i>>] # Null
               PROVE  \E v \in vmas' : Covers(v, k, i)
    BY DEF CoverInv, Covers
  <2>1. CASE pte'[<<k, i>>] = pte[<<k, i>>]
    BY <1>1, <2>1 DEF PageInv, CoverInv
  <2>2. CASE k = m /\ i < n
    <3>1. Covers([mapping |-> m, start |-> 0, end |-> n], k, i)
      BY <2>2 DEF Covers, Indices
    <3> QED
      BY <1>1, <3>1
  <2> QED
    BY <2>1, <2>2
<1>7. MappedPagesHeld'
  <2> SUFFICES ASSUME NEW x \in Mappings \X Indices, pte'[x] # Null,
                      NEW y \in Mappings \X Indices
               PROVE  pte'[x] \in held' /\ (pte'[y] = pte'[x] => y = x)
    BY DEF MappedPagesHeld
  <2> PICK k \in Mappings, i \in Indices : x = <<k, i>>
    OBVIOUS
  <2> PICK l \in Mappings, j \in Indices : y = <<l, j>>
    OBVIOUS
  <2>1. /\ k # m => pte'[<<k, i>>] \in held /\ pte'[<<k, i>>] = pte[<<k, i>>]
        /\ k = m => pte'[<<k, i>>] \in new
    BY <1>4, <1>5
  <2>2. /\ l # m => pte'[<<l, j>>] \in held \cup {Null} /\ pte'[<<l, j>>] = pte[<<l, j>>]
        /\ l = m => pte'[<<l, j>>] \in new \cup {Null}
    BY <1>4, <1>5
  <2>3. CASE k # m /\ l # m
    BY <2>1, <2>2, <2>3 DEF VMAInv, TypeOK, PageInv, MappedPagesHeld
  <2>4. CASE k = m /\ l = m
    BY <2>1, <2>4
  <2>5. CASE (k = m) # (l = m)
    BY <2>1, <2>2, <2>5
  <2> QED
    BY <2>1, <2>3, <2>4, <2>5
<1>8. ArrayInv'
  <2>1. \A k \in InUse : \A i \in DOMAIN pages[k] : pages[k][i] \in Pages => pages[k][i] \in held
    BY DEF PageInv, ArrayInv
  <2>2. ASSUME NEW k \in InUse', NEW i \in DOMAIN pages'[k], pages'[k][i] \in Pages
        PROVE  pages'[k][i] \in held' /\ (k = m <=> pages'[k][i] \in new)
    BY <1>2, <2>1, <2>2, PointerAssumption
  <2>3. ASSUME NEW k \in InUse', NEW i \in DOMAIN pages'[k], pages'[k][i] \in Pages,
               NEW l \in Mappings, NEW j \in Indices, pte'[<<l, j>>] = pages'[k][i]
        PROVE  l = k
    <3>1. CASE k = m
      <4>1. pte'[<<l, j>>] \in new
        BY <2>2, <2>3, <3>1
      <4>2. pte[<<l, j>>] # pte'[<<l, j>>]
        BY <1>5, <4>1, PointerAssumption
      <4> QED
        BY <3>1, <4>2
    <3>2. CASE k # m
      <4>1. l # m /\ pte'[<<l, j>>] = pte[<<l, j>>]
        BY <1>4, <2>2, <2>3, <3>2, PointerAssumption
      <4>2. k \in InUse /\ pages'[k] = pages[k]
        BY <1>2, <3>2
      <4>3. pages[k][i] \in Pages /\ i \in DOMAIN pages[k] /\ pte[<<l, j>>] = pages[k][i]
        BY <2>3, <4>1, <4>2
      <4> QED
        BY <4>2, <4>3 DEF PageInv, ArrayInv
    <3> QED
      BY <3>1, <3>2
  <2>4. ASSUME NEW k \in InUse', NEW i \in DOMAIN pages'[k], pages'[k][i] \in Pages,
               NEW l \in InUse', NEW j \in DOMAIN pages'[l], pages'[l][j] = pages'[k][i]
        PROVE  l = k
    <3>1. k = m <=> l = m
      BY <2>2, <2>4
    <3>2. CASE k # m
      BY <1>2, <2>4, <3>1, <3>2 DEF PageInv, ArrayInv
    <3> QED
      BY <3>1, <3>2
  <2> QED
    BY <2>2, <2>3, <2>4 DEF ArrayInv
<1>9. LengthInv'
  <2> SUFFICES ASSUME NEW v \in vmas', tracer'[v.mapping] = "live"
               PROVE  0 .. v.end - 1 \subseteq DOMAIN pages'[v.mapping]
    BY DEF LengthInv
  <2>1. CASE v \in vmas
    <3>1. v.mapping \in InUse /\ v.mapping # m
      BY <1>2, <2>1 DEF VMAInv, UseInv
    <3>2. tracer[v.mapping] = "live"
      BY <1>1, <1>2, <3>1 DEF VMAInv, TypeOK
    <3> QED
      BY <1>2, <2>1, <3>1, <3>2 DEF PageInv, LengthInv
  <2>2. CASE v = [mapping |-> m, start |-> 0, end |-> n]
    <3>1. tracer'[m] = kind
      BY <1>1 DEF VMAInv, TypeOK
    <3> QED
      BY <1>2, <2>2, <3>1
  <2> QED
    BY <1>1, <2>1, <2>2
<1> QED
  BY <1>3, <1>6, <1>7, <1>8, <1>9 DEF PageInv

LEMMA MmapPage ==
  ASSUME VMAInv, PageInv, NEW m \in Mappings, paging_mmap(m)
  PROVE  PageInv'
<1>1. CASE MapDemand(m)
  <2>1. Fresh(m) /\ UNCHANGED <<pte, held>>
    BY <1>1 DEF MapDemand
  <2>2. /\ {} \in SUBSET (Pages \ held) /\ held' = held \cup {}
        /\ pte' \in [Mappings \X Indices -> Pages \cup {Null}]
        /\ \A i \in Indices : pte'[<<m, i>>] = Null
    BY <2>1, FreshPages DEF VMAInv, TypeOK
  <2>3. PICK n \in 1 .. MaxPages :
          \/ \E array \in [0 .. n - 1 -> {Null, Stale}] : Map(m, n, "live", array)
          \/ Map(m, n, "bare", <<>>)
    BY <1>1 DEF MapDemand
  <2>4. CASE \E array \in [0 .. n - 1 -> {Null, Stale}] : Map(m, n, "live", array)
    <3>1. PICK array \in [0 .. n - 1 -> {Null, Stale}] : Map(m, n, "live", array)
      BY <2>4
    <3>2. /\ DOMAIN array = 0 .. n - 1
          /\ \A j \in DOMAIN array : array[j] \in {} \cup {Null, Stale}
      OBVIOUS
    <3> QED
      BY <2>1, <2>2, <3>1, <3>2, MapPages
  <2>5. CASE Map(m, n, "bare", <<>>)
    <3>1. DOMAIN <<>> = {}
      OBVIOUS
    <3> QED
      BY <2>1, <2>2, <2>5, <3>1, MapPages
  <2> QED
    BY <2>3, <2>4, <2>5
<1>2. CASE MapPrepaged(m)
  <2>1. PICK n \in 1 .. MaxPages : \E new \in Injection(0 .. n - 1, Pages \ held) :
          /\ Map(m, n, "live", new)
          /\ pte' = [x \in DOMAIN pte |-> IF x[1] = m /\ x[2] < n THEN new[x[2]] ELSE pte[x]]
          /\ held' = held \cup Range(new)
    BY <1>2 DEF MapPrepaged
  <2>2. PICK new \in Injection(0 .. n - 1, Pages \ held) :
          /\ Map(m, n, "live", new)
          /\ pte' = [x \in DOMAIN pte |-> IF x[1] = m /\ x[2] < n THEN new[x[2]] ELSE pte[x]]
          /\ held' = held \cup Range(new)
    BY <2>1
  <2>3. /\ new \in [0 .. n - 1 -> Pages \ held]
        /\ \A i, j \in 0 .. n - 1 : new[i] = new[j] => i = j
    BY DEF Injection, IsInjective
  <2>4. /\ Range(new) \in SUBSET (Pages \ held)
        /\ \A i \in 0 .. n - 1 : new[i] \in Range(new)
    BY <2>3 DEF Range
  <2>5. Fresh(m)
    BY <1>2 DEF MapPrepaged
  <2>6. \A k \in Mappings, i \in Indices :
          pte'[<<k, i>>] = IF k = m /\ i < n THEN new[i] ELSE pte[<<k, i>>]
    BY <2>2 DEF VMAInv, TypeOK
  <2>7. \A i \in Indices : pte[<<m, i>>] = Null /\ (i < n => i \in 0 .. n - 1)
    BY <2>5, FreshPages DEF Indices
  <2>8. pte' \in [Mappings \X Indices -> Pages \cup {Null}]
    <3>1. \A x \in Mappings \X Indices : x[1] \in Mappings /\ x[2] \in Indices
      OBVIOUS
    <3> QED
      BY <2>2, <2>3, <2>7, <3>1 DEF VMAInv, TypeOK
  <2>9. \A k \in Mappings, i \in Indices :
          \/ pte'[<<k, i>>] = pte[<<k, i>>]
          \/ k = m /\ i < n /\ pte'[<<k, i>>] \in Range(new)
    BY <2>4, <2>6, <2>7
  <2>10. \A i, j \in Indices :
           pte'[<<m, i>>] # Null /\ pte'[<<m, i>>] = pte'[<<m, j>>] => i = j
    BY <2>3, <2>6, <2>7, PointerAssumption
  <2>11. /\ DOMAIN new = 0 .. n - 1
         /\ \A j \in DOMAIN new : new[j] \in Range(new) \cup {Null, Stale}
    BY <2>3, <2>4
  <2>12. Map(m, n, "live", new) /\ held' = held \cup Range(new)
    BY <2>2
  <2> QED
    BY <2>4, <2>5, <2>8, <2>9, <2>10, <2>11, <2>12, MapPages
<1>3. CASE MapFails(m)
  <2>1. /\ Fresh(m) /\ held \subseteq held'
        /\ tracer' = [tracer EXCEPT ![m] = "lost"]
        /\ UNCHANGED <<pages, vmas, pte, fault>>
    BY <1>3 DEF MapFails
  <2>2. InUse' = InUse
    BY <2>1, FreshUnused DEF InUse, VMAInv, TypeOK
  <2>3. FlightInv' /\ RecordInv'
    BY <2>1, QuietPages DEF Fresh
  <2>4. CoverInv' /\ MappedPagesHeld' /\ ArrayInv'
    BY <2>1, <2>2 DEF PageInv, CoverInv, MappedPagesHeld, ArrayInv, Covers
  <2>5. LengthInv'
    BY <2>1 DEF PageInv, LengthInv, VMAInv, TypeOK
  <2> QED
    BY <2>3, <2>4, <2>5 DEF PageInv
<1>4. CASE MapOops(m)
  <2>1. UNCHANGED <<tracer, vmas, pages, pte, held, fault>>
    BY <1>4 DEF MapOops, state
  <2> QED
    BY <2>1, SamePages DEF InFlight
<1> QED
  BY <1>1, <1>2, <1>3, <1>4 DEF paging_mmap

LEMMA OpenPage ==
  ASSUME VMAInv, PageInv, NEW v \in vmas, NEW at \in Indices, paging_vma_open(v, at)
  PROVE  PageInv'
<1> DEFINE lower == [v EXCEPT !.end = at]
<1> DEFINE upper == [v EXCEPT !.start = at]
<1>1. /\ vmas' = (vmas \ {v}) \cup {lower, upper}
      /\ v.start < at /\ at < v.end /\ Quiet
      /\ UNCHANGED <<tracer, pages, pte, held, fault>>
  BY DEF paging_vma_open
<1>2. v \in VMAs
  BY DEF VMAInv, TypeOK
<1>3. /\ lower.mapping = v.mapping /\ lower.start = v.start /\ lower.end = at
      /\ upper.mapping = v.mapping /\ upper.start = at /\ upper.end = v.end
  BY <1>2 DEF VMAs
<1> HIDE DEF lower, upper
<1>4. CoverInv'
  <2>1. \A m \in Mappings, i \in Indices : Covers(v, m, i) => Covers(lower, m, i) \/ Covers(upper, m, i)
    BY <1>2, <1>3 DEF Covers, VMAs, Indices
  <2> SUFFICES ASSUME NEW m \in Mappings, NEW i \in Indices, pte[<<m, i>>] # Null
               PROVE  \E w \in vmas' : Covers(w, m, i)
    BY <1>1 DEF CoverInv, Covers
  <2>2. PICK w \in vmas : Covers(w, m, i)
    BY DEF PageInv, CoverInv
  <2> QED
    BY <1>1, <2>1, <2>2
<1>5. LengthInv'
  <2>1. tracer[v.mapping] = "live" => 0 .. at - 1 \subseteq DOMAIN pages[v.mapping]
    BY <1>1, <1>2 DEF PageInv, LengthInv, VMAs, Indices
  <2> QED
    BY <1>1, <1>3, <2>1 DEF PageInv, LengthInv
<1>6. FlightInv' /\ RecordInv'
  BY <1>1, QuietPages
<1>7. MappedPagesHeld' /\ ArrayInv'
  BY <1>1 DEF PageInv, MappedPagesHeld, ArrayInv, InUse
<1> QED
  BY <1>4, <1>5, <1>6, <1>7 DEF PageInv

\* close gives back only pages of its own mapping, and only once no VMA of it is left.
LEMMA ClosePage ==
  ASSUME VMAInv, PageInv, NEW v \in vmas, paging_vma_close(v)
  PROVE  PageInv'
<1> DEFINE m == v.mapping
<1> DEFINE freed == {pages[m][i] : i \in Recorded(v)}
<1>1. /\ vmas' = vmas \ {v} /\ Quiet
      /\ pte' = [x \in DOMAIN pte |->
                   IF x[1] = m /\ x[2] \in v.start .. v.end - 1 THEN Null ELSE pte[x]]
      /\ UNCHANGED <<pages, fault>>
  BY DEF paging_vma_close
<1>2. v \in VMAs /\ m \in Mappings /\ m \in InUse /\ InUse \subseteq Mappings
  BY DEF VMAInv, TypeOK, VMAs, UseInv, InUse
<1>3. /\ DOMAIN pte' = Mappings \X Indices /\ DOMAIN pte = Mappings \X Indices
      /\ \A x \in Mappings \X Indices : pte'[x] # Null => pte'[x] = pte[x]
  BY <1>1 DEF VMAInv, TypeOK
<1>4. FlightInv' /\ RecordInv'
  BY <1>1, QuietPages
<1>5. CoverInv'
  <2> SUFFICES ASSUME NEW k \in Mappings, NEW i \in Indices, pte'[<<k, i>>] # Null
               PROVE  \E w \in vmas' : Covers(w, k, i)
    BY DEF CoverInv, Covers
  <2>1. pte[<<k, i>>] # Null /\ ~(k = m /\ i \in v.start .. v.end - 1)
    BY <1>1, <1>3
  <2>2. PICK w \in vmas : Covers(w, k, i)
    BY <2>1 DEF PageInv, CoverInv
  <2>3. w # v
    BY <1>2, <2>1, <2>2 DEF Covers, VMAs, Indices
  <2> QED
    BY <1>1, <2>2, <2>3
<1>6. CASE UNCHANGED <<tracer, held>>
  <2>1. MappedPagesHeld'
    BY <1>3, <1>6 DEF PageInv, MappedPagesHeld
  <2>2. ArrayInv'
    <3>1. InUse' = InUse
      BY <1>6 DEF InUse
    <3>2. \A k \in Mappings, j \in Indices, page \in Pages : pte'[<<k, j>>] = page => pte[<<k, j>>] = page
      BY <1>3, PointerAssumption
    <3> QED
      BY <1>1, <1>6, <3>1, <3>2 DEF PageInv, ArrayInv
  <2>3. LengthInv'
    BY <1>1, <1>6 DEF PageInv, LengthInv
  <2> QED
    BY <1>4, <1>5, <2>1, <2>2, <2>3 DEF PageInv
<1>7. CASE /\ tracer[m] # "bare" /\ \A i \in Recorded(v) : pages[m][i] # Stale
           /\ held' = held \ freed
           /\ tracer' = [tracer EXCEPT ![m] = "freed"]
  <2>1. /\ tracer'[m] = "freed" /\ \A k \in Mappings \ {m} : tracer'[k] = tracer[k]
        /\ InUse' = InUse \ {m}
    BY <1>2, <1>7 DEF VMAInv, TypeOK, InUse
  <2>2. VMAsOf(m)' = {}
    <3>1. tracer' # tracer
      BY <1>2, <2>1 DEF InUse
    <3> QED
      BY <3>1, CloseVMA
  <2>3. \A w \in vmas' : w.mapping # m
    BY <2>2 DEF VMAsOf
  <2>4. \A i \in Indices : pte'[<<m, i>>] = Null
    BY <1>2, <1>5, <2>3 DEF CoverInv, Covers
  <2>5. \A page \in freed : \E i \in DOMAIN pages[m] : page = pages[m][i] /\ page \in Pages
    <3>1. tracer[m] = "live"
      BY <1>2, <1>7 DEF InUse
    <3>2. Recorded(v) \subseteq DOMAIN pages[m]
      <4>1. 0 .. v.end - 1 \subseteq DOMAIN pages[m]
        BY <3>1 DEF PageInv, LengthInv
      <4> QED
        BY <1>2, <4>1 DEF Recorded, Visited, get_pages_count, VMAs
    <3>3. \A i \in Recorded(v) : pages[m][i] # Null /\ pages[m][i] # Stale
      BY <1>7 DEF Recorded
    <3>4. \A i \in DOMAIN pages[m] : pages[m][i] \in Pages \cup {Null, Stale}
      BY <1>2 DEF VMAInv, TypeOK
    <3> QED
      BY <3>2, <3>3, <3>4
  <2>6. \A k \in Mappings, j \in Indices : k # m => pte[<<k, j>>] \notin freed
    BY <1>2, <2>5 DEF PageInv, ArrayInv
  <2>7. \A k \in InUse : k # m => \A j \in DOMAIN pages[k] : pages[k][j] \notin freed
    BY <1>2, <2>5 DEF PageInv, ArrayInv
  <2> HIDE DEF freed
  <2>8. MappedPagesHeld'
    <3> SUFFICES ASSUME NEW x \in Mappings \X Indices, pte'[x] # Null,
                        NEW y \in Mappings \X Indices
                 PROVE  pte'[x] \in held' /\ (pte'[y] = pte'[x] => y = x)
      BY <1>3 DEF MappedPagesHeld
    <3> PICK k \in Mappings, j \in Indices : x = <<k, j>>
      OBVIOUS
    <3>1. pte[x] # Null /\ pte'[x] = pte[x] /\ (pte'[y] = pte'[x] => pte[y] = pte[x])
      BY <1>3
    <3>2. pte[x] \in held /\ (pte[y] = pte[x] => y = x)
      BY <1>3, <3>1 DEF PageInv, MappedPagesHeld
    <3>3. k # m
      BY <2>4
    <3> QED
      BY <1>7, <2>6, <3>1, <3>2, <3>3
  <2>9. ArrayInv'
    <3>1. \A k \in Mappings, j \in Indices, page \in Pages : pte'[<<k, j>>] = page => pte[<<k, j>>] = page
      BY <1>3, PointerAssumption
    <3> QED
      BY <1>1, <1>7, <2>1, <2>7, <3>1 DEF PageInv, ArrayInv
  <2>10. LengthInv'
    <3>1. \A w \in vmas' : w \in vmas /\ w.mapping \in Mappings \ {m}
      BY <1>1, <2>3 DEF VMAInv, TypeOK, VMAs
    <3> QED
      BY <1>1, <2>1, <3>1 DEF PageInv, LengthInv
  <2> QED
    BY <1>4, <1>5, <2>8, <2>9, <2>10 DEF PageInv
<1> QED
  BY <1>6, <1>7 DEF paging_vma_close

LEMMA NextPage == VMAInv /\ PageInv /\ [Next]_vars => PageInv'
<1> SUFFICES ASSUME VMAInv, PageInv, [Next]_vars PROVE PageInv'
  OBVIOUS
<1>1. CASE WriteParameter \/ kmod_paging_exit \/ Orphaned \/ Stopped \/ UNCHANGED vars
  <2>1. UNCHANGED <<tracer, vmas, pages, pte, held, fault>>
    BY <1>1 DEF WriteParameter, kmod_paging_exit, Orphaned, Stopped, vars, state
  <2> QED
    BY <2>1, SamePages DEF InFlight
<1> QED
  BY <1>1, FaultPage, MmapPage, OpenPage, ClosePage DEF Next

LEMMA PageInvariant == Spec => []PageInv
  BY InitPage, NextPage, VMAInvariant, PTL DEF Spec

\* Whatever threads fault and whatever is split and closed, a page the process can reach
\* has not been freed, and no other address reaches it.
THEOREM MappedPagesStayHeld == Spec => []MappedPagesHeld
  BY PageInvariant, PTL DEF PageInv

-----------------------------------------------------------------------------
(* MirrorInv                                                               *)

Mirrors(m, i) ==
  \/ pages[m][i] = pte[<<m, i>>]
  \/ pte[<<m, i>>] = Null /\ pages[m][i] = Stale
  \/ \E t \in Threads :
       fault[t] = [pc |-> "record", mapping |-> m, at |-> i, offset |-> i, page |-> pte[<<m, i>>]]

AllMirror ==
  \A v \in vmas : tracer[v.mapping] = "live" =>
    \A i \in v.start .. v.end - 1 : Mirrors(v.mapping, i)

LEMMA MirrorDef ==
  /\ MirrorInv <=> WholeInv /\ ("split" \notin mishaps => AllMirror)
  /\ MirrorInv' <=> WholeInv' /\ ("split" \notin mishaps' => AllMirror')
  BY DEF MirrorInv, ArrayMirrorsTable, AllMirror, Mirrors

LEMMA InitMirror == Init => MirrorInv
  BY DEF Init, MirrorInv, WholeInv, ArrayMirrorsTable, Idle

\* A step that leaves table and arrays alone, and recording faults where they are.
LEMMA SameMirror ==
  ASSUME MirrorInv, UNCHANGED <<tracer, vmas, pages, pte>>, mishaps \subseteq mishaps',
         \A u \in Threads :
           /\ fault[u].offset = fault[u].at => fault'[u].offset = fault'[u].at
           /\ fault[u].pc = "record" => fault'[u] = fault[u]
  PROVE  MirrorInv'
<1>1. WholeInv'
  BY DEF MirrorInv, WholeInv
<1>2. \A m, i : Mirrors(m, i) => Mirrors(m, i)'
  <2> SUFFICES ASSUME NEW m, NEW i, Mirrors(m, i) PROVE Mirrors(m, i)'
    OBVIOUS
  <2> DEFINE recording == [pc |-> "record", mapping |-> m, at |-> i, offset |-> i,
                           page |-> pte[<<m, i>>]]
  <2>1. recording.pc = "record"
    OBVIOUS
  <2> HIDE DEF recording
  <2>2. \A u \in Threads : fault[u] = recording => fault'[u] = recording
    BY <2>1
  <2> QED
    BY <2>2 DEF Mirrors, recording
<1> QED
  BY <1>1, <1>2, MirrorDef DEF AllMirror

\* The steps of a fault before it has a page to record, and its returns.
LEMMA FaultSameMirror ==
  ASSUME VMAInv, MirrorInv, NEW t \in Threads, fault[t].pc # "record",
         UNCHANGED <<tracer, vmas, pages, pte>>, mishaps \subseteq mishaps',
         \A u \in Threads \ {t} : fault'[u] = fault[u],
         fault[t].offset = fault[t].at => fault'[t].offset = fault'[t].at
  PROVE  MirrorInv'
  BY SameMirror

\* A fault that has mapped its page mirrors it until it is recorded.
LEMMA RemapMirror ==
  ASSUME VMAInv, PageInv, MirrorInv, NEW t \in Threads,
         NEW m \in Mappings, NEW i \in Indices, NEW page \in Pages,
         UNCHANGED <<tracer, vmas, pages, mishaps>>,
         pte[<<m, i>>] = Null, pte' = [pte EXCEPT ![<<m, i>>] = page],
         fault[t].pc = "remap", fault[t].offset = fault[t].at \/ "split" \in mishaps,
         fault'[t] \in Faults, fault'[t].pc = "record", fault'[t].page = page,
         fault'[t].mapping = m, fault'[t].at = i, fault'[t].offset = fault[t].offset,
         fault[t].at = i,
         \A u \in Threads \ {t} : fault'[u] = fault[u]
  PROVE  MirrorInv'
<1>1. WholeInv'
  BY DEF MirrorInv, WholeInv
<1> SUFFICES ASSUME "split" \notin mishaps PROVE AllMirror'
  BY <1>1, MirrorDef
<1>2. AllMirror
  BY MirrorDef
<1>3. pte'[<<m, i>>] = page /\ \A x \in Mappings \X Indices : x # <<m, i>> => pte'[x] = pte[x]
  BY DEF VMAInv, TypeOK
<1>4. Mirrors(m, i)'
  <2>1. fault'[t] = [pc |-> "record", mapping |-> m, at |-> i, offset |-> i, page |-> page]
    BY DEF Faults
  <2> QED
    BY <1>3, <2>1 DEF Mirrors
<1>5. ASSUME NEW k \in Mappings, NEW j \in Indices, <<k, j>> # <<m, i>>, Mirrors(k, j)
      PROVE  Mirrors(k, j)'
  <2> DEFINE recording == [pc |-> "record", mapping |-> k, at |-> j, offset |-> j,
                           page |-> pte[<<k, j>>]]
  <2>1. pte'[<<k, j>>] = pte[<<k, j>>]
    BY <1>3, <1>5
  <2>2. recording.pc = "record"
    OBVIOUS
  <2> HIDE DEF recording
  <2>3. \A u \in Threads : fault[u] = recording => fault'[u] = recording
    BY <2>2
  <2> QED
    BY <1>5, <2>1, <2>3 DEF Mirrors, recording
<1>6. ASSUME NEW v \in vmas, tracer[v.mapping] = "live", NEW j \in v.start .. v.end - 1
      PROVE  Mirrors(v.mapping, j)'
  <2>1. Mirrors(v.mapping, j)
    BY <1>2, <1>6 DEF AllMirror
  <2>2. v \in VMAs
    BY DEF VMAInv, TypeOK
  <2>3. v.mapping \in Mappings /\ j \in Indices
    BY <2>2, BoundAssumption DEF VMAs, Indices
  <2>4. CASE <<v.mapping, j>> = <<m, i>>
    <3>1. v.mapping = m /\ j = i
      BY <2>4
    <3> QED
      BY <1>4, <3>1
  <2> QED
    BY <1>5, <2>1, <2>3, <2>4
<1> QED
  BY <1>6 DEF AllMirror

\* What the fault has recorded, the array and the table have in common.
LEMMA RecordMirror ==
  ASSUME VMAInv, MirrorInv, NEW t \in Threads, NEW m \in Mappings, NEW i \in Indices,
         NEW page \in Pages, NEW array,
         UNCHANGED <<tracer, vmas, pte, mishaps>>,
         fault[t].pc = "record", fault[t].mapping = m, fault[t].at = i,
         pte[<<m, i>>] = page,
         "split" \notin mishaps => DOMAIN array = DOMAIN pages[m] /\ array[i] = page
                                   /\ \A j \in DOMAIN array : j # i => array[j] = pages[m][j],
         pages' = [pages EXCEPT ![m] = array],
         fault' = [fault EXCEPT ![t] = Idle]
  PROVE  MirrorInv'
<1>1. /\ pages'[m] = array /\ \A k \in Mappings : k # m => pages'[k] = pages[k]
      /\ fault'[t] = Idle /\ \A u \in Threads : u # t => fault'[u] = fault[u]
  BY DEF VMAInv, TypeOK
<1> SUFFICES ASSUME "split" \notin mishaps PROVE WholeInv' /\ AllMirror'
  BY MirrorDef DEF WholeInv
<1>2. WholeInv /\ AllMirror
  BY MirrorDef
<1>3. \A v \in vmas : v.mapping \in Mappings /\ v.start \in 0 .. MaxPages /\ v.end \in 0 .. MaxPages
  BY DEF VMAInv, TypeOK, VMAs
<1>4. WholeInv'
  <2>1. \A u \in Threads : fault'[u].offset = fault'[u].at
    BY <1>1, <1>2 DEF WholeInv, Idle
  <2>2. \A v \in vmas : DOMAIN pages'[v.mapping] = DOMAIN pages[v.mapping]
    BY <1>1, <1>3
  <2> QED
    BY <1>2, <2>1, <2>2 DEF WholeInv
<1>5. ASSUME NEW v \in vmas, tracer[v.mapping] = "live", NEW j \in v.start .. v.end - 1
      PROVE  Mirrors(v.mapping, j)'
  <2> DEFINE k == v.mapping
  <2> DEFINE recording == [pc |-> "record", mapping |-> k, at |-> j, offset |-> j,
                           page |-> pte[<<k, j>>]]
  <2>1. Mirrors(k, j)
    BY <1>2, <1>5 DEF AllMirror
  <2>2. j \in DOMAIN pages[k]
    BY <1>2, <1>3, <1>5 DEF WholeInv
  <2>3. CASE k = m /\ j = i
    <3>1. pages'[k][j] = pte'[<<k, j>>]
      BY <1>1, <2>3
    <3> QED
      BY <3>1 DEF Mirrors
  <2>4. CASE ~(k = m /\ j = i)
    <3>1. pages'[k][j] = pages[k][j]
      BY <1>1, <1>3, <2>2, <2>4
    <3>2. recording.mapping = k /\ recording.at = j
      OBVIOUS
    <3>3. \A u \in Threads : fault[u] = recording => u # t
      <4> HIDE DEF recording
      <4> QED
        BY <2>4, <3>2
    <3> HIDE DEF recording
    <3>4. \A u \in Threads : fault[u] = recording => fault'[u] = recording
      BY <1>1, <3>3
    <3> QED
      BY <2>1, <3>1, <3>4 DEF Mirrors, recording
  <2> QED
    BY <2>3, <2>4
<1> QED
  BY <1>4, <1>5 DEF AllMirror

LEMMA FaultMirror ==
  ASSUME VMAInv, PageInv, MirrorInv, NEW t \in Threads, do_fault(t)
  PROVE  MirrorInv'
<1>1. UNCHANGED <<tracer, vmas>>
  BY FaultKeeps
<1>2. fault \in [Threads -> Faults] /\ fault[t] \in Faults
  BY DEF VMAInv, TypeOK, Faults
<1>3. CASE FaultReturn(t) /\ fault[t].pc # "record" /\ UNCHANGED <<pages, pte>>
             /\ mishaps \subseteq mishaps'
  BY <1>1, <1>2, <1>3, FaultSameMirror DEF FaultReturn, Idle
<1>4. CASE UNCHANGED <<pages, pte, fault, mishaps>>
  BY <1>1, <1>4, SameMirror
<1>5. CASE TakeFault(t)
  <2>1. UNCHANGED <<pages, pte, mishaps>> /\ fault[t].pc = "idle"
    BY <1>5 DEF TakeFault, FaultAt, state
  <2>2. PICK v \in vmas : \E at \in v.start .. v.end - 1 :
          fault' = [fault EXCEPT ![t] = [pc |-> "alloc", mapping |-> v.mapping, at |-> at,
                                         offset |-> Offset(v, at), page |-> Null]]
    BY <1>5 DEF TakeFault
  <2>3. PICK at \in v.start .. v.end - 1 :
          fault' = [fault EXCEPT ![t] = [pc |-> "alloc", mapping |-> v.mapping, at |-> at,
                                         offset |-> Offset(v, at), page |-> Null]]
    BY <2>2
  <2>4. fault'[t].at = at /\ fault'[t].offset = at - v.start
        /\ \A u \in Threads \ {t} : fault'[u] = fault[u]
    BY <1>2, <2>3 DEF Offset
  <2>5. CASE "split" \in mishaps
    BY <2>1, <2>5 DEF MirrorInv, WholeInv, ArrayMirrorsTable
  <2>6. CASE "split" \notin mishaps
    <3>1. v.start = 0 /\ at \in Int
      BY <2>6 DEF MirrorInv, WholeInv
    <3>2. fault'[t].offset = fault'[t].at
      BY <2>4, <3>1
    <3> QED
      BY <1>1, <2>1, <2>4, <3>2, FaultSameMirror
  <2> QED
    BY <2>5, <2>6
<1>6. CASE AllocPage(t)
  <2>1. UNCHANGED <<pages, pte, mishaps>> /\ fault[t].pc = "alloc"
    BY <1>6 DEF AllocPage, FaultAt, state
  <2>2. CASE \E page \in Pages : fault' = [fault EXCEPT ![t].pc = "count", ![t].page = page]
    <3>1. PICK page \in Pages : fault' = [fault EXCEPT ![t].pc = "count", ![t].page = page]
      BY <2>2
    <3>2. /\ fault'[t].at = fault[t].at /\ fault'[t].offset = fault[t].offset
          /\ \A u \in Threads \ {t} : fault'[u] = fault[u]
      BY <1>2, <3>1, FindsPage
    <3> QED
      BY <1>1, <2>1, <3>2, FaultSameMirror
  <2> QED
    BY <1>3, <1>6, <2>1, <2>2 DEF AllocPage
<1>7. CASE CountPage(t)
  <2>1. UNCHANGED <<pages, pte, mishaps>> /\ fault[t].pc = "count" /\ FaultTo(t, "remap")
    BY <1>7 DEF CountPage, FaultAt, state
  <2>2. /\ fault'[t].at = fault[t].at /\ fault'[t].offset = fault[t].offset
        /\ \A u \in Threads \ {t} : fault'[u] = fault[u]
    BY <1>2, <2>1, GoesTo
  <2> QED
    BY <1>1, <2>1, <2>2, FaultSameMirror
<1>8. CASE RemapPage(t)
  <2> DEFINE x == <<fault[t].mapping, fault[t].at>>
  <2>1. UNCHANGED pages /\ fault[t].pc = "remap"
    BY <1>8 DEF RemapPage, FaultAt, state
  <2>2. CASE /\ pte[x] = Null /\ pte' = [pte EXCEPT ![x] = fault[t].page]
             /\ FaultTo(t, "record") /\ UNCHANGED mishaps
    <3>1. fault[t].mapping \in Mappings /\ fault[t].at \in Indices
      BY <2>1, FaultAddress
    <3>2. fault[t].page \in Pages
      BY <2>1 DEF PageInv, FlightInv, InFlight, VMAInv, TypeOK
    <3>3. fault[t].offset = fault[t].at \/ "split" \in mishaps
      BY DEF MirrorInv, WholeInv
    <3>4. /\ fault'[t] \in Faults /\ fault'[t].pc = "record" /\ fault'[t].page = fault[t].page
          /\ fault'[t].mapping = fault[t].mapping /\ fault'[t].at = fault[t].at
          /\ fault'[t].offset = fault[t].offset
          /\ \A u \in Threads \ {t} : fault'[u] = fault[u]
      BY <1>2, <2>2, GoesTo
    <3> QED
      BY <1>1, <2>1, <2>2, <3>1, <3>2, <3>3, <3>4, RemapMirror
  <2> QED
    BY <1>3, <1>4, <1>8, <2>1, <2>2 DEF RemapPage
<1>9. CASE RecordPage(t)
  <2> DEFINE m == fault[t].mapping
  <2> DEFINE array == [pages[m] EXCEPT ![fault[t].offset] = fault[t].page]
  <2>1. UNCHANGED <<pte, mishaps>> /\ fault[t].pc = "record"
    BY <1>9 DEF RecordPage, FaultAt
  <2>2. CASE /\ pages' = [pages EXCEPT ![m][fault[t].offset] = fault[t].page]
             /\ FaultReturn(t) /\ tracer[m] # "bare"
    <3>1. PICK v \in vmas : Covers(v, m, fault[t].at)
      BY <2>1 DEF VMAInv, UseInv, Idle
    <3>2. m \in Mappings /\ fault[t].at \in Indices
      BY <1>2, <3>1 DEF VMAInv, TypeOK, VMAs, Covers, Faults
    <3>3. fault[t].page \in Pages /\ pte[<<m, fault[t].at>>] = fault[t].page
      BY <2>1 DEF PageInv, RecordInv
    <3>4. pages' = [pages EXCEPT ![m] = array] /\ fault' = [fault EXCEPT ![t] = Idle]
      BY <2>2, Zenon DEF FaultReturn
    <3>5. ASSUME "split" \notin mishaps
          PROVE  /\ DOMAIN array = DOMAIN pages[m] /\ array[fault[t].at] = fault[t].page
                 /\ \A j \in DOMAIN array : j # fault[t].at => array[j] = pages[m][j]
      <4>1. fault[t].offset = fault[t].at /\ v.start = 0
            /\ (tracer[m] = "live" => DOMAIN pages[m] = 0 .. v.end - 1)
        BY <3>1, <3>5 DEF MirrorInv, WholeInv, Covers
      <4>2. tracer[m] = "live"
        BY <2>2, <3>1 DEF VMAInv, UseInv, InUse, Covers
      <4>3. fault[t].at \in DOMAIN pages[m]
        BY <3>1, <3>2, <4>1, <4>2 DEF Covers, Indices, VMAInv, TypeOK, VMAs
      <4>4. array = [pages[m] EXCEPT ![fault[t].at] = fault[t].page]
        BY <4>1
      <4> HIDE DEF array
      <4> QED
        BY <4>3, <4>4
    <3> HIDE DEF array
    <3> QED
      BY <1>1, <2>1, <3>2, <3>3, <3>4, <3>5, RecordMirror
  <2> QED
    BY <1>4, <1>9, <2>1, <2>2 DEF RecordPage
<1> QED
  BY <1>5, <1>6, <1>7, <1>8, <1>9 DEF do_fault

-----------------------------------------------------------------------------
\* A mapping nobody has touched keeps what it mirrors.
LEMMA StillMirrors ==
  ASSUME NEW m, NEW i, Mirrors(m, i), UNCHANGED fault,
         pages'[m] = pages[m], pte'[<<m, i>>] = pte[<<m, i>>]
  PROVE  Mirrors(m, i)'
  BY DEF Mirrors

\* The array of a new mapping holds what is mapped, or was not cleared.
LEMMA MapMirror ==
  ASSUME VMAInv, MirrorInv, NEW m \in Mappings, Fresh(m), NEW n \in 1 .. MaxPages,
         NEW kind \in {"live", "bare"}, NEW array, Map(m, n, kind, array),
         kind = "live" => DOMAIN array = 0 .. n - 1,
         \A k \in Mappings, i \in Indices : k # m => pte'[<<k, i>>] = pte[<<k, i>>],
         kind = "live" => \A i \in 0 .. n - 1 :
           array[i] = pte'[<<m, i>>] \/ (array[i] = Stale /\ pte'[<<m, i>>] = Null)
  PROVE  MirrorInv'
<1> DEFINE new == [mapping |-> m, start |-> 0, end |-> n]
<1>1. /\ vmas' = vmas \cup {new}
      /\ tracer'[m] = kind /\ \A k \in Mappings : k # m => tracer'[k] = tracer[k]
      /\ pages'[m] = array /\ \A k \in Mappings : k # m => pages'[k] = pages[k]
      /\ UNCHANGED <<fault, mishaps>>
  BY DEF Map, VMAInv, TypeOK
<1>2. new.mapping = m /\ new.start = 0 /\ new.end = n
  OBVIOUS
<1>3. \A v \in vmas : v.mapping # m
  BY FreshUnused DEF VMAsOf
<1>4. \A v \in vmas : v.mapping \in Mappings /\ \A i \in v.start .. v.end - 1 : i \in Indices
  BY BoundAssumption DEF VMAInv, TypeOK, VMAs, Indices
<1> HIDE DEF new
<1> SUFFICES ASSUME "split" \notin mishaps PROVE WholeInv' /\ AllMirror'
  BY <1>1, MirrorDef DEF WholeInv
<1>5. WholeInv /\ AllMirror
  BY MirrorDef
<1>6. WholeInv'
  BY <1>1, <1>2, <1>3, <1>4, <1>5 DEF WholeInv
<1>7. ASSUME NEW v \in vmas', tracer'[v.mapping] = "live", NEW i \in v.start .. v.end - 1
      PROVE  Mirrors(v.mapping, i)'
  <2>1. CASE v = new
    BY <1>1, <1>2, <1>7, <2>1 DEF Mirrors
  <2>2. CASE v \in vmas
    <3>1. v.mapping \in Mappings /\ v.mapping # m /\ i \in Indices
      BY <1>3, <1>4, <2>2
    <3>2. Mirrors(v.mapping, i)
      BY <1>1, <1>5, <1>7, <2>2, <3>1 DEF AllMirror
    <3>3. pages'[v.mapping] = pages[v.mapping]
      BY <1>1, <3>1
    <3>4. pte'[<<v.mapping, i>>] = pte[<<v.mapping, i>>]
      BY <3>1
    <3> QED
      BY <1>1, <3>2, <3>3, <3>4, StillMirrors
  <2> QED
    BY <1>1, <2>1, <2>2
<1> QED
  BY <1>6, <1>7 DEF AllMirror

LEMMA MmapMirror ==
  ASSUME VMAInv, PageInv, MirrorInv, NEW m \in Mappings, paging_mmap(m)
  PROVE  MirrorInv'
<1>1. CASE MapDemand(m)
  <2>1. Fresh(m) /\ UNCHANGED pte
    BY <1>1 DEF MapDemand
  <2>2. \A k \in Mappings, i \in Indices : k # m => pte'[<<k, i>>] = pte[<<k, i>>]
    BY <2>1
  <2>3. PICK n \in 1 .. MaxPages :
          \/ \E array \in [0 .. n - 1 -> {Null, Stale}] : Map(m, n, "live", array)
          \/ Map(m, n, "bare", <<>>)
    BY <1>1 DEF MapDemand
  <2>4. CASE \E array \in [0 .. n - 1 -> {Null, Stale}] : Map(m, n, "live", array)
    <3>1. PICK array \in [0 .. n - 1 -> {Null, Stale}] : Map(m, n, "live", array)
      BY <2>4
    <3>2. \A i \in 0 .. n - 1 : pte'[<<m, i>>] = Null /\ array[i] \in {Null, Stale}
      <4>1. 0 .. n - 1 \subseteq Indices
        BY BoundAssumption DEF Indices
      <4>2. \A i \in Indices : pte'[<<m, i>>] = Null
        BY <2>1, FreshPages
      <4> QED
        BY <4>1, <4>2
    <3>3. DOMAIN array = 0 .. n - 1
      OBVIOUS
    <3> QED
      BY <2>1, <2>2, <3>1, <3>2, <3>3, MapMirror
  <2>5. CASE Map(m, n, "bare", <<>>)
    BY <2>1, <2>2, <2>5, MapMirror
  <2> QED
    BY <2>3, <2>4, <2>5
<1>2. CASE MapPrepaged(m)
  <2>1. PICK n \in 1 .. MaxPages : \E new \in Injection(0 .. n - 1, Pages \ held) :
          /\ Map(m, n, "live", new)
          /\ pte' = [x \in DOMAIN pte |-> IF x[1] = m /\ x[2] < n THEN new[x[2]] ELSE pte[x]]
    BY <1>2 DEF MapPrepaged
  <2>2. PICK new \in Injection(0 .. n - 1, Pages \ held) :
          /\ Map(m, n, "live", new)
          /\ pte' = [x \in DOMAIN pte |-> IF x[1] = m /\ x[2] < n THEN new[x[2]] ELSE pte[x]]
    BY <2>1
  <2>3. DOMAIN new = 0 .. n - 1
    BY DEF Injection
  <2>4. \A k \in Mappings, i \in Indices :
          pte'[<<k, i>>] = IF k = m /\ i < n THEN new[i] ELSE pte[<<k, i>>]
    BY <2>2 DEF VMAInv, TypeOK
  <2>5. /\ \A i \in 0 .. n - 1 : new[i] = pte'[<<m, i>>]
        /\ \A k \in Mappings, i \in Indices : k # m => pte'[<<k, i>>] = pte[<<k, i>>]
    <3>1. 0 .. n - 1 \subseteq Indices
      BY BoundAssumption DEF Indices
    <3>2. \A i \in 0 .. n - 1 : i < n
      OBVIOUS
    <3> QED
      BY <2>4, <3>1, <3>2
  <2>6. Fresh(m) /\ Map(m, n, "live", new)
    BY <1>2, <2>2 DEF MapPrepaged
  <2> QED
    BY <2>3, <2>5, <2>6, MapMirror
<1>3. CASE MapFails(m)
  <2>1. Fresh(m) /\ UNCHANGED <<pages, vmas, pte, fault>> /\ mishaps \subseteq mishaps'
        /\ tracer' = [tracer EXCEPT ![m] = "lost"]
    BY <1>3 DEF MapFails
  <2>2. \A v \in vmas : tracer'[v.mapping] = tracer[v.mapping]
    BY <2>1, FreshUnused DEF VMAsOf, VMAInv, TypeOK, VMAs
  <2>3. \A k, i : Mirrors(k, i) => Mirrors(k, i)'
    BY <2>1 DEF Mirrors
  <2> QED
    BY <2>1, <2>2, <2>3, MirrorDef DEF WholeInv, AllMirror
<1>4. CASE MapOops(m)
  <2>1. UNCHANGED <<tracer, vmas, pages, pte, fault, mishaps>>
    BY <1>4 DEF MapOops, state
  <2> QED
    BY <2>1, SameMirror
<1> QED
  BY <1>1, <1>2, <1>3, <1>4 DEF paging_mmap

LEMMA CloseMirror ==
  ASSUME VMAInv, MirrorInv, NEW v \in vmas, paging_vma_close(v)
  PROVE  MirrorInv'
<1>1. /\ vmas' = vmas \ {v} /\ UNCHANGED <<pages, fault, mishaps>>
      /\ pte' = [x \in DOMAIN pte |->
                   IF x[1] = v.mapping /\ x[2] \in v.start .. v.end - 1 THEN Null ELSE pte[x]]
      /\ UNCHANGED tracer \/ tracer' = [tracer EXCEPT ![v.mapping] = "freed"]
  BY DEF paging_vma_close
<1>2. \A w \in vmas : w.mapping \in Mappings /\ \A i \in w.start .. w.end - 1 : i \in Indices
  BY BoundAssumption DEF VMAInv, TypeOK, VMAs, Indices
<1> SUFFICES ASSUME "split" \notin mishaps PROVE WholeInv' /\ AllMirror'
  BY <1>1, MirrorDef DEF WholeInv
<1>3. WholeInv /\ AllMirror
  BY MirrorDef
<1>4. \A w \in vmas' : w \in vmas /\ w.mapping # v.mapping
  BY <1>1, <1>3 DEF WholeInv
<1>5. \A w \in vmas' : tracer'[w.mapping] = tracer[w.mapping]
  BY <1>1, <1>2, <1>4 DEF VMAInv, TypeOK
<1>6. WholeInv'
  BY <1>1, <1>3, <1>4, <1>5 DEF WholeInv
<1>7. ASSUME NEW w \in vmas', tracer'[w.mapping] = "live", NEW i \in w.start .. w.end - 1
      PROVE  Mirrors(w.mapping, i)'
  <2>1. w \in vmas /\ w.mapping \in Mappings /\ w.mapping # v.mapping /\ i \in Indices
    BY <1>2, <1>4
  <2>2. Mirrors(w.mapping, i)
    BY <1>3, <1>5, <1>7, <2>1 DEF AllMirror
  <2>3. pte'[<<w.mapping, i>>] = pte[<<w.mapping, i>>]
    BY <1>1, <2>1 DEF VMAInv, TypeOK
  <2> QED
    BY <1>1, <2>2, <2>3, StillMirrors
<1> QED
  BY <1>6, <1>7 DEF AllMirror

LEMMA NextMirror == VMAInv /\ PageInv /\ MirrorInv /\ [Next]_vars => MirrorInv'
<1> SUFFICES ASSUME VMAInv, PageInv, MirrorInv, [Next]_vars PROVE MirrorInv'
  OBVIOUS
<1>1. CASE WriteParameter \/ kmod_paging_exit \/ Orphaned \/ Stopped \/ UNCHANGED vars
  <2>1. UNCHANGED <<tracer, vmas, pages, pte, fault, mishaps>>
    BY <1>1 DEF WriteParameter, kmod_paging_exit, Orphaned, Stopped, vars, state
  <2> QED
    BY <2>1, SameMirror
<1>2. ASSUME NEW v \in vmas, NEW at \in Indices, paging_vma_open(v, at)
      PROVE  MirrorInv'
  BY <1>2 DEF paging_vma_open, MirrorInv, WholeInv, ArrayMirrorsTable
<1> QED
  BY <1>1, <1>2, FaultMirror, MmapMirror, CloseMirror DEF Next

LEMMA MirrorInvariant == Spec => []MirrorInv
  BY InitMirror, NextMirror, VMAInvariant, PageInvariant, PTL DEF Spec

\* Until a VMA is split the array of the tracer mirrors the page table, whichever of
\* several faults maps and records its page first: close finds what it has to free.
THEOREM ArrayTellsWhatToFree == Spec => []ArrayMirrorsTable
  BY MirrorInvariant, PTL DEF MirrorInv

-----------------------------------------------------------------------------
(* What the counters count.                                                *)

Recording(t) == fault[t].pc = "record"

\* A page is in one array, at one place; a page still to be recorded is in none.
DistinctInv ==
  /\ \A m \in InUse : \A i, j \in DOMAIN pages[m] :
       pages[m][i] \in Pages /\ pages[m][i] = pages[m][j] => i = j
  /\ \A t \in Threads : Recording(t) =>
       /\ \A m \in InUse : \A i \in DOMAIN pages[m] : pages[m][i] # fault[t].page
       /\ \A u \in Threads : Recording(u) /\ fault[u].page = fault[t].page => u = t

\* S are the held pages that have been counted: those of the arrays and of the faults
\* past the count.  As long as nothing is lost only a fault about to count has another.
Counted(S) ==
  /\ allocate_page_counter = free_page_counter + Cardinality(S)
  /\ \A m \in InUse : \A i \in DOMAIN pages[m] : pages[m][i] \in Pages => pages[m][i] \in S
  /\ \A t \in Threads :
       /\ fault[t].pc \in {"remap", "record"} => fault[t].page \in S
       /\ fault[t].pc = "count" => fault[t].page \notin S
  /\ mishaps = {} =>
       \A page \in held \ S : \E t \in Threads : fault[t].pc = "count" /\ fault[t].page = page

CountInv == IsFiniteSet(held) /\ \E S \in SUBSET held : Counted(S)

CounterInv == DistinctInv /\ CountInv

LEMMA InitCounter == Init => CounterInv
<1> SUFFICES ASSUME Init PROVE CounterInv
  OBVIOUS
<1>1. /\ InUse = {} /\ held = {} /\ \A t \in Threads : fault[t].pc = "idle"
      /\ allocate_page_counter = 0 /\ free_page_counter = 0
  BY DEF Init, InUse, Idle
<1>2. DistinctInv
  BY <1>1 DEF DistinctInv, Recording
<1>3. Counted({})
  BY <1>1, FS_EmptySet DEF Counted
<1> QED
  BY <1>1, <1>2, <1>3, FS_EmptySet DEF CounterInv, CountInv

\* A step that leaves pages, arrays and counters alone, and faults that neither start
\* nor stop to count.
LEMMA SameCounter ==
  ASSUME CounterInv, UNCHANGED <<counts, tracer, pages, held>>, mishaps \subseteq mishaps',
         \A u \in Threads :
           /\ fault'[u].pc = "count" \/ fault[u].pc = "count" => fault'[u] = fault[u]
           /\ fault'[u].pc = "remap" => fault'[u] = fault[u]
           /\ fault'[u].pc = "record" => fault'[u] = fault[u]
  PROVE  CounterInv'
<1>1. InUse' = InUse
  BY DEF InUse
<1>2. DistinctInv'
  BY <1>1 DEF CounterInv, DistinctInv, Recording
<1>3. ASSUME NEW S \in SUBSET held, Counted(S)
      PROVE  Counted(S)'
  BY <1>1, <1>3 DEF Counted, counts
<1> QED
  BY <1>2, <1>3 DEF CounterInv, CountInv

\* A page that has been mapped is with the fault that records it and nowhere else.
LEMMA RemapCounter ==
  ASSUME PageInv, CounterInv, NEW t \in Threads,
         UNCHANGED <<counts, tracer, pages, held, mishaps>>,
         fault[t].pc = "remap", fault'[t].pc = "record", fault'[t].page = fault[t].page,
         \A u \in Threads \ {t} : fault'[u] = fault[u],
         \A u \in Threads \ {t} : Recording(u) => fault[u].page # fault[t].page
  PROVE  CounterInv'
<1>1. InUse' = InUse
  BY DEF InUse
<1>2. \A m \in InUse : \A i \in DOMAIN pages[m] : pages[m][i] # fault[t].page
  BY DEF PageInv, FlightInv, InFlight
<1>3. DistinctInv'
  <2>1. \A u \in Threads \ {t} : Recording(u)' => Recording(u)
    BY DEF Recording
  <2> QED
    BY <1>1, <1>2, <2>1 DEF CounterInv, DistinctInv, Recording
<1>4. ASSUME NEW S \in SUBSET held, Counted(S)
      PROVE  Counted(S)'
  <2>1. \A u \in Threads : fault'[u].pc = "count" \/ fault[u].pc = "count" => fault'[u] = fault[u]
    OBVIOUS
  <2>2. \A u \in Threads : fault'[u].pc \in {"remap", "record"} =>
          fault[u].pc \in {"remap", "record"} /\ fault'[u].page = fault[u].page
    OBVIOUS
  <2> QED
    BY <1>1, <1>4, <2>1, <2>2 DEF Counted, counts
<1> QED
  BY <1>3, <1>4 DEF CounterInv, CountInv

\* alloc_page: the page is held, and the fault will count it.
LEMMA AllocCounter ==
  ASSUME CounterInv, NEW t \in Threads, NEW page \in Pages \ held,
         UNCHANGED <<counts, tracer, pages, mishaps>>, held' = held \cup {page},
         fault[t].pc = "alloc", fault'[t].pc = "count", fault'[t].page = page,
         \A u \in Threads \ {t} : fault'[u] = fault[u]
  PROVE  CounterInv'
<1>1. InUse' = InUse
  BY DEF InUse
<1>2. DistinctInv'
  BY <1>1 DEF CounterInv, DistinctInv, Recording
<1>3. ASSUME NEW S \in SUBSET held, Counted(S)
      PROVE  Counted(S)'
  <2>1. \A u \in Threads : fault'[u].pc \in {"remap", "record"} => fault'[u] = fault[u]
    OBVIOUS
  <2>2. \A u \in Threads : fault[u].pc = "count" => fault'[u] = fault[u]
    OBVIOUS
  <2>3. \A u \in Threads : fault'[u].pc = "count" => fault'[u].page \notin S
    BY <1>3 DEF Counted
  <2>4. ASSUME mishaps = {}, NEW p \in held' \ S
        PROVE  \E u \in Threads : fault'[u].pc = "count" /\ fault'[u].page = p
    <3>1. CASE p = page
      BY <3>1
    <3>2. CASE p \in held \ S
      BY <1>3, <2>2, <2>4, <3>2 DEF Counted
    <3> QED
      BY <2>4, <3>1, <3>2
  <2> QED
    BY <1>1, <1>3, <2>1, <2>3, <2>4 DEF Counted, counts
<1>4. IsFiniteSet(held')
  BY FS_AddElement DEF CounterInv, CountInv
<1> QED
  BY <1>2, <1>3, <1>4 DEF CounterInv, CountInv

\* atomic_add: the page of the fault is one of those that have been counted.
LEMMA CountCounter ==
  ASSUME PageInv, CounterInv, TypeOK, NEW t \in Threads,
         UNCHANGED <<free_page_counter, tracer, pages, held, mishaps>>,
         allocate_page_counter' = allocate_page_counter + 1,
         fault[t].pc = "count", fault'[t].pc = "remap", fault'[t].page = fault[t].page,
         \A u \in Threads \ {t} : fault'[u] = fault[u]
  PROVE  CounterInv'
<1> DEFINE page == fault[t].page
<1>1. InUse' = InUse
  BY DEF InUse
<1>2. DistinctInv'
  BY <1>1 DEF CounterInv, DistinctInv, Recording
<1>3. /\ page \in held
      /\ \A u \in Threads : fault[u].pc = "count" /\ fault[u].page = page => u = t
  BY DEF PageInv, FlightInv, InFlight
<1>4. ASSUME NEW S \in SUBSET held, Counted(S)
      PROVE  Counted(S \cup {page})'
  <2>1. page \notin S
    BY <1>4 DEF Counted
  <2>2. IsFiniteSet(S) /\ Cardinality(S) \in Nat
    BY FS_Subset, FS_CardinalityType DEF CounterInv, CountInv
  <2>3. Cardinality(S \cup {page}) = Cardinality(S) + 1
    BY <2>1, <2>2, FS_AddElement
  <2>4. allocate_page_counter' = free_page_counter' + Cardinality(S \cup {page})
    BY <1>4, <2>2, <2>3 DEF Counted, TypeOK
  <2>5. \A u \in Threads : fault'[u].pc = "count" => fault'[u].page \notin S \cup {page}
    BY <1>3, <1>4 DEF Counted
  <2>6. \A u \in Threads : fault'[u].pc \in {"remap", "record"} => fault'[u].page \in S \cup {page}
    BY <1>4 DEF Counted
  <2>7. ASSUME mishaps = {}, NEW p \in held \ (S \cup {page})
        PROVE  \E u \in Threads : fault'[u].pc = "count" /\ fault'[u].page = p
    <3>1. PICK u \in Threads : fault[u].pc = "count" /\ fault[u].page = p
      BY <1>4, <2>7 DEF Counted
    <3> QED
      BY <2>7, <3>1
  <2> QED
    BY <1>1, <1>4, <2>4, <2>5, <2>6, <2>7 DEF Counted
<1>5. \A S \in SUBSET held : S \cup {page} \in SUBSET held'
  BY <1>3
<1> QED
  BY <1>2, <1>4, <1>5 DEF CounterInv, CountInv

\* The array takes the place of the fault.
LEMMA RecordCounter ==
  ASSUME CounterInv, NEW t \in Threads, NEW m \in InUse, InUse \subseteq Mappings,
         UNCHANGED <<counts, tracer, held, mishaps>>,
         Recording(t), NEW page, page = fault[t].page, \A k \in InUse : Array(k, page, m),
         \E o : \A j \in DOMAIN pages[m] : j # o => pages'[m][j] = pages[m][j],
         fault'[t].pc = "idle", \A u \in Threads \ {t} : fault'[u] = fault[u]
  PROVE  CounterInv'
<1>1. InUse' = InUse
  BY DEF InUse
<1>2. \A k \in InUse : \A i \in DOMAIN pages[k] : pages[k][i] # page
  BY DEF CounterInv, DistinctInv
<1>3. ASSUME NEW k \in InUse, NEW i \in DOMAIN pages'[k]
      PROVE  i \in DOMAIN pages[k] /\ (pages'[k][i] = pages[k][i] \/ (k = m /\ pages'[k][i] = page))
  BY <1>3 DEF Array
<1>4. DistinctInv'
  <2>1. ASSUME NEW k \in InUse, NEW i \in DOMAIN pages'[k], NEW j \in DOMAIN pages'[k],
               pages'[k][i] \in Pages, pages'[k][i] = pages'[k][j]
        PROVE  i = j
    <3>1. CASE pages'[k][i] = page
      <4>1. k = m /\ pages'[k][i] # pages[k][i] /\ pages'[k][j] # pages[k][j]
        BY <1>2, <1>3, <2>1, <3>1
      <4>2. PICK o : \A l \in DOMAIN pages[m] : l # o => pages'[m][l] = pages[m][l]
        OBVIOUS
      <4>3. i = o /\ j = o
        BY <1>3, <4>1, <4>2
      <4> QED
        BY <4>3
    <3>2. CASE pages'[k][i] # page
      <4>1. pages'[k][i] = pages[k][i] /\ pages'[k][j] = pages[k][j]
        BY <1>3, <2>1, <3>2
      <4>2. i \in DOMAIN pages[k] /\ j \in DOMAIN pages[k]
        BY <1>3
      <4>3. pages[k][i] \in Pages /\ pages[k][i] = pages[k][j]
        BY <2>1, <4>1
      <4> QED
        BY <4>2, <4>3 DEF CounterInv, DistinctInv
    <3> QED
      BY <3>1, <3>2
  <2>2. ASSUME NEW u \in Threads, fault'[u].pc = "record"
        PROVE  u # t /\ Recording(u) /\ fault'[u] = fault[u] /\ fault[u].page # page
    BY <2>2 DEF Recording, CounterInv, DistinctInv
  <2>3. ASSUME NEW u \in Threads, fault'[u].pc = "record",
               NEW k \in InUse, NEW i \in DOMAIN pages'[k]
        PROVE  pages'[k][i] # fault'[u].page
    <3>1. pages[k][i] # fault[u].page
      BY <1>3, <2>2, <2>3 DEF CounterInv, DistinctInv
    <3> QED
      BY <1>3, <2>2, <2>3, <3>1
  <2>4. ASSUME NEW u \in Threads, fault'[u].pc = "record",
               NEW w \in Threads, fault'[w].pc = "record", fault'[w].page = fault'[u].page
        PROVE  w = u
    BY <2>2, <2>4 DEF CounterInv, DistinctInv
  <2> QED
    BY <1>1, <2>1, <2>3, <2>4 DEF DistinctInv, Recording
<1>5. ASSUME NEW S \in SUBSET held, Counted(S)
      PROVE  Counted(S)'
  <2>1. page \in S
    BY <1>5 DEF Counted, Recording
  <2>2. \A k \in InUse : \A i \in DOMAIN pages'[k] : pages'[k][i] \in Pages => pages'[k][i] \in S
    BY <1>3, <1>5, <2>1 DEF Counted
  <2>3. \A u \in Threads : fault'[u].pc \in {"count", "remap", "record"} => fault'[u] = fault[u]
    OBVIOUS
  <2>4. \A u \in Threads : fault[u].pc = "count" => fault'[u] = fault[u]
    BY DEF Recording
  <2> QED
    BY <1>1, <1>5, <2>2, <2>3, <2>4 DEF Counted, counts
<1> QED
  BY <1>4, <1>5 DEF CounterInv, CountInv

LEMMA FaultCounter ==
  ASSUME VMAInv, PageInv, CounterInv, NEW t \in Threads, do_fault(t)
  PROVE  CounterInv'
<1>1. UNCHANGED <<tracer, free_page_counter>>
  BY FaultKeeps
<1>2. fault \in [Threads -> Faults] /\ fault[t] \in Faults
  BY DEF VMAInv, TypeOK, Faults
<1>3. CASE FaultReturn(t) /\ fault[t].pc \in {"alloc", "remap"}
             /\ UNCHANGED <<counts, tracer, pages, held>> /\ mishaps \subseteq mishaps'
  <2>1. fault'[t].pc = "idle" /\ \A u \in Threads \ {t} : fault'[u] = fault[u]
    BY <1>2, <1>3 DEF FaultReturn, Idle
  <2> QED
    BY <1>3, <2>1, SameCounter
<1>4. CASE UNCHANGED <<fault, counts, tracer, pages, held, mishaps>>
  BY <1>4, SameCounter
<1>5. CASE TakeFault(t)
  <2>1. UNCHANGED <<counts, tracer, pages, held, mishaps>> /\ fault[t].pc = "idle"
    BY <1>5 DEF TakeFault, FaultAt, state
  <2>2. PICK v \in vmas : \E at \in v.start .. v.end - 1 :
          fault' = [fault EXCEPT ![t] = [pc |-> "alloc", mapping |-> v.mapping, at |-> at,
                                         offset |-> Offset(v, at), page |-> Null]]
    BY <1>5 DEF TakeFault
  <2>3. fault'[t].pc = "alloc" /\ \A u \in Threads \ {t} : fault'[u] = fault[u]
    BY <1>2, <2>2
  <2> QED
    BY <2>1, <2>3, SameCounter
<1>6. CASE AllocPage(t)
  <2>1. UNCHANGED <<counts, pages, mishaps>> /\ fault[t].pc = "alloc"
    BY <1>6 DEF AllocPage, FaultAt, state
  <2>2. CASE \E page \in Pages \ held :
               /\ held' = held \cup {page}
               /\ fault' = [fault EXCEPT ![t].pc = "count", ![t].page = page]
    <3>1. PICK page \in Pages \ held :
            /\ held' = held \cup {page}
            /\ fault' = [fault EXCEPT ![t].pc = "count", ![t].page = page]
      BY <2>2
    <3>2. /\ fault'[t].pc = "count" /\ fault'[t].page = page
          /\ \A u \in Threads \ {t} : fault'[u] = fault[u]
      BY <1>2, <3>1, FindsPage
    <3>3. held' = held \cup {page}
      BY <3>1
    <3> QED
      BY <1>1, <2>1, <3>2, <3>3, AllocCounter
  <2> QED
    BY <1>1, <1>3, <1>6, <2>1, <2>2 DEF AllocPage
<1>7. CASE CountPage(t)
  <2>1. /\ UNCHANGED <<pages, held, mishaps>> /\ fault[t].pc = "count" /\ FaultTo(t, "remap")
        /\ allocate_page_counter' = allocate_page_counter + 1
    BY <1>7 DEF CountPage, FaultAt, state
  <2>2. /\ fault'[t].pc = "remap" /\ fault'[t].page = fault[t].page
        /\ \A u \in Threads \ {t} : fault'[u] = fault[u]
    BY <1>2, <2>1, GoesTo
  <2>3. TypeOK
    BY DEF VMAInv
  <2> QED
    BY <1>1, <2>1, <2>2, <2>3, CountCounter
<1>8. CASE RemapPage(t)
  <2> DEFINE x == <<fault[t].mapping, fault[t].at>>
  <2>1. UNCHANGED <<counts, pages, held>> /\ fault[t].pc = "remap"
    BY <1>8 DEF RemapPage, FaultAt, state
  <2>2. CASE FaultTo(t, "record") /\ UNCHANGED mishaps
    <3>1. /\ fault'[t].pc = "record" /\ fault'[t].page = fault[t].page
          /\ \A u \in Threads \ {t} : fault'[u] = fault[u]
      BY <1>2, <2>2, GoesTo
    <3>2. ASSUME NEW u \in Threads, fault[u].pc = "record"
          PROVE  fault[u].page # fault[t].page
      <4>1. pte[<<fault[u].mapping, fault[u].at>>] = fault[u].page
        BY <3>2 DEF PageInv, RecordInv
      <4>2. fault[u].mapping \in Mappings /\ fault[u].at \in Indices
        BY <3>2, FaultAddress
      <4>3. pte[<<fault[u].mapping, fault[u].at>>] # fault[t].page
        BY <2>1, <4>2 DEF PageInv, FlightInv, InFlight
      <4> QED
        BY <4>1, <4>3
    <3> QED
      BY <1>1, <2>1, <2>2, <3>1, <3>2, RemapCounter DEF Recording
  <2> QED
    BY <1>1, <1>3, <1>4, <1>8, <2>1, <2>2 DEF RemapPage
<1>9. CASE RecordPage(t)
  <2> DEFINE m == fault[t].mapping
  <2>1. UNCHANGED <<counts, held, mishaps>> /\ fault[t].pc = "record"
    BY <1>9 DEF RecordPage, FaultAt
  <2>2. CASE /\ pages' = [pages EXCEPT ![m][fault[t].offset] = fault[t].page]
             /\ FaultReturn(t)
    <3>1. m \in InUse /\ InUse \subseteq Mappings
      BY <2>1 DEF VMAInv, UseInv, Covers, Idle, InUse
    <3>2. \A k \in InUse : Array(k, fault[t].page, m)
      BY <2>2, <3>1, ArrayAssigned DEF VMAInv
    <3>3. \E o : \A j \in DOMAIN pages[m] : j # o => pages'[m][j] = pages[m][j]
      <4>1. pages'[m] = [pages[m] EXCEPT ![fault[t].offset] = fault[t].page]
        BY <2>2, <3>1 DEF VMAInv, TypeOK
      <4>2. \A j \in DOMAIN pages[m] : j # fault[t].offset => pages'[m][j] = pages[m][j]
        BY <4>1
      <4> QED
        BY <4>2
    <3>4. fault'[t].pc = "idle" /\ \A u \in Threads \ {t} : fault'[u] = fault[u]
      BY <1>2, <2>2 DEF FaultReturn, Idle
    <3> QED
      BY <1>1, <2>1, <3>1, <3>2, <3>3, <3>4, RecordCounter DEF Recording
  <2> QED
    BY <1>1, <1>4, <1>9, <2>1, <2>2 DEF RecordPage
<1> QED
  BY <1>5, <1>6, <1>7, <1>8, <1>9 DEF do_fault

-----------------------------------------------------------------------------
\* A function takes as many values as it has arguments, if no two of them agree.
LEMMA ImageSize ==
  ASSUME NEW S, IsFiniteSet(S), NEW f, \A i, j \in S : f[i] = f[j] => i = j
  PROVE  /\ IsFiniteSet({f[i] : i \in S})
         /\ Cardinality({f[i] : i \in S}) = Cardinality(S)
<1> DEFINE T == {f[i] : i \in S}
           g == [i \in S |-> f[i]]
<1>1. g \in Injection(S, T)
  BY DEF Injection, IsInjective
<1>2. g \in Surjection(S, T)
  BY DEF Surjection
<1>3. ExistsBijection(S, T)
  BY <1>1, <1>2 DEF ExistsBijection, Bijection
<1> HIDE DEF T
<1>4. IsFiniteSet(T) /\ Cardinality(T) = Cardinality(S)
  BY <1>3, FS_Bijection
<1> QED
  BY <1>4 DEF T

\* What alloc_page has returned in the loop of pre-paging: n pages that are all different.
LEMMA NewPages ==
  ASSUME NEW n \in Nat, NEW S, NEW new \in Injection(0 .. n - 1, S)
  PROVE  /\ Range(new) \in SUBSET S /\ DOMAIN new = 0 .. n - 1
         /\ IsFiniteSet(Range(new)) /\ Cardinality(Range(new)) = n
         /\ \A i, j \in 0 .. n - 1 : new[i] = new[j] => i = j
<1>1. /\ new \in [0 .. n - 1 -> S]
      /\ \A i, j \in 0 .. n - 1 : new[i] = new[j] => i = j
  BY DEF Injection, IsInjective
<1>2. IsFiniteSet(0 .. n - 1) /\ Cardinality(0 .. n - 1) = n
  BY FS_Interval
<1>3. Range(new) = {new[i] : i \in 0 .. n - 1}
  BY <1>1 DEF Range
<1>4. IsFiniteSet(Range(new)) /\ Cardinality(Range(new)) = n
  BY <1>1, <1>2, <1>3, ImageSize
<1> QED
  BY <1>1, <1>3, <1>4

LEMMA DisjointSize ==
  ASSUME NEW S, IsFiniteSet(S), NEW T, IsFiniteSet(T), S \cap T = {}
  PROVE  /\ IsFiniteSet(S \cup T)
         /\ Cardinality(S \cup T) = Cardinality(S) + Cardinality(T)
         /\ Cardinality(S) \in Nat /\ Cardinality(T) \in Nat
<1>1. Cardinality({}) = 0 /\ Cardinality(S) \in Nat /\ Cardinality(T) \in Nat
  BY FS_EmptySet, FS_CardinalityType
<1>2. Cardinality(S \cup T) = Cardinality(S) + Cardinality(T) - Cardinality(S \cap T)
  BY FS_Union
<1>3. IsFiniteSet(S \cup T)
  BY FS_Union
<1>4. Cardinality(S \cap T) = 0
  BY <1>1, Zenon
<1> QED
  BY <1>1, <1>2, <1>3, <1>4

\* The pages pre-paging allocates have all been counted, and the new array has each once.
LEMMA MapCounter ==
  ASSUME VMAInv, CounterInv, NEW m \in Mappings, Fresh(m), NEW n \in 1 .. MaxPages,
         NEW kind \in {"live", "bare"}, NEW array, Map(m, n, kind, array),
         NEW new \in SUBSET (Pages \ held), IsFiniteSet(new), held' = held \cup new,
         allocate_page_counter' = allocate_page_counter + Cardinality(new),
         \A j \in DOMAIN array : array[j] \in new \cup {Null, Stale},
         \A i, j \in DOMAIN array : array[i] \in new /\ array[i] = array[j] => i = j
  PROVE  CounterInv'
<1>1. /\ m \notin InUse /\ InUse' = InUse \cup {m} /\ pages'[m] = array
      /\ \A k \in InUse : pages'[k] = pages[k]
  BY FreshUnused DEF Map, VMAInv, TypeOK, InUse
<1>2. /\ UNCHANGED <<free_page_counter, fault, mishaps>>
      /\ \A u \in Threads : fault[u].pc = "idle"
  BY DEF Map, Fresh, Quiet, Idle
<1>3. \A j \in DOMAIN array : array[j] \in Pages => array[j] \in new
  BY PointerAssumption
<1>4. DistinctInv'
  BY <1>1, <1>2, <1>3 DEF CounterInv, DistinctInv, Recording
<1>5. ASSUME NEW S \in SUBSET held, Counted(S)
      PROVE  Counted(S \cup new)'
  <2>1. IsFiniteSet(S)
    BY FS_Subset DEF CounterInv, CountInv
  <2>2. S \cap new = {}
    OBVIOUS
  <2>3. /\ Cardinality(S \cup new) = Cardinality(S) + Cardinality(new)
        /\ Cardinality(S) \in Nat /\ Cardinality(new) \in Nat
    BY <2>1, <2>2, DisjointSize
  <2>4. allocate_page_counter' = free_page_counter' + Cardinality(S \cup new)
    BY <1>2, <1>5, <2>3 DEF Counted, VMAInv, TypeOK
  <2>5. \A k \in InUse' : \A i \in DOMAIN pages'[k] :
          pages'[k][i] \in Pages => pages'[k][i] \in S \cup new
    BY <1>1, <1>3, <1>5 DEF Counted
  <2>6. mishaps = {} => held \ S = {}
    BY <1>2, <1>5 DEF Counted
  <2> QED
    BY <1>2, <2>4, <2>5, <2>6 DEF Counted
<1>6. \A S \in SUBSET held : S \cup new \in SUBSET held'
  OBVIOUS
<1>7. IsFiniteSet(held')
  BY FS_Union DEF CounterInv, CountInv
<1> QED
  BY <1>4, <1>5, <1>6, <1>7 DEF CounterInv, CountInv

\* A loop that fails has counted the pages it has mapped, and nobody will free them.
LEMMA FailCounter ==
  ASSUME VMAInv, CounterInv, NEW m \in Mappings, MapFails(m)
  PROVE  CounterInv'
<1>1. PICK n \in Indices : \E new \in Injection(0 .. n - 1, Pages \ held) :
        /\ \/ held' = held \cup Range(new)
           \/ \E page \in Pages \ (held \cup Range(new)) : held' = held \cup Range(new) \cup {page}
        /\ allocate_page_counter' = allocate_page_counter + n
  BY DEF MapFails
<1>2. PICK new \in Injection(0 .. n - 1, Pages \ held) :
        /\ \/ held' = held \cup Range(new)
           \/ \E page \in Pages \ (held \cup Range(new)) : held' = held \cup Range(new) \cup {page}
        /\ allocate_page_counter' = allocate_page_counter + n
  BY <1>1
<1> DEFINE N == Range(new)
<1>3. N \in SUBSET (Pages \ held) /\ IsFiniteSet(N) /\ Cardinality(N) = n /\ n \in Nat
  BY NewPages DEF Indices
<1>4. allocate_page_counter' = allocate_page_counter + Cardinality(N)
  BY <1>2, <1>3
<1>5. held' = held \cup N \/ \E page : held' = (held \cup N) \cup {page}
  BY <1>2
<1> HIDE DEF N
<1>6. /\ InUse' = InUse /\ UNCHANGED <<free_page_counter, pages, fault>> /\ mishaps' # {}
      /\ \A u \in Threads : fault[u].pc = "idle"
  BY FreshUnused DEF MapFails, Fresh, Quiet, Idle, VMAInv, TypeOK, InUse
<1>7. IsFiniteSet(held')
  <2>1. IsFiniteSet(held \cup N)
    BY <1>3, FS_Union DEF CounterInv, CountInv
  <2> QED
    BY <1>5, <2>1, FS_AddElement
<1>8. DistinctInv'
  BY <1>6 DEF CounterInv, DistinctInv, Recording
<1>9. ASSUME NEW S \in SUBSET held, Counted(S)
      PROVE  Counted(S \cup N)'
  <2>1. IsFiniteSet(S)
    BY FS_Subset DEF CounterInv, CountInv
  <2>2. S \cap N = {}
    BY <1>3
  <2>3. /\ Cardinality(S \cup N) = Cardinality(S) + Cardinality(N)
        /\ Cardinality(S) \in Nat /\ Cardinality(N) \in Nat
    BY <1>3, <2>1, <2>2, DisjointSize
  <2>4. allocate_page_counter' = free_page_counter' + Cardinality(S \cup N)
    BY <1>4, <1>6, <1>9, <2>3 DEF Counted, VMAInv, TypeOK
  <2> QED
    BY <1>6, <1>9, <2>4 DEF Counted
<1>10. \A S \in SUBSET held : S \cup N \in SUBSET held'
  BY <1>5
<1> QED
  BY <1>7, <1>8, <1>9, <1>10 DEF CounterInv, CountInv

LEMMA MmapCounter ==
  ASSUME VMAInv, CounterInv, NEW m \in Mappings, paging_mmap(m)
  PROVE  CounterInv'
<1>1. CASE MapDemand(m)
  <2>1. Fresh(m) /\ UNCHANGED <<allocate_page_counter, held>>
    BY <1>1 DEF MapDemand
  <2>2. /\ {} \in SUBSET (Pages \ held) /\ IsFiniteSet({}) /\ held' = held \cup {}
        /\ allocate_page_counter' = allocate_page_counter + Cardinality({})
    BY <2>1, FS_EmptySet DEF VMAInv, TypeOK
  <2>3. PICK n \in 1 .. MaxPages :
          \/ \E array \in [0 .. n - 1 -> {Null, Stale}] : Map(m, n, "live", array)
          \/ Map(m, n, "bare", <<>>)
    BY <1>1 DEF MapDemand
  <2>4. CASE \E array \in [0 .. n - 1 -> {Null, Stale}] : Map(m, n, "live", array)
    <3>1. PICK array \in [0 .. n - 1 -> {Null, Stale}] : Map(m, n, "live", array)
      BY <2>4
    <3>2. /\ \A j \in DOMAIN array : array[j] \in {} \cup {Null, Stale}
          /\ \A i, j \in DOMAIN array : array[i] \in {} /\ array[i] = array[j] => i = j
      OBVIOUS
    <3> QED
      BY <2>1, <2>2, <3>1, <3>2, MapCounter
  <2>5. CASE Map(m, n, "bare", <<>>)
    <3>1. DOMAIN <<>> = {}
      OBVIOUS
    <3> QED
      BY <2>1, <2>2, <2>5, <3>1, MapCounter
  <2> QED
    BY <2>3, <2>4, <2>5
<1>2. CASE MapPrepaged(m)
  <2>1. PICK n \in 1 .. MaxPages : \E new \in Injection(0 .. n - 1, Pages \ held) :
          /\ Map(m, n, "live", new)
          /\ held' = held \cup Range(new)
          /\ allocate_page_counter' = allocate_page_counter + n
    BY <1>2 DEF MapPrepaged
  <2>2. PICK new \in Injection(0 .. n - 1, Pages \ held) :
          /\ Map(m, n, "live", new)
          /\ held' = held \cup Range(new)
          /\ allocate_page_counter' = allocate_page_counter + n
    BY <2>1
  <2>3. /\ Range(new) \in SUBSET (Pages \ held) /\ DOMAIN new = 0 .. n - 1
        /\ IsFiniteSet(Range(new)) /\ Cardinality(Range(new)) = n
        /\ \A i, j \in 0 .. n - 1 : new[i] = new[j] => i = j
    BY NewPages
  <2>4. /\ \A j \in DOMAIN new : new[j] \in Range(new) \cup {Null, Stale}
        /\ \A i, j \in DOMAIN new : new[i] \in Range(new) /\ new[i] = new[j] => i = j
    BY <2>3 DEF Range
  <2>5. /\ Fresh(m) /\ held' = held \cup Range(new)
        /\ allocate_page_counter' = allocate_page_counter + Cardinality(Range(new))
    BY <1>2, <2>2, <2>3 DEF MapPrepaged
  <2>6. Map(m, n, "live", new)
    BY <2>2
  <2> QED
    BY <2>3, <2>4, <2>5, <2>6, MapCounter
<1>3. CASE MapOops(m)
  <2>1. UNCHANGED <<counts, tracer, pages, held, fault, mishaps>>
    BY <1>3 DEF MapOops, state
  <2> QED
    BY <2>1, SameCounter
<1> QED
  BY <1>1, <1>2, <1>3, FailCounter DEF paging_mmap

\* To free pages that have been counted is to count them back.
LEMMA FreeCounter ==
  ASSUME VMAInv, CounterInv, NEW m \in InUse, InUse' = InUse \ {m},
         NEW F, IsFiniteSet(F), held' = held \ F,
         free_page_counter' = free_page_counter + Cardinality(F),
         UNCHANGED <<allocate_page_counter, pages, fault, mishaps>>,
         \A u \in Threads : fault[u].pc = "idle",
         \A k \in InUse : k # m => \A j \in DOMAIN pages[k] : pages[k][j] \notin F,
         \A page \in F : page \in Pages /\ \E i \in DOMAIN pages[m] : page = pages[m][i]
  PROVE  CounterInv'
<1>1. DistinctInv'
  BY DEF CounterInv, DistinctInv, Recording
<1>2. IsFiniteSet(held')
  BY FS_Subset DEF CounterInv, CountInv
<1>3. PICK S \in SUBSET held : Counted(S)
  BY DEF CounterInv, CountInv
<1>4. IsFiniteSet(S) /\ F \subseteq S
  BY <1>3, FS_Subset DEF CounterInv, CountInv, Counted
<1>5. IsFiniteSet(S \ F) /\ S = (S \ F) \cup F /\ (S \ F) \cap F = {}
  BY <1>4, FS_Subset
<1>6. /\ Cardinality(S) = Cardinality(S \ F) + Cardinality(F)
      /\ Cardinality(S \ F) \in Nat /\ Cardinality(F) \in Nat
  BY <1>5, DisjointSize
<1>7. allocate_page_counter' = free_page_counter' + Cardinality(S \ F)
  BY <1>3, <1>6 DEF Counted, VMAInv, TypeOK
<1>8. \A k \in InUse' : \A i \in DOMAIN pages'[k] :
        pages'[k][i] \in Pages => pages'[k][i] \in S \ F
  BY <1>3 DEF Counted
<1>9. mishaps = {} => held' \ (S \ F) = {}
  <2>1. mishaps = {} => held \ S = {}
    BY <1>3 DEF Counted
  <2> QED
    BY <2>1
<1>10. Counted(S \ F)'
  BY <1>7, <1>8, <1>9 DEF Counted
<1> QED
  BY <1>1, <1>2, <1>3, <1>10 DEF CounterInv, CountInv

\* The last close frees as many pages as it counts, each of them counted before.
LEMMA CloseCounter ==
  ASSUME VMAInv, PageInv, CounterInv, NEW v \in vmas, paging_vma_close(v)
  PROVE  CounterInv'
<1> DEFINE m == v.mapping
           R == Recorded(v)
           F == {pages[m][i] : i \in R}
<1>1. /\ UNCHANGED <<allocate_page_counter, pages, fault, mishaps>>
      /\ \A u \in Threads : fault[u].pc = "idle"
  BY DEF paging_vma_close, Quiet, Idle
<1>2. CASE UNCHANGED <<tracer, held, free_page_counter>>
  BY <1>1, <1>2, SameCounter DEF counts
<1>3. CASE /\ tracer[m] # "bare" /\ \A i \in R : pages[m][i] # Stale
           /\ held' = held \ F
           /\ free_page_counter' = free_page_counter + Cardinality(R)
           /\ tracer' = [tracer EXCEPT ![m] = "freed"]
  <2>1. v \in VMAs /\ m \in Mappings /\ m \in InUse
    BY DEF VMAInv, TypeOK, VMAs, UseInv
  <2>2. InUse' = InUse \ {m}
    BY <1>3, <2>1 DEF VMAInv, TypeOK, InUse
  <2>3. R \subseteq DOMAIN pages[m] /\ IsFiniteSet(R)
    <3>1. 0 .. v.end - 1 \subseteq DOMAIN pages[m]
      BY <1>3, <2>1 DEF InUse, PageInv, LengthInv
    <3>2. R \subseteq 0 .. v.end - 1
      BY <2>1 DEF Recorded, Visited, get_pages_count, VMAs
    <3>3. IsFiniteSet(0 .. v.end - 1)
      BY <2>1, FS_Interval DEF VMAs
    <3> QED
      BY <3>1, <3>2, <3>3, FS_Subset
  <2>4. \A i \in R : pages[m][i] \in Pages
    <3>1. \A i \in DOMAIN pages[m] : pages[m][i] \in Pages \cup {Null, Stale}
      BY <2>1 DEF VMAInv, TypeOK
    <3>2. \A i \in R : pages[m][i] # Null
      BY DEF Recorded
    <3> QED
      BY <1>3, <2>3, <3>1, <3>2
  <2>5. \A i, j \in R : pages[m][i] = pages[m][j] => i = j
    BY <2>1, <2>3, <2>4 DEF CounterInv, DistinctInv
  <2>6. IsFiniteSet(F) /\ Cardinality(F) = Cardinality(R)
    BY <2>3, <2>5, ImageSize
  <2>7. \A k \in InUse : k # m => \A j \in DOMAIN pages[k] : pages[k][j] \notin F
    BY <2>1, <2>3, <2>4 DEF PageInv, ArrayInv
  <2>8. \A page \in F : page \in Pages /\ \E i \in DOMAIN pages[m] : page = pages[m][i]
    BY <2>3, <2>4
  <2>9. free_page_counter' = free_page_counter + Cardinality(F) /\ held' = held \ F
    BY <1>3, <2>6
  <2> HIDE DEF F, R
  <2> QED
    BY <1>1, <2>1, <2>2, <2>6, <2>7, <2>8, <2>9, FreeCounter
<1> QED
  BY <1>2, <1>3 DEF paging_vma_close

LEMMA NextCounter == VMAInv /\ PageInv /\ CounterInv /\ [Next]_vars => CounterInv'
<1> SUFFICES ASSUME VMAInv, PageInv, CounterInv, [Next]_vars PROVE CounterInv'
  OBVIOUS
<1>1. CASE WriteParameter \/ kmod_paging_exit \/ Orphaned \/ Stopped \/ UNCHANGED vars
  <2>1. UNCHANGED <<counts, tracer, pages, held, fault, mishaps>>
    BY <1>1 DEF WriteParameter, kmod_paging_exit, Orphaned, Stopped, vars, state
  <2> QED
    BY <2>1, SameCounter
<1>2. ASSUME NEW v \in vmas, NEW at \in Indices, paging_vma_open(v, at)
      PROVE  CounterInv'
  <2>1. UNCHANGED <<counts, tracer, pages, held, fault>> /\ mishaps \subseteq mishaps'
    BY <1>2 DEF paging_vma_open
  <2> QED
    BY <2>1, SameCounter
<1> QED
  BY <1>1, <1>2, FaultCounter, MmapCounter, CloseCounter DEF Next

LEMMA CounterInvariant == Spec => []CounterInv
  BY InitCounter, NextCounter, VMAInvariant, PageInvariant, PTL DEF Spec

\* The module's two counters are never further apart than the pages that are out, and
\* never the wrong way round, whatever fails and whatever is split.
THEOREM CountersStayBounded == Spec => []CountersBound
<1>1. VMAInv /\ CounterInv => CountersBound
  <2> SUFFICES ASSUME VMAInv, CounterInv PROVE CountersBound
    OBVIOUS
  <2>1. PICK S \in SUBSET held : Counted(S)
    BY DEF CounterInv, CountInv
  <2>2. /\ IsFiniteSet(S) /\ Cardinality(S) \in Nat /\ Cardinality(held) \in Nat
        /\ Cardinality(S) <= Cardinality(held)
    BY FS_Subset, FS_CardinalityType DEF CounterInv, CountInv
  <2> QED
    BY <2>1, <2>2 DEF Counted, CountersBound, VMAInv, TypeOK
<1> QED
  BY <1>1, VMAInvariant, CounterInvariant, PTL

-----------------------------------------------------------------------------
(* Who owns a page.                                                        *)

Sound == module # "corrupt"

\* Until a VMA is split an entry of an array is Null, was not cleared, or is what is mapped.
RealInv ==
  "split" \notin mishaps /\ Sound =>
    \A m \in InUse : \A i \in DOMAIN pages[m] :
      pages[m][i] \in Pages => pages[m][i] = pte[<<m, i>>]

Carries(t, page) == fault[t].pc \in {"count", "remap", "record"} /\ fault[t].page = page

Names(v, page) == \E i \in DOMAIN pages[v.mapping] : pages[v.mapping][i] = page

\* As long as nothing has gone wrong a held page is with a fault, or in the array of
\* a VMA, whose close will find it.
OwnInv ==
  mishaps = {} /\ Sound =>
    \A page \in held : \/ \E t \in Threads : Carries(t, page)
                       \/ \E v \in vmas : Names(v, page)

OwnerInv == RealInv /\ OwnInv

\* What the proofs of OwnerInv rest on.
PagingInv == VMAInv /\ PageInv /\ MirrorInv

LEMMA InitOwner == Init => OwnerInv
  BY DEF Init, OwnerInv, RealInv, OwnInv, InUse

\* A module that is corrupt stays so.
LEMMA SoundBefore == [Next]_vars /\ Sound' => Sound
<1> SUFFICES ASSUME [Next]_vars, module = "corrupt" PROVE module' = "corrupt"
  BY DEF Sound
<1>1. \A t \in Threads : ~do_fault(t)
  BY DEF do_fault, TakeFault, AllocPage, CountPage, RemapPage, RecordPage, FaultAt
<1>2. \A m \in Mappings : ~paging_mmap(m)
  BY DEF paging_mmap, MapDemand, MapPrepaged, MapFails, MapOops, Fresh
<1>3. \A v \in vmas : ~paging_vma_close(v) /\ \A at \in Indices : ~paging_vma_open(v, at)
  BY DEF paging_vma_close, paging_vma_open
<1> QED
  BY <1>1, <1>2, <1>3
     DEF Next, WriteParameter, kmod_paging_exit, Orphaned, Stopped, vars, params

\* An entry of an array is at an index of its mapping.
LEMMA EntryIndex ==
  ASSUME TypeOK, NEW m \in Mappings, NEW i \in DOMAIN pages[m]
  PROVE  i \in Indices
<1>1. PICK n \in 0 .. MaxPages : pages[m] \in [0 .. n - 1 -> Pages \cup {Null, Stale}]
  BY DEF TypeOK
<1>2. i \in 0 .. n - 1
  BY <1>1
<1> QED
  BY <1>2, BoundAssumption DEF Indices

\* Faults that neither take nor leave a page.
LEMMA SameOwner ==
  ASSUME OwnerInv, Sound' => Sound,
         UNCHANGED <<tracer, vmas, pages, pte, held>>, mishaps \subseteq mishaps',
         mishaps' = {} /\ Sound' =>
           \A u \in Threads, page \in held : Carries(u, page) => Carries(u, page)'
  PROVE  OwnerInv'
<1>1. RealInv'
  BY DEF OwnerInv, RealInv, InUse
<1>2. OwnInv'
  BY DEF OwnerInv, OwnInv, Names
<1> QED
  BY <1>1, <1>2 DEF OwnerInv

\* The entry a fault writes named no other page before.
LEMMA RecordOwner ==
  ASSUME PagingInv, OwnerInv, Sound' => Sound, NEW t \in Threads, RecordPage(t)
  PROVE  OwnerInv'
<1> USE DEF PagingInv
<1> DEFINE m == fault[t].mapping
           i == fault[t].at
<1> PICK page : page = fault[t].page
  OBVIOUS
<1>1. /\ UNCHANGED <<tracer, vmas, pte, held, mishaps>> /\ fault[t].pc = "record"
      /\ fault \in [Threads -> Faults]
  BY DEF RecordPage, FaultAt, VMAInv, TypeOK, Faults
<1>2. CASE module' = "corrupt"
  BY <1>2 DEF OwnerInv, RealInv, OwnInv, Sound
<1>3. CASE /\ pages' = [pages EXCEPT ![m][fault[t].offset] = page]
           /\ FaultReturn(t) /\ tracer[m] # "bare"
  <2>1. m \in Mappings /\ i \in Indices /\ page \in Pages /\ pte[<<m, i>>] = page
    BY <1>1, FaultAddress DEF PageInv, RecordInv
  <2>2. PICK v \in vmas : Covers(v, m, i)
    BY <1>1 DEF VMAInv, UseInv, Idle
  <2>3. v.mapping = m /\ tracer[m] = "live"
    BY <1>3, <2>2 DEF VMAInv, UseInv, InUse, Covers
  <2> SUFFICES ASSUME "split" \notin mishaps, Sound
               PROVE  RealInv' /\ OwnInv'
    BY <1>1 DEF OwnerInv, RealInv, OwnInv
  <2>4. fault[t].offset = i /\ i \in DOMAIN pages[m]
    <3>1. fault[t].offset = i /\ v.start = 0 /\ DOMAIN pages[m] = 0 .. v.end - 1
      BY <2>2, <2>3 DEF MirrorInv, WholeInv
    <3>2. v.end \in 0 .. MaxPages /\ i \in Indices /\ i < v.end
      BY <2>1, <2>2 DEF VMAInv, TypeOK, VMAs, Covers
    <3> QED
      BY <3>1, <3>2 DEF Indices
  <2>5. /\ DOMAIN pages'[m] = DOMAIN pages[m] /\ pages'[m][i] = page
        /\ \A j \in DOMAIN pages[m] : j # i => pages'[m][j] = pages[m][j]
        /\ \A k \in Mappings : k # m => pages'[k] = pages[k]
    <3>1. pages' = [pages EXCEPT ![m] = [pages[m] EXCEPT ![i] = page]]
      BY <1>3, <2>4, Zenon
    <3>2. /\ pages'[m] = [pages[m] EXCEPT ![i] = page]
          /\ \A k \in Mappings : k # m => pages'[k] = pages[k]
      BY <2>1, <3>1 DEF VMAInv, TypeOK
    <3> QED
      BY <2>4, <3>2
  <2>6. InUse' = InUse /\ InUse \subseteq Mappings /\ \A w \in vmas : w.mapping \in Mappings
    BY <1>1 DEF InUse, VMAInv, UseInv
  <2>7. RealInv'
    <3>1. ASSUME NEW k \in InUse, NEW j \in DOMAIN pages'[k], pages'[k][j] \in Pages
          PROVE  pages'[k][j] = pte[<<k, j>>]
      <4>1. CASE k = m /\ j = i
        BY <2>1, <2>5, <4>1
      <4>2. CASE ~(k = m /\ j = i)
        <5>1. j \in DOMAIN pages[k] /\ pages'[k][j] = pages[k][j]
          BY <2>5, <2>6, <3>1, <4>2
        <5> QED
          BY <3>1, <5>1 DEF OwnerInv, RealInv
      <4> QED
        BY <4>1, <4>2
    <3> QED
      BY <1>1, <2>6, <3>1 DEF RealInv
  <2>8. OwnInv'
    <3>1. Names(v, page)'
      BY <2>3, <2>4, <2>5 DEF Names
    <3>2. ASSUME NEW u \in Threads, NEW p, Carries(u, p)
          PROVE  p = page \/ Carries(u, p)'
      BY <1>1, <1>3, <3>2 DEF Carries, FaultReturn
    <3>3. ASSUME NEW w \in vmas, NEW p \in held, Names(w, p)
          PROVE  Names(w, p)'
      <4>1. PICK j \in DOMAIN pages[w.mapping] : pages[w.mapping][j] = p
        BY <3>3 DEF Names
      <4>2. w.mapping \in InUse /\ w.mapping \in Mappings
        BY <2>6 DEF VMAInv, UseInv
      <4>3. CASE w.mapping = m /\ j = i
        <5>1. p \in Pages
          BY DEF VMAInv, TypeOK
        <5>2. p = page
          BY <2>1, <4>1, <4>2, <4>3, <5>1 DEF OwnerInv, RealInv
        <5> QED
          BY <2>4, <2>5, <4>3, <5>2 DEF Names
      <4>4. CASE ~(w.mapping = m /\ j = i)
        <5>1. j \in DOMAIN pages'[w.mapping] /\ pages'[w.mapping][j] = p
          BY <2>5, <4>1, <4>2, <4>4
        <5> QED
          BY <5>1 DEF Names
      <4> QED
        BY <4>3, <4>4
    <3>4. ASSUME mishaps = {}, NEW p \in held
          PROVE  (\E u \in Threads : Carries(u, p)') \/ \E w \in vmas : Names(w, p)'
      BY <3>1, <3>2, <3>3, <3>4 DEF OwnerInv, OwnInv
    <3> QED
      BY <1>1, <3>4 DEF OwnInv
  <2> QED
    BY <2>7, <2>8
<1> QED
  BY <1>2, <1>3 DEF RecordPage

LEMMA FaultOwner ==
  ASSUME PagingInv, OwnerInv, Sound' => Sound, NEW t \in Threads, do_fault(t)
  PROVE  OwnerInv'
<1> USE DEF PagingInv
<1>1. UNCHANGED <<tracer, vmas>>
  BY FaultKeeps
<1>2. fault \in [Threads -> Faults] /\ fault[t] \in Faults
  BY DEF VMAInv, TypeOK, Faults
<1>3. CASE /\ UNCHANGED <<pages, pte, held>> /\ mishaps \subseteq mishaps'
           /\ \A u \in Threads \ {t} : fault'[u] = fault[u]
           /\ \/ fault[t].pc \in {"idle", "alloc"} \/ mishaps' # {} \/ fault' = fault
              \/ /\ fault'[t].pc \in {"count", "remap", "record"}
                 /\ fault'[t].page = fault[t].page
  BY <1>1, <1>3, SameOwner DEF Carries
<1>4. CASE TakeFault(t)
  <2>1. UNCHANGED <<pages, pte, held, mishaps>> /\ fault[t].pc = "idle"
    BY <1>4 DEF TakeFault, FaultAt, state
  <2>2. \A u \in Threads \ {t} : fault'[u] = fault[u]
    BY <1>2, <1>4 DEF TakeFault
  <2> QED
    BY <1>3, <2>1, <2>2
<1>5. CASE AllocPage(t)
  <2>1. UNCHANGED <<module, pages, pte, mishaps>> /\ fault[t].pc = "alloc"
    BY <1>5 DEF AllocPage, FaultAt, state, params
  <2>2. CASE FaultReturn(t) /\ UNCHANGED held
    BY <1>2, <1>3, <2>1, <2>2 DEF FaultReturn
  <2>3. CASE \E page \in Pages \ held :
               /\ held' = held \cup {page}
               /\ fault' = [fault EXCEPT ![t].pc = "count", ![t].page = page]
    <3>1. PICK page \in Pages \ held :
            /\ held' = held \cup {page}
            /\ fault' = [fault EXCEPT ![t].pc = "count", ![t].page = page]
      BY <2>3
    <3>2. /\ fault'[t].pc = "count" /\ fault'[t].page = page
          /\ \A u \in Threads \ {t} : fault'[u] = fault[u]
      BY <1>2, <3>1, FindsPage
    <3>3. RealInv'
      BY <1>1, <2>1 DEF OwnerInv, RealInv, InUse, Sound
    <3>4. \A p \in held, u \in Threads : Carries(u, p) => Carries(u, p)'
      BY <2>1, <3>2 DEF Carries
    <3>5. Carries(t, page)'
      BY <3>2 DEF Carries
    <3>6. OwnInv'
      <4>1. ASSUME mishaps = {}, Sound, NEW p \in held
            PROVE  (\E u \in Threads : Carries(u, p)') \/ \E v \in vmas' : Names(v, p)'
        BY <1>1, <2>1, <3>4, <4>1 DEF OwnerInv, OwnInv, Names
      <4> QED
        BY <2>1, <3>1, <3>5, <4>1 DEF OwnInv, Sound
    <3> QED
      BY <3>3, <3>6 DEF OwnerInv
  <2> QED
    BY <1>5, <2>2, <2>3 DEF AllocPage
<1>6. CASE CountPage(t)
  <2>1. UNCHANGED <<pages, pte, held, mishaps>> /\ FaultTo(t, "remap")
    BY <1>6 DEF CountPage, FaultAt, state
  <2>2. /\ fault'[t].pc = "remap" /\ fault'[t].page = fault[t].page
        /\ \A u \in Threads \ {t} : fault'[u] = fault[u]
    BY <1>2, <2>1, GoesTo
  <2> QED
    BY <1>3, <2>1, <2>2
<1>7. CASE RemapPage(t)
  <2> DEFINE x == <<fault[t].mapping, fault[t].at>>
  <2>1. UNCHANGED <<pages, held>> /\ fault[t].pc = "remap"
    BY <1>7 DEF RemapPage, FaultAt, state
  <2>2. CASE /\ pte[x] = Null /\ pte' = [pte EXCEPT ![x] = fault[t].page]
             /\ FaultTo(t, "record") /\ UNCHANGED mishaps
    <3>1. /\ fault'[t].pc = "record" /\ fault'[t].page = fault[t].page
          /\ \A u \in Threads \ {t} : fault'[u] = fault[u]
      BY <1>2, <2>2, GoesTo
    <3>2. \A y \in Mappings \X Indices : pte[y] \in Pages => pte'[y] = pte[y]
      BY <2>2, PointerAssumption DEF VMAInv, TypeOK
    <3>3. RealInv'
      <4>1. ASSUME NEW m \in InUse, NEW i \in DOMAIN pages[m], pages[m][i] \in Pages,
                   pages[m][i] = pte[<<m, i>>]
            PROVE  pages[m][i] = pte'[<<m, i>>]
        <5>1. m \in Mappings /\ i \in Indices
          BY EntryIndex DEF VMAInv, InUse
        <5> QED
          BY <3>2, <4>1, <5>1
      <4> QED
        BY <1>1, <2>1, <2>2, <4>1 DEF OwnerInv, RealInv, InUse
    <3>4. \A p \in held, u \in Threads : Carries(u, p) => Carries(u, p)'
      BY <3>1 DEF Carries
    <3>5. OwnInv'
      BY <1>1, <2>1, <2>2, <3>4 DEF OwnerInv, OwnInv, Names
    <3> QED
      BY <3>3, <3>5 DEF OwnerInv
  <2>3. CASE UNCHANGED <<pte, fault, mishaps>>
    BY <1>3, <2>1, <2>3
  <2>4. CASE FaultReturn(t) /\ mishaps' = mishaps \cup {"failure"} /\ UNCHANGED pte
    BY <1>2, <1>3, <2>1, <2>4 DEF FaultReturn
  <2> QED
    BY <1>7, <2>2, <2>3, <2>4 DEF RemapPage
<1> QED
  BY <1>4, <1>5, <1>6, <1>7, RecordOwner DEF do_fault

\* The pages mmap allocates are in the new array, at the index where they are mapped.
LEMMA MapOwner ==
  ASSUME PagingInv, OwnerInv, NEW m \in Mappings, Fresh(m), NEW n \in 1 .. MaxPages,
         NEW kind \in {"live", "bare"}, NEW array, Map(m, n, kind, array),
         \A page \in held' : page \in held \/ \E j \in DOMAIN array : array[j] = page,
         \A k \in Mappings, i \in Indices : k # m => pte'[<<k, i>>] = pte[<<k, i>>],
         \A j \in DOMAIN array : array[j] \in Pages => array[j] = pte'[<<m, j>>]
  PROVE  OwnerInv'
<1> USE DEF PagingInv
<1> PICK v : v = [mapping |-> m, start |-> 0, end |-> n]
  OBVIOUS
<1>1. /\ m \notin InUse /\ InUse' = InUse \cup {m} /\ pages'[m] = array
      /\ \A k \in InUse : k \in Mappings /\ k # m /\ pages'[k] = pages[k]
      /\ vmas' = vmas \cup {v} /\ v.mapping = m
      /\ UNCHANGED <<fault, mishaps>> /\ Sound' = Sound
  BY FreshUnused DEF Map, VMAInv, TypeOK, InUse, params, Sound
<1>2. RealInv'
  <2>1. ASSUME "split" \notin mishaps, Sound, NEW k \in InUse, NEW i \in DOMAIN pages[k],
               pages[k][i] \in Pages
        PROVE  pages[k][i] = pte'[<<k, i>>]
    <3>1. i \in Indices /\ k \in Mappings /\ k # m
      BY <1>1, EntryIndex DEF VMAInv
    <3> QED
      BY <2>1, <3>1 DEF OwnerInv, RealInv
  <2> QED
    BY <1>1, <2>1 DEF RealInv
<1>3. OwnInv'
  <2>1. ASSUME NEW w \in vmas, NEW page, Names(w, page)
        PROVE  Names(w, page)'
    <3>1. w.mapping \in InUse
      BY DEF VMAInv, UseInv
    <3> QED
      BY <1>1, <2>1, <3>1 DEF Names
  <2>2. \A page \in held' : page \in held \/ Names(v, page)'
    BY <1>1 DEF Names
  <2>3. \A u \in Threads, page \in held : Carries(u, page) => Carries(u, page)'
    BY <1>1 DEF Carries
  <2>4. ASSUME mishaps = {}, Sound, NEW page \in held
        PROVE  (\E u \in Threads : Carries(u, page)') \/ \E w \in vmas' : Names(w, page)'
    BY <1>1, <2>1, <2>3, <2>4 DEF OwnerInv, OwnInv
  <2> QED
    BY <1>1, <2>2, <2>4 DEF OwnInv
<1> QED
  BY <1>2, <1>3 DEF OwnerInv

LEMMA MmapOwner ==
  ASSUME PagingInv, OwnerInv, Sound' => Sound, NEW m \in Mappings, paging_mmap(m)
  PROVE  OwnerInv'
<1>1. CASE MapDemand(m)
  <2>1. Fresh(m) /\ UNCHANGED <<pte, held>>
    BY <1>1 DEF MapDemand
  <2>2. /\ \A page \in held' : page \in held
        /\ \A k \in Mappings, i \in Indices : k # m => pte'[<<k, i>>] = pte[<<k, i>>]
    BY <2>1
  <2>3. PICK n \in 1 .. MaxPages :
          \/ \E array \in [0 .. n - 1 -> {Null, Stale}] : Map(m, n, "live", array)
          \/ Map(m, n, "bare", <<>>)
    BY <1>1 DEF MapDemand
  <2>4. CASE \E array \in [0 .. n - 1 -> {Null, Stale}] : Map(m, n, "live", array)
    <3>1. PICK array \in [0 .. n - 1 -> {Null, Stale}] : Map(m, n, "live", array)
      BY <2>4
    <3>2. \A j \in DOMAIN array : array[j] \notin Pages
      BY PointerAssumption
    <3> QED
      BY <2>1, <2>2, <3>1, <3>2, MapOwner
  <2>5. CASE Map(m, n, "bare", <<>>)
    <3>1. \A j \in DOMAIN <<>> : <<>>[j] \notin Pages
      OBVIOUS
    <3> QED
      BY <2>1, <2>2, <2>5, <3>1, MapOwner
  <2> QED
    BY <2>3, <2>4, <2>5
<1>2. CASE MapPrepaged(m)
  <2>1. PICK n \in 1 .. MaxPages : \E new \in Injection(0 .. n - 1, Pages \ held) :
          /\ Map(m, n, "live", new)
          /\ pte' = [x \in DOMAIN pte |-> IF x[1] = m /\ x[2] < n THEN new[x[2]] ELSE pte[x]]
          /\ held' = held \cup Range(new)
    BY <1>2 DEF MapPrepaged
  <2>2. PICK new \in Injection(0 .. n - 1, Pages \ held) :
          /\ Map(m, n, "live", new)
          /\ pte' = [x \in DOMAIN pte |-> IF x[1] = m /\ x[2] < n THEN new[x[2]] ELSE pte[x]]
          /\ held' = held \cup Range(new)
    BY <2>1
  <2>3. DOMAIN new = 0 .. n - 1 /\ 0 .. n - 1 \subseteq Indices
    BY BoundAssumption DEF Injection, Indices
  <2>4. \A page \in held' : page \in held \/ \E j \in DOMAIN new : new[j] = page
    BY <2>2 DEF Range
  <2>5. \A k \in Mappings, i \in Indices :
          pte'[<<k, i>>] = IF k = m /\ i < n THEN new[i] ELSE pte[<<k, i>>]
    BY <2>2 DEF PagingInv, VMAInv, TypeOK
  <2>6. /\ \A j \in DOMAIN new : new[j] \in Pages => new[j] = pte'[<<m, j>>]
        /\ \A k \in Mappings, i \in Indices : k # m => pte'[<<k, i>>] = pte[<<k, i>>]
    <3>1. \A j \in 0 .. n - 1 : j < n
      OBVIOUS
    <3> QED
      BY <2>3, <2>5, <3>1
  <2>7. Fresh(m) /\ Map(m, n, "live", new)
    BY <1>2, <2>2 DEF MapPrepaged
  <2> QED
    BY <2>4, <2>6, <2>7, MapOwner
<1>3. CASE MapFails(m)
  <2>1. UNCHANGED <<module, pages, pte>> /\ "failure" \in mishaps' /\ mishaps \subseteq mishaps'
    BY <1>3 DEF MapFails, params
  <2>2. InUse' = InUse
    BY <1>3, FreshUnused DEF MapFails, PagingInv, VMAInv, TypeOK, InUse
  <2> QED
    BY <2>1, <2>2 DEF OwnerInv, RealInv, OwnInv, Sound
<1>4. CASE MapOops(m)
  BY <1>4 DEF MapOops, OwnerInv, RealInv, OwnInv, Sound
<1> QED
  BY <1>1, <1>2, <1>3, <1>4 DEF paging_mmap

\* A mapping that is in one piece has one reference: its close is the last, and frees
\* every page the array names.
LEMMA CloseOwner ==
  ASSUME PagingInv, OwnerInv, Sound' => Sound, NEW v \in vmas, paging_vma_close(v)
  PROVE  OwnerInv'
<1> USE DEF PagingInv
<1> DEFINE m == v.mapping
<1>1. /\ vmas' = vmas \ {v} /\ UNCHANGED <<pages, fault, mishaps>>
      /\ pte' = [x \in DOMAIN pte |->
                   IF x[1] = m /\ x[2] \in v.start .. v.end - 1 THEN Null ELSE pte[x]]
      /\ counter' = [counter EXCEPT ![m] = @ - 1]
      /\ \A u \in Threads : fault[u].pc = "idle"
  BY DEF paging_vma_close, Quiet, Idle
<1>2. v \in VMAs /\ m \in Mappings /\ m \in InUse /\ InUse \subseteq Mappings
  BY DEF VMAInv, TypeOK, VMAs, UseInv, InUse
<1> SUFFICES ASSUME "split" \notin mishaps, Sound, Sound'
             PROVE  RealInv' /\ OwnInv'
  BY <1>1 DEF OwnerInv, RealInv, OwnInv
<1>3. /\ \A w \in vmas : w.mapping = m => w = v
      /\ v.start = 0 /\ (tracer[m] = "live" => DOMAIN pages[m] = 0 .. v.end - 1)
  BY DEF MirrorInv, WholeInv
<1>4. counter'[m] = 0
  <2>1. {w \in vmas : w.mapping = m} = {v}
    BY <1>3
  <2>2. counter[m] = 1
    BY <1>2, <2>1, FS_Singleton DEF VMAInv, ReferencesCounted
  <2> QED
    BY <1>1, <1>2, <2>2 DEF VMAInv, TypeOK
<1>5. /\ tracer[m] # "bare" /\ tracer' = [tracer EXCEPT ![m] = "freed"]
      /\ held' = held \ {pages[m][i] : i \in Recorded(v)}
  BY <1>4 DEF paging_vma_close, LastReference, Sound
<1>6. InUse' = InUse \ {m}
  BY <1>2, <1>5 DEF VMAInv, TypeOK, InUse
<1>7. RealInv'
  <2>1. ASSUME NEW k \in InUse \ {m}, NEW i \in DOMAIN pages[k], pages[k][i] \in Pages
        PROVE  pages[k][i] = pte'[<<k, i>>]
    <3>1. i \in Indices /\ k \in Mappings
      BY <1>2, EntryIndex DEF VMAInv
    <3>2. pte'[<<k, i>>] = pte[<<k, i>>]
      BY <1>1, <3>1 DEF VMAInv, TypeOK
    <3> QED
      BY <2>1, <3>2 DEF OwnerInv, RealInv
  <2> QED
    BY <1>1, <1>6, <2>1 DEF RealInv
<1>8. ASSUME NEW page \in held', Names(v, page)
      PROVE  FALSE
  <2>1. tracer[m] = "live"
    BY <1>2, <1>5 DEF InUse
  <2>2. PICK i \in DOMAIN pages[m] : pages[m][i] = page
    BY <1>8 DEF Names
  <2>3. i \in Visited(v)
    BY <1>2, <1>3, <2>1 DEF Visited, get_pages_count, VMAs
  <2>4. page # Null
    BY <1>5, PointerAssumption DEF VMAInv, TypeOK
  <2>5. i \in Recorded(v)
    BY <2>2, <2>3, <2>4 DEF Recorded
  <2> QED
    BY <1>5, <2>2, <2>5
<1>9. OwnInv'
  <2>1. ASSUME mishaps = {}, NEW page \in held'
        PROVE  \E w \in vmas' : Names(w, page)'
    <3>1. page \in held /\ \A u \in Threads : ~Carries(u, page)
      BY <1>1, <1>5 DEF Carries
    <3>2. PICK w \in vmas : Names(w, page)
      BY <2>1, <3>1 DEF OwnerInv, OwnInv
    <3>3. w # v
      BY <1>8, <3>2
    <3> QED
      BY <1>1, <3>2, <3>3 DEF Names
  <2> QED
    BY <1>1, <2>1 DEF OwnInv
<1> QED
  BY <1>7, <1>9

LEMMA NextOwner == PagingInv /\ OwnerInv /\ [Next]_vars => OwnerInv'
<1> SUFFICES ASSUME PagingInv, OwnerInv, [Next]_vars PROVE OwnerInv'
  OBVIOUS
<1>1. Sound' => Sound
  BY SoundBefore
<1>2. CASE WriteParameter \/ kmod_paging_exit \/ Orphaned \/ Stopped \/ UNCHANGED vars
  <2>1. UNCHANGED <<tracer, vmas, pages, pte, held, fault, mishaps>>
    BY <1>2 DEF WriteParameter, kmod_paging_exit, Orphaned, Stopped, vars, state
  <2> QED
    BY <1>1, <2>1, SameOwner DEF Carries
<1>3. ASSUME NEW v \in vmas, NEW at \in Indices, paging_vma_open(v, at)
      PROVE  OwnerInv'
  BY <1>3 DEF paging_vma_open, OwnerInv, RealInv, OwnInv
<1> QED
  BY <1>1, <1>2, <1>3, FaultOwner, MmapOwner, CloseOwner DEF Next

LEMMA OwnerInvariant == Spec => []OwnerInv
<1>1. PagingInv /\ OwnerInv /\ [Next]_vars => OwnerInv'
  BY NextOwner
<1>2. Spec => []PagingInv
  BY VMAInvariant, PageInvariant, MirrorInvariant, PTL DEF PagingInv
<1> QED
  BY <1>1, <1>2, InitOwner, PTL DEF Spec

\* Unless a VMA was split or a page could not be mapped, no page is left when the last
\* VMA goes, and the counters that kmod_paging_exit prints agree.
THEOREM NothingIsLost == Spec => []NothingLost
<1>1. VMAInv /\ CounterInv /\ OwnerInv => NothingLost
  <2> SUFFICES ASSUME VMAInv, CounterInv, OwnerInv, vmas = {}, mishaps = {}, module # "corrupt"
               PROVE  held = {} /\ allocate_page_counter = free_page_counter
    BY DEF NothingLost
  <2>1. \A t \in Threads : fault[t] = Idle
    BY DEF VMAInv, UseInv
  <2>2. held = {}
    BY <2>1 DEF OwnerInv, OwnInv, Carries, Idle, Sound
  <2>3. Counted({})
    BY <2>2 DEF CounterInv, CountInv
  <2> QED
    BY <2>2, <2>3, FS_EmptySet DEF Counted, VMAInv, TypeOK
<1> QED
  BY <1>1, VMAInvariant, CounterInvariant, OwnerInvariant, PTL

=============================================================================
