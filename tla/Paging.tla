------------------------------- MODULE Paging -------------------------------
(***************************************************************************)
(* The paging module of project3: mmap of /dev/paging, the page faults of  *)
(* the mapping, and the reference-counted struct state (the tracer) that   *)
(* remembers which pages to give back when the last VMA is closed.         *)
(*                                                                         *)
(* One process with several threads.  The kernel runs mmap, open and close *)
(* with mmap_sem held for writing, so each of them is one step, taken when *)
(* no thread is in a fault; faults hold it for reading and interleave.     *)
(* Other processes share only the page allocator and the two counters.     *)
(*                                                                         *)
(* A virtual page is named by its mapping and its index in it.  A page is  *)
(* held from alloc_page until __free_page.                                 *)
(***************************************************************************)
EXTENDS Integers, FiniteSets, Functions

CONSTANTS Threads,      \* the threads of the process
          Pages,        \* the struct pages of the machine
          Null,         \* a null pointer
          Stale,        \* what kmalloc left in memory it does not clear
          MaxMappings,  \* bound: calls of mmap
          MaxPages      \* bound: pages of a mapping

ASSUME PointerAssumption == Null \notin Pages /\ Stale \notin Pages /\ Null # Stale
ASSUME BoundAssumption == MaxMappings \in Nat /\ MaxPages \in Nat \ {0}

VARIABLES
  module,                 \* loaded, unloaded, or corrupt: the kernel has oopsed
  demand_paging,          \* module parameter, writable at run time
  allocate_page_counter,
  free_page_counter,
  tracer,                 \* struct state of each mapping
  counter,                \* its reference counter
  pages,                  \* its array of struct page pointers
  vmas,                   \* the VMAs of the process
  pte,                    \* its page table
  held,                   \* the struct pages that are allocated
  fault,                  \* do_fault, per thread
  mishaps                 \* what has happened that loses pages

params == <<module, demand_paging>>
counts == <<allocate_page_counter, free_page_counter>>
state  == <<tracer, counter, pages>>
vars   == <<params, counts, state, vmas, pte, held, fault, mishaps>>

Mappings == 1 .. MaxMappings
Indices  == 0 .. MaxPages - 1

Idle == [pc |-> "idle", mapping |-> 0, at |-> 0, offset |-> 0, page |-> Null]

\* Nobody else holds mmap_sem.
Quiet == \A t \in Threads : fault[t] = Idle

get_pages_count(v) == v.end - v.start

Init ==
  /\ module = "loaded"
  /\ demand_paging \in BOOLEAN
  /\ allocate_page_counter = 0 /\ free_page_counter = 0
  /\ tracer = [m \in Mappings |-> "none"]
  /\ counter = [m \in Mappings |-> 0]
  /\ pages = [m \in Mappings |-> <<>>]
  /\ vmas = {}
  /\ pte = [x \in Mappings \X Indices |-> Null]
  /\ held = {}
  /\ fault = [t \in Threads |-> Idle]
  /\ mishaps = {}

-----------------------------------------------------------------------------
(* paging_mmap                                                             *)

\* The next call of mmap.
Fresh(m) ==
  /\ module = "loaded" /\ Quiet
  /\ tracer[m] = "none" /\ \A k \in 1 .. m - 1 : tracer[k] # "none"

\* The tracer is made, with one reference, and the VMA becomes the process's.
Map(m, n, kind, array) ==
  /\ tracer' = [tracer EXCEPT ![m] = kind]
  /\ counter' = [counter EXCEPT ![m] = 1]
  /\ pages' = [pages EXCEPT ![m] = array]
  /\ vmas' = vmas \cup {[mapping |-> m, start |-> 0, end |-> n]}
  /\ UNCHANGED <<params, free_page_counter, fault, mishaps>>

\* kmalloc does not clear the array, and whether it returned one is not checked.
MapDemand(m) ==
  /\ Fresh(m) /\ demand_paging
  /\ \E n \in 1 .. MaxPages :
       \/ \E array \in [0 .. n - 1 -> {Null, Stale}] : Map(m, n, "live", array)
       \/ Map(m, n, "bare", <<>>)
  /\ UNCHANGED <<allocate_page_counter, pte, held>>

\* alloc_page and remap_pfn_range for every page of the mapping.
MapPrepaged(m) ==
  /\ Fresh(m) /\ ~demand_paging
  /\ \E n \in 1 .. MaxPages : \E new \in Injection(0 .. n - 1, Pages \ held) :
       /\ Map(m, n, "live", new)
       /\ pte' = [x \in DOMAIN pte |-> IF x[1] = m /\ x[2] < n THEN new[x[2]] ELSE pte[x]]
       /\ held' = held \cup Range(new)
       /\ allocate_page_counter' = allocate_page_counter + n

\* The loop stops at page n, because alloc_page or remap_pfn_range fails.  The kernel
\* drops the VMA without calling close: the tracer and the pages are lost, and the
\* page that could not be mapped is not even counted.
MapFails(m) ==
  /\ Fresh(m) /\ ~demand_paging
  /\ \E n \in Indices : \E new \in Injection(0 .. n - 1, Pages \ held) :
       /\ \/ held' = held \cup Range(new)
          \/ \E page \in Pages \ (held \cup Range(new)) : held' = held \cup Range(new) \cup {page}
       /\ allocate_page_counter' = allocate_page_counter + n
  /\ tracer' = [tracer EXCEPT ![m] = "lost"]
  /\ counter' = [counter EXCEPT ![m] = 1]
  /\ mishaps' = mishaps \cup {"failure"}
  /\ UNCHANGED <<params, free_page_counter, pages, vmas, pte, fault>>

\* kmalloc returns no tracer, or no array for pre-paging to store into.
MapOops(m) ==
  /\ Fresh(m)
  /\ module' = "corrupt"
  /\ UNCHANGED <<demand_paging, counts, state, vmas, pte, held, fault, mishaps>>

-----------------------------------------------------------------------------
(* paging_vma_fault: do_fault                                              *)

FaultAt(t, pc)  == module = "loaded" /\ fault[t].pc = pc
FaultTo(t, pc)  == fault' = [fault EXCEPT ![t].pc = pc]
FaultReturn(t)  == fault' = [fault EXCEPT ![t] = Idle]

\* Mutant: the offset is that of the start of the VMA.
OffsetOfVMA(v, at) == 0
\* Where in the array of the tracer a page is recorded: relative to the VMA that
\* faulted, which after a split need not start where the array does.
Offset(v, at) == at - v.start

\* The kernel finds no page at an address of a VMA and calls do_fault.
TakeFault(t) ==
  /\ FaultAt(t, "idle")
  /\ \E v \in vmas : \E at \in v.start .. v.end - 1 :
       /\ pte[<<v.mapping, at>>] = Null
       /\ fault' = [fault EXCEPT ![t] = [pc |-> "alloc", mapping |-> v.mapping, at |-> at,
                                          offset |-> Offset(v, at), page |-> Null]]
  /\ UNCHANGED <<params, counts, state, vmas, pte, held, mishaps>>

\* alloc_page; VM_FAULT_OOM when there is none.
AllocPage(t) ==
  /\ FaultAt(t, "alloc")
  /\ \/ \E page \in Pages \ held :
          /\ held' = held \cup {page}
          /\ fault' = [fault EXCEPT ![t].pc = "count", ![t].page = page]
     \/ FaultReturn(t) /\ UNCHANGED held
  /\ UNCHANGED <<params, counts, state, vmas, pte, mishaps>>

CountPage(t) ==
  /\ FaultAt(t, "count") /\ FaultTo(t, "remap")
  /\ allocate_page_counter' = allocate_page_counter + 1
  /\ UNCHANGED <<params, free_page_counter, state, vmas, pte, held, mishaps>>

\* remap_pfn_range under the page table lock.  It may fail, and VM_FAULT_SIGBUS
\* then forgets the page; it is a BUG to map an address twice.
RemapPage(t) ==
  /\ FaultAt(t, "remap")
  /\ LET x == <<fault[t].mapping, fault[t].at>>
     IN \/ /\ pte[x] = Null
           /\ pte' = [pte EXCEPT ![x] = fault[t].page]
           /\ FaultTo(t, "record")
           /\ UNCHANGED <<module, mishaps>>
        \/ /\ pte[x] # Null
           /\ module' = "corrupt"
           /\ UNCHANGED <<pte, fault, mishaps>>
        \/ /\ FaultReturn(t)
           /\ mishaps' = mishaps \cup {"failure"}
           /\ UNCHANGED <<module, pte>>
  /\ UNCHANGED <<demand_paging, counts, state, vmas, held>>

\* retrieved->pages[offset] = new_page
RecordPage(t) ==
  /\ FaultAt(t, "record")
  /\ IF tracer[fault[t].mapping] = "bare"
     THEN module' = "corrupt" /\ UNCHANGED <<pages, fault>>
     ELSE /\ pages' = [pages EXCEPT ![fault[t].mapping][fault[t].offset] = fault[t].page]
          /\ FaultReturn(t)
          /\ UNCHANGED module
  /\ UNCHANGED <<demand_paging, counts, tracer, counter, vmas, pte, held, mishaps>>

-----------------------------------------------------------------------------
(* paging_vma_open and paging_vma_close                                    *)

\* open takes a reference; NoReference forgets to.
NoReference(m) == counter
Reference(m)   == [counter EXCEPT ![m] = @ + 1]

\* The kernel splits a VMA, for mprotect or munmap of a part of it, and calls open
\* for the copy.
paging_vma_open(v, at) ==
  /\ module = "loaded" /\ Quiet
  /\ v.start < at /\ at < v.end
  /\ vmas' = (vmas \ {v}) \cup {[v EXCEPT !.end = at], [v EXCEPT !.start = at]}
  /\ counter' = Reference(v.mapping)
  /\ mishaps' = mishaps \cup {"split"}
  /\ UNCHANGED <<params, counts, tracer, pages, pte, held, fault>>

\* Which references end the life of the tracer; TooSoon is off by one.
TooSoon(c)       == c <= 1
LastReference(c) == c = 0

\* How much of the array the loop of close visits; AllButLast stops short.
AllButLast(v) == 0 .. get_pages_count(v) - 2
Visited(v)    == 0 .. get_pages_count(v) - 1

\* The entries that close does not skip.
Recorded(v) == {i \in Visited(v) : pages[v.mapping][i] # Null}

\* munmap of a whole VMA, or the end of the process.
paging_vma_close(v) ==
  LET m == v.mapping
  IN /\ module = "loaded" /\ Quiet
     /\ vmas' = vmas \ {v}
     /\ pte' = [x \in DOMAIN pte |->
                  IF x[1] = m /\ x[2] \in v.start .. v.end - 1 THEN Null ELSE pte[x]]
     /\ counter' = [counter EXCEPT ![m] = @ - 1]
     /\ IF ~LastReference(counter'[m])
        THEN UNCHANGED <<module, tracer, held, free_page_counter>>
        ELSE IF tracer[m] = "bare" \/ \E i \in Recorded(v) : pages[m][i] = Stale
             THEN module' = "corrupt" /\ UNCHANGED <<tracer, held, free_page_counter>>
             ELSE /\ held' = held \ {pages[m][i] : i \in Recorded(v)}
                  /\ free_page_counter' = free_page_counter + Cardinality(Recorded(v))
                  /\ tracer' = [tracer EXCEPT ![m] = "freed"]
                  /\ UNCHANGED module
     /\ UNCHANGED <<demand_paging, allocate_page_counter, pages, fault, mishaps>>

-----------------------------------------------------------------------------
(* The module.                                                             *)

\* demand_paging is 0644: root may write it at any time.
WriteParameter ==
  /\ module = "loaded"
  /\ demand_paging' = ~demand_paging
  /\ UNCHANGED <<module, counts, state, vmas, pte, held, fault, mishaps>>

\* dev_ops has no owner, so neither an open file nor a VMA keeps the module.
kmod_paging_exit ==
  /\ module = "loaded"
  /\ module' = "unloaded"
  /\ UNCHANGED <<demand_paging, counts, state, vmas, pte, held, fault, mishaps>>

\* A VMA calls an operation of a module that is gone, or a fault returns into it.
Orphaned ==
  /\ module = "unloaded" /\ vmas # {}
  /\ module' = "corrupt"
  /\ UNCHANGED <<demand_paging, counts, state, vmas, pte, held, fault, mishaps>>

paging_mmap(m) == MapDemand(m) \/ MapPrepaged(m) \/ MapFails(m) \/ MapOops(m)

do_fault(t) == TakeFault(t) \/ AllocPage(t) \/ CountPage(t) \/ RemapPage(t) \/ RecordPage(t)

Stopped ==
  /\ module = "corrupt" \/ (module = "unloaded" /\ vmas = {})
  /\ UNCHANGED vars

Next ==
  \/ \E m \in Mappings : paging_mmap(m)
  \/ \E t \in Threads : do_fault(t)
  \/ \E v \in vmas : paging_vma_close(v) \/ \E at \in Indices : paging_vma_open(v, at)
  \/ WriteParameter \/ kmod_paging_exit \/ Orphaned
  \/ Stopped

Spec == Init /\ [][Next]_vars

-----------------------------------------------------------------------------
VMAs == [mapping : Mappings, start : 0 .. MaxPages, end : 0 .. MaxPages]

TypeOK ==
  /\ module \in {"loaded", "unloaded", "corrupt"} /\ demand_paging \in BOOLEAN
  /\ allocate_page_counter \in Nat /\ free_page_counter \in Nat
  /\ tracer \in [Mappings -> {"none", "live", "bare", "lost", "freed"}]
  /\ counter \in [Mappings -> Nat]
  /\ DOMAIN pages = Mappings
  /\ \A m \in Mappings : \E n \in 0 .. MaxPages :
       pages[m] \in [0 .. n - 1 -> Pages \cup {Null, Stale}]
  /\ vmas \subseteq VMAs
  /\ pte \in [Mappings \X Indices -> Pages \cup {Null}]
  /\ held \subseteq Pages
  /\ fault \in [Threads -> [pc : {"idle", "alloc", "count", "remap", "record"},
                            mapping : 0 .. MaxMappings, at : Indices, offset : Indices,
                            page : Pages \cup {Null}]]
  /\ mishaps \subseteq {"split", "failure"}

InUse == {m \in Mappings : tracer[m] \in {"live", "bare"}}

\* The reference counter of struct state is the number of VMAs that point to it,
\* through every split and close.
ReferencesCounted == \A m \in InUse : counter[m] = Cardinality({v \in vmas : v.mapping = m})

\* Neither a VMA nor a fault that is still running points to a tracer close has freed.
TracerOutlivesUse ==
  /\ \A v \in vmas : v.mapping \in InUse
  /\ \A t \in Threads : fault[t] # Idle => fault[t].mapping \in InUse

\* A page the process can reach has not been freed, and is reached at one address only.
MappedPagesHeld ==
  \A x \in DOMAIN pte : pte[x] # Null =>
    pte[x] \in held /\ \A y \in DOMAIN pte : pte[y] = pte[x] => y = x

\* As long as no VMA has been split, the array of the tracer tells what close has
\* to free: an entry names the page that is mapped at its address, whichever of
\* two faults came first, and only an address without a page has an entry that is
\* not cleared.  A fault maps its page a moment before it records it.
ArrayMirrorsTable ==
  "split" \notin mishaps =>
    \A v \in vmas : tracer[v.mapping] = "live" =>
      \A i \in v.start .. v.end - 1 :
        LET m == v.mapping
        IN  \/ pages[m][i] = pte[<<m, i>>]
            \/ pte[<<m, i>>] = Null /\ pages[m][i] = Stale
            \/ \E t \in Threads :
                 fault[t] = [pc |-> "record", mapping |-> m, at |-> i, offset |-> i,
                             page |-> pte[<<m, i>>]]

\* The counters never claim that more pages are out than are, nor that more have
\* come back than went out.
CountersBound ==
  /\ free_page_counter <= allocate_page_counter
  /\ allocate_page_counter - free_page_counter <= Cardinality(held)

\* When the last VMA is gone every page has been freed and the counters agree,
\* unless a VMA was split or a page could not be mapped.
NothingLost ==
  vmas = {} /\ mishaps = {} /\ module # "corrupt" =>
    held = {} /\ allocate_page_counter = free_page_counter

\* "If your module is functioning correctly, they should be equal": the counters that
\* kmod_paging_exit prints agree once every mapping is gone and nothing has failed.
CountersAgreeAtExit ==
  module = "unloaded" /\ vmas = {} /\ "failure" \notin mishaps =>
    allocate_page_counter = free_page_counter

=============================================================================
