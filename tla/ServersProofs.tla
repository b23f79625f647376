--------------------------- MODULE ServersProofs ---------------------------
(***************************************************************************)
(* What the loops of the echo servers guarantee for every table size and   *)
(* every number of clients that connect, send, leave and break while the   *)
(* server is at work: a server watches the connections that are open and   *)
(* no others, never stops short of one the kernel has reported, and waits  *)
(* inside a read only for an entry nobody has written.                     *)
(***************************************************************************)
EXTENDS Servers, FiniteSetTheorems, WellFoundedInduction, TLAPS

-----------------------------------------------------------------------------
(* Slots and the least of them.                                            *)

\* Every set of naturals that has elements has a least one.
LEMMA LeastNatural ==
  ASSUME NEW S \in SUBSET Nat, S # {}
  PROVE  \E x \in S : \A y \in S : x <= y
<1>1. PICK R : R = OpToRel(<, Nat)
  OBVIOUS
<1>2. \A x, y \in Nat : y < x => <<y, x>> \in R
  BY <1>1 DEF OpToRel
<1>3. IsWellFoundedOn(R, Nat)
  BY <1>1, NatLessThanWellFounded
<1>4. \E x \in S : \A y \in S : <<y, x>> \notin R
  BY <1>3, WFMin
<1>5. \A x, y \in Nat : ~ (y < x) => x <= y
  OBVIOUS
<1> QED
  BY <1>2, <1>4, <1>5

\* The first entry of the table that a loop finds is one of those it looks for,
\* and no other comes before it.
LEMMA FirstFound ==
  ASSUME NEW S \in SUBSET Slots, S # {}
  PROVE  Min(S) \in S /\ \A s \in S : Min(S) <= s
<1>1. S \in SUBSET Nat
  BY BacklogAssumption DEF Slots, First, Last
<1>2. \E x \in S : \A y \in S : x <= y
  BY <1>1, LeastNatural
<1> QED
  BY <1>2 DEF Min

\* A search for a free entry finds one, if there is one, before all the others.
LEMMA FindsFree ==
  /\ FindSlot \in Slots => clients[FindSlot] = None
  /\ \A s \in Slots : s < FindSlot => clients[s] # None
  /\ FindSlot \in First..Last + 1
<1> USE BacklogAssumption DEF Slots, First, Last
<1>1. FreeSlots \in SUBSET Slots
  BY DEF FreeSlots
<1>2. CASE FreeSlots = {}
  BY <1>2 DEF FreeSlots, FindSlot
<1>3. CASE FreeSlots # {}
  <2>1. FindSlot \in FreeSlots /\ \A s \in FreeSlots : FindSlot <= s
    BY <1>1, <1>3, FirstFound DEF FindSlot
  <2> QED
    BY <2>1 DEF FreeSlots
<1> QED
  BY <1>2, <1>3

-----------------------------------------------------------------------------
(* Type correctness.                                                       *)

Conns == {"none", "open", "eof", "answered", "closed"} \cup Broken

\* The sets a server waits on and walks through are finite, however many
\* clients there are.
TypeInv ==
  /\ api \in {"poll", "select", "epoll"}
  /\ server \in {"wait", "listener", "stdin", "clients", "ended", "undefined"}
  /\ clients \in [Slots -> Clients \cup {None}]
  /\ boundry \in Int
  /\ reset \in SUBSET Clients /\ IsFiniteSet(reset)
  /\ ready \in SUBSET (Clients \cup {lfd, stdin}) /\ IsFiniteSet(ready)
  /\ junk \in Clients \cup {None}
  /\ nready \in Int
  /\ queue \in SUBSET Clients
  /\ conn \in [Clients -> Conns]
  /\ pending \in [Clients -> Nat]
  /\ typed \in BOOLEAN

LEMMA InitType == Init => TypeInv
<1> SUFFICES ASSUME Init PROVE TypeInv
  OBVIOUS
<1>1. api \in {"poll", "select", "epoll"}
  BY ApiAssumption DEF Init
<1>2. clients \in [Slots -> Clients \cup {None}] /\ boundry \in Int
  BY DEF Init, InitPoll, InitSelect, InitEpoll
<1>3. IsFiniteSet(reset) /\ IsFiniteSet(ready)
  BY FS_EmptySet DEF Init
<1>4. conn \in [Clients -> Conns]
  BY DEF Init, Conns
<1>5. pending \in [Clients -> Nat]
  BY DEF Init
<1>6. /\ server = "wait" /\ reset = {} /\ ready = {} /\ junk = None /\ nready = 0
      /\ queue = {} /\ typed = FALSE
  BY DEF Init
<1>7. /\ reset \in SUBSET Clients /\ ready \in SUBSET (Clients \cup {lfd, stdin})
      /\ junk \in Clients \cup {None} /\ queue \in SUBSET Clients
  BY <1>6
<1>8. /\ server \in {"wait", "listener", "stdin", "clients", "ended", "undefined"}
      /\ nready \in Int
  BY <1>6
<1>9. typed \in BOOLEAN
  BY <1>6, Zenon
<1> QED
  BY <1>1, <1>2, <1>3, <1>4, <1>5, <1>7, <1>8, <1>9 DEF TypeInv

\* api, and with it the table's size, never changes.
LEMMA SameTable ==
  ASSUME UNCHANGED api
  PROVE  UNCHANGED <<First, Last, Slots>>
  BY DEF First, Last, Slots

LEMMA AfterWriteType ==
  ASSUME TypeInv, NEW c \in Clients
  PROVE  /\ AfterWrite(c) \in Conns
         /\ AfterWrite(c) \in {"none", "closed"} <=> conn[c] \in {"none", "closed"}
         /\ conn[c] \in Gone => AfterWrite(c) \in Gone
         /\ conn[c] \in Broken => AfterWrite(c) \in Broken
  BY DEF TypeInv, AfterWrite, Conns, Broken, Gone

\* What is left to do after a descriptor has been dealt with.
LEMMA DealtType ==
  ASSUME TypeInv, NEW d, NEW next \in {"stdin", "clients"},
         NEW unwritten \in Clients \cup {None}, Dealt(d, next, unwritten)
  PROVE  /\ server' \in {"wait", next}
         /\ ready' \in SUBSET (Clients \cup {lfd, stdin}) /\ IsFiniteSet(ready')
         /\ junk' \in Clients \cup {None}
         /\ nready' \in Int
  BY FS_EmptySet, FS_RemoveElement DEF TypeInv, Dealt, Again, Count

\* Nothing is reported when a loop starts over.
LEMMA AgainType ==
  ASSUME TypeInv, Again \/ End
  PROVE  /\ server' \in {"wait", "ended"}
         /\ ready' \in SUBSET (Clients \cup {lfd, stdin}) /\ IsFiniteSet(ready')
         /\ junk' \in Clients \cup {None}
         /\ nready' \in Int
<1>1. CASE Again
  <2>1. server' = "wait" /\ ready' = {} /\ junk' = None /\ nready' = 0
    BY <1>1 DEF Again
  <2>2. IsFiniteSet({})
    BY FS_EmptySet
  <2>3. IsFiniteSet(ready')
    BY <2>1, <2>2
  <2> QED
    BY <2>1, <2>3
<1>2. CASE End
  BY <1>2 DEF End, TypeInv
<1> QED
  BY <1>1, <1>2

\* A wait reports a finite set: what it watches is finite.
LEMMA ReportType ==
  ASSUME TypeInv, NEW watched, NEW told, watched \in SUBSET Clients, IsFiniteSet(watched),
         Report(watched, told)
  PROVE  TypeInv'
<1> DEFINE all == {c \in watched : Readable(c)}
                  \cup (IF queue # {} THEN {lfd} ELSE {})
                  \cup (IF typed THEN {stdin} ELSE {})
<1>1. all \in SUBSET (watched \cup {lfd} \cup {stdin})
  OBVIOUS
<1>2. IsFiniteSet(watched \cup {lfd} \cup {stdin})
  BY FS_AddElement
<1>3. IsFiniteSet(all)
  BY <1>1, <1>2, FS_Subset
<1>4. /\ nready' = Cardinality(all) /\ ready' = all \cap told /\ junk' = None
      /\ server' = "listener" /\ UNCHANGED <<api, clients, boundry, reset, netVars>>
  BY DEF Report
<1>5. IsFiniteSet(ready') /\ ready' \in SUBSET (Clients \cup {lfd, stdin})
  BY <1>1, <1>3, <1>4, FS_Intersection
<1>6. nready' \in Int
  BY <1>3, <1>4, FS_CardinalityType
<1> QED
  BY <1>4, <1>5, <1>6, SameTable DEF TypeInv, netVars

\* What the poll server waits on is in the table.
LEMMA PollWatched ==
  ASSUME TypeInv, boundry <= Last, NEW watched,
         watched = {clients[s] : s \in First..boundry} \ {None}
  PROVE  watched \in SUBSET Clients /\ watched \in SUBSET Connected /\ IsFiniteSet(watched)
<1>1. First \in Int /\ Last \in Int /\ First..boundry \in SUBSET Slots
  BY BacklogAssumption DEF TypeInv, First, Last, Slots
<1>2. IsFiniteSet(First..boundry)
  BY <1>1, FS_Interval DEF TypeInv
<1>3. PICK f : f = [s \in First..boundry |-> clients[s]]
  OBVIOUS
<1>4. f \in Surjection(First..boundry, {clients[s] : s \in First..boundry})
  BY <1>3 DEF Surjection
<1>5. IsFiniteSet({clients[s] : s \in First..boundry})
  BY <1>2, <1>4, FS_Surjection
<1>6. IsFiniteSet(watched)
  BY <1>5, FS_RemoveElement
<1> QED
  BY <1>1, <1>6 DEF TypeInv, Connected, Range

\* None is the number of no descriptor.
LEMMA NoneIsFree ==
  ASSUME TypeInv
  PROVE  None \notin ready /\ None \notin Clients /\ lfd \notin Clients /\ stdin \notin Clients
  BY NoneAssumption, DescriptorAssumption DEF TypeInv, lfd, stdin

\* A call of the server has broken the connection or ended the program, and
\* the entry stays.
KeepsEntry(s, c) ==
  /\ UNCHANGED <<clients, reset>>
  /\ \/ UNCHANGED conn
     \/ conn[c] = "reset" /\ conn' = [conn EXCEPT ![c] = "aborted"]
  /\ \/ UNCHANGED pending
     \/ pending[c] > 0 /\ pending' = [pending EXCEPT ![c] = @ - 1]
  /\ Again \/ End

\* The server has answered.
Answers(s, c) ==
  /\ UNCHANGED <<clients, reset>>
  /\ conn' = [conn EXCEPT ![c] = AfterWrite(c)]
  /\ pending[c] > 0 /\ pending' = [pending EXCEPT ![c] = @ - 1]
  /\ NextEntry(s)

\* It has closed the connection.
HangsUp(s, c) ==
  /\ Forget(s)
  /\ reset' = IF api = "select" THEN reset \ {c} ELSE reset
  /\ NextEntry(s)

\* s is the first entry the loop finds, and c is the connection it holds.
Serves(s, c) ==
  /\ server = "clients" /\ api \in {"poll", "select"}
  /\ s \in Left /\ \A t \in Left : s <= t
  /\ c = clients[s] /\ c \in ready \cup {junk}
  /\ UNCHANGED <<api, boundry, queue, typed>>
  /\ KeepsEntry(s, c) \/ Answers(s, c) \/ HangsUp(s, c)

\* The connection served is that of the first entry found, and the server
\* keeps, answers or closes it.
LEMMA ServeOutcome ==
  ASSUME TypeInv, ServeClient
  PROVE  \E s \in Slots, c \in Clients : Serves(s, c)
<1>1. PICK s : s = Min(Left) /\ (ClientPoll(s) \/ ClientSelect(s))
  BY DEF ServeClient
<1>2. server = "clients" /\ Left # {} /\ Left \in SUBSET Slots
  BY DEF ServeClient, Left
<1>3. s \in Left /\ \A t \in Left : s <= t
  BY <1>1, <1>2, FirstFound
<1>4. s \in Slots /\ clients[s] \in Clients /\ clients[s] \in ready \cup {junk}
  BY <1>2, <1>3, NoneIsFree DEF Left, TypeInv
<1>5. api \in {"poll", "select"} /\ UNCHANGED <<api, boundry, queue, typed>>
  BY <1>1 DEF ClientPoll, ClientSelect
<1>6. KeepsEntry(s, clients[s]) \/ Answers(s, clients[s]) \/ HangsUp(s, clients[s])
  <2>1. CASE ClientPoll(s)
    BY <2>1 DEF ClientPoll, Echo, HangUpPoll, AtEnd, ReadFails, KeepsEntry, Answers, HangsUp
  <2>2. CASE ClientSelect(s)
    BY <2>2 DEF ClientSelect, Echo, HangUpSelect, AtEnd, ReadFails, KeepsEntry, Answers, HangsUp
  <2> QED
    BY <1>1, <2>1, <2>2
<1> QED
  BY <1>2, <1>3, <1>4, <1>5, <1>6 DEF Serves

LEMMA ServeType ==
  ASSUME TypeInv, NEW s \in Slots, NEW c \in Clients, Serves(s, c)
  PROVE  TypeInv'
<1>1. UNCHANGED <<api, boundry, queue, typed, First, Last, Slots>> /\ c = clients[s]
  BY SameTable DEF Serves
<1>2. ASSUME NextEntry(s)
      PROVE  /\ server' \in {"wait", "clients"}
             /\ ready' \in SUBSET (Clients \cup {lfd, stdin}) /\ IsFiniteSet(ready')
             /\ junk' \in Clients \cup {None}
             /\ nready' \in Int
  BY <1>2, DealtType DEF NextEntry, TypeInv
<1>3. CASE KeepsEntry(s, c)
  <2>1. UNCHANGED <<clients, reset>>
    BY <1>3 DEF KeepsEntry
  <2>2. conn' \in [Clients -> Conns]
    BY <1>3 DEF KeepsEntry, TypeInv, Conns, Broken
  <2>3. pending' \in [Clients -> Nat]
    BY <1>3 DEF KeepsEntry, TypeInv
  <2>4. /\ server' \in {"wait", "ended"}
        /\ ready' \in SUBSET (Clients \cup {lfd, stdin}) /\ IsFiniteSet(ready')
        /\ junk' \in Clients \cup {None}
        /\ nready' \in Int
    BY <1>3, AgainType DEF KeepsEntry
  <2> QED
    BY <1>1, <2>1, <2>2, <2>3, <2>4 DEF TypeInv
<1>4. CASE Answers(s, c)
  <2>1. UNCHANGED <<clients, reset>> /\ NextEntry(s)
    BY <1>4 DEF Answers
  <2>2. conn' \in [Clients -> Conns]
    BY <1>4, AfterWriteType DEF Answers, TypeInv
  <2>3. pending' \in [Clients -> Nat]
    BY <1>4 DEF Answers, TypeInv
  <2> QED
    BY <1>1, <1>2, <2>1, <2>2, <2>3 DEF TypeInv
<1>5. CASE HangsUp(s, c)
  <2>1. clients' \in [Slots -> Clients \cup {None}] /\ NextEntry(s)
    BY <1>5 DEF HangsUp, Forget, TypeInv
  <2>2. conn' \in [Clients -> Conns]
    BY <1>5 DEF HangsUp, Forget, TypeInv, Conns
  <2>3. pending' \in [Clients -> Nat]
    BY <1>5 DEF HangsUp, Forget, TypeInv
  <2>4. reset' \in SUBSET Clients /\ IsFiniteSet(reset')
    BY <1>5, FS_RemoveElement DEF HangsUp, TypeInv
  <2> QED
    BY <1>1, <1>2, <2>1, <2>2, <2>3, <2>4 DEF TypeInv
<1> QED
  BY <1>3, <1>4, <1>5 DEF Serves

LEMMA AcceptType ==
  ASSUME TypeInv, NEW c \in Clients, Accept(c)
  PROVE  TypeInv'
<1>1. CASE AcceptPoll(c)
  <2>1. UNCHANGED <<api, reset, pending, typed, First, Last, Slots>> /\ queue' = queue \ {c}
    BY <1>1, SameTable DEF AcceptPoll
  <2>2. clients' \in [Slots -> Clients \cup {None}]
    BY <1>1 DEF AcceptPoll, TypeInv
  <2>3. boundry' \in Int
    BY <1>1, FindsFree, BacklogAssumption DEF AcceptPoll, TypeInv, First, Last
  <2>4. conn' \in [Clients -> Conns]
    BY <1>1, AfterWriteType DEF AcceptPoll, TypeInv
  <2>5. PICK unwritten \in Clients \cup {None} : Dealt(lfd, "stdin", unwritten)
    BY <1>1 DEF AcceptPoll
  <2> QED
    BY <2>1, <2>2, <2>3, <2>4, <2>5, DealtType DEF TypeInv
<1>2. CASE AcceptSelect(c)
  <2>1. UNCHANGED <<api, boundry, pending, typed, First, Last, Slots>> /\ queue' = queue \ {c}
    BY <1>2, SameTable DEF AcceptSelect
  <2>2. clients' \in [Slots -> Clients \cup {None}]
    BY <1>2 DEF AcceptSelect, TypeInv
  <2>3. reset' \in SUBSET Clients /\ IsFiniteSet(reset')
    BY <1>2, FS_AddElement DEF AcceptSelect, TypeInv
  <2>4. conn' \in [Clients -> Conns]
    BY <1>2, AfterWriteType DEF AcceptSelect, TypeInv
  <2>5. Dealt(lfd, "stdin", None)
    BY <1>2 DEF AcceptSelect
  <2> QED
    BY <2>1, <2>2, <2>3, <2>4, <2>5, DealtType DEF TypeInv
<1>3. CASE AcceptEpoll(c)
  <2>1. /\ UNCHANGED <<api, clients, boundry, reset, typed, ready, junk, nready, First, Last, Slots>>
        /\ queue' = queue \ {c} /\ server' = "ended"
    BY <1>3, SameTable DEF AcceptEpoll, End
  <2>2. conn' \in [Clients -> Conns]
    BY <1>3 DEF AcceptEpoll, TypeInv, Conns
  <2>3. pending' \in [Clients -> Nat]
    BY <1>3 DEF AcceptEpoll, TypeInv
  <2> QED
    BY <2>1, <2>2, <2>3 DEF TypeInv
<1> QED
  BY <1>1, <1>2, <1>3 DEF Accept

LEMMA NextType == TypeInv /\ [Next]_vars => TypeInv'
<1> SUFFICES ASSUME TypeInv, [Next]_vars PROVE TypeInv'
  OBVIOUS
<1>1. CASE WaitPoll
  <2>1. PICK watched : /\ watched = {clients[s] : s \in First..boundry} \ {None}
                       /\ \E told : Report(watched, told)
    BY <1>1 DEF WaitPoll
  <2>2. watched \in SUBSET Clients /\ IsFiniteSet(watched)
    BY <1>1, <2>1, PollWatched DEF WaitPoll
  <2> QED
    BY <2>1, <2>2, ReportType
<1>2. CASE WaitSelect \/ WaitEpoll
  BY <1>2, ReportType, FS_EmptySet DEF WaitSelect, WaitEpoll, TypeInv
<1>3. CASE WaitOutside \/ NoConnection \/ NoLine \/ UNCHANGED vars
  BY <1>3, SameTable
  DEF WaitOutside, NoConnection, NoLine, TypeInv, vars, serverVars, netVars
<1>4. ASSUME NEW c \in Clients, Accept(c) PROVE TypeInv'
  BY <1>4, AcceptType
<1>5. CASE AcceptFails \/ LoopEnds
  <2>1. UNCHANGED <<api, clients, boundry, reset, netVars>> /\ (Again \/ End)
    BY <1>5 DEF AcceptFails, LoopEnds
  <2> QED
    BY <2>1, AgainType, SameTable DEF TypeInv, netVars
<1>6. CASE ReadLine \/ ReadLineEpoll
  <2>1. /\ UNCHANGED <<api, clients, boundry, reset, queue, conn, pending>>
        /\ End \/ Dealt(stdin, "clients", junk)
    BY <1>6 DEF ReadLine, ReadLineEpoll
  <2>2. typed' \in BOOLEAN
    BY <1>6, Zenon DEF ReadLine, ReadLineEpoll
  <2>3. /\ server' \in {"ended", "wait", "clients"}
        /\ ready' \in SUBSET (Clients \cup {lfd, stdin}) /\ IsFiniteSet(ready')
        /\ junk' \in Clients \cup {None}
        /\ nready' \in Int
    BY <2>1, DealtType DEF End, TypeInv
  <2> QED
    BY <2>1, <2>2, <2>3, SameTable DEF TypeInv
<1>7. CASE ServeClient
  BY <1>7, ServeOutcome, ServeType
<1>8. ASSUME NEW c \in Clients, Connect(c) \/ Send(c) \/ Leave(c) \/ ResetArrives(c)
      PROVE  TypeInv'
  <2>1. UNCHANGED <<api, serverVars, typed>>
    BY <1>8 DEF Connect, Send, Leave, ResetArrives
  <2>2. conn' \in [Clients -> Conns]
    BY <1>8 DEF Connect, Send, Leave, ResetArrives, TypeInv, Conns, Broken
  <2>3. pending' \in [Clients -> Nat]
    BY <1>8 DEF Connect, Send, Leave, ResetArrives, TypeInv
  <2>4. queue' \in SUBSET Clients
    BY <1>8 DEF Connect, Send, Leave, ResetArrives, TypeInv
  <2> QED
    BY <2>1, <2>2, <2>3, <2>4, SameTable DEF TypeInv, serverVars
<1>9. CASE Type
  <2>1. UNCHANGED <<api, serverVars, queue, conn, pending>>
    BY <1>9 DEF Type
  <2>2. typed' \in BOOLEAN
    BY <1>9, Zenon DEF Type
  <2> QED
    BY <2>1, <2>2, SameTable DEF TypeInv, serverVars
<1> QED
  BY <1>1, <1>2, <1>3, <1>4, <1>5, <1>6, <1>7, <1>8, <1>9 DEF Next, ServerStep

\* Every variable of a server keeps its type.
LEMMA TypeCorrect == Spec => []TypeInv
  BY InitType, NextType, PTL DEF Spec

-----------------------------------------------------------------------------
(* What the server watches.                                                *)

Absent == {"none", "closed"}

\* A connection that waits to be accepted is open or has been left, and the poll
\* server's boundary is never left of its table.
OpenInv ==
  /\ \A c \in queue : conn[c] \notin Absent
  /\ api = "poll" => boundry >= First - 1
  /\ WatchesWhatIsOpen

LEMMA InitOpen == Init => OpenInv
<1> SUFFICES ASSUME Init PROVE OpenInv
  OBVIOUS
<1>1. /\ clients = [s \in Slots |-> None] /\ queue = {} /\ reset = {}
      /\ conn = [c \in Clients |-> "none"]
      /\ api = "poll" => boundry = 1
  BY DEF Init, InitPoll, InitSelect, InitEpoll
<1>2. /\ Accepted = {} /\ Connected = {} /\ \A s \in Slots : clients[s] = None
      /\ api = "poll" => {clients[s] : s \in First..boundry} \ {None} = {}
  <2>1. \A s \in Slots : clients[s] = None
    BY <1>1
  <2>2. Accepted = {} /\ Connected = {}
    BY <1>1 DEF Accepted, Connected, Range
  <2>3. api = "poll" => First..boundry = {}
    BY <1>1 DEF First
  <2> QED
    BY <2>1, <2>2, <2>3
<1> QED
  BY <1>1, <1>2 DEF OpenInv, WatchesWhatIsOpen, First

\* The connections of the table are those some entry holds.
LEMMA ConnectedIs ==
  ASSUME TypeInv
  PROVE  \A c : c \in Connected <=> c # None /\ \E s \in Slots : clients[s] = c
  BY DEF TypeInv, Connected, Range

\* What leaves the table, the boundary and the queue alone, and opens and closes
\* no connection, leaves what is watched alone.
LEMMA SameOpen ==
  ASSUME TypeInv, OpenInv, UNCHANGED <<api, clients, boundry, reset, queue>>,
         \A c \in Clients : conn'[c] \in Absent <=> conn[c] \in Absent
  PROVE  OpenInv' /\ UNCHANGED <<Accepted, Connected>>
<1>1. UNCHANGED <<First, Last, Slots, Connected>>
  BY SameTable DEF Connected
<1>2. UNCHANGED Accepted
  BY DEF Accepted, Absent
<1>3. \A c \in queue : c \in Clients
  BY DEF TypeInv
<1> QED
  BY <1>1, <1>2, <1>3 DEF OpenInv, WatchesWhatIsOpen, Overrun

\* Accepting c moves it from the queue to the accepted ones.
LEMMA Accepts ==
  ASSUME TypeInv, OpenInv, NEW c \in queue, queue' = queue \ {c},
         conn' = [conn EXCEPT ![c] = AfterWrite(c)]
  PROVE  /\ Accepted' = Accepted \cup {c} /\ c \notin Accepted /\ c \notin Connected
         /\ \A d \in queue' : conn'[d] \notin Absent
<1>1. c \in Clients /\ conn[c] \notin Absent
  BY DEF TypeInv, OpenInv
<1>2. conn'[c] \notin Absent /\ \A d \in Clients \ {c} : conn'[d] = conn[d]
  BY <1>1, AfterWriteType DEF TypeInv, Absent
<1>3. Accepted' = Accepted \cup {c} /\ c \notin Accepted
  BY <1>1, <1>2 DEF Accepted, Absent
<1>4. c \notin Connected
  BY <1>3 DEF OpenInv, WatchesWhatIsOpen
<1>5. \A d \in queue' : conn'[d] \notin Absent
  BY <1>1, <1>2 DEF OpenInv, TypeInv
<1> QED
  BY <1>3, <1>4, <1>5

\* The connection that is accepted takes the first free entry, if there is one.
TakesEntry(c) ==
  clients' = IF FindSlot \in Slots THEN [clients EXCEPT ![FindSlot] = c] ELSE clients

LEMMA EntryTaken ==
  ASSUME TypeInv, OpenInv, UNCHANGED api, NEW c \in Clients, c \notin Connected, TakesEntry(c)
  PROVE  /\ \A s, t \in Slots : clients'[s] = clients'[t] => s = t \/ clients'[s] = None
         /\ FindSlot \in Slots => clients'[FindSlot] = c
         /\ \A s \in Slots : clients'[s] = clients[s] \/ (s = FindSlot /\ clients[s] = None)
         /\ Connected' \in SUBSET (Connected \cup {c})
         /\ Connected \in SUBSET Connected'
<1>1. UNCHANGED <<First, Last, Slots>> /\ c # None
  BY SameTable, NoneAssumption
<1>2. FindSlot \in Slots => clients'[FindSlot] = c /\ clients[FindSlot] = None
  BY FindsFree DEF TakesEntry, TypeInv
<1>3. \A s \in Slots : s # FindSlot => clients'[s] = clients[s]
  BY DEF TakesEntry, TypeInv
<1>4. clients' \in [Slots -> Clients \cup {None}]
  BY DEF TakesEntry, TypeInv
<1>5. \A s \in Slots : clients[s] # c
  BY <1>1, ConnectedIs
<1>6. \A s, t \in Slots : clients[s] = clients[t] => s = t \/ clients[s] = None
  BY DEF OpenInv, WatchesWhatIsOpen
<1>7. \A s, t \in Slots : clients'[s] = clients'[t] => s = t \/ clients'[s] = None
  <2> SUFFICES ASSUME NEW s \in Slots, NEW t \in Slots, clients'[s] = clients'[t], s # t
               PROVE  clients'[s] = None
    OBVIOUS
  <2>1. CASE s # FindSlot /\ t # FindSlot
    BY <1>3, <1>6, <2>1
  <2>2. CASE s = FindSlot \/ t = FindSlot
    BY <1>2, <1>3, <1>5, <2>2
  <2> QED
    BY <2>1, <2>2
<1>8. \A d : d \in Connected' <=> d # None /\ \E s \in Slots : clients'[s] = d
  BY <1>1, <1>4 DEF Connected, Range
<1>9. Connected' \in SUBSET (Connected \cup {c})
  <2>1. \A d \in Connected' : d \in Connected \cup {c}
    BY <1>2, <1>3, <1>8, ConnectedIs
  <2> QED
    BY <2>1
<1>10. Connected \in SUBSET Connected'
  <2>1. \A d \in Connected : d \in Connected'
    BY <1>2, <1>3, <1>8, ConnectedIs
  <2> QED
    BY <2>1
<1> QED
  BY <1>2, <1>3, <1>7, <1>9, <1>10

LEMMA AcceptOpen ==
  ASSUME TypeInv, OpenInv, NEW c \in Clients, Accept(c)
  PROVE  OpenInv'
<1>0. c \in queue /\ c # None
  BY NoneAssumption DEF Accept
<1>1. CASE AcceptPoll(c)
  <2>1. /\ api = "poll" /\ UNCHANGED <<api, First, Last, Slots>> /\ TakesEntry(c)
        /\ queue' = queue \ {c} /\ conn' = [conn EXCEPT ![c] = AfterWrite(c)]
        /\ boundry' = IF FindSlot > boundry THEN FindSlot ELSE boundry
    BY <1>1, SameTable DEF AcceptPoll, TakesEntry
  <2>2. /\ Accepted' = Accepted \cup {c} /\ c \notin Accepted /\ c \notin Connected
        /\ \A d \in queue' : conn'[d] \notin Absent
    BY <1>0, <2>1, Accepts
  <2>3. /\ \A s, t \in Slots : clients'[s] = clients'[t] => s = t \/ clients'[s] = None
        /\ FindSlot \in Slots => clients'[FindSlot] = c
        /\ \A s \in Slots : clients'[s] = clients[s] \/ (s = FindSlot /\ clients[s] = None)
        /\ Connected' \in SUBSET (Connected \cup {c})
    BY <2>1, <2>2, EntryTaken
  <2>4. Connected \subseteq Accepted /\ boundry >= First - 1
    BY <2>1 DEF OpenInv, WatchesWhatIsOpen
  <2>5. FindSlot \in First..Last + 1 /\ boundry \in Int /\ First \in Int /\ Last \in Int
    BY FindsFree, BacklogAssumption DEF TypeInv, First, Last
  <2>6. ASSUME boundry' <= Last
        PROVE  Accepted' = {clients'[s] : s \in First..boundry'} \ {None}
    <3>1. /\ boundry <= Last /\ FindSlot \in First..boundry' /\ FindSlot \in Slots
          /\ boundry <= boundry' /\ First..boundry' \in SUBSET Slots
          /\ First..boundry \in SUBSET First..boundry'
      BY <2>1, <2>5, <2>6 DEF Slots
    <3>2. Accepted = {clients[s] : s \in First..boundry} \ {None}
      BY <2>1, <3>1, <2>5 DEF OpenInv, WatchesWhatIsOpen, Overrun
    <3>3. ASSUME NEW d \in Accepted' PROVE d \in {clients'[s] : s \in First..boundry'} \ {None}
      <4>1. CASE d = c
        BY <1>0, <2>3, <3>1, <4>1
      <4>2. CASE d # c
        <5>1. PICK s \in First..boundry : clients[s] = d /\ d # None
          BY <2>2, <3>2, <3>3, <4>2
        <5>2. s \in Slots /\ s \in First..boundry' /\ clients'[s] = d
          BY <2>3, <3>1, <5>1
        <5> QED
          BY <5>1, <5>2
      <4> QED
        BY <4>1, <4>2
    <3>4. ASSUME NEW s \in First..boundry', clients'[s] # None PROVE clients'[s] \in Accepted'
      <4>1. s \in Slots
        BY <3>1
      <4>2. CASE clients'[s] = clients[s]
        BY <2>2, <2>4, <3>4, <4>1, <4>2, ConnectedIs
      <4>3. CASE s = FindSlot
        BY <2>2, <2>3, <4>1, <4>3
      <4> QED
        BY <2>3, <4>1, <4>2, <4>3
    <3> QED
      BY <3>3, <3>4
  <2>7. (api = "poll" => boundry >= First - 1)'
    BY <2>1, <2>4, <2>5
  <2>8. Connected' \subseteq Accepted'
    BY <2>2, <2>3, <2>4
  <2>9. ~Overrun' => boundry' <= Last
    BY <2>1, <2>5 DEF Overrun
  <2>10. WatchesWhatIsOpen'
    BY <2>1, <2>3, <2>6, <2>8, <2>9 DEF WatchesWhatIsOpen
  <2> QED
    BY <2>2, <2>7, <2>10 DEF OpenInv
<1>2. CASE AcceptSelect(c)
  <2>1. /\ api = "select" /\ UNCHANGED <<api, boundry, First, Last, Slots>> /\ TakesEntry(c)
        /\ queue' = queue \ {c} /\ conn' = [conn EXCEPT ![c] = AfterWrite(c)]
        /\ reset' = reset \cup {c}
    BY <1>2, SameTable DEF AcceptSelect, TakesEntry
  <2>2. /\ Accepted' = Accepted \cup {c} /\ c \notin Accepted /\ c \notin Connected
        /\ \A d \in queue' : conn'[d] \notin Absent
    BY <1>0, <2>1, Accepts
  <2>3. /\ \A s, t \in Slots : clients'[s] = clients'[t] => s = t \/ clients'[s] = None
        /\ Connected' \in SUBSET (Connected \cup {c})
    BY <2>1, <2>2, EntryTaken
  <2>4. Connected \subseteq Accepted /\ reset = Accepted
    BY <2>1 DEF OpenInv, WatchesWhatIsOpen
  <2>5. WatchesWhatIsOpen'
    BY <2>1, <2>2, <2>3, <2>4 DEF WatchesWhatIsOpen
  <2> QED
    BY <2>1, <2>2, <2>5 DEF OpenInv
<1>3. CASE AcceptEpoll(c)
  <2>1. /\ api = "epoll" /\ UNCHANGED <<api, clients, boundry, First, Last, Slots>>
        /\ queue' = queue \ {c} /\ conn' = [conn EXCEPT ![c] = "closed"]
    BY <1>3, SameTable DEF AcceptEpoll
  <2>2. Accepted = {} /\ Connected = {} /\ Connected' = {}
    BY <2>1 DEF OpenInv, WatchesWhatIsOpen, Connected
  <2>3. conn'[c] = "closed" /\ \A d \in Clients \ {c} : conn'[d] = conn[d]
    BY <2>1 DEF TypeInv
  <2>4. Accepted' = {}
    BY <2>1, <2>2, <2>3 DEF Accepted
  <2>5. \A d \in queue' : conn'[d] \notin Absent
    BY <2>1, <2>3 DEF OpenInv, TypeInv
  <2>6. WatchesWhatIsOpen'
    BY <2>1, <2>2, <2>4 DEF WatchesWhatIsOpen, OpenInv
  <2> QED
    BY <2>1, <2>5, <2>6 DEF OpenInv
<1> QED
  BY <1>1, <1>2, <1>3 DEF Accept

\* Closing the connection of entry s takes it off the table and off the accepted.
LEMMA Forgotten ==
  ASSUME TypeInv, OpenInv, UNCHANGED <<api, queue>>, NEW s \in Slots, NEW c \in Clients,
         c = clients[s], Forget(s)
  PROVE  /\ \A t \in Slots : clients'[t] = IF t = s THEN None ELSE clients[t]
         /\ \A t \in Slots : t # s => clients[t] # c
         /\ Accepted' = Accepted \ {c} /\ c \in Accepted
         /\ Connected' = Connected \ {c}
<1>1. UNCHANGED <<First, Last, Slots>> /\ c # None
  BY SameTable, NoneAssumption
<1>2. \A t \in Slots : clients'[t] = IF t = s THEN None ELSE clients[t]
  BY DEF Forget, TypeInv
<1>3. \A t \in Slots : t # s => clients[t] # c
  BY <1>1 DEF OpenInv, WatchesWhatIsOpen
<1>4. c \in Accepted
  BY <1>1, ConnectedIs DEF OpenInv, WatchesWhatIsOpen
<1>5. conn'[c] = "closed" /\ \A d \in Clients \ {c} : conn'[d] = conn[d]
  BY DEF Forget, TypeInv
<1>6. Accepted' = Accepted \ {c}
  BY <1>4, <1>5 DEF Accepted
<1>7. clients' \in [Slots -> Clients \cup {None}]
  BY DEF Forget, TypeInv
<1>8. \A d : d \in Connected' <=> d # None /\ \E t \in Slots : clients'[t] = d
  BY <1>1, <1>7 DEF Connected, Range
<1>9. \A d : d \in Connected' <=> d \in Connected /\ d # c
  BY <1>1, <1>2, <1>3, <1>8, ConnectedIs
<1> QED
  BY <1>2, <1>3, <1>4, <1>6, <1>9

LEMMA ServeOpen ==
  ASSUME TypeInv, OpenInv, NEW s \in Slots, NEW c \in Clients, Serves(s, c)
  PROVE  OpenInv'
<1>1. /\ UNCHANGED <<api, boundry, queue, First, Last, Slots>> /\ c = clients[s]
      /\ api \in {"poll", "select"}
  BY SameTable DEF Serves
<1>2. CASE KeepsEntry(s, c) \/ Answers(s, c)
  <2>1. UNCHANGED <<clients, reset>>
    BY <1>2 DEF KeepsEntry, Answers
  <2>2. \A d \in Clients : conn'[d] \in Absent <=> conn[d] \in Absent
    BY <1>2, AfterWriteType DEF KeepsEntry, Answers, TypeInv, Absent
  <2> QED
    BY <1>1, <2>1, <2>2, SameOpen
<1>3. CASE HangsUp(s, c)
  <2>1. Forget(s) /\ reset' = IF api = "select" THEN reset \ {c} ELSE reset
    BY <1>3 DEF HangsUp
  <2>2. /\ \A t \in Slots : clients'[t] = IF t = s THEN None ELSE clients[t]
        /\ \A t \in Slots : t # s => clients[t] # c
        /\ Accepted' = Accepted \ {c} /\ c \in Accepted
        /\ Connected' = Connected \ {c}
    BY <1>1, <2>1, Forgotten
  <2>3. /\ \A t, u \in Slots : clients[t] = clients[u] => t = u \/ clients[t] = None
        /\ Connected \subseteq Accepted
        /\ api = "select" => reset = Accepted
    BY DEF OpenInv, WatchesWhatIsOpen
  <2>4. \A t, u \in Slots : clients'[t] = clients'[u] => t = u \/ clients'[t] = None
    BY <2>2, <2>3
  <2>5. ASSUME api = "poll", ~Overrun
        PROVE  Accepted' = {clients'[t] : t \in First..boundry} \ {None}
    <3>1. Accepted = {clients[t] : t \in First..boundry} \ {None}
      BY <2>5 DEF OpenInv, WatchesWhatIsOpen
    <3>2. First..boundry \in SUBSET Slots
      BY <2>5, BacklogAssumption DEF Overrun, Slots, TypeInv, First, Last
    <3>3. \A d \in Accepted' : d # None /\ \E t \in First..boundry : clients'[t] = d
      BY <1>1, <2>2, <3>1, <3>2
    <3>4. \A t \in First..boundry : clients'[t] # None => clients'[t] \in Accepted'
      BY <2>2, <3>1, <3>2
    <3> QED
      BY <3>3, <3>4
  <2>6. Overrun' <=> Overrun
    BY <1>1 DEF Overrun
  <2>7. WatchesWhatIsOpen'
    BY <1>1, <2>1, <2>2, <2>3, <2>4, <2>5, <2>6 DEF WatchesWhatIsOpen
  <2>8. \A d \in queue : conn'[d] \notin Absent
    <3>1. c \notin queue
      BY <2>2 DEF Accepted
    <3> QED
      BY <2>1, <3>1, <1>1 DEF OpenInv, Forget, TypeInv
  <2> QED
    BY <1>1, <2>7, <2>8 DEF OpenInv
<1> QED
  BY <1>2, <1>3 DEF Serves

LEMMA NextOpen == TypeInv /\ OpenInv /\ [Next]_vars => OpenInv'
<1> SUFFICES ASSUME TypeInv, OpenInv, [Next]_vars PROVE OpenInv'
  OBVIOUS
<1>1. ASSUME UNCHANGED <<api, clients, boundry, reset, queue, conn>> PROVE OpenInv'
  BY <1>1, SameOpen
<1>2. CASE WaitOutside \/ WaitPoll \/ WaitSelect \/ WaitEpoll
  BY <1>1, <1>2 DEF WaitOutside, WaitPoll, WaitSelect, WaitEpoll, Report, netVars
<1>3. CASE NoConnection \/ NoLine \/ UNCHANGED vars
  BY <1>1, <1>3 DEF NoConnection, NoLine, vars, serverVars, netVars
<1>4. ASSUME NEW c \in Clients, Accept(c) PROVE OpenInv'
  BY <1>4, AcceptOpen
<1>5. CASE AcceptFails \/ LoopEnds
  BY <1>1, <1>5 DEF AcceptFails, LoopEnds, netVars
<1>6. CASE ReadLine \/ ReadLineEpoll
  BY <1>1, <1>6 DEF ReadLine, ReadLineEpoll
<1>7. CASE ServeClient
  BY <1>7, ServeOutcome, ServeOpen
<1>8. ASSUME NEW c \in Clients, Connect(c) PROVE OpenInv'
  <2>1. /\ UNCHANGED <<api, clients, boundry, reset, First, Last, Slots, Connected>>
        /\ conn[c] = "none" /\ conn' = [conn EXCEPT ![c] = "open"] /\ queue' = queue \cup {c}
    BY <1>8, SameTable DEF Connect, serverVars, Connected
  <2>2. conn'[c] = "open" /\ \A d \in Clients \ {c} : conn'[d] = conn[d]
    BY <2>1 DEF TypeInv
  <2>3. Accepted' = Accepted
    BY <2>1, <2>2 DEF Accepted
  <2>4. \A d \in queue' : conn'[d] \notin Absent
    BY <2>1, <2>2 DEF OpenInv, TypeInv, Absent
  <2>5. WatchesWhatIsOpen'
    BY <2>1, <2>3 DEF OpenInv, WatchesWhatIsOpen, Overrun
  <2> QED
    BY <2>1, <2>4, <2>5 DEF OpenInv
<1>9. ASSUME NEW c \in Clients, Send(c) PROVE OpenInv'
  BY <1>1, <1>9 DEF Send, serverVars
<1>10. ASSUME NEW c \in Clients, Leave(c) \/ ResetArrives(c) PROVE OpenInv'
  <2>1. UNCHANGED <<api, clients, boundry, reset, queue>>
    BY <1>10 DEF Leave, ResetArrives, serverVars
  <2>2. \A d \in Clients : conn'[d] \in Absent <=> conn[d] \in Absent
    BY <1>10 DEF Leave, ResetArrives, TypeInv, Absent
  <2> QED
    BY <2>1, <2>2, SameOpen
<1>11. CASE Type
  BY <1>1, <1>11 DEF Type, serverVars
<1> QED
  BY <1>2, <1>3, <1>4, <1>5, <1>6, <1>7, <1>8, <1>9, <1>10, <1>11 DEF Next, ServerStep

LEMMA OpenInvariant == Spec => []OpenInv
  BY InitOpen, NextOpen, TypeCorrect, PTL DEF Spec

\* Whatever the clients do between the server's calls, and however full its table
\* is, the server watches the connections that are open and no others.
THEOREM NoneIsForgotten == Spec => []WatchesWhatIsOpen
<1>1. OpenInv => WatchesWhatIsOpen
  BY DEF OpenInv
<1> QED
  BY <1>1, OpenInvariant, PTL

-----------------------------------------------------------------------------
(* What the loops have still ahead.                                        *)

Looping == server \in {"listener", "stdin", "clients"}

\* What has been dealt with is not reported any more.
StageInv ==
  /\ server \in {"stdin", "clients"} => lfd \notin ready
  /\ server = "clients" => stdin \notin ready

\* nready counts at least what is reported and still ahead.  When it counts more,
\* a connection of the table is broken, and poll has told so with other bits.
CountInv ==
  /\ nready > 0
  /\ nready >= Cardinality(ready)
  /\ api = "poll" /\ nready > Cardinality(ready) =>
       \E d \in Connected \ ready : d # junk /\ conn[d] \in Broken

\* What is reported is accepted, and still has something to say.
ReadyInv ==
  /\ \A d \in ready \cap Clients : Readable(d) /\ d \in Accepted
  /\ api = "poll" => ready \cap Clients \subseteq Connected

\* The entry nobody has written lies behind all that are reported.
JunkInv ==
  junk # None =>
    /\ api = "poll"
    /\ junk \in Connected \ ready
    /\ \A s, t \in Slots : clients[s] \in ready /\ clients[t] = junk => s < t

LoopInv == Looping => StageInv /\ CountInv /\ ReadyInv /\ JunkInv

LEMMA InitLoop == Init => LoopInv
  BY DEF Init, LoopInv, Looping

\* A step that changes nothing the loop has ahead keeps the invariant if it takes
\* nothing back: what is accepted, readable or broken stays so.
LEMMA SameLoop ==
  ASSUME TypeInv, LoopInv, Looping, UNCHANGED <<api, clients, ready, junk, nready>>,
         StageInv',
         \A d \in Clients : /\ d \in Accepted => d \in Accepted'
                            /\ Readable(d) => Readable(d)'
                            /\ conn[d] \in Broken => conn'[d] \in Broken
  PROVE  LoopInv'
<1>1. UNCHANGED <<Slots, Connected>> /\ StageInv /\ CountInv /\ ReadyInv /\ JunkInv
  BY SameTable DEF LoopInv, Connected
<1>2. \A d \in Connected : d \in Clients
  BY ConnectedIs DEF TypeInv
<1>3. CountInv'
  BY <1>1, <1>2 DEF CountInv
<1>4. ReadyInv'
  BY <1>1 DEF ReadyInv
<1>5. JunkInv'
  BY <1>1 DEF JunkInv
<1> QED
  BY <1>3, <1>4, <1>5 DEF LoopInv

\* One descriptor less to deal with: the count goes down with the set, but for
\* one that was not reported, which comes last.
LEMMA DealtCounts ==
  ASSUME TypeInv, CountInv, NEW d, d \in ready \/ ready = {},
         NEW next, NEW unwritten, Dealt(d, next, unwritten), server' # "wait"
  PROVE  /\ server' = next /\ ready' = ready \ {d} /\ junk' = unwritten
         /\ nready' > 0 /\ nready' >= Cardinality(ready')
         /\ nready' > Cardinality(ready') => nready > Cardinality(ready)
<1>1. server' = next /\ ready' = ready \ {d} /\ junk' = unwritten
  BY DEF Dealt, Again
<1>2. nready' = nready - 1 /\ nready' # 0 /\ nready \in Int /\ nready > 0
  BY DEF Dealt, Again, Count, TypeInv, CountInv
<1>3. Cardinality(ready) \in Nat /\ Cardinality(ready) <= nready /\ IsFiniteSet(ready)
  BY FS_CardinalityType DEF TypeInv, CountInv
<1>4. CASE d \in ready
  <2>1. Cardinality(ready') = Cardinality(ready) - 1
    BY <1>1, <1>3, <1>4, FS_RemoveElement
  <2> QED
    BY <1>1, <1>2, <1>3, <2>1
<1>5. CASE ready = {}
  <2>1. ready' = {} /\ Cardinality(ready') = 0 /\ Cardinality(ready) = 0
    BY <1>1, <1>5, FS_EmptySet
  <2> QED
    BY <1>1, <1>2, <2>1
<1> QED
  BY <1>4, <1>5

\* A wait establishes the invariant.
LEMMA ReportLoop ==
  ASSUME TypeInv, OpenInv, NEW watched, watched \in SUBSET Accepted, IsFiniteSet(watched),
         NEW told, {lfd, stdin} \subseteq told, Report(watched, told),
         api = "poll" => /\ watched \subseteq Connected
                         /\ \A d \in watched \ told : conn[d] \in Broken
  PROVE  LoopInv'
<1> DEFINE all == {c \in watched : Readable(c)}
                  \cup (IF queue # {} THEN {lfd} ELSE {})
                  \cup (IF typed THEN {stdin} ELSE {})
<1>1. /\ nready' = Cardinality(all) /\ ready' = all \cap told /\ junk' = None /\ all # {}
      /\ server' = "listener" /\ UNCHANGED <<api, clients, boundry, reset, queue, conn, pending>>
  BY DEF Report, netVars
<1>2. IsFiniteSet(all)
  <2>1. all \in SUBSET (watched \cup {lfd} \cup {stdin})
    OBVIOUS
  <2>2. IsFiniteSet(watched \cup {lfd} \cup {stdin})
    BY FS_AddElement
  <2> QED
    BY <2>1, <2>2, FS_Subset
<1>3. \A d \in all : d \in {lfd, stdin} \/ (d \in watched /\ Readable(d))
  OBVIOUS
<1> HIDE DEF all
<1>4. UNCHANGED <<Slots, Connected, Accepted>> /\ \A d \in Clients : Readable(d)' <=> Readable(d)
  BY <1>1, SameTable DEF Connected, Accepted, Readable
<1>5. nready' > 0 /\ nready' >= Cardinality(ready')
  <2>1. Cardinality(all) \in Nat /\ Cardinality(all) # 0
    BY <1>1, <1>2, FS_CardinalityType, FS_EmptySet
  <2>2. Cardinality(ready') <= Cardinality(all)
    BY <1>1, <1>2, FS_Intersection
  <2> QED
    BY <1>1, <2>1, <2>2
<1>6. ASSUME api = "poll", nready' > Cardinality(ready')
      PROVE  \E d \in Connected \ ready' : d # None /\ conn[d] \in Broken
  <2>1. ready' # all
    <3>1. Cardinality(all) \in Nat /\ nready' = Cardinality(all)
      BY <1>1, <1>2, FS_CardinalityType
    <3>2. ~(Cardinality(all) > Cardinality(all))
      BY <3>1
    <3> QED
      BY <1>6, <3>1, <3>2
  <2>2. PICK d \in all : d \notin told
    BY <1>1, <2>1
  <2>3. d \in watched /\ d \notin ready'
    BY <1>1, <1>3, <2>2
  <2>4. d \in Connected /\ d # None /\ conn[d] \in Broken
    BY <1>6, <2>2, <2>3, ConnectedIs
  <2> QED
    BY <2>3, <2>4
<1>7. CountInv'
  BY <1>1, <1>4, <1>5, <1>6 DEF CountInv
<1>8. ReadyInv'
  BY <1>1, <1>3, <1>4, NoneIsFree DEF ReadyInv
<1>9. JunkInv' /\ StageInv'
  BY <1>1 DEF JunkInv, StageInv
<1> QED
  BY <1>7, <1>8, <1>9 DEF LoopInv

\* What is reported of connections is neither waiting to be accepted nor absent
\* from the table of the poll server.
LEMMA AcceptLoop ==
  ASSUME TypeInv, OpenInv, LoopInv, NEW c \in Clients, Accept(c)
  PROVE  LoopInv'
<1>0. c \in queue /\ c # None
  BY NoneAssumption DEF Accept
<1>1. (server = "listener" /\ lfd \in ready) \/ server' = "ended"
  BY DEF Accept, AcceptPoll, AcceptSelect, AcceptEpoll, End
<1>2. CASE server' \in {"wait", "ended"}
  BY <1>2 DEF LoopInv, Looping
<1>3. CASE server' \notin {"wait", "ended"}
  <2>1. PICK unwritten : Dealt(lfd, "stdin", unwritten)
                         /\ \/ /\ api = "poll"
                               /\ FindSlot \in boundry + 1..Last
                               /\ unwritten = c
                            \/ unwritten = None
    BY <1>3 DEF Accept, AcceptPoll, AcceptSelect, AcceptEpoll, End
  <2>2. /\ api \in {"poll", "select"} /\ UNCHANGED <<api, pending, First, Last, Slots>>
        /\ TakesEntry(c) /\ queue' = queue \ {c}
        /\ conn' = [conn EXCEPT ![c] = AfterWrite(c)]
    BY <1>3, SameTable DEF Accept, AcceptPoll, AcceptSelect, AcceptEpoll, End, TakesEntry
  <2>3. CountInv /\ ReadyInv
    BY <1>1, <1>3 DEF LoopInv, Looping
  <2>4. /\ server' = "stdin" /\ ready' = ready \ {lfd} /\ junk' = unwritten
        /\ nready' > 0 /\ nready' >= Cardinality(ready')
        /\ nready' > Cardinality(ready') => nready > Cardinality(ready)
    BY <1>1, <1>3, <2>1, <2>3, DealtCounts
  <2>5. Accepted' = Accepted \cup {c} /\ c \notin Accepted /\ c \notin Connected
    BY <1>0, <2>2, Accepts
  <2>6. /\ \A s, t \in Slots : clients'[s] = clients'[t] => s = t \/ clients'[s] = None
        /\ FindSlot \in Slots => clients'[FindSlot] = c
        /\ \A s \in Slots : clients'[s] = clients[s] \/ (s = FindSlot /\ clients[s] = None)
        /\ Connected \in SUBSET Connected'
    BY <2>2, <2>5, EntryTaken
  <2>7. \A d \in Clients \ {c} : conn'[d] = conn[d] /\ (Readable(d)' <=> Readable(d))
    BY <2>2 DEF TypeInv, Readable
  <2>8. \A d \in Connected : d \in Clients /\ d # c /\ d # None
    BY <2>5, ConnectedIs DEF TypeInv
  <2>9. CountInv'
    BY <2>1, <2>2, <2>3, <2>4, <2>6, <2>7, <2>8 DEF CountInv
  <2>10. c \notin ready
    BY <2>3, <2>5 DEF ReadyInv
  <2>11. ReadyInv'
    <3>1. \A d \in ready' \cap Clients : d \in ready /\ d # c
      BY <2>4, <2>10
    <3> QED
      BY <2>2, <2>3, <2>5, <2>6, <2>7, <3>1 DEF ReadyInv
  <2>12. StageInv'
    BY <2>4 DEF StageInv
  <2>13. JunkInv'
    <3> SUFFICES ASSUME junk' # None PROVE JunkInv'
      BY DEF JunkInv
    <3>1. junk' = c /\ api = "poll" /\ FindSlot \in boundry + 1..Last
      BY <2>1, <2>4
    <3>2. FindSlot \in Slots /\ boundry <= Last /\ boundry < FindSlot /\ boundry \in Int
      BY <3>1, FindsFree, BacklogAssumption DEF Slots, First, Last, TypeInv
    <3>3. clients'[FindSlot] = c
      BY <2>6, <3>2
    <3>4. c \in Connected'
      BY <1>0, <2>2, <3>2, <3>3 DEF Connected, Range, TakesEntry, TypeInv
    <3>5. ASSUME NEW s \in Slots, NEW t \in Slots, clients'[s] \in ready', clients'[t] = c
          PROVE  s < t
      <4>1. t = FindSlot
        BY <1>0, <2>6, <3>2, <3>3, <3>5
      <4>2. s # FindSlot
        BY <2>4, <2>10, <3>3, <3>5
      <4>3. clients[s] \in ready /\ clients[s] \in Clients
        BY <2>4, <2>6, <3>5, <4>2, NoneIsFree DEF TypeInv
      <4>4. clients[s] \in Accepted
        BY <2>3, <4>3 DEF ReadyInv
      <4>5. PICK u \in First..boundry : clients[u] = clients[s]
        <5>1. ~Overrun
          BY <3>2, BacklogAssumption DEF Overrun, First, Last
        <5> QED
          BY <3>1, <4>4, <5>1 DEF OpenInv, WatchesWhatIsOpen
      <4>6. u \in Slots
        BY <3>2, BacklogAssumption DEF Slots, First, Last
      <4>7. u = s
        BY <4>3, <4>5, <4>6, NoneAssumption DEF OpenInv, WatchesWhatIsOpen
      <4> QED
        BY <3>2, <4>1, <4>5, <4>7, BacklogAssumption DEF Slots, First, Last
    <3> QED
      BY <2>2, <2>4, <2>10, <3>1, <3>4, <3>5 DEF JunkInv
  <2> QED
    BY <2>9, <2>11, <2>12, <2>13 DEF LoopInv
<1> QED
  BY <1>2, <1>3

\* When the loop comes to the entry nobody has written, nothing else is ahead.
LEMMA JunkComesLast ==
  ASSUME TypeInv, LoopInv, server = "clients", NEW s \in Left, \A t \in Left : s <= t,
         clients[s] = junk
  PROVE  ready = {}
<1>1. StageInv /\ ReadyInv /\ JunkInv /\ junk # None
  BY NoneIsFree DEF LoopInv, Looping, Left
<1>2. SUFFICES ASSUME NEW d \in ready PROVE FALSE
  OBVIOUS
<1>3. d \in Connected
  BY <1>1, <1>2 DEF StageInv, ReadyInv, JunkInv, TypeInv
<1>4. PICK t \in Slots : clients[t] = d
  BY <1>3, ConnectedIs
<1>5. t \in Left /\ s \in Slots
  BY <1>2, <1>4 DEF Left
<1>6. s <= t /\ t < s
  BY <1>1, <1>2, <1>4, <1>5 DEF JunkInv
<1> QED
  BY <1>5, <1>6, BacklogAssumption DEF Slots, First, Last

LEMMA ServeLoop ==
  ASSUME TypeInv, OpenInv, LoopInv, NEW s \in Slots, NEW c \in Clients, Serves(s, c)
  PROVE  LoopInv'
<1>1. /\ UNCHANGED <<api, boundry, queue, First, Last, Slots>> /\ c = clients[s]
      /\ c \in ready \cup {junk} /\ server = "clients"
      /\ StageInv /\ CountInv /\ ReadyInv /\ JunkInv
  BY SameTable DEF Serves, LoopInv, Looping
<1>2. c # None /\ c \in Connected
  BY <1>1, NoneAssumption, ConnectedIs
<1>3. CASE server' \in {"wait", "ended"}
  BY <1>3 DEF LoopInv, Looping
<1>4. CASE server' \notin {"wait", "ended"}
  <2>1. NextEntry(s) /\ (Answers(s, c) \/ HangsUp(s, c))
    BY <1>4 DEF Serves, KeepsEntry, Answers, HangsUp, Again, End
  <2>2. PICK unwritten : /\ unwritten = IF c = junk THEN None ELSE junk
                         /\ Dealt(c, "clients", unwritten)
    BY <1>1, <2>1 DEF NextEntry
  <2>3. c \in ready \/ ready = {}
    BY <1>1, JunkComesLast DEF Serves
  <2>4. /\ server' = "clients" /\ ready' = ready \ {c} /\ junk' = unwritten
        /\ nready' > 0 /\ nready' >= Cardinality(ready')
        /\ nready' > Cardinality(ready') => nready > Cardinality(ready)
    BY <1>1, <1>4, <2>2, <2>3, DealtCounts
  <2>5. \A d \in Clients \ {c} : conn'[d] = conn[d] /\ (Readable(d)' <=> Readable(d))
    BY <1>1, <2>1 DEF Answers, HangsUp, Forget, TypeInv, Readable
  <2>6. /\ \A d \in Accepted : d # c => d \in Accepted'
        /\ \A d \in Connected : d # c => d \in Connected'
        /\ \A t \in Slots : clients'[t] = clients[t] \/ clients'[t] = None
    <3>1. CASE Answers(s, c)
      <4>1. \A d \in Clients : conn'[d] \in Absent <=> conn[d] \in Absent
        BY <3>1, AfterWriteType DEF Answers, TypeInv, Absent
      <4> QED
        BY <1>1, <3>1, <4>1, SameOpen DEF Answers
    <3>2. CASE HangsUp(s, c)
      BY <1>1, <3>2, Forgotten DEF HangsUp
    <3> QED
      BY <2>1, <3>1, <3>2
  <2>7. \A d \in Connected : d \in Clients
    BY ConnectedIs DEF TypeInv
  <2>8. CountInv'
    <3> SUFFICES ASSUME api = "poll", nready' > Cardinality(ready')
                 PROVE  \E d \in Connected' \ ready' : d # junk' /\ conn'[d] \in Broken
      BY <1>1, <2>4 DEF CountInv
    <3>1. PICK d \in Connected \ ready : d # junk /\ conn[d] \in Broken
      BY <1>1, <2>4 DEF CountInv
    <3>2. d # c /\ d # None /\ d \in Clients
      BY <1>1, <2>7, <3>1, ConnectedIs
    <3>3. d \in Connected' /\ d \notin ready' /\ d # junk' /\ conn'[d] \in Broken
      BY <2>2, <2>4, <2>5, <2>6, <3>1, <3>2
    <3> QED
      BY <3>3
  <2>9. ReadyInv'
    BY <1>1, <2>4, <2>5, <2>6 DEF ReadyInv
  <2>10. StageInv'
    BY <1>1, <2>4 DEF StageInv
  <2>11. JunkInv'
    <3> SUFFICES ASSUME junk' # None PROVE JunkInv'
      BY DEF JunkInv
    <3>1. junk' = junk /\ junk # c /\ junk # None
      BY <2>2, <2>4
    <3>2. api = "poll" /\ junk \in Connected' \ ready'
      BY <1>1, <2>4, <2>6, <3>1 DEF JunkInv
    <3>3. None \notin ready'
      BY <2>4, NoneIsFree
    <3>4. \A t, u \in Slots : clients'[t] \in ready' /\ clients'[u] = junk => t < u
      BY <1>1, <2>4, <2>6, <3>1, <3>3 DEF JunkInv
    <3> QED
      BY <1>1, <3>1, <3>2, <3>4 DEF JunkInv
  <2> QED
    BY <2>8, <2>9, <2>10, <2>11 DEF LoopInv
<1> QED
  BY <1>3, <1>4

LEMMA NextLoop == TypeInv /\ OpenInv /\ LoopInv /\ [Next]_vars => LoopInv'
<1> SUFFICES ASSUME TypeInv, OpenInv, LoopInv, [Next]_vars PROVE LoopInv'
  OBVIOUS
<1>0. ASSUME server' \notin {"listener", "stdin", "clients"} PROVE LoopInv'
  BY <1>0 DEF LoopInv, Looping
<1>1. CASE WaitPoll
  <2>1. PICK watched, told : /\ watched = {clients[s] : s \in First..boundry} \ {None}
                             /\ told = {lfd, stdin} \cup {c \in watched : conn[c] \notin Broken}
                             /\ Report(watched, told)
    BY <1>1 DEF WaitPoll
  <2>2. watched \in SUBSET Connected /\ IsFiniteSet(watched)
    BY <1>1, <2>1, PollWatched DEF WaitPoll
  <2>3. watched \in SUBSET Accepted
    BY <2>2 DEF OpenInv, WatchesWhatIsOpen
  <2>4. \A d \in watched \ told : conn[d] \in Broken
    BY <2>1
  <2> QED
    BY <2>1, <2>2, <2>3, <2>4, ReportLoop
<1>2. CASE WaitSelect
  <2>1. api = "select" /\ reset = Accepted /\ IsFiniteSet(reset)
    BY <1>2 DEF WaitSelect, OpenInv, WatchesWhatIsOpen, TypeInv
  <2> QED
    BY <1>2, <2>1, ReportLoop DEF WaitSelect
<1>3. CASE WaitEpoll
  BY <1>3, ReportLoop, FS_EmptySet DEF WaitEpoll
<1>4. CASE WaitOutside
  BY <1>0, <1>4 DEF WaitOutside
<1>5. CASE NoConnection \/ NoLine
  <2>1. UNCHANGED <<api, clients, ready, junk, nready>>
    BY <1>5 DEF NoConnection, NoLine
  <2>3. Looping
    BY <1>5 DEF NoConnection, NoLine, Looping
  <2>4. StageInv'
    BY <1>5 DEF NoConnection, NoLine, Looping, LoopInv, StageInv
  <2>2. \A d \in Clients : /\ d \in Accepted => d \in Accepted'
                           /\ Readable(d) => Readable(d)'
                           /\ conn[d] \in Broken => conn'[d] \in Broken
    BY <1>5 DEF NoConnection, NoLine, netVars, Accepted, Readable
  <2> QED
    BY <2>1, <2>2, <2>3, <2>4, SameLoop
<1>6. ASSUME NEW c \in Clients, Accept(c) PROVE LoopInv'
  BY <1>6, AcceptLoop
<1>7. CASE AcceptFails \/ LoopEnds
  BY <1>0, <1>7 DEF AcceptFails, LoopEnds, Again, End
<1>8. CASE ReadLine
  <2>1. CASE server' \in {"wait", "ended"}
    BY <1>0, <2>1
  <2>2. CASE server' \notin {"wait", "ended"}
    <3>1. /\ Dealt(stdin, "clients", junk) /\ stdin \in ready /\ server = "stdin"
          /\ UNCHANGED <<api, clients, boundry, reset, queue, conn, pending, Slots>>
          /\ StageInv /\ CountInv /\ ReadyInv /\ JunkInv
      BY <1>8, <2>2, SameTable DEF ReadLine, End, LoopInv, Looping
    <3>2. /\ server' = "clients" /\ ready' = ready \ {stdin} /\ junk' = junk
          /\ nready' > 0 /\ nready' >= Cardinality(ready')
          /\ nready' > Cardinality(ready') => nready > Cardinality(ready)
      BY <2>2, <3>1, DealtCounts
    <3>3. UNCHANGED <<Accepted, Connected>> /\ \A d \in Clients : Readable(d)' <=> Readable(d)
      BY <3>1 DEF Accepted, Connected, Readable
    <3>4. CountInv'
      BY <3>1, <3>2, <3>3 DEF CountInv
    <3>5. ReadyInv'
      BY <3>1, <3>2, <3>3 DEF ReadyInv
    <3>6. JunkInv' /\ StageInv'
      BY <3>1, <3>2, <3>3 DEF JunkInv, StageInv
    <3> QED
      BY <3>4, <3>5, <3>6 DEF LoopInv
  <2> QED
    BY <2>1, <2>2
<1>9. CASE ReadLineEpoll
  BY <1>0, <1>9 DEF ReadLineEpoll, End
<1>10. CASE ServeClient
  BY <1>10, ServeOutcome, ServeLoop
<1>11. ASSUME UNCHANGED <<api, serverVars>>,
              \A d \in Clients : /\ d \in Accepted => d \in Accepted'
                                 /\ Readable(d) => Readable(d)'
                                 /\ conn[d] \in Broken => conn'[d] \in Broken
       PROVE  LoopInv'
  <2>1. CASE Looping
    <3>1. StageInv'
      BY <1>11, <2>1 DEF serverVars, LoopInv, StageInv
    <3> QED
      BY <1>11, <2>1, <3>1, SameLoop DEF serverVars
  <2>2. CASE ~Looping
    BY <1>11, <2>2 DEF serverVars, LoopInv, Looping
  <2> QED
    BY <2>1, <2>2
<1>12. ASSUME NEW c \in Clients, Connect(c) \/ Send(c) \/ Leave(c) \/ ResetArrives(c)
       PROVE  LoopInv'
  <2>1. UNCHANGED <<api, serverVars>>
    BY <1>12 DEF Connect, Send, Leave, ResetArrives
  <2>2. ASSUME NEW d \in Clients
        PROVE  /\ d \in Accepted => d \in Accepted'
               /\ conn[d] \in Broken => conn'[d] \in Broken
    BY <1>12 DEF Connect, Send, Leave, ResetArrives, Accepted, TypeInv, Broken
  <2>3. ASSUME NEW d \in Clients PROVE Readable(d) => Readable(d)'
    BY <1>12 DEF Connect, Send, Leave, ResetArrives, Readable, TypeInv, Gone, Broken
  <2> QED
    BY <1>11, <2>1, <2>2, <2>3
<1>13. CASE Type \/ UNCHANGED vars
  <2>1. UNCHANGED <<api, serverVars, queue, conn, pending>>
    BY <1>13 DEF Type, vars, netVars
  <2> QED
    BY <1>11, <2>1 DEF Accepted, Readable
<1> QED
  BY <1>1, <1>2, <1>3, <1>4, <1>5, <1>6, <1>7, <1>8, <1>9, <1>10, <1>12, <1>13
  DEF Next, ServerStep

LEMMA LoopInvariant == Spec => [](TypeInv /\ OpenInv /\ LoopInv)
  BY InitLoop, NextLoop, TypeCorrect, OpenInvariant, PTL DEF Spec

\* For every table, every number of clients and every interleaving of theirs with
\* the loop, nready never runs out before the connections that were reported.
THEOREM NoneIsSkipped == Spec => []ReadyAreCounted
<1>1. ASSUME TypeInv, OpenInv, LoopInv PROVE ReadyAreCounted
  <2> SUFFICES ASSUME server = "clients"
               PROVE  /\ nready >= Cardinality({s \in Left : clients[s] # junk})
                      /\ nready > 0
    BY DEF ReadyAreCounted
  <2>1. CountInv /\ IsFiniteSet(ready) /\ nready \in Int
    BY <1>1 DEF LoopInv, Looping, TypeInv
  <2>2. PICK S : S = {s \in Left : clients[s] # junk}
    OBVIOUS
  <2>3. \A s \in S : s \in Slots /\ clients[s] \in ready /\ clients[s] # None
    BY <1>1, <2>2, NoneIsFree DEF Left
  <2>4. PICK f : f = [s \in S |-> clients[s]]
    OBVIOUS
  <2>5. f \in Injection(S, ready)
    BY <1>1, <2>3, <2>4 DEF OpenInv, WatchesWhatIsOpen, Injection, IsInjective
  <2>6. Cardinality(S) <= Cardinality(ready) /\ IsFiniteSet(S)
    BY <2>1, <2>5, FS_Injection
  <2>7. Cardinality(S) \in Nat /\ Cardinality(ready) \in Nat
    BY <2>1, <2>6, FS_CardinalityType
  <2> QED
    BY <2>1, <2>2, <2>6, <2>7 DEF CountInv
<1> QED
  BY <1>1, LoopInvariant, PTL

\* The select server never waits inside a read, and the poll server only when the
\* connection to one of its clients is broken.
THEOREM WaitsOnlyAfterReset == Spec => []StuckOnlyAfterReset
<1>1. ASSUME TypeInv, OpenInv, LoopInv PROVE StuckOnlyAfterReset
  <2> SUFFICES ASSUME Stuck PROVE api = "poll" /\ \E c \in Connected : conn[c] \in Broken
    BY DEF StuckOnlyAfterReset
  <2>1. server = "clients" /\ CountInv /\ ReadyInv /\ JunkInv
    BY <1>1 DEF Stuck, LoopInv, Looping
  <2>2. Left \in SUBSET Slots /\ Left # {}
    BY DEF Left, Stuck
  <2>3. PICK s \in Left : s = Min(Left) /\ \A t \in Left : s <= t
    BY <2>2, FirstFound
  <2>4. ~Readable(clients[s])
    BY <2>3 DEF Stuck
  <2>5. clients[s] \in Clients /\ clients[s] \in ready \cup {junk}
    BY <1>1, <2>2, NoneIsFree DEF Left, TypeInv
  <2>6. clients[s] = junk /\ junk # None
    BY <2>1, <2>4, <2>5, NoneAssumption DEF ReadyInv
  <2>7. ready = {} /\ api = "poll"
    BY <1>1, <2>1, <2>3, <2>6, JunkComesLast DEF JunkInv
  <2>8. Cardinality(ready) = 0
    BY <2>7, FS_EmptySet
  <2> QED
    BY <2>1, <2>7, <2>8 DEF CountInv
<1> QED
  BY <1>1, LoopInvariant, PTL

=============================================================================
