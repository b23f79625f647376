------------------------------ MODULE Servers ------------------------------
(***************************************************************************)
(* The echo servers of studio17: studio17_poll.c, studio17_select_step3.c  *)
(* and studio17_epoll.c.  One process waits until descriptors are readable *)
(* and then goes through them: the listening socket, its standard input,   *)
(* and the connections of its table.                                       *)
(*                                                                         *)
(* Clients connect, send, and leave while the server is between any two of *)
(* its steps.  What the kernel reports was true when the server waited,    *)
(* and may have changed since.  A step of the server touches one           *)
(* descriptor: what others do between two calls on the same connection     *)
(* could as well happen before the first or after the last.                *)
(*                                                                         *)
(* How the text of a message is cut into reads is abstracted: `pending`    *)
(* counts the reads a connection has bytes for, and each of them may or    *)
(* may not begin with "quit".                                              *)
(***************************************************************************)
EXTENDS Integers, FiniteSetsExt, Functions

CONSTANTS Apis,       \* the servers to run: "poll", "select", "epoll"
          Clients,    \* bound: the connections ever made
          None,       \* -1, the entry of a table that is free
          backlog,    \* connections a table has room for (10 in the code)
          MaxPending  \* bound: reads of one connection not yet made

ASSUME ApiAssumption == Apis \subseteq {"poll", "select", "epoll"}
ASSUME NoneAssumption == None \notin Clients
ASSUME DescriptorAssumption == {"lfd", "stdin"} \cap (Clients \cup {None}) = {}
ASSUME BacklogAssumption == backlog \in Nat \ {0}
ASSUME PendingAssumption == MaxPending \in Nat \ {0}

VARIABLES
  api,       \* the server that runs
  server,    \* where it is
  clients,   \* its table of connections
  boundry,   \* the rightmost entry poll looks at
  reset,     \* the connections in the set select starts from
  ready,     \* what the wait has reported as readable, and is still ahead
  junk,      \* a connection whose entry holds POLLIN, though nobody wrote it
  nready,    \* the count of reported descriptors not dealt with
  queue,     \* connections waiting to be accepted
  conn,      \* the state of each connection, as the server's kernel has it
  pending,   \* the reads it has bytes for
  typed      \* there is a line on standard input

serverVars == <<server, clients, boundry, reset, ready, junk, nready>>
netVars == <<queue, conn, pending, typed>>
vars == <<api, serverVars, netVars>>

lfd == "lfd"
stdin == "stdin"

\* How a connection can be: "eof" when the peer has closed it; "answered" when
\* the server has written to it since, which the peer answers with a reset;
\* "piped" when that reset has come; "reset" when the peer has closed it with
\* a reset; "aborted" when a call has reported that to the server.
Broken == {"reset", "piped", "aborted"}
Gone == Broken \cup {"eof", "answered"}

First == IF api = "poll" THEN 2 ELSE 0
Last == First + backlog - 1
Slots == First..Last

Alive == server \notin {"ended", "undefined"}
Readable(c) == pending[c] > 0 \/ conn[c] \in Gone

----------------------------------------------------------------------------
InitPoll ==
  /\ api = "poll"
  /\ clients = [s \in Slots |-> None]
  /\ boundry = 1

InitSelect ==
  /\ api = "select"
  /\ clients = [s \in Slots |-> None]
  /\ boundry = 0

\* The set of the epoll server holds lfd and stdin.
InitEpoll ==
  /\ api = "epoll"
  /\ clients = [s \in Slots |-> None]
  /\ boundry = 0

Init ==
  /\ api \in Apis
  /\ InitPoll \/ InitSelect \/ InitEpoll
  /\ server = "wait"
  /\ reset = {}
  /\ ready = {}
  /\ junk = None
  /\ nready = 0
  /\ queue = {}
  /\ conn = [c \in Clients |-> "none"]
  /\ pending = [c \in Clients |-> 0]
  /\ typed = FALSE

----------------------------------------------------------------------------
(* The clients, and whoever sits at the server. *)

Connect(c) ==
  /\ Alive /\ conn[c] = "none"
  /\ conn' = [conn EXCEPT ![c] = "open"]
  /\ queue' = queue \cup {c}
  /\ UNCHANGED <<api, serverVars, pending, typed>>

\* A client reads the server's greeting before it sends anything.
Send(c) ==
  /\ conn[c] = "open" /\ c \notin queue
  /\ pending[c] < MaxPending
  /\ pending' = [pending EXCEPT ![c] = @ + 1]
  /\ UNCHANGED <<api, serverVars, queue, conn, typed>>

\* It ends, after a "quit" or killed: with a reset if it had bytes to read.
Leave(c) ==
  /\ conn[c] = "open"
  /\ \E how \in {"eof", "reset"} : conn' = [conn EXCEPT ![c] = how]
  /\ UNCHANGED <<api, serverVars, queue, pending, typed>>

ResetArrives(c) ==
  /\ conn[c] = "answered"
  /\ conn' = [conn EXCEPT ![c] = "piped"]
  /\ UNCHANGED <<api, serverVars, queue, pending, typed>>

Type ==
  /\ Alive /\ ~typed
  /\ typed' = TRUE
  /\ UNCHANGED <<api, serverVars, queue, conn, pending>>

----------------------------------------------------------------------------
(* The calls of the servers on a connection. *)

\* write to a connection that the peer has closed provokes a reset; after
\* one it reports the error, or kills the process with SIGPIPE.
WriteKills(c) == conn[c] \in {"piped", "aborted"}
AfterWrite(c) ==
  CASE conn[c] = "eof" -> "answered"
    [] conn[c] = "reset" -> "aborted"
    [] OTHER -> conn[c]

\* The loop starts over.  What was reported is of no use any more.
Again == /\ server' = "wait"
         /\ ready' = {}
         /\ junk' = None
         /\ nready' = 0

End == /\ server' = "ended"
       /\ UNCHANGED <<ready, junk, nready>>

\* Mutant: nready is not decremented.
CountNone == nready
Count == nready - 1

\* The reported descriptor d has been dealt with: `if (--nready == 0) continue`.
Dealt(d, next, unwritten) ==
  IF Count = 0 THEN Again
  ELSE /\ server' = next
       /\ ready' = ready \ {d}
       /\ junk' = unwritten
       /\ nready' = Count

FreeSlots == {s \in Slots : clients[s] = None}
FindSlot == IF FreeSlots = {} THEN Last + 1 ELSE Min(FreeSlots)

----------------------------------------------------------------------------
(* Waiting.  The timeout is infinite and the program handles no signals. *)

Report(watched, told) ==
  LET all == {c \in watched : Readable(c)}
             \cup (IF queue # {} THEN {lfd} ELSE {})
             \cup (IF typed THEN {stdin} ELSE {})
  IN  /\ all # {}
      /\ nready' = Cardinality(all)
      /\ ready' = all \cap told
      /\ junk' = None
      /\ server' = "listener"
      /\ UNCHANGED <<api, clients, boundry, reset, netVars>>

\* The whole array: what poll does beyond its end is undefined.
WaitOutside ==
  /\ api = "poll" /\ server = "wait" /\ boundry > Last
  /\ server' = "undefined"
  /\ UNCHANGED <<api, clients, boundry, reset, ready, junk, nready, netVars>>

\* A broken connection is reported with more bits than POLLIN, and the program
\* compares for equality.
WaitPoll ==
  /\ api = "poll" /\ server = "wait" /\ boundry <= Last
  /\ LET watched == {clients[s] : s \in First..boundry} \ {None}
     IN  Report(watched,
                {lfd, stdin} \cup {c \in watched : conn[c] \notin Broken})

WaitSelect ==
  /\ api = "select" /\ server = "wait"
  /\ Report(reset, {lfd, stdin} \cup reset)

WaitEpoll ==
  /\ api = "epoll" /\ server = "wait"
  /\ Report({}, {lfd, stdin})

----------------------------------------------------------------------------
(* The listening socket. *)

\* Mutant: nready is decremented although nothing was accepted.
NoConnectionCounted ==
  /\ server = "listener" /\ lfd \notin ready
  /\ server' = "stdin"
  /\ nready' = Count
  /\ UNCHANGED <<api, clients, boundry, reset, ready, junk, netVars>>

NoConnection ==
  /\ server = "listener" /\ lfd \notin ready
  /\ server' = "stdin"
  /\ UNCHANGED <<api, clients, boundry, reset, ready, junk, nready, netVars>>

\* The entry of a new connection is written, but for revents: the kernel has
\* cleared those up to boundry, and the rest holds what the stack held.
AcceptPoll(c) ==
  /\ api = "poll" /\ server = "listener" /\ lfd \in ready
  /\ queue' = queue \ {c}
  /\ clients' = IF FindSlot \in Slots THEN [clients EXCEPT ![FindSlot] = c]
                                      ELSE clients
  /\ boundry' = IF FindSlot > boundry THEN FindSlot ELSE boundry
  /\ \E unwritten \in IF FindSlot \in boundry + 1..Last THEN {None, c} ELSE {None} :
       Dealt(lfd, "stdin", unwritten)
  /\ conn' = [conn EXCEPT ![c] = AfterWrite(c)]
  /\ UNCHANGED <<api, reset, pending, typed>>

AcceptSelect(c) ==
  /\ api = "select" /\ server = "listener" /\ lfd \in ready
  /\ queue' = queue \ {c}
  /\ clients' = IF FindSlot \in Slots THEN [clients EXCEPT ![FindSlot] = c]
                                      ELSE clients
  /\ reset' = reset \cup {c}
  /\ conn' = [conn EXCEPT ![c] = AfterWrite(c)]
  /\ Dealt(lfd, "stdin", None)
  /\ UNCHANGED <<api, boundry, pending, typed>>

\* The length of the address is passed where a pointer to it is due: accept
\* drops the connection it cannot report, and the server returns.  So nothing
\* is ever added to its set, and the branch for clients is never reached.
AcceptEpoll(c) ==
  /\ api = "epoll" /\ server = "listener" /\ lfd \in ready
  /\ queue' = queue \ {c}
  /\ conn' = [conn EXCEPT ![c] = "closed"]
  /\ pending' = [pending EXCEPT ![c] = 0]
  /\ End
  /\ UNCHANGED <<api, clients, boundry, reset, typed>>

Accept(c) == c \in queue /\ (AcceptPoll(c) \/ AcceptSelect(c) \/ AcceptEpoll(c))

\* Out of descriptors: the select server tries again, the others return.
AcceptFails ==
  /\ server = "listener" /\ lfd \in ready
  /\ IF api = "select" THEN Again ELSE End
  /\ UNCHANGED <<api, clients, boundry, reset, netVars>>

----------------------------------------------------------------------------
(* Standard input. *)

NoLine ==
  /\ server = "stdin" /\ stdin \notin ready
  /\ server' = "clients"
  /\ UNCHANGED <<api, clients, boundry, reset, ready, junk, nready, netVars>>

\* "quit" ends either server, and so does an error in the poll server.  In the
\* select server an error leaves in the buffer what the stack held.
ReadLine ==
  /\ api # "epoll" /\ server = "stdin" /\ stdin \in ready
  /\ typed' = FALSE
  /\ End \/ Dealt(stdin, "clients", junk)
  /\ UNCHANGED <<api, clients, boundry, reset, queue, conn, pending>>

\* The epoll server may find the line before the connection.  Whether read
\* succeeds or not, the program ends: it compares the line with a character
\* constant taken for a pointer.
ReadLineEpoll ==
  /\ api = "epoll" /\ server \in {"listener", "stdin"} /\ stdin \in ready
  /\ typed' = FALSE
  /\ End
  /\ UNCHANGED <<api, clients, boundry, reset, queue, conn, pending>>

----------------------------------------------------------------------------
(* The connections: those the loop finds readable, in the order of the table. *)

\* Mutant: the loop starts at the second entry.
LeftButFirst ==
  {s \in First + 1..Last : clients[s] \in ready \cup ({junk} \ {None})}
Left == {s \in Slots : clients[s] \in ready \cup ({junk} \ {None})}

LoopEnds ==
  /\ server = "clients" /\ Left = {}
  /\ Again
  /\ UNCHANGED <<api, clients, boundry, reset, netVars>>

Forget(s) ==
  /\ clients' = [clients EXCEPT ![s] = None]
  /\ conn' = [conn EXCEPT ![clients[s]] = "closed"]
  /\ pending' = [pending EXCEPT ![clients[s]] = 0]

\* Both loops go on with the next entry, unless this was the last reported.
NextEntry(s) ==
  Dealt(clients[s], "clients", IF clients[s] = junk THEN None ELSE junk)

\* read finds bytes.  They are written back, which may be the end of the
\* server; then a "quit" closes the connection.
Echo(s, hangup) ==
  LET c == clients[s]
  IN  /\ pending[c] > 0
      /\ IF WriteKills(c)
         THEN /\ End
              /\ pending' = [pending EXCEPT ![c] = @ - 1]
              /\ UNCHANGED <<clients, reset, conn>>
         ELSE /\ NextEntry(s)
              /\ \/ hangup
                 \/ /\ conn' = [conn EXCEPT ![c] = AfterWrite(c)]
                    /\ pending' = [pending EXCEPT ![c] = @ - 1]
                    /\ UNCHANGED <<clients, reset>>

\* read returns 0.
AtEnd(c) == pending[c] = 0 /\ conn[c] \in Gone \ {"reset"}

\* read reports a reset.
ReadFails(c) == pending[c] = 0 /\ conn[c] = "reset"

HangUpPoll(s) == Forget(s) /\ UNCHANGED reset
\* Mutant: FD_CLR is left out.
HangUpWatched(s) == Forget(s) /\ UNCHANGED reset
HangUpSelect(s) == Forget(s) /\ reset' = reset \ {clients[s]}

ClientPoll(s) ==
  /\ api = "poll"
  /\ \/ Echo(s, HangUpPoll(s))
     \/ AtEnd(clients[s]) /\ HangUpPoll(s) /\ NextEntry(s)
     \/ /\ ReadFails(clients[s])
        /\ End
        /\ UNCHANGED <<clients, reset, conn, pending>>
  /\ UNCHANGED <<api, boundry, queue, typed>>

ClientSelect(s) ==
  /\ api = "select"
  /\ \/ Echo(s, HangUpSelect(s))
     \/ AtEnd(clients[s]) /\ HangUpSelect(s) /\ NextEntry(s)
     \/ /\ ReadFails(clients[s])
        /\ Again
        /\ conn' = [conn EXCEPT ![clients[s]] = "aborted"]
        /\ UNCHANGED <<clients, reset, pending>>
  /\ UNCHANGED <<api, boundry, queue, typed>>

\* A read of a connection that has nothing to say is not enabled: the server
\* waits there.
ServeClient ==
  /\ server = "clients" /\ Left # {}
  /\ LET s == Min(Left) IN ClientPoll(s) \/ ClientSelect(s)

----------------------------------------------------------------------------
ServerStep ==
  \/ WaitOutside \/ WaitPoll \/ WaitSelect \/ WaitEpoll
  \/ NoConnection \/ AcceptFails \/ \E c \in Clients : Accept(c)
  \/ NoLine \/ ReadLine \/ ReadLineEpoll
  \/ LoopEnds \/ ServeClient

Next ==
  \/ ServerStep
  \/ \E c \in Clients : Connect(c) \/ Send(c) \/ Leave(c) \/ ResetArrives(c)
  \/ Type

Spec == Init /\ [][Next]_vars

\* The server gets processor time, and accept does not fail for ever.
FairSpec == /\ Spec
            /\ WF_vars(ServerStep)
            /\ SF_vars(\E c \in Clients : Accept(c))

----------------------------------------------------------------------------
(* Properties. *)

Connected == Range(clients) \ {None}
Accepted == {c \in Clients : conn[c] \notin {"none", "closed"}} \ queue
Overrun == boundry > Last

\* What a server waits for is what is open: no connection it has accepted is
\* forgotten, no closed descriptor is still watched, and no connection has two
\* entries.  The poll server breaks this only by running out of its array, and
\* the select server then watches connections that have no entry.  The epoll
\* server watches none, and has none.
WatchesWhatIsOpen ==
  /\ \A s, t \in Slots : clients[s] = clients[t] => s = t \/ clients[s] = None
  /\ Connected \subseteq Accepted
  /\ api = "select" => reset = Accepted
  /\ api = "epoll" => Accepted = {}
  /\ api = "poll" /\ ~Overrun =>
       Accepted = {clients[s] : s \in First..boundry} \ {None}

\* Both loops stop when nready is used up.  They never stop short of a
\* connection the kernel has reported: nready is at least the number of those
\* still ahead, whatever has been accepted, dropped and skipped before.
ReadyAreCounted ==
  server = "clients" =>
    nready >= Cardinality({s \in Left : clients[s] # junk}) /\ nready > 0

\* The server waits inside a read, for one client while it serves no other.
Stuck == /\ server = "clients" /\ Left # {}
         /\ ~Readable(clients[Min(Left)])

\* The poll server looks at an entry nobody has written only when a reported
\* descriptor is left over, which is when the connection to some client is
\* broken.  Otherwise the server never waits inside a read; the select server
\* never does.
StuckOnlyAfterReset ==
  Stuck => api = "poll" /\ \E c \in Connected : conn[c] \in Broken

\* What still has to be dropped.  A broken connection is never dropped by the
\* poll server.
ToDrop(c) == /\ c \in Connected
             /\ conn[c] \in IF api = "poll" THEN Gone \ Broken ELSE Gone

\* A client that has left is read to its end and its entry is freed, unless the
\* server ends or is stuck.
LeaverIsDropped ==
  \A c \in Clients : ToDrop(c) ~> (~ToDrop(c) \/ ~Alive \/ Stuck)
============================================================================
