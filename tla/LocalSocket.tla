----------------------------- MODULE LocalSocket -----------------------------
(***************************************************************************)
(* socket_server.c and socket_client.c of studio16.  A client copies its   *)
(* standard input byte by byte, each over a connection of its own that it  *)
(* never closes; the server takes one connection after the other and reads *)
(* a number from it with fscanf.                                           *)
(*                                                                         *)
(* Server and clients may be killed and started again at any point.  A     *)
(* connection is named by the order in which it was made.                  *)
(***************************************************************************)
EXTENDS Integers, Sequences, SequencesExt

CONSTANTS Clients,
          MaxConnections,  \* bound: connections ever made
          backlog          \* what listen is given (10 in the code)

ClientsAssumption == {"none", "gone"} \cap Clients = {}
ConnectionAssumption == MaxConnections \in Nat \ {0}
BacklogAssumption == backlog \in Nat

\* What is assumed of the constants.
ConstantsOK == ClientsAssumption /\ ConnectionAssumption /\ BacklogAssumption

VARIABLES
  server,   \* where the server is
  name,     \* ./mysock is in the directory
  queue,    \* the connections that wait to be accepted, oldest first
  cfd,      \* the connection the server reads from, or None
  number,   \* fscanf has found a digit
  client,   \* where each client is
  sfd,      \* the connection behind its socket, or None
  owner,    \* the client each connection belongs to
  byte,     \* what is in each connection and not yet read
  typed,    \* history: what its client has written into it
  printed   \* history: the connections the server has printed a number of

vars == <<server, name, queue, cfd, number, client, sfd, owner, byte, typed, printed>>

Connections == 1..MaxConnections
None == 0
Empty == "empty"

\* What matters of a byte: a digit; a blank or a sign, after which a number may
\* still come; and anything else.
Bytes == {"digit", "prefix", "other"}

\* A connection without an owner has not been made yet, or its client has ended.
Unmade == {c \in Connections : owner[c] = "none"}
Abandoned(c) == owner[c] = "gone"

Listening == server \in {"accept", "scan"}
AtServer(c) == c # None /\ (c = cfd \/ Contains(queue, c))

Init ==
  /\ server = "dead" /\ name = FALSE
  /\ queue = <<>> /\ cfd = None /\ number = FALSE
  /\ client = [p \in Clients |-> "dead"]
  /\ sfd = [p \in Clients |-> None]
  /\ owner = [c \in Connections |-> "none"]
  /\ byte = [c \in Connections |-> Empty]
  /\ typed = [c \in Connections |-> Empty]
  /\ printed = <<>>

-----------------------------------------------------------------------------
(* The server. *)

StartServer ==
  /\ server = "dead"
  /\ server' = "bind"
  /\ UNCHANGED <<name, queue, cfd, number, client, sfd, owner, byte, typed, printed>>

\* The name outlives the server, because the unlink after the loop is never
\* reached.  When bind fails the program goes on: listen and accept fail on a
\* socket without a name, fdopen(-1) is NULL, and fscanf crashes.
Bind ==
  /\ server = "bind"
  /\ server' = IF name THEN "dead" ELSE "listen"
  /\ name' = TRUE
  /\ UNCHANGED <<queue, cfd, number, client, sfd, owner, byte, typed, printed>>

Listen ==
  /\ server = "listen"
  /\ server' = "accept"
  /\ UNCHANGED <<name, queue, cfd, number, client, sfd, owner, byte, typed, printed>>

Accept ==
  /\ server = "accept" /\ queue # <<>>
  /\ server' = "scan"
  /\ cfd' = Head(queue) /\ queue' = Tail(queue)
  /\ number' = FALSE
  /\ UNCHANGED <<name, client, sfd, owner, byte, typed, printed>>

\* Mutant: whatever fscanf returns, buf is printed.
PrintedAnyway(found) == Append(printed, cfd)
Printed(found) == IF found THEN Append(printed, cfd) ELSE printed

\* printf, when fscanf has returned 1, and close.
Hangup(found) ==
  /\ server' = "accept" /\ cfd' = None /\ number' = FALSE
  /\ printed' = Printed(found)

\* fscanf stops at what cannot belong to a number, and reads on after a digit,
\* a blank or a sign.  There is never a second byte.
Scan ==
  /\ server = "scan" /\ byte[cfd] # Empty
  /\ byte' = [byte EXCEPT ![cfd] = Empty]
  /\ IF byte[cfd] = "other"
     THEN Hangup(number)
     ELSE /\ number' = (number \/ byte[cfd] = "digit")
          /\ UNCHANGED <<server, cfd, printed>>
  /\ UNCHANGED <<name, queue, client, sfd, owner, typed>>

\* The end of the file comes when the client has gone.
ScanEnds ==
  /\ server = "scan" /\ byte[cfd] = Empty /\ Abandoned(cfd)
  /\ Hangup(number)
  /\ UNCHANGED <<name, queue, client, sfd, owner, byte, typed>>

KillServer ==
  /\ server # "dead"
  /\ server' = "dead"
  /\ queue' = <<>> /\ cfd' = None /\ number' = FALSE
  /\ UNCHANGED <<name, client, sfd, owner, byte, typed, printed>>

\* Whoever wants to start the server again removes its name first.
RemoveName ==
  /\ server = "dead" /\ name
  /\ name' = FALSE
  /\ UNCHANGED <<server, queue, cfd, number, client, sfd, owner, byte, typed, printed>>

-----------------------------------------------------------------------------
(* The clients. *)

StartClient(p) ==
  /\ client[p] = "dead"
  /\ client' = [client EXCEPT ![p] = "connect"]
  /\ UNCHANGED <<server, name, queue, cfd, number, sfd, owner, byte, typed, printed>>

\* The end of a process closes every connection it has made.
Die(p) ==
  /\ client' = [client EXCEPT ![p] = "dead"]
  /\ sfd' = [sfd EXCEPT ![p] = None]
  /\ owner' = [c \in Connections |-> IF owner[c] = p THEN "gone" ELSE owner[c]]

\* connect waits while the queue is full.  A client that is refused says so and
\* goes on with a socket that leads nowhere.
Connect(p) ==
  /\ client[p] = "connect"
  /\ \/ /\ Listening /\ Len(queue) <= backlog /\ Unmade # {}
        /\ LET c == Min(Unmade)
           IN  /\ queue' = Append(queue, c)
               /\ sfd' = [sfd EXCEPT ![p] = c]
               /\ owner' = [owner EXCEPT ![c] = p]
     \/ /\ ~Listening
        /\ sfd' = [sfd EXCEPT ![p] = None]
        /\ UNCHANGED <<queue, owner>>
  /\ client' = [client EXCEPT ![p] = "read"]
  /\ UNCHANGED <<server, name, cfd, number, byte, typed, printed>>

\* read and write.  A byte for nobody is dropped, and the client dies of SIGPIPE
\* when the server has gone since it connected.
Copy(p) ==
  /\ client[p] = "read"
  /\ \/ /\ AtServer(sfd[p])
        /\ \E b \in Bytes : /\ byte' = [byte EXCEPT ![sfd[p]] = b]
                            /\ typed' = [typed EXCEPT ![sfd[p]] = b]
        /\ client' = [client EXCEPT ![p] = "connect"]
        /\ UNCHANGED <<sfd, owner>>
     \/ /\ sfd[p] = None
        /\ client' = [client EXCEPT ![p] = "connect"]
        /\ UNCHANGED <<sfd, owner, byte, typed>>
     \/ /\ sfd[p] # None /\ ~AtServer(sfd[p])
        /\ Die(p)
        /\ UNCHANGED <<byte, typed>>
  /\ UNCHANGED <<server, name, queue, cfd, number, printed>>

KillClient(p) ==
  /\ client[p] # "dead"
  /\ Die(p)
  /\ UNCHANGED <<server, name, queue, cfd, number, byte, typed, printed>>

-----------------------------------------------------------------------------
ServerStep == Bind \/ Listen \/ Accept \/ Scan \/ ScanEnds

Next ==
  \/ StartServer \/ ServerStep \/ KillServer \/ RemoveName
  \/ \E p \in Clients : StartClient(p) \/ Connect(p) \/ Copy(p) \/ KillClient(p)

Spec == Init /\ [][Next]_vars

\* The server is scheduled.  Nobody has to type anything.
FairSpec == Spec /\ WF_vars(ServerStep)

-----------------------------------------------------------------------------
\* The server prints a number once, in the order in which the clients have
\* connected, only where a digit was typed, and only when no other can follow.
PrintsInOrder ==
  /\ \A i, j \in DOMAIN printed : i < j => printed[i] < printed[j]
  /\ \A c \in ToSet(printed) : typed[c] = "digit" /\ Abandoned(c)

\* A digit is printed when its client and all who connected before have ended:
\* only a client that lives makes the server wait, inside fscanf.
DigitIsPrinted ==
  \A c \in Connections :
    (AtServer(c) /\ typed[c] = "digit" /\ \A d \in 1..c : Abandoned(d))
      ~> (Contains(printed, c) \/ server = "dead")
=============================================================================
