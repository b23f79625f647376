-------------------------------- MODULE Fifo --------------------------------
(***************************************************************************)
(* fifo_w.c and fifo_r.c of studio16: two programs that take turns over    *)
(* one FIFO.  Each opens it for writing, writes a line and closes it, then *)
(* opens it for reading, reads and closes it, and so on; fifo_r starts     *)
(* with reading.  Nothing but the way open waits for the other end keeps   *)
(* them in step.                                                           *)
(*                                                                         *)
(* Either may be killed at any point and started again.                    *)
(***************************************************************************)
EXTENDS Integers, Sequences, FiniteSets

CONSTANTS Numbers,    \* bound: lines are numbered modulo this
          MaxPipe     \* bound: lines in the FIFO, reached only after a kill

NumbersAssumption == Numbers \in Nat \ {0, 1}
PipeAssumption == MaxPipe \in Nat \ {0}

\* What is assumed of the constants.
ConstantsOK == NumbersAssumption /\ PipeAssumption

VARIABLES
  turn,       \* the end each program uses now: "write" or "read"
  at,         \* where it is in this turn
  ends,       \* the ends it has open, or is opening
  pipe,       \* the lines in the FIFO
  str,        \* the line in each program's buffer, or Junk
  sent,       \* the number of the next line of each program
  heard,      \* the lines each has printed, modulo Numbers
  disturbed   \* history: somebody has been killed

vars == <<turn, at, ends, pipe, str, sent, heard, disturbed>>

Users == {"fifo_w", "fifo_r"}
Other(u) == IF u = "fifo_w" THEN "fifo_r" ELSE "fifo_w"
Opposite(end) == IF end = "write" THEN "read" ELSE "write"

FirstTurn(u) == IF u = "fifo_w" THEN "write" ELSE "read"

\* A buffer nothing has been read into.
Junk == <<>>

Holders(end) == {u \in Users : end \in ends[u]}

\* What is in a FIFO lives as long as somebody has it open.
Remains(open) == IF \A u \in Users : open[u] = {} THEN <<>> ELSE pipe

Init ==
  /\ turn = [u \in Users |-> FirstTurn(u)]
  /\ at = [u \in Users |-> "open"]
  /\ ends = [u \in Users |-> {}]
  /\ pipe = <<>>
  /\ str = [u \in Users |-> Junk]
  /\ sent = [u \in Users |-> 0]
  /\ heard = [u \in Users |-> 0]
  /\ disturbed = FALSE

----------------------------------------------------------------------------
\* Mutant: the FIFO is opened with O_NONBLOCK.
BlocksNever(u) == FALSE
Blocks(u) == Holders(Opposite(turn[u])) = {}

\* open waits until the other end has been opened, too, and lets everybody in
\* who waits for this one.
Enter(u, blocks) ==
  /\ at[u] = "open"
  /\ ends' = [ends EXCEPT ![u] = @ \cup {turn[u]}]
  /\ at' = [v \in Users |->
              IF v = u THEN IF blocks THEN "waiting" ELSE "opened"
              ELSE IF at[v] = "waiting" /\ turn[v] = Opposite(turn[u])
                   THEN "opened"
                   ELSE at[v]]
  /\ UNCHANGED <<turn, pipe, str, sent, heard, disturbed>>

Open(u) == Enter(u, Blocks(u))

\* fgets and write, which kills a writer when nobody has the other end open.
Write(u) ==
  /\ at[u] = "opened" /\ turn[u] = "write"
  /\ IF Holders("read") = {}
     THEN LET open == [ends EXCEPT ![u] = {}]
          IN  /\ at' = [at EXCEPT ![u] = "dead"]
              /\ ends' = open
              /\ pipe' = Remains(open)
              /\ UNCHANGED sent
     ELSE /\ Len(pipe) < MaxPipe
          /\ pipe' = Append(pipe, <<u, sent[u]>>)
          /\ sent' = [sent EXCEPT ![u] = (@ + 1) % Numbers]
          /\ at' = [at EXCEPT ![u] = "done"]
          /\ UNCHANGED ends
  /\ UNCHANGED <<turn, str, heard, disturbed>>

\* read takes 80 bytes, which is the first line and perhaps more, and the
\* buffer counts up to the end of the first.  Without a line it waits for one
\* as long as somebody can write, and leaves the buffer alone otherwise.
Read(u) ==
  /\ at[u] = "opened" /\ turn[u] = "read"
  /\ \/ /\ pipe # <<>>
        /\ str' = [str EXCEPT ![u] = Head(pipe)]
        /\ \E k \in 1..Len(pipe) : pipe' = SubSeq(pipe, k + 1, Len(pipe))
     \/ /\ pipe = <<>> /\ Holders("write") = {}
        /\ UNCHANGED <<str, pipe>>
  /\ at' = [at EXCEPT ![u] = "done"]
  /\ UNCHANGED <<turn, ends, sent, heard, disturbed>>

\* Mutant: the read end is left open.
ClosedWriteOnly(u) == [ends EXCEPT ![u] = @ \ {"write"}]
Closed(u) == [ends EXCEPT ![u] = @ \ {turn[u]}]

\* printf, for a reader, and close.
Finish(u) ==
  /\ at[u] = "done"
  /\ ends' = Closed(u)
  /\ pipe' = Remains(Closed(u))
  /\ heard' = IF turn[u] = "read"
              THEN [heard EXCEPT ![u] = (@ + 1) % Numbers]
              ELSE heard
  /\ turn' = [turn EXCEPT ![u] = Opposite(@)]
  /\ at' = [at EXCEPT ![u] = "open"]
  /\ UNCHANGED <<str, sent, disturbed>>

Kill(u) ==
  LET open == [ends EXCEPT ![u] = {}]
  IN  /\ at[u] # "dead"
      /\ at' = [at EXCEPT ![u] = "dead"]
      /\ ends' = open
      /\ pipe' = Remains(open)
      /\ disturbed' = TRUE
      /\ UNCHANGED <<turn, str, sent, heard>>

Restart(u) ==
  /\ at[u] = "dead"
  /\ at' = [at EXCEPT ![u] = "open"]
  /\ turn' = [turn EXCEPT ![u] = FirstTurn(u)]
  /\ str' = [str EXCEPT ![u] = Junk]
  /\ UNCHANGED <<ends, pipe, sent, heard, disturbed>>

----------------------------------------------------------------------------
Step(u) == Open(u) \/ Write(u) \/ Read(u) \/ Finish(u)

Next == \E u \in Users : Step(u) \/ Kill(u) \/ Restart(u)

Spec == Init /\ [][Next]_vars

\* Both programs are scheduled, and whoever is asked for a line types one.
FairSpec == Spec /\ \A u \in Users : WF_vars(Step(u))

----------------------------------------------------------------------------
\* The conversation, as long as nobody is killed: what a program prints is the
\* next line of the other one, never its own, an old one or what its buffer
\* held; the FIFO holds at most one line, sent by the one and not yet printed
\* by the other; and nobody writes when the other cannot read it.
InTurn ==
  \/ disturbed
  \/ /\ Len(pipe) <= 1
     /\ \A u \in Users :
          /\ at[u] # "dead"
          /\ at[u] = "done" /\ turn[u] = "read" =>
               str[u] = <<Other(u), heard[u]>>
          /\ pipe # <<>> /\ pipe[1][1] = Other(u) => pipe[1][2] = heard[u]

\* The conversation goes on: no order of opens and closes makes both wait.  A
\* kill may do that.
GoesOn ==
  \A u \in Users :
    [](at[u] = "open" /\ turn[u] = "read" => <>(at[u] = "done" \/ disturbed))
============================================================================
