-------------------------- MODULE ConversationProofs -------------------------
(***************************************************************************)
(* Theorems about the components of Studios that talk, to each other or to *)
(* the kernel's log, for all values of their parameters.                   *)
(*                                                                         *)
(* FifoInv follows the line of text of a conversation: into the FIFO, out  *)
(* of it, and back. PipeInv says which of the two processes can still have *)
(* it. SocketInv keeps the connections of a socket in the order they were  *)
(* made in. SignalInv says which turns a report has come past, and         *)
(* FamilyInv what a walk up the tasks has logged when it is about to log   *)
(* the next.                                                               *)
(***************************************************************************)
EXTENDS Studios, Sequences, SequencesExt, WellFoundedInduction, TLAPS

-----------------------------------------------------------------------------
(* fifo_w.c and fifo_r.c: two users take turns. *)

\* Where a user can be whom nobody has killed.
Points == {"open", "waiting", "opened", "done"}

\* A user has one end of the FIFO open, the end of its turn, or none.
FifoType ==
  /\ turn \in [Fifos!Users -> {"write", "read"}]
  /\ f_at \in [Fifos!Users -> Points]
  /\ f_ends = [u \in Fifos!Users |-> IF f_at[u] = "open" THEN {} ELSE {turn[u]}]
  /\ f_sent \in [Fifos!Users -> 0 .. Numbers - 1]
  /\ heard \in [Fifos!Users -> 0 .. Numbers - 1]
  /\ str \in [Fifos!Users -> {Fifos!Junk} \cup (Fifos!Users \X (0 .. Numbers - 1))]

\* w writes next, or writes, and r reads.
Meeting(w, r) ==
  /\ turn[w] = "write" /\ turn[r] = "read"
  /\ <<f_at[w], f_at[r]>> \in {<<"open", "open">>, <<"waiting", "open">>, <<"open", "waiting">>,
                           <<"opened", "opened">>}
  /\ pipe = <<>>
  /\ f_sent[w] = heard[r] /\ f_sent[r] = heard[w]

\* w has written and has perhaps turned round.
HasWritten(w) ==
  \/ turn[w] = "write" /\ f_at[w] = "done"
  \/ turn[w] = "read" /\ f_at[w] \in {"open", "waiting"}

\* w has sent one line that r has not printed yet.
OneAhead(w, r) == f_sent[w] = (heard[r] + 1) % Numbers /\ f_sent[r] = heard[w]

\* The line of w is in the FIFO...
Full(w, r) ==
  /\ HasWritten(w) /\ OneAhead(w, r)
  /\ turn[r] = "read" /\ f_at[r] = "opened"
  /\ pipe = <<<<w, heard[r]>>>>

\* ...and has been read...
Taken(w, r) ==
  /\ HasWritten(w) /\ OneAhead(w, r)
  /\ turn[r] = "read" /\ f_at[r] = "done"
  /\ pipe = <<>> /\ str[r] = <<w, heard[r]>>

\* ...and printed.
Turned(w, r) ==
  /\ turn[w] = "write" /\ f_at[w] = "done"
  /\ turn[r] = "write" /\ f_at[r] \in {"open", "waiting"}
  /\ pipe = <<>>
  /\ f_sent[w] = heard[r] /\ f_sent[r] = heard[w]

\* An undisturbed conversation is in one of the four phases, one user writing.
FifoInv ==
  ~f_disturbed =>
    /\ FifoType
    /\ \E w \in Fifos!Users : LET r == Fifos!Other(w) IN
         Meeting(w, r) \/ Full(w, r) \/ Taken(w, r) \/ Turned(w, r)

\* The phases, for a writer w and a reader r.
Phase(w, r) == Meeting(w, r) \/ Full(w, r) \/ Taken(w, r) \/ Turned(w, r)

\* There are two users, and each is the other's other.
LEMMA TwoUsers ==
  /\ \A u \in Fifos!Users :
       /\ Fifos!Other(u) \in Fifos!Users /\ Fifos!Other(u) # u
       /\ Fifos!Other(Fifos!Other(u)) = u
  /\ \A u \in Fifos!Users : Fifos!Users = {u, Fifos!Other(u)}
  BY DEF Fifos!Users, Fifos!Other

\* A user opens its end, and waits unless the other has.
LEMMA FifoOpen ==
  ASSUME Fifos!ConstantsOK, FifoType, NEW w \in Fifos!Users, NEW r \in Fifos!Users,
         r = Fifos!Other(w), Phase(w, r),
         NEW u \in Fifos!Users, Fifos!Open(u), ~f_disturbed
  PROVE  FifoInv'
<1>1. /\ f_at[u] = "open"
      /\ f_ends' = [f_ends EXCEPT ![u] = @ \cup {turn[u]}]
      /\ f_at' = [v \in Fifos!Users |->
              IF v = u THEN IF Fifos!Blocks(u) THEN "waiting" ELSE "opened"
              ELSE IF f_at[v] = "waiting" /\ turn[v] = Fifos!Opposite(turn[u])
                   THEN "opened"
                   ELSE f_at[v]]
      /\ UNCHANGED <<turn, pipe, str, f_sent, heard, f_disturbed>>
  BY DEF Fifos!Open, Fifos!Enter
<1>2. w # r /\ Fifos!Users = {w, r}
  BY TwoUsers
<1>3. Fifos!Blocks(u) <=> \A v \in Fifos!Users : f_at[v] = "open" \/ turn[v] = turn[u]
  BY <1>2 DEF Fifos!Blocks, Fifos!Holders, Fifos!Opposite, FifoType
<1>4. FifoType'
  BY <1>1, <1>2 DEF FifoType, Points
<1>5. Phase(w, r)' \/ Phase(r, w)'
  <2>1. CASE Meeting(w, r)
    BY <1>1, <1>2, <1>3, <2>1 DEF Meeting, Phase, Fifos!Opposite
  <2>2. CASE Full(w, r)
    BY <1>1, <1>2, <1>3, <2>2 DEF Full, Phase, HasWritten, Fifos!Opposite, OneAhead
  <2>3. CASE Taken(w, r)
    BY <1>1, <1>2, <1>3, <2>3 DEF Taken, Phase, HasWritten, Fifos!Opposite, OneAhead
  <2>4. CASE Turned(w, r)
    BY <1>1, <1>2, <1>3, <2>4 DEF Turned, Phase, Meeting, Fifos!Opposite, OneAhead
  <2> QED
    BY <2>1, <2>2, <2>3, <2>4 DEF Phase
<1> QED
  BY <1>1, <1>4, <1>5, TwoUsers DEF FifoInv, Phase

\* Nobody writes when the other cannot read it.
LEMMA FifoWrite ==
  ASSUME Fifos!ConstantsOK, FifoType, NEW w \in Fifos!Users, NEW r \in Fifos!Users,
         r = Fifos!Other(w), Phase(w, r),
         NEW u \in Fifos!Users, Fifos!Write(u), ~f_disturbed
  PROVE  FifoInv'
<1>1. w # r /\ Fifos!Users = {w, r}
  BY TwoUsers
<1>2. f_at[u] = "opened" /\ turn[u] = "write"
  BY DEF Fifos!Write
<1>3. u = w /\ Meeting(w, r) /\ f_at[r] = "opened"
  BY <1>1, <1>2 DEF Phase, Meeting, Full, Taken, Turned, HasWritten
<1>4. r \in Fifos!Holders("read")
  BY <1>3 DEF Fifos!Holders, FifoType, Meeting
<1>5. /\ pipe' = <<<<w, f_sent[w]>>>>
      /\ f_sent' = [f_sent EXCEPT ![w] = (@ + 1) % Numbers]
      /\ f_at' = [f_at EXCEPT ![w] = "done"]
      /\ UNCHANGED <<f_ends, turn, str, heard, f_disturbed>>
  BY <1>3, <1>4 DEF Fifos!Write, Meeting
<1>6. FifoType'
  <2>1. (f_sent[w] + 1) % Numbers \in 0 .. Numbers - 1
    BY DEF FifoType, Fifos!ConstantsOK, Fifos!NumbersAssumption
  <2>2. f_sent' \in [Fifos!Users -> 0 .. Numbers - 1]
    BY <1>5, <2>1 DEF FifoType
  <2>3. f_at' \in [Fifos!Users -> Points] /\ f_at'[w] = "done"
    BY <1>5 DEF FifoType, Points
  <2>4. \A v \in Fifos!Users : f_at'[v] = "open" <=> f_at[v] = "open"
    BY <1>3, <1>5 DEF FifoType, Meeting
  <2> QED
    BY <1>5, <2>2, <2>3, <2>4 DEF FifoType
<1>7. Full(w, r)'
  BY <1>1, <1>3, <1>5 DEF Meeting, Full, HasWritten, OneAhead, FifoType
<1> QED
  BY <1>5, <1>6, <1>7 DEF FifoInv, Phase

\* A reader finds the one line of the other.
LEMMA FifoRead ==
  ASSUME Fifos!ConstantsOK, FifoType, NEW w \in Fifos!Users, NEW r \in Fifos!Users,
         r = Fifos!Other(w), Phase(w, r),
         NEW u \in Fifos!Users, Fifos!Read(u), ~f_disturbed
  PROVE  FifoInv'
<1>1. w # r /\ Fifos!Users = {w, r}
  BY TwoUsers
<1>2. f_at[u] = "opened" /\ turn[u] = "read"
  BY DEF Fifos!Read
<1>3. u = r /\ ~Taken(w, r) /\ ~Turned(w, r)
  <2>1. Phase(w, r) => u # w
    BY <1>2 DEF Phase, Meeting, Full, Taken, Turned, HasWritten
  <2>2. u = r
    BY <1>1, <2>1
  <2> QED
    BY <1>2, <2>2 DEF Taken, Turned
<1>4. Meeting(w, r) => w \in Fifos!Holders("write")
  <2>1. Meeting(w, r) => f_at[w] = "opened" /\ turn[w] = "write"
    BY <1>2, <1>3 DEF Meeting
  <2> QED
    BY <2>1 DEF Fifos!Holders, FifoType
<1>5. Full(w, r)
  BY <1>3, <1>4 DEF Phase, Fifos!Read, Meeting
<1>6. /\ str' = [str EXCEPT ![r] = <<w, heard[r]>>]
      /\ pipe' = <<>>
      /\ f_at' = [f_at EXCEPT ![r] = "done"]
      /\ UNCHANGED <<turn, f_ends, f_sent, heard, f_disturbed>>
  BY <1>3, <1>5 DEF Fifos!Read, Full
<1>7. FifoType'
  BY <1>3, <1>5, <1>6 DEF FifoType, Full, Points
<1>8. Taken(w, r)'
  BY <1>1, <1>5, <1>6 DEF Full, Taken, HasWritten, OneAhead, FifoType
<1> QED
  BY <1>6, <1>7, <1>8 DEF FifoInv, Phase

\* A user closes its end, and prints what it has read.
LEMMA FifoFinish ==
  ASSUME Fifos!ConstantsOK, FifoType, NEW w \in Fifos!Users, NEW r \in Fifos!Users,
         r = Fifos!Other(w), Phase(w, r),
         NEW u \in Fifos!Users, Fifos!Finish(u), ~f_disturbed
  PROVE  FifoInv'
<1>1. w # r /\ Fifos!Users = {w, r}
  BY TwoUsers
<1>2. /\ f_at[u] = "done"
      /\ f_ends' = [f_ends EXCEPT ![u] = @ \ {turn[u]}]
      /\ pipe' = Fifos!Remains(f_ends')
      /\ turn' = [turn EXCEPT ![u] = Fifos!Opposite(@)]
      /\ f_at' = [f_at EXCEPT ![u] = "open"]
      /\ UNCHANGED <<str, f_sent, f_disturbed>>
  BY DEF Fifos!Finish, Fifos!Closed
<1>3. /\ turn[u] = "read" => heard' = [heard EXCEPT ![u] = (@ + 1) % Numbers]
      /\ turn[u] = "write" => heard' = heard
  BY DEF Fifos!Finish
<1>4. FifoType'
  <2>1. (heard[u] + 1) % Numbers \in 0 .. Numbers - 1
    BY DEF FifoType, Fifos!ConstantsOK, Fifos!NumbersAssumption
  <2>2. /\ turn'[u] \in {"write", "read"}
        /\ f_ends' = [v \in Fifos!Users |-> IF f_at'[v] = "open" THEN {} ELSE {turn'[v]}]
    BY <1>2 DEF FifoType, Fifos!Opposite
  <2>3. heard' \in [Fifos!Users -> 0 .. Numbers - 1]
    BY <1>3, <2>1 DEF FifoType
  <2> QED
    BY <1>2, <2>2, <2>3 DEF FifoType, Points, Fifos!Opposite
<1>5. CASE u = w
  <2>1. turn[w] = "write" /\ (Full(w, r) \/ Taken(w, r) \/ Turned(w, r))
    BY <1>1, <1>2, <1>5 DEF Phase, Meeting, Full, Taken, Turned, HasWritten
  <2>2. CASE Full(w, r) \/ Taken(w, r)
    <3>1. f_ends'[r] # {}
      BY <1>1, <1>2, <1>5, <2>2 DEF Full, Taken, FifoType
    <3>2. pipe' = pipe
      BY <1>2, <3>1 DEF Fifos!Remains
    <3>3. HasWritten(w)'
      BY <1>1, <1>2, <1>5, <2>1 DEF HasWritten, FifoType, Fifos!Opposite
    <3>4. OneAhead(w, r)' /\ turn'[r] = turn[r] /\ f_at'[r] = f_at[r] /\ heard'[r] = heard[r]
      BY <1>1, <1>2, <1>3, <1>5, <2>1, <2>2 DEF Full, Taken, OneAhead, FifoType
    <3>5. Full(w, r)' \/ Taken(w, r)'
      BY <1>2, <2>2, <3>2, <3>3, <3>4 DEF Full, Taken
    <3> QED
      BY <1>4, <3>5 DEF FifoInv, Phase
  <2>3. CASE Turned(w, r)
    <3>1. pipe' = <<>>
      BY <1>2, <2>3 DEF Fifos!Remains, Turned
    <3>2. Meeting(r, w)'
      BY <1>1, <1>2, <1>3, <1>5, <2>1, <2>3, <3>1
      DEF Turned, Meeting, FifoType, Fifos!Opposite
    <3> QED
      BY <1>2, <1>4, <3>2, TwoUsers DEF FifoInv, Phase
  <2> QED
    BY <2>1, <2>2, <2>3
<1>6. CASE u = r
  <2>1. Taken(w, r)
    BY <1>1, <1>2, <1>6 DEF Phase, Meeting, Full, Taken, Turned, HasWritten
  <2>2. pipe' = <<>>
    BY <1>2, <2>1 DEF Fifos!Remains, Taken
  <2>3. f_sent'[w] = heard'[r] /\ f_sent'[r] = heard'[w]
    BY <1>1, <1>2, <1>3, <1>6, <2>1 DEF Taken, OneAhead, FifoType
  <2>4. CASE turn[w] = "write"
    <3>1. Turned(w, r)'
      BY <1>1, <1>2, <1>6, <2>1, <2>2, <2>3, <2>4
      DEF Taken, Turned, HasWritten, FifoType, Fifos!Opposite
    <3> QED
      BY <1>2, <1>4, <3>1 DEF FifoInv, Phase
  <2>5. CASE turn[w] = "read"
    <3>1. Meeting(r, w)'
      BY <1>1, <1>2, <1>6, <2>1, <2>2, <2>3, <2>5
      DEF Taken, Meeting, HasWritten, FifoType, Fifos!Opposite
    <3> QED
      BY <1>2, <1>4, <3>1, TwoUsers DEF FifoInv, Phase
  <2> QED
    BY <2>1, <2>4, <2>5 DEF Taken, HasWritten
<1> QED
  BY <1>1, <1>5, <1>6

\* No step takes an undisturbed conversation out of its phases.
LEMMA FifoNext ==
  ASSUME Fifos!ConstantsOK, FifoInv, [Fifos!Next]_fifoVars
  PROVE  FifoInv'
<1> SUFFICES ASSUME ~f_disturbed' PROVE FifoInv'
  BY DEF FifoInv
<1>1. CASE UNCHANGED fifoVars
  BY <1>1
  DEF fifoVars, FifoInv, FifoType, Phase, Meeting, Full, Taken, Turned, HasWritten,
      OneAhead
<1>2. CASE Fifos!Next
  <2>1. PICK u \in Fifos!Users : Fifos!Step(u) \/ Fifos!Kill(u) \/ Fifos!Restart(u)
    BY <1>2 DEF Fifos!Next
  <2>2. ~Fifos!Kill(u) /\ ~f_disturbed
    BY <2>1
    DEF Fifos!Kill, Fifos!Step, Fifos!Open, Fifos!Enter, Fifos!Write, Fifos!Read,
        Fifos!Finish, Fifos!Restart
  <2>3. PICK w \in Fifos!Users : FifoType /\ Phase(w, Fifos!Other(w))
    BY <2>2 DEF FifoInv, Phase
  <2>4. ~Fifos!Restart(u)
    BY <2>3 DEF Fifos!Restart, FifoType, Points
  <2> QED
    BY <2>1, <2>2, <2>3, <2>4, TwoUsers, FifoOpen, FifoWrite, FifoRead, FifoFinish
    DEF Fifos!Step
<1> QED
  BY <1>1, <1>2

\* fifo_w writes first.
LEMMA FifoInit == Fifos!ConstantsOK /\ Fifos!Init => FifoInv
<1> SUFFICES ASSUME Fifos!ConstantsOK, Fifos!Init PROVE FifoInv
  OBVIOUS
<1>1. FifoType
  BY DEF Fifos!Init, FifoType, Points, Fifos!FirstTurn, Fifos!ConstantsOK,
         Fifos!NumbersAssumption
<1>2. Meeting("fifo_w", "fifo_r")
  BY DEF Fifos!Init, Meeting, Fifos!FirstTurn, Fifos!Users
<1> QED
  BY <1>1, <1>2 DEF FifoInv, Fifos!Users, Fifos!Other

\* In every phase a user reads what the other wrote last.
LEMMA FifoInTurn ==
  ASSUME FifoInv
  PROVE  Fifos!InTurn
<1> SUFFICES ASSUME ~f_disturbed
             PROVE  /\ Len(pipe) <= 1
                    /\ \A u \in Fifos!Users :
                         /\ f_at[u] # "dead"
                         /\ f_at[u] = "done" /\ turn[u] = "read" =>
                              str[u] = <<Fifos!Other(u), heard[u]>>
                         /\ pipe # <<>> /\ pipe[1][1] = Fifos!Other(u) => pipe[1][2] = heard[u]
  BY DEF Fifos!InTurn
<1>1. PICK w \in Fifos!Users : FifoType /\ Phase(w, Fifos!Other(w))
  BY DEF FifoInv, Phase
<1>2. pipe = <<>> \/ pipe = <<<<w, heard[Fifos!Other(w)]>>>>
  BY <1>1 DEF Phase, Meeting, Full, Taken, Turned
<1>3. ASSUME NEW u \in Fifos!Users
      PROVE  /\ f_at[u] # "dead"
             /\ pipe # <<>> /\ pipe[1][1] = Fifos!Other(u) => pipe[1][2] = heard[u]
  <2>1. f_at[u] # "dead"
    BY <1>1 DEF FifoType, Points
  <2>2. ASSUME pipe # <<>>, pipe[1][1] = Fifos!Other(u)
        PROVE  pipe[1][2] = heard[u]
    <3>1. pipe[1] = <<w, heard[Fifos!Other(w)]>>
      BY <1>2, <2>2
    <3> QED
      BY <1>1, <2>2, <3>1, TwoUsers
  <2> QED
    BY <2>1, <2>2
<1>4. ASSUME NEW u \in Fifos!Users, f_at[u] = "done", turn[u] = "read"
      PROVE  str[u] = <<Fifos!Other(u), heard[u]>>
  BY <1>1, <1>4, TwoUsers DEF Phase, Meeting, Full, Taken, Turned, HasWritten
<1> QED
  BY <1>2, <1>3, <1>4

-----------------------------------------------------------------------------
(* pipe.c and pipes.c: a parent, a child and a text. *)

\* Where a process of the pipe can be.
Stages == {"none", "pipe", "fork", "close", "stream", "written", "ended", "dead"}

\* The ends a process has open follow from where it is.
EndsAt(p) ==
  IF p_at[p] \in Pipes!Over \cup {"pipe"} THEN {}
  ELSE IF p_at[p] \in {"fork", "close"} THEN {"read", "write"}
  ELSE {"read", "write"} \ Pipes!Unused(p)

\* Every variable has its type, and the ends that are open are EndsAt.
PipeType ==
  /\ p_program \in {"pipe", "pipes"}
  /\ p_at \in [Pipes!Processes -> Stages]
  /\ p_ends = [p \in Pipes!Processes |-> EndsAt(p)]
  /\ content \in {0, Lines} /\ p_printed \in {0, Lines}

\* The parent is alone up to the fork.
ForkInv ==
  /\ p_at[Pipes!Parent] \in {"pipe", "fork"} => p_at[Pipes!Child] = "none"
  /\ p_at[Pipes!Child] \notin {"pipe", "fork"}
  /\ p_at["reader"] # "written"
  /\ p_at["reader"] \in {"close", "stream", "ended"} =>
       p_at["writer"] \notin {"none", "pipe", "fork"}

\* The text is written once and read once, and a reader who meets the end of the
\* file has read it unless the writer was killed.
TextInv ==
  /\ content = 0 \/ p_printed = 0
  /\ p_at["writer"] \notin {"written", "ended", "dead"} => content = 0 /\ p_printed = 0
  /\ p_at["writer"] \in {"written", "ended"} /\ p_at["reader"] \in {"close", "stream"} =>
       content = Lines \/ p_printed = Lines
  /\ p_at["reader"] = "ended" =>
       p_at["writer"] = "dead" \/ (p_at["writer"] = "ended" /\ p_printed = Lines)

\* Undisturbed, the writer has a reader.
ReaderInv ==
  ~p_disturbed => /\ p_at["writer"] # "dead"
                  /\ p_at["writer"] \in {"close", "stream", "written"} =>
                       p_at["reader"] \in {"close", "stream"}

\* The invariant of the pipe.
PipeInv == PipeType /\ ForkInv /\ TextInv /\ ReaderInv

\* It holds when the parent starts...
LEMMA PipeInit == Pipes!ConstantsOK /\ Pipes!Init => PipeInv
<1> SUFFICES ASSUME Pipes!ConstantsOK, Pipes!Init PROVE PipeInv
  OBVIOUS
<1>1. p_program \in {"pipe", "pipes"} /\ Lines \in Nat \ {0}
  BY DEF Pipes!Init, Pipes!ConstantsOK, Pipes!ProgramsAssumption, Pipes!LinesAssumption
<1> QED
  BY <1>1
  DEF Pipes!Init, PipeInv, PipeType, ForkInv, TextInv, ReaderInv, Stages, EndsAt,
      Pipes!Over, Pipes!Processes, Pipes!Parent, Pipes!Child

\* The parent and the child are the reader and the writer.
LEMMA TwoProcesses ==
  ASSUME PipeType
  PROVE  /\ Pipes!Processes = {"reader", "writer"}
         /\ {Pipes!Parent, Pipes!Child} = Pipes!Processes /\ Pipes!Parent # Pipes!Child
  BY DEF PipeType, Pipes!Processes, Pipes!Parent, Pipes!Child

\* A step of p to another point that opens or closes what belongs to that point.
LEMMA PipeMove ==
  ASSUME PipeType, NEW p \in Pipes!Processes, NEW point \in Stages,
         p_at' = [p_at EXCEPT ![p] = point], p_program' = p_program,
         p_ends' = [p_ends EXCEPT ![p] = EndsAt(p)'],
         content' \in {0, Lines}, p_printed' \in {0, Lines}
  PROVE  PipeType'
  BY DEF PipeType, EndsAt, Pipes!Unused

\* pipe makes both ends, or fails.
LEMMA PipeMake ==
  ASSUME Pipes!ConstantsOK, PipeInv, Pipes!MakePipe
  PROVE  PipeInv'
<1> USE DEF PipeInv, ForkInv, TextInv, ReaderInv, Pipes!Processes, Pipes!Parent, Pipes!Child
<1>1. /\ Pipes!Parent \in Pipes!Processes /\ p_at[Pipes!Parent] = "pipe"
      /\ p_at[Pipes!Child] = "none"
  BY DEF Pipes!MakePipe
<1>2. CASE p_ends' = [p_ends EXCEPT ![Pipes!Parent] = {"read", "write"}]
           /\ p_at' = [p_at EXCEPT ![Pipes!Parent] = "fork"]
           /\ UNCHANGED <<content, p_disturbed>>
  <2>1. PipeType'
    BY <1>1, <1>2, PipeMove DEF Pipes!MakePipe, Stages, EndsAt, Pipes!Over, PipeType
  <2> QED
    BY <1>1, <1>2, <2>1 DEF Pipes!MakePipe, PipeType
<1>3. CASE /\ Pipes!Finish(Pipes!Parent, IF p_program = "pipe" THEN "ended" ELSE "dead")
           /\ p_disturbed'
  <2>1. PipeType'
    BY <1>1, <1>3, PipeMove
    DEF Pipes!MakePipe, Stages, EndsAt, Pipes!Over, PipeType, Pipes!Finish
  <2> QED
    BY <1>1, <1>3, <2>1 DEF Pipes!MakePipe, PipeType, Pipes!Finish
<1> QED
  BY <1>2, <1>3 DEF Pipes!MakePipe

\* The child starts with both ends of the parent.
LEMMA PipeFork ==
  ASSUME Pipes!ConstantsOK, PipeInv, Pipes!Fork
  PROVE  PipeInv'
<1> USE DEF PipeInv, ForkInv, TextInv, ReaderInv, Pipes!Processes, Pipes!Parent, Pipes!Child
<1>1. PipeType'
  BY DEF Pipes!Fork, PipeType, Stages, EndsAt, Pipes!Over
<1> QED
  BY <1>1 DEF Pipes!Fork, PipeType

\* Without a child the parent ends.
LEMMA PipeForkFails ==
  ASSUME Pipes!ConstantsOK, PipeInv, Pipes!ForkFails
  PROVE  PipeInv'
<1> USE DEF PipeInv, ForkInv, TextInv, ReaderInv, Pipes!Processes, Pipes!Parent, Pipes!Child
<1>1. PipeType'
  BY DEF Pipes!ForkFails, PipeType, Stages, EndsAt, Pipes!Over, Pipes!Finish
<1> QED
  BY <1>1 DEF Pipes!ForkFails, PipeType, Pipes!Finish

\* Each process closes the end it does not use.
LEMMA PipeClose ==
  ASSUME Pipes!ConstantsOK, PipeInv, NEW p \in Pipes!Processes, Pipes!CloseUnused(p)
  PROVE  PipeInv'
<1> USE DEF PipeInv, ForkInv, TextInv, ReaderInv, Pipes!Processes, Pipes!Parent, Pipes!Child
<1>1. PipeType'
  BY DEF Pipes!CloseUnused, PipeType, Stages, EndsAt, Pipes!Over, Pipes!Unused
<1> QED
  BY <1>1 DEF Pipes!CloseUnused, PipeType

\* The writer writes the text, or is killed by SIGPIPE.
LEMMA PipeWrite ==
  ASSUME Pipes!ConstantsOK, PipeInv, Pipes!Write
  PROVE  PipeInv'
<1> USE DEF PipeInv, ForkInv, TextInv, ReaderInv, Pipes!Processes, Pipes!Parent, Pipes!Child
<1>1. CASE Pipes!Holders("read") = {}
  <2>1. p_at["reader"] \notin {"close", "stream"}
    BY <1>1 DEF Pipes!Holders, PipeType, EndsAt, Pipes!Over, Pipes!Unused
  <2>2. PipeType'
    <3>1. Pipes!Finish("writer", "dead") /\ UNCHANGED <<p_program, p_printed>>
      BY <1>1 DEF Pipes!Write
    <3> QED
      BY <3>1 DEF PipeType, Stages, EndsAt, Pipes!Over, Pipes!Finish
  <2> QED
    BY <1>1, <2>1, <2>2 DEF Pipes!Write, PipeType, Pipes!Finish
<1>2. CASE Pipes!Holders("read") # {}
  <2>1. PipeType'
    BY <1>2 DEF Pipes!Write, PipeType, Stages, EndsAt, Pipes!Over, Pipes!Unused
  <2> QED
    BY <1>2, <2>1 DEF Pipes!Write, PipeType
<1> QED
  BY <1>1, <1>2

\* The writer has nothing more to write.
LEMMA PipeCloseWriter ==
  ASSUME Pipes!ConstantsOK, PipeInv, Pipes!CloseWriter
  PROVE  PipeInv'
<1> USE DEF PipeInv, ForkInv, TextInv, ReaderInv, Pipes!Processes, Pipes!Parent, Pipes!Child
<1>1. PipeType'
  BY DEF Pipes!CloseWriter, PipeType, Stages, EndsAt, Pipes!Over, Pipes!Finish
<1>2. p_at["reader"] \in {"close", "stream"} => content' = content
  BY DEF Pipes!CloseWriter, PipeType, Pipes!Finish, EndsAt, Pipes!Over, Pipes!Unused
<1> QED
  BY <1>1, <1>2 DEF Pipes!CloseWriter, PipeType, Pipes!Finish

\* The reader takes the text and prints it.
LEMMA PipeRead ==
  ASSUME Pipes!ConstantsOK, PipeInv, Pipes!Read
  PROVE  PipeInv'
<1> USE DEF PipeInv, ForkInv, TextInv, ReaderInv, Pipes!Processes, Pipes!Parent, Pipes!Child
<1>1. content = Lines /\ p_printed' = Lines /\ content' = 0 /\ Lines \in Nat \ {0}
  BY DEF Pipes!Read, PipeType, Pipes!ConstantsOK, Pipes!LinesAssumption
<1>2. PipeType'
  BY <1>1 DEF Pipes!Read, PipeType, EndsAt
<1> QED
  BY <1>1, <1>2 DEF Pipes!Read, PipeType

\* A process ends: the reader at the end of the file.
LEMMA PipeEnd ==
  ASSUME Pipes!ConstantsOK, PipeInv, Pipes!EndOfFile
  PROVE  PipeInv'
<1> USE DEF PipeInv, ForkInv, TextInv, ReaderInv, Pipes!Processes, Pipes!Parent, Pipes!Child
<1>1. PipeType'
  BY DEF Pipes!EndOfFile, PipeType, Stages, EndsAt, Pipes!Over, Pipes!Finish
<1>2. p_at["writer"] \in {"ended", "dead"}
  BY DEF Pipes!EndOfFile, Pipes!Holders, PipeType, Stages, EndsAt, Pipes!Over, Pipes!Unused
<1>3. p_at["writer"] = "ended" => p_printed = Lines
  BY <1>2 DEF Pipes!EndOfFile, Pipes!ConstantsOK, Pipes!LinesAssumption
<1> QED
  BY <1>1, <1>2, <1>3 DEF Pipes!EndOfFile, PipeType, Pipes!Finish

\* A process is killed.
LEMMA PipeKill ==
  ASSUME Pipes!ConstantsOK, PipeInv, NEW p \in Pipes!Processes, Pipes!Kill(p)
  PROVE  PipeInv'
<1> USE DEF PipeInv, ForkInv, TextInv, ReaderInv, Pipes!Processes, Pipes!Parent, Pipes!Child
<1>1. PipeType'
  BY DEF Pipes!Kill, PipeType, Stages, EndsAt, Pipes!Over, Pipes!Finish
<1> QED
  BY <1>1 DEF Pipes!Kill, PipeType, Pipes!Finish, Pipes!Over

\* ...and every step preserves it.
LEMMA PipeNext ==
  ASSUME Pipes!ConstantsOK, PipeInv, [Pipes!Next]_pipeVars
  PROVE  PipeInv'
<1>1. CASE UNCHANGED pipeVars
  BY <1>1
  DEF pipeVars, PipeInv, PipeType, ForkInv, TextInv, ReaderInv, Pipes!Parent, Pipes!Child,
      EndsAt
<1>2. CASE Pipes!Next
  <2>1. PICK p \in Pipes!Processes : Pipes!Step(p) \/ Pipes!Kill(p)
    BY <1>2 DEF Pipes!Next
  <2> QED
    BY <2>1, PipeMake, PipeFork, PipeForkFails, PipeClose, PipeWrite, PipeCloseWriter,
       PipeRead, PipeEnd, PipeKill
    DEF Pipes!Step
<1> QED
  BY <1>1, <1>2

\* It implies that the text is delivered.
LEMMA PipeDelivers ==
  ASSUME Pipes!ConstantsOK, PipeInv
  PROVE  Pipes!Delivered
<1>1. Lines # 0
  BY DEF Pipes!ConstantsOK, Pipes!LinesAssumption
<1> QED
  BY <1>1 DEF PipeInv, PipeType, TextInv, ReaderInv, Pipes!Delivered

-----------------------------------------------------------------------------
(* The local socket: the server prints in the order of the connections. *)

\* Every variable has its type; the server reads while it has a connection.
SocketType ==
  /\ server \in {"dead", "bind", "listen", "accept", "scan"}
  /\ name \in BOOLEAN
  /\ queue \in Seq(Sockets!Connections)
  /\ cfd \in Sockets!Connections \cup {Sockets!None}
  /\ number \in BOOLEAN
  /\ client \in [Clients -> {"dead", "connect", "read"}]
  /\ sfd \in [Clients -> Sockets!Connections \cup {Sockets!None}]
  /\ owner \in [Sockets!Connections -> Clients \cup {"none", "gone"}]
  /\ byte \in [Sockets!Connections -> Sockets!Bytes \cup {Sockets!Empty}]
  /\ typed \in [Sockets!Connections -> Sockets!Bytes \cup {Sockets!Empty}]
  /\ printed \in Seq(Sockets!Connections)
  /\ server = "scan" <=> cfd # Sockets!None

\* A connection that has been made has had an owner.
Made(c) == owner[c] # "none"

\* Connections are made in turn, and taken up in turn.
SocketOrderInv ==
  /\ \A c, d \in Sockets!Connections : c < d /\ Made(d) => Made(c)
  /\ \A j \in DOMAIN queue : Made(queue[j]) /\ cfd < queue[j]
  /\ cfd # Sockets!None => Made(cfd)
  /\ \A i \in DOMAIN printed : /\ Made(printed[i])
                               /\ cfd # Sockets!None => printed[i] < cfd
                               /\ \A j \in DOMAIN queue : printed[i] < queue[j]
  /\ \A i, j \in DOMAIN queue : i < j => queue[i] < queue[j]

\* A connection carries one byte, typed by its owner.
SocketByteInv ==
  /\ \A c \in Sockets!Connections : /\ ~Made(c) => typed[c] = Sockets!Empty
                                    /\ byte[c] \in {Sockets!Empty, typed[c]}
  /\ \A p \in Clients : client[p] = "read" /\ sfd[p] # Sockets!None =>
       owner[sfd[p]] = p /\ typed[sfd[p]] = Sockets!Empty
  /\ number => cfd # Sockets!None /\ typed[cfd] = "digit" /\ byte[cfd] = Sockets!Empty

\* The invariant of the socket, what the run checks included.
SocketInv == SocketType /\ SocketOrderInv /\ SocketByteInv /\ Sockets!PrintsInOrder

\* Every set of naturals that has elements has a least one.
LEMMA LeastNatural ==
  ASSUME NEW S \in SUBSET Nat, S # {}
  PROVE  \E x \in S : \A y \in S : x <= y
<1>1. PICK R : R = OpToRel(<, Nat)
  OBVIOUS
<1>2. \A x, y \in Nat : y < x => <<y, x>> \in R
  BY <1>1 DEF OpToRel
<1>3. IsWellFoundedOn(R, Nat)
  BY <1>1, NatLessThanWellFounded
<1>4. \E x \in S : \A y \in S : <<y, x>> \notin R
  BY <1>3, WFMin
<1>5. \A x, y \in Nat : ~ (y < x) => x <= y
  OBVIOUS
<1> QED
  BY <1>2, <1>4, <1>5

\* What the server has printed, is reading and will read.
line == <<queue, cfd, printed>>

\* Before anybody connects.
LEMMA SocketInit == Sockets!ConstantsOK /\ Sockets!Init => SocketInv
<1> SUFFICES ASSUME Sockets!ConstantsOK, Sockets!Init PROVE SocketInv
  OBVIOUS
<1>1. SocketType
  <2>1. <<>> \in Seq(Sockets!Connections)
    OBVIOUS
  <2> QED
    BY <2>1 DEF Sockets!Init, SocketType
<1>2. SocketOrderInv
  BY DEF Sockets!Init, SocketOrderInv, Made
<1>3. SocketByteInv
  BY DEF Sockets!Init, SocketByteInv, Made
<1>4. Sockets!PrintsInOrder
  BY DEF Sockets!Init, Sockets!PrintsInOrder, Sockets!ToSet
<1> QED
  BY <1>1, <1>2, <1>3, <1>4 DEF SocketInv

\* In this form what has been printed is found by its place.
LEMMA PrintedPlaces ==
  Sockets!PrintsInOrder <=>
    /\ \A i, j \in DOMAIN printed : i < j => printed[i] < printed[j]
    /\ \A i \in DOMAIN printed : typed[printed[i]] = "digit" /\ Sockets!Abandoned(printed[i])
  BY DEF Sockets!PrintsInOrder, Sockets!ToSet

\* Steps that change nothing but the server's state and its name.
LEMMA SocketQuiet ==
  ASSUME SocketInv,
         UNCHANGED <<queue, cfd, number, sfd, owner, byte, typed, printed>>,
         server' \in {"dead", "bind", "listen", "accept", "scan"}, name' \in BOOLEAN,
         server' = "scan" <=> server = "scan",
         client' \in [Clients -> {"dead", "connect", "read"}],
         \A p \in Clients : client'[p] = "read" => client[p] = "read"
  PROVE  SocketInv'
<1>1. SocketType'
  BY DEF SocketInv, SocketType
<1>2. SocketOrderInv'
  BY DEF SocketInv, SocketOrderInv, Made
<1>3. SocketByteInv'
  BY DEF SocketInv, SocketByteInv, Made
<1>4. Sockets!PrintsInOrder'
  BY DEF SocketInv, Sockets!PrintsInOrder, Sockets!Abandoned
<1> QED
  BY <1>1, <1>2, <1>3, <1>4 DEF SocketInv

\* With the server goes the queue, and the connection it reads.
LEMMA SocketKillServer ==
  ASSUME SocketInv, Sockets!KillServer
  PROVE  SocketInv'
<1> USE DEF SocketInv, Sockets!KillServer
<1>1. SocketType'
  <2>1. <<>> \in Seq(Sockets!Connections)
    OBVIOUS
  <2> QED
    BY <2>1 DEF SocketType
<1>2. SocketOrderInv'
  BY DEF SocketOrderInv, Made, Sockets!None
<1>3. SocketByteInv'
  BY DEF SocketByteInv, Made
<1>4. Sockets!PrintsInOrder'
  BY DEF Sockets!PrintsInOrder, Sockets!Abandoned
<1> QED
  BY <1>1, <1>2, <1>3, <1>4

\* The server takes up the connection that waits longest.
LEMMA SocketAccept ==
  ASSUME SocketInv, Sockets!Accept
  PROVE  SocketInv'
<1>1. /\ server' = "scan" /\ number' = FALSE /\ queue # <<>>
      /\ queue \in Seq(Sockets!Connections)
      /\ cfd' = queue[1] /\ queue' = Tail(queue)
      /\ UNCHANGED <<name, client, sfd, owner, byte, typed, printed>>
  BY DEF Sockets!Accept, SocketInv, SocketType
<1>2. /\ 1 \in DOMAIN queue /\ queue[1] \in Sockets!Connections
      /\ \A j \in DOMAIN queue' : j + 1 \in DOMAIN queue /\ queue'[j] = queue[j + 1]
                                  /\ j \in Nat \ {0}
  BY <1>1
<1>3. SocketType'
  <2>1. /\ queue' \in Seq(Sockets!Connections) /\ cfd' \in Sockets!Connections
        /\ cfd' # Sockets!None
    BY <1>1, <1>2 DEF Sockets!Connections, Sockets!None
  <2> QED
    BY <1>1, <2>1 DEF SocketInv, SocketType
<1>4. SocketOrderInv'
  <2>1. \A j \in DOMAIN queue' : Made(queue'[j]) /\ cfd' < queue'[j]
    BY <1>1, <1>2 DEF SocketInv, SocketOrderInv
  <2>2. Made(cfd')
    BY <1>1, <1>2 DEF SocketInv, SocketOrderInv
  <2>3. \A i \in DOMAIN printed : /\ Made(printed[i]) /\ printed[i] < cfd'
                                  /\ \A j \in DOMAIN queue' : printed[i] < queue'[j]
    BY <1>1, <1>2 DEF SocketInv, SocketOrderInv
  <2>4. \A i, j \in DOMAIN queue' : i < j => queue'[i] < queue'[j]
    BY <1>1, <1>2 DEF SocketInv, SocketOrderInv
  <2>5. \A c, d \in Sockets!Connections : c < d /\ Made(d) => Made(c)
    BY DEF SocketInv, SocketOrderInv
  <2>6. UNCHANGED <<printed, owner>>
    BY <1>1
  <2> QED
    BY <2>1, <2>2, <2>3, <2>4, <2>5, <2>6 DEF SocketOrderInv, Made
<1>5. SocketByteInv'
  BY <1>1 DEF SocketInv, SocketByteInv, Made
<1>6. Sockets!PrintsInOrder'
  BY <1>1 DEF SocketInv, Sockets!PrintsInOrder, Sockets!Abandoned
<1> QED
  BY <1>3, <1>4, <1>5, <1>6 DEF SocketInv

\* The end of a conversation: cfd is printed or forgotten.
LEMMA SocketHangup ==
  ASSUME SocketInv, cfd # Sockets!None, Sockets!Hangup(number),
         number => Sockets!Abandoned(cfd),
         UNCHANGED <<name, queue, client, sfd, owner, typed>>,
         byte' \in [Sockets!Connections -> Sockets!Bytes \cup {Sockets!Empty}],
         \A c \in Sockets!Connections : byte'[c] \in {Sockets!Empty, byte[c]}
  PROVE  SocketInv'
<1>1. /\ server' = "accept" /\ cfd' = Sockets!None /\ number' = FALSE
      /\ printed' = IF number THEN Append(printed, cfd) ELSE printed
  BY DEF Sockets!Hangup, Sockets!Printed
<1>2. cfd \in Sockets!Connections /\ printed \in Seq(Sockets!Connections)
  BY DEF SocketInv, SocketType
<1>3. SocketType'
  <2>1. printed' \in Seq(Sockets!Connections)
    BY <1>1, <1>2
  <2> QED
    BY <1>1, <2>1 DEF SocketInv, SocketType
<1>4. SocketByteInv'
  BY <1>1 DEF SocketInv, SocketByteInv, Made
<1>5. CASE ~number
  <2>1. printed' = printed
    BY <1>1, <1>5
  <2>2. SocketOrderInv'
    <3>1. \A j \in DOMAIN queue : queue[j] \in Sockets!Connections
      BY DEF SocketInv, SocketType
    <3>2. \A j \in DOMAIN queue : cfd' < queue[j]
      BY <1>1, <3>1 DEF Sockets!None, Sockets!Connections
    <3> QED
      BY <1>1, <2>1, <3>2 DEF SocketInv, SocketOrderInv, Made
  <2>3. Sockets!PrintsInOrder'
    BY <1>1, <2>1 DEF SocketInv, Sockets!PrintsInOrder, Sockets!Abandoned
  <2> QED
    BY <1>3, <1>4, <2>2, <2>3 DEF SocketInv
<1>6. CASE number
  <2>1. /\ DOMAIN printed' = 1 .. Len(printed) + 1
        /\ \A i \in DOMAIN printed : printed'[i] = printed[i] /\ i < Len(printed) + 1
        /\ printed'[Len(printed) + 1] = cfd /\ DOMAIN printed = 1 .. Len(printed)
        /\ Len(printed) \in Nat
    BY <1>1, <1>2, <1>6
  <2>2. \A i \in DOMAIN printed' : \/ i \in DOMAIN printed /\ printed'[i] = printed[i]
                                   \/ i = Len(printed) + 1 /\ printed'[i] = cfd
    BY <2>1
  <2>3. \A j \in DOMAIN queue : queue[j] \in Sockets!Connections
    BY DEF SocketInv, SocketType
  <2>4. SocketOrderInv'
    <3>1. \A i \in DOMAIN printed' :
            Made(printed'[i]) /\ \A j \in DOMAIN queue : printed'[i] < queue[j]
      BY <2>2 DEF SocketInv, SocketOrderInv
    <3>2. \A j \in DOMAIN queue : cfd' < queue[j]
      BY <1>1, <2>3 DEF Sockets!None, Sockets!Connections
    <3>3. /\ \A c, d \in Sockets!Connections : c < d /\ Made(d) => Made(c)
          /\ \A j \in DOMAIN queue : Made(queue[j])
          /\ \A i, j \in DOMAIN queue : i < j => queue[i] < queue[j]
      BY DEF SocketInv, SocketOrderInv
    <3> QED
      BY <1>1, <3>1, <3>2, <3>3 DEF SocketOrderInv, Made
  <2>5. \A i, j \in DOMAIN printed' : i < j => printed'[i] < printed'[j]
    BY <2>1, <2>2 DEF SocketInv, SocketOrderInv, Sockets!PrintsInOrder
  <2>6. \A i \in DOMAIN printed' :
          typed[printed'[i]] = "digit" /\ Sockets!Abandoned(printed'[i])
    BY <1>6, <2>2, PrintedPlaces DEF SocketInv, SocketByteInv
  <2>7. Sockets!PrintsInOrder'
    BY <2>5, <2>6 DEF Sockets!PrintsInOrder, Sockets!ToSet, Sockets!Abandoned
  <2> QED
    BY <1>3, <1>4, <2>4, <2>7 DEF SocketInv
<1> QED
  BY <1>5, <1>6

\* The server reads the byte of its connection.
LEMMA SocketScan ==
  ASSUME SocketInv, Sockets!Scan
  PROVE  SocketInv'
<1>1. /\ cfd \in Sockets!Connections /\ cfd # Sockets!None /\ byte[cfd] \in Sockets!Bytes
      /\ byte[cfd] = typed[cfd] /\ ~number
  BY DEF Sockets!Scan, SocketInv, SocketType, SocketByteInv
<1>2. /\ byte' \in [Sockets!Connections -> Sockets!Bytes \cup {Sockets!Empty}]
      /\ \A c \in Sockets!Connections : byte'[c] \in {Sockets!Empty, byte[c]}
      /\ byte'[cfd] = Sockets!Empty
      /\ UNCHANGED <<name, queue, client, sfd, owner, typed>>
  BY <1>1 DEF Sockets!Scan, SocketInv, SocketType
<1>3. CASE byte[cfd] = "other"
  BY <1>1, <1>2, <1>3, SocketHangup DEF Sockets!Scan
<1>4. CASE byte[cfd] # "other"
  <2>1. /\ number' = (byte[cfd] = "digit")
        /\ UNCHANGED <<server, cfd, printed>>
    BY <1>1, <1>4 DEF Sockets!Scan
  <2>2. SocketType'
    BY <1>2, <2>1 DEF SocketInv, SocketType
  <2>3. SocketOrderInv'
    BY <1>2, <2>1 DEF SocketInv, SocketOrderInv, Made
  <2>4. SocketByteInv'
    BY <1>1, <1>2, <2>1 DEF SocketInv, SocketByteInv, Made
  <2>5. Sockets!PrintsInOrder'
    BY <1>2, <2>1 DEF SocketInv, Sockets!PrintsInOrder, Sockets!Abandoned
  <2> QED
    BY <2>2, <2>3, <2>4, <2>5 DEF SocketInv
<1> QED
  BY <1>3, <1>4

\* The server comes to the end of a connection and closes it.
LEMMA SocketScanEnds ==
  ASSUME SocketInv, Sockets!ScanEnds
  PROVE  SocketInv'
<1>1. cfd # Sockets!None /\ Sockets!Hangup(number) /\ Sockets!Abandoned(cfd)
      /\ UNCHANGED <<name, queue, client, sfd, owner, byte, typed>>
  BY DEF Sockets!ScanEnds, SocketInv, SocketType
<1> QED
  BY <1>1, SocketHangup DEF SocketInv, SocketType

\* The end of a client abandons its connections and no others.
LEMMA SocketDie ==
  ASSUME Sockets!ConstantsOK, SocketInv, NEW p \in Clients, Sockets!Die(p),
         UNCHANGED <<server, name, queue, cfd, number, byte, typed, printed>>
  PROVE  SocketInv'
<1>1. /\ client' = [client EXCEPT ![p] = "dead"]
      /\ sfd' = [sfd EXCEPT ![p] = Sockets!None]
      /\ owner' = [c \in Sockets!Connections |-> IF owner[c] = p THEN "gone" ELSE owner[c]]
      /\ p \notin {"none", "gone"}
  BY DEF Sockets!Die, Sockets!ConstantsOK, Sockets!ClientsAssumption
<1>2. \A c \in Sockets!Connections : /\ Made(c)' <=> Made(c)
                                     /\ Sockets!Abandoned(c) => Sockets!Abandoned(c)'
                                     /\ \A q \in Clients \ {p} : owner[c] = q => owner'[c] = q
  BY <1>1 DEF Made, Sockets!Abandoned
<1>3. /\ \A i \in DOMAIN printed : printed[i] \in Sockets!Connections
      /\ \A j \in DOMAIN queue : queue[j] \in Sockets!Connections
      /\ cfd # Sockets!None => cfd \in Sockets!Connections
  BY DEF SocketInv, SocketType
<1>4. SocketType'
  BY <1>1 DEF SocketInv, SocketType
<1>5. SocketOrderInv'
  <2>1. /\ \A c, d \in Sockets!Connections : c < d /\ Made(d)' => Made(c)'
        /\ \A i \in DOMAIN printed : Made(printed[i])'
        /\ \A j \in DOMAIN queue : Made(queue[j])'
        /\ cfd # Sockets!None => Made(cfd)'
    BY <1>2, <1>3 DEF SocketInv, SocketOrderInv
  <2> QED
    BY <2>1 DEF SocketInv, SocketOrderInv, Made
<1>6. SocketByteInv'
  <2>1. ASSUME NEW q \in Clients, client'[q] = "read", sfd'[q] # Sockets!None
        PROVE  owner'[sfd'[q]] = q /\ typed[sfd'[q]] = Sockets!Empty
    <3>1. q # p /\ client[q] = "read" /\ sfd'[q] = sfd[q] /\ sfd[q] \in Sockets!Connections
      BY <1>1, <2>1 DEF SocketInv, SocketType
    <3> QED
      BY <1>2, <2>1, <3>1 DEF SocketInv, SocketByteInv
  <2>2. \A c \in Sockets!Connections : ~Made(c)' => typed[c] = Sockets!Empty
    BY <1>2 DEF SocketInv, SocketByteInv
  <2> QED
    BY <2>1, <2>2 DEF SocketInv, SocketByteInv, Made
<1>7. Sockets!PrintsInOrder'
  <2>1. \A i \in DOMAIN printed : Sockets!Abandoned(printed[i])'
    BY <1>2, <1>3, PrintedPlaces DEF SocketInv
  <2> QED
    BY <2>1, PrintedPlaces
    DEF SocketInv, Sockets!PrintsInOrder, Sockets!ToSet, Sockets!Abandoned
<1> QED
  BY <1>4, <1>5, <1>6, <1>7 DEF SocketInv

\* Connections are numbers.
LEMMA ConnectionsInt == Sockets!Connections \subseteq Nat
  BY DEF Sockets!Connections

\* A refused client has no connection.
LEMMA SocketRefused ==
  ASSUME SocketInv, NEW p \in Clients, client' = [client EXCEPT ![p] = "read"],
         sfd' = [sfd EXCEPT ![p] = Sockets!None],
         UNCHANGED <<queue, owner, server, name, cfd, number, byte, typed, printed>>
  PROVE  SocketInv'
<1>1. SocketType'
  BY DEF SocketInv, SocketType
<1>2. SocketOrderInv'
  BY DEF SocketInv, SocketOrderInv, Made
<1>3. SocketByteInv'
  BY DEF SocketInv, SocketType, SocketByteInv, Made
<1>4. Sockets!PrintsInOrder'
  BY DEF SocketInv, Sockets!PrintsInOrder, Sockets!Abandoned
<1> QED
  BY <1>1, <1>2, <1>3, <1>4 DEF SocketInv

\* A new connection comes after all that have been made.
LEMMA SocketConnected ==
  ASSUME Sockets!ConstantsOK, SocketInv, NEW p \in Clients, Sockets!Unmade # {},
         client' = [client EXCEPT ![p] = "read"],
         queue' = Append(queue, Sockets!Min(Sockets!Unmade)),
         sfd' = [sfd EXCEPT ![p] = Sockets!Min(Sockets!Unmade)],
         owner' = [owner EXCEPT ![Sockets!Min(Sockets!Unmade)] = p],
         UNCHANGED <<server, name, cfd, number, byte, typed, printed>>
  PROVE  SocketInv'
<1>1. PICK c \in Sockets!Connections :
        /\ c = Sockets!Min(Sockets!Unmade) /\ ~Made(c)
        /\ \A d \in Sockets!Unmade : c <= d
  <2>1. Sockets!Unmade \in SUBSET Nat
    BY DEF Sockets!Unmade, Sockets!Connections
  <2>2. \E x \in Sockets!Unmade : \A y \in Sockets!Unmade : x <= y
    BY <2>1, LeastNatural
  <2>3. /\ Sockets!Min(Sockets!Unmade) \in Sockets!Unmade
        /\ \A d \in Sockets!Unmade : Sockets!Min(Sockets!Unmade) <= d
    BY <2>2 DEF Sockets!Min
  <2> QED
    BY <2>3 DEF Sockets!Unmade, Made
<1>2. \A d \in Sockets!Connections : Made(d) <=> d < c
  <2>1. ASSUME NEW d \in Sockets!Connections, Made(d) PROVE d < c
    <3>1. d # c /\ ~ (c < d)
      BY <1>1, <2>1 DEF SocketInv, SocketOrderInv
    <3> QED
      BY <3>1, ConnectionsInt
  <2>2. ASSUME NEW d \in Sockets!Connections, d < c PROVE Made(d)
    <3>1. d \notin Sockets!Unmade
      BY <1>1, <2>2, ConnectionsInt
    <3> QED
      BY <3>1 DEF Sockets!Unmade, Made
  <2> QED
    BY <2>1, <2>2
<1>3. p \notin {"none", "gone"}
  BY DEF Sockets!ConstantsOK, Sockets!ClientsAssumption
<1>4. \A d \in Sockets!Connections : /\ Made(d)' <=> (d = c \/ d < c)
                                     /\ Sockets!Abandoned(d) => d # c /\ Sockets!Abandoned(d)'
                                     /\ d # c => owner'[d] = owner[d]
  BY <1>1, <1>2, <1>3 DEF Made, Sockets!Abandoned, SocketInv, SocketType
<1>5. /\ \A i \in DOMAIN printed : printed[i] \in Sockets!Connections /\ printed[i] < c
      /\ \A j \in DOMAIN queue : queue[j] \in Sockets!Connections /\ queue[j] < c
      /\ cfd # Sockets!None => cfd \in Sockets!Connections /\ cfd < c
  <2>1. /\ \A i \in DOMAIN printed : printed[i] \in Sockets!Connections
        /\ \A j \in DOMAIN queue : queue[j] \in Sockets!Connections
        /\ cfd # Sockets!None => cfd \in Sockets!Connections
    BY DEF SocketInv, SocketType
  <2> QED
    BY <1>2, <2>1 DEF SocketInv, SocketOrderInv
<1>6. /\ DOMAIN queue' = 1 .. Len(queue) + 1
      /\ \A j \in DOMAIN queue' : \/ j \in DOMAIN queue /\ queue'[j] = queue[j]
                                  \/ j = Len(queue) + 1 /\ queue'[j] = c
      /\ DOMAIN queue = 1 .. Len(queue) /\ Len(queue) \in Nat
  BY <1>1 DEF SocketInv, SocketType
<1>7. SocketType'
  <2>1. /\ queue' \in Seq(Sockets!Connections)
        /\ owner' \in [Sockets!Connections -> Clients \cup {"none", "gone"}]
        /\ sfd' \in [Clients -> Sockets!Connections \cup {Sockets!None}]
    BY <1>1 DEF SocketInv, SocketType
  <2> QED
    BY <2>1 DEF SocketInv, SocketType
<1>8. SocketOrderInv'
  <2>1. \A d, e \in Sockets!Connections : d < e /\ Made(e)' => Made(d)'
    BY <1>1, <1>4, ConnectionsInt
  <2>2. \A j \in DOMAIN queue' : owner'[queue'[j]] # "none" /\ cfd < queue'[j]
    <3>1. cfd < c
      BY <1>1, <1>5 DEF Sockets!Connections, Sockets!None
    <3>2. \A j \in DOMAIN queue : cfd < queue[j] /\ owner'[queue[j]] # "none"
      BY <1>4, <1>5 DEF SocketInv, SocketOrderInv, Made
    <3>3. owner'[c] # "none"
      BY <1>4 DEF Made
    <3> QED
      BY <1>6, <3>1, <3>2, <3>3
  <2>3. cfd # Sockets!None => Made(cfd)'
    BY <1>4, <1>5
  <2>4. \A i \in DOMAIN printed : /\ Made(printed[i])'
                                  /\ \A j \in DOMAIN queue' : printed[i] < queue'[j]
    BY <1>4, <1>5, <1>6 DEF SocketInv, SocketOrderInv
  <2>5. \A i, j \in DOMAIN queue' : i < j => queue'[i] < queue'[j]
    BY <1>5, <1>6 DEF SocketInv, SocketOrderInv
  <2>6. \A i \in DOMAIN printed : cfd # Sockets!None => printed[i] < cfd
    BY DEF SocketInv, SocketOrderInv
  <2> QED
    BY <2>1, <2>2, <2>3, <2>4, <2>5, <2>6, UNCHANGED <<printed, cfd>>
    DEF SocketOrderInv, Made
<1>9. SocketByteInv'
  <2>1. ASSUME NEW q \in Clients, client'[q] = "read", sfd'[q] # Sockets!None
        PROVE  owner'[sfd'[q]] = q /\ typed[sfd'[q]] = Sockets!Empty
    <3>1. CASE q = p
      BY <1>1, <3>1 DEF SocketInv, SocketType, SocketByteInv
    <3>2. CASE q # p
      <4>1. client[q] = "read" /\ sfd'[q] = sfd[q] /\ sfd[q] \in Sockets!Connections
        BY <2>1, <3>2 DEF SocketInv, SocketType
      <4>2. owner[sfd[q]] = q /\ typed[sfd[q]] = Sockets!Empty /\ q # "none"
        BY <2>1, <4>1
        DEF SocketInv, SocketByteInv, Sockets!ConstantsOK, Sockets!ClientsAssumption
      <4> QED
        BY <1>1, <1>4, <4>1, <4>2 DEF Made
    <3> QED
      BY <3>1, <3>2
  <2>2. \A d \in Sockets!Connections : ~Made(d)' => typed[d] = Sockets!Empty
    BY <1>2, <1>4 DEF SocketInv, SocketByteInv
  <2> QED
    BY <2>1, <2>2 DEF SocketInv, SocketByteInv, Made
<1>10. Sockets!PrintsInOrder'
  <2>1. \A i \in DOMAIN printed : Sockets!Abandoned(printed[i])'
    BY <1>4, <1>5, PrintedPlaces DEF SocketInv
  <2> QED
    BY <2>1, PrintedPlaces
    DEF SocketInv, Sockets!PrintsInOrder, Sockets!ToSet, Sockets!Abandoned
<1> QED
  BY <1>7, <1>8, <1>9, <1>10 DEF SocketInv

\* A byte goes into a connection that has carried none.
LEMMA SocketTyped ==
  ASSUME Sockets!ConstantsOK, SocketInv, NEW p \in Clients, client[p] = "read",
         sfd[p] # Sockets!None, NEW b \in Sockets!Bytes,
         byte' = [byte EXCEPT ![sfd[p]] = b], typed' = [typed EXCEPT ![sfd[p]] = b],
         client' = [client EXCEPT ![p] = "connect"],
         UNCHANGED <<sfd, owner, server, name, queue, cfd, number, printed>>
  PROVE  SocketInv'
<1>1. PICK c \in Sockets!Connections : c = sfd[p] /\ owner[c] = p /\ typed[c] = Sockets!Empty
  BY DEF SocketInv, SocketType, SocketByteInv
<1>2. SocketType'
  BY <1>1 DEF SocketInv, SocketType
<1>3. SocketOrderInv'
  BY DEF SocketInv, SocketOrderInv, Made
<1>4. SocketByteInv'
  <2>1. ASSUME NEW q \in Clients, client'[q] = "read", sfd[q] # Sockets!None
        PROVE  owner[sfd[q]] = q /\ typed'[sfd[q]] = Sockets!Empty
    <3>1. q # p /\ client[q] = "read" /\ sfd[q] \in Sockets!Connections
      BY <2>1 DEF SocketInv, SocketType
    <3>2. owner[sfd[q]] = q /\ typed[sfd[q]] = Sockets!Empty
      BY <2>1, <3>1 DEF SocketInv, SocketByteInv
    <3> QED
      BY <1>1, <3>1, <3>2 DEF SocketInv, SocketType
  <2>2. ASSUME NEW d \in Sockets!Connections
        PROVE  /\ ~Made(d) => typed'[d] = Sockets!Empty
               /\ byte'[d] \in {Sockets!Empty, typed'[d]}
    <3>1. CASE d = c
      BY <1>1, <3>1
      DEF SocketInv, SocketType, Made, Sockets!ConstantsOK, Sockets!ClientsAssumption
    <3>2. CASE d # c
      BY <1>1, <3>2 DEF SocketInv, SocketType, SocketByteInv
    <3> QED
      BY <3>1, <3>2
  <2>3. number =>
          cfd # Sockets!None /\ cfd # c /\ typed[cfd] = "digit" /\ byte[cfd] = Sockets!Empty
    BY <1>1 DEF SocketInv, SocketByteInv, Sockets!Empty
  <2>4. number => cfd # Sockets!None /\ typed'[cfd] = "digit" /\ byte'[cfd] = Sockets!Empty
    BY <1>1, <2>3 DEF SocketInv, SocketType
  <2> QED
    BY <2>1, <2>2, <2>4 DEF SocketByteInv, Made
<1>5. Sockets!PrintsInOrder'
  <2>1. \A i \in DOMAIN printed : typed'[printed[i]] = "digit"
    BY <1>1, PrintedPlaces DEF SocketInv, SocketType, Sockets!Empty
  <2> QED
    BY <2>1, PrintedPlaces
    DEF SocketInv, Sockets!PrintsInOrder, Sockets!ToSet, Sockets!Abandoned
<1> QED
  BY <1>2, <1>3, <1>4, <1>5 DEF SocketInv

\* Every step of the server or a client preserves the invariant.
LEMMA SocketNext ==
  ASSUME Sockets!ConstantsOK, SocketInv, [Sockets!Next]_socketVars
  PROVE  SocketInv'
<1>1. CASE UNCHANGED socketVars
  BY <1>1, SocketQuiet DEF socketVars, SocketInv, SocketType
<1>2. CASE Sockets!StartServer \/ Sockets!Bind \/ Sockets!Listen \/ Sockets!RemoveName
  <2>1. /\ UNCHANGED <<queue, cfd, number, client, sfd, owner, byte, typed, printed>>
        /\ server' \in {"dead", "bind", "listen", "accept", "scan"} /\ name' \in BOOLEAN
        /\ server # "scan" /\ server' # "scan"
    BY <1>2
    DEF Sockets!StartServer, Sockets!Bind, Sockets!Listen, Sockets!RemoveName, SocketInv,
        SocketType
  <2> QED
    BY <2>1, SocketQuiet DEF SocketInv, SocketType
<1>3. ASSUME NEW p \in Clients, Sockets!StartClient(p) PROVE SocketInv'
  <2>1. /\ UNCHANGED <<server, name, queue, cfd, number, sfd, owner, byte, typed, printed>>
        /\ client' \in [Clients -> {"dead", "connect", "read"}]
        /\ \A q \in Clients : client'[q] = "read" => client[q] = "read"
    BY <1>3 DEF Sockets!StartClient, SocketInv, SocketType
  <2> QED
    BY <2>1, SocketQuiet DEF SocketInv, SocketType
<1>4. ASSUME NEW p \in Clients, Sockets!Connect(p) PROVE SocketInv'
  BY <1>4, SocketConnected, SocketRefused DEF Sockets!Connect
<1>5. ASSUME NEW p \in Clients, Sockets!Copy(p) PROVE SocketInv'
  <2>1. CASE Sockets!AtServer(sfd[p]) /\ UNCHANGED <<sfd, owner>>
    BY <1>5, <2>1, SocketTyped DEF Sockets!Copy, Sockets!AtServer, Sockets!Die
  <2>2. CASE sfd[p] = Sockets!None /\ UNCHANGED <<sfd, owner>>
    <3>1. /\ UNCHANGED <<server, name, queue, cfd, number, sfd, owner, byte, typed, printed>>
          /\ client' = [client EXCEPT ![p] = "connect"]
      BY <1>5, <2>2 DEF Sockets!Copy, Sockets!AtServer
    <3>2. /\ client' \in [Clients -> {"dead", "connect", "read"}]
          /\ \A q \in Clients : client'[q] = "read" => client[q] = "read"
      BY <3>1 DEF SocketInv, SocketType
    <3> QED
      BY <3>1, <3>2, SocketQuiet DEF SocketInv, SocketType
  <2>3. CASE Sockets!Die(p) /\ UNCHANGED <<byte, typed>>
    BY <1>5, <2>3, SocketDie DEF Sockets!Copy
  <2> QED
    BY <1>5, <2>1, <2>2, <2>3 DEF Sockets!Copy
<1>6. ASSUME NEW p \in Clients, Sockets!KillClient(p) PROVE SocketInv'
  BY <1>6, SocketDie DEF Sockets!KillClient
<1> QED
  BY <1>1, <1>2, <1>3, <1>4, <1>5, <1>6, SocketAccept, SocketScan, SocketScanEnds,
     SocketKillServer
  DEF Sockets!Next, Sockets!ServerStep

-----------------------------------------------------------------------------
(* print500000.c: the handler marks, the report prints. *)

\* Every variable has its type, and the body of a loop has a turn.
SignalType ==
  /\ loop \in {"start", "print", "report", "ended", "dead"}
  /\ s_at \in {"for", "test", "body", "step"}
  /\ s_i \in Nat
  /\ called \in SUBSET Handlers!Turns /\ marked \in SUBSET called
  /\ pending \in BOOLEAN /\ s_sent \in Nat /\ overrun \in BOOLEAN
  /\ reported \in Seq(Handlers!Turns)
  /\ s_at \in {"body", "step"} => s_i \in Handlers!Turns
  /\ loop \in {"start", "ended"} => s_at = "for"

\* The turns the report has come past, the one it has just dealt with included.
Past(m) == m < s_i \/ (s_at = "step" /\ m = s_i)

\* The report has begun.
Reporting == loop = "report" /\ s_at # "for"

\* What is reported was interrupted; the report has left nothing out that was
\* marked where it has come past; and it goes upwards if no handler wrote behind
\* the array.
ReportInv ==
  /\ loop \in {"start", "print"} \/ (loop = "report" /\ s_at = "for") => reported = <<>>
  /\ \A n \in DOMAIN reported : reported[n] \in called
  /\ Reporting => \A m \in marked : Past(m) => \E n \in DOMAIN reported : reported[n] = m
  /\ loop = "ended" => \A m \in marked : \E n \in DOMAIN reported : reported[n] = m
  /\ ~overrun =>
       /\ \A m, n \in DOMAIN reported : m < n => reported[m] < reported[n]
       /\ Reporting => \A n \in DOMAIN reported : Past(reported[n])

\* The invariant of the program.
SignalInv == SignalType /\ ReportInv

\* Before the first loop.
LEMMA SignalInit == Handlers!ConstantsOK /\ Handlers!Init => SignalInv
<1> SUFFICES ASSUME Handlers!ConstantsOK, Handlers!Init PROVE SignalInv
  OBVIOUS
<1>1. <<>> \in Seq(Handlers!Turns)
  OBVIOUS
<1>2. SignalType
  BY <1>1 DEF Handlers!Init, SignalType
<1>3. ReportInv
  BY DEF Handlers!Init, ReportInv, Reporting
<1> QED
  BY <1>2, <1>3 DEF SignalInv

\* A step that leaves the loops alone.
LEMMA SignalQuiet ==
  ASSUME SignalInv, UNCHANGED <<s_at, s_i, called, marked, overrun, reported>>,
         pending' \in BOOLEAN, s_sent' \in Nat, loop' \in {loop, "print", "dead"},
         loop' # loop => loop = "start"
  PROVE  SignalInv'
<1>1. SignalType'
  BY DEF SignalInv, SignalType, Handlers!Turns
<1>2. ReportInv'
  BY DEF SignalInv, SignalType, ReportInv, Reporting, Past
<1> QED
  BY <1>1, <1>2 DEF SignalInv

\* There is a turn to interrupt.
LEMMA SizeIsPositive == Handlers!ConstantsOK => size \in Nat \ {0}
  BY DEF Handlers!ConstantsOK, Handlers!SizeAssumption

\* The handler marks the turn it interrupts, or writes behind the array.
LEMMA SignalHandler ==
  ASSUME Handlers!ConstantsOK, SignalInv, Handlers!sigint_handler
  PROVE  SignalInv'
<1>1. /\ loop \in {"print", "report"}
      /\ pending' = FALSE /\ UNCHANGED <<loop, s_at, s_sent, reported>>
  BY DEF Handlers!sigint_handler
<1>2. CASE s_i \in Handlers!Turns
  <2>1. /\ called' = called \cup {s_i} /\ UNCHANGED <<s_i, overrun>>
        /\ marked' = IF loop = "print" THEN marked \cup {s_i} ELSE marked
    BY <1>2 DEF Handlers!sigint_handler
  <2>2. SignalType'
    BY <1>1, <1>2, <2>1 DEF SignalInv, SignalType, Handlers!Turns
  <2>3. ReportInv'
    BY <1>1, <2>1 DEF SignalInv, ReportInv, Reporting, Past
  <2> QED
    BY <2>2, <2>3 DEF SignalInv
<1>3. CASE s_i \notin Handlers!Turns
  <2>1. s_i' \in {s_i, 1} /\ overrun' = TRUE /\ UNCHANGED <<called, marked>>
    BY <1>3 DEF Handlers!sigint_handler
  <2>2. s_at \notin {"body", "step"}
    BY <1>3 DEF SignalInv, SignalType
  <2>3. s_i' \in Nat /\ s_i' <= s_i
    <3>1. s_i \in Nat /\ s_i # 0
      BY <1>3, SizeIsPositive DEF SignalInv, SignalType, Handlers!Turns
    <3> QED
      BY <2>1, <3>1
  <2>4. SignalType'
    BY <1>1, <2>1, <2>2, <2>3 DEF SignalInv, SignalType, Handlers!Turns
  <2>5. ReportInv'
    <3>1. \A m \in marked : Past(m)' => Past(m)
      BY <1>1, <2>2, <2>3 DEF Past, SignalInv, SignalType, Handlers!Turns
    <3> QED
      BY <1>1, <2>1, <3>1 DEF SignalInv, ReportInv, Reporting
  <2> QED
    BY <2>4, <2>5 DEF SignalInv
<1> QED
  BY <1>2, <1>3

\* A loop starts at its first turn.
LEMMA SignalAssign ==
  ASSUME SignalInv, Handlers!Assign
  PROVE  SignalInv'
<1>1. SignalType'
  BY DEF Handlers!Assign, Handlers!First, SignalInv, SignalType, Handlers!Turns
<1>2. ReportInv'
  <2>1. \A m \in marked : ~Past(m)'
    BY DEF Handlers!Assign, Handlers!First, Past, SignalInv, SignalType, Handlers!Turns
  <2> QED
    BY <2>1 DEF Handlers!Assign, SignalInv, ReportInv, Reporting
<1> QED
  BY <1>1, <1>2 DEF SignalInv

\* A loop goes on, or the next begins.
LEMMA SignalTest ==
  ASSUME Handlers!ConstantsOK, SignalInv, Handlers!Test
  PROVE  SignalInv'
<1>1. /\ loop \in {"print", "report"} /\ s_at = "test"
      /\ UNCHANGED <<s_i, called, pending, s_sent, marked, overrun, reported>>
  BY DEF Handlers!Test
<1>2. CASE s_i < size
  <2>1. s_at' = "body" /\ loop' = loop
    BY <1>2 DEF Handlers!Test
  <2>2. SignalType'
    <3>1. s_i \in Handlers!Turns
      BY <1>2, SizeIsPositive DEF SignalInv, SignalType, Handlers!Turns
    <3> QED
      BY <1>1, <2>1, <3>1 DEF SignalInv, SignalType, Handlers!Turns
  <2>3. ReportInv'
    BY <1>1, <2>1 DEF SignalInv, ReportInv, Reporting, Past
  <2> QED
    BY <2>2, <2>3 DEF SignalInv
<1>3. CASE ~(s_i < size)
  <2>1. s_at' = "for" /\ loop' = IF loop = "print" THEN "report" ELSE "ended"
    BY <1>3 DEF Handlers!Test
  <2>2. SignalType'
    BY <1>1, <2>1 DEF SignalInv, SignalType, Handlers!Turns
  <2>3. \A m \in marked : Past(m)
    BY <1>3, SizeIsPositive DEF Past, SignalInv, SignalType, Handlers!Turns
  <2>4. ReportInv'
    BY <1>1, <2>1, <2>3 DEF SignalInv, ReportInv, Reporting
  <2> QED
    BY <2>2, <2>4 DEF SignalInv
<1> QED
  BY <1>2, <1>3

\* The second loop reports its turn when it is marked, the first reports nothing.
LEMMA SignalBody ==
  ASSUME SignalInv, Handlers!Body
  PROVE  SignalInv'
<1>1. /\ loop \in {"print", "report"} /\ s_at = "body" /\ s_at' = "step"
      /\ s_i \in Handlers!Turns
      /\ UNCHANGED <<loop, s_i, called, pending, s_sent, marked, overrun>>
  BY DEF Handlers!Body, SignalInv, SignalType
<1>2. CASE loop = "report" /\ s_i \in called
  <2>1. reported' = Append(reported, s_i) /\ reported \in Seq(Handlers!Turns)
    BY <1>2 DEF Handlers!Body, SignalInv, SignalType
  <2>2. /\ DOMAIN reported' = 1 .. Len(reported) + 1 /\ reported' \in Seq(Handlers!Turns)
        /\ DOMAIN reported = 1 .. Len(reported) /\ Len(reported) \in Nat
        /\ \A n \in DOMAIN reported : reported'[n] = reported[n] /\ n \in DOMAIN reported'
        /\ reported'[Len(reported) + 1] = s_i /\ Len(reported) + 1 \in DOMAIN reported'
        /\ \A n \in DOMAIN reported' : n \in DOMAIN reported \/ n = Len(reported) + 1
    BY <1>1, <2>1
  <2>3. SignalType'
    BY <1>1, <2>2 DEF SignalInv, SignalType
  <2>4. \A m \in Handlers!Turns : Past(m)' <=> m < s_i \/ m = s_i
    BY <1>1 DEF Past
  <2>5. \A m \in Handlers!Turns : Past(m) <=> m < s_i
    BY <1>1 DEF Past
  <2>6. \A n \in DOMAIN reported : reported[n] \in Handlers!Turns
    BY <2>1
  <2>7. \A n \in DOMAIN reported' : reported'[n] \in called
    BY <1>2, <2>2 DEF SignalInv, ReportInv
  <2>8. \A m \in marked : Past(m)' => \E n \in DOMAIN reported' : reported'[n] = m
    <3> SUFFICES ASSUME NEW m \in marked, m < s_i \/ m = s_i
                 PROVE  \E n \in DOMAIN reported' : reported'[n] = m
      BY <2>4 DEF SignalInv, SignalType
    <3>1. CASE m = s_i
      BY <2>2, <3>1
    <3>2. CASE m < s_i
      <4>1. Past(m) /\ Reporting
        BY <1>1, <1>2, <3>2 DEF Past, Reporting
      <4> QED
        BY <2>2, <4>1 DEF SignalInv, ReportInv
    <3> QED
      BY <3>1, <3>2
  <2>9. ASSUME ~overrun
        PROVE  /\ \A m, n \in DOMAIN reported' : m < n => reported'[m] < reported'[n]
               /\ \A n \in DOMAIN reported' : reported'[n] < s_i \/ reported'[n] = s_i
    <3>1. \A n \in DOMAIN reported : reported[n] < s_i
      BY <1>1, <1>2, <2>5, <2>6, <2>9 DEF SignalInv, ReportInv, Reporting
    <3>2. \A m, n \in DOMAIN reported : m < n => reported[m] < reported[n]
      BY <2>9 DEF SignalInv, ReportInv
    <3>3. \A m, n \in DOMAIN reported' : m < n => m \in DOMAIN reported
      BY <2>2
    <3>4. \A n \in DOMAIN reported' : reported'[n] < s_i \/ reported'[n] = s_i
      BY <2>2, <3>1
    <3>5. \A m, n \in DOMAIN reported' : m < n => reported'[m] < reported'[n]
      BY <2>2, <3>1, <3>2, <3>3
    <3> QED
      BY <3>4, <3>5
  <2>10. ReportInv'
    BY <1>1, <1>2, <2>7, <2>8, <2>9 DEF ReportInv, Reporting, Past
  <2> QED
    BY <2>3, <2>10 DEF SignalInv
<1>3. CASE ~(loop = "report" /\ s_i \in called)
  <2>1. reported' = reported
    BY <1>3 DEF Handlers!Body
  <2>2. SignalType'
    BY <1>1, <2>1 DEF SignalInv, SignalType, Handlers!Turns
  <2>3. loop = "report" => \A m \in marked : Past(m)' => Past(m)
    BY <1>1, <1>3 DEF Past, SignalInv, SignalType
  <2>4. \A m \in Handlers!Turns : Past(m) => Past(m)'
    BY <1>1 DEF Past
  <2>5. \A n \in DOMAIN reported : reported[n] \in Handlers!Turns
    BY DEF SignalInv, SignalType
  <2>6. ReportInv'
    BY <1>1, <2>1, <2>3, <2>4, <2>5 DEF SignalInv, ReportInv, Reporting
  <2> QED
    BY <2>2, <2>6 DEF SignalInv
<1> QED
  BY <1>2, <1>3

\* A loop takes its next turn.
LEMMA SignalStep ==
  ASSUME Handlers!ConstantsOK, SignalInv, Handlers!Step
  PROVE  SignalInv'
<1>1. /\ loop \in {"print", "report"} /\ s_at = "step" /\ s_i' = s_i + 1 /\ s_at' = "test"
      /\ s_i \in Nat
      /\ UNCHANGED <<loop, called, pending, s_sent, marked, overrun, reported>>
  BY DEF Handlers!Step, SignalInv, SignalType
<1>2. SignalType'
  BY <1>1 DEF SignalInv, SignalType, Handlers!Turns
<1>3. \A m \in Nat : Past(m)' <=> Past(m)
  BY <1>1 DEF Past
<1>4. \A m \in Handlers!Turns : m \in Nat
  BY SizeIsPositive DEF Handlers!Turns
<1>5. /\ \A n \in DOMAIN reported : reported[n] \in Handlers!Turns
      /\ marked \subseteq Handlers!Turns
  BY DEF SignalInv, SignalType
<1>6. ReportInv'
  BY <1>1, <1>3, <1>4, <1>5 DEF SignalInv, ReportInv, Reporting
<1> QED
  BY <1>2, <1>6 DEF SignalInv

\* Every step of main or of the handler preserves the invariant.
LEMMA SignalNext ==
  ASSUME Handlers!ConstantsOK, SignalInv, [Handlers!Next]_signalVars
  PROVE  SignalInv'
<1>1. CASE UNCHANGED signalVars
  BY <1>1, SignalQuiet DEF signalVars, SignalInv, SignalType
<1>2. CASE Handlers!Send
  BY <1>2, SignalQuiet DEF Handlers!Send, SignalInv, SignalType
<1>3. CASE Handlers!Terminate
  BY <1>3, SignalQuiet DEF Handlers!Terminate, SignalInv, SignalType
<1>4. CASE Handlers!Sigaction
  BY <1>4, SignalQuiet DEF Handlers!Sigaction, SignalInv, SignalType
<1> QED
  BY <1>1, <1>2, <1>3, <1>4, SignalHandler, SignalAssign, SignalTest, SignalBody,
     SignalStep
  DEF Handlers!Next, Handlers!Main

\* It implies what the run checks of the report.
LEMMA SignalReport ==
  ASSUME SignalInv
  PROVE  Handlers!ReportIsRight
<1>1. \A n \in DOMAIN reported : reported[n] \in called
  BY DEF SignalInv, ReportInv
<1>2. loop = "ended" => \A m \in marked : \E n \in DOMAIN reported : reported[n] = m
  BY DEF SignalInv, ReportInv
<1>3. overrun \/ \A m, n \in DOMAIN reported : m < n => reported[m] < reported[n]
  BY DEF SignalInv, ReportInv
<1> QED
  BY <1>1, <1>2, <1>3 DEF Handlers!ReportIsRight, Handlers!ToSet

-----------------------------------------------------------------------------
(* family_reader.c: a walk goes up from child to parent. *)

\* What task_struct pointers can lead to.
Processes == Families!Pids \cup {Families!swapper}

\* Every variable has its type; whoever has died was given to init.
FamilyType ==
  /\ \A q \in Families!Pids : real_parent[q] \in {family[q], Families!init}
  /\ usrpid \in Processes
  /\ r_pc \in [Writers -> {"idle", "find", "print", "up", "oops"}]
  /\ task \in [Writers -> Processes]
  /\ asked \in [Writers -> Processes]
  /\ logged \in [Writers -> Seq(Families!Pids)]
  /\ overtaken \in [Writers -> BOOLEAN]
  /\ strayed \in [Writers -> BOOLEAN]
  /\ \A w \in Writers : r_pc[w] \in {"print", "up"} => task[w] \in Families!Pids

\* The process logged last.
Top(log) == log[Len(log)]

\* A process is older than its children, and init than all.
Chained(log) ==
  /\ \A k \in 1 .. Len(log) - 1 : log[k + 1] \in {family[log[k]], Families!init}
  /\ \A j, k \in DOMAIN log : j < k => log[k] < log[j]

\* What a walk has come to.
Walk(w) ==
  /\ logged[w] # <<>> => overtaken[w] \/ logged[w][1] = asked[w]
  /\ r_pc[w] = "find" => logged[w] = <<>> /\ (overtaken[w] \/ usrpid = asked[w])
  /\ r_pc[w] = "print" => IF logged[w] = <<>> THEN overtaken[w] \/ task[w] = asked[w]
                        ELSE task[w] = family[Top(logged[w])]
  /\ r_pc[w] = "up" => logged[w] # <<>> /\ Top(logged[w]) = task[w]
  /\ r_pc[w] \in {"print", "up"} => \A k \in DOMAIN logged[w] : logged[w][k] # Families!init
  /\ r_pc[w] = "idle" /\ logged[w] # <<>> =>
       Top(logged[w]) = Families!init \/ family[Top(logged[w])] = Families!swapper

\* A walk that has not strayed is on its way up.
FamilyInv ==
  /\ FamilyType
  /\ \A w \in Writers : ~strayed[w] => Chained(logged[w]) /\ Walk(w)

\* A process has a greater number than its parent.
LEMMA Numbered ==
  ASSUME Families!ConstantsOK
  PROVE  /\ Families!Pids \subseteq Nat \ {0} /\ Families!init \in Families!Pids
         /\ Families!swapper \notin Families!Pids
         /\ \A p \in Families!Pids : family[p] \in Processes /\ family[p] < p
  BY DEF Families!ConstantsOK, Families!FamilyAssumption, Processes, Families!swapper

\* A log can grow by a parent of its last process, or by init.
LEMMA LogGrows ==
  ASSUME Families!ConstantsOK, NEW log \in Seq(Families!Pids), Chained(log),
         NEW p \in Families!Pids,
         \A k \in DOMAIN log : log[k] # Families!init,
         log # <<>> => p \in {family[Top(log)], Families!init}
  PROVE  /\ Append(log, p) \in Seq(Families!Pids) /\ Append(log, p) # <<>>
         /\ Top(Append(log, p)) = p /\ Chained(Append(log, p))
         /\ log # <<>> => Append(log, p)[1] = log[1]
         /\ log = <<>> => Append(log, p)[1] = p
         /\ p # Families!init =>
              \A k \in DOMAIN Append(log, p) : Append(log, p)[k] # Families!init
<1> DEFINE longer == Append(log, p)
           n == Len(log)
<1>1. /\ n \in Nat /\ Len(longer) = n + 1 /\ DOMAIN log = 1 .. n /\ DOMAIN longer = 1 .. n + 1
      /\ longer \in Seq(Families!Pids) /\ longer[n + 1] = p
      /\ \A k \in 1 .. n : longer[k] = log[k] /\ log[k] \in Families!Pids
      /\ log # <<>> <=> n # 0
  OBVIOUS
<1> HIDE DEF longer, n
<1>2. longer # <<>> /\ Top(longer) = p
  BY <1>1 DEF Top
<1>3. ASSUME NEW k \in 1 .. Len(longer) - 1
      PROVE  longer[k + 1] \in {family[longer[k]], Families!init}
  <2>1. CASE k = n
    BY <1>1, <2>1 DEF Top, n
  <2>2. CASE k # n
    <3>1. k \in 1 .. n - 1 /\ k + 1 \in 1 .. n
      BY <1>1, <2>2
    <3> QED
      BY <1>1, <3>1 DEF Chained, n
  <2> QED
    BY <2>1, <2>2
<1>4. n # 0 => p < log[n]
  BY <1>1, Numbered DEF Top, n, Families!init
<1>5. ASSUME NEW j \in DOMAIN longer, NEW k \in DOMAIN longer, j < k
      PROVE  longer[k] < longer[j]
  <2>1. j \in 1 .. n
    BY <1>1, <1>5
  <2>2. CASE k \in 1 .. n
    BY <1>1, <1>5, <2>1, <2>2 DEF Chained
  <2>3. CASE k = n + 1
    <3>1. j = n \/ (j < n /\ n \in 1 .. n)
      BY <1>1, <2>1
    <3>2. j = n \/ log[n] < log[j]
      BY <1>1, <2>1, <3>1 DEF Chained
    <3>3. p \in Nat /\ log[n] \in Nat /\ log[j] \in Nat
      BY <1>1, <2>1, Numbered
    <3> QED
      BY <1>1, <1>4, <2>1, <2>3, <3>2, <3>3
  <2> QED
    BY <1>1, <2>2, <2>3
<1>6. Chained(longer)
  BY <1>3, <1>5 DEF Chained
<1>7. /\ log # <<>> => longer[1] = log[1]
      /\ log = <<>> => longer[1] = p
      /\ p # Families!init => \A k \in DOMAIN longer : longer[k] # Families!init
  BY <1>1
<1> QED
  BY <1>1, <1>2, <1>6, <1>7 DEF longer

\* The walks of the other writers stay as they are.
LEMMA OthersWalk ==
  ASSUME FamilyInv, UNCHANGED usrpid, NEW w \in Writers, NEW v \in Writers, v # w,
         \/ r_pc' = r_pc
         \/ \E point : r_pc' = [r_pc EXCEPT ![w] = point],
         \/ task' = task
         \/ \E p : task' = [task EXCEPT ![w] = p],
         \/ logged' = logged
         \/ \E log : logged' = [logged EXCEPT ![w] = log],
         strayed' = strayed \/ strayed' = [strayed EXCEPT ![w] = TRUE],
         UNCHANGED <<asked, overtaken>>, ~strayed'[v]
  PROVE  Chained(logged'[v]) /\ Walk(v)'
<1>1. /\ r_pc'[v] = r_pc[v] /\ task'[v] = task[v] /\ logged'[v] = logged[v]
      /\ strayed'[v] = strayed[v]
      /\ asked'[v] = asked[v] /\ overtaken'[v] = overtaken[v] /\ usrpid' = usrpid
  BY DEF FamilyInv, FamilyType
<1>2. Chained(logged[v]) /\ Walk(v)
  BY <1>1 DEF FamilyInv
<1>3. Walk(v)'
  BY <1>1, <1>2 DEF Walk
<1> QED
  BY <1>1, <1>2, <1>3

\* Nothing but the parents of processes changes, or the module.
LEMMA FamilyQuiet ==
  ASSUME FamilyInv, UNCHANGED <<usrpid, r_pc, task, asked, logged, overtaken, strayed>>,
         \A q \in Families!Pids : real_parent'[q] \in {real_parent[q], Families!init}
  PROVE  FamilyInv'
<1>1. FamilyType'
  BY DEF FamilyInv, FamilyType, Processes
<1>2. ASSUME NEW w \in Writers, ~strayed'[w] PROVE Chained(logged'[w]) /\ Walk(w)'
  BY <1>2 DEF FamilyInv, Walk
<1> QED
  BY <1>1, <1>2 DEF FamilyInv

\* Somebody who stores his number overtakes those who have not looked theirs up yet.
LEMMA FamilyStore ==
  ASSUME FamilyInv, NEW w \in Writers, Families!Store(w)
  PROVE  FamilyInv'
<1>1. PICK n \in Processes : usrpid' = n /\ asked' = [asked EXCEPT ![w] = n]
  BY DEF Families!Store, Processes
<1>2. /\ r_pc' = [r_pc EXCEPT ![w] = "find"] /\ r_pc[w] = "idle"
      /\ logged' = [logged EXCEPT ![w] = <<>>]
      /\ overtaken' =
           [v \in Writers |-> IF v = w THEN FALSE ELSE overtaken[v] \/ r_pc[v] = "find"]
      /\ strayed' = [strayed EXCEPT ![w] = FALSE]
      /\ UNCHANGED <<real_parent, task>>
  BY DEF Families!Store, Families!Moves, Families!kernelVars
<1>3. FamilyType'
  <2>1. logged' \in [Writers -> Seq(Families!Pids)]
    <3>1. <<>> \in Seq(Families!Pids)
      OBVIOUS
    <3> QED
      BY <1>2, <3>1 DEF FamilyInv, FamilyType
  <2>2. r_pc' \in [Writers -> {"idle", "find", "print", "up", "oops"}]
    BY <1>2 DEF FamilyInv, FamilyType
  <2>3. overtaken' \in [Writers -> BOOLEAN] /\ strayed' \in [Writers -> BOOLEAN]
    BY <1>2, Zenon DEF FamilyInv, FamilyType
  <2>4. asked' \in [Writers -> Processes] /\ usrpid' \in Processes
    BY <1>1 DEF FamilyInv, FamilyType
  <2>5. \A v \in Writers : r_pc'[v] \in {"print", "up"} => r_pc[v] \in {"print", "up"}
    BY <1>2 DEF FamilyInv, FamilyType
  <2> QED
    BY <1>2, <2>1, <2>2, <2>3, <2>4, <2>5 DEF FamilyInv, FamilyType, Processes
<1>4. ASSUME NEW v \in Writers, ~strayed'[v] PROVE Chained(logged'[v]) /\ Walk(v)'
  <2>1. CASE v = w
    <3>1. logged'[w] = <<>> /\ r_pc'[w] = "find" /\ usrpid' = asked'[w]
      BY <1>1, <1>2 DEF FamilyInv, FamilyType
    <3>2. Chained(<<>>)
      BY DEF Chained
    <3> QED
      BY <2>1, <3>1, <3>2 DEF Walk
  <2>2. CASE v # w
    <3>1. /\ r_pc'[v] = r_pc[v] /\ task'[v] = task[v] /\ logged'[v] = logged[v]
          /\ asked'[v] = asked[v]
          /\ overtaken'[v] <=> overtaken[v] \/ r_pc[v] = "find"
          /\ ~strayed[v]
      BY <1>1, <1>2, <1>4, <2>2 DEF FamilyInv, FamilyType
    <3>2. Chained(logged[v]) /\ Walk(v)
      BY <3>1 DEF FamilyInv
    <3> QED
      BY <3>1, <3>2 DEF Walk
  <2> QED
    BY <2>1, <2>2
<1> QED
  BY <1>3, <1>4 DEF FamilyInv

\* A walk that ends in an oops has nothing to keep to.
LEMMA FamilyOops ==
  ASSUME FamilyInv, NEW w \in Writers, NEW from, Families!Oopses(w, from),
         UNCHANGED <<real_parent, usrpid, asked, overtaken>>
  PROVE  FamilyInv'
<1>1. /\ r_pc' = [r_pc EXCEPT ![w] = "oops"]
      /\ UNCHANGED <<task, logged, strayed>>
  BY DEF Families!Oopses, Families!Moves
<1>2. FamilyType'
  BY <1>1 DEF FamilyInv, FamilyType, Processes
<1>3. ASSUME ~strayed'[w] PROVE Chained(logged'[w]) /\ Walk(w)'
  <2>1. Chained(logged[w]) /\ Walk(w) /\ r_pc'[w] = "oops"
    BY <1>1, <1>3 DEF FamilyInv, FamilyType
  <2> QED
    BY <1>1, <2>1 DEF Walk
<1>4. ASSUME NEW v \in Writers, v # w, ~strayed'[v] PROVE Chained(logged'[v]) /\ Walk(v)'
  BY <1>1, <1>4, OthersWalk
<1> QED
  BY <1>2, <1>3, <1>4 DEF FamilyInv

\* The number that was stored is looked up.
LEMMA FamilyFind ==
  ASSUME FamilyInv, NEW w \in Writers, Families!Find(w)
  PROVE  FamilyInv'
<1>1. r_pc[w] = "find" /\ UNCHANGED <<real_parent, usrpid, asked, overtaken, logged, strayed>>
  BY DEF Families!Find, Families!Moves, Families!Oopses, Families!kernelVars
<1>2. CASE /\ Families!Hashed(usrpid) /\ r_pc' = [r_pc EXCEPT ![w] = "print"]
           /\ task' = [task EXCEPT ![w] = usrpid]
  <2>1. FamilyType'
    BY <1>1, <1>2 DEF FamilyInv, FamilyType, Families!Hashed, Processes
  <2>2. ASSUME ~strayed'[w] PROVE Chained(logged'[w]) /\ Walk(w)'
    <3>1. Chained(logged[w]) /\ Walk(w)
      BY <1>1, <2>2 DEF FamilyInv
    <3>2. r_pc'[w] = "print" /\ task'[w] = usrpid
      BY <1>2 DEF FamilyInv, FamilyType
    <3> QED
      BY <1>1, <3>1, <3>2 DEF Walk
  <2>3. ASSUME NEW v \in Writers, v # w, ~strayed'[v] PROVE Chained(logged'[v]) /\ Walk(v)'
    BY <1>1, <1>2, <2>3, OthersWalk
  <2> QED
    BY <2>1, <2>2, <2>3 DEF FamilyInv
<1>3. CASE Families!Oopses(w, "find")
  BY <1>1, <1>3, FamilyOops
<1> QED
  BY <1>1, <1>2, <1>3 DEF Families!Find, Families!Moves

\* A walk that meets a process that is gone strays, or oopses.
LEMMA FamilyStray ==
  ASSUME FamilyInv, NEW w \in Writers, Families!Stray(w)
  PROVE  FamilyInv'
<1>1. UNCHANGED <<real_parent, usrpid, asked, overtaken>>
  BY DEF Families!Stray, Families!kernelVars
<1>2. CASE Families!Oopses(w, "print") \/ Families!Oopses(w, "up")
  BY <1>1, <1>2, FamilyOops
<1>3. CASE ~(Families!Oopses(w, "print") \/ Families!Oopses(w, "up"))
  <2>1. PICK p \in Families!Pids : task' = [task EXCEPT ![w] = p]
    BY <1>3 DEF Families!Stray
  <2>2. strayed' = [strayed EXCEPT ![w] = TRUE] /\ UNCHANGED <<r_pc, logged>>
    BY <1>3 DEF Families!Stray
  <2>3. FamilyType'
    BY <1>1, <2>1, <2>2 DEF FamilyInv, FamilyType, Processes
  <2>4. strayed'[w]
    BY <2>2 DEF FamilyInv, FamilyType
  <2>5. ASSUME NEW v \in Writers, v # w, ~strayed'[v] PROVE Chained(logged'[v]) /\ Walk(v)'
    BY <1>1, <2>1, <2>2, <2>5, OthersWalk
  <2> QED
    BY <2>3, <2>4, <2>5 DEF FamilyInv
<1> QED
  BY <1>2, <1>3

\* The process at hand is logged.
LEMMA FamilyPrint ==
  ASSUME Families!ConstantsOK, FamilyInv, NEW w \in Writers, Families!PrintTask(w)
  PROVE  FamilyInv'
<1>1. PICK point : /\ r_pc[w] = "print" /\ r_pc' = [r_pc EXCEPT ![w] = point]
                   /\ point = IF task[w] = Families!init THEN "idle" ELSE "up"
  BY DEF Families!PrintTask, Families!Moves
<1>2. /\ logged' = [logged EXCEPT ![w] = Append(logged[w], task[w])]
      /\ UNCHANGED <<real_parent, usrpid, task, asked, overtaken, strayed>>
  BY DEF Families!PrintTask, Families!kernelVars
<1>3. task[w] \in Families!Pids /\ logged[w] \in Seq(Families!Pids)
  BY <1>1 DEF FamilyInv, FamilyType
<1>4. FamilyType'
  <2>1. Append(logged[w], task[w]) \in Seq(Families!Pids)
    BY <1>3
  <2> QED
    BY <1>1, <1>2, <1>3, <2>1 DEF FamilyInv, FamilyType, Processes
<1>5. ASSUME ~strayed'[w] PROVE Chained(logged'[w]) /\ Walk(w)'
  <2>1. Chained(logged[w]) /\ Walk(w)
    BY <1>2, <1>5 DEF FamilyInv
  <2>2. /\ \A k \in DOMAIN logged[w] : logged[w][k] # Families!init
        /\ logged[w] # <<>> => task[w] \in {family[Top(logged[w])], Families!init}
    BY <1>1, <2>1 DEF Walk
  <2>3. r_pc'[w] = point /\ logged'[w] = Append(logged[w], task[w])
    BY <1>1, <1>2 DEF FamilyInv, FamilyType
  <2>4. /\ logged'[w] # <<>> /\ Top(logged'[w]) = task[w] /\ Chained(logged'[w])
        /\ logged[w] # <<>> => logged'[w][1] = logged[w][1]
        /\ logged[w] = <<>> => logged'[w][1] = task[w]
        /\ task[w] # Families!init => \A k \in DOMAIN logged'[w] : logged'[w][k] # Families!init
    BY <1>3, <2>1, <2>2, <2>3, LogGrows
  <2>5. overtaken[w] \/ logged'[w][1] = asked[w]
    BY <1>1, <2>1, <2>4 DEF Walk
  <2>6. Walk(w)'
    BY <1>1, <1>2, <2>3, <2>4, <2>5 DEF Walk
  <2> QED
    BY <2>4, <2>6
<1>6. ASSUME NEW v \in Writers, v # w, ~strayed'[v] PROVE Chained(logged'[v]) /\ Walk(v)'
  BY <1>1, <1>2, <1>6, OthersWalk
<1> QED
  BY <1>4, <1>5, <1>6 DEF FamilyInv

\* The walk goes on to the parent, or ends at init.
LEMMA FamilyUp ==
  ASSUME Families!ConstantsOK, FamilyInv, NEW w \in Writers, Families!Up(w)
  PROVE  FamilyInv'
<1>1. PICK p : p = real_parent[task[w]]
  OBVIOUS
<1>2. PICK point :
        /\ r_pc[w] = "up" /\ r_pc' = [r_pc EXCEPT ![w] = point]
        /\ point = IF p \in {Families!init, Families!swapper} THEN "idle" ELSE "print"
  BY <1>1 DEF Families!Up, Families!Moves
<1>3. /\ task' = [task EXCEPT ![w] = p]
      /\ logged' =
           [logged EXCEPT ![w] = IF p = Families!init THEN Append(logged[w], p) ELSE logged[w]]
      /\ UNCHANGED <<real_parent, usrpid, asked, overtaken, strayed>>
  BY <1>1 DEF Families!Up, Families!Logged, Families!kernelVars
<1>4. task[w] \in Families!Pids /\ logged[w] \in Seq(Families!Pids)
  BY <1>2 DEF FamilyInv, FamilyType
<1>5. /\ p \in {family[task[w]], Families!init} /\ p \in Processes
      /\ Families!init \in Families!Pids
  BY <1>1, <1>4, Numbered DEF FamilyInv, FamilyType, Processes
<1>6. FamilyType'
  <2>1. Append(logged[w], Families!init) \in Seq(Families!Pids)
    BY <1>4, <1>5
  <2>2. point = "print" => p \in Families!Pids
    BY <1>2, <1>5 DEF Processes
  <2>3. logged' \in [Writers -> Seq(Families!Pids)]
    BY <1>3, <1>4, <2>1 DEF FamilyInv, FamilyType
  <2>4. /\ task' \in [Writers -> Processes]
        /\ r_pc' \in [Writers -> {"idle", "find", "print", "up", "oops"}]
    BY <1>2, <1>3, <1>5 DEF FamilyInv, FamilyType
  <2>5. \A v \in Writers : r_pc'[v] \in {"print", "up"} => task'[v] \in Families!Pids
    BY <1>2, <1>3, <2>2 DEF FamilyInv, FamilyType
  <2> QED
    BY <1>3, <2>3, <2>4, <2>5 DEF FamilyInv, FamilyType, Processes
<1>7. ASSUME ~strayed'[w] PROVE Chained(logged'[w]) /\ Walk(w)'
  <2>1. Chained(logged[w]) /\ Walk(w)
    BY <1>3, <1>7 DEF FamilyInv
  <2>2. /\ \A k \in DOMAIN logged[w] : logged[w][k] # Families!init
        /\ logged[w] # <<>> /\ Top(logged[w]) = task[w]
        /\ overtaken[w] \/ logged[w][1] = asked[w]
    BY <1>2, <2>1 DEF Walk
  <2>3. r_pc'[w] = point /\ task'[w] = p
    BY <1>2, <1>3 DEF FamilyInv, FamilyType
  <2>4. CASE p = Families!init
    <3>1. logged'[w] = Append(logged[w], Families!init) /\ point = "idle"
      BY <1>2, <1>3, <2>4 DEF FamilyInv, FamilyType
    <3>2. /\ logged'[w] # <<>> /\ Top(logged'[w]) = Families!init /\ Chained(logged'[w])
          /\ logged'[w][1] = logged[w][1]
      BY <1>4, <1>5, <2>1, <2>2, <3>1, LogGrows
    <3>3. Walk(w)'
      BY <1>3, <2>2, <2>3, <3>1, <3>2 DEF Walk
    <3> QED
      BY <3>2, <3>3
  <2>5. CASE p # Families!init
    <3>1. logged'[w] = logged[w] /\ p = family[task[w]]
      BY <1>3, <1>5, <2>5 DEF FamilyInv, FamilyType
    <3>2. point \in {"idle", "print"} /\ (point = "idle" => p = Families!swapper)
      BY <1>2, <2>5
    <3>3. Walk(w)'
      BY <1>3, <2>2, <2>3, <3>1, <3>2 DEF Walk
    <3> QED
      BY <2>1, <3>1, <3>3
  <2> QED
    BY <2>4, <2>5
<1>8. ASSUME NEW v \in Writers, v # w, ~strayed'[v] PROVE Chained(logged'[v]) /\ Walk(v)'
  BY <1>2, <1>3, <1>8, OthersWalk
<1> QED
  BY <1>6, <1>7, <1>8 DEF FamilyInv

\* Nobody has walked.
LEMMA FamilyInit == Families!ConstantsOK /\ Families!Init => FamilyInv
<1> SUFFICES ASSUME Families!ConstantsOK, Families!Init PROVE FamilyInv
  OBVIOUS
<1>1. FamilyType
  <2>1. <<>> \in Seq(Families!Pids)
    OBVIOUS
  <2> QED
    BY <2>1 DEF Families!Init, FamilyType, Processes, Families!swapper
<1>2. ASSUME NEW w \in Writers PROVE Chained(logged[w]) /\ Walk(w)
  BY DEF Families!Init, Chained, Walk
<1> QED
  BY <1>1, <1>2 DEF FamilyInv

\* Every step preserves the invariant.
LEMMA FamilyNext ==
  ASSUME Families!ConstantsOK, FamilyInv, [Families!Next]_familyVars
  PROVE  FamilyInv'
<1>1. CASE UNCHANGED familyVars
  BY <1>1, FamilyQuiet DEF familyVars, FamilyInv, FamilyType
<1>2. ASSUME NEW p \in Families!Pids, Families!Exit(p) \/ Families!Reap(p) PROVE FamilyInv'
  BY <1>2, FamilyQuiet DEF Families!Exit, Families!Reap
<1>3. CASE Families!example_exit \/ Families!Removed
  BY <1>3, FamilyQuiet DEF Families!example_exit, Families!Removed
<1> QED
  BY <1>1, <1>2, <1>3, FamilyStore, FamilyFind, FamilyStray, FamilyPrint, FamilyUp
  DEF Families!Next

\* It implies what the run checks of the log.
LEMMA FamilyAncestry ==
  ASSUME Families!ConstantsOK, FamilyInv
  PROVE  Families!Ancestry
<1> SUFFICES ASSUME NEW w \in Writers, r_pc[w] = "idle", logged[w] # <<>>, ~strayed[w]
             PROVE  /\ overtaken[w] \/ logged[w][1] = asked[w]
                    /\ \A k \in 1 .. Len(logged[w]) - 1 :
                         logged[w][k + 1] \in {family[logged[w][k]], Families!init}
                    /\ \/ Top(logged[w]) = Families!init
                       \/ family[Top(logged[w])] = Families!swapper
                    /\ Families!IsInjective(logged[w])
  BY DEF Families!Ancestry, Families!Ended, Top
<1>1. Chained(logged[w]) /\ Walk(w) /\ logged[w] \in Seq(Families!Pids)
  BY DEF FamilyInv, FamilyType
<1>2. ASSUME NEW j \in DOMAIN logged[w], NEW k \in DOMAIN logged[w], logged[w][j] = logged[w][k]
      PROVE  j = k
  <2>1. ~(j < k) /\ ~(k < j)
    <3>1. logged[w][j] \in Families!Pids /\ logged[w][k] \in Families!Pids
      BY <1>1
    <3>2. logged[w][j] \in Nat /\ logged[w][k] \in Nat
      BY <3>1, Numbered
    <3>3. ~(logged[w][k] < logged[w][j]) /\ ~(logged[w][j] < logged[w][k])
      BY <1>2, <3>2
    <3> QED
      BY <1>1, <3>3 DEF Chained
  <2>2. j \in Nat /\ k \in Nat
    BY <1>1
  <2> QED
    BY <2>1, <2>2
<1>3. Families!IsInjective(logged[w])
  BY <1>2 DEF Families!IsInjective
<1> QED
  BY <1>1, <1>3 DEF Chained, Walk

-----------------------------------------------------------------------------
(* The invariants in the composition, and the theorems. *)

\* Fifo in the composition.
LEMMA FifoAlways == Spec => []FifoInv
<1>1. Init => FifoInv
  BY InstancesOK, FifoInit DEF Init
<1>2. FifoInv /\ [Next]_vars => FifoInv'
  <2>1. [Next]_vars => [Fifos!Next]_fifoVars
    BY DEF Next, vars, fifoVars
  <2> QED
    BY <2>1, InstancesOK, FifoNext
<1> QED
  BY <1>1, <1>2, PTL DEF Spec

\* Pipe in the composition.
LEMMA PipeAlways == Spec => []PipeInv
<1>1. Init => PipeInv
  BY InstancesOK, PipeInit DEF Init
<1>2. PipeInv /\ [Next]_vars => PipeInv'
  <2>1. [Next]_vars => [Pipes!Next]_pipeVars
    BY DEF Next, vars, pipeVars
  <2> QED
    BY <2>1, InstancesOK, PipeNext
<1> QED
  BY <1>1, <1>2, PTL DEF Spec

\* LocalSocket in the composition.
LEMMA SocketAlways == Spec => []SocketInv
<1>1. Init => SocketInv
  BY InstancesOK, SocketInit DEF Init
<1>2. SocketInv /\ [Next]_vars => SocketInv'
  <2>1. [Next]_vars => [Sockets!Next]_socketVars
    BY DEF Next, vars, socketVars
  <2> QED
    BY <2>1, InstancesOK, SocketNext
<1> QED
  BY <1>1, <1>2, PTL DEF Spec

\* Signals in the composition.
LEMMA SignalAlways == Spec => []SignalInv
<1>1. Init => SignalInv
  BY InstancesOK, SignalInit DEF Init
<1>2. SignalInv /\ [Next]_vars => SignalInv'
  <2>1. [Next]_vars => [Handlers!Next]_signalVars
    BY DEF Next, vars, signalVars
  <2> QED
    BY <2>1, InstancesOK, SignalNext
<1> QED
  BY <1>1, <1>2, PTL DEF Spec

\* FamilyReader in the composition.
LEMMA FamilyAlways == Spec => []FamilyInv
<1>1. Init => FamilyInv
  BY InstancesOK, FamilyInit DEF Init
<1>2. FamilyInv /\ [Next]_vars => FamilyInv'
  <2>1. [Next]_vars => [Families!Next]_familyVars
    BY DEF Next, vars, familyVars
  <2> QED
    BY <2>1, InstancesOK, FamilyNext
<1> QED
  BY <1>1, <1>2, PTL DEF Spec

\* What goes into a FIFO, a pipe or a socket comes out once, in order, and at the
\* other end.  fifo_w and fifo_r print each other's lines in turn and the reader of
\* the pipe ends with the whole text, unless a process is killed or pipe or fork
\* fails; the server prints the digits of the clients in the order in which they
\* have connected, whoever is killed.
THEOREM Delivers == Spec => []InOrder
<1>1. FifoInv /\ PipeInv /\ SocketInv => InOrder
  BY InstancesOK, FifoInTurn, PipeDelivers DEF InOrder, SocketInv
<1> QED
  BY <1>1, FifoAlways, PipeAlways, SocketAlways, PTL

\* The report of print500000.c names turns the handler interrupted, all those it
\* marked, and each once unless the handler wrote behind the array.
THEOREM ReportsRight == Spec => []ReportIsRight
<1>1. SignalInv => ReportIsRight
  BY SignalReport DEF ReportIsRight
<1> QED
  BY <1>1, SignalAlways, PTL

\* What family_reader.c logs is a chain of parents from the process that was
\* asked for up to init or a child of swapper, each process once, unless the
\* writer was overtaken or a process died under it.
THEOREM LogsAncestors == Spec => []Ancestry
<1>1. FamilyInv => Ancestry
  BY InstancesOK, FamilyAncestry DEF Ancestry
<1> QED
  BY <1>1, FamilyAlways, PTL
=============================================================================
