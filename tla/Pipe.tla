-------------------------------- MODULE Pipe --------------------------------
(***************************************************************************)
(* pipe.c and pipes.c of studio16: a process makes a pipe and forks, one   *)
(* of the two writes a few lines and the other prints what it reads up to  *)
(* the end of the file.  In pipe.c the child reads, in pipes.c the parent. *)
(*                                                                         *)
(* The text is shorter than a stdio buffer and than PIPE_BUF: one write,   *)
(* made by fclose, and one read carry all of it.  The stray text in line   *)
(* 41 of pipe.c, which no compiler accepts, is ignored.                    *)
(***************************************************************************)
EXTENDS Integers

CONSTANTS Programs,  \* the programs that may run
          Lines      \* the lines of the text (2 and 3 in the code)

ProgramsAssumption == Programs \subseteq {"pipe", "pipes"}
LinesAssumption == Lines \in Nat \ {0}

\* What is assumed of the constants.
ConstantsOK == ProgramsAssumption /\ LinesAssumption

VARIABLES
  program,   \* the program that runs
  at,        \* where each process is
  ends,      \* the ends of the pipe it has open
  content,   \* the lines in the pipe
  printed,   \* the lines the reader has got
  disturbed  \* history: a process was killed, or pipe or fork has failed

vars == <<program, at, ends, content, printed, disturbed>>

Processes == {"reader", "writer"}
Parent    == IF program = "pipe" THEN "writer" ELSE "reader"
Child     == IF program = "pipe" THEN "reader" ELSE "writer"
Over      == {"none", "ended", "dead"}

Holders(end) == {p \in Processes : end \in ends[p]}

\* A process that is over has no descriptors, and a pipe nobody holds is gone.
Finish(p, how) ==
  LET open == [ends EXCEPT ![p] = {}]
  IN  /\ at' = [at EXCEPT ![p] = how]
      /\ ends' = open
      /\ content' = IF \A q \in Processes : open[q] = {} THEN 0 ELSE content

Init ==
  /\ program \in Programs
  /\ at = [p \in Processes |-> IF p = Parent THEN "pipe" ELSE "none"]
  /\ ends = [p \in Processes |-> {}]
  /\ content = 0
  /\ printed = 0
  /\ disturbed = FALSE

-----------------------------------------------------------------------------
\* pipe.c gives up when pipe fails.  pipes.c does not look: fdopen of what the
\* stack holds returns NULL, and the first use of that crashes.
MakePipe ==
  /\ at[Parent] = "pipe"
  /\ \/ /\ ends' = [ends EXCEPT ![Parent] = {"read", "write"}]
        /\ at' = [at EXCEPT ![Parent] = "fork"]
        /\ UNCHANGED <<content, disturbed>>
     \/ /\ Finish(Parent, IF program = "pipe" THEN "ended" ELSE "dead")
        /\ disturbed' = TRUE
  /\ UNCHANGED <<program, printed>>

Fork ==
  /\ at[Parent] = "fork"
  /\ at' = [p \in Processes |-> "close"]
  /\ ends' = [p \in Processes |-> ends[Parent]]
  /\ UNCHANGED <<program, content, printed, disturbed>>

\* pipe.c gives up.  pipes.c takes -1 for a child's 0: its only process goes on
\* as the writer.
ForkFails ==
  /\ at[Parent] = "fork"
  /\ IF program = "pipe"
     THEN Finish(Parent, "ended")
     ELSE /\ at' = [at EXCEPT ![Parent] = "none", ![Child] = "close"]
          /\ ends' = [ends EXCEPT ![Parent] = {}, ![Child] = ends[Parent]]
          /\ UNCHANGED content
  /\ disturbed' = TRUE
  /\ UNCHANGED <<program, printed>>

\* Mutant: a process closes nothing before it starts.
NothingUnused(p) == {}
Unused(p) == IF p = "reader" THEN {"write"} ELSE {"read"}

CloseUnused(p) ==
  /\ at[p] = "close"
  /\ ends' = [ends EXCEPT ![p] = @ \ Unused(p)]
  /\ at' = [at EXCEPT ![p] = "stream"]
  /\ UNCHANGED <<program, content, printed, disturbed>>

\* fclose writes the buffer, which kills a writer nobody can read from...
Write ==
  /\ at["writer"] = "stream"
  /\ IF Holders("read") = {}
     THEN Finish("writer", "dead")
     ELSE /\ content' = Lines
          /\ at' = [at EXCEPT !["writer"] = "written"]
          /\ UNCHANGED ends
  /\ UNCHANGED <<program, printed, disturbed>>

\* ...and closes the descriptor.  The close after that, and exit, find nothing.
CloseWriter ==
  /\ at["writer"] = "written"
  /\ Finish("writer", "ended")
  /\ UNCHANGED <<program, printed, disturbed>>

\* A read waits while the pipe is empty and somebody, be it the reader itself,
\* may still write.
Read ==
  /\ at["reader"] = "stream" /\ content > 0
  /\ content' = 0
  /\ printed' = printed + content
  /\ UNCHANGED <<program, at, ends, disturbed>>

EndOfFile ==
  /\ at["reader"] = "stream" /\ content = 0 /\ Holders("write") = {}
  /\ Finish("reader", "ended")
  /\ UNCHANGED <<program, printed, disturbed>>

Kill(p) ==
  /\ at[p] \notin Over
  /\ Finish(p, "dead")
  /\ disturbed' = TRUE
  /\ UNCHANGED <<program, printed>>

-----------------------------------------------------------------------------
Step(p) ==
  \/ p = Parent /\ (MakePipe \/ Fork \/ ForkFails)
  \/ CloseUnused(p)
  \/ p = "writer" /\ (Write \/ CloseWriter)
  \/ p = "reader" /\ (Read \/ EndOfFile)

Next == \E p \in Processes : Step(p) \/ Kill(p)

Spec == Init /\ [][Next]_vars

\* Both processes are scheduled.
FairSpec == Spec /\ \A p \in Processes : WF_vars(Step(p))

-----------------------------------------------------------------------------
\* The reader gets the text once and, when both processes have ended, all of
\* it, though either may be the first to close, to write or to read; and the
\* writer is never killed for want of a reader unless something else went wrong.
Delivered ==
  /\ printed \in {0, Lines}
  /\ at["reader"] = "ended" /\ at["writer"] = "ended" => printed = Lines
  /\ at["writer"] = "dead" => disturbed

\* Whatever becomes of the writer, the reader meets the end of the file.
ReaderEnds == at["reader"] \in {"close", "stream"} ~> at["reader"] \in Over
=============================================================================
