---------------------------- MODULE FamilyReader ----------------------------
(***************************************************************************)
(* family_reader.c of studio7: a module with a sysfs attribute.  Writing a *)
(* process number to it walks from that process up to init, and logs every *)
(* process on the way.                                                     *)
(*                                                                         *)
(* Writers that have opened the attribute separately run in usrpid_store   *)
(* at the same time, share usrpid, and take no lock while processes end    *)
(* around them.  A writer that oopses stays inside the attribute for ever. *)
(***************************************************************************)
EXTENDS Integers, Sequences, SequencesExt

CONSTANTS Writers,
          family   \* the parent of each process when the module is loaded

Pids == DOMAIN family
init == 1
swapper == 0

FamilyAssumption ==
  /\ Pids \subseteq Nat \ {swapper} /\ init \in Pids
  /\ \A p \in Pids : family[p] < p /\ family[p] \in Pids \cup {swapper}

\* What is assumed of the constants.
ConstantsOK == FamilyAssumption

VARIABLES
  module,      \* "live", "removing", "gone"
  real_parent, \* of each process
  state,       \* "live", "zombie", or "freed": its task_struct is gone
  usrpid,      \* the static variable all writers share
  pc,          \* where each writer is in usrpid_store; "idle" outside
  task,        \* what its local variables kpid and task point to
  asked,       \* history: the number it was given
  logged,      \* history: what it has printed since
  overtaken,   \* history: another writer has stored its number in between
  strayed      \* history: it has looked at a task_struct that was gone

vars == <<module, real_parent, state, usrpid, pc, task, asked, logged, overtaken, strayed>>
kernelVars == <<module, real_parent, state>>

\* The processes whose end matters: neither init nor a child of swapper.
Mortal == {p \in Pids : family[p] # swapper}

Init ==
  /\ module = "live"
  /\ real_parent = family
  /\ state = [p \in Pids |-> "live"]
  /\ usrpid = 0
  /\ pc = [w \in Writers |-> "idle"]
  /\ task = [w \in Writers |-> swapper]
  /\ asked = [w \in Writers |-> 0]
  /\ logged = [w \in Writers |-> <<>>]
  /\ overtaken = [w \in Writers |-> FALSE]
  /\ strayed = [w \in Writers |-> FALSE]

-----------------------------------------------------------------------------
(* Processes end, their children go to init, and somebody waits for them.   *)

Exit(p) ==
  /\ p \in Mortal /\ state[p] = "live"
  /\ state' = [state EXCEPT ![p] = "zombie"]
  /\ real_parent' = [q \in Pids |-> IF real_parent[q] = p THEN init ELSE real_parent[q]]
  /\ UNCHANGED <<module, usrpid, pc, task, asked, logged, overtaken, strayed>>

Reap(p) ==
  /\ p \in Mortal /\ state[p] = "zombie"
  /\ state' = [state EXCEPT ![p] = "freed"]
  /\ UNCHANGED <<module, real_parent, usrpid, pc, task, asked, logged, overtaken, strayed>>

-----------------------------------------------------------------------------
(* usrpid_store *)

Moves(w, from, to) == pc[w] = from /\ pc' = [pc EXCEPT ![w] = to]
Oopses(w, from) == Moves(w, from, "oops") /\ UNCHANGED <<task, logged, strayed>>

\* kstrtoint.  What it does not accept leaves usrpid alone and ends the call.
Store(w) ==
  /\ module = "live"
  /\ Moves(w, "idle", "find")
  /\ \E n \in Pids \cup {swapper} :
       usrpid' = n /\ asked' = [asked EXCEPT ![w] = n]
  /\ logged' = [logged EXCEPT ![w] = <<>>]
  /\ overtaken' = [v \in Writers |-> IF v = w THEN FALSE ELSE overtaken[v] \/ pc[v] = "find"]
  /\ strayed' = [strayed EXCEPT ![w] = FALSE]
  /\ UNCHANGED <<kernelVars, task>>

Hashed(p) == p \in Pids /\ state[p] # "freed"

\* find_vpid and pid_task return NULL for a number without a process, which IS_ERR
\* does not see; the first look at the task follows the null pointer.
Find(w) ==
  /\ \/ /\ Hashed(usrpid)
        /\ Moves(w, "find", "print")
        /\ task' = [task EXCEPT ![w] = usrpid]
        /\ UNCHANGED <<logged, strayed>>
     \/ ~Hashed(usrpid) /\ Oopses(w, "find")
  /\ UNCHANGED <<kernelVars, usrpid, asked, overtaken>>

Freed(w) == task[w] \in Pids /\ state[task[w]] = "freed"

\* The memory of a task_struct that is gone may be unmapped, may still hold what
\* it held, or belong to another process.
Stray(w) ==
  /\ Freed(w)
  /\ \/ Oopses(w, "print") \/ Oopses(w, "up")
     \/ /\ pc[w] \in {"print", "up"}
        /\ \E p \in Pids : task' = [task EXCEPT ![w] = p]
        /\ strayed' = [strayed EXCEPT ![w] = TRUE]
        /\ UNCHANGED <<pc, logged>>
  /\ UNCHANGED <<kernelVars, usrpid, asked, overtaken>>

\* The body of the loop up to the first break.
PrintTask(w) ==
  /\ ~Freed(w)
  /\ Moves(w, "print", IF task[w] = init THEN "idle" ELSE "up")
  /\ logged' = [logged EXCEPT ![w] = Append(@, task[w])]
  /\ UNCHANGED <<kernelVars, usrpid, task, asked, overtaken, strayed>>

\* Mutant: init is not printed on the way up.
LoggedButInit(w, p) == logged[w]
Logged(w, p) == IF p = init THEN Append(logged[w], p) ELSE logged[w]

\* task = task->real_parent, the second break, and the condition of the loop.
Up(w) ==
  /\ ~Freed(w)
  /\ LET p == real_parent[task[w]]
     IN  /\ Moves(w, "up", IF p \in {init, swapper} THEN "idle" ELSE "print")
         /\ task' = [task EXCEPT ![w] = p]
         /\ logged' = [logged EXCEPT ![w] = Logged(w, p)]
  /\ UNCHANGED <<kernelVars, usrpid, asked, overtaken, strayed>>

-----------------------------------------------------------------------------
\* kobject_put removes the attribute: it lets nobody in any more...
example_exit ==
  /\ module = "live"
  /\ module' = "removing"
  /\ UNCHANGED <<real_parent, state, usrpid, pc, task, asked, logged, overtaken, strayed>>

\* ...and waits for those inside.
Removed ==
  /\ module = "removing" /\ \A w \in Writers : pc[w] = "idle"
  /\ module' = "gone"
  /\ UNCHANGED <<real_parent, state, usrpid, pc, task, asked, logged, overtaken, strayed>>

Next ==
  \/ \E p \in Pids : Exit(p) \/ Reap(p)
  \/ \E w \in Writers : Store(w) \/ Find(w) \/ Stray(w) \/ PrintTask(w) \/ Up(w)
  \/ example_exit \/ Removed

Spec == Init /\ [][Next]_vars

-----------------------------------------------------------------------------
Ended(w) == pc[w] = "idle" /\ logged[w] # <<>> /\ ~strayed[w]

\* "reads a PID through the sysfs interface and prints that process' ancestry":
\* a call that has not strayed into freed memory has printed a chain of
\* parents, without a gap, up to init or to a child of swapper, whoever ended
\* on the way; and it starts where the call was told to unless another writer
\* came between.
Ancestry ==
  \A w \in Writers :
    Ended(w) =>
      /\ overtaken[w] \/ logged[w][1] = asked[w]
      /\ \A k \in 1 .. Len(logged[w]) - 1 :
           logged[w][k + 1] \in {family[logged[w][k]], init}
      /\ LET top == logged[w][Len(logged[w])] IN top = init \/ family[top] = swapper
      /\ IsInjective(logged[w])
=============================================================================
