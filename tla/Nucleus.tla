------------------------------- MODULE Nucleus -------------------------------
(***************************************************************************)
(* The part of the Nucleus PLUS kernel that CoreProc relies on (external:  *)
(* the kernel itself is firmware).  Every task of the library is created   *)
(* with time_slice 0 and NU_PREEMPT, every semaphore with count 0 and      *)
(* NU_PRIORITY, so                                                         *)
(*   - a task gives the processor up to a task of its own priority only    *)
(*     where it suspends, sleeps or ends;                                  *)
(*   - a task of a more urgent priority takes the processor as soon as it  *)
(*     is ready, between any two instructions;                             *)
(*   - a semaphore is handed to the most urgent waiter, oldest first.      *)
(* A smaller number is a more urgent priority.                             *)
(***************************************************************************)
EXTENDS Naturals, Sequences

CONSTANTS
  Tasks,    \* the tasks that share the processor
  NoTask,   \* no task
  Prio      \* the priority a task was created with

ASSUME NucleusAssumption ==
  /\ NoTask \notin Tasks
  /\ Prio \in [Tasks -> Nat]

Levels == {Prio[t] : t \in Tasks}

(***************************************************************************)
(* cpu[p] is the task of priority p that has started to run and has not    *)
(* suspended since: it is the one resumed when nothing more urgent is      *)
(* ready.  NoTask lets any ready task of that priority be dispatched.      *)
(***************************************************************************)
IdleCpu == [p \in Levels |-> NoTask]

MayRun(t, ready, cpu) ==
  /\ t \in ready
  /\ cpu[Prio[t]] \in {t, NoTask}
  /\ \A u \in ready : Prio[t] <= Prio[u]

Occupy(t, cpu) == [cpu EXCEPT ![Prio[t]] = t]
GiveUp(t, cpu) == [cpu EXCEPT ![Prio[t]] = NoTask]

\* Task t is terminated or deleted by another task.
Evict(t, cpu) == IF cpu[Prio[t]] = t THEN GiveUp(t, cpu) ELSE cpu

(***************************************************************************)
(* NU_Obtain_Semaphore with NU_SUSPEND on a semaphore that is not free     *)
(* queues the task behind every waiter at least as urgent.                 *)
(***************************************************************************)
Behind(line, t) ==
  CHOOSE n \in 0..Len(line) :
    \A i \in 1..Len(line) : i <= n <=> Prio[line[i]] <= Prio[t]

Enqueue(line, t) ==
  LET n == Behind(line, t)
  IN  SubSeq(line, 1, n) \o <<t>> \o SubSeq(line, n + 1, Len(line))
=============================================================================
