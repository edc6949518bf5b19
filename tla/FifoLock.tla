------------------------------- MODULE FifoLock -------------------------------
(***************************************************************************)
(* What a CoreMutex promises: at most one holder, handed on by priority    *)
(* and then by age, never free while a task waits.  Destroying the mutex   *)
(* dismisses the waiters and leaves the holder in its critical section.    *)
(***************************************************************************)
EXTENDS Nucleus

VARIABLES
  holders,  \* the tasks inside: none or one
  queue     \* the tasks that wait, next first

vars == <<holders, queue>>

Init ==
  /\ holders = {}
  /\ queue = << >>

Acquire(t) ==
  /\ holders = {} /\ queue = << >>
  /\ holders' = {t}
  /\ UNCHANGED queue

Wait(t) ==
  /\ holders # {}
  /\ queue' = Enqueue(queue, t)
  /\ UNCHANGED holders

HandOver ==
  /\ holders # {} /\ queue # << >>
  /\ holders' = {Head(queue)}
  /\ queue' = Tail(queue)

Free ==
  /\ holders # {} /\ queue = << >>
  /\ holders' = {}
  /\ UNCHANGED queue

Dismiss ==
  /\ queue' = << >>
  /\ UNCHANGED holders

Next ==
  \/ \E t \in Tasks : Acquire(t) \/ Wait(t)
  \/ HandOver
  \/ Free
  \/ Dismiss

Spec == Init /\ [][Next]_vars
=============================================================================
