----------------------------- MODULE MCCoreMutex -----------------------------
(***************************************************************************)
(* Instances of CoreMutex with tasks of the priority of the threads in     *)
(* tests/mutexes (95) and a main (90, libnucrt).                           *)
(***************************************************************************)
EXTENDS CoreMutex

CONSTANTS Main, Thread1, Thread2, Thread3

MainAndThreads == [t \in Tasks |-> IF t = Main THEN 90 ELSE 95]
=============================================================================
