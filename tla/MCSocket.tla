------------------------------- MODULE MCSocket -------------------------------
(***************************************************************************)
(* Instances of Socket: two processes of DEFAULT_PRIO.                     *)
(***************************************************************************)
EXTENDS Socket

CONSTANTS Process1, Process2

EqualPrio == [t \in Tasks |-> 90]
=============================================================================
