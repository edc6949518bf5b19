------------------------------ MODULE MCProcess ------------------------------
(***************************************************************************)
(* Instances of Process: processes of one priority, or a child that is     *)
(* more urgent than the others, with a helper that runs when they sleep.   *)
(***************************************************************************)
EXTENDS Process

AllTasks == Pids \cup {Helper}
LazyHelper == [t \in AllTasks |-> IF t = Helper THEN 96 ELSE 94]
\* The priorities (90 and 94) of tests/proc
UrgentChild == [t \in AllTasks |-> CASE t = Helper -> 96 [] t = 1 -> 90 [] OTHER -> 94]
=============================================================================
