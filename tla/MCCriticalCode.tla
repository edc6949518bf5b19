---------------------------- MODULE MCCriticalCode ----------------------------
(***************************************************************************)
(* Instances of CriticalCode: all tasks of DEFAULT_PRIO, or killers that   *)
(* are more urgent than the process.                                       *)
(***************************************************************************)
EXTENDS CriticalCode

AllTasks == {Main} \cup Threads \cup Killers
FirstTwo == {Main} \cup (Threads \cap {0})
EqualPrio == [t \in AllTasks |-> 90]
UrgentKiller == [t \in AllTasks |-> IF t \in Killers THEN 80 ELSE 90]
=============================================================================
