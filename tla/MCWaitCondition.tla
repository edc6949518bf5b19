--------------------------- MODULE MCWaitCondition ---------------------------
(***************************************************************************)
(* An instance of WaitCondition: threads of one priority (95) that use a   *)
(* condition in every way, and a more urgent task (90) that creates and    *)
(* destroys conditions and wakes one waiter at a time, as the helper       *)
(* process does when it runs the message handler of a socket.              *)
(***************************************************************************)
EXTENDS WaitCondition

CONSTANTS Helper, Thread1, Thread2, Thread3

UrgentHelper == [t \in Tasks |-> IF t = Helper THEN 90 ELSE 95]

HelperWakesOne ==
  [t \in Tasks |-> CASE t = Helper -> {"one"}
                     [] t = Thread1 -> {"one", "all", "reset"}
                     [] OTHER -> {}]
=============================================================================
