------------------------------- MODULE MCBridge -------------------------------
(***************************************************************************)
(* Instances of Bridge: the asynchronous function, and the one with most   *)
(* arguments.                                                              *)
(***************************************************************************)
EXTENDS Bridge

CONSTANTS Process1, Process2

AsyncShowAndMelody == {[sync |-> FALSE, argc |-> 2], [sync |-> TRUE, argc |-> 7]}
=============================================================================
