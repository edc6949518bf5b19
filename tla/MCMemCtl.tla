------------------------------- MODULE MCMemCtl -------------------------------
(***************************************************************************)
(* An instance of MemCtl: a main (90, libnucrt) and a thread (95, tests).  *)
(***************************************************************************)
EXTENDS MemCtl

CONSTANTS Thread

ASSUME MCMemCtlAssumption == Users = Tasks

MainAndThread == [t \in Tasks |-> IF t = Main THEN 90 ELSE 95]
=============================================================================
