----------------------------- MODULE ByteStream -----------------------------
(***************************************************************************)
(* What a pipe promises: the bytes 1, 2, 3, ... that are sent arrive in    *)
(* that order, each once, and at most Capacity of them are on the way.  A  *)
(* stream may be started afresh.                                           *)
(***************************************************************************)
EXTENDS Naturals, Sequences

CONSTANT Capacity

VARIABLES
  sent,  \* how many bytes were sent
  got    \* the bytes that arrived

Start == sent = 0 /\ got = << >>

Send(n) ==
  /\ n <= Capacity - (sent - Len(got))
  /\ sent' = sent + n
  /\ UNCHANGED got

Receive(n) ==
  /\ n <= sent - Len(got)
  /\ got' = got \o [i \in 1..n |-> Len(got) + i]
  /\ UNCHANGED sent

Restart == sent' = 0 /\ got' = << >>

Spec ==
  Start /\ [][Restart \/ \E n \in 1..Capacity : Send(n) \/ Receive(n)]_<<sent, got>>
=============================================================================
