------------------------------- MODULE MCPipe -------------------------------
(***************************************************************************)
(* Instances of Pipe: a writer, a reader and a task that opens the pipe,   *)
(* waits on it and closes it, of one priority.                             *)
(***************************************************************************)
EXTENDS Pipe

CONSTANTS Writer, Reader, Owner

EqualPrio == [t \in Tasks |-> 100]
=============================================================================
