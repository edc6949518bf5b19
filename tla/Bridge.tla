-------------------------------- MODULE Bridge --------------------------------
(***************************************************************************)
(* CoreProc/processbridge.c: processes have functions called in the task   *)
(* of the firmware that may call them.  A call packs its arguments in one  *)
(* block of the heap, makes another one for the answer, sends a message    *)
(* with both and, if it is synchronized, waits at a semaphore in the       *)
(* second block.  Who frees the blocks depends on the kind of the call.    *)
(*                                                                         *)
(* The parties run in any order, so every choice of priorities is covered. *)
(* A caller may be killed between any two of its steps: a call is not      *)
(* critical code.  Arguments are abstracted to their number and the call   *)
(* that they belong to, a result to the arguments that the function got.   *)
(***************************************************************************)
EXTENDS Integers, FiniteSets, Sequences

CONSTANTS
  Callers,   \* the processes that call
  Blocks,    \* bound: addresses of the heap
  Functions, \* bound: the functions that are called
  MaxCalls,  \* bound: how many calls each caller makes
  MaxLost    \* bound: blocks that may be lost before a call is broken off once more

\* The functions that the library calls through the bridge, by the number of
\* their arguments: for messages, files, what is behind those in the source.
ShowFunctions == [sync : BOOLEAN, argc : {2}] \cup [sync : {TRUE}, argc : {0}]
FileFunctions == [sync : {TRUE}, argc : 2..5]
ObjectFunctions == [sync : {TRUE}, argc : {0, 1, 2, 3, 6, 7}]

Null == 0

ASSUME BridgeAssumption ==
  /\ Blocks \subseteq Nat \ {0}
  /\ Functions \subseteq ShowFunctions \cup FileFunctions \cup ObjectFunctions
  /\ {MaxCalls, MaxLost} \subseteq Nat

VARIABLES
  heap,     \* what each block holds
  pc,       \* where each caller is
  function, \* the function it calls
  args, info,  \* its pointers, Null where it has none or is done with it
  ret,      \* what its last call returned
  queue,    \* the messages to the bridge
  msg, pret,   \* of MopiBridgeMessenger: the message it is busy with, what the
               \* function returned
  step,     \* where it is
  made,     \* history: how many calls each caller began
  lost      \* history: the blocks of calls that were broken off

caller == <<pc, function, args, info, ret, made>>
bridge == <<msg, pret, step>>
vars == <<heap, caller, queue, bridge, lost>>

Free == [kind |-> "free"]
NoFunction == [sync |-> TRUE, argc |-> 0]
NoResult == [number |-> 0, argc |-> 0]
Other == [args |-> Null, info |-> Null]

Init ==
  /\ heap = [b \in Blocks |-> Free]
  /\ pc = [c \in Callers |-> "idle"] /\ function = [c \in Callers |-> NoFunction]
  /\ args = [c \in Callers |-> Null] /\ info = [c \in Callers |-> Null]
  /\ ret = [c \in Callers |-> NoResult]
  /\ queue = << >> /\ msg = Other /\ pret = NoResult /\ step = "receive"
  /\ made = [c \in Callers |-> 0]
  /\ lost = {}

Goto(c, from, to) == pc[c] = from /\ pc' = [pc EXCEPT ![c] = to]

\* malloc (bound: of the first free block, the one that is soonest used again;
\* the source does not provide for its failure)
Allocate(b, content) ==
  /\ heap[b] = Free /\ \A a \in Blocks : a < b => heap[a] # Free
  /\ heap' = [heap EXCEPT ![b] = content]

-----------------------------------------------------------------------------
\* SafeProcessRun in a process: pack_args,
pack_args(c) ==
  \E f \in Functions, b \in Blocks :
    /\ made[c] < MaxCalls
    /\ Goto(c, "idle", "info")
    /\ made' = [made EXCEPT ![c] = @ + 1]
    /\ function' = [function EXCEPT ![c] = f]
    /\ Allocate(b, [kind |-> "args", caller |-> c, number |-> made[c] + 1, argc |-> f.argc])
    /\ args' = [args EXCEPT ![c] = b]
    /\ UNCHANGED <<info, ret, queue, bridge, lost>>

ThreadInfo(c) ==
  [kind |-> "info", caller |-> c, number |-> made[c], sync |-> function[c].sync,
   ret |-> NoResult, count |-> 0, waits |-> FALSE]

\* BridgeMessageSend: the block for the answer, and its semaphore,
MakeInfo(c) ==
  \E b \in Blocks :
    /\ Goto(c, "info", "send")
    /\ Allocate(b, ThreadInfo(c))
    /\ info' = [info EXCEPT ![c] = b]
    /\ UNCHANGED <<function, args, ret, made, queue, bridge, lost>>

\* ... or only the former, which is freed again; the arguments are not.
MakeInfoFails(c) ==
  /\ function[c].sync /\ Cardinality(lost) < MaxLost
  /\ Goto(c, "info", "idle")
  /\ ret' = [ret EXCEPT ![c] = NoResult]
  /\ args' = [args EXCEPT ![c] = Null]
  /\ lost' = lost \cup {args[c]}
  /\ UNCHANGED <<heap, function, info, made, queue, bridge>>

Message(c) == [args |-> args[c], info |-> info[c]]

\* ... the message; an asynchronous call returns 0 and leaves both blocks to
\* the bridge,
Send(c) ==
  /\ queue' = Append(queue, Message(c))
  /\ \/ /\ function[c].sync
        /\ Goto(c, "send", "obtain")
        /\ UNCHANGED <<args, info, ret>>
     \/ /\ ~function[c].sync
        /\ Goto(c, "send", "idle")
        /\ args' = [args EXCEPT ![c] = Null] /\ info' = [info EXCEPT ![c] = Null]
        /\ ret' = [ret EXCEPT ![c] = NoResult]
  /\ UNCHANGED <<heap, function, made, bridge, lost>>

\* ... NU_Obtain_Semaphore,
Obtain(c) ==
  /\ pc[c] = "obtain"
  /\ \/ /\ heap[info[c]].count > 0
        /\ Goto(c, "obtain", "take")
        /\ heap' = [heap EXCEPT ![info[c]].count = @ - 1]
     \/ /\ heap[info[c]].count = 0
        /\ Goto(c, "obtain", "wait")
        /\ heap' = [heap EXCEPT ![info[c]].waits = TRUE]
  /\ UNCHANGED <<function, args, info, ret, made, queue, bridge, lost>>

\* ... the result,
TakeResult(c) ==
  /\ Goto(c, "take", "collect")
  /\ ret' = [ret EXCEPT ![c] = heap[info[c]].ret]
  /\ heap' = [heap EXCEPT ![info[c]] = Free]
  /\ info' = [info EXCEPT ![c] = Null]
  /\ UNCHANGED <<function, args, made, queue, bridge, lost>>

\* ... and the arguments.
Collect(c) ==
  /\ Goto(c, "collect", "idle")
  /\ heap' = [heap EXCEPT ![args[c]] = Free]
  /\ args' = [args EXCEPT ![c] = Null]
  /\ UNCHANGED <<function, info, ret, made, queue, bridge, lost>>

\* The caller is killed in its call: it drops out of the semaphore, and what
\* it has allocated stays.
Kill(c) ==
  /\ pc[c] # "idle" /\ Cardinality(lost) < MaxLost
  /\ pc' = [pc EXCEPT ![c] = "idle"]
  /\ heap' = IF pc[c] = "wait" THEN [heap EXCEPT ![info[c]].waits = FALSE] ELSE heap
  /\ lost' = lost \cup ({args[c], info[c]} \ {Null})
  /\ args' = [args EXCEPT ![c] = Null] /\ info' = [info EXCEPT ![c] = Null]
  /\ ret' = [ret EXCEPT ![c] = NoResult]
  /\ UNCHANGED <<function, made, queue, bridge>>

-----------------------------------------------------------------------------
\* Anybody may send the bridge a message of another kind (bound: to find it
\* without a message).
SendOther ==
  /\ queue = << >>
  /\ queue' = Append(queue, Other)
  /\ UNCHANGED <<heap, caller, bridge, lost>>

\* MopiBridgeMessenger: a message of another kind goes to the MMI.
Receive ==
  /\ step = "receive" /\ queue # << >>
  /\ queue' = Tail(queue)
  /\ msg' = Head(queue)
  /\ step' = IF msg' = Other THEN "receive" ELSE "run"
  /\ UNCHANGED <<heap, caller, pret, lost>>

\* Variant with a fault: one argument too few.
PassedShort(argc) == IF argc \in 7..9 THEN 6 ELSE argc

\* How many arguments a function gets: the cases of the switch.
Passed(argc) == IF argc \in 7..9 THEN 7 ELSE argc

Run ==
  LET a == heap[msg.args]
  IN  /\ step = "run"
      /\ step' = "answer"
      /\ pret' = IF a.argc <= 12 THEN [number |-> a.number, argc |-> Passed(a.argc)]
                 ELSE NoResult
      /\ UNCHANGED <<heap, caller, queue, msg, lost>>

\* The bridge is done with a message.
Done ==
  /\ step' = "receive" /\ msg' = Other /\ pret' = NoResult
  /\ UNCHANGED <<queue, function, args, info, ret, made, lost>>

\* Variant with a fault: the arguments of every call are freed.
AnswerFrees ==
  /\ step = "answer"
  /\ \/ /\ heap[msg.info].sync
        /\ heap' = [heap EXCEPT ![msg.info].ret = pret, ![msg.args] = Free]
        /\ step' = "release"
        /\ UNCHANGED <<caller, queue, msg, pret, lost>>
     \/ /\ ~heap[msg.info].sync
        /\ heap' = [heap EXCEPT ![msg.args] = Free, ![msg.info] = Free]
        /\ Done
        /\ UNCHANGED pc

Answer ==
  /\ step = "answer"
  /\ \/ /\ heap[msg.info].sync
        /\ heap' = [heap EXCEPT ![msg.info].ret = pret]
        /\ step' = "release"
        /\ UNCHANGED <<caller, queue, msg, pret, lost>>
     \/ /\ ~heap[msg.info].sync
        /\ heap' = [heap EXCEPT ![msg.args] = Free, ![msg.info] = Free]
        /\ Done
        /\ UNCHANGED pc

\* Variant with a fault: only who waits already is told.
ReleaseWaiting ==
  LET i == heap[msg.info]
  IN  /\ step = "release"
      /\ heap' = [heap EXCEPT ![msg.info].waits = FALSE]
      /\ pc' = IF i.waits THEN [pc EXCEPT ![i.caller] = "take"] ELSE pc
      /\ Done

\* NU_Release_Semaphore
Release ==
  LET i == heap[msg.info]
  IN  /\ step = "release"
      /\ \/ /\ i.waits
            /\ heap' = [heap EXCEPT ![msg.info].waits = FALSE]
            /\ pc' = [pc EXCEPT ![i.caller] = "take"]
         \/ /\ ~i.waits
            /\ heap' = [heap EXCEPT ![msg.info].count = @ + 1]
            /\ UNCHANGED pc
      /\ Done

MopiBridgeMessenger == Receive \/ Run \/ Answer \/ Release

BridgeMessageSend(c) ==
  MakeInfo(c) \/ MakeInfoFails(c) \/ Send(c) \/ Obtain(c) \/ TakeResult(c) \/ Collect(c)

Next ==
  \/ \E c \in Callers : pack_args(c) \/ BridgeMessageSend(c) \/ Kill(c)
  \/ SendOther
  \/ MopiBridgeMessenger

\* The task of the bridge is one of the firmware, more urgent than processes.
Spec == Init /\ [][Next]_vars /\ WF_vars(MopiBridgeMessenger)

-----------------------------------------------------------------------------
\* The messages that the bridge has still to answer
Pending == {m \in {queue[i] : i \in DOMAIN queue} \cup {msg} : m # Other}

\* The blocks of a caller, of a message of an asynchronous call
Holds(c) == {args[c], info[c]} \ {Null}
Carries(m) == IF heap[m.info].kind = "info" /\ ~heap[m.info].sync THEN {m.args, m.info} ELSE {}

\* Whatever the bridge still has to look at is there, and is of one call.
MessagesLive ==
  \A m \in Pending :
    /\ heap[m.args].kind = "args" /\ heap[m.info].kind = "info"
    /\ heap[m.args].caller = heap[m.info].caller
    /\ heap[m.args].number = heap[m.info].number

\* Each block that is not free has one owner, who will free it: its caller, a
\* message of an asynchronous call, or nobody if its call was broken off.
Owned == UNION ({Holds(c) : c \in Callers} \cup {Carries(m) : m \in Pending} \cup {lost})

OneOwner ==
  /\ {b \in Blocks : heap[b] # Free} = Owned
  /\ \A c \in Callers :
       /\ Holds(c) \cap lost = {}
       /\ \A d \in Callers \ {c} : Holds(c) \cap Holds(d) = {}
  /\ \A m \in Pending : Carries(m) \cap (lost \cup UNION {Holds(c) : c \in Callers}) = {}

\* BridgeMessageSend and MopiBridgeMessenger agree on who frees a block: none
\* is freed or used again under a message, though its caller be killed, none
\* is freed twice, and none leaks unless its call is broken off.
BlocksKept == MessagesLive /\ OneOwner

\* A synchronized call that gets to its end has been carried out, with all of
\* its arguments, and returns its own result.
OwnResult ==
  \A c \in Callers :
    pc[c] = "collect" => ret[c] = [number |-> made[c], argc |-> function[c].argc]

\* A caller that waits gets its answer, unless it is killed.
WaitEnds == \A c \in Callers : pc[c] = "wait" ~> pc[c] # "wait"
=============================================================================
