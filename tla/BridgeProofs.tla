----------------------------- MODULE BridgeProofs -----------------------------
(***************************************************************************)
(* Proofs about Bridge, for any callers, functions of the library, heap    *)
(* and number of calls and kills.                                          *)
(***************************************************************************)
EXTENDS Bridge, SequenceTheorems, TLAPS

Results == [number : Nat, argc : Nat]
ArgsBlocks == [kind : {"args"}, caller : Callers, number : Nat, argc : 0..7]
InfoBlocks ==
  [kind : {"info"}, caller : Callers, number : Nat, sync : BOOLEAN, ret : Results,
   count : Nat, waits : BOOLEAN]
Messages == [args : Blocks, info : Blocks]

TypeOK ==
  /\ heap \in [Blocks -> {Free} \cup ArgsBlocks \cup InfoBlocks]
  /\ pc \in [Callers -> {"idle", "info", "send", "obtain", "wait", "take", "collect"}]
  /\ function \in [Callers -> [sync : BOOLEAN, argc : 0..7]]
  /\ args \in [Callers -> Blocks \cup {Null}] /\ info \in [Callers -> Blocks \cup {Null}]
  /\ ret \in [Callers -> Results]
  /\ queue \in Seq(Messages \cup {Other}) /\ msg \in Messages \cup {Other}
  /\ pret \in Results
  /\ step \in {"receive", "run", "answer", "release"}
  /\ made \in [Callers -> Nat]
  /\ lost \subseteq Blocks

\* What a function returns that got all the arguments of a block
ResultOf(a) == [number |-> a.number, argc |-> a.argc]
ResultDue(c) == [number |-> made[c], argc |-> function[c].argc]

\* What a caller holds at each point of its call
ArgsPoints == {"info", "send", "obtain", "wait", "take", "collect"}
InfoPoints == {"send", "obtain", "wait", "take"}
CallExact ==
  \A c \in Callers :
    /\ args[c] = Null <=> pc[c] \notin ArgsPoints
    /\ info[c] = Null <=> pc[c] \notin InfoPoints
    /\ pc[c] \in {"obtain", "wait", "take", "collect"} => function[c].sync

OwnArgs(c, a) == a \in ArgsBlocks /\ a.caller = c /\ ResultOf(a) = ResultDue(c)
OwnInfo(c, i) ==
  /\ i \in InfoBlocks
  /\ i.caller = c /\ i.number = made[c] /\ i.sync = function[c].sync
HeldExact ==
  \A c \in Callers :
    /\ args[c] # Null => OwnArgs(c, heap[args[c]])
    /\ info[c] # Null => OwnInfo(c, heap[info[c]])

\* A message is in the queue once, or it is the one in hand.
QueueOnce ==
  /\ \A i, j \in DOMAIN queue : queue[i] = queue[j] /\ queue[i] # Other => i = j
  /\ \A i \in DOMAIN queue : queue[i] = msg => msg = Other
  /\ msg = Other <=> step = "receive"

\* The two blocks of a message are those of its call, and no other message's.
\* Its caller, unless killed, has neither been answered nor gone further.
MessageExact ==
  \A m \in Pending :
    /\ heap[m.args] \in ArgsBlocks /\ heap[m.info] \in InfoBlocks
    /\ heap[m.args].caller = heap[m.info].caller
    /\ heap[m.args].number = heap[m.info].number
    /\ heap[m.info].count = 0
    /\ \A n \in Pending : m.args = n.args \/ m.info = n.info => m = n
    /\ \A c \in Callers :
         /\ info[c] = m.info => pc[c] \in {"obtain", "wait"}
         /\ info[c] = m.info <=> args[c] = m.args

\* Only a caller that is there waits at a semaphore.
WaitsExact ==
  \A b \in Blocks :
    heap[b] \in InfoBlocks /\ heap[b].waits =>
      pc[heap[b].caller] = "wait" /\ info[heap[b].caller] = b

\* The result, on its way from the function to the caller
ResultExact ==
  /\ step = "answer" => pret = ResultOf(heap[msg.args])
  /\ step = "release" =>
       heap[msg.info].sync /\ heap[msg.info].ret = ResultOf(heap[msg.args])
  /\ \A c \in Callers :
       /\ pc[c] = "send" => heap[info[c]].count = 0
       /\ pc[c] = "take" => heap[info[c]].ret = ResultDue(c)
       /\ pc[c] = "obtain" /\ heap[info[c]].count > 0 => heap[info[c]].ret = ResultDue(c)
       /\ pc[c] = "collect" => ret[c] = ResultDue(c)

\* Who will free a block: its caller, a message of an asynchronous call, or
\* nobody if the call was broken off
HeldBy(c, b) == args[c] = b \/ info[c] = b
CarriedBy(m, b) == ~heap[m.info].sync /\ (m.args = b \/ m.info = b)
AccountedAt(b) ==
  /\ heap[b] # Free <=>
       \/ \E c \in Callers : HeldBy(c, b)
       \/ \E m \in Pending : CarriedBy(m, b)
       \/ b \in lost
  /\ \A c \in Callers : HeldBy(c, b) => b \notin lost
  /\ \A c, d \in Callers : HeldBy(c, b) /\ HeldBy(d, b) => c = d
  /\ \A m \in Pending : CarriedBy(m, b) => b \notin lost
  /\ \A m \in Pending, c \in Callers : ~(CarriedBy(m, b) /\ HeldBy(c, b))
Accounted == \A b \in Blocks : AccountedAt(b)

IndInv ==
  /\ TypeOK /\ CallExact /\ HeldExact /\ QueueOnce /\ MessageExact /\ WaitsExact
  /\ ResultExact /\ Accounted

-----------------------------------------------------------------------------
\* Null is no block, a message has blocks, and a block that is free holds nothing.
LEMMA Values ==
  ASSUME BridgeAssumption
  PROVE  /\ Null \notin Blocks
         /\ Other \notin Messages
         /\ \A m \in Messages : m # Other /\ m.args \in Blocks /\ m.info \in Blocks
         /\ \A a \in ArgsBlocks \cup InfoBlocks : a # Free
         /\ \A i \in InfoBlocks : i \notin ArgsBlocks /\ i.kind = "info"
         /\ \A a \in ArgsBlocks : a \notin InfoBlocks /\ a.kind = "args"
         /\ Functions \subseteq [sync : BOOLEAN, argc : 0..7]
<1>1. Null \notin Blocks
  BY DEF BridgeAssumption, Null
<1>2. \A m \in Messages : m.args \in Blocks /\ m.info \in Blocks
  BY DEF Messages
<1>3. Other.args = Null
  BY DEF Other
<1>4. \A i \in InfoBlocks : i.kind = "info"
  BY DEF InfoBlocks
<1>5. \A a \in ArgsBlocks : a.kind = "args"
  BY DEF ArgsBlocks
<1>6. Free.kind = "free"
  BY DEF Free
<1>7. Functions \subseteq [sync : BOOLEAN, argc : 0..7]
  <2>1. {2} \subseteq 0..7 /\ {0} \subseteq 0..7 /\ 2..5 \subseteq 0..7
        /\ {0, 1, 2, 3, 6, 7} \subseteq 0..7
    OBVIOUS
  <2>2. ASSUME NEW f \in Functions PROVE f \in [sync : BOOLEAN, argc : 0..7]
    <3>1. f \in ShowFunctions \/ f \in FileFunctions \/ f \in ObjectFunctions
      BY DEF BridgeAssumption
    <3>2. QED
      BY <2>1, <3>1 DEF ShowFunctions, FileFunctions, ObjectFunctions
  <2>3. QED
    BY <2>2
<1>8. QED
  BY <1>1, <1>2, <1>3, <1>4, <1>5, <1>6, <1>7

\* The inductive invariant holds before the first call.
LEMMA InitEstablishes == ASSUME BridgeAssumption PROVE Init => IndInv
<1> SUFFICES ASSUME Init PROVE IndInv
  OBVIOUS
<1> USE DEF Init
<1>1. Pending = {}
  BY DEF Pending
<1>2. TypeOK
  BY DEF TypeOK, NoFunction, NoResult, Results, Null
<1>3. CallExact /\ HeldExact
  BY DEF CallExact, HeldExact, ArgsPoints, InfoPoints
<1>4. QueueOnce
  BY DEF QueueOnce
<1>5. MessageExact
  BY <1>1 DEF MessageExact
<1>6. WaitsExact /\ ResultExact
  BY Values DEF WaitsExact, ResultExact
<1>7. Accounted
  BY <1>1, Values DEF Accounted, AccountedAt, HeldBy, Null
<1>8. QED
  BY <1>2, <1>3, <1>4, <1>5, <1>6, <1>7 DEF IndInv

-----------------------------------------------------------------------------
\* How the steps that touch the queue change the set of pending messages.
LEMMA SendPending ==
  ASSUME TypeOK, NEW m, queue' = Append(queue, m), msg' = msg, m \in Messages \cup {Other}
  PROVE  Pending' = IF m = Other THEN Pending ELSE Pending \cup {m}
<1>1. /\ Append(queue, m) \in Seq(Messages \cup {Other})
      /\ DOMAIN Append(queue, m) = DOMAIN queue \cup {Len(queue) + 1}
      /\ \A i \in DOMAIN queue : Append(queue, m)[i] = queue[i]
      /\ Append(queue, m)[Len(queue) + 1] = m
  BY AppendProperties, LenProperties DEF TypeOK
<1>2. QED
  BY <1>1 DEF Pending

LEMMA ReceivePending ==
  ASSUME TypeOK, QueueOnce, Receive
  PROVE  Pending' = Pending /\ QueueOnce' /\ queue' \in Seq(Messages \cup {Other})
<1>1. /\ queue \in Seq(Messages \cup {Other}) /\ queue # << >> /\ msg = Other
      /\ queue' = Tail(queue) /\ msg' = Head(queue)
  BY DEF Receive, QueueOnce, TypeOK
<1>2. Len(queue) \in Nat /\ Len(queue) > 0 /\ DOMAIN queue = 1..Len(queue)
  BY <1>1, EmptySeq, LenProperties
<1>3. /\ Tail(queue) \in Seq(Messages \cup {Other})
      /\ Len(Tail(queue)) = Len(queue) - 1
      /\ \A i \in 1..Len(Tail(queue)) : Tail(queue)[i] = queue[i + 1]
  BY <1>1, HeadTailProperties
<1>4. /\ DOMAIN Tail(queue) = 1..(Len(queue) - 1) /\ Head(queue) = queue[1]
      /\ \A i \in 1..(Len(queue) - 1) : Tail(queue)[i] = queue[i + 1]
  BY <1>2, <1>3, LenProperties
<1>5. \A i \in DOMAIN queue : i = 1 \/ (i - 1 \in DOMAIN Tail(queue) /\ queue[i] = Tail(queue)[i - 1])
  BY <1>2, <1>4
<1>6. \A i \in DOMAIN Tail(queue) : i + 1 \in DOMAIN queue /\ i + 1 # 1 /\ Tail(queue)[i] = queue[i + 1]
  BY <1>2, <1>4
<1>7. 1 \in DOMAIN queue
  BY <1>2
<1>8. Pending' = Pending
  BY <1>1, <1>4, <1>5, <1>6, <1>7 DEF Pending
<1>9. QueueOnce'
  <2>1. ASSUME NEW i \in DOMAIN Tail(queue), NEW j \in DOMAIN Tail(queue),
               Tail(queue)[i] = Tail(queue)[j], Tail(queue)[i] # Other
        PROVE  i = j
    <3>1. i + 1 = j + 1
      BY <1>6, <2>1 DEF QueueOnce
    <3>2. QED
      BY <1>4, <3>1
  <2>2. ASSUME NEW i \in DOMAIN Tail(queue), Tail(queue)[i] = queue[1] PROVE queue[1] = Other
    BY <1>6, <1>7, <2>2 DEF QueueOnce
  <2>3. QED
    BY <1>1, <1>4, <2>1, <2>2 DEF QueueOnce, Receive
<1>10. QED
  BY <1>1, <1>3, <1>8, <1>9

\* The bridge is done with the message in hand.
LEMMA DonePending ==
  ASSUME TypeOK, QueueOnce, msg # Other, Done
  PROVE  Pending' = Pending \ {msg} /\ QueueOnce' /\ msg \in Pending
BY DEF Pending, QueueOnce, Done

\* The messages and the blocks behind them have the types one expects.
LEMMA PendingTyped ==
  ASSUME TypeOK
  PROVE  \A m \in Pending : m \in Messages /\ m.args \in Blocks /\ m.info \in Blocks
BY DEF TypeOK, Pending, Messages

-----------------------------------------------------------------------------
\* A step that writes the answer or the semaphore of a call keeps every block
\* what it is.
SameCall(i, j) ==
  i \in InfoBlocks /\ j \in InfoBlocks /\ i.caller = j.caller /\ i.number = j.number
    /\ i.sync = j.sync
BlocksStay == \A b \in Blocks : heap'[b] = heap[b] \/ SameCall(heap'[b], heap[b])

LEMMA WriteInfo ==
  ASSUME TypeOK, NEW b \in Blocks, heap[b] \in InfoBlocks,
         NEW i \in InfoBlocks, SameCall(i, heap[b]), heap' = [heap EXCEPT ![b] = i]
  PROVE  /\ heap' \in [Blocks -> {Free} \cup ArgsBlocks \cup InfoBlocks]
         /\ BlocksStay
         /\ heap'[b] = i /\ \A a \in Blocks \ {b} : heap'[a] = heap[a]
BY DEF TypeOK, BlocksStay

\* Such a step preserves who holds what, also if a message of a synchronized
\* call is done with.
LEMMA StayPreserves ==
  ASSUME BridgeAssumption, TypeOK, HeldExact, MessageExact, Accounted, BlocksStay,
         UNCHANGED <<function, args, info, made, lost>>,
         Pending' \subseteq Pending,
         \A m \in Pending \ Pending' : heap[m.info].sync
  PROVE  HeldExact' /\ Accounted'
<1>1. \A b \in Blocks : heap[b] = Free <=> heap'[b] = Free
  BY Values DEF BlocksStay, SameCall
<1>2. HeldExact'
  <2> SUFFICES ASSUME NEW c \in Callers
               PROVE  /\ args[c] # Null => OwnArgs(c, heap[args[c]])'
                      /\ info[c] # Null => OwnInfo(c, heap[info[c]])'
    BY DEF HeldExact
  <2>1. ASSUME args[c] # Null PROVE OwnArgs(c, heap[args[c]])'
    <3>1. args[c] \in Blocks /\ heap[args[c]] \in ArgsBlocks
      BY <2>1 DEF TypeOK, HeldExact, OwnArgs
    <3>2. heap'[args[c]] = heap[args[c]]
      BY <3>1, Values DEF BlocksStay, SameCall
    <3>3. QED
      BY <2>1, <3>2 DEF HeldExact, OwnArgs, ResultDue
  <2>2. ASSUME info[c] # Null PROVE OwnInfo(c, heap[info[c]])'
    <3>1. info[c] \in Blocks
      BY <2>2 DEF TypeOK
    <3>2. OwnInfo(c, heap[info[c]])
      BY <2>2 DEF HeldExact
    <3>3. heap'[info[c]] = heap[info[c]] \/ SameCall(heap'[info[c]], heap[info[c]])
      BY <3>1 DEF BlocksStay
    <3>4. QED
      BY <3>2, <3>3 DEF OwnInfo, SameCall
  <2>3. QED
    BY <2>1, <2>2
<1>3. \A m \in Pending : heap'[m.info].sync = heap[m.info].sync
  BY PendingTyped DEF BlocksStay, SameCall
<1>4. \A c \in Callers, b \in Blocks : HeldBy(c, b)' <=> HeldBy(c, b)
  BY DEF HeldBy
<1>5. \A m \in Pending, b \in Blocks : CarriedBy(m, b)' <=> CarriedBy(m, b)
  BY <1>3 DEF CarriedBy
<1>6. \A m \in Pending, b \in Blocks : CarriedBy(m, b) => m \in Pending'
  BY DEF CarriedBy
<1>7. Accounted'
  <2> SUFFICES ASSUME NEW b \in Blocks
               PROVE  AccountedAt(b)'
    BY DEF Accounted, AccountedAt
  <2>1. QED
    BY <1>1, <1>4, <1>5, <1>6 DEF Accounted, AccountedAt
<1>8. QED
  BY <1>2, <1>7

\* A step that leaves the blocks of the pending messages what they are, the
\* counts of their semaphores at 0, and their callers in their calls.
LEMMA MessagesStay ==
  ASSUME MessageExact, Pending' \subseteq Pending,
         \A m \in Pending' :
           /\ heap'[m.args] = heap[m.args]
           /\ heap'[m.info] = heap[m.info] \/ SameCall(heap'[m.info], heap[m.info])
           /\ heap'[m.info].count = 0
           /\ \A c \in Callers :
                /\ info'[c] = m.info => pc'[c] \in {"obtain", "wait"}
                /\ info'[c] = m.info <=> args'[c] = m.args
  PROVE  MessageExact'
<1> SUFFICES ASSUME NEW m \in Pending'
             PROVE  /\ heap'[m.args] \in ArgsBlocks /\ heap'[m.info] \in InfoBlocks
                    /\ heap'[m.args].caller = heap'[m.info].caller
                    /\ heap'[m.args].number = heap'[m.info].number
                    /\ \A n \in Pending' : m.args = n.args \/ m.info = n.info => m = n
  BY DEF MessageExact
<1>1. QED
  BY DEF MessageExact, SameCall

\* The message in hand is pending.
LEMMA InHand ==
  ASSUME TypeOK, QueueOnce, step # "receive"
  PROVE  msg \in Pending /\ msg \in Messages /\ msg.args \in Blocks /\ msg.info \in Blocks
BY PendingTyped DEF QueueOnce, Pending

\* The result stays on its way when its blocks, and its caller's, do.
LEMMA ResultStays ==
  ASSUME ResultExact, UNCHANGED <<msg, pret, step>>,
         step # "receive" => heap'[msg.args] = heap[msg.args] /\ heap'[msg.info] = heap[msg.info],
         \A c \in Callers :
           \/ /\ pc'[c] = pc[c] /\ info'[c] = info[c] /\ ret'[c] = ret[c]
              /\ info[c] # Null => heap'[info[c]] = heap[info[c]]
              /\ pc[c] \in InfoPoints => info[c] # Null
              /\ ResultDue(c)' = ResultDue(c)
           \/ /\ pc'[c] \notin {"obtain", "take", "collect"}
              /\ pc'[c] = "send" => heap'[info'[c]].count = 0
           \/ pc'[c] = "collect" /\ ret'[c] = ResultDue(c)'
  PROVE  ResultExact'
<1>1. /\ step' = "answer" => pret' = ResultOf(heap'[msg'.args])
      /\ step' = "release" =>
           heap'[msg'.info].sync /\ heap'[msg'.info].ret = ResultOf(heap'[msg'.args])
  BY DEF ResultExact
<1>2. ASSUME NEW c \in Callers
      PROVE  /\ pc'[c] = "send" => heap'[info'[c]].count = 0
             /\ pc'[c] = "take" => heap'[info'[c]].ret = ResultDue(c)'
             /\ pc'[c] = "obtain" /\ heap'[info'[c]].count > 0 => heap'[info'[c]].ret = ResultDue(c)'
             /\ pc'[c] = "collect" => ret'[c] = ResultDue(c)'
  BY DEF ResultExact, InfoPoints
<1>3. QED
  BY <1>1, <1>2 DEF ResultExact

\* A block given back by the only one who holds it.
LEMMA BlockFreed ==
  ASSUME BridgeAssumption, Accounted, UNCHANGED lost, Pending' = Pending,
         NEW c \in Callers, NEW b \in Blocks,
         heap \in [Blocks -> {Free} \cup ArgsBlocks \cup InfoBlocks],
         heap' = [heap EXCEPT ![b] = Free],
         HeldBy(c, b),
         \A m \in Pending : m.info # b /\ m.args # b /\ m.info \in Blocks,
         \A d \in Callers, a \in Blocks :
           HeldBy(d, a)' <=> HeldBy(d, a) /\ ~(d = c /\ a = b)
  PROVE  Accounted'
<1>1. ASSUME NEW m \in Pending, NEW a \in Blocks PROVE CarriedBy(m, a)' <=> CarriedBy(m, a)
  BY DEF CarriedBy
<1>2. \A m \in Pending : ~CarriedBy(m, b)
  BY DEF CarriedBy
<1>3. ASSUME NEW a \in Blocks
      PROVE  AccountedAt(a)'
  <2>1. CASE a = b
    BY <1>1, <1>2, <2>1 DEF Accounted, AccountedAt
  <2>2. CASE a # b
    <3>1. heap'[a] = heap[a]
      BY <2>2
    <3>2. \A d \in Callers : HeldBy(d, a)' <=> HeldBy(d, a)
      BY <2>2
    <3>3. QED
      BY <1>1, <3>1, <3>2 DEF Accounted, AccountedAt
  <2>3. QED
    BY <2>1, <2>2
<1>4. QED
  BY <1>3 DEF Accounted, AccountedAt

-----------------------------------------------------------------------------
\* Steps of a caller that read or write its own answer block.
LEMMA ObtainPreserves ==
  ASSUME BridgeAssumption, IndInv, NEW c \in Callers, Obtain(c)
  PROVE  IndInv'
<1> USE DEF IndInv
<1> DEFINE b == info[c]
<1>1. b \in Blocks /\ b # Null /\ heap[b] \in InfoBlocks /\ OwnInfo(c, heap[b]) /\ pc[c] = "obtain"
  BY Values DEF Obtain, TypeOK, CallExact, HeldExact, OwnInfo, InfoPoints
<1>2. PICK i :
        /\ heap' = [heap EXCEPT ![b] = i] /\ i \in InfoBlocks /\ SameCall(i, heap[b])
        /\ i.ret = heap[b].ret
        /\ \/ i.waits = heap[b].waits /\ heap[b].count > 0 /\ pc' = [pc EXCEPT ![c] = "take"]
           \/ i.waits /\ i.count = heap[b].count /\ heap[b].count = 0 /\ pc' = [pc EXCEPT ![c] = "wait"]
  <2>1. CASE heap[b].count > 0 /\ heap' = [heap EXCEPT ![b].count = @ - 1] /\ Goto(c, "obtain", "take")
    <3>1. [heap[b] EXCEPT !.count = @ - 1] \in InfoBlocks
      BY <1>1, <2>1 DEF InfoBlocks
    <3>2. QED
      BY <1>1, <2>1, <3>1 DEF SameCall, InfoBlocks, Goto
  <2>2. CASE heap[b].count = 0 /\ heap' = [heap EXCEPT ![b].waits = TRUE] /\ Goto(c, "obtain", "wait")
    <3>1. [heap[b] EXCEPT !.waits = TRUE] \in InfoBlocks
      BY <1>1 DEF InfoBlocks
    <3>2. QED
      BY <1>1, <2>2, <3>1 DEF SameCall, InfoBlocks, Goto
  <2>3. QED
    BY <2>1, <2>2 DEF Obtain
<1>3. /\ heap' \in [Blocks -> {Free} \cup ArgsBlocks \cup InfoBlocks]
      /\ BlocksStay
      /\ heap'[b] = i /\ \A a \in Blocks \ {b} : heap'[a] = heap[a]
  BY ONLY <1>1, <1>2, WriteInfo, TypeOK
<1>4. Pending' = Pending /\ UNCHANGED <<function, args, info, ret, made, queue, msg, pret, step, lost>>
  BY DEF Obtain, Pending, bridge
<1> HIDE DEF b
<1>5. TypeOK' /\ QueueOnce'
  BY <1>1, <1>2, <1>3, <1>4 DEF TypeOK, QueueOnce
<1>6. CallExact'
  BY <1>1, <1>2, <1>4 DEF TypeOK, CallExact, ArgsPoints, InfoPoints, OwnInfo
<1>7. HeldExact' /\ Accounted'
  BY <1>3, <1>4, StayPreserves
<1>8. \A d \in Callers : info[d] # Null => info[d] \in Blocks /\ (d # c => info[d] # b)
  BY <1>1 DEF TypeOK, Accounted, AccountedAt, HeldBy, b
<1>9. MessageExact'
  <2>1. ASSUME NEW m \in Pending
        PROVE  /\ heap'[m.args] = heap[m.args]
               /\ heap'[m.info] = heap[m.info] \/ SameCall(heap'[m.info], heap[m.info])
               /\ heap'[m.info].count = 0
    BY <1>1, <1>2, <1>3, PendingTyped, Values DEF MessageExact
  <2>2. ASSUME NEW m \in Pending, NEW d \in Callers
        PROVE  /\ info'[d] = m.info => pc'[d] \in {"obtain", "wait"}
               /\ info'[d] = m.info <=> args'[d] = m.args
    <3>1. /\ info[d] = m.info => pc[d] \in {"obtain", "wait"}
          /\ info[d] = m.info <=> args[d] = m.args
      BY DEF MessageExact
    <3>2. CASE d = c /\ info[c] = m.info
      <4>1. heap[b].count = 0
        BY <3>2 DEF MessageExact, b
      <4>2. pc'[c] = "wait"
        BY <1>1, <1>2, <4>1 DEF TypeOK
      <4>3. QED
        BY <1>4, <3>1, <3>2, <4>2
    <3>3. CASE ~(d = c /\ info[c] = m.info)
      BY <1>1, <1>2, <1>4, <3>1, <3>3 DEF TypeOK
    <3>4. QED
      BY <3>2, <3>3
  <2>3. QED
    BY <1>4, <2>1, <2>2, MessagesStay
<1>10. WaitsExact'
  <2> SUFFICES ASSUME NEW a \in Blocks, heap'[a] \in InfoBlocks, heap'[a].waits
               PROVE  pc'[heap'[a].caller] = "wait" /\ info[heap'[a].caller] = a
    BY <1>4 DEF WaitsExact
  <2>1. CASE a = b
    <3>1. heap'[a].caller = c /\ pc[c] = "obtain" /\ info[c] = a
      BY <1>1, <1>2, <1>3, <2>1 DEF OwnInfo, SameCall, b
    <3>2. ~heap[b].waits
      BY <1>1 DEF WaitsExact, OwnInfo, b
    <3>3. QED
      BY <1>2, <1>3, <2>1, <3>1, <3>2 DEF TypeOK
  <2>2. CASE a # b
    <3>1. heap'[a] = heap[a] /\ pc[heap[a].caller] = "wait" /\ info[heap[a].caller] = a
      BY <1>3, <2>2 DEF WaitsExact
    <3>2. heap[a].caller # c /\ heap[a].caller \in Callers
      BY <1>1, <3>1 DEF InfoBlocks
    <3>3. QED
      BY <1>2, <3>1, <3>2 DEF TypeOK
  <2>3. QED
    BY <2>1, <2>2
<1>11. ResultExact'
  <2>1. step # "receive" => heap'[msg.args] = heap[msg.args]
    BY <1>1, <1>3, InHand, Values DEF MessageExact
  <2>2. step = "release" => heap'[msg.info].sync = heap[msg.info].sync /\ heap'[msg.info].ret = heap[msg.info].ret
    BY <1>2, <1>3, InHand DEF SameCall
  <2>3. QED
    BY <1>1, <1>2, <1>3, <1>4, <1>8, <2>1, <2>2 DEF TypeOK, CallExact, InfoPoints, ResultExact,
       ResultDue, b
<1>12. QED
  BY <1>5, <1>6, <1>7, <1>9, <1>10, <1>11

LEMMA TakeResultPreserves ==
  ASSUME BridgeAssumption, IndInv, NEW c \in Callers, TakeResult(c)
  PROVE  IndInv'
<1> USE DEF IndInv
<1> DEFINE b == info[c]
<1>1. b \in Blocks /\ b # Null /\ heap[b] \in InfoBlocks /\ OwnInfo(c, heap[b]) /\ pc[c] = "take"
  BY Values DEF TakeResult, Goto, TypeOK, CallExact, HeldExact, OwnInfo, InfoPoints
<1>2. /\ heap' = [heap EXCEPT ![b] = Free] /\ pc' = [pc EXCEPT ![c] = "collect"]
      /\ ret' = [ret EXCEPT ![c] = heap[b].ret] /\ info' = [info EXCEPT ![c] = Null]
      /\ UNCHANGED <<function, args, made, queue, msg, pret, step, lost>>
  BY DEF TakeResult, Goto, bridge
<1>3. Pending' = Pending
  BY <1>2 DEF Pending
<1>4. \A m \in Pending : m.info # b /\ m.args # b /\ m.args \in Blocks /\ m.info \in Blocks
  BY <1>1, Values, PendingTyped DEF MessageExact
<1>5. heap[b].ret \in Results
  BY <1>1 DEF InfoBlocks
<1>6. TypeOK' /\ CallExact' /\ QueueOnce'
  BY <1>1, <1>2, <1>5 DEF TypeOK, CallExact, ArgsPoints, InfoPoints, QueueOnce
<1>7. \A d \in Callers : d # c => args[d] # b /\ info[d] # b
  BY <1>1 DEF Accounted, AccountedAt, HeldBy
<1>8. HeldExact'
  BY <1>1, <1>2, <1>7, Values DEF TypeOK, HeldExact, OwnArgs, OwnInfo, ResultDue
<1>9. MessageExact'
  <2>1. ASSUME NEW m \in Pending
        PROVE  /\ heap'[m.args] = heap[m.args] /\ heap'[m.info] = heap[m.info]
               /\ heap'[m.info].count = 0
    BY <1>2, <1>4 DEF TypeOK, MessageExact
  <2>2. ASSUME NEW m \in Pending, NEW d \in Callers
        PROVE  /\ info'[d] = m.info => pc'[d] \in {"obtain", "wait"}
               /\ info'[d] = m.info <=> args'[d] = m.args
    BY <1>1, <1>2, <1>4, Values DEF TypeOK, MessageExact
  <2>3. QED
    BY <1>3, <2>1, <2>2, MessagesStay
<1>10. WaitsExact'
  BY <1>1, <1>2, Values DEF TypeOK, WaitsExact, OwnInfo
<1>11. ResultExact'
  <2>1. step # "receive" => heap'[msg.args] = heap[msg.args] /\ heap'[msg.info] = heap[msg.info]
    BY <1>2, <1>4, InHand DEF TypeOK
  <2>2. ret'[c] = ResultDue(c) /\ pc'[c] = "collect"
    BY <1>1, <1>2 DEF TypeOK, ResultExact
  <2>3. \A d \in Callers \ {c} :
          /\ pc'[d] = pc[d] /\ info'[d] = info[d] /\ ret'[d] = ret[d]
          /\ info[d] # Null => heap'[info[d]] = heap[info[d]]
          /\ pc[d] \in InfoPoints => info[d] # Null
    BY <1>1, <1>2, <1>7 DEF TypeOK, CallExact
  <2>4. \A d \in Callers : ResultDue(d)' = ResultDue(d)
    BY <1>2 DEF ResultDue
  <2>5. QED
    BY <1>2, <2>1, <2>2, <2>3, <2>4, ResultStays
<1>12. Accounted'
  <2>1. \A d \in Callers, a \in Blocks : HeldBy(d, a)' <=> HeldBy(d, a) /\ ~(d = c /\ a = b)
    BY <1>1, <1>2, Values DEF TypeOK, HeldExact, OwnArgs, OwnInfo, HeldBy
  <2>2. HeldBy(c, b)
    BY DEF HeldBy
  <2>3. QED
    BY <1>1, <1>2, <1>3, <1>4, <2>1, <2>2, BlockFreed DEF TypeOK
<1>13. QED
  BY <1>6, <1>8, <1>9, <1>10, <1>11, <1>12

LEMMA CollectPreserves ==
  ASSUME BridgeAssumption, IndInv, NEW c \in Callers, Collect(c)
  PROVE  IndInv'
<1> USE DEF IndInv
<1> DEFINE b == args[c]
<1>1. b \in Blocks /\ b # Null /\ heap[b] \in ArgsBlocks /\ pc[c] = "collect" /\ info[c] = Null
  BY Values DEF Collect, Goto, TypeOK, CallExact, HeldExact, OwnArgs, ArgsPoints, InfoPoints
<1>2. /\ heap' = [heap EXCEPT ![b] = Free] /\ pc' = [pc EXCEPT ![c] = "idle"]
      /\ args' = [args EXCEPT ![c] = Null]
      /\ UNCHANGED <<function, info, ret, made, queue, msg, pret, step, lost>>
  BY DEF Collect, Goto, bridge
<1>3. Pending' = Pending
  BY <1>2 DEF Pending
<1>4. \A m \in Pending : m.info # b /\ m.args # b /\ m.args \in Blocks /\ m.info \in Blocks
  BY <1>1, Values, PendingTyped DEF MessageExact
<1>5. TypeOK' /\ CallExact' /\ QueueOnce'
  BY <1>1, <1>2 DEF TypeOK, CallExact, ArgsPoints, InfoPoints, QueueOnce
<1>6. \A d \in Callers : d # c => args[d] # b /\ info[d] # b
  BY <1>1 DEF Accounted, AccountedAt, HeldBy
<1>7. HeldExact'
  BY <1>1, <1>2, <1>6, Values DEF TypeOK, HeldExact, OwnArgs, OwnInfo, ResultDue
<1>8. MessageExact'
  <2>1. ASSUME NEW m \in Pending
        PROVE  /\ heap'[m.args] = heap[m.args] /\ heap'[m.info] = heap[m.info]
               /\ heap'[m.info].count = 0
    BY <1>2, <1>4 DEF TypeOK, MessageExact
  <2>2. ASSUME NEW m \in Pending, NEW d \in Callers
        PROVE  /\ info'[d] = m.info => pc'[d] \in {"obtain", "wait"}
               /\ info'[d] = m.info <=> args'[d] = m.args
    BY <1>1, <1>2, <1>4, Values DEF TypeOK, MessageExact
  <2>3. QED
    BY <1>3, <2>1, <2>2, MessagesStay
<1>9. ResultExact'
  <2>1. step # "receive" => heap'[msg.args] = heap[msg.args] /\ heap'[msg.info] = heap[msg.info]
    BY <1>2, <1>4, InHand DEF TypeOK
  <2>2. pc'[c] = "idle"
    BY <1>1, <1>2 DEF TypeOK
  <2>3. \A d \in Callers \ {c} :
          /\ pc'[d] = pc[d] /\ info'[d] = info[d] /\ ret'[d] = ret[d]
          /\ info[d] # Null => heap'[info[d]] = heap[info[d]]
          /\ pc[d] \in InfoPoints => info[d] # Null
    BY <1>1, <1>2, <1>6 DEF TypeOK, CallExact
  <2>4. \A d \in Callers : ResultDue(d)' = ResultDue(d)
    BY <1>2 DEF ResultDue
  <2>5. QED
    BY <1>2, <2>1, <2>2, <2>3, <2>4, ResultStays
<1>12. WaitsExact'
  BY <1>1, <1>2, Values DEF TypeOK, WaitsExact
<1>10. Accounted'
  <2>1. \A d \in Callers, a \in Blocks : HeldBy(d, a)' <=> HeldBy(d, a) /\ ~(d = c /\ a = b)
    BY <1>1, <1>2, Values DEF TypeOK, HeldExact, OwnArgs, OwnInfo, HeldBy
  <2>2. HeldBy(c, b)
    BY DEF HeldBy
  <2>3. QED
    BY <1>1, <1>2, <1>3, <1>4, <2>1, <2>2, BlockFreed DEF TypeOK
<1>11. QED
  BY <1>5, <1>7, <1>8, <1>9, <1>10, <1>12

\* Steps of a caller that make a block.
LEMMA BlockMade ==
  ASSUME BridgeAssumption, TypeOK, HeldExact, MessageExact, WaitsExact, Accounted,
         NEW b \in Blocks, NEW new \in ArgsBlocks \cup InfoBlocks, Allocate(b, new)
  PROVE  /\ heap' \in [Blocks -> {Free} \cup ArgsBlocks \cup InfoBlocks]
         /\ heap'[b] = new /\ \A a \in Blocks \ {b} : heap'[a] = heap[a]
         /\ b # Null /\ heap[b] = Free /\ b \notin lost
         /\ \A d \in Callers : args[d] # b /\ info[d] # b
         /\ \A m \in Pending : m.args # b /\ m.info # b
<1>1. heap[b] = Free /\ b # Null /\ heap' = [heap EXCEPT ![b] = new]
  BY Values DEF Allocate
<1>2. /\ heap' \in [Blocks -> {Free} \cup ArgsBlocks \cup InfoBlocks]
      /\ heap'[b] = new /\ \A a \in Blocks \ {b} : heap'[a] = heap[a]
  BY <1>1 DEF TypeOK
<1>3. b \notin lost /\ \A d \in Callers : args[d] # b /\ info[d] # b
  BY <1>1 DEF Accounted, AccountedAt, HeldBy
<1>4. \A m \in Pending : m.args # b /\ m.info # b
  BY <1>1, Values DEF MessageExact
<1>5. QED
  BY <1>1, <1>2, <1>3, <1>4

\* The new block is its maker's.
LEMMA MadeAccounted ==
  ASSUME BridgeAssumption, TypeOK, HeldExact, MessageExact, WaitsExact, Accounted,
         NEW b \in Blocks, NEW new \in ArgsBlocks \cup InfoBlocks, Allocate(b, new),
         UNCHANGED lost, Pending' = Pending, NEW c \in Callers,
         \A d \in Callers, a \in Blocks :
           HeldBy(d, a)' <=> HeldBy(d, a) \/ (d = c /\ a = b)
  PROVE  Accounted'
<1>1. /\ heap'[b] = new /\ \A a \in Blocks \ {b} : heap'[a] = heap[a]
      /\ b # Null /\ heap[b] = Free /\ b \notin lost
      /\ \A d \in Callers : ~HeldBy(d, b)
      /\ \A m \in Pending : m.args # b /\ m.info # b
  BY BlockMade DEF HeldBy
<1>2. \A m \in Pending, a \in Blocks : CarriedBy(m, a)' <=> CarriedBy(m, a)
  BY <1>1, PendingTyped DEF CarriedBy
<1>3. \A m \in Pending : ~CarriedBy(m, b)
  BY <1>1 DEF CarriedBy
<1>4. new # Free
  BY Values
<1>5. ASSUME NEW a \in Blocks
      PROVE  AccountedAt(a)'
  <2>1. CASE a = b
    BY <1>1, <1>2, <1>3, <1>4, <2>1 DEF AccountedAt
  <2>2. CASE a # b
    <3>1. heap'[a] = heap[a]
      BY <1>1, <2>2
    <3>2. \A d \in Callers : HeldBy(d, a)' <=> HeldBy(d, a)
      BY <2>2
    <3>3. QED
      BY <1>2, <3>1, <3>2 DEF Accounted, AccountedAt
  <2>3. QED
    BY <2>1, <2>2
<1>6. QED
  BY <1>5 DEF Accounted, AccountedAt

LEMMA pack_argsPreserves ==
  ASSUME BridgeAssumption, IndInv, NEW c \in Callers, pack_args(c)
  PROVE  IndInv'
<1> USE DEF IndInv
<1>1. PICK f \in Functions, b \in Blocks :
        /\ pc[c] = "idle" /\ pc' = [pc EXCEPT ![c] = "info"]
        /\ made' = [made EXCEPT ![c] = @ + 1]
        /\ function' = [function EXCEPT ![c] = f]
        /\ Allocate(b, [kind |-> "args", caller |-> c, number |-> made[c] + 1, argc |-> f.argc])
        /\ args' = [args EXCEPT ![c] = b]
        /\ UNCHANGED <<info, ret, queue, msg, pret, step, lost>>
  BY DEF pack_args, Goto, bridge
<1>0. PICK new : new = [kind |-> "args", caller |-> c, number |-> made[c] + 1, argc |-> f.argc]
  OBVIOUS
<1>2. f \in [sync : BOOLEAN, argc : 0..7]
  BY Values
<1>3. new \in ArgsBlocks /\ new \in ArgsBlocks \cup InfoBlocks
  BY <1>0, <1>2 DEF ArgsBlocks, TypeOK
<1>4. Allocate(b, new)
  BY <1>0, <1>1
<1>5. new.caller = c /\ ResultOf(new) = [number |-> made[c] + 1, argc |-> f.argc]
  BY <1>0 DEF ResultOf
<1>6. /\ heap' \in [Blocks -> {Free} \cup ArgsBlocks \cup InfoBlocks]
      /\ heap'[b] = new /\ \A a \in Blocks \ {b} : heap'[a] = heap[a]
      /\ b # Null /\ heap[b] = Free /\ b \notin lost
      /\ \A d \in Callers : args[d] # b /\ info[d] # b
      /\ \A m \in Pending : m.args # b /\ m.info # b
  BY <1>3, <1>4, BlockMade
<1>7. Pending' = Pending /\ args[c] = Null /\ info[c] = Null
  BY <1>1 DEF Pending, CallExact, ArgsPoints, InfoPoints
<1>8. TypeOK' /\ QueueOnce'
  BY <1>1, <1>2, <1>6 DEF TypeOK, QueueOnce
<1>9. CallExact'
  BY <1>1, <1>6 DEF TypeOK, CallExact, ArgsPoints, InfoPoints
<1>10. HeldExact'
  <2>1. OwnArgs(c, new)'
    BY <1>1, <1>3, <1>5 DEF TypeOK, OwnArgs, ResultDue
  <2>2. args'[c] = b /\ info'[c] = Null
    BY <1>1, <1>7 DEF TypeOK
  <2>3. ASSUME NEW d \in Callers, d # c
        PROVE  /\ args'[d] = args[d] /\ info'[d] = info[d]
               /\ ResultDue(d)' = ResultDue(d) /\ made'[d] = made[d] /\ function'[d] = function[d]
               /\ args[d] # Null => heap'[args[d]] = heap[args[d]]
               /\ info[d] # Null => heap'[info[d]] = heap[info[d]]
    BY <1>1, <1>6, <2>3 DEF TypeOK, ResultDue
  <2>4. QED
    BY <1>6, <2>1, <2>2, <2>3 DEF HeldExact, OwnArgs, OwnInfo
<1>11. MessageExact'
  <2>1. ASSUME NEW m \in Pending
        PROVE  /\ heap'[m.args] = heap[m.args] /\ heap'[m.info] = heap[m.info]
               /\ heap'[m.info].count = 0
    BY <1>6, PendingTyped DEF MessageExact
  <2>2. ASSUME NEW m \in Pending, NEW d \in Callers
        PROVE  /\ info'[d] = m.info => pc'[d] \in {"obtain", "wait"}
               /\ info'[d] = m.info <=> args'[d] = m.args
    BY <1>1, <1>6, <1>7, PendingTyped, Values DEF TypeOK, MessageExact
  <2>3. QED
    BY <1>7, <2>1, <2>2, MessagesStay
<1>12. WaitsExact'
  BY <1>1, <1>3, <1>6, Values DEF TypeOK, WaitsExact
<1>13. ResultExact'
  <2>1. step # "receive" => heap'[msg.args] = heap[msg.args] /\ heap'[msg.info] = heap[msg.info]
    BY <1>6, InHand
  <2>2. pc'[c] = "info"
    BY <1>1 DEF TypeOK
  <2>3. ASSUME NEW d \in Callers, d # c
        PROVE  /\ pc'[d] = pc[d] /\ info'[d] = info[d] /\ ret'[d] = ret[d]
               /\ info[d] # Null => heap'[info[d]] = heap[info[d]]
               /\ pc[d] \in InfoPoints => info[d] # Null
               /\ ResultDue(d)' = ResultDue(d)
    BY <1>1, <1>6, <2>3 DEF TypeOK, CallExact, ResultDue
  <2>4. QED
    BY <1>1, <2>1, <2>2, <2>3, ResultStays
<1>14. Accounted'
  <2>1. \A d \in Callers, a \in Blocks : HeldBy(d, a)' <=> HeldBy(d, a) \/ (d = c /\ a = b)
    BY <1>1, <1>7, Values DEF TypeOK, HeldBy
  <2>2. QED
    BY <1>1, <1>3, <1>4, <1>7, <2>1, MadeAccounted
<1>15. QED
  BY <1>8, <1>9, <1>10, <1>11, <1>12, <1>13, <1>14

LEMMA MakeInfoPreserves ==
  ASSUME BridgeAssumption, IndInv, NEW c \in Callers, MakeInfo(c)
  PROVE  IndInv'
<1> USE DEF IndInv
<1>0. PICK new : new = ThreadInfo(c)
  OBVIOUS
<1>1. PICK b \in Blocks :
        /\ pc[c] = "info" /\ pc' = [pc EXCEPT ![c] = "send"]
        /\ Allocate(b, new)
        /\ info' = [info EXCEPT ![c] = b]
        /\ UNCHANGED <<function, args, ret, made, queue, msg, pret, step, lost>>
  BY <1>0 DEF MakeInfo, Goto, bridge
<1>2. new \in InfoBlocks /\ new \in ArgsBlocks \cup InfoBlocks
  BY <1>0, <1>1 DEF InfoBlocks, ThreadInfo, TypeOK, Results, NoResult
<1>3. new.caller = c /\ new.number = made[c] /\ new.sync = function[c].sync /\ ~new.waits
  BY <1>0 DEF ThreadInfo
<1>4. /\ heap' \in [Blocks -> {Free} \cup ArgsBlocks \cup InfoBlocks]
      /\ heap'[b] = new /\ \A a \in Blocks \ {b} : heap'[a] = heap[a]
      /\ b # Null /\ heap[b] = Free /\ b \notin lost
      /\ \A d \in Callers : args[d] # b /\ info[d] # b
      /\ \A m \in Pending : m.args # b /\ m.info # b
  BY <1>1, <1>2, BlockMade
<1>5. Pending' = Pending /\ args[c] # Null /\ info[c] = Null
  BY <1>1 DEF Pending, CallExact, ArgsPoints, InfoPoints
<1>6. TypeOK' /\ QueueOnce'
  BY <1>1, <1>4 DEF TypeOK, QueueOnce
<1>7. CallExact'
  BY <1>1, <1>4 DEF TypeOK, CallExact, ArgsPoints, InfoPoints
<1>8. \A d \in Callers :
        /\ args'[d] = args[d] /\ (args[d] # Null => heap'[args[d]] = heap[args[d]])
        /\ d # c => info'[d] = info[d] /\ (info[d] # Null => heap'[info[d]] = heap[info[d]])
  BY <1>1, <1>4 DEF TypeOK
<1>9. info'[c] = b
  BY <1>1 DEF TypeOK
<1>10. HeldExact'
  <2>1. OwnInfo(c, heap[info[c]])'
    BY <1>1, <1>2, <1>3, <1>4, <1>9 DEF OwnInfo
  <2>2. QED
    BY <1>1, <1>8, <2>1 DEF HeldExact, OwnArgs, OwnInfo, ResultDue
<1>11. MessageExact'
  <2>1. ASSUME NEW m \in Pending
        PROVE  /\ heap'[m.args] = heap[m.args] /\ heap'[m.info] = heap[m.info]
               /\ heap'[m.info].count = 0
    BY <1>4, PendingTyped DEF MessageExact
  <2>2. ASSUME NEW m \in Pending, NEW d \in Callers
        PROVE  /\ info'[d] = m.info => pc'[d] \in {"obtain", "wait"}
               /\ info'[d] = m.info <=> args'[d] = m.args
    BY <1>1, <1>4, <1>5, PendingTyped, Values DEF TypeOK, MessageExact
  <2>3. QED
    BY <1>5, <2>1, <2>2, MessagesStay
<1>12. WaitsExact'
  BY <1>1, <1>3, <1>4, Values DEF TypeOK, WaitsExact
<1>13. ResultExact'
  <2>1. step # "receive" => heap'[msg.args] = heap[msg.args] /\ heap'[msg.info] = heap[msg.info]
    BY <1>4, InHand
  <2>2. pc'[c] = "send" /\ heap'[info'[c]].count = 0
    BY <1>0, <1>1, <1>4, <1>9 DEF TypeOK, ThreadInfo
  <2>3. ASSUME NEW d \in Callers, d # c
        PROVE  /\ pc'[d] = pc[d] /\ info'[d] = info[d] /\ ret'[d] = ret[d]
               /\ info[d] # Null => heap'[info[d]] = heap[info[d]]
               /\ pc[d] \in InfoPoints => info[d] # Null
               /\ ResultDue(d)' = ResultDue(d)
    BY <1>1, <1>8, <2>3 DEF TypeOK, CallExact, ResultDue
  <2>4. QED
    BY <1>1, <2>1, <2>2, <2>3, ResultStays
<1>14. Accounted'
  <2>1. \A d \in Callers, a \in Blocks : HeldBy(d, a)' <=> HeldBy(d, a) \/ (d = c /\ a = b)
    BY <1>1, <1>5, Values DEF TypeOK, HeldBy
  <2>2. QED
    BY <1>1, <1>2, <1>5, <2>1, MadeAccounted
<1>15. QED
  BY <1>6, <1>7, <1>10, <1>11, <1>12, <1>13, <1>14

-----------------------------------------------------------------------------
\* A call that is broken off, by a failure or by a kill, loses its blocks.
LEMMA BreakOffPreserves ==
  ASSUME BridgeAssumption, IndInv, NEW c \in Callers, BlocksStay,
         heap' \in [Blocks -> {Free} \cup ArgsBlocks \cup InfoBlocks],
         \A b \in Blocks :
            \/ heap'[b] = heap[b]
            \/ /\ b = info[c] /\ ~heap'[b].waits
               /\ heap'[b].count = heap[b].count /\ heap'[b].ret = heap[b].ret,
         pc[c] = "wait" => ~heap'[info[c]].waits,
         pc' = [pc EXCEPT ![c] = "idle"],
         args' = [args EXCEPT ![c] = Null], info' = [info EXCEPT ![c] = Null],
         ret' = [ret EXCEPT ![c] = NoResult],
         lost' = lost \cup ({args[c], info[c]} \ {Null}),
         UNCHANGED <<function, made, queue, msg, pret, step>>
  PROVE  IndInv'
<1> USE DEF IndInv
<1>1. Pending' = Pending
  BY DEF Pending
<1>2. TypeOK' /\ QueueOnce'
  <2>1. NoResult \in Results
    BY DEF Results, NoResult
  <2>2. lost' \subseteq Blocks
    <3>1. /\ args[c] \in Blocks \cup {Null} /\ info[c] \in Blocks \cup {Null}
          /\ lost \subseteq Blocks
      BY DEF TypeOK
    <3>2. QED
      BY <3>1
  <2>3. /\ pc' \in [Callers -> {"idle", "info", "send", "obtain", "wait", "take", "collect"}]
        /\ ret' \in [Callers -> Results]
    BY <2>1 DEF TypeOK
  <2>4. args' \in [Callers -> Blocks \cup {Null}] /\ info' \in [Callers -> Blocks \cup {Null}]
    BY DEF TypeOK
  <2>5. TypeOK'
    BY <2>2, <2>3, <2>4 DEF TypeOK
  <2>6. QED
    BY <2>5 DEF QueueOnce
<1>3. CallExact'
  BY DEF TypeOK, CallExact, ArgsPoints, InfoPoints
<1>4. \A d \in Callers \ {c} :
        /\ pc'[d] = pc[d] /\ args'[d] = args[d] /\ info'[d] = info[d] /\ ret'[d] = ret[d]
        /\ args[d] # Null => args[d] \in Blocks /\ args[d] # info[c]
        /\ info[d] # Null => info[d] \in Blocks /\ info[d] # info[c]
  <2>1. info[c] # Null => \A d \in Callers \ {c} : ~HeldBy(d, info[c])
    BY DEF TypeOK, Accounted, AccountedAt, HeldBy
  <2>2. QED
    BY <2>1 DEF TypeOK, HeldBy
<1>5. args'[c] = Null /\ info'[c] = Null /\ pc'[c] = "idle"
  BY DEF TypeOK
<1>6. \A d \in Callers \ {c} :
        /\ args[d] # Null => heap'[args[d]] = heap[args[d]]
        /\ info[d] # Null => heap'[info[d]] = heap[info[d]]
  BY <1>4
<1>7. HeldExact'
  BY <1>4, <1>5, <1>6 DEF HeldExact, OwnArgs, OwnInfo, ResultDue
<1>8. MessageExact'
  <2>1. ASSUME NEW m \in Pending
        PROVE  /\ heap'[m.args] = heap[m.args]
               /\ heap'[m.info] = heap[m.info] \/ SameCall(heap'[m.info], heap[m.info])
               /\ heap'[m.info].count = 0
    <3>1. m.args \in Blocks /\ m.info \in Blocks /\ heap[m.args] \in ArgsBlocks /\ heap[m.info].count = 0
      BY PendingTyped DEF MessageExact
    <3>2. heap'[m.args] = heap[m.args]
      BY <3>1, Values DEF BlocksStay, SameCall
    <3>3. QED
      BY <3>1, <3>2 DEF BlocksStay
  <2>2. ASSUME NEW m \in Pending, NEW d \in Callers
        PROVE  /\ info'[d] = m.info => pc'[d] \in {"obtain", "wait"}
               /\ info'[d] = m.info <=> args'[d] = m.args
    BY <1>4, <1>5, PendingTyped, Values DEF MessageExact
  <2>3. QED
    BY <1>1, <2>1, <2>2, MessagesStay
<1>9. WaitsExact'
  <2> SUFFICES ASSUME NEW b \in Blocks, heap'[b] \in InfoBlocks, heap'[b].waits
               PROVE  pc'[heap'[b].caller] = "wait" /\ info'[heap'[b].caller] = b
    BY DEF WaitsExact
  <2>1. heap'[b] = heap[b] /\ pc[heap[b].caller] = "wait" /\ info[heap[b].caller] = b
    BY DEF WaitsExact
  <2>2. heap[b].caller \in Callers /\ heap[b].caller # c
    BY <2>1 DEF InfoBlocks
  <2>3. QED
    BY <1>4, <2>1, <2>2
<1>10. ResultExact'
  <2>1. step # "receive" => heap'[msg.args] = heap[msg.args]
    BY InHand, Values DEF MessageExact, BlocksStay, SameCall
  <2>2. step = "release" => heap'[msg.info].sync = heap[msg.info].sync /\ heap'[msg.info].ret = heap[msg.info].ret
    BY InHand DEF BlocksStay, SameCall
  <2>3. ASSUME NEW d \in Callers, d # c
        PROVE  /\ pc'[d] = pc[d] /\ info'[d] = info[d] /\ ret'[d] = ret[d]
               /\ info[d] # Null => heap'[info[d]] = heap[info[d]]
               /\ pc[d] \in InfoPoints => info[d] # Null
    BY <1>4, <1>6, <2>3 DEF CallExact
  <2>4. QED
    BY <1>5, <2>1, <2>2, <2>3 DEF ResultExact, InfoPoints, ResultDue
<1>11. Accounted'
  <2>1. \A b \in Blocks : heap'[b] # Free <=> heap[b] # Free
    BY Values DEF BlocksStay, SameCall
  <2>2. \A m \in Pending, b \in Blocks : CarriedBy(m, b)' <=> CarriedBy(m, b)
    BY PendingTyped DEF BlocksStay, SameCall, CarriedBy
  <2>3. \A d \in Callers, b \in Blocks : HeldBy(d, b)' <=> HeldBy(d, b) /\ d # c
    BY <1>4, <1>5, Values DEF HeldBy
  <2>4. \A b \in Blocks : b \in lost' <=> b \in lost \/ HeldBy(c, b)
    BY Values DEF HeldBy
  <2>5. ASSUME NEW b \in Blocks
      PROVE  AccountedAt(b)'
    BY ONLY <1>1, <2>1, <2>2, <2>3, <2>4, Accounted DEF Accounted, AccountedAt
  <2>6. QED
    BY <2>5 DEF Accounted, AccountedAt
<1>12. QED
  BY <1>2, <1>3, <1>7, <1>8, <1>9, <1>10, <1>11

LEMMA MakeInfoFailsPreserves ==
  ASSUME BridgeAssumption, IndInv, NEW c \in Callers, MakeInfoFails(c)
  PROVE  IndInv'
<1>1. pc[c] = "info" /\ info[c] = Null /\ args[c] # Null
  BY DEF MakeInfoFails, Goto, IndInv, CallExact, ArgsPoints, InfoPoints
<1>2. /\ heap' = heap /\ pc' = [pc EXCEPT ![c] = "idle"]
      /\ args' = [args EXCEPT ![c] = Null] /\ ret' = [ret EXCEPT ![c] = NoResult]
      /\ lost' = lost \cup {args[c]}
      /\ UNCHANGED <<function, info, made, queue, msg, pret, step>>
  BY DEF MakeInfoFails, Goto, bridge
<1>3. info' = [info EXCEPT ![c] = Null]
  BY <1>1, <1>2 DEF IndInv, TypeOK
<1>4. lost' = lost \cup ({args[c], info[c]} \ {Null})
  BY <1>1, <1>2
<1>5. BlocksStay /\ heap' \in [Blocks -> {Free} \cup ArgsBlocks \cup InfoBlocks]
  BY <1>2 DEF BlocksStay, IndInv, TypeOK
<1>6. QED
  BY <1>1, <1>2, <1>3, <1>4, <1>5, BreakOffPreserves

LEMMA KillPreserves ==
  ASSUME BridgeAssumption, IndInv, NEW c \in Callers, Kill(c)
  PROVE  IndInv'
<1>1. /\ pc' = [pc EXCEPT ![c] = "idle"]
      /\ lost' = lost \cup ({args[c], info[c]} \ {Null})
      /\ args' = [args EXCEPT ![c] = Null] /\ info' = [info EXCEPT ![c] = Null]
      /\ ret' = [ret EXCEPT ![c] = NoResult]
      /\ UNCHANGED <<function, made, queue, msg, pret, step>>
  BY DEF Kill, bridge
<1>2. CASE pc[c] # "wait"
  <2>1. heap' = heap
    BY <1>2 DEF Kill
  <2>2. BlocksStay /\ heap' \in [Blocks -> {Free} \cup ArgsBlocks \cup InfoBlocks]
    BY <2>1 DEF BlocksStay, IndInv, TypeOK
  <2>3. QED
    BY <1>1, <1>2, <2>1, <2>2, BreakOffPreserves
<1>3. CASE pc[c] = "wait"
  <2>1. info[c] \in Blocks /\ heap[info[c]] \in InfoBlocks
    BY <1>3 DEF IndInv, TypeOK, CallExact, InfoPoints, HeldExact, OwnInfo
  <2>2. heap' = [heap EXCEPT ![info[c]].waits = FALSE]
    BY <1>3 DEF Kill
  <2>3. PICK i : i = [heap[info[c]] EXCEPT !.waits = FALSE]
    OBVIOUS
  <2>4. /\ i \in InfoBlocks /\ SameCall(i, heap[info[c]]) /\ ~i.waits
        /\ i.count = heap[info[c]].count /\ i.ret = heap[info[c]].ret
    BY <2>1, <2>3 DEF InfoBlocks, SameCall
  <2>5. heap' = [heap EXCEPT ![info[c]] = i]
    BY <2>2, <2>3
  <2>6. /\ heap' \in [Blocks -> {Free} \cup ArgsBlocks \cup InfoBlocks]
        /\ BlocksStay
        /\ heap'[info[c]] = i /\ \A a \in Blocks \ {info[c]} : heap'[a] = heap[a]
    BY <2>1, <2>4, <2>5, WriteInfo DEF IndInv
  <2>7. QED
    BY <1>1, <2>1, <2>4, <2>6, BreakOffPreserves
<1>4. QED
  BY <1>2, <1>3

-----------------------------------------------------------------------------
\* The message of a call
LEMMA SendPreserves ==
  ASSUME BridgeAssumption, IndInv, NEW c \in Callers, Send(c)
  PROVE  IndInv'
<1> USE DEF IndInv
<1>1. PICK m : m = Message(c)
  OBVIOUS
<1>2. /\ pc[c] = "send" /\ args[c] \in Blocks /\ info[c] \in Blocks
      /\ args[c] # Null /\ info[c] # Null
      /\ OwnArgs(c, heap[args[c]]) /\ OwnInfo(c, heap[info[c]])
      /\ queue' = Append(queue, m)
      /\ UNCHANGED <<heap, function, made, msg, pret, step, lost>>
  BY <1>1 DEF Send, Goto, CallExact, ArgsPoints, InfoPoints, HeldExact, TypeOK, bridge
<1>3. m \in Messages /\ m.args = args[c] /\ m.info = info[c] /\ m # Other
  BY <1>1, <1>2, Values DEF Message, Messages
<1>4. Pending' = Pending \cup {m}
  BY <1>2, <1>3, SendPending
<1>5. \A n \in Pending : n.args # args[c] /\ n.info # info[c]
  BY <1>2 DEF MessageExact
<1>6. QueueOnce' /\ queue' \in Seq(Messages \cup {Other})
  <2>1. /\ queue' \in Seq(Messages \cup {Other})
        /\ DOMAIN queue' = DOMAIN queue \cup {Len(queue) + 1}
        /\ \A i \in DOMAIN queue : queue'[i] = queue[i]
        /\ queue'[Len(queue) + 1] = m
    BY <1>2, <1>3, AppendProperties, LenProperties DEF TypeOK
  <2>2. m \notin Pending
    BY <1>3, <1>5
  <2>3. \A i \in DOMAIN queue : queue[i] # m
    BY <1>3, <2>2 DEF Pending
  <2>4. m # msg
    BY <1>3, <2>2 DEF Pending
  <2>5. QED
    BY <1>2, <1>3, <2>1, <2>3, <2>4 DEF QueueOnce
<1>7. \/ /\ function[c].sync /\ pc' = [pc EXCEPT ![c] = "obtain"]
         /\ UNCHANGED <<args, info, ret>>
      \/ /\ ~function[c].sync /\ pc' = [pc EXCEPT ![c] = "idle"]
         /\ args' = [args EXCEPT ![c] = Null] /\ info' = [info EXCEPT ![c] = Null]
         /\ ret' = [ret EXCEPT ![c] = NoResult]
  BY DEF Send, Goto
<1>8. CallExact' /\ TypeOK'
  <2>1. NoResult \in Results
    BY DEF Results, NoResult
  <2>2. CASE function[c].sync
    <3>1. /\ pc' = [pc EXCEPT ![c] = "obtain"] /\ UNCHANGED <<args, info, ret>>
      BY <1>7, <2>2
    <3>2. TypeOK'
      BY <1>2, <1>6, <3>1 DEF TypeOK
    <3>3. CallExact'
      BY <1>2, <2>2, <3>1 DEF TypeOK, CallExact, ArgsPoints, InfoPoints
    <3>4. QED
      BY <3>2, <3>3
  <2>3. CASE ~function[c].sync
    <3>1. /\ pc' = [pc EXCEPT ![c] = "idle"] /\ ret' = [ret EXCEPT ![c] = NoResult]
          /\ args' = [args EXCEPT ![c] = Null] /\ info' = [info EXCEPT ![c] = Null]
      BY <1>7, <2>3
    <3>2. TypeOK'
      BY <1>2, <1>6, <2>1, <3>1 DEF TypeOK
    <3>3. CallExact'
      BY <1>2, <3>1 DEF TypeOK, CallExact, ArgsPoints, InfoPoints
    <3>4. QED
      BY <3>2, <3>3
  <2>4. QED
    BY <2>2, <2>3
<1>9. \A d \in Callers \ {c} :
        /\ pc'[d] = pc[d] /\ args'[d] = args[d] /\ info'[d] = info[d] /\ ret'[d] = ret[d]
        /\ args[d] # args[c] /\ info[d] # info[c]
  <2>1. \A d \in Callers \ {c} : ~HeldBy(d, args[c]) /\ ~HeldBy(d, info[c])
    BY <1>2 DEF Accounted, AccountedAt, HeldBy
  <2>2. QED
    BY <1>7, <2>1 DEF TypeOK, HeldBy
<1>10. HeldExact'
  BY <1>2, <1>7, <1>9 DEF TypeOK, HeldExact, OwnArgs, OwnInfo, ResultDue
<1>11. MessageExact'
  <2>1. ASSUME NEW n \in Pending, NEW d \in Callers
        PROVE  /\ info'[d] = n.info => pc'[d] \in {"obtain", "wait"}
               /\ info'[d] = n.info <=> args'[d] = n.args
    <3>1. n.info # Null /\ n.args # Null
      BY PendingTyped, Values
    <3>2. CASE d = c
      BY <1>2, <1>5, <1>7, <3>1, <3>2 DEF TypeOK
    <3>3. CASE d # c
      BY <1>9, <3>3 DEF MessageExact
    <3>4. QED
      BY <3>2, <3>3
  <2>2. ASSUME NEW d \in Callers
        PROVE  /\ info'[d] = m.info => pc'[d] \in {"obtain", "wait"}
               /\ info'[d] = m.info <=> args'[d] = m.args
    <3>1. CASE d = c
      BY <1>2, <1>3, <1>7, <3>1 DEF TypeOK
    <3>2. CASE d # c
      BY <1>3, <1>9, <3>2
    <3>3. QED
      BY <3>1, <3>2
  <2>3. /\ heap[m.args] \in ArgsBlocks /\ heap[m.info] \in InfoBlocks
        /\ heap[m.args].caller = heap[m.info].caller
        /\ heap[m.args].number = heap[m.info].number
        /\ heap[m.info].count = 0
    BY <1>2, <1>3 DEF OwnArgs, OwnInfo, ResultOf, ResultDue, ResultExact
  <2>4. ASSUME NEW n \in Pending
        PROVE  n.args # m.args /\ n.info # m.info
    BY <1>3, <1>5
  <2>5. QED
    BY <1>2, <1>4, <2>1, <2>2, <2>3, <2>4 DEF MessageExact
<1>12. WaitsExact'
  <2>1. \A d \in Callers : pc[d] = "wait" => pc'[d] = "wait" /\ info'[d] = info[d]
    BY <1>2, <1>9
  <2>2. QED
    BY <1>2, <2>1 DEF WaitsExact, InfoBlocks
<1>13. ResultExact'
  <2>1. pc'[c] \notin {"send", "take", "collect"} /\ heap'[info[c]].count = 0
        /\ (pc'[c] = "obtain" => info'[c] = info[c])
    BY <1>2, <1>7 DEF TypeOK, ResultExact
  <2>2. \A d \in Callers : d # c =>
          /\ pc'[d] = pc[d] /\ info'[d] = info[d] /\ ret'[d] = ret[d]
          /\ ResultDue(d)' = ResultDue(d) /\ heap'[info[d]] = heap[info[d]]
    BY <1>2, <1>9 DEF ResultDue
  <2>3. ASSUME NEW d \in Callers
        PROVE  /\ pc'[d] = "send" => heap'[info'[d]].count = 0
               /\ pc'[d] = "take" => heap'[info'[d]].ret = ResultDue(d)'
               /\ pc'[d] = "obtain" /\ heap'[info'[d]].count > 0 =>
                    heap'[info'[d]].ret = ResultDue(d)'
               /\ pc'[d] = "collect" => ret'[d] = ResultDue(d)'
    <3>1. CASE d = c
      BY <2>1, <3>1
    <3>2. CASE d # c
      BY <2>2, <3>2 DEF ResultExact
    <3>3. QED
      BY <3>1, <3>2
  <2>4. QED
    BY <1>2, <2>3 DEF ResultExact
<1>14. Accounted'
  <2>1. \A n \in Pending, b \in Blocks : CarriedBy(n, b)' <=> CarriedBy(n, b)
    BY <1>2 DEF CarriedBy
  <2>2. \A b \in Blocks : CarriedBy(m, b)' <=> ~function[c].sync /\ HeldBy(c, b)
    BY <1>2, <1>3 DEF CarriedBy, OwnInfo, HeldBy
  <2>3. \A d \in Callers, b \in Blocks :
          HeldBy(d, b)' <=> HeldBy(d, b) /\ (d = c => function[c].sync)
    BY <1>7, <1>9, Values DEF TypeOK, HeldBy
  <2>4. ASSUME NEW b \in Blocks
      PROVE  AccountedAt(b)'
    <3>1. heap' = heap /\ lost' = lost
      BY <1>2
    <3>2. QED
      BY ONLY <1>4, <2>1, <2>2, <2>3, <3>1, Accounted DEF Accounted, AccountedAt
  <2>5. QED
    BY <2>4 DEF Accounted, AccountedAt
<1>15. QED
  BY <1>6, <1>8, <1>10, <1>11, <1>12, <1>13, <1>14

-----------------------------------------------------------------------------
\* A message of another kind comes and goes.
LEMMA OtherPreserves ==
  ASSUME BridgeAssumption, IndInv, Pending' = Pending, QueueOnce',
         queue' \in Seq(Messages \cup {Other}), msg' \in Messages \cup {Other},
         UNCHANGED <<msg, step>> \/ step' \in {"receive", "run"}, UNCHANGED <<heap, caller, pret, lost>>
  PROVE  IndInv'
<1> USE DEF IndInv, caller
<1>1. TypeOK' /\ CallExact' /\ HeldExact' /\ WaitsExact'
  BY DEF TypeOK, CallExact, HeldExact, OwnArgs, OwnInfo, ResultDue, WaitsExact
<1>2. MessageExact'
  BY DEF MessageExact
<1>3. ResultExact'
  BY DEF ResultExact, ResultDue
<1>4. Accounted'
  BY DEF Accounted, AccountedAt, HeldBy, CarriedBy
<1>5. QED
  BY <1>1, <1>2, <1>3, <1>4

LEMMA SendOtherPreserves ==
  ASSUME BridgeAssumption, IndInv, SendOther
  PROVE  IndInv'
<1>1. Pending' = Pending
  BY SendPending DEF SendOther, bridge, IndInv
<1>2. queue' = <<Other>> /\ queue' \in Seq(Messages \cup {Other}) /\ QueueOnce'
  BY DEF SendOther, bridge, IndInv, QueueOnce
<1>3. QED
  BY <1>1, <1>2, OtherPreserves DEF SendOther, bridge, IndInv, TypeOK

LEMMA ReceivePreserves ==
  ASSUME BridgeAssumption, IndInv, Receive
  PROVE  IndInv'
<1>1. Pending' = Pending /\ QueueOnce' /\ queue' \in Seq(Messages \cup {Other})
  BY ReceivePending DEF IndInv
<1>2. msg' \in Messages \cup {Other}
  BY HeadTailProperties DEF Receive, IndInv, TypeOK
<1>3. QED
  BY <1>1, <1>2, OtherPreserves DEF Receive

\* The function is called with all its arguments.
LEMMA RunPreserves ==
  ASSUME BridgeAssumption, IndInv, Run
  PROVE  IndInv'
<1> USE DEF IndInv
<1>1. Pending' = Pending /\ step = "run" /\ step' = "answer"
      /\ UNCHANGED <<heap, pc, function, args, info, ret, made, queue, msg, lost>>
  BY DEF Run, Pending, caller
<1>2. heap[msg.args] \in ArgsBlocks
  BY <1>1, InHand DEF MessageExact
<1>3. pret' = ResultOf(heap[msg.args]) /\ pret' \in Results
  BY <1>2 DEF Run, Passed, ResultOf, ArgsBlocks, Results
<1>4. TypeOK' /\ CallExact' /\ HeldExact' /\ WaitsExact' /\ QueueOnce'
  BY <1>1, <1>3 DEF TypeOK, CallExact, HeldExact, OwnArgs, OwnInfo, ResultDue, WaitsExact,
     QueueOnce
<1>5. MessageExact'
  BY <1>1 DEF MessageExact
<1>6. ResultExact'
  BY <1>1, <1>3 DEF ResultExact, ResultDue
<1>7. Accounted'
  BY <1>1 DEF Accounted, AccountedAt, HeldBy, CarriedBy
<1>8. QED
  BY <1>4, <1>5, <1>6, <1>7

\* The answer: written for a synchronized call, all over for another.
LEMMA AnswerPreserves ==
  ASSUME BridgeAssumption, IndInv, Answer
  PROVE  IndInv'
<1> USE DEF IndInv
<1> DEFINE a == msg.args
           b == msg.info
<1>1. /\ step = "answer" /\ msg \in Pending /\ a \in Blocks /\ b \in Blocks /\ msg # Other
      /\ heap[a] \in ArgsBlocks /\ heap[b] \in InfoBlocks /\ a # b
      /\ pret = ResultOf(heap[a])
  BY InHand, Values DEF Answer, MessageExact, ResultExact, Pending
<1>2. CASE /\ heap[b].sync /\ heap' = [heap EXCEPT ![b].ret = pret] /\ step' = "release"
           /\ UNCHANGED <<caller, queue, msg, pret, lost>>
  <2>1. PICK i : i = [heap[b] EXCEPT !.ret = pret]
    OBVIOUS
  <2>2. /\ i \in InfoBlocks /\ SameCall(i, heap[b]) /\ i.ret = pret
        /\ i.count = heap[b].count /\ i.waits = heap[b].waits
    BY <1>1, <2>1 DEF InfoBlocks, SameCall, TypeOK
  <2>3. heap' = [heap EXCEPT ![b] = i]
    BY <1>2, <2>1
  <2>4. /\ heap' \in [Blocks -> {Free} \cup ArgsBlocks \cup InfoBlocks]
        /\ BlocksStay
        /\ heap'[b] = i /\ \A d \in Blocks \ {b} : heap'[d] = heap[d]
    BY <1>1, <2>2, <2>3, WriteInfo
  <2>5. /\ Pending' = Pending
        /\ UNCHANGED <<pc, function, args, info, ret, made, queue, msg, pret, lost>>
    BY <1>2 DEF Pending, caller
  <2>6. TypeOK' /\ CallExact' /\ QueueOnce'
    BY <1>1, <1>2, <2>4, <2>5 DEF TypeOK, CallExact, QueueOnce
  <2>7. HeldExact' /\ Accounted'
    BY <2>4, <2>5, StayPreserves
  <2>8. MessageExact'
    <3>1. ASSUME NEW m \in Pending
          PROVE  /\ heap'[m.args] = heap[m.args]
                 /\ heap'[m.info] = heap[m.info] \/ SameCall(heap'[m.info], heap[m.info])
                 /\ heap'[m.info].count = 0
      BY <1>1, <2>2, <2>4, PendingTyped, Values DEF MessageExact
    <3>2. \A m \in Pending, c \in Callers :
            /\ info'[c] = m.info => pc'[c] \in {"obtain", "wait"}
            /\ info'[c] = m.info <=> args'[c] = m.args
      BY <2>5 DEF MessageExact
    <3>3. Pending' \subseteq Pending
      BY <2>5
    <3>4. QED
      BY <3>1, <3>2, <3>3, MessagesStay
  <2>9. WaitsExact'
    BY <2>2, <2>4, <2>5 DEF WaitsExact, SameCall
  <2>10. ResultExact'
    <3>1. heap'[b].sync /\ heap'[b].ret = ResultOf(heap'[a])
      BY <1>1, <1>2, <2>2, <2>4 DEF SameCall
    <3>2. ASSUME NEW c \in Callers, info[c] = b PROVE pc[c] \in {"obtain", "wait"} /\ heap'[b].count = 0
      BY <1>1, <2>2, <2>4, <3>2 DEF MessageExact
    <3>3. ASSUME NEW c \in Callers, info[c] # b, info[c] # Null PROVE heap'[info[c]] = heap[info[c]]
      BY <2>4, <3>3 DEF TypeOK
    <3>4. ASSUME NEW c \in Callers PROVE pc[c] \in InfoPoints => info[c] # Null
      BY DEF CallExact
    <3>5. QED
      BY <1>2, <2>5, <3>1, <3>2, <3>3, <3>4 DEF ResultExact, ResultDue, InfoPoints
  <2>11. QED
    BY <2>6, <2>7, <2>8, <2>9, <2>10
<1>3. CASE ~heap[b].sync /\ heap' = [heap EXCEPT ![a] = Free, ![b] = Free] /\ Done /\ UNCHANGED pc
  <2>1. /\ Pending' = Pending \ {msg} /\ QueueOnce'
        /\ UNCHANGED <<pc, function, args, info, ret, made, queue, lost>>
        /\ step' = "receive" /\ msg' = Other
    BY <1>1, <1>3, DonePending DEF Done
  <2>2. /\ heap'[a] = Free /\ heap'[b] = Free
        /\ \A d \in Blocks : d # a /\ d # b => heap'[d] = heap[d]
        /\ heap' \in [Blocks -> {Free} \cup ArgsBlocks \cup InfoBlocks]
    BY <1>1, <1>3 DEF TypeOK
  <2>3. /\ CarriedBy(msg, a) /\ CarriedBy(msg, b)
        /\ \A d \in Blocks : CarriedBy(msg, d) <=> d = a \/ d = b
    BY <1>3 DEF CarriedBy
  <2>4. /\ \A c \in Callers, d \in {a, b} : args[c] # d /\ info[c] # d
        /\ a \notin lost /\ b \notin lost
    <3>1. \A d \in {a, b} : d \notin lost /\ \A c \in Callers : ~HeldBy(c, d)
      BY <1>1, <2>3 DEF Accounted, AccountedAt
    <3>2. QED
      BY <3>1 DEF HeldBy
  <2>5. \A m \in Pending' : m.args \in Blocks /\ m.info \in Blocks /\ m.args \notin {a, b} /\ m.info \notin {a, b}
    BY <1>1, <2>1, PendingTyped, Values DEF MessageExact
  <2>6. \A c \in Callers :
          /\ args[c] # Null => heap'[args[c]] = heap[args[c]]
          /\ info[c] # Null => heap'[info[c]] = heap[info[c]]
          /\ pc[c] \in InfoPoints => info[c] # Null
    BY <2>2, <2>4 DEF TypeOK, CallExact
  <2>7. TypeOK' /\ CallExact'
    <3>1. NoResult \in Results
      BY DEF Results, NoResult
    <3>2. QED
      <4>1. queue' \in Seq(Messages \cup {Other}) /\ msg' \in Messages \cup {Other}
        BY <2>1 DEF TypeOK
      <4>2. pret' \in Results /\ step' \in {"receive", "run", "answer", "release"}
        BY <1>3, <3>1 DEF Done
      <4>3. TypeOK'
        BY <2>1, <2>2, <4>1, <4>2 DEF TypeOK
      <4>4. QED
        BY <2>1, <4>3 DEF CallExact
  <2>8. HeldExact'
    BY <2>1, <2>6 DEF HeldExact, OwnArgs, OwnInfo, ResultDue
  <2>9. MessageExact'
    <3>1. \A m \in Pending' : heap'[m.args] = heap[m.args] /\ heap'[m.info] = heap[m.info]
      BY <2>2, <2>5
    <3>2. \A m \in Pending, c \in Callers :
            /\ info'[c] = m.info => pc'[c] \in {"obtain", "wait"}
            /\ info'[c] = m.info <=> args'[c] = m.args
      BY <2>1 DEF MessageExact
    <3>3. Pending' \subseteq Pending /\ \A m \in Pending' : heap'[m.info].count = 0
      BY <2>1, <3>1 DEF MessageExact
    <3>4. QED
      BY <3>1, <3>2, <3>3, MessagesStay
  <2>10. WaitsExact'
    <3>1. \A d \in Blocks : heap'[d] \in InfoBlocks => heap'[d] = heap[d]
      BY <2>2, Values
    <3>2. QED
      BY <2>1, <3>1 DEF WaitsExact
  <2>11. ResultExact'
    BY <2>1, <2>6 DEF ResultExact, ResultDue, InfoPoints
  <2>12. Accounted'
    <3>1. \A m \in Pending', d \in Blocks : CarriedBy(m, d)' <=> CarriedBy(m, d)
      BY <2>2, <2>5 DEF CarriedBy
    <3>2. \A m \in Pending' : ~CarriedBy(m, a) /\ ~CarriedBy(m, b)
      BY <2>5 DEF CarriedBy
    <3>3. \A c \in Callers, d \in Blocks : HeldBy(c, d)' <=> HeldBy(c, d)
      BY <2>1 DEF HeldBy
    <3>4. \A c \in Callers : ~HeldBy(c, a) /\ ~HeldBy(c, b)
      BY <2>4 DEF HeldBy
    <3>5. ASSUME NEW d \in Blocks
      PROVE  AccountedAt(d)'
      <4>1. CASE d = a \/ d = b
        <5>1. heap'[d] = Free /\ d \notin lost'
          BY <2>1, <2>2, <2>4, <4>1
        <5>2. \A c \in Callers : ~HeldBy(c, d)'
          BY <3>3, <3>4, <4>1
        <5>3. \A m \in Pending' : ~CarriedBy(m, d)'
          BY <3>1, <3>2, <4>1
        <5>4. QED
          BY <5>1, <5>2, <5>3 DEF AccountedAt
      <4>2. CASE d # a /\ d # b
        BY <2>1, <2>2, <2>3, <3>1, <3>3, <4>2 DEF Accounted, AccountedAt
      <4>3. QED
        BY <4>1, <4>2
    <3>6. QED
      BY <3>5 DEF Accounted, AccountedAt
  <2>13. QED
    BY <2>1, <2>7, <2>8, <2>9, <2>10, <2>11, <2>12
<1>4. QED
  BY <1>2, <1>3 DEF Answer

\* The caller goes on, now or when it gets to the semaphore; nobody does if it
\* was killed.
LEMMA ReleasePreserves ==
  ASSUME BridgeAssumption, IndInv, Release
  PROVE  IndInv'
<1> USE DEF IndInv
<1> DEFINE a == msg.args
           b == msg.info
           c == heap[b].caller
<1>1. /\ step = "release" /\ msg \in Pending /\ a \in Blocks /\ b \in Blocks /\ msg # Other
      /\ heap[a] \in ArgsBlocks /\ heap[b] \in InfoBlocks /\ a # b /\ heap[b].sync
      /\ heap[b].ret = ResultOf(heap[a]) /\ heap[b].count = 0 /\ c \in Callers
  BY InHand, Values DEF Release, MessageExact, ResultExact, Pending, InfoBlocks
<1>2. /\ Pending' = Pending \ {msg} /\ QueueOnce'
      /\ UNCHANGED <<function, args, info, ret, made, queue, lost>>
      /\ step' = "receive" /\ msg' = Other /\ pret' = NoResult
  BY <1>1, DonePending DEF Release, Done
<1>3. PICK i :
        /\ i \in InfoBlocks /\ SameCall(i, heap[b]) /\ i.ret = heap[b].ret
        /\ heap' = [heap EXCEPT ![b] = i]
        /\ \/ heap[b].waits /\ ~i.waits /\ pc' = [pc EXCEPT ![c] = "take"]
           \/ ~heap[b].waits /\ ~i.waits /\ pc' = pc
  <2>1. CASE heap[b].waits /\ heap' = [heap EXCEPT ![b].waits = FALSE] /\ pc' = [pc EXCEPT ![c] = "take"]
    <3>1. [heap[b] EXCEPT !.waits = FALSE] \in InfoBlocks
      BY <1>1 DEF InfoBlocks
    <3>2. QED
      BY <1>1, <2>1, <3>1 DEF SameCall, InfoBlocks
  <2>2. CASE ~heap[b].waits /\ heap' = [heap EXCEPT ![b].count = @ + 1] /\ pc' = pc
    <3>1. [heap[b] EXCEPT !.count = @ + 1] \in InfoBlocks
      BY <1>1 DEF InfoBlocks
    <3>2. QED
      BY <1>1, <2>2, <3>1 DEF SameCall, InfoBlocks
  <2>3. QED
    BY <2>1, <2>2 DEF Release
<1>4. /\ heap' \in [Blocks -> {Free} \cup ArgsBlocks \cup InfoBlocks]
      /\ BlocksStay
      /\ heap'[b] = i /\ \A d \in Blocks \ {b} : heap'[d] = heap[d]
  BY <1>1, <1>3, WriteInfo
<1>5. heap[b].waits => pc[c] = "wait" /\ info[c] = b
  BY <1>1 DEF WaitsExact
<1>6. \A d \in Callers : info[d] = b => d = c /\ args[d] = a /\ ResultOf(heap[a]) = ResultDue(d)
  BY <1>1, Values DEF MessageExact, HeldExact, OwnArgs, OwnInfo
<1>7. \A d \in Callers : pc'[d] = pc[d] \/ (d = c /\ pc[d] = "wait" /\ pc'[d] = "take" /\ info[d] = b)
  BY <1>1, <1>3, <1>5 DEF TypeOK
<1>8. TypeOK' /\ CallExact'
  <2>1. NoResult \in Results
    BY DEF Results, NoResult
  <2>2. pc' \in [Callers -> {"idle", "info", "send", "obtain", "wait", "take", "collect"}]
    BY <1>3 DEF TypeOK
  <2>3. TypeOK'
    BY <1>2, <1>4, <2>1, <2>2 DEF TypeOK
  <2>4. CallExact'
    BY <1>2, <1>7 DEF CallExact, ArgsPoints, InfoPoints
  <2>5. QED
    BY <2>3, <2>4
<1>9. HeldExact' /\ Accounted'
  BY <1>1, <1>2, <1>4, StayPreserves
<1>10. \A m \in Pending' : m.args # b /\ m.info # b /\ m.args \in Blocks /\ m.info \in Blocks
  BY <1>1, <1>2, PendingTyped, Values DEF MessageExact
<1>11. MessageExact'
  <2>1. \A m \in Pending' : heap'[m.args] = heap[m.args] /\ heap'[m.info] = heap[m.info]
    BY <1>4, <1>10
  <2>2. \A m \in Pending', d \in Callers : info[d] = m.info => pc'[d] = pc[d]
    BY <1>7, <1>10
  <2>3. QED
    BY <1>2, <2>1, <2>2, MessagesStay DEF MessageExact
<1>12. WaitsExact'
  <2> SUFFICES ASSUME NEW d \in Blocks, heap'[d] \in InfoBlocks, heap'[d].waits
               PROVE  pc'[heap'[d].caller] = "wait" /\ info[heap'[d].caller] = d
    BY <1>2 DEF WaitsExact
  <2>1. d # b /\ heap'[d] = heap[d]
    BY <1>3, <1>4
  <2>2. pc[heap[d].caller] = "wait" /\ info[heap[d].caller] = d /\ heap[d].caller \in Callers
    BY <2>1 DEF WaitsExact, InfoBlocks
  <2>3. QED
    BY <1>7, <2>1, <2>2
<1>13. ResultExact'
  <2>1. ASSUME NEW d \in Callers, info[d] = b
        PROVE  heap'[info[d]].ret = ResultDue(d) /\ pc[d] \in {"obtain", "wait"}
    BY <1>1, <1>3, <1>4, <1>6, <2>1 DEF MessageExact
  <2>2. ASSUME NEW d \in Callers, info[d] # b
        PROVE  pc'[d] = pc[d] /\ (info[d] # Null => heap'[info[d]] = heap[info[d]])
    BY <1>4, <1>7, <2>2 DEF TypeOK
  <2>3. ASSUME NEW d \in Callers PROVE pc[d] \in InfoPoints => info[d] # Null
    BY DEF CallExact
  <2>4. QED
    BY <1>2, <1>7, <2>1, <2>2, <2>3 DEF ResultExact, ResultDue, InfoPoints
<1>14. QED
  BY <1>2, <1>8, <1>9, <1>11, <1>12, <1>13

-----------------------------------------------------------------------------
LEMMA NextPreserves ==
  ASSUME BridgeAssumption, IndInv, [Next]_vars
  PROVE  IndInv'
<1>1. CASE Next
  BY <1>1, pack_argsPreserves, MakeInfoPreserves, MakeInfoFailsPreserves, SendPreserves,
     ObtainPreserves, TakeResultPreserves, CollectPreserves, KillPreserves,
     SendOtherPreserves, ReceivePreserves, RunPreserves, AnswerPreserves, ReleasePreserves
     DEF Next, BridgeMessageSend, MopiBridgeMessenger
<1>2. CASE UNCHANGED vars
  <2>1. Pending' = Pending
    BY <1>2 DEF vars, Pending, bridge
  <2>2. QED
    BY <1>2, <2>1 DEF vars, caller, bridge, IndInv, TypeOK, CallExact, HeldExact, OwnArgs,
       OwnInfo, ResultDue, QueueOnce, MessageExact, WaitsExact, ResultExact, Accounted, AccountedAt,
       HeldBy, CarriedBy
<1>3. QED
  BY <1>1, <1>2

\* The inductive invariant always holds.
THEOREM Invariance == ASSUME BridgeAssumption PROVE Spec => []IndInv
<1>1. Init => IndInv
  BY InitEstablishes
<1>2. IndInv /\ [Next]_vars => IndInv'
  BY NextPreserves
<1>3. QED
  BY <1>1, <1>2, PTL DEF Spec

\* Callers and bridge agree on who frees a block: whatever a message points to
\* is there, every block has one owner, and none leaks but those of a call
\* that was broken off.
THEOREM BlocksKeptHolds == ASSUME BridgeAssumption PROVE Spec => []BlocksKept
<1>1. IndInv => BlocksKept
  <2> SUFFICES ASSUME IndInv PROVE BlocksKept
    OBVIOUS
  <2> USE DEF IndInv
  <2>1. MessagesLive
    BY DEF MessagesLive, MessageExact, ArgsBlocks, InfoBlocks
  <2>2. \A c \in Callers, b \in Blocks : b \in Holds(c) <=> HeldBy(c, b)
    BY Values DEF Holds, HeldBy
  <2>3. \A c \in Callers : Holds(c) \subseteq Blocks
    BY DEF TypeOK, Holds
  <2>4. \A m \in Pending : heap[m.info].kind = "info"
    BY <2>1 DEF MessagesLive
  <2>5. \A m \in Pending : Carries(m) \subseteq Blocks
    BY PendingTyped DEF Carries
  <2>6. \A m \in Pending, b \in Blocks : b \in Carries(m) <=> CarriedBy(m, b)
    BY <2>4 DEF Carries, CarriedBy
  <2>7. lost \subseteq Blocks
    BY DEF TypeOK
  <2>8. \A b : b \in Owned <=>
           \/ \E c \in Callers : b \in Holds(c)
           \/ \E m \in Pending : b \in Carries(m)
           \/ b \in lost
    BY DEF Owned
  <2>9. {b \in Blocks : heap[b] # Free} = Owned
    BY <2>2, <2>3, <2>5, <2>6, <2>7, <2>8 DEF Accounted, AccountedAt
  <2>10. \A c \in Callers :
           /\ Holds(c) \cap lost = {}
           /\ \A d \in Callers \ {c} : Holds(c) \cap Holds(d) = {}
    BY <2>2, <2>3 DEF Accounted, AccountedAt
  <2>11. \A m \in Pending : Carries(m) \cap (lost \cup UNION {Holds(c) : c \in Callers}) = {}
    <3>1. ASSUME NEW m \in Pending, NEW b \in Carries(m)
          PROVE  b \notin lost /\ \A c \in Callers : b \notin Holds(c)
      BY <2>2, <2>5, <2>6 DEF Accounted, AccountedAt
    <3>2. QED
      BY <3>1
  <2>12. QED
    BY <2>1, <2>9, <2>10, <2>11 DEF BlocksKept, OneOwner
<1>2. QED
  BY <1>1, Invariance, PTL

\* A synchronized call that gets to its end returns the result of its own
\* function with all of its arguments.
THEOREM OwnResultHolds == ASSUME BridgeAssumption PROVE Spec => []OwnResult
<1>1. IndInv => OwnResult
  BY DEF IndInv, ResultExact, ResultDue, OwnResult
<1>2. QED
  BY <1>1, Invariance, PTL
=============================================================================
