----------------------------- MODULE SocketProofs -----------------------------
(***************************************************************************)
(* Proofs about Socket, for any number of processes, descriptors, slots    *)
(* and firmware numbers and any length of the MMI's queue; the priorities  *)
(* matter to the handlers only.                                            *)
(***************************************************************************)
EXTENDS Socket, SequenceTheorems, WellFoundedInduction, TLAPS

Ops == {"socket", "connect", "write", "read", "close"}
HandPoints == {"made", "open", "new"}
WaitPoints == {"write_test", "write_wait", "write_go", "read_test", "read_wait", "read_go"}
\* Where a process is in critical code, and where it is at a descriptor.
CriticalPoints ==
  Ops \cup {"made", "new", "register", "connect_done", "done", "closed", "on_close", "dead"}
FdPoints ==
  WaitPoints \cup (Ops \ {"socket"}) \cup {"register", "connect_done", "closed", "close_end"}
DyingPoints == {"on_close", "close", "closed", "close_end", "dead"}
Points == CriticalPoints \cup FdPoints \cup HandPoints \cup {"idle"}

Kinds == {"connected", "data", "closed"}
States == Kinds \cup {"created", "connecting", "can_read", "can_write", "disconnected"}

SocketType ==
  [used : BOOLEAN, fd : Numbers \cup {NoNumber}, state : SUBSET States, conn : Int, read : Int]
RequestType == [op : Ops, proc : Tasks, number : Numbers \cup {NoNumber}]
MessageType == [number : Numbers \cup {NoNumber}, kind : Kinds]

TableOK == sockets \in [Sids -> SocketType] /\ handlers \in Seq(Sids \cup {NoSid})
FdsOK == fds \in [Tasks -> Seq(Sids \cup {NoSid})]
CallOK ==
  /\ critical \in [Tasks -> BOOLEAN] /\ death \in [Tasks -> {"no", "asked", "on"}]
  /\ pc \in [Tasks -> Points] /\ fd \in [Tasks -> Nat]
  /\ ret \in [Tasks -> Numbers \cup {NoNumber}]
  /\ owner \in [Numbers -> Tasks \cup {NoTask}]
  /\ lost \subseteq Numbers \cup {NoNumber} /\ torn \in BOOLEAN
QueuesOK == requests \in Seq(RequestType) /\ messages \in Seq(MessageType)
TypeOK == TableOK /\ FdsOK /\ CallOK /\ QueuesOK

\* A request is of a process that waits for it, and the only one of that process.
RequestsExact ==
  \A i \in DOMAIN requests :
    /\ pc[requests[i].proc] = requests[i].op
    /\ \A j \in DOMAIN requests : requests[j].proc = requests[i].proc => i = j

\* What each point of a process knows of the process itself.
CallAt(p) ==
  /\ pc[p] \in CriticalPoints => critical[p]
  /\ pc[p] \in FdPoints => fd[p] \in Descriptors(p)
  /\ pc[p] \in {"open", "new"} => ret[p] # NoNumber
  /\ pc[p] = "new" => fd[p] \in DOMAIN fds[p] /\ fds[p][fd[p]] = NoSid
CallExact == \A p \in Tasks : CallAt(p)

\* onClose goes through the descriptors from the first to the last.
DyingAt(p) ==
  /\ death[p] = "on" => /\ critical[p] /\ pc[p] \in DyingPoints
                        /\ \A f \in Descriptors(p) : f >= fd[p]
  /\ pc[p] \in {"on_close", "dead"} => death[p] = "on"
  /\ pc[p] = "on_close" => fd[p] \notin Descriptors(p)
  /\ pc[p] = "dead" => Descriptors(p) = {}
DyingExact == \A p \in Tasks : DyingAt(p)

\* A descriptor holds its slot until it is freed, the number until the
\* firmware has closed it; a process has a number in its hand before that.
Holds(p, f) == f \in Descriptors(p) /\ ~(fd[p] = f /\ pc[p] = "close_end")
Owns(p, f) == Holds(p, f) /\ ~(fd[p] = f /\ pc[p] = "closed")
Number(p, f) == sockets[fds[p][f]].fd
InHand(p, n) == pc[p] \in HandPoints /\ ret[p] = n /\ n # NoNumber

\* A slot has one descriptor,
SlotsExact ==
  \A p \in Tasks : \A f \in Descriptors(p) :
    Holds(p, f) =>
      /\ sockets[fds[p][f]].used /\ Number(p, f) # NoNumber
      /\ \A q \in Tasks : \A g \in Descriptors(q) :
           Holds(q, g) /\ fds[q][g] = fds[p][f] => q = p /\ g = f

\* a number has one owner, who has it in one place, and is lost otherwise.
NumbersExact ==
  \A p \in Tasks :
    /\ \A f \in Descriptors(p) :
         Owns(p, f) =>
           /\ owner[Number(p, f)] = p /\ ~InHand(p, Number(p, f))
           /\ \A g \in Descriptors(p) : Owns(p, g) /\ Number(p, g) = Number(p, f) => g = f
    /\ \A n \in Numbers :
         /\ InHand(p, n) => owner[n] = p
         /\ owner[n] = p => \/ n \in lost \/ InHand(p, n)
                            \/ \E f \in Descriptors(p) : Owns(p, f) /\ Number(p, f) = n

\* A process asks to close the number of the descriptor it is at.
CloseExact ==
  \A i \in DOMAIN requests :
    requests[i].op = "close" => requests[i].number = sockets[Sid(requests[i].proc)].fd

OwnInv == ~torn => SlotsExact /\ NumbersExact /\ CloseExact

\* The handlers of slots have the number of the slot, and all that are in use
\* have one, but for the one that is at registerSocketMessageHandler.
Registering(s) == \E p \in Tasks : pc[p] = "register" /\ Sid(p) = s
HandlersExact ==
  /\ \A h \in DOMAIN handlers : handlers[h] \in {h, NoSid}
  /\ \A s \in Sids :
       (s \in DOMAIN handlers /\ handlers[s] = s) <=> (sockets[s].used /\ ~Registering(s))
RegisterExact ==
  \A p \in Tasks :
    pc[p] = "register" => /\ cpu[Prio[p]] = p
                          /\ sockets[Sid(p)].used /\ \A r \in Sids : r < Sid(p) => sockets[r].used

IndInv == TypeOK /\ RequestsExact /\ CallExact /\ DyingExact /\ OwnInv
HandlerInv == cpu \in [Levels -> Tasks \cup {NoTask}] /\ HandlersExact /\ RegisterExact

-----------------------------------------------------------------------------
\* The constants of the table.
LEMMA Constants ==
  ASSUME SocketAssumption
  PROVE  /\ MaxSockets \in Nat /\ Numbers \subseteq Nat /\ NoNumber \notin Numbers
         /\ Sids \subseteq Nat /\ NoSid \notin Sids /\ NoNumber \notin Nat
BY DEF SocketAssumption, Sids, NoSid, NoNumber

LEMMA InitEstablishes ==
  ASSUME SocketAssumption, NucleusAssumption
  PROVE  Init => IndInv /\ HandlerInv
<1> SUFFICES ASSUME Init PROVE IndInv /\ HandlerInv
  OBVIOUS
<1> USE Constants DEF Init, Descriptors
<1>1. TypeOK
  <2>1. NewSocket \in SocketType
    BY DEF NewSocket, SocketType
  <2>2. \A S : << >> \in Seq(S)
    OBVIOUS
  <2> QED
    BY <2>1, <2>2 DEF TypeOK, TableOK, FdsOK, CallOK, QueuesOK, Points
<1>2. RequestsExact /\ CallExact /\ DyingExact
  BY DEF RequestsExact, CallExact, CallAt, DyingExact, DyingAt, CriticalPoints, FdPoints,
     WaitPoints, Ops, DyingPoints
<1>3. OwnInv
  BY DEF OwnInv, SlotsExact, NumbersExact, CloseExact, InHand, HandPoints, NucleusAssumption
<1>4. HandlerInv
  BY DEF HandlerInv, HandlersExact, RegisterExact, NewSocket, IdleCpu
<1> QED
  BY <1>1, <1>2, <1>3, <1>4 DEF IndInv

\* What a queue holds after a send, and after a receive.
LEMMA AppendFacts ==
  ASSUME NEW S, NEW s \in Seq(S), NEW e \in S
  PROVE  /\ Append(s, e) \in Seq(S) /\ Len(s) \in Nat
         /\ DOMAIN s = 1..Len(s) /\ DOMAIN Append(s, e) = 1..(Len(s) + 1)
         /\ \A i \in DOMAIN s : s[i] \in S /\ Append(s, e)[i] = s[i]
         /\ Append(s, e)[Len(s) + 1] = e
OBVIOUS

LEMMA TailFacts ==
  ASSUME NEW S, NEW s \in Seq(S), s # << >>
  PROVE  /\ 1 \in DOMAIN s /\ Head(s) = s[1] /\ Head(s) \in S /\ Tail(s) \in Seq(S)
         /\ \A i \in DOMAIN Tail(s) :
              i \in Nat /\ i + 1 \in DOMAIN s /\ i + 1 # 1 /\ Tail(s)[i] = s[i + 1] /\ Tail(s)[i] \in S
<1>1. Len(s) \in Nat /\ Len(s) > 0 /\ DOMAIN s = 1..Len(s) /\ Head(s) = s[1]
  BY EmptySeq
<1>2. Tail(s) \in Seq(S) /\ DOMAIN Tail(s) = 1..(Len(s) - 1)
  BY <1>1, HeadTailProperties, LenProperties
<1>3. \A i \in 1..(Len(s) - 1) : Tail(s)[i] = s[i + 1] /\ s[i + 1] \in S
  BY <1>1, <1>2, HeadTailProperties, ElementOfSeq
<1>4. QED
  BY <1>1, <1>2, <1>3, ElementOfSeq

\* requests grows by the request of a process that had none,
LEMMA Asked ==
  ASSUME TypeOK, RequestsExact, NEW p \in Tasks, pc[p] \notin Ops, NEW op \in Ops,
         NEW n \in Numbers \cup {NoNumber},
         pc' = [pc EXCEPT ![p] = op],
         requests' = Append(requests, [op |-> op, proc |-> p, number |-> n])
  PROVE  /\ RequestsExact'
         /\ requests' \in Seq(RequestType)
<1> DEFINE r == [op |-> op, proc |-> p, number |-> n]
<1>1. r \in RequestType /\ requests \in Seq(RequestType)
  BY DEF TypeOK, QueuesOK, RequestType
<1> HIDE DEF r
<1>2. /\ requests' \in Seq(RequestType) /\ Len(requests) \in Nat
      /\ DOMAIN requests = 1..Len(requests) /\ DOMAIN requests' = 1..(Len(requests) + 1)
      /\ \A i \in DOMAIN requests : requests'[i] = requests[i] /\ requests[i] \in RequestType
      /\ requests'[Len(requests) + 1] = r
  <2>1. requests' = Append(requests, r)
    BY DEF r
  <2> QED
    BY <1>1, <2>1, AppendFacts
<1> USE DEF r
<1>3. \A i \in DOMAIN requests : requests[i].proc # p
  BY <1>1, <1>2 DEF RequestsExact, RequestType
<1>4. r.proc = p /\ r.op = op
  OBVIOUS
<1> HIDE DEF r
<1>5. RequestsExact'
  BY <1>1, <1>2, <1>3, <1>4 DEF RequestsExact, TypeOK, CallOK, RequestType
<1> QED
  BY <1>2, <1>5

LEMMA Queued ==
  ASSUME TypeOK, NEW i \in DOMAIN requests
  PROVE  /\ requests[i].proc \in Tasks /\ requests[i].op \in Ops
         /\ requests[i].number \in Numbers \cup {NoNumber}
<1>1. requests \in Seq(RequestType)
  BY DEF TypeOK, QueuesOK
<1>2. requests[i] \in RequestType
  BY <1>1, ElementOfSeq, LenProperties
<1> QED
  BY <1>2 DEF RequestType

\* stays while only processes without a request move,
LEMMA RequestsStay ==
  ASSUME TypeOK, RequestsExact, UNCHANGED requests, \A q \in Tasks : pc[q] \in Ops => pc'[q] = pc[q]
  PROVE  RequestsExact'
BY Queued DEF RequestsExact

\* or loses its first, whose process goes on.
LEMMA Answered ==
  ASSUME TypeOK, RequestsExact, NEW op \in Ops, NEW to \in Points \ Ops, Answer(op, to)
  PROVE  LET p == Head(requests).proc
         IN  /\ p \in Tasks /\ pc[p] = op /\ pc' = [pc EXCEPT ![p] = to]
             /\ Head(requests).number \in Numbers \cup {NoNumber}
             /\ 1 \in DOMAIN requests /\ Head(requests) = requests[1]
             /\ RequestsExact'
             /\ \A i \in DOMAIN requests' :
                  /\ i + 1 \in DOMAIN requests /\ requests'[i] = requests[i + 1]
                  /\ requests'[i].proc # p
             /\ requests' \in Seq(RequestType)
<1> DEFINE r == Head(requests)
<1>1. requests \in Seq(RequestType) /\ requests # << >> /\ requests' = Tail(requests) /\ r.op = op
  BY DEF TypeOK, QueuesOK, Answer
<1>2. /\ r = requests[1] /\ 1 \in DOMAIN requests /\ r \in RequestType
      /\ requests' \in Seq(RequestType)
      /\ \A i \in DOMAIN requests' :
           /\ i + 1 \in DOMAIN requests /\ i + 1 # 1 /\ requests'[i] = requests[i + 1]
           /\ i \in Nat /\ requests'[i] \in RequestType
  BY <1>1, TailFacts
<1>3. r.proc \in Tasks /\ pc[r.proc] = op
  BY <1>1, <1>2 DEF RequestsExact, RequestType
<1>4. pc' = [pc EXCEPT ![r.proc] = to]
  BY <1>1, <1>3 DEF Answer
<1>5. \A i \in DOMAIN requests' : requests'[i].proc # r.proc
  BY <1>2 DEF RequestsExact
<1>6. \A i, j \in DOMAIN requests' : i + 1 = j + 1 => i = j
  BY <1>2
<1> HIDE DEF r
<1>7. RequestsExact'
  BY <1>2, <1>3, <1>4, <1>5, <1>6 DEF RequestsExact, TypeOK, CallOK, RequestType
<1> QED
  BY <1>2, <1>3, <1>4, <1>5, <1>7 DEF r, RequestType

\* A set of numbers that is not empty has a first.
LEMMA FirstOf ==
  ASSUME NEW S, S \subseteq Nat, S # {}
  PROVE  \E g \in S : \A h \in S : g <= h
<1>1. PICK g \in S : \A h \in S : ~(<<h, g>> \in OpToRel(<, Nat))
  BY NatLessThanWellFounded, WFMin
<1>2. ASSUME NEW h \in S, h < g PROVE FALSE
  BY <1>1, <1>2 DEF OpToRel
<1> QED
  BY <1>2

\* A descriptor has a slot,
LEMMA Slot ==
  ASSUME SocketAssumption, TypeOK, NEW p \in Tasks, NEW f \in Descriptors(p)
  PROVE  /\ f \in Nat /\ fds[p] \in Seq(Sids \cup {NoSid}) /\ f \in 1..Len(fds[p])
         /\ fds[p][f] \in Sids /\ sockets[fds[p][f]] \in SocketType
         /\ Number(p, f) \in Numbers \cup {NoNumber}
<1>1. fds[p] \in Seq(Sids \cup {NoSid}) /\ f \in DOMAIN fds[p] /\ fds[p][f] # NoSid
  BY DEF TypeOK, FdsOK, Descriptors
<1>2. f \in Nat /\ f \in 1..Len(fds[p])
  BY <1>1, LenProperties
<1>3. fds[p][f] \in Sids
  BY <1>1, <1>2, ElementOfSeq
<1>4. sockets[fds[p][f]] \in SocketType
  BY <1>3 DEF TypeOK, TableOK
<1> QED
  BY <1>1, <1>2, <1>3, <1>4 DEF SocketType, Number

\* and so has a process that is at one.
LEMMA AtSlot ==
  ASSUME SocketAssumption, TypeOK, CallExact, NEW p \in Tasks, pc[p] \in FdPoints
  PROVE  /\ fd[p] \in Descriptors(p) /\ Sid(p) \in Sids /\ Sock(p) \in SocketType
         /\ Sock(p).fd \in Numbers \cup {NoNumber}
         /\ fd[p] \in 1..Len(fds[p]) /\ fds[p] \in Seq(Sids \cup {NoSid})
BY Slot DEF CallExact, CallAt, Sid, Sock, Number

\* The cell of open_fd is the first that is empty, or the one behind the last.
LEMMA OpenedCell ==
  ASSUME SocketAssumption, TypeOK, NEW p \in Tasks, OpenFd(p)
  PROVE  /\ fd'[p] \in Nat /\ fd'[p] \in DOMAIN fds'[p] /\ fds'[p][fd'[p]] = NoSid
         /\ fds'[p] \in Seq(Sids \cup {NoSid})
         /\ fd' = [fd EXCEPT ![p] = fd'[p]] /\ fds' = [fds EXCEPT ![p] = fds'[p]]
         /\ Descriptors(p)' = Descriptors(p)
         /\ \A f \in DOMAIN fds[p] : f \in DOMAIN fds'[p] /\ fds'[p][f] = fds[p][f]
<1> DEFINE empty == {f \in DOMAIN fds[p] : fds[p][f] = NoSid}
           first == CHOOSE g \in empty : \A h \in empty : g <= h
<1>1. fds[p] \in Seq(Sids \cup {NoSid}) /\ DOMAIN fds[p] = 1..Len(fds[p]) /\ Len(fds[p]) \in Nat
  BY LenProperties DEF TypeOK, FdsOK
<1>2. ASSUME empty # {} PROVE first \in empty
  <2>1. empty \subseteq Nat
    BY <1>1
  <2>2. \E g \in empty : \A h \in empty : g <= h
    BY <1>2, <2>1, FirstOf
  <2> QED
    BY <2>2
<1>3. CASE empty = {}
  <2>1. fd' = [fd EXCEPT ![p] = Len(fds[p]) + 1] /\ fds' = [fds EXCEPT ![p] = Append(@, NoSid)]
    BY <1>3 DEF OpenFd
  <2> QED
    BY <1>1, <2>1, AppendFacts DEF Descriptors, TypeOK, FdsOK, CallOK
<1>4. CASE empty # {}
  <2>1. fd' = [fd EXCEPT ![p] = first] /\ fds' = fds
    BY <1>4 DEF OpenFd, TypeOK, FdsOK
  <2> HIDE DEF first
  <2>2. fd'[p] = first /\ first \in DOMAIN fds[p] /\ fds[p][first] = NoSid /\ first \in Nat
    BY <1>1, <1>2, <1>4, <2>1 DEF TypeOK, CallOK
  <2> QED
    BY <1>1, <2>1, <2>2 DEF Descriptors, TypeOK, FdsOK, CallOK
<1> QED
  BY <1>3, <1>4

\* A request keeps the queue's type.
LEMMA RequestTyped ==
  ASSUME QueuesOK, NEW p \in Tasks, NEW op \in Ops, NEW n \in Numbers \cup {NoNumber},
         requests' = Append(requests, [op |-> op, proc |-> p, number |-> n]), UNCHANGED messages
  PROVE  QueuesOK'
<1> DEFINE r == [op |-> op, proc |-> p, number |-> n]
<1>1. r \in RequestType
  BY DEF RequestType
<1> HIDE DEF r
<1>2. requests' = Append(requests, r)
  BY DEF r
<1> QED
  BY <1>1, <1>2, AppendFacts DEF QueuesOK

LEMMA MessageTyped ==
  ASSUME NEW n \in Numbers \cup {NoNumber}, NEW kind \in Kinds, QueuesOK
  PROVE  Message(n, kind) \in Seq(MessageType)
<1> DEFINE m == [number |-> n, kind |-> kind]
<1>1. m \in MessageType
  BY DEF MessageType
<1> HIDE DEF m
<1>2. Message(n, kind) = Append(messages, m)
  BY DEF m, Message
<1> QED
  BY <1>1, <1>2, AppendFacts DEF QueuesOK

LEMMA NewStates ==
  {} \in SUBSET States /\ {"created"} \in SUBSET States /\ {"connecting"} \in SUBSET States
BY DEF States

LEMMA SocketEdited ==
  ASSUME NEW sock \in SocketType
  PROVE  /\ \A state \in SUBSET States : [sock EXCEPT !.state = state] \in SocketType
         /\ \A m \in Int : /\ [sock EXCEPT !.conn = m] \in SocketType
                           /\ [sock EXCEPT !.read = m] \in SocketType
         /\ \A state \in SUBSET States, m \in Int :
              /\ [sock EXCEPT !.state = state, !.conn = m] \in SocketType
              /\ [sock EXCEPT !.state = state, !.read = m] \in SocketType
         /\ \A state \in SUBSET States, m, n \in Int :
              [sock EXCEPT !.state = state, !.conn = m, !.read = n] \in SocketType
BY DEF SocketType

LEMMA HandledTyped ==
  ASSUME NEW sock \in SocketType, NEW kind \in Kinds
  PROVE  /\ Handled(sock, kind) \in SocketType
         /\ Handled(sock, kind).used = sock.used /\ Handled(sock, kind).fd = sock.fd
<1>1. /\ wakeOne(sock.conn) \in Int /\ wakeOne(sock.read) \in Int
      /\ wakeAll(sock.conn) \in Int /\ wakeAll(sock.read) \in Int
  BY DEF wakeOne, wakeAll, SocketType
<1>2. /\ {"connected", "can_write"} \in SUBSET States /\ {"disconnected"} \in SUBSET States
      /\ (IF "connected" \in sock.state THEN sock.state \cup {"can_read"} ELSE sock.state)
           \in SUBSET States
  BY DEF States, Kinds, SocketType
<1>3. /\ HandleConnected(sock) \in SocketType /\ HandleData(sock) \in SocketType
      /\ HandleClosed(sock) \in SocketType
  BY <1>1, <1>2, SocketEdited DEF HandleConnected, HandleData, HandleClosed
<1>4. \A h \in {HandleConnected(sock), HandleData(sock), HandleClosed(sock)} :
        h.used = sock.used /\ h.fd = sock.fd
  BY DEF HandleConnected, HandleData, HandleClosed, SocketType
<1>5. Handled(sock, kind) \in {HandleConnected(sock), HandleData(sock), HandleClosed(sock)}
  BY DEF Handled, Kinds
<1> QED
  BY <1>3, <1>4, <1>5

\* Every step keeps the types.
LEMMA TypePreserved ==
  ASSUME SocketAssumption, NucleusAssumption, IndInv, [Next]_vars
  PROVE  TypeOK'
<1> USE Constants DEF IndInv, TypeOK, Goto, Return, Block, Leave, table, process, firmware,
   history, vars
<1>1. ASSUME NEW p \in Tasks, CallSocket(p) PROVE TypeOK'
  <2>1. TableOK'
    BY <1>1 DEF CallSocket, Request, TableOK
  <2>2. FdsOK'
    BY <1>1 DEF CallSocket, Request, FdsOK
  <2>3. CallOK'
    BY <1>1 DEF CallSocket, Request, CallOK, Points, CriticalPoints, FdPoints, WaitPoints,
       HandPoints, Ops
  <2>4. QueuesOK'
    BY <1>1, RequestTyped DEF CallSocket, Request, Ops, QueuesOK
  <2> QED
    BY <2>1, <2>2, <2>3, <2>4
<1>2. ASSUME NEW p \in Tasks, CallConnect(p) PROVE TypeOK'
  <2>1. TableOK'
    <3>1. PICK f \in Descriptors(p) :
            sockets' = [sockets EXCEPT ![fds[p][f]].state = {"connecting"}] /\ UNCHANGED handlers
      BY <1>2 DEF CallConnect
    <3> QED
      BY <3>1, Slot, SocketEdited, NewStates DEF TableOK
  <2>2. FdsOK'
    BY <1>2 DEF CallConnect, Request, FdsOK
  <2>3. CallOK'
    <3>1. PICK f \in Descriptors(p) : fd' = [fd EXCEPT ![p] = f]
      BY <1>2 DEF CallConnect, Request
    <3>2. fd' \in [Tasks -> Nat]
      BY <3>1, Slot DEF CallOK
    <3> QED
      BY <1>2, <3>2 DEF CallConnect, Request, CallOK, Points, CriticalPoints, FdPoints,
         WaitPoints, HandPoints, Ops
  <2>4. QueuesOK'
    <3>1. PICK f \in Descriptors(p) : Request(p, "idle", "connect", Number(p, f)) /\ UNCHANGED messages
      BY <1>2 DEF CallConnect, Number
    <3> QED
      BY <3>1, Slot, RequestTyped DEF Request, Ops
  <2> QED
    BY <2>1, <2>2, <2>3, <2>4
<1>3. ASSUME NEW p \in Tasks, CallTransfer(p) PROVE TypeOK'
  <2>1. TableOK'
    BY <1>3 DEF CallTransfer, TableOK
  <2>2. FdsOK'
    BY <1>3 DEF CallTransfer, FdsOK
  <2>3. CallOK'
    <3>1. PICK f \in Descriptors(p) : fd' = [fd EXCEPT ![p] = f]
      BY <1>3 DEF CallTransfer
    <3>2. fd' \in [Tasks -> Nat]
      BY <3>1, Slot DEF CallOK
    <3> QED
      BY <1>3, <3>2 DEF CallTransfer, CallOK, Points, CriticalPoints, FdPoints, WaitPoints,
         HandPoints, Ops
  <2>4. QueuesOK'
    BY <1>3 DEF CallTransfer, QueuesOK
  <2> QED
    BY <2>1, <2>2, <2>3, <2>4
<1>4. ASSUME NEW p \in Tasks, CallClose(p) PROVE TypeOK'
  <2>1. TableOK'
    BY <1>4 DEF CallClose, Close, Request, TableOK
  <2>2. FdsOK'
    BY <1>4 DEF CallClose, Close, Request, FdsOK
  <2>3. CallOK'
    <3>1. PICK f \in Descriptors(p) : fd' = [fd EXCEPT ![p] = f]
      BY <1>4 DEF CallClose, Close, Request
    <3>2. fd' \in [Tasks -> Nat]
      BY <3>1, Slot DEF CallOK
    <3> QED
      BY <1>4, <3>2 DEF CallClose, Close, Request, CallOK, Points, CriticalPoints, FdPoints,
         WaitPoints, HandPoints, Ops
  <2>4. QueuesOK'
    <3>1. PICK f \in Descriptors(p) :
            \/ Request(p, "idle", "close", Number(p, f)) /\ UNCHANGED messages
            \/ UNCHANGED <<requests, messages>>
      BY <1>4 DEF CallClose, Close, Number
    <3>2. CASE UNCHANGED <<requests, messages>>
      BY <3>2 DEF QueuesOK
    <3> QED
      BY <3>1, <3>2, Slot, RequestTyped DEF Request, Ops
  <2> QED
    BY <2>1, <2>2, <2>3, <2>4
<1>5. ASSUME NEW p \in Tasks, Exit(p) PROVE TypeOK'
  <2>1. TableOK'
    BY <1>5 DEF Exit, Dies, TableOK
  <2>2. FdsOK'
    BY <1>5 DEF Exit, Dies, FdsOK
  <2>3. CallOK'
    BY <1>5 DEF Exit, Dies, CallOK, Points, CriticalPoints, FdPoints, WaitPoints, HandPoints, Ops
  <2>4. QueuesOK'
    BY <1>5 DEF Exit, Dies, QueuesOK
  <2> QED
    BY <2>1, <2>2, <2>3, <2>4
<1>6. ASSUME NEW p \in Tasks, Kill(p) PROVE TypeOK'
  <2>1. TableOK'
    BY <1>6 DEF Kill, TableOK
  <2>2. FdsOK'
    BY <1>6 DEF Kill, FdsOK
  <2>3. CallOK'
    BY <1>6 DEF Kill, CallOK, Points, CriticalPoints, FdPoints, WaitPoints, HandPoints, Ops
  <2>4. QueuesOK'
    BY <1>6 DEF Kill, QueuesOK
  <2> QED
    BY <2>1, <2>2, <2>3, <2>4
<1>7. ASSUME NEW p \in Tasks, SocketMade(p) PROVE TypeOK'
  <2>1. TableOK'
    BY <1>7 DEF SocketMade, TableOK
  <2>2. FdsOK'
    BY <1>7 DEF SocketMade, FdsOK
  <2>3. CallOK'
    BY <1>7 DEF SocketMade, CallOK, Points, CriticalPoints, FdPoints, WaitPoints, HandPoints, Ops
  <2>4. QueuesOK'
    BY <1>7 DEF SocketMade, QueuesOK
  <2> QED
    BY <2>1, <2>2, <2>3, <2>4
<1>8. ASSUME NEW p \in Tasks, OpenFd(p) PROVE TypeOK'
  <2>1. TableOK'
    BY <1>8 DEF OpenFd, TableOK
  <2>2. FdsOK'
    BY <1>8, OpenedCell DEF OpenFd, FdsOK
  <2>3. CallOK'
    <3>1. fd'[p] \in Nat /\ fd' = [fd EXCEPT ![p] = fd'[p]]
      BY <1>8, OpenedCell DEF OpenFd, CallOK
    <3> QED
      BY <1>8, <3>1 DEF OpenFd, CallOK, Points, CriticalPoints, FdPoints, WaitPoints,
         HandPoints, Ops
  <2>4. QueuesOK'
    BY <1>8 DEF OpenFd, QueuesOK
  <2> QED
    BY <2>1, <2>2, <2>3, <2>4
<1>9. ASSUME NEW p \in Tasks, TakeSlot(p) PROVE TypeOK'
  <2>1. TableOK'
    <3>1. PICK s \in Sids : sockets' = [sockets EXCEPT ![s].used = TRUE, ![s].fd = ret[p]]
      BY <1>9 DEF TakeSlot
    <3>2. UNCHANGED handlers /\ ret[p] \in Numbers \cup {NoNumber}
      BY <1>9 DEF TakeSlot, CallOK
    <3>3. sockets[s] \in SocketType
      BY DEF TableOK
    <3>4. [sockets[s] EXCEPT !.used = TRUE, !.fd = ret[p]] \in SocketType
      BY <3>2, <3>3 DEF SocketType
    <3>5. sockets' = [sockets EXCEPT ![s] = [sockets[s] EXCEPT !.used = TRUE, !.fd = ret[p]]]
      BY <3>1 DEF TableOK
    <3> QED
      BY <3>2, <3>4, <3>5 DEF TableOK
  <2>2. FdsOK'
    <3>1. PICK s \in Sids : fds' = [fds EXCEPT ![p][fd[p]] = s]
      BY <1>9 DEF TakeSlot
    <3>2. fds[p] \in Seq(Sids \cup {NoSid}) /\ fd[p] \in 1..Len(fds[p])
      BY <1>9, LenProperties DEF TakeSlot, CallExact, CallAt, FdsOK
    <3>3. [fds[p] EXCEPT ![fd[p]] = s] \in Seq(Sids \cup {NoSid})
      BY <3>2, ExceptSeq
    <3> QED
      BY <3>1, <3>3 DEF FdsOK
  <2>3. CallOK'
    BY <1>9 DEF TakeSlot, CallOK, Points, CriticalPoints, FdPoints, WaitPoints, HandPoints, Ops
  <2>4. QueuesOK'
    BY <1>9 DEF TakeSlot, QueuesOK
  <2> QED
    BY <2>1, <2>2, <2>3, <2>4
<1>10. ASSUME NEW p \in Tasks, Register(p) PROVE TypeOK'
  <2>1. TableOK'
    <3>1. pc[p] \in FdPoints
      BY <1>10 DEF Register, Publish, FdPoints, WaitPoints, Ops
    <3>2. Sid(p) \in Sids /\ sockets[Sid(p)] \in SocketType
      BY <3>1, AtSlot DEF Sock
    <3>3. handlers' \in Seq(Sids \cup {NoSid})
      <4>1. CASE handlers' = Append(handlers, Sid(p))
        BY <3>2, <4>1, AppendFacts DEF TableOK
      <4>2. ASSUME NEW h \in DOMAIN handlers, handlers' = [handlers EXCEPT ![h] = Sid(p)]
            PROVE  handlers' \in Seq(Sids \cup {NoSid})
        BY <3>2, <4>2, ExceptSeq, LenProperties DEF TableOK
      <4> QED
        BY <1>10, <4>1, <4>2 DEF Register
    <3>4. sockets' \in [Sids -> SocketType]
      <4> DEFINE a == [sockets EXCEPT ![Sid(p)].state = {"created"}]
                 b == [a EXCEPT ![Sid(p)].conn = 0]
      <4>0. \A sock \in SocketType : /\ [sock EXCEPT !.conn = 0] \in SocketType
                                     /\ [sock EXCEPT !.read = 0] \in SocketType
        BY DEF SocketType
      <4>1. a \in [Sids -> SocketType]
        BY <3>2, SocketEdited, NewStates DEF TableOK
      <4>2. sockets' = [b EXCEPT ![Sid(p)].read = 0]
        BY <1>10 DEF Register, Publish
      <4> HIDE DEF a
      <4>3. b \in [Sids -> SocketType]
        BY <3>2, <4>0, <4>1
      <4> HIDE DEF b
      <4>4. [b EXCEPT ![Sid(p)].read = 0] \in [Sids -> SocketType]
        BY <3>2, <4>0, <4>3
      <4> QED
        BY <4>2, <4>4
    <3> QED
      BY <3>3, <3>4 DEF TableOK
  <2>2. FdsOK'
    BY <1>10 DEF Register, Publish, FdsOK
  <2>3. CallOK'
    BY <1>10 DEF Register, Publish, CallOK, Points, CriticalPoints, FdPoints, WaitPoints,
       HandPoints, Ops
  <2>4. QueuesOK'
    BY <1>10 DEF Register, Publish, QueuesOK
  <2> QED
    BY <2>1, <2>2, <2>3, <2>4
<1>11. ASSUME NEW p \in Tasks, Connected(p) PROVE TypeOK'
  <2>1. TableOK'
    <3>1. pc[p] \in FdPoints
      BY <1>11 DEF Connected, FdPoints, WaitPoints, Ops
    <3>2. Sid(p) \in Sids /\ sockets[Sid(p)] \in SocketType
      BY <3>1, AtSlot DEF Sock
    <3> QED
      BY <1>11, <3>2, SocketEdited, NewStates DEF Connected, TableOK
  <2>2. FdsOK'
    BY <1>11 DEF Connected, FdsOK
  <2>3. CallOK'
    BY <1>11 DEF Connected, CallOK, Points, CriticalPoints, FdPoints, WaitPoints, HandPoints, Ops
  <2>4. QueuesOK'
    BY <1>11 DEF Connected, QueuesOK
  <2> QED
    BY <2>1, <2>2, <2>3, <2>4
<1>12. ASSUME NEW p \in Tasks, WaitConnected(p) PROVE TypeOK'
  <2>1. TableOK'
    <3>1. pc[p] \in FdPoints
      BY <1>12 DEF WaitConnected, Wait, FdPoints, WaitPoints, Ops
    <3>2. Sid(p) \in Sids /\ sockets[Sid(p)] \in SocketType
      BY <3>1, AtSlot DEF Sock
    <3>3. sockets[Sid(p)].conn + 1 \in Int
      BY <3>2 DEF SocketType
    <3> QED
      BY <1>12, <3>2, <3>3, SocketEdited DEF WaitConnected, Wait, TableOK
  <2>2. FdsOK'
    BY <1>12 DEF WaitConnected, Wait, FdsOK
  <2>3. CallOK'
    BY <1>12 DEF WaitConnected, Wait, CallOK, Points, CriticalPoints, FdPoints, WaitPoints,
       HandPoints, Ops
  <2>4. QueuesOK'
    BY <1>12 DEF WaitConnected, Wait, QueuesOK
  <2> QED
    BY <2>1, <2>2, <2>3, <2>4
<1>13. ASSUME NEW p \in Tasks, WaitReadable(p) PROVE TypeOK'
  <2>1. TableOK'
    <3>1. pc[p] \in FdPoints
      BY <1>13 DEF WaitReadable, Wait, FdPoints, WaitPoints, Ops
    <3>2. Sid(p) \in Sids /\ sockets[Sid(p)] \in SocketType
      BY <3>1, AtSlot DEF Sock
    <3>3. sockets[Sid(p)].read + 1 \in Int
      BY <3>2 DEF SocketType
    <3> QED
      BY <1>13, <3>2, <3>3, SocketEdited DEF WaitReadable, Wait, TableOK
  <2>2. FdsOK'
    BY <1>13 DEF WaitReadable, Wait, FdsOK
  <2>3. CallOK'
    BY <1>13 DEF WaitReadable, Wait, CallOK, Points, CriticalPoints, FdPoints, WaitPoints,
       HandPoints, Ops
  <2>4. QueuesOK'
    BY <1>13 DEF WaitReadable, Wait, QueuesOK
  <2> QED
    BY <2>1, <2>2, <2>3, <2>4
<1>14. ASSUME NEW p \in Tasks, Write(p) PROVE TypeOK'
  <2>1. TableOK'
    BY <1>14 DEF Write, Transfer, Request, TableOK
  <2>2. FdsOK'
    BY <1>14 DEF Write, Transfer, Request, FdsOK
  <2>3. CallOK'
    <3>1. pc' = [pc EXCEPT ![p] = "write"] \/ pc' = [pc EXCEPT ![p] = "idle"]
      BY <1>14 DEF Write, Transfer, Request
    <3>2. "write" \in Points /\ "idle" \in Points
      BY DEF Points, CriticalPoints, FdPoints, WaitPoints, HandPoints, Ops
    <3>3. /\ critical' = [critical EXCEPT ![p] = TRUE] \/ UNCHANGED critical
          /\ fd' = [fd EXCEPT ![p] = 0] \/ UNCHANGED fd
          /\ UNCHANGED <<death, ret, owner, lost, torn>>
      BY <1>14 DEF Write, Transfer, Request
    <3>4. pc' \in [Tasks -> Points]
      BY <3>1, <3>2 DEF CallOK
    <3>5. critical' \in [Tasks -> BOOLEAN]
      BY <3>3 DEF CallOK
    <3>6. fd' \in [Tasks -> Nat]
      BY <3>3 DEF CallOK
    <3> QED
      BY <3>3, <3>4, <3>5, <3>6 DEF CallOK
  <2>4. QueuesOK'
    <3>1. pc[p] \in FdPoints
      BY <1>14 DEF Write, Transfer, FdPoints, WaitPoints, Ops
    <3>2. \/ Request(p, "write_go", "write", Sock(p).fd) /\ UNCHANGED messages
          \/ UNCHANGED <<requests, messages>>
      BY <1>14 DEF Write, Transfer
    <3>3. CASE UNCHANGED <<requests, messages>>
      BY <3>3 DEF QueuesOK
    <3> QED
      BY <3>1, <3>2, <3>3, AtSlot, RequestTyped DEF Request, Ops
  <2> QED
    BY <2>1, <2>2, <2>3, <2>4
<1>15. ASSUME NEW p \in Tasks, Read(p) PROVE TypeOK'
  <2>1. TableOK'
    BY <1>15 DEF Read, Transfer, Request, TableOK
  <2>2. FdsOK'
    BY <1>15 DEF Read, Transfer, Request, FdsOK
  <2>3. CallOK'
    <3>1. pc' = [pc EXCEPT ![p] = "read"] \/ pc' = [pc EXCEPT ![p] = "idle"]
      BY <1>15 DEF Read, Transfer, Request
    <3>2. "read" \in Points /\ "idle" \in Points
      BY DEF Points, CriticalPoints, FdPoints, WaitPoints, HandPoints, Ops
    <3>3. /\ critical' = [critical EXCEPT ![p] = TRUE] \/ UNCHANGED critical
          /\ fd' = [fd EXCEPT ![p] = 0] \/ UNCHANGED fd
          /\ UNCHANGED <<death, ret, owner, lost, torn>>
      BY <1>15 DEF Read, Transfer, Request
    <3>4. pc' \in [Tasks -> Points]
      BY <3>1, <3>2 DEF CallOK
    <3>5. critical' \in [Tasks -> BOOLEAN]
      BY <3>3 DEF CallOK
    <3>6. fd' \in [Tasks -> Nat]
      BY <3>3 DEF CallOK
    <3> QED
      BY <3>3, <3>4, <3>5, <3>6 DEF CallOK
  <2>4. QueuesOK'
    <3>1. pc[p] \in FdPoints
      BY <1>15 DEF Read, Transfer, FdPoints, WaitPoints, Ops
    <3>2. \/ Request(p, "read_go", "read", Sock(p).fd) /\ UNCHANGED messages
          \/ UNCHANGED <<requests, messages>>
      BY <1>15 DEF Read, Transfer
    <3>3. CASE UNCHANGED <<requests, messages>>
      BY <3>3 DEF QueuesOK
    <3> QED
      BY <3>1, <3>2, <3>3, AtSlot, RequestTyped DEF Request, Ops
  <2> QED
    BY <2>1, <2>2, <2>3, <2>4
<1>16. ASSUME NEW p \in Tasks, Transferred(p) PROVE TypeOK'
  <2>1. TableOK'
    BY <1>16 DEF Transferred, TableOK
  <2>2. FdsOK'
    BY <1>16 DEF Transferred, FdsOK
  <2>3. CallOK'
    BY <1>16 DEF Transferred, CallOK, Points, CriticalPoints, FdPoints, WaitPoints, HandPoints,
       Ops
  <2>4. QueuesOK'
    BY <1>16 DEF Transferred, QueuesOK
  <2> QED
    BY <2>1, <2>2, <2>3, <2>4
<1>17. ASSUME NEW p \in Tasks, FreeSlot(p) PROVE TypeOK'
  <2>1. TableOK'
    <3>1. pc[p] \in FdPoints
      BY <1>17 DEF FreeSlot, FdPoints, WaitPoints, Ops
    <3>2. Sid(p) \in Sids /\ sockets[Sid(p)] \in SocketType
      BY <3>1, AtSlot DEF Sock
    <3>3. handlers' \in Seq(Sids \cup {NoSid})
      <4>1. handlers \in Seq(Sids \cup {NoSid}) /\ DOMAIN handlers = 1..Len(handlers)
        BY LenProperties DEF TableOK
      <4>2. Sid(p) \in 1..Len(handlers) =>
              [handlers EXCEPT ![Sid(p)] = NoSid] \in Seq(Sids \cup {NoSid})
        BY <4>1, ExceptSeq
      <4> QED
        BY <1>17, <4>1, <4>2 DEF FreeSlot
    <3>4. NewSocket \in SocketType
      BY DEF NewSocket, SocketType
    <3> QED
      BY <1>17, <3>2, <3>3, <3>4 DEF FreeSlot, TableOK
  <2>2. FdsOK'
    BY <1>17 DEF FreeSlot, FdsOK
  <2>3. CallOK'
    BY <1>17 DEF FreeSlot, CallOK, Points, CriticalPoints, FdPoints, WaitPoints, HandPoints, Ops
  <2>4. QueuesOK'
    BY <1>17 DEF FreeSlot, QueuesOK
  <2> QED
    BY <2>1, <2>2, <2>3, <2>4
<1>18. ASSUME NEW p \in Tasks, CloseEnd(p) PROVE TypeOK'
  <2>1. TableOK'
    BY <1>18 DEF CloseEnd, TableOK
  <2>2. FdsOK'
    <3>1. pc[p] \in FdPoints
      BY <1>18 DEF CloseEnd, FdPoints, WaitPoints, Ops
    <3>2. fds' = [fds EXCEPT ![p][fd[p]] = NoSid]
      BY <1>18 DEF CloseEnd
    <3>3. [fds[p] EXCEPT ![fd[p]] = NoSid] \in Seq(Sids \cup {NoSid})
      BY <3>1, AtSlot, ExceptSeq
    <3> QED
      BY <3>2, <3>3 DEF FdsOK
  <2>3. CallOK'
    BY <1>18 DEF CloseEnd, CallOK, Points, CriticalPoints, FdPoints, WaitPoints, HandPoints, Ops
  <2>4. QueuesOK'
    BY <1>18 DEF CloseEnd, QueuesOK
  <2> QED
    BY <2>1, <2>2, <2>3, <2>4
<1>19. ASSUME NEW p \in Tasks, OnClose(p) PROVE TypeOK'
  <2>1. TableOK'
    BY <1>19 DEF OnClose, Close, Open, Request, TableOK
  <2>2. FdsOK'
    BY <1>19 DEF OnClose, Close, Open, Request, FdsOK
  <2>3. CallOK'
    <3>1. PICK f \in Descriptors(p) : fd' = [fd EXCEPT ![p] = f]
      BY <1>19 DEF OnClose, Close, Open, Request
    <3>2. fd' \in [Tasks -> Nat]
      BY <3>1, Slot DEF CallOK
    <3> QED
      <4>1. PICK to \in {"close", "close_end"} : pc' = [pc EXCEPT ![p] = to]
        BY <1>19 DEF OnClose, Close, Open, Request
      <4>2. to \in Points
        BY DEF Points, CriticalPoints, FdPoints, Ops
      <4>3. /\ critical' = critical \/ critical' = [critical EXCEPT ![p] = TRUE]
            /\ UNCHANGED <<death, ret, owner, lost, torn>>
        BY <1>19 DEF OnClose, Close, Open, Request
      <4> QED
        BY <3>2, <4>1, <4>2, <4>3 DEF CallOK
  <2>4. QueuesOK'
    <3>1. PICK f \in Descriptors(p) :
            \/ Request(p, "on_close", "close", Number(p, f)) /\ UNCHANGED messages
            \/ UNCHANGED <<requests, messages>>
      BY <1>19 DEF OnClose, Close, Open, Number
    <3>2. CASE UNCHANGED <<requests, messages>>
      BY <3>2 DEF QueuesOK
    <3> QED
      BY <3>1, <3>2, Slot, RequestTyped DEF Request, Ops
  <2> QED
    BY <2>1, <2>2, <2>3, <2>4
<1>20. ASSUME NEW p \in Tasks, OnCloseEnds(p) PROVE TypeOK'
  <2>1. TableOK'
    BY <1>20 DEF OnCloseEnds, TableOK
  <2>2. FdsOK'
    BY <1>20 DEF OnCloseEnds, FdsOK
  <2>3. CallOK'
    BY <1>20 DEF OnCloseEnds, CallOK, Points, CriticalPoints, FdPoints, WaitPoints, HandPoints,
       Ops
  <2>4. QueuesOK'
    BY <1>20 DEF OnCloseEnds, QueuesOK
  <2> QED
    BY <2>1, <2>2, <2>3, <2>4
<1>21. ASSUME NEW p \in Tasks, Reset(p) PROVE TypeOK'
  <2>1. TableOK'
    BY <1>21 DEF Reset, Dies, TableOK
  <2>2. FdsOK'
    BY <1>21 DEF Reset, Dies, FdsOK
  <2>3. CallOK'
    BY <1>21 DEF Reset, Dies, CallOK, Points, CriticalPoints, FdPoints, WaitPoints, HandPoints,
       Ops
  <2>4. QueuesOK'
    BY <1>21 DEF Reset, Dies, QueuesOK
  <2> QED
    BY <2>1, <2>2, <2>3, <2>4
<1>22. CASE HelperSocket
  <2>1. TableOK'
    BY <1>22 DEF HelperSocket, Answer, TableOK
  <2>2. FdsOK'
    BY <1>22 DEF HelperSocket, Answer, FdsOK
  <2>3. CallOK'
    <3>1. Answer("socket", "made") /\ "socket" \in Ops /\ "made" \in Points \ Ops
      BY <1>22 DEF HelperSocket, Points, CriticalPoints, FdPoints, WaitPoints, HandPoints, Ops
    <3>2. /\ Head(requests).proc \in Tasks /\ Head(requests).number \in Numbers \cup {NoNumber}
          /\ pc' = [pc EXCEPT ![Head(requests).proc] = "made"]
      BY <3>1, Answered
    <3>3. pc' \in [Tasks -> Points]
      BY <3>1, <3>2 DEF CallOK
    <3>4. ret' \in [Tasks -> Numbers \cup {NoNumber}] /\ owner' \in [Numbers -> Tasks \cup {NoTask}]
      BY <1>22, <3>2 DEF HelperSocket, CallOK
    <3> QED
      BY <3>1, <3>3, <3>4 DEF Answer, CallOK
  <2>4. QueuesOK'
    <3>1. Answer("socket", "made") /\ "socket" \in Ops /\ "made" \in Points \ Ops
      BY <1>22 DEF HelperSocket, Points, CriticalPoints, FdPoints, WaitPoints, HandPoints, Ops
    <3>2. requests' \in Seq(RequestType) /\ Head(requests).number \in Numbers \cup {NoNumber}
      BY <3>1, Answered
    <3>3. messages' \in Seq(MessageType)
      BY <1>22, <3>2, MessageTyped DEF HelperSocket, Kinds, QueuesOK
    <3> QED
      BY <3>2, <3>3 DEF QueuesOK
  <2> QED
    BY <2>1, <2>2, <2>3, <2>4
<1>23. CASE HelperConnect
  <2>1. TableOK'
    BY <1>23 DEF HelperConnect, Answer, TableOK
  <2>2. FdsOK'
    BY <1>23 DEF HelperConnect, Answer, FdsOK
  <2>3. CallOK'
    <3>1. Answer("connect", "connect_done") /\ "connect" \in Ops /\ "connect_done" \in Points \ Ops
      BY <1>23 DEF HelperConnect, Points, CriticalPoints, FdPoints, WaitPoints, HandPoints, Ops
    <3>2. /\ Head(requests).proc \in Tasks /\ Head(requests).number \in Numbers \cup {NoNumber}
          /\ pc' = [pc EXCEPT ![Head(requests).proc] = "connect_done"]
      BY <3>1, Answered
    <3>3. pc' \in [Tasks -> Points]
      BY <3>1, <3>2 DEF CallOK
    <3>4. ret' \in [Tasks -> Numbers \cup {NoNumber}] /\ owner' \in [Numbers -> Tasks \cup {NoTask}]
      BY <1>23, <3>2 DEF HelperConnect, CallOK
    <3> QED
      BY <3>1, <3>3, <3>4 DEF Answer, CallOK
  <2>4. QueuesOK'
    <3>1. Answer("connect", "connect_done") /\ "connect" \in Ops /\ "connect_done" \in Points \ Ops
      BY <1>23 DEF HelperConnect, Points, CriticalPoints, FdPoints, WaitPoints, HandPoints, Ops
    <3>2. requests' \in Seq(RequestType) /\ Head(requests).number \in Numbers \cup {NoNumber}
      BY <3>1, Answered
    <3>3. messages' \in Seq(MessageType)
      BY <1>23, <3>2, MessageTyped DEF HelperConnect, Kinds, QueuesOK
    <3> QED
      BY <3>2, <3>3 DEF QueuesOK
  <2> QED
    BY <2>1, <2>2, <2>3, <2>4
<1>24. CASE HelperWrite
  <2>1. TableOK'
    BY <1>24 DEF HelperWrite, Answer, TableOK
  <2>2. FdsOK'
    BY <1>24 DEF HelperWrite, Answer, FdsOK
  <2>3. CallOK'
    <3>1. Answer("write", "done") /\ "write" \in Ops /\ "done" \in Points \ Ops
      BY <1>24 DEF HelperWrite, Points, CriticalPoints, FdPoints, WaitPoints, HandPoints, Ops
    <3>2. /\ Head(requests).proc \in Tasks /\ Head(requests).number \in Numbers \cup {NoNumber}
          /\ pc' = [pc EXCEPT ![Head(requests).proc] = "done"]
      BY <3>1, Answered
    <3>3. pc' \in [Tasks -> Points]
      BY <3>1, <3>2 DEF CallOK
    <3>4. ret' \in [Tasks -> Numbers \cup {NoNumber}] /\ owner' \in [Numbers -> Tasks \cup {NoTask}]
      BY <1>24, <3>2 DEF HelperWrite, CallOK
    <3> QED
      BY <3>1, <3>3, <3>4 DEF Answer, CallOK
  <2>4. QueuesOK'
    <3>1. Answer("write", "done") /\ "write" \in Ops /\ "done" \in Points \ Ops
      BY <1>24 DEF HelperWrite, Points, CriticalPoints, FdPoints, WaitPoints, HandPoints, Ops
    <3>2. requests' \in Seq(RequestType) /\ Head(requests).number \in Numbers \cup {NoNumber}
      BY <3>1, Answered
    <3>3. messages' \in Seq(MessageType)
      BY <1>24, <3>2, MessageTyped DEF HelperWrite, Kinds, QueuesOK
    <3> QED
      BY <3>2, <3>3 DEF QueuesOK
  <2> QED
    BY <2>1, <2>2, <2>3, <2>4
<1>25. CASE HelperRead
  <2>1. TableOK'
    BY <1>25 DEF HelperRead, Answer, TableOK
  <2>2. FdsOK'
    BY <1>25 DEF HelperRead, Answer, FdsOK
  <2>3. CallOK'
    <3>1. Answer("read", "done") /\ "read" \in Ops /\ "done" \in Points \ Ops
      BY <1>25 DEF HelperRead, Points, CriticalPoints, FdPoints, WaitPoints, HandPoints, Ops
    <3>2. /\ Head(requests).proc \in Tasks /\ Head(requests).number \in Numbers \cup {NoNumber}
          /\ pc' = [pc EXCEPT ![Head(requests).proc] = "done"]
      BY <3>1, Answered
    <3>3. pc' \in [Tasks -> Points]
      BY <3>1, <3>2 DEF CallOK
    <3>4. ret' \in [Tasks -> Numbers \cup {NoNumber}] /\ owner' \in [Numbers -> Tasks \cup {NoTask}]
      BY <1>25, <3>2 DEF HelperRead, CallOK
    <3> QED
      BY <3>1, <3>3, <3>4 DEF Answer, CallOK
  <2>4. QueuesOK'
    <3>1. Answer("read", "done") /\ "read" \in Ops /\ "done" \in Points \ Ops
      BY <1>25 DEF HelperRead, Points, CriticalPoints, FdPoints, WaitPoints, HandPoints, Ops
    <3>2. requests' \in Seq(RequestType) /\ Head(requests).number \in Numbers \cup {NoNumber}
      BY <3>1, Answered
    <3>3. messages' \in Seq(MessageType)
      BY <1>25, <3>2, MessageTyped DEF HelperRead, Kinds, QueuesOK
    <3> QED
      BY <3>2, <3>3 DEF QueuesOK
  <2> QED
    BY <2>1, <2>2, <2>3, <2>4
<1>26. CASE HelperClose
  <2>1. TableOK'
    BY <1>26 DEF HelperClose, Answer, TableOK
  <2>2. FdsOK'
    BY <1>26 DEF HelperClose, Answer, FdsOK
  <2>3. CallOK'
    <3>1. Answer("close", "closed") /\ "close" \in Ops /\ "closed" \in Points \ Ops
      BY <1>26 DEF HelperClose, Points, CriticalPoints, FdPoints, WaitPoints, HandPoints, Ops
    <3>2. /\ Head(requests).proc \in Tasks /\ Head(requests).number \in Numbers \cup {NoNumber}
          /\ pc' = [pc EXCEPT ![Head(requests).proc] = "closed"]
      BY <3>1, Answered
    <3>3. pc' \in [Tasks -> Points]
      BY <3>1, <3>2 DEF CallOK
    <3>4. ret' \in [Tasks -> Numbers \cup {NoNumber}] /\ owner' \in [Numbers -> Tasks \cup {NoTask}]
      BY <1>26, <3>2 DEF HelperClose, CallOK
    <3> QED
      BY <3>1, <3>3, <3>4 DEF Answer, CallOK
  <2>4. QueuesOK'
    <3>1. Answer("close", "closed") /\ "close" \in Ops /\ "closed" \in Points \ Ops
      BY <1>26 DEF HelperClose, Points, CriticalPoints, FdPoints, WaitPoints, HandPoints, Ops
    <3>2. requests' \in Seq(RequestType) /\ Head(requests).number \in Numbers \cup {NoNumber}
      BY <3>1, Answered
    <3>3. messages' \in Seq(MessageType)
      BY <1>26, <3>2, MessageTyped DEF HelperClose, Kinds, QueuesOK
    <3> QED
      BY <3>2, <3>3 DEF QueuesOK
  <2> QED
    BY <2>1, <2>2, <2>3, <2>4
<1>27. CASE Deliver
  <2>1. TableOK'
    <3>1. messages[1] \in MessageType /\ Head(messages) = messages[1]
      <4>1. messages # << >> /\ messages \in Seq(MessageType)
        BY <1>27 DEF Deliver, QueuesOK
      <4> QED
        BY <4>1, TailFacts
    <3>2. \A s \in Sids : sockets'[s] \in {sockets[s], Handled(sockets[s], messages[1].kind)}
      BY <1>27, <3>1 DEF Deliver
    <3>3. sockets' = [s \in Sids |-> sockets'[s]] /\ UNCHANGED handlers
      BY <1>27 DEF Deliver
    <3>4. messages[1].kind \in Kinds
      BY <3>1 DEF MessageType
    <3>5. ASSUME NEW s \in Sids PROVE sockets'[s] \in SocketType
      <4>1. sockets[s] \in SocketType
        BY DEF TableOK
      <4>2. Handled(sockets[s], messages[1].kind) \in SocketType
        BY <3>4, <4>1, HandledTyped
      <4> QED
        BY <3>2, <4>1, <4>2
    <3> QED
      BY <3>3, <3>5 DEF TableOK
  <2>2. FdsOK'
    BY <1>27 DEF Deliver, Handled, HandleConnected, HandleData, HandleClosed, wakeOne, wakeAll,
       FdsOK
  <2>3. CallOK'
    BY <1>27 DEF Deliver, Handled, HandleConnected, HandleData, HandleClosed, wakeOne, wakeAll,
       CallOK, Points, CriticalPoints, FdPoints, WaitPoints, HandPoints, Ops
  <2>4. QueuesOK'
    BY <1>27, TailFacts DEF Deliver, QueuesOK
  <2> QED
    BY <2>1, <2>2, <2>3, <2>4
<1>28. ASSUME NEW n \in Numbers, Change(n) PROVE TypeOK'
  <2>1. TableOK'
    BY <1>28 DEF Change, TableOK
  <2>2. FdsOK'
    BY <1>28 DEF Change, FdsOK
  <2>3. CallOK'
    BY <1>28 DEF Change, CallOK, Points, CriticalPoints, FdPoints, WaitPoints, HandPoints, Ops
  <2>4. QueuesOK'
    BY <1>28, MessageTyped DEF Change, Kinds, QueuesOK
  <2> QED
    BY <2>1, <2>2, <2>3, <2>4
<1>29. CASE UNCHANGED vars
  BY <1>29 DEF TableOK, FdsOK, CallOK, QueuesOK
<1> QED
  BY <1>1, <1>2, <1>3, <1>4, <1>5, <1>6, <1>7, <1>8, <1>9, <1>10, <1>11, <1>12, <1>13, <1>14,
     <1>15, <1>16, <1>17, <1>18, <1>19, <1>20, <1>21, <1>22, <1>23, <1>24, <1>25, <1>26, <1>27,
     <1>28, <1>29 DEF Next, Proceed, HelperRuns

\* close_fd empties the cell it is at.
LEMMA ClosedCell ==
  ASSUME SocketAssumption, TypeOK, CallExact, NEW p \in Tasks, CloseEnd(p)
  PROVE  /\ Descriptors(p)' = Descriptors(p) \ {fd[p]}
         /\ \A f \in Descriptors(p)' : fds'[p][f] = fds[p][f]
         /\ \A q \in Tasks \ {p} : fds'[q] = fds[q]
<1>1. fd[p] \in 1..Len(fds[p]) /\ fds[p] \in Seq(Sids \cup {NoSid})
  BY AtSlot DEF CloseEnd, Goto, Return, FdPoints
<1>2. fds' = [fds EXCEPT ![p][fd[p]] = NoSid]
  BY DEF CloseEnd
<1>3. fds'[p] = [fds[p] EXCEPT ![fd[p]] = NoSid] /\ DOMAIN fds'[p] = DOMAIN fds[p]
  BY <1>2 DEF TypeOK, FdsOK
<1> QED
  BY <1>1, <1>2, <1>3, LenProperties DEF Descriptors, TypeOK, FdsOK

\* A process whose own state stays knows of itself what it knew.
LEMMA OthersStay ==
  ASSUME CallExact, DyingExact, NEW q \in Tasks,
         pc'[q] = pc[q], fd'[q] = fd[q], fds'[q] = fds[q], critical'[q] = critical[q],
         death'[q] = death[q], ret'[q] = ret[q]
  PROVE  CallAt(q)' /\ DyingAt(q)'
BY DEF CallExact, CallAt, DyingExact, DyingAt, Descriptors

\* Nothing is asked of a process that goes on and is not to die.
LEMMA AliveStays ==
  ASSUME DyingExact, NEW p \in Tasks, pc[p] \notin DyingPoints, death'[p] = death[p],
         pc'[p] \notin {"on_close", "dead"}
  PROVE  DyingAt(p)'
BY DEF DyingExact, DyingAt

\* Every step keeps the requests in order, and what each process knows of itself.
LEMMA PointsPreserved ==
  ASSUME SocketAssumption, NucleusAssumption, IndInv, [Next]_vars, TypeOK'
  PROVE  RequestsExact' /\ CallExact' /\ DyingExact'
<1> USE Constants DEF IndInv, Goto, Return, Block, Leave, table, process, firmware, history, vars,
  CriticalPoints, FdPoints, WaitPoints, HandPoints, Ops, DyingPoints
<1>1. ASSUME NEW p \in Tasks, CallSocket(p) PROVE RequestsExact' /\ CallExact' /\ DyingExact'
  <2>1. RequestsExact'
    <3>1. CASE UNCHANGED requests
      BY <1>1, <3>1, RequestsStay DEF CallSocket, Request, TypeOK, CallOK
    <3>2. CASE ~UNCHANGED requests
      <4>1. PICK n \in Numbers \cup {NoNumber} : Request(p, pc[p], "socket", n)
        BY <1>1, <3>2, Slot, AtSlot DEF CallSocket, Request, Number
      <4>2. pc[p] \notin Ops
        BY <1>1 DEF CallSocket, Request
      <4> QED
        BY <4>1, <4>2, Asked DEF Request
    <3> QED
      BY <3>1, <3>2
  <2>2. CallExact'
    BY <1>1 DEF CallSocket, Request, CallExact, CallAt, Descriptors, TypeOK, CallOK, FdsOK
  <2>3. DyingExact'
    BY <1>1 DEF CallSocket, Request, DyingExact, DyingAt, Descriptors, TypeOK, CallOK, FdsOK
  <2> QED
    BY <2>1, <2>2, <2>3
<1>2. ASSUME NEW p \in Tasks, CallConnect(p) PROVE RequestsExact' /\ CallExact' /\ DyingExact'
  <2>1. RequestsExact'
    <3>1. CASE UNCHANGED requests
      BY <1>2, <3>1, RequestsStay DEF CallConnect, Request, TypeOK, CallOK
    <3>2. CASE ~UNCHANGED requests
      <4>1. PICK n \in Numbers \cup {NoNumber} : Request(p, pc[p], "connect", n)
        BY <1>2, <3>2, Slot, AtSlot DEF CallConnect, Request, Number
      <4>2. pc[p] \notin Ops
        BY <1>2 DEF CallConnect, Request
      <4> QED
        BY <4>1, <4>2, Asked DEF Request
    <3> QED
      BY <3>1, <3>2
  <2>2. CallExact'
    BY <1>2 DEF CallConnect, Request, CallExact, CallAt, Descriptors, TypeOK, CallOK, FdsOK
  <2>3. DyingExact'
    BY <1>2 DEF CallConnect, Request, DyingExact, DyingAt, Descriptors, TypeOK, CallOK, FdsOK
  <2> QED
    BY <2>1, <2>2, <2>3
<1>3. ASSUME NEW p \in Tasks, CallTransfer(p) PROVE RequestsExact' /\ CallExact' /\ DyingExact'
  <2>1. RequestsExact'
    BY <1>3, RequestsStay DEF CallTransfer, TypeOK, CallOK
  <2>2. CallExact'
    BY <1>3 DEF CallTransfer, CallExact, CallAt, Descriptors, TypeOK, CallOK, FdsOK
  <2>3. DyingExact'
    <3>1. DyingAt(p)'
      <4>1. /\ pc[p] \notin DyingPoints /\ death'[p] = death[p]
            /\ pc'[p] \notin {"on_close", "dead"}
        BY <1>3 DEF CallTransfer, TypeOK, CallOK
      <4> QED
        BY <4>1, AliveStays
    <3>2. ASSUME NEW q \in Tasks, q # p PROVE DyingAt(q)'
      BY <1>3, <3>2, OthersStay DEF CallTransfer, TypeOK, CallOK, FdsOK
    <3> QED
      BY <3>1, <3>2 DEF DyingExact
  <2> QED
    BY <2>1, <2>2, <2>3
<1>4. ASSUME NEW p \in Tasks, CallClose(p) PROVE RequestsExact' /\ CallExact' /\ DyingExact'
  <2>1. RequestsExact'
    <3>1. CASE UNCHANGED requests
      BY <1>4, <3>1, RequestsStay DEF CallClose, Close, Request, TypeOK, CallOK
    <3>2. CASE ~UNCHANGED requests
      <4>1. PICK n \in Numbers \cup {NoNumber} : Request(p, pc[p], "close", n)
        BY <1>4, <3>2, Slot, AtSlot DEF CallClose, Close, Request, Number
      <4>2. pc[p] \notin Ops
        BY <1>4 DEF CallClose, Close, Request
      <4> QED
        BY <4>1, <4>2, Asked DEF Request
    <3> QED
      BY <3>1, <3>2
  <2>2. CallExact'
    BY <1>4 DEF CallClose, Close, Request, CallExact, CallAt, Descriptors, TypeOK, CallOK, FdsOK
  <2>3. DyingExact'
    <3>1. DyingAt(p)'
      <4>1. /\ pc[p] \notin DyingPoints /\ pc'[p] \in {"close", "close_end"}
            /\ UNCHANGED <<death, fds>>
        BY <1>4 DEF CallClose, Close, Request, TypeOK, CallOK
      <4> QED
        BY <4>1 DEF DyingExact, DyingAt, Descriptors
    <3>2. ASSUME NEW q \in Tasks, q # p PROVE DyingAt(q)'
      BY <1>4, <3>2, OthersStay DEF CallClose, Close, Request, TypeOK, CallOK, FdsOK
    <3> QED
      BY <3>1, <3>2 DEF DyingExact
  <2> QED
    BY <2>1, <2>2, <2>3
<1>5. ASSUME NEW p \in Tasks, Exit(p) PROVE RequestsExact' /\ CallExact' /\ DyingExact'
  <2>1. RequestsExact'
    BY <1>5, RequestsStay DEF Exit, Dies, TypeOK, CallOK
  <2>2. CallExact'
    BY <1>5 DEF Exit, Dies, CallExact, CallAt, Descriptors, TypeOK, CallOK, FdsOK
  <2>3. DyingExact'
    BY <1>5 DEF Exit, Dies, DyingExact, DyingAt, Descriptors, TypeOK, CallOK, FdsOK
  <2> QED
    BY <2>1, <2>2, <2>3
<1>6. ASSUME NEW p \in Tasks, Kill(p) PROVE RequestsExact' /\ CallExact' /\ DyingExact'
  <2>1. RequestsExact'
    BY <1>6, RequestsStay DEF Kill, TypeOK, CallOK
  <2>2. CallExact'
    BY <1>6 DEF Kill, CallExact, CallAt, Descriptors, TypeOK, CallOK, FdsOK
  <2>3. DyingExact'
    BY <1>6 DEF Kill, DyingExact, DyingAt, Descriptors, TypeOK, CallOK, FdsOK
  <2> QED
    BY <2>1, <2>2, <2>3
<1>7. ASSUME NEW p \in Tasks, SocketMade(p) PROVE RequestsExact' /\ CallExact' /\ DyingExact'
  <2>1. RequestsExact'
    BY <1>7, RequestsStay DEF SocketMade, TypeOK, CallOK
  <2>2. CallExact'
    <3>1. CallAt(p)'
      BY <1>7 DEF SocketMade, CallExact, CallAt, Descriptors, TypeOK, CallOK, FdsOK
    <3>2. ASSUME NEW q \in Tasks, q # p PROVE CallAt(q)'
      BY <1>7, <3>2, OthersStay DEF SocketMade, TypeOK, CallOK, FdsOK
    <3> QED
      BY <3>1, <3>2 DEF CallExact
  <2>3. DyingExact'
    <3>1. DyingAt(p)'
      <4>1. /\ pc[p] \notin DyingPoints /\ death'[p] = death[p]
            /\ pc'[p] \notin {"on_close", "dead"}
        BY <1>7 DEF SocketMade, TypeOK, CallOK
      <4> QED
        BY <4>1, AliveStays
    <3>2. ASSUME NEW q \in Tasks, q # p PROVE DyingAt(q)'
      BY <1>7, <3>2, OthersStay DEF SocketMade, TypeOK, CallOK, FdsOK
    <3> QED
      BY <3>1, <3>2 DEF DyingExact
  <2> QED
    BY <2>1, <2>2, <2>3
<1>8. ASSUME NEW p \in Tasks, OpenFd(p) PROVE RequestsExact' /\ CallExact' /\ DyingExact'
  <2>1. RequestsExact'
    BY <1>8, RequestsStay DEF OpenFd, TypeOK, CallOK
  <2>2. CallExact'
    <3>1. CallAt(p)'
      BY <1>8, OpenedCell DEF OpenFd, CallExact, CallAt, TypeOK, CallOK
    <3>2. ASSUME NEW q \in Tasks, q # p PROVE CallAt(q)'
      BY <1>8, <3>2, OthersStay DEF OpenFd, TypeOK, CallOK, FdsOK
    <3> QED
      BY <3>1, <3>2 DEF CallExact
  <2>3. DyingExact'
    <3>1. DyingAt(p)'
      <4>1. /\ pc[p] \notin DyingPoints /\ death'[p] = death[p]
            /\ pc'[p] \notin {"on_close", "dead"}
        BY <1>8 DEF OpenFd, TypeOK, CallOK
      <4> QED
        BY <4>1, AliveStays
    <3>2. ASSUME NEW q \in Tasks, q # p PROVE DyingAt(q)'
      BY <1>8, <3>2, OthersStay DEF OpenFd, TypeOK, CallOK, FdsOK
    <3> QED
      BY <3>1, <3>2 DEF DyingExact
  <2> QED
    BY <2>1, <2>2, <2>3
<1>9. ASSUME NEW p \in Tasks, TakeSlot(p) PROVE RequestsExact' /\ CallExact' /\ DyingExact'
  <2>1. RequestsExact'
    BY <1>9, RequestsStay DEF TakeSlot, TypeOK, CallOK
  <2>2. CallExact'
    BY <1>9 DEF TakeSlot, CallExact, CallAt, Descriptors, TypeOK, CallOK, FdsOK
  <2>3. DyingExact'
    BY <1>9 DEF TakeSlot, DyingExact, DyingAt, Descriptors, TypeOK, CallOK, FdsOK
  <2> QED
    BY <2>1, <2>2, <2>3
<1>10. ASSUME NEW p \in Tasks, Register(p) PROVE RequestsExact' /\ CallExact' /\ DyingExact'
  <2>1. RequestsExact'
    BY <1>10, RequestsStay DEF Register, Publish, TypeOK, CallOK
  <2>2. CallExact'
    BY <1>10 DEF Register, Publish, CallExact, CallAt, Descriptors, TypeOK, CallOK, FdsOK
  <2>3. DyingExact'
    BY <1>10 DEF Register, Publish, DyingExact, DyingAt, Descriptors, TypeOK, CallOK, FdsOK
  <2> QED
    BY <2>1, <2>2, <2>3
<1>11. ASSUME NEW p \in Tasks, Connected(p) PROVE RequestsExact' /\ CallExact' /\ DyingExact'
  <2>1. RequestsExact'
    BY <1>11, RequestsStay DEF Connected, TypeOK, CallOK
  <2>2. CallExact'
    BY <1>11 DEF Connected, CallExact, CallAt, Descriptors, TypeOK, CallOK, FdsOK
  <2>3. DyingExact'
    BY <1>11 DEF Connected, DyingExact, DyingAt, Descriptors, TypeOK, CallOK, FdsOK
  <2> QED
    BY <2>1, <2>2, <2>3
<1>12. ASSUME NEW p \in Tasks, WaitConnected(p) PROVE RequestsExact' /\ CallExact' /\ DyingExact'
  <2>1. RequestsExact'
    BY <1>12, RequestsStay DEF WaitConnected, Wait, TypeOK, CallOK
  <2>2. CallExact'
    BY <1>12 DEF WaitConnected, Wait, CallExact, CallAt, Descriptors, TypeOK, CallOK, FdsOK
  <2>3. DyingExact'
    <3>1. DyingAt(p)'
      <4>1. /\ pc[p] \notin DyingPoints /\ pc'[p] \in WaitPoints
            /\ UNCHANGED <<death, fds, fd, critical>>
        BY <1>12 DEF WaitConnected, Wait, TypeOK, CallOK
      <4> QED
        BY <4>1 DEF DyingExact, DyingAt, Descriptors
    <3>2. ASSUME NEW q \in Tasks, q # p PROVE DyingAt(q)'
      BY <1>12, <3>2, OthersStay DEF WaitConnected, Wait, TypeOK, CallOK, FdsOK
    <3> QED
      BY <3>1, <3>2 DEF DyingExact
  <2> QED
    BY <2>1, <2>2, <2>3
<1>13. ASSUME NEW p \in Tasks, WaitReadable(p) PROVE RequestsExact' /\ CallExact' /\ DyingExact'
  <2>1. RequestsExact'
    BY <1>13, RequestsStay DEF WaitReadable, Wait, TypeOK, CallOK
  <2>2. CallExact'
    BY <1>13 DEF WaitReadable, Wait, CallExact, CallAt, Descriptors, TypeOK, CallOK, FdsOK
  <2>3. DyingExact'
    <3>1. DyingAt(p)'
      <4>1. /\ pc[p] \notin DyingPoints /\ pc'[p] \in WaitPoints
            /\ UNCHANGED <<death, fds, fd, critical>>
        BY <1>13 DEF WaitReadable, Wait, TypeOK, CallOK
      <4> QED
        BY <4>1 DEF DyingExact, DyingAt, Descriptors
    <3>2. ASSUME NEW q \in Tasks, q # p PROVE DyingAt(q)'
      BY <1>13, <3>2, OthersStay DEF WaitReadable, Wait, TypeOK, CallOK, FdsOK
    <3> QED
      BY <3>1, <3>2 DEF DyingExact
  <2> QED
    BY <2>1, <2>2, <2>3
<1>14. ASSUME NEW p \in Tasks, Write(p) PROVE RequestsExact' /\ CallExact' /\ DyingExact'
  <2>1. RequestsExact'
    <3>1. CASE UNCHANGED requests
      BY <1>14, <3>1, RequestsStay DEF Write, Transfer, Request, TypeOK, CallOK
    <3>2. CASE ~UNCHANGED requests
      <4>1. PICK n \in Numbers \cup {NoNumber} : Request(p, pc[p], "write", n)
        BY <1>14, <3>2, Slot, AtSlot DEF Write, Transfer, Request, Number
      <4>2. pc[p] \notin Ops
        BY <1>14 DEF Write, Transfer, Request
      <4> QED
        BY <4>1, <4>2, Asked DEF Request
    <3> QED
      BY <3>1, <3>2
  <2>2. CallExact'
    <3>1. CallAt(p)'
      BY <1>14 DEF Write, Transfer, Request, CallExact, CallAt, Descriptors, TypeOK, CallOK, FdsOK
    <3>2. ASSUME NEW q \in Tasks, q # p PROVE CallAt(q)'
      BY <1>14, <3>2, OthersStay DEF Write, Transfer, Request, TypeOK, CallOK, FdsOK
    <3> QED
      BY <3>1, <3>2 DEF CallExact
  <2>3. DyingExact'
    <3>1. DyingAt(p)'
      <4>1. /\ pc[p] \notin DyingPoints /\ death'[p] = death[p]
            /\ pc'[p] \notin {"on_close", "dead"}
        BY <1>14 DEF Write, Transfer, Request, TypeOK, CallOK
      <4> QED
        BY <4>1, AliveStays
    <3>2. ASSUME NEW q \in Tasks, q # p PROVE DyingAt(q)'
      BY <1>14, <3>2, OthersStay DEF Write, Transfer, Request, TypeOK, CallOK, FdsOK
    <3> QED
      BY <3>1, <3>2 DEF DyingExact
  <2> QED
    BY <2>1, <2>2, <2>3
<1>15. ASSUME NEW p \in Tasks, Read(p) PROVE RequestsExact' /\ CallExact' /\ DyingExact'
  <2>1. RequestsExact'
    <3>1. CASE UNCHANGED requests
      BY <1>15, <3>1, RequestsStay DEF Read, Transfer, Request, TypeOK, CallOK
    <3>2. CASE ~UNCHANGED requests
      <4>1. PICK n \in Numbers \cup {NoNumber} : Request(p, pc[p], "read", n)
        BY <1>15, <3>2, Slot, AtSlot DEF Read, Transfer, Request, Number
      <4>2. pc[p] \notin Ops
        BY <1>15 DEF Read, Transfer, Request
      <4> QED
        BY <4>1, <4>2, Asked DEF Request
    <3> QED
      BY <3>1, <3>2
  <2>2. CallExact'
    <3>1. CallAt(p)'
      BY <1>15 DEF Read, Transfer, Request, CallExact, CallAt, Descriptors, TypeOK, CallOK, FdsOK
    <3>2. ASSUME NEW q \in Tasks, q # p PROVE CallAt(q)'
      BY <1>15, <3>2, OthersStay DEF Read, Transfer, Request, TypeOK, CallOK, FdsOK
    <3> QED
      BY <3>1, <3>2 DEF CallExact
  <2>3. DyingExact'
    <3>1. DyingAt(p)'
      <4>1. /\ pc[p] \notin DyingPoints /\ death'[p] = death[p]
            /\ pc'[p] \notin {"on_close", "dead"}
        BY <1>15 DEF Read, Transfer, Request, TypeOK, CallOK
      <4> QED
        BY <4>1, AliveStays
    <3>2. ASSUME NEW q \in Tasks, q # p PROVE DyingAt(q)'
      BY <1>15, <3>2, OthersStay DEF Read, Transfer, Request, TypeOK, CallOK, FdsOK
    <3> QED
      BY <3>1, <3>2 DEF DyingExact
  <2> QED
    BY <2>1, <2>2, <2>3
<1>16. ASSUME NEW p \in Tasks, Transferred(p) PROVE RequestsExact' /\ CallExact' /\ DyingExact'
  <2>1. RequestsExact'
    BY <1>16, RequestsStay DEF Transferred, TypeOK, CallOK
  <2>2. CallExact'
    BY <1>16 DEF Transferred, CallExact, CallAt, Descriptors, TypeOK, CallOK, FdsOK
  <2>3. DyingExact'
    BY <1>16 DEF Transferred, DyingExact, DyingAt, Descriptors, TypeOK, CallOK, FdsOK
  <2> QED
    BY <2>1, <2>2, <2>3
<1>17. ASSUME NEW p \in Tasks, FreeSlot(p) PROVE RequestsExact' /\ CallExact' /\ DyingExact'
  <2>1. RequestsExact'
    BY <1>17, RequestsStay DEF FreeSlot, TypeOK, CallOK
  <2>2. CallExact'
    BY <1>17 DEF FreeSlot, CallExact, CallAt, Descriptors, TypeOK, CallOK, FdsOK
  <2>3. DyingExact'
    BY <1>17 DEF FreeSlot, DyingExact, DyingAt, Descriptors, TypeOK, CallOK, FdsOK
  <2> QED
    BY <2>1, <2>2, <2>3
<1>18. ASSUME NEW p \in Tasks, CloseEnd(p) PROVE RequestsExact' /\ CallExact' /\ DyingExact'
  <2>0. Descriptors(p)' = Descriptors(p) \ {fd[p]}
    BY <1>18, ClosedCell
  <2>1. RequestsExact'
    BY <1>18, RequestsStay DEF CloseEnd, TypeOK, CallOK
  <2>2. CallExact'
    <3>1. CallAt(p)'
      BY <1>18, <2>0 DEF CloseEnd, CallExact, CallAt, DyingExact, DyingAt, TypeOK, CallOK
    <3>2. ASSUME NEW q \in Tasks, q # p PROVE CallAt(q)'
      BY <1>18, <3>2, OthersStay DEF CloseEnd, TypeOK, CallOK, FdsOK
    <3> QED
      BY <3>1, <3>2 DEF CallExact
  <2>3. DyingExact'
    <3>1. DyingAt(p)'
      BY <1>18, <2>0 DEF CloseEnd, DyingExact, DyingAt, TypeOK, CallOK
    <3>2. ASSUME NEW q \in Tasks, q # p PROVE DyingAt(q)'
      BY <1>18, <3>2, OthersStay DEF CloseEnd, TypeOK, CallOK, FdsOK
    <3> QED
      BY <3>1, <3>2 DEF DyingExact
  <2> QED
    BY <2>1, <2>2, <2>3
<1>19. ASSUME NEW p \in Tasks, OnClose(p) PROVE RequestsExact' /\ CallExact' /\ DyingExact'
  <2>1. RequestsExact'
    <3>1. CASE UNCHANGED requests
      BY <1>19, <3>1, RequestsStay DEF OnClose, Close, Open, Request, TypeOK, CallOK
    <3>2. CASE ~UNCHANGED requests
      <4>1. PICK n \in Numbers \cup {NoNumber} : Request(p, pc[p], "close", n)
        BY <1>19, <3>2, Slot, AtSlot DEF OnClose, Close, Open, Request, Number
      <4>2. pc[p] \notin Ops
        BY <1>19 DEF OnClose, Close, Open, Request
      <4> QED
        BY <4>1, <4>2, Asked DEF Request
    <3> QED
      BY <3>1, <3>2
  <2>2. CallExact'
    BY <1>19 DEF OnClose, Close, Open, Request, CallExact, CallAt, Descriptors, TypeOK, CallOK,
       FdsOK
  <2>3. DyingExact'
    BY <1>19 DEF OnClose, Close, Open, Request, DyingExact, DyingAt, Descriptors, TypeOK,
       CallOK, FdsOK
  <2> QED
    BY <2>1, <2>2, <2>3
<1>20. ASSUME NEW p \in Tasks, OnCloseEnds(p) PROVE RequestsExact' /\ CallExact' /\ DyingExact'
  <2>1. RequestsExact'
    BY <1>20, RequestsStay DEF OnCloseEnds, TypeOK, CallOK
  <2>2. CallExact'
    BY <1>20 DEF OnCloseEnds, CallExact, CallAt, Descriptors, TypeOK, CallOK, FdsOK
  <2>3. DyingExact'
    <3>1. DyingAt(p)'
      <4>1. Descriptors(p) = {}
        BY <1>20, Slot DEF OnCloseEnds, Open, DyingExact, DyingAt, TypeOK, CallOK
      <4>2. Descriptors(p)' = {}
        BY <1>20, <4>1 DEF OnCloseEnds, Descriptors
      <4> QED
        BY <1>20, <4>2 DEF OnCloseEnds, DyingExact, DyingAt, TypeOK, CallOK
    <3>2. ASSUME NEW q \in Tasks, q # p PROVE DyingAt(q)'
      BY <1>20, <3>2, OthersStay DEF OnCloseEnds, TypeOK, CallOK, FdsOK
    <3> QED
      BY <3>1, <3>2 DEF DyingExact
  <2> QED
    BY <2>1, <2>2, <2>3
<1>21. ASSUME NEW p \in Tasks, Reset(p) PROVE RequestsExact' /\ CallExact' /\ DyingExact'
  <2>1. RequestsExact'
    BY <1>21, RequestsStay DEF Reset, Dies, TypeOK, CallOK, CallExact, CallAt
  <2>2. CallExact'
    BY <1>21 DEF Reset, Dies, CallExact, CallAt, Descriptors, TypeOK, CallOK, FdsOK
  <2>3. DyingExact'
    BY <1>21 DEF Reset, Dies, DyingExact, DyingAt, Descriptors, TypeOK, CallOK, FdsOK
  <2> QED
    BY <2>1, <2>2, <2>3
<1>22. CASE HelperSocket
  <2>0. /\ Head(requests).proc \in Tasks /\ pc[Head(requests).proc] = "socket"
        /\ pc' = [pc EXCEPT ![Head(requests).proc] = "made"] /\ RequestsExact'
    BY <1>22, Answered DEF HelperSocket, Points
  <2>1. RequestsExact'
    BY <2>0
  <2>2. CallExact'
    BY <1>22, <2>0 DEF HelperSocket, Answer, CallExact, CallAt, Descriptors, TypeOK, CallOK, FdsOK
  <2>3. DyingExact'
    BY <1>22, <2>0 DEF HelperSocket, Answer, DyingExact, DyingAt, Descriptors, TypeOK, CallOK,
       FdsOK
  <2> QED
    BY <2>1, <2>2, <2>3
<1>23. CASE HelperConnect
  <2>0. /\ Head(requests).proc \in Tasks /\ pc[Head(requests).proc] = "connect"
        /\ pc' = [pc EXCEPT ![Head(requests).proc] = "connect_done"] /\ RequestsExact'
    BY <1>23, Answered DEF HelperConnect, Points
  <2>1. RequestsExact'
    BY <2>0
  <2>2. CallExact'
    BY <1>23, <2>0 DEF HelperConnect, Answer, CallExact, CallAt, Descriptors, TypeOK, CallOK,
       FdsOK
  <2>3. DyingExact'
    BY <1>23, <2>0 DEF HelperConnect, Answer, DyingExact, DyingAt, Descriptors, TypeOK, CallOK,
       FdsOK
  <2> QED
    BY <2>1, <2>2, <2>3
<1>24. CASE HelperWrite
  <2>0. /\ Head(requests).proc \in Tasks /\ pc[Head(requests).proc] = "write"
        /\ pc' = [pc EXCEPT ![Head(requests).proc] = "done"] /\ RequestsExact'
    BY <1>24, Answered DEF HelperWrite, Points
  <2>1. RequestsExact'
    BY <2>0
  <2>2. CallExact'
    BY <1>24, <2>0 DEF HelperWrite, Answer, CallExact, CallAt, Descriptors, TypeOK, CallOK, FdsOK
  <2>3. DyingExact'
    BY <1>24, <2>0 DEF HelperWrite, Answer, DyingExact, DyingAt, Descriptors, TypeOK, CallOK,
       FdsOK
  <2> QED
    BY <2>1, <2>2, <2>3
<1>25. CASE HelperRead
  <2>0. /\ Head(requests).proc \in Tasks /\ pc[Head(requests).proc] = "read"
        /\ pc' = [pc EXCEPT ![Head(requests).proc] = "done"] /\ RequestsExact'
    BY <1>25, Answered DEF HelperRead, Points
  <2>1. RequestsExact'
    BY <2>0
  <2>2. CallExact'
    BY <1>25, <2>0 DEF HelperRead, Answer, CallExact, CallAt, Descriptors, TypeOK, CallOK, FdsOK
  <2>3. DyingExact'
    BY <1>25, <2>0 DEF HelperRead, Answer, DyingExact, DyingAt, Descriptors, TypeOK, CallOK, FdsOK
  <2> QED
    BY <2>1, <2>2, <2>3
<1>26. CASE HelperClose
  <2>0. /\ Head(requests).proc \in Tasks /\ pc[Head(requests).proc] = "close"
        /\ pc' = [pc EXCEPT ![Head(requests).proc] = "closed"] /\ RequestsExact'
    BY <1>26, Answered DEF HelperClose, Points
  <2>1. RequestsExact'
    BY <2>0
  <2>2. CallExact'
    BY <1>26, <2>0 DEF HelperClose, Answer, CallExact, CallAt, Descriptors, TypeOK, CallOK, FdsOK
  <2>3. DyingExact'
    BY <1>26, <2>0 DEF HelperClose, Answer, DyingExact, DyingAt, Descriptors, TypeOK, CallOK,
       FdsOK
  <2> QED
    BY <2>1, <2>2, <2>3
<1>27. CASE Deliver
  <2>1. RequestsExact'
    BY <1>27, RequestsStay DEF Deliver, Handled, HandleConnected, HandleData, HandleClosed,
       wakeOne, wakeAll, TypeOK, CallOK
  <2>2. CallExact'
    BY <1>27 DEF Deliver, Handled, HandleConnected, HandleData, HandleClosed, wakeOne, wakeAll,
       CallExact, CallAt, Descriptors, TypeOK, CallOK, FdsOK
  <2>3. DyingExact'
    <3>1. ASSUME NEW q \in Tasks
          PROVE  \/ pc'[q] = pc[q]
                 \/ pc[q] \in {"write_wait", "read_wait"} /\ pc'[q] \in {"write_go", "read_go"}
      BY <1>27 DEF Deliver
    <3>2. ASSUME NEW q \in Tasks PROVE DyingAt(q)'
      <4>1. CASE pc'[q] = pc[q]
        BY <1>27, <4>1, OthersStay DEF Deliver
      <4>2. CASE pc[q] \in {"write_wait", "read_wait"} /\ pc'[q] \in {"write_go", "read_go"}
        <5>1. death[q] # "on"
          BY <4>2 DEF DyingExact, DyingAt
        <5> QED
          BY <1>27, <4>2, <5>1 DEF Deliver, DyingAt
      <4> QED
        BY <3>1, <4>1, <4>2
    <3> QED
      BY <3>2 DEF DyingExact
  <2> QED
    BY <2>1, <2>2, <2>3
<1>28. ASSUME NEW n \in Numbers, Change(n) PROVE RequestsExact' /\ CallExact' /\ DyingExact'
  <2>1. RequestsExact'
    BY <1>28, RequestsStay DEF Change, TypeOK, CallOK
  <2>2. CallExact'
    BY <1>28 DEF Change, CallExact, CallAt, Descriptors, TypeOK, CallOK, FdsOK
  <2>3. DyingExact'
    BY <1>28 DEF Change, DyingExact, DyingAt, Descriptors, TypeOK, CallOK, FdsOK
  <2> QED
    BY <2>1, <2>2, <2>3
<1>29. CASE UNCHANGED vars
  BY <1>29, RequestsStay DEF CallExact, CallAt, DyingExact, DyingAt, Descriptors
<1> QED
  BY <1>1, <1>2, <1>3, <1>4, <1>5, <1>6, <1>7, <1>8, <1>9, <1>10, <1>11, <1>12, <1>13, <1>14,
     <1>15, <1>16, <1>17, <1>18, <1>19, <1>20, <1>21, <1>22, <1>23, <1>24, <1>25, <1>26, <1>27,
     <1>28, <1>29 DEF Next, Proceed, HelperRuns

\* Who holds a slot keeps it, with its number, unless he lets it go.
SameSlot(s) == sockets'[s].used = sockets[s].used /\ sockets'[s].fd = sockets[s].fd
Keeps(q, f) ==
  /\ fds'[q][f] = fds[q][f] /\ SameSlot(fds[q][f])
  /\ f \in Descriptors(q)'
Kept(q) == \A f \in Descriptors(q) : Holds(q, f)' => Holds(q, f) /\ Keeps(q, f)
SameHand(q) == \A n \in Numbers : InHand(q, n)' <=> InHand(q, n)

\* Slots stay exact when nobody gets one,
LEMMA SlotsStay ==
  ASSUME SlotsExact, \A q \in Tasks : Descriptors(q)' \subseteq Descriptors(q) /\ Kept(q)
  PROVE  SlotsExact'
<1>1. ASSUME NEW q \in Tasks, NEW f \in Descriptors(q)', Holds(q, f)'
      PROVE  /\ f \in Descriptors(q) /\ Holds(q, f) /\ fds'[q][f] = fds[q][f]
             /\ sockets'[fds[q][f]].used = sockets[fds[q][f]].used
             /\ Number(q, f)' = Number(q, f)
  BY <1>1 DEF Kept, Keeps, SameSlot, Number
<1>2. ASSUME NEW q \in Tasks, NEW f \in Descriptors(q)', Holds(q, f)'
      PROVE  /\ sockets'[fds'[q][f]].used /\ Number(q, f)' # NoNumber
             /\ \A r \in Tasks : \A g \in Descriptors(r)' :
                  Holds(r, g)' /\ fds'[r][g] = fds'[q][f] => r = q /\ g = f
  <2>1. f \in Descriptors(q) /\ Holds(q, f) /\ fds'[q][f] = fds[q][f]
    BY <1>1, <1>2
  <2>2. sockets'[fds'[q][f]].used /\ Number(q, f)' # NoNumber
    BY <1>1, <1>2, <2>1 DEF SlotsExact
  <2>3. ASSUME NEW r \in Tasks, NEW g \in Descriptors(r)', Holds(r, g)', fds'[r][g] = fds'[q][f]
        PROVE  r = q /\ g = f
    <3>1. g \in Descriptors(r) /\ Holds(r, g) /\ fds'[r][g] = fds[r][g]
      BY <1>1, <2>3
    <3> QED
      BY <2>1, <2>3, <3>1 DEF SlotsExact
  <2> QED
    BY <2>2, <2>3
<1> QED
  BY <1>2 DEF SlotsExact

\* and so do numbers, when nobody gets one or gives one up that is not lost then.
LEMMA NumbersLost ==
  ASSUME SocketAssumption, TypeOK, SlotsExact, NumbersExact,
         \A q \in Tasks : /\ Descriptors(q)' \subseteq Descriptors(q) /\ Kept(q)
                          /\ \A f \in Descriptors(q) : Owns(q, f)' <=> Owns(q, f),
         \A q \in Tasks : \A n \in Numbers :
            /\ InHand(q, n)' => InHand(q, n)
            /\ InHand(q, n) => InHand(q, n)' \/ n \in lost',
         UNCHANGED owner, lost \subseteq lost'
  PROVE  NumbersExact'
<1>1. ASSUME NEW q \in Tasks, NEW f \in Descriptors(q), Owns(q, f)
      PROVE  /\ Owns(q, f)' /\ f \in Descriptors(q)' /\ Number(q, f)' = Number(q, f)
             /\ Number(q, f) \in Numbers
  <2>1. Owns(q, f)' /\ Holds(q, f)' /\ Holds(q, f)
    BY <1>1 DEF Owns
  <2>2. Number(q, f) \in Numbers
    BY <2>1, Slot DEF SlotsExact
  <2> QED
    BY <2>1, <2>2 DEF Kept, Keeps, SameSlot, Number
<1>2. ASSUME NEW q \in Tasks, NEW f \in Descriptors(q)', Owns(q, f)'
      PROVE  f \in Descriptors(q) /\ Owns(q, f)
  BY <1>2
<1>3. ASSUME NEW q \in Tasks, NEW f \in Descriptors(q)', Owns(q, f)'
      PROVE  /\ owner'[Number(q, f)'] = q /\ ~InHand(q, Number(q, f))'
             /\ \A g \in Descriptors(q)' : Owns(q, g)' /\ Number(q, g)' = Number(q, f)' => g = f
  <2>1. /\ f \in Descriptors(q) /\ Owns(q, f)
        /\ Number(q, f) \in Numbers /\ Number(q, f)' = Number(q, f)
    BY <1>1, <1>2, <1>3
  <2>2. ~InHand(q, Number(q, f)) /\ owner[Number(q, f)] = q
    BY <2>1 DEF NumbersExact
  <2>3. ~InHand(q, Number(q, f))'
    BY <2>1, <2>2 DEF InHand
  <2>4. ASSUME NEW g \in Descriptors(q)', Owns(q, g)', Number(q, g)' = Number(q, f)' PROVE g = f
    <3>1. g \in Descriptors(q) /\ Owns(q, g) /\ Number(q, g) = Number(q, f)
      BY <1>1, <1>2, <2>1, <2>4
    <3> QED
      BY <2>1, <3>1 DEF NumbersExact
  <2> QED
    BY <2>1, <2>2, <2>3, <2>4
<1>4. ASSUME NEW q \in Tasks, NEW n \in Numbers
      PROVE  /\ InHand(q, n)' => owner'[n] = q
             /\ owner'[n] = q => \/ n \in lost' \/ InHand(q, n)'
                                 \/ \E f \in Descriptors(q)' : Owns(q, f)' /\ Number(q, f)' = n
  <2>1. /\ InHand(q, n)' => InHand(q, n)
        /\ InHand(q, n) => InHand(q, n)' \/ n \in lost'
    OBVIOUS
  <2>2. CASE \E f \in Descriptors(q) : Owns(q, f) /\ Number(q, f) = n
    <3>1. PICK f \in Descriptors(q) : Owns(q, f) /\ Number(q, f) = n
      BY <2>2
    <3>2. Owns(q, f)' /\ f \in Descriptors(q)' /\ Number(q, f)' = n
      BY <1>1, <3>1
    <3> QED
      BY <2>1, <3>2 DEF NumbersExact
  <2>3. CASE ~ \E f \in Descriptors(q) : Owns(q, f) /\ Number(q, f) = n
    BY <2>1, <2>3 DEF NumbersExact
  <2> QED
    BY <2>2, <2>3
<1> QED
  BY <1>3, <1>4 DEF NumbersExact

LEMMA NumbersStay ==
  ASSUME SocketAssumption, TypeOK, SlotsExact, NumbersExact,
         \A q \in Tasks : /\ Descriptors(q)' \subseteq Descriptors(q) /\ Kept(q) /\ SameHand(q)
                          /\ \A f \in Descriptors(q) : Owns(q, f)' <=> Owns(q, f),
         UNCHANGED owner, lost \subseteq lost'
  PROVE  NumbersExact'
BY NumbersLost DEF SameHand

\* Most steps of a process are of this kind.
LosePoints == {"closed", "close_end"}
Same(q) ==
  /\ Descriptors(q)' = Descriptors(q) /\ \A f \in Descriptors(q) : fds'[q][f] = fds[q][f]
  /\ \/ pc'[q] = pc[q] /\ fd'[q] = fd[q]
     \/ pc[q] \notin LosePoints /\ pc'[q] \notin LosePoints

LEMMA SameKept ==
  ASSUME SocketAssumption, TypeOK, NEW q \in Tasks, Same(q), \A s \in Sids : SameSlot(s)
  PROVE  Kept(q) /\ \A f \in Descriptors(q) : Owns(q, f)' <=> Owns(q, f)
<1>1. ASSUME NEW f \in Descriptors(q)
      PROVE  /\ Holds(q, f)' <=> Holds(q, f)
             /\ Owns(q, f)' <=> Owns(q, f)
             /\ Keeps(q, f)
  <2>1. fds[q][f] \in Sids
    BY Slot
  <2> QED
    BY <2>1 DEF Same, LosePoints, Holds, Owns, Keeps
<1> QED
  BY <1>1 DEF Kept

\* What a process asks to close stays with the slot it is at,
LEMMA CloseStays ==
  ASSUME TypeOK, RequestsExact, CloseExact, UNCHANGED requests,
         \A q \in Tasks : pc[q] = "close" => (sockets[Sid(q)].fd)' = sockets[Sid(q)].fd
  PROVE  CloseExact'
BY Queued DEF CloseExact, RequestsExact

\* also when another request comes,
LEMMA CloseAsked ==
  ASSUME TypeOK, RequestsExact, CloseExact, NEW p \in Tasks, NEW op \in Ops,
         NEW n \in Numbers \cup {NoNumber}, pc[p] \notin Ops,
         requests' = Append(requests, [op |-> op, proc |-> p, number |-> n]),
         op = "close" => n = (sockets[Sid(p)].fd)',
         \A q \in Tasks : pc[q] = "close" => (sockets[Sid(q)].fd)' = sockets[Sid(q)].fd
  PROVE  CloseExact'
<1> DEFINE r == [op |-> op, proc |-> p, number |-> n]
<1>1. r \in RequestType /\ requests \in Seq(RequestType) /\ r.op = op /\ r.proc = p /\ r.number = n
  BY DEF TypeOK, QueuesOK, RequestType
<1> HIDE DEF r
<1>2. requests' = Append(requests, r)
  BY DEF r
<1>3. \A i \in DOMAIN requests' : \/ i \in DOMAIN requests /\ requests'[i] = requests[i]
                                 \/ requests'[i] = r
  BY <1>1, <1>2, AppendFacts
<1> QED
  BY <1>1, <1>3, Queued DEF CloseExact, RequestsExact

\* or the first is answered.
LEMMA CloseAnswered ==
  ASSUME TypeOK, RequestsExact, CloseExact, NEW op \in Ops, NEW to \in Points \ Ops,
         Answer(op, to),
         \A s \in Sids : sockets'[s].fd = sockets[s].fd, UNCHANGED <<fd, fds, sockets>>
  PROVE  CloseExact'
BY Answered, Queued DEF CloseExact, RequestsExact, Sid

\* No step of one process moves the socket that another asks to close,
LEMMA ClosersStay ==
  ASSUME SocketAssumption, TypeOK, CallExact, NEW p \in Tasks, pc[p] # "close",
         \A q \in Tasks \ {p} : fd'[q] = fd[q] /\ fds'[q] = fds[q],
         \A s \in Sids : SameSlot(s)
  PROVE  \A q \in Tasks : pc[q] = "close" => (sockets[Sid(q)].fd)' = sockets[Sid(q)].fd
<1>1. ASSUME NEW q \in Tasks, pc[q] = "close" PROVE (sockets[Sid(q)].fd)' = sockets[Sid(q)].fd
  <2>1. Sid(q) \in Sids /\ Sid(q)' = Sid(q)
    BY <1>1, AtSlot DEF FdPoints, Ops, Sid
  <2> QED
    BY <2>1 DEF SameSlot
<1> QED
  BY <1>1

\* and all stays together when the slots and the numbers do.
LEMMA OwnStays ==
  ASSUME SocketAssumption, IndInv,
         \A q \in Tasks : Same(q) /\ SameHand(q), \A s \in Sids : SameSlot(s),
         UNCHANGED <<owner, lost, torn>>, ~torn /\ CloseExact => CloseExact'
  PROVE  OwnInv'
<1>1. \A q \in Tasks : /\ Descriptors(q)' \subseteq Descriptors(q) /\ Kept(q)
                       /\ \A f \in Descriptors(q) : Owns(q, f)' <=> Owns(q, f)
  BY SameKept DEF IndInv, Same
<1> QED
  BY <1>1, SlotsStay, NumbersStay DEF OwnInv, IndInv


\* Every step keeps who has which slot and which number.
LEMMA OwnPreserved ==
  ASSUME SocketAssumption, NucleusAssumption, IndInv, [Next]_vars
  PROVE  OwnInv'
<1> USE Constants DEF IndInv, TypeOK, CallOK, Goto, Return, Block, Leave, table, process,
   firmware, history, vars
<1>1. ASSUME NEW p \in Tasks, CallSocket(p) PROVE OwnInv'
  <2>1. /\ \A q \in Tasks : Same(q) /\ SameHand(q)
        /\ \A s \in Sids : SameSlot(s)
        /\ UNCHANGED <<owner, lost, torn>>
    BY <1>1 DEF CallSocket, Request, Same, LosePoints, Descriptors, SameHand, InHand,
       HandPoints, SameSlot
  <2>2. ASSUME CloseExact PROVE CloseExact'
    <3>1. \A q \in Tasks : pc[q] = "close" => (sockets[Sid(q)].fd)' = sockets[Sid(q)].fd
      BY <1>1, <2>1, ClosersStay DEF CallSocket, Request
    <3>2. CASE UNCHANGED requests
      BY <2>2, <3>1, <3>2, CloseStays
    <3>3. CASE ~UNCHANGED requests
      <4>1. PICK n \in Numbers \cup {NoNumber} : Request(p, pc[p], "socket", n)
        BY <1>1, <3>3, Slot, AtSlot DEF CallSocket, Request, Number, FdPoints, WaitPoints
      <4>2. pc[p] \notin Ops /\ "socket" \in Ops
        BY <1>1 DEF CallSocket, Request, Ops
      <4> QED
        BY <2>2, <3>1, <4>1, <4>2, CloseAsked DEF Request
    <3> QED
      BY <3>2, <3>3
  <2> QED
    BY <2>1, <2>2, OwnStays
<1>2. ASSUME NEW p \in Tasks, CallConnect(p) PROVE OwnInv'
  <2>1. /\ \A q \in Tasks : Same(q) /\ SameHand(q)
        /\ \A s \in Sids : SameSlot(s)
        /\ UNCHANGED <<owner, lost, torn>>
    BY <1>2 DEF CallConnect, Request, Same, LosePoints, Descriptors, SameHand, InHand,
       HandPoints, SameSlot
  <2>2. ASSUME CloseExact PROVE CloseExact'
    <3>1. \A q \in Tasks : pc[q] = "close" => (sockets[Sid(q)].fd)' = sockets[Sid(q)].fd
      BY <1>2, <2>1, ClosersStay DEF CallConnect, Request
    <3>2. CASE UNCHANGED requests
      BY <2>2, <3>1, <3>2, CloseStays
    <3>3. CASE ~UNCHANGED requests
      <4>1. PICK n \in Numbers \cup {NoNumber} : Request(p, pc[p], "connect", n)
        BY <1>2, <3>3, Slot, AtSlot DEF CallConnect, Request, Number, FdPoints, WaitPoints
      <4>2. pc[p] \notin Ops /\ "connect" \in Ops
        BY <1>2 DEF CallConnect, Request, Ops
      <4> QED
        BY <2>2, <3>1, <4>1, <4>2, CloseAsked DEF Request
    <3> QED
      BY <3>2, <3>3
  <2> QED
    BY <2>1, <2>2, OwnStays
<1>3. ASSUME NEW p \in Tasks, CallTransfer(p) PROVE OwnInv'
  <2>1. /\ \A q \in Tasks : Same(q) /\ SameHand(q)
        /\ \A s \in Sids : SameSlot(s)
        /\ UNCHANGED <<owner, lost, torn>>
    BY <1>3 DEF CallTransfer, Same, LosePoints, Descriptors, SameHand, InHand, HandPoints,
       SameSlot
  <2>2. ASSUME CloseExact PROVE CloseExact'
    <3>1. \A q \in Tasks : pc[q] = "close" => (sockets[Sid(q)].fd)' = sockets[Sid(q)].fd
      BY <1>3, <2>1, ClosersStay DEF CallTransfer
    <3> QED
      BY <1>3, <2>2, <3>1, CloseStays DEF CallTransfer
  <2> QED
    BY <2>1, <2>2, OwnStays
<1>4. ASSUME NEW p \in Tasks, CallClose(p) PROVE OwnInv'
  <2>1. CASE torn
    BY <1>4, <2>1 DEF CallClose, Close, Request, OwnInv
  <2>2. CASE ~torn
    <3>1. PICK f \in Descriptors(p) : Close(p, f, "idle")
      BY <1>4 DEF CallClose, Open
    <3>2. Holds(p, f)
      BY <3>1 DEF Close, Request, Holds
    <3>3. sockets[fds[p][f]].used
      BY <2>2, <3>2 DEF OwnInv, SlotsExact
    <3>4. /\ Request(p, "idle", "close", Number(p, f)) /\ fd' = [fd EXCEPT ![p] = f]
          /\ UNCHANGED <<sockets, handlers, fds, death, ret, owner, lost, torn>>
      BY <3>1, <3>3 DEF Close, Number
    <3>5. /\ \A q \in Tasks : Same(q) /\ SameHand(q)
          /\ \A s \in Sids : SameSlot(s)
          /\ UNCHANGED <<owner, lost, torn>>
      BY <3>4 DEF Request, Same, LosePoints, Descriptors, SameHand, InHand, HandPoints, SameSlot
    <3>6. ASSUME CloseExact PROVE CloseExact'
      <4>1. pc[p] \notin Ops /\ pc[p] # "close" /\ "close" \in Ops
        BY <3>4 DEF Request, Ops
      <4>2. \A q \in Tasks : pc[q] = "close" => (sockets[Sid(q)].fd)' = sockets[Sid(q)].fd
        BY <3>4, <3>5, <4>1, ClosersStay
      <4>3. Number(p, f) = (sockets[Sid(p)].fd)' /\ Number(p, f) \in Numbers \cup {NoNumber}
        BY <3>4, Slot DEF Number, Sid
      <4>4. requests' = Append(requests, [op |-> "close", proc |-> p, number |-> Number(p, f)])
        BY <3>4 DEF Request
      <4> QED
        BY <3>6, <4>1, <4>2, <4>3, <4>4, CloseAsked
    <3> QED
      BY <3>5, <3>6, OwnStays
  <2> QED
    BY <2>1, <2>2
<1>5. ASSUME NEW p \in Tasks, Exit(p) PROVE OwnInv'
  <2>1. /\ \A q \in Tasks : Same(q) /\ SameHand(q)
        /\ \A s \in Sids : SameSlot(s)
        /\ UNCHANGED <<owner, lost, torn>>
    BY <1>5 DEF Exit, Dies, Same, LosePoints, Descriptors, SameHand, InHand, HandPoints, SameSlot
  <2>2. ASSUME CloseExact PROVE CloseExact'
    <3>1. \A q \in Tasks : pc[q] = "close" => (sockets[Sid(q)].fd)' = sockets[Sid(q)].fd
      BY <1>5, <2>1, ClosersStay DEF Exit, Dies
    <3> QED
      BY <1>5, <2>2, <3>1, CloseStays DEF Exit, Dies
  <2> QED
    BY <2>1, <2>2, OwnStays
<1>6. ASSUME NEW p \in Tasks, Kill(p) PROVE OwnInv'
  <2>1. /\ \A q \in Tasks : Same(q) /\ SameHand(q)
        /\ \A s \in Sids : SameSlot(s)
        /\ UNCHANGED <<owner, lost, torn>>
    BY <1>6 DEF Kill, Same, LosePoints, Descriptors, SameHand, InHand, HandPoints, SameSlot
  <2>2. ASSUME CloseExact PROVE CloseExact'
    <3>1. \A q \in Tasks : pc[q] = "close" => (sockets[Sid(q)].fd)' = sockets[Sid(q)].fd
      BY <1>6 DEF Kill, Sid
    <3> QED
      BY <1>6, <2>2, <3>1, CloseStays DEF Kill
  <2> QED
    BY <2>1, <2>2, OwnStays
<1>7. ASSUME NEW p \in Tasks, SocketMade(p) PROVE OwnInv'
  <2>1. /\ \A q \in Tasks : Same(q) /\ SameHand(q)
        /\ \A s \in Sids : SameSlot(s)
        /\ UNCHANGED <<owner, lost, torn>>
    BY <1>7 DEF SocketMade, Same, LosePoints, Descriptors, SameHand, InHand, HandPoints, SameSlot
  <2>2. ASSUME CloseExact PROVE CloseExact'
    <3>1. \A q \in Tasks : pc[q] = "close" => (sockets[Sid(q)].fd)' = sockets[Sid(q)].fd
      BY <1>7, <2>1, ClosersStay DEF SocketMade
    <3> QED
      BY <1>7, <2>2, <3>1, CloseStays DEF SocketMade
  <2> QED
    BY <2>1, <2>2, OwnStays
<1>8. ASSUME NEW p \in Tasks, OpenFd(p) PROVE OwnInv'
  <2>1. /\ \A q \in Tasks : Same(q) /\ SameHand(q)
        /\ \A s \in Sids : SameSlot(s)
        /\ UNCHANGED <<owner, lost, torn>>
    <3>1. Same(p) /\ SameHand(p)
      BY <1>8, OpenedCell DEF OpenFd, Same, LosePoints, Descriptors, SameHand, InHand, HandPoints
    <3>2. ASSUME NEW q \in Tasks, q # p PROVE Same(q) /\ SameHand(q)
      <4>1. fds'[q] = fds[q] /\ pc'[q] = pc[q] /\ fd'[q] = fd[q] /\ UNCHANGED ret
        BY <1>8, <3>2 DEF OpenFd, FdsOK
      <4> QED
        BY <4>1 DEF Same, Descriptors, SameHand, InHand
    <3> QED
      BY <1>8, <3>1, <3>2 DEF OpenFd, SameSlot
  <2>2. ASSUME CloseExact PROVE CloseExact'
    <3>1. \A q \in Tasks : pc[q] = "close" => (sockets[Sid(q)].fd)' = sockets[Sid(q)].fd
      BY <1>8, <2>1, ClosersStay DEF OpenFd, FdsOK
    <3> QED
      BY <1>8, <2>2, <3>1, CloseStays DEF OpenFd
  <2> QED
    BY <2>1, <2>2, OwnStays
<1>9. ASSUME NEW p \in Tasks, TakeSlot(p) PROVE OwnInv'
  <2> USE DEF OwnInv
  <2>1. PICK s \in Sids :
          /\ ~sockets[s].used /\ sockets' = [sockets EXCEPT ![s].used = TRUE, ![s].fd = ret[p]]
          /\ fds' = [fds EXCEPT ![p][fd[p]] = s]
          /\ pc[p] = "new" /\ pc' = [pc EXCEPT ![p] = "register"]
          /\ UNCHANGED <<owner, lost, torn, requests, ret, fd>>
    BY <1>9 DEF TakeSlot
  <2>6. PICK c \in Nat : c = fd[p]
    OBVIOUS
  <2>2. /\ fds[p] \in Seq(Sids \cup {NoSid}) /\ c \in 1..Len(fds[p]) /\ fds[p][c] = NoSid
        /\ ret[p] \in Numbers
    BY <2>1, <2>6, LenProperties DEF CallExact, CallAt, FdsOK
  <2>3. /\ c \notin Descriptors(p) /\ Descriptors(p)' = Descriptors(p) \cup {c} /\ fds'[p][c] = s
        /\ \A f \in Descriptors(p) : fds'[p][f] = fds[p][f]
        /\ \A q \in Tasks \ {p} : fds'[q] = fds[q] /\ Descriptors(q)' = Descriptors(q)
    <3>1. /\ fds'[p] = [fds[p] EXCEPT ![c] = s] /\ DOMAIN fds'[p] = DOMAIN fds[p]
          /\ DOMAIN fds[p] = 1..Len(fds[p])
      BY <2>1, <2>2, <2>6, LenProperties DEF FdsOK
    <3>2. \A q \in Tasks \ {p} : fds'[q] = fds[q]
      BY <2>1 DEF FdsOK
    <3>3. s # NoSid /\ fds'[p][c] = s /\ \A f \in DOMAIN fds[p] : f # c => fds'[p][f] = fds[p][f]
      BY <2>2, <3>1
    <3>4. c \notin Descriptors(p) /\ Descriptors(p)' = Descriptors(p) \cup {c}
      BY <2>2, <3>1, <3>3 DEF Descriptors
    <3>5. \A f \in Descriptors(p) : fds'[p][f] = fds[p][f]
      BY <3>3, <3>4 DEF Descriptors
    <3>6. \A q \in Tasks \ {p} : fds'[q] = fds[q] /\ Descriptors(q)' = Descriptors(q)
      BY <3>2 DEF Descriptors
    <3> QED
      BY <3>3, <3>4, <3>5, <3>6
  <2>4. CASE torn
    BY <2>1, <2>4
  <2>5. CASE ~torn
    <3>1. ASSUME NEW q \in Tasks, NEW f \in Descriptors(q)
          PROVE  /\ Holds(q, f)' <=> Holds(q, f)
                 /\ Owns(q, f)' <=> Owns(q, f)
                 /\ f \in Descriptors(q)' /\ ~(q = p /\ f = c) /\ fds'[q][f] = fds[q][f]
                 /\ Holds(q, f) =>
                      /\ fds[q][f] # s /\ Number(q, f)' = Number(q, f) /\ Number(q, f) \in Numbers
                      /\ sockets'[fds[q][f]].used /\ Number(q, f) # NoNumber
      <4>1. f \in Descriptors(q)' /\ ~(q = p /\ f = c) /\ fds'[q][f] = fds[q][f]
        BY <2>3
      <4>2. (Holds(q, f)' <=> Holds(q, f)) /\ (Owns(q, f)' <=> Owns(q, f))
        BY <2>1, <4>1 DEF Holds, Owns
      <4>3. ASSUME Holds(q, f)
            PROVE  /\ fds[q][f] # s /\ Number(q, f)' = Number(q, f) /\ Number(q, f) \in Numbers
                   /\ sockets'[fds[q][f]].used /\ Number(q, f) # NoNumber
        <5>1. /\ sockets[fds[q][f]].used /\ fds[q][f] # s /\ fds[q][f] \in Sids
              /\ Number(q, f) # NoNumber /\ Number(q, f) \in Numbers
          <6>1. /\ sockets[fds[q][f]].used /\ Number(q, f) # NoNumber
                /\ fds[q][f] \in Sids /\ Number(q, f) \in Numbers \cup {NoNumber}
            BY <2>5, <4>3, Slot DEF SlotsExact
          <6> QED
            BY <2>1, <6>1
        <5>2. sockets'[fds[q][f]] = sockets[fds[q][f]]
          BY <2>1, <5>1 DEF TableOK
        <5> QED
          BY <4>1, <5>1, <5>2 DEF Number
      <4> QED
        BY <4>1, <4>2, <4>3
    <3>2. /\ Holds(p, c)' /\ Owns(p, c)' /\ Number(p, c)' = ret[p] /\ sockets'[s].used
          /\ ret[p] # NoNumber
      <4>1. sockets'[s].used /\ sockets'[s].fd = ret[p]
        BY <2>1 DEF TableOK, SocketType
      <4> QED
        BY <2>1, <2>2, <2>3, <4>1 DEF Holds, Owns, Number
    <3>3. /\ InHand(p, ret[p]) /\ \A n \in Numbers : ~InHand(p, n)' /\ (InHand(p, n) => n = ret[p])
          /\ \A q \in Tasks \ {p} : \A n \in Numbers : InHand(q, n)' <=> InHand(q, n)
      BY <2>1, <2>2 DEF InHand, HandPoints
    <3>4. owner[ret[p]] = p /\ \A f \in Descriptors(p) : Owns(p, f) => Number(p, f) # ret[p]
      <4>1. owner[ret[p]] = p
        BY <2>2, <2>5, <3>3 DEF NumbersExact
      <4>2. ASSUME NEW f \in Descriptors(p), Owns(p, f) PROVE Number(p, f) # ret[p]
        <5>1. ~InHand(p, Number(p, f))
          BY <2>5, <4>2 DEF NumbersExact
        <5> QED
          BY <3>3, <5>1
      <4> QED
        BY <4>1, <4>2
    <3>5. SlotsExact'
      <4>1. ASSUME NEW q \in Tasks, NEW f \in Descriptors(q)', Holds(q, f)'
            PROVE  /\ sockets'[fds'[q][f]].used /\ Number(q, f)' # NoNumber
                   /\ \/ q = p /\ f = c /\ fds'[q][f] = s
                      \/ /\ f \in Descriptors(q) /\ Holds(q, f) /\ fds'[q][f] = fds[q][f]
                         /\ fds[q][f] # s
        <5>1. CASE q = p /\ f = c
          BY <2>3, <3>2, <5>1 DEF Holds, Number
        <5>2. CASE ~(q = p /\ f = c)
          <6>1. f \in Descriptors(q)
            BY <2>3, <5>2
          <6>2. /\ Holds(q, f) /\ fds'[q][f] = fds[q][f] /\ fds[q][f] # s
                /\ sockets'[fds[q][f]].used /\ Number(q, f)' # NoNumber
            BY <3>1, <4>1, <6>1
          <6> QED
            BY <6>1, <6>2
        <5> QED
          BY <5>1, <5>2
      <4>2. ASSUME NEW q \in Tasks, NEW f \in Descriptors(q)', Holds(q, f)',
                   NEW r \in Tasks, NEW g \in Descriptors(r)', Holds(r, g)',
                   fds'[r][g] = fds'[q][f]
            PROVE  r = q /\ g = f
        BY <2>5, <4>1, <4>2 DEF SlotsExact
      <4> QED
        BY <4>1, <4>2 DEF SlotsExact
    <3>6. NumbersExact'
      <4>1. ASSUME NEW q \in Tasks, NEW f \in Descriptors(q)', Owns(q, f)'
            PROVE  \/ q = p /\ f = c /\ Number(q, f)' = ret[p]
                   \/ /\ f \in Descriptors(q) /\ Owns(q, f) /\ Number(q, f)' = Number(q, f)
                      /\ Number(q, f) \in Numbers
        <5>1. CASE q = p /\ f = c
          BY <2>3, <3>2, <5>1 DEF Owns, Holds, Number
        <5>2. CASE ~(q = p /\ f = c)
          <6>1. f \in Descriptors(q)
            BY <2>3, <5>2
          <6>2. Owns(q, f) /\ Holds(q, f)
            BY <3>1, <4>1, <6>1 DEF Owns
          <6> QED
            BY <3>1, <6>1, <6>2
        <5> QED
          BY <5>1, <5>2
      <4>2. ASSUME NEW q \in Tasks, NEW f \in Descriptors(q)', Owns(q, f)'
            PROVE  /\ owner'[Number(q, f)'] = q /\ ~InHand(q, Number(q, f))'
                   /\ \A g \in Descriptors(q)' :
                        Owns(q, g)' /\ Number(q, g)' = Number(q, f)' => g = f
        <5>1. owner'[Number(q, f)'] = q
          BY <2>1, <2>5, <3>4, <4>1, <4>2 DEF NumbersExact
        <5>2. ~InHand(q, Number(q, f))'
          <6>1. CASE q = p
            BY <2>1, <6>1 DEF InHand, HandPoints
          <6>2. CASE q # p
            <7>1. Owns(q, f) /\ f \in Descriptors(q) /\ Number(q, f)' = Number(q, f)
              BY <4>1, <4>2, <6>2
            <7>2. ~InHand(q, Number(q, f))
              BY <2>5, <7>1 DEF NumbersExact
            <7> QED
              BY <2>1, <6>2, <7>1, <7>2 DEF InHand
          <6> QED
            BY <6>1, <6>2
        <5>3. ASSUME NEW g \in Descriptors(q)', Owns(q, g)', Number(q, g)' = Number(q, f)'
              PROVE  g = f
          BY <2>5, <3>4, <4>1, <4>2, <5>3 DEF NumbersExact
        <5> QED
          BY <5>1, <5>2, <5>3
      <4>3. ASSUME NEW q \in Tasks, NEW n \in Numbers
            PROVE  /\ InHand(q, n)' => owner'[n] = q
                   /\ owner'[n] = q => \/ n \in lost' \/ InHand(q, n)'
                                       \/ \E f \in Descriptors(q)' : Owns(q, f)' /\ Number(q, f)' = n
        <5>1. InHand(q, n)' => owner'[n] = q
          BY <2>1, <2>5, <3>3 DEF NumbersExact
        <5>2. CASE \E f \in Descriptors(q) : Owns(q, f) /\ Number(q, f) = n
          <6>1. PICK f \in Descriptors(q) : Owns(q, f) /\ Number(q, f) = n
            BY <5>2
          <6>2. Owns(q, f)' /\ f \in Descriptors(q)' /\ Number(q, f)' = n
            BY <3>1, <6>1 DEF Owns
          <6>3. \E g \in Descriptors(q)' : Owns(q, g)' /\ Number(q, g)' = n
            BY <6>2
          <6> QED
            BY <5>1, <6>3
        <5>3. CASE q = p /\ n = ret[p]
          <6>1. c \in Descriptors(q)' /\ Owns(q, c)' /\ Number(q, c)' = n
            BY <2>3, <3>2, <5>3
          <6>2. \E g \in Descriptors(q)' : Owns(q, g)' /\ Number(q, g)' = n
            BY <6>1
          <6> QED
            BY <5>1, <6>2
        <5>4. CASE /\ ~ \E f \in Descriptors(q) : Owns(q, f) /\ Number(q, f) = n
                   /\ ~(q = p /\ n = ret[p])
          <6>1. owner[n] = q => n \in lost \/ InHand(q, n)
            BY <2>5, <5>4 DEF NumbersExact
          <6>2. InHand(q, n) => InHand(q, n)'
            BY <3>3, <5>4
          <6> QED
            BY <2>1, <5>1, <6>1, <6>2
        <5> QED
          BY <5>2, <5>3, <5>4
      <4> QED
        BY <4>2, <4>3 DEF NumbersExact
    <3>7. ASSUME NEW q \in Tasks, pc[q] = "close"
          PROVE  (sockets[Sid(q)].fd)' = sockets[Sid(q)].fd
      <4>1. fd[q] \in Descriptors(q) /\ Holds(q, fd[q]) /\ fd'[q] = fd[q]
        BY <2>1, <3>7, AtSlot DEF Holds, FdPoints, Ops
      <4>2. Number(q, fd[q])' = Number(q, fd[q]) /\ fds'[q][fd[q]] = fds[q][fd[q]]
        BY <3>1, <4>1
      <4> QED
        BY <4>1, <4>2 DEF Number, Sid
    <3>8. CloseExact'
      BY <2>1, <2>5, <3>7, CloseStays
    <3> QED
      BY <3>5, <3>6, <3>8
  <2> QED
    BY <2>4, <2>5
<1>10. ASSUME NEW p \in Tasks, Register(p) PROVE OwnInv'
  <2>1. /\ \A q \in Tasks : Same(q) /\ SameHand(q)
        /\ \A s \in Sids : SameSlot(s)
        /\ UNCHANGED <<owner, lost, torn>>
    <3>1. \A s \in Sids : SameSlot(s)
      BY <1>10 DEF Register, Publish, SameSlot, TableOK, SocketType
    <3>2. \A q \in Tasks : Same(q) /\ SameHand(q)
      BY <1>10 DEF Register, Publish, Same, LosePoints, Descriptors, SameHand, InHand, HandPoints
    <3> QED
      BY <1>10, <3>1, <3>2 DEF Register, Publish
  <2>2. ASSUME CloseExact PROVE CloseExact'
    <3>1. \A q \in Tasks : pc[q] = "close" => (sockets[Sid(q)].fd)' = sockets[Sid(q)].fd
      BY <1>10, <2>1, ClosersStay DEF Register, Publish
    <3> QED
      BY <1>10, <2>2, <3>1, CloseStays DEF Register, Publish
  <2> QED
    BY <2>1, <2>2, OwnStays
<1>11. ASSUME NEW p \in Tasks, Connected(p) PROVE OwnInv'
  <2>1. /\ \A q \in Tasks : Same(q) /\ SameHand(q)
        /\ \A s \in Sids : SameSlot(s)
        /\ UNCHANGED <<owner, lost, torn>>
    BY <1>11 DEF Connected, Same, LosePoints, Descriptors, SameHand, InHand, HandPoints, SameSlot
  <2>2. ASSUME CloseExact PROVE CloseExact'
    <3>1. \A q \in Tasks : pc[q] = "close" => (sockets[Sid(q)].fd)' = sockets[Sid(q)].fd
      BY <1>11, <2>1, ClosersStay DEF Connected
    <3> QED
      BY <1>11, <2>2, <3>1, CloseStays DEF Connected
  <2> QED
    BY <2>1, <2>2, OwnStays
<1>12. ASSUME NEW p \in Tasks, WaitConnected(p) PROVE OwnInv'
  <2>1. /\ \A q \in Tasks : Same(q) /\ SameHand(q)
        /\ \A s \in Sids : SameSlot(s)
        /\ UNCHANGED <<owner, lost, torn>>
    BY <1>12 DEF WaitConnected, Wait, Same, LosePoints, Descriptors, SameHand, InHand,
       HandPoints, SameSlot
  <2>2. ASSUME CloseExact PROVE CloseExact'
    <3>1. \A q \in Tasks : pc[q] = "close" => (sockets[Sid(q)].fd)' = sockets[Sid(q)].fd
      BY <1>12, <2>1, ClosersStay DEF WaitConnected, Wait
    <3> QED
      BY <1>12, <2>2, <3>1, CloseStays DEF WaitConnected, Wait
  <2> QED
    BY <2>1, <2>2, OwnStays
<1>13. ASSUME NEW p \in Tasks, WaitReadable(p) PROVE OwnInv'
  <2>1. /\ \A q \in Tasks : Same(q) /\ SameHand(q)
        /\ \A s \in Sids : SameSlot(s)
        /\ UNCHANGED <<owner, lost, torn>>
    BY <1>13 DEF WaitReadable, Wait, Same, LosePoints, Descriptors, SameHand, InHand,
       HandPoints, SameSlot
  <2>2. ASSUME CloseExact PROVE CloseExact'
    <3>1. \A q \in Tasks : pc[q] = "close" => (sockets[Sid(q)].fd)' = sockets[Sid(q)].fd
      BY <1>13, <2>1, ClosersStay DEF WaitReadable, Wait
    <3> QED
      BY <1>13, <2>2, <3>1, CloseStays DEF WaitReadable, Wait
  <2> QED
    BY <2>1, <2>2, OwnStays
<1>14. ASSUME NEW p \in Tasks, Write(p) PROVE OwnInv'
  <2>1. /\ \A q \in Tasks : Same(q) /\ SameHand(q)
        /\ \A s \in Sids : SameSlot(s)
        /\ UNCHANGED <<owner, lost, torn>>
    BY <1>14 DEF Write, Transfer, Request, Same, LosePoints, Descriptors, SameHand, InHand,
       HandPoints, SameSlot
  <2>2. ASSUME CloseExact PROVE CloseExact'
    <3>1. \A q \in Tasks : pc[q] = "close" => (sockets[Sid(q)].fd)' = sockets[Sid(q)].fd
      BY <1>14, <2>1, ClosersStay DEF Write, Transfer, Request
    <3>2. CASE UNCHANGED requests
      BY <2>2, <3>1, <3>2, CloseStays
    <3>3. CASE ~UNCHANGED requests
      <4>1. PICK n \in Numbers \cup {NoNumber} : Request(p, pc[p], "write", n)
        BY <1>14, <3>3, Slot, AtSlot DEF Write, Transfer, Request, Number, FdPoints, WaitPoints
      <4>2. pc[p] \notin Ops /\ "write" \in Ops
        BY <1>14 DEF Write, Transfer, Request, Ops
      <4> QED
        BY <2>2, <3>1, <4>1, <4>2, CloseAsked DEF Request
    <3> QED
      BY <3>2, <3>3
  <2> QED
    BY <2>1, <2>2, OwnStays
<1>15. ASSUME NEW p \in Tasks, Read(p) PROVE OwnInv'
  <2>1. /\ \A q \in Tasks : Same(q) /\ SameHand(q)
        /\ \A s \in Sids : SameSlot(s)
        /\ UNCHANGED <<owner, lost, torn>>
    BY <1>15 DEF Read, Transfer, Request, Same, LosePoints, Descriptors, SameHand, InHand,
       HandPoints, SameSlot
  <2>2. ASSUME CloseExact PROVE CloseExact'
    <3>1. \A q \in Tasks : pc[q] = "close" => (sockets[Sid(q)].fd)' = sockets[Sid(q)].fd
      BY <1>15, <2>1, ClosersStay DEF Read, Transfer, Request
    <3>2. CASE UNCHANGED requests
      BY <2>2, <3>1, <3>2, CloseStays
    <3>3. CASE ~UNCHANGED requests
      <4>1. PICK n \in Numbers \cup {NoNumber} : Request(p, pc[p], "read", n)
        BY <1>15, <3>3, Slot, AtSlot DEF Read, Transfer, Request, Number, FdPoints, WaitPoints
      <4>2. pc[p] \notin Ops /\ "read" \in Ops
        BY <1>15 DEF Read, Transfer, Request, Ops
      <4> QED
        BY <2>2, <3>1, <4>1, <4>2, CloseAsked DEF Request
    <3> QED
      BY <3>2, <3>3
  <2> QED
    BY <2>1, <2>2, OwnStays
<1>16. ASSUME NEW p \in Tasks, Transferred(p) PROVE OwnInv'
  <2>1. /\ \A q \in Tasks : Same(q) /\ SameHand(q)
        /\ \A s \in Sids : SameSlot(s)
        /\ UNCHANGED <<owner, lost, torn>>
    BY <1>16 DEF Transferred, Same, LosePoints, Descriptors, SameHand, InHand, HandPoints,
       SameSlot
  <2>2. ASSUME CloseExact PROVE CloseExact'
    <3>1. \A q \in Tasks : pc[q] = "close" => (sockets[Sid(q)].fd)' = sockets[Sid(q)].fd
      BY <1>16, <2>1, ClosersStay DEF Transferred
    <3> QED
      BY <1>16, <2>2, <3>1, CloseStays DEF Transferred
  <2> QED
    BY <2>1, <2>2, OwnStays
<1>17. ASSUME NEW p \in Tasks, FreeSlot(p) PROVE OwnInv'
  <2> USE DEF OwnInv
  <2>1. /\ UNCHANGED <<owner, lost, torn, requests, ret, fds, fd>> /\ pc[p] = "closed"
        /\ pc' = [pc EXCEPT ![p] = "close_end"]
        /\ sockets' = [sockets EXCEPT ![Sid(p)] = NewSocket]
    BY <1>17 DEF FreeSlot
  <2>2. CASE torn
    BY <2>1, <2>2
  <2>3. CASE ~torn
    <3>1. Holds(p, fd[p]) /\ fd[p] \in Descriptors(p) /\ Sid(p) \in Sids
      BY <2>1, AtSlot DEF Holds, FdPoints
    <3>2. ASSUME NEW q \in Tasks, NEW f \in Descriptors(q), Holds(q, f), ~(q = p /\ f = fd[p])
          PROVE  SameSlot(fds[q][f])
      <4>1. fds[q][f] # Sid(p) /\ fds[q][f] \in Sids
        BY <2>3, <3>1, <3>2, Slot DEF SlotsExact, Sid
      <4> QED
        BY <2>1, <4>1 DEF SameSlot, TableOK
    <3>3. ASSUME NEW q \in Tasks, NEW f \in Descriptors(q)
          PROVE  /\ Holds(q, f)' => Holds(q, f) /\ Keeps(q, f)
                 /\ Owns(q, f)' <=> Owns(q, f)
      <4>1. Holds(q, f)' => Holds(q, f) /\ ~(q = p /\ f = fd[p])
        BY <2>1 DEF Holds, Descriptors
      <4>2. Owns(q, f)' <=> Owns(q, f)
        BY <2>1 DEF Owns, Holds, Descriptors
      <4>3. f \in Descriptors(q)' /\ fds'[q][f] = fds[q][f]
        BY <2>1 DEF Descriptors
      <4> QED
        BY <3>2, <4>1, <4>2, <4>3 DEF Keeps
    <3>4. ASSUME NEW q \in Tasks
          PROVE  Descriptors(q)' \subseteq Descriptors(q) /\ Kept(q) /\ SameHand(q)
      BY <2>1, <3>3 DEF Kept, SameHand, InHand, HandPoints, Descriptors
    <3>5. ASSUME NEW q \in Tasks, pc[q] = "close"
          PROVE  (sockets[Sid(q)].fd)' = sockets[Sid(q)].fd
      <4>1. fd[q] \in Descriptors(q) /\ Holds(q, fd[q]) /\ q # p /\ Sid(q)' = Sid(q)
        BY <2>1, <3>5, AtSlot DEF Holds, FdPoints, Ops, Sid
      <4> QED
        BY <3>2, <4>1 DEF SameSlot, Sid
    <3>6. CloseExact'
      BY <2>1, <2>3, <3>5, CloseStays
    <3> QED
      BY <2>1, <2>3, <3>3, <3>4, <3>6, SlotsStay, NumbersStay
  <2> QED
    BY <2>2, <2>3
<1>18. ASSUME NEW p \in Tasks, CloseEnd(p) PROVE OwnInv'
  <2>1. UNCHANGED <<owner, lost, torn, sockets, requests, ret>>
    BY <1>18 DEF CloseEnd
  <2>2. ASSUME NEW q \in Tasks
        PROVE  /\ Descriptors(q)' \subseteq Descriptors(q) /\ Kept(q) /\ SameHand(q)
               /\ \A f \in Descriptors(q) : Owns(q, f)' <=> Owns(q, f)
    <3>1. CASE q = p
      <4>1. /\ pc[p] = "close_end" /\ pc'[p] \in {"on_close", "idle"}
            /\ Descriptors(p)' = Descriptors(p) \ {fd[p]}
            /\ \A f \in Descriptors(p)' : fds'[p][f] = fds[p][f]
        BY <1>18, ClosedCell DEF CloseEnd
      <4>2. ASSUME NEW f \in Descriptors(p)
            PROVE  /\ Holds(p, f)' => Holds(p, f) /\ Keeps(p, f)
                   /\ Owns(p, f)' <=> Owns(p, f)
        BY <2>1, <4>1 DEF Holds, Owns, Keeps, SameSlot
      <4> QED
        BY <2>1, <3>1, <4>1, <4>2 DEF Kept, SameHand, InHand, HandPoints
    <3>2. CASE q # p
      <4>1. fds'[q] = fds[q] /\ pc'[q] = pc[q] /\ fd'[q] = fd[q]
        BY <1>18, <3>2, ClosedCell DEF CloseEnd
      <4>2. Same(q) /\ SameHand(q) /\ \A s \in Sids : SameSlot(s)
        BY <2>1, <4>1 DEF Same, Descriptors, SameHand, InHand, SameSlot
      <4> QED
        BY <4>2, SameKept DEF Same
    <3> QED
      BY <3>1, <3>2
  <2>3. ASSUME CloseExact PROVE CloseExact'
    <3>1. \A q \in Tasks : pc[q] = "close" => (sockets[Sid(q)].fd)' = sockets[Sid(q)].fd
      <4>1. pc[p] = "close_end" /\ \A q \in Tasks \ {p} : fds'[q] = fds[q] /\ fd'[q] = fd[q]
        BY <1>18, ClosedCell DEF CloseEnd
      <4> QED
        BY <2>1, <4>1 DEF Sid
    <3> QED
      BY <2>1, <2>3, <3>1, CloseStays
  <2> QED
    BY <2>1, <2>2, <2>3, SlotsStay, NumbersStay DEF OwnInv
<1>19. ASSUME NEW p \in Tasks, OnClose(p) PROVE OwnInv'
  <2>1. CASE torn
    BY <1>19, <2>1 DEF OnClose, Close, Open, Request, OwnInv
  <2>2. CASE ~torn
    <3>1. PICK f \in Descriptors(p) : Close(p, f, "on_close")
      BY <1>19 DEF OnClose, Open
    <3>2. Holds(p, f)
      BY <3>1 DEF Close, Request, Holds
    <3>3. sockets[fds[p][f]].used
      BY <2>2, <3>2 DEF OwnInv, SlotsExact
    <3>4. /\ Request(p, "on_close", "close", Number(p, f)) /\ fd' = [fd EXCEPT ![p] = f]
          /\ UNCHANGED <<sockets, handlers, fds, death, ret, owner, lost, torn>>
      BY <3>1, <3>3 DEF Close, Number
    <3>5. /\ \A q \in Tasks : Same(q) /\ SameHand(q)
          /\ \A s \in Sids : SameSlot(s)
          /\ UNCHANGED <<owner, lost, torn>>
      BY <3>4 DEF Request, Same, LosePoints, Descriptors, SameHand, InHand, HandPoints, SameSlot
    <3>6. ASSUME CloseExact PROVE CloseExact'
      <4>1. pc[p] \notin Ops /\ pc[p] # "close" /\ "close" \in Ops
        BY <3>4 DEF Request, Ops
      <4>2. \A q \in Tasks : pc[q] = "close" => (sockets[Sid(q)].fd)' = sockets[Sid(q)].fd
        BY <3>4, <3>5, <4>1, ClosersStay
      <4>3. Number(p, f) = (sockets[Sid(p)].fd)' /\ Number(p, f) \in Numbers \cup {NoNumber}
        BY <3>4, Slot DEF Number, Sid
      <4>4. requests' = Append(requests, [op |-> "close", proc |-> p, number |-> Number(p, f)])
        BY <3>4 DEF Request
      <4> QED
        BY <3>6, <4>1, <4>2, <4>3, <4>4, CloseAsked
    <3> QED
      BY <3>5, <3>6, OwnStays
  <2> QED
    BY <2>1, <2>2
<1>20. ASSUME NEW p \in Tasks, OnCloseEnds(p) PROVE OwnInv'
  <2>1. /\ \A q \in Tasks : Same(q) /\ SameHand(q)
        /\ \A s \in Sids : SameSlot(s)
        /\ UNCHANGED <<owner, lost, torn>>
    BY <1>20 DEF OnCloseEnds, Same, LosePoints, Descriptors, SameHand, InHand, HandPoints,
       SameSlot
  <2>2. ASSUME CloseExact PROVE CloseExact'
    <3>1. \A q \in Tasks : pc[q] = "close" => (sockets[Sid(q)].fd)' = sockets[Sid(q)].fd
      BY <1>20, <2>1, ClosersStay DEF OnCloseEnds
    <3> QED
      BY <1>20, <2>2, <3>1, CloseStays DEF OnCloseEnds
  <2> QED
    BY <2>1, <2>2, OwnStays
<1>21. ASSUME NEW p \in Tasks, Reset(p) PROVE OwnInv'
  <2> USE DEF OwnInv
  <2>1. /\ UNCHANGED <<sockets, fds, owner, requests>> /\ lost \subseteq lost' /\ critical[p] = FALSE
        /\ torn' = (torn \/ pc[p] = "close_end") /\ pc' = [pc EXCEPT ![p] = "on_close"]
        /\ fd' = [fd EXCEPT ![p] = 0] /\ ret' = [ret EXCEPT ![p] = NoNumber]
        /\ pc[p] = "open" => ret[p] \in lost'
    BY <1>21 DEF Reset, Dies
  <2>2. CASE torn'
    BY <2>2
  <2>3. CASE ~torn'
    <3>1. ~torn /\ pc[p] \notin LosePoints \cup Ops /\ pc[p] \notin {"made", "new"}
      BY <2>1, <2>3 DEF LosePoints, CallExact, CallAt, CriticalPoints, Ops
    <3>2. \A q \in Tasks : Same(q)
      BY <2>1, <3>1 DEF Same, LosePoints, Descriptors
    <3>3. \A s \in Sids : SameSlot(s)
      BY <2>1 DEF SameSlot
    <3>4. \A q \in Tasks : /\ Descriptors(q)' = Descriptors(q) /\ Kept(q)
                           /\ \A f \in Descriptors(q) : Owns(q, f)' <=> Owns(q, f)
      BY <3>2, <3>3, SameKept DEF Same
    <3>5. SlotsExact'
      BY <3>1, <3>4, SlotsStay
    <3>6. ASSUME NEW q \in Tasks, NEW n \in Numbers
          PROVE  /\ InHand(q, n)' => InHand(q, n)
                 /\ InHand(q, n) => InHand(q, n)' \/ n \in lost'
      BY <2>1, <3>1 DEF InHand, HandPoints
    <3>7. NumbersExact'
      BY <2>1, <3>1, <3>4, <3>6, NumbersLost
    <3>8. ASSUME NEW q \in Tasks, pc[q] = "close"
          PROVE  (sockets[Sid(q)].fd)' = sockets[Sid(q)].fd
      BY <2>1, <3>1, <3>8 DEF Sid, Ops
    <3>9. CloseExact'
      BY <2>1, <3>1, <3>8, CloseStays
    <3> QED
      BY <3>5, <3>7, <3>9
  <2> QED
    BY <2>2, <2>3
<1>22. CASE HelperSocket
  <2> USE DEF OwnInv
  <2>1. /\ Answer("socket", "made") /\ "socket" \in Ops /\ "made" \in Points \ Ops
        /\ Head(requests).proc \in Tasks /\ pc[Head(requests).proc] = "socket"
        /\ pc' = [pc EXCEPT ![Head(requests).proc] = "made"]
    BY <1>22, Answered DEF HelperSocket, Points, CriticalPoints, HandPoints, Ops
  <2>2. PICK p \in Tasks : p = Head(requests).proc
    BY <2>1
  <2>3. /\ pc[p] = "socket" /\ pc' = [pc EXCEPT ![p] = "made"]
        /\ UNCHANGED <<sockets, fds, fd, lost, torn>>
    BY <2>1, <2>2 DEF Answer
  <2>4. \A q \in Tasks : Same(q) /\ \A s \in Sids : SameSlot(s)
    BY <2>3 DEF Same, LosePoints, Descriptors, SameSlot
  <2>5. \A q \in Tasks : /\ Descriptors(q)' = Descriptors(q) /\ Kept(q)
                         /\ \A f \in Descriptors(q) : Owns(q, f)' <=> Owns(q, f)
    BY <2>4, SameKept DEF Same
  <2>6. ASSUME CloseExact PROVE CloseExact'
    BY <2>1, <2>4, <2>6, CloseAnswered DEF Answer, SameSlot
  <2>7. ASSUME ~torn, ret' = [ret EXCEPT ![p] = NoNumber], UNCHANGED owner
        PROVE  NumbersExact'
    <3>1. \A q \in Tasks : SameHand(q)
      BY <2>3, <2>7 DEF SameHand, InHand, HandPoints
    <3> QED
      BY <2>3, <2>5, <2>7, <3>1, NumbersStay
  <2>8. ASSUME ~torn, NEW m \in Numbers, owner[m] = NoTask,
               owner' = [owner EXCEPT ![m] = p], ret' = [ret EXCEPT ![p] = m]
        PROVE  NumbersExact'
    <3>1. /\ \A q \in Tasks, n \in Numbers : n # m => (InHand(q, n)' <=> InHand(q, n))
          /\ \A q \in Tasks : ~InHand(q, m) /\ (InHand(q, m)' <=> q = p)
      <4>1. NoTask \notin Tasks /\ \A q \in Tasks : ~InHand(q, m)
        BY <2>8 DEF NumbersExact, NucleusAssumption
      <4>2. \A n \in Numbers : ~InHand(p, n)
        BY <2>3 DEF InHand, HandPoints
      <4> QED
        BY <2>3, <2>8, <4>1, <4>2 DEF InHand, HandPoints
    <3>2. /\ \A n \in Numbers : n # m => owner'[n] = owner[n]
          /\ owner'[m] = p /\ NoTask \notin Tasks
      BY <2>8 DEF NucleusAssumption
    <3>3. ASSUME NEW q \in Tasks, NEW f \in Descriptors(q), Owns(q, f)
          PROVE  /\ owner'[Number(q, f)] = q /\ ~InHand(q, Number(q, f))'
                 /\ Number(q, f)' = Number(q, f) /\ Number(q, f) \in Numbers
      <4>1. /\ owner[Number(q, f)] = q /\ ~InHand(q, Number(q, f))
            /\ Number(q, f) # NoNumber /\ Number(q, f) \in Numbers
        <5>1. owner[Number(q, f)] = q /\ ~InHand(q, Number(q, f))
          BY <2>8, <3>3 DEF NumbersExact
        <5>2. Number(q, f) # NoNumber /\ Number(q, f) \in Numbers \cup {NoNumber}
          BY <2>8, <3>3, Slot DEF SlotsExact, Owns
        <5> QED
          BY <5>1, <5>2
      <4>2. Number(q, f)' = Number(q, f)
        BY <2>3 DEF Number
      <4>3. Number(q, f) # m
        BY <2>8, <3>2, <4>1
      <4>4. owner'[Number(q, f)] = q
        BY <3>2, <4>1, <4>3
      <4>5. ~InHand(q, Number(q, f))'
        <5>1. \A n \in Numbers : n # m => (InHand(q, n)' <=> InHand(q, n))
          BY <3>1
        <5>2. PICK n \in Numbers : n = Number(q, f)
          BY <4>1
        <5>3. ~InHand(q, n)'
          BY <4>1, <4>3, <5>1, <5>2
        <5> QED
          BY <4>2, <5>2, <5>3 DEF InHand
      <4> QED
        BY <4>1, <4>2, <4>4, <4>5
    <3>4. ASSUME NEW q \in Tasks, NEW n \in Numbers
          PROVE  /\ InHand(q, n)' => owner'[n] = q
                 /\ owner'[n] = q => \/ n \in lost' \/ InHand(q, n)'
                                     \/ \E f \in Descriptors(q)' : Owns(q, f)' /\ Number(q, f)' = n
      <4>1. CASE n = m
        BY <3>1, <3>2, <4>1
      <4>2. CASE n # m
        <5>1. /\ InHand(q, n) => owner[n] = q
              /\ owner[n] = q => \/ n \in lost \/ InHand(q, n)
                                 \/ \E f \in Descriptors(q) : Owns(q, f) /\ Number(q, f) = n
          BY <2>8 DEF NumbersExact
        <5>2. (InHand(q, n)' <=> InHand(q, n)) /\ owner'[n] = owner[n] /\ lost' = lost
          BY <2>3, <3>1, <3>2, <4>2
        <5>3. ASSUME NEW f \in Descriptors(q), Owns(q, f) /\ Number(q, f) = n
              PROVE  \E g \in Descriptors(q)' : Owns(q, g)' /\ Number(q, g)' = n
          BY <2>5, <3>3, <5>3
        <5> QED
          BY <5>1, <5>2, <5>3
      <4> QED
        BY <4>1, <4>2
    <3>5. ASSUME NEW q \in Tasks, NEW f \in Descriptors(q)', Owns(q, f)'
          PROVE  f \in Descriptors(q) /\ Owns(q, f) /\ Number(q, f)' = Number(q, f)
      BY <2>5, <3>3, <3>5
    <3>6. ASSUME NEW q \in Tasks, NEW f \in Descriptors(q)', Owns(q, f)'
          PROVE  /\ owner'[Number(q, f)'] = q /\ ~InHand(q, Number(q, f))'
                 /\ \A g \in Descriptors(q)' :
                      Owns(q, g)' /\ Number(q, g)' = Number(q, f)' => g = f
      <4>1. f \in Descriptors(q) /\ Owns(q, f) /\ Number(q, f)' = Number(q, f)
        BY <3>5, <3>6
      <4>2. owner'[Number(q, f)'] = q /\ ~InHand(q, Number(q, f))'
        BY <3>3, <4>1
      <4>3. ASSUME NEW g \in Descriptors(q)', Owns(q, g)', Number(q, g)' = Number(q, f)'
            PROVE  g = f
        <5>1. g \in Descriptors(q) /\ Owns(q, g) /\ Number(q, g) = Number(q, f)
          BY <3>5, <4>1, <4>3
        <5> QED
          BY <2>8, <4>1, <5>1 DEF NumbersExact
      <4> QED
        BY <4>2, <4>3
    <3> QED
      BY <3>4, <3>6 DEF NumbersExact
  <2>9. ASSUME ~torn PROVE SlotsExact' /\ NumbersExact'
    <3>1. SlotsExact'
      BY <2>5, <2>9, SlotsStay
    <3>2. \/ ret' = [ret EXCEPT ![p] = NoNumber] /\ UNCHANGED owner
          \/ \E m \in Numbers : /\ owner[m] = NoTask /\ owner' = [owner EXCEPT ![m] = p]
                               /\ ret' = [ret EXCEPT ![p] = m]
      BY <1>22, <2>2 DEF HelperSocket, Unused
    <3> QED
      BY <2>7, <2>8, <2>9, <3>1, <3>2
  <2> QED
    BY <2>3, <2>6, <2>9
<1>23. CASE HelperConnect
  <2>0. /\ Answer("connect", "connect_done") /\ "connect" \in Ops /\ "connect_done" \in Points \ Ops
        /\ Head(requests).proc \in Tasks /\ pc[Head(requests).proc] = "connect"
        /\ pc' = [pc EXCEPT ![Head(requests).proc] = "connect_done"]
    BY <1>23, Answered DEF HelperConnect, Points, CriticalPoints, FdPoints, WaitPoints,
       HandPoints, Ops
  <2>1. /\ \A q \in Tasks : Same(q) /\ SameHand(q)
        /\ \A s \in Sids : SameSlot(s)
        /\ UNCHANGED <<owner, lost, torn>>
    BY <1>23, <2>0 DEF HelperConnect, Answer, Same, LosePoints, Descriptors, SameHand, InHand,
       HandPoints, SameSlot
  <2>2. ASSUME CloseExact PROVE CloseExact'
    BY <2>0, <2>1, <2>2, CloseAnswered DEF Answer, SameSlot
  <2> QED
    BY <2>1, <2>2, OwnStays
<1>24. CASE HelperWrite
  <2>0. /\ Answer("write", "done") /\ "write" \in Ops /\ "done" \in Points \ Ops
        /\ Head(requests).proc \in Tasks /\ pc[Head(requests).proc] = "write"
        /\ pc' = [pc EXCEPT ![Head(requests).proc] = "done"]
    BY <1>24, Answered DEF HelperWrite, Points, CriticalPoints, FdPoints, WaitPoints,
       HandPoints, Ops
  <2>1. /\ \A q \in Tasks : Same(q) /\ SameHand(q)
        /\ \A s \in Sids : SameSlot(s)
        /\ UNCHANGED <<owner, lost, torn>>
    BY <1>24, <2>0 DEF HelperWrite, Answer, Same, LosePoints, Descriptors, SameHand, InHand,
       HandPoints, SameSlot
  <2>2. ASSUME CloseExact PROVE CloseExact'
    BY <2>0, <2>1, <2>2, CloseAnswered DEF Answer, SameSlot
  <2> QED
    BY <2>1, <2>2, OwnStays
<1>25. CASE HelperRead
  <2>0. /\ Answer("read", "done") /\ "read" \in Ops /\ "done" \in Points \ Ops
        /\ Head(requests).proc \in Tasks /\ pc[Head(requests).proc] = "read"
        /\ pc' = [pc EXCEPT ![Head(requests).proc] = "done"]
    BY <1>25, Answered DEF HelperRead, Points, CriticalPoints, FdPoints, WaitPoints, HandPoints,
       Ops
  <2>1. /\ \A q \in Tasks : Same(q) /\ SameHand(q)
        /\ \A s \in Sids : SameSlot(s)
        /\ UNCHANGED <<owner, lost, torn>>
    BY <1>25, <2>0 DEF HelperRead, Answer, Same, LosePoints, Descriptors, SameHand, InHand,
       HandPoints, SameSlot
  <2>2. ASSUME CloseExact PROVE CloseExact'
    BY <2>0, <2>1, <2>2, CloseAnswered DEF Answer, SameSlot
  <2> QED
    BY <2>1, <2>2, OwnStays
<1>26. CASE HelperClose
  <2> USE DEF OwnInv
  <2>1. /\ Answer("close", "closed") /\ "close" \in Ops /\ "closed" \in Points \ Ops
        /\ Head(requests).proc \in Tasks /\ pc[Head(requests).proc] = "close"
        /\ pc' = [pc EXCEPT ![Head(requests).proc] = "closed"]
        /\ 1 \in DOMAIN requests /\ Head(requests) = requests[1]
    BY <1>26, Answered DEF HelperClose, Points, CriticalPoints, FdPoints, Ops
  <2>2. PICK p \in Tasks : p = Head(requests).proc
    BY <2>1
  <2>3. /\ pc[p] = "close" /\ pc' = [pc EXCEPT ![p] = "closed"]
        /\ UNCHANGED <<sockets, fds, fd, lost, torn, ret>>
        /\ owner' = [owner EXCEPT ![Head(requests).number] = NoTask]
    BY <1>26, <2>1, <2>2 DEF HelperClose, Answer
  <2>4. PICK c \in Descriptors(p) : c = fd[p]
    BY <2>3, AtSlot DEF FdPoints, Ops
  <2>5. Holds(p, c) /\ Owns(p, c) /\ ~Owns(p, c)'
    BY <2>3, <2>4 DEF Holds, Owns
  <2>6. ASSUME CloseExact PROVE CloseExact'
    <3>1. \A s \in Sids : SameSlot(s)
      BY <2>3 DEF SameSlot
    <3>2. UNCHANGED <<fds, fd>>
      BY <2>3
    <3> QED
      BY <2>1, <2>6, <3>1, <3>2, CloseAnswered DEF Answer, SameSlot
  <2>7. ASSUME NEW q \in Tasks
        PROVE  /\ Descriptors(q)' = Descriptors(q) /\ Kept(q) /\ SameHand(q)
               /\ \A f \in Descriptors(q) :
                    /\ Number(q, f)' = Number(q, f)
                    /\ Owns(q, f)' <=> Owns(q, f) /\ ~(q = p /\ f = c)
    <3>1. Descriptors(q)' = Descriptors(q) /\ SameHand(q)
      BY <2>3 DEF Descriptors, SameHand, InHand, HandPoints
    <3>2. ASSUME NEW f \in Descriptors(q)
          PROVE  /\ Number(q, f)' = Number(q, f) /\ (Holds(q, f)' <=> Holds(q, f)) /\ Keeps(q, f)
                 /\ Owns(q, f)' <=> Owns(q, f) /\ ~(q = p /\ f = c)
      BY <2>3, <2>4, <3>1 DEF Number, Holds, Owns, Keeps, SameSlot
    <3> QED
      BY <3>1, <3>2 DEF Kept
  <2>8. ASSUME ~torn PROVE SlotsExact' /\ NumbersExact'
    <3>1. SlotsExact'
      BY <2>7, <2>8, SlotsStay
    <3>2. Head(requests).number = Number(p, c)
      BY <2>1, <2>2, <2>4, <2>8 DEF CloseExact, Number, Sid, Answer
    <3>3. PICK m \in Numbers : m = Number(p, c)
      BY <2>5, <2>8, Slot DEF SlotsExact
    <3>4. /\ owner[m] = p /\ \A q \in Tasks : ~InHand(q, m)
          /\ \A q \in Tasks : \A f \in Descriptors(q) :
               Owns(q, f) /\ Number(q, f) = m => q = p /\ f = c
      <4>1. owner[m] = p /\ ~InHand(p, m)
        BY <2>5, <2>8, <3>3 DEF NumbersExact
      <4>2. \A q \in Tasks : ~InHand(q, m)
        BY <2>8, <4>1 DEF NumbersExact
      <4>3. ASSUME NEW q \in Tasks, NEW f \in Descriptors(q), Owns(q, f), Number(q, f) = m
            PROVE  q = p /\ f = c
        <5>1. q = p
          BY <2>8, <4>1, <4>3 DEF NumbersExact
        <5> QED
          BY <2>5, <2>8, <3>3, <4>3, <5>1 DEF NumbersExact
      <4> QED
        BY <4>1, <4>2, <4>3
    <3>5. /\ \A n \in Numbers : n # m => owner'[n] = owner[n]
          /\ owner'[m] = NoTask /\ NoTask \notin Tasks
      BY <2>3, <3>2, <3>3 DEF NucleusAssumption
    <3>6. ASSUME NEW q \in Tasks, NEW f \in Descriptors(q), Owns(q, f)'
          PROVE  /\ Owns(q, f) /\ Number(q, f) \in Numbers /\ Number(q, f) # m
                 /\ Number(q, f)' = Number(q, f)
      <4>1. Owns(q, f) /\ ~(q = p /\ f = c) /\ Number(q, f)' = Number(q, f)
        BY <2>7, <3>6
      <4>2. Number(q, f) \in Numbers
        BY <2>8, <4>1, Slot DEF SlotsExact, Owns
      <4> QED
        BY <3>4, <4>1, <4>2
    <3>7. ASSUME NEW q \in Tasks, NEW f \in Descriptors(q)', Owns(q, f)'
          PROVE  /\ owner'[Number(q, f)'] = q /\ ~InHand(q, Number(q, f))'
                 /\ \A g \in Descriptors(q)' :
                      Owns(q, g)' /\ Number(q, g)' = Number(q, f)' => g = f
      <4>1. f \in Descriptors(q) /\ Descriptors(q)' = Descriptors(q)
        BY <2>7
      <4>2. /\ Owns(q, f) /\ Number(q, f) \in Numbers /\ Number(q, f) # m
            /\ Number(q, f)' = Number(q, f)
        BY <3>6, <3>7, <4>1
      <4>3. owner[Number(q, f)] = q /\ ~InHand(q, Number(q, f))
        BY <2>8, <4>1, <4>2 DEF NumbersExact
      <4>4. owner'[Number(q, f)'] = q /\ ~InHand(q, Number(q, f))'
        BY <2>7, <3>5, <4>2, <4>3 DEF SameHand
      <4>5. ASSUME NEW g \in Descriptors(q), Owns(q, g)', Number(q, g)' = Number(q, f)'
            PROVE  g = f
        <5>1. Owns(q, g) /\ Number(q, g) = Number(q, f)
          BY <3>6, <4>2, <4>5
        <5> QED
          BY <2>8, <4>1, <4>2, <5>1 DEF NumbersExact
      <4> QED
        BY <4>1, <4>4, <4>5
    <3>8. ASSUME NEW q \in Tasks, NEW n \in Numbers
          PROVE  /\ InHand(q, n)' => owner'[n] = q
                 /\ owner'[n] = q => \/ n \in lost' \/ InHand(q, n)'
                                     \/ \E f \in Descriptors(q)' : Owns(q, f)' /\ Number(q, f)' = n
      <4>1. CASE n = m
        BY <2>7, <3>4, <3>5, <4>1 DEF SameHand
      <4>2. CASE n # m
        <5>1. /\ InHand(q, n) => owner[n] = q
              /\ owner[n] = q => \/ n \in lost \/ InHand(q, n)
                                 \/ \E f \in Descriptors(q) : Owns(q, f) /\ Number(q, f) = n
          BY <2>8 DEF NumbersExact
        <5>2. (InHand(q, n)' <=> InHand(q, n)) /\ owner'[n] = owner[n] /\ lost' = lost
          BY <2>3, <2>7, <3>5, <4>2 DEF SameHand
        <5>3. ASSUME NEW f \in Descriptors(q), Owns(q, f) /\ Number(q, f) = n
              PROVE  \E g \in Descriptors(q)' : Owns(q, g)' /\ Number(q, g)' = n
          <6>1. ~(q = p /\ f = c)
            BY <3>3, <4>2, <5>3
          <6>2. f \in Descriptors(q)' /\ Owns(q, f)' /\ Number(q, f)' = n
            BY <2>7, <5>3, <6>1
          <6> QED
            BY <6>2
        <5> QED
          BY <5>1, <5>2, <5>3
      <4> QED
        BY <4>1, <4>2
    <3> QED
      BY <3>1, <3>7, <3>8 DEF NumbersExact
  <2> QED
    BY <2>3, <2>6, <2>8
<1>27. CASE Deliver
  <2>1. /\ \A q \in Tasks : Same(q) /\ SameHand(q)
        /\ \A s \in Sids : SameSlot(s)
        /\ UNCHANGED <<owner, lost, torn>>
    <3>1. messages # << >> /\ Head(messages).kind \in Kinds
      <4>1. messages # << >> /\ messages \in Seq(MessageType)
        BY <1>27 DEF Deliver, QueuesOK
      <4>2. Head(messages).kind \in Kinds
        <5>1. Head(messages) \in MessageType
          BY <4>1, TailFacts
        <5> QED
          BY <5>1 DEF MessageType
      <4> QED
        BY <4>1, <4>2
    <3>2. \A s \in Sids : sockets'[s] \in {sockets[s], Handled(sockets[s], Head(messages).kind)}
      BY <1>27 DEF Deliver
    <3>3. \A s \in Sids : SameSlot(s)
      <4>1. ASSUME NEW s \in Sids PROVE SameSlot(s)
        <5>1. sockets[s] \in SocketType
          BY DEF TableOK
        <5>2. \A h \in {sockets[s], Handled(sockets[s], Head(messages).kind)} :
                h.used = sockets[s].used /\ h.fd = sockets[s].fd
          BY <3>1, <5>1, HandledTyped
        <5> QED
          BY <3>2, <5>2 DEF SameSlot
      <4> QED
        BY <4>1
    <3>4. ASSUME NEW q \in Tasks
          PROVE  \/ pc'[q] = pc[q]
                 \/ pc[q] \in {"write_wait", "read_wait"} /\ pc'[q] \in {"write_go", "read_go"}
      BY <1>27 DEF Deliver
    <3>5. \A q \in Tasks : Same(q) /\ SameHand(q)
      BY <1>27, <3>4 DEF Deliver, Same, LosePoints, Descriptors, SameHand, InHand, HandPoints
    <3> QED
      BY <1>27, <3>3, <3>5 DEF Deliver
  <2>2. ASSUME CloseExact PROVE CloseExact'
    <3>1. \A q \in Tasks : pc[q] = "close" => (sockets[Sid(q)].fd)' = sockets[Sid(q)].fd
      BY <1>27, <2>1, AtSlot DEF Deliver, SameSlot, Sid, FdPoints, Ops
    <3> QED
      BY <1>27, <2>2, <3>1, CloseStays DEF Deliver
  <2> QED
    BY <2>1, <2>2, OwnStays
<1>28. ASSUME NEW n \in Numbers, Change(n) PROVE OwnInv'
  <2>1. /\ \A q \in Tasks : Same(q) /\ SameHand(q)
        /\ \A s \in Sids : SameSlot(s)
        /\ UNCHANGED <<owner, lost, torn>>
    BY <1>28 DEF Change, Same, LosePoints, Descriptors, SameHand, InHand, HandPoints, SameSlot
  <2>2. ASSUME CloseExact PROVE CloseExact'
    <3>1. \A q \in Tasks : pc[q] = "close" => (sockets[Sid(q)].fd)' = sockets[Sid(q)].fd
      BY <1>28 DEF Change, Sid
    <3> QED
      BY <1>28, <2>2, <3>1, CloseStays DEF Change
  <2> QED
    BY <2>1, <2>2, OwnStays
<1>29. CASE UNCHANGED vars
  <2>1. /\ \A q \in Tasks : Same(q) /\ SameHand(q)
        /\ \A s \in Sids : SameSlot(s)
        /\ UNCHANGED <<owner, lost, torn>>
    BY <1>29 DEF vars, Same, LosePoints, Descriptors, SameHand, InHand, HandPoints, SameSlot
  <2>2. ASSUME CloseExact PROVE CloseExact'
    <3>1. \A q \in Tasks : pc[q] = "close" => (sockets[Sid(q)].fd)' = sockets[Sid(q)].fd
      BY <1>29 DEF vars, Sid
    <3> QED
      BY <1>29, <2>2, <3>1, CloseStays DEF vars
  <2> QED
    BY <2>1, <2>2, OwnStays
<1> QED
  BY <1>1, <1>2, <1>3, <1>4, <1>5, <1>6, <1>7, <1>8, <1>9, <1>10, <1>11, <1>12, <1>13, <1>14,
     <1>15, <1>16, <1>17, <1>18, <1>19, <1>20, <1>21, <1>22, <1>23, <1>24, <1>25, <1>26, <1>27,
     <1>28, <1>29 DEF Next, Proceed, HelperRuns

\* While no process gives way to one of another priority, the others are
\* not at registerSocketMessageHandler when it runs,
OnePriority == \A t, u \in Tasks : Prio[t] = Prio[u]

LEMMA Alone ==
  ASSUME NucleusAssumption, OnePriority, HandlerInv, NEW p \in Tasks, MayRun(p, ready, cpu)
  PROVE  \A q \in Tasks : pc[q] = "register" => q = p
BY DEF NucleusAssumption, OnePriority, HandlerInv, RegisterExact, MayRun

\* and the levels of the processor keep their type.
LEMMA CpuTyped ==
  ASSUME cpu \in [Levels -> Tasks \cup {NoTask}], NEW p \in Tasks,
         cpu' \in {cpu, Occupy(p, cpu), GiveUp(p, cpu), Evict(p, cpu)}
  PROVE  cpu' \in [Levels -> Tasks \cup {NoTask}]
BY DEF Occupy, GiveUp, Evict, Levels

\* The handlers stay exact when a process moves elsewhere,
LEMMA MovesElsewhere ==
  ASSUME SocketAssumption, NucleusAssumption, OnePriority, HandlerInv, NEW p \in Tasks,
         MayRun(p, ready, cpu), pc[p] # "register",
         cpu' \in {cpu, Occupy(p, cpu), GiveUp(p, cpu)},
         \A q \in Tasks : pc'[q] = "register" => pc[q] = "register",
         UNCHANGED handlers, \A s \in Sids : sockets'[s].used = sockets[s].used
  PROVE  HandlerInv'
<1>1. \A q \in Tasks : pc[q] # "register" /\ pc'[q] # "register"
  BY Alone
<1>2. cpu' \in [Levels -> Tasks \cup {NoTask}]
  BY CpuTyped DEF HandlerInv
<1>3. HandlersExact'
  BY <1>1 DEF HandlerInv, HandlersExact, Registering
<1>4. RegisterExact'
  BY <1>1 DEF RegisterExact
<1> QED
  BY <1>2, <1>3, <1>4 DEF HandlerInv

\* and when none does.
LEMMA OthersElsewhere ==
  ASSUME SocketAssumption, TypeOK, CallExact, HandlerInv,
         cpu' \in [Levels -> Tasks \cup {NoTask}],
         \A q \in Tasks :
           /\ pc'[q] = "register" <=> pc[q] = "register"
           /\ pc[q] = "register" => Sid(q)' = Sid(q) /\ cpu'[Prio[q]] = cpu[Prio[q]],
         UNCHANGED handlers, \A s \in Sids : sockets'[s].used = sockets[s].used
  PROVE  HandlerInv'
<1>1. \A s \in Sids : Registering(s)' <=> Registering(s)
  BY DEF Registering
<1>2. HandlersExact'
  BY <1>1 DEF HandlerInv, HandlersExact
<1>3. ASSUME NEW q \in Tasks, pc'[q] = "register"
      PROVE  /\ cpu'[Prio[q]] = q
             /\ sockets'[Sid(q)'].used /\ \A r \in Sids : r < Sid(q)' => sockets'[r].used
  <2>1. pc[q] = "register" /\ Sid(q) \in Sids /\ Sid(q)' = Sid(q)
    BY <1>3, AtSlot DEF FdPoints
  <2> QED
    BY <2>1 DEF HandlerInv, RegisterExact
<1> QED
  BY <1>2, <1>3 DEF HandlerInv, RegisterExact

\* newSocket: the slot is in use, and about to be registered.
LEMMA HandlersTaken ==
  ASSUME SocketAssumption, NucleusAssumption, OnePriority, IndInv, HandlerInv,
         NEW p \in Tasks, TakeSlot(p)
  PROVE  HandlerInv'
<1> USE Constants DEF IndInv, TypeOK, Goto
<1>1. PICK s \in Sids :
        /\ ~sockets[s].used /\ \A r \in Sids : r < s => sockets[r].used
        /\ sockets' = [sockets EXCEPT ![s].used = TRUE, ![s].fd = ret[p]]
        /\ fds' = [fds EXCEPT ![p][fd[p]] = s]
        /\ pc[p] = "new" /\ pc' = [pc EXCEPT ![p] = "register"] /\ MayRun(p, ready, cpu)
        /\ cpu' = Occupy(p, cpu) /\ UNCHANGED <<handlers, fd>>
  BY DEF TakeSlot
<1>2. cpu' \in [Levels -> Tasks \cup {NoTask}] /\ cpu'[Prio[p]] = p
  BY <1>1, CpuTyped DEF HandlerInv, Occupy, Levels
<1>3. sockets'[s].used /\ \A r \in Sids : r # s => sockets'[r].used = sockets[r].used
  BY <1>1 DEF TableOK, SocketType
<1>4. Sid(p)' = s
  <2>1. fds[p] \in Seq(Sids \cup {NoSid}) /\ fd[p] \in DOMAIN fds[p]
    BY <1>1 DEF CallExact, CallAt, FdsOK
  <2> QED
    BY <1>1, <2>1 DEF Sid, FdsOK
<1>5. \A q \in Tasks : pc[q] # "register" /\ (pc'[q] = "register" <=> q = p)
  BY <1>1, Alone DEF CallOK
<1>6. \A r \in Sids : ~Registering(r) /\ (Registering(r)' <=> r = s)
  BY <1>4, <1>5 DEF Registering
<1>7. HandlersExact'
  BY <1>1, <1>3, <1>6 DEF HandlerInv, HandlersExact
<1>8. RegisterExact'
  BY <1>1, <1>2, <1>3, <1>4, <1>5 DEF RegisterExact
<1> QED
  BY <1>2, <1>7, <1>8 DEF HandlerInv

\* registerSocketMessageHandler: the cell is the one of the slot.
LEMMA HandlersRegistered ==
  ASSUME SocketAssumption, NucleusAssumption, OnePriority, IndInv, HandlerInv,
         NEW p \in Tasks, Register(p)
  PROVE  HandlerInv'
<1> USE Constants DEF IndInv, TypeOK
<1>1. PICK s \in Sids : s = Sid(p) /\ pc[p] = "register"
  BY AtSlot DEF Register, Publish, Return, FdPoints
<1>2. /\ MayRun(p, ready, cpu) /\ cpu' = GiveUp(p, cpu)
      /\ pc' = [pc EXCEPT ![p] = "idle"]
      /\ sockets' = [sockets EXCEPT ![s].state = {"created"}, ![s].conn = 0, ![s].read = 0]
  BY <1>1 DEF Register, Publish, Return
<1>3. /\ handlers \in Seq(Sids \cup {NoSid}) /\ DOMAIN handlers = 1..Len(handlers)
      /\ Len(handlers) \in Nat /\ s \in Nat /\ s >= 1
      /\ \A r \in Nat : 1 <= r /\ r <= s => r \in Sids
  BY LenProperties DEF TableOK, Sids
<1>4. \A q \in Tasks : (pc[q] = "register" <=> q = p) /\ pc'[q] # "register"
  BY <1>1, <1>2, Alone DEF CallOK
<1>5. \A r \in Sids : (Registering(r) <=> r = s) /\ ~Registering(r)'
  BY <1>1, <1>4 DEF Registering
<1>6. /\ \A h \in DOMAIN handlers : handlers[h] = h \/ handlers[h] = NoSid
      /\ \A r \in Sids : (r \in DOMAIN handlers /\ handlers[r] = r) <=> (sockets[r].used /\ r # s)
      /\ sockets[s].used /\ \A r \in Sids : r < s => sockets[r].used
  BY <1>1, <1>5 DEF HandlerInv, HandlersExact, RegisterExact
<1>7. \A r \in 1..Len(handlers) : r < s => handlers[r] # NoSid
  BY <1>3, <1>6
<1>8. ASSUME NEW r \in Nat, 1 <= r, r < s PROVE r \in 1..Len(handlers)
  BY <1>3, <1>6, <1>8
<1>9. \/ s = Len(handlers) + 1 /\ handlers' = Append(handlers, s)
      \/ s \in 1..Len(handlers) /\ handlers' = [handlers EXCEPT ![s] = s]
  <2>1. CASE {h \in DOMAIN handlers : handlers[h] = NoSid} = {}
    <3>1. \A h \in 1..Len(handlers) : handlers[h] # NoSid
      BY <1>3, <2>1
    <3>2. \A h \in 1..Len(handlers) : handlers[h] = h
      BY <1>3, <1>6, <3>1
    <3>3. s \notin 1..Len(handlers)
      BY <1>3, <1>6, <3>2
    <3>4. s = 1 \/ s - 1 \in 1..Len(handlers)
      BY <1>3, <1>8
    <3>5. s = Len(handlers) + 1
      BY <1>3, <3>3, <3>4
    <3>6. handlers' = Append(handlers, s)
      BY <1>1, <2>1 DEF Register
    <3> QED
      BY <3>5, <3>6
  <2>2. CASE {h \in DOMAIN handlers : handlers[h] = NoSid} # {}
    <3>1. PICK h \in DOMAIN handlers :
            /\ handlers[h] = NoSid /\ \A g \in DOMAIN handlers : handlers[g] = NoSid => h <= g
            /\ handlers' = [handlers EXCEPT ![h] = s]
      BY <1>1, <2>2 DEF Register
    <3>2. h \in 1..Len(handlers) /\ ~(h < s)
      BY <1>3, <1>7, <3>1
    <3>3. s \in 1..Len(handlers)
      BY <1>3, <3>2
    <3>4. handlers[s] = NoSid
      BY <1>3, <1>6, <3>3
    <3>5. h <= s
      BY <1>3, <3>1, <3>3, <3>4
    <3>6. h = s
      BY <1>3, <3>2, <3>5
    <3> QED
      BY <3>1, <3>3, <3>6
  <2> QED
    BY <2>1, <2>2
<1>10. /\ s \in DOMAIN handlers' /\ handlers'[s] = s
       /\ \A h \in DOMAIN handlers' : h # s => h \in DOMAIN handlers /\ handlers'[h] = handlers[h]
       /\ \A h \in DOMAIN handlers : h \in DOMAIN handlers' /\ (h # s => handlers'[h] = handlers[h])
  <2>1. CASE s = Len(handlers) + 1 /\ handlers' = Append(handlers, s)
    BY <1>3, <2>1, AppendFacts
  <2>2. CASE s \in 1..Len(handlers) /\ handlers' = [handlers EXCEPT ![s] = s]
    BY <1>3, <2>2
  <2> QED
    BY <1>9, <2>1, <2>2
<1>11. \A r \in Sids : sockets'[r].used = sockets[r].used
  BY <1>2 DEF TableOK, SocketType
<1>12. HandlersExact'
  BY <1>5, <1>6, <1>10, <1>11 DEF HandlersExact
<1>13. RegisterExact'
  BY <1>4 DEF RegisterExact
<1>14. cpu' \in [Levels -> Tasks \cup {NoTask}]
  BY <1>2, CpuTyped DEF HandlerInv
<1> QED
  BY <1>12, <1>13, <1>14 DEF HandlerInv

\* _sclose: the slot and its handler go together.
LEMMA HandlersFreed ==
  ASSUME SocketAssumption, NucleusAssumption, OnePriority, IndInv, HandlerInv,
         NEW p \in Tasks, FreeSlot(p)
  PROVE  HandlerInv'
<1> USE Constants DEF IndInv, TypeOK, Goto
<1>1. PICK s \in Sids : s = Sid(p) /\ pc[p] = "closed"
  BY AtSlot DEF FreeSlot, FdPoints
<1>2. /\ MayRun(p, ready, cpu) /\ cpu' = Occupy(p, cpu)
      /\ pc' = [pc EXCEPT ![p] = "close_end"] /\ sockets' = [sockets EXCEPT ![s] = NewSocket]
      /\ handlers' = IF s \in DOMAIN handlers THEN [handlers EXCEPT ![s] = NoSid] ELSE handlers
  BY <1>1 DEF FreeSlot
<1>3. \A q \in Tasks : pc[q] # "register" /\ pc'[q] # "register"
  BY <1>1, <1>2, Alone DEF CallOK
<1>4. /\ ~sockets'[s].used /\ \A r \in Sids : r # s => sockets'[r].used = sockets[r].used
  BY <1>2 DEF TableOK, NewSocket
<1>5. /\ DOMAIN handlers' = DOMAIN handlers
      /\ s \in DOMAIN handlers => handlers'[s] = NoSid
      /\ \A h \in DOMAIN handlers : h # s => handlers'[h] = handlers[h]
  BY <1>2 DEF TableOK
<1>6. \A r \in Sids : ~Registering(r) /\ ~Registering(r)'
  BY <1>3 DEF Registering
<1>7. HandlersExact'
  BY <1>4, <1>5, <1>6 DEF HandlerInv, HandlersExact
<1>8. RegisterExact'
  BY <1>3 DEF RegisterExact
<1>9. cpu' \in [Levels -> Tasks \cup {NoTask}]
  BY <1>2, CpuTyped DEF HandlerInv
<1> QED
  BY <1>7, <1>8, <1>9 DEF HandlerInv

\* Every step keeps the handlers.
LEMMA HandlersPreserved ==
  ASSUME SocketAssumption, NucleusAssumption, OnePriority, IndInv, HandlerInv, [Next]_vars
  PROVE  HandlerInv'
<1> USE Constants DEF IndInv, TypeOK, CallOK, Goto, Return, Block, table, process, firmware,
   history, vars
<1>1. ASSUME NEW p \in Tasks, CallSocket(p) PROVE HandlerInv'
  <2>1. /\ MayRun(p, ready, cpu) /\ pc[p] # "register" /\ UNCHANGED handlers
        /\ cpu' \in {cpu, Occupy(p, cpu), GiveUp(p, cpu)}
        /\ \A q \in Tasks : pc'[q] = "register" => pc[q] = "register"
    BY <1>1 DEF CallSocket, Request
  <2>2. \A s \in Sids : sockets'[s].used = sockets[s].used
    BY <1>1 DEF CallSocket, Request
  <2> QED
    BY <2>1, <2>2, MovesElsewhere
<1>2. ASSUME NEW p \in Tasks, CallConnect(p) PROVE HandlerInv'
  <2>1. /\ MayRun(p, ready, cpu) /\ pc[p] # "register" /\ UNCHANGED handlers
        /\ cpu' \in {cpu, Occupy(p, cpu), GiveUp(p, cpu)}
        /\ \A q \in Tasks : pc'[q] = "register" => pc[q] = "register"
    BY <1>2 DEF CallConnect, Request
  <2>2. \A s \in Sids : sockets'[s].used = sockets[s].used
    <3>1. PICK f \in Descriptors(p) : sockets' = [sockets EXCEPT ![fds[p][f]].state = {"connecting"}]
      BY <1>2 DEF CallConnect
    <3>2. fds[p][f] \in Sids
      BY <3>1, Slot
    <3> QED
      BY <3>1, <3>2 DEF TableOK, SocketType
  <2> QED
    BY <2>1, <2>2, MovesElsewhere
<1>3. ASSUME NEW p \in Tasks, CallTransfer(p) PROVE HandlerInv'
  <2>1. /\ MayRun(p, ready, cpu) /\ pc[p] # "register" /\ UNCHANGED handlers
        /\ cpu' \in {cpu, Occupy(p, cpu), GiveUp(p, cpu)}
        /\ \A q \in Tasks : pc'[q] = "register" => pc[q] = "register"
    BY <1>3 DEF CallTransfer
  <2>2. \A s \in Sids : sockets'[s].used = sockets[s].used
    BY <1>3 DEF CallTransfer
  <2> QED
    BY <2>1, <2>2, MovesElsewhere
<1>4. ASSUME NEW p \in Tasks, CallClose(p) PROVE HandlerInv'
  <2>1. /\ MayRun(p, ready, cpu) /\ pc[p] # "register" /\ UNCHANGED handlers
        /\ cpu' \in {cpu, Occupy(p, cpu), GiveUp(p, cpu)}
        /\ \A q \in Tasks : pc'[q] = "register" => pc[q] = "register"
    BY <1>4 DEF CallClose, Close, Request
  <2>2. \A s \in Sids : sockets'[s].used = sockets[s].used
    BY <1>4 DEF CallClose, Close, Request
  <2> QED
    BY <2>1, <2>2, MovesElsewhere
<1>5. ASSUME NEW p \in Tasks, Exit(p) PROVE HandlerInv'
  <2>1. /\ MayRun(p, ready, cpu) /\ pc[p] # "register" /\ UNCHANGED handlers
        /\ cpu' \in {cpu, Occupy(p, cpu), GiveUp(p, cpu)}
        /\ \A q \in Tasks : pc'[q] = "register" => pc[q] = "register"
    BY <1>5 DEF Exit, Dies
  <2>2. \A s \in Sids : sockets'[s].used = sockets[s].used
    BY <1>5 DEF Exit, Dies
  <2> QED
    BY <2>1, <2>2, MovesElsewhere
<1>6. ASSUME NEW p \in Tasks, Kill(p) PROVE HandlerInv'
  <2>1. /\ UNCHANGED <<handlers, cpu>>
        /\ \A q \in Tasks : (pc'[q] = "register" <=> pc[q] = "register") /\ Sid(q)' = Sid(q)
    BY <1>6 DEF Kill, Sid
  <2>2. \A s \in Sids : sockets'[s].used = sockets[s].used
    BY <1>6 DEF Kill
  <2> QED
    BY <2>1, <2>2, OthersElsewhere DEF HandlerInv
<1>7. ASSUME NEW p \in Tasks, SocketMade(p) PROVE HandlerInv'
  <2>1. /\ MayRun(p, ready, cpu) /\ pc[p] # "register" /\ UNCHANGED handlers
        /\ cpu' \in {cpu, Occupy(p, cpu), GiveUp(p, cpu)}
        /\ \A q \in Tasks : pc'[q] = "register" => pc[q] = "register"
    BY <1>7 DEF SocketMade
  <2>2. \A s \in Sids : sockets'[s].used = sockets[s].used
    BY <1>7 DEF SocketMade
  <2> QED
    BY <2>1, <2>2, MovesElsewhere
<1>8. ASSUME NEW p \in Tasks, OpenFd(p) PROVE HandlerInv'
  <2>1. /\ MayRun(p, ready, cpu) /\ pc[p] # "register" /\ UNCHANGED handlers
        /\ cpu' \in {cpu, Occupy(p, cpu), GiveUp(p, cpu)}
        /\ \A q \in Tasks : pc'[q] = "register" => pc[q] = "register"
    BY <1>8 DEF OpenFd
  <2>2. \A s \in Sids : sockets'[s].used = sockets[s].used
    BY <1>8 DEF OpenFd
  <2> QED
    BY <2>1, <2>2, MovesElsewhere
<1>9. ASSUME NEW p \in Tasks, TakeSlot(p) PROVE HandlerInv'
  BY <1>9, HandlersTaken
<1>10. ASSUME NEW p \in Tasks, Register(p) PROVE HandlerInv'
  BY <1>10, HandlersRegistered
<1>11. ASSUME NEW p \in Tasks, Connected(p) PROVE HandlerInv'
  <2>1. /\ MayRun(p, ready, cpu) /\ pc[p] # "register" /\ UNCHANGED handlers
        /\ cpu' \in {cpu, Occupy(p, cpu), GiveUp(p, cpu)}
        /\ \A q \in Tasks : pc'[q] = "register" => pc[q] = "register"
    BY <1>11 DEF Connected
  <2>2. \A s \in Sids : sockets'[s].used = sockets[s].used
    BY <1>11 DEF Connected, TableOK, SocketType
  <2> QED
    BY <2>1, <2>2, MovesElsewhere
<1>12. ASSUME NEW p \in Tasks, WaitConnected(p) PROVE HandlerInv'
  <2>1. /\ MayRun(p, ready, cpu) /\ pc[p] # "register" /\ UNCHANGED handlers
        /\ cpu' \in {cpu, Occupy(p, cpu), GiveUp(p, cpu)}
        /\ \A q \in Tasks : pc'[q] = "register" => pc[q] = "register"
    BY <1>12 DEF WaitConnected, Wait
  <2>2. \A s \in Sids : sockets'[s].used = sockets[s].used
    BY <1>12 DEF WaitConnected, Wait, TableOK, SocketType
  <2> QED
    BY <2>1, <2>2, MovesElsewhere
<1>13. ASSUME NEW p \in Tasks, WaitReadable(p) PROVE HandlerInv'
  <2>1. /\ MayRun(p, ready, cpu) /\ pc[p] # "register" /\ UNCHANGED handlers
        /\ cpu' \in {cpu, Occupy(p, cpu), GiveUp(p, cpu)}
        /\ \A q \in Tasks : pc'[q] = "register" => pc[q] = "register"
    BY <1>13 DEF WaitReadable, Wait
  <2>2. \A s \in Sids : sockets'[s].used = sockets[s].used
    BY <1>13 DEF WaitReadable, Wait, TableOK, SocketType
  <2> QED
    BY <2>1, <2>2, MovesElsewhere
<1>14. ASSUME NEW p \in Tasks, Write(p) PROVE HandlerInv'
  <2>1. /\ MayRun(p, ready, cpu) /\ pc[p] # "register" /\ UNCHANGED handlers
        /\ cpu' \in {cpu, Occupy(p, cpu), GiveUp(p, cpu)}
        /\ \A q \in Tasks : pc'[q] = "register" => pc[q] = "register"
    BY <1>14 DEF Write, Transfer, Request
  <2>2. \A s \in Sids : sockets'[s].used = sockets[s].used
    BY <1>14 DEF Write, Transfer, Request
  <2> QED
    BY <2>1, <2>2, MovesElsewhere
<1>15. ASSUME NEW p \in Tasks, Read(p) PROVE HandlerInv'
  <2>1. /\ MayRun(p, ready, cpu) /\ pc[p] # "register" /\ UNCHANGED handlers
        /\ cpu' \in {cpu, Occupy(p, cpu), GiveUp(p, cpu)}
        /\ \A q \in Tasks : pc'[q] = "register" => pc[q] = "register"
    BY <1>15 DEF Read, Transfer, Request
  <2>2. \A s \in Sids : sockets'[s].used = sockets[s].used
    BY <1>15 DEF Read, Transfer, Request
  <2> QED
    BY <2>1, <2>2, MovesElsewhere
<1>16. ASSUME NEW p \in Tasks, Transferred(p) PROVE HandlerInv'
  <2>1. /\ MayRun(p, ready, cpu) /\ pc[p] # "register" /\ UNCHANGED handlers
        /\ cpu' \in {cpu, Occupy(p, cpu), GiveUp(p, cpu)}
        /\ \A q \in Tasks : pc'[q] = "register" => pc[q] = "register"
    BY <1>16 DEF Transferred
  <2>2. \A s \in Sids : sockets'[s].used = sockets[s].used
    BY <1>16 DEF Transferred
  <2> QED
    BY <2>1, <2>2, MovesElsewhere
<1>17. ASSUME NEW p \in Tasks, FreeSlot(p) PROVE HandlerInv'
  BY <1>17, HandlersFreed
<1>18. ASSUME NEW p \in Tasks, CloseEnd(p) PROVE HandlerInv'
  <2>1. /\ MayRun(p, ready, cpu) /\ pc[p] # "register" /\ UNCHANGED handlers
        /\ cpu' \in {cpu, Occupy(p, cpu), GiveUp(p, cpu)}
        /\ \A q \in Tasks : pc'[q] = "register" => pc[q] = "register"
    BY <1>18 DEF CloseEnd
  <2>2. \A s \in Sids : sockets'[s].used = sockets[s].used
    BY <1>18 DEF CloseEnd
  <2> QED
    BY <2>1, <2>2, MovesElsewhere
<1>19. ASSUME NEW p \in Tasks, OnClose(p) PROVE HandlerInv'
  <2>1. /\ MayRun(p, ready, cpu) /\ pc[p] # "register" /\ UNCHANGED handlers
        /\ cpu' \in {cpu, Occupy(p, cpu), GiveUp(p, cpu)}
        /\ \A q \in Tasks : pc'[q] = "register" => pc[q] = "register"
    BY <1>19 DEF OnClose, Close, Open, Request
  <2>2. \A s \in Sids : sockets'[s].used = sockets[s].used
    BY <1>19 DEF OnClose, Close, Open, Request
  <2> QED
    BY <2>1, <2>2, MovesElsewhere
<1>20. ASSUME NEW p \in Tasks, OnCloseEnds(p) PROVE HandlerInv'
  <2>1. /\ MayRun(p, ready, cpu) /\ pc[p] # "register" /\ UNCHANGED handlers
        /\ cpu' \in {cpu, Occupy(p, cpu), GiveUp(p, cpu)}
        /\ \A q \in Tasks : pc'[q] = "register" => pc[q] = "register"
    BY <1>20 DEF OnCloseEnds
  <2>2. \A s \in Sids : sockets'[s].used = sockets[s].used
    BY <1>20 DEF OnCloseEnds
  <2> QED
    BY <2>1, <2>2, MovesElsewhere
<1>21. ASSUME NEW p \in Tasks, Reset(p) PROVE HandlerInv'
  <2>1. /\ pc[p] # "register" /\ pc' = [pc EXCEPT ![p] = "on_close"] /\ cpu' = Evict(p, cpu)
        /\ UNCHANGED <<sockets, handlers, fds>> /\ fd' = [fd EXCEPT ![p] = 0]
    BY <1>21 DEF Reset, Dies, CallExact, CallAt, CriticalPoints
  <2>2. cpu' \in [Levels -> Tasks \cup {NoTask}]
    BY <2>1, CpuTyped DEF HandlerInv
  <2>3. ASSUME NEW q \in Tasks
        PROVE  /\ pc'[q] = "register" <=> pc[q] = "register"
               /\ pc[q] = "register" => Sid(q)' = Sid(q) /\ cpu'[Prio[q]] = cpu[Prio[q]]
    BY <2>1 DEF HandlerInv, RegisterExact, OnePriority, Evict, Sid
  <2> QED
    BY <2>1, <2>2, <2>3, OthersElsewhere
<1>22. CASE HelperSocket
  <2>1. /\ UNCHANGED <<handlers, cpu>>
        /\ \A q \in Tasks : (pc'[q] = "register" <=> pc[q] = "register") /\ Sid(q)' = Sid(q)
    <3>1. /\ "socket" \in Ops /\ "made" \in Points \ Ops /\ Answer("socket", "made")
      BY <1>22 DEF HelperSocket, Points, CriticalPoints, FdPoints, WaitPoints, HandPoints, Ops
    <3>2. /\ Head(requests).proc \in Tasks /\ pc[Head(requests).proc] = "socket"
          /\ pc' = [pc EXCEPT ![Head(requests).proc] = "made"]
      BY <3>1, Answered
    <3>3. UNCHANGED <<handlers, cpu, fds, fd>>
      BY <3>1 DEF Answer
    <3>4. \A q \in Tasks : pc'[q] = "register" <=> pc[q] = "register"
      BY <3>2
    <3> QED
      BY <3>3, <3>4 DEF Sid
  <2>2. \A s \in Sids : sockets'[s].used = sockets[s].used
    BY <1>22 DEF HelperSocket, Answer
  <2> QED
    BY <2>1, <2>2, OthersElsewhere DEF HandlerInv
<1>23. CASE HelperConnect
  <2>1. /\ UNCHANGED <<handlers, cpu>>
        /\ \A q \in Tasks : (pc'[q] = "register" <=> pc[q] = "register") /\ Sid(q)' = Sid(q)
    <3>1. /\ "connect" \in Ops /\ "connect_done" \in Points \ Ops /\ Answer("connect", "connect_done")
      BY <1>23 DEF HelperConnect, Points, CriticalPoints, FdPoints, WaitPoints, HandPoints, Ops
    <3>2. /\ Head(requests).proc \in Tasks /\ pc[Head(requests).proc] = "connect"
          /\ pc' = [pc EXCEPT ![Head(requests).proc] = "connect_done"]
      BY <3>1, Answered
    <3>3. UNCHANGED <<handlers, cpu, fds, fd>>
      BY <3>1 DEF Answer
    <3>4. \A q \in Tasks : pc'[q] = "register" <=> pc[q] = "register"
      BY <3>2
    <3> QED
      BY <3>3, <3>4 DEF Sid
  <2>2. \A s \in Sids : sockets'[s].used = sockets[s].used
    BY <1>23 DEF HelperConnect, Answer
  <2> QED
    BY <2>1, <2>2, OthersElsewhere DEF HandlerInv
<1>24. CASE HelperWrite
  <2>1. /\ UNCHANGED <<handlers, cpu>>
        /\ \A q \in Tasks : (pc'[q] = "register" <=> pc[q] = "register") /\ Sid(q)' = Sid(q)
    <3>1. /\ "write" \in Ops /\ "done" \in Points \ Ops /\ Answer("write", "done")
      BY <1>24 DEF HelperWrite, Points, CriticalPoints, FdPoints, WaitPoints, HandPoints, Ops
    <3>2. /\ Head(requests).proc \in Tasks /\ pc[Head(requests).proc] = "write"
          /\ pc' = [pc EXCEPT ![Head(requests).proc] = "done"]
      BY <3>1, Answered
    <3>3. UNCHANGED <<handlers, cpu, fds, fd>>
      BY <3>1 DEF Answer
    <3>4. \A q \in Tasks : pc'[q] = "register" <=> pc[q] = "register"
      BY <3>2
    <3> QED
      BY <3>3, <3>4 DEF Sid
  <2>2. \A s \in Sids : sockets'[s].used = sockets[s].used
    BY <1>24 DEF HelperWrite, Answer
  <2> QED
    BY <2>1, <2>2, OthersElsewhere DEF HandlerInv
<1>25. CASE HelperRead
  <2>1. /\ UNCHANGED <<handlers, cpu>>
        /\ \A q \in Tasks : (pc'[q] = "register" <=> pc[q] = "register") /\ Sid(q)' = Sid(q)
    <3>1. /\ "read" \in Ops /\ "done" \in Points \ Ops /\ Answer("read", "done")
      BY <1>25 DEF HelperRead, Points, CriticalPoints, FdPoints, WaitPoints, HandPoints, Ops
    <3>2. /\ Head(requests).proc \in Tasks /\ pc[Head(requests).proc] = "read"
          /\ pc' = [pc EXCEPT ![Head(requests).proc] = "done"]
      BY <3>1, Answered
    <3>3. UNCHANGED <<handlers, cpu, fds, fd>>
      BY <3>1 DEF Answer
    <3>4. \A q \in Tasks : pc'[q] = "register" <=> pc[q] = "register"
      BY <3>2
    <3> QED
      BY <3>3, <3>4 DEF Sid
  <2>2. \A s \in Sids : sockets'[s].used = sockets[s].used
    BY <1>25 DEF HelperRead, Answer
  <2> QED
    BY <2>1, <2>2, OthersElsewhere DEF HandlerInv
<1>26. CASE HelperClose
  <2>1. /\ UNCHANGED <<handlers, cpu>>
        /\ \A q \in Tasks : (pc'[q] = "register" <=> pc[q] = "register") /\ Sid(q)' = Sid(q)
    <3>1. /\ "close" \in Ops /\ "closed" \in Points \ Ops /\ Answer("close", "closed")
      BY <1>26 DEF HelperClose, Points, CriticalPoints, FdPoints, WaitPoints, HandPoints, Ops
    <3>2. /\ Head(requests).proc \in Tasks /\ pc[Head(requests).proc] = "close"
          /\ pc' = [pc EXCEPT ![Head(requests).proc] = "closed"]
      BY <3>1, Answered
    <3>3. UNCHANGED <<handlers, cpu, fds, fd>>
      BY <3>1 DEF Answer
    <3>4. \A q \in Tasks : pc'[q] = "register" <=> pc[q] = "register"
      BY <3>2
    <3> QED
      BY <3>3, <3>4 DEF Sid
  <2>2. \A s \in Sids : sockets'[s].used = sockets[s].used
    BY <1>26 DEF HelperClose, Answer
  <2> QED
    BY <2>1, <2>2, OthersElsewhere DEF HandlerInv
<1>27. CASE Deliver
  <2>1. /\ UNCHANGED <<handlers, cpu>>
        /\ \A q \in Tasks : (pc'[q] = "register" <=> pc[q] = "register") /\ Sid(q)' = Sid(q)
    BY <1>27 DEF Deliver, Sid
  <2>2. \A s \in Sids : sockets'[s].used = sockets[s].used
    <3>1. messages # << >> /\ messages \in Seq(MessageType)
      BY <1>27 DEF Deliver, QueuesOK
    <3>2. Head(messages) \in MessageType
      BY <3>1, TailFacts
    <3>3. Head(messages).kind \in Kinds
      BY <3>2 DEF MessageType
    <3>4. \A s \in Sids : sockets'[s] \in {sockets[s], Handled(sockets[s], Head(messages).kind)}
      BY <1>27 DEF Deliver
    <3>5. ASSUME NEW s \in Sids PROVE sockets'[s].used = sockets[s].used
      <4>1. sockets[s] \in SocketType
        BY DEF TableOK
      <4>2. \A h \in {sockets[s], Handled(sockets[s], Head(messages).kind)} : h.used = sockets[s].used
        BY <3>3, <4>1, HandledTyped
      <4> QED
        BY <3>4, <4>2
    <3> QED
      BY <3>5
  <2> QED
    BY <2>1, <2>2, OthersElsewhere DEF HandlerInv
<1>28. ASSUME NEW n \in Numbers, Change(n) PROVE HandlerInv'
  <2>1. /\ UNCHANGED <<handlers, cpu>>
        /\ \A q \in Tasks : (pc'[q] = "register" <=> pc[q] = "register") /\ Sid(q)' = Sid(q)
    BY <1>28 DEF Change, Sid
  <2>2. \A s \in Sids : sockets'[s].used = sockets[s].used
    BY <1>28 DEF Change
  <2> QED
    BY <2>1, <2>2, OthersElsewhere DEF HandlerInv
<1>29. CASE UNCHANGED vars
  <2>1. /\ UNCHANGED <<handlers, cpu>>
        /\ \A q \in Tasks : (pc'[q] = "register" <=> pc[q] = "register") /\ Sid(q)' = Sid(q)
    BY <1>29 DEF vars, Sid
  <2>2. \A s \in Sids : sockets'[s].used = sockets[s].used
    BY <1>29 DEF vars
  <2> QED
    BY <2>1, <2>2, OthersElsewhere DEF HandlerInv
<1> QED
  BY <1>1, <1>2, <1>3, <1>4, <1>5, <1>6, <1>7, <1>8, <1>9, <1>10, <1>11, <1>12, <1>13, <1>14,
     <1>15, <1>16, <1>17, <1>18, <1>19, <1>20, <1>21, <1>22, <1>23, <1>24, <1>25, <1>26, <1>27,
     <1>28, <1>29 DEF Next, Proceed, HelperRuns

\* Every step keeps the inductive invariant.
LEMMA NextPreserves ==
  ASSUME SocketAssumption, NucleusAssumption, IndInv, [Next]_vars
  PROVE  IndInv'
<1>1. TypeOK'
  BY TypePreserved
<1>2. RequestsExact' /\ CallExact' /\ DyingExact'
  BY <1>1, PointsPreserved
<1>3. OwnInv'
  BY OwnPreserved
<1> QED
  BY <1>1, <1>2, <1>3 DEF IndInv

\* The helper's queue, what each process knows where it is, the descriptors
\* of the dying and, as long as no kill tears a close, who has which slot and
\* number are exact, whatever the priorities of the processes.
THEOREM Invariance ==
  ASSUME SocketAssumption, NucleusAssumption
  PROVE  Spec => []IndInv
<1>1. Init => IndInv
  BY InitEstablishes
<1>2. IndInv /\ [Next]_vars => IndInv'
  BY NextPreserves
<1> QED
  BY <1>1, <1>2, PTL DEF Spec

\* No kill leaves the helper with a request into a stack that is no more in
\* use: NU_Obtain_Semaphore waits for it in critical code.
THEOREM NoDanglingRequestHolds ==
  ASSUME SocketAssumption, NucleusAssumption
  PROVE  Spec => []NoDanglingRequest
<1>1. IndInv => NoDanglingRequest
  BY DEF IndInv, RequestsExact, NoDanglingRequest
<1> QED
  BY <1>1, Invariance, PTL

\* A process asks the firmware to close no socket of another: _sclose reads
\* the number in a slot that is its own from newSocket to the end of close_fd.
THEOREM ClosesOwnHolds ==
  ASSUME SocketAssumption, NucleusAssumption
  PROVE  Spec => []ClosesOwn
<1>1. ASSUME IndInv, ~torn, NEW i \in DOMAIN requests, requests[i].op = "close"
      PROVE  owner[requests[i].number] = requests[i].proc
  <2>1. PICK p \in Tasks : p = requests[i].proc
    BY <1>1, Queued DEF IndInv
  <2>2. pc[p] = "close" /\ requests[i].number = sockets[Sid(p)].fd
    BY <1>1, <2>1 DEF IndInv, OwnInv, RequestsExact, CloseExact
  <2>3. fd[p] \in Descriptors(p) /\ Owns(p, fd[p])
    BY <1>1, <2>2, AtSlot DEF IndInv, FdPoints, Ops, Owns, Holds
  <2>4. owner[Number(p, fd[p])] = p
    BY <1>1, <2>3 DEF IndInv, OwnInv, NumbersExact
  <2> QED
    BY <2>1, <2>2, <2>4 DEF Number, Sid
<1>2. IndInv => ClosesOwn
  BY <1>1 DEF ClosesOwn
<1> QED
  BY <1>2, Invariance, PTL

\* A process that has died leaves no socket open in the firmware but the one
\* that a kill caught before open_fd: onClose goes through every descriptor,
\* and what is no descriptor's is in the hand of a living process.
THEOREM DeathClosesAllHolds ==
  ASSUME SocketAssumption, NucleusAssumption
  PROVE  Spec => []DeathClosesAll
<1>1. ASSUME IndInv, ~torn, NEW p \in Tasks, NEW n \in Numbers, pc[p] = "dead", owner[n] = p
      PROVE  n \in lost
  <2>1. Descriptors(p) = {} /\ ~InHand(p, n)
    BY <1>1 DEF IndInv, DyingExact, DyingAt, InHand, HandPoints
  <2> QED
    BY <1>1, <2>1 DEF IndInv, OwnInv, NumbersExact
<1>2. IndInv => DeathClosesAll
  BY <1>1 DEF DeathClosesAll
<1> QED
  BY <1>2, Invariance, PTL

\* The tables of one library agree while no process takes the processor from
\* another between newSocket and the end of registerSocketMessageHandler: the
\* handler then has the number of the slot, by which _sclose removes it.
THEOREM TablesAgreeHolds ==
  ASSUME SocketAssumption, NucleusAssumption, OnePriority
  PROVE  Spec => []TablesAgree
<1>1. Init => IndInv /\ HandlerInv
  BY InitEstablishes
<1>2. IndInv /\ HandlerInv /\ [Next]_vars => IndInv' /\ HandlerInv'
  BY NextPreserves, HandlersPreserved
<1>3. ASSUME IndInv, HandlerInv, ~torn, NEW p \in Tasks, NEW f \in DOMAIN fds[p], Settled(p, f)
      PROVE  DescriptorAgrees(p, f)
  <2>1. PICK s \in Sids : s = fds[p][f]
    BY <1>3, Slot DEF IndInv, Settled
  <2>2. f \in Descriptors(p) /\ Holds(p, f) /\ Owns(p, f)
    BY <1>3 DEF Settled, Holds, Owns
  <2>3. sockets[s].used /\ owner[sockets[s].fd] = p
    BY <1>3, <2>1, <2>2 DEF IndInv, OwnInv, SlotsExact, NumbersExact, Number
  <2>4. ASSUME NEW q \in Tasks, NEW g \in DOMAIN fds[q],
               g \in Descriptors(q), Holds(q, g), fds[q][g] = s
        PROVE  q = p /\ g = f
    BY <1>3, <2>1, <2>2, <2>4 DEF IndInv, OwnInv, SlotsExact
  <2>5. ~Registering(s)
    <3>1. ASSUME NEW q \in Tasks, pc[q] = "register", Sid(q) = s PROVE FALSE
      <4>1. fd[q] \in Descriptors(q) /\ Holds(q, fd[q]) /\ fd[q] \in DOMAIN fds[q]
        BY <1>3, <3>1, AtSlot DEF IndInv, FdPoints, Holds, Descriptors
      <4>2. q = p /\ fd[q] = f
        BY <2>4, <3>1, <4>1 DEF Sid
      <4> QED
        BY <1>3, <3>1, <4>2 DEF Settled
    <3> QED
      BY <3>1 DEF Registering
  <2>6. Contains(handlers, s)
    <3>1. handlers \in Seq(Sids \cup {NoSid}) /\ s \in DOMAIN handlers /\ handlers[s] = s
      BY <1>3, <2>3, <2>5 DEF IndInv, TypeOK, TableOK, HandlerInv, HandlersExact
    <3> QED
      BY <3>1, LenProperties DEF Contains
  <2>7. \A q \in Tasks : \A g \in DOMAIN fds[q] :
          Settled(q, g) /\ fds[q][g] = s => q = p /\ g = f
    BY <2>4 DEF Settled, Holds
  <2> QED
    BY <2>1, <2>3, <2>6, <2>7 DEF DescriptorAgrees
<1>4. ASSUME IndInv, HandlerInv, NEW h \in DOMAIN handlers, handlers[h] # NoSid
      PROVE  sockets[handlers[h]].used
  <2>1. handlers[h] = h /\ h \in Sids
    BY <1>4, LenProperties, ElementOfSeq
       DEF IndInv, TypeOK, TableOK, HandlerInv, HandlersExact
  <2> QED
    BY <1>4, <2>1 DEF HandlerInv, HandlersExact
<1>5. SocketAssumption /\ IndInv /\ HandlerInv => TablesAgree
  BY <1>3, <1>4 DEF TablesAgree
<1> QED
  BY <1>1, <1>2, <1>5, PTL DEF Spec

===============================================================================
