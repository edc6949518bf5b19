-------------------------------- MODULE Socket --------------------------------
(***************************************************************************)
(* CoreProc/socket.c and the descriptors of CoreProc/io.c that its sockets *)
(* are used through: processes of one task each, which open, connect,      *)
(* write, read and close sockets and die at any step.                      *)
(*                                                                         *)
(* A call of the firmware is a request to its helper (SUBPROC), answered   *)
(* through a semaphore while the caller waits in critical code, where no   *)
(* kill reaches it.  What becomes of a connection comes as a message to    *)
(* the MMI, whose hook finds the socket by its firmware number, changes    *)
(* its state and wakes who waits on its conditions.  Helper, MMI and       *)
(* killers run between any two steps of a process.                         *)
(***************************************************************************)
EXTENDS Nucleus, Integers, FiniteSets, SequencesExt

CONSTANTS
  MaxSockets,   \* MAX_SOCKETS, the length of sockets[]
  Talkers,      \* bound: the processes that connect and use their sockets
  MaxFds,       \* bound: how many descriptors a process ever has
  Numbers,      \* the firmware's numbers of sockets
  MaxWakes,     \* bound: how many stored wakes of a condition are counted
  MaxMessages   \* bound: a connection changes while fewer messages are on their way

ASSUME SocketAssumption ==
  /\ {MaxSockets, MaxFds, MaxWakes, MaxMessages} \subseteq Nat
  /\ Numbers \subseteq Nat

Sids == 1..MaxSockets   \* the source counts from 0
NoSid == 0
NoNumber == -1

VARIABLES
  sockets,    \* sockets[]: whether the id is set, fd, state, and the counters
              \* of the conditions connectedWid and readWid
  handlers,   \* sockets_mess_handless: the sid of each cell, or NoSid
  fds,        \* the stream of each descriptor of a process: its sid, or NoSid
  critical,   \* the process is in critical code
  death,      \* "no", "asked" for by a kill, or "on"
  pc, fd,     \* where a process is, and with which descriptor
  ret,        \* the answer to its last request
  owner, connection, data,  \* the firmware: the process of a number or NoTask,
                            \* its connection, whether it has data to read
  requests,   \* the helper's queue
  messages,   \* the MMI's queue
  lost,       \* history: numbers whose process was killed before it had a descriptor
  torn,       \* history: a process was killed between _sclose and the end of close_fd
  ready, cpu  \* see Nucleus

table == <<sockets, handlers>>
process == <<fds, critical, death, fd, ret>>
firmware == <<owner, connection, data>>
history == <<lost, torn>>
vars == <<table, process, pc, firmware, requests, messages, history, ready, cpu>>

NewSocket == [used |-> FALSE, fd |-> NoNumber, state |-> {}, conn |-> 0, read |-> 0]

Init ==
  /\ sockets = [s \in Sids |-> NewSocket] /\ handlers = << >>
  /\ fds = [p \in Tasks |-> << >>] /\ critical = [p \in Tasks |-> FALSE]
  /\ death = [p \in Tasks |-> "no"]
  /\ pc = [p \in Tasks |-> "idle"] /\ fd = [p \in Tasks |-> 0]
  /\ ret = [p \in Tasks |-> NoNumber]
  /\ owner = [n \in Numbers |-> NoTask] /\ connection = [n \in Numbers |-> "none"]
  /\ data = [n \in Numbers |-> FALSE]
  /\ requests = << >> /\ messages = << >>
  /\ lost = {} /\ torn = FALSE
  /\ ready = Tasks /\ cpu = IdleCpu

-----------------------------------------------------------------------------
\* Process p runs from one point to another.
Goto(p, from, to) ==
  /\ pc[p] = from
  /\ MayRun(p, ready, cpu)
  /\ pc' = [pc EXCEPT ![p] = to]
  /\ cpu' = Occupy(p, cpu)

\* ... or returns from its call.  The others may run before it goes on: each
\* process lets them now and then, and this is no less than what it could do.
Return(p, from) ==
  /\ pc[p] = from
  /\ MayRun(p, ready, cpu)
  /\ pc' = [pc EXCEPT ![p] = "idle"]
  /\ fd' = [fd EXCEPT ![p] = 0]
  /\ cpu' = GiveUp(p, cpu)

\* ... or suspends at the other point.
Block(p, from, to) ==
  /\ pc[p] = from
  /\ MayRun(p, ready, cpu)
  /\ pc' = [pc EXCEPT ![p] = to]
  /\ ready' = ready \ {p}
  /\ cpu' = GiveUp(p, cpu)

\* enterProcessCriticalCode: a killer that waits has the mutex next, and the
\* reset comes before the process gets it.
MayEnter(p) == death[p] # "asked"

\* enterProcessCriticalCode, SUBPROC, NU_Obtain_Semaphore
Request(p, from, op, number) ==
  /\ MayEnter(p)
  /\ Block(p, from, op)
  /\ critical' = [critical EXCEPT ![p] = TRUE]
  /\ requests' = Append(requests, [op |-> op, proc |-> p, number |-> number])

\* leaveProcessCriticalCode; a dying process never leaves.
Leave(p) == critical' = [critical EXCEPT ![p] = death[p] = "on"]

Sid(p) == fds[p][fd[p]]
Sock(p) == sockets[Sid(p)]

\* A process uses the descriptors that its calls of socket have returned.
Descriptors(p) == {f \in DOMAIN fds[p] : fds[p][f] # NoSid}

-----------------------------------------------------------------------------
\* socket: the firmware's socket,
CallSocket(p) ==
  /\ Cardinality(Descriptors(p)) < MaxFds
  /\ Request(p, "idle", "socket", NoNumber)
  /\ UNCHANGED <<table, fds, death, fd, ret, firmware, messages, history>>

\* Variant with a fault: a failure returns in critical code.
SocketMadeStay(p) ==
  /\ \/ ret[p] = NoNumber /\ Return(p, "made") /\ UNCHANGED critical
     \/ ret[p] # NoNumber /\ Goto(p, "made", "open") /\ UNCHANGED fd /\ Leave(p)
  /\ UNCHANGED <<table, fds, death, ret, firmware, requests, messages, history, ready>>

\* ... after which critical code is left for a moment,
SocketMade(p) ==
  /\ \/ ret[p] = NoNumber /\ Return(p, "made")
     \/ ret[p] # NoNumber /\ Goto(p, "made", "open") /\ UNCHANGED fd
  /\ Leave(p)
  /\ UNCHANGED <<table, fds, death, ret, firmware, requests, messages, history, ready>>

\* open_fd: the first empty cell, or a new one; nothing reads it before socket
\* has filled it in,
OpenFd(p) ==
  LET empty == {f \in DOMAIN fds[p] : fds[p][f] = NoSid}
      f == IF empty = {} THEN Len(fds[p]) + 1 ELSE CHOOSE g \in empty : \A h \in empty : g <= h
  IN  /\ MayEnter(p)
      /\ Goto(p, "open", "new")
      /\ critical' = [critical EXCEPT ![p] = TRUE]
      /\ fds' = [fds EXCEPT ![p] = IF empty = {} THEN Append(@, NoSid) ELSE @]
      /\ fd' = [fd EXCEPT ![p] = f]
      /\ UNCHANGED <<table, death, ret, firmware, requests, messages, history, ready>>

\* newSocket: the first free slot,
TakeSlot(p) ==
  \E s \in Sids :
    /\ ~sockets[s].used /\ \A r \in Sids : r < s => sockets[r].used
    /\ Goto(p, "new", "register")
    /\ sockets' = [sockets EXCEPT ![s].used = TRUE, ![s].fd = ret[p]]
    /\ fds' = [fds EXCEPT ![p][fd[p]] = s]
    /\ UNCHANGED <<handlers, critical, death, fd, ret, firmware, requests, messages, history,
                   ready>>

Publish(p) ==
  /\ Return(p, "register")
  /\ sockets' = [sockets EXCEPT ![Sid(p)].state = {"created"},
                                ![Sid(p)].conn = 0, ![Sid(p)].read = 0]
  /\ ret' = [ret EXCEPT ![p] = NoNumber]
  /\ Leave(p)
  /\ UNCHANGED <<fds, death, firmware, requests, messages, history, ready>>

\* ... and registerSocketMessageHandler, which takes the first empty cell or
\* a new one; the state and the conditions of the socket.
Register(p) ==
  LET empty == {h \in DOMAIN handlers : handlers[h] = NoSid}
  IN  /\ Publish(p)
      /\ \/ /\ empty = {}
            /\ handlers' = Append(handlers, Sid(p))
         \/ \E h \in empty :
              /\ \A g \in empty : h <= g
              /\ handlers' = [handlers EXCEPT ![h] = Sid(p)]

\* connect, of a socket that was just created
CallConnect(p) ==
  \E f \in Descriptors(p) :
    LET s == fds[p][f]
    IN  /\ p \in Talkers /\ sockets[s].used /\ "created" \in sockets[s].state
        /\ fd' = [fd EXCEPT ![p] = f]
        /\ sockets' = [sockets EXCEPT ![s].state = {"connecting"}]
        /\ Request(p, "idle", "connect", sockets[s].fd)
        /\ UNCHANGED <<handlers, fds, death, ret, firmware, messages, history>>

Connected(p) ==
  /\ Return(p, "connect_done")
  /\ sockets' = IF ret[p] = NoNumber THEN [sockets EXCEPT ![Sid(p)].state = {}] ELSE sockets
  /\ ret' = [ret EXCEPT ![p] = NoNumber]
  /\ Leave(p)
  /\ UNCHANGED <<handlers, fds, death, firmware, requests, messages, history, ready>>

-----------------------------------------------------------------------------
\* _swrite waits for the connection, _sread for data: the test of the state,
CallTransfer(p) ==
  /\ p \in Talkers
  /\ \E f \in Descriptors(p) :
       /\ fd' = [fd EXCEPT ![p] = f]
       /\ LET state == sockets[fds[p][f]].state
          IN  \/ Goto(p, "idle", IF "can_read" \notin state /\ "connecting" \in state
                                 THEN "write_test" ELSE "write_go")
              \/ "connected" \in state /\ Goto(p, "idle", "read_test")
  /\ UNCHANGED <<table, fds, critical, death, ret, firmware, requests, messages, history, ready>>

\* waitCondition of a condition with this counter: a stored wake is used up,
\* or the task waits.
Wait(p, test, waiters, wait, go) ==
  /\ pc[p] = test
  /\ \/ waiters < 0 /\ Goto(p, test, go) /\ UNCHANGED ready
     \/ waiters >= 0 /\ Block(p, test, wait)
  /\ UNCHANGED <<handlers, process, firmware, requests, messages, history>>

WaitConnected(p) ==
  /\ Wait(p, "write_test", Sock(p).conn, "write_wait", "write_go")
  /\ sockets' = [sockets EXCEPT ![Sid(p)].conn = @ + 1]

WaitReadable(p) ==
  /\ Wait(p, "read_test", Sock(p).read, "read_wait", "read_go")
  /\ sockets' = [sockets EXCEPT ![Sid(p)].read = @ + 1]

\* ... the test of the state again, and the firmware's send or recv,
Transfer(p, go, flag, op) ==
  /\ pc[p] = go
  /\ \/ /\ flag \in Sock(p).state
        /\ Request(p, go, op, Sock(p).fd)
        /\ UNCHANGED fd
     \/ /\ flag \notin Sock(p).state
        /\ Return(p, go)
        /\ UNCHANGED <<critical, requests, ready>>
  /\ UNCHANGED <<table, fds, death, ret, firmware, messages, history>>

Write(p) == Transfer(p, "write_go", "can_write", "write")
Read(p) == Transfer(p, "read_go", "can_read", "read")

\* ... after which _sread or _swrite returns.  Calls that go on until all is
\* transferred (SOCK_IO_STRONG_SZ_COMP) are several of these.
Transferred(p) ==
  /\ Return(p, "done")
  /\ Leave(p)
  /\ UNCHANGED <<table, fds, death, ret, firmware, requests, messages, history, ready>>

-----------------------------------------------------------------------------
\* close_fd of a descriptor: _sclose, which fails if the slot is free
Close(p, f, from) ==
  LET s == fds[p][f]
  IN  /\ fd' = [fd EXCEPT ![p] = f]
      /\ \/ /\ sockets[s].used
            /\ Request(p, from, "close", sockets[s].fd)
         \/ /\ ~sockets[s].used
            /\ Goto(p, from, "close_end")
            /\ UNCHANGED <<critical, requests, ready>>
      /\ UNCHANGED <<table, fds, death, ret, firmware, messages, history>>

CallClose(p) == \E f \in Descriptors(p) : Close(p, f, "idle")

\* Variant with a fault: the handler stays.
FreeSlotOnly(p) ==
  /\ Goto(p, "closed", "close_end")
  /\ sockets' = [sockets EXCEPT ![Sid(p)] = NewSocket]
  /\ UNCHANGED handlers
  /\ Leave(p)
  /\ UNCHANGED <<fds, death, fd, ret, firmware, requests, messages, history, ready>>

\* The conditions are destroyed, the handler is removed, by the number of the
\* slot and not by message_handler, and the slot is freed (what it holds is
\* not read before it is taken and filled in again).
FreeSlot(p) ==
  /\ Goto(p, "closed", "close_end")
  /\ sockets' = [sockets EXCEPT ![Sid(p)] = NewSocket]
  /\ handlers' = IF Sid(p) \in DOMAIN handlers THEN [handlers EXCEPT ![Sid(p)] = NoSid]
                 ELSE handlers
  /\ Leave(p)
  /\ UNCHANGED <<fds, death, fd, ret, firmware, requests, messages, history, ready>>

\* Variant with a fault: the cell of the descriptor is not emptied.
CloseEndKeep(p) ==
  /\ \/ death[p] = "on" /\ Goto(p, "close_end", "on_close") /\ UNCHANGED fd
     \/ death[p] # "on" /\ Return(p, "close_end")
  /\ UNCHANGED <<table, fds, critical, death, ret, firmware, requests, messages, history, ready>>

CloseEnd(p) ==
  /\ \/ death[p] = "on" /\ Goto(p, "close_end", "on_close") /\ UNCHANGED fd
     \/ death[p] # "on" /\ Return(p, "close_end")
  /\ fds' = [fds EXCEPT ![p][fd[p]] = NoSid]
  /\ UNCHANGED <<table, critical, death, ret, firmware, requests, messages, history, ready>>

-----------------------------------------------------------------------------
Kill(p) ==
  /\ death[p] = "no"
  /\ death' = [death EXCEPT ![p] = "asked"]
  /\ UNCHANGED <<table, fds, critical, fd, ret, pc, firmware, requests, messages, history,
                 ready, cpu>>

Dies(p) ==
  /\ death' = [death EXCEPT ![p] = "on"]
  /\ critical' = [critical EXCEPT ![p] = TRUE]
  /\ pc' = [pc EXCEPT ![p] = "on_close"]
  /\ fd' = [fd EXCEPT ![p] = 0]
  /\ ret' = [ret EXCEPT ![p] = NoNumber]

\* Variant with a fault: critical code does not keep the kill waiting.
ResetAtOnce(p) ==
  /\ death[p] = "asked"
  /\ Dies(p)
  /\ lost' = IF pc[p] = "open" THEN lost \cup {ret[p]} ELSE lost
  /\ torn' = (torn \/ pc[p] = "close_end")
  /\ ready' = ready \cup {p}
  /\ cpu' = Evict(p, cpu)
  /\ UNCHANGED <<table, fds, firmware, requests, messages>>

\* The killer has got the mutex of the critical code: the task starts over
\* in kill_impl, which runs onClose of the descriptors in state 7.
Reset(p) ==
  /\ death[p] = "asked" /\ ~critical[p]
  /\ Dies(p)
  /\ lost' = IF pc[p] = "open" THEN lost \cup {ret[p]} ELSE lost
  /\ torn' = (torn \/ pc[p] = "close_end")
  /\ ready' = ready \cup {p}
  /\ cpu' = Evict(p, cpu)
  /\ UNCHANGED <<table, fds, firmware, requests, messages>>

\* main returns.
Exit(p) ==
  /\ death[p] = "no" /\ pc[p] = "idle" /\ MayRun(p, ready, cpu)
  /\ Dies(p)
  /\ cpu' = Occupy(p, cpu)
  /\ UNCHANGED <<table, fds, firmware, requests, messages, history, ready>>

\* Variant with a fault: one cell is left out.
OpenSkip(p) == {f \in Descriptors(p) : f > fd[p] + 1}

\* onClose: corearray_foreach, from the cell behind the last one on.  (An
\* empty cell is read through a null pointer; what is there is no descriptor.)
Open(p) == {f \in Descriptors(p) : f > fd[p]}

OnClose(p) ==
  \E f \in Open(p) :
    /\ \A g \in Open(p) : f <= g
    /\ Close(p, f, "on_close")

OnCloseEnds(p) ==
  /\ Open(p) = {}
  /\ Block(p, "on_close", "dead")
  /\ fd' = [fd EXCEPT ![p] = 0]
  /\ UNCHANGED <<table, fds, critical, death, ret, firmware, requests, messages, history>>

-----------------------------------------------------------------------------
\* The helper carries out a request, and its caller goes on.
Answer(op, to) ==
  LET r == Head(requests)
  IN  /\ requests # << >> /\ r.op = op
      /\ requests' = Tail(requests)
      /\ IF pc[r.proc] = op
         THEN /\ pc' = [pc EXCEPT ![r.proc] = to]
              /\ ready' = ready \cup {r.proc}
         ELSE UNCHANGED <<pc, ready>>
      /\ UNCHANGED <<table, fds, critical, death, fd, history, cpu>>

\* A number is used again when its last message has been delivered.
Unused(n) == owner[n] = NoTask /\ \A i \in DOMAIN messages : messages[i].number # n

HelperSocket ==
  /\ Answer("socket", "made")
  /\ \/ ret' = [ret EXCEPT ![Head(requests).proc] = NoNumber] /\ UNCHANGED owner
     \/ \E n \in Numbers :
          /\ Unused(n) /\ \A m \in Numbers : m < n => ~Unused(m)
          /\ owner' = [owner EXCEPT ![n] = Head(requests).proc]
          /\ ret' = [ret EXCEPT ![Head(requests).proc] = n]
  /\ UNCHANGED <<connection, data, messages>>

HelperConnect ==
  /\ Answer("connect", "connect_done")
  /\ \/ ret' = [ret EXCEPT ![Head(requests).proc] = NoNumber] /\ UNCHANGED connection
     \/ /\ ret' = [ret EXCEPT ![Head(requests).proc] = Head(requests).number]
        /\ connection' = [connection EXCEPT ![Head(requests).number] = "connecting"]
  /\ UNCHANGED <<owner, data, messages>>

HelperWrite ==
  /\ Answer("write", "done")
  /\ UNCHANGED <<ret, firmware, messages>>

Message(n, kind) == Append(messages, [number |-> n, kind |-> kind])

\* recv; the firmware tells again of data that it leaves.
HelperRead ==
  LET n == Head(requests).number
  IN  /\ Answer("read", "done")
      /\ \/ data' = [data EXCEPT ![n] = FALSE] /\ UNCHANGED messages
         \/ data[n] /\ messages' = Message(n, "data") /\ UNCHANGED data
      /\ UNCHANGED <<ret, owner, connection>>

\* closesocket
HelperClose ==
  LET n == Head(requests).number
  IN  /\ Answer("close", "closed")
      /\ owner' = [owner EXCEPT ![n] = NoTask]
      /\ connection' = [connection EXCEPT ![n] = "none"]
      /\ data' = [data EXCEPT ![n] = FALSE]
      /\ \/ UNCHANGED messages
         \/ connection[n] = "connected" /\ messages' = Message(n, "closed")
      /\ UNCHANGED ret

HelperRuns == HelperSocket \/ HelperConnect \/ HelperWrite \/ HelperRead \/ HelperClose

\* A connection is made, data arrives, the other side closes.  (Bound: what
\* arrives before the last data has been read is not announced again.)
Change(n) ==
  /\ Len(messages) < MaxMessages
  /\ \/ /\ connection[n] = "connecting"
        /\ connection' = [connection EXCEPT ![n] = "connected"]
        /\ messages' = Message(n, "connected")
        /\ UNCHANGED data
     \/ /\ connection[n] = "connected" /\ ~data[n]
        /\ data' = [data EXCEPT ![n] = TRUE]
        /\ messages' = Message(n, "data")
        /\ UNCHANGED connection
     \/ /\ connection[n] \in {"connecting", "connected"}
        /\ connection' = [connection EXCEPT ![n] = "closed"]
        /\ messages' = Message(n, "closed")
        /\ UNCHANGED data
  /\ UNCHANGED <<table, process, pc, owner, requests, history, ready, cpu>>

-----------------------------------------------------------------------------

\* The counter of a condition after wakeOneWaitCond and wakeAllWaitConds
wakeOne(waiters) == IF waiters > -MaxWakes THEN waiters - 1 ELSE waiters
wakeAll(waiters) == 0

\* socketMessageHandler: the socket after a message
HandleConnected(sock) ==
  [sock EXCEPT !.state = {"connected", "can_write"}, !.conn = wakeOne(@)]

HandleData(sock) ==
  [sock EXCEPT !.state = IF "connected" \in @ THEN @ \cup {"can_read"} ELSE @,
               !.read = wakeOne(@)]

HandleClosed(sock) ==
  [sock EXCEPT !.state = {"disconnected"}, !.conn = wakeAll(@), !.read = wakeAll(@)]

Handled(sock, kind) ==
  CASE kind = "connected" -> HandleConnected(sock)
    [] kind = "data" -> HandleData(sock)
    [] kind = "closed" -> HandleClosed(sock)

\* onMessageHook: the sockets whose number it is, of those with a handler
Deliver ==
  LET m == Head(messages)
      hit == {s \in Sids : Contains(handlers, s) /\ sockets[s].used /\ sockets[s].fd = m.number}
      released(p, wait, counter) ==
        pc[p] = wait /\ Sid(p) \in hit /\ counter[Sid(p)] < 1
      conn == [s \in hit |-> Handled(sockets[s], m.kind).conn]
      read == [s \in hit |-> Handled(sockets[s], m.kind).read]
      writers == {p \in Tasks : released(p, "write_wait", conn)}
      readers == {p \in Tasks : released(p, "read_wait", read)}
  IN  /\ messages # << >>
      /\ messages' = Tail(messages)
      /\ sockets' = [s \in Sids |-> IF s \in hit THEN Handled(sockets[s], m.kind) ELSE sockets[s]]
      /\ pc' = [p \in Tasks |-> CASE p \in writers -> "write_go"
                                  [] p \in readers -> "read_go"
                                  [] OTHER -> pc[p]]
      /\ ready' = ready \cup writers \cup readers
      /\ UNCHANGED <<handlers, process, firmware, requests, history, cpu>>

-----------------------------------------------------------------------------
\* The steps that a process is not free to put off
Proceed(p) ==
  \/ SocketMade(p) \/ OpenFd(p) \/ TakeSlot(p) \/ Register(p) \/ Connected(p)
  \/ WaitConnected(p) \/ WaitReadable(p) \/ Write(p) \/ Read(p) \/ Transferred(p)
  \/ FreeSlot(p) \/ CloseEnd(p) \/ OnClose(p) \/ OnCloseEnds(p)

Next ==
  \/ \E p \in Tasks :
       \/ CallSocket(p) \/ CallConnect(p) \/ CallTransfer(p) \/ CallClose(p)
       \/ Exit(p) \/ Kill(p)
       \/ Proceed(p) \/ Reset(p)
  \/ HelperRuns \/ Deliver
  \/ \E n \in Numbers : Change(n)

Spec == Init /\ [][Next]_vars

(***************************************************************************)
(* A process in a call runs when its turn comes again and again.  Helper   *)
(* and MMI are more urgent than the processes and catch up with them again *)
(* and again, and no killer that could go on waits for ever (each goes on  *)
(* at most once: this is weak fairness of Reset).                          *)
(***************************************************************************)
Fairness ==
  /\ \A p \in Tasks : SF_vars(Proceed(p))
  /\ []<>(requests = << >>) /\ []<>(messages = << >>)
  /\ []<>(\A p \in Tasks : death[p] = "asked" => critical[p])

FairSpec == Spec /\ Fairness

-----------------------------------------------------------------------------
\* A request that the helper has not carried out yet is of a call that still
\* waits for it: no kill has left the helper with a pointer into a stack that
\* is no more in use.
NoDanglingRequest ==
  \A i \in DOMAIN requests : pc[requests[i].proc] = requests[i].op

\* A descriptor is settled unless its process is at socket or close with it.
Settled(p, f) ==
  /\ f \in Descriptors(p)
  /\ ~(fd[p] = f /\ pc[p] \in {"register", "close", "closed", "close_end"})

\* The four tables agree: a descriptor has a slot of its own, whose firmware
\* number belongs to its process and whose messages reach it; no handler is
\* left for a free slot, whichever processes opened and closed in between.
\* A kill that comes when a process has closed a socket and not yet forgotten
\* it ends this: the process closes the slot again, whose ever it is then.
DescriptorAgrees(p, f) ==
  LET s == fds[p][f]
  IN  /\ sockets[s].used /\ owner[sockets[s].fd] = p /\ Contains(handlers, s)
      /\ \A q \in Tasks : \A g \in DOMAIN fds[q] :
           Settled(q, g) /\ fds[q][g] = s => <<q, g>> = <<p, f>>

TablesAgree ==
  ~torn =>
    /\ \A p \in Tasks : \A f \in DOMAIN fds[p] : Settled(p, f) => DescriptorAgrees(p, f)
    /\ \A h \in DOMAIN handlers : handlers[h] # NoSid => sockets[handlers[h]].used

\* A process closes sockets of its own only, with the same exception.
ClosesOwn ==
  ~torn => \A i \in DOMAIN requests :
    LET r == requests[i] IN r.op = "close" => owner[r.number] = r.proc

\* A process that has died leaves no socket open in the firmware, except one
\* that a kill caught before it had a descriptor, with the same exception.
DeathClosesAll ==
  ~torn => \A p \in Tasks, n \in Numbers : pc[p] = "dead" /\ owner[n] = p => n \in lost

\* A process that is asleep in a read or write while a message for its socket
\* is on its way, or in a read of a connection with data, is woken: no message
\* that comes before the wait or in the middle of a read is lost.
Asleep(p) == ~torn /\ pc[p] \in {"read_wait", "write_wait"}

HasCause(p) ==
  \/ \E i \in DOMAIN messages : messages[i].number = Sock(p).fd
  \/ pc[p] = "read_wait" /\ data[Sock(p).fd] /\ connection[Sock(p).fd] = "connected"


\* A process that is killed, or whose main returns, dies, whatever it waits
\* for.  (It does so once: again and again nobody is on the way.)
KillCompletes == []<>(\A p \in Tasks : death[p] = "no" \/ pc[p] = "dead")
=============================================================================
