---------------------------- MODULE WaitCondition ----------------------------
(***************************************************************************)
(* CoreProc/waitcondition.c: a table of wait conditions, each a Nucleus    *)
(* semaphore and a counter waiters that is the number of waiting tasks     *)
(* when positive and of stored wakes when negative.  Neither the table nor *)
(* the counter is protected: one action per memory access or kernel call,  *)
(* reg being the register that holds the counter between load and store.   *)
(***************************************************************************)
EXTENDS Nucleus, Integers, FiniteSets

CONSTANTS
  MaxCond,   \* MAX_WAITCOND, the length of the table
  Owners,    \* the tasks that create and destroy conditions
  Waiters,   \* the tasks that call waitCondition
  WakeOps,   \* how each task wakes: "one", "all" and "reset", some of these or none
  MaxDrift   \* bound: no further call once a counter is this far from 0

ASSUME WaitConditionAssumption ==
  /\ MaxCond \in Nat /\ MaxDrift \in Nat
  /\ Owners \subseteq Tasks /\ Waiters \subseteq Tasks
  /\ WakeOps \in [Tasks -> SUBSET {"one", "all", "reset"}]

Wids == 0..(MaxCond - 1)

VARIABLES
  used, waiters,        \* WaitCondition.used and .waiters, by slot
  live, count, queue,   \* the semaphore of a slot: created, value, waiters
  owed,                 \* history: wakes that no wait has consumed yet
  clean,                \* history: nobody was inside a call when the slot was claimed
  users,                \* history: who ever used the slot: priority, and whether to wake
  call,                 \* each task's call: operation, slot, releases still to do
  pc, reg,              \* where each task is in the call; its last load
  ready, cpu            \* see Nucleus

table == <<used, waiters>>
semaphores == <<live, count, queue>>
history == <<owed, clean, users>>
vars == <<used, waiters, live, count, queue, owed, clean, users, call, pc, reg, ready, cpu>>

NoCall == [op |-> "none", wid |-> 0, left |-> 0]
MidCall == {"found", "make", "delete", "vacate",
            "wait", "consume", "count", "obtain", "refused", "give_up",
            "wake", "post", "clear", "release", "reload", "settle"}

Start ==
  /\ used = [s \in Wids |-> FALSE]
  /\ waiters = [s \in Wids |-> 0]
  /\ live = [s \in Wids |-> FALSE]
  /\ count = [s \in Wids |-> 0]
  /\ queue = [s \in Wids |-> << >>]
  /\ owed = [s \in Wids |-> 0]
  /\ clean = [s \in Wids |-> TRUE]
  /\ call = [t \in Tasks |-> NoCall]
  /\ pc = [t \in Tasks |-> "idle"]
  /\ reg = [t \in Tasks |-> 0]
  /\ ready = Tasks
  /\ cpu = IdleCpu

Init == Start /\ users = [s \in Wids |-> {}]

-----------------------------------------------------------------------------
Op(t) == call[t].op
Wid(t) == call[t].wid

\* Task t runs from one point to another and keeps the processor ...
Jump(t, from, to) ==
  /\ pc[t] = from
  /\ MayRun(t, ready, cpu)
  /\ pc' = [pc EXCEPT ![t] = to]
  /\ cpu' = Occupy(t, cpu)

\* ... within the call or to its end.
Goto(t, from, to) ==
  /\ Jump(t, from, to)
  /\ call' = IF to = "idle" THEN [call EXCEPT ![t] = NoCall] ELSE call

Load(t) == reg' = [reg EXCEPT ![t] = waiters[Wid(t)]]

\* The store that ends a read-modify-write of waiters.
Store(t, value) ==
  /\ waiters' = [waiters EXCEPT ![Wid(t)] = value]
  /\ reg' = [reg EXCEPT ![t] = 0]

\* Task t has called operation o on slot s.
Use(t, o, s) ==
  users' = [users EXCEPT ![s] = @ \cup {<<Prio[t], o \in {"one", "all", "reset"}>>}]

\* Task t enters operation o on slot s: the range check and the test of used.
Call(t, o, s, point) ==
  /\ used[s]
  /\ waiters[s] \in -MaxDrift..MaxDrift /\ count[s] <= MaxDrift
  /\ owed[s] \in -1..MaxDrift
  /\ Jump(t, "idle", point)
  /\ call' = [call EXCEPT ![t] = [op |-> o, wid |-> s, left |-> 0]]
  /\ Use(t, o, s)
  /\ UNCHANGED <<table, semaphores, owed, clean, reg, ready>>

-----------------------------------------------------------------------------
\* createAdvWaitCond: getBestWcID returns the first unused slot; it stays
\* unused until the caller stores used = 1.
FindSlot(t) ==
  /\ t \in Owners
  /\ \E s \in Wids :
       /\ ~used[s] /\ \A r \in Wids : r < s => used[r]
       /\ call' = [call EXCEPT ![t] = [op |-> "create", wid |-> s, left |-> 0]]
       /\ Use(t, "create", s)
  /\ Jump(t, "idle", "found")
  /\ UNCHANGED <<table, semaphores, owed, clean, reg, ready>>

ClaimSlot(t) ==
  /\ Goto(t, "found", "make")
  /\ used' = [used EXCEPT ![Wid(t)] = TRUE]
  /\ waiters' = [waiters EXCEPT ![Wid(t)] = 0]
  /\ owed' = [owed EXCEPT ![Wid(t)] = count[Wid(t)]]
  /\ clean' = [clean EXCEPT ![Wid(t)] =
                 \A u \in Tasks \ {t} : Wid(u) = Wid(t) => pc[u] = "idle"]
  /\ UNCHANGED <<semaphores, users, reg, ready>>

\* NU_Create_Semaphore; it refuses a control block that holds a semaphore,
\* and then the slot is given back.
MakeSemaphore(t) ==
  /\ ~live[Wid(t)]
  /\ Goto(t, "make", "idle")
  /\ live' = [live EXCEPT ![Wid(t)] = TRUE]
  /\ count' = [count EXCEPT ![Wid(t)] = 0]
  /\ UNCHANGED <<table, queue, history, reg, ready>>

MakeFails(t) ==
  /\ live[Wid(t)]
  /\ Goto(t, "make", "idle")
  /\ used' = [used EXCEPT ![Wid(t)] = FALSE]
  /\ UNCHANGED <<waiters, semaphores, history, reg, ready>>

\* Variant with a fault: the semaphore is not deleted.
CallDestroyShort(t) ==
  /\ t \in Owners
  /\ \E s \in Wids : Call(t, "destroy", s, "vacate")

\* destroyWaitCond; NU_Delete_Semaphore resumes every waiter with an error,
\* and used is cleared only then.
CallDestroy(t) ==
  /\ t \in Owners
  /\ \E s \in Wids : Call(t, "destroy", s, "delete")

DeleteSemaphore(t) ==
  LET s == Wid(t)
  IN  /\ pc[t] = "delete"
      /\ MayRun(t, ready, cpu)
      /\ cpu' = Occupy(t, cpu)
      /\ live' = [live EXCEPT ![s] = FALSE]
      /\ count' = [count EXCEPT ![s] = 0]
      /\ queue' = [queue EXCEPT ![s] = << >>]
      /\ ready' = ready \cup {queue[s][i] : i \in DOMAIN queue[s]}
      /\ pc' = [u \in Tasks |-> CASE u = t -> "vacate"
                                  [] pc[u] = "suspended" /\ Wid(u) = s -> "refused"
                                  [] OTHER -> pc[u]]
      /\ UNCHANGED <<table, history, call, reg>>

VacateSlot(t) ==
  /\ Goto(t, "vacate", "idle")
  /\ used' = [used EXCEPT ![Wid(t)] = FALSE]
  /\ UNCHANGED <<waiters, semaphores, history, reg, ready>>

-----------------------------------------------------------------------------
CallWait(t) ==
  /\ t \in Waiters
  /\ \E s \in Wids : Call(t, "wait", s, "wait")

\* if(wc->waiters < 0) waiters++ and return, else waiters++ and suspend
WaitRead(t) ==
  /\ Goto(t, "wait", IF waiters[Wid(t)] < 0 THEN "consume" ELSE "count")
  /\ Load(t)
  /\ owed' = IF waiters[Wid(t)] < 0 THEN [owed EXCEPT ![Wid(t)] = @ - 1] ELSE owed
  /\ UNCHANGED <<table, semaphores, clean, users, ready>>

\* Variant with a fault: the stored wake is not used up.
WaitConsumeFree(t) ==
  /\ Goto(t, "consume", "idle")
  /\ Store(t, reg[t])
  /\ UNCHANGED <<used, semaphores, history, ready>>

WaitConsume(t) ==
  /\ Goto(t, "consume", "idle")
  /\ Store(t, reg[t] + 1)
  /\ UNCHANGED <<used, semaphores, history, ready>>

WaitCount(t) ==
  /\ Goto(t, "count", "obtain")
  /\ Store(t, reg[t] + 1)
  /\ UNCHANGED <<used, semaphores, history, ready>>

\* NU_Obtain_Semaphore finds the semaphore deleted, free or taken.
ObtainInvalid(t) ==
  /\ ~live[Wid(t)]
  /\ Goto(t, "obtain", "refused")
  /\ UNCHANGED <<table, semaphores, history, reg, ready>>

ObtainFree(t) ==
  /\ live[Wid(t)] /\ count[Wid(t)] > 0
  /\ Goto(t, "obtain", "idle")
  /\ count' = [count EXCEPT ![Wid(t)] = @ - 1]
  /\ owed' = [owed EXCEPT ![Wid(t)] = @ - 1]
  /\ UNCHANGED <<table, live, queue, clean, users, reg, ready>>

ObtainSuspend(t) ==
  /\ live[Wid(t)] /\ count[Wid(t)] = 0
  /\ pc[t] = "obtain"
  /\ MayRun(t, ready, cpu)
  /\ pc' = [pc EXCEPT ![t] = "suspended"]
  /\ cpu' = GiveUp(t, cpu)
  /\ ready' = ready \ {t}
  /\ queue' = [queue EXCEPT ![Wid(t)] = Enqueue(@, t)]
  /\ UNCHANGED <<table, live, count, history, call, reg>>

\* status != NU_SUCCESS: wc->waiters--
RefusedLoad(t) ==
  /\ Goto(t, "refused", "give_up")
  /\ Load(t)
  /\ UNCHANGED <<table, semaphores, history, ready>>

RefusedStore(t) ==
  /\ Goto(t, "give_up", "idle")
  /\ Store(t, reg[t] - 1)
  /\ UNCHANGED <<used, semaphores, history, ready>>

-----------------------------------------------------------------------------
CallWake(t) ==
  \E s \in Wids, o \in WakeOps[t] : Call(t, o, s, "wake")

\* if(wc->waiters < 1): wakeOneWaitCond stores the wake, wakeAllWaitConds
\* and resetWaitConditions drop the stored ones; else one release, or one
\* for every waiter counted.
WakeNobody(t) ==
  /\ waiters[Wid(t)] < 1
  /\ Goto(t, "wake", IF Op(t) = "one" THEN "post" ELSE "clear")
  /\ Load(t)
  /\ UNCHANGED <<table, semaphores, history, ready>>

\* Variant with a fault: off by one, the last waiter is left out.
WakeSomeButOne(t) ==
  /\ waiters[Wid(t)] > 0
  /\ Jump(t, "wake", "release")
  /\ call' = [call EXCEPT ![t].left = IF Op(t) = "one" THEN 1 ELSE waiters[Wid(t)] - 1]
  /\ UNCHANGED <<table, semaphores, history, reg, ready>>

WakeSome(t) ==
  /\ waiters[Wid(t)] > 0
  /\ Jump(t, "wake", "release")
  /\ call' = [call EXCEPT ![t].left = IF Op(t) = "one" THEN 1 ELSE waiters[Wid(t)]]
  /\ UNCHANGED <<table, semaphores, history, reg, ready>>

PostWake(t) ==
  /\ Goto(t, "post", "idle")
  /\ Store(t, reg[t] - 1)
  /\ owed' = [owed EXCEPT ![Wid(t)] = @ + 1]
  /\ UNCHANGED <<used, semaphores, clean, users, ready>>

ClearWakes(t) ==
  /\ Goto(t, "clear", "idle")
  /\ Store(t, 0)
  /\ owed' = [owed EXCEPT ![Wid(t)] = count[Wid(t)]]
  /\ UNCHANGED <<used, semaphores, clean, users, ready>>

\* After a release: the next one, or the end of the call, which is
\* wc->waiters = 0 in resetWaitConditions.
Released(t, from) ==
  \/ /\ call[t].left > 1
     /\ Jump(t, from, "release")
     /\ call' = [call EXCEPT ![t].left = @ - 1]
  \/ /\ call[t].left <= 1
     /\ Goto(t, from, IF Op(t) = "reset" THEN "clear" ELSE "idle")

\* NU_Release_Semaphore resumes the first waiter, or leaves the semaphore
\* free for the next Obtain, or finds the semaphore deleted.
ReleaseWaiter(t) ==
  LET line == queue[Wid(t)]
  IN  /\ live[Wid(t)] /\ line # << >>
      /\ pc[t] = "release"
      /\ MayRun(t, ready, cpu)
      /\ cpu' = Occupy(t, cpu)
      /\ queue' = [queue EXCEPT ![Wid(t)] = Tail(line)]
      /\ ready' = ready \cup {Head(line)}
      /\ pc' = [pc EXCEPT ![t] = "reload", ![Head(line)] = "idle"]
      /\ call' = [call EXCEPT ![Head(line)] = NoCall]
      /\ UNCHANGED <<table, live, count, history, reg>>

ReleaseFree(t) ==
  /\ live[Wid(t)] /\ queue[Wid(t)] = << >>
  /\ Goto(t, "release", "reload")
  /\ count' = [count EXCEPT ![Wid(t)] = @ + 1]
  /\ owed' = [owed EXCEPT ![Wid(t)] = @ + 1]
  /\ UNCHANGED <<table, live, queue, clean, users, reg, ready>>

ReleaseInvalid(t) ==
  /\ ~live[Wid(t)]
  /\ Released(t, "release")
  /\ UNCHANGED <<table, semaphores, history, reg, ready>>

\* wc->waiters-- after a release that succeeded
ReleaseReload(t) ==
  /\ Goto(t, "reload", "settle")
  /\ Load(t)
  /\ UNCHANGED <<table, semaphores, history, ready>>

\* Variant with a fault: the counter is not decremented.
ReleaseSettleStale(t) ==
  /\ Released(t, "settle")
  /\ Store(t, reg[t])
  /\ UNCHANGED <<used, semaphores, history, ready>>

ReleaseSettle(t) ==
  /\ Released(t, "settle")
  /\ Store(t, reg[t] - 1)
  /\ UNCHANGED <<used, semaphores, history, ready>>

-----------------------------------------------------------------------------
\* A client sleeps between call (NU_Sleep), and its sleep ends.
Sleep(t) ==
  /\ pc[t] = "idle"
  /\ MayRun(t, ready, cpu)
  /\ ready' = ready \ {t}
  /\ cpu' = GiveUp(t, cpu)
  /\ UNCHANGED <<table, semaphores, history, call, pc, reg>>

WakeUp(t) ==
  /\ pc[t] = "idle" /\ t \notin ready
  /\ ready' = ready \cup {t}
  /\ UNCHANGED <<table, semaphores, history, call, pc, reg, cpu>>

\* The rest of a call that has begun
Continue(t) ==
  \/ ClaimSlot(t) \/ MakeSemaphore(t) \/ MakeFails(t)
  \/ DeleteSemaphore(t) \/ VacateSlot(t)
  \/ WaitRead(t) \/ WaitConsume(t) \/ WaitCount(t)
  \/ ObtainInvalid(t) \/ ObtainFree(t) \/ ObtainSuspend(t)
  \/ RefusedLoad(t) \/ RefusedStore(t)
  \/ WakeNobody(t) \/ WakeSome(t) \/ PostWake(t) \/ ClearWakes(t)
  \/ ReleaseWaiter(t) \/ ReleaseFree(t) \/ ReleaseInvalid(t)
  \/ ReleaseReload(t) \/ ReleaseSettle(t)

Next ==
  \E t \in Tasks :
    \/ FindSlot(t) \/ CallDestroy(t) \/ CallWait(t) \/ CallWake(t)
    \/ Continue(t)
    \/ Sleep(t) \/ WakeUp(t)

Spec == Init /\ [][Next]_vars

-----------------------------------------------------------------------------
\* Nobody is half way through a call on slot s.
Quiet(s) == \A t \in Tasks : Wid(t) = s => pc[t] \notin MidCall

\* Only tasks of one priority have ever used slot s: they interrupt each
\* other only where a call suspends.
Uniform(s) == Cardinality({u[1] : u \in users[s]}) <= 1

\* Only tasks of one priority have ever woken the waiters of slot s.
OneWaker(s) == Cardinality({u \in users[s] : u[2]}) <= 1

\* Between calls the counter of a condition tells how many tasks wait and how
\* many wakes are stored, and never both: no wake is lost while a task waits.
\* It is claimed of tasks of one priority, and of a condition whose slot
\* nobody was still using when it was created.
CounterExact ==
  \A s \in Wids :
    used[s] /\ clean[s] /\ Uniform(s) /\ Quiet(s) =>
      /\ waiters[s] = Len(queue[s]) - owed[s]
      /\ queue[s] # << >> => owed[s] = 0

\* waitCondition returns success at most once for each wake: no wait is
\* answered by a wake that nobody gave, even if the waker preempts the waiter
\* anywhere.  It is claimed of wakers of one priority, no less urgent than the
\* waiters, that wake one task at a time if they are more urgent: whoever
\* preempts a waker between its load and its store, or empties the counter
\* under a wait, may change it unseen.
NoInventedWake ==
  \A s \in Wids : used[s] /\ clean[s] /\ OneWaker(s) => owed[s] >= 0

\* When wakeAllWaitConds or resetWaitConditions is done, no task is waiting
\* on a condition of tasks of one priority whose slot nobody was still using
\* when it was created.
WakeAllReachesAll ==
  [][\A t \in Tasks :
       Op(t) \in {"all", "reset"} /\ pc[t] # "idle" /\ pc'[t] = "idle" =>
         (clean[Wid(t)] /\ Uniform(Wid(t)) => queue'[Wid(t)] = << >>)]_vars

\* A slot that is free between calls, and that only tasks of one priority have
\* used, has no semaphore: the next createWaitCond, which always tries the
\* first free slot, can succeed.
FreeSlotsUsable ==
  \A s \in Wids : ~used[s] /\ Uniform(s) /\ Quiet(s) => ~live[s]
=============================================================================
