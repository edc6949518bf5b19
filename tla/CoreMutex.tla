------------------------------ MODULE CoreMutex ------------------------------
(***************************************************************************)
(* CoreProc/mutex.c: a mutex made of a counter of owner and waiters and a  *)
(* Nucleus semaphore that the owner hands to the next waiter.  Nothing     *)
(* protects the counter.  One action per memory access or kernel call:     *)
(* a more urgent task may run between any two of them.  reg is the         *)
(* processor register that holds the counter between its load and store.   *)
(***************************************************************************)
EXTENDS Nucleus, Integers

CONSTANTS
  Users,    \* the tasks that lock the mutex; the others create and destroy it
  MaxDrift  \* bound: no further call once the counters are this far from 0

ASSUME MaxDriftAssumption == Users \subseteq Tasks /\ MaxDrift \in Nat

VARIABLES
  used,     \* CoreMutex.used
  locks,    \* CoreMutex.locks
  count,    \* value of the semaphore
  waiters,  \* tasks suspended on the semaphore, in the order they will get it
  pc,       \* where each task is in lock, unlock, its critical section
  reg,      \* the counter as last loaded by each task
  ready,    \* tasks the kernel may dispatch
  cpu       \* see Nucleus

mutexVars == <<used, locks, count, waiters>>
vars == <<used, locks, count, waiters, pc, reg, ready, cpu>>

\* A task that owns the mutex: lock succeeded and the last effect of unlock
\* (the hand-over, or the decrement when nobody waits) is still to come.
OwningPoints == {"critical", "unlock", "release", "drop"}
Owns(t) == pc[t] \in OwningPoints

\* Points inside a call, where a task that is not suspended must be running.
MidCall == {"lock", "try", "take", "count", "obtain", "refused", "give_up",
            "unlock", "release", "drop", "reload", "settle"}
Points == MidCall \cup {"idle", "critical", "suspended"}

Init ==
  /\ used = FALSE
  /\ locks = 0
  /\ count = 0
  /\ waiters = << >>
  /\ pc = [t \in Tasks |-> "idle"]
  /\ reg = [t \in Tasks |-> 0]
  /\ ready = Tasks
  /\ cpu = IdleCpu

-----------------------------------------------------------------------------
\* Task t runs from one point to another and keeps the processor.
Goto(t, from, to) ==
  /\ pc[t] = from
  /\ MayRun(t, ready, cpu)
  /\ pc' = [pc EXCEPT ![t] = to]
  /\ cpu' = Occupy(t, cpu)

Load(t) == reg' = [reg EXCEPT ![t] = locks]

\* createMutex, for a mutex that nobody uses any more (a fresh process slot;
\* Pipe has the creation of one that somebody may still be using).
CreateMutex(t) ==
  /\ ~used
  /\ \A u \in Tasks : pc[u] = "idle"
  /\ Goto(t, "idle", "idle")
  /\ used' = TRUE
  /\ locks' = 0
  /\ count' = 0
  /\ UNCHANGED <<waiters, reg, ready>>

\* Variant with a fault: the semaphore is not deleted.
DestroyMutexSilent(t) ==
  /\ used
  /\ Goto(t, "idle", "idle")
  /\ used' = FALSE
  /\ UNCHANGED <<locks, count, waiters, reg, ready>>

\* destroyMutex, by any client: every task suspended on the semaphore resumes
\* with NU_SEMAPHORE_DELETED.
DestroyMutex(t) ==
  /\ used
  /\ pc[t] = "idle"
  /\ MayRun(t, ready, cpu)
  /\ cpu' = Occupy(t, cpu)
  /\ used' = FALSE
  /\ count' = 0
  /\ waiters' = << >>
  /\ ready' = ready \cup {waiters[i] : i \in DOMAIN waiters}
  /\ pc' = [u \in Tasks |-> IF pc[u] = "suspended" THEN "refused" ELSE pc[u]]
  /\ UNCHANGED <<locks, reg>>

-----------------------------------------------------------------------------
\* lockMutex and tryLockMutex: the test of mutex->used.
Call(t, point) ==
  /\ t \in Users /\ used
  /\ locks \in -MaxDrift..MaxDrift /\ count <= MaxDrift
  /\ Goto(t, "idle", point)
  /\ UNCHANGED <<mutexVars, reg, ready>>

CallLock(t) == Call(t, "lock")
CallTryLock(t) == Call(t, "try")

\* if(mutex->locks > 0)
LockRead(t) ==
  /\ Goto(t, "lock", IF locks > 0 THEN "count" ELSE "take")
  /\ Load(t)
  /\ UNCHANGED <<mutexVars, ready>>

\* Variant with a fault: off by one in the test.
TryReadLoose(t) ==
  /\ Goto(t, "try", IF locks < 2 THEN "take" ELSE "idle")
  /\ reg' = IF locks < 2 THEN [reg EXCEPT ![t] = locks] ELSE reg
  /\ UNCHANGED <<mutexVars, ready>>

\* if(mutex->locks < 1) of tryLockMutex, which fails with -1 otherwise
TryRead(t) ==
  /\ Goto(t, "try", IF locks < 1 THEN "take" ELSE "idle")
  /\ reg' = IF locks < 1 THEN [reg EXCEPT ![t] = locks] ELSE reg
  /\ UNCHANGED <<mutexVars, ready>>

\* Variant with a fault: the owner is not counted.
LockTakeUncounted(t) ==
  /\ Goto(t, "take", "critical")
  /\ reg' = [reg EXCEPT ![t] = 0]
  /\ UNCHANGED <<mutexVars, ready>>

\* The store of mutex->locks++, in the branch that succeeds at once ...
LockTake(t) ==
  /\ Goto(t, "take", "critical")
  /\ locks' = reg[t] + 1
  /\ reg' = [reg EXCEPT ![t] = 0]
  /\ UNCHANGED <<used, count, waiters, ready>>

\* ... and in the branch that waits.
LockCount(t) ==
  /\ Goto(t, "count", "obtain")
  /\ locks' = reg[t] + 1
  /\ reg' = [reg EXCEPT ![t] = 0]
  /\ UNCHANGED <<used, count, waiters, ready>>

\* NU_Obtain_Semaphore(NU_SUSPEND) finds the semaphore deleted,
ObtainInvalid(t) ==
  /\ ~used
  /\ Goto(t, "obtain", "refused")
  /\ UNCHANGED <<mutexVars, reg, ready>>

\* Variant with a fault: the semaphore is obtained even at 0.
ObtainAlways(t) ==
  /\ used
  /\ Goto(t, "obtain", "critical")
  /\ count' = count - 1
  /\ UNCHANGED <<used, locks, waiters, reg, ready>>

\* or takes it if it is free, and suspends the task otherwise.  It can be free
\* only where tasks of several priorities lock the mutex (ClosedBranches of
\* MutexMemCtlProofs).
Obtain(t) ==
  /\ used
  /\ pc[t] = "obtain"
  /\ MayRun(t, ready, cpu)
  /\ IF count > 0
     THEN /\ pc' = [pc EXCEPT ![t] = "critical"]
          /\ count' = count - 1
          /\ cpu' = Occupy(t, cpu)
          /\ UNCHANGED <<waiters, ready>>
     ELSE /\ pc' = [pc EXCEPT ![t] = "suspended"]
          /\ cpu' = GiveUp(t, cpu)
          /\ ready' = ready \ {t}
          /\ waiters' = Enqueue(waiters, t)
          /\ UNCHANGED count
  /\ UNCHANGED <<used, locks, reg>>

\* status != NU_SUCCESS: mutex->locks--, a load and a store
RefusedLoad(t) ==
  /\ Goto(t, "refused", "give_up")
  /\ Load(t)
  /\ UNCHANGED <<mutexVars, ready>>

RefusedStore(t) ==
  /\ Goto(t, "give_up", "idle")
  /\ locks' = reg[t] - 1
  /\ reg' = [reg EXCEPT ![t] = 0]
  /\ UNCHANGED <<used, count, waiters, ready>>

-----------------------------------------------------------------------------
\* unlockMutex by the task that owns the mutex; -1 when it was destroyed.
CallUnlock(t) ==
  /\ Goto(t, "critical", IF used THEN "unlock" ELSE "idle")
  /\ UNCHANGED <<mutexVars, reg, ready>>

\* Variant with a fault: off by one, the last waiter is forgotten.
UnlockReadLate(t) ==
  /\ Goto(t, "unlock", IF locks > 2 THEN "release" ELSE "drop")
  /\ reg' = IF locks > 2 THEN reg ELSE [reg EXCEPT ![t] = locks]
  /\ UNCHANGED <<mutexVars, ready>>

\* if(mutex->locks > 1)
UnlockRead(t) ==
  /\ Goto(t, "unlock", IF locks > 1 THEN "release" ELSE "drop")
  /\ reg' = IF locks > 1 THEN reg ELSE [reg EXCEPT ![t] = locks]
  /\ UNCHANGED <<mutexVars, ready>>

\* NU_Release_Semaphore resumes the first waiter, which owns the mutex from
\* here on; without a waiter the semaphore stays free for the next Obtain.
UnlockRelease(t) ==
  /\ used
  /\ pc[t] = "release"
  /\ MayRun(t, ready, cpu)
  /\ cpu' = Occupy(t, cpu)
  /\ IF waiters = << >>
     THEN /\ count' = count + 1
          /\ pc' = [pc EXCEPT ![t] = "reload"]
          /\ UNCHANGED <<waiters, ready>>
     ELSE /\ waiters' = Tail(waiters)
          /\ ready' = ready \cup {Head(waiters)}
          /\ pc' = [pc EXCEPT ![t] = "reload", ![Head(waiters)] = "critical"]
          /\ UNCHANGED count
  /\ UNCHANGED <<used, locks, reg>>

\* The semaphore was deleted: status is not NU_SUCCESS and locks stays.
UnlockReleaseInvalid(t) ==
  /\ ~used
  /\ Goto(t, "release", "idle")
  /\ UNCHANGED <<mutexVars, reg, ready>>

\* mutex->locks--: loaded again after the kernel call, then stored
UnlockReload(t) ==
  /\ Goto(t, "reload", "settle")
  /\ Load(t)
  /\ UNCHANGED <<mutexVars, ready>>

\* Variant with a fault: the counter is not decremented.
UnlockStoreStale(t) ==
  /\ \/ Goto(t, "drop", "idle")
     \/ Goto(t, "settle", "idle")
  /\ locks' = reg[t]
  /\ reg' = [reg EXCEPT ![t] = 0]
  /\ UNCHANGED <<used, count, waiters, ready>>

UnlockStore(t) ==
  /\ \/ Goto(t, "drop", "idle")
     \/ Goto(t, "settle", "idle")
  /\ locks' = reg[t] - 1
  /\ reg' = [reg EXCEPT ![t] = 0]
  /\ UNCHANGED <<used, count, waiters, ready>>

-----------------------------------------------------------------------------
\* The client sleeps (NU_Sleep), between calls or while it owns the mutex.
Sleep(t) ==
  /\ pc[t] \in {"idle", "critical"}
  /\ MayRun(t, ready, cpu)
  /\ ready' = ready \ {t}
  /\ cpu' = GiveUp(t, cpu)
  /\ UNCHANGED <<mutexVars, pc, reg>>

\* The timer of the sleep expires.
WakeUp(t) ==
  /\ t \notin ready
  /\ pc[t] \in {"idle", "critical"}
  /\ ready' = ready \cup {t}
  /\ UNCHANGED <<mutexVars, pc, reg, cpu>>

\* The rest of a call that has begun
Continue(t) ==
  \/ LockRead(t) \/ TryRead(t) \/ LockTake(t) \/ LockCount(t)
  \/ ObtainInvalid(t) \/ Obtain(t)
  \/ RefusedLoad(t) \/ RefusedStore(t)
  \/ UnlockRead(t) \/ UnlockRelease(t) \/ UnlockReleaseInvalid(t)
  \/ UnlockReload(t) \/ UnlockStore(t)

Next ==
  \E t \in Tasks :
    \/ CreateMutex(t) \/ DestroyMutex(t)
    \/ CallLock(t) \/ CallTryLock(t) \/ CallUnlock(t)
    \/ Continue(t)
    \/ Sleep(t) \/ WakeUp(t)

Spec == Init /\ [][Next]_vars

(***************************************************************************)
(* A task that has begun a call is dispatched in the end, a sleep ends, a  *)
(* client leaves its critical section, and no client polls tryLockMutex    *)
(* for ever without sleeping (it would starve its whole priority level).   *)
(***************************************************************************)
Fairness ==
  \A t \in Tasks :
    /\ SF_vars(Continue(t))
    /\ WF_vars(WakeUp(t))
    /\ SF_vars(CallUnlock(t))
    /\ SF_vars(Sleep(t))

FairSpec == Spec /\ Fairness

-----------------------------------------------------------------------------
TypeOK ==
  /\ used \in BOOLEAN
  /\ locks \in Int
  /\ count \in Nat
  /\ waiters \in Seq(Tasks)
  /\ pc \in [Tasks -> Points]
  /\ reg \in [Tasks -> Int]
  /\ ready \in SUBSET Tasks
  /\ cpu \in [Levels -> Tasks \cup {NoTask}]

\* Two tasks are never inside the critical section of one mutex together:
\* between lockMutex returning 0 and the last effect of unlockMutex.
MutualExclusion == \A t, u \in Tasks : Owns(t) /\ Owns(u) => t = u

\* While no call is half way, the counter of a live mutex is the number of
\* its waiters and of its owner: the next unlockMutex will wake a waiter
\* exactly if there is one.
CounterExact ==
  used /\ (\A t \in Tasks : pc[t] \notin MidCall)
    => locks = Len(waiters) + (IF \E t \in Tasks : Owns(t) THEN 1 ELSE 0)

\* Destroying a mutex strands nobody, whatever has become of its counter:
\* a destroyed mutex has no suspended task and its semaphore no waiter.
DestroyDismisses ==
  ~used => waiters = << >> /\ \A t \in Tasks : pc[t] # "suspended"

\* A task suspended in lockMutex gets the mutex or is refused: no unlock
\* forgets it.
WaiterServed ==
  \A t \in Tasks : pc[t] = "suspended" ~> pc[t] \in {"critical", "refused"}

\* The mutex is the lock it promises to be.
Lock == INSTANCE FifoLock WITH holders <- {t \in Tasks : Owns(t)}, queue <- waiters
ImplementsLock == Lock!Spec
=============================================================================
