--------------------------- MODULE MutexMemCtlProofs ---------------------------
(***************************************************************************)
(* Proofs about CoreMutex and about MemCtl, which is built from it.        *)
(*                                                                         *)
(* CoreMutex among tasks of one priority, for any number of them: a call   *)
(* that has begun keeps the processor until it suspends or ends, so the    *)
(* counter is exact wherever another task can look at it.                  *)
(*                                                                         *)
(* CoreMutex among tasks of any priorities, where the counter drifts and   *)
(* the lock excludes nobody: what its destruction does.                    *)
(*                                                                         *)
(* MemCtl, for tasks of any priorities, any heap and list: as long as no   *)
(* task is killed in the list, what the list names, what is allocated and  *)
(* what the tasks have in hand agree.  Only this part uses the assumption  *)
(* that MemCtl makes.                                                      *)
(***************************************************************************)
EXTENDS MemCtl, NucleusProofs, FiniteSetTheorems

OnePriority == \A t, u \in Tasks : Prio[t] = Prio[u]

Owned == \E t \in Tasks : Owns(t)

\* The points at which locks counts a task more than owner and waiters: the
\* caller about to suspend, or the former owner that has handed over.
SurplusPoints == {"obtain", "reload", "settle"}
Surplus == \E t \in Tasks : pc[t] \in SurplusPoints

\* Somebody other than t owns the mutex.
OthersOwn(t) == \E u \in Tasks \ {t} : Owns(u)

One(condition) == IF condition THEN 1 ELSE 0

\* A task inside a call runs, except one that was just refused.
CallerRuns == \A t \in Tasks : pc[t] \in MidCall \ {"refused"} => cpu[Prio[t]] = t

QueueExact ==
  /\ \A i \in 1..Len(waiters) : pc[waiters[i]] = "suspended"
  /\ \A i, j \in 1..Len(waiters) : waiters[i] = waiters[j] => i = j
  /\ \A t \in Tasks : pc[t] = "suspended" => \E i \in 1..Len(waiters) : waiters[i] = t

\* A waiter implies an owner that will hand over.
WaitersHaveOwner == waiters # << >> => Owned

\* No call outlives the mutex except the refused ones.
CallsInTime ==
  \A t \in Tasks :
    /\ pc[t] \in MidCall \ {"refused", "give_up"} => used
    /\ pc[t] \in {"refused", "give_up"} => ~used

CounterBalanced == used => locks = Len(waiters) + One(Owned) + One(Surplus)

\* What each point of a call knows from its last load.
RegisterExact ==
  \A t \in Tasks :
    /\ pc[t] = "take" => reg[t] = locks /\ locks = 0
    /\ pc[t] = "count" => reg[t] = locks /\ locks > 0
    /\ pc[t] = "obtain" => Owned
    /\ pc[t] = "release" => waiters # << >>
    /\ pc[t] = "drop" => reg[t] = locks /\ waiters = << >>
    /\ pc[t] = "settle" => reg[t] = locks

IndInv ==
  /\ TypeOK
  /\ count = 0
  /\ ~used => waiters = << >>
  /\ MutualExclusion
  /\ CallerRuns
  /\ QueueExact
  /\ WaitersHaveOwner
  /\ CallsInTime
  /\ CounterBalanced
  /\ RegisterExact

-----------------------------------------------------------------------------
\* Among tasks of one priority the kernel's priority queue is a FIFO.
LEMMA EnqueueAppends ==
  ASSUME OnePriority, NucleusAssumption, NEW w \in Seq(Tasks), NEW t \in Tasks
  PROVE  Enqueue(w, t) = Append(w, t)
<1>1. \A i \in 1..Len(w) : Prio[w[i]] \in Nat /\ Prio[w[i]] = Prio[t]
  BY DEF OnePriority, NucleusAssumption
<1>2. Behind(w, t) = Len(w)
  <2>1. Len(w) \in 0..Len(w)
    OBVIOUS
  <2>2. \A i \in 1..Len(w) : i <= Len(w) <=> Prio[w[i]] <= Prio[t]
    BY <1>1
  <2>3. ASSUME NEW n \in 0..Len(w),
               \A i \in 1..Len(w) : i <= n <=> Prio[w[i]] <= Prio[t]
        PROVE  n = Len(w)
    <3>1. \A i \in 1..Len(w) : i <= n
      BY <1>1, <2>3
    <3>2. QED
      BY <3>1
  <2>4. QED
    BY <2>1, <2>2, <2>3 DEF Behind
<1>3. SubSeq(w, 1, Len(w)) = w
  BY SubSeqFull
<1>4. SubSeq(w, Len(w) + 1, Len(w)) = << >>
  OBVIOUS
<1>5. Enqueue(w, t) = w \o <<t>> \o << >>
  BY <1>2, <1>3, <1>4 DEF Enqueue
<1>6. w \o <<t>> = Append(w, t) /\ Append(w, t) \in Seq(Tasks)
  BY AppendIsConcat
<1>7. QED
  BY <1>5, <1>6, ConcatEmptySeq

\* Nobody else is inside a call when a task runs.
LEMMA RunsAlone ==
  ASSUME OnePriority, NucleusAssumption, CallerRuns,
         NEW t \in Tasks, MayRun(t, ready, cpu), NEW u \in Tasks, u # t
  PROVE  pc[u] \notin MidCall \ {"refused"}
BY DEF OnePriority, NucleusAssumption, CallerRuns, MayRun

\* Dispatching and suspending keep the type of cpu.
LEMMA OccupyType ==
  ASSUME NucleusAssumption, cpu \in [Levels -> Tasks \cup {NoTask}], NEW t \in Tasks
  PROVE  /\ Occupy(t, cpu) \in [Levels -> Tasks \cup {NoTask}]
         /\ GiveUp(t, cpu) \in [Levels -> Tasks \cup {NoTask}]
         /\ Occupy(t, cpu)[Prio[t]] = t
BY DEF Occupy, GiveUp, Levels, NucleusAssumption

\* The inductive invariant holds before the first createMutex.
LEMMA InitEstablishes == ASSUME NucleusAssumption PROVE Init => IndInv
<1> SUFFICES ASSUME Init PROVE IndInv
  OBVIOUS
<1> USE DEF Init
<1>1. TypeOK
  <2>1. cpu \in [Levels -> Tasks \cup {NoTask}]
    BY DEF IdleCpu
  <2>2. pc \in [Tasks -> Points]
    BY DEF Points
  <2>3. reg \in [Tasks -> Int]
    OBVIOUS
  <2>4. waiters \in Seq(Tasks)
    OBVIOUS
  <2>5. locks \in Int /\ count \in Nat
    OBVIOUS
  <2>6. used \in BOOLEAN /\ ready \in SUBSET Tasks
    BY Zenon
  <2>7. QED
    BY <2>1, <2>2, <2>3, <2>4, <2>5, <2>6, Zenon DEF TypeOK
<1>2. MutualExclusion /\ CallerRuns /\ QueueExact /\ CallsInTime /\ RegisterExact
  BY DEF MutualExclusion, Owns, OwningPoints, CallerRuns, QueueExact, CallsInTime,
         RegisterExact, MidCall
<1>3. WaitersHaveOwner /\ CounterBalanced
  BY DEF WaitersHaveOwner, CounterBalanced
<1>4. QED
  BY <1>1, <1>2, <1>3 DEF IndInv

-----------------------------------------------------------------------------
\* What every step that keeps the processor and the wait queue preserves.
StaysInPlace(t, from, to) ==
  /\ pc' \in [Tasks -> Points]
  /\ cpu' \in [Levels -> Tasks \cup {NoTask}]
  /\ pc[t] = from /\ pc'[t] = to
  /\ \A u \in Tasks \ {t} :
       /\ pc'[u] = pc[u]
       /\ pc[u] \in {"idle", "critical", "suspended", "refused"}
  /\ CallerRuns'
  /\ QueueExact'
  /\ Surplus <=> from \in SurplusPoints
  /\ Surplus' <=> to \in SurplusPoints
  /\ Owned <=> from \in OwningPoints \/ OthersOwn(t)
  /\ Owned' <=> to \in OwningPoints \/ OthersOwn(t)
  /\ (to \in OwningPoints => from \in OwningPoints \/ ~OthersOwn(t)) => MutualExclusion'

\* A step in place keeps every part of the invariant that does not look at
\* the counter or at a register.
LEMMA StepInPlace ==
  ASSUME OnePriority, NucleusAssumption, IndInv, NEW t \in Tasks,
         NEW from \in Points \ {"suspended"}, NEW to \in Points \ {"suspended"},
         Goto(t, from, to), UNCHANGED <<waiters, ready>>
  PROVE  StaysInPlace(t, from, to)
<1> USE DEF IndInv, Goto
<1>1. pc' \in [Tasks -> Points] /\ pc[t] = from /\ pc'[t] = to
  BY DEF TypeOK
<1>2. cpu' \in [Levels -> Tasks \cup {NoTask}] /\ cpu'[Prio[t]] = t
  BY OccupyType DEF TypeOK
<1>3. ASSUME NEW u \in Tasks \ {t}
      PROVE  /\ pc'[u] = pc[u]
             /\ pc[u] \in {"idle", "critical", "suspended", "refused"}
  <2>1. pc[u] \notin MidCall \ {"refused"}
    BY RunsAlone
  <2>2. QED
    BY <2>1 DEF TypeOK, Points, MidCall
<1>4. CallerRuns'
  BY <1>1, <1>2, <1>3 DEF CallerRuns, MidCall
<1>5. QueueExact'
  <2>1. pc[t] # "suspended" /\ pc'[t] # "suspended"
    BY <1>1
  <2>2. \A i \in 1..Len(waiters) : waiters[i] \in Tasks
    BY ElementOfSeq DEF TypeOK
  <2>3. QED
    BY <1>3, <2>1, <2>2 DEF QueueExact
<1>6. (Surplus <=> from \in SurplusPoints) /\ (Surplus' <=> to \in SurplusPoints)
  BY <1>1, <1>3 DEF Surplus, SurplusPoints
<1>7. (Owned <=> from \in OwningPoints \/ OthersOwn(t))
      /\ (Owned' <=> to \in OwningPoints \/ OthersOwn(t))
  BY <1>1, <1>3 DEF Owned, Owns, OthersOwn
<1>8. ASSUME to \in OwningPoints => from \in OwningPoints \/ ~OthersOwn(t)
      PROVE  MutualExclusion'
  BY <1>1, <1>3, <1>8 DEF MutualExclusion, Owns, OthersOwn
<1>9. QED
  BY <1>1, <1>2, <1>3, <1>4, <1>5, <1>6, <1>7, <1>8 DEF StaysInPlace

\* Reading the counter in lockMutex: its value stays exact while t runs.
LEMMA LockReadPreserves ==
  ASSUME OnePriority, NucleusAssumption, IndInv, NEW t \in Tasks, LockRead(t)
  PROVE  IndInv'
<1> DEFINE from == "lock"
           to == (IF locks > 0 THEN "count" ELSE "take")
<1>1. /\ Goto(t, from, to) /\ UNCHANGED <<waiters, ready, used, count>>
      /\ from \in Points \ {"suspended"} /\ to \in Points \ {"suspended"}
  BY DEF LockRead, mutexVars, Points, MidCall, Load
<1>2. StaysInPlace(t, from, to)
  <2> HIDE DEF from, to
  <2>1. QED
    BY <1>1, StepInPlace
<1>3. /\ locks' \in Int /\ reg' \in [Tasks -> Int]
      /\ \A u \in Tasks \ {t} : reg'[u] = reg[u]
  BY DEF LockRead, IndInv, TypeOK, mutexVars, Load
<1>4. TypeOK'
  BY <1>1, <1>2, <1>3, Zenon DEF IndInv, TypeOK, StaysInPlace
<1>5. MutualExclusion' /\ WaitersHaveOwner' /\ CallsInTime'
  BY <1>1, <1>2 DEF LockRead, StaysInPlace, IndInv, WaitersHaveOwner, CallsInTime,
     CounterBalanced, RegisterExact, OwningPoints, SurplusPoints, MidCall, One, mutexVars, Load
<1>6. CounterBalanced' /\ RegisterExact'
  BY <1>1, <1>2, <1>3 DEF LockRead, StaysInPlace, IndInv, CallsInTime, WaitersHaveOwner,
     CounterBalanced, RegisterExact, OwningPoints, SurplusPoints, MidCall, One, mutexVars, Load
<1>7. QED
  BY <1>1, <1>2, <1>4, <1>5, <1>6 DEF IndInv, StaysInPlace

\* Reading the counter in tryLockMutex: nobody owns the mutex if it is 0.
LEMMA TryReadPreserves ==
  ASSUME OnePriority, NucleusAssumption, IndInv, NEW t \in Tasks, TryRead(t)
  PROVE  IndInv'
<1> DEFINE from == "try"
           to == (IF locks < 1 THEN "take" ELSE "idle")
<1>1. /\ Goto(t, from, to) /\ UNCHANGED <<waiters, ready, used, count>>
      /\ from \in Points \ {"suspended"} /\ to \in Points \ {"suspended"}
  BY DEF TryRead, mutexVars, Points, MidCall
<1>2. StaysInPlace(t, from, to)
  <2> HIDE DEF from, to
  <2>1. QED
    BY <1>1, StepInPlace
<1>3. /\ locks' \in Int /\ reg' \in [Tasks -> Int]
      /\ \A u \in Tasks \ {t} : reg'[u] = reg[u]
  BY DEF TryRead, IndInv, TypeOK, mutexVars
<1>4. TypeOK'
  BY <1>1, <1>2, <1>3, Zenon DEF IndInv, TypeOK, StaysInPlace
<1>5. MutualExclusion' /\ WaitersHaveOwner' /\ CallsInTime'
  BY <1>1, <1>2 DEF TryRead, StaysInPlace, IndInv, WaitersHaveOwner, CallsInTime,
     CounterBalanced, RegisterExact, OwningPoints, SurplusPoints, MidCall, One, mutexVars
<1>6. CounterBalanced' /\ RegisterExact'
  BY <1>1, <1>2, <1>3 DEF TryRead, StaysInPlace, IndInv, CallsInTime, WaitersHaveOwner,
     CounterBalanced, RegisterExact, OwningPoints, SurplusPoints, MidCall, One, mutexVars
<1>7. QED
  BY <1>1, <1>2, <1>4, <1>5, <1>6 DEF IndInv, StaysInPlace

\* Entering at once: the counter was 0, so no owner and no waiter existed.
LEMMA LockTakePreserves ==
  ASSUME OnePriority, NucleusAssumption, IndInv, NEW t \in Tasks, LockTake(t)
  PROVE  IndInv'
<1> DEFINE from == "take"
           to == "critical"
<1>1. /\ Goto(t, from, to) /\ UNCHANGED <<waiters, ready, used, count>>
      /\ from \in Points \ {"suspended"} /\ to \in Points \ {"suspended"}
  BY DEF LockTake, mutexVars, Points, MidCall
<1>2. StaysInPlace(t, from, to)
  <2> HIDE DEF from, to
  <2>1. QED
    BY <1>1, StepInPlace
<1>3. /\ locks' \in Int /\ reg' \in [Tasks -> Int]
      /\ \A u \in Tasks \ {t} : reg'[u] = reg[u]
  BY DEF LockTake, IndInv, TypeOK, mutexVars
<1>4. TypeOK'
  BY <1>1, <1>2, <1>3, Zenon DEF IndInv, TypeOK, StaysInPlace
<1>5. MutualExclusion' /\ WaitersHaveOwner' /\ CallsInTime'
  BY <1>1, <1>2 DEF LockTake, StaysInPlace, IndInv, WaitersHaveOwner, CallsInTime,
     CounterBalanced, RegisterExact, OwningPoints, SurplusPoints, MidCall, One, mutexVars
<1>6. CounterBalanced' /\ RegisterExact'
  BY <1>1, <1>2, <1>3 DEF LockTake, StaysInPlace, IndInv, CallsInTime, WaitersHaveOwner,
     CounterBalanced, RegisterExact, OwningPoints, SurplusPoints, MidCall, One, mutexVars
<1>7. QED
  BY <1>1, <1>2, <1>4, <1>5, <1>6 DEF IndInv, StaysInPlace

\* Counting oneself before Obtain: the surplus of one appears here.
LEMMA LockCountPreserves ==
  ASSUME OnePriority, NucleusAssumption, IndInv, NEW t \in Tasks, LockCount(t)
  PROVE  IndInv'
<1> DEFINE from == "count"
           to == "obtain"
<1>1. /\ Goto(t, from, to) /\ UNCHANGED <<waiters, ready, used, count>>
      /\ from \in Points \ {"suspended"} /\ to \in Points \ {"suspended"}
  BY DEF LockCount, mutexVars, Points, MidCall
<1>2. StaysInPlace(t, from, to)
  <2> HIDE DEF from, to
  <2>1. QED
    BY <1>1, StepInPlace
<1>3. /\ locks' \in Int /\ reg' \in [Tasks -> Int]
      /\ \A u \in Tasks \ {t} : reg'[u] = reg[u]
  BY DEF LockCount, IndInv, TypeOK, mutexVars
<1>4. TypeOK'
  BY <1>1, <1>2, <1>3, Zenon DEF IndInv, TypeOK, StaysInPlace
<1>5. MutualExclusion' /\ WaitersHaveOwner' /\ CallsInTime'
  BY <1>1, <1>2 DEF LockCount, StaysInPlace, IndInv, WaitersHaveOwner, CallsInTime,
     CounterBalanced, RegisterExact, OwningPoints, SurplusPoints, MidCall, One, mutexVars
<1>6. CounterBalanced' /\ RegisterExact'
  BY <1>1, <1>2, <1>3 DEF LockCount, StaysInPlace, IndInv, CallsInTime, WaitersHaveOwner,
     CounterBalanced, RegisterExact, OwningPoints, SurplusPoints, MidCall, One, mutexVars
<1>7. QED
  BY <1>1, <1>2, <1>4, <1>5, <1>6 DEF IndInv, StaysInPlace

\* A refused caller loads the counter of a destroyed mutex.
LEMMA RefusedLoadPreserves ==
  ASSUME OnePriority, NucleusAssumption, IndInv, NEW t \in Tasks, RefusedLoad(t)
  PROVE  IndInv'
<1> DEFINE from == "refused"
           to == "give_up"
<1>1. /\ Goto(t, from, to) /\ UNCHANGED <<waiters, ready, used, count>>
      /\ from \in Points \ {"suspended"} /\ to \in Points \ {"suspended"}
  BY DEF RefusedLoad, mutexVars, Points, MidCall, Load
<1>2. StaysInPlace(t, from, to)
  <2> HIDE DEF from, to
  <2>1. QED
    BY <1>1, StepInPlace
<1>3. /\ locks' \in Int /\ reg' \in [Tasks -> Int]
      /\ \A u \in Tasks \ {t} : reg'[u] = reg[u]
  BY DEF RefusedLoad, IndInv, TypeOK, mutexVars, Load
<1>4. TypeOK'
  BY <1>1, <1>2, <1>3, Zenon DEF IndInv, TypeOK, StaysInPlace
<1>5. MutualExclusion' /\ WaitersHaveOwner' /\ CallsInTime'
  BY <1>1, <1>2 DEF RefusedLoad, StaysInPlace, IndInv, WaitersHaveOwner, CallsInTime,
     CounterBalanced, RegisterExact, OwningPoints, SurplusPoints, MidCall, One, mutexVars, Load
<1>6. CounterBalanced' /\ RegisterExact'
  BY <1>1, <1>2, <1>3 DEF RefusedLoad, StaysInPlace, IndInv, CallsInTime, WaitersHaveOwner,
     CounterBalanced, RegisterExact, OwningPoints, SurplusPoints, MidCall, One, mutexVars, Load
<1>7. QED
  BY <1>1, <1>2, <1>4, <1>5, <1>6 DEF IndInv, StaysInPlace

\* ... and stores it back less one; a destroyed mutex needs no balance.
LEMMA RefusedStorePreserves ==
  ASSUME OnePriority, NucleusAssumption, IndInv, NEW t \in Tasks, RefusedStore(t)
  PROVE  IndInv'
<1> DEFINE from == "give_up"
           to == "idle"
<1>1. /\ Goto(t, from, to) /\ UNCHANGED <<waiters, ready, used, count>>
      /\ from \in Points \ {"suspended"} /\ to \in Points \ {"suspended"}
  BY DEF RefusedStore, mutexVars, Points, MidCall
<1>2. StaysInPlace(t, from, to)
  <2> HIDE DEF from, to
  <2>1. QED
    BY <1>1, StepInPlace
<1>3. /\ locks' \in Int /\ reg' \in [Tasks -> Int]
      /\ \A u \in Tasks \ {t} : reg'[u] = reg[u]
  BY DEF RefusedStore, IndInv, TypeOK, mutexVars
<1>4. TypeOK'
  BY <1>1, <1>2, <1>3, Zenon DEF IndInv, TypeOK, StaysInPlace
<1>5. MutualExclusion' /\ WaitersHaveOwner' /\ CallsInTime'
  BY <1>1, <1>2 DEF RefusedStore, StaysInPlace, IndInv, WaitersHaveOwner, CallsInTime,
     CounterBalanced, RegisterExact, OwningPoints, SurplusPoints, MidCall, One, mutexVars
<1>6. CounterBalanced' /\ RegisterExact'
  BY <1>1, <1>2, <1>3 DEF RefusedStore, StaysInPlace, IndInv, CallsInTime, WaitersHaveOwner,
     CounterBalanced, RegisterExact, OwningPoints, SurplusPoints, MidCall, One, mutexVars
<1>7. QED
  BY <1>1, <1>2, <1>4, <1>5, <1>6 DEF IndInv, StaysInPlace

\* Entering lockMutex changes no counter.
LEMMA CallLockPreserves ==
  ASSUME OnePriority, NucleusAssumption, IndInv, NEW t \in Tasks, CallLock(t)
  PROVE  IndInv'
<1> DEFINE from == "idle"
           to == "lock"
<1>1. /\ Goto(t, from, to) /\ UNCHANGED <<waiters, ready, used, count>>
      /\ from \in Points \ {"suspended"} /\ to \in Points \ {"suspended"}
  BY DEF CallLock, mutexVars, Points, MidCall, Call
<1>2. StaysInPlace(t, from, to)
  <2> HIDE DEF from, to
  <2>1. QED
    BY <1>1, StepInPlace
<1>3. /\ locks' \in Int /\ reg' \in [Tasks -> Int]
      /\ \A u \in Tasks \ {t} : reg'[u] = reg[u]
  BY DEF CallLock, IndInv, TypeOK, mutexVars, Call
<1>4. TypeOK'
  BY <1>1, <1>2, <1>3, Zenon DEF IndInv, TypeOK, StaysInPlace
<1>5. MutualExclusion' /\ WaitersHaveOwner' /\ CallsInTime'
  BY <1>1, <1>2 DEF CallLock, StaysInPlace, IndInv, WaitersHaveOwner, CallsInTime,
     CounterBalanced, RegisterExact, OwningPoints, SurplusPoints, MidCall, One, mutexVars, Call
<1>6. CounterBalanced' /\ RegisterExact'
  BY <1>1, <1>2, <1>3 DEF CallLock, StaysInPlace, IndInv, CallsInTime, WaitersHaveOwner,
     CounterBalanced, RegisterExact, OwningPoints, SurplusPoints, MidCall, One, mutexVars, Call
<1>7. QED
  BY <1>1, <1>2, <1>4, <1>5, <1>6 DEF IndInv, StaysInPlace

\* Entering tryLockMutex changes no counter.
LEMMA CallTryLockPreserves ==
  ASSUME OnePriority, NucleusAssumption, IndInv, NEW t \in Tasks, CallTryLock(t)
  PROVE  IndInv'
<1> DEFINE from == "idle"
           to == "try"
<1>1. /\ Goto(t, from, to) /\ UNCHANGED <<waiters, ready, used, count>>
      /\ from \in Points \ {"suspended"} /\ to \in Points \ {"suspended"}
  BY DEF CallTryLock, mutexVars, Points, MidCall, Call
<1>2. StaysInPlace(t, from, to)
  <2> HIDE DEF from, to
  <2>1. QED
    BY <1>1, StepInPlace
<1>3. /\ locks' \in Int /\ reg' \in [Tasks -> Int]
      /\ \A u \in Tasks \ {t} : reg'[u] = reg[u]
  BY DEF CallTryLock, IndInv, TypeOK, mutexVars, Call
<1>4. TypeOK'
  BY <1>1, <1>2, <1>3, Zenon DEF IndInv, TypeOK, StaysInPlace
<1>5. MutualExclusion' /\ WaitersHaveOwner' /\ CallsInTime'
  BY <1>1, <1>2 DEF CallTryLock, StaysInPlace, IndInv, WaitersHaveOwner, CallsInTime,
     CounterBalanced, RegisterExact, OwningPoints, SurplusPoints, MidCall, One, mutexVars, Call
<1>6. CounterBalanced' /\ RegisterExact'
  BY <1>1, <1>2, <1>3 DEF CallTryLock, StaysInPlace, IndInv, CallsInTime, WaitersHaveOwner,
     CounterBalanced, RegisterExact, OwningPoints, SurplusPoints, MidCall, One, mutexVars, Call
<1>7. QED
  BY <1>1, <1>2, <1>4, <1>5, <1>6 DEF IndInv, StaysInPlace

\* Entering unlockMutex, or failing because the mutex is gone.
LEMMA CallUnlockPreserves ==
  ASSUME OnePriority, NucleusAssumption, IndInv, NEW t \in Tasks, CallUnlock(t)
  PROVE  IndInv'
<1> DEFINE from == "critical"
           to == (IF used THEN "unlock" ELSE "idle")
<1>1. /\ Goto(t, from, to) /\ UNCHANGED <<waiters, ready, used, count>>
      /\ from \in Points \ {"suspended"} /\ to \in Points \ {"suspended"}
  BY DEF CallUnlock, mutexVars, Points, MidCall
<1>2. StaysInPlace(t, from, to)
  <2> HIDE DEF from, to
  <2>1. QED
    BY <1>1, StepInPlace
<1>3. /\ locks' \in Int /\ reg' \in [Tasks -> Int]
      /\ \A u \in Tasks \ {t} : reg'[u] = reg[u]
  BY DEF CallUnlock, IndInv, TypeOK, mutexVars
<1>4. TypeOK'
  BY <1>1, <1>2, <1>3, Zenon DEF IndInv, TypeOK, StaysInPlace
<1>5. MutualExclusion' /\ WaitersHaveOwner' /\ CallsInTime'
  BY <1>1, <1>2 DEF CallUnlock, StaysInPlace, IndInv, WaitersHaveOwner, CallsInTime,
     CounterBalanced, RegisterExact, OwningPoints, SurplusPoints, MidCall, One, mutexVars
<1>6. CounterBalanced' /\ RegisterExact'
  BY <1>1, <1>2, <1>3 DEF CallUnlock, StaysInPlace, IndInv, CallsInTime, WaitersHaveOwner,
     CounterBalanced, RegisterExact, OwningPoints, SurplusPoints, MidCall, One, mutexVars
<1>7. QED
  BY <1>1, <1>2, <1>4, <1>5, <1>6 DEF IndInv, StaysInPlace

\* The branch unlockMutex takes agrees with the wait queue.
LEMMA UnlockReadPreserves ==
  ASSUME OnePriority, NucleusAssumption, IndInv, NEW t \in Tasks, UnlockRead(t)
  PROVE  IndInv'
<1> DEFINE from == "unlock"
           to == (IF locks > 1 THEN "release" ELSE "drop")
<1>1. /\ Goto(t, from, to) /\ UNCHANGED <<waiters, ready, used, count>>
      /\ from \in Points \ {"suspended"} /\ to \in Points \ {"suspended"}
  BY DEF UnlockRead, mutexVars, Points, MidCall
<1>2. StaysInPlace(t, from, to)
  <2> HIDE DEF from, to
  <2>1. QED
    BY <1>1, StepInPlace
<1>3. /\ locks' \in Int /\ reg' \in [Tasks -> Int]
      /\ \A u \in Tasks \ {t} : reg'[u] = reg[u]
  BY DEF UnlockRead, IndInv, TypeOK, mutexVars
<1>4. TypeOK'
  BY <1>1, <1>2, <1>3, Zenon DEF IndInv, TypeOK, StaysInPlace
<1>5. MutualExclusion' /\ WaitersHaveOwner' /\ CallsInTime'
  BY <1>1, <1>2 DEF UnlockRead, StaysInPlace, IndInv, WaitersHaveOwner, CallsInTime,
     CounterBalanced, RegisterExact, OwningPoints, SurplusPoints, MidCall, One, mutexVars
<1>6. CounterBalanced' /\ RegisterExact'
  BY <1>1, <1>2, <1>3 DEF UnlockRead, StaysInPlace, IndInv, CallsInTime, WaitersHaveOwner,
     CounterBalanced, RegisterExact, OwningPoints, SurplusPoints, MidCall, One, mutexVars
<1>7. QED
  BY <1>1, <1>2, <1>4, <1>5, <1>6 DEF IndInv, StaysInPlace

\* The second load of unlockMutex is exact while t runs.
LEMMA UnlockReloadPreserves ==
  ASSUME OnePriority, NucleusAssumption, IndInv, NEW t \in Tasks, UnlockReload(t)
  PROVE  IndInv'
<1> DEFINE from == "reload"
           to == "settle"
<1>1. /\ Goto(t, from, to) /\ UNCHANGED <<waiters, ready, used, count>>
      /\ from \in Points \ {"suspended"} /\ to \in Points \ {"suspended"}
  BY DEF UnlockReload, mutexVars, Points, MidCall, Load
<1>2. StaysInPlace(t, from, to)
  <2> HIDE DEF from, to
  <2>1. QED
    BY <1>1, StepInPlace
<1>3. /\ locks' \in Int /\ reg' \in [Tasks -> Int]
      /\ \A u \in Tasks \ {t} : reg'[u] = reg[u]
  BY DEF UnlockReload, IndInv, TypeOK, mutexVars, Load
<1>4. TypeOK'
  BY <1>1, <1>2, <1>3, Zenon DEF IndInv, TypeOK, StaysInPlace
<1>5. MutualExclusion' /\ WaitersHaveOwner' /\ CallsInTime'
  BY <1>1, <1>2 DEF UnlockReload, StaysInPlace, IndInv, WaitersHaveOwner, CallsInTime,
     CounterBalanced, RegisterExact, OwningPoints, SurplusPoints, MidCall, One, mutexVars, Load
<1>6. CounterBalanced' /\ RegisterExact'
  BY <1>1, <1>2, <1>3 DEF UnlockReload, StaysInPlace, IndInv, CallsInTime, WaitersHaveOwner,
     CounterBalanced, RegisterExact, OwningPoints, SurplusPoints, MidCall, One, mutexVars, Load
<1>7. QED
  BY <1>1, <1>2, <1>4, <1>5, <1>6 DEF IndInv, StaysInPlace

\* The decrement removes the former owner, or the surplus after a hand-over.
LEMMA UnlockStorePreserves ==
  ASSUME OnePriority, NucleusAssumption, IndInv, NEW t \in Tasks, UnlockStore(t)
  PROVE  IndInv'
<1> DEFINE from == pc[t]
           to == "idle"
<1>1. /\ Goto(t, from, to) /\ UNCHANGED <<waiters, ready, used, count>>
      /\ from \in Points \ {"suspended"} /\ to \in Points \ {"suspended"}
  BY DEF UnlockStore, mutexVars, Points, MidCall, Goto
<1>2. StaysInPlace(t, from, to)
  <2> HIDE DEF from, to
  <2>1. QED
    BY <1>1, StepInPlace
<1>3. /\ locks' \in Int /\ reg' \in [Tasks -> Int]
      /\ \A u \in Tasks \ {t} : reg'[u] = reg[u]
  BY DEF UnlockStore, IndInv, TypeOK, mutexVars, Goto
<1>4. TypeOK'
  BY <1>1, <1>2, <1>3, Zenon DEF IndInv, TypeOK, StaysInPlace
<1>5. MutualExclusion' /\ WaitersHaveOwner' /\ CallsInTime'
  BY <1>1, <1>2 DEF UnlockStore, StaysInPlace, IndInv, WaitersHaveOwner, CallsInTime,
     CounterBalanced, RegisterExact, OwningPoints, SurplusPoints, MidCall, One, mutexVars, Goto
<1>6. pc[t] = "drop" => ~OthersOwn(t)
  BY DEF IndInv, MutualExclusion, OthersOwn, Owns, OwningPoints
<1>7. CounterBalanced'
  <2>1. CASE pc[t] = "drop"
    <3>1. ~Owned' /\ ~Surplus' /\ waiters = << >> /\ locks' = locks - 1
      BY <1>1, <1>2, <1>6, <2>1 DEF UnlockStore, StaysInPlace, OwningPoints, SurplusPoints,
         IndInv, RegisterExact
    <3>2. Owned /\ ~Surplus
      BY <1>2, <2>1 DEF StaysInPlace, OwningPoints, SurplusPoints
    <3>3. QED
      BY <1>1, <3>1, <3>2 DEF IndInv, CounterBalanced, One, TypeOK
  <2>2. CASE pc[t] = "settle"
    <3>1. (Owned' <=> Owned) /\ ~Surplus' /\ Surplus /\ locks' = locks - 1
      BY <1>2, <2>2 DEF UnlockStore, StaysInPlace, OwningPoints, SurplusPoints,
         IndInv, RegisterExact
    <3>2. QED
      BY <1>1, <3>1 DEF IndInv, CounterBalanced, One, TypeOK
  <2>3. QED
    BY <2>1, <2>2 DEF UnlockStore, Goto
<1>8. RegisterExact'
  BY <1>1, <1>2 DEF StaysInPlace, RegisterExact
<1>9. QED
  BY <1>1, <1>2, <1>4, <1>5, <1>7, <1>8 DEF IndInv, StaysInPlace


-----------------------------------------------------------------------------
\* The branches that only a more urgent task could open are closed.
LEMMA ClosedBranches ==
  ASSUME IndInv, NEW t \in Tasks
  PROVE  ~ObtainInvalid(t) /\ (Obtain(t) => count = 0) /\ ~UnlockReleaseInvalid(t)
BY DEF IndInv, CallsInTime, MidCall, Goto, ObtainInvalid, Obtain, UnlockReleaseInvalid

\* A created mutex is free, its counter 0.
LEMMA CreateMutexPreserves ==
  ASSUME OnePriority, NucleusAssumption, IndInv, NEW t \in Tasks, CreateMutex(t)
  PROVE  IndInv'
<1>1. /\ cpu' \in [Levels -> Tasks \cup {NoTask}]
      /\ pc' = pc /\ \A u \in Tasks : pc[u] = "idle"
      /\ waiters' = << >> /\ locks' = 0 /\ count' = 0 /\ used' = TRUE
      /\ reg' = reg /\ ready' = ready
  <2>1. pc' = pc
    BY DEF CreateMutex, Goto, IndInv, TypeOK
  <2>2. QED
    BY <2>1, OccupyType DEF CreateMutex, Goto, IndInv, TypeOK
<1>2. TypeOK'
  BY <1>1, EmptySeq DEF IndInv, TypeOK
<1>3. Len(waiters') = 0 /\ ~Owned' /\ ~Surplus'
  BY <1>1, EmptySeq DEF Owned, Owns, OwningPoints, Surplus, SurplusPoints
<1>4. MutualExclusion' /\ CallerRuns' /\ WaitersHaveOwner' /\ CallsInTime' /\ RegisterExact'
  BY <1>1 DEF MutualExclusion, Owns, OwningPoints, CallerRuns, WaitersHaveOwner, CallsInTime,
     RegisterExact, MidCall
<1>5. QueueExact'
  BY <1>1, <1>3 DEF QueueExact
<1>6. QED
  BY <1>1, <1>2, <1>3, <1>4, <1>5 DEF IndInv, CounterBalanced, One

\* Destroying leaves no waiter and nobody inside a call but the refused.
LEMMA DestroyMutexPreserves ==
  ASSUME OnePriority, NucleusAssumption, IndInv, NEW t \in Tasks, DestroyMutex(t)
  PROVE  IndInv'
<1>1. /\ \A u \in Tasks : pc[u] \in {"idle", "critical", "suspended"}
      /\ \A u \in Tasks : pc'[u] = IF pc[u] = "suspended" THEN "refused" ELSE pc[u]
  <2>1. \A u \in Tasks : pc[u] \notin {"refused", "give_up"}
    BY DEF DestroyMutex, IndInv, CallsInTime
  <2>2. \A u \in Tasks \ {t} : pc[u] \notin MidCall \ {"refused"}
    BY RunsAlone DEF DestroyMutex, IndInv
  <2>3. QED
    BY <2>1, <2>2 DEF DestroyMutex, IndInv, TypeOK, Points, MidCall
<1>2. TypeOK'
  <2>1. cpu' \in [Levels -> Tasks \cup {NoTask}]
    BY OccupyType DEF DestroyMutex, IndInv, TypeOK
  <2>2. pc' \in [Tasks -> Points]
    BY DEF DestroyMutex, IndInv, TypeOK, Points, MidCall
  <2>3. ready' \in SUBSET Tasks
    BY ElementOfSeq, LenProperties DEF DestroyMutex, IndInv, TypeOK
  <2>4. QED
    BY <2>1, <2>2, <2>3, EmptySeq DEF DestroyMutex, IndInv, TypeOK
<1>3. MutualExclusion' /\ CallsInTime' /\ RegisterExact' /\ CallerRuns'
  BY <1>1 DEF DestroyMutex, IndInv, MutualExclusion, Owns, OwningPoints, CallsInTime,
     RegisterExact, CallerRuns, MidCall
<1>4. QueueExact'
  BY <1>1, EmptySeq DEF DestroyMutex, QueueExact
<1>5. QED
  BY <1>2, <1>3, <1>4 DEF DestroyMutex, IndInv, WaitersHaveOwner, CounterBalanced

\* Steps that only dispatch: mutex, points and registers stay.
LEMMA DispatchPreserves ==
  ASSUME IndInv, UNCHANGED <<used, locks, count, waiters, pc, reg>>, TypeOK', CallerRuns'
  PROVE  IndInv'
<1> USE DEF IndInv
<1>1. MutualExclusion' /\ Owned' = Owned /\ Surplus' = Surplus
  BY DEF MutualExclusion, Owns, Owned, Surplus
<1>2. QueueExact'
  BY DEF QueueExact
<1>3. WaitersHaveOwner' /\ CounterBalanced'
  BY <1>1 DEF WaitersHaveOwner, CounterBalanced
<1>4. CallsInTime'
  BY DEF CallsInTime
<1>5. RegisterExact'
  BY <1>1 DEF RegisterExact
<1>6. QED
  BY <1>1, <1>2, <1>3, <1>4, <1>5

\* A client may sleep between calls and inside its critical section.
LEMMA SleepPreserves ==
  ASSUME OnePriority, NucleusAssumption, IndInv, NEW t \in Tasks, Sleep(t)
  PROVE  IndInv'
<1>1. TypeOK'
  BY OccupyType, Zenon DEF Sleep, mutexVars, IndInv, TypeOK
<1>2. CallerRuns'
  <2>1. \A u \in Tasks : pc'[u] \notin MidCall \ {"refused"}
    BY RunsAlone DEF MidCall, Sleep, IndInv
  <2>2. QED
    BY <2>1 DEF CallerRuns
<1>3. QED
  BY <1>1, <1>2, DispatchPreserves DEF Sleep, mutexVars

\* The end of a sleep makes a task ready and no more.
LEMMA WakeUpPreserves ==
  ASSUME IndInv, NEW t \in Tasks, WakeUp(t)
  PROVE  IndInv'
<1>1. TypeOK' /\ CallerRuns'
  BY Zenon DEF WakeUp, mutexVars, IndInv, TypeOK, CallerRuns
<1>2. QED
  BY <1>1, DispatchPreserves DEF WakeUp, mutexVars

\* Suspending turns the caller's surplus into a waiter.
LEMMA ObtainPreserves ==
  ASSUME OnePriority, NucleusAssumption, IndInv, NEW t \in Tasks, Obtain(t)
  PROVE  IndInv'
<1> USE DEF IndInv
<1>0. ~(count > 0)
  OBVIOUS
<1>1. /\ waiters' = Append(waiters, t)
      /\ waiters' \in Seq(Tasks)
      /\ Len(waiters') = Len(waiters) + 1
      /\ \A i \in 1..Len(waiters) : waiters'[i] = waiters[i]
      /\ waiters'[Len(waiters) + 1] = t
  <2>1. waiters \in Seq(Tasks) /\ waiters' = Enqueue(waiters, t)
    BY DEF Obtain, TypeOK
  <2>2. waiters' = Append(waiters, t)
    BY <2>1, EnqueueAppends
  <2>3. QED
    BY <2>1, <2>2, AppendProperties
<1>2. /\ \A u \in Tasks : pc'[u] = IF u = t THEN "suspended" ELSE pc[u]
      /\ pc[t] = "obtain"
      /\ \A u \in Tasks \ {t} : pc[u] \in {"idle", "critical", "suspended", "refused"}
  <2>1. \A u \in Tasks \ {t} : pc[u] \notin MidCall \ {"refused"}
    BY RunsAlone DEF Obtain
  <2>2. QED
    BY <2>1 DEF Obtain, TypeOK, Points, MidCall
<1>3. TypeOK'
  <2>1. pc' \in [Tasks -> Points]
    BY DEF Obtain, TypeOK, Points
  <2>2. QED
    <3>1. /\ used' = used /\ locks' = locks /\ count' = count /\ reg' = reg
          /\ ready' = ready \ {t} /\ cpu' = GiveUp(t, cpu)
      BY <1>0 DEF Obtain
    <3>2. QED
      BY <1>1, <2>1, <3>1, OccupyType, Zenon DEF TypeOK
<1>4. /\ MutualExclusion' /\ CallerRuns' /\ CallsInTime' /\ RegisterExact'
      /\ (Owned' <=> Owned) /\ Surplus /\ ~Surplus'
  BY <1>2 DEF Obtain, MutualExclusion, Owns, OwningPoints, CallerRuns, CallsInTime,
     RegisterExact, Owned, Surplus, SurplusPoints, MidCall
<1>5. QueueExact'
  <2>1. \A i \in 1..Len(waiters') : i \in 1..Len(waiters) \/ i = Len(waiters) + 1
    BY <1>1, LenProperties DEF TypeOK
  <2>2. \A i \in 1..Len(waiters) : waiters[i] \in Tasks \ {t}
    BY <1>2, ElementOfSeq DEF TypeOK, QueueExact
  <2>3. \A i \in 1..Len(waiters') : pc'[waiters'[i]] = "suspended"
    BY <1>1, <1>2, <2>1, <2>2 DEF QueueExact
  <2>4. ASSUME NEW i \in 1..Len(waiters'), NEW j \in 1..Len(waiters'), waiters'[i] = waiters'[j]
        PROVE  i = j
    <3>1. CASE i \in 1..Len(waiters) /\ j \in 1..Len(waiters)
      <4>1. waiters[i] = waiters[j]
        BY <1>1, <2>4, <3>1
      <4>2. QED
        BY <3>1, <4>1 DEF QueueExact
    <3>2. CASE i = Len(waiters) + 1 \/ j = Len(waiters) + 1
      BY <1>1, <2>1, <2>2, <2>4, <3>2
    <3>3. QED
      BY <2>1, <3>1, <3>2
  <2>5. ASSUME NEW u \in Tasks, pc'[u] = "suspended"
        PROVE  \E i \in 1..Len(waiters') : waiters'[i] = u
    <3>1. CASE u = t
      BY <1>1, <3>1, LenProperties DEF TypeOK
    <3>2. CASE u # t
      <4>1. PICK i \in 1..Len(waiters) : waiters[i] = u
        BY <1>2, <2>5, <3>2 DEF QueueExact
      <4>2. i \in 1..Len(waiters') /\ waiters'[i] = u
        BY <1>1, <4>1, LenProperties DEF TypeOK
      <4>3. QED
        BY <4>2
    <3>3. QED
      BY <3>1, <3>2
  <2>6. QED
    BY <2>3, <2>4, <2>5 DEF QueueExact
<1>6. Owned
  BY <1>2 DEF RegisterExact
<1>7. WaitersHaveOwner' /\ CounterBalanced'
  BY <1>1, <1>4, <1>6, LenProperties DEF Obtain, WaitersHaveOwner, CounterBalanced, One,
     TypeOK
<1>8. QED
  BY <1>1, <1>3, <1>4, <1>5, <1>7 DEF Obtain

\* The hand-over: the waiter becomes owner, the former owner the surplus.
LEMMA UnlockReleasePreserves ==
  ASSUME OnePriority, NucleusAssumption, IndInv, NEW t \in Tasks, UnlockRelease(t)
  PROVE  IndInv'
<1> DEFINE w == Head(waiters)
<1> USE DEF IndInv
<1>1. /\ waiters # << >>
      /\ waiters' = Tail(waiters)
      /\ waiters' \in Seq(Tasks)
      /\ Len(waiters) \in Nat \ {0}
      /\ Len(waiters') = Len(waiters) - 1
      /\ \A i \in 1..Len(waiters') : waiters'[i] = waiters[i + 1]
      /\ w = waiters[1] /\ w \in Tasks
  <2>1. waiters # << >>
    BY DEF UnlockRelease, RegisterExact
  <2>2. waiters \in Seq(Tasks) /\ waiters' = Tail(waiters)
    BY <2>1 DEF UnlockRelease, TypeOK
  <2>3. Len(waiters) \in Nat \ {0}
    BY <2>1, <2>2, EmptySeq
  <2>4. QED
    BY <2>1, <2>2, <2>3, HeadTailProperties
<1>2. /\ pc[w] = "suspended" /\ pc[t] = "release" /\ w # t
      /\ pc'[t] = "reload" /\ pc'[w] = "critical"
      /\ \A u \in Tasks \ {t, w} :
           pc'[u] = pc[u] /\ pc[u] \in {"idle", "critical", "suspended", "refused"}
  <2>1. \A u \in Tasks \ {t} : pc[u] \notin MidCall \ {"refused"}
    BY RunsAlone DEF UnlockRelease
  <2>2. pc[w] = "suspended" /\ pc[t] = "release"
    BY <1>1 DEF UnlockRelease, QueueExact
  <2>3. QED
    BY <1>1, <2>1, <2>2 DEF UnlockRelease, TypeOK, Points, MidCall
<1>3. TypeOK'
  <2>1. pc' \in [Tasks -> Points]
    <3>1. pc' = [pc EXCEPT ![t] = "reload", ![w] = "critical"]
      BY <1>1 DEF UnlockRelease
    <3>2. pc \in [Tasks -> Points] /\ "reload" \in Points /\ "critical" \in Points
      BY DEF TypeOK, Points, MidCall
    <3> HIDE DEF w
    <3>3. QED
      BY <3>1, <3>2
  <2>2. ready' \in SUBSET Tasks
    BY <1>1 DEF UnlockRelease, TypeOK
  <2>3. cpu' \in [Levels -> Tasks \cup {NoTask}]
    BY OccupyType DEF UnlockRelease, TypeOK
  <2>4. count' = count
    BY <1>1 DEF UnlockRelease
  <2>5. QED
    BY <1>1, <2>1, <2>2, <2>3, <2>4, Zenon DEF UnlockRelease, TypeOK
<1>4. \A u \in Tasks \ {t} : ~Owns(u)
  BY <1>2 DEF MutualExclusion, Owns, OwningPoints
<1>5. /\ MutualExclusion' /\ CallsInTime' /\ RegisterExact'
      /\ Owned /\ Owned' /\ ~Surplus /\ Surplus'
  <2>1. used' = used /\ reg' = reg /\ locks' = locks
    BY DEF UnlockRelease
  <2> HIDE DEF w
  <2>2. \A u \in Tasks : Owns(u)' <=> u = w
    BY <1>1, <1>2, <1>4 DEF Owns, OwningPoints
  <2>3. MutualExclusion' /\ Owned /\ Owned'
    BY <1>1, <1>2, <2>2 DEF MutualExclusion, Owned, Owns, OwningPoints
  <2>4. ~Surplus /\ Surplus'
    BY <1>1, <1>2 DEF Surplus, SurplusPoints
  <2>5. CallsInTime'
    BY <1>1, <1>2, <2>1 DEF CallsInTime, MidCall
  <2>6. RegisterExact'
    BY <1>1, <1>2, <1>4, <2>1, <2>3 DEF RegisterExact, Owned, Owns, OwningPoints
  <2>7. QED
    BY <2>3, <2>4, <2>5, <2>6
<1>6. CallerRuns'
  <2>1. cpu'[Prio[t]] = t
    BY OccupyType DEF UnlockRelease, TypeOK
  <2>2. QED
    BY <1>2, <2>1 DEF CallerRuns, MidCall
<1>7. QueueExact'
  <2>1. \A i \in 1..Len(waiters') : i + 1 \in 1..Len(waiters)
    BY <1>1
  <2>2. \A i \in 1..Len(waiters') : waiters[i + 1] \in Tasks \ {t, w}
    <3>1. TAKE i \in 1..Len(waiters')
    <3>2. i + 1 \in 1..Len(waiters) /\ i + 1 # 1 /\ 1 \in 1..Len(waiters)
      BY <1>1
    <3>3. waiters[i + 1] # w
      BY <1>1, <3>2 DEF QueueExact
    <3>4. waiters[i + 1] \in Tasks /\ pc[waiters[i + 1]] = "suspended"
      BY <3>2, ElementOfSeq DEF TypeOK, QueueExact
    <3>5. QED
      BY <1>2, <3>3, <3>4
  <2>3. \A i \in 1..Len(waiters') : pc'[waiters'[i]] = "suspended"
    BY <1>1, <1>2, <2>1, <2>2 DEF QueueExact
  <2>4. \A i, j \in 1..Len(waiters') : waiters'[i] = waiters'[j] => i = j
    <3>1. TAKE i, j \in 1..Len(waiters')
    <3>2. waiters[i + 1] = waiters[j + 1] => i + 1 = j + 1
      BY <2>1 DEF QueueExact
    <3>3. QED
      BY <1>1, <3>2
  <2>5. ASSUME NEW u \in Tasks, pc'[u] = "suspended"
        PROVE  \E i \in 1..Len(waiters') : waiters'[i] = u
    <3>1. u # t /\ u # w /\ pc[u] = "suspended"
      BY <1>2, <2>5
    <3>2. PICK j \in 1..Len(waiters) : waiters[j] = u
      BY <3>1 DEF QueueExact
    <3>3. j - 1 \in 1..Len(waiters') /\ (j - 1) + 1 = j
      BY <1>1, <3>1, <3>2
    <3>4. waiters'[j - 1] = u
      BY <1>1, <3>2, <3>3
    <3>5. QED
      BY <3>3, <3>4
  <2>6. QED
    BY <2>3, <2>4, <2>5 DEF QueueExact
<1>8. WaitersHaveOwner' /\ CounterBalanced'
  BY <1>1, <1>5 DEF UnlockRelease, WaitersHaveOwner, CounterBalanced, One, TypeOK
<1>9. QED
  BY <1>1, <1>3, <1>5, <1>6, <1>7, <1>8 DEF UnlockRelease

-----------------------------------------------------------------------------
\* Every step of the mutex preserves the inductive invariant.
LEMMA NextPreserves ==
  ASSUME OnePriority, NucleusAssumption, IndInv, [Next]_vars
  PROVE  IndInv'
<1>1. ASSUME NEW t \in Tasks, Continue(t)
      PROVE  IndInv'
  BY <1>1, ClosedBranches, LockReadPreserves, TryReadPreserves, LockTakePreserves,
     LockCountPreserves, ObtainPreserves, RefusedLoadPreserves, RefusedStorePreserves,
     UnlockReadPreserves, UnlockReleasePreserves, UnlockReloadPreserves, UnlockStorePreserves
     DEF Continue
<1>2. ASSUME NEW t \in Tasks,
             CallLock(t) \/ CallTryLock(t) \/ CallUnlock(t)
      PROVE  IndInv'
  BY <1>2, CallLockPreserves, CallTryLockPreserves, CallUnlockPreserves
<1>3. ASSUME NEW t \in Tasks,
             CreateMutex(t) \/ DestroyMutex(t) \/ Sleep(t) \/ WakeUp(t)
      PROVE  IndInv'
  BY <1>3, CreateMutexPreserves, DestroyMutexPreserves, SleepPreserves, WakeUpPreserves
<1>4. CASE UNCHANGED vars
  <2>1. TypeOK' /\ CallerRuns'
    BY <1>4, Zenon DEF vars, IndInv, TypeOK, CallerRuns
  <2>2. QED
    BY <1>4, <2>1, DispatchPreserves DEF vars
<1>5. QED
  BY <1>1, <1>2, <1>3, <1>4 DEF Next

\* The inductive invariant holds for ever.
LEMMA IndInvInvariant == ASSUME OnePriority PROVE Spec => []IndInv
<1>1. Init => IndInv
  BY InitEstablishes, NucleusAssumption
<1>2. IndInv /\ [Next]_vars => IndInv'
  BY NextPreserves, NucleusAssumption
<1>3. QED
  BY <1>1, <1>2, PTL DEF Spec

\* Among tasks of one priority, however many, every variable of the mutex
\* keeps its type: the semaphore count never goes below zero.
THEOREM TypeCorrect == ASSUME OnePriority PROVE Spec => []TypeOK
<1>1. IndInv => TypeOK
  BY DEF IndInv
<1>2. QED
  BY <1>1, IndInvInvariant, PTL

\* Among tasks of one priority lockMutex and tryLockMutex admit one task at a
\* time, although no step of theirs is atomic.
THEOREM MutexExcludes == ASSUME OnePriority PROVE Spec => []MutualExclusion
<1>1. IndInv => MutualExclusion
  BY DEF IndInv
<1>2. QED
  BY <1>1, IndInvInvariant, PTL

\* ... and between calls the counter is exact, so that unlockMutex wakes a
\* waiter whenever there is one.
THEOREM CounterIsExact == ASSUME OnePriority PROVE Spec => []CounterExact
<1>1. ASSUME IndInv, used, \A t \in Tasks : pc[t] \notin MidCall
      PROVE  locks = Len(waiters) + (IF \E t \in Tasks : Owns(t) THEN 1 ELSE 0)
  <2>1. ~Surplus
    BY <1>1 DEF Surplus, SurplusPoints, MidCall
  <2>2. QED
    BY <1>1, <2>1, LenProperties DEF IndInv, CounterBalanced, Owned, One, TypeOK
<1>2. IndInv => CounterExact
  BY <1>1 DEF CounterExact
<1>3. QED
  BY <1>2, IndInvInvariant, PTL

-----------------------------------------------------------------------------
Holders == {t \in Tasks : Owns(t)}

\* A step in place changes at most the ownership of the task that takes it.
LEMMA HoldersInPlace ==
  ASSUME OnePriority, NucleusAssumption, IndInv, NEW t \in Tasks,
         NEW from \in Points \ {"suspended"}, NEW to \in Points \ {"suspended"},
         Goto(t, from, to), UNCHANGED <<waiters, ready>>
  PROVE  Holders' = (Holders \ {t}) \cup (IF to \in OwningPoints THEN {t} ELSE {})
<1>1. pc'[t] = to /\ \A u \in Tasks \ {t} : pc'[u] = pc[u]
  BY StepInPlace DEF StaysInPlace
<1>2. QED
  BY <1>1 DEF Holders, Owns

\* ... and none when it enters or leaves no owning point.
LEMMA QuietInPlace ==
  ASSUME OnePriority, NucleusAssumption, IndInv, NEW t \in Tasks,
         NEW from \in Points \ {"suspended"}, NEW to \in Points \ {"suspended"},
         Goto(t, from, to), UNCHANGED <<waiters, ready>>,
         from \in OwningPoints <=> to \in OwningPoints
  PROVE  UNCHANGED <<Holders, waiters>>
<1>1. pc[t] = from
  BY DEF Goto
<1>2. t \in Holders <=> from \in OwningPoints
  BY <1>1 DEF Holders, Owns
<1>3. QED
  BY <1>2, HoldersInPlace

\* The steps that change neither who owns the mutex nor who waits.
LEMMA QuietSteps ==
  ASSUME OnePriority, NucleusAssumption, IndInv, NEW t \in Tasks,
         \/ LockRead(t) \/ TryRead(t) \/ LockCount(t) \/ RefusedLoad(t) \/ RefusedStore(t)
         \/ UnlockRead(t) \/ UnlockReload(t) \/ CallLock(t) \/ CallTryLock(t)
         \/ CreateMutex(t)
  PROVE  UNCHANGED <<Holders, waiters>>
<1>1. PICK from \in Points \ {"suspended"}, to \in Points \ {"suspended"} :
        Goto(t, from, to) /\ (from \in OwningPoints <=> to \in OwningPoints)
  BY DEF LockRead, TryRead, LockCount, RefusedLoad, RefusedStore, UnlockRead, UnlockReload,
     CallLock, CallTryLock, Call, CreateMutex, Points, MidCall, OwningPoints
<1>2. UNCHANGED <<waiters, ready>>
  BY DEF LockRead, TryRead, LockCount, RefusedLoad, RefusedStore, UnlockRead, UnlockReload,
     CallLock, CallTryLock, Call, CreateMutex, mutexVars
<1>3. QED
  BY <1>1, <1>2, QuietInPlace

\* A mutex shared by tasks of one priority is a FIFO lock: it is taken only
\* when free with nobody waiting, handed to the oldest waiter, and freed only
\* when there is none.
THEOREM MutexImplementsLock == ASSUME OnePriority PROVE Spec => ImplementsLock
<1> USE NucleusAssumption
<1>1. Init => Lock!Init
  BY DEF Init, Lock!Init, Owns, OwningPoints
<1>2. ASSUME IndInv, [Next]_vars
      PROVE  [Lock!Next]_(Lock!vars)
  <2> USE <1>2
  <2> SUFFICES Lock!Next \/ UNCHANGED <<Holders, waiters>>
    BY DEF Lock!vars, Holders
  <2>1. CASE \E t \in Tasks :
               \/ LockRead(t) \/ TryRead(t) \/ LockCount(t) \/ RefusedLoad(t)
               \/ RefusedStore(t) \/ UnlockRead(t) \/ UnlockReload(t) \/ CallLock(t)
               \/ CallTryLock(t) \/ CreateMutex(t)
    BY <2>1, QuietSteps
  <2>2. CASE \E t \in Tasks : Sleep(t) \/ WakeUp(t)
    BY <2>2 DEF Sleep, WakeUp, mutexVars, Holders, Owns
  <2>3. CASE UNCHANGED vars
    BY <2>3 DEF vars, Holders, Owns
  <2>4. ASSUME NEW t \in Tasks, LockTake(t)
        PROVE  Lock!Next
    <3>1. waiters = << >> /\ Holders = {}
      <4>1. used /\ locks = 0
        BY <2>4 DEF LockTake, Goto, IndInv, RegisterExact, CallsInTime, MidCall
      <4>2. waiters \in Seq(Tasks) /\ Len(waiters) \in Nat
        BY LenProperties DEF IndInv, TypeOK
      <4>3. locks = Len(waiters) + One(Owned) + One(Surplus)
        BY <4>1 DEF IndInv, CounterBalanced
      <4>4. One(Owned) \in Nat /\ One(Surplus) \in Nat
        BY DEF One
      <4>5. Len(waiters) = 0 /\ One(Owned) = 0
        BY <4>1, <4>2, <4>3, <4>4
      <4>6. ~Owned
        BY <4>5 DEF One
      <4>7. QED
        BY <4>2, <4>5, <4>6, EmptySeq DEF Owned, Holders
    <3>2. Holders' = {t} /\ waiters' = waiters
      BY <2>4, <3>1, HoldersInPlace DEF LockTake, Points, MidCall, OwningPoints
    <3>3. QED
      BY <3>1, <3>2 DEF Lock!Next, Lock!Acquire, Holders
  <2>5. ASSUME NEW t \in Tasks, Obtain(t)
        PROVE  Lock!Next
    <3>1. Holders # {} /\ Holders' = Holders
      BY <2>5, ClosedBranches DEF Obtain, IndInv, RegisterExact, Owned, Holders, Owns,
         OwningPoints, TypeOK
    <3>2. waiters' = Enqueue(waiters, t)
      BY <2>5, ClosedBranches DEF Obtain
    <3>3. QED
      BY <3>1, <3>2 DEF Lock!Next, Lock!Wait, Lock!Enqueue, Lock!Behind, Enqueue, Behind,
         Holders
  <2>6. ASSUME NEW t \in Tasks, UnlockRelease(t)
        PROVE  Lock!Next
    <3> DEFINE w == Head(waiters)
    <3>1. waiters # << >> /\ waiters' = Tail(waiters)
      BY <2>6 DEF UnlockRelease, IndInv, RegisterExact
    <3>2. t \in Holders /\ Holders = {t}
      BY <2>6 DEF UnlockRelease, IndInv, MutualExclusion, Holders, Owns, OwningPoints
    <3>3. w \in Tasks /\ pc[w] = "suspended"
      BY <3>1, EmptySeq, HeadTailProperties DEF IndInv, TypeOK, QueueExact
    <3>4. \A u \in Tasks : Owns(u)' <=> u = w
      BY <2>6, <3>1, <3>2, <3>3 DEF UnlockRelease, IndInv, TypeOK, Holders, Owns, OwningPoints
    <3>5. Holders' = {w}
      BY <3>3, <3>4 DEF Holders
    <3>6. QED
      BY <3>1, <3>2, <3>5 DEF Lock!Next, Lock!HandOver, Holders
  <2>7. ASSUME NEW t \in Tasks, UnlockStore(t)
        PROVE  Lock!Next \/ UNCHANGED <<Holders, waiters>>
    <3>1. CASE Goto(t, "settle", "idle")
      BY <2>7, <3>1, QuietInPlace DEF UnlockStore, Points, MidCall, OwningPoints
    <3>2. CASE Goto(t, "drop", "idle")
      <4>1. waiters = << >> /\ Holders = {t}
        BY <3>2 DEF Goto, IndInv, RegisterExact, MutualExclusion, Holders, Owns, OwningPoints
      <4>2. Holders' = {} /\ waiters' = waiters
        BY <2>7, <3>2, <4>1, HoldersInPlace DEF UnlockStore, Points, MidCall, OwningPoints
      <4>3. QED
        BY <4>1, <4>2 DEF Lock!Next, Lock!Free, Holders
    <3>3. QED
      BY <2>7, <3>1, <3>2 DEF UnlockStore
  <2>8. ASSUME NEW t \in Tasks, CallUnlock(t)
        PROVE  Lock!Next \/ UNCHANGED <<Holders, waiters>>
    <3>1. CASE used
      BY <2>8, <3>1, QuietInPlace DEF CallUnlock, mutexVars, Points, MidCall, OwningPoints
    <3>2. CASE ~used
      <4>1. waiters = << >> /\ Holders = {t}
        BY <2>8, <3>2 DEF CallUnlock, Goto, IndInv, MutualExclusion, Holders, Owns, OwningPoints
      <4>2. Goto(t, "critical", "idle") /\ UNCHANGED <<waiters, ready>>
        BY <2>8, <3>2 DEF CallUnlock, mutexVars
      <4>3. Holders' = {}
        BY <4>1, <4>2, HoldersInPlace DEF Points, MidCall, OwningPoints
      <4>4. QED
        BY <4>1, <4>2, <4>3 DEF Lock!Next, Lock!Free, Holders
    <3>3. QED
      BY <3>1, <3>2
  <2>9. ASSUME NEW t \in Tasks, DestroyMutex(t)
        PROVE  Lock!Next
    <3>1. waiters' = << >> /\ Holders' = Holders
      BY <2>9 DEF DestroyMutex, Holders, Owns, OwningPoints
    <3>2. QED
      BY <3>1 DEF Lock!Next, Lock!Dismiss, Holders
  <2>10. QED
    BY <2>1, <2>2, <2>3, <2>4, <2>5, <2>6, <2>7, <2>8, <2>9, ClosedBranches DEF Next, Continue
<1>3. QED
  BY <1>1, <1>2, IndInvInvariant, PTL DEF Spec, ImplementsLock, Lock!Spec
-----------------------------------------------------------------------------
(***************************************************************************)
(* Tasks of any priorities: the semaphore's queue stays in the kernel's    *)
(* order, whoever is in it is suspended, and a destroyed mutex leaves      *)
(* nobody there.                                                           *)
(***************************************************************************)

\* Who is in the queue of the semaphore is suspended, once.
QueueSuspended ==
  /\ \A i \in 1..Len(waiters) : pc[waiters[i]] = "suspended"
  /\ \A i, j \in 1..Len(waiters) : waiters[i] = waiters[j] => i = j

QueueInv ==
  /\ pc \in [Tasks -> Points]
  /\ waiters \in Seq(Tasks)
  /\ Ordered(waiters)
  /\ QueueSuspended
  /\ DestroyDismisses

-----------------------------------------------------------------------------
\* Where the queue is not touched, whoever is in it stays suspended.
LEMMA QueueUntouched ==
  ASSUME QueueInv, NEW t \in Tasks, UNCHANGED waiters, used => used',
         NEW from \in Points \ {"suspended"}, NEW to \in Points \ {"suspended"},
         Goto(t, from, to)
  PROVE  QueueInv'
<1>1. pc' \in [Tasks -> Points]
  BY DEF QueueInv, Goto
<1>2. \A i \in 1..Len(waiters) : waiters[i] \in Tasks
  BY ElementOfSeq DEF QueueInv
<1>3. QueueSuspended'
  BY <1>2 DEF QueueInv, QueueSuspended, Goto
<1>4. QED
  BY <1>1, <1>3 DEF QueueInv, Goto, DestroyDismisses, Ordered

\* A task that suspends takes its place in the queue of a live mutex.
LEMMA ObtainKeepsQueue ==
  ASSUME NucleusAssumption, QueueInv, NEW t \in Tasks, Obtain(t), ~(count > 0)
  PROVE  QueueInv'
<1>1. /\ waiters' = Enqueue(waiters, t) /\ pc' = [pc EXCEPT ![t] = "suspended"]
      /\ pc[t] = "obtain" /\ used'
  BY DEF Obtain
<1>2. \A i \in 1..Len(waiters) : waiters[i] \in Tasks /\ waiters[i] # t
  BY <1>1, ElementOfSeq DEF QueueInv, QueueSuspended
<1>3. Distinct(waiters)
  BY DEF QueueInv, QueueSuspended, Distinct
<1>4. /\ waiters' \in Seq(Tasks) /\ Ordered(waiters') /\ Distinct(waiters')
      /\ \A i \in 1..Len(waiters') :
           waiters'[i] = t \/ \E k \in 1..Len(waiters) : waiters'[i] = waiters[k]
  BY <1>1, <1>2, <1>3, EnqueueKeeps DEF QueueInv
<1>5. \A i \in 1..Len(waiters') : pc'[waiters'[i]] = "suspended"
  BY <1>1, <1>2, <1>4 DEF QueueInv, QueueSuspended
<1>6. pc' \in [Tasks -> Points]
  BY <1>1 DEF QueueInv, Points
<1>7. QED
  BY <1>1, <1>4, <1>5, <1>6 DEF QueueInv, QueueSuspended, Distinct, Ordered, DestroyDismisses

\* The first waiter leaves the queue as it is resumed.
LEMMA UnlockReleaseKeepsQueue ==
  ASSUME QueueInv, NEW t \in Tasks, UnlockRelease(t)
  PROVE  QueueInv'
<1>1. CASE waiters = << >>
  <2>1. waiters' = waiters /\ pc' = [pc EXCEPT ![t] = "reload"] /\ used' = used /\ used
    BY <1>1 DEF UnlockRelease
  <2>2. Len(waiters) = 0
    BY <1>1
  <2>3. QED
    BY <2>1, <2>2 DEF QueueInv, QueueSuspended, Ordered, DestroyDismisses, Points, MidCall
<1>2. CASE waiters # << >>
  <2>1. /\ waiters' = Tail(waiters) /\ used' /\ pc[t] = "release"
        /\ pc' = [pc EXCEPT ![t] = "reload", ![Head(waiters)] = "critical"]
    BY <1>2 DEF UnlockRelease
  <2>2. Distinct(waiters)
    BY DEF QueueInv, QueueSuspended, Distinct
  <2>3. /\ waiters' \in Seq(Tasks) /\ Ordered(waiters') /\ Distinct(waiters')
        /\ \A i \in 1..Len(waiters') :
             /\ i + 1 \in 1..Len(waiters) /\ waiters'[i] = waiters[i + 1]
             /\ waiters'[i] # Head(waiters)
    BY <1>2, <2>1, <2>2, TailKeeps DEF QueueInv
  <2>4. ASSUME NEW i \in 1..Len(waiters')
        PROVE  pc'[waiters'[i]] = "suspended"
    <3>1. waiters'[i] \in Tasks /\ pc[waiters'[i]] = "suspended" /\ waiters'[i] # Head(waiters)
      BY <2>3, ElementOfSeq DEF QueueInv, QueueSuspended
    <3>2. QED
      BY <2>1, <3>1 DEF QueueInv
  <2>5. pc' \in [Tasks -> Points]
    BY <2>1 DEF QueueInv, Points, MidCall
  <2>6. QED
    BY <2>1, <2>3, <2>4, <2>5 DEF QueueInv, QueueSuspended, Distinct, Ordered, DestroyDismisses
<1>3. QED
  BY <1>1, <1>2

\* Destroying empties the queue and refuses whoever was in it.
LEMMA DestroyMutexKeepsQueue ==
  ASSUME QueueInv, NEW t \in Tasks, DestroyMutex(t)
  PROVE  QueueInv'
<1>1. waiters' = << >> /\ Len(waiters') = 0 /\ waiters' \in Seq(Tasks)
  BY DEF DestroyMutex
<1>2. pc' \in [Tasks -> Points] /\ \A u \in Tasks : pc'[u] # "suspended"
  BY DEF DestroyMutex, QueueInv, Points, MidCall
<1>3. QED
  BY <1>1, <1>2 DEF QueueInv, Ordered, QueueSuspended, DestroyDismisses

\* Every step keeps the queue.
LEMMA QueueInvStep ==
  ASSUME NucleusAssumption, QueueInv, [Next]_vars
  PROVE  QueueInv'
<1>1. CASE UNCHANGED vars
  BY <1>1 DEF vars, QueueInv, Ordered, QueueSuspended, DestroyDismisses
<1>2. ASSUME NEW t \in Tasks, CreateMutex(t)
      PROVE  QueueInv'
  BY <1>2, QueueUntouched DEF CreateMutex, Points
<1>3. ASSUME NEW t \in Tasks, CallLock(t) \/ CallTryLock(t)
      PROVE  QueueInv'
  BY <1>3, QueueUntouched DEF CallLock, CallTryLock, Call, mutexVars, Points, MidCall
<1>4. ASSUME NEW t \in Tasks, CallUnlock(t)
      PROVE  QueueInv'
  BY <1>4, QueueUntouched DEF CallUnlock, mutexVars, Points, MidCall
<1>5. ASSUME NEW t \in Tasks, LockRead(t) \/ TryRead(t)
      PROVE  QueueInv'
  BY <1>5, QueueUntouched DEF LockRead, TryRead, mutexVars, Points, MidCall
<1>6. ASSUME NEW t \in Tasks, LockTake(t) \/ LockCount(t)
      PROVE  QueueInv'
  BY <1>6, QueueUntouched DEF LockTake, LockCount, Points, MidCall
<1>7. ASSUME NEW t \in Tasks, ObtainInvalid(t) \/ (Obtain(t) /\ count > 0)
      PROVE  QueueInv'
  BY <1>7, QueueUntouched DEF ObtainInvalid, Obtain, Goto, mutexVars, Points, MidCall
<1>8. ASSUME NEW t \in Tasks, RefusedLoad(t) \/ RefusedStore(t)
      PROVE  QueueInv'
  BY <1>8, QueueUntouched DEF RefusedLoad, RefusedStore, mutexVars, Points, MidCall
<1>9. ASSUME NEW t \in Tasks, UnlockRead(t) \/ UnlockReleaseInvalid(t)
      PROVE  QueueInv'
  BY <1>9, QueueUntouched DEF UnlockRead, UnlockReleaseInvalid, mutexVars, Points, MidCall
<1>10. ASSUME NEW t \in Tasks, UnlockReload(t) \/ UnlockStore(t)
       PROVE  QueueInv'
  BY <1>10, QueueUntouched DEF UnlockReload, UnlockStore, mutexVars, Points, MidCall
<1>11. ASSUME NEW t \in Tasks, Sleep(t) \/ WakeUp(t)
       PROVE  QueueInv'
  BY <1>11 DEF Sleep, WakeUp, mutexVars, QueueInv, Ordered, QueueSuspended, DestroyDismisses
<1>12. QED
  BY <1>1, <1>2, <1>3, <1>4, <1>5, <1>6, <1>7, <1>8, <1>9, <1>10, <1>11,
     ObtainKeepsQueue, UnlockReleaseKeepsQueue, DestroyMutexKeepsQueue DEF Next, Continue

\* Among tasks of any priorities, however far the counter has drifted: once
\* destroyMutex has returned nobody is suspended in lockMutex for ever.
THEOREM DestroyStrandsNobody == Spec => []DestroyDismisses
<1>1. Init => QueueInv
  <2> SUFFICES ASSUME Init PROVE QueueInv
    OBVIOUS
  <2>1. pc \in [Tasks -> Points] /\ waiters \in Seq(Tasks) /\ Len(waiters) = 0
    BY DEF Init, Points
  <2>2. QED
    BY <2>1 DEF Init, QueueInv, Ordered, QueueSuspended, DestroyDismisses
<1>2. QueueInv /\ [Next]_vars => QueueInv'
  BY QueueInvStep, NucleusAssumption
<1>3. QueueInv => DestroyDismisses
  BY DEF QueueInv
<1>4. QED
  BY <1>1, <1>2, <1>3, PTL DEF Spec

-----------------------------------------------------------------------------
(***************************************************************************)
(* corelist.c: s is the order in which the inodes of list l are linked.    *)
(***************************************************************************)
ListType ==
  [first : 0..MaxInodes, last : 0..MaxInodes, size : Nat,
   prev : [Inodes -> 0..MaxInodes], next : [Inodes -> 0..MaxInodes],
   self : [Inodes -> 0..MaxInodes]]

\* Following a link from an inode goes through s.
Joins(link, from, s) ==
  /\ from = IF s = << >> THEN 0 ELSE s[1]
  /\ \A i \in 1..Len(s) : link[s[i]] = IF i < Len(s) THEN s[i + 1] ELSE 0

JoinsBack(link, from, s) ==
  /\ from = IF s = << >> THEN 0 ELSE s[Len(s)]
  /\ \A i \in 1..Len(s) : link[s[i]] = IF i > 1 THEN s[i - 1] ELSE 0

Chain(l, s) ==
  /\ l \in ListType /\ s \in Seq(Inodes) /\ Distinct(s)
  /\ l.size = Len(s)
  /\ Joins(l.next, l.first, s) /\ JoinsBack(l.prev, l.last, s)

Within(s) == {s[i] : i \in 1..Len(s)}

\* A set of numbers has a least one.
LEMMA LeastOf ==
  ASSUME NEW S \in SUBSET Nat, S # {}
  PROVE  \E n \in S : \A m \in S : n <= m
<1>1. PICK n \in S : \A m \in S : ~ (<<m, n>> \in OpToRel(<, Nat))
  BY NatLessThanWellFounded, WFMin, Zenon
<1>2. ASSUME NEW m \in S PROVE n <= m
  <2>1. m \in Nat /\ n \in Nat
    OBVIOUS
  <2>2. ~ (m < n)
    BY <1>1, <2>1, Zenon DEF OpToRel
  <2>3. QED
    BY <2>1, <2>2
<1>3. QED
  BY <1>2

\* There are no more inodes in a list than the heap has.
LEMMA ListFits ==
  ASSUME MemCtlAssumption, NEW s \in Seq(Inodes), Distinct(s)
  PROVE  Len(s) <= MaxInodes
<1>1. MaxInodes \in Nat /\ Len(s) \in Nat
  BY DEF MemCtlAssumption
<1>2. s \in Injection(1..Len(s), Inodes)
  BY <1>1 DEF Distinct, Injection, IsInjective
<1>3. /\ IsFiniteSet(1..Len(s)) /\ IsFiniteSet(Inodes)
      /\ Cardinality(1..Len(s)) = Len(s) /\ Cardinality(Inodes) = MaxInodes
  <2>1. IsFiniteSet(1..Len(s)) /\ Cardinality(1..Len(s)) = IF 1 > Len(s) THEN 0 ELSE Len(s) - 1 + 1
    <3>1. 1 \in Int /\ Len(s) \in Int
      BY <1>1
    <3>2. QED
      BY <3>1, FS_Interval, Zenon
  <2>2. /\ IsFiniteSet(1..MaxInodes)
        /\ Cardinality(1..MaxInodes) = IF 1 > MaxInodes THEN 0 ELSE MaxInodes - 1 + 1
    <3>1. 1 \in Int /\ MaxInodes \in Int
      BY <1>1
    <3>2. QED
      BY <3>1, FS_Interval, Zenon
  <2>3. QED
    BY <1>1, <2>1, <2>2 DEF Inodes
<1>4. Cardinality(1..Len(s)) <= Cardinality(Inodes)
  BY <1>2, <1>3, FS_Injection
<1>5. QED
  BY <1>3, <1>4

\* A walk along links that join s meets s.
LEMMA FollowIs ==
  ASSUME MemCtlAssumption, NEW link, NEW from, NEW s \in Seq(Inodes),
         Len(s) <= MaxInodes, Joins(link, from, s)
  PROVE  Follow(link, from) = s
<1> DEFINE Way(f) == [k \in 0..MaxInodes |->
                        IF k = 0 THEN from ELSE IF f[k - 1] = 0 THEN 0 ELSE link[f[k - 1]]]
           met == CHOOSE f : f = Way(f)
           g == [k \in 0..MaxInodes |-> IF k < Len(s) THEN s[k + 1] ELSE 0]
<1>0. Len(s) \in Nat /\ MaxInodes \in Nat /\ \A i \in 1..Len(s) : s[i] \in Nat /\ s[i] # 0
  BY DEF Inodes, MemCtlAssumption
<1>1. g = Way(g)
  <2>1. ASSUME NEW k \in 0..MaxInodes
        PROVE  g[k] = IF k = 0 THEN from ELSE IF g[k - 1] = 0 THEN 0 ELSE link[g[k - 1]]
    <3>1. CASE k = 0
      BY <1>0, <3>1 DEF Joins
    <3>2. CASE k # 0
      <4>1. k - 1 \in 0..MaxInodes /\ (k - 1) + 1 = k
        BY <1>0, <3>2
      <4>2. CASE k - 1 < Len(s)
        BY <1>0, <3>2, <4>1, <4>2 DEF Joins
      <4>3. CASE ~(k - 1 < Len(s))
        BY <1>0, <3>2, <4>1, <4>3
      <4>4. QED
        BY <4>2, <4>3
    <3>3. QED
      BY <3>1, <3>2
  <2>2. QED
    BY <2>1
<1>2. met = Way(met)
  <2>1. \E f : f = Way(f)
    BY <1>1
  <2>2. QED
    BY <2>1
<1> HIDE DEF met
<1>3. \A k \in 0..MaxInodes : met[k] = g[k]
  <2> DEFINE S == {k \in 0..MaxInodes : met[k] # g[k]}
  <2> SUFFICES ASSUME S # {} PROVE FALSE
    OBVIOUS
  <2>1. PICK n \in S : \A m \in S : n <= m
    <3>1. S \in SUBSET Nat
      BY <1>0
    <3>2. QED
      BY <3>1, LeastOf
  <2>2. n \in 0..MaxInodes /\ met[n] # g[n]
    OBVIOUS
  <2>3. CASE n = 0
    BY <1>0, <1>1, <1>2, <2>2, <2>3
  <2>4. CASE n # 0
    <3>1. n - 1 \in 0..MaxInodes /\ ~(n <= n - 1)
      BY <1>0, <2>2, <2>4
    <3>2. n - 1 \notin S
      BY <2>1, <3>1
    <3>3. met[n - 1] = g[n - 1]
      BY <3>1, <3>2
    <3>4. met[n] = Way(met)[n] /\ g[n] = Way(g)[n]
      BY <1>1, <1>2
    <3>5. QED
      BY <2>2, <2>4, <3>3, <3>4
  <2>5. QED
    BY <2>3, <2>4
<1> DEFINE some == {k \in 0..MaxInodes : met[k] # 0}
<1>4. Cardinality(some) = Len(s)
  <2>1. some = 0..(Len(s) - 1)
    <3>1. \A k \in 0..MaxInodes : g[k] # 0 <=> k < Len(s)
      BY <1>0
    <3>2. some = {k \in 0..MaxInodes : k < Len(s)}
      BY <1>3, <3>1
    <3>3. QED
      BY <1>0, <3>2
  <2>2. Cardinality(0..(Len(s) - 1)) = IF 0 > Len(s) - 1 THEN 0 ELSE Len(s) - 1 - 0 + 1
    <3>1. 0 \in Int /\ Len(s) - 1 \in Int
      BY <1>0
    <3>2. QED
      BY <3>1, FS_Interval, Zenon
  <2> HIDE DEF some
  <2>3. Cardinality(0..(Len(s) - 1)) = Len(s)
    BY <1>0, <2>2
  <2>4. QED
    BY <2>1, <2>3, Zenon
<1> HIDE DEF some
<1>5. [k \in 1..Cardinality(some) |-> met[k - 1]] = s
  <2>1. \A k \in 1..Len(s) : met[k - 1] = s[k]
    BY <1>0, <1>3
  <2>2. QED
    BY <1>4, <2>1
<1>6. QED
  BY <1>5 DEF Follow, met, some

\* The walks through a list in order, forwards and backwards
LEMMA WalkIs ==
  ASSUME MemCtlAssumption, NEW l, NEW s \in Seq(Inodes), Chain(l, s)
  PROVE  corelist_foreach(l) = s /\ corelist_back_foreach(l) = Reverse(s)
<1>1. Len(s) \in Nat /\ Len(s) <= MaxInodes
  BY ListFits DEF Chain
<1>2. corelist_foreach(l) = s
  BY <1>1, FollowIs DEF Chain, corelist_foreach
<1> DEFINE r == Reverse(s)
<1>3. r \in Seq(Inodes) /\ Len(r) = Len(s) /\ \A i \in 1..Len(s) : r[i] = s[(Len(s) - i) + 1]
  <2>1. r = [i \in 1..Len(s) |-> s[(Len(s) - i) + 1]]
    BY DEF Reverse
  <2>2. \A i \in 1..Len(s) : (Len(s) - i) + 1 \in 1..Len(s)
    BY <1>1
  <2>3. QED
    BY <1>1, <2>1, <2>2
<1> HIDE DEF r
<1>4. Joins(l.prev, l.last, r)
  <2>1. l.last = IF r = << >> THEN 0 ELSE r[1]
    BY <1>1, <1>3 DEF Chain, JoinsBack
  <2>2. ASSUME NEW i \in 1..Len(r)
        PROVE  l.prev[r[i]] = IF i < Len(r) THEN r[i + 1] ELSE 0
    <3>1. /\ (Len(s) - i) + 1 \in 1..Len(s) /\ i \in 1..Len(s) /\ r[i] = s[(Len(s) - i) + 1]
          /\ ((Len(s) - i) + 1) - 1 = (Len(s) - (i + 1)) + 1
          /\ ((Len(s) - i) + 1 > 1 <=> i < Len(r))
      BY <1>1, <1>3
    <3>2. l.prev[r[i]] = IF (Len(s) - i) + 1 > 1 THEN s[((Len(s) - i) + 1) - 1] ELSE 0
      BY <3>1 DEF Chain, JoinsBack
    <3>3. i < Len(r) => r[i + 1] = s[(Len(s) - (i + 1)) + 1]
      BY <1>1, <1>3
    <3>4. QED
      BY <3>1, <3>2, <3>3
  <2>3. QED
    BY <2>1, <2>2 DEF Joins
<1>5. Follow(l.prev, l.last) = r
  BY <1>1, <1>3, <1>4, FollowIs
<1>6. QED
  BY <1>2, <1>5 DEF r, corelist_back_foreach

\* Such a list is linked as it should be.
LEMMA ChainIsLinked ==
  ASSUME MemCtlAssumption, NEW l, NEW s \in Seq(Inodes), Chain(l, s)
  PROVE  Linked(l)
<1> DEFINE r == Reverse(s)
<1>1. corelist_foreach(l) = s /\ corelist_back_foreach(l) = r
  BY WalkIs
<1>2. Len(s) \in Nat
  OBVIOUS
<1>3. Reverse(r) = s
  <2>1. r = [i \in 1..Len(s) |-> s[(Len(s) - i) + 1]]
    BY DEF Reverse
  <2>2. Len(r) = Len(s)
    BY <1>2, <2>1
  <2> HIDE DEF r
  <2>3. \A i \in 1..Len(s) : (Len(s) - i) + 1 \in 1..Len(s)
                              /\ (Len(s) - ((Len(s) - i) + 1)) + 1 = i
    BY <1>2
  <2>4. \A i \in 1..Len(s) : r[(Len(s) - i) + 1] = s[i]
    BY <2>1, <2>3
  <2>5. Reverse(r) = [i \in 1..Len(s) |-> r[(Len(s) - i) + 1]]
    BY <2>2 DEF Reverse
  <2>6. QED
    BY <2>4, <2>5
<1> HIDE DEF r
<1>4. l.first = (IF s = << >> THEN 0 ELSE Head(s)) /\ l.last = (IF s = << >> THEN 0 ELSE Last(s))
  <2>1. s # << >> => Head(s) = s[1] /\ Last(s) = s[Len(s)]
    BY HeadTailProperties DEF Last
  <2>2. QED
    BY <2>1 DEF Chain, Joins, JoinsBack
<1>5. Len(s) = l.size
  BY DEF Chain
<1>6. QED
  BY <1>1, <1>3, <1>4, <1>5 DEF Linked

\* The statements that change a list, one by one
LEMMA FieldType ==
  ASSUME NEW l \in ListType, NEW n \in Inodes, NEW x \in 0..MaxInodes
  PROVE  /\ [l EXCEPT !.next[n] = x] \in ListType
         /\ [l EXCEPT !.prev[n] = x] \in ListType
         /\ [l EXCEPT !.self[n] = x] \in ListType
         /\ [l EXCEPT !.first = x] \in ListType
         /\ [l EXCEPT !.last = x] \in ListType
<1>1. [l EXCEPT !.next[n] = x] \in ListType
  BY DEF ListType
<1>2. [l EXCEPT !.prev[n] = x] \in ListType
  BY DEF ListType
<1>3. [l EXCEPT !.self[n] = x] \in ListType
  BY DEF ListType
<1>4. [l EXCEPT !.first = x] \in ListType
  BY DEF ListType
<1>5. [l EXCEPT !.last = x] \in ListType
  BY DEF ListType
<1>6. QED
  BY <1>1, <1>2, <1>3, <1>4, <1>5

LEMMA WholeFieldType ==
  ASSUME NEW l \in ListType, NEW z \in Nat, NEW y \in [Inodes -> 0..MaxInodes]
  PROVE  [l EXCEPT !.size = z] \in ListType /\ [l EXCEPT !.next = y] \in ListType
<1>1. [l EXCEPT !.size = z] \in ListType
  BY DEF ListType
<1>2. [l EXCEPT !.next = y] \in ListType
  BY DEF ListType
<1>3. QED
  BY <1>1, <1>2

\* corelist_push_back puts an inode that was not in the list behind the others.
LEMMA PushBackAppends ==
  ASSUME MemCtlAssumption, NEW l, NEW s \in Seq(Inodes), Chain(l, s),
         NEW n \in Inodes, n \notin Within(s), NEW v \in 0..MaxInodes
  PROVE  LET m == corelist_push_back(l, n, v)
         IN  /\ Chain(m, Append(s, n)) /\ Append(s, n) \in Seq(Inodes)
             /\ Within(Append(s, n)) = Within(s) \cup {n}
             /\ m.self = [l.self EXCEPT ![n] = v]
<1> DEFINE m == corelist_push_back(l, n, v)
           r == Append(s, n)
<1>1. /\ Len(s) \in Nat /\ MaxInodes \in Nat
      /\ \A i \in 1..Len(s) : s[i] \in Inodes /\ s[i] # 0 /\ s[i] # n
      /\ n # 0 /\ n \in 1..MaxInodes
  BY DEF MemCtlAssumption, Inodes, Within
<1>2. /\ r \in Seq(Inodes) /\ Len(r) = Len(s) + 1
      /\ \A i \in 1..Len(s) : r[i] = s[i]
      /\ r[Len(s) + 1] = n
  BY <1>1, AppendProperties
<1> HIDE DEF r
<1>3. /\ l \in ListType /\ l.size = Len(s)
      /\ l.prev \in [Inodes -> 0..MaxInodes] /\ l.next \in [Inodes -> 0..MaxInodes]
      /\ l.self \in [Inodes -> 0..MaxInodes] /\ l.last \in 0..MaxInodes
  BY DEF Chain, ListType
<1>4. \/ Len(s) = 0 /\ s = << >> /\ l.first = 0 /\ l.last = 0
      \/ Len(s) > 0 /\ s # << >> /\ l.first = s[1] /\ l.first # 0 /\ l.last = s[Len(s)]
         /\ l.last # 0 /\ l.last \in Inodes
  <2>1. l.first = (IF s = << >> THEN 0 ELSE s[1]) /\ l.last = (IF s = << >> THEN 0 ELSE s[Len(s)])
    BY DEF Chain, Joins, JoinsBack
  <2>2. CASE s = << >>
    BY <2>1, <2>2
  <2>3. CASE s # << >>
    <3>1. Len(s) > 0
      BY <1>1, <2>3, EmptySeq
    <3>2. 1 \in 1..Len(s) /\ Len(s) \in 1..Len(s)
      BY <1>1, <3>1
    <3>3. QED
      BY <1>1, <2>1, <2>3, <3>1, <3>2
  <2>4. QED
    BY <2>2, <2>3
<1>5. /\ m.first = r[1] /\ m.last = n /\ m.size = Len(s) + 1
      /\ m.prev = [l.prev EXCEPT ![n] = l.last] /\ m.self = [l.self EXCEPT ![n] = v]
      /\ m.next = IF Len(s) = 0 THEN [l.next EXCEPT ![n] = 0]
                  ELSE [[l.next EXCEPT ![n] = 0] EXCEPT ![l.last] = n]
  <2>1. CASE Len(s) = 0
    <3>1. /\ m.first = n /\ m.last = n /\ m.size = 1
          /\ m.prev = [l.prev EXCEPT ![n] = 0] /\ m.self = [l.self EXCEPT ![n] = v]
          /\ m.next = [l.next EXCEPT ![n] = 0]
      BY <1>1, <1>3, <1>4, <2>1 DEF corelist_push_back, ListType
    <3>2. r[1] = n /\ l.last = 0 /\ Len(s) + 1 = 1
      BY <1>2, <1>4, <2>1
    <3>3. QED
      BY <2>1, <3>1, <3>2
  <2>2. CASE Len(s) > 0
    <3>1. /\ m.first = l.first /\ m.last = n /\ m.size = l.size + 1
          /\ m.prev = [l.prev EXCEPT ![n] = l.last] /\ m.self = [l.self EXCEPT ![n] = v]
          /\ m.next = [[l.next EXCEPT ![n] = 0] EXCEPT ![l.last] = n]
      BY <1>1, <1>3, <1>4, <2>2 DEF corelist_push_back, ListType
    <3>2. 1 \in 1..Len(s) /\ Len(s) # 0
      BY <1>1, <2>2
    <3>3. r[1] = l.first /\ l.size = Len(s)
      BY <1>1, <1>2, <1>3, <1>4, <3>2
    <3>4. QED
      BY <3>1, <3>2, <3>3
  <2>3. QED
    BY <1>1, <2>1, <2>2
<1>6. m \in ListType
  <2>0. n \in 0..MaxInodes /\ 0 \in 0..MaxInodes /\ l.size + 1 \in Nat
    BY <1>1, <1>3
  <2>1. CASE l.first # 0
    <3> DEFINE a == [l EXCEPT !.self[n] = v]
               b == [a EXCEPT !.next[n] = 0]
               c == [b EXCEPT !.prev[n] = l.last]
               d == [c EXCEPT !.next[l.last] = n]
               e == [d EXCEPT !.last = n]
               f == [e EXCEPT !.size = l.size + 1]
    <3>1. m = f
      BY <2>1 DEF corelist_push_back
    <3>2. a \in ListType
      BY <1>3, FieldType
    <3> HIDE DEF a
    <3>3. b \in ListType
      BY <2>0, <3>2, FieldType
    <3> HIDE DEF b
    <3>4. c \in ListType
      BY <1>3, <3>3, FieldType
    <3> HIDE DEF c
    <3>5. d \in ListType
      BY <1>4, <2>0, <2>1, <3>4, FieldType
    <3> HIDE DEF d
    <3>6. e \in ListType
      BY <2>0, <3>5, FieldType
    <3> HIDE DEF e
    <3>7. f \in ListType
      BY <1>3, <2>0, <3>6, WholeFieldType
    <3>8. QED
      BY <3>1, <3>7
  <2>2. CASE l.first = 0
    <3> DEFINE a == [l EXCEPT !.first = n]
               b == [a EXCEPT !.next[n] = 0]
               c == [b EXCEPT !.prev[n] = 0]
               d == [c EXCEPT !.self[n] = v]
               e == [d EXCEPT !.last = n]
               f == [e EXCEPT !.size = 1]
    <3>1. m = f
      BY <2>2 DEF corelist_push_back
    <3>2. a \in ListType
      BY <1>3, <2>0, FieldType
    <3> HIDE DEF a
    <3>3. b \in ListType
      BY <2>0, <3>2, FieldType
    <3> HIDE DEF b
    <3>4. c \in ListType
      BY <2>0, <3>3, FieldType
    <3> HIDE DEF c
    <3>5. d \in ListType
      BY <3>4, FieldType
    <3> HIDE DEF d
    <3>6. e \in ListType
      BY <2>0, <3>5, FieldType
    <3> HIDE DEF e
    <3>7. f \in ListType
      BY <1>3, <3>6, WholeFieldType
    <3>8. QED
      BY <3>1, <3>7
  <2>3. QED
    BY <2>1, <2>2
<1> HIDE DEF m
<1>7. Distinct(r)
  <2>1. \A i \in 1..Len(r) : i \in 1..Len(s) \/ i = Len(s) + 1
    BY <1>1, <1>2
  <2>2. ASSUME NEW i \in 1..Len(r), NEW j \in 1..Len(r), r[i] = r[j]
        PROVE  i = j
    <3>1. CASE i \in 1..Len(s) /\ j \in 1..Len(s)
      BY <1>2, <2>2, <3>1 DEF Chain, Distinct
    <3>2. CASE ~(i \in 1..Len(s) /\ j \in 1..Len(s))
      BY <1>1, <1>2, <2>1, <2>2, <3>2
    <3>3. QED
      BY <3>1, <3>2
  <2>3. QED
    BY <2>2 DEF Distinct
<1>8. r # << >>
  BY <1>1, <1>2
<1>9. Joins(m.next, m.first, r)
  <2>1. ASSUME NEW i \in 1..Len(r)
        PROVE  m.next[r[i]] = IF i < Len(r) THEN r[i + 1] ELSE 0
    <3>1. CASE i = Len(s) + 1
      <4>1. m.next[n] = 0
        <5>1. m.next = [l.next EXCEPT ![n] = 0] \/ m.next = [l.next EXCEPT ![n] = 0, ![l.last] = n]
          BY <1>5
        <5>2. QED
          BY <1>1, <1>3, <1>4, <5>1
      <4>2. QED
        BY <1>1, <1>2, <3>1, <4>1
    <3>2. CASE i \in 1..Len(s) /\ i = Len(s)
      <4>1. m.next[l.last] = n
        BY <1>1, <1>3, <1>4, <1>5, <3>2
      <4>2. r[i] = l.last /\ i < Len(r) /\ r[i + 1] = n
        BY <1>1, <1>2, <1>4, <3>2
      <4>3. QED
        BY <4>1, <4>2
    <3>3. CASE i \in 1..Len(s) /\ i < Len(s)
      <4>1. l.next[s[i]] = s[i + 1]
        BY <3>3 DEF Chain, Joins
      <4>2. s[i] # l.last
        <5>1. i \in 1..Len(s) /\ Len(s) \in 1..Len(s) /\ i # Len(s)
          BY <1>1, <3>3
        <5>2. QED
          BY <1>4, <5>1 DEF Chain, Distinct
      <4>3. m.next[s[i]] = l.next[s[i]]
        <5>1. s[i] \in Inodes /\ s[i] # n
          BY <1>1, <3>3
        <5>2. QED
          BY <1>3, <1>5, <4>2, <5>1
      <4>4. i < Len(r) /\ i + 1 \in 1..Len(s) /\ r[i] = s[i] /\ r[i + 1] = s[i + 1]
        BY <1>1, <1>2, <3>3
      <4>5. QED
        BY <4>1, <4>3, <4>4
    <3>4. QED
      BY <1>1, <1>2, <3>1, <3>2, <3>3
  <2>2. QED
    BY <1>5, <1>8, <2>1 DEF Joins
<1>10. JoinsBack(m.prev, m.last, r)
  <2>1. m.last = r[Len(r)]
    BY <1>2, <1>5
  <2>2. ASSUME NEW i \in 1..Len(r)
        PROVE  m.prev[r[i]] = IF i > 1 THEN r[i - 1] ELSE 0
    <3>1. CASE i = Len(s) + 1
      <4>1. m.prev[n] = l.last
        BY <1>1, <1>3, <1>5
      <4>2. l.last = IF i > 1 THEN r[i - 1] ELSE 0
        BY <1>1, <1>2, <1>4, <3>1
      <4>3. QED
        BY <1>2, <3>1, <4>1, <4>2
    <3>2. CASE i \in 1..Len(s)
      <4>1. l.prev[s[i]] = IF i > 1 THEN s[i - 1] ELSE 0
        BY <3>2 DEF Chain, JoinsBack
      <4>2. m.prev[s[i]] = l.prev[s[i]]
        <5>1. s[i] \in Inodes /\ s[i] # n
          BY <1>1, <3>2
        <5>2. QED
          BY <1>3, <1>5, <5>1
      <4>3. r[i] = s[i] /\ (i > 1 => i - 1 \in 1..Len(s) /\ r[i - 1] = s[i - 1])
        <5>1. r[i] = s[i] /\ i \in Nat
          BY <1>2, <3>2
        <5>2. i > 1 => i - 1 \in 1..Len(s)
          BY <1>1, <3>2, <5>1
        <5>3. QED
          BY <1>2, <5>1, <5>2
      <4>4. QED
        BY <4>1, <4>2, <4>3
    <3>3. QED
      BY <1>1, <1>2, <3>1, <3>2
  <2>3. QED
    BY <1>8, <2>1, <2>2 DEF JoinsBack
<1>11. Chain(m, r)
  BY <1>2, <1>5, <1>6, <1>7, <1>9, <1>10 DEF Chain
<1>12. Within(r) = Within(s) \cup {n}
  <2>1. 1..Len(r) = (1..Len(s)) \cup {Len(s) + 1}
    BY <1>1, <1>2
  <2>2. QED
    BY <1>2, <2>1 DEF Within
<1>13. QED
  BY <1>2, <1>5, <1>11, <1>12 DEF m, r

\* The list s without what is at its k-th place
Without(s, k) == [i \in 1..(Len(s) - 1) |-> IF i < k THEN s[i] ELSE s[i + 1]]

LEMMA WithoutIs ==
  ASSUME NEW s \in Seq(Inodes), Distinct(s), NEW k \in 1..Len(s)
  PROVE  /\ Without(s, k) \in Seq(Inodes) /\ Len(Without(s, k)) = Len(s) - 1
         /\ \A i \in 1..(Len(s) - 1) : Without(s, k)[i] = IF i < k THEN s[i] ELSE s[i + 1]
         /\ Distinct(Without(s, k))
         /\ Within(Without(s, k)) = Within(s) \ {s[k]}
<1> DEFINE r == Without(s, k)
<1>1. Len(s) \in Nat /\ Len(s) - 1 \in Nat
  OBVIOUS
<1>2. /\ r \in Seq(Inodes) /\ Len(r) = Len(s) - 1
      /\ \A i \in 1..(Len(s) - 1) : r[i] = IF i < k THEN s[i] ELSE s[i + 1]
  <2>1. \A i \in 1..(Len(s) - 1) : i \in 1..Len(s) /\ i + 1 \in 1..Len(s)
    BY <1>1
  <2>2. r \in [1..(Len(s) - 1) -> Inodes]
    BY <2>1 DEF Without
  <2>3. QED
    BY <1>1, <2>2 DEF Without
<1> HIDE DEF r
<1> DEFINE Old(i) == IF i < k THEN i ELSE i + 1
<1>3. \A i \in 1..(Len(s) - 1) : Old(i) \in 1..Len(s) /\ Old(i) # k /\ r[i] = s[Old(i)]
  BY <1>1, <1>2
<1>4. ASSUME NEW i \in 1..Len(r), NEW j \in 1..Len(r), r[i] = r[j]
      PROVE  i = j
  <2>1. Old(i) = Old(j)
    BY <1>2, <1>3, <1>4 DEF Distinct
  <2>2. QED
    BY <1>1, <1>2, <2>1
<1>5. ASSUME NEW x \in Within(r) PROVE x \in Within(s) \ {s[k]}
  <2>1. PICK i \in 1..(Len(s) - 1) : x = r[i]
    BY <1>2 DEF Within
  <2>2. Old(i) \in 1..Len(s) /\ x = s[Old(i)] /\ Old(i) # k
    BY <1>3, <2>1
  <2>3. x # s[k]
    BY <2>2 DEF Distinct
  <2>4. QED
    BY <2>2, <2>3 DEF Within
<1>6. ASSUME NEW x \in Within(s) \ {s[k]} PROVE x \in Within(r)
  <2>1. PICK j \in 1..Len(s) : x = s[j] /\ j # k
    BY DEF Within
  <2>2. CASE j < k
    <3>1. j \in 1..(Len(s) - 1) /\ r[j] = s[j]
      BY <1>1, <1>2, <2>2
    <3>2. QED
      BY <1>2, <2>1, <3>1 DEF Within
  <2>3. CASE j > k
    <3>1. j - 1 \in 1..(Len(s) - 1) /\ r[j - 1] = s[j]
      BY <1>1, <1>2, <2>3
    <3>2. QED
      BY <1>2, <2>1, <3>1 DEF Within
  <2>4. QED
    BY <2>1, <2>2, <2>3
<1>7. Within(r) = Within(s) \ {s[k]}
  BY <1>5, <1>6
<1>8. QED
  BY <1>2, <1>4, <1>7 DEF r, Distinct

\* The inodes on either side of the k-th, or null
Before(s, k) == IF k > 1 THEN s[k - 1] ELSE 0
After(s, k) == IF k < Len(s) THEN s[k + 1] ELSE 0

\* corelist_del_inode of the k-th inode: what becomes of each field
TakenOut(l, s, k, m) ==
  /\ m \in ListType
  /\ m.first = IF Before(s, k) # 0 THEN l.first ELSE After(s, k)
  /\ m.last = IF After(s, k) # 0 THEN l.last ELSE Before(s, k)
  /\ m.size = l.size - 1
  /\ m.self = [l.self EXCEPT ![s[k]] = 0]
  /\ m.next = [(IF Before(s, k) # 0 THEN [l.next EXCEPT ![Before(s, k)] = After(s, k)]
                ELSE l.next) EXCEPT ![s[k]] = 0]
  /\ m.prev = [(IF After(s, k) # 0 THEN [l.prev EXCEPT ![After(s, k)] = Before(s, k)]
                ELSE l.prev) EXCEPT ![s[k]] = 0]

LEMMA DelInodeFields ==
  ASSUME MemCtlAssumption, NEW l, NEW s \in Seq(Inodes), Chain(l, s), NEW k \in 1..Len(s)
  PROVE  TakenOut(l, s, k, corelist_del_inode(l, s[k]))
<1> DEFINE n == s[k]
           pr == Before(s, k)
           nx == After(s, k)
           m == corelist_del_inode(l, n)
<1>1. /\ Len(s) \in Nat /\ MaxInodes \in Nat
      /\ \A i \in 1..Len(s) : s[i] \in Inodes /\ s[i] # 0
      /\ n \in Inodes /\ n # 0
  BY DEF MemCtlAssumption, Inodes
<1>2. /\ l \in ListType /\ l.size = Len(s)
      /\ l.prev \in [Inodes -> 0..MaxInodes] /\ l.next \in [Inodes -> 0..MaxInodes]
      /\ l.self \in [Inodes -> 0..MaxInodes] /\ l.last \in 0..MaxInodes
      /\ l.prev[n] = pr /\ l.next[n] = nx
  BY DEF Chain, ListType, Joins, JoinsBack, Before, After
<1>3. corelist_check_inode(l, n)
  <2>1. corelist_foreach(l) = s
    BY WalkIs
  <2>2. QED
    BY <2>1 DEF corelist_check_inode, Contains
<1>4. n = l.last <=> k = Len(s)
  <2>1. s # << >> /\ Len(s) \in 1..Len(s)
    BY <1>1
  <2>2. l.last = s[Len(s)]
    BY <2>1 DEF Chain, JoinsBack
  <2>3. QED
    BY <2>1, <2>2 DEF Chain, Distinct
<1>5. /\ pr \in 0..MaxInodes /\ nx \in 0..MaxInodes /\ 0 \in 0..MaxInodes
      /\ (pr # 0 <=> k > 1) /\ (nx # 0 <=> k < Len(s))
      /\ (pr # 0 => pr \in Inodes) /\ (nx # 0 => nx \in Inodes)
  <2>1. CASE k > 1
    <3>1. k - 1 \in 1..Len(s)
      BY <1>1, <2>1
    <3>2. pr \in Inodes /\ pr # 0
      BY <1>1, <2>1, <3>1 DEF Before
    <3>3. nx \in Inodes \cup {0} /\ (nx # 0 <=> k < Len(s))
      <4>1. k < Len(s) => k + 1 \in 1..Len(s)
        BY <1>1
      <4>2. QED
        BY <1>1, <4>1 DEF After
    <3>4. QED
      BY <1>1, <2>1, <3>2, <3>3 DEF Inodes
  <2>2. CASE ~(k > 1)
    <3>1. pr = 0
      BY <2>2 DEF Before
    <3>3. nx \in Inodes \cup {0} /\ (nx # 0 <=> k < Len(s))
      <4>1. k < Len(s) => k + 1 \in 1..Len(s)
        BY <1>1
      <4>2. QED
        BY <1>1, <4>1 DEF After
    <3>4. QED
      BY <1>1, <2>2, <3>1, <3>3 DEF Inodes
  <2>3. QED
    BY <2>1, <2>2
<1>6. Len(s) - 1 \in Nat /\ l.size - 1 \in Nat
  BY <1>1, <1>2
<1> HIDE DEF pr, nx, n
<1> DEFINE follow == IF pr # 0 THEN [l.next EXCEPT ![pr] = nx] ELSE l.next
           first == IF pr # 0 THEN l.first ELSE nx
<1>7. follow \in [Inodes -> 0..MaxInodes] /\ first \in 0..MaxInodes
  BY <1>2, <1>5 DEF ListType
<1>8. CASE n = l.last
  <2>1. nx = 0
    BY <1>1, <1>4, <1>5, <1>8
  <2> DEFINE a == [l EXCEPT !.next = follow]
             b == [a EXCEPT !.first = first]
             c == [b EXCEPT !.last = pr]
             d == [c EXCEPT !.size = l.size - 1]
             e == [d EXCEPT !.prev[n] = 0]
             f == [e EXCEPT !.next[n] = 0]
             g == [f EXCEPT !.self[n] = 0]
  <2>2. m = g
    BY <1>1, <1>2, <1>3, <1>8, <2>1 DEF corelist_del_inode, Freed
  <2>3. /\ g.first = first /\ g.last = pr /\ g.size = l.size - 1
        /\ g.self = [l.self EXCEPT ![n] = 0] /\ g.prev = [l.prev EXCEPT ![n] = 0]
        /\ g.next = [follow EXCEPT ![n] = 0]
    BY <1>1, <1>2, <1>5, <1>6, <1>7 DEF ListType
  <2>4. a \in ListType
    BY <1>2, <1>6, <1>7, WholeFieldType
  <2> HIDE DEF a
  <2>5. b \in ListType
    BY <1>1, <1>7, <2>4, FieldType
  <2> HIDE DEF b
  <2>6. c \in ListType
    BY <1>1, <1>5, <2>5, FieldType
  <2> HIDE DEF c
  <2>7. d \in ListType
    BY <1>6, <1>7, <2>6, WholeFieldType
  <2> HIDE DEF d
  <2>8. e \in ListType
    BY <1>1, <1>5, <2>7, FieldType
  <2> HIDE DEF e
  <2>9. f \in ListType
    BY <1>1, <1>5, <2>8, FieldType
  <2> HIDE DEF f
  <2>10. g \in ListType
    BY <1>1, <1>5, <2>9, FieldType
  <2> HIDE DEF g
  <2>11. QED
    BY <2>1, <2>2, <2>3, <2>10 DEF TakenOut, n, pr, nx
<1>9. CASE n # l.last
  <2>1. nx # 0 /\ nx \in Inodes
    BY <1>1, <1>4, <1>5, <1>9
  <2> DEFINE a == [l EXCEPT !.next = follow]
             b == [a EXCEPT !.first = first]
             c == [b EXCEPT !.prev[nx] = pr]
             d == [c EXCEPT !.size = l.size - 1]
             e == [d EXCEPT !.prev[n] = 0]
             f == [e EXCEPT !.next[n] = 0]
             g == [f EXCEPT !.self[n] = 0]
  <2>2. m = g
    BY <1>1, <1>2, <1>3, <1>9, <2>1 DEF corelist_del_inode, Freed
  <2>3. /\ g.first = first /\ g.last = l.last /\ g.size = l.size - 1
        /\ g.self = [l.self EXCEPT ![n] = 0]
        /\ g.prev = [[l.prev EXCEPT ![nx] = pr] EXCEPT ![n] = 0]
        /\ g.next = [follow EXCEPT ![n] = 0]
    BY <1>1, <1>2, <1>5, <1>6, <1>7, <2>1 DEF ListType
  <2>4. a \in ListType
    BY <1>2, <1>6, <1>7, WholeFieldType
  <2> HIDE DEF a
  <2>5. b \in ListType
    BY <1>1, <1>7, <2>4, FieldType
  <2> HIDE DEF b
  <2>6. c \in ListType
    BY <1>5, <2>1, <2>5, FieldType
  <2> HIDE DEF c
  <2>7. d \in ListType
    BY <1>6, <1>7, <2>6, WholeFieldType
  <2> HIDE DEF d
  <2>8. e \in ListType
    BY <1>1, <1>5, <2>7, FieldType
  <2> HIDE DEF e
  <2>9. f \in ListType
    BY <1>1, <1>5, <2>8, FieldType
  <2> HIDE DEF f
  <2>10. g \in ListType
    BY <1>1, <1>5, <2>9, FieldType
  <2> HIDE DEF g
  <2>11. QED
    BY <2>1, <2>2, <2>3, <2>10 DEF TakenOut, n, pr, nx
<1>10. QED
  BY <1>8, <1>9

\* corelist_del_inode takes an inode out of the list, if it is there.
LEMMA DelInodeRemoves ==
  ASSUME MemCtlAssumption, NEW l, NEW s \in Seq(Inodes), Chain(l, s), NEW k \in 1..Len(s)
  PROVE  LET m == corelist_del_inode(l, s[k])
         IN  Chain(m, Without(s, k)) /\ m.self = [l.self EXCEPT ![s[k]] = 0]
<1> DEFINE n == s[k]
           r == Without(s, k)
           m == corelist_del_inode(l, n)
           pr == Before(s, k)
           nx == After(s, k)
           Old(i) == IF i < k THEN i ELSE i + 1
<1>1. /\ Len(s) \in Nat /\ MaxInodes \in Nat /\ k \in Nat /\ 1 <= k /\ k <= Len(s)
      /\ \A i \in 1..Len(s) : s[i] \in Inodes /\ s[i] # 0
  BY DEF MemCtlAssumption, Inodes
<1>2. /\ m \in ListType
      /\ m.first = IF pr # 0 THEN l.first ELSE nx
      /\ m.last = IF nx # 0 THEN l.last ELSE pr
      /\ m.size = l.size - 1
      /\ m.self = [l.self EXCEPT ![n] = 0]
      /\ m.next = [(IF pr # 0 THEN [l.next EXCEPT ![pr] = nx] ELSE l.next) EXCEPT ![n] = 0]
      /\ m.prev = [(IF nx # 0 THEN [l.prev EXCEPT ![nx] = pr] ELSE l.prev) EXCEPT ![n] = 0]
  <2>1. TakenOut(l, s, k, m)
    BY DelInodeFields
  <2>2. QED
    BY <2>1 DEF TakenOut
<1>3. /\ r \in Seq(Inodes) /\ Len(r) = Len(s) - 1 /\ Distinct(r)
      /\ \A i \in 1..(Len(s) - 1) : r[i] = IF i < k THEN s[i] ELSE s[i + 1]
  BY WithoutIs DEF Chain
<1>4. /\ l.size = Len(s) /\ l.prev \in [Inodes -> 0..MaxInodes]
      /\ l.next \in [Inodes -> 0..MaxInodes]
      /\ l.first = s[1] /\ l.last = s[Len(s)]
  <2>1. s # << >>
    BY <1>1
  <2>2. QED
    BY <2>1 DEF Chain, ListType, Joins, JoinsBack
<1>5. /\ pr # 0 <=> k > 1
      /\ nx # 0 <=> k < Len(s)
      /\ pr # 0 => k - 1 \in 1..Len(s) /\ pr = s[k - 1] /\ pr \in Inodes
      /\ nx # 0 => k + 1 \in 1..Len(s) /\ nx = s[k + 1] /\ nx \in Inodes
  BY <1>1 DEF Before, After
<1> HIDE DEF m, r, pr, nx
<1>6. \A i \in 1..Len(r) :
        /\ i \in 1..(Len(s) - 1) /\ Old(i) \in 1..Len(s) /\ Old(i) # k
        /\ r[i] = s[Old(i)] /\ s[Old(i)] # n /\ s[Old(i)] \in Inodes
  <2>1. \A i \in 1..Len(r) :
          i \in 1..(Len(s) - 1) /\ Old(i) \in 1..Len(s) /\ Old(i) # k /\ r[i] = s[Old(i)]
    BY <1>1, <1>3
  <2>2. QED
    BY <1>1, <2>1 DEF Chain, Distinct
<1>7. \A i \in 1..Len(s) : /\ l.next[s[i]] = IF i < Len(s) THEN s[i + 1] ELSE 0
                           /\ l.prev[s[i]] = IF i > 1 THEN s[i - 1] ELSE 0
  BY DEF Chain, Joins, JoinsBack
<1>8. \A i, j \in 1..Len(s) : s[i] = s[j] => i = j
  BY DEF Chain, Distinct
<1>9. r = << >> <=> Len(s) = 1
  BY <1>1, <1>3
<1>10. Joins(m.next, m.first, r)
  <2>1. m.first = IF r = << >> THEN 0 ELSE r[1]
    <3>1. CASE k > 1
      <4>1. 1 \in 1..(Len(s) - 1) /\ r[1] = s[1] /\ r # << >>
        BY <1>1, <1>3, <1>9, <3>1
      <4>2. QED
        BY <1>2, <1>4, <1>5, <3>1, <4>1
    <3>2. CASE k = 1 /\ Len(s) > 1
      <4>1. 1 \in 1..(Len(s) - 1) /\ r[1] = s[2] /\ r # << >> /\ k + 1 = 2
        BY <1>1, <1>3, <1>9, <3>2
      <4>2. m.first = nx /\ nx = s[k + 1]
        BY <1>2, <1>5, <3>2
      <4>3. QED
        BY <3>2, <4>1, <4>2
    <3>3. CASE Len(s) = 1
      <4>1. k = 1 /\ ~(k > 1) /\ ~(k < Len(s))
        BY <3>3
      <4>2. QED
        BY <1>2, <1>5, <1>9, <3>3, <4>1
    <3>4. k > 1 \/ (k = 1 /\ Len(s) > 1) \/ Len(s) = 1
      <4> DEFINE z == Len(s)
      <4>1. z \in Nat /\ k \in Nat /\ 1 <= k /\ k <= z
        BY <1>1
      <4> HIDE DEF z
      <4>2. k > 1 \/ (k = 1 /\ z > 1) \/ z = 1
        BY <4>1
      <4>3. QED
        BY <4>2 DEF z
    <3>5. QED
      BY <3>1, <3>2, <3>3, <3>4
  <2>2. ASSUME NEW i \in 1..Len(r)
        PROVE  m.next[r[i]] = IF i < Len(r) THEN r[i + 1] ELSE 0
    <3>1. i \in 1..(Len(s) - 1) /\ Old(i) \in 1..Len(s) /\ Old(i) # k
          /\ r[i] = s[Old(i)] /\ s[Old(i)] # n /\ s[Old(i)] \in Inodes
      BY <1>6
    <3>2. CASE i = k - 1
      <4>1. pr # 0 /\ Old(i) = k - 1 /\ r[i] = pr /\ pr \in Inodes
        BY <1>1, <1>5, <3>1, <3>2
      <4>2. m.next[pr] = nx
        BY <1>2, <1>4, <3>1, <4>1
      <4>3. nx = IF i < Len(r) THEN r[i + 1] ELSE 0
        <5>1. CASE k < Len(s)
          <6>1. i + 1 \in 1..(Len(s) - 1) /\ ~(i + 1 < k) /\ (i + 1) + 1 = k + 1 /\ i < Len(r)
            BY <1>1, <1>3, <3>1, <3>2, <5>1
          <6>2. QED
            BY <1>3, <1>5, <5>1, <6>1
        <5>2. CASE ~(k < Len(s))
          BY <1>1, <1>3, <1>5, <3>1, <3>2, <5>2
        <5>3. QED
          BY <5>1, <5>2
      <4>4. QED
        BY <4>1, <4>2, <4>3
    <3>3. CASE i # k - 1
      <4>1. pr # 0 => r[i] # pr
        <5>1. Old(i) # k - 1
          BY <1>1, <3>1, <3>3
        <5>2. QED
          BY <1>5, <1>8, <3>1, <5>1
      <4>2. m.next[r[i]] = l.next[r[i]]
        BY <1>2, <1>4, <3>1, <4>1
      <4>3. l.next[r[i]] = IF Old(i) < Len(s) THEN s[Old(i) + 1] ELSE 0
        BY <1>7, <3>1
      <4>4. Old(i) < Len(s) <=> i < Len(r)
        BY <1>1, <1>3, <3>1, <3>3
      <4>5. ASSUME i < Len(r) PROVE r[i + 1] = s[Old(i) + 1]
        <5>1. i + 1 \in 1..(Len(s) - 1)
          BY <1>1, <1>3, <3>1, <4>5
        <5>2. (i + 1 < k <=> i < k) /\ (i < k => Old(i) = i) /\ (~(i < k) => Old(i) = i + 1)
          BY <1>1, <3>1, <3>3
        <5>3. QED
          BY <1>3, <5>1, <5>2
      <4>6. QED
        BY <4>2, <4>3, <4>4, <4>5
    <3>4. QED
      BY <3>2, <3>3
  <2>3. QED
    BY <2>1, <2>2 DEF Joins
<1>11. JoinsBack(m.prev, m.last, r)
  <2>1. m.last = IF r = << >> THEN 0 ELSE r[Len(r)]
    <3>1. CASE k < Len(s)
      <4>1. /\ Len(r) \in 1..(Len(s) - 1) /\ ~(Len(r) < k) /\ Len(r) + 1 = Len(s)
            /\ r # << >>
        BY <1>1, <1>3, <1>9, <3>1
      <4>2. r[Len(r)] = s[Len(s)]
        BY <1>3, <4>1
      <4>3. QED
        BY <1>2, <1>4, <1>5, <3>1, <4>1, <4>2
    <3>2. CASE k = Len(s) /\ Len(s) > 1
      <4>1. Len(r) \in 1..(Len(s) - 1) /\ Len(r) < k /\ Len(r) = k - 1 /\ r # << >>
        BY <1>1, <1>3, <1>9, <3>2
      <4>2. r[Len(r)] = s[k - 1]
        BY <1>3, <4>1
      <4>3. m.last = pr /\ pr = s[k - 1]
        BY <1>2, <1>5, <3>2
      <4>4. QED
        BY <4>1, <4>2, <4>3
    <3>3. CASE Len(s) = 1
      <4>1. k = 1 /\ ~(k > 1) /\ ~(k < Len(s))
        BY <3>3
      <4>2. QED
        BY <1>2, <1>5, <1>9, <3>3, <4>1
    <3>4. k < Len(s) \/ (k = Len(s) /\ Len(s) > 1) \/ Len(s) = 1
      <4> DEFINE z == Len(s)
      <4>1. z \in Nat /\ k \in Nat /\ 1 <= k /\ k <= z
        BY <1>1
      <4> HIDE DEF z
      <4>2. k < z \/ (k = z /\ z > 1) \/ z = 1
        BY <4>1
      <4>3. QED
        BY <4>2 DEF z
    <3>5. QED
      BY <3>1, <3>2, <3>3, <3>4
  <2>2. ASSUME NEW i \in 1..Len(r)
        PROVE  m.prev[r[i]] = IF i > 1 THEN r[i - 1] ELSE 0
    <3>1. i \in 1..(Len(s) - 1) /\ Old(i) \in 1..Len(s) /\ Old(i) # k
          /\ r[i] = s[Old(i)] /\ s[Old(i)] # n /\ s[Old(i)] \in Inodes
      BY <1>6
    <3>2. CASE i = k
      <4>1. nx # 0 /\ Old(i) = k + 1 /\ r[i] = nx /\ nx \in Inodes
        BY <1>1, <1>5, <3>1, <3>2
      <4>2. m.prev[nx] = pr
        BY <1>2, <1>4, <3>1, <4>1
      <4>3. pr = IF i > 1 THEN r[i - 1] ELSE 0
        <5>1. CASE k > 1
          <6>1. i - 1 \in 1..(Len(s) - 1) /\ i - 1 < k /\ i - 1 = k - 1
            BY <1>1, <3>1, <3>2, <5>1
          <6>2. QED
            BY <1>3, <1>5, <3>2, <5>1, <6>1
        <5>2. CASE ~(k > 1)
          BY <1>5, <3>2, <5>2
        <5>3. QED
          BY <5>1, <5>2
      <4>4. QED
        BY <4>1, <4>2, <4>3
    <3>3. CASE i # k
      <4>1. nx # 0 => r[i] # nx
        <5>1. Old(i) # k + 1
          BY <1>1, <3>1, <3>3
        <5>2. QED
          BY <1>5, <1>8, <3>1, <5>1
      <4>2. m.prev[r[i]] = l.prev[r[i]]
        BY <1>2, <1>4, <3>1, <4>1
      <4>3. l.prev[r[i]] = IF Old(i) > 1 THEN s[Old(i) - 1] ELSE 0
        BY <1>7, <3>1
      <4>4. Old(i) > 1 <=> i > 1
        BY <1>1, <1>3, <3>1, <3>3
      <4>5. i > 1 => r[i - 1] = s[Old(i) - 1]
        BY <1>1, <1>3, <3>1, <3>3
      <4>6. QED
        BY <4>2, <4>3, <4>4, <4>5
    <3>4. QED
      BY <3>2, <3>3
  <2>3. QED
    BY <2>1, <2>2 DEF JoinsBack
<1>12. Chain(m, r)
  BY <1>2, <1>3, <1>4, <1>10, <1>11 DEF Chain
<1>13. QED
  BY <1>2, <1>12 DEF m, r

\* An inode that is null or not in the list: nothing happens.
LEMMA DelInodeStranger ==
  ASSUME MemCtlAssumption, NEW l, NEW s \in Seq(Inodes), Chain(l, s), NEW n, n \notin Within(s)
  PROVE  corelist_del_inode(l, n) = l
<1>1. corelist_foreach(l) = s
  BY WalkIs
<1>2. ~corelist_check_inode(l, n)
  BY <1>1 DEF corelist_check_inode, Contains, Within
<1>3. QED
  BY <1>2 DEF corelist_del_inode
-----------------------------------------------------------------------------
(***************************************************************************)
(* MemCtl, for any tasks of any priorities, any heap and list.             *)
(***************************************************************************)
InList == {"free", "unlink", "store", "leave"}
Emptying == {"free", "unlink"}
Altering == {"free", "unlink", "store"}
ClientPlaces ==
  {"client", "return"} \cup Allocs \cup Frees \cup {"memoryRealloc"} \cup InList
DeathPlaces ==
  {"dtors", "destroy", "fork", "onClose", "free", "unlink", "leave", "return",
   "closing", "closed", "dead", "wild"} \cup Frees
Places == ClientPlaces \cup DeathPlaces \cup {"onCreate", "bare", "dying", "none"}

Order == corelist_foreach(list)

\* The inodes of the list, those whose memory_block is there, and those
\* whose memory_block is not about to be freed or changed
Untouched(nodes, places, points, node) ==
  {n \in nodes : \A t \in Tasks : places[t] \in points => node[t] # n}

Members == Within(Order)
Full == Untouched(Members, at, Emptying, inode)
Settled == Untouched(Members, at, Altering, inode)

MemTypes ==
  /\ heap \in [Addrs -> {"free", "malloc", "ws"}]
  /\ block \in [Inodes -> [ptr : 0..MaxAddr,
                           destroy : {"none", "memoryFree", "free_ws", "unset"}]]
  /\ at \in [Tasks -> Places] /\ ptr \in [Tasks -> 0..MaxAddr]
  /\ inode \in [Tasks -> 0..MaxInodes]
  /\ held \subseteq Addrs /\ lost \subseteq Addrs /\ unlisted \subseteq Addrs
  /\ fork \in Seq(Inodes \cup {0})
  /\ pc \in [Tasks -> Points]

\* The threads are gone, and the program's blocks nobody's.
Departed == dying /\ \A t \in Tasks \ {Main} : at[t] = "none"

\* The list is in order wherever a task is, and who changes it has the mutex,
\* or is the main that dies without one.
ListInOrder == Chain(list, Order)
AloneInList ==
  \A t \in Tasks : at[t] \in InList =>
    /\ pc[t] = "critical" \/ (pc[t] = "idle" /\ Departed)
    /\ \A u \in Tasks : at[u] \in InList => u = t

\* The process has its mutex until its threads are gone.
UsedExact == ~Departed /\ at[Main] \notin {"onCreate", "bare"} => used

InodesExact ==
  /\ \A n \in Full : list.self[n] = n /\ block[n].destroy # "none"
  /\ \A t \in Tasks :
       /\ at[t] \in Emptying => inode[t] = 0 \/ inode[t] \in Members
       /\ at[t] = "store" => inode[t] \in Members /\ block[inode[t]].destroy # "free_ws"

\* A memory_block on its way into the list
PendingExact ==
  \A t \in Tasks : at[t] \in Allocs =>
    /\ inode[t] \in Inodes \ Full
    /\ block[inode[t]] =
         [ptr |-> ptr[t], destroy |-> IF at[t] = "alloc_ws" THEN "free_ws" ELSE "memoryFree"]
    /\ \A u \in Tasks : at[u] \in Allocs /\ inode[u] = inode[t] => u = t

\* The blocks that the list names are those allocated, but for the ones on
\* their way into it or out of it.
Pending(a) == \E t \in Tasks : at[t] \in Allocs \cup {"free", "store"} /\ ptr[t] = a
NamesExact ==
  /\ \A a \in Addrs :
       (\E n \in Settled : block[n].ptr = a) <=>
         heap[a] # "free" /\ ~Pending(a) /\ a \notin lost /\ a \notin unlisted
  /\ \A n, m \in Settled : block[n].ptr = block[m].ptr /\ n # m => block[n].ptr = 0
  /\ \A n \in Settled : block[n].ptr # 0 =>
       heap[block[n].ptr] = IF block[n].destroy = "free_ws" THEN "ws" ELSE "malloc"

\* Each block is in the hand of one task at most, in none if it is lost.
HandsExact ==
  \A t \in Tasks :
    /\ ptr[t] # 0 =>
         /\ heap[ptr[t]] # "free" /\ ptr[t] \notin lost
         /\ at[t] \in Allocs \cup {"store"} => ptr[t] \notin unlisted
         /\ \A u \in Tasks : ptr[u] = ptr[t] => u = t
         /\ at[t] \in ClientPlaces \ {"client", "unlink"}
    /\ at[t] \in {"alloc_ws", "free_ws"} => ptr[t] # 0 /\ heap[ptr[t]] = "ws"
    /\ at[t] \in {"memoryFree", "memoryRealloc"} => ptr[t] # 0 /\ heap[ptr[t]] = "malloc"
    /\ at[t] \in {"memoryAlloc", "store"} /\ ptr[t] # 0 => heap[ptr[t]] = "malloc"
    /\ at[t] = "free" => ptr[t] # 0

\* What has come out of the list by a failing realloc is allocated, and so is
\* what a kill has lost.
LostExact ==
  /\ \A a \in lost : heap[a] # "free"
  /\ \A a \in unlisted : heap[a] = "malloc"

PhaseExact ==
  /\ at[Main] = "dying" => dying
  /\ dying /\ ~Departed => at[Main] = "dying"
  /\ Departed => at[Main] \in DeathPlaces \cup {"dying"}
  /\ ~Departed => /\ \A t \in Tasks \ {Main} : at[t] \in ClientPlaces
                  /\ at[Main] \in ClientPlaces \cup {"onCreate", "bare", "dying"}

HeldExact ==
  ~Departed =>
    \A a \in held : heap[a] # "free" /\ a \notin lost /\ \A t \in Tasks : ptr[t] # a

CreateExact ==
  at[Main] \in {"onCreate", "bare"} =>
    /\ list = corelist_init /\ ~mblock /\ ~dying
    /\ \A t \in Tasks \ {Main} : at[t] = "client"

\* The copy of the list has the blocks that are left to be destroyed.
ForkExact ==
  Departed /\ at[Main] \notin {"dying", "dtors", "destroy", "fork", "wild"} =>
    /\ Distinct(fork) /\ Within(fork) \subseteq Settled
    /\ \A n \in Settled \ Within(fork) :
         block[n].ptr = 0 \/ (at[Main] \in Frees /\ block[n].ptr = ptr[Main])
    /\ at[Main] \in Frees => \E n \in Settled \ Within(fork) : block[n].ptr = ptr[Main]
    /\ at[Main] \in {"closing", "closed", "dead"} => fork = << >>

DeathExact ==
  /\ ~mblock => late \/ at[Main] \in {"onCreate", "bare", "closed", "dead"}
  /\ ~odd => \A n \in Full : block[n].destroy \in Frees
  /\ at[Main] = "wild" => late \/ odd

MemInv ==
  /\ MemTypes
  /\ ListInOrder /\ AloneInList /\ UsedExact
  /\ InodesExact /\ PendingExact
  /\ NamesExact /\ HandsExact /\ LostExact
  /\ PhaseExact /\ HeldExact /\ CreateExact
  /\ ForkExact /\ DeathExact

SoundUnlessHit == ~hit => MemInv

-----------------------------------------------------------------------------
\* Addresses and inodes are numbers, and 0 is none of them.
LEMMA Numbers ==
  ASSUME MemCtlAssumption
  PROVE  /\ Main \in Tasks
         /\ 0 \in 0..MaxAddr /\ Addrs \subseteq 0..MaxAddr /\ 0 \notin Addrs
         /\ 0 \in 0..MaxInodes /\ Inodes \subseteq 0..MaxInodes /\ 0 \notin Inodes
         /\ \A p \in 0..MaxAddr : p # 0 => p \in Addrs
         /\ \A n \in 0..MaxInodes : n # 0 => n \in Inodes
  BY DEF MemCtlAssumption, Addrs, Inodes

LEMMA UntouchedIs ==
  ASSUME NEW nodes, NEW places, NEW points, NEW node, NEW t \in Tasks,
         \A u \in Tasks \ {t} : places[u] \notin points
  PROVE  Untouched(nodes, places, points, node) =
           IF places[t] \in points THEN nodes \ {node[t]} ELSE nodes
  BY DEF Untouched

LEMMA UntouchedSame ==
  ASSUME NEW nodes, NEW places, NEW points, NEW node, NEW places2, NEW node2,
         \A u \in Tasks : /\ places2[u] \in points <=> places[u] \in points
                          /\ places[u] \in points => node2[u] = node[u]
  PROVE  Untouched(nodes, places2, points, node2) = Untouched(nodes, places, points, node)
  BY DEF Untouched

\* Where each inode and each memory_block is
LEMMA ListFacts ==
  ASSUME MemInv
  PROVE  /\ Order \in Seq(Inodes) /\ Distinct(Order) /\ Chain(list, Order)
         /\ Members \subseteq Inodes /\ Settled \subseteq Full /\ Full \subseteq Members
<1>1. Order \in Seq(Inodes) /\ Distinct(Order) /\ Chain(list, Order)
  BY DEF MemInv, ListInOrder, Chain
<1>2. Members \subseteq Inodes
  BY <1>1 DEF Members, Within
<1>3. Settled \subseteq Full /\ Full \subseteq Members
  BY DEF Settled, Full, Untouched, Altering, Emptying
<1>4. QED
  BY <1>1, <1>2, <1>3

\* The list stays as it is.
LEMMA ListStays ==
  ASSUME list' = list
  PROVE  Order' = Order /\ Members' = Members /\ (ListInOrder => ListInOrder')
<1>1. Order' = Order
  BY DEF Order
<1>2. QED
  BY <1>1 DEF Members, ListInOrder

\* Nobody is in the list.
LEMMA NobodyInList ==
  ASSUME \A u \in Tasks : at[u] \notin InList
  PROVE  Full = Members /\ Settled = Members
  BY DEF Full, Settled, Untouched, InList, Emptying, Altering

\* Task t is the only one in the list.
LEMMA OnlyInList ==
  ASSUME MemInv, NEW t \in Tasks, at[t] \in InList
  PROVE  /\ \A u \in Tasks \ {t} : at[u] \notin InList
         /\ Full = IF at[t] \in Emptying THEN Members \ {inode[t]} ELSE Members
         /\ Settled = IF at[t] \in Altering THEN Members \ {inode[t]} ELSE Members
<1>1. \A u \in Tasks \ {t} : at[u] \notin InList
  BY DEF MemInv, AloneInList
<1>2. \A u \in Tasks \ {t} : at[u] \notin Emptying /\ at[u] \notin Altering
  BY <1>1 DEF InList, Emptying, Altering
<1>3. QED
  <2>1. Full = IF at[t] \in Emptying THEN Members \ {inode[t]} ELSE Members
    BY <1>2, UntouchedIs DEF Full
  <2>2. Settled = IF at[t] \in Altering THEN Members \ {inode[t]} ELSE Members
    BY <1>2, UntouchedIs DEF Settled
  <2>3. QED
    BY <1>1, <2>1, <2>2

\* A task computes: nothing of the mutex changes.
LEMMA ComputeDoes ==
  ASSUME MemInv, NEW t \in Tasks, NEW point, Compute(t, point)
  PROVE  pc[t] = point /\ pc' = pc /\ used' = used /\ ~Clash
  BY DEF Compute, Goto, MemInv, MemTypes, mutexVars

\* A task of a call is past the lock and not in the list: then nobody is.
LEMMA PastLockDoes ==
  ASSUME MemCtlAssumption, MemInv, NEW t \in Tasks, PastLock(t),
         at[t] \in ClientPlaces \ {"client", "return"}
  PROVE  /\ pc' = pc /\ used' = used
         /\ pc[t] = "critical" \/ (pc[t] = "idle" /\ Departed)
         /\ \A u \in Tasks \ {t} : at[u] \notin InList
<1>1. /\ pc[t] = (IF used THEN "critical" ELSE "idle")
      /\ pc' = pc /\ used' = used /\ ~Clash
  BY ComputeDoes DEF PastLock
<1>2. at[t] \notin {"client", "none", "onCreate", "bare"}
  BY DEF ClientPlaces, Allocs, Frees, InList
<1>3. at[Main] \notin {"onCreate", "bare"}
  <2>1. CASE t = Main
    BY <1>2, <2>1
  <2>2. CASE t # Main
    BY <1>2, <2>2 DEF MemInv, CreateExact
  <2>3. QED
    BY <2>1, <2>2
<1>4. CASE Departed
  <2>1. \A u \in Tasks \ {t} : at[u] = "none"
    BY <1>2, <1>4 DEF Departed
  <2>2. QED
    BY <1>1, <1>4, <2>1 DEF InList
<1>5. CASE ~Departed
  <2>1. used /\ pc[t] = "critical"
    BY <1>1, <1>3, <1>5 DEF MemInv, UsedExact
  <2>2. ASSUME NEW u \in Tasks \ {t}, at[u] \in InList
        PROVE  FALSE
    <3>1. pc[u] = "critical"
      BY <1>5, <2>2 DEF MemInv, AloneInList
    <3>2. Owns(t) /\ Owns(u)
      BY <2>1, <3>1 DEF Owns, OwningPoints
    <3>3. QED
      BY <1>1, <2>2, <3>2 DEF Clash
  <2>3. QED
    BY <1>1, <2>1, <2>2
<1>6. QED
  BY <1>4, <1>5

\* A task goes to another place.
LEMMA LocalDoes ==
  ASSUME MemInv, NEW t \in Tasks, NEW to \in Places, NEW p \in 0..MaxAddr,
         NEW n \in 0..MaxInodes, Local(t, to, p, n)
  PROVE  /\ at' \in [Tasks -> Places] /\ ptr' \in [Tasks -> 0..MaxAddr]
         /\ inode' \in [Tasks -> 0..MaxInodes]
         /\ at'[t] = to /\ ptr'[t] = p /\ inode'[t] = n
         /\ \A u \in Tasks \ {t} : at'[u] = at[u] /\ ptr'[u] = ptr[u] /\ inode'[u] = inode[u]
  BY DEF Local, MemInv, MemTypes

\* Who waits for the mutex or gets it does not disturb the list.
LEMMA MutexStep ==
  ASSUME MemInv, UNCHANGED memVars, used' = used, pc' \in [Tasks -> Points], AloneInList'
  PROVE  MemInv'
<1>1. /\ UNCHANGED <<heap, list, block, mblock, held, calls>>
      /\ UNCHANGED <<at, ptr, inode, dying, fork>>
      /\ UNCHANGED <<kills, lost, unlisted, hit, late, odd, skipped>>
  BY DEF memVars, memory, place, history
<1>2. Order' = Order /\ Members' = Members /\ ListInOrder'
  BY <1>1, ListStays DEF MemInv
<1>3. Full' = Full /\ Settled' = Settled
  BY <1>1, <1>2 DEF Full, Settled
<1>4. Departed' = Departed /\ \A a \in Addrs : Pending(a)' = Pending(a)
  BY <1>1 DEF Departed, Pending
<1>5. MemTypes'
  BY <1>1 DEF MemInv, MemTypes
<1>6. InodesExact' /\ PendingExact'
  BY <1>1, <1>2, <1>3 DEF MemInv, InodesExact, PendingExact
<1>7. NamesExact'
  BY <1>1, <1>3, <1>4 DEF MemInv, NamesExact
<1>8. HandsExact' /\ LostExact'
  BY <1>1 DEF MemInv, HandsExact, LostExact
<1>9. PhaseExact' /\ HeldExact' /\ CreateExact' /\ UsedExact'
  BY <1>1, <1>4 DEF MemInv, PhaseExact, HeldExact, CreateExact, UsedExact
<1>10. ForkExact' /\ DeathExact'
  BY <1>1, <1>3, <1>4 DEF MemInv, ForkExact, DeathExact
<1>11. QED
  BY <1>2, <1>5, <1>6, <1>7, <1>8, <1>9, <1>10 DEF MemInv

\* A step of lock or unlock: only its task leaves where it is, but for one
\* that the step lets into the critical section.
LEMMA ContinueDoes ==
  ASSUME pc \in [Tasks -> Points], NEW t \in Tasks, Continue(t)
  PROVE  /\ pc' \in [Tasks -> Points] /\ pc[t] \in MidCall /\ used' = used
         /\ \A u \in Tasks \ {t} : pc'[u] \in {pc[u], "critical"}
<1>1. ASSUME NEW from \in MidCall, NEW to \in Points, Goto(t, from, to)
      PROVE  /\ pc' \in [Tasks -> Points] /\ pc[t] \in MidCall
             /\ \A u \in Tasks \ {t} : pc'[u] \in {pc[u], "critical"}
  BY <1>1 DEF Goto
<1>2. CASE LockRead(t)
  BY <1>1, <1>2 DEF LockRead, MidCall, Points, mutexVars
<1>3. CASE TryRead(t)
  BY <1>1, <1>3 DEF TryRead, MidCall, Points, mutexVars
<1>4. CASE LockTake(t)
  BY <1>1, <1>4 DEF LockTake, MidCall, Points, mutexVars
<1>5. CASE LockCount(t)
  BY <1>1, <1>5 DEF LockCount, MidCall, Points, mutexVars
<1>6. CASE ObtainInvalid(t)
  BY <1>1, <1>6 DEF ObtainInvalid, MidCall, Points, mutexVars
<1>7. CASE Obtain(t)
  BY <1>7 DEF Obtain, MidCall, Points, mutexVars
<1>8. CASE RefusedLoad(t)
  BY <1>1, <1>8 DEF RefusedLoad, MidCall, Points, mutexVars
<1>9. CASE RefusedStore(t)
  BY <1>1, <1>9 DEF RefusedStore, MidCall, Points, mutexVars
<1>10. CASE UnlockRead(t)
  BY <1>1, <1>10 DEF UnlockRead, MidCall, Points, mutexVars
<1>11. CASE UnlockRelease(t)
  <2>1. pc[t] = "release"
    BY <1>11 DEF UnlockRelease
  <2>2. \/ pc' = [pc EXCEPT ![t] = "reload"]
        \/ pc' = [pc EXCEPT ![t] = "reload", ![Head(waiters)] = "critical"]
    BY <1>11 DEF UnlockRelease
  <2>3. CASE pc' = [pc EXCEPT ![t] = "reload"]
    BY <1>11, <2>1, <2>3 DEF UnlockRelease, MidCall, Points, mutexVars
  <2>4. CASE pc' = [pc EXCEPT ![t] = "reload", ![Head(waiters)] = "critical"]
    BY <1>11, <2>1, <2>4 DEF UnlockRelease, MidCall, Points, mutexVars
  <2>5. QED
    BY <2>2, <2>3, <2>4
<1>12. CASE UnlockReleaseInvalid(t)
  BY <1>1, <1>12 DEF UnlockReleaseInvalid, MidCall, Points, mutexVars
<1>13. CASE UnlockReload(t)
  BY <1>1, <1>13 DEF UnlockReload, MidCall, Points, mutexVars
<1>14. CASE UnlockStore(t)
  BY <1>1, <1>14 DEF UnlockStore, MidCall, Points, mutexVars
<1>15. QED
  BY <1>2, <1>3, <1>4, <1>5, <1>6, <1>7, <1>8, <1>9, <1>10, <1>11, <1>12, <1>13, <1>14
     DEF Continue

LEMMA InMutexPreserves ==
  ASSUME MemInv, NEW t \in Tasks, InMutex(t)
  PROVE  MemInv'
<1>1. /\ pc' \in [Tasks -> Points] /\ pc[t] \in MidCall /\ used' = used
      /\ \A u \in Tasks \ {t} : pc'[u] \in {pc[u], "critical"}
  BY ContinueDoes DEF InMutex, MemInv, MemTypes
<1>2. UNCHANGED memVars /\ at' = at /\ Departed' = Departed
  BY DEF InMutex, memVars, place, Departed
<1>3. at[t] \notin InList
  BY <1>1 DEF MemInv, AloneInList, MidCall
<1>4. AloneInList'
  BY <1>1, <1>2, <1>3 DEF MemInv, AloneInList
<1>5. QED
  BY <1>1, <1>2, <1>4, MutexStep

LEMMA EnterListPreserves ==
  ASSUME MemInv, NEW t \in Tasks, EnterList(t)
  PROVE  MemInv'
<1>1. pc[t] = "idle" /\ pc' = [pc EXCEPT ![t] = "lock"] /\ used' = used
  BY DEF EnterList, CallLock, Call, Goto, mutexVars
<1>2. UNCHANGED memVars /\ at' = at /\ Departed' = Departed
  BY DEF EnterList, memVars, place, Departed
<1>3. pc' \in [Tasks -> Points]
  BY <1>1 DEF MemInv, MemTypes, Points, MidCall
<1>4. at[t] \notin InList
  BY DEF EnterList, InList, Allocs, Frees
<1>5. AloneInList'
  BY <1>1, <1>2, <1>4 DEF MemInv, MemTypes, AloneInList
<1>6. QED
  BY <1>1, <1>2, <1>3, <1>5, MutexStep

\* A program sleeps and wakes up.
LEMMA SleepPreservesMem ==
  ASSUME MemInv, NEW t \in Tasks, SleepClient(t) \/ WakeUpClient(t)
  PROVE  MemInv'
<1>1. pc' = pc /\ used' = used /\ UNCHANGED memVars /\ at' = at /\ Departed' = Departed
  BY DEF SleepClient, WakeUpClient, Sleep, WakeUp, memVars, place, mutexVars, Departed
<1>2. pc' \in [Tasks -> Points] /\ AloneInList'
  BY <1>1 DEF MemInv, MemTypes, AloneInList
<1>3. QED
  BY <1>1, <1>2, MutexStep

\* Nobody's view of the list changes where neither the list nor what the
\* tasks in it have in hand does.
LEMMA ViewStays ==
  ASSUME list' = list,
         \A u \in Tasks : /\ at'[u] \in Altering <=> at[u] \in Altering
                          /\ at'[u] \in Emptying <=> at[u] \in Emptying
                          /\ at[u] \in Altering => inode'[u] = inode[u]
  PROVE  Full' = Full /\ Settled' = Settled /\ Members' = Members
<1>1. Members' = Members
  BY ListStays
<1>2. Untouched(Members, at', Altering, inode') = Untouched(Members, at, Altering, inode)
  BY UntouchedSame
<1>3. Untouched(Members, at', Emptying, inode') = Untouched(Members, at, Emptying, inode)
  <2>1. \A u \in Tasks : at[u] \in Emptying => inode'[u] = inode[u]
    BY DEF Emptying, Altering
  <2>2. QED
    BY <2>1, UntouchedSame
<1>4. QED
  BY <1>1, <1>2, <1>3 DEF Full, Settled

LEMMA LeaveListPreserves ==
  ASSUME MemInv, NEW t \in Tasks, LeaveList(t)
  PROVE  MemInv'
<1>1. /\ at[t] = "leave" /\ at' = [at EXCEPT ![t] = "return"]
      /\ pc' \in {pc, [pc EXCEPT ![t] = "unlock"]} /\ used' = used
      /\ UNCHANGED <<heap, list, block, mblock, held, calls>>
      /\ UNCHANGED <<ptr, inode, dying, fork>>
      /\ UNCHANGED <<kills, lost, unlisted, hit, late, odd, skipped>>
  <2>1. CASE used /\ CallUnlock(t)
    BY <2>1 DEF LeaveList, CallUnlock, Goto, memory, history, mutexVars
  <2>2. CASE ~used /\ Compute(t, "idle")
    BY <2>2, ComputeDoes DEF LeaveList, memory, history
  <2>3. QED
    BY <2>1, <2>2 DEF LeaveList
<1>2. /\ at \in [Tasks -> Places] /\ pc \in [Tasks -> Points]
      /\ at'[t] = "return" /\ \A u \in Tasks \ {t} : at'[u] = at[u]
  BY <1>1 DEF MemInv, MemTypes
<1>3. /\ at' \in [Tasks -> Places] /\ pc' \in [Tasks -> Points]
      /\ \A u \in Tasks \ {t} : pc'[u] = pc[u]
  BY <1>1, <1>2 DEF Places, ClientPlaces, Points, MidCall
<1>4. Order' = Order /\ ListInOrder'
  BY <1>1, ListStays DEF MemInv
<1>5. Full' = Full /\ Settled' = Settled /\ Members' = Members
  BY <1>1, <1>2, ViewStays DEF Altering, Emptying
<1>6. Departed' = Departed
  BY <1>1, <1>2 DEF Departed, MemInv, PhaseExact
<1>7. \A a \in Addrs : Pending(a)' = Pending(a)
  BY <1>1, <1>2 DEF Pending, Allocs
<1>8. MemTypes'
  BY <1>1, <1>3 DEF MemInv, MemTypes
<1>9. AloneInList' /\ UsedExact'
  BY <1>1, <1>2, <1>3, <1>6 DEF MemInv, AloneInList, UsedExact, InList
<1>10. InodesExact'
  BY <1>1, <1>2, <1>5 DEF MemInv, InodesExact, Emptying
<1>11. PendingExact'
  BY <1>1, <1>2, <1>5 DEF MemInv, PendingExact, Allocs
<1>12. NamesExact'
  BY <1>1, <1>5, <1>7 DEF MemInv, NamesExact
<1>13. HandsExact'
  BY <1>1, <1>2 DEF MemInv, HandsExact, Allocs, ClientPlaces
<1>14. LostExact' /\ HeldExact'
  BY <1>1, <1>6 DEF MemInv, LostExact, HeldExact
<1>15. PhaseExact'
  BY <1>1, <1>2, <1>6 DEF MemInv, PhaseExact, ClientPlaces, DeathPlaces
<1>16. CreateExact'
  BY <1>1, <1>2 DEF MemInv, CreateExact
<1>17. ForkExact'
  BY <1>1, <1>2, <1>5, <1>6 DEF MemInv, ForkExact, Frees
<1>18. DeathExact'
  BY <1>1, <1>2, <1>5 DEF MemInv, DeathExact
<1>19. QED
  BY <1>4, <1>8, <1>9, <1>10, <1>11, <1>12, <1>13, <1>14, <1>15, <1>16, <1>17, <1>18 DEF MemInv

LEMMA ReturnPreserves ==
  ASSUME MemCtlAssumption, MemInv, NEW t \in Tasks, Return(t)
  PROVE  MemInv'
<1> DEFINE to == IF dying /\ t = Main THEN "onClose" ELSE "client"
<1>1. /\ at[t] = "return" /\ held' = held \cup ({ptr[t]} \ {0})
      /\ pc' = pc /\ used' = used /\ UNCHANGED <<heap, list, block, mblock, calls>>
      /\ dying' = dying /\ fork' = fork
      /\ UNCHANGED <<kills, lost, unlisted, hit, late, odd, skipped>>
  BY ComputeDoes DEF Return, history
<1>2. /\ at' \in [Tasks -> Places] /\ ptr' \in [Tasks -> 0..MaxAddr]
      /\ inode' \in [Tasks -> 0..MaxInodes]
      /\ at'[t] = to /\ ptr'[t] = 0 /\ inode'[t] = 0
      /\ \A u \in Tasks \ {t} : at'[u] = at[u] /\ ptr'[u] = ptr[u] /\ inode'[u] = inode[u]
  <2>1. to \in Places /\ 0 \in 0..MaxAddr /\ 0 \in 0..MaxInodes
    BY Numbers DEF Places, ClientPlaces, DeathPlaces
  <2>2. Local(t, to, 0, 0)
    BY DEF Return
  <2> HIDE DEF to
  <2>3. QED
    BY <2>1, <2>2, LocalDoes
<1>3. to \in {"onClose", "client"}
  OBVIOUS
<1>4. Departed => t = Main /\ to = "onClose"
  BY <1>1 DEF Departed
<1>5. ~Departed => to = "client"
  BY <1>1 DEF MemInv, PhaseExact
<1> HIDE DEF to
<1>6. Order' = Order /\ ListInOrder'
  BY <1>1, ListStays DEF MemInv
<1>7. Full' = Full /\ Settled' = Settled /\ Members' = Members
  BY <1>1, <1>2, <1>3, ViewStays DEF Altering, Emptying
<1>8. Departed' = Departed
  BY <1>1, <1>2, <1>3 DEF Departed, MemInv, PhaseExact
<1>9. \A a \in Addrs : Pending(a)' = Pending(a)
  BY <1>1, <1>2, <1>3 DEF Pending, Allocs
<1>10. ptr[t] # 0 => /\ ptr[t] \in Addrs /\ heap[ptr[t]] # "free" /\ ptr[t] \notin lost
                     /\ \A u \in Tasks : ptr[u] = ptr[t] => u = t
  BY Numbers DEF MemInv, MemTypes, HandsExact
<1>11. MemTypes'
  BY <1>1, <1>2, <1>10 DEF MemInv, MemTypes
<1>12. AloneInList' /\ UsedExact'
  BY <1>1, <1>2, <1>3, <1>8 DEF MemInv, AloneInList, UsedExact, InList
<1>13. InodesExact'
  BY <1>1, <1>2, <1>3, <1>7 DEF MemInv, InodesExact, Emptying
<1>14. PendingExact'
  BY <1>1, <1>2, <1>3, <1>7 DEF MemInv, PendingExact, Allocs
<1>15. NamesExact'
  BY <1>1, <1>7, <1>9 DEF MemInv, NamesExact
<1>16. HandsExact'
  BY <1>1, <1>2, <1>3 DEF MemInv, HandsExact, Allocs, ClientPlaces
<1>17. LostExact'
  BY <1>1 DEF MemInv, LostExact
<1>18. HeldExact'
  <2>1. \A a \in held' : a # 0 /\ (a \in held \/ (a = ptr[t] /\ a # 0))
    BY <1>1, Numbers DEF MemInv, MemTypes
  <2>2. QED
    BY <1>1, <1>2, <1>8, <1>10, <2>1 DEF MemInv, HeldExact
<1>19. PhaseExact'
  BY <1>1, <1>2, <1>4, <1>5, <1>8 DEF MemInv, PhaseExact, ClientPlaces, DeathPlaces
<1>20. CreateExact'
  BY <1>1, <1>2, <1>3 DEF MemInv, CreateExact
<1>21. ForkExact'
  BY <1>1, <1>2, <1>4, <1>7, <1>8 DEF MemInv, ForkExact, Frees
<1>22. DeathExact'
  BY <1>1, <1>2, <1>3, <1>7 DEF MemInv, DeathExact
<1>23. QED
  BY <1>6, <1>11, <1>12, <1>13, <1>14, <1>15, <1>16, <1>17, <1>18, <1>19, <1>20, <1>21, <1>22
     DEF MemInv

\* A task at "client" belongs to a process that lives.
LEMMA ClientLives ==
  ASSUME MemCtlAssumption, MemInv, NEW t \in Tasks, at[t] = "client", NEW to \in ClientPlaces,
         at'[t] = to, \A u \in Tasks \ {t} : at'[u] = at[u], dying' = dying,
         pc' = pc, used' = used, to \notin InList
  PROVE  /\ ~Departed /\ ~Departed' /\ (t = Main => ~dying)
         /\ PhaseExact' /\ AloneInList' /\ UsedExact'
<1>1. ~Departed
  BY DEF Departed, MemInv, PhaseExact, DeathPlaces, Frees
<1>2. t = Main => ~dying
  BY <1>1 DEF MemInv, PhaseExact
<1>3. ~Departed'
  BY <1>1, <1>2 DEF Departed, ClientPlaces, Allocs, Frees, InList
<1>4. PhaseExact'
  BY <1>1, <1>2, <1>3 DEF MemInv, PhaseExact, MemCtlAssumption, ClientPlaces, Allocs, Frees, InList
<1>5. AloneInList'
  BY <1>1 DEF MemInv, AloneInList
<1>6. UsedExact'
  BY <1>1 DEF MemInv, UsedExact
<1>7. QED
  BY <1>1, <1>2, <1>3, <1>4, <1>5, <1>6

LEMMA FreePreserves ==
  ASSUME MemCtlAssumption, MemInv, NEW t \in Tasks, Free(t)
  PROVE  MemInv'
<1>1. PICK a \in held : /\ held' = held \ {a}
                        /\ Local(t, IF heap[a] = "ws" THEN "free_ws" ELSE "memoryFree", a, 0)
  BY DEF Free
<1> DEFINE to == IF heap[a] = "ws" THEN "free_ws" ELSE "memoryFree"
<1>2. /\ at[t] = "client" /\ pc' = pc /\ used' = used /\ UNCHANGED <<heap, list, block, mblock, calls>>
      /\ dying' = dying /\ fork' = fork
      /\ UNCHANGED <<kills, lost, unlisted, hit, late, odd, skipped>>
  BY ComputeDoes DEF Free, history
<1>3. /\ at' \in [Tasks -> Places] /\ ptr' \in [Tasks -> 0..MaxAddr]
      /\ inode' \in [Tasks -> 0..MaxInodes]
      /\ at'[t] = to /\ ptr'[t] = a /\ inode'[t] = 0
      /\ \A u \in Tasks \ {t} : at'[u] = at[u] /\ ptr'[u] = ptr[u] /\ inode'[u] = inode[u]
  <2>1. to \in Places /\ a \in 0..MaxAddr /\ 0 \in 0..MaxInodes
    BY Numbers DEF Places, ClientPlaces, Frees, MemInv, MemTypes
  <2>2. Local(t, to, a, 0)
    BY <1>1
  <2> HIDE DEF to
  <2>3. QED
    BY <2>1, <2>2, LocalDoes
<1>4. /\ to \in Frees /\ to \in {"free_ws", "memoryFree"} /\ to \in ClientPlaces
      /\ to \notin InList
  BY DEF Frees, ClientPlaces, InList
<1>5. /\ ~Departed /\ ~Departed' /\ (t = Main => ~dying)
      /\ PhaseExact' /\ AloneInList' /\ UsedExact'
  BY <1>2, <1>3, <1>4, ClientLives
<1>6. /\ a \in Addrs /\ a # 0 /\ heap[a] # "free" /\ a \notin lost /\ \A u \in Tasks : ptr[u] # a
      /\ heap[a] \in {"free", "malloc", "ws"}
  BY <1>1, <1>5, Numbers DEF MemInv, MemTypes, HeldExact
<1>7. heap[a] = IF to = "free_ws" THEN "ws" ELSE "malloc"
  BY <1>6
<1> HIDE DEF to
<1>8. Order' = Order /\ ListInOrder'
  BY <1>2, ListStays DEF MemInv
<1>9. Full' = Full /\ Settled' = Settled /\ Members' = Members
  BY <1>2, <1>3, <1>4, ViewStays DEF Altering, Emptying
<1>10. \A b \in Addrs : Pending(b)' = Pending(b)
  BY <1>2, <1>3, <1>4 DEF Pending, Allocs
<1>11. MemTypes'
  BY <1>1, <1>2, <1>3 DEF MemInv, MemTypes
<1>13. InodesExact'
  BY <1>2, <1>3, <1>4, <1>9 DEF MemInv, InodesExact, Emptying
<1>14. PendingExact'
  BY <1>2, <1>3, <1>4, <1>9 DEF MemInv, PendingExact, Allocs
<1>15. NamesExact'
  BY <1>2, <1>9, <1>10 DEF MemInv, NamesExact
<1>16. HandsExact'
  BY <1>2, <1>3, <1>4, <1>6, <1>7 DEF MemInv, HandsExact, Allocs, ClientPlaces
<1>17. LostExact'
  BY <1>2 DEF MemInv, LostExact
<1>18. HeldExact'
  BY <1>1, <1>2, <1>3, <1>5 DEF MemInv, HeldExact
<1>19. CreateExact'
  BY <1>2, <1>3, <1>4, <1>5 DEF MemInv, CreateExact, Free
<1>20. ForkExact'
  BY <1>5 DEF ForkExact
<1>21. DeathExact'
  BY <1>2, <1>3, <1>4, <1>9 DEF MemInv, DeathExact
<1>22. QED
  BY <1>5, <1>8, <1>11, <1>13, <1>14, <1>15, <1>16, <1>17, <1>18, <1>19, <1>20, <1>21
     DEF MemInv

LEMMA ReallocPreserves ==
  ASSUME MemCtlAssumption, MemInv, NEW t \in Tasks, Realloc(t)
  PROVE  MemInv'
<1>1. PICK a \in held : /\ heap[a] = "malloc" /\ held' = held \ {a}
                        /\ Local(t, "memoryRealloc", a, 0)
  BY DEF Realloc
<1>2. /\ at[t] = "client" /\ pc' = pc /\ used' = used /\ UNCHANGED <<heap, list, block, mblock>>
      /\ dying' = dying /\ fork' = fork
      /\ UNCHANGED <<kills, lost, unlisted, hit, late, odd, skipped>>
  BY ComputeDoes DEF Realloc, history
<1>3. /\ at' \in [Tasks -> Places] /\ ptr' \in [Tasks -> 0..MaxAddr]
      /\ inode' \in [Tasks -> 0..MaxInodes]
      /\ at'[t] = "memoryRealloc" /\ ptr'[t] = a /\ inode'[t] = 0
      /\ \A u \in Tasks \ {t} : at'[u] = at[u] /\ ptr'[u] = ptr[u] /\ inode'[u] = inode[u]
  <2>1. "memoryRealloc" \in Places /\ a \in 0..MaxAddr /\ 0 \in 0..MaxInodes
    BY Numbers DEF Places, ClientPlaces, MemInv, MemTypes
  <2>2. QED
    BY <1>1, <2>1, LocalDoes, Zenon
<1>4. "memoryRealloc" \in ClientPlaces /\ "memoryRealloc" \notin InList
  BY DEF ClientPlaces, InList
<1>5. /\ ~Departed /\ ~Departed' /\ (t = Main => ~dying)
      /\ PhaseExact' /\ AloneInList' /\ UsedExact'
  BY <1>2, <1>3, <1>4, ClientLives
<1>6. a \in Addrs /\ a # 0 /\ a \notin lost /\ \A u \in Tasks : ptr[u] # a
  BY <1>1, <1>5, Numbers DEF MemInv, MemTypes, HeldExact
<1>8. Order' = Order /\ ListInOrder'
  BY <1>2, ListStays DEF MemInv
<1>9. Full' = Full /\ Settled' = Settled /\ Members' = Members
  BY <1>2, <1>3, ViewStays DEF Altering, Emptying
<1>10. \A b \in Addrs : Pending(b)' = Pending(b)
  BY <1>2, <1>3 DEF Pending, Allocs
<1>11. MemTypes'
  BY <1>1, <1>2, <1>3 DEF MemInv, MemTypes
<1>13. InodesExact'
  BY <1>2, <1>3, <1>9 DEF MemInv, InodesExact, Emptying
<1>14. PendingExact'
  BY <1>2, <1>3, <1>9 DEF MemInv, PendingExact, Allocs
<1>15. NamesExact'
  BY <1>2, <1>9, <1>10 DEF MemInv, NamesExact
<1>16. HandsExact'
  BY <1>1, <1>2, <1>3, <1>4, <1>6 DEF MemInv, HandsExact, Allocs, ClientPlaces
<1>17. LostExact'
  BY <1>2 DEF MemInv, LostExact
<1>18. HeldExact'
  BY <1>1, <1>2, <1>3, <1>5 DEF MemInv, HeldExact
<1>19. CreateExact'
  BY <1>2, <1>3, <1>5 DEF MemInv, CreateExact, Realloc
<1>20. ForkExact'
  BY <1>5 DEF ForkExact
<1>21. DeathExact'
  BY <1>2, <1>3, <1>9 DEF MemInv, DeathExact
<1>22. QED
  BY <1>5, <1>8, <1>11, <1>13, <1>14, <1>15, <1>16, <1>17, <1>18, <1>19, <1>20, <1>21
     DEF MemInv

LEMMA AllocPreserves ==
  ASSUME MemCtlAssumption, MemInv, NEW t \in Tasks, NEW name \in Allocs, Alloc(t, name)
  PROVE  MemInv'
<1> DEFINE destroy == IF name = "alloc_ws" THEN "free_ws" ELSE "memoryFree"
<1>1. PICK p \in 0..MaxAddr, n \in FreeInode :
        /\ block' = [block EXCEPT ![n] = [ptr |-> p, destroy |-> destroy]]
        /\ heap' = IF p = 0 THEN heap ELSE [heap EXCEPT ![p] = Kind(name)]
        /\ Local(t, name, p, n)
        /\ p # 0 => p \in Addrs /\ heap[p] = "free"
        /\ p = 0 => name = "memoryAlloc"
  <2>1. CASE \E a \in Addrs, n \in FreeInode :
               /\ heap[a] = "free"
               /\ heap' = [heap EXCEPT ![a] = Kind(name)]
               /\ block' = [block EXCEPT ![n] = [ptr |-> a, destroy |-> destroy]]
               /\ Local(t, name, a, n)
    BY <2>1, Numbers
  <2>2. CASE \E n \in FreeInode :
               /\ name = "memoryAlloc"
               /\ block' = [block EXCEPT ![n] = [ptr |-> 0, destroy |-> "memoryFree"]]
               /\ Local(t, name, 0, n)
               /\ UNCHANGED heap
    <3>1. destroy = "memoryFree" /\ 0 \in 0..MaxAddr
      BY <2>2, Numbers
    <3>2. QED
      BY <2>2, <3>1
  <2>3. QED
    BY <2>1, <2>2 DEF Alloc
<1>2. /\ at[t] = "client" /\ mblock /\ pc' = pc /\ used' = used
      /\ UNCHANGED <<list, mblock, held>>
      /\ dying' = dying /\ fork' = fork
      /\ UNCHANGED <<kills, lost, unlisted, hit, late, odd, skipped>>
  BY ComputeDoes DEF Alloc, history
<1>3. /\ name \in Places /\ name \in ClientPlaces /\ name \in {"memoryAlloc", "alloc_ws"}
      /\ name \notin InList
  BY DEF Places, ClientPlaces, Allocs, InList
<1>4. n \in Inodes /\ n \in 0..MaxInodes /\ block[n] = NoBlock
  BY Numbers DEF FreeInode
<1>5. /\ at' \in [Tasks -> Places] /\ ptr' \in [Tasks -> 0..MaxAddr]
      /\ inode' \in [Tasks -> 0..MaxInodes]
      /\ at'[t] = name /\ ptr'[t] = p /\ inode'[t] = n
      /\ \A u \in Tasks \ {t} : at'[u] = at[u] /\ ptr'[u] = ptr[u] /\ inode'[u] = inode[u]
  BY <1>1, <1>3, <1>4, LocalDoes
<1>6. /\ ~Departed /\ ~Departed' /\ (t = Main => ~dying)
      /\ PhaseExact' /\ AloneInList' /\ UsedExact'
  BY <1>2, <1>3, <1>5, ClientLives
<1>7. /\ destroy \in {"memoryFree", "free_ws"} /\ (destroy = "free_ws" <=> name = "alloc_ws")
      /\ destroy \in {"none", "memoryFree", "free_ws", "unset"}
      /\ Kind(name) \in {"free", "malloc", "ws"} /\ Kind(name) # "free"
      /\ Kind(name) = IF name = "alloc_ws" THEN "ws" ELSE "malloc"
  BY <1>3 DEF Kind
<1> HIDE DEF destroy
<1>8. /\ heap \in [Addrs -> {"free", "malloc", "ws"}]
      /\ block \in [Inodes -> [ptr : 0..MaxAddr,
                               destroy : {"none", "memoryFree", "free_ws", "unset"}]]
  BY DEF MemInv, MemTypes
<1>9. /\ block'[n] = [ptr |-> p, destroy |-> destroy]
      /\ \A m \in Inodes \ {n} : block'[m] = block[m]
      /\ block' \in [Inodes -> [ptr : 0..MaxAddr,
                                destroy : {"none", "memoryFree", "free_ws", "unset"}]]
  BY <1>1, <1>4, <1>7, <1>8
<1>10. /\ p # 0 => heap'[p] = Kind(name)
       /\ \A a \in Addrs \ {p} : heap'[a] = heap[a]
       /\ heap' \in [Addrs -> {"free", "malloc", "ws"}]
  BY <1>1, <1>7, <1>8
<1>11. Order' = Order /\ ListInOrder'
  BY <1>2, ListStays DEF MemInv
<1>12. Full' = Full /\ Settled' = Settled /\ Members' = Members
  BY <1>2, <1>3, <1>5, ViewStays DEF Altering, Emptying
<1>13. Settled \subseteq Full /\ Full \subseteq Inodes
  BY ListFacts
<1>14. n \notin Full /\ \A u \in Tasks : at[u] \in Allocs => inode[u] # n
  <2>1. block[n].destroy = "none"
    BY <1>4 DEF NoBlock
  <2>2. n \notin Full
    BY <2>1 DEF MemInv, InodesExact
  <2>3. ASSUME NEW u \in Tasks, at[u] \in Allocs PROVE inode[u] # n
    <3>1. block[inode[u]] =
            [ptr |-> ptr[u], destroy |-> IF at[u] = "alloc_ws" THEN "free_ws" ELSE "memoryFree"]
      BY <2>3 DEF MemInv, PendingExact
    <3>2. block[inode[u]].destroy # "none"
      BY <3>1
    <3>3. QED
      BY <2>1, <3>2
  <2>4. QED
    BY <2>1, <2>2, <2>3
<1>15. p # 0 => /\ p \in Addrs /\ p \notin lost /\ p \notin unlisted /\ p \notin held
                /\ \A u \in Tasks : ptr[u] # p
  <2>1. p # 0 => p \in Addrs /\ heap[p] = "free"
    BY <1>1
  <2>2. QED
    BY <1>6, <2>1 DEF MemInv, LostExact, HeldExact, HandsExact
<1>16. \A b \in Addrs : Pending(b)' <=> Pending(b) \/ b = p
  BY <1>2, <1>5 DEF Pending, Allocs
<1>17. MemTypes'
  BY <1>2, <1>5, <1>9, <1>10 DEF MemInv, MemTypes
<1>19. InodesExact'
  <2>1. \A u \in Tasks : at[u] = "store" => block[inode[u]].destroy # "free_ws" /\ inode[u] # n
    <3>1. \A u \in Tasks : at[u] = "store" => inode[u] \in Full
      <4>1. ASSUME NEW u \in Tasks, at[u] = "store" PROVE inode[u] \in Full
        <5>1. at[u] \in InList /\ at[u] \notin Emptying
          BY <4>1 DEF InList, Emptying
        <5>2. Full = Members
          BY <5>1, OnlyInList
        <5>3. QED
          BY <4>1, <5>2 DEF MemInv, InodesExact
      <4>2. QED
        BY <4>1
    <3>2. QED
      BY <1>14, <3>1 DEF MemInv, InodesExact
  <2>2. \A m \in Full : m # n /\ block'[m] = block[m]
    BY <1>9, <1>13, <1>14
  <2>3. \A u \in Tasks : at[u] = "store" => block'[inode[u]].destroy # "free_ws"
    <3>1. \A u \in Tasks : at[u] = "store" => inode[u] \in Inodes
      BY ListFacts DEF MemInv, InodesExact
    <3>2. QED
      BY <1>9, <2>1, <3>1
  <2>4. QED
    BY <1>2, <1>3, <1>5, <1>12, <2>2, <2>3 DEF MemInv, InodesExact, Emptying
<1>20. PendingExact'
  <2>1. \A u \in Tasks \ {t} : at[u] \in Allocs => inode[u] # n /\ block'[inode[u]] = block[inode[u]]
    BY <1>9, <1>14 DEF MemInv, PendingExact
  <2>2. block'[n] = [ptr |-> p, destroy |-> IF name = "alloc_ws" THEN "free_ws" ELSE "memoryFree"]
    BY <1>7, <1>9
  <2>3. QED
    BY <1>2, <1>4, <1>5, <1>12, <1>14, <2>1, <2>2 DEF MemInv, PendingExact
<1>21. NamesExact'
  <2>1. \A m \in Settled : block'[m] = block[m] /\ m \in Inodes
    BY <1>9, <1>13, <1>14
  <2>2. ASSUME NEW a \in Addrs
        PROVE  (\E m \in Settled : block'[m].ptr = a) <=>
                 heap'[a] # "free" /\ ~Pending(a)' /\ a \notin lost' /\ a \notin unlisted'
    <3>1. (\E m \in Settled : block[m].ptr = a) <=>
             heap[a] # "free" /\ ~Pending(a) /\ a \notin lost /\ a \notin unlisted
      BY DEF MemInv, NamesExact
    <3>2. CASE a = p
      <4>1. heap[a] = "free" /\ Pending(a)'
        BY <1>1, <1>16, <3>2, Numbers
      <4>2. QED
        BY <2>1, <3>1, <4>1
    <3>3. CASE a # p
      BY <1>2, <1>10, <1>16, <2>1, <3>1, <3>3
    <3>4. QED
      BY <3>2, <3>3
  <2>3. ASSUME NEW m \in Settled, block[m].ptr # 0
        PROVE  heap'[block[m].ptr] = heap[block[m].ptr]
    <3>1. block[m].ptr \in Addrs /\ heap[block[m].ptr] # "free"
      <4>1. block[m].ptr \in Addrs
        BY <1>8, <1>13, <2>3, Numbers
      <4>2. QED
        BY <4>1 DEF MemInv, NamesExact
    <3>2. block[m].ptr # p
      BY <1>1, <2>3, <3>1
    <3>3. QED
      BY <1>10, <3>1, <3>2
  <2>4. QED
    BY <1>12, <2>1, <2>2, <2>3 DEF MemInv, NamesExact
<1>22. HandsExact'
  <2>1. ASSUME NEW u \in Tasks \ {t}, ptr[u] # 0
        PROVE  ptr[u] # p /\ heap'[ptr[u]] = heap[ptr[u]]
    <3>1. ptr[u] \in Addrs /\ heap[ptr[u]] # "free"
      BY <2>1, Numbers DEF MemInv, MemTypes, HandsExact
    <3>2. QED
      BY <1>1, <1>10, <2>1, <3>1
  <2>2. \A u \in Tasks \ {t} : at[u] \in {"alloc_ws", "free_ws", "memoryFree", "memoryRealloc"}
                                 => ptr[u] # 0
    BY DEF MemInv, HandsExact
  <2>3. ASSUME NEW u \in Tasks \ {t}
        PROVE  /\ ptr'[u] # 0 =>
                    /\ heap'[ptr'[u]] # "free" /\ ptr'[u] \notin lost'
                    /\ at'[u] \in Allocs \cup {"store"} => ptr'[u] \notin unlisted'
                    /\ \A v \in Tasks : ptr'[v] = ptr'[u] => v = u
                    /\ at'[u] \in ClientPlaces \ {"client", "unlink"}
               /\ at'[u] \in {"alloc_ws", "free_ws"} => ptr'[u] # 0 /\ heap'[ptr'[u]] = "ws"
               /\ at'[u] \in {"memoryFree", "memoryRealloc"} =>
                    ptr'[u] # 0 /\ heap'[ptr'[u]] = "malloc"
               /\ at'[u] \in {"memoryAlloc", "store"} /\ ptr'[u] # 0 => heap'[ptr'[u]] = "malloc"
               /\ at'[u] = "free" => ptr'[u] # 0
    BY <1>2, <1>5, <2>1, <2>2 DEF MemInv, HandsExact
  <2>4. /\ p # 0 =>
             /\ heap'[p] # "free" /\ p \notin lost'
             /\ p \notin unlisted'
             /\ \A v \in Tasks : ptr'[v] = p => v = t
             /\ name \in ClientPlaces \ {"client", "unlink"}
        /\ name = "alloc_ws" => p # 0 /\ heap'[p] = "ws"
        /\ name = "memoryAlloc" /\ p # 0 => heap'[p] = "malloc"
    BY <1>1, <1>2, <1>3, <1>5, <1>7, <1>10, <1>15
  <2>5. QED
    BY <1>3, <1>5, <2>3, <2>4 DEF HandsExact
<1>23. LostExact'
  BY <1>1, <1>2, <1>10, <1>15 DEF MemInv, LostExact, MemTypes
<1>24. HeldExact'
  BY <1>1, <1>2, <1>5, <1>6, <1>10, <1>15, Numbers DEF MemInv, HeldExact, MemTypes
<1>25. CreateExact'
  BY <1>2, <1>3, <1>5, <1>6 DEF MemInv, CreateExact
<1>26. ForkExact'
  BY <1>6 DEF ForkExact
<1>27. DeathExact'
  <2>1. \A m \in Full : block'[m] = block[m]
    BY <1>9, <1>13, <1>14
  <2>2. QED
    BY <1>2, <1>3, <1>5, <1>12, <2>1 DEF MemInv, DeathExact
<1>28. QED
  BY <1>6, <1>11, <1>17, <1>19, <1>20, <1>21, <1>22, <1>23, <1>24, <1>25, <1>26, <1>27
     DEF MemInv

LEMMA OnCreatePreserves ==
  ASSUME MemCtlAssumption, MemInv, onCreate
  PROVE  MemInv'
<1>1. /\ at[Main] = "onCreate" /\ list' = list /\ ~dying
      /\ UNCHANGED <<heap, block, held, calls, ptr, inode, dying, fork>>
      /\ UNCHANGED <<kills, lost, unlisted, hit, late, odd, skipped>>
  BY DEF onCreate, history, MemInv, CreateExact
<1>2. PICK to \in {"client", "bare"} :
        /\ at' = [at EXCEPT ![Main] = to] /\ pc' = pc
        /\ to = "client" => mblock' = TRUE /\ used'
        /\ to = "bare" => mblock' = mblock
  <2>1. CASE CreateMutex(Main)
    <3>1. pc' = pc /\ used'
      BY <2>1 DEF CreateMutex, Goto, MemInv, MemTypes
    <3>2. CASE at' = [at EXCEPT ![Main] = "client"] /\ mblock' = TRUE
      BY <3>1, <3>2
    <3>3. CASE at' = [at EXCEPT ![Main] = "bare"] /\ mblock' = mblock
      BY <3>1, <3>3
    <3>4. QED
      BY <3>2, <3>3 DEF onCreate
  <2>2. CASE Compute(Main, "idle") /\ at' = [at EXCEPT ![Main] = "bare"] /\ mblock' = mblock
    <3>1. pc' = pc
      BY <2>2, Numbers, ComputeDoes
    <3>2. QED
      BY <2>2, <3>1
  <2>3. QED
    BY <2>1, <2>2 DEF onCreate
<1>3. /\ at \in [Tasks -> Places] /\ at' \in [Tasks -> Places] /\ Main \in Tasks
      /\ at'[Main] = to /\ \A u \in Tasks \ {Main} : at'[u] = at[u]
  BY <1>2, Numbers DEF MemInv, MemTypes, Places, ClientPlaces
<1>4. Order' = Order /\ ListInOrder'
  BY <1>1, ListStays DEF MemInv
<1>5. Full' = Full /\ Settled' = Settled /\ Members' = Members
  BY <1>1, <1>3, ViewStays DEF Altering, Emptying
<1>6. ~Departed /\ ~Departed'
  BY <1>1 DEF Departed
<1>7. \A a \in Addrs : Pending(a)' = Pending(a)
  BY <1>1, <1>3 DEF Pending, Allocs
<1>8. MemTypes'
  BY <1>1, <1>2, <1>3 DEF MemInv, MemTypes
<1>9. AloneInList' /\ UsedExact'
  BY <1>1, <1>2, <1>3, <1>6 DEF MemInv, AloneInList, UsedExact, InList
<1>10. InodesExact'
  BY <1>1, <1>3, <1>5 DEF MemInv, InodesExact, Emptying
<1>11. PendingExact'
  BY <1>1, <1>3, <1>5 DEF MemInv, PendingExact, Allocs
<1>12. NamesExact'
  BY <1>1, <1>5, <1>7 DEF MemInv, NamesExact
<1>13. HandsExact'
  <2>1. ptr[Main] = 0
    BY <1>1, <1>3 DEF MemInv, HandsExact, ClientPlaces, Allocs, Frees, InList
  <2>2. QED
    BY <1>1, <1>3, <2>1 DEF MemInv, HandsExact, Allocs
<1>14. LostExact' /\ HeldExact'
  BY <1>1, <1>6 DEF MemInv, LostExact, HeldExact
<1>15. PhaseExact'
  BY <1>1, <1>3, <1>6 DEF MemInv, PhaseExact, ClientPlaces
<1>16. CreateExact'
  BY <1>1, <1>2, <1>3 DEF MemInv, CreateExact
<1>17. ForkExact'
  BY <1>6 DEF ForkExact
<1>18. DeathExact'
  BY <1>1, <1>2, <1>3, <1>5 DEF MemInv, DeathExact
<1>19. QED
  BY <1>4, <1>8, <1>9, <1>10, <1>11, <1>12, <1>13, <1>14, <1>15, <1>16, <1>17, <1>18 DEF MemInv

\* The process returns from main.
LEMMA ExitPreserves ==
  ASSUME MemCtlAssumption, MemInv, Exit
  PROVE  MemInv'
<1>0. Main \in Tasks
  BY Numbers
<1>1. /\ at[Main] = "client" /\ at' = [at EXCEPT ![Main] = "dying"] /\ dying' = TRUE
      /\ mblock /\ UNCHANGED <<heap, list, block, mblock, held, calls, ptr, inode, fork>>
      /\ UNCHANGED <<kills, lost, unlisted, hit, late, odd, skipped>>
      /\ pc' = pc /\ used' = used
  BY <1>0, ComputeDoes DEF Exit, history, memory
<1>3. /\ at \in [Tasks -> Places] /\ at' \in [Tasks -> Places] /\ Main \in Tasks
      /\ at'[Main] = "dying" /\ \A u \in Tasks \ {Main} : at'[u] = at[u]
  BY <1>0, <1>1 DEF MemInv, MemTypes, Places
<1>4. Order' = Order /\ ListInOrder'
  BY <1>1, ListStays DEF MemInv
<1>5. Full' = Full /\ Settled' = Settled /\ Members' = Members
  BY <1>1, <1>3, ViewStays DEF Altering, Emptying
<1>6. ~Departed
  BY <1>1 DEF MemInv, PhaseExact, DeathPlaces, Frees
<1>7. \A a \in Addrs : Pending(a)' = Pending(a)
  BY <1>1, <1>3 DEF Pending, Allocs
<1>8. MemTypes'
  BY <1>1, <1>3 DEF MemInv, MemTypes
<1>9. AloneInList' /\ UsedExact'
  BY <1>1, <1>3, <1>6 DEF MemInv, AloneInList, UsedExact, InList
<1>10. InodesExact'
  BY <1>1, <1>3, <1>5 DEF MemInv, InodesExact, Emptying
<1>11. PendingExact'
  BY <1>1, <1>3, <1>5 DEF MemInv, PendingExact, Allocs
<1>12. NamesExact'
  BY <1>1, <1>5, <1>7 DEF MemInv, NamesExact
<1>13. HandsExact'
  <2>1. ptr[Main] = 0
    BY <1>1, <1>3 DEF MemInv, HandsExact, ClientPlaces, Allocs, Frees, InList
  <2>2. QED
    BY <1>1, <1>3, <2>1 DEF MemInv, HandsExact, Allocs
<1>14. LostExact' /\ HeldExact'
  BY <1>1, <1>6 DEF MemInv, LostExact, HeldExact
<1>15. PhaseExact'
  BY <1>1, <1>3, <1>6 DEF MemInv, PhaseExact, Departed
<1>16. CreateExact'
  BY <1>3 DEF CreateExact
<1>17. ForkExact'
  BY <1>3 DEF ForkExact
<1>18. DeathExact'
  BY <1>1, <1>3, <1>5 DEF MemInv, DeathExact
<1>19. QED
  BY <1>4, <1>8, <1>9, <1>10, <1>11, <1>12, <1>13, <1>14, <1>15, <1>16, <1>17, <1>18 DEF MemInv

\* The main is killed; where it had the mutex nothing is said any more.
LEMMA KillPreserves ==
  ASSUME MemCtlAssumption, MemInv, Kill, ~hit'
  PROVE  MemInv'
<1>0. Main \in Tasks /\ 0 \in 0..MaxAddr /\ 0 \in 0..MaxInodes /\ "dying" \in Places
  BY Numbers DEF Places
<1>1. /\ at[Main] \notin {"onCreate", "bare", "wild", "dead"}
      /\ pc' = [pc EXCEPT ![Main] = "idle"] /\ dying' = TRUE /\ fork' = << >>
      /\ Local(Main, "dying", 0, 0) /\ lost' = lost \cup Dropped(Main)
      /\ ~InTheList(Main) /\ used' = used /\ (late \/ at[Main] = "closed" => late')
      /\ UNCHANGED <<heap, list, block, mblock, held, calls, unlisted, odd>>
  BY DEF Kill, memory
<1>2. /\ at' \in [Tasks -> Places] /\ ptr' \in [Tasks -> 0..MaxAddr]
      /\ inode' \in [Tasks -> 0..MaxInodes]
      /\ at'[Main] = "dying" /\ ptr'[Main] = 0 /\ inode'[Main] = 0
      /\ \A u \in Tasks \ {Main} : at'[u] = at[u] /\ ptr'[u] = ptr[u] /\ inode'[u] = inode[u]
  BY <1>0, <1>1, LocalDoes
<1>3. at[Main] \notin {"free", "unlink", "store"} /\ ~Owns(Main)
  BY <1>1 DEF InTheList
<1>4. Order' = Order /\ ListInOrder'
  BY <1>1, ListStays DEF MemInv
<1>5. Full' = Full /\ Settled' = Settled /\ Members' = Members
  BY <1>1, <1>2, <1>3, ViewStays DEF Altering, Emptying
<1>6. Departed => Departed'
  BY <1>1, <1>2 DEF Departed
<1>7. lost' = lost \cup (IF at[Main] \in Allocs THEN {ptr[Main]} \ {0} ELSE {})
  BY <1>1 DEF Dropped
<1>8. ptr[Main] # 0 => /\ ptr[Main] \in Addrs /\ heap[ptr[Main]] # "free"
                       /\ at[Main] \in Allocs => ptr[Main] \notin unlisted
                       /\ \A u \in Tasks \ {Main} : ptr[u] # ptr[Main]
                       /\ ptr[Main] \notin lost
  BY <1>0, Numbers DEF MemInv, MemTypes, HandsExact
<1>9. \A a \in Addrs : ~Pending(a)' /\ a \notin lost' <=> ~Pending(a) /\ a \notin lost
  <2>1. ASSUME NEW a \in Addrs
        PROVE  ~Pending(a)' /\ a \notin lost' <=> ~Pending(a) /\ a \notin lost
    <3>1. a # 0
      BY Numbers
    <3>2. Pending(a) <=> Pending(a)' \/ (at[Main] \in Allocs /\ ptr[Main] = a)
      BY <1>0, <1>2, <1>3, <3>1 DEF Pending, Allocs
    <3>3. a \in lost' <=> a \in lost \/ (at[Main] \in Allocs /\ ptr[Main] = a)
      BY <1>7, <3>1
    <3>4. QED
      BY <3>2, <3>3
  <2>2. QED
    BY <2>1
<1>10. MemTypes'
  <2>1. lost' \subseteq Addrs
    BY <1>7, <1>8 DEF MemInv, MemTypes
  <2>2. pc' \in [Tasks -> Points]
    BY <1>1 DEF MemInv, MemTypes, Points
  <2>3. fork' \in Seq(Inodes \cup {0})
    BY <1>1
  <2>4. QED
    BY <1>1, <1>2, <2>1, <2>2, <2>3 DEF MemInv, MemTypes
<1>11. AloneInList' /\ UsedExact'
  <2>1. pc \in [Tasks -> Points] /\ "dying" \notin InList
    BY DEF MemInv, MemTypes, InList
  <2>2. \A u \in Tasks \ {Main} : pc'[u] = pc[u]
    BY <1>1, <2>1
  <2>3. AloneInList'
    BY <1>2, <1>6, <2>1, <2>2 DEF MemInv, AloneInList
  <2>4. UsedExact'
    BY <1>1, <1>6 DEF MemInv, UsedExact
  <2>5. QED
    BY <2>3, <2>4
<1>12. InodesExact'
  BY <1>1, <1>2, <1>5 DEF MemInv, InodesExact, Emptying
<1>13. PendingExact'
  <2>1. ASSUME NEW u \in Tasks, at'[u] \in Allocs
        PROVE  u # Main /\ at'[u] = at[u] /\ ptr'[u] = ptr[u] /\ inode'[u] = inode[u]
    BY <1>2, <2>1 DEF Allocs
  <2>2. block' = block
    BY <1>1
  <2>3. QED
    BY <1>5, <2>1, <2>2 DEF MemInv, PendingExact
<1>14. NamesExact'
  BY <1>1, <1>5, <1>9 DEF MemInv, NamesExact
<1>15. HandsExact'
  <2>1. \A u \in Tasks \ {Main} : ptr[u] # 0 => ptr[u] \notin lost'
    BY <1>7, <1>8 DEF MemInv, HandsExact
  <2>2. heap' = heap /\ unlisted' = unlisted
    BY <1>1
  <2>3. QED
    BY <1>2, <2>1, <2>2 DEF MemInv, HandsExact, Allocs
<1>16. LostExact'
  BY <1>1, <1>7, <1>8 DEF MemInv, LostExact
<1>17. PhaseExact'
  BY <1>1, <1>2, <1>6 DEF MemInv, PhaseExact, Departed
<1>18. HeldExact'
  <2>1. ~Departed' => ~Departed
    BY <1>6
  <2>2. \A a \in held : a # 0
    BY Numbers DEF MemInv, MemTypes
  <2>3. heap' = heap /\ held' = held
    BY <1>1
  <2>4. ASSUME ~Departed, NEW a \in held
        PROVE  heap[a] # "free" /\ a \notin lost' /\ \A u \in Tasks : ptr'[u] # a
    <3>1. heap[a] # "free" /\ a \notin lost /\ \A u \in Tasks : ptr[u] # a
      BY <2>4 DEF MemInv, HeldExact
    <3>2. a \notin lost'
      BY <1>0, <1>7, <3>1
    <3>3. QED
      BY <1>2, <2>2, <3>1, <3>2
  <2>5. QED
    BY <2>1, <2>3, <2>4 DEF HeldExact
<1>19. CreateExact'
  BY <1>2 DEF CreateExact
<1>20. ForkExact'
  BY <1>2 DEF ForkExact
<1>21. DeathExact'
  BY <1>1, <1>2, <1>5 DEF MemInv, DeathExact
<1>22. QED
  BY <1>4, <1>10, <1>11, <1>12, <1>13, <1>14, <1>15, <1>16, <1>17, <1>18, <1>19, <1>20, <1>21
     DEF MemInv

\* The threads are destroyed.
LEMMA DestroyThreadsPreserves ==
  ASSUME MemCtlAssumption, MemInv, DestroyThreads, ~hit'
  PROVE  MemInv'
<1>0. Main \in Tasks /\ 0 \in 0..MaxAddr /\ 0 \in 0..MaxInodes
  BY Numbers
<1>1. /\ at[Main] = "dying" /\ dying' = dying /\ dying
      /\ pc' = [t \in Tasks |-> "idle"]
      /\ at' = [t \in Tasks |-> IF t = Main THEN "dtors" ELSE "none"]
      /\ ptr' = [t \in Tasks |-> 0] /\ inode' = [t \in Tasks |-> 0]
      /\ lost' = lost \cup UNION {Dropped(t) : t \in Tasks}
      /\ UNCHANGED <<heap, list, block, mblock, held, calls, fork, unlisted, late, odd>>
  BY DEF DestroyThreads, memory, MemInv, PhaseExact
<1>2. \A t \in Tasks : at[t] \notin InList
  <2>1. \A t \in Tasks : ~Owns(t) /\ at[t] \notin {"free", "unlink", "store"}
    BY DEF DestroyThreads, InTheList
  <2>2. \A t \in Tasks : at[t] = "leave" => t # Main /\ ~Departed
    BY <1>1 DEF Departed
  <2>3. QED
    BY <2>1, <2>2 DEF MemInv, AloneInList, Owns, OwningPoints, InList
<1>3. /\ \A t \in Tasks : at'[t] \in {"dtors", "none"} /\ ptr'[t] = 0
      /\ at'[Main] = "dtors" /\ \A t \in Tasks \ {Main} : at'[t] = "none"
  BY <1>0, <1>1
<1>4. Order' = Order /\ ListInOrder'
  BY <1>1, ListStays DEF MemInv
<1>5. Full' = Full /\ Settled' = Settled /\ Members' = Members
  BY <1>1, <1>2, <1>3, ViewStays DEF Altering, Emptying, InList
<1>6. Departed'
  BY <1>1, <1>3 DEF Departed
<1>7. \A a \in Addrs : a \in lost' <=> a \in lost \/ Pending(a)
  <2>1. ASSUME NEW a \in Addrs
        PROVE  a \in lost' <=> a \in lost \/ Pending(a)
    <3>1. a # 0
      BY Numbers
    <3>2. Pending(a) <=> \E t \in Tasks : at[t] \in Allocs /\ ptr[t] = a
      BY <1>2 DEF Pending, InList, Allocs
    <3>3. \A t \in Tasks : a \in Dropped(t) <=> at[t] \in Allocs /\ ptr[t] = a
      BY <3>1 DEF Dropped
    <3>4. QED
      BY <1>1, <3>2, <3>3
  <2>2. QED
    BY <2>1
<1>8. \A a \in Addrs : ~Pending(a)'
  <2>1. ASSUME NEW a \in Addrs PROVE ~Pending(a)'
    <3>1. a # 0
      BY Numbers
    <3>2. QED
      BY <1>3, <3>1 DEF Pending
  <2>2. QED
    BY <2>1
<1>9. lost' \subseteq Addrs
  <2>1. \A t \in Tasks : Dropped(t) \subseteq Addrs
    BY Numbers DEF Dropped, MemInv, MemTypes
  <2>2. lost \subseteq Addrs
    BY DEF MemInv, MemTypes
  <2>3. QED
    BY <1>1, <2>1, <2>2
<1>10. MemTypes'
  <2>1. pc' \in [Tasks -> Points]
    BY <1>1 DEF Points
  <2>2. at' \in [Tasks -> Places] /\ ptr' \in [Tasks -> 0..MaxAddr]
        /\ inode' \in [Tasks -> 0..MaxInodes]
    BY <1>0, <1>1 DEF Places, DeathPlaces
  <2>3. QED
    BY <1>1, <1>9, <2>1, <2>2 DEF MemInv, MemTypes
<1>11. AloneInList' /\ UsedExact'
  BY <1>3, <1>6 DEF AloneInList, UsedExact, InList
<1>12. InodesExact'
  BY <1>1, <1>3, <1>5 DEF MemInv, InodesExact, Emptying
<1>13. PendingExact'
  BY <1>3 DEF PendingExact, Allocs
<1>14. NamesExact'
  BY <1>1, <1>5, <1>7, <1>8 DEF MemInv, NamesExact
<1>15. HandsExact'
  BY <1>3 DEF HandsExact
<1>16. LostExact'
  <2>1. \A a \in lost' : heap[a] # "free"
    <3>1. \A a \in Addrs : Pending(a) => heap[a] # "free"
      <4>1. \A t \in Tasks : ptr[t] # 0 => heap[ptr[t]] # "free"
        BY DEF MemInv, HandsExact
      <4>2. QED
        BY <4>1, Numbers DEF Pending
    <3>2. QED
      BY <1>7, <1>9, <3>1 DEF MemInv, LostExact
  <2>2. QED
    BY <1>1, <2>1 DEF MemInv, LostExact
<1>17. PhaseExact' /\ HeldExact'
  BY <1>1, <1>3, <1>6 DEF PhaseExact, HeldExact, DeathPlaces
<1>18. CreateExact' /\ ForkExact'
  BY <1>3 DEF CreateExact, ForkExact
<1>19. DeathExact'
  BY <1>1, <1>3, <1>5 DEF MemInv, DeathExact
<1>20. QED
  BY <1>4, <1>10, <1>11, <1>12, <1>13, <1>14, <1>15, <1>16, <1>17, <1>18, <1>19 DEF MemInv

\* The death goes on, in a step that leaves the blocks alone.
Resting == {"dtors", "destroy", "fork", "onClose", "closing", "closed", "dead", "wild"}

LEMMA DeathMoves ==
  ASSUME MemCtlAssumption, MemInv, at[Main] \in Resting, NEW to \in Resting,
         at' = [at EXCEPT ![Main] = to], pc' \in [Tasks -> Points],
         fork' \in Seq(Inodes \cup {0}),
         UNCHANGED <<heap, list, block, held, ptr, inode, dying, lost, unlisted, odd>>,
         ForkExact', DeathExact'
  PROVE  MemInv'
<1>1. /\ at \in [Tasks -> Places] /\ at' \in [Tasks -> Places] /\ Main \in Tasks
      /\ at'[Main] = to /\ \A u \in Tasks \ {Main} : at'[u] = at[u]
  BY Numbers DEF MemInv, MemTypes, Places, DeathPlaces, Resting
<1>2. /\ at[Main] \notin InList \cup ClientPlaces \cup {"onCreate", "bare", "dying", "none"}
      /\ to \notin InList \cup ClientPlaces \cup {"onCreate", "bare", "dying", "none"}
      /\ to \in DeathPlaces
  BY DEF Resting, InList, ClientPlaces, Allocs, Frees, DeathPlaces
<1>3. Departed
  BY <1>2 DEF MemInv, PhaseExact
<1>4. Departed'
  BY <1>1, <1>3 DEF Departed
<1>5. \A u \in Tasks \ {Main} : at[u] = "none"
  BY <1>3 DEF Departed
<1>6. Order' = Order /\ ListInOrder'
  BY ListStays DEF MemInv
<1>7. Full' = Full /\ Settled' = Settled /\ Members' = Members
  BY <1>1, <1>2, ViewStays DEF Altering, Emptying, InList
<1>8. \A a \in Addrs : Pending(a)' = Pending(a)
  BY <1>1, <1>2 DEF Pending, ClientPlaces, InList
<1>9. MemTypes'
  BY <1>1 DEF MemInv, MemTypes
<1>10. AloneInList' /\ UsedExact'
  BY <1>1, <1>2, <1>4, <1>5 DEF AloneInList, UsedExact, InList
<1>11. InodesExact'
  BY <1>1, <1>2, <1>7 DEF MemInv, InodesExact, Emptying, InList
<1>12. PendingExact'
  BY <1>1, <1>2, <1>5 DEF PendingExact, Allocs, ClientPlaces
<1>13. NamesExact'
  BY <1>7, <1>8 DEF MemInv, NamesExact
<1>14. HandsExact'
  <2>1. \A u \in Tasks : ptr[u] = 0
    BY <1>2, <1>5 DEF MemInv, HandsExact, ClientPlaces, Allocs, Frees, InList
  <2>2. \A u \in Tasks : at'[u] \notin ClientPlaces
    BY <1>1, <1>2, <1>5 DEF ClientPlaces, Allocs, Frees, InList
  <2>3. QED
    BY <2>1, <2>2 DEF HandsExact, ClientPlaces, Allocs, Frees, InList
<1>15. LostExact' /\ HeldExact'
  BY <1>4 DEF MemInv, LostExact, HeldExact
<1>16. PhaseExact'
  BY <1>1, <1>2, <1>4 DEF PhaseExact
<1>17. CreateExact'
  BY <1>1, <1>2 DEF CreateExact
<1>18. QED
  BY <1>6, <1>9, <1>10, <1>11, <1>12, <1>13, <1>14, <1>15, <1>16, <1>17 DEF MemInv

\* The process is dying and its threads are gone; nobody is in the list.
LEMMA RestingFacts ==
  ASSUME MemCtlAssumption, MemInv, at[Main] \in Resting
  PROVE  /\ Departed /\ Main \in Tasks /\ Full = Members /\ Settled = Members
         /\ \A u \in Tasks : at[u] \notin InList /\ ptr[u] = 0
<1>1. at[Main] \notin InList \cup ClientPlaces \cup {"onCreate", "bare", "dying", "none"}
  BY DEF Resting, InList, ClientPlaces, Allocs, Frees
<1>2. Departed
  BY <1>1 DEF MemInv, PhaseExact
<1>3. \A u \in Tasks : at[u] \notin InList
  BY <1>1, <1>2 DEF Departed, InList
<1>4. \A u \in Tasks : ptr[u] = 0
  BY <1>1, <1>2 DEF Departed, MemInv, HandsExact, ClientPlaces, Allocs, Frees, InList
<1>5. QED
  BY <1>2, <1>3, <1>4, Numbers, NobodyInList

\* destroyMutex, wherever it is called from
LEMMA DestroyDoes ==
  ASSUME MemCtlAssumption, MemInv, Destroy
  PROVE  pc' \in [Tasks -> Points]
<1>1. CASE used /\ DestroyMutex(Main)
  BY <1>1 DEF DestroyMutex, MemInv, MemTypes, Points, MidCall
<1>2. CASE ~used /\ Compute(Main, "idle")
  BY <1>2, Numbers, ComputeDoes DEF MemInv, MemTypes
<1>3. QED
  BY <1>1, <1>2 DEF Destroy

\* State 5
LEMMA DtorPreserves ==
  ASSUME MemCtlAssumption, MemInv, TakeDtor \/ RunDtor
  PROVE  MemInv'
<1>1. PICK to \in {"destroy", "fork"} :
        /\ at[Main] \in {"dtors", "destroy"}
        /\ at' = [at EXCEPT ![Main] = to]
        /\ UNCHANGED <<heap, list, block, mblock, held, ptr, inode, dying, lost, unlisted, odd>>
        /\ fork' = fork /\ late' = late
        /\ pc' \in [Tasks -> Points]
  <2>1. CASE TakeDtor
    <3>1. pc' = pc /\ pc \in [Tasks -> Points]
      BY <2>1, Numbers, ComputeDoes DEF TakeDtor, MemInv, MemTypes
    <3>2. QED
      BY <2>1, <3>1 DEF TakeDtor, history
  <2>2. CASE RunDtor
    BY <2>2, DestroyDoes DEF RunDtor, history
  <2>3. QED
    BY <2>1, <2>2
<1>2. at[Main] \in Resting /\ to \in Resting
  BY <1>1 DEF Resting
<1>3. /\ Departed /\ Main \in Tasks /\ Full = Members /\ Settled = Members
      /\ \A u \in Tasks : at[u] \notin InList /\ ptr[u] = 0
  BY <1>2, RestingFacts
<1>4. /\ at'[Main] = to /\ \A u \in Tasks \ {Main} : at'[u] = at[u]
  BY <1>1, <1>3 DEF MemInv, MemTypes
<1>5. Full' = Full /\ Settled' = Settled
  BY <1>1, <1>3, <1>4, ViewStays DEF Altering, Emptying, InList
<1>6. fork' \in Seq(Inodes \cup {0})
  BY <1>1 DEF MemInv, MemTypes
<1>7. ForkExact'
  BY <1>4 DEF ForkExact
<1>8. DeathExact'
  BY <1>1, <1>4, <1>5 DEF MemInv, DeathExact
<1>9. QED
  BY <1>1, <1>2, <1>6, <1>7, <1>8, DeathMoves

LEMMA ForkPreserves ==
  ASSUME MemCtlAssumption, MemInv, Fork
  PROVE  MemInv'
<1> DEFINE to == IF mblock THEN "onClose" ELSE "wild"
<1>1. /\ at[Main] = "fork" /\ at' = [at EXCEPT ![Main] = to]
      /\ fork' = IF mblock THEN corelist_fork(list) ELSE << >>
      /\ UNCHANGED <<heap, list, block, held, ptr, inode, dying, lost, unlisted, odd>>
      /\ mblock' = mblock /\ late' = late
  BY DEF Fork, memory, history
<1>2. at[Main] \in Resting /\ to \in Resting
  BY <1>1 DEF Resting
<1>3. /\ Departed /\ Main \in Tasks /\ Full = Members /\ Settled = Members
      /\ \A u \in Tasks : at[u] \notin InList /\ ptr[u] = 0
  BY <1>2, RestingFacts
<1>4. pc' \in [Tasks -> Points]
  <2>1. pc' = pc
    BY <1>3, ComputeDoes DEF Fork
  <2>2. QED
    BY <2>1 DEF MemInv, MemTypes
<1>5. /\ at'[Main] = to /\ \A u \in Tasks \ {Main} : at'[u] = at[u]
  BY <1>1, <1>3 DEF MemInv, MemTypes
<1>6. Full' = Members /\ Settled' = Members
  <2>1. Full' = Full /\ Settled' = Settled
    BY <1>1, <1>3, <1>5, ViewStays DEF Altering, Emptying, InList
  <2>2. QED
    BY <1>3, <2>1
<1>7. mblock => fork' = Order
  <2>1. Order \in Seq(Inodes) /\ \A n \in Members : list.self[n] = n
    BY <1>3, ListFacts DEF MemInv, InodesExact
  <2>2. \A i \in DOMAIN Order : Order[i] \in Members
    BY <2>1 DEF Members, Within
  <2>3. corelist_fork(list) = [i \in DOMAIN Order |-> list.self[Order[i]]]
    BY DEF corelist_fork, Order
  <2>4. [i \in DOMAIN Order |-> list.self[Order[i]]] = Order
    BY <2>1, <2>2
  <2>5. QED
    BY <1>1, <2>3, <2>4
<1>8. fork' \in Seq(Inodes \cup {0})
  <2>1. Order \in Seq(Inodes)
    BY ListFacts
  <2>2. Order \in Seq(Inodes \cup {0})
    BY <2>1
  <2>3. QED
    BY <1>1, <1>7, <2>2
<1>9. ForkExact'
  <2>1. CASE mblock
    <3>1. fork' = Order /\ Within(fork') = Members /\ Distinct(fork') /\ to = "onClose"
      BY <1>7, <2>1, ListFacts DEF Members
    <3>2. QED
      BY <1>5, <1>6, <3>1 DEF ForkExact, Frees
  <2>2. CASE ~mblock
    BY <1>5, <2>2 DEF ForkExact
  <2>3. QED
    BY <2>1, <2>2
<1>10. DeathExact'
  <2>1. \A n \in Members : ~odd => block[n].destroy \in Frees
    BY <1>3 DEF MemInv, DeathExact
  <2>2. ~mblock => late
    BY <1>1 DEF MemInv, DeathExact
  <2>3. QED
    BY <1>1, <1>5, <1>6, <2>1, <2>2 DEF DeathExact
<1>11. QED
  BY <1>1, <1>2, <1>4, <1>8, <1>9, <1>10, DeathMoves

\* What closes the list
LEMMA ClosePreserves ==
  ASSUME MemCtlAssumption, MemInv, CloseMutex \/ FreeList \/ StateDone
  PROVE  MemInv'
<1>1. PICK to \in {"closing", "closed", "dead"} :
        /\ at[Main] = (IF to = "closing" THEN "onClose" ELSE IF to = "closed" THEN "closing"
                       ELSE "closed")
        /\ to = "closing" => fork = << >>
        /\ to # "closed" => mblock' = mblock
        /\ at' = [at EXCEPT ![Main] = to]
        /\ UNCHANGED <<heap, list, block, held, ptr, inode, dying, lost, unlisted, odd>>
        /\ fork' = fork /\ late' = late
        /\ pc' \in [Tasks -> Points]
  <2>0. pc \in [Tasks -> Points] /\ Main \in Tasks
    BY Numbers DEF MemInv, MemTypes
  <2>1. CASE CloseMutex
    <3>1. pc' \in [Tasks -> Points]
      BY <2>1, DestroyDoes DEF CloseMutex
    <3>2. QED
      BY <2>1, <3>1 DEF CloseMutex, history
  <2>2. CASE FreeList
    <3>1. pc' = pc
      BY <2>0, <2>2, ComputeDoes DEF FreeList
    <3>2. QED
      BY <2>0, <2>2, <3>1 DEF FreeList, history
  <2>3. CASE StateDone
    <3>1. pc' = pc
      BY <2>0, <2>3, ComputeDoes DEF StateDone
    <3>2. QED
      BY <2>0, <2>3, <3>1 DEF StateDone, memory, history
  <2>4. QED
    BY <2>1, <2>2, <2>3
<1>2. at[Main] \in Resting /\ to \in Resting
  BY <1>1 DEF Resting
<1>3. /\ Departed /\ Main \in Tasks /\ Full = Members /\ Settled = Members
      /\ \A u \in Tasks : at[u] \notin InList /\ ptr[u] = 0
  BY <1>2, RestingFacts
<1>4. /\ at'[Main] = to /\ \A u \in Tasks \ {Main} : at'[u] = at[u]
  BY <1>1, <1>3 DEF MemInv, MemTypes
<1>5. Full' = Full /\ Settled' = Settled
  BY <1>1, <1>3, <1>4, ViewStays DEF Altering, Emptying, InList
<1>6. fork = << >>
  BY <1>1, <1>3 DEF MemInv, ForkExact
<1>7. fork' \in Seq(Inodes \cup {0})
  BY <1>1, <1>6
<1>8. ForkExact'
  <2>1. Distinct(fork) /\ Within(fork) \subseteq Settled
        /\ \A n \in Settled \ Within(fork) : block[n].ptr = 0
    BY <1>1, <1>3 DEF MemInv, ForkExact, Frees
  <2>2. QED
    BY <1>1, <1>4, <1>5, <1>6, <2>1 DEF ForkExact, Frees
<1>9. DeathExact'
  BY <1>1, <1>4, <1>5 DEF MemInv, DeathExact
<1>10. QED
  BY <1>1, <1>2, <1>7, <1>8, <1>9, DeathMoves

\* A list without its head
LEMMA TailLeaves ==
  ASSUME NEW S, NEW s \in Seq(S), s # << >>, Distinct(s)
  PROVE  /\ Tail(s) \in Seq(S) /\ Distinct(Tail(s))
         /\ Head(s) \in Within(s) /\ Within(Tail(s)) = Within(s) \ {Head(s)}
<1> DEFINE r == Tail(s)
<1>1. /\ r \in Seq(S) /\ Len(r) = Len(s) - 1 /\ Len(s) \in Nat /\ Len(s) > 0
      /\ \A i \in 1..Len(r) : r[i] = s[i + 1]
      /\ Head(s) = s[1]
  BY HeadTailProperties, EmptySeq
<1> HIDE DEF r
<1>2. \A i \in 1..Len(r) : i + 1 \in 1..Len(s) /\ i + 1 # 1
  BY <1>1
<1>3. 1 \in 1..Len(s)
  BY <1>1
<1>4. ASSUME NEW i \in 1..Len(r), NEW j \in 1..Len(r), r[i] = r[j]
      PROVE  i = j
  <2>1. i + 1 \in 1..Len(s) /\ j + 1 \in 1..Len(s) /\ s[i + 1] = s[j + 1]
    BY <1>1, <1>2, <1>4
  <2>2. i + 1 = j + 1
    BY <2>1 DEF Distinct
  <2>3. QED
    BY <2>2
<1>5. Within(r) = Within(s) \ {Head(s)}
  <2>1. ASSUME NEW x \in Within(r) PROVE x \in Within(s) \ {Head(s)}
    <3>1. PICK i \in 1..Len(r) : x = r[i]
      BY DEF Within
    <3>2. i + 1 \in 1..Len(s) /\ x = s[i + 1] /\ i + 1 # 1
      BY <1>1, <1>2, <3>1
    <3>3. x # s[1]
      BY <1>3, <3>2 DEF Distinct
    <3>4. QED
      BY <1>1, <3>2, <3>3 DEF Within
  <2>2. ASSUME NEW x \in Within(s) \ {Head(s)} PROVE x \in Within(r)
    <3>1. PICK j \in 1..Len(s) : x = s[j]
      BY DEF Within
    <3>2. j # 1
      BY <1>1, <3>1
    <3>3. j - 1 \in 1..Len(r) /\ (j - 1) + 1 = j
      BY <1>1, <3>2
    <3>4. r[j - 1] = x
      BY <1>1, <3>1, <3>3
    <3>5. QED
      BY <3>3, <3>4 DEF Within
  <2>3. QED
    BY <2>1, <2>2
<1>6. QED
  BY <1>1, <1>3, <1>4, <1>5 DEF r, Distinct, Within

LEMMA OnClosePreserves ==
  ASSUME MemCtlAssumption, MemInv, onClose
  PROVE  MemInv'
<1> DEFINE self == Head(fork)
<1>1. /\ at[Main] = "onClose" /\ fork # << >> /\ fork' = Tail(fork)
      /\ UNCHANGED <<heap, list, block, mblock, held, calls, inode, dying>>
      /\ UNCHANGED <<kills, lost, unlisted, hit, late, odd, skipped>>
  BY DEF onClose, memory, history
<1>2. at[Main] \in Resting
  BY <1>1 DEF Resting
<1>3. /\ Departed /\ Main \in Tasks /\ Full = Members /\ Settled = Members
      /\ \A u \in Tasks : at[u] \notin InList /\ ptr[u] = 0
  BY <1>2, RestingFacts
<1>4. pc' = pc
  BY <1>3, ComputeDoes DEF onClose
<1>5. /\ pc \in [Tasks -> Points] /\ at \in [Tasks -> Places] /\ ptr \in [Tasks -> 0..MaxAddr]
      /\ inode \in [Tasks -> 0..MaxInodes] /\ fork \in Seq(Inodes \cup {0})
      /\ block \in [Inodes -> [ptr : 0..MaxAddr,
                               destroy : {"none", "memoryFree", "free_ws", "unset"}]]
  BY DEF MemInv, MemTypes
<1>6. /\ Distinct(fork) /\ Within(fork) \subseteq Members
      /\ \A n \in Members \ Within(fork) : block[n].ptr = 0
  BY <1>1, <1>3 DEF MemInv, ForkExact, Frees
<1>7. /\ fork' \in Seq(Inodes \cup {0}) /\ Distinct(fork') /\ self \in Within(fork)
      /\ Within(fork') = Within(fork) \ {self}
  BY <1>1, <1>5, <1>6, TailLeaves
<1> HIDE DEF self
<1>8. self \in Members /\ self \in Inodes /\ self # 0
  BY <1>6, <1>7, ListFacts, Numbers
<1>9. \A n \in Members \ Within(fork') : n = self \/ block[n].ptr = 0
  BY <1>6, <1>7
<1>10. \A u \in Tasks \ {Main} : at[u] = "none"
  BY <1>3 DEF Departed
<1>11. DeathExact
  BY DEF MemInv
<1>12. ASSUME NEW to \in Resting, at' = [at EXCEPT ![Main] = to]
       PROVE  Full' = Members /\ Settled' = Members /\ at'[Main] = to
  <2>1. at'[Main] = to /\ \A u \in Tasks \ {Main} : at'[u] = at[u]
    BY <1>3, <1>5, <1>12
  <2>2. Full' = Full /\ Settled' = Settled
    BY <1>1, <1>3, <2>1, ViewStays DEF Altering, Emptying, InList, Resting
  <2>3. QED
    BY <1>3, <2>1, <2>2
<1>13. CASE block[self].destroy \notin Frees
  <2>1. at' = [at EXCEPT ![Main] = "wild"] /\ ptr' = ptr
    BY <1>8, <1>13 DEF onClose, self
  <2>2. "wild" \in Resting
    BY DEF Resting
  <2>3. Full' = Members /\ Settled' = Members /\ at'[Main] = "wild"
    BY <1>12, <2>1, <2>2
  <2>4. ForkExact'
    BY <2>3 DEF ForkExact
  <2>5. DeathExact'
    <3>1. odd
      BY <1>3, <1>8, <1>11, <1>13 DEF DeathExact
    <3>2. ~mblock => late
      BY <1>1, <1>11 DEF DeathExact
    <3>3. QED
      BY <1>1, <3>1, <3>2 DEF DeathExact
  <2>6. QED
    BY <1>1, <1>2, <1>4, <1>5, <1>7, <2>1, <2>2, <2>4, <2>5, DeathMoves
<1>14. CASE block[self].destroy \in Frees /\ block[self].ptr = 0
  <2>1. at' = [at EXCEPT ![Main] = "onClose"] /\ ptr' = ptr
    <3>1. at' = [at EXCEPT ![Main] = at[Main]] /\ ptr' = [ptr EXCEPT ![Main] = 0]
      BY <1>8, <1>14 DEF onClose, self
    <3>2. QED
      BY <1>1, <1>3, <1>5, <3>1
  <2>2. "onClose" \in Resting
    BY DEF Resting
  <2>3. Full' = Members /\ Settled' = Members /\ at'[Main] = "onClose"
    BY <1>12, <2>1, <2>2
  <2>4. ForkExact'
    <3>1. Within(fork') \subseteq Members /\ \A n \in Members \ Within(fork') : block[n].ptr = 0
      BY <1>6, <1>7, <1>9, <1>14
    <3>2. QED
      BY <1>1, <1>7, <2>3, <3>1 DEF ForkExact, Frees
  <2>5. DeathExact'
    BY <1>1, <1>3, <1>11, <2>3 DEF DeathExact
  <2>6. QED
    BY <1>1, <1>2, <1>4, <1>5, <1>7, <2>1, <2>2, <2>4, <2>5, DeathMoves
<1>15. CASE block[self].destroy \in Frees /\ block[self].ptr # 0
  <2> DEFINE a == block[self].ptr
             to == block[self].destroy
  <2>1. at' = [at EXCEPT ![Main] = to] /\ ptr' = [ptr EXCEPT ![Main] = a]
    BY <1>8, <1>15 DEF onClose, self
  <2>2. to \in Frees /\ to \in {"memoryFree", "free_ws"} /\ a \in 0..MaxAddr /\ a # 0 /\ a \in Addrs
    BY <1>5, <1>8, <1>15, Numbers DEF Frees
  <2>3. /\ heap[a] # "free" /\ a \notin lost
        /\ heap[a] = IF to = "free_ws" THEN "ws" ELSE "malloc"
    BY <1>3, <1>8, <1>15, <2>2 DEF MemInv, NamesExact
  <2>4. block[self].ptr = a
    OBVIOUS
  <2> HIDE DEF a, to
  <2>5. to \in Places /\ to \in ClientPlaces /\ to \in DeathPlaces /\ to \notin InList
        /\ to \notin Allocs
    BY <2>2 DEF Places, ClientPlaces, DeathPlaces, InList, Allocs, Frees
  <2>6. /\ at'[Main] = to /\ ptr'[Main] = a
        /\ \A u \in Tasks \ {Main} : at'[u] = "none" /\ at[u] = "none" /\ ptr'[u] = 0
    BY <1>3, <1>5, <1>10, <2>1
  <2>7. at' \in [Tasks -> Places] /\ ptr' \in [Tasks -> 0..MaxAddr]
    BY <1>3, <1>5, <2>1, <2>2, <2>5
  <2>8. Order' = Order /\ Members' = Members /\ ListInOrder'
    BY <1>1, ListStays DEF MemInv
  <2>9. Full' = Members /\ Settled' = Members
    <3>1. \A u \in Tasks : at'[u] \notin InList
      BY <2>5, <2>6 DEF InList
    <3>2. Full' = Full /\ Settled' = Settled
      BY <1>1, <1>3, <3>1, ViewStays DEF Altering, Emptying, InList
    <3>3. QED
      BY <1>3, <3>2
  <2>10. MemTypes'
    BY <1>1, <1>4, <1>7, <2>7 DEF MemInv, MemTypes
  <2>17. Departed'
    BY <1>1, <1>3, <2>6 DEF Departed
  <2>11. AloneInList' /\ UsedExact'
    BY <1>1, <1>3, <2>5, <2>6, <2>17 DEF AloneInList, UsedExact, InList
  <2>12. InodesExact'
    BY <1>1, <1>3, <2>5, <2>6, <2>9 DEF MemInv, InodesExact, Emptying, InList
  <2>13. PendingExact'
    BY <2>5, <2>6 DEF PendingExact, Allocs
  <2>14. NamesExact'
    <3>1. \A b \in Addrs : ~Pending(b) /\ ~Pending(b)'
      <4>1. \A u \in Tasks : at'[u] \notin Allocs \cup {"free", "store"}
        BY <2>2, <2>6 DEF Allocs
      <4>2. \A u \in Tasks : at[u] \notin Allocs \cup {"free", "store"}
        BY <1>1, <2>6 DEF Allocs
      <4>3. QED
        BY <4>1, <4>2 DEF Pending
    <3>2. QED
      BY <1>1, <1>3, <2>9, <3>1 DEF MemInv, NamesExact
  <2>15. HandsExact'
    BY <1>1, <1>3, <2>2, <2>3, <2>5, <2>6 DEF HandsExact, Allocs
  <2>16. LostExact'
    BY <1>1 DEF MemInv, LostExact
  <2>18. PhaseExact' /\ HeldExact' /\ CreateExact'
    BY <1>1, <2>2, <2>5, <2>6, <2>17 DEF PhaseExact, HeldExact, CreateExact
  <2>19. ForkExact'
    <3>1. self \in Members \ Within(fork')
      BY <1>7, <1>8
    <3>2. Within(fork') \subseteq Members
      BY <1>6, <1>7
    <3>3. QED
      BY <1>1, <1>7, <1>9, <2>2, <2>4, <2>6, <2>9, <3>1, <3>2 DEF ForkExact
  <2>20. DeathExact'
    BY <1>1, <1>3, <1>11, <2>2, <2>6, <2>9 DEF DeathExact
  <2>21. QED
    BY <2>8, <2>10, <2>11, <2>12, <2>13, <2>14, <2>15, <2>16, <2>18, <2>19, <2>20 DEF MemInv
<1>16. QED
  BY <1>13, <1>14, <1>15

\* Nobody is in the list: each inode names the memory_block of its number,
\* and the search finds the one that has the address.
LEMMA FindDoes ==
  ASSUME MemCtlAssumption, MemInv, \A u \in Tasks : at[u] \notin InList, NEW a \in Addrs
  PROVE  LET n == findPtrInode(a)
         IN  /\ n = 0 => \A m \in Members : block[m].ptr # a
             /\ n # 0 => /\ n \in Members /\ block[n].ptr = a /\ list.self[n] = n
                         /\ \A m \in Members : block[m].ptr = a => m = n
<1> DEFINE way == corelist_back_foreach(list)
           found == {k \in DOMAIN way :
                       list.self[way[k]] # 0 /\ block[list.self[way[k]]].ptr = a}
           n == findPtrInode(a)
<1>1. Order \in Seq(Inodes) /\ Members \subseteq Inodes /\ Full = Members /\ Settled = Members
  BY ListFacts, NobodyInList
<1>2. \A m \in Members : list.self[m] = m /\ m # 0
  BY <1>1, Numbers DEF MemInv, InodesExact
<1>3. way = Reverse(Order)
  BY ListFacts, WalkIs
<1>4. /\ DOMAIN way = 1..Len(Order) /\ Len(Order) \in Nat
      /\ \A k \in 1..Len(Order) : way[k] = Order[(Len(Order) - k) + 1]
  BY <1>1, <1>3 DEF Reverse
<1> HIDE DEF way
<1>5. ASSUME NEW k \in DOMAIN way PROVE way[k] \in Members
  <2>1. (Len(Order) - k) + 1 \in 1..Len(Order)
    BY <1>4
  <2>2. QED
    BY <1>4, <2>1 DEF Members, Within
<1>6. ASSUME NEW m \in Members PROVE \E k \in DOMAIN way : way[k] = m
  <2>1. PICK i \in 1..Len(Order) : m = Order[i]
    BY DEF Members, Within
  <2>2. (Len(Order) - i) + 1 \in 1..Len(Order)
        /\ (Len(Order) - ((Len(Order) - i) + 1)) + 1 = i
    BY <1>4
  <2>3. way[(Len(Order) - i) + 1] = m
    BY <1>4, <2>1, <2>2
  <2>4. QED
    BY <1>4, <2>2, <2>3
<1>7. found = {k \in DOMAIN way : block[way[k]].ptr = a}
  BY <1>2, <1>5
<1>8. n = IF found = {} THEN 0 ELSE way[Min(found)]
  BY DEF findPtrInode, way
<1> HIDE DEF found, n
<1>9. CASE found = {}
  <2>1. \A m \in Members : block[m].ptr # a
    BY <1>6, <1>7, <1>9
  <2>2. QED
    BY <1>8, <1>9, <2>1 DEF n
<1>10. CASE found # {}
  <2>1. found \in SUBSET Nat
    BY <1>4, <1>7
  <2>2. \E k \in found : \A j \in found : k <= j
    BY <1>10, <2>1, LeastOf
  <2>3. Min(found) \in found
    BY <2>2 DEF Min
  <2>4. n \in Members /\ block[n].ptr = a
    BY <1>5, <1>7, <1>8, <1>10, <2>3
  <2>5. \A m \in Members : block[m].ptr = a => m = n
    BY <1>1, <2>4, Numbers DEF MemInv, NamesExact
  <2>6. QED
    BY <1>2, <2>4, <2>5 DEF n
<1>11. QED
  BY <1>9, <1>10

\* A change of an inode's value leaves the links as they are.
LEMMA SelfChanges ==
  ASSUME MemCtlAssumption, NEW l, NEW s \in Seq(Inodes), Chain(l, s),
         NEW n \in Inodes, NEW v \in 0..MaxInodes
  PROVE  LET m == [l EXCEPT !.self[n] = v]
         IN  Chain(m, s) /\ m.self = [l.self EXCEPT ![n] = v]
<1> DEFINE m == [l EXCEPT !.self[n] = v]
<1>1. l \in ListType
  BY DEF Chain
<1>2. m \in ListType
  BY <1>1, FieldType
<1>3. /\ m.first = l.first /\ m.last = l.last /\ m.size = l.size
      /\ m.next = l.next /\ m.prev = l.prev /\ m.self = [l.self EXCEPT ![n] = v]
  BY <1>1 DEF ListType
<1> HIDE DEF m
<1>4. QED
  BY <1>2, <1>3 DEF Chain, m

\* The order of a list that a step has made
LEMMA OrderIs ==
  ASSUME MemCtlAssumption, NEW s \in Seq(Inodes), Chain(list', s)
  PROVE  Order' = s /\ Members' = Within(s) /\ ListInOrder'
<1>1. Order' = s
  BY WalkIs DEF Order
<1>2. QED
  BY <1>1 DEF Members, ListInOrder

\* A task in a call goes on in the list, where it is alone.
Calls == Allocs \cup Frees \cup {"memoryRealloc"} \cup InList

LEMMA CallGoesOn ==
  ASSUME MemCtlAssumption, MemInv, NEW t \in Tasks, at[t] \in Calls, PastLock(t),
         NEW to \in InList, to = "store" => ~Departed,
         at'[t] = to, \A u \in Tasks \ {t} : at'[u] = at[u], dying' = dying
  PROVE  /\ \A u \in Tasks \ {t} : at[u] \notin InList
         /\ \A u \in Tasks \ {t} : at'[u] \notin InList
         /\ Departed' = Departed /\ (Departed => t = Main)
         /\ PhaseExact' /\ CreateExact' /\ AloneInList' /\ UsedExact'
<1>1. /\ pc' = pc /\ used' = used
      /\ pc[t] = "critical" \/ (pc[t] = "idle" /\ Departed)
      /\ \A u \in Tasks \ {t} : at[u] \notin InList
  BY PastLockDoes DEF Calls, ClientPlaces, Allocs, Frees, InList
<1>2. /\ at[t] \notin {"none", "client", "onCreate", "bare", "dying"} /\ at[t] \in ClientPlaces
      /\ to \notin {"none", "onCreate", "bare", "dying"} /\ to \in ClientPlaces
      /\ (to # "store" => to \in DeathPlaces)
  BY DEF Calls, Allocs, Frees, InList, ClientPlaces, DeathPlaces
<1>3. at[Main] \notin {"onCreate", "bare"}
  <2>1. CASE t = Main
    BY <1>2, <2>1
  <2>2. CASE t # Main
    BY <1>2, <2>2 DEF MemInv, CreateExact
  <2>3. QED
    BY <2>1, <2>2
<1>4. Main \in Tasks
  BY Numbers
<1>5. Departed => t = Main
  BY <1>2 DEF Departed
<1>6. Departed' = Departed
  BY <1>2 DEF Departed
<1>7. PhaseExact'
  BY <1>2, <1>4, <1>5, <1>6 DEF MemInv, PhaseExact
<1>8. CreateExact'
  BY <1>2, <1>3, <1>4 DEF CreateExact
<1>9. AloneInList' /\ UsedExact'
  BY <1>1, <1>2, <1>3, <1>6 DEF MemInv, AloneInList, UsedExact
<1>10. QED
  BY <1>1, <1>5, <1>6, <1>7, <1>8, <1>9

LEMMA PushBackPreserves ==
  ASSUME MemCtlAssumption, MemInv, NEW t \in Tasks, PushBack(t)
  PROVE  MemInv'
<1> DEFINE n == inode[t]
           p == ptr[t]
<1>1. /\ at[t] \in Allocs /\ PastLock(t)
      /\ list' = corelist_push_back(list, n, n)
      /\ Local(t, "leave", p, 0)
      /\ UNCHANGED <<heap, block, mblock, held, calls, dying, fork>>
      /\ UNCHANGED <<kills, lost, unlisted, hit, late, odd, skipped>>
  BY DEF PushBack, history
<1>2. pc' = pc /\ \A u \in Tasks \ {t} : at[u] \notin InList
  BY <1>1, PastLockDoes DEF ClientPlaces, Allocs, Frees, InList
<1>3. at[t] \in {"memoryAlloc", "alloc_ws"} /\ at[t] \notin InList
  BY <1>1 DEF Allocs, InList
<1>4. Full = Members /\ Settled = Members
  BY <1>2, <1>3, NobodyInList
<1>5. /\ heap \in [Addrs -> {"free", "malloc", "ws"}] /\ p \in 0..MaxAddr
      /\ block \in [Inodes -> [ptr : 0..MaxAddr,
                               destroy : {"none", "memoryFree", "free_ws", "unset"}]]
      /\ list.self \in [Inodes -> 0..MaxInodes]
  BY ListFacts DEF MemInv, MemTypes, Chain, ListType
<1>6. /\ at' \in [Tasks -> Places] /\ ptr' \in [Tasks -> 0..MaxAddr]
      /\ inode' \in [Tasks -> 0..MaxInodes]
      /\ at'[t] = "leave" /\ ptr'[t] = p /\ inode'[t] = 0
      /\ \A u \in Tasks \ {t} : at'[u] = at[u] /\ ptr'[u] = ptr[u] /\ inode'[u] = inode[u]
  <2>1. "leave" \in Places /\ 0 \in 0..MaxInodes
    BY Numbers DEF Places, DeathPlaces
  <2>2. QED
    BY <1>1, <1>5, <2>1, LocalDoes
<1>7. "leave" \in InList /\ at[t] \in Calls
  BY <1>1 DEF Calls, InList
<1>8. /\ Departed' = Departed /\ PhaseExact' /\ CreateExact' /\ AloneInList' /\ UsedExact'
      /\ \A u \in Tasks \ {t} : at'[u] \notin InList
  BY <1>1, <1>6, <1>7, CallGoesOn
<1>9. ~Departed
  <2>1. at[t] # "none" /\ at[t] \notin DeathPlaces \cup {"dying"}
    BY <1>3 DEF DeathPlaces, Frees
  <2>2. QED
    BY <2>1 DEF MemInv, PhaseExact, Departed
<1>10. /\ n \in Inodes /\ n \notin Members /\ n \in 0..MaxInodes
       /\ block[n] = [ptr |-> p, destroy |-> IF at[t] = "alloc_ws" THEN "free_ws" ELSE "memoryFree"]
       /\ \A u \in Tasks \ {t} : at[u] \in Allocs => inode[u] # n
  BY <1>1, <1>4, Numbers DEF MemInv, PendingExact
<1>11. /\ block[n].ptr = p
       /\ block[n].destroy = IF at[t] = "alloc_ws" THEN "free_ws" ELSE "memoryFree"
  BY <1>10
<1>12. /\ Chain(list', Append(Order, n)) /\ Append(Order, n) \in Seq(Inodes)
       /\ Within(Append(Order, n)) = Members \cup {n}
       /\ list'.self = [list.self EXCEPT ![n] = n]
  BY <1>1, <1>10, ListFacts, PushBackAppends DEF Members
<1>13. Members' = Members \cup {n} /\ ListInOrder'
  BY <1>12, OrderIs
<1>14. Full' = Members' /\ Settled' = Members'
  BY <1>6, <1>8 DEF Full, Settled, Untouched, InList, Emptying, Altering
<1>15. p # 0 => /\ p \in Addrs /\ heap[p] # "free" /\ p \notin lost /\ p \notin unlisted
                /\ \A u \in Tasks \ {t} : ptr[u] # p
                /\ Pending(p)
                /\ heap[p] = IF at[t] = "alloc_ws" THEN "ws" ELSE "malloc"
  <2>1. p # 0 => /\ heap[p] # "free" /\ p \notin lost /\ p \notin unlisted
                 /\ \A u \in Tasks \ {t} : ptr[u] # p
    BY <1>1 DEF MemInv, HandsExact
  <2>2. p # 0 => heap[p] = IF at[t] = "alloc_ws" THEN "ws" ELSE "malloc"
    BY <1>3 DEF MemInv, HandsExact
  <2>3. p # 0 => p \in Addrs /\ Pending(p)
    BY <1>1, <1>5, Numbers DEF Pending
  <2>4. QED
    BY <2>1, <2>2, <2>3
<1>16. \A a \in Addrs : Pending(a)' <=> Pending(a) /\ a # p
  <2>1. ASSUME NEW a \in Addrs, Pending(a)' PROVE Pending(a) /\ a # p
    <3>1. PICK u \in Tasks : at'[u] \in Allocs \cup {"free", "store"} /\ ptr'[u] = a
      BY <2>1 DEF Pending
    <3>2. u # t
      BY <1>6, <3>1 DEF Allocs
    <3>3. at[u] \in Allocs \cup {"free", "store"} /\ ptr[u] = a
      BY <1>6, <3>1, <3>2
    <3>4. a # 0
      BY Numbers
    <3>5. QED
      BY <1>15, <3>2, <3>3, <3>4 DEF Pending
  <2>2. ASSUME NEW a \in Addrs, Pending(a), a # p PROVE Pending(a)'
    <3>1. PICK u \in Tasks : at[u] \in Allocs \cup {"free", "store"} /\ ptr[u] = a
      BY <2>2 DEF Pending
    <3>2. u # t
      BY <2>2, <3>1
    <3>3. QED
      BY <1>6, <3>1, <3>2 DEF Pending
  <2>3. QED
    BY <2>1, <2>2
<1>17. MemTypes'
  BY <1>1, <1>2, <1>6 DEF MemInv, MemTypes
<1>18. InodesExact'
  <2>1. ASSUME NEW m \in Members \cup {n}
        PROVE  list'.self[m] = m /\ block'[m].destroy # "none"
    <3>1. CASE m = n
      BY <1>1, <1>5, <1>10, <1>11, <1>12, <3>1
    <3>2. CASE m # n
      <4>1. m \in Inodes /\ list.self[m] = m /\ block[m].destroy # "none"
        BY <1>4, <2>1, <3>2, ListFacts DEF MemInv, InodesExact
      <4>2. QED
        BY <1>1, <1>5, <1>12, <3>2, <4>1
    <3>3. QED
      BY <3>1, <3>2
  <2>2. \A u \in Tasks : at'[u] \notin Emptying /\ at'[u] # "store"
    BY <1>6, <1>8 DEF InList, Emptying
  <2>3. QED
    BY <1>13, <1>14, <2>1, <2>2 DEF InodesExact
<1>19. PendingExact'
  <2>1. at'[t] \notin Allocs
    BY <1>6 DEF Allocs
  <2>2. QED
    BY <1>1, <1>4, <1>6, <1>10, <1>13, <1>14, <2>1 DEF MemInv, PendingExact
<1>20. NamesExact'
  <2>1. ASSUME NEW a \in Addrs
        PROVE  (\E m \in Members \cup {n} : block[m].ptr = a) <=>
                 heap[a] # "free" /\ ~Pending(a)' /\ a \notin lost /\ a \notin unlisted
    <3>1. (\E m \in Members : block[m].ptr = a) <=>
             heap[a] # "free" /\ ~Pending(a) /\ a \notin lost /\ a \notin unlisted
      BY <1>4 DEF MemInv, NamesExact
    <3>2. CASE a = p
      <4>1. p # 0
        BY <3>2, Numbers
      <4>2. QED
        BY <1>11, <1>15, <1>16, <3>2, <4>1
    <3>3. CASE a # p
      BY <1>11, <1>16, <3>1, <3>3
    <3>4. QED
      BY <3>2, <3>3
  <2>2. ASSUME NEW m \in Members, block[m].ptr = p PROVE p = 0
    <3>1. ~(p # 0)
      BY <1>4, <1>15, <2>2 DEF MemInv, NamesExact
    <3>2. QED
      BY <3>1
  <2>3. \A m, k \in Members \cup {n} : block[m].ptr = block[k].ptr /\ m # k => block[m].ptr = 0
    BY <1>4, <1>11, <2>2 DEF MemInv, NamesExact
  <2>4. p # 0 => heap[p] = IF block[n].destroy = "free_ws" THEN "ws" ELSE "malloc"
    BY <1>11, <1>15
  <2>5. \A m \in Members \cup {n} : block[m].ptr # 0 =>
          heap[block[m].ptr] = IF block[m].destroy = "free_ws" THEN "ws" ELSE "malloc"
    BY <1>4, <1>11, <2>4 DEF MemInv, NamesExact
  <2>6. QED
    BY <1>1, <1>13, <1>14, <2>1, <2>3, <2>5 DEF NamesExact
<1>21. HandsExact'
  BY <1>1, <1>6, <1>15 DEF MemInv, HandsExact, Allocs, ClientPlaces, InList
<1>22. LostExact'
  BY <1>1 DEF MemInv, LostExact
<1>23. HeldExact'
  BY <1>1, <1>6, <1>8 DEF MemInv, HeldExact
<1>24. ForkExact'
  BY <1>8, <1>9 DEF ForkExact
<1>25. DeathExact'
  <2>1. block[n].destroy \in Frees
    BY <1>11 DEF Frees
  <2>2. Main \in Tasks
    BY Numbers
  <2>3. at'[Main] \in {"onCreate", "bare", "closed", "dead"} <=> at[Main] \in {"onCreate", "bare", "closed", "dead"}
    BY <1>3, <1>6, <2>2
  <2>4. at'[Main] = "wild" => at[Main] = "wild"
    BY <1>6, <2>2
  <2>5. QED
    BY <1>1, <1>4, <1>13, <1>14, <2>1, <2>3, <2>4 DEF MemInv, DeathExact
<1>26. QED
  BY <1>8, <1>13, <1>17, <1>18, <1>19, <1>20, <1>21, <1>22, <1>23, <1>24, <1>25 DEF MemInv

LEMMA FreeBlockPreserves ==
  ASSUME MemCtlAssumption, MemInv, NEW t \in Tasks, FreeBlock(t)
  PROVE  MemInv'
<1> DEFINE n == findPtrInode(ptr[t])
           p == ptr[t]
<1>1. /\ at[t] \in Frees /\ PastLock(t)
      /\ block' = IF n = 0 THEN block ELSE [block EXCEPT ![list.self[n]] = NoBlock]
      /\ list' = IF n = 0 \/ at[t] = "memoryFree" THEN list ELSE [list EXCEPT !.self[n] = 0]
      /\ Local(t, "free", p, n)
      /\ UNCHANGED <<heap, mblock, held, calls, dying, fork>>
      /\ UNCHANGED <<kills, lost, unlisted, hit, late, odd, skipped>>
  BY DEF FreeBlock, history
<1>2. pc' = pc /\ \A u \in Tasks \ {t} : at[u] \notin InList
  BY <1>1, PastLockDoes DEF ClientPlaces, Allocs, Frees, InList
<1>3. at[t] \in {"memoryFree", "free_ws"} /\ at[t] \notin InList
  BY <1>1 DEF Frees, InList
<1>4. /\ Full = Members /\ Settled = Members /\ Members \subseteq Inodes
      /\ \A u \in Tasks : at[u] \notin InList
  BY <1>2, <1>3, NobodyInList, ListFacts
<1>5. /\ heap \in [Addrs -> {"free", "malloc", "ws"}] /\ p \in 0..MaxAddr
      /\ block \in [Inodes -> [ptr : 0..MaxAddr,
                               destroy : {"none", "memoryFree", "free_ws", "unset"}]]
      /\ list.self \in [Inodes -> 0..MaxInodes]
  BY ListFacts DEF MemInv, MemTypes, Chain, ListType
<1>6. /\ p # 0 /\ p \in Addrs /\ heap[p] # "free" /\ p \notin lost
      /\ \A u \in Tasks \ {t} : ptr[u] # p
  <2>1. p # 0
    BY <1>3 DEF MemInv, HandsExact
  <2>2. QED
    BY <1>5, <2>1, Numbers DEF MemInv, HandsExact
<1>7. /\ n = 0 => \A m \in Members : block[m].ptr # p
      /\ n # 0 => /\ n \in Members /\ block[n].ptr = p /\ list.self[n] = n
                  /\ \A m \in Members : block[m].ptr = p => m = n
  BY <1>4, <1>6, FindDoes
<1>8. n \in 0..MaxInodes /\ 0 \notin Members /\ \A m \in Members : block[m].ptr = p <=> m = n
  BY <1>4, <1>7, Numbers
<1>9. /\ \A m \in Inodes \ {n} : block'[m] = block[m]
      /\ block' \in [Inodes -> [ptr : 0..MaxAddr,
                                destroy : {"none", "memoryFree", "free_ws", "unset"}]]
  <2>1. NoBlock \in [ptr : 0..MaxAddr, destroy : {"none", "memoryFree", "free_ws", "unset"}]
    BY Numbers DEF NoBlock
  <2>2. QED
    BY <1>1, <1>5, <1>7, <2>1
<1>10. Chain(list', Order) /\ \A m \in Members \ {n} : list'.self[m] = list.self[m]
  <2>1. CASE n = 0 \/ at[t] = "memoryFree"
    BY <1>1, <2>1, ListFacts
  <2>2. CASE ~ (n = 0 \/ at[t] = "memoryFree")
    <3>1. list' = [list EXCEPT !.self[n] = 0] /\ n \in Inodes /\ 0 \in 0..MaxInodes
      BY <1>1, <1>4, <1>7, <2>2, Numbers
    <3> HIDE DEF n
    <3>2. Chain(list', Order) /\ list'.self = [list.self EXCEPT ![n] = 0]
      BY <3>1, ListFacts, SelfChanges
    <3>3. QED
      BY <1>4, <1>5, <3>2
  <2>3. QED
    BY <2>1, <2>2
<1> HIDE DEF n
<1>11. Order' = Order /\ Members' = Members /\ ListInOrder'
  BY <1>10, ListFacts, OrderIs DEF Members
<1>12. /\ at' \in [Tasks -> Places] /\ ptr' \in [Tasks -> 0..MaxAddr]
       /\ inode' \in [Tasks -> 0..MaxInodes]
       /\ at'[t] = "free" /\ ptr'[t] = p /\ inode'[t] = n
       /\ \A u \in Tasks \ {t} : at'[u] = at[u] /\ ptr'[u] = ptr[u] /\ inode'[u] = inode[u]
  <2>1. "free" \in Places
    BY DEF Places, DeathPlaces
  <2>2. QED
    BY <1>1, <1>5, <1>8, <2>1, LocalDoes
<1>13. "free" \in InList /\ at[t] \in Calls
  BY <1>1 DEF Calls, InList
<1>14. /\ Departed' = Departed /\ (Departed => t = Main)
       /\ PhaseExact' /\ CreateExact' /\ AloneInList' /\ UsedExact'
       /\ \A u \in Tasks \ {t} : at'[u] \notin InList
  BY <1>1, <1>12, <1>13, CallGoesOn
<1>15. Full' = Members \ {n} /\ Settled' = Members \ {n}
  <2>1. \A u \in Tasks \ {t} : at'[u] \notin Emptying /\ at'[u] \notin Altering
    BY <1>14 DEF InList, Emptying, Altering
  <2>2. "free" \in Emptying /\ "free" \in Altering
    BY DEF Emptying, Altering
  <2>3. /\ Untouched(Members', at', Emptying, inode') = Members' \ {n}
        /\ Untouched(Members', at', Altering, inode') = Members' \ {n}
    BY <1>12, <2>1, <2>2, UntouchedIs
  <2>4. QED
    BY <1>11, <2>3 DEF Full, Settled
<1>16. \A a \in Addrs : Pending(a)' <=> Pending(a) \/ a = p
  <2>1. at[t] \notin Allocs \cup {"free", "store"} /\ at'[t] \in Allocs \cup {"free", "store"}
    BY <1>3, <1>12 DEF Allocs
  <2>2. QED
    BY <1>12, <2>1 DEF Pending
<1>17. MemTypes'
  BY <1>1, <1>2, <1>9, <1>12 DEF MemInv, MemTypes
<1>18. InodesExact'
  <2>1. \A m \in Members \ {n} : list'.self[m] = m /\ block'[m].destroy # "none"
    BY <1>4, <1>9, <1>10 DEF MemInv, InodesExact
  <2>2. \A u \in Tasks : /\ at'[u] \in Emptying => u = t
                         /\ at'[u] # "store"
    BY <1>12, <1>14 DEF InList, Emptying
  <2>3. n = 0 \/ n \in Members
    BY <1>7
  <2>4. QED
    BY <1>11, <1>12, <1>15, <2>1, <2>2, <2>3 DEF InodesExact
<1>19. PendingExact'
  <2>1. \A u \in Tasks \ {t} : at[u] \in Allocs =>
          inode[u] \in Inodes \ Members /\ inode[u] # n /\ block'[inode[u]] = block[inode[u]]
    <3>1. ASSUME NEW u \in Tasks, at[u] \in Allocs PROVE inode[u] \in Inodes \ Members
      BY <1>4, <3>1 DEF MemInv, PendingExact
    <3>2. \A m \in Inodes \ Members : m # n
      BY <1>7, Numbers
    <3>3. QED
      BY <1>9, <3>1, <3>2
  <2>2. at'[t] \notin Allocs
    BY <1>12 DEF Allocs
  <2>3. QED
    BY <1>12, <1>15, <2>1, <2>2 DEF MemInv, PendingExact
<1>20. NamesExact'
  <2>1. \A m \in Members \ {n} : block'[m] = block[m] /\ block[m].ptr # p
    BY <1>4, <1>8, <1>9
  <2>2. ASSUME NEW a \in Addrs
        PROVE  (\E m \in Members \ {n} : block'[m].ptr = a) <=>
                 heap[a] # "free" /\ ~Pending(a)' /\ a \notin lost /\ a \notin unlisted
    <3>1. (\E m \in Members : block[m].ptr = a) <=>
             heap[a] # "free" /\ ~Pending(a) /\ a \notin lost /\ a \notin unlisted
      BY <1>4 DEF MemInv, NamesExact
    <3>2. CASE a = p
      BY <1>16, <2>1, <3>2
    <3>3. CASE a # p
      <4>1. n \in Members => block[n].ptr # a
        BY <1>8, <3>3
      <4>2. QED
        BY <1>16, <2>1, <3>1, <3>3, <4>1
    <3>4. QED
      BY <3>2, <3>3
  <2>3. QED
    BY <1>1, <1>4, <1>15, <2>1, <2>2 DEF MemInv, NamesExact
<1>21. HandsExact'
  BY <1>1, <1>6, <1>12 DEF MemInv, HandsExact, Allocs, ClientPlaces, InList
<1>22. LostExact'
  BY <1>1 DEF MemInv, LostExact
<1>23. HeldExact'
  BY <1>1, <1>12, <1>14 DEF MemInv, HeldExact
<1>24. ForkExact'
  <2>1. ASSUME Departed
        PROVE  /\ Distinct(fork) /\ Within(fork) \subseteq Members \ {n}
               /\ \A m \in (Members \ {n}) \ Within(fork) : block'[m].ptr = 0
    <3>1. /\ t = Main /\ at[Main] \in Frees
          /\ at[Main] \notin {"dying", "dtors", "destroy", "fork", "wild"}
      BY <1>1, <1>3, <1>14, <2>1 DEF Frees
    <3>2. /\ Distinct(fork) /\ Within(fork) \subseteq Members
          /\ \A m \in Members \ Within(fork) : block[m].ptr = 0 \/ block[m].ptr = p
          /\ \E m \in Members \ Within(fork) : block[m].ptr = p
      BY <1>4, <2>1, <3>1 DEF MemInv, ForkExact
    <3>3. n \notin Within(fork)
      BY <1>8, <3>2
    <3>4. QED
      BY <1>4, <1>8, <1>9, <3>2, <3>3
  <2>2. Departed => at'[Main] = "free"
    BY <1>12, <1>14
  <2>3. QED
    BY <1>1, <1>14, <1>15, <2>1, <2>2 DEF ForkExact, Frees
<1>25. DeathExact'
  <2>1. Main \in Tasks
    BY Numbers
  <2>2. at'[Main] \in {"onCreate", "bare", "closed", "dead"} <=> at[Main] \in {"onCreate", "bare", "closed", "dead"}
    BY <1>3, <1>12, <2>1
  <2>3. at'[Main] = "wild" => at[Main] = "wild"
    BY <1>12, <2>1
  <2>4. \A m \in Members \ {n} : block'[m] = block[m]
    BY <1>4, <1>9
  <2>5. QED
    BY <1>1, <1>4, <1>15, <2>2, <2>3, <2>4 DEF MemInv, DeathExact
<1>26. QED
  BY <1>11, <1>14, <1>17, <1>18, <1>19, <1>20, <1>21, <1>22, <1>23, <1>24, <1>25 DEF MemInv

LEMMA FreePtrPreserves ==
  ASSUME MemCtlAssumption, MemInv, NEW t \in Tasks, FreePtr(t)
  PROVE  MemInv'
<1> DEFINE p == ptr[t]
<1>1. /\ at[t] = "free" /\ PastLock(t)
      /\ heap' = [heap EXCEPT ![p] = "free"] /\ unlisted' = unlisted \ {p}
      /\ Local(t, "unlink", 0, inode[t])
      /\ UNCHANGED <<list, block, mblock, held, calls, dying, fork>>
      /\ UNCHANGED <<kills, lost, hit, late, odd, skipped>>
  BY DEF FreePtr
<1>2. pc' = pc
  BY <1>1, PastLockDoes DEF ClientPlaces, Allocs, Frees, InList
<1>3. /\ heap \in [Addrs -> {"free", "malloc", "ws"}] /\ p \in 0..MaxAddr
      /\ inode[t] \in 0..MaxInodes
      /\ block \in [Inodes -> [ptr : 0..MaxAddr,
                               destroy : {"none", "memoryFree", "free_ws", "unset"}]]
  BY DEF MemInv, MemTypes
<1>4. /\ p # 0 /\ p \in Addrs /\ heap[p] # "free" /\ p \notin lost
      /\ \A u \in Tasks \ {t} : ptr[u] # p
  <2>1. p # 0
    BY <1>1 DEF MemInv, HandsExact
  <2>2. QED
    BY <1>3, <2>1, Numbers DEF MemInv, HandsExact
<1>5. /\ heap' \in [Addrs -> {"free", "malloc", "ws"}]
      /\ heap'[p] = "free" /\ \A a \in Addrs \ {p} : heap'[a] = heap[a]
  BY <1>1, <1>3, <1>4
<1>6. /\ at' \in [Tasks -> Places] /\ ptr' \in [Tasks -> 0..MaxAddr]
      /\ inode' \in [Tasks -> 0..MaxInodes]
      /\ at'[t] = "unlink" /\ ptr'[t] = 0 /\ inode'[t] = inode[t]
      /\ \A u \in Tasks \ {t} : at'[u] = at[u] /\ ptr'[u] = ptr[u] /\ inode'[u] = inode[u]
  <2>1. "unlink" \in Places /\ 0 \in 0..MaxAddr
    BY Numbers DEF Places, DeathPlaces
  <2>2. QED
    BY <1>1, <1>3, <2>1, LocalDoes
<1>7. "unlink" \in InList /\ at[t] \in Calls
  BY <1>1 DEF Calls, InList
<1>8. /\ Departed' = Departed /\ PhaseExact' /\ CreateExact' /\ AloneInList' /\ UsedExact'
  BY <1>1, <1>6, <1>7, CallGoesOn
<1>9. Order' = Order /\ ListInOrder'
  BY <1>1, ListStays DEF MemInv
<1>10. Full' = Full /\ Settled' = Settled /\ Members' = Members
  BY <1>1, <1>6, ViewStays DEF Altering, Emptying
<1>11. Settled \subseteq Inodes
  BY ListFacts
<1>12. Pending(p) /\ \A a \in Addrs : Pending(a)' <=> Pending(a) /\ a # p
  <2>1. Pending(p)
    BY <1>1 DEF Pending
  <2>2. \A a \in Addrs : Pending(a)' => Pending(a) /\ a # p
    <3>1. at'[t] \notin Allocs \cup {"free", "store"}
      BY <1>6 DEF Allocs
    <3>2. QED
      BY <1>4, <1>6, <3>1 DEF Pending
  <2>3. \A a \in Addrs : Pending(a) /\ a # p => Pending(a)'
    BY <1>6 DEF Pending
  <2>4. QED
    BY <2>1, <2>2, <2>3
<1>13. \A m \in Settled : block[m].ptr # p
  BY <1>4, <1>12 DEF MemInv, NamesExact
<1>14. MemTypes'
  BY <1>1, <1>2, <1>5, <1>6 DEF MemInv, MemTypes
<1>15. InodesExact'
  BY <1>1, <1>6, <1>10 DEF MemInv, InodesExact, Emptying
<1>16. PendingExact'
  BY <1>1, <1>6, <1>10 DEF MemInv, PendingExact, Allocs
<1>17. NamesExact'
  <2>1. ASSUME NEW a \in Addrs
        PROVE  (\E m \in Settled : block[m].ptr = a) <=>
                 heap'[a] # "free" /\ ~Pending(a)' /\ a \notin lost' /\ a \notin unlisted'
    <3>1. (\E m \in Settled : block[m].ptr = a) <=>
             heap[a] # "free" /\ ~Pending(a) /\ a \notin lost /\ a \notin unlisted
      BY DEF MemInv, NamesExact
    <3>2. CASE a = p
      BY <1>5, <1>13, <3>2
    <3>3. CASE a # p
      BY <1>1, <1>5, <1>12, <3>1, <3>3
    <3>4. QED
      BY <3>2, <3>3
  <2>2. ASSUME NEW m \in Settled, block[m].ptr # 0
        PROVE  heap'[block[m].ptr] = heap[block[m].ptr]
    <3>1. block[m].ptr \in Addrs
      BY <1>3, <1>11, <2>2, Numbers
    <3>2. QED
      BY <1>5, <1>13, <3>1
  <2>3. QED
    BY <1>1, <1>10, <2>1, <2>2 DEF MemInv, NamesExact
<1>18. HandsExact'
  <2>1. ASSUME NEW u \in Tasks \ {t}, ptr[u] # 0
        PROVE  heap'[ptr[u]] = heap[ptr[u]]
    <3>1. ptr[u] \in Addrs
      BY <2>1, Numbers DEF MemInv, MemTypes
    <3>2. QED
      BY <1>4, <1>5, <3>1
  <2>2. ASSUME NEW u \in Tasks \ {t}
        PROVE  /\ ptr'[u] # 0 =>
                    /\ heap'[ptr'[u]] # "free" /\ ptr'[u] \notin lost'
                    /\ at'[u] \in Allocs \cup {"store"} => ptr'[u] \notin unlisted'
                    /\ \A v \in Tasks : ptr'[v] = ptr'[u] => v = u
                    /\ at'[u] \in ClientPlaces \ {"client", "unlink"}
               /\ at'[u] \in {"alloc_ws", "free_ws"} => ptr'[u] # 0 /\ heap'[ptr'[u]] = "ws"
               /\ at'[u] \in {"memoryFree", "memoryRealloc"} =>
                    ptr'[u] # 0 /\ heap'[ptr'[u]] = "malloc"
               /\ at'[u] \in {"memoryAlloc", "store"} /\ ptr'[u] # 0 => heap'[ptr'[u]] = "malloc"
               /\ at'[u] = "free" => ptr'[u] # 0
    <3>1. \A v \in Tasks : ptr'[u] # 0 /\ ptr'[v] = ptr'[u] => v = u
      BY <1>6 DEF MemInv, HandsExact
    <3>2. QED
      BY <1>1, <1>6, <2>1, <3>1 DEF MemInv, HandsExact
  <2>3. QED
    BY <1>6, <2>2 DEF HandsExact
<1>19. LostExact'
  BY <1>1, <1>4, <1>5 DEF MemInv, LostExact, MemTypes
<1>20. HeldExact'
  <2>1. ASSUME ~Departed, NEW a \in held
        PROVE  heap'[a] # "free" /\ a \notin lost /\ \A u \in Tasks : ptr'[u] # a
    <3>1. /\ a \in Addrs /\ a # 0 /\ heap[a] # "free" /\ a \notin lost
          /\ \A u \in Tasks : ptr[u] # a
      BY <2>1, Numbers DEF MemInv, MemTypes, HeldExact
    <3>2. QED
      BY <1>5, <1>6, <3>1
  <2>2. QED
    BY <1>1, <1>8, <2>1 DEF HeldExact
<1>21. Main \in Tasks
  BY Numbers
<1>22. ForkExact'
  BY <1>1, <1>6, <1>8, <1>10, <1>21 DEF MemInv, ForkExact, Frees
<1>23. DeathExact'
  BY <1>1, <1>6, <1>10, <1>21 DEF MemInv, DeathExact
<1>24. QED
  BY <1>8, <1>9, <1>14, <1>15, <1>16, <1>17, <1>18, <1>19, <1>20, <1>22, <1>23 DEF MemInv

LEMMA UnlinkPreserves ==
  ASSUME MemCtlAssumption, MemInv, NEW t \in Tasks, Unlink(t)
  PROVE  MemInv'
<1> DEFINE n == inode[t]
<1>1. /\ at[t] = "unlink" /\ PastLock(t)
      /\ list' = corelist_del_inode(list, n)
      /\ Local(t, "leave", 0, 0)
      /\ UNCHANGED <<heap, block, mblock, held, calls, dying, fork>>
      /\ UNCHANGED <<kills, lost, unlisted, hit, late, odd, skipped>>
  BY DEF Unlink, history
<1>2. pc' = pc /\ \A u \in Tasks \ {t} : at[u] \notin InList
  BY <1>1, PastLockDoes DEF ClientPlaces, Allocs, Frees, InList
<1>3. at[t] \in InList /\ at[t] \in Emptying /\ at[t] \in Altering
  BY <1>1 DEF InList, Emptying, Altering
<1>4. Full = Members \ {n} /\ Settled = Members \ {n} /\ Members \subseteq Inodes
  BY <1>3, OnlyInList, ListFacts
<1>5. ptr[t] = 0 /\ (n = 0 \/ n \in Members) /\ 0 \notin Members
  BY <1>1, <1>3, <1>4, Numbers DEF MemInv, HandsExact, InodesExact
<1>6. /\ at' \in [Tasks -> Places] /\ ptr' \in [Tasks -> 0..MaxAddr]
      /\ inode' \in [Tasks -> 0..MaxInodes]
      /\ at'[t] = "leave" /\ ptr'[t] = 0 /\ inode'[t] = 0
      /\ \A u \in Tasks \ {t} : at'[u] = at[u] /\ ptr'[u] = ptr[u] /\ inode'[u] = inode[u]
  <2>1. "leave" \in Places /\ 0 \in 0..MaxAddr /\ 0 \in 0..MaxInodes
    BY Numbers DEF Places, DeathPlaces
  <2>2. QED
    BY <1>1, <2>1, LocalDoes
<1>7. "leave" \in InList /\ at[t] \in Calls
  BY <1>1 DEF Calls, InList
<1>8. /\ Departed' = Departed /\ PhaseExact' /\ CreateExact' /\ AloneInList' /\ UsedExact'
      /\ \A u \in Tasks \ {t} : at'[u] \notin InList
  BY <1>1, <1>6, <1>7, CallGoesOn
<1>9. /\ Members' = Members \ {n} /\ ListInOrder'
      /\ \A m \in Members \ {n} : list'.self[m] = list.self[m]
  <2>1. CASE n = 0
    <3>1. list' = list
      BY <1>1, <2>1 DEF corelist_del_inode
    <3>2. QED
      BY <1>5, <2>1, <3>1, ListStays DEF MemInv
  <2>2. CASE n # 0
    <3> HIDE DEF n
    <3>1. PICK k \in 1..Len(Order) : n = Order[k]
      BY <1>5, <2>2 DEF Members, Within
    <3>2. Chain(list', Without(Order, k)) /\ list'.self = [list.self EXCEPT ![n] = 0]
      BY <1>1, <3>1, ListFacts, DelInodeRemoves
    <3>3. Without(Order, k) \in Seq(Inodes) /\ Within(Without(Order, k)) = Members \ {n}
      BY <3>1, ListFacts, WithoutIs DEF Members
    <3>4. list.self \in [Inodes -> 0..MaxInodes]
      BY ListFacts DEF Chain, ListType
    <3>5. QED
      BY <1>4, <3>2, <3>3, <3>4, OrderIs
  <2>3. QED
    BY <2>1, <2>2
<1> HIDE DEF n
<1>10. Full' = Full /\ Settled' = Settled
  <2>1. Full' = Members' /\ Settled' = Members'
    BY <1>6, <1>8 DEF Full, Settled, Untouched, InList, Emptying, Altering
  <2>2. QED
    BY <1>4, <1>9, <2>1
<1>11. \A a \in Addrs : Pending(a)' = Pending(a)
  <2>1. /\ at[t] \notin Allocs \cup {"free", "store"} /\ at'[t] \notin Allocs \cup {"free", "store"}
    BY <1>1, <1>6 DEF Allocs
  <2>2. QED
    BY <1>6, <2>1 DEF Pending
<1>12. MemTypes'
  BY <1>1, <1>2, <1>6 DEF MemInv, MemTypes
<1>13. InodesExact'
  <2>1. \A m \in Full : list'.self[m] = m /\ block[m].destroy # "none"
    BY <1>4, <1>9 DEF MemInv, InodesExact
  <2>2. \A u \in Tasks : at'[u] \notin Emptying /\ at'[u] # "store"
    BY <1>6, <1>8 DEF InList, Emptying
  <2>3. QED
    BY <1>1, <1>10, <2>1, <2>2 DEF InodesExact
<1>14. PendingExact'
  BY <1>1, <1>6, <1>10 DEF MemInv, PendingExact, Allocs
<1>15. NamesExact'
  BY <1>1, <1>10, <1>11 DEF MemInv, NamesExact
<1>16. HandsExact'
  BY <1>1, <1>5, <1>6 DEF MemInv, HandsExact, Allocs, ClientPlaces
<1>17. LostExact' /\ HeldExact'
  BY <1>1, <1>5, <1>6, <1>8 DEF MemInv, LostExact, HeldExact
<1>18. Main \in Tasks
  BY Numbers
<1>19. ForkExact'
  BY <1>1, <1>5, <1>6, <1>8, <1>10, <1>18 DEF MemInv, ForkExact, Frees
<1>20. DeathExact'
  BY <1>1, <1>6, <1>10, <1>18 DEF MemInv, DeathExact
<1>21. QED
  BY <1>8, <1>9, <1>12, <1>13, <1>14, <1>15, <1>16, <1>17, <1>19, <1>20 DEF MemInv

LEMMA ReallocMovePreserves ==
  ASSUME MemCtlAssumption, MemInv, NEW t \in Tasks, ReallocMove(t)
  PROVE  MemInv'
<1> DEFINE a == ptr[t]
           found == findPtrInode(a)
<1>1. PICK n \in (IF found = 0 THEN FreeInode ELSE {found}), q \in 0..MaxAddr :
        /\ list' = IF found = 0 THEN corelist_push_back(list, n, n) ELSE list
        /\ block' = IF found = 0 THEN [block EXCEPT ![n] = [ptr |-> a, destroy |-> "unset"]]
                    ELSE block
        /\ Local(t, "store", q, n) /\ odd' = (odd \/ found = 0)
        /\ \/ /\ q \in Addrs /\ (q = a \/ heap[q] = "free")
              /\ heap' = [heap EXCEPT ![a] = "free", ![q] = "malloc"]
              /\ unlisted' = unlisted \ {a} /\ held' = held
           \/ /\ q = 0 /\ heap' = heap
              /\ unlisted' = unlisted \cup {a} /\ held' = held \cup {a}
  <2>1. PICK n \in (IF found = 0 THEN FreeInode ELSE {found}) :
        /\ list' = IF found = 0 THEN corelist_push_back(list, n, n) ELSE list
        /\ block' = IF found = 0 THEN [block EXCEPT ![n] = [ptr |-> a, destroy |-> "unset"]]
                    ELSE block
        /\ \/ \E b \in Addrs :
                /\ b = a \/ heap[b] = "free"
                /\ heap' = [heap EXCEPT ![a] = "free", ![b] = "malloc"]
                /\ Local(t, "store", b, n)
                /\ odd' = (odd \/ found = 0)
                /\ unlisted' = unlisted \ {a}
                /\ UNCHANGED held
           \/ /\ Local(t, "store", 0, n)
              /\ held' = held \cup {a}
              /\ unlisted' = unlisted \cup {a}
              /\ odd' = (odd \/ found = 0)
              /\ UNCHANGED heap
    BY DEF ReallocMove
  <2>2. Addrs \subseteq 0..MaxAddr /\ 0 \in 0..MaxAddr
    BY Numbers
  <2> HIDE DEF a, found
  <2>3. CASE \E b \in Addrs :
                /\ b = a \/ heap[b] = "free"
                /\ heap' = [heap EXCEPT ![a] = "free", ![b] = "malloc"]
                /\ Local(t, "store", b, n)
                /\ odd' = (odd \/ found = 0)
                /\ unlisted' = unlisted \ {a}
                /\ UNCHANGED held
    BY <2>1, <2>2, <2>3
  <2>4. CASE /\ Local(t, "store", 0, n)
             /\ held' = held \cup {a}
             /\ unlisted' = unlisted \cup {a}
             /\ odd' = (odd \/ found = 0)
             /\ UNCHANGED heap
    BY <2>1, <2>2, <2>4
  <2>5. QED
    BY <2>1, <2>3, <2>4
<1>2. /\ at[t] = "memoryRealloc" /\ PastLock(t)
      /\ UNCHANGED <<mblock, calls, dying, fork, kills, lost, hit, late, skipped>>
  BY DEF ReallocMove
<1>3. pc' = pc /\ \A u \in Tasks : at[u] \notin InList
  BY <1>2, PastLockDoes DEF ClientPlaces, InList
<1>4. Full = Members /\ Settled = Members /\ Members \subseteq Inodes
  BY <1>3, NobodyInList, ListFacts
<1>5. /\ heap \in [Addrs -> {"free", "malloc", "ws"}] /\ a \in 0..MaxAddr
      /\ block \in [Inodes -> [ptr : 0..MaxAddr,
                               destroy : {"none", "memoryFree", "free_ws", "unset"}]]
      /\ list.self \in [Inodes -> 0..MaxInodes]
      /\ held \subseteq Addrs /\ unlisted \subseteq Addrs
  BY ListFacts DEF MemInv, MemTypes, Chain, ListType
<1>6. /\ a # 0 /\ a \in Addrs /\ heap[a] = "malloc" /\ a \notin lost
      /\ \A u \in Tasks \ {t} : ptr[u] # a
  <2>1. a # 0 /\ heap[a] = "malloc"
    BY <1>2 DEF MemInv, HandsExact
  <2>2. QED
    BY <1>5, <2>1, Numbers DEF MemInv, HandsExact
<1>7. /\ found = 0 => \A m \in Members : block[m].ptr # a
      /\ found # 0 => /\ found \in Members /\ block[found].ptr = a /\ list.self[found] = found
                      /\ \A m \in Members : block[m].ptr = a => m = found
  BY <1>3, <1>6, FindDoes
<1> HIDE DEF found
<1>8. /\ n \in Inodes /\ n \in 0..MaxInodes
      /\ found = 0 => block[n] = NoBlock /\ n \notin Members
      /\ found # 0 => n = found
  <2>1. CASE found = 0
    <3>1. n \in Inodes /\ block[n] = NoBlock
      BY <1>1, <2>1 DEF FreeInode
    <3>2. block[n].destroy = "none"
      BY <3>1 DEF NoBlock
    <3>3. n \notin Members
      BY <1>4, <3>2 DEF MemInv, InodesExact
    <3>4. QED
      BY <2>1, <3>1, <3>3, Numbers
  <2>2. CASE found # 0
    BY <1>1, <1>4, <1>7, <2>2, Numbers
  <2>3. QED
    BY <2>1, <2>2
<1>9. \A u \in Tasks : at[u] \in Allocs => inode[u] # n /\ inode[u] \in Inodes \ Members
  <2>1. ASSUME NEW u \in Tasks, at[u] \in Allocs
        PROVE  inode[u] \in Inodes \ Members /\ block[inode[u]].destroy # "none"
    <3>1. block[inode[u]] =
            [ptr |-> ptr[u], destroy |-> IF at[u] = "alloc_ws" THEN "free_ws" ELSE "memoryFree"]
      BY <2>1 DEF MemInv, PendingExact
    <3>2. inode[u] \in Inodes \ Members
      BY <1>4, <2>1 DEF MemInv, PendingExact
    <3>3. QED
      BY <3>1, <3>2
  <2>2. found = 0 => block[n].destroy = "none"
    BY <1>8 DEF NoBlock
  <2>3. QED
    BY <1>7, <1>8, <2>1, <2>2
<1>10. /\ block' \in [Inodes -> [ptr : 0..MaxAddr,
                                 destroy : {"none", "memoryFree", "free_ws", "unset"}]]
       /\ \A m \in Inodes \ {n} : block'[m] = block[m]
       /\ block'[n].ptr = a /\ block'[n].destroy \notin {"none", "free_ws"}
       /\ found # 0 => block' = block
  <2>1. CASE found = 0
    <3>1. [ptr |-> a, destroy |-> "unset"] \in
            [ptr : 0..MaxAddr, destroy : {"none", "memoryFree", "free_ws", "unset"}]
      BY <1>5
    <3>2. block' = [block EXCEPT ![n] = [ptr |-> a, destroy |-> "unset"]]
      BY <1>1, <2>1
    <3>3. block'[n] = [ptr |-> a, destroy |-> "unset"]
      BY <1>5, <1>8, <3>2
    <3>4. QED
      BY <1>5, <1>8, <2>1, <3>1, <3>2, <3>3
  <2>2. CASE found # 0
    <3>1. block' = block /\ n \in Members /\ block[n].ptr = a
      BY <1>1, <1>7, <1>8, <2>2
    <3>2. block[n].destroy # "none"
      BY <1>4, <3>1 DEF MemInv, InodesExact
    <3>3. block[n].destroy # "free_ws"
      BY <1>4, <1>6, <3>1 DEF MemInv, NamesExact
    <3>4. QED
      BY <1>5, <3>1, <3>2, <3>3
  <2>3. QED
    BY <2>1, <2>2
<1>11. \A m \in Members \ {n} : block'[m] = block[m] /\ block[m].ptr # a
  BY <1>4, <1>7, <1>8, <1>10
<1>12. /\ Members' = Members \cup {n} /\ ListInOrder'
       /\ \A m \in Members \cup {n} : list'.self[m] = m
  <2>1. CASE found = 0
    <3>1. /\ Chain(list', Append(Order, n)) /\ Append(Order, n) \in Seq(Inodes)
          /\ Within(Append(Order, n)) = Members \cup {n}
          /\ list'.self = [list.self EXCEPT ![n] = n]
      BY <1>1, <1>8, <2>1, ListFacts, PushBackAppends DEF Members
    <3>2. Members' = Members \cup {n} /\ ListInOrder'
      BY <3>1, OrderIs
    <3>3. \A m \in Members : list.self[m] = m
      BY <1>4 DEF MemInv, InodesExact
    <3>4. QED
      BY <1>4, <1>5, <1>8, <3>1, <3>2, <3>3
  <2>2. CASE found # 0
    <3>1. list' = list /\ n \in Members
      BY <1>1, <1>7, <1>8, <2>2
    <3>2. \A m \in Members : list.self[m] = m
      BY <1>4 DEF MemInv, InodesExact
    <3>3. QED
      BY <3>1, <3>2, ListStays DEF MemInv
  <2>3. QED
    BY <2>1, <2>2
<1>13. /\ heap' \in [Addrs -> {"free", "malloc", "ws"}]
       /\ \A x \in Addrs \ {a, q} : heap'[x] = heap[x]
       /\ q # 0 => q \in Addrs /\ (q = a \/ heap[q] = "free") /\ heap'[q] = "malloc"
       /\ q # 0 /\ q # a => heap'[a] = "free"
       /\ q = 0 => heap' = heap
       /\ unlisted' = IF q # 0 THEN unlisted \ {a} ELSE unlisted \cup {a}
       /\ held' = IF q # 0 THEN held ELSE held \cup {a}
  <2>1. 0 \notin Addrs
    BY Numbers
  <2> HIDE DEF a
  <2>2. CASE q = 0
    BY <1>1, <1>5, <2>1, <2>2
  <2>3. CASE q # 0
    BY <1>1, <1>5, <1>6, <2>1, <2>3
  <2>4. QED
    BY <2>2, <2>3
<1>14. /\ at' \in [Tasks -> Places] /\ ptr' \in [Tasks -> 0..MaxAddr]
       /\ inode' \in [Tasks -> 0..MaxInodes]
       /\ at'[t] = "store" /\ ptr'[t] = q /\ inode'[t] = n
       /\ \A u \in Tasks \ {t} : at'[u] = at[u] /\ ptr'[u] = ptr[u] /\ inode'[u] = inode[u]
  <2>1. "store" \in Places
    BY DEF Places, ClientPlaces, InList
  <2>2. QED
    BY <1>1, <1>8, <2>1, LocalDoes
<1>15. ~Departed
  <2>1. at[t] # "none" /\ at[t] \notin DeathPlaces \cup {"dying"}
    BY <1>2 DEF DeathPlaces, Frees
  <2>2. QED
    BY <2>1 DEF MemInv, PhaseExact, Departed
<1>16. "store" \in InList /\ at[t] \in Calls
  BY <1>2 DEF Calls, InList
<1>17. /\ Departed' = Departed /\ PhaseExact' /\ CreateExact' /\ AloneInList' /\ UsedExact'
       /\ \A u \in Tasks \ {t} : at'[u] \notin InList
  BY <1>2, <1>14, <1>15, <1>16, CallGoesOn
<1>18. Full' = Members \cup {n} /\ Settled' = Members \ {n}
  <2>1. \A u \in Tasks \ {t} : at'[u] \notin Emptying /\ at'[u] \notin Altering
    BY <1>17 DEF InList, Emptying, Altering
  <2>2. "store" \notin Emptying /\ "store" \in Altering
    BY DEF Emptying, Altering
  <2>3. /\ Untouched(Members', at', Emptying, inode') = Members'
        /\ Untouched(Members', at', Altering, inode') = Members' \ {n}
    BY <1>14, <2>1, <2>2, UntouchedIs
  <2>4. QED
    BY <1>12, <2>3 DEF Full, Settled
<1>19. \A x \in Addrs : Pending(x)' <=> Pending(x) \/ x = q
  <2>1. at[t] \notin Allocs \cup {"free", "store"} /\ at'[t] \in Allocs \cup {"free", "store"}
    BY <1>2, <1>14 DEF Allocs
  <2>2. QED
    BY <1>14, <2>1 DEF Pending
<1>20. q # 0 => /\ q \notin lost /\ q \notin unlisted' /\ q \notin held \ {a}
                /\ \A u \in Tasks \ {t} : ptr[u] # q
                /\ \A m \in Members \ {n} : block[m].ptr # q
  <2>1. CASE q = a
    BY <1>6, <1>11, <1>13, <2>1
  <2>2. CASE q # a /\ q # 0
    <3>1. q \in Addrs /\ heap[q] = "free"
      BY <1>13, <2>2
    <3>2. q \notin lost /\ q \notin unlisted
      BY <3>1 DEF MemInv, LostExact
    <3>3. q \notin held
      BY <1>15, <3>1 DEF MemInv, HeldExact
    <3>4. \A u \in Tasks : ptr[u] # q
      BY <2>2, <3>1 DEF MemInv, HandsExact
    <3>5. \A m \in Members : block[m].ptr # q
      BY <1>4, <3>1 DEF MemInv, NamesExact
    <3>6. QED
      BY <1>13, <2>2, <3>2, <3>3, <3>4, <3>5
  <2>3. QED
    BY <2>1, <2>2
<1> HIDE DEF a
<1>21. MemTypes'
  <2>1. held' \subseteq Addrs /\ unlisted' \subseteq Addrs
    BY <1>5, <1>6, <1>13
  <2>2. QED
    BY <1>2, <1>3, <1>10, <1>13, <1>14, <2>1 DEF MemInv, MemTypes
<1>22. InodesExact'
  <2>1. \A m \in Members \cup {n} : list'.self[m] = m /\ block'[m].destroy # "none"
    BY <1>4, <1>10, <1>11, <1>12 DEF MemInv, InodesExact
  <2>2. \A u \in Tasks : /\ at'[u] \notin Emptying
                         /\ at'[u] = "store" => u = t
    BY <1>14, <1>17 DEF InList, Emptying
  <2>3. QED
    BY <1>10, <1>12, <1>14, <1>18, <2>1, <2>2 DEF InodesExact
<1>23. PendingExact'
  <2>1. \A u \in Tasks \ {t} : at[u] \in Allocs =>
          /\ inode[u] \in Inodes \ (Members \cup {n})
          /\ block'[inode[u]] = block[inode[u]]
    BY <1>9, <1>10
  <2>2. at'[t] \notin Allocs
    BY <1>14 DEF Allocs
  <2>3. QED
    BY <1>14, <1>18, <2>1, <2>2 DEF MemInv, PendingExact
<1>24. NamesExact'
  <2>1. ASSUME NEW x \in Addrs
        PROVE  (\E m \in Members \ {n} : block'[m].ptr = x) <=>
                 heap'[x] # "free" /\ ~Pending(x)' /\ x \notin lost /\ x \notin unlisted'
    <3>1. (\E m \in Members : block[m].ptr = x) <=>
             heap[x] # "free" /\ ~Pending(x) /\ x \notin lost /\ x \notin unlisted
      BY <1>4 DEF MemInv, NamesExact
    <3>2. CASE x = q
      <4>1. q # 0 /\ Pending(x)'
        BY <1>19, <3>2, Numbers
      <4>2. QED
        BY <1>11, <1>20, <3>2, <4>1
    <3>3. CASE x = a /\ x # q
      <4>1. heap'[x] = "free" \/ x \in unlisted'
        BY <1>13, <3>3
      <4>2. QED
        BY <1>11, <3>3, <4>1
    <3>4. CASE x # a /\ x # q
      <4>1. n \in Members => block[n].ptr = a
        BY <1>7, <1>8
      <4>2. (\E m \in Members \ {n} : block'[m].ptr = x) <=> (\E m \in Members : block[m].ptr = x)
        BY <1>11, <3>4, <4>1
      <4>3. heap'[x] = heap[x] /\ (x \in unlisted' <=> x \in unlisted)
        BY <1>13, <3>4
      <4>4. QED
        BY <1>19, <3>1, <3>4, <4>2, <4>3
    <3>5. QED
      BY <3>2, <3>3, <3>4
  <2>2. ASSUME NEW m \in Members \ {n}, block[m].ptr # 0
        PROVE  heap'[block[m].ptr] = heap[block[m].ptr]
    <3>1. block[m].ptr \in Addrs
      BY <1>4, <1>5, <2>2, Numbers
    <3>2. block[m].ptr # a /\ block[m].ptr # q
      BY <1>11, <1>20, <2>2
    <3>3. QED
      BY <1>13, <3>1, <3>2
  <2>3. \A m, k \in Members \ {n} :
          block'[m].ptr = block'[k].ptr /\ m # k => block'[m].ptr = 0
    BY <1>4, <1>11 DEF MemInv, NamesExact
  <2>4. \A m \in Members \ {n} : block'[m].ptr # 0 =>
          heap'[block'[m].ptr] = IF block'[m].destroy = "free_ws" THEN "ws" ELSE "malloc"
    BY <1>4, <1>11, <2>2 DEF MemInv, NamesExact
  <2>5. QED
    BY <1>2, <1>18, <2>1, <2>3, <2>4 DEF NamesExact
<1>25. HandsExact'
  <2>1. ASSUME NEW u \in Tasks \ {t}, ptr[u] # 0
        PROVE  /\ heap'[ptr[u]] = heap[ptr[u]] /\ (ptr[u] \in unlisted' <=> ptr[u] \in unlisted)
               /\ ptr[u] # q
    <3>1. ptr[u] \in Addrs
      BY <2>1, Numbers DEF MemInv, MemTypes
    <3>2. ptr[u] # a /\ ptr[u] # q
      BY <1>6, <1>20, <2>1 DEF a
    <3>3. QED
      BY <1>13, <3>1, <3>2
  <2>2. \A u \in Tasks \ {t} : at[u] \in {"alloc_ws", "free_ws", "memoryFree", "memoryRealloc"}
                                 => ptr[u] # 0
    BY DEF MemInv, HandsExact
  <2>3. ASSUME NEW u \in Tasks \ {t}
        PROVE  /\ ptr'[u] # 0 =>
                    /\ heap'[ptr'[u]] # "free" /\ ptr'[u] \notin lost'
                    /\ at'[u] \in Allocs \cup {"store"} => ptr'[u] \notin unlisted'
                    /\ \A v \in Tasks : ptr'[v] = ptr'[u] => v = u
                    /\ at'[u] \in ClientPlaces \ {"client", "unlink"}
               /\ at'[u] \in {"alloc_ws", "free_ws"} => ptr'[u] # 0 /\ heap'[ptr'[u]] = "ws"
               /\ at'[u] \in {"memoryFree", "memoryRealloc"} =>
                    ptr'[u] # 0 /\ heap'[ptr'[u]] = "malloc"
               /\ at'[u] \in {"memoryAlloc", "store"} /\ ptr'[u] # 0 => heap'[ptr'[u]] = "malloc"
               /\ at'[u] = "free" => ptr'[u] # 0
    BY <1>2, <1>14, <2>1, <2>2 DEF MemInv, HandsExact
  <2>4. /\ q # 0 => /\ heap'[q] = "malloc" /\ q \notin lost' /\ q \notin unlisted'
                    /\ \A v \in Tasks : ptr'[v] = q => v = t
        /\ "store" \in ClientPlaces \ {"client", "unlink"}
    BY <1>2, <1>13, <1>14, <1>20 DEF ClientPlaces, InList
  <2>5. QED
    BY <1>14, <2>3, <2>4 DEF HandsExact
<1>26. LostExact'
  <2>1. ASSUME NEW x \in lost PROVE heap'[x] # "free"
    <3>1. x \in Addrs /\ x # a /\ heap[x] # "free"
      BY <1>6, <2>1 DEF MemInv, MemTypes, LostExact
    <3>2. x # q
      BY <1>20, <2>1, <3>1, Numbers
    <3>3. QED
      BY <1>13, <3>1, <3>2
  <2>2. ASSUME NEW x \in unlisted' PROVE heap'[x] = "malloc"
    <3>1. CASE x = a
      BY <1>6, <1>13, <2>2, <3>1
    <3>2. CASE x # a
      <4>1. x \in unlisted /\ x \in Addrs /\ heap[x] = "malloc"
        BY <1>5, <1>13, <2>2, <3>2 DEF MemInv, LostExact
      <4>2. QED
        BY <1>13, <3>2, <4>1
    <3>3. QED
      BY <3>1, <3>2
  <2>3. QED
    BY <1>2, <2>1, <2>2 DEF LostExact
<1>27. HeldExact'
  <2>1. ASSUME NEW x \in held PROVE heap'[x] # "free" /\ x \notin lost /\ \A u \in Tasks : ptr'[u] # x
    <3>1. /\ x \in Addrs /\ heap[x] # "free" /\ x \notin lost /\ \A u \in Tasks : ptr[u] # x
      BY <1>5, <1>15, <2>1 DEF MemInv, HeldExact
    <3>2. x # a /\ x # 0
      BY <3>1, Numbers DEF a
    <3>3. x # q
      BY <1>20, <2>1, <3>2
    <3>4. QED
      BY <1>13, <1>14, <3>1, <3>2, <3>3
  <2>2. q = 0 => heap'[a] # "free" /\ a \notin lost /\ \A u \in Tasks : ptr'[u] # a
    BY <1>6, <1>13, <1>14
  <2>3. QED
    BY <1>2, <1>13, <2>1, <2>2 DEF HeldExact
<1>28. ForkExact'
  BY <1>15, <1>17 DEF ForkExact
<1>29. DeathExact'
  <2>1. Main \in Tasks
    BY Numbers
  <2>2. at'[Main] \in {"onCreate", "bare", "closed", "dead"} <=> at[Main] \in {"onCreate", "bare", "closed", "dead"}
    BY <1>2, <1>14, <2>1
  <2>3. at'[Main] = "wild" => at[Main] = "wild"
    BY <1>14, <2>1
  <2>4. ~odd' => ~odd /\ n \in Members /\ block' = block
    BY <1>1, <1>7, <1>8, <1>10
  <2>5. QED
    BY <1>1, <1>2, <1>4, <1>18, <2>2, <2>3, <2>4 DEF MemInv, DeathExact
<1>30. QED
  BY <1>12, <1>17, <1>21, <1>22, <1>23, <1>24, <1>25, <1>26, <1>27, <1>28, <1>29 DEF MemInv

LEMMA ReallocStorePreserves ==
  ASSUME MemCtlAssumption, MemInv, NEW t \in Tasks, ReallocStore(t)
  PROVE  MemInv'
<1> DEFINE n == inode[t]
           q == ptr[t]
<1>1. /\ at[t] = "store" /\ PastLock(t)
      /\ block' = [block EXCEPT ![list.self[n]].ptr = q]
      /\ Local(t, "leave", q, 0)
      /\ UNCHANGED <<heap, list, mblock, held, calls, dying, fork>>
      /\ UNCHANGED <<kills, lost, unlisted, hit, late, odd, skipped>>
  BY DEF ReallocStore, history
<1>2. pc' = pc /\ \A u \in Tasks \ {t} : at[u] \notin InList
  BY <1>1, PastLockDoes DEF ClientPlaces, Allocs, Frees, InList
<1>3. at[t] \in InList /\ at[t] \notin Emptying /\ at[t] \in Altering
  BY <1>1 DEF InList, Emptying, Altering
<1>4. Full = Members /\ Settled = Members \ {n} /\ Members \subseteq Inodes
  BY <1>3, OnlyInList, ListFacts
<1>5. /\ heap \in [Addrs -> {"free", "malloc", "ws"}] /\ q \in 0..MaxAddr
      /\ block \in [Inodes -> [ptr : 0..MaxAddr,
                               destroy : {"none", "memoryFree", "free_ws", "unset"}]]
  BY DEF MemInv, MemTypes
<1>6. /\ n \in Members /\ n \in Inodes /\ list.self[n] = n
      /\ block[n].destroy # "free_ws"
  BY <1>1, <1>4 DEF MemInv, InodesExact
<1>7. q # 0 => /\ q \in Addrs /\ heap[q] = "malloc" /\ q \notin lost /\ q \notin unlisted
               /\ Pending(q) /\ \A u \in Tasks \ {t} : ptr[u] # q
  <2>1. q # 0 => /\ heap[q] = "malloc" /\ q \notin lost /\ q \notin unlisted
                 /\ \A u \in Tasks \ {t} : ptr[u] # q
    BY <1>1 DEF MemInv, HandsExact
  <2>2. q # 0 => q \in Addrs /\ Pending(q)
    BY <1>1, <1>5, Numbers DEF Pending
  <2>3. QED
    BY <2>1, <2>2
<1>8. /\ block' \in [Inodes -> [ptr : 0..MaxAddr,
                                destroy : {"none", "memoryFree", "free_ws", "unset"}]]
      /\ \A m \in Inodes \ {n} : block'[m] = block[m]
      /\ block'[n].ptr = q /\ \A m \in Inodes : block'[m].destroy = block[m].destroy
  <2>1. block' = [block EXCEPT ![n].ptr = q]
    BY <1>1, <1>6
  <2> HIDE DEF n, q
  <2>2. block' \in [Inodes -> [ptr : 0..MaxAddr,
                                destroy : {"none", "memoryFree", "free_ws", "unset"}]]
    BY <1>5, <1>6, <2>1
  <2>3. /\ \A m \in Inodes \ {n} : block'[m] = block[m]
        /\ block'[n].ptr = q /\ block'[n].destroy = block[n].destroy
    BY <1>5, <1>6, <2>1
  <2>4. QED
    BY <2>2, <2>3
<1>9. /\ at' \in [Tasks -> Places] /\ ptr' \in [Tasks -> 0..MaxAddr]
      /\ inode' \in [Tasks -> 0..MaxInodes]
      /\ at'[t] = "leave" /\ ptr'[t] = q /\ inode'[t] = 0
      /\ \A u \in Tasks \ {t} : at'[u] = at[u] /\ ptr'[u] = ptr[u] /\ inode'[u] = inode[u]
  <2>1. "leave" \in Places /\ 0 \in 0..MaxInodes
    BY Numbers DEF Places, DeathPlaces
  <2>2. QED
    BY <1>1, <1>5, <2>1, LocalDoes
<1>10. "leave" \in InList /\ at[t] \in Calls
  BY <1>1 DEF Calls, InList
<1>11. /\ Departed' = Departed /\ PhaseExact' /\ CreateExact' /\ AloneInList' /\ UsedExact'
       /\ \A u \in Tasks \ {t} : at'[u] \notin InList
  BY <1>1, <1>9, <1>10, CallGoesOn
<1>12. ~Departed
  <2>1. at[t] # "none" /\ at[t] \notin DeathPlaces \cup {"dying"}
    BY <1>1 DEF DeathPlaces, Frees
  <2>2. QED
    BY <2>1 DEF MemInv, PhaseExact, Departed
<1>13. Order' = Order /\ Members' = Members /\ ListInOrder'
  BY <1>1, ListStays DEF MemInv
<1>14. Full' = Members /\ Settled' = Members
  BY <1>9, <1>11, <1>13 DEF Full, Settled, Untouched, InList, Emptying, Altering
<1>15. \A a \in Addrs : Pending(a)' <=> Pending(a) /\ a # q
  <2>1. at'[t] \notin Allocs \cup {"free", "store"}
    BY <1>9 DEF Allocs
  <2>2. \A a \in Addrs : Pending(a)' => Pending(a) /\ a # q
    BY <1>7, <1>9, <2>1, Numbers DEF Pending
  <2>3. \A a \in Addrs : Pending(a) /\ a # q => Pending(a)'
    BY <1>9 DEF Pending
  <2>4. QED
    BY <2>2, <2>3
<1>16. q # 0 => \A m \in Members \ {n} : block[m].ptr # q
  BY <1>4, <1>7 DEF MemInv, NamesExact
<1>17. MemTypes'
  BY <1>1, <1>2, <1>8, <1>9 DEF MemInv, MemTypes
<1>18. InodesExact'
  <2>1. \A m \in Members : list.self[m] = m /\ block'[m].destroy # "none"
    BY <1>4, <1>8 DEF MemInv, InodesExact
  <2>2. \A u \in Tasks : at'[u] \notin Emptying /\ at'[u] # "store"
    BY <1>9, <1>11 DEF InList, Emptying
  <2>3. QED
    BY <1>1, <1>14, <2>1, <2>2 DEF InodesExact
<1>19. PendingExact'
  <2>1. ASSUME NEW u \in Tasks, at[u] \in Allocs
        PROVE  inode[u] \in Inodes \ Members /\ block'[inode[u]] = block[inode[u]]
    <3>1. inode[u] \in Inodes \ Members
      BY <1>4, <2>1 DEF MemInv, PendingExact
    <3>2. inode[u] # n
      BY <1>6, <3>1
    <3>3. QED
      BY <1>8, <3>1, <3>2
  <2>2. at'[t] \notin Allocs
    BY <1>9 DEF Allocs
  <2>3. QED
    BY <1>9, <1>14, <2>1, <2>2 DEF MemInv, PendingExact
<1>20. NamesExact'
  <2>1. \A m \in Members \ {n} : block'[m] = block[m]
    BY <1>4, <1>8
  <2>2. ASSUME NEW a \in Addrs
        PROVE  (\E m \in Members : block'[m].ptr = a) <=>
                 heap[a] # "free" /\ ~Pending(a)' /\ a \notin lost /\ a \notin unlisted
    <3>1. (\E m \in Members \ {n} : block[m].ptr = a) <=>
             heap[a] # "free" /\ ~Pending(a) /\ a \notin lost /\ a \notin unlisted
      BY <1>4 DEF MemInv, NamesExact
    <3>2. CASE a = q
      <4>1. q # 0
        BY <3>2, Numbers
      <4>2. QED
        BY <1>6, <1>7, <1>8, <1>15, <3>2, <4>1
    <3>3. CASE a # q
      <4>1. (\E m \in Members : block'[m].ptr = a) <=> (\E m \in Members \ {n} : block[m].ptr = a)
        BY <1>8, <2>1, <3>3
      <4>2. QED
        BY <1>15, <3>1, <3>3, <4>1
    <3>4. QED
      BY <3>2, <3>3
  <2>3. ASSUME NEW m \in Members, NEW k \in Members, block'[m].ptr = block'[k].ptr, m # k
        PROVE  block'[m].ptr = 0
    <3>1. CASE m # n /\ k # n
      BY <1>4, <2>1, <2>3, <3>1 DEF MemInv, NamesExact
    <3>2. CASE m = n \/ k = n
      BY <1>8, <1>16, <2>1, <2>3, <3>2
    <3>3. QED
      BY <3>1, <3>2
  <2>4. ASSUME NEW m \in Members, block'[m].ptr # 0
        PROVE  heap[block'[m].ptr] = IF block'[m].destroy = "free_ws" THEN "ws" ELSE "malloc"
    <3>1. CASE m # n
      BY <1>4, <2>1, <2>4, <3>1 DEF MemInv, NamesExact
    <3>2. CASE m = n
      BY <1>6, <1>7, <1>8, <2>4, <3>2
    <3>3. QED
      BY <3>1, <3>2
  <2>5. QED
    BY <1>1, <1>14, <2>2, <2>3, <2>4 DEF NamesExact
<1>21. HandsExact'
  BY <1>1, <1>9, <1>12 DEF MemInv, HandsExact, Allocs, ClientPlaces, InList
<1>22. LostExact'
  BY <1>1 DEF MemInv, LostExact
<1>23. HeldExact'
  BY <1>1, <1>9, <1>11 DEF MemInv, HeldExact
<1>24. ForkExact'
  BY <1>11, <1>12 DEF ForkExact
<1>25. DeathExact'
  <2>1. Main \in Tasks
    BY Numbers
  <2>2. at'[Main] \in {"onCreate", "bare", "closed", "dead"} <=> at[Main] \in {"onCreate", "bare", "closed", "dead"}
    BY <1>1, <1>9, <2>1
  <2>3. at'[Main] = "wild" => at[Main] = "wild"
    BY <1>9, <2>1
  <2>4. \A m \in Members : block'[m].destroy = block[m].destroy
    BY <1>4, <1>8
  <2>5. QED
    BY <1>1, <1>4, <1>14, <2>2, <2>3, <2>4 DEF MemInv, DeathExact
<1>26. QED
  BY <1>11, <1>13, <1>17, <1>18, <1>19, <1>20, <1>21, <1>22, <1>23, <1>24, <1>25 DEF MemInv

-----------------------------------------------------------------------------
LEMMA InitHasMemInv ==
  ASSUME MemCtlAssumption, MemInit
  PROVE  MemInv
<1>1. /\ heap = [a \in Addrs |-> "free"] /\ list = corelist_init
      /\ block = [n \in Inodes |-> NoBlock] /\ mblock = FALSE /\ held = {}
      /\ at = [t \in Tasks |-> IF t = Main THEN "onCreate" ELSE "client"]
      /\ ptr = [t \in Tasks |-> 0] /\ inode = [t \in Tasks |-> 0]
      /\ dying = FALSE /\ fork = << >> /\ lost = {} /\ unlisted = {}
      /\ late = FALSE /\ odd = FALSE
      /\ pc = [t \in Tasks |-> "idle"]
  BY DEF MemInit, Init
<1>2. Chain(list, << >>)
  <2>1. corelist_init \in ListType
    BY Numbers DEF corelist_init, ListType
  <2>2. /\ corelist_init.first = 0 /\ corelist_init.last = 0 /\ corelist_init.size = 0
    BY DEF corelist_init
  <2>3. << >> \in Seq(Inodes) /\ Len(<< >>) = 0 /\ Distinct(<< >>)
    BY DEF Distinct
  <2>4. QED
    BY <1>1, <2>1, <2>2, <2>3 DEF Chain, Joins, JoinsBack
<1>3. Order = << >>
  <2>1. << >> \in Seq(Inodes)
    OBVIOUS
  <2>2. QED
    BY <1>2, <2>1, WalkIs DEF Order
<1>4. Members = {} /\ Full = {} /\ Settled = {}
  BY <1>3 DEF Members, Within, Full, Settled, Untouched
<1>5. \A t \in Tasks : at[t] \in {"onCreate", "client"}
  BY <1>1
<1>16. at[Main] = "onCreate"
  BY <1>1, Numbers
<1>6. MemTypes
  <2>1. NoBlock \in [ptr : 0..MaxAddr, destroy : {"none", "memoryFree", "free_ws", "unset"}]
    BY Numbers DEF NoBlock
  <2>2. fork \in Seq(Inodes \cup {0})
    BY <1>1
  <2>3. at \in [Tasks -> Places] /\ pc \in [Tasks -> Points]
    BY <1>1 DEF Places, ClientPlaces, Points
  <2>4. QED
    BY <1>1, <2>1, <2>2, <2>3, Numbers DEF MemTypes
<1>7. ListInOrder
  BY <1>2, <1>3 DEF ListInOrder
<1>8. AloneInList /\ UsedExact /\ InodesExact /\ PendingExact
  BY <1>4, <1>5, <1>16 DEF AloneInList, UsedExact, InodesExact, PendingExact, InList, Emptying, Allocs
<1>9. NamesExact /\ LostExact
  BY <1>1, <1>4 DEF NamesExact, LostExact
<1>10. HandsExact
  BY <1>1, <1>5 DEF HandsExact
<1>11. ~Departed /\ PhaseExact /\ HeldExact
  BY <1>1, Numbers DEF Departed, PhaseExact, HeldExact, ClientPlaces
<1>12. CreateExact
  BY <1>1, Numbers DEF CreateExact
<1>13. ForkExact
  BY <1>11 DEF ForkExact
<1>14. DeathExact
  BY <1>1, <1>4, Numbers DEF DeathExact
<1>15. QED
  BY <1>6, <1>7, <1>8, <1>9, <1>10, <1>11, <1>12, <1>13, <1>14 DEF MemInv

\* No step undoes that a task was killed in the list.
LEMMA HitLasts ==
  ASSUME hit, [MemNext]_allVars
  PROVE  hit'
<1>1. ASSUME UNCHANGED history PROVE hit'
  BY <1>1 DEF history
<1>2. ASSUME UNCHANGED memVars PROVE hit'
  BY <1>1, <1>2 DEF memVars
<1>3. CASE onCreate
  BY <1>1, <1>3 DEF onCreate
<1>4. ASSUME NEW t \in Tasks, \E name \in Allocs : Alloc(t, name) PROVE hit'
  BY <1>1, <1>4 DEF Alloc
<1>5. ASSUME NEW t \in Tasks, Free(t) \/ Realloc(t) \/ SleepClient(t) \/ WakeUpClient(t) PROVE hit'
  BY <1>1, <1>2, <1>5 DEF Free, Realloc, SleepClient, WakeUpClient
<1>6. ASSUME NEW t \in Tasks, Step(t) PROVE hit'
  <2>1. CASE EnterList(t) \/ InMutex(t)
    BY <1>2, <2>1 DEF EnterList, InMutex
  <2>2. CASE LeaveList(t) \/ Return(t) \/ PushBack(t) \/ FreeBlock(t) \/ Unlink(t) \/ ReallocStore(t)
    BY <1>1, <2>2 DEF LeaveList, Return, PushBack, FreeBlock, Unlink, ReallocStore
  <2>3. CASE FreePtr(t) \/ ReallocMove(t)
    BY <2>3 DEF FreePtr, ReallocMove
  <2>4. QED
    BY <1>6, <2>1, <2>2, <2>3 DEF Step
<1>7. CASE Exit \/ TakeDtor \/ RunDtor \/ Fork \/ onClose \/ CloseMutex \/ FreeList \/ StateDone
  BY <1>1, <1>7 DEF Exit, TakeDtor, RunDtor, Fork, onClose, CloseMutex, FreeList, StateDone
<1>8. CASE Kill
  BY <1>8, Zenon DEF Kill
<1>9. CASE DestroyThreads
  BY <1>9, Zenon DEF DestroyThreads
<1>10. CASE UNCHANGED allVars
  BY <1>2, <1>10 DEF allVars
<1>11. QED
  BY <1>3, <1>4, <1>5, <1>6, <1>7, <1>8, <1>9, <1>10 DEF MemNext, Die

LEMMA NextKeepsMemInv ==
  ASSUME MemCtlAssumption, MemInv, [MemNext]_allVars, ~hit'
  PROVE  MemInv'
<1>1. CASE onCreate
  BY <1>1, OnCreatePreserves
<1>2. ASSUME NEW t \in Tasks, NEW name \in Allocs, Alloc(t, name) PROVE MemInv'
  BY <1>2, AllocPreserves
<1>3. ASSUME NEW t \in Tasks, Free(t) \/ Realloc(t) PROVE MemInv'
  BY <1>3, FreePreserves, ReallocPreserves
<1>4. ASSUME NEW t \in Tasks, SleepClient(t) \/ WakeUpClient(t) PROVE MemInv'
  BY <1>4, SleepPreservesMem
<1>5. ASSUME NEW t \in Tasks, Step(t) PROVE MemInv'
  <2>1. CASE EnterList(t)
    BY <2>1, EnterListPreserves
  <2>2. CASE InMutex(t)
    BY <2>2, InMutexPreserves
  <2>3. CASE LeaveList(t)
    BY <2>3, LeaveListPreserves
  <2>4. CASE Return(t)
    BY <2>4, ReturnPreserves
  <2>5. CASE PushBack(t)
    BY <2>5, PushBackPreserves
  <2>6. CASE FreeBlock(t)
    BY <2>6, FreeBlockPreserves
  <2>7. CASE FreePtr(t)
    BY <2>7, FreePtrPreserves
  <2>8. CASE Unlink(t)
    BY <2>8, UnlinkPreserves
  <2>9. CASE ReallocMove(t)
    BY <2>9, ReallocMovePreserves
  <2>10. CASE ReallocStore(t)
    BY <2>10, ReallocStorePreserves
  <2>11. QED
    BY <1>5, <2>1, <2>2, <2>3, <2>4, <2>5, <2>6, <2>7, <2>8, <2>9, <2>10 DEF Step
<1>6. CASE Exit
  BY <1>6, ExitPreserves
<1>7. CASE Kill
  BY <1>7, KillPreserves
<1>8. CASE DestroyThreads
  BY <1>8, DestroyThreadsPreserves
<1>9. CASE Fork
  BY <1>9, ForkPreserves
<1>10. CASE onClose
  BY <1>10, OnClosePreserves
<1>11. CASE CloseMutex \/ FreeList \/ StateDone
  BY <1>11, ClosePreserves
<1>12. CASE UNCHANGED allVars
  <2>1. UNCHANGED memVars /\ pc' = pc /\ used' = used /\ at' = at /\ Departed' = Departed
    BY <1>12 DEF allVars, vars, memVars, place, Departed
  <2>2. pc' \in [Tasks -> Points] /\ AloneInList'
    BY <2>1 DEF MemInv, MemTypes, AloneInList
  <2>3. QED
    BY <2>1, <2>2, MutexStep
<1>13. CASE TakeDtor \/ RunDtor
  BY <1>13, DtorPreserves
<1>14. QED
  BY <1>1, <1>2, <1>3, <1>4, <1>5, <1>6, <1>7, <1>8, <1>9, <1>10, <1>11, <1>12, <1>13
     DEF MemNext, Die

LEMMA MemInvariant == MemSpec => []SoundUnlessHit
<1>1. MemInit => SoundUnlessHit
  BY MemCtlAssumption, InitHasMemInv DEF SoundUnlessHit
<1>2. SoundUnlessHit /\ [MemNext]_allVars => SoundUnlessHit'
  <2>1. ASSUME SoundUnlessHit, [MemNext]_allVars, ~hit' PROVE MemInv'
    <3>1. ~hit
      BY <2>1, HitLasts
    <3>2. MemInv
      BY <2>1, <3>1 DEF SoundUnlessHit
    <3>3. QED
      BY <2>1, <3>2, MemCtlAssumption, NextKeepsMemInv
  <2>2. QED
    BY <2>1 DEF SoundUnlessHit
<1>3. QED
  BY <1>1, <1>2, PTL DEF MemSpec

\* A block is freed while it is allocated, by the function that belongs to
\* it, and once: the program's calls and the death of the process share the
\* list, and no kill outside the list lets both free the same block.
THEOREM BlocksFreedOnce == MemSpec => []FreedOnce
<1>1. SoundUnlessHit => FreedOnce
  <2>1. ASSUME MemInv, NEW t \in Tasks
        PROVE  /\ at[t] \in Frees => heap[ptr[t]] = Kind(at[t])
               /\ at[t] = "free" => heap[ptr[t]] # "free"
    BY <2>1 DEF MemInv, HandsExact, Frees, Kind
  <2>2. QED
    BY <2>1 DEF SoundUnlessHit, FreedOnce
<1>2. QED
  BY <1>1, MemInvariant, PTL

\* Whenever no task is half way through a change of the list its links agree in both directions, and it
\* names each block once: all that are allocated but those on their way into
\* it and those that the history variables account for.
THEOREM ListIsExact == MemSpec => []ListExact
<1>1. ASSUME MemInv, \A t \in Tasks : at[t] \notin {"free", "unlink", "store"}
      PROVE  LET way == corelist_foreach(list)
                 names == {block[n].ptr : n \in ToSet(way)} \ {0}
                 pending == UNION {Dropped(t) : t \in Tasks}
             IN  /\ Linked(list)
                 /\ names = {a \in Addrs : heap[a] # "free"} \ (pending \cup lost \cup unlisted)
                 /\ \A n, m \in ToSet(way) :
                      block[n].ptr = block[m].ptr /\ n # m => block[n].ptr = 0
  <2> DEFINE way == corelist_foreach(list)
             names == {block[n].ptr : n \in ToSet(way)} \ {0}
             pending == UNION {Dropped(t) : t \in Tasks}
  <2>2. Settled = Members /\ Members \subseteq Inodes
    BY <1>1, ListFacts DEF Settled, Untouched, Altering
  <2>3. Linked(list)
    BY <1>1, MemCtlAssumption, ListFacts, ChainIsLinked
  <2>4. ToSet(way) = Members
    BY <1>1, ListFacts DEF ToSet, Members, Within, Order
  <2>5. \A n \in Members : block[n].ptr \in 0..MaxAddr
    BY <1>1, <2>2 DEF MemInv, MemTypes
  <2>6. \A x : x \in names <=> x \in Addrs /\ \E n \in Members : block[n].ptr = x
    BY <2>4, <2>5, MemCtlAssumption, Numbers
  <2>7. \A x \in Addrs : x \in pending <=> Pending(x)
    <3>1. ASSUME NEW x \in Addrs, x \in pending PROVE Pending(x)
      BY <3>1 DEF Pending, Dropped
    <3>2. ASSUME NEW x \in Addrs, Pending(x) PROVE x \in pending
      <4>1. PICK t \in Tasks : at[t] \in Allocs \cup {"free", "store"} /\ ptr[t] = x
        BY <3>2 DEF Pending
      <4>2. at[t] \in Allocs /\ x # 0
        BY <1>1, <4>1, MemCtlAssumption, Numbers
      <4>3. x \in Dropped(t)
        BY <4>1, <4>2 DEF Dropped
      <4>4. QED
        BY <4>3
    <3>3. QED
      BY <3>1, <3>2
  <2> HIDE DEF way, names, pending
  <2>8. names = {a \in Addrs : heap[a] # "free"} \ (pending \cup lost \cup unlisted)
    <3>1. \A a \in Addrs : (\E n \in Members : block[n].ptr = a) <=>
            heap[a] # "free" /\ ~Pending(a) /\ a \notin lost /\ a \notin unlisted
      BY <1>1, <2>2 DEF MemInv, NamesExact
    <3>2. QED
      BY <2>6, <2>7, <3>1
  <2>9. \A n, m \in ToSet(way) : block[n].ptr = block[m].ptr /\ n # m => block[n].ptr = 0
    BY <1>1, <2>2, <2>4 DEF MemInv, NamesExact
  <2>10. QED
    BY <2>3, <2>8, <2>9 DEF way, names, pending
<1>2. SoundUnlessHit => ListExact
  BY <1>1 DEF SoundUnlessHit, ListExact
<1>3. QED
  BY <1>2, MemInvariant, PTL

\* A process that has died has given back all its memory but what a kill or a
\* failing realloc had kept out of the list, however often it was killed.
THEOREM DeathFreesEverything == MemSpec => []DeathFreesAll
<1>1. ASSUME MemInv, at[Main] \in {"closing", "closed", "dead"}
      PROVE  {a \in Addrs : heap[a] # "free"} \subseteq lost \cup unlisted
  <2>1. at[Main] \in Resting
    BY <1>1 DEF Resting
  <2>2. Departed /\ \A u \in Tasks : at[u] \notin InList /\ ptr[u] = 0
    BY <1>1, <2>1, MemCtlAssumption, RestingFacts
  <2>3. \A n \in Settled : block[n].ptr = 0
    <3>1. fork = << >> /\ at[Main] \notin Frees
      BY <1>1, <2>2 DEF MemInv, ForkExact, Frees
    <3>2. Within(fork) = {}
      BY <3>1 DEF Within
    <3>3. QED
      BY <1>1, <2>2, <3>1, <3>2 DEF MemInv, ForkExact
  <2>4. 0 \notin Addrs
    BY MemCtlAssumption, Numbers
  <2>5. \A a \in Addrs : ~Pending(a)
    BY <2>2, <2>4 DEF Pending
  <2>6. QED
    BY <1>1, <2>3, <2>4, <2>5 DEF MemInv, NamesExact
<1>2. SoundUnlessHit => DeathFreesAll
  BY <1>1 DEF SoundUnlessHit, DeathFreesAll
<1>3. QED
  BY <1>2, MemInvariant, PTL

\* The death of a process follows no memory_block that is gone or that was
\* never filled in, but for the three cases that the history names.
THEOREM DeathReadsWhatIsThere == MemSpec => []DeathFollowsBlocks
<1>1. SoundUnlessHit => DeathFollowsBlocks
  BY DEF SoundUnlessHit, DeathFollowsBlocks, MemInv, DeathExact
<1>2. QED
  BY <1>1, MemInvariant, PTL
=============================================================================
