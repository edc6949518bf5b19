------------------------- MODULE WaitConditionProofs -------------------------
(***************************************************************************)
(* Proofs about WaitCondition, for tasks of any priorities: whatever tasks *)
(* of several priorities do to the slots they share, a slot that only      *)
(* tasks of one priority have used keeps its counter exact; and where who  *)
(* wakes goes before who waits, no wait is answered by a wake that nobody  *)
(* gave.                                                                   *)
(***************************************************************************)
EXTENDS WaitCondition, NucleusProofs, FiniteSetTheorems

WakePoints == {"wake", "post", "clear", "release", "reload", "settle"}
\* Where a call needs the processor, and where it needs the semaphore.
Running == MidCall \ {"refused"}
Inside == {"delete", "wait", "consume", "count", "obtain"} \cup WakePoints
Points == MidCall \cup {"idle", "suspended"}

WakeKinds == {"one", "all", "reset"}
Calls == [op : {"none", "create", "destroy", "wait"} \cup WakeKinds, wid : Int, left : Int]

\* The priorities of the tasks that have used slot s
Priorities(s) == {u[1] : u \in users[s]}

TableOK ==
  /\ used \in [Wids -> BOOLEAN] /\ live \in [Wids -> BOOLEAN] /\ clean \in [Wids -> BOOLEAN]
  /\ waiters \in [Wids -> Int] /\ owed \in [Wids -> Int] /\ count \in [Wids -> Nat]
  /\ queue \in [Wids -> Seq(Tasks)]
  /\ users \in [Wids -> SUBSET (Nat \X BOOLEAN)]
  /\ \A s \in Wids : IsFiniteSet(Priorities(s))
TasksOK ==
  /\ call \in [Tasks -> Calls] /\ pc \in [Tasks -> Points] /\ reg \in [Tasks -> Int]
  /\ cpu \in [Levels -> Tasks \cup {NoTask}]
TypeOK == TableOK /\ TasksOK

\* The queue of a semaphore is in the kernel's order, its tasks are suspended
\* in waitCondition, and a deleted semaphore has none and is not free.
QueueAt(s) ==
  /\ Ordered(queue[s]) /\ Distinct(queue[s])
  /\ \A i \in 1..Len(queue[s]) : pc[queue[s][i]] = "suspended" /\ Wid(queue[s][i]) = s
  /\ ~live[s] => queue[s] = << >> /\ count[s] = 0
QueuesExact == \A s \in Wids : QueueAt(s)

\* A task in the middle of a call has the processor of its priority, and has
\* left its priority with its condition.
TaskAt(t) ==
  /\ pc[t] \in Running => cpu[Prio[t]] = t
  /\ pc[t] # "idle" => Wid(t) \in Wids /\ \E u \in users[Wid(t)] : u[1] = Prio[t]
  /\ pc[t] # "idle" => (Op(t) \in WakeKinds <=> pc[t] \in WakePoints)
  /\ pc[t] = "post" => Op(t) = "one"
TasksExact == \A t \in Tasks : TaskAt(t)

\* Only tasks of one priority have ever used slot s (Uniform, without numbers).
OneLevel(s) == \A u, v \in users[s] : u[1] = v[1]

\* The counter of a condition, which a call that is not through has changed
\* by off without waiting for it, or the other way round.
Balance(s, off) ==
  /\ waiters[s] = Len(queue[s]) - owed[s] + off
  /\ owed[s] >= 0 /\ count[s] = 0
  /\ queue[s] # << >> => owed[s] = 0

\* What each point of a call knows of a condition that was created when
\* nobody was using its slot.
PointAt(t, s) ==
  /\ pc[t] = "make" => waiters[s] = 0 /\ owed[s] = 0
  /\ pc[t] \in {"wait", "wake"} => Balance(s, 0)
  /\ pc[t] = "consume" => reg[t] = waiters[s] /\ queue[s] = << >> /\ Balance(s, -1)
  /\ pc[t] = "count" => reg[t] = waiters[s] /\ owed[s] = 0 /\ Balance(s, 0)
  /\ pc[t] = "obtain" => owed[s] = 0 /\ Balance(s, 1)
  /\ pc[t] = "post" => reg[t] = waiters[s] /\ queue[s] = << >> /\ Balance(s, 0)
  /\ pc[t] = "clear" => queue[s] = << >> /\ count[s] = 0
  /\ pc[t] = "release" =>
       /\ Balance(s, 0) /\ queue[s] # << >>
       /\ call[t].left = IF Op(t) = "one" THEN 1 ELSE Len(queue[s])
  /\ pc[t] \in {"reload", "settle"} =>
       /\ Balance(s, 1) /\ owed[s] = 0
       /\ call[t].left = IF Op(t) = "one" THEN 1 ELSE Len(queue[s]) + 1
  /\ pc[t] = "settle" => reg[t] = waiters[s]

StepAt(t, s) ==
  /\ pc[t] = "found" => ~used[s] /\ ~live[s]
  /\ pc[t] \in {"make", "vacate"} => used[s] /\ ~live[s]
  /\ pc[t] \in Inside => used[s] /\ live[s]
  /\ pc[t] = "give_up" => (used[s] <=> live[s])
  /\ clean[s] => PointAt(t, s)

\* Between calls, a slot that is used has a semaphore, and the counter is exact.
RestAt(s) ==
  /\ used[s] <=> live[s]
  /\ clean[s] /\ live[s] => Balance(s, 0)

\* A condition created when nobody was using its slot has dismissed tasks only
\* once it is destroyed.
LeftAt(s) ==
  clean[s] /\ (\E t \in Tasks : pc[t] \in {"refused", "give_up"} /\ Wid(t) = s) =>
    ~live[s] /\ \A t \in Tasks : Wid(t) = s => pc[t] # "make"

InUse(s) == \E t \in Tasks : pc[t] \in Running /\ Wid(t) = s
SlotAt(s) ==
  /\ ~InUse(s) => RestAt(s)
  /\ \A t \in Tasks : pc[t] \in Running /\ Wid(t) = s => StepAt(t, s)
  /\ LeftAt(s)
SlotsExact == \A s \in Wids : OneLevel(s) => SlotAt(s)

IndInv == TypeOK /\ QueuesExact /\ TasksExact /\ SlotsExact

-----------------------------------------------------------------------------
\* Uniform says with a cardinality what OneLevel says of the users.
LEMMA UniformMeans ==
  ASSUME NEW s \in Wids, IsFiniteSet(Priorities(s)), Uniform(s)
  PROVE  OneLevel(s)
<1> DEFINE Prios == Priorities(s)
<1>1. IsFiniteSet(Prios)
  OBVIOUS
<1>2. Cardinality(Prios) <= 1 /\ Cardinality(Prios) \in Nat
  BY <1>1, FS_CardinalityType DEF Uniform, Priorities
<1>3. ASSUME NEW p \in Prios, NEW q \in Prios, p # q
      PROVE  FALSE
  <2>1. {p, q} \subseteq Prios
    OBVIOUS
  <2>2. Cardinality({p, q}) <= Cardinality(Prios)
    BY <1>1, <2>1, FS_Subset
  <2>3. IsFiniteSet({p}) /\ Cardinality({p}) = 1
    BY FS_Singleton
  <2>4. Cardinality({p} \cup {q}) = Cardinality({p}) + 1
    BY <1>3, <2>3, FS_AddElement, Zenon
  <2>5. {p} \cup {q} = {p, q}
    OBVIOUS
  <2>6. QED
    BY <1>2, <2>2, <2>3, <2>4, <2>5
<1>4. QED
  BY <1>3 DEF OneLevel, Priorities

\* Who has the processor has it of all tasks of its priority.
LEMMA OthersWait ==
  ASSUME NucleusAssumption, TypeOK, TasksExact, NEW t \in Tasks, MayRun(t, ready, cpu),
         NEW u \in Tasks \ {t}, Prio[u] = Prio[t]
  PROVE  pc[u] \notin Running
BY DEF NucleusAssumption, TasksExact, TaskAt, MayRun

\* A task that runs in a condition of one priority is alone there.
LEMMA AloneAt ==
  ASSUME NucleusAssumption, TypeOK, TasksExact, NEW t \in Tasks, MayRun(t, ready, cpu),
         NEW s \in Wids, OneLevel(s), \E v \in users[s] : v[1] = Prio[t],
         NEW u \in Tasks \ {t}, Wid(u) = s
  PROVE  pc[u] \notin Running
<1> SUFFICES ASSUME pc[u] \in Running PROVE FALSE
  OBVIOUS
<1>1. pc[u] # "idle"
  BY DEF Running, MidCall
<1>2. \E v \in users[s] : v[1] = Prio[u]
  BY <1>1 DEF TasksExact, TaskAt
<1>3. Prio[u] = Prio[t]
  BY <1>2 DEF OneLevel
<1>4. QED
  BY <1>3, OthersWait

\* What a step does to a task that does not take it.
LEMMA OthersTask ==
  ASSUME NucleusAssumption, TypeOK, TasksExact, NEW t \in Tasks, MayRun(t, ready, cpu),
         cpu' = Occupy(t, cpu) \/ cpu' = GiveUp(t, cpu),
         NEW u \in Tasks \ {t},
         \/ pc'[u] = pc[u]
         \/ pc'[u] = "idle"
         \/ pc[u] = "suspended" /\ pc'[u] = "refused",
         pc'[u] # "idle" => Wid(u)' = Wid(u) /\ Op(u)' = Op(u),
         \A r \in Wids : users[r] \subseteq users'[r]
  PROVE  TaskAt(u)'
<1>1. TaskAt(u)
  BY DEF TasksExact
<1>2. pc'[u] \in Running => pc'[u] = pc[u]
  BY DEF Running, MidCall
<1>3. pc'[u] \in Running => cpu'[Prio[u]] = u
  <2> SUFFICES ASSUME pc[u] \in Running, pc'[u] = pc[u] PROVE cpu'[Prio[u]] = u
    BY <1>2
  <2>1. Prio[u] # Prio[t] /\ cpu[Prio[u]] = u
    BY <1>1, OthersWait DEF TaskAt
  <2>2. Prio[u] \in Levels /\ Prio[t] \in Levels
    BY DEF Levels
  <2>3. QED
    BY <2>1, <2>2 DEF Occupy, GiveUp, TypeOK, TasksOK
<1>4. pc'[u] # "idle" => Wid(u)' \in Wids /\ \E v \in users'[Wid(u)'] : v[1] = Prio[u]
  <2> SUFFICES ASSUME pc'[u] # "idle"
               PROVE  Wid(u)' \in Wids /\ \E v \in users'[Wid(u)'] : v[1] = Prio[u]
    OBVIOUS
  <2>1. pc[u] # "idle" /\ Wid(u)' = Wid(u)
    OBVIOUS
  <2>2. QED
    BY <1>1, <2>1 DEF TaskAt
<1>5. pc'[u] # "idle" => (Op(u)' \in WakeKinds <=> pc'[u] \in WakePoints)
  BY <1>1 DEF TaskAt, WakePoints
<1>6. pc'[u] = "post" => Op(u)' = "one"
  BY <1>1 DEF TaskAt
<1>7. QED
  BY <1>3, <1>4, <1>5, <1>6 DEF TaskAt

\* A step elsewhere leaves a slot as it is.
SlotSame(r) ==
  /\ used'[r] = used[r] /\ waiters'[r] = waiters[r]
  /\ live'[r] = live[r] /\ count'[r] = count[r] /\ queue'[r] = queue[r]
  /\ owed'[r] = owed[r] /\ clean'[r] = clean[r] /\ users'[r] = users[r]

LEMMA SlotStays ==
  ASSUME NEW r \in Wids, SlotSame(r), OneLevel(r) => SlotAt(r),
         \A u \in Tasks :
           /\ pc[u] # "idle" /\ Wid(u) = r =>
                pc'[u] = pc[u] /\ call'[u] = call[u] /\ reg'[u] = reg[u]
           /\ pc'[u] # "idle" /\ Wid(u)' = r => pc[u] # "idle" /\ Wid(u) = r
  PROVE  (OneLevel(r) => SlotAt(r))'
<1> SUFFICES ASSUME OneLevel(r)' PROVE SlotAt(r)'
  OBVIOUS
<1>1. SlotAt(r)
  BY DEF OneLevel, SlotSame
<1>2. ASSUME NEW u \in Tasks
      PROVE  /\ pc'[u] # "idle" /\ Wid(u)' = r <=> pc[u] # "idle" /\ Wid(u) = r
             /\ pc'[u] # "idle" /\ Wid(u)' = r =>
                  pc'[u] = pc[u] /\ call'[u] = call[u] /\ reg'[u] = reg[u]
  BY DEF Wid
<1>3. "idle" \notin Running /\ "idle" \notin {"refused", "give_up"} /\ "idle" # "make"
  BY DEF Running, MidCall
<1>4. ~InUse(r)' => RestAt(r)'
  BY <1>1, <1>2, <1>3 DEF SlotAt, InUse, RestAt, Balance, SlotSame
<1>5. ASSUME NEW u \in Tasks, pc'[u] \in Running, Wid(u)' = r
      PROVE  StepAt(u, r)'
  <2>1. StepAt(u, r) /\ pc'[u] = pc[u] /\ call'[u] = call[u] /\ reg'[u] = reg[u]
    BY <1>1, <1>2, <1>3, <1>5 DEF SlotAt
  <2>2. QED
    BY <2>1 DEF StepAt, PointAt, Balance, SlotSame, Op
<1>6. LeftAt(r)'
  BY <1>1, <1>2, <1>3 DEF SlotAt, LeftAt, SlotSame
<1>7. QED
  BY <1>4, <1>5, <1>6 DEF SlotAt

\* A slot where t alone can be in the middle of a call.
LEMMA OwnSlot ==
  ASSUME NEW t \in Tasks, NEW s \in Wids,
         \A u \in Tasks \ {t} : Wid(u)' = s => pc'[u] \notin Running,
         IF pc'[t] \in Running THEN Wid(t)' = s /\ StepAt(t, s)' ELSE RestAt(s)',
         LeftAt(s)'
  PROVE  SlotAt(s)'
BY DEF SlotAt, InUse

LEMMA LeftStays ==
  ASSUME NEW s \in Wids, LeftAt(s), clean'[s] => clean[s], live'[s] => live[s],
         \A u \in Tasks : pc'[u] \in {"refused", "give_up"} /\ Wid(u)' = s =>
                            pc[u] \in {"refused", "give_up"} /\ Wid(u) = s,
         \A u \in Tasks : pc'[u] = "make" /\ Wid(u)' = s => pc[u] = "make" /\ Wid(u) = s
  PROVE  LeftAt(s)'
BY DEF LeftAt

-----------------------------------------------------------------------------
\* Task t goes on within its call on slot s, or ends it, and no queue changes.
InPlace(t, s, from, to) ==
  /\ Jump(t, from, to)
  /\ \A u \in Tasks \ {t} : call'[u] = call[u] /\ reg'[u] = reg[u]
  /\ to # "idle" => Wid(t)' = s /\ Op(t)' = Op(t)
  /\ queue' = queue /\ users' = users
  /\ \A r \in Wids \ {s} :
       /\ used'[r] = used[r] /\ waiters'[r] = waiters[r] /\ live'[r] = live[r]
       /\ count'[r] = count[r] /\ owed'[r] = owed[r] /\ clean'[r] = clean[r]
  /\ ~live'[s] => ~live[s] /\ count'[s] = count[s]
  /\ TableOK' /\ call' \in [Tasks -> Calls] /\ reg' \in [Tasks -> Int]

LEMMA InPlaceKeeps ==
  ASSUME NucleusAssumption, IndInv, NEW t \in Tasks, NEW s \in Wids, s = Wid(t),
         NEW from \in Points \ {"idle", "suspended"}, NEW to \in Points \ {"suspended"},
         InPlace(t, s, from, to),
         to # "idle" => (from \in WakePoints <=> to \in WakePoints),
         to = "post" => Op(t) = "one",
         OneLevel(s) =>
           /\ IF to \in Running THEN StepAt(t, s)' ELSE RestAt(s)'
           /\ LeftAt(s)'
  PROVE  IndInv'
<1>1. /\ pc[t] = from /\ MayRun(t, ready, cpu)
      /\ pc' = [pc EXCEPT ![t] = to] /\ cpu' = Occupy(t, cpu)
  BY DEF InPlace, Jump
<1>2. pc \in [Tasks -> Points] /\ cpu \in [Levels -> Tasks \cup {NoTask}] /\ Prio[t] \in Levels
  BY DEF IndInv, TypeOK, TasksOK, Levels
<1>3. pc'[t] = to /\ cpu'[Prio[t]] = t /\ \A u \in Tasks \ {t} : pc'[u] = pc[u]
  BY <1>1, <1>2 DEF Occupy
<1>4. TypeOK'
  BY <1>1, <1>2 DEF InPlace, TypeOK, TasksOK, Occupy
<1>5. QueuesExact'
  <2> SUFFICES ASSUME NEW r \in Wids PROVE QueueAt(r)'
    BY DEF QueuesExact
  <2>1. QueueAt(r) /\ queue'[r] = queue[r]
    BY DEF InPlace, IndInv, QueuesExact
  <2>2. ~live'[r] => queue'[r] = << >> /\ count'[r] = 0
    BY <2>1 DEF InPlace, QueueAt
  <2>3. \A i \in 1..Len(queue[r]) : queue[r][i] \in Tasks
    BY ElementOfSeq DEF IndInv, TypeOK, TableOK
  <2>4. ASSUME NEW i \in 1..Len(queue[r])
        PROVE  pc'[queue[r][i]] = "suspended" /\ Wid(queue[r][i])' = r
    <3>1. queue[r][i] \in Tasks /\ pc[queue[r][i]] = "suspended" /\ Wid(queue[r][i]) = r
      BY <2>1, <2>3 DEF QueueAt
    <3>2. queue[r][i] # t
      BY <1>1, <3>1
    <3>3. QED
      BY <1>3, <3>1, <3>2 DEF InPlace, Wid
  <2>5. QED
    BY <2>1, <2>2, <2>4 DEF QueueAt, Wid
<1>6. TasksExact'
  <2>1. ASSUME NEW u \in Tasks \ {t} PROVE TaskAt(u)'
    BY <1>1, <1>3, OthersTask DEF IndInv, InPlace, Wid, Op
  <2>2. TaskAt(t)'
    BY <1>1, <1>3 DEF IndInv, TasksExact, TaskAt, InPlace
  <2>3. QED
    BY <2>1, <2>2 DEF TasksExact
<1>7. SlotsExact'
  <2>1. ASSUME NEW r \in Wids \ {s} PROVE (OneLevel(r) => SlotAt(r))'
    <3>1. SlotSame(r) /\ (OneLevel(r) => SlotAt(r))
      BY DEF InPlace, SlotSame, IndInv, SlotsExact
    <3>2. ASSUME NEW u \in Tasks
          PROVE  /\ pc[u] # "idle" /\ Wid(u) = r =>
                      pc'[u] = pc[u] /\ call'[u] = call[u] /\ reg'[u] = reg[u]
                 /\ pc'[u] # "idle" /\ Wid(u)' = r => pc[u] # "idle" /\ Wid(u) = r
      BY <1>3 DEF InPlace, Wid
    <3>3. QED
      BY <3>1, <3>2, SlotStays
  <2>2. ASSUME OneLevel(s)' PROVE SlotAt(s)'
    <3>1. OneLevel(s)
      BY <2>2 DEF InPlace, OneLevel
    <3>2. \E v \in users[s] : v[1] = Prio[t]
      BY <1>1 DEF IndInv, TasksExact, TaskAt
    <3>3. \A u \in Tasks \ {t} : Wid(u)' = s => pc'[u] \notin Running
      BY <1>1, <1>3, <3>1, <3>2, AloneAt DEF IndInv, InPlace, Wid
    <3>4. to \in Running => Wid(t)' = s
      BY DEF InPlace, Running, MidCall
    <3>5. QED
      BY <1>3, <3>1, <3>3, <3>4, OwnSlot
  <2>3. QED
    BY <2>1, <2>2 DEF SlotsExact
<1>8. QED
  BY <1>4, <1>5, <1>6, <1>7 DEF IndInv

\* What a task knows of its slot before it goes on.
LEMMA Before ==
  ASSUME NucleusAssumption, IndInv, NEW t \in Tasks, MayRun(t, ready, cpu), pc[t] # "idle",
         NEW s, s = Wid(t)
  PROVE  /\ s \in Wids /\ QueueAt(s)
         /\ OneLevel(s) =>
              /\ pc[t] \in Running => StepAt(t, s)
              /\ pc[t] \notin Running => RestAt(s)
              /\ LeftAt(s)
              /\ \A u \in Tasks \ {t} : Wid(u) = s => pc[u] \notin Running
<1>1. s \in Wids /\ \E v \in users[s] : v[1] = Prio[t]
  BY DEF IndInv, TasksExact, TaskAt
<1>2. OneLevel(s) => \A u \in Tasks \ {t} : Wid(u) = s => pc[u] \notin Running
  BY <1>1, AloneAt DEF IndInv
<1>3. OneLevel(s) => SlotAt(s)
  BY <1>1 DEF IndInv, SlotsExact
<1>4. OneLevel(s) /\ pc[t] \notin Running => ~InUse(s)
  BY <1>2 DEF InUse
<1>5. QED
  BY <1>1, <1>2, <1>3, <1>4 DEF SlotAt, IndInv, QueuesExact

-----------------------------------------------------------------------------
LEMMA ClaimSlotPreserves ==
  ASSUME NucleusAssumption, IndInv, NEW t \in Tasks, ClaimSlot(t)
  PROVE  IndInv'
<1>1. PICK s : s = Wid(t)
  OBVIOUS
<1>2. /\ pc[t] = "found" /\ MayRun(t, ready, cpu) /\ pc' = [pc EXCEPT ![t] = "make"]
      /\ call' = call /\ reg' = reg /\ Jump(t, "found", "make")
      /\ used' = [used EXCEPT ![s] = TRUE] /\ waiters' = [waiters EXCEPT ![s] = 0]
      /\ owed' = [owed EXCEPT ![s] = count[s]]
      /\ clean' = [clean EXCEPT ![s] = \A u \in Tasks \ {t} : Wid(u) = s => pc[u] = "idle"]
      /\ live' = live /\ count' = count /\ queue' = queue /\ users' = users
  BY <1>1 DEF ClaimSlot, Goto, Jump, semaphores
<1>3. TypeOK
  BY DEF IndInv
<1>4. s \in Wids /\ QueueAt(s) /\ (OneLevel(s) => StepAt(t, s))
  BY <1>1, <1>2, Before DEF Running, MidCall
<1>5. InPlace(t, s, "found", "make")
  <2>1. clean' \in [Wids -> BOOLEAN]
    <3>1. PICK b \in BOOLEAN : b = \A u \in Tasks \ {t} : Wid(u) = s => pc[u] = "idle"
      OBVIOUS
    <3>2. clean' = [clean EXCEPT ![s] = b]
      BY <1>2, <3>1
    <3>3. QED
      BY <1>3, <3>2 DEF TypeOK, TableOK
  <2>2. used' \in [Wids -> BOOLEAN] /\ waiters' \in [Wids -> Int] /\ owed' \in [Wids -> Int]
    BY <1>2, <1>3, <1>4 DEF TypeOK, TableOK
  <2>3. TableOK'
    BY <1>2, <1>3, <2>1, <2>2 DEF TypeOK, TableOK, Priorities
  <2>4. QED
    BY <1>1, <1>2, <1>3, <1>4, <2>3 DEF InPlace, TypeOK, TableOK, TasksOK, Wid, Op
<1>6. ASSUME OneLevel(s) PROVE StepAt(t, s)'
  <2>1. ~live[s] /\ count[s] = 0 /\ queue[s] = << >>
    BY <1>2, <1>4, <1>6 DEF StepAt, QueueAt
  <2>2. pc'[t] = "make" /\ used'[s] /\ ~live'[s] /\ waiters'[s] = 0 /\ owed'[s] = 0
    BY <1>2, <1>3, <1>4, <2>1 DEF TypeOK, TableOK, TasksOK
  <2>3. QED
    BY <2>2 DEF StepAt, PointAt, Inside, WakePoints
<1>7. LeftAt(s)'
  <2>1. clean'[s] <=> \A u \in Tasks \ {t} : Wid(u) = s => pc[u] = "idle"
    BY <1>2, <1>3, <1>4 DEF TypeOK, TableOK
  <2>2. pc'[t] = "make" /\ \A u \in Tasks \ {t} : pc'[u] = pc[u]
    BY <1>2, <1>3 DEF TypeOK, TasksOK
  <2>3. \A u \in Tasks : Wid(u)' = Wid(u)
    BY <1>2 DEF Wid
  <2>4. QED
    BY <2>1, <2>2, <2>3 DEF LeftAt
<1>8. QED
  BY <1>1, <1>4, <1>5, <1>6, <1>7, InPlaceKeeps DEF Points, Running, MidCall, WakePoints

LEMMA MakeSemaphorePreserves ==
  ASSUME NucleusAssumption, IndInv, NEW t \in Tasks, MakeSemaphore(t)
  PROVE  IndInv'
<1>1. PICK s : s = Wid(t)
  OBVIOUS
<1>2. /\ pc[t] = "make" /\ MayRun(t, ready, cpu) /\ pc' = [pc EXCEPT ![t] = "idle"]
      /\ call' = [call EXCEPT ![t] = NoCall] /\ reg' = reg /\ Jump(t, "make", "idle")
      /\ live' = [live EXCEPT ![s] = TRUE] /\ count' = [count EXCEPT ![s] = 0]
      /\ used' = used /\ waiters' = waiters /\ owed' = owed /\ clean' = clean
      /\ queue' = queue /\ users' = users /\ ~live[s]
  BY <1>1 DEF MakeSemaphore, Goto, Jump, table, history
<1>3. TypeOK
  BY DEF IndInv
<1>4. /\ s \in Wids /\ QueueAt(s) /\ (OneLevel(s) => StepAt(t, s) /\ LeftAt(s))
  BY <1>1, <1>2, Before DEF Running, MidCall
<1>5. NoCall \in Calls /\ live'[s] /\ count'[s] = 0
  BY <1>2, <1>3, <1>4 DEF NoCall, Calls, TypeOK, TableOK
<1>6. InPlace(t, s, "make", "idle")
  BY <1>1, <1>2, <1>3, <1>4, <1>5 DEF InPlace, TypeOK, TableOK, TasksOK, Priorities
<1>7. ASSUME OneLevel(s) PROVE RestAt(s)'
  <2>1. used[s] /\ queue[s] = << >> /\ (clean[s] => waiters[s] = 0 /\ owed[s] = 0)
    BY <1>2, <1>4, <1>7 DEF StepAt, PointAt, QueueAt
  <2>2. Len(queue[s]) = 0
    BY <2>1
  <2>3. QED
    BY <1>2, <1>5, <2>1, <2>2 DEF RestAt, Balance
<1>8. ASSUME OneLevel(s) PROVE LeftAt(s)'
  <2>1. clean[s] => \A u \in Tasks : pc[u] \in {"refused", "give_up"} => Wid(u) # s
    BY <1>1, <1>2, <1>4, <1>8 DEF LeftAt
  <2>2. \A u \in Tasks : pc'[u] \in {"refused", "give_up"} => pc'[u] = pc[u] /\ Wid(u)' = Wid(u)
    BY <1>2, <1>3 DEF TypeOK, TasksOK, Wid
  <2>3. QED
    BY <1>2, <2>1, <2>2 DEF LeftAt
<1>9. QED
  BY <1>1, <1>4, <1>6, <1>7, <1>8, InPlaceKeeps DEF Points, Running, MidCall, WakePoints

\* The step of a call that leaves the semaphore there and dismisses nobody.
LEMMA StepKeeps ==
  ASSUME NucleusAssumption, IndInv, NEW t \in Tasks, NEW s \in Wids, s = Wid(t),
         NEW from \in Points \ {"idle", "suspended"}, NEW to \in Points \ {"suspended", "make"},
         InPlace(t, s, from, to),
         to # "idle" => (from \in WakePoints <=> to \in WakePoints),
         to = "post" => Op(t) = "one",
         to \in {"refused", "give_up"} => from = "refused",
         clean' = clean, live' = live,
         OneLevel(s) => IF to \in Running THEN StepAt(t, s)' ELSE RestAt(s)'
  PROVE  IndInv'
<1>1. pc[t] = from /\ MayRun(t, ready, cpu) /\ pc' = [pc EXCEPT ![t] = to]
  BY DEF InPlace, Jump
<1>2. pc'[t] = to /\ \A u \in Tasks \ {t} : pc'[u] = pc[u] /\ Wid(u)' = Wid(u)
  BY <1>1 DEF IndInv, TypeOK, TasksOK, InPlace, Wid
<1>3. OneLevel(s) => LeftAt(s)
  BY <1>1, Before
<1>4. OneLevel(s) => LeftAt(s)'
  BY <1>1, <1>2, <1>3, LeftStays
<1>5. QED
  BY <1>4, InPlaceKeeps

\* The slot is given back.
LEMMA VacatePreserves ==
  ASSUME NucleusAssumption, IndInv, NEW t \in Tasks, NEW from \in {"make", "vacate"},
         Goto(t, from, "idle"), used' = [used EXCEPT ![Wid(t)] = FALSE],
         UNCHANGED <<waiters, semaphores, history, reg>>, from = "make" => live[Wid(t)]
  PROVE  IndInv'
<1>1. PICK s : s = Wid(t)
  OBVIOUS
<1>2. /\ pc[t] = from /\ MayRun(t, ready, cpu) /\ Jump(t, from, "idle")
      /\ call' = [call EXCEPT ![t] = NoCall] /\ reg' = reg
      /\ used' = [used EXCEPT ![s] = FALSE]
      /\ waiters' = waiters /\ owed' = owed /\ clean' = clean
      /\ live' = live /\ count' = count /\ queue' = queue /\ users' = users
  BY <1>1 DEF Goto, Jump, semaphores, history
<1>3. TypeOK
  BY DEF IndInv
<1>4. s \in Wids /\ (OneLevel(s) => StepAt(t, s))
  BY <1>1, <1>2, Before DEF Running, MidCall
<1>5. NoCall \in Calls
  BY DEF NoCall, Calls
<1>6. InPlace(t, s, from, "idle")
  BY <1>1, <1>2, <1>3, <1>4, <1>5 DEF InPlace, TypeOK, TableOK, TasksOK, Priorities
<1>7. ASSUME OneLevel(s) PROVE RestAt(s)'
  BY <1>1, <1>2, <1>3, <1>4, <1>7 DEF StepAt, RestAt, TypeOK, TableOK
<1>8. QED
  BY <1>1, <1>2, <1>4, <1>6, <1>7, StepKeeps DEF Points, Running, MidCall, WakePoints

-----------------------------------------------------------------------------
\* A load or a test, which changes the register and the point of the call.
LEMMA LookPreserves ==
  ASSUME NucleusAssumption, IndInv, NEW t \in Tasks, NEW s, s = Wid(t),
         NEW from \in Points \ {"idle", "suspended"}, NEW to \in Running \ {"make"},
         Goto(t, from, to), Load(t) \/ reg' = reg,
         UNCHANGED <<table, semaphores, clean, users>>,
         \A r \in Wids \ {s} : owed'[r] = owed[r], owed' \in [Wids -> Int],
         from \in WakePoints <=> to \in WakePoints,
         to = "post" => Op(t) = "one",
         to = "give_up" => from = "refused",
         OneLevel(s) => StepAt(t, s)'
  PROVE  IndInv'
<1>1. MayRun(t, ready, cpu) /\ Jump(t, from, to) /\ call' = call /\ pc[t] = from
  BY DEF Goto, Jump, Running, MidCall
<1>2. TypeOK
  BY DEF IndInv
<1>3. s \in Wids
  BY <1>1, Before
<1>4. reg' \in [Tasks -> Int] /\ \A u \in Tasks \ {t} : reg'[u] = reg[u]
  BY <1>2, <1>3 DEF Load, TypeOK, TableOK, TasksOK
<1>5. InPlace(t, s, from, to)
  BY <1>1, <1>2, <1>3, <1>4 DEF InPlace, TypeOK, TableOK, TasksOK, Priorities, table, semaphores,
     Wid, Op
<1>6. QED
  BY <1>3, <1>5, StepKeeps DEF Points, Running, MidCall, table, semaphores

LEMMA WaitReadPreserves ==
  ASSUME NucleusAssumption, IndInv, NEW t \in Tasks, WaitRead(t)
  PROVE  IndInv'
<1>1. PICK s : s = Wid(t)
  OBVIOUS
<1>2. /\ pc[t] = "wait" /\ MayRun(t, ready, cpu) /\ Load(t) /\ reg' = [reg EXCEPT ![t] = waiters[s]]
      /\ UNCHANGED <<table, semaphores, clean, users>>
  BY <1>1 DEF WaitRead, Goto, Jump, Load
<1>3. TypeOK
  BY DEF IndInv
<1>4. s \in Wids /\ (OneLevel(s) => StepAt(t, s))
  BY <1>1, <1>2, Before DEF Running, MidCall
<1>5. waiters[s] \in Int /\ owed[s] \in Int /\ Len(queue[s]) \in Nat
      /\ (Len(queue[s]) = 0 <=> queue[s] = << >>)
  BY <1>3, <1>4, LenProperties, EmptySeq DEF TypeOK, TableOK
<1>6. reg'[t] = waiters[s]
  BY <1>2, <1>3 DEF TypeOK, TasksOK
<1>7. OneLevel(s) => used[s] /\ live[s] /\ (clean[s] => Balance(s, 0))
  BY <1>2, <1>4 DEF StepAt, PointAt, Inside
<1>8. CASE waiters[s] < 0
  <2>1. /\ Goto(t, "wait", "consume") /\ owed' = [owed EXCEPT ![s] = @ - 1]
        /\ pc' = [pc EXCEPT ![t] = "consume"]
    BY <1>1, <1>8 DEF WaitRead, Goto, Jump
  <2>2. owed'[s] = owed[s] - 1 /\ owed' \in [Wids -> Int] /\ pc'[t] = "consume"
        /\ \A r \in Wids \ {s} : owed'[r] = owed[r]
    BY <1>3, <1>4, <1>5, <2>1 DEF TypeOK, TableOK, TasksOK
  <2>3. ASSUME OneLevel(s) PROVE StepAt(t, s)'
    <3>1. clean[s] => PointAt(t, s)'
      BY <1>2, <1>5, <1>6, <1>7, <1>8, <2>2, <2>3 DEF PointAt, Balance, table, semaphores
    <3>2. QED
      BY <1>2, <1>7, <2>2, <2>3, <3>1 DEF StepAt, table, semaphores
  <2>4. QED
    BY <1>1, <1>2, <2>1, <2>2, <2>3, LookPreserves DEF Points, Running, MidCall, WakePoints
<1>9. CASE ~(waiters[s] < 0)
  <2>1. Goto(t, "wait", "count") /\ owed' = owed /\ pc' = [pc EXCEPT ![t] = "count"]
    BY <1>1, <1>9 DEF WaitRead, Goto, Jump
  <2>2. owed' \in [Wids -> Int] /\ pc'[t] = "count"
    BY <1>3, <2>1 DEF TypeOK, TableOK, TasksOK
  <2>3. ASSUME OneLevel(s) PROVE StepAt(t, s)'
    <3>1. clean[s] => PointAt(t, s)'
      BY <1>2, <1>5, <1>6, <1>7, <1>9, <2>1, <2>2, <2>3 DEF PointAt, Balance, table, semaphores
    <3>2. QED
      BY <1>2, <1>7, <2>2, <2>3, <3>1 DEF StepAt, table, semaphores
  <2>4. QED
    BY <1>1, <1>2, <2>1, <2>2, <2>3, LookPreserves DEF Points, Running, MidCall, WakePoints
<1>10. QED
  BY <1>8, <1>9

LEMMA RefusedLoadPreserves ==
  ASSUME NucleusAssumption, IndInv, NEW t \in Tasks, RefusedLoad(t)
  PROVE  IndInv'
<1>1. PICK s : s = Wid(t)
  OBVIOUS
<1>2. /\ pc[t] = "refused" /\ MayRun(t, ready, cpu) /\ Goto(t, "refused", "give_up") /\ Load(t)
      /\ pc' = [pc EXCEPT ![t] = "give_up"] /\ UNCHANGED <<table, semaphores, history>>
  BY DEF RefusedLoad, Goto, Jump
<1>3. s \in Wids /\ (OneLevel(s) => RestAt(s))
  BY <1>1, <1>2, Before DEF Running, MidCall
<1>4. pc'[t] = "give_up" /\ owed' \in [Wids -> Int] /\ owed' = owed
  BY <1>2 DEF IndInv, TypeOK, TableOK, TasksOK, history
<1>5. OneLevel(s) => StepAt(t, s)'
  BY <1>2, <1>3, <1>4 DEF RestAt, StepAt, PointAt, Inside, WakePoints, table, semaphores
<1>6. QED
  BY <1>1, <1>2, <1>4, <1>5, LookPreserves
     DEF Points, Running, MidCall, WakePoints, history

LEMMA WakeNobodyPreserves ==
  ASSUME NucleusAssumption, IndInv, NEW t \in Tasks, WakeNobody(t)
  PROVE  IndInv'
<1>1. PICK s, to : s = Wid(t) /\ to = IF Op(t) = "one" THEN "post" ELSE "clear"
  OBVIOUS
<1>2. /\ pc[t] = "wake" /\ MayRun(t, ready, cpu) /\ Goto(t, "wake", to) /\ Load(t)
      /\ reg' = [reg EXCEPT ![t] = waiters[s]] /\ waiters[s] < 1
      /\ pc' = [pc EXCEPT ![t] = to] /\ UNCHANGED <<table, semaphores, history>>
  BY <1>1 DEF WakeNobody, Goto, Jump, Load
<1>3. TypeOK
  BY DEF IndInv
<1>4. s \in Wids /\ (OneLevel(s) => StepAt(t, s))
  BY <1>1, <1>2, Before DEF Running, MidCall
<1>5. waiters[s] \in Int /\ owed[s] \in Int /\ Len(queue[s]) \in Nat
      /\ (Len(queue[s]) = 0 <=> queue[s] = << >>)
  BY <1>3, <1>4, LenProperties, EmptySeq DEF TypeOK, TableOK
<1>6. pc'[t] = to /\ reg'[t] = waiters[s] /\ owed' \in [Wids -> Int] /\ owed' = owed
  BY <1>2, <1>3 DEF TypeOK, TableOK, TasksOK, history
<1>7. ASSUME OneLevel(s) PROVE StepAt(t, s)'
  <2>1. used[s] /\ live[s] /\ (clean[s] => Balance(s, 0))
    BY <1>2, <1>4, <1>7 DEF StepAt, PointAt, Inside, WakePoints
  <2>2. clean[s] => queue[s] = << >>
    BY <1>2, <1>5, <2>1 DEF Balance
  <2>3. clean[s] => PointAt(t, s)'
    BY <1>1, <1>2, <1>6, <2>1, <2>2 DEF PointAt, Balance, table, semaphores, history
  <2>4. QED
    BY <1>1, <1>2, <1>6, <2>1, <2>3 DEF StepAt, Inside, WakePoints, table, semaphores, history
<1>8. to \in Running \ {"make"} /\ to \in WakePoints /\ (to = "post" => Op(t) = "one")
      /\ to # "give_up"
  BY <1>1 DEF Running, MidCall, WakePoints
<1>9. QED
  BY <1>1, <1>2, <1>6, <1>7, <1>8, LookPreserves DEF Points, MidCall, WakePoints, history

LEMMA ReleaseReloadPreserves ==
  ASSUME NucleusAssumption, IndInv, NEW t \in Tasks, ReleaseReload(t)
  PROVE  IndInv'
<1>1. PICK s : s = Wid(t)
  OBVIOUS
<1>2. /\ pc[t] = "reload" /\ MayRun(t, ready, cpu) /\ Goto(t, "reload", "settle") /\ Load(t)
      /\ reg' = [reg EXCEPT ![t] = waiters[s]] /\ call' = call
      /\ pc' = [pc EXCEPT ![t] = "settle"] /\ UNCHANGED <<table, semaphores, history>>
  BY <1>1 DEF ReleaseReload, Goto, Jump, Load
<1>3. s \in Wids /\ (OneLevel(s) => StepAt(t, s))
  BY <1>1, <1>2, Before DEF Running, MidCall
<1>4. pc'[t] = "settle" /\ reg'[t] = waiters[s] /\ owed' \in [Wids -> Int] /\ owed' = owed
  BY <1>2 DEF IndInv, TypeOK, TableOK, TasksOK, history
<1>5. OneLevel(s) => StepAt(t, s)'
  BY <1>2, <1>3, <1>4 DEF StepAt, PointAt, Balance, Inside, WakePoints, Op, table, semaphores,
     history
<1>6. QED
  BY <1>1, <1>2, <1>4, <1>5, LookPreserves
     DEF Points, Running, MidCall, WakePoints, history

\* The test of a wake that finds waiters.
LEMMA WakeSomePreserves ==
  ASSUME NucleusAssumption, IndInv, NEW t \in Tasks, WakeSome(t)
  PROVE  IndInv'
<1>1. PICK s, n : s = Wid(t) /\ n = IF Op(t) = "one" THEN 1 ELSE waiters[s]
  OBVIOUS
<1>2. /\ pc[t] = "wake" /\ MayRun(t, ready, cpu) /\ Jump(t, "wake", "release")
      /\ call' = [call EXCEPT ![t].left = n] /\ waiters[s] > 0
      /\ pc' = [pc EXCEPT ![t] = "release"] /\ UNCHANGED <<table, semaphores, history, reg>>
  BY <1>1 DEF WakeSome, Jump
<1>3. TypeOK
  BY DEF IndInv
<1>4. s \in Wids /\ (OneLevel(s) => StepAt(t, s))
  BY <1>1, <1>2, Before DEF Running, MidCall
<1>5. waiters[s] \in Int /\ owed[s] \in Int /\ Len(queue[s]) \in Nat
      /\ (Len(queue[s]) = 0 <=> queue[s] = << >>)
  BY <1>3, <1>4, LenProperties, EmptySeq DEF TypeOK, TableOK
<1>6. pc'[t] = "release" /\ n \in Int
  BY <1>1, <1>2, <1>3, <1>5 DEF TypeOK, TasksOK
<1>7. /\ call' \in [Tasks -> Calls] /\ \A u \in Tasks \ {t} : call'[u] = call[u]
      /\ call'[t].left = n /\ call'[t].wid = call[t].wid /\ call'[t].op = call[t].op
  BY <1>2, <1>3, <1>6 DEF TypeOK, TasksOK, Calls
<1>8. InPlace(t, s, "wake", "release")
  BY <1>1, <1>2, <1>3, <1>4, <1>7 DEF InPlace, TypeOK, TableOK, TasksOK, Priorities,
     table, semaphores, history, Wid, Op
<1>9. ASSUME OneLevel(s) PROVE StepAt(t, s)'
  <2>1. used[s] /\ live[s] /\ (clean[s] => Balance(s, 0))
    BY <1>2, <1>4, <1>9 DEF StepAt, PointAt, Inside, WakePoints
  <2>2. clean[s] => queue[s] # << >> /\ waiters[s] = Len(queue[s])
    BY <1>2, <1>5, <2>1 DEF Balance
  <2>3. clean[s] => PointAt(t, s)'
    BY <1>1, <1>2, <1>6, <1>7, <2>1, <2>2 DEF PointAt, Balance, Op, table, semaphores, history
  <2>4. QED
    BY <1>2, <1>6, <2>1, <2>3 DEF StepAt, Inside, WakePoints, table, semaphores, history
<1>10. QED
  BY <1>1, <1>2, <1>4, <1>8, <1>9, StepKeeps
     DEF Points, Running, MidCall, WakePoints, semaphores, history

-----------------------------------------------------------------------------
\* A store, which ends the read-modify-write of a counter.
LEMMA StorePreserves ==
  ASSUME NucleusAssumption, IndInv, NEW t \in Tasks, NEW s, s = Wid(t), NEW v \in Int,
         NEW from \in Running, NEW to \in {"idle", "obtain", "release", "clear"},
         Jump(t, from, to),
         call' \in [Tasks -> Calls], \A u \in Tasks \ {t} : call'[u] = call[u],
         to # "idle" =>
           Wid(t)' = s /\ Op(t)' = Op(t) /\ (from \in WakePoints <=> to \in WakePoints),
         Store(t, v),
         UNCHANGED <<used, semaphores, clean, users>>,
         \A r \in Wids \ {s} : owed'[r] = owed[r], owed' \in [Wids -> Int],
         OneLevel(s) /\ waiters'[s] = v => IF to = "idle" THEN RestAt(s)' ELSE StepAt(t, s)'
  PROVE  IndInv'
<1>1. MayRun(t, ready, cpu) /\ pc[t] = from /\ from # "idle"
  BY DEF Jump, Running, MidCall
<1>2. TypeOK
  BY DEF IndInv
<1>3. s \in Wids
  BY <1>1, Before
<1>4. /\ waiters' = [waiters EXCEPT ![s] = v] /\ reg' = [reg EXCEPT ![t] = 0]
      /\ waiters'[s] = v
  BY <1>2, <1>3 DEF Store, TypeOK, TableOK
<1>5. InPlace(t, s, from, to)
  <2>1. TableOK'
    BY <1>2, <1>3, <1>4 DEF TypeOK, TableOK, Priorities, semaphores
  <2>2. reg' \in [Tasks -> Int] /\ \A u \in Tasks \ {t} : reg'[u] = reg[u]
    BY <1>2, <1>4 DEF TypeOK, TasksOK
  <2>3. \A r \in Wids \ {s} : waiters'[r] = waiters[r]
    BY <1>2, <1>4 DEF TypeOK, TableOK
  <2>4. QED
    BY <1>3, <2>1, <2>2, <2>3 DEF InPlace, semaphores
<1>6. QED
  BY <1>3, <1>4, <1>5, StepKeeps DEF Points, Running, MidCall, semaphores

LEMMA WaitConsumePreserves ==
  ASSUME NucleusAssumption, IndInv, NEW t \in Tasks, WaitConsume(t)
  PROVE  IndInv'
<1>1. PICK s : s = Wid(t)
  OBVIOUS
<1>2. /\ pc[t] = "consume" /\ MayRun(t, ready, cpu) /\ Jump(t, "consume", "idle")
      /\ Store(t, reg[t] + 1) /\ call' = [call EXCEPT ![t] = NoCall]
      /\ UNCHANGED <<used, semaphores, history>>
  BY DEF WaitConsume, Goto, Jump
<1>3. TypeOK
  BY DEF IndInv
<1>4. s \in Wids /\ (OneLevel(s) => StepAt(t, s))
  BY <1>1, <1>2, Before DEF Running, MidCall
<1>5. /\ waiters[s] \in Int /\ owed[s] \in Int /\ Len(queue[s]) \in Nat /\ reg[t] + 1 \in Int
      /\ owed' = owed /\ owed' \in [Wids -> Int] /\ NoCall \in Calls
  BY <1>2, <1>3, <1>4, LenProperties DEF TypeOK, TableOK, TasksOK, history, NoCall, Calls
<1>6. ASSUME OneLevel(s), waiters'[s] = reg[t] + 1 PROVE RestAt(s)'
  <2>1. used[s] /\ live[s] /\ (clean[s] => reg[t] = waiters[s] /\ Balance(s, -1))
    BY <1>2, <1>4, <1>6 DEF StepAt, PointAt, Inside
  <2>2. QED
    BY <1>2, <1>5, <1>6, <2>1 DEF RestAt, Balance, semaphores, history
<1>7. QED
  BY <1>1, <1>2, <1>3, <1>5, <1>6, StorePreserves
     DEF Running, MidCall, TypeOK, TasksOK, history

LEMMA WaitCountPreserves ==
  ASSUME NucleusAssumption, IndInv, NEW t \in Tasks, WaitCount(t)
  PROVE  IndInv'
<1>1. PICK s : s = Wid(t)
  OBVIOUS
<1>2. /\ pc[t] = "count" /\ MayRun(t, ready, cpu) /\ Jump(t, "count", "obtain")
      /\ pc' = [pc EXCEPT ![t] = "obtain"] /\ Store(t, reg[t] + 1) /\ call' = call
      /\ UNCHANGED <<used, semaphores, history>>
  BY DEF WaitCount, Goto, Jump
<1>3. TypeOK
  BY DEF IndInv
<1>4. s \in Wids /\ (OneLevel(s) => StepAt(t, s))
  BY <1>1, <1>2, Before DEF Running, MidCall
<1>5. /\ waiters[s] \in Int /\ owed[s] \in Int /\ Len(queue[s]) \in Nat /\ reg[t] + 1 \in Int
      /\ owed' = owed /\ owed' \in [Wids -> Int] /\ pc'[t] = "obtain"
  BY <1>2, <1>3, <1>4, LenProperties DEF TypeOK, TableOK, TasksOK, history
<1>6. ASSUME OneLevel(s), waiters'[s] = reg[t] + 1 PROVE StepAt(t, s)'
  <2>1. /\ used[s] /\ live[s]
        /\ clean[s] => reg[t] = waiters[s] /\ owed[s] = 0 /\ Balance(s, 0)
    BY <1>2, <1>4, <1>6 DEF StepAt, PointAt, Inside
  <2>2. clean[s] => owed'[s] = 0 /\ Balance(s, 1)'
    BY <1>2, <1>5, <1>6, <2>1 DEF Balance, semaphores, history
  <2>3. QED
    BY <1>2, <1>5, <2>1, <2>2 DEF StepAt, PointAt, Inside, WakePoints, semaphores, history
<1>7. QED
  BY <1>1, <1>2, <1>3, <1>5, <1>6, StorePreserves
     DEF Running, MidCall, WakePoints, TypeOK, TasksOK, Wid, Op, history

\* A dismissed waiter counts itself off a slot that is free, or no more exact.
LEMMA RefusedStorePreserves ==
  ASSUME NucleusAssumption, IndInv, NEW t \in Tasks, RefusedStore(t)
  PROVE  IndInv'
<1>1. PICK s : s = Wid(t)
  OBVIOUS
<1>2. /\ pc[t] = "give_up" /\ MayRun(t, ready, cpu) /\ Jump(t, "give_up", "idle")
      /\ Store(t, reg[t] - 1) /\ call' = [call EXCEPT ![t] = NoCall]
      /\ UNCHANGED <<used, semaphores, history>>
  BY DEF RefusedStore, Goto, Jump
<1>3. TypeOK
  BY DEF IndInv
<1>4. s \in Wids /\ (OneLevel(s) => StepAt(t, s) /\ LeftAt(s))
  BY <1>1, <1>2, Before DEF Running, MidCall
<1>5. /\ reg[t] - 1 \in Int /\ NoCall \in Calls
      /\ owed' = owed /\ owed' \in [Wids -> Int]
  BY <1>2, <1>3, <1>4 DEF TypeOK, TableOK, TasksOK, history, NoCall, Calls
<1>6. ASSUME OneLevel(s) PROVE RestAt(s)'
  <2>1. (used[s] <=> live[s]) /\ (clean[s] => ~live[s])
    BY <1>1, <1>2, <1>4, <1>6 DEF StepAt, LeftAt
  <2>2. QED
    BY <1>2, <2>1 DEF RestAt, semaphores, history
<1>7. QED
  BY <1>1, <1>2, <1>3, <1>5, <1>6, StorePreserves
     DEF Running, MidCall, TypeOK, TasksOK, history

LEMMA PostWakePreserves ==
  ASSUME NucleusAssumption, IndInv, NEW t \in Tasks, PostWake(t)
  PROVE  IndInv'
<1>1. PICK s : s = Wid(t)
  OBVIOUS
<1>2. /\ pc[t] = "post" /\ MayRun(t, ready, cpu) /\ Jump(t, "post", "idle")
      /\ Store(t, reg[t] - 1) /\ call' = [call EXCEPT ![t] = NoCall]
      /\ owed' = [owed EXCEPT ![s] = @ + 1]
      /\ UNCHANGED <<used, semaphores, clean, users>>
  BY <1>1 DEF PostWake, Goto, Jump
<1>3. TypeOK
  BY DEF IndInv
<1>4. s \in Wids /\ (OneLevel(s) => StepAt(t, s))
  BY <1>1, <1>2, Before DEF Running, MidCall
<1>5. /\ waiters[s] \in Int /\ owed[s] \in Int /\ reg[t] - 1 \in Int /\ NoCall \in Calls
      /\ Len(queue[s]) \in Nat /\ (Len(queue[s]) = 0 <=> queue[s] = << >>)
  BY <1>3, <1>4, LenProperties, EmptySeq DEF TypeOK, TableOK, TasksOK, NoCall, Calls
<1>6. /\ owed'[s] = owed[s] + 1 /\ owed' \in [Wids -> Int]
      /\ \A r \in Wids \ {s} : owed'[r] = owed[r]
  BY <1>2, <1>3, <1>4, <1>5 DEF TypeOK, TableOK
<1>7. ASSUME OneLevel(s), waiters'[s] = reg[t] - 1 PROVE RestAt(s)'
  <2>1. /\ used[s] /\ live[s]
        /\ clean[s] => reg[t] = waiters[s] /\ queue[s] = << >> /\ Balance(s, 0)
    BY <1>2, <1>4, <1>7 DEF StepAt, PointAt, Inside, WakePoints
  <2>2. QED
    BY <1>2, <1>5, <1>6, <1>7, <2>1 DEF RestAt, Balance, semaphores
<1>8. QED
  BY <1>1, <1>2, <1>3, <1>5, <1>6, <1>7, StorePreserves DEF Running, MidCall, TypeOK, TasksOK

LEMMA ClearWakesPreserves ==
  ASSUME NucleusAssumption, IndInv, NEW t \in Tasks, ClearWakes(t)
  PROVE  IndInv'
<1>1. PICK s : s = Wid(t)
  OBVIOUS
<1>2. /\ pc[t] = "clear" /\ MayRun(t, ready, cpu) /\ Jump(t, "clear", "idle")
      /\ Store(t, 0) /\ call' = [call EXCEPT ![t] = NoCall]
      /\ owed' = [owed EXCEPT ![s] = count[s]]
      /\ UNCHANGED <<used, semaphores, clean, users>>
  BY <1>1 DEF ClearWakes, Goto, Jump
<1>3. TypeOK
  BY DEF IndInv
<1>4. s \in Wids /\ (OneLevel(s) => StepAt(t, s))
  BY <1>1, <1>2, Before DEF Running, MidCall
<1>5. /\ owed'[s] = count[s] /\ owed' \in [Wids -> Int]
      /\ \A r \in Wids \ {s} : owed'[r] = owed[r]
      /\ NoCall \in Calls
  BY <1>2, <1>3, <1>4 DEF TypeOK, TableOK, NoCall, Calls
<1>6. ASSUME OneLevel(s), waiters'[s] = 0 PROVE RestAt(s)'
  <2>1. used[s] /\ live[s] /\ (clean[s] => queue[s] = << >> /\ count[s] = 0)
    BY <1>2, <1>4, <1>6 DEF StepAt, PointAt, Inside, WakePoints
  <2>2. queue[s] = << >> => Len(queue[s]) = 0
    OBVIOUS
  <2>3. QED
    BY <1>2, <1>5, <1>6, <2>1, <2>2 DEF RestAt, Balance, semaphores
<1>7. QED
  BY <1>1, <1>2, <1>3, <1>5, <1>6, StorePreserves DEF Running, MidCall, TypeOK, TasksOK

\* What the end of a release does to the call.
LEMMA ReleasedFacts ==
  ASSUME TypeOK, NEW t \in Tasks, NEW from \in Points, Released(t, from)
  PROVE  \E to \in {"release", "clear", "idle"} :
           /\ pc[t] = from /\ Jump(t, from, to) /\ pc'[t] = to
           /\ call' \in [Tasks -> Calls] /\ \A u \in Tasks \ {t} : call'[u] = call[u]
           /\ to # "idle" => call'[t].wid = call[t].wid /\ call'[t].op = call[t].op
           /\ to = "release" => call[t].left > 1 /\ call'[t].left = call[t].left - 1
           /\ to # "release" => call[t].left <= 1 /\ (to = "clear" <=> Op(t) = "reset")
<1>1. CASE call[t].left > 1 /\ Jump(t, from, "release") /\ call' = [call EXCEPT ![t].left = @ - 1]
  <2>1. call[t] \in Calls /\ call[t].left - 1 \in Int
    BY DEF TypeOK, TasksOK, Calls
  <2>2. /\ call' \in [Tasks -> Calls] /\ \A u \in Tasks \ {t} : call'[u] = call[u]
        /\ call'[t].wid = call[t].wid /\ call'[t].op = call[t].op
        /\ call'[t].left = call[t].left - 1
    BY <1>1, <2>1 DEF TypeOK, TasksOK, Calls
  <2>3. pc[t] = from /\ pc'[t] = "release"
    BY <1>1 DEF Jump, TypeOK, TasksOK
  <2>4. QED
    BY <1>1, <2>2, <2>3
<1>2. CASE call[t].left <= 1 /\ Goto(t, from, IF Op(t) = "reset" THEN "clear" ELSE "idle")
  <2>1. PICK to \in {"clear", "idle"} : to = IF Op(t) = "reset" THEN "clear" ELSE "idle"
    OBVIOUS
  <2>2. Jump(t, from, to) /\ call' = IF to = "idle" THEN [call EXCEPT ![t] = NoCall] ELSE call
    BY <1>2, <2>1 DEF Goto
  <2>3. call' \in [Tasks -> Calls] /\ \A u \in Tasks \ {t} : call'[u] = call[u]
    BY <2>2 DEF TypeOK, TasksOK, NoCall, Calls
  <2>4. pc[t] = from /\ pc'[t] = to
    BY <2>2 DEF Jump, TypeOK, TasksOK
  <2>5. QED
    BY <1>2, <2>1, <2>2, <2>3, <2>4
<1>3. QED
  BY <1>1, <1>2 DEF Released

LEMMA ReleaseSettlePreserves ==
  ASSUME NucleusAssumption, IndInv, NEW t \in Tasks, ReleaseSettle(t)
  PROVE  IndInv'
<1>1. PICK s : s = Wid(t)
  OBVIOUS
<1>2. TypeOK
  BY DEF IndInv
<1>3. PICK to \in {"release", "clear", "idle"} :
        /\ pc[t] = "settle" /\ Jump(t, "settle", to) /\ pc'[t] = to
        /\ call' \in [Tasks -> Calls] /\ \A u \in Tasks \ {t} : call'[u] = call[u]
        /\ to # "idle" => call'[t].wid = call[t].wid /\ call'[t].op = call[t].op
        /\ to = "release" => call[t].left > 1 /\ call'[t].left = call[t].left - 1
        /\ to # "release" => call[t].left <= 1 /\ (to = "clear" <=> Op(t) = "reset")
  BY <1>2, ReleasedFacts DEF ReleaseSettle, Points, MidCall
<1>4. /\ MayRun(t, ready, cpu) /\ Store(t, reg[t] - 1)
      /\ UNCHANGED <<used, semaphores, history>>
  BY <1>3 DEF ReleaseSettle, Jump
<1>5. s \in Wids /\ (OneLevel(s) => StepAt(t, s))
  BY <1>1, <1>3, <1>4, Before DEF Running, MidCall
<1>6. /\ waiters[s] \in Int /\ owed[s] \in Int /\ reg[t] - 1 \in Int /\ call[t].left \in Int
      /\ Len(queue[s]) \in Nat /\ (Len(queue[s]) = 0 <=> queue[s] = << >>)
      /\ owed' = owed /\ owed' \in [Wids -> Int]
  BY <1>2, <1>4, <1>5, LenProperties, EmptySeq DEF TypeOK, TableOK, TasksOK, Calls, history
<1>7. ASSUME OneLevel(s), waiters'[s] = reg[t] - 1
      PROVE  IF to = "idle" THEN RestAt(s)' ELSE StepAt(t, s)'
  <2>1. /\ used[s] /\ live[s]
        /\ clean[s] => /\ reg[t] = waiters[s] /\ Balance(s, 1) /\ owed[s] = 0
                       /\ call[t].left = IF Op(t) = "one" THEN 1 ELSE Len(queue[s]) + 1
    BY <1>3, <1>5, <1>7 DEF StepAt, PointAt, Inside, WakePoints
  <2>2. clean[s] => Balance(s, 0)'
    BY <1>4, <1>6, <1>7, <2>1 DEF Balance, semaphores, history
  <2>3. ASSUME clean[s], to = "release"
        PROVE  queue[s] # << >> /\ Op(t) # "one" /\ call'[t].left = Len(queue[s])
    <3>1. call[t].left > 1 /\ call'[t].left = call[t].left - 1
      BY <1>3, <2>3
    <3>2. Op(t) # "one"
      BY <2>1, <2>3, <3>1
    <3>3. call[t].left = Len(queue[s]) + 1
      BY <2>1, <2>3, <3>2
    <3>4. QED
      BY <1>6, <3>1, <3>2, <3>3
  <2>4. clean[s] /\ to = "clear" => queue[s] = << >> /\ count[s] = 0
    BY <1>3, <1>6, <2>1 DEF Balance
  <2>5. CASE to = "idle"
    BY <1>4, <2>1, <2>2, <2>5 DEF RestAt, semaphores, history
  <2>6. CASE to = "release"
    BY <1>3, <1>4, <2>1, <2>2, <2>3, <2>6
       DEF StepAt, PointAt, Inside, WakePoints, Op, semaphores, history
  <2>7. CASE to = "clear"
    BY <1>3, <1>4, <2>1, <2>4, <2>7
       DEF StepAt, PointAt, Inside, WakePoints, semaphores, history
  <2>8. QED
    BY <2>5, <2>6, <2>7
<1>8. QED
  <2>1. "settle" \in Running /\ (to # "idle" => to \in WakePoints) /\ "settle" \in WakePoints
    BY DEF Running, MidCall, WakePoints
  <2>2. to # "idle" => Wid(t)' = s /\ Op(t)' = Op(t)
    BY <1>1, <1>3 DEF Wid, Op
  <2>3. UNCHANGED <<used, semaphores, clean, users>> /\ \A r \in Wids \ {s} : owed'[r] = owed[r]
    BY <1>4 DEF history
  <2>4. PICK v \in Int, from \in Running : v = reg[t] - 1 /\ from = "settle"
    BY <1>6, <2>1
  <2>5. /\ Jump(t, from, to) /\ Store(t, v) /\ owed' \in [Wids -> Int]
        /\ to # "idle" =>
             Wid(t)' = s /\ Op(t)' = Op(t) /\ (from \in WakePoints <=> to \in WakePoints)
        /\ call' \in [Tasks -> Calls] /\ \A u \in Tasks \ {t} : call'[u] = call[u]
    BY <1>3, <1>4, <1>6, <2>1, <2>2, <2>4
  <2>6. QED
    BY <1>1, <1>7, <2>3, <2>4, <2>5, StorePreserves

\* A semaphore that is deleted in the middle of a wake or a wait has tasks of
\* several priorities.
LEMMA ReleaseInvalidPreserves ==
  ASSUME NucleusAssumption, IndInv, NEW t \in Tasks, ReleaseInvalid(t)
  PROVE  IndInv'
<1>1. PICK s : s = Wid(t)
  OBVIOUS
<1>2. TypeOK
  BY DEF IndInv
<1>3. PICK to \in {"release", "clear", "idle"} :
        /\ pc[t] = "release" /\ Jump(t, "release", to)
        /\ call' \in [Tasks -> Calls] /\ \A u \in Tasks \ {t} : call'[u] = call[u]
        /\ to # "idle" => call'[t].wid = call[t].wid /\ call'[t].op = call[t].op
  BY <1>2, ReleasedFacts DEF ReleaseInvalid, Points, MidCall
<1>4. MayRun(t, ready, cpu) /\ ~live[s] /\ UNCHANGED <<table, semaphores, history, reg>>
  BY <1>1, <1>3 DEF ReleaseInvalid, Jump
<1>5. s \in Wids /\ ~OneLevel(s)
  BY <1>1, <1>3, <1>4, Before DEF Running, MidCall, StepAt, Inside, WakePoints
<1>6. InPlace(t, s, "release", to)
  BY <1>1, <1>2, <1>3, <1>4, <1>5
     DEF InPlace, TypeOK, TableOK, TasksOK, Priorities, table, semaphores, history, Wid, Op
<1>7. QED
  BY <1>1, <1>4, <1>5, <1>6, StepKeeps DEF Points, MidCall, WakePoints, semaphores, history

LEMMA ObtainInvalidPreserves ==
  ASSUME NucleusAssumption, IndInv, NEW t \in Tasks, ObtainInvalid(t)
  PROVE  IndInv'
<1>1. PICK s : s = Wid(t)
  OBVIOUS
<1>2. TypeOK
  BY DEF IndInv
<1>3. /\ pc[t] = "obtain" /\ MayRun(t, ready, cpu) /\ Jump(t, "obtain", "refused") /\ ~live[s]
      /\ call' = call /\ UNCHANGED <<table, semaphores, history, reg>>
  BY <1>1 DEF ObtainInvalid, Goto, Jump
<1>4. s \in Wids /\ ~OneLevel(s)
  BY <1>1, <1>3, Before DEF Running, MidCall, StepAt, Inside
<1>5. InPlace(t, s, "obtain", "refused")
  BY <1>1, <1>2, <1>3, <1>4
     DEF InPlace, TypeOK, TableOK, TasksOK, Priorities, table, semaphores, history, Wid, Op
<1>6. QED
  BY <1>1, <1>4, <1>5, InPlaceKeeps DEF Points, Running, MidCall, WakePoints

\* So has one that is free: the counter is no more exact.
LEMMA ObtainFreePreserves ==
  ASSUME NucleusAssumption, IndInv, NEW t \in Tasks, ObtainFree(t)
  PROVE  IndInv'
<1>1. PICK s : s = Wid(t)
  OBVIOUS
<1>2. TypeOK
  BY DEF IndInv
<1>3. /\ pc[t] = "obtain" /\ MayRun(t, ready, cpu) /\ Jump(t, "obtain", "idle")
      /\ live[s] /\ count[s] > 0 /\ call' = [call EXCEPT ![t] = NoCall]
      /\ count' = [count EXCEPT ![s] = @ - 1] /\ owed' = [owed EXCEPT ![s] = @ - 1]
      /\ UNCHANGED <<table, live, queue, clean, users, reg>>
  BY <1>1 DEF ObtainFree, Goto, Jump
<1>4. s \in Wids /\ (OneLevel(s) => StepAt(t, s))
  BY <1>1, <1>3, Before DEF Running, MidCall
<1>5. NoCall \in Calls /\ count[s] - 1 \in Nat /\ owed[s] - 1 \in Int
  BY <1>2, <1>3, <1>4 DEF NoCall, Calls, TypeOK, TableOK
<1>6. TableOK'
  BY <1>2, <1>3, <1>4, <1>5 DEF TypeOK, TableOK, Priorities, table
<1>7. InPlace(t, s, "obtain", "idle")
  BY <1>1, <1>2, <1>3, <1>4, <1>5, <1>6 DEF InPlace, TypeOK, TableOK, TasksOK, table
<1>8. ASSUME OneLevel(s) PROVE RestAt(s)'
  <2>1. used[s] /\ live[s] /\ ~clean[s]
    BY <1>2, <1>3, <1>4, <1>8 DEF StepAt, PointAt, Balance, Inside, TypeOK, TableOK
  <2>2. QED
    BY <1>3, <2>1 DEF RestAt, table
<1>9. QED
  BY <1>1, <1>3, <1>4, <1>7, <1>8, StepKeeps DEF Points, Running, MidCall

LEMMA ReleaseFreePreserves ==
  ASSUME NucleusAssumption, IndInv, NEW t \in Tasks, ReleaseFree(t)
  PROVE  IndInv'
<1>1. PICK s : s = Wid(t)
  OBVIOUS
<1>2. TypeOK
  BY DEF IndInv
<1>3. /\ pc[t] = "release" /\ MayRun(t, ready, cpu) /\ Jump(t, "release", "reload")
      /\ pc' = [pc EXCEPT ![t] = "reload"] /\ call' = call
      /\ live[s] /\ queue[s] = << >>
      /\ count' = [count EXCEPT ![s] = @ + 1] /\ owed' = [owed EXCEPT ![s] = @ + 1]
      /\ UNCHANGED <<table, live, queue, clean, users, reg>>
  BY <1>1 DEF ReleaseFree, Goto, Jump
<1>4. s \in Wids /\ (OneLevel(s) => StepAt(t, s))
  BY <1>1, <1>3, Before DEF Running, MidCall
<1>5. count[s] + 1 \in Nat /\ owed[s] + 1 \in Int /\ pc'[t] = "reload"
  BY <1>2, <1>3, <1>4 DEF TypeOK, TableOK, TasksOK
<1>6. TableOK'
  BY <1>2, <1>3, <1>4, <1>5 DEF TypeOK, TableOK, Priorities, table
<1>7. InPlace(t, s, "release", "reload")
  BY <1>1, <1>2, <1>3, <1>4, <1>5, <1>6 DEF InPlace, TypeOK, TableOK, TasksOK, table, Wid, Op
<1>8. ASSUME OneLevel(s) PROVE StepAt(t, s)'
  <2>1. used[s] /\ live[s] /\ ~clean[s]
    BY <1>3, <1>4, <1>8 DEF StepAt, PointAt, Inside, WakePoints
  <2>2. QED
    BY <1>3, <1>5, <2>1 DEF StepAt, table
<1>9. QED
  BY <1>1, <1>3, <1>4, <1>7, <1>8, StepKeeps DEF Points, Running, MidCall, WakePoints

-----------------------------------------------------------------------------
\* A task that enters a call leaves its priority with the slot.
LEMMA UseFacts ==
  ASSUME NucleusAssumption, TypeOK, NEW t \in Tasks, NEW s \in Wids, NEW o, Use(t, o, s)
  PROVE  /\ users' \in [Wids -> SUBSET (Nat \X BOOLEAN)]
         /\ \A r \in Wids : users[r] \subseteq users'[r] /\ IsFiniteSet(Priorities(r)')
         /\ \A r \in Wids \ {s} : users'[r] = users[r]
         /\ \E v \in users'[s] : v[1] = Prio[t]
<1>0. PICK b \in BOOLEAN : users' = [users EXCEPT ![s] = @ \cup {<<Prio[t], b>>}]
  <2>1. CASE o \in {"one", "all", "reset"}
    <3>1. (o \in {"one", "all", "reset"}) = TRUE
      BY <2>1
    <3>2. QED
      BY <3>1, Zenon DEF Use
  <2>2. CASE o \notin {"one", "all", "reset"}
    <3>1. (o \in {"one", "all", "reset"}) = FALSE
      BY <2>2
    <3>2. QED
      BY <3>1, Zenon DEF Use
  <2>3. QED
    BY <2>1, <2>2
<1> DEFINE new == <<Prio[t], b>>
<1>1. new \in Nat \X BOOLEAN /\ new[1] = Prio[t]
  BY DEF NucleusAssumption
<1>2. users' = [users EXCEPT ![s] = @ \cup {new}]
  BY <1>0
<1> HIDE DEF new
<1>3. /\ users'[s] = users[s] \cup {new} /\ \A r \in Wids \ {s} : users'[r] = users[r]
      /\ users' \in [Wids -> SUBSET (Nat \X BOOLEAN)]
  BY <1>1, <1>2 DEF TypeOK, TableOK
<1>4. IsFiniteSet(Priorities(s) \cup {Prio[t]})
  BY FS_AddElement DEF TypeOK, TableOK
<1>5. Priorities(s)' = Priorities(s) \cup {Prio[t]}
  BY <1>1, <1>3 DEF Priorities
<1>6. \A r \in Wids \ {s} : Priorities(r)' = Priorities(r)
  BY <1>3 DEF Priorities
<1>7. ASSUME NEW r \in Wids PROVE IsFiniteSet(Priorities(r)')
  <2>1. CASE r = s
    BY <1>4, <1>5, <2>1
  <2>2. CASE r # s
    <3>1. IsFiniteSet(Priorities(r)) /\ Priorities(r)' = Priorities(r)
      BY <1>2, <1>6, <2>2 DEF TypeOK, TableOK
    <3>2. QED
      BY <3>1
  <2>3. QED
    BY <2>1, <2>2
<1>8. QED
  BY <1>1, <1>3, <1>7

LEMMA EnterPreserves ==
  ASSUME NucleusAssumption, IndInv, NEW t \in Tasks, NEW s \in Wids,
         NEW o \in {"create", "destroy", "wait"} \cup WakeKinds,
         NEW point \in Running \ {"make", "post", "give_up"},
         Jump(t, "idle", point), call' = [call EXCEPT ![t] = [op |-> o, wid |-> s, left |-> 0]],
         Use(t, o, s), UNCHANGED <<table, semaphores, owed, clean, reg>>,
         o \in WakeKinds <=> point \in WakePoints,
         OneLevel(s) /\ RestAt(s) /\ pc'[t] = point => StepAt(t, s)'
  PROVE  IndInv'
<1>1. /\ pc[t] = "idle" /\ MayRun(t, ready, cpu)
      /\ pc' = [pc EXCEPT ![t] = point] /\ cpu' = Occupy(t, cpu)
  BY DEF Jump
<1>2. TypeOK /\ Prio[t] \in Levels
  BY DEF IndInv, Levels
<1>3. pc'[t] = point /\ cpu'[Prio[t]] = t /\ \A u \in Tasks \ {t} : pc'[u] = pc[u]
  BY <1>1, <1>2 DEF Occupy, TypeOK, TasksOK
<1>4. /\ call' \in [Tasks -> Calls] /\ \A u \in Tasks \ {t} : call'[u] = call[u]
      /\ call'[t].wid = s /\ call'[t].op = o
  BY <1>2 DEF TypeOK, TasksOK, Calls, Wids
<1>5. /\ users' \in [Wids -> SUBSET (Nat \X BOOLEAN)]
      /\ \A r \in Wids : users[r] \subseteq users'[r] /\ IsFiniteSet(Priorities(r)')
      /\ \A r \in Wids \ {s} : users'[r] = users[r]
      /\ \E v \in users'[s] : v[1] = Prio[t]
  BY <1>2, UseFacts
<1>6. TypeOK'
  <2>1. TableOK'
    BY <1>2, <1>5 DEF TypeOK, TableOK, table, semaphores
  <2>2. TasksOK'
    BY <1>1, <1>2, <1>4 DEF TypeOK, TasksOK, Occupy, Points, Running
  <2>3. QED
    BY <2>1, <2>2 DEF TypeOK
<1>7. QueuesExact'
  <2> SUFFICES ASSUME NEW r \in Wids PROVE QueueAt(r)'
    BY DEF QueuesExact
  <2>1. QueueAt(r) /\ queue'[r] = queue[r] /\ live'[r] = live[r] /\ count'[r] = count[r]
    BY DEF semaphores, IndInv, QueuesExact
  <2>2. \A i \in 1..Len(queue[r]) : queue[r][i] \in Tasks
    BY <1>2, ElementOfSeq DEF TypeOK, TableOK
  <2>3. ASSUME NEW i \in 1..Len(queue[r])
        PROVE  pc'[queue[r][i]] = "suspended" /\ Wid(queue[r][i])' = r
    BY <1>1, <1>3, <1>4, <2>1, <2>2 DEF QueueAt, Wid
  <2>4. QED
    BY <2>1, <2>3 DEF QueueAt, Wid
<1>8. TasksExact'
  <2>1. ASSUME NEW u \in Tasks \ {t} PROVE TaskAt(u)'
    BY <1>1, <1>3, <1>4, <1>5, OthersTask DEF IndInv, Wid, Op
  <2>2. TaskAt(t)'
    BY <1>3, <1>4, <1>5 DEF TaskAt, Wid, Op
  <2>3. QED
    BY <2>1, <2>2 DEF TasksExact
<1>9. SlotsExact'
  <2>1. ASSUME NEW r \in Wids \ {s} PROVE (OneLevel(r) => SlotAt(r))'
    <3>1. SlotSame(r) /\ (OneLevel(r) => SlotAt(r))
      BY <1>5 DEF SlotSame, table, semaphores, IndInv, SlotsExact
    <3>2. ASSUME NEW u \in Tasks
          PROVE  /\ pc[u] # "idle" /\ Wid(u) = r =>
                      pc'[u] = pc[u] /\ call'[u] = call[u] /\ reg'[u] = reg[u]
                 /\ pc'[u] # "idle" /\ Wid(u)' = r => pc[u] # "idle" /\ Wid(u) = r
      BY <1>1, <1>3, <1>4 DEF Wid
    <3>3. QED
      BY <3>1, <3>2, SlotStays
  <2>2. ASSUME OneLevel(s)' PROVE SlotAt(s)'
    <3>1. OneLevel(s) /\ SlotAt(s)
      BY <1>5, <2>2 DEF OneLevel, IndInv, SlotsExact
    <3>2. ASSUME NEW u \in Tasks \ {t}, Wid(u) = s PROVE pc[u] \notin Running
      <4>1. SUFFICES ASSUME pc[u] \in Running PROVE FALSE
        OBVIOUS
      <4>2. \E v \in users'[s] : v[1] = Prio[u]
        BY <1>5, <3>2, <4>1 DEF IndInv, TasksExact, TaskAt, Running, MidCall
      <4>3. Prio[u] = Prio[t]
        BY <1>5, <2>2, <4>2 DEF OneLevel
      <4>4. QED
        BY <1>1, <4>1, <4>3, OthersWait DEF IndInv
    <3>3. RestAt(s)
      BY <1>1, <3>1, <3>2 DEF SlotAt, InUse, Running, MidCall
    <3>4. LeftAt(s)'
      BY <1>1, <1>3, <1>4, <3>1, LeftStays DEF SlotAt, Wid, semaphores, Running, MidCall
    <3>5. QED
      BY <1>3, <1>4, <3>1, <3>2, <3>3, <3>4, OwnSlot DEF Wid
  <2>3. QED
    BY <2>1, <2>2 DEF SlotsExact
<1>10. QED
  BY <1>6, <1>7, <1>8, <1>9 DEF IndInv

LEMMA FindSlotPreserves ==
  ASSUME NucleusAssumption, IndInv, NEW t \in Tasks, FindSlot(t)
  PROVE  IndInv'
<1>1. PICK s \in Wids : /\ ~used[s] /\ Use(t, "create", s)
                        /\ call' = [call EXCEPT ![t] = [op |-> "create", wid |-> s, left |-> 0]]
  BY DEF FindSlot
<1>2. Jump(t, "idle", "found") /\ UNCHANGED <<table, semaphores, owed, clean, reg>>
  BY DEF FindSlot
<1>3. ASSUME RestAt(s), pc'[t] = "found" PROVE StepAt(t, s)'
  BY <1>1, <1>2, <1>3 DEF RestAt, StepAt, PointAt, Inside, WakePoints, table, semaphores
<1>4. QED
  BY <1>1, <1>2, <1>3, EnterPreserves DEF Running, MidCall, WakeKinds, WakePoints

\* The calls that test used first.
LEMMA CallPreserves ==
  ASSUME NucleusAssumption, IndInv, NEW t \in Tasks, CallDestroy(t) \/ CallWait(t) \/ CallWake(t)
  PROVE  IndInv'
<1>1. PICK s \in Wids, o \in {"destroy", "wait"} \cup WakeKinds,
           point \in {"delete", "wait", "wake"} :
        /\ Call(t, o, s, point)
        /\ o \in WakeKinds <=> point = "wake"
  <2>1. WakeOps[t] \subseteq WakeKinds
    BY WaitConditionAssumption DEF WakeKinds
  <2>2. QED
    BY <2>1 DEF CallDestroy, CallWait, CallWake, WakeKinds
<1>2. /\ used[s] /\ Jump(t, "idle", point) /\ Use(t, o, s)
      /\ call' = [call EXCEPT ![t] = [op |-> o, wid |-> s, left |-> 0]]
      /\ UNCHANGED <<table, semaphores, owed, clean, reg>>
  BY <1>1 DEF Call
<1>3. ASSUME RestAt(s), pc'[t] = point PROVE StepAt(t, s)'
  <2>1. used'[s] /\ live'[s] /\ (clean'[s] => Balance(s, 0)')
    BY <1>2, <1>3 DEF RestAt, Balance, table, semaphores
  <2>2. QED
    BY <1>3, <2>1 DEF StepAt, PointAt
<1>4. QED
  BY <1>1, <1>2, <1>3, EnterPreserves DEF Running, MidCall, WakePoints

-----------------------------------------------------------------------------
\* The deletion of a semaphore dismisses whoever waits for it.
LEMMA DeleteSemaphorePreserves ==
  ASSUME NucleusAssumption, IndInv, NEW t \in Tasks, DeleteSemaphore(t)
  PROVE  IndInv'
<1>1. PICK s : s = Wid(t)
  OBVIOUS
<1>2. /\ pc[t] = "delete" /\ MayRun(t, ready, cpu) /\ cpu' = Occupy(t, cpu)
      /\ live' = [live EXCEPT ![s] = FALSE] /\ count' = [count EXCEPT ![s] = 0]
      /\ queue' = [queue EXCEPT ![s] = << >>]
      /\ pc' = [u \in Tasks |-> CASE u = t -> "vacate"
                                  [] pc[u] = "suspended" /\ Wid(u) = s -> "refused"
                                  [] OTHER -> pc[u]]
      /\ UNCHANGED <<table, history, call, reg>>
  BY <1>1 DEF DeleteSemaphore
<1>3. TypeOK
  BY DEF IndInv
<1>4. /\ s \in Wids
      /\ OneLevel(s) => StepAt(t, s) /\ \A u \in Tasks \ {t} : Wid(u) = s => pc[u] \notin Running
  BY <1>1, <1>2, Before DEF Running, MidCall
<1>5. /\ pc'[t] = "vacate" /\ Prio[t] \in Levels
      /\ \A u \in Tasks \ {t} :
           pc'[u] = IF pc[u] = "suspended" /\ Wid(u) = s THEN "refused" ELSE pc[u]
  BY <1>2 DEF Levels
<1>6. /\ ~live'[s] /\ count'[s] = 0 /\ queue'[s] = << >>
      /\ \A r \in Wids \ {s} : live'[r] = live[r] /\ count'[r] = count[r] /\ queue'[r] = queue[r]
  BY <1>2, <1>3, <1>4 DEF TypeOK, TableOK
<1>7. \A u \in Tasks : Wid(u)' = Wid(u) /\ Op(u)' = Op(u)
  BY <1>2 DEF Wid, Op
<1>8. TypeOK'
  <2>0. << >> \in Seq(Tasks)
    OBVIOUS
  <2>1. TableOK'
    <3>1. live' \in [Wids -> BOOLEAN] /\ count' \in [Wids -> Nat] /\ queue' \in [Wids -> Seq(Tasks)]
      BY <1>2, <1>3, <1>4, <2>0 DEF TypeOK, TableOK
    <3>2. QED
      BY <1>2, <1>3, <3>1 DEF TypeOK, TableOK, Priorities, table, history
  <2>2. pc' \in [Tasks -> Points]
    BY <1>2, <1>3 DEF TypeOK, TasksOK, Points, MidCall
  <2>3. QED
    BY <1>2, <1>3, <1>5, <2>1, <2>2 DEF TypeOK, TasksOK, Occupy
<1>9. QueuesExact'
  <2> SUFFICES ASSUME NEW r \in Wids PROVE QueueAt(r)'
    BY DEF QueuesExact
  <2>1. CASE r = s
    <3>1. Len(queue'[s]) = 0
      BY <1>6
    <3>2. QED
      BY <1>6, <2>1, <3>1 DEF QueueAt, Ordered, Distinct
  <2>2. CASE r # s
    <3>1. QueueAt(r) /\ \A i \in 1..Len(queue[r]) : queue[r][i] \in Tasks
      BY <1>3, ElementOfSeq DEF IndInv, QueuesExact, TypeOK, TableOK
    <3>2. ASSUME NEW i \in 1..Len(queue[r])
          PROVE  pc'[queue[r][i]] = "suspended" /\ Wid(queue[r][i])' = r
      BY <1>2, <1>5, <1>7, <2>2, <3>1 DEF QueueAt
    <3>3. QED
      BY <1>6, <2>2, <3>1, <3>2 DEF QueueAt, Wid
  <2>3. QED
    BY <2>1, <2>2
<1>10. TasksExact'
  <2>1. ASSUME NEW u \in Tasks \ {t} PROVE TaskAt(u)'
    BY <1>2, <1>3, <1>5, <1>7, OthersTask DEF IndInv, history
  <2>2. TaskAt(t)'
    <3>1. cpu'[Prio[t]] = t
      BY <1>2, <1>3, <1>5 DEF Occupy, TypeOK, TasksOK
    <3>2. TaskAt(t)
      BY DEF IndInv, TasksExact
    <3>3. QED
      BY <1>2, <1>5, <1>7, <3>1, <3>2 DEF TaskAt, WakePoints, history
  <2>3. QED
    BY <2>1, <2>2 DEF TasksExact
<1>11. SlotsExact'
  <2>1. ASSUME NEW r \in Wids \ {s} PROVE (OneLevel(r) => SlotAt(r))'
    <3>1. SlotSame(r) /\ (OneLevel(r) => SlotAt(r))
      BY <1>2, <1>6 DEF SlotSame, table, history, IndInv, SlotsExact
    <3>2. ASSUME NEW u \in Tasks
          PROVE  /\ pc[u] # "idle" /\ Wid(u) = r =>
                      pc'[u] = pc[u] /\ call'[u] = call[u] /\ reg'[u] = reg[u]
                 /\ pc'[u] # "idle" /\ Wid(u)' = r => pc[u] # "idle" /\ Wid(u) = r
      BY <1>1, <1>2, <1>5, <1>7
    <3>3. QED
      BY <3>1, <3>2, SlotStays
  <2>2. ASSUME OneLevel(s)' PROVE SlotAt(s)'
    <3>1. OneLevel(s)
      BY <1>2, <2>2 DEF OneLevel, history
    <3>2. \A u \in Tasks \ {t} : Wid(u)' = s => pc'[u] \notin Running
      BY <1>4, <1>5, <1>7, <3>1 DEF Running, MidCall
    <3>3. StepAt(t, s)'
      BY <1>2, <1>4, <1>5, <1>6, <3>1 DEF StepAt, PointAt, Inside, WakePoints, table
    <3>4. LeftAt(s)'
      BY <1>5, <1>6, <3>2 DEF LeftAt, Running, MidCall
    <3>5. QED
      BY <1>1, <1>4, <1>5, <1>7, <3>2, <3>3, <3>4, OwnSlot DEF Running, MidCall
  <2>3. QED
    BY <2>1, <2>2 DEF SlotsExact
<1>12. QED
  BY <1>8, <1>9, <1>10, <1>11 DEF IndInv

\* A waiter counted in takes its place in the queue.
LEMMA ObtainSuspendPreserves ==
  ASSUME NucleusAssumption, IndInv, NEW t \in Tasks, ObtainSuspend(t)
  PROVE  IndInv'
<1>1. PICK s : s = Wid(t)
  OBVIOUS
<1>2. /\ pc[t] = "obtain" /\ MayRun(t, ready, cpu) /\ cpu' = GiveUp(t, cpu)
      /\ pc' = [pc EXCEPT ![t] = "suspended"] /\ live[s]
      /\ queue' = [queue EXCEPT ![s] = Enqueue(@, t)]
      /\ UNCHANGED <<table, live, count, history, call, reg>>
  BY <1>1 DEF ObtainSuspend
<1>3. TypeOK
  BY DEF IndInv
<1>4. /\ s \in Wids /\ QueueAt(s)
      /\ OneLevel(s) => /\ StepAt(t, s) /\ LeftAt(s)
                        /\ \A u \in Tasks \ {t} : Wid(u) = s => pc[u] \notin Running
  BY <1>1, <1>2, Before DEF Running, MidCall
<1>5. pc'[t] = "suspended" /\ Prio[t] \in Levels /\ \A u \in Tasks \ {t} : pc'[u] = pc[u]
  BY <1>2, <1>3 DEF Levels, TypeOK, TasksOK
<1>6. \A i \in 1..Len(queue[s]) :
        queue[s][i] \in Tasks /\ queue[s][i] # t /\ pc[queue[s][i]] = "suspended"
        /\ Wid(queue[s][i]) = s
  BY <1>2, <1>3, <1>4, ElementOfSeq DEF QueueAt, TypeOK, TableOK
<1>7. /\ queue'[s] = Enqueue(queue[s], t) /\ queue[s] \in Seq(Tasks)
      /\ \A r \in Wids \ {s} : queue'[r] = queue[r]
  BY <1>2, <1>3, <1>4 DEF TypeOK, TableOK
<1>8. /\ queue'[s] \in Seq(Tasks) /\ Len(queue'[s]) = Len(queue[s]) + 1
      /\ Ordered(queue'[s]) /\ Distinct(queue'[s])
      /\ \A i \in 1..Len(queue'[s]) :
           queue'[s][i] = t \/ \E k \in 1..Len(queue[s]) : queue'[s][i] = queue[s][k]
  <2>1. PICK w \in Seq(Tasks) : w = queue[s]
    BY <1>7
  <2>2. Ordered(w) /\ Distinct(w) /\ \A i \in 1..Len(w) : w[i] # t
    BY <1>4, <1>6, <2>1 DEF QueueAt
  <2>3. /\ Enqueue(w, t) \in Seq(Tasks) /\ Len(Enqueue(w, t)) = Len(w) + 1
        /\ Ordered(Enqueue(w, t)) /\ Distinct(Enqueue(w, t))
        /\ \A i \in 1..Len(Enqueue(w, t)) :
             Enqueue(w, t)[i] = t \/ \E k \in 1..Len(w) : Enqueue(w, t)[i] = w[k]
    BY <2>2, EnqueueKeeps
  <2>4. queue'[s] = Enqueue(w, t)
    BY <1>7, <2>1
  <2>5. QED
    BY <2>1, <2>3, <2>4
<1>9. \A u \in Tasks : Wid(u)' = Wid(u) /\ Op(u)' = Op(u)
  BY <1>2 DEF Wid, Op
<1>10. TypeOK'
  <2>1. queue' \in [Wids -> Seq(Tasks)]
    BY <1>2, <1>3, <1>4, <1>7, <1>8 DEF TypeOK, TableOK
  <2>2. TableOK'
    BY <1>2, <1>3, <2>1 DEF TypeOK, TableOK, Priorities, table, history
  <2>3. TasksOK'
    BY <1>2, <1>3, <1>5 DEF TypeOK, TasksOK, GiveUp, Points
  <2>4. QED
    BY <2>2, <2>3 DEF TypeOK
<1>11. QueuesExact'
  <2> SUFFICES ASSUME NEW r \in Wids PROVE QueueAt(r)'
    BY DEF QueuesExact
  <2>1. CASE r = s
    <3>1. ASSUME NEW i \in 1..Len(queue'[s])
          PROVE  (pc[queue[s][i]] = "suspended" /\ Wid(queue[s][i]) = s)'
      <4>1. CASE queue'[s][i] = t
        BY <1>1, <1>2, <1>5, <4>1 DEF Wid
      <4>2. CASE queue'[s][i] # t
        <5>1. PICK k \in 1..Len(queue[s]) : queue'[s][i] = queue[s][k]
          BY <1>8, <4>2
        <5>2. QED
          BY <1>2, <1>5, <1>6, <5>1 DEF Wid
      <4>3. QED
        BY <4>1, <4>2
    <3>2. live'[s]
      BY <1>2
    <3>3. QED
      BY <1>8, <2>1, <3>1, <3>2 DEF QueueAt, Wid
  <2>2. CASE r # s
    <3>1. QueueAt(r) /\ \A i \in 1..Len(queue[r]) : queue[r][i] \in Tasks
      BY <1>3, ElementOfSeq DEF IndInv, QueuesExact, TypeOK, TableOK
    <3>2. ASSUME NEW i \in 1..Len(queue[r])
          PROVE  pc'[queue[r][i]] = "suspended" /\ Wid(queue[r][i])' = r
      BY <1>2, <1>5, <1>9, <2>2, <3>1 DEF QueueAt
    <3>3. QED
      BY <1>2, <1>7, <2>2, <3>1, <3>2 DEF QueueAt, Wid
  <2>3. QED
    BY <2>1, <2>2
<1>12. TasksExact'
  <2>1. ASSUME NEW u \in Tasks \ {t} PROVE TaskAt(u)'
    BY <1>2, <1>3, <1>5, <1>9, OthersTask DEF IndInv, history
  <2>2. TaskAt(t)'
    <3>1. TaskAt(t)
      BY DEF IndInv, TasksExact
    <3>2. QED
      BY <1>2, <1>5, <1>9, <3>1 DEF TaskAt, WakePoints, Running, MidCall, history
  <2>3. QED
    BY <2>1, <2>2 DEF TasksExact
<1>13. SlotsExact'
  <2>1. ASSUME NEW r \in Wids \ {s} PROVE (OneLevel(r) => SlotAt(r))'
    <3>1. SlotSame(r) /\ (OneLevel(r) => SlotAt(r))
      BY <1>2, <1>7 DEF SlotSame, table, history, IndInv, SlotsExact
    <3>2. ASSUME NEW u \in Tasks
          PROVE  /\ pc[u] # "idle" /\ Wid(u) = r =>
                      pc'[u] = pc[u] /\ call'[u] = call[u] /\ reg'[u] = reg[u]
                 /\ pc'[u] # "idle" /\ Wid(u)' = r => pc[u] # "idle" /\ Wid(u) = r
      BY <1>1, <1>2, <1>5, <1>9
    <3>3. QED
      BY <3>1, <3>2, SlotStays
  <2>2. ASSUME OneLevel(s)' PROVE SlotAt(s)'
    <3>1. OneLevel(s)
      BY <1>2, <2>2 DEF OneLevel, history
    <3>2. \A u \in Tasks \ {t} : Wid(u)' = s => pc'[u] \notin Running
      BY <1>4, <1>5, <1>9, <3>1
    <3>3. used[s] /\ live[s] /\ (clean[s] => owed[s] = 0 /\ Balance(s, 1))
      BY <1>2, <1>4, <3>1 DEF StepAt, PointAt, Inside
    <3>4. Len(queue[s]) \in Nat /\ waiters[s] \in Int
      BY <1>3, <1>4, <1>7, LenProperties DEF TypeOK, TableOK
    <3>5. RestAt(s)'
      BY <1>2, <1>8, <3>3, <3>4 DEF RestAt, Balance, table, history
    <3>6. LeftAt(s)'
      BY <1>2, <1>4, <1>5, <1>9, <3>1, LeftStays DEF history
    <3>7. QED
      BY <1>4, <1>5, <3>2, <3>5, <3>6, OwnSlot DEF Running, MidCall
  <2>3. QED
    BY <2>1, <2>2 DEF SlotsExact
<1>14. QED
  BY <1>10, <1>11, <1>12, <1>13 DEF IndInv

\* The first waiter returns from waitCondition; it is still counted.
LEMMA ReleaseWaiterPreserves ==
  ASSUME NucleusAssumption, IndInv, NEW t \in Tasks, ReleaseWaiter(t)
  PROVE  IndInv'
<1>1. PICK s : s = Wid(t)
  OBVIOUS
<1>2. TypeOK /\ pc[t] = "release" /\ MayRun(t, ready, cpu) /\ cpu' = Occupy(t, cpu)
  BY DEF ReleaseWaiter, IndInv
<1>3. /\ s \in Wids /\ QueueAt(s)
      /\ OneLevel(s) => /\ StepAt(t, s) /\ LeftAt(s)
                        /\ \A u \in Tasks \ {t} : Wid(u) = s => pc[u] \notin Running
  BY <1>1, <1>2, Before DEF Running, MidCall
<1>4. PICK w \in Seq(Tasks) : w = queue[s]
  BY <1>2, <1>3 DEF TypeOK, TableOK
<1>5. PICK h : h = Head(w)
  OBVIOUS
<1>6. /\ w # << >> /\ live[s] /\ queue' = [queue EXCEPT ![s] = Tail(w)]
      /\ pc' = [pc EXCEPT ![t] = "reload", ![h] = "idle"]
      /\ call' = [call EXCEPT ![h] = NoCall]
      /\ UNCHANGED <<table, live, count, history, reg>>
  BY <1>1, <1>4, <1>5 DEF ReleaseWaiter
<1>7. Ordered(w) /\ Distinct(w)
  BY <1>3, <1>4 DEF QueueAt
<1>8. /\ Tail(w) \in Seq(Tasks) /\ Len(Tail(w)) = Len(w) - 1 /\ Len(w) \in Nat /\ Len(w) > 0
      /\ h \in Tasks /\ h = w[1] /\ Ordered(Tail(w)) /\ Distinct(Tail(w))
      /\ \A i \in 1..Len(Tail(w)) :
           i + 1 \in 1..Len(w) /\ Tail(w)[i] = w[i + 1] /\ Tail(w)[i] # h
  BY <1>5, <1>6, <1>7, TailKeeps
<1>9. queue'[s] = Tail(w) /\ \A r \in Wids \ {s} : queue'[r] = queue[r]
  BY <1>2, <1>3, <1>6 DEF TypeOK, TableOK
<1>10. pc[h] = "suspended" /\ Wid(h) = s /\ h # t
  <2>1. 1 \in 1..Len(w)
    BY <1>8
  <2>2. QED
    BY <1>2, <1>3, <1>4, <1>8, <2>1 DEF QueueAt
<1>11. /\ pc'[t] = "reload" /\ pc'[h] = "idle" /\ Prio[t] \in Levels
       /\ \A u \in Tasks \ {t, h} : pc'[u] = pc[u]
       /\ \A u \in Tasks \ {h} : call'[u] = call[u]
  BY <1>2, <1>6, <1>8, <1>10 DEF Levels, TypeOK, TasksOK
<1>12. TypeOK'
  <2>1. queue' \in [Wids -> Seq(Tasks)]
    BY <1>2, <1>3, <1>6, <1>8 DEF TypeOK, TableOK
  <2>2. TableOK'
    BY <1>2, <1>6, <2>1 DEF TypeOK, TableOK, Priorities, table, history
  <2>3. NoCall \in Calls
    BY DEF NoCall, Calls
  <2>4. call' \in [Tasks -> Calls] /\ pc' \in [Tasks -> Points]
    BY <1>2, <1>6, <2>3 DEF TypeOK, TasksOK, Points, MidCall
  <2>5. TasksOK'
    BY <1>2, <1>6, <1>11, <2>4 DEF TypeOK, TasksOK, Occupy
  <2>6. QED
    BY <2>2, <2>5 DEF TypeOK
<1>13. QueuesExact'
  <2> SUFFICES ASSUME NEW r \in Wids PROVE QueueAt(r)'
    BY DEF QueuesExact
  <2>1. CASE r = s
    <3>1. ASSUME NEW i \in 1..Len(Tail(w))
          PROVE  pc'[Tail(w)[i]] = "suspended" /\ call'[Tail(w)[i]].wid = s
      <4>1. w[i + 1] \in Tasks /\ pc[w[i + 1]] = "suspended" /\ Wid(w[i + 1]) = s
        BY <1>3, <1>4, <1>8, ElementOfSeq DEF QueueAt
      <4>2. w[i + 1] \in Tasks \ {t, h} /\ Tail(w)[i] = w[i + 1]
        BY <1>2, <1>8, <4>1
      <4>3. QED
        BY <1>11, <4>1, <4>2 DEF Wid
    <3>2. live'[s]
      BY <1>6
    <3>3. QED
      BY <1>8, <1>9, <2>1, <3>1, <3>2 DEF QueueAt, Wid
  <2>2. CASE r # s
    <3>1. QueueAt(r) /\ \A i \in 1..Len(queue[r]) : queue[r][i] \in Tasks
      BY <1>2, ElementOfSeq DEF IndInv, QueuesExact, TypeOK, TableOK
    <3>2. ASSUME NEW i \in 1..Len(queue[r])
          PROVE  pc'[queue[r][i]] = "suspended" /\ call'[queue[r][i]].wid = r
      BY <1>2, <1>10, <1>11, <2>2, <3>1 DEF QueueAt, Wid
    <3>3. QED
      BY <1>6, <1>9, <2>2, <3>1, <3>2 DEF QueueAt, Wid
  <2>3. QED
    BY <2>1, <2>2
<1>14. TasksExact'
  <2>1. ASSUME NEW u \in Tasks \ {t} PROVE TaskAt(u)'
    BY <1>2, <1>6, <1>11, OthersTask DEF IndInv, history, Wid, Op
  <2>2. TaskAt(t)'
    <3>1. cpu'[Prio[t]] = t
      BY <1>2, <1>11 DEF Occupy, TypeOK, TasksOK
    <3>2. TaskAt(t) /\ call'[t] = call[t]
      BY <1>10, <1>11 DEF IndInv, TasksExact
    <3>3. QED
      BY <1>2, <1>6, <1>11, <3>1, <3>2 DEF TaskAt, WakePoints, history, Wid, Op
  <2>3. QED
    BY <2>1, <2>2 DEF TasksExact
<1>15. SlotsExact'
  <2>1. ASSUME NEW r \in Wids \ {s} PROVE (OneLevel(r) => SlotAt(r))'
    <3>1. SlotSame(r) /\ (OneLevel(r) => SlotAt(r))
      BY <1>6, <1>9 DEF SlotSame, table, history, IndInv, SlotsExact
    <3>2. ASSUME NEW u \in Tasks
          PROVE  /\ pc[u] # "idle" /\ Wid(u) = r =>
                      pc'[u] = pc[u] /\ call'[u] = call[u] /\ reg'[u] = reg[u]
                 /\ pc'[u] # "idle" /\ Wid(u)' = r => pc[u] # "idle" /\ Wid(u) = r
      BY <1>1, <1>6, <1>10, <1>11 DEF Wid
    <3>3. QED
      BY <3>1, <3>2, SlotStays
  <2>2. ASSUME OneLevel(s)' PROVE SlotAt(s)'
    <3>1. OneLevel(s)
      BY <1>6, <2>2 DEF OneLevel, history
    <3>2. \A u \in Tasks \ {t} : Wid(u)' = s => pc'[u] \notin Running
      BY <1>3, <1>11, <3>1 DEF Wid, Running, MidCall
    <3>3. /\ used[s] /\ live[s]
          /\ clean[s] => /\ Balance(s, 0)
                         /\ call[t].left = IF Op(t) = "one" THEN 1 ELSE Len(w)
      BY <1>2, <1>3, <1>4, <3>1 DEF StepAt, PointAt, Inside, WakePoints
    <3>4. waiters[s] \in Int /\ owed[s] \in Int
      BY <1>2, <1>3 DEF TypeOK, TableOK
    <3>5. ASSUME clean[s] PROVE owed'[s] = 0 /\ Balance(s, 1)'
      <4>1. owed[s] = 0 /\ count[s] = 0 /\ waiters[s] = Len(w)
        BY <1>4, <1>6, <1>8, <3>3, <3>4, <3>5 DEF Balance
      <4>2. owed'[s] = 0 /\ count'[s] = 0 /\ waiters'[s] = Len(w)
        BY <1>6, <4>1 DEF table, history
      <4>3. Len(queue'[s]) = Len(w) - 1
        BY <1>8, <1>9
      <4>4. QED
        <5>1. PICK n \in Nat : n = Len(w)
          BY <1>8
        <5>2. waiters'[s] = n /\ Len(queue'[s]) = n - 1 /\ owed'[s] = 0
          BY <4>2, <4>3, <5>1
        <5>3. waiters'[s] = Len(queue'[s]) - owed'[s] + 1
          BY <5>2
        <5>4. QED
          BY <4>2, <5>3 DEF Balance
    <3>6. clean[s] => call'[t].left = IF Op(t)' = "one" THEN 1 ELSE Len(queue'[s]) + 1
      BY <1>8, <1>9, <1>10, <1>11, <3>3 DEF Op
    <3>7. StepAt(t, s)'
      BY <1>6, <1>11, <3>3, <3>5, <3>6 DEF StepAt, PointAt, Inside, WakePoints, table, history
    <3>8. LeftAt(s)'
      BY <1>3, <1>6, <1>10, <1>11, <3>1, LeftStays DEF history, Wid
    <3>9. Wid(t)' = s
      BY <1>1, <1>10, <1>11 DEF Wid
    <3>10. QED
      BY <1>3, <1>11, <3>2, <3>7, <3>8, <3>9, OwnSlot DEF Running, MidCall
  <2>3. QED
    BY <2>1, <2>2 DEF SlotsExact
<1>16. QED
  BY <1>12, <1>13, <1>14, <1>15 DEF IndInv

-----------------------------------------------------------------------------
\* Steps that touch no condition
LEMMA IdlePreserves ==
  ASSUME NucleusAssumption, IndInv,
         UNCHANGED <<table, semaphores, history, call, pc, reg>>,
         \/ cpu' = cpu
         \/ \E t \in Tasks : /\ MayRun(t, ready, cpu) /\ pc[t] = "idle"
                            /\ cpu' \in {Occupy(t, cpu), GiveUp(t, cpu)}
  PROVE  IndInv'
<1>1. TypeOK' /\ TasksExact'
  <2>1. CASE cpu' = cpu
    <3>1. TypeOK'
      BY <2>1 DEF IndInv, TypeOK, TableOK, TasksOK, Priorities, table, semaphores, history
    <3>2. TasksExact'
      BY <2>1 DEF IndInv, TasksExact, TaskAt, Wid, Op, history
    <3>3. QED
      BY <3>1, <3>2
  <2>2. ASSUME NEW t \in Tasks, MayRun(t, ready, cpu), pc[t] = "idle",
               cpu' \in {Occupy(t, cpu), GiveUp(t, cpu)}
        PROVE  TypeOK' /\ TasksExact'
    <3>1. cpu' = Occupy(t, cpu) \/ cpu' = GiveUp(t, cpu)
      BY <2>2
    <3>2. TypeOK'
      BY <3>1
         DEF IndInv, TypeOK, TableOK, TasksOK, Priorities, Occupy, GiveUp, table, semaphores, history
    <3>3. ASSUME NEW u \in Tasks \ {t} PROVE TaskAt(u)'
      BY <2>2, <3>1, OthersTask DEF IndInv, history, Wid, Op
    <3>4. TaskAt(t)'
      BY <2>2 DEF TaskAt, Running, MidCall
    <3>5. QED
      BY <3>2, <3>3, <3>4 DEF TasksExact
  <2>3. QED
    BY <2>1, <2>2
<1>2. QueuesExact'
  BY DEF IndInv, QueuesExact, QueueAt, Wid, semaphores
<1>3. SlotsExact'
  <2>1. ASSUME NEW r \in Wids PROVE (OneLevel(r) => SlotAt(r))'
    <3>1. SlotSame(r) /\ (OneLevel(r) => SlotAt(r))
      BY DEF SlotSame, table, semaphores, history, IndInv, SlotsExact
    <3>2. QED
      BY <3>1, SlotStays DEF Wid
  <2>2. QED
    BY <2>1 DEF SlotsExact
<1>4. QED
  BY <1>1, <1>2, <1>3 DEF IndInv

LEMMA InitEstablishes == ASSUME NucleusAssumption, Init PROVE IndInv
<1>1. TypeOK
  <2>1. << >> \in Seq(Tasks) /\ NoCall \in Calls
    BY DEF NoCall, Calls
  <2>2. \A s \in Wids : Priorities(s) = {}
    BY DEF Init, Priorities
  <2>3. \A s \in Wids : IsFiniteSet(Priorities(s))
    BY <2>2, FS_EmptySet
  <2>4. TableOK
    BY <2>1, <2>3 DEF Init, Start, TableOK
  <2>5. TasksOK
    BY <2>1 DEF Init, Start, TasksOK, Points, IdleCpu
  <2>6. QED
    BY <2>4, <2>5 DEF TypeOK
<1>2. QueuesExact
  <2>1. ASSUME NEW s \in Wids PROVE QueueAt(s)
    <3>1. queue[s] = << >> /\ Len(queue[s]) = 0 /\ count[s] = 0
      BY DEF Init, Start
    <3>2. QED
      BY <3>1 DEF QueueAt, Ordered, Distinct
  <2>2. QED
    BY <2>1 DEF QueuesExact
<1>3. TasksExact
  BY DEF Init, Start, TasksExact, TaskAt, Running, MidCall
<1>4. SlotsExact
  BY DEF Init, Start, SlotsExact, SlotAt, InUse, RestAt, LeftAt, Running, MidCall
<1>5. QED
  BY <1>1, <1>2, <1>3, <1>4 DEF IndInv

LEMMA ContinuePreserves ==
  ASSUME NucleusAssumption, IndInv, NEW t \in Tasks, Continue(t)
  PROVE  IndInv'
<1>1. CASE MakeFails(t)
  BY <1>1, VacatePreserves DEF MakeFails
<1>2. CASE VacateSlot(t)
  BY <1>2, VacatePreserves DEF VacateSlot
<1>3. CASE ClaimSlot(t)
  BY <1>3, ClaimSlotPreserves
<1>4. CASE MakeSemaphore(t)
  BY <1>4, MakeSemaphorePreserves
<1>5. CASE DeleteSemaphore(t)
  BY <1>5, DeleteSemaphorePreserves
<1>6. CASE WaitRead(t)
  BY <1>6, WaitReadPreserves
<1>7. CASE WaitConsume(t)
  BY <1>7, WaitConsumePreserves
<1>8. CASE WaitCount(t)
  BY <1>8, WaitCountPreserves
<1>9. CASE ObtainInvalid(t)
  BY <1>9, ObtainInvalidPreserves
<1>10. CASE ObtainFree(t)
  BY <1>10, ObtainFreePreserves
<1>11. CASE ObtainSuspend(t)
  BY <1>11, ObtainSuspendPreserves
<1>12. CASE RefusedLoad(t)
  BY <1>12, RefusedLoadPreserves
<1>13. CASE RefusedStore(t)
  BY <1>13, RefusedStorePreserves
<1>14. CASE WakeNobody(t)
  BY <1>14, WakeNobodyPreserves
<1>15. CASE WakeSome(t)
  BY <1>15, WakeSomePreserves
<1>16. CASE PostWake(t)
  BY <1>16, PostWakePreserves
<1>17. CASE ClearWakes(t)
  BY <1>17, ClearWakesPreserves
<1>18. CASE ReleaseWaiter(t)
  BY <1>18, ReleaseWaiterPreserves
<1>19. CASE ReleaseFree(t)
  BY <1>19, ReleaseFreePreserves
<1>20. CASE ReleaseInvalid(t)
  BY <1>20, ReleaseInvalidPreserves
<1>21. CASE ReleaseReload(t)
  BY <1>21, ReleaseReloadPreserves
<1>22. CASE ReleaseSettle(t)
  BY <1>22, ReleaseSettlePreserves
<1>23. QED
  BY <1>1, <1>2, <1>3, <1>4, <1>5, <1>6, <1>7, <1>8, <1>9, <1>10, <1>11, <1>12, <1>13, <1>14,
     <1>15, <1>16, <1>17, <1>18, <1>19, <1>20, <1>21, <1>22
     DEF Continue

LEMMA NextPreserves == ASSUME NucleusAssumption, IndInv, [Next]_vars PROVE IndInv'
<1>1. ASSUME NEW t \in Tasks, Sleep(t) \/ WakeUp(t) PROVE IndInv'
  BY <1>1, IdlePreserves DEF Sleep, WakeUp
<1>2. CASE UNCHANGED vars
  BY <1>2, IdlePreserves DEF vars, table, semaphores, history
<1>3. QED
  BY <1>1, <1>2, ContinuePreserves, FindSlotPreserves, CallPreserves DEF Next

-----------------------------------------------------------------------------
\* The inductive invariant holds in every reachable state.
THEOREM Invariance == Spec => []IndInv
<1>1. Init => IndInv
  BY NucleusAssumption, InitEstablishes
<1>2. IndInv /\ [Next]_vars => IndInv'
  BY NucleusAssumption, NextPreserves
<1>3. QED
  BY <1>1, <1>2, PTL DEF Spec

\* Between calls the slot is at rest.
LEMMA QuietAtRest ==
  ASSUME IndInv, NEW s \in Wids, Uniform(s), Quiet(s)
  PROVE  RestAt(s)
<1>1. OneLevel(s)
  BY UniformMeans DEF IndInv, TypeOK, TableOK
<1>2. ~InUse(s)
  BY DEF Quiet, InUse, Running
<1>3. QED
  BY <1>1, <1>2 DEF IndInv, SlotsExact, SlotAt

\* CounterExact (waitCondition, wakeOneWaitCond, wakeAllWaitConds): between
\* calls the counter tells the waiting tasks and the stored wakes, never both.
THEOREM CounterExactHolds == Spec => []CounterExact
<1>1. ASSUME IndInv PROVE CounterExact
  <2> SUFFICES ASSUME NEW s \in Wids, used[s], clean[s], Uniform(s), Quiet(s)
               PROVE  /\ waiters[s] = Len(queue[s]) - owed[s]
                      /\ queue[s] # << >> => owed[s] = 0
    BY DEF CounterExact
  <2>1. Balance(s, 0)
    BY <1>1, QuietAtRest DEF RestAt
  <2>2. waiters[s] \in Int /\ owed[s] \in Int /\ Len(queue[s]) \in Nat
    BY <1>1, LenProperties DEF IndInv, TypeOK, TableOK
  <2>3. QED
    BY <2>1, <2>2 DEF Balance
<1>2. QED
  BY <1>1, Invariance, PTL

\* FreeSlotsUsable (getBestWcID, destroyWaitCond): a slot that is free between
\* calls has no semaphore, so that the next createWaitCond can have it.
THEOREM FreeSlotsUsableHolds == Spec => []FreeSlotsUsable
<1>1. ASSUME IndInv PROVE FreeSlotsUsable
  BY <1>1, QuietAtRest DEF FreeSlotsUsable, RestAt
<1>2. QED
  BY <1>1, Invariance, PTL

-----------------------------------------------------------------------------
\* Whoever is first in a queue is suspended.
LEMMA ReleasesOther ==
  ASSUME NucleusAssumption, IndInv, NEW u \in Tasks, ReleaseWaiter(u)
  PROVE  pc[Head(queue[Wid(u)])] = "suspended"
<1>1. PICK s : s = Wid(u)
  OBVIOUS
<1>2. MayRun(u, ready, cpu) /\ pc[u] = "release" /\ queue[s] # << >>
  BY <1>1 DEF ReleaseWaiter
<1>3. s \in Wids /\ QueueAt(s)
  BY <1>1, <1>2, Before
<1>4. 1 \in 1..Len(queue[s]) /\ Head(queue[s]) = queue[s][1]
  BY <1>2, <1>3, LenProperties, EmptySeq DEF IndInv, TypeOK, TableOK
<1>5. QED
  BY <1>1, <1>3, <1>4 DEF QueueAt

\* Another task's step ends the call of no wake.
LEMMA OthersWake ==
  ASSUME NucleusAssumption, IndInv, Next, NEW t \in Tasks, pc[t] \in WakePoints, pc'[t] = "idle"
  PROVE  Continue(t)
<1>1. pc \in [Tasks -> Points] /\ pc[t] # "suspended" /\ pc[t] # "idle"
  BY DEF IndInv, TypeOK, TasksOK, WakePoints
<1>2. PICK u \in Tasks : \/ FindSlot(u) \/ CallDestroy(u) \/ CallWait(u) \/ CallWake(u)
                         \/ Continue(u)
                         \/ Sleep(u) \/ WakeUp(u)
  BY DEF Next
<1>3. ASSUME NEW from, NEW to, Jump(u, from, to) PROVE u = t /\ from # "idle"
  BY <1>1, <1>3 DEF Jump
<1>4. CASE FindSlot(u) \/ CallDestroy(u) \/ CallWait(u) \/ CallWake(u)
  BY <1>3, <1>4 DEF FindSlot, CallDestroy, CallWait, CallWake, Call
<1>5. CASE Sleep(u) \/ WakeUp(u)
  BY <1>1, <1>5 DEF Sleep, WakeUp
<1>6. ASSUME DeleteSemaphore(u) PROVE FALSE
  BY <1>1, <1>6 DEF DeleteSemaphore
<1>7. ASSUME ObtainSuspend(u) PROVE FALSE
  BY <1>1, <1>7 DEF ObtainSuspend
<1>8. ASSUME ReleaseWaiter(u), u # t PROVE FALSE
  BY <1>1, <1>8, ReleasesOther DEF ReleaseWaiter
<1>9. CASE Continue(u)
  <2>1. \/ DeleteSemaphore(u) \/ ObtainSuspend(u) \/ ReleaseWaiter(u)
        \/ \E from, to : Jump(u, from, to)
    BY <1>9 DEF Continue, ClaimSlot, MakeSemaphore, MakeFails, VacateSlot, WaitRead, WaitConsume,
       WaitCount, ObtainInvalid, ObtainFree, RefusedLoad, RefusedStore, WakeNobody, WakeSome,
       PostWake, ClearWakes, ReleaseFree, ReleaseInvalid, ReleaseReload, ReleaseSettle, Released,
       Goto
  <2>2. u = t
    BY <1>3, <1>6, <1>7, <1>8, <2>1
  <2>3. QED
    BY <1>9, <2>2
<1>10. QED
  BY <1>2, <1>4, <1>5, <1>9

\* Where the call of a wake ends: at a store, or after a release.
LEMMA WakeEnds ==
  ASSUME NucleusAssumption, IndInv, NEW t \in Tasks, Continue(t),
         pc[t] \in WakePoints, pc'[t] = "idle"
  PROVE  PostWake(t) \/ ClearWakes(t) \/ ReleaseInvalid(t) \/ ReleaseSettle(t)
<1>1. ASSUME NEW from, NEW to, Goto(t, from, to) PROVE from \in WakePoints /\ to = "idle"
  BY <1>1 DEF Goto, Jump, IndInv, TypeOK, TasksOK
<1>2. ~WakeSome(t)
  BY DEF WakeSome, Jump, IndInv, TypeOK, TasksOK
<1>3. ~DeleteSemaphore(t) /\ ~ObtainSuspend(t)
  BY DEF DeleteSemaphore, ObtainSuspend, WakePoints
<1>4. ~ReleaseWaiter(t)
  BY ReleasesOther DEF ReleaseWaiter, IndInv, TypeOK, TasksOK
<1>5. ~WakeNobody(t) /\ ~ReleaseFree(t) /\ ~ReleaseReload(t)
  BY <1>1 DEF WakeNobody, ReleaseFree, ReleaseReload
<1>6. QED
  BY <1>1, <1>2, <1>3, <1>4, <1>5 DEF Continue, ClaimSlot, MakeSemaphore, MakeFails, VacateSlot,
     WaitRead, WaitConsume, WaitCount, ObtainInvalid, ObtainFree, RefusedLoad, RefusedStore,
     WakePoints

\* WakeAllReachesAll (wakeAllWaitConds, resetWaitConditions): when the call is
\* done, nobody is waiting.
THEOREM WakeAllReachesAllHolds == Spec => WakeAllReachesAll
<1>1. ASSUME IndInv, Next, NEW t \in Tasks,
             Op(t) \in {"all", "reset"}, pc[t] # "idle", pc'[t] = "idle",
             clean[Wid(t)], Uniform(Wid(t))
      PROVE  queue'[Wid(t)] = << >>
  <2>1. TypeOK /\ TaskAt(t) /\ Op(t) # "one"
    BY <1>1 DEF IndInv, TasksExact
  <2>2. pc[t] \in WakePoints /\ pc[t] # "post" /\ pc[t] \in Running
    BY <1>1, <2>1 DEF TaskAt, WakeKinds, WakePoints, Running, MidCall
  <2>3. PICK s \in Wids : s = Wid(t)
    BY <1>1, <2>1 DEF TaskAt
  <2>4. StepAt(t, s)
    <3>1. OneLevel(s)
      BY <1>1, <2>1, <2>3, UniformMeans DEF TypeOK, TableOK
    <3>2. QED
      BY <1>1, <2>2, <2>3, <3>1 DEF IndInv, SlotsExact, SlotAt
  <2>5. live[s] /\ PointAt(t, s)
    BY <1>1, <2>2, <2>3, <2>4 DEF StepAt, Inside
  <2>6. PostWake(t) \/ ClearWakes(t) \/ ReleaseInvalid(t) \/ ReleaseSettle(t)
    BY <1>1, <2>2, OthersWake, WakeEnds, NucleusAssumption
  <2>7. ~PostWake(t) /\ ~ReleaseInvalid(t)
    BY <2>2, <2>3, <2>5 DEF PostWake, ReleaseInvalid, Goto, Jump
  <2>8. CASE ClearWakes(t)
    BY <2>3, <2>5, <2>8 DEF ClearWakes, Goto, Jump, PointAt, semaphores
  <2>9. CASE ReleaseSettle(t)
    <3>1. pc[t] = "settle" /\ call[t].left <= 1
      <4>1. PICK to \in {"release", "clear", "idle"} :
              pc[t] = "settle" /\ pc'[t] = to /\ (to # "release" => call[t].left <= 1)
        BY <2>1, <2>9, ReleasedFacts DEF ReleaseSettle, Points, MidCall
      <4>2. QED
        BY <1>1, <4>1
    <3>2. call[t].left = Len(queue[s]) + 1
      BY <2>1, <2>5, <3>1 DEF PointAt
    <3>3. queue[s] = << >>
      BY <2>1, <2>3, <3>1, <3>2, LenProperties, EmptySeq DEF TypeOK, TableOK
    <3>4. QED
      BY <2>3, <2>9, <3>3 DEF ReleaseSettle, semaphores
  <2>10. QED
    BY <2>6, <2>7, <2>8, <2>9
<1>2. IndInv /\ [Next]_vars =>
        [\A t \in Tasks :
           Op(t) \in {"all", "reset"} /\ pc[t] # "idle" /\ pc'[t] = "idle" =>
             (clean[Wid(t)] /\ Uniform(Wid(t)) => queue'[Wid(t)] = << >>)]_vars
  BY <1>1
<1>3. QED
  BY <1>2, Invariance, PTL DEF Spec, WakeAllReachesAll

-----------------------------------------------------------------------------
(***************************************************************************)
(* NoInventedWake speaks of slots that tasks of several priorities use.    *)
(* It holds where the waiters have one priority and whoever creates,       *)
(* destroys or wakes is at least as urgent; who is more urgent wakes one   *)
(* at a time.                                                              *)
(***************************************************************************)
WakersFirst ==
  \A w \in Waiters :
    /\ \A v \in Waiters : Prio[v] = Prio[w]
    /\ \A t \in Owners : Prio[t] <= Prio[w]
    /\ \A t \in Tasks : WakeOps[t] # {} => Prio[t] <= Prio[w]
    /\ \A t \in Tasks : Prio[t] < Prio[w] => WakeOps[t] \subseteq {"one"}

OwnPoints == {"found", "make", "delete", "vacate"}
WaitPoints == {"wait", "consume", "count", "obtain", "suspended", "refused", "give_up"}

\* Who is in which call, and that a task in the middle of one is ready.
RoleAt(t) ==
  /\ pc[t] \in Running => t \in ready
  /\ pc[t] \in OwnPoints => t \in Owners
  /\ pc[t] \in WaitPoints => t \in Waiters
  /\ pc[t] \in WakePoints => Op(t) \in WakeOps[t] /\ <<Prio[t], TRUE>> \in users[Wid(t)]
  /\ pc[t] = "clear" => Op(t) # "one"
RolesExact == \A t \in Tasks : RoleAt(t)

\* OneWaker without numbers
WakersAlike(s) == \A u, v \in users[s] : u[2] /\ v[2] => u[1] = v[1]

\* The wakes that are owed pay for those that are stored in the counter, but
\* for off of them, and for those in the semaphore.
Pays(s, off) ==
  count[s] <= owed[s] /\ -waiters[s] - off <= owed[s] - count[s]

\* Somebody is about to consume a stored wake.
Taking(s) == \E t \in Tasks : pc[t] = "consume" /\ Wid(t) = s

\* What a load tells a task, as long as it counts.
Knows(t, s) ==
  /\ pc[t] = "consume" => waiters[s] <= reg[t] /\ reg[t] < 0
  /\ pc[t] = "count" => reg[t] >= 0
  /\ pc[t] = "post" => reg[t] = waiters[s] /\ waiters[s] < 1
  /\ pc[t] \in {"release", "reload", "settle"} => call[t].left <= waiters[s] /\ waiters[s] > 0
  /\ pc[t] = "settle" => reg[t] = waiters[s]
  /\ pc[t] # "give_up"

At(s, points) == \E t \in Tasks : Wid(t) = s /\ pc[t] \in points
PaidAt(s) ==
  /\ IF Taking(s) THEN Pays(s, 1) ELSE Pays(s, 0)
  /\ \A t \in Tasks : Wid(t) = s => Knows(t, s)
  /\ ~live[s] => At(s, {"make", "vacate"})
  /\ At(s, {"refused"}) => At(s, {"vacate"})
Sound(s) == used[s] /\ clean[s] /\ WakersAlike(s)
WakesPaid == \A s \in Wids : Sound(s) => PaidAt(s)

Given == NucleusAssumption /\ WaitConditionAssumption /\ WakersFirst
PaidInv == IndInv /\ RolesExact /\ WakesPaid

-----------------------------------------------------------------------------
\* A waiter that runs is alone: who creates, destroys or wakes goes first.
LEMMA WaiterAlone ==
  ASSUME Given, IndInv, RolesExact, NEW t \in Waiters, MayRun(t, ready, cpu),
         NEW u \in Tasks \ {t}
  PROVE  pc[u] \notin Running
<1> SUFFICES ASSUME pc[u] \in Running PROVE FALSE
  OBVIOUS
<1>1. t \in Tasks /\ Prio[t] \in Nat /\ Prio[u] \in Nat
  BY DEF Given, WaitConditionAssumption, NucleusAssumption
<1>2. u \in ready /\ RoleAt(u)
  BY DEF RolesExact, RoleAt, Running
<1>3. Prio[t] <= Prio[u]
  BY <1>2 DEF MayRun
<1>4. pc[u] \in OwnPoints \cup WaitPoints \cup WakePoints
  BY DEF Running, MidCall, OwnPoints, WaitPoints, WakePoints
<1>5. u \in Owners \/ u \in Waiters \/ WakeOps[u] # {}
  BY <1>2, <1>4 DEF RoleAt
<1>6. Prio[u] <= Prio[t]
  BY <1>1, <1>5 DEF Given, WakersFirst
<1>7. Prio[u] = Prio[t]
  BY <1>1, <1>3, <1>6
<1>8. QED
  BY <1>1, <1>7, OthersWait DEF Given, IndInv

\* A waker that runs is the only one at its slot, if wakers of one priority
\* alone use it, and one that wakes more than one meets no waiter.
LEMMA WakerAlone ==
  ASSUME Given, IndInv, RolesExact, NEW t \in Tasks, MayRun(t, ready, cpu),
         pc[t] \in WakePoints, WakersAlike(Wid(t)), NEW u \in Tasks \ {t}, Wid(u) = Wid(t)
  PROVE  /\ pc[u] \notin WakePoints
         /\ Op(t) # "one" /\ u \in Waiters => pc[u] \notin Running
<1>1. Prio[t] \in Nat /\ Prio[u] \in Nat
  BY DEF Given, NucleusAssumption
<1>2. Op(t) \in WakeOps[t] /\ <<Prio[t], TRUE>> \in users[Wid(t)]
  BY DEF RolesExact, RoleAt
<1>3. ASSUME pc[u] \in WakePoints PROVE FALSE
  <2>1. <<Prio[u], TRUE>> \in users[Wid(t)]
    BY <1>3 DEF RolesExact, RoleAt
  <2>2. Prio[u] = Prio[t]
    BY <1>2, <2>1 DEF WakersAlike
  <2>3. pc[u] \in Running
    BY <1>3 DEF Running, MidCall, WakePoints
  <2>4. QED
    BY <2>2, <2>3, OthersWait DEF Given, IndInv
<1>4. ASSUME Op(t) # "one", u \in Waiters PROVE pc[u] \notin Running
  <2>1. Prio[t] <= Prio[u] /\ ~(Prio[t] < Prio[u])
    BY <1>2, <1>4 DEF Given, WakersFirst
  <2>2. Prio[t] = Prio[u]
    BY <1>1, <2>1
  <2>3. QED
    BY <2>2, OthersWait DEF Given, IndInv
<1>5. QED
  BY <1>3, <1>4

-----------------------------------------------------------------------------
\* A step of task t at slot s: waiters of s may be resumed or dismissed; other
\* tasks stay where they are, and other slots as they are.
Kept(u) == pc'[u] = pc[u] /\ call'[u] = call[u] /\ reg'[u] = reg[u]
Freed(u, s) ==
  /\ pc[u] = "suspended" /\ Wid(u) = s
  /\ pc'[u] = "idle" \/ (pc'[u] = "refused" /\ Wid(u)' = s)
Acts(t, s) ==
  /\ MayRun(t, ready, cpu)
  /\ \A u \in Tasks \ {t} : (Kept(u) \/ Freed(u, s)) /\ (u \in ready => u \in ready')
  /\ pc[t] = "idle" \/ Wid(t) = s
  /\ pc'[t] = "idle" \/ Wid(t)' = s
  /\ pc'[t] \in Running => t \in ready'
  /\ \A r \in Wids \ {s} : SlotSame(r)
  /\ users[s] \subseteq users'[s]

\* The role of the task that acts is all that can change,
LEMMA ActsKeepRoles ==
  ASSUME IndInv, RolesExact, NEW t \in Tasks, NEW s \in Wids, Acts(t, s), RoleAt(t)'
  PROVE  RolesExact'
<1> SUFFICES ASSUME NEW u \in Tasks \ {t} PROVE RoleAt(u)'
  BY DEF RolesExact
<1>1. RoleAt(u) /\ (u \in ready => u \in ready') /\ (Kept(u) \/ Freed(u, s))
  BY DEF RolesExact, Acts
<1>2. \A r \in Wids : users[r] \subseteq users'[r]
  BY DEF Acts, SlotSame
<1>3. CASE Kept(u)
  <2>1. pc[u] # "idle" => Wid(u) \in Wids
    BY DEF IndInv, TasksExact, TaskAt
  <2>2. QED
    BY <1>1, <1>2, <1>3, <2>1 DEF Kept, RoleAt, Op, Wid, WakePoints
<1>4. CASE Freed(u, s)
  BY <1>1, <1>4 DEF Freed, RoleAt, Running, MidCall, WakePoints, OwnPoints, WaitPoints
<1>5. QED
  BY <1>1, <1>3, <1>4

\* and another slot is as well paid for as before.
LEMMA ActsElsewhere ==
  ASSUME NEW t \in Tasks, NEW s \in Wids, Acts(t, s), NEW r \in Wids \ {s},
         Sound(r) => PaidAt(r)
  PROVE  (Sound(r) => PaidAt(r))'
<1> SUFFICES ASSUME Sound(r)' PROVE PaidAt(r)'
  OBVIOUS
<1>1. SlotSame(r)
  BY DEF Acts
<1>2. PaidAt(r)
  BY <1>1 DEF SlotSame, Sound, WakersAlike
<1>3. ASSUME NEW u \in Tasks
      PROVE  /\ pc'[u] # "idle" /\ Wid(u)' = r => Kept(u) /\ Wid(u) = r
             /\ pc[u] # "idle" /\ Wid(u) = r => Kept(u) /\ Wid(u)' = r
  BY DEF Acts, Kept, Freed, Wid
<1>4. Taking(r)' <=> Taking(r)
  BY <1>3 DEF Taking, Kept
<1>5. \A points : "idle" \notin points => (At(r, points)' <=> At(r, points))
  BY <1>3 DEF At, Kept
<1>6. ASSUME NEW u \in Tasks, Wid(u)' = r PROVE Knows(u, r)'
  <2>1. CASE pc'[u] = "idle"
    BY <2>1 DEF Knows
  <2>2. CASE pc'[u] # "idle"
    <3>1. Kept(u) /\ Knows(u, r)
      BY <1>2, <1>3, <1>6, <2>2 DEF PaidAt
    <3>2. QED
      BY <1>1, <3>1 DEF Kept, Knows, SlotSame
  <2>3. QED
    BY <2>1, <2>2
<1>7. QED
  BY <1>1, <1>2, <1>4, <1>5, <1>6 DEF PaidAt, Pays, SlotSame

\* A step of one task on the processor is such a step.
LEMMA JumpActs ==
  ASSUME IndInv, NEW t \in Tasks, NEW s \in Wids, NEW from \in Points, NEW to \in Points,
         Jump(t, from, to), UNCHANGED ready,
         call' = call \/ \E c : call' = [call EXCEPT ![t] = c],
         reg' = reg \/ \E v : reg' = [reg EXCEPT ![t] = v],
         from = "idle" \/ Wid(t) = s, to = "idle" \/ Wid(t)' = s,
         \A r \in Wids \ {s} : SlotSame(r), users[s] \subseteq users'[s]
  PROVE  /\ Acts(t, s) /\ pc[t] = from /\ pc'[t] = to /\ t \in ready'
         /\ \A u \in Tasks \ {t} : Kept(u)
<1>1. /\ pc \in [Tasks -> Points] /\ call \in [Tasks -> Calls] /\ reg \in [Tasks -> Int]
  BY DEF IndInv, TypeOK, TasksOK
<1>2. pc[t] = from /\ pc' = [pc EXCEPT ![t] = to] /\ MayRun(t, ready, cpu)
  BY DEF Jump
<1>3. \A u \in Tasks \ {t} : Kept(u)
  BY <1>1, <1>2 DEF Kept
<1>4. pc'[t] = to /\ t \in ready'
  BY <1>1, <1>2 DEF MayRun
<1>5. QED
  BY <1>2, <1>3, <1>4 DEF Acts

\* What a waiter knows as it goes on, and what it has to keep.
LEMMA WaiterKnows ==
  ASSUME Given, PaidInv, NEW t \in Waiters, MayRun(t, ready, cpu), pc[t] \in WaitPoints,
         NEW s \in Wids, s = Wid(t), Sound(s)
  PROVE  /\ Knows(t, s) /\ live[s] /\ pc[t] \notin {"refused", "give_up"}
         /\ IF pc[t] = "consume" THEN Pays(s, 1) ELSE Pays(s, 0)
<1>1. PaidAt(s) /\ t \in Tasks
  BY DEF PaidInv, WakesPaid, Given, WaitConditionAssumption
<1>2. \A u \in Tasks \ {t} : pc[u] \notin Running
  BY WaiterAlone DEF PaidInv
<1>3. \A u \in Tasks : pc[u] \notin {"make", "vacate"}
  BY <1>2 DEF Running, MidCall, WaitPoints
<1>4. live[s] /\ pc[t] # "refused"
  BY <1>1, <1>3 DEF PaidAt, At
<1>5. Knows(t, s) /\ pc[t] # "give_up"
  BY <1>1 DEF PaidAt, Knows
<1>6. Taking(s) <=> pc[t] = "consume"
  BY <1>1, <1>2 DEF Taking, Running, MidCall
<1>7. QED
  BY <1>1, <1>4, <1>5, <1>6 DEF PaidAt

\* A step of a waiter keeps the accounts, if it leaves its slot paid for.
LEMMA WaiterStep ==
  ASSUME Given, PaidInv, NEW t \in Waiters, pc[t] \in WaitPoints,
         NEW s \in Wids, s = Wid(t), Acts(t, s), \A u \in Tasks \ {t} : Kept(u),
         used'[s] = used[s], clean'[s] = clean[s], live'[s] = live[s], users'[s] = users[s],
         RoleAt(t)', pc'[t] \notin {"refused", "make", "vacate"},
         Sound(s) => /\ Knows(t, s)'
                     /\ IF pc'[t] = "consume" THEN Pays(s, 1)' ELSE Pays(s, 0)'
  PROVE  RolesExact' /\ WakesPaid'
<1>1. t \in Tasks /\ MayRun(t, ready, cpu)
  BY DEF Given, WaitConditionAssumption, Acts
<1>2. RolesExact'
  BY <1>1, ActsKeepRoles DEF PaidInv
<1>3. ASSUME NEW r \in Wids \ {s} PROVE (Sound(r) => PaidAt(r))'
  BY <1>1, ActsElsewhere DEF PaidInv, WakesPaid
<1>4. ASSUME Sound(s)' PROVE PaidAt(s)'
  <2>1. Sound(s)
    BY <1>4 DEF Sound, WakersAlike
  <2>2. \A u \in Tasks \ {t} : pc[u] \notin Running
    BY <1>1, WaiterAlone DEF PaidInv
  <2>3. live[s] /\ pc[t] # "refused" /\ PaidAt(s)
    BY <1>1, <2>1, WaiterKnows DEF PaidInv, WakesPaid
  <2>4. \A u \in Tasks \ {t} : pc'[u] \notin Running
    BY <2>2 DEF Kept
  <2>5. Taking(s)' <=> pc'[t] = "consume"
    <3>1. pc'[t] = "consume" => Wid(t)' = s
      BY DEF Acts
    <3>2. QED
      BY <1>1, <2>4, <3>1 DEF Taking, Running, MidCall
  <2>6. ASSUME NEW u \in Tasks \ {t} PROVE Knows(u, s)'
    BY <2>4 DEF Knows, Running, MidCall
  <2>7. ~At(s, {"refused"})'
    <3>1. ~At(s, {"vacate"})
      BY <2>2 DEF At, Running, MidCall, WaitPoints
    <3>2. ~At(s, {"refused"})
      BY <2>3, <3>1 DEF PaidAt
    <3>3. QED
      BY <3>2 DEF At, Kept, Wid
  <2>8. QED
    BY <2>1, <2>3, <2>5, <2>6, <2>7 DEF PaidAt
<1>5. QED
  BY <1>2, <1>3, <1>4 DEF WakesPaid

\* The same of a waker.
LEMMA WakerKnows ==
  ASSUME Given, PaidInv, NEW t \in Tasks, MayRun(t, ready, cpu), pc[t] \in WakePoints,
         NEW s \in Wids, s = Wid(t), Sound(s)
  PROVE  /\ Knows(t, s)
         /\ IF Taking(s) THEN Pays(s, 1) /\ waiters[s] < 0 /\ Op(t) = "one" ELSE Pays(s, 0)
<1>1. PaidAt(s)
  BY DEF PaidInv, WakesPaid
<1>2. ASSUME NEW u \in Tasks, pc[u] = "consume", Wid(u) = s
      PROVE  waiters[s] < 0 /\ Op(t) = "one"
  <2>1. waiters[s] <= reg[u] /\ reg[u] < 0
    BY <1>1, <1>2 DEF PaidAt, Knows
  <2>2. waiters[s] \in Int /\ reg[u] \in Int
    BY DEF PaidInv, IndInv, TypeOK, TableOK, TasksOK
  <2>3. u \in Waiters /\ u # t /\ pc[u] \in Running
    BY <1>2 DEF PaidInv, RolesExact, RoleAt, WaitPoints, WakePoints, Running, MidCall
  <2>4. Op(t) = "one"
    BY <1>2, <2>3, WakerAlone DEF PaidInv, Sound
  <2>5. QED
    BY <2>1, <2>2, <2>4
<1>3. QED
  BY <1>1, <1>2 DEF PaidAt, Taking

\* A step of a waker keeps them, if a wake that is being taken stays paid for.
LEMMA WakerStep ==
  ASSUME Given, PaidInv, TypeOK', NEW t \in Tasks, pc[t] \in WakePoints,
         NEW s \in Wids, s = Wid(t), Acts(t, s),
         \A u \in Tasks \ {t} : pc'[u] # "refused" \/ pc[u] = "refused",
         used'[s] = used[s], clean'[s] = clean[s], live'[s] = live[s], users'[s] = users[s],
         RoleAt(t)', pc'[t] \in WakePoints \cup {"idle"},
         Sound(s) => /\ Knows(t, s)'
                     /\ IF Taking(s) THEN Pays(s, 1)' /\ waiters'[s] <= waiters[s]
                        ELSE Pays(s, 0)'
  PROVE  RolesExact' /\ WakesPaid'
<1>1. MayRun(t, ready, cpu)
  BY DEF Acts
<1>2. RolesExact'
  BY ActsKeepRoles DEF PaidInv
<1>3. ASSUME NEW r \in Wids \ {s} PROVE (Sound(r) => PaidAt(r))'
  BY ActsElsewhere DEF PaidInv, WakesPaid
<1>4. ASSUME Sound(s)' PROVE PaidAt(s)'
  <2>1. Sound(s)
    BY <1>4 DEF Sound, WakersAlike
  <2>2. PaidAt(s)
    BY <2>1 DEF PaidInv, WakesPaid
  <2>3. ASSUME NEW u \in Tasks \ {t}
        PROVE  /\ pc'[u] # "idle" /\ Wid(u)' = s => Kept(u) /\ Wid(u) = s
               /\ pc[u] \notin {"idle", "suspended"} /\ Wid(u) = s => Kept(u) /\ Wid(u)' = s
    BY DEF Acts, Kept, Freed, Wid
  <2>4. Taking(s)' <=> Taking(s)
    BY <2>3 DEF Taking, Kept, WakePoints
  <2>5. /\ At(s, {"make", "vacate"}) => At(s, {"make", "vacate"})'
        /\ At(s, {"vacate"}) => At(s, {"vacate"})'
        /\ At(s, {"refused"})' => At(s, {"refused"})
    BY <2>3 DEF At, Kept, WakePoints
  <2>6. ASSUME NEW u \in Tasks \ {t}, Wid(u)' = s PROVE Knows(u, s)'
    <3>1. CASE pc'[u] = "idle"
      BY <3>1 DEF Knows
    <3>2. CASE pc'[u] # "idle"
      <4>1. Kept(u) /\ Wid(u) = s /\ Knows(u, s)
        BY <2>2, <2>3, <2>6, <3>2 DEF PaidAt
      <4>2. pc[u] \notin WakePoints
        BY <1>1, <2>1, <4>1, WakerAlone DEF PaidInv, Sound
      <4>3. pc[u] = "consume" => waiters'[s] <= waiters[s]
        BY <2>1, <4>1 DEF Taking
      <4>4. waiters[s] \in Int /\ waiters'[s] \in Int /\ reg[u] \in Int
        BY DEF PaidInv, IndInv, TypeOK, TableOK, TasksOK
      <4>5. QED
        BY <4>1, <4>2, <4>3, <4>4 DEF Kept, Knows, WakePoints
    <3>3. QED
      BY <3>1, <3>2
  <2>7. QED
    BY <2>1, <2>2, <2>4, <2>5, <2>6 DEF PaidAt
<1>5. QED
  BY <1>2, <1>3, <1>4 DEF WakesPaid

-----------------------------------------------------------------------------
\* A step within a call on slot s that no other slot notices.
Inward(t, s, from, to) ==
  /\ Goto(t, from, to)
  /\ ready' = ready /\ users' = users /\ clean' = clean /\ used'[s] = used[s] /\ live'[s] = live[s]
  /\ \A r \in Wids \ {s} :
       /\ used'[r] = used[r] /\ waiters'[r] = waiters[r] /\ live'[r] = live[r]
       /\ count'[r] = count[r] /\ queue'[r] = queue[r] /\ owed'[r] = owed[r]

\* Such a step is one of task t at slot s.
LEMMA InwardActs ==
  ASSUME IndInv, NEW t \in Tasks, NEW s \in Wids, s = Wid(t), NEW from \in Points \ {"idle"},
         NEW to \in Points, Inward(t, s, from, to),
         reg' = reg \/ \E v : reg' = [reg EXCEPT ![t] = v]
  PROVE  /\ Acts(t, s) /\ MayRun(t, ready, cpu) /\ pc[t] = from /\ pc'[t] = to /\ t \in ready'
         /\ \A u \in Tasks \ {t} : Kept(u)
         /\ to # "idle" => call'[t] = call[t]
<1>1. Jump(t, from, to) /\ MayRun(t, ready, cpu)
  BY DEF Inward, Goto, Jump
<1>2. call' = call \/ \E c : call' = [call EXCEPT ![t] = c]
  BY DEF Inward, Goto
<1>3. to = "idle" \/ (Wid(t)' = s /\ call' = call)
  BY DEF Inward, Goto, Wid
<1>4. \A r \in Wids \ {s} : SlotSame(r)
  BY DEF Inward, SlotSame
<1>5. QED
  BY <1>1, <1>2, <1>3, <1>4, JumpActs DEF Inward

\* What the types and the role of a task in a call say of it.
LEMMA CallFacts ==
  ASSUME PaidInv, NEW t \in Tasks, pc[t] # "idle"
  PROVE  /\ Wid(t) \in Wids /\ TypeOK /\ RoleAt(t)
         /\ waiters[Wid(t)] \in Int /\ owed[Wid(t)] \in Int /\ count[Wid(t)] \in Nat
         /\ reg[t] \in Int /\ call[t].left \in Int
BY DEF PaidInv, IndInv, TasksExact, TaskAt, RolesExact, TypeOK, TableOK, TasksOK, Calls

\* The steps of waitCondition, each by its effect on the slot
LEMMA WaiterInward ==
  ASSUME Given, PaidInv, NEW t \in Tasks, NEW s, s = Wid(t), NEW from \in WaitPoints,
         NEW to \in {"consume", "count", "obtain", "idle"}, Inward(t, s, from, to),
         reg' = reg \/ \E v : reg' = [reg EXCEPT ![t] = v],
         Sound(s) /\ from \notin {"refused", "give_up"} /\ Knows(t, s)
           /\ (IF from = "consume" THEN Pays(s, 1) ELSE Pays(s, 0)) =>
           /\ to = "consume" => waiters'[s] <= reg'[t] /\ reg'[t] < 0 /\ Pays(s, 1)'
           /\ to = "count" => reg'[t] >= 0
           /\ to # "consume" => Pays(s, 0)'
  PROVE  RolesExact' /\ WakesPaid'
<1>1. MayRun(t, ready, cpu) /\ pc[t] = from
  BY DEF Inward, Goto, Jump
<1>2. s \in Wids /\ RoleAt(t) /\ from \in Points \ {"idle"} /\ to \in Points
  BY <1>1, CallFacts DEF WaitPoints, Points, MidCall
<1>3. t \in Waiters
  BY <1>1, <1>2 DEF RoleAt
<1>4. Acts(t, s) /\ pc'[t] = to /\ t \in ready' /\ \A u \in Tasks \ {t} : Kept(u)
  BY <1>2, InwardActs DEF PaidInv
<1>5. RoleAt(t)'
  BY <1>3, <1>4 DEF RoleAt, OwnPoints, WakePoints
<1>6. ASSUME Sound(s)
      PROVE  Knows(t, s)' /\ IF pc'[t] = "consume" THEN Pays(s, 1)' ELSE Pays(s, 0)'
  <2>1. Knows(t, s) /\ from \notin {"refused", "give_up"}
        /\ IF from = "consume" THEN Pays(s, 1) ELSE Pays(s, 0)
    BY <1>1, <1>2, <1>3, <1>6, WaiterKnows
  <2>2. QED
    BY <1>4, <1>6, <2>1 DEF Knows
<1>7. used'[s] = used[s] /\ clean'[s] = clean[s] /\ live'[s] = live[s] /\ users'[s] = users[s]
  BY DEF Inward
<1>8. QED
  BY <1>1, <1>2, <1>3, <1>4, <1>5, <1>6, <1>7, WaiterStep

\* waitCondition looks at the counter: what it takes is no longer owed.
LEMMA WaitReadPays ==
  ASSUME Given, PaidInv, NEW t \in Tasks, WaitRead(t) PROVE RolesExact' /\ WakesPaid'
<1>1. PICK s : s = Wid(t)
  OBVIOUS
<1>2. PICK to \in {"consume", "count"} : /\ to = IF waiters[s] < 0 THEN "consume" ELSE "count"
                                         /\ Goto(t, "wait", to)
  BY <1>1 DEF WaitRead
<1>3. /\ pc[t] = "wait" /\ reg' = [reg EXCEPT ![t] = waiters[s]]
      /\ UNCHANGED <<table, semaphores, clean, users, ready>>
      /\ owed' = IF waiters[s] < 0 THEN [owed EXCEPT ![s] = @ - 1] ELSE owed
  BY <1>1 DEF WaitRead, Goto, Jump, Load
<1>4. /\ s \in Wids /\ TypeOK
      /\ waiters[s] \in Int /\ owed[s] \in Int /\ count[s] \in Nat
  BY <1>1, <1>3, CallFacts
<1>5. Inward(t, s, "wait", to)
  BY <1>2, <1>3, <1>4 DEF Inward, table, semaphores, TypeOK, TableOK
<1>6. /\ reg'[t] = waiters[s] /\ waiters'[s] = waiters[s] /\ count'[s] = count[s]
      /\ owed'[s] = IF waiters[s] < 0 THEN owed[s] - 1 ELSE owed[s]
  BY <1>3, <1>4 DEF table, semaphores, TypeOK, TableOK, TasksOK
<1>7. ASSUME Pays(s, 0)
      PROVE  /\ to = "consume" => waiters'[s] <= reg'[t] /\ reg'[t] < 0 /\ Pays(s, 1)'
             /\ to = "count" => reg'[t] >= 0
             /\ to # "consume" => Pays(s, 0)'
  BY <1>2, <1>4, <1>6, <1>7 DEF Pays
<1>8. QED
  BY <1>1, <1>3, <1>5, <1>7, WaiterInward DEF WaitPoints

\* waitCondition stores the counter: no waiter stores a stale one.
LEMMA WaitStorePays ==
  ASSUME Given, PaidInv, NEW t \in Tasks, WaitConsume(t) \/ WaitCount(t) \/ RefusedStore(t)
  PROVE  RolesExact' /\ WakesPaid'
<1>1. PICK s : s = Wid(t)
  OBVIOUS
<1>2. PICK from \in {"consume", "count", "give_up"}, to \in {"idle", "obtain"} :
        /\ Goto(t, from, to) /\ (from = "count" <=> to = "obtain")
        /\ from # "give_up" => Store(t, reg[t] + 1)
        /\ from = "give_up" => Store(t, reg[t] - 1)
        /\ UNCHANGED <<used, semaphores, history, ready>>
  BY DEF WaitConsume, WaitCount, RefusedStore
<1>3. pc[t] = from /\ reg' = [reg EXCEPT ![t] = 0]
  BY <1>2 DEF Goto, Jump, Store
<1>4. /\ s \in Wids /\ TypeOK
      /\ waiters[s] \in Int /\ owed[s] \in Int /\ count[s] \in Nat /\ reg[t] \in Int
  BY <1>1, <1>2, <1>3, CallFacts
<1>5. Inward(t, s, from, to)
  BY <1>1, <1>2, <1>4 DEF Inward, Store, semaphores, history, TypeOK, TableOK
<1>6. /\ from # "give_up" => waiters'[s] = reg[t] + 1
      /\ owed'[s] = owed[s] /\ count'[s] = count[s]
  BY <1>1, <1>2, <1>4 DEF Store, semaphores, history, TypeOK, TableOK
<1>7. ASSUME Knows(t, s), IF from = "consume" THEN Pays(s, 1) ELSE Pays(s, 0), from # "give_up"
      PROVE  Pays(s, 0)'
  <2>1. CASE from = "consume"
    BY <1>3, <1>4, <1>6, <1>7, <2>1 DEF Knows, Pays
  <2>2. CASE from = "count"
    BY <1>3, <1>4, <1>6, <1>7, <2>2 DEF Knows, Pays
  <2>3. QED
    BY <1>2, <1>7, <2>1, <2>2
<1>8. QED
  BY <1>1, <1>2, <1>3, <1>5, <1>7, WaiterInward DEF WaitPoints

\* A wake found in the semaphore is no longer owed.
LEMMA ObtainFreePays ==
  ASSUME Given, PaidInv, NEW t \in Tasks, ObtainFree(t) PROVE RolesExact' /\ WakesPaid'
<1>1. PICK s : s = Wid(t)
  OBVIOUS
<1>2. /\ Goto(t, "obtain", "idle") /\ pc[t] = "obtain" /\ count[s] > 0
      /\ count' = [count EXCEPT ![s] = @ - 1] /\ owed' = [owed EXCEPT ![s] = @ - 1]
      /\ UNCHANGED <<table, live, queue, clean, users, reg, ready>>
  BY <1>1 DEF ObtainFree, Goto, Jump
<1>3. /\ s \in Wids /\ TypeOK
      /\ waiters[s] \in Int /\ owed[s] \in Int /\ count[s] \in Nat
  BY <1>1, <1>2, CallFacts
<1>4. Inward(t, s, "obtain", "idle")
  BY <1>2, <1>3 DEF Inward, table, TypeOK, TableOK
<1>5. waiters'[s] = waiters[s] /\ owed'[s] = owed[s] - 1 /\ count'[s] = count[s] - 1
  BY <1>2, <1>3 DEF table, TypeOK, TableOK
<1>6. Pays(s, 0) => Pays(s, 0)'
  BY <1>3, <1>5 DEF Pays
<1>7. QED
  BY <1>1, <1>2, <1>4, <1>6, WaiterInward DEF WaitPoints

\* Where a slot is sound nobody finds its semaphore deleted.
LEMMA InvalidPays ==
  ASSUME Given, PaidInv, NEW t \in Tasks, ObtainInvalid(t) \/ RefusedLoad(t)
  PROVE  RolesExact' /\ WakesPaid'
<1>1. PICK s : s = Wid(t)
  OBVIOUS
<1>2. PICK from \in {"obtain", "refused"}, to \in {"refused", "give_up"} :
        Goto(t, from, to) /\ (from = "obtain" => ~live[s])
  BY <1>1 DEF ObtainInvalid, RefusedLoad
<1>3. /\ pc[t] = from /\ MayRun(t, ready, cpu)
      /\ UNCHANGED <<table, semaphores, history, ready>>
      /\ reg' = reg \/ \E v : reg' = [reg EXCEPT ![t] = v]
  BY <1>2 DEF ObtainInvalid, RefusedLoad, Goto, Jump, Load
<1>4. s \in Wids /\ RoleAt(t) /\ from \in Points \ {"idle"} /\ to \in Points
  BY <1>1, <1>2, <1>3, CallFacts DEF Points, MidCall
<1>5. t \in Waiters /\ pc[t] \in WaitPoints
  BY <1>2, <1>3, <1>4 DEF RoleAt, WaitPoints
<1>6. ~Sound(s)
  BY <1>1, <1>2, <1>3, <1>4, <1>5, WaiterKnows
<1>7. Inward(t, s, from, to)
  BY <1>2, <1>3 DEF Inward, table, semaphores, history
<1>8. Acts(t, s) /\ pc'[t] = to /\ t \in ready'
  BY <1>1, <1>3, <1>4, <1>7, InwardActs DEF PaidInv
<1>9. RoleAt(t)'
  BY <1>2, <1>5, <1>8 DEF RoleAt, OwnPoints, WakePoints
<1>10. RolesExact'
  BY <1>4, <1>8, <1>9, ActsKeepRoles DEF PaidInv
<1>11. ~Sound(s)'
  BY <1>3, <1>6 DEF Sound, WakersAlike, table, history
<1>12. ASSUME NEW r \in Wids \ {s} PROVE (Sound(r) => PaidAt(r))'
  BY <1>4, <1>8, ActsElsewhere DEF PaidInv, WakesPaid
<1>13. QED
  BY <1>10, <1>11, <1>12 DEF WakesPaid

\* A waiter that suspends takes nothing.
LEMMA ObtainSuspendPays ==
  ASSUME Given, PaidInv, NEW t \in Tasks, ObtainSuspend(t) PROVE RolesExact' /\ WakesPaid'
<1>1. PICK s : s = Wid(t)
  OBVIOUS
<1>2. /\ pc[t] = "obtain" /\ MayRun(t, ready, cpu) /\ pc' = [pc EXCEPT ![t] = "suspended"]
      /\ ready' = ready \ {t} /\ queue' = [queue EXCEPT ![s] = Enqueue(@, t)]
      /\ UNCHANGED <<table, live, count, history, call, reg>>
  BY <1>1 DEF ObtainSuspend
<1>3. s \in Wids /\ TypeOK /\ RoleAt(t)
  BY <1>1, <1>2, CallFacts
<1>4. t \in Waiters
  BY <1>2, <1>3 DEF RoleAt, WaitPoints
<1>5. pc'[t] = "suspended" /\ \A u \in Tasks \ {t} : Kept(u)
  BY <1>2, <1>3 DEF Kept, TypeOK, TasksOK
<1>6. \A r \in Wids \ {s} : SlotSame(r)
  BY <1>2, <1>3 DEF SlotSame, table, history, TypeOK, TableOK
<1>7. Acts(t, s)
  BY <1>1, <1>2, <1>5, <1>6 DEF Acts, Wid, Running, MidCall, history
<1>8. RoleAt(t)'
  BY <1>4, <1>5 DEF RoleAt, OwnPoints, WakePoints, Running, MidCall
<1>9. ASSUME Sound(s) PROVE Knows(t, s)' /\ Pays(s, 0)'
  <2>1. Pays(s, 0)
    BY <1>1, <1>2, <1>3, <1>4, <1>9, WaiterKnows DEF WaitPoints
  <2>2. QED
    BY <1>2, <1>5, <2>1 DEF Knows, Pays, table, history
<1>10. QED
  BY <1>1, <1>2, <1>3, <1>4, <1>5, <1>7, <1>8, <1>9, WaiterStep DEF WaitPoints, table, history

\* The steps of the wakes that change nothing but the slot's counter and debts
LEMMA WakerInward ==
  ASSUME Given, PaidInv, TypeOK', NEW t \in Tasks, NEW s, s = Wid(t), NEW from \in WakePoints,
         NEW to \in WakePoints \cup {"idle"}, Inward(t, s, from, to),
         reg' = reg \/ \E v : reg' = [reg EXCEPT ![t] = v],
         to = "clear" => Op(t) # "one",
         Sound(s) /\ Knows(t, s) /\ (Taking(s) => waiters[s] < 0 /\ Op(t) = "one") =>
           /\ pc'[t] = to /\ (to # "idle" => call'[t] = call[t]) => Knows(t, s)'
           /\ Taking(s) => waiters'[s] <= waiters[s]
           /\ Pays(s, 0) /\ ~Taking(s) => Pays(s, 0)'
           /\ Pays(s, 1) /\ Taking(s) => Pays(s, 1)'
  PROVE  RolesExact' /\ WakesPaid'
<1>1. MayRun(t, ready, cpu) /\ pc[t] = from
  BY DEF Inward, Goto, Jump
<1>2. s \in Wids /\ RoleAt(t) /\ from \in Points \ {"idle"} /\ to \in Points
  BY <1>1, CallFacts DEF WakePoints, Points, MidCall
<1>3. /\ Acts(t, s) /\ pc'[t] = to /\ t \in ready' /\ \A u \in Tasks \ {t} : Kept(u)
      /\ to # "idle" => call'[t] = call[t]
  BY <1>2, InwardActs DEF PaidInv
<1>4. RoleAt(t)'
  BY <1>1, <1>2, <1>3 DEF RoleAt, OwnPoints, WaitPoints, WakePoints, Op, Wid, Inward
<1>5. ASSUME Sound(s)
      PROVE  /\ Knows(t, s)'
             /\ IF Taking(s) THEN Pays(s, 1)' /\ waiters'[s] <= waiters[s] ELSE Pays(s, 0)'
  BY <1>1, <1>2, <1>3, <1>5, WakerKnows
<1>6. used'[s] = used[s] /\ clean'[s] = clean[s] /\ live'[s] = live[s] /\ users'[s] = users[s]
  BY DEF Inward
<1>7. \A u \in Tasks \ {t} : pc'[u] # "refused" \/ pc[u] = "refused"
  BY <1>3 DEF Kept
<1>8. QED
  BY <1>1, <1>2, <1>3, <1>4, <1>5, <1>6, <1>7, WakerStep

\* The loads of a wake tell it the counter.
LEMMA WakeNobodyPays ==
  ASSUME Given, PaidInv, TypeOK', NEW t \in Tasks, WakeNobody(t) \/ ReleaseReload(t)
  PROVE  RolesExact' /\ WakesPaid'
<1>1. PICK s : s = Wid(t)
  OBVIOUS
<1>2. PICK from \in {"wake", "reload"}, to \in {"post", "clear", "settle"} :
        /\ Goto(t, from, to) /\ Load(t) /\ UNCHANGED <<table, semaphores, history, ready>>
        /\ from = "wake" => waiters[s] < 1 /\ to = IF Op(t) = "one" THEN "post" ELSE "clear"
        /\ from = "reload" => to = "settle"
  BY <1>1 DEF WakeNobody, ReleaseReload
<1>3. pc[t] = from /\ reg' = [reg EXCEPT ![t] = waiters[s]]
  BY <1>1, <1>2 DEF Goto, Jump, Load
<1>4. s \in Wids /\ TypeOK /\ waiters[s] \in Int
  BY <1>1, <1>2, <1>3, CallFacts
<1>5. Inward(t, s, from, to)
  BY <1>2 DEF Inward, table, semaphores, history
<1>6. reg'[t] = waiters[s] /\ waiters' = waiters /\ owed' = owed /\ count' = count
  BY <1>2, <1>3, <1>4 DEF table, semaphores, history, TypeOK, TasksOK
<1>7. ASSUME Knows(t, s), pc'[t] = to, call'[t] = call[t] PROVE Knows(t, s)'
  BY <1>2, <1>3, <1>6, <1>7 DEF Knows
<1>8. to # "idle" /\ (to = "clear" => Op(t) # "one")
  BY <1>2
<1>9. /\ waiters'[s] <= waiters[s]
      /\ Pays(s, 0) => Pays(s, 0)'
      /\ Pays(s, 1) => Pays(s, 1)'
  BY <1>4, <1>6 DEF Pays
<1>10. \E v : reg' = [reg EXCEPT ![t] = v]
  BY <1>3
<1>11. from \in WakePoints /\ to \in WakePoints
  BY DEF WakePoints
<1>12. QED
  BY <1>1, <1>5, <1>7, <1>8, <1>9, <1>10, <1>11, WakerInward

\* A wake that is stored is owed.
LEMMA PostWakePays ==
  ASSUME Given, PaidInv, TypeOK', NEW t \in Tasks, PostWake(t) PROVE RolesExact' /\ WakesPaid'
<1>1. PICK s : s = Wid(t)
  OBVIOUS
<1>2. /\ Goto(t, "post", "idle") /\ pc[t] = "post" /\ reg' = [reg EXCEPT ![t] = 0]
      /\ waiters' = [waiters EXCEPT ![s] = reg[t] - 1] /\ owed' = [owed EXCEPT ![s] = @ + 1]
      /\ UNCHANGED <<used, semaphores, clean, users, ready>>
  BY <1>1 DEF PostWake, Store, Goto, Jump
<1>3. /\ s \in Wids /\ TypeOK /\ reg[t] \in Int
      /\ waiters[s] \in Int /\ owed[s] \in Int /\ count[s] \in Nat
  BY <1>1, <1>2, CallFacts
<1>4. Inward(t, s, "post", "idle")
  BY <1>2, <1>3 DEF Inward, semaphores, TypeOK, TableOK
<1>5. waiters'[s] = reg[t] - 1 /\ owed'[s] = owed[s] + 1 /\ count' = count
  BY <1>2, <1>3 DEF semaphores, TypeOK, TableOK
<1>6. ASSUME Knows(t, s)
      PROVE  /\ waiters'[s] <= waiters[s]
             /\ Pays(s, 0) => Pays(s, 0)'
             /\ Pays(s, 1) => Pays(s, 1)'
  BY <1>2, <1>3, <1>5, <1>6 DEF Knows, Pays
<1>7. pc'[t] = "idle" => Knows(t, s)'
  BY DEF Knows
<1>8. QED
  BY <1>1, <1>2, <1>3, <1>4, <1>6, <1>7, WakerInward DEF WakePoints

\* Stored wakes that are dropped are no longer owed: nobody is taking one.
LEMMA ClearWakesPays ==
  ASSUME Given, PaidInv, TypeOK', NEW t \in Tasks, ClearWakes(t) PROVE RolesExact' /\ WakesPaid'
<1>1. PICK s : s = Wid(t)
  OBVIOUS
<1>2. /\ Goto(t, "clear", "idle") /\ pc[t] = "clear" /\ reg' = [reg EXCEPT ![t] = 0]
      /\ waiters' = [waiters EXCEPT ![s] = 0] /\ owed' = [owed EXCEPT ![s] = count[s]]
      /\ UNCHANGED <<used, semaphores, clean, users, ready>>
  BY <1>1 DEF ClearWakes, Store, Goto, Jump
<1>3. s \in Wids /\ TypeOK /\ RoleAt(t) /\ count[s] \in Nat
  BY <1>1, <1>2, CallFacts
<1>4. Inward(t, s, "clear", "idle")
  BY <1>2, <1>3 DEF Inward, semaphores, TypeOK, TableOK
<1>5. waiters'[s] = 0 /\ owed'[s] = count[s] /\ count' = count
  BY <1>2, <1>3 DEF semaphores, TypeOK, TableOK
<1>6. Pays(s, 0)' /\ Op(t) # "one"
  BY <1>2, <1>3, <1>5 DEF Pays, RoleAt
<1>7. pc'[t] = "idle" => Knows(t, s)'
  BY DEF Knows
<1>8. QED
  BY <1>1, <1>2, <1>3, <1>4, <1>6, <1>7, WakerInward DEF WakePoints

\* A release that finds no waiter leaves a wake in the semaphore.
LEMMA ReleaseFreePays ==
  ASSUME Given, PaidInv, TypeOK', NEW t \in Tasks, ReleaseFree(t) PROVE RolesExact' /\ WakesPaid'
<1>1. PICK s : s = Wid(t)
  OBVIOUS
<1>2. /\ Goto(t, "release", "reload") /\ pc[t] = "release"
      /\ count' = [count EXCEPT ![s] = @ + 1] /\ owed' = [owed EXCEPT ![s] = @ + 1]
      /\ UNCHANGED <<table, live, queue, clean, users, reg, ready>>
  BY <1>1 DEF ReleaseFree, Goto, Jump
<1>3. /\ s \in Wids /\ TypeOK
      /\ waiters[s] \in Int /\ owed[s] \in Int /\ count[s] \in Nat
  BY <1>1, <1>2, CallFacts
<1>4. Inward(t, s, "release", "reload")
  BY <1>2, <1>3 DEF Inward, table, TypeOK, TableOK
<1>5. waiters' = waiters /\ owed'[s] = owed[s] + 1 /\ count'[s] = count[s] + 1 /\ reg' = reg
  BY <1>2, <1>3 DEF table, TypeOK, TableOK
<1>6. (Pays(s, 0) => Pays(s, 0)') /\ (Pays(s, 1) => Pays(s, 1)') /\ waiters'[s] <= waiters[s]
  BY <1>3, <1>5 DEF Pays
<1>7. ASSUME Knows(t, s), pc'[t] = "reload", call'[t] = call[t] PROVE Knows(t, s)'
  BY <1>2, <1>5, <1>7 DEF Knows
<1>8. QED
  BY <1>1, <1>2, <1>3, <1>4, <1>5, <1>6, <1>7, WakerInward DEF WakePoints

\* The steps that change how many releases are to do, too
LEMMA WakerJump ==
  ASSUME Given, PaidInv, TypeOK', NEW t \in Tasks, NEW s, s = Wid(t), NEW from \in WakePoints,
         NEW to \in WakePoints \cup {"idle"}, Jump(t, from, to),
         \/ \E n : call' = [call EXCEPT ![t].left = n]
         \/ to = "idle" /\ call' = [call EXCEPT ![t] = NoCall]
         \/ call' = call,
         UNCHANGED <<used, semaphores, history, ready>>,
         waiters' = waiters \/ \E v : waiters' = [waiters EXCEPT ![s] = v],
         reg' = reg \/ \E v : reg' = [reg EXCEPT ![t] = v],
         to = "clear" => Op(t) # "one",
         Sound(s) /\ Knows(t, s) /\ (Taking(s) => waiters[s] < 0) =>
           /\ pc'[t] = to => Knows(t, s)'
           /\ Taking(s) => waiters'[s] <= waiters[s]
           /\ Pays(s, 0) /\ ~Taking(s) => Pays(s, 0)'
           /\ Pays(s, 1) /\ Taking(s) => Pays(s, 1)'
  PROVE  RolesExact' /\ WakesPaid'
<1>1. MayRun(t, ready, cpu) /\ pc[t] = from
  BY DEF Jump
<1>2. s \in Wids /\ RoleAt(t) /\ TypeOK /\ from \in Points /\ from # "idle" /\ to \in Points
  BY <1>1, CallFacts DEF WakePoints, Points, MidCall
<1>3. to # "idle" => Wid(t)' = s /\ Op(t)' = Op(t)
  BY <1>2 DEF Wid, Op, TypeOK, TasksOK, Calls
<1>4. call' = call \/ \E c : call' = [call EXCEPT ![t] = c]
  BY <1>2 DEF TypeOK, TasksOK, Calls
<1>5. \A r \in Wids \ {s} : SlotSame(r)
  BY <1>2 DEF SlotSame, semaphores, history, TypeOK, TableOK
<1>6. /\ Acts(t, s) /\ pc'[t] = to /\ t \in ready' /\ \A u \in Tasks \ {t} : Kept(u)
  BY <1>2, <1>3, <1>4, <1>5, JumpActs DEF PaidInv, history
<1>7. RoleAt(t)'
  BY <1>1, <1>2, <1>3, <1>6 DEF RoleAt, OwnPoints, WaitPoints, WakePoints, history
<1>8. ASSUME Sound(s)
      PROVE  /\ Knows(t, s)'
             /\ IF Taking(s) THEN Pays(s, 1)' /\ waiters'[s] <= waiters[s] ELSE Pays(s, 0)'
  BY <1>1, <1>2, <1>6, <1>8, WakerKnows
<1>9. used'[s] = used[s] /\ clean'[s] = clean[s] /\ live'[s] = live[s] /\ users'[s] = users[s]
  BY DEF semaphores, history
<1>10. \A u \in Tasks \ {t} : pc'[u] # "refused" \/ pc[u] = "refused"
  BY <1>6 DEF Kept
<1>11. QED
  BY <1>1, <1>2, <1>6, <1>7, <1>8, <1>9, <1>10, WakerStep

\* A wake releases no more tasks than are counted.
LEMMA WakeSomePays ==
  ASSUME Given, PaidInv, TypeOK', NEW t \in Tasks, WakeSome(t) PROVE RolesExact' /\ WakesPaid'
<1>1. PICK s : s = Wid(t)
  OBVIOUS
<1>2. PICK n : n = IF Op(t) = "one" THEN 1 ELSE waiters[s]
  OBVIOUS
<1>3. /\ Jump(t, "wake", "release") /\ pc[t] = "wake" /\ waiters[s] > 0
      /\ call' = [call EXCEPT ![t].left = n]
      /\ UNCHANGED <<table, semaphores, history, reg, ready>>
  BY <1>1, <1>2 DEF WakeSome, Jump
<1>4. s \in Wids /\ TypeOK /\ waiters[s] \in Int
  BY <1>1, <1>3, CallFacts
<1>5. call'[t].left = n /\ n <= waiters[s]
  BY <1>2, <1>3, <1>4 DEF TypeOK, TasksOK, Calls
<1>6. waiters' = waiters /\ owed' = owed /\ count' = count
  BY <1>3 DEF table, semaphores, history
<1>7. pc'[t] = "release" => Knows(t, s)'
  BY <1>3, <1>5, <1>6 DEF Knows
<1>8. /\ waiters'[s] <= waiters[s]
      /\ Pays(s, 0) => Pays(s, 0)'
      /\ Pays(s, 1) => Pays(s, 1)'
  BY <1>4, <1>6 DEF Pays
<1>9. PICK from \in WakePoints, to \in WakePoints : from = "wake" /\ to = "release"
  BY DEF WakePoints
<1>10. Jump(t, from, to) /\ UNCHANGED <<used, semaphores, history, ready>> /\ reg' = reg
  BY <1>3, <1>9 DEF table
<1>11. \E k : call' = [call EXCEPT ![t].left = k]
  BY <1>3
<1>12. QED
  BY <1>1, <1>6, <1>7, <1>8, <1>9, <1>10, <1>11, WakerJump

\* The end of a release: the counter still counts the waiters to release.
LEMMA ReleasedPays ==
  ASSUME Given, PaidInv, TypeOK', NEW t \in Tasks, NEW from \in {"release", "settle"},
         Released(t, from), NEW s, s = Wid(t),
         UNCHANGED <<used, semaphores, history, ready>>,
         from = "release" => waiters' = waiters,
         from = "settle" => waiters' = [waiters EXCEPT ![s] = reg[t] - 1],
         reg' = reg \/ \E v : reg' = [reg EXCEPT ![t] = v]
  PROVE  RolesExact' /\ WakesPaid'
<1>1. pc[t] = from
  BY DEF Released, Goto, Jump
<1>2. /\ s \in Wids /\ TypeOK /\ waiters[s] \in Int /\ owed[s] \in Int /\ count[s] \in Nat
      /\ reg[t] \in Int /\ call[t].left \in Int /\ from \in WakePoints
  BY <1>1, CallFacts DEF WakePoints
<1>3. waiters'[s] = IF from = "settle" THEN reg[t] - 1 ELSE waiters[s]
  BY <1>2 DEF TypeOK, TableOK
<1>4. owed'[s] = owed[s] /\ count'[s] = count[s]
  BY DEF history, semaphores
<1>5. ASSUME Knows(t, s), Taking(s) => waiters[s] < 0
      PROVE  /\ ~Taking(s) /\ waiters'[s] <= waiters[s]
             /\ Pays(s, 0) => Pays(s, 0)'
             /\ call[t].left <= waiters[s] /\ (from = "settle" => reg[t] = waiters[s])
  <2>1. /\ call[t].left <= waiters[s] /\ waiters[s] > 0
        /\ from = "settle" => reg[t] = waiters[s]
    BY <1>1, <1>5 DEF Knows
  <2>2. CASE from = "settle"
    BY <1>2, <1>3, <1>4, <1>5, <2>1, <2>2 DEF Pays
  <2>3. CASE from = "release"
    BY <1>2, <1>3, <1>4, <1>5, <2>1, <2>3 DEF Pays
  <2>4. QED
    BY <2>2, <2>3
<1>6. CASE call[t].left > 1 /\ Jump(t, from, "release") /\ call' = [call EXCEPT ![t].left = @ - 1]
  <2>1. PICK n : n = call[t].left - 1
    OBVIOUS
  <2>2. call' = [call EXCEPT ![t].left = n] /\ call'[t].left = n
    BY <1>2, <1>6, <2>1 DEF TypeOK, TasksOK, Calls
  <2>3. ASSUME Knows(t, s), Taking(s) => waiters[s] < 0, pc'[t] = "release" PROVE Knows(t, s)'
    <3>1. call'[t].left <= waiters'[s] /\ waiters'[s] > 0
      <4>1. CASE from = "settle"
        BY <1>2, <1>3, <1>5, <1>6, <2>1, <2>2, <2>3, <4>1
      <4>2. CASE from = "release"
        BY <1>2, <1>3, <1>5, <1>6, <2>1, <2>2, <2>3, <4>2
      <4>3. QED
        BY <4>1, <4>2
    <3>2. QED
      BY <2>3, <3>1 DEF Knows
  <2>4. PICK to \in WakePoints : to = "release"
    BY DEF WakePoints
  <2>5. Jump(t, from, to) /\ to # "clear"
    BY <1>6, <2>4
  <2>6. waiters' = waiters \/ \E v : waiters' = [waiters EXCEPT ![s] = v]
    OBVIOUS
  <2>7. \E k : call' = [call EXCEPT ![t].left = k]
    BY <2>2
  <2>8. pc'[t] = to => pc'[t] = "release"
    BY <2>4
  <2>9. QED
    BY <1>2, <1>5, <2>3, <2>4, <2>5, <2>6, <2>7, <2>8, WakerJump
<1>7. CASE call[t].left <= 1 /\ Goto(t, from, IF Op(t) = "reset" THEN "clear" ELSE "idle")
  <2>1. PICK to \in WakePoints \cup {"idle"} :
          to = IF Op(t) = "reset" THEN "clear" ELSE "idle"
    BY DEF WakePoints
  <2>2. Jump(t, from, to) /\ call' = IF to = "idle" THEN [call EXCEPT ![t] = NoCall] ELSE call
    BY <1>7, <2>1 DEF Goto
  <2>3. pc'[t] = to => Knows(t, s)'
    BY <2>1 DEF Knows
  <2>4. to = "clear" => Op(t) # "one"
    BY <2>1
  <2>5. waiters' = waiters \/ \E v : waiters' = [waiters EXCEPT ![s] = v]
    OBVIOUS
  <2>6. call' = call \/ (to = "idle" /\ call' = [call EXCEPT ![t] = NoCall])
    BY <2>2
  <2>7. Jump(t, from, to)
    BY <2>2
  <2>8. QED
    BY <1>2, <1>5, <2>3, <2>4, <2>5, <2>6, <2>7, WakerJump
<1>8. QED
  BY <1>6, <1>7 DEF Released

\* The end of a release, after the store and at a deleted semaphore.
LEMMA ReleaseEndsPay ==
  ASSUME Given, PaidInv, TypeOK', NEW t \in Tasks, ReleaseInvalid(t) \/ ReleaseSettle(t)
  PROVE  RolesExact' /\ WakesPaid'
<1>1. PICK s : s = Wid(t)
  OBVIOUS
<1>2. CASE ReleaseInvalid(t)
  <2>1. PICK from \in {"release", "settle"} : from = "release" /\ Released(t, from)
    BY <1>2 DEF ReleaseInvalid
  <2>2. UNCHANGED <<used, semaphores, history, ready>> /\ waiters' = waiters /\ reg' = reg
    BY <1>2 DEF ReleaseInvalid, table
  <2>3. QED
    BY <1>1, <2>1, <2>2, ReleasedPays
<1>3. CASE ReleaseSettle(t)
  <2>1. PICK from \in {"release", "settle"} : from = "settle" /\ Released(t, from)
    BY <1>3 DEF ReleaseSettle
  <2>2. /\ UNCHANGED <<used, semaphores, history, ready>>
        /\ waiters' = [waiters EXCEPT ![s] = reg[t] - 1] /\ \E v : reg' = [reg EXCEPT ![t] = v]
    BY <1>1, <1>3 DEF ReleaseSettle, Store
  <2>3. QED
    BY <1>1, <2>1, <2>2, ReleasedPays
<1>4. QED
  BY <1>2, <1>3

\* A release that resumes a waiter leaves the counter to the next steps.
LEMMA ReleaseWaiterPays ==
  ASSUME Given, PaidInv, TypeOK', NEW t \in Tasks, ReleaseWaiter(t) PROVE RolesExact' /\ WakesPaid'
<1>1. PICK s : s = Wid(t)
  OBVIOUS
<1>2. pc[t] = "release" /\ MayRun(t, ready, cpu)
  BY DEF ReleaseWaiter
<1>3. s \in Wids /\ TypeOK /\ RoleAt(t) /\ waiters[s] \in Int /\ QueueAt(s)
  BY <1>1, <1>2, CallFacts DEF PaidInv, IndInv, QueuesExact
<1>4. PICK w \in Seq(Tasks) : w = queue[s]
  BY <1>3 DEF TypeOK, TableOK
<1>5. PICK h : h = Head(w)
  OBVIOUS
<1>6. /\ w # << >> /\ queue' = [queue EXCEPT ![s] = Tail(w)]
      /\ ready' = ready \cup {h}
      /\ pc' = [pc EXCEPT ![t] = "reload", ![h] = "idle"]
      /\ call' = [call EXCEPT ![h] = NoCall]
      /\ UNCHANGED <<table, live, count, history, reg>>
  BY <1>1, <1>4, <1>5 DEF ReleaseWaiter
<1>7. Len(w) \in Nat /\ Len(w) > 0 /\ h = w[1]
  BY <1>5, <1>6, LenProperties, EmptySeq
<1>8. pc[h] = "suspended" /\ Wid(h) = s /\ h # t /\ h \in Tasks
  <2>1. 1 \in 1..Len(w)
    BY <1>7
  <2>2. QED
    BY <1>2, <1>3, <1>4, <1>7, <2>1, ElementOfSeq DEF QueueAt
<1>9. /\ pc'[t] = "reload" /\ pc'[h] = "idle" /\ call'[t] = call[t]
      /\ \A u \in Tasks \ {t, h} : Kept(u)
  BY <1>3, <1>6, <1>8 DEF Kept, TypeOK, TasksOK
<1>10. \A r \in Wids \ {s} : SlotSame(r)
  BY <1>3, <1>6 DEF SlotSame, table, history, TypeOK, TableOK
<1>11. t \in ready' /\ ready \subseteq ready' /\ users' = users
  BY <1>2, <1>6 DEF MayRun, history
<1>12. Acts(t, s)
  <2>1. ASSUME NEW u \in Tasks \ {t} PROVE Kept(u) \/ Freed(u, s)
    BY <1>8, <1>9 DEF Freed
  <2>2. QED
    BY <1>1, <1>2, <1>9, <1>10, <1>11, <2>1 DEF Acts, Wid
<1>13. RoleAt(t)'
  BY <1>2, <1>3, <1>9, <1>11 DEF RoleAt, OwnPoints, WaitPoints, WakePoints, Op, Wid
<1>14. ASSUME Sound(s)
       PROVE  /\ Knows(t, s)'
              /\ IF Taking(s) THEN Pays(s, 1)' /\ waiters'[s] <= waiters[s] ELSE Pays(s, 0)'
  <2>1. /\ Knows(t, s)
        /\ IF Taking(s) THEN Pays(s, 1) ELSE Pays(s, 0)
    BY <1>1, <1>2, <1>3, <1>14, WakerKnows DEF WakePoints
  <2>2. waiters' = waiters /\ owed' = owed /\ count' = count
    BY <1>6 DEF table, history
  <2>3. Knows(t, s)'
    BY <1>2, <1>9, <2>1, <2>2 DEF Knows
  <2>4. QED
    BY <1>3, <2>1, <2>2, <2>3 DEF Pays
<1>15. \A u \in Tasks \ {t} : pc'[u] # "refused" \/ pc[u] = "refused"
  BY <1>9 DEF Kept
<1>16. used'[s] = used[s] /\ clean'[s] = clean[s] /\ live'[s] = live[s] /\ users'[s] = users[s]
  BY <1>6 DEF table, history
<1>17. pc[t] \in WakePoints /\ pc'[t] \in WakePoints
  BY <1>2, <1>9 DEF WakePoints
<1>18. QED
  BY <1>1, <1>3, <1>12, <1>13, <1>14, <1>15, <1>16, <1>17, WakerStep

-----------------------------------------------------------------------------
\* A step at a slot that is paid for afterwards, if it is sound then
LEMMA SlotPays ==
  ASSUME PaidInv, NEW t \in Tasks, NEW s \in Wids, Acts(t, s), RoleAt(t)',
         Sound(s)' => PaidAt(s)'
  PROVE  RolesExact' /\ WakesPaid'
<1>1. RolesExact'
  BY ActsKeepRoles DEF PaidInv
<1>2. ASSUME NEW r \in Wids \ {s} PROVE (Sound(r) => PaidAt(r))'
  BY ActsElsewhere DEF PaidInv, WakesPaid
<1>3. QED
  BY <1>1, <1>2 DEF WakesPaid

\* A task enters a call: nothing is stored yet.
LEMMA EnterPays ==
  ASSUME Given, PaidInv, NEW t \in Tasks, NEW s \in Wids, NEW o,
         NEW point \in {"found", "delete", "wait", "wake"},
         Jump(t, "idle", point), call' = [call EXCEPT ![t] = [op |-> o, wid |-> s, left |-> 0]],
         Use(t, o, s), UNCHANGED <<table, semaphores, owed, clean, reg, ready>>,
         point \in OwnPoints => t \in Owners,
         point = "wait" => t \in Waiters,
         point = "wake" => o \in WakeOps[t] /\ o \in {"one", "all", "reset"}
  PROVE  RolesExact' /\ WakesPaid'
<1>1. TypeOK /\ NucleusAssumption
  BY DEF Given, PaidInv, IndInv
<1>2. pc[t] = "idle"
  BY DEF Jump
<1>3. call'[t].wid = s /\ call'[t].op = o
  BY <1>1 DEF TypeOK, TasksOK
<1>4. /\ \A r \in Wids \ {s} : users'[r] = users[r]
      /\ users[s] \subseteq users'[s]
  BY <1>1, UseFacts
<1>5. \A r \in Wids \ {s} : SlotSame(r)
  BY <1>4 DEF SlotSame, table, semaphores
<1>6. /\ MayRun(t, ready, cpu) /\ pc'[t] = point /\ t \in ready'
      /\ \A u \in Tasks \ {t} : Kept(u)
  BY <1>1 DEF Jump, Kept, MayRun, TypeOK, TasksOK
<1>7. Acts(t, s)
  BY <1>2, <1>3, <1>4, <1>5, <1>6 DEF Acts, Wid
<1>8. point = "wake" => <<Prio[t], TRUE>> \in users'[s]
  <2>1. ASSUME o \in {"one", "all", "reset"} PROVE <<Prio[t], TRUE>> \in users'[s]
    <3>1. (o \in {"one", "all", "reset"}) = TRUE
      BY <2>1
    <3>2. users' = [users EXCEPT ![s] = @ \cup {<<Prio[t], TRUE>>}]
      BY <3>1, Zenon DEF Use
    <3>3. QED
      BY <1>1, <3>2 DEF TypeOK, TableOK
  <2>2. QED
    BY <2>1
<1>9. RoleAt(t)'
  BY <1>3, <1>6, <1>8 DEF RoleAt, OwnPoints, WaitPoints, WakePoints, Wid, Op
<1>10. ASSUME Sound(s)' PROVE PaidAt(s)'
  <2>1. used'[s] = used[s] /\ clean'[s] = clean[s] /\ live'[s] = live[s]
        /\ waiters' = waiters /\ owed' = owed /\ count' = count
    BY DEF table, semaphores
  <2>2. Sound(s)
    BY <1>4, <1>10, <2>1 DEF Sound, WakersAlike
  <2>3. PaidAt(s)
    BY <2>2 DEF PaidInv, WakesPaid
  <2>4. Taking(s)' <=> Taking(s)
    BY <1>2, <1>6 DEF Taking, Kept, Wid
  <2>5. \A points : "idle" \notin points /\ point \notin points =>
                    (At(s, points)' <=> At(s, points))
    BY <1>2, <1>6 DEF At, Kept, Wid
  <2>6. /\ At(s, {"make", "vacate"})' <=> At(s, {"make", "vacate"})
        /\ At(s, {"vacate"})' <=> At(s, {"vacate"})
        /\ At(s, {"refused"})' <=> At(s, {"refused"})
    BY <2>5
  <2>7. ASSUME NEW u \in Tasks, Wid(u)' = s PROVE Knows(u, s)'
    <3>1. CASE u = t
      BY <1>6, <1>7, <3>1 DEF Knows
    <3>2. CASE u # t
      <4>1. Kept(u) /\ Wid(u) = s
        BY <1>6, <2>7, <3>2 DEF Kept, Wid
      <4>2. QED
        BY <2>1, <2>3, <4>1 DEF PaidAt, Knows, Kept
    <3>3. QED
      BY <3>1, <3>2
  <2>8. QED
    BY <2>1, <2>3, <2>4, <2>6, <2>7 DEF PaidAt, Pays
<1>11. QED
  BY <1>7, <1>9, <1>10, SlotPays

\* The calls that may begin.
LEMMA CallsPay ==
  ASSUME Given, PaidInv, NEW t \in Tasks,
         FindSlot(t) \/ CallDestroy(t) \/ CallWait(t) \/ CallWake(t)
  PROVE  RolesExact' /\ WakesPaid'
<1>1. CASE FindSlot(t)
  <2>1. PICK s \in Wids : /\ Use(t, "create", s)
                          /\ call' = [call EXCEPT ![t] = [op |-> "create", wid |-> s, left |-> 0]]
    BY <1>1 DEF FindSlot
  <2>2. /\ Jump(t, "idle", "found") /\ t \in Owners
        /\ UNCHANGED <<table, semaphores, owed, clean, reg, ready>>
    BY <1>1 DEF FindSlot
  <2>3. PICK point \in {"found", "delete", "wait", "wake"} : point = "found"
    OBVIOUS
  <2>4. Jump(t, "idle", point)
    BY <2>2, <2>3
  <2>5. QED
    BY <2>1, <2>2, <2>3, <2>4, EnterPays
<1>2. ASSUME NEW s \in Wids, NEW o, NEW point \in {"delete", "wait", "wake"}, Call(t, o, s, point),
             point = "delete" => t \in Owners, point = "wait" => t \in Waiters,
             point = "wake" => o \in WakeOps[t] /\ o \in {"one", "all", "reset"}
      PROVE  RolesExact' /\ WakesPaid'
  <2>1. /\ Jump(t, "idle", point) /\ Use(t, o, s)
        /\ call' = [call EXCEPT ![t] = [op |-> o, wid |-> s, left |-> 0]]
        /\ UNCHANGED <<table, semaphores, owed, clean, reg, ready>>
    BY <1>2 DEF Call
  <2>2. point \in OwnPoints => t \in Owners
    BY <1>2 DEF OwnPoints
  <2>3. QED
    BY <1>2, <2>1, <2>2, EnterPays
<1>3. WakeOps[t] \subseteq {"one", "all", "reset"}
  BY DEF Given, WaitConditionAssumption
<1>4. QED
  BY <1>1, <1>2, <1>3 DEF CallDestroy, CallWait, CallWake

\* A condition that nobody uses yet owes nobody anything.
LEMMA ClaimSlotPays ==
  ASSUME Given, PaidInv, NEW t \in Tasks, ClaimSlot(t) PROVE RolesExact' /\ WakesPaid'
<1>1. PICK s : s = Wid(t)
  OBVIOUS
<1>2. PICK free \in BOOLEAN : free <=> \A u \in Tasks \ {t} : Wid(u) = s => pc[u] = "idle"
  OBVIOUS
<1>3. /\ Goto(t, "found", "make") /\ pc[t] = "found"
      /\ used' = [used EXCEPT ![s] = TRUE] /\ waiters' = [waiters EXCEPT ![s] = 0]
      /\ owed' = [owed EXCEPT ![s] = count[s]]
      /\ clean' = [clean EXCEPT ![s] = \A u \in Tasks \ {t} : Wid(u) = s => pc[u] = "idle"]
      /\ UNCHANGED <<semaphores, users, reg, ready>>
  BY <1>1 DEF ClaimSlot, Goto, Jump
<1>4. s \in Wids /\ TypeOK /\ RoleAt(t) /\ count[s] \in Nat
  BY <1>1, <1>3, CallFacts
<1>5. \A r \in Wids \ {s} : SlotSame(r)
  BY <1>3, <1>4 DEF SlotSame, semaphores, TypeOK, TableOK
<1>6. /\ Acts(t, s) /\ pc'[t] = "make" /\ t \in ready' /\ \A u \in Tasks \ {t} : Kept(u)
      /\ call' = call
  <2>1. PICK from \in Points, to \in Points : from = "found" /\ to = "make"
    BY DEF Points, MidCall
  <2>2. Jump(t, from, to) /\ call' = call /\ Wid(t)' = s /\ users[s] \subseteq users'[s]
    BY <1>1, <1>3, <2>1 DEF Goto, Wid
  <2>3. QED
    BY <1>1, <1>3, <1>4, <1>5, <2>1, <2>2, JumpActs DEF PaidInv
<1>7. RoleAt(t)'
  BY <1>3, <1>4, <1>6 DEF RoleAt, OwnPoints, WaitPoints, WakePoints
<1>8. ASSUME Sound(s)' PROVE PaidAt(s)'
  <2>1. \A u \in Tasks \ {t} : Wid(u) = s => pc[u] = "idle"
    BY <1>3, <1>4, <1>8 DEF Sound, TypeOK, TableOK
  <2>2. ASSUME NEW u \in Tasks, Wid(u)' = s PROVE pc'[u] \in {"idle", "make"}
    BY <1>6, <2>1, <2>2 DEF Kept, Wid
  <2>3. waiters'[s] = 0 /\ owed'[s] = count[s] /\ count'[s] = count[s]
    BY <1>3, <1>4 DEF semaphores, TypeOK, TableOK
  <2>4. Pays(s, 0)'
    BY <1>4, <2>3 DEF Pays
  <2>5. ~Taking(s)' /\ ~At(s, {"refused"})'
    BY <2>2 DEF Taking, At
  <2>6. \A u \in Tasks : Wid(u)' = s => Knows(u, s)'
    BY <2>2 DEF Knows
  <2>7. At(s, {"make", "vacate"})'
    BY <1>1, <1>6 DEF At, Wid
  <2>8. QED
    BY <2>4, <2>5, <2>6, <2>7 DEF PaidAt
<1>9. QED
  BY <1>4, <1>6, <1>7, <1>8, SlotPays

\* A semaphore that did not exist was not free.
LEMMA MakeSemaphorePays ==
  ASSUME Given, PaidInv, NEW t \in Tasks, MakeSemaphore(t) PROVE RolesExact' /\ WakesPaid'
<1>1. PICK s : s = Wid(t)
  OBVIOUS
<1>2. /\ Goto(t, "make", "idle") /\ pc[t] = "make" /\ ~live[s]
      /\ live' = [live EXCEPT ![s] = TRUE] /\ count' = [count EXCEPT ![s] = 0]
      /\ UNCHANGED <<table, queue, history, reg, ready>>
  BY <1>1 DEF MakeSemaphore, Goto, Jump
<1>3. s \in Wids /\ TypeOK /\ count[s] = 0
  BY <1>1, <1>2, CallFacts DEF PaidInv, IndInv, QueuesExact, QueueAt
<1>4. \A r \in Wids \ {s} : SlotSame(r)
  BY <1>2, <1>3 DEF SlotSame, table, history, TypeOK, TableOK
<1>5. Acts(t, s) /\ pc'[t] = "idle" /\ \A u \in Tasks \ {t} : Kept(u)
  <2>1. PICK from \in Points, to \in Points : from = "make" /\ to = "idle"
    BY DEF Points, MidCall
  <2>2. Jump(t, from, to) /\ \E c : call' = [call EXCEPT ![t] = c]
    BY <1>2, <2>1 DEF Goto
  <2>3. users[s] \subseteq users'[s]
    BY <1>2 DEF history
  <2>4. QED
    BY <1>1, <1>2, <1>3, <1>4, <2>1, <2>2, <2>3, JumpActs DEF PaidInv
<1>6. RoleAt(t)'
  BY <1>5 DEF RoleAt, Running, MidCall, OwnPoints, WaitPoints, WakePoints
<1>7. ASSUME Sound(s)' PROVE PaidAt(s)'
  <2>1. /\ used' = used /\ clean' = clean /\ waiters' = waiters /\ owed' = owed /\ users' = users
        /\ count'[s] = count[s] /\ live'[s]
    BY <1>2, <1>3 DEF table, history, TypeOK, TableOK
  <2>2. PaidAt(s)
    BY <1>3, <1>7, <2>1 DEF PaidInv, WakesPaid, Sound, WakersAlike
  <2>3. ASSUME NEW u \in Tasks, Wid(u)' = s PROVE Knows(u, s)'
    <3>1. CASE u = t
      BY <1>5, <3>1 DEF Knows
    <3>2. CASE u # t
      <4>1. Kept(u) /\ Wid(u) = s
        BY <1>5, <2>3, <3>2 DEF Kept, Wid
      <4>2. QED
        BY <2>1, <2>2, <4>1 DEF PaidAt, Knows, Kept
    <3>3. QED
      BY <3>1, <3>2
  <2>4. Taking(s)' <=> Taking(s)
    BY <1>2, <1>5 DEF Taking, Kept, Wid
  <2>5. At(s, {"refused"})' => At(s, {"refused"})
    BY <1>5 DEF At, Kept, Wid
  <2>6. At(s, {"vacate"}) => At(s, {"vacate"})'
    BY <1>2, <1>5 DEF At, Kept, Wid
  <2>7. QED
    BY <2>1, <2>2, <2>3, <2>4, <2>5, <2>6 DEF PaidAt, Pays
<1>8. QED
  BY <1>3, <1>5, <1>6, <1>7, SlotPays

\* A slot that is given back counts for nobody.
LEMMA VacatePays ==
  ASSUME Given, PaidInv, NEW t \in Tasks, MakeFails(t) \/ VacateSlot(t)
  PROVE  RolesExact' /\ WakesPaid'
<1>1. PICK s : s = Wid(t)
  OBVIOUS
<1>2. PICK from \in {"make", "vacate"} :
        /\ Goto(t, from, "idle") /\ pc[t] = from
        /\ used' = [used EXCEPT ![s] = FALSE]
        /\ UNCHANGED <<waiters, semaphores, history, reg, ready>>
  BY <1>1 DEF MakeFails, VacateSlot, Goto, Jump
<1>3. s \in Wids /\ TypeOK
  BY <1>1, <1>2, CallFacts
<1>4. \A r \in Wids \ {s} : SlotSame(r)
  BY <1>2, <1>3 DEF SlotSame, semaphores, history, TypeOK, TableOK
<1>5. Acts(t, s) /\ pc'[t] = "idle"
  <2>1. from \in Points /\ \E to \in Points : to = "idle"
    BY DEF Points, MidCall
  <2>2. PICK to \in Points : to = "idle"
    BY <2>1
  <2>3. Jump(t, from, to) /\ \E c : call' = [call EXCEPT ![t] = c]
    BY <1>2, <2>2 DEF Goto
  <2>4. users[s] \subseteq users'[s]
    BY <1>2 DEF history
  <2>5. QED
    BY <1>1, <1>2, <1>3, <1>4, <2>1, <2>2, <2>3, <2>4, JumpActs DEF PaidInv
<1>6. RoleAt(t)'
  BY <1>5 DEF RoleAt, Running, MidCall, OwnPoints, WaitPoints, WakePoints
<1>7. ~Sound(s)'
  BY <1>2, <1>3 DEF Sound, TypeOK, TableOK
<1>8. QED
  BY <1>3, <1>5, <1>6, <1>7, SlotPays

\* The wakes in a semaphore go with it; its waiters are dismissed before the
\* slot is given back.
LEMMA DeleteSemaphorePays ==
  ASSUME Given, PaidInv, NEW t \in Tasks, DeleteSemaphore(t) PROVE RolesExact' /\ WakesPaid'
<1>1. PICK s : s = Wid(t)
  OBVIOUS
<1>2. /\ pc[t] = "delete" /\ MayRun(t, ready, cpu)
      /\ live' = [live EXCEPT ![s] = FALSE] /\ count' = [count EXCEPT ![s] = 0]
      /\ queue' = [queue EXCEPT ![s] = << >>]
      /\ ready \subseteq ready'
      /\ pc' = [u \in Tasks |-> CASE u = t -> "vacate"
                                  [] pc[u] = "suspended" /\ Wid(u) = s -> "refused"
                                  [] OTHER -> pc[u]]
      /\ UNCHANGED <<table, history, call, reg>>
  BY <1>1 DEF DeleteSemaphore
<1>3. /\ s \in Wids /\ TypeOK /\ RoleAt(t) /\ waiters[s] \in Int
      /\ owed[s] \in Int /\ count[s] \in Nat
  BY <1>1, <1>2, CallFacts
<1>4. /\ pc'[t] = "vacate"
      /\ \A u \in Tasks \ {t} :
           pc'[u] = IF pc[u] = "suspended" /\ Wid(u) = s THEN "refused" ELSE pc[u]
  BY <1>2
<1>5. \A r \in Wids \ {s} : SlotSame(r)
  BY <1>2, <1>3 DEF SlotSame, table, history, TypeOK, TableOK
<1>6. Acts(t, s)
  <2>1. ASSUME NEW u \in Tasks \ {t} PROVE Kept(u) \/ Freed(u, s)
    BY <1>2, <1>4 DEF Kept, Freed, Wid
  <2>2. t \in ready' /\ users' = users /\ Wid(t)' = s
    BY <1>1, <1>2 DEF MayRun, history, Wid
  <2>3. QED
    BY <1>1, <1>2, <1>4, <1>5, <2>1, <2>2 DEF Acts
<1>7. RoleAt(t)'
  BY <1>2, <1>3, <1>4 DEF RoleAt, OwnPoints, WaitPoints, WakePoints, MayRun
<1>8. ASSUME Sound(s)' PROVE PaidAt(s)'
  <2>1. /\ used' = used /\ clean' = clean /\ waiters' = waiters /\ owed' = owed /\ users' = users
        /\ count'[s] = 0 /\ call' = call /\ reg' = reg
    BY <1>2, <1>3 DEF table, history, TypeOK, TableOK
  <2>2. PaidAt(s)
    BY <1>3, <1>8, <2>1 DEF PaidInv, WakesPaid, Sound, WakersAlike
  <2>3. ASSUME NEW u \in Tasks, Wid(u)' = s PROVE Knows(u, s)'
    <3>1. CASE pc'[u] \in {"vacate", "refused"}
      BY <3>1 DEF Knows
    <3>2. CASE pc'[u] \notin {"vacate", "refused"}
      <4>1. pc'[u] = pc[u] /\ Wid(u) = s
        BY <1>4, <2>1, <2>3, <3>2 DEF Wid
      <4>2. QED
        BY <2>1, <2>2, <4>1 DEF PaidAt, Knows
    <3>3. QED
      BY <3>1, <3>2
  <2>4. Taking(s)' <=> Taking(s)
    BY <1>2, <1>4, <2>1 DEF Taking, Wid
  <2>5. At(s, {"vacate"})' /\ At(s, {"make", "vacate"})'
    BY <1>1, <1>4, <2>1 DEF At, Wid
  <2>6. (Pays(s, 0) => Pays(s, 0)') /\ (Pays(s, 1) => Pays(s, 1)')
    BY <1>3, <2>1 DEF Pays
  <2>7. QED
    BY <2>2, <2>3, <2>4, <2>5, <2>6 DEF PaidAt
<1>9. QED
  BY <1>3, <1>6, <1>7, <1>8, SlotPays

\* Sleep and its end touch no condition.
LEMMA IdlePays ==
  ASSUME PaidInv, UNCHANGED <<table, semaphores, history, call, pc, reg>>,
         \A u \in Tasks : pc[u] # "idle" /\ u \in ready => u \in ready'
  PROVE  RolesExact' /\ WakesPaid'
<1>1. RolesExact'
  BY DEF PaidInv, RolesExact, RoleAt, Running, MidCall, Op, Wid, history
<1>2. ASSUME NEW s \in Wids PROVE (Sound(s) => PaidAt(s))'
  <2>1. Sound(s) => PaidAt(s)
    BY DEF PaidInv, WakesPaid
  <2>2. QED
    BY <2>1 DEF Sound, WakersAlike, PaidAt, Taking, Pays, Knows, At, Wid, table, semaphores, history
<1>3. QED
  BY <1>1, <1>2 DEF WakesPaid

-----------------------------------------------------------------------------
\* Nothing is owed at first,
LEMMA PaidInit == ASSUME Given, Init PROVE PaidInv
<1>1. IndInv
  BY InitEstablishes DEF Given
<1>2. RolesExact
  BY DEF Init, Start, RolesExact, RoleAt, Running, MidCall, OwnPoints, WaitPoints, WakePoints
<1>3. WakesPaid
  BY DEF Init, Start, WakesPaid, Sound
<1>4. QED
  BY <1>1, <1>2, <1>3 DEF PaidInv

\* and every step keeps the accounts.
LEMMA PaidNext == ASSUME Given, PaidInv, [Next]_vars PROVE PaidInv'
<1>1. IndInv'
  BY NextPreserves DEF Given, PaidInv
<1>2. TypeOK'
  BY <1>1 DEF IndInv
<1>3. ASSUME NEW t \in Tasks, Continue(t) PROVE RolesExact' /\ WakesPaid'
  <2>1. CASE ClaimSlot(t) \/ MakeSemaphore(t) \/ MakeFails(t) \/ DeleteSemaphore(t) \/ VacateSlot(t)
    BY <2>1, ClaimSlotPays, MakeSemaphorePays, VacatePays, DeleteSemaphorePays
  <2>2. CASE WaitRead(t) \/ WaitConsume(t) \/ WaitCount(t) \/ RefusedStore(t)
    BY <2>2, WaitReadPays, WaitStorePays
  <2>3. CASE ObtainInvalid(t) \/ RefusedLoad(t) \/ ObtainFree(t) \/ ObtainSuspend(t)
    BY <2>3, InvalidPays, ObtainFreePays, ObtainSuspendPays
  <2>4. CASE WakeNobody(t) \/ ReleaseReload(t) \/ WakeSome(t) \/ PostWake(t) \/ ClearWakes(t)
    BY <1>2, <2>4, WakeNobodyPays, WakeSomePays, PostWakePays, ClearWakesPays
  <2>5. CASE ReleaseWaiter(t) \/ ReleaseFree(t) \/ ReleaseInvalid(t) \/ ReleaseSettle(t)
    BY <1>2, <2>5, ReleaseWaiterPays, ReleaseFreePays, ReleaseEndsPay
  <2>6. QED
    BY <1>3, <2>1, <2>2, <2>3, <2>4, <2>5 DEF Continue
<1>4. ASSUME NEW t \in Tasks, Sleep(t) \/ WakeUp(t) PROVE RolesExact' /\ WakesPaid'
  BY <1>4, IdlePays DEF Sleep, WakeUp
<1>5. ASSUME UNCHANGED vars PROVE RolesExact' /\ WakesPaid'
  <2>1. UNCHANGED <<table, semaphores, history, call, pc, reg>> /\ ready' = ready
    BY <1>5 DEF vars, table, semaphores, history
  <2>2. QED
    BY <2>1, IdlePays
<1>6. RolesExact' /\ WakesPaid'
  <2>1. CASE Next
    <3>1. PICK t \in Tasks : \/ FindSlot(t) \/ CallDestroy(t) \/ CallWait(t) \/ CallWake(t)
                            \/ Continue(t)
                            \/ Sleep(t) \/ WakeUp(t)
      BY <2>1 DEF Next
    <3>2. QED
      BY <1>3, <1>4, <3>1, CallsPay
  <2>2. QED
    BY <1>5, <2>1
<1>7. QED
  BY <1>1, <1>6 DEF PaidInv

\* OneWaker says with a cardinality what WakersAlike says of the users.
LEMMA OneWakerMeans ==
  ASSUME TypeOK, NEW s \in Wids, OneWaker(s)
  PROVE  WakersAlike(s)
<1> DEFINE W == {u \in users[s] : u[2]}
           F == [p \in Priorities(s) |-> <<p, TRUE>>]
<1>1. users[s] \subseteq Nat \X BOOLEAN /\ IsFiniteSet(Priorities(s))
  BY DEF TypeOK, TableOK
<1>2. W \subseteq {<<p, TRUE>> : p \in Priorities(s)}
  <2>1. ASSUME NEW u \in W PROVE u[1] \in Priorities(s) /\ u = <<u[1], TRUE>>
    <3>1. PICK p \in Nat, b \in BOOLEAN : u = <<p, b>>
      BY <1>1
    <3>2. b = TRUE
      BY <3>1
    <3>3. QED
      BY <3>1, <3>2 DEF Priorities
  <2>2. QED
    BY <2>1
<1>3. IsFiniteSet({<<p, TRUE>> : p \in Priorities(s)})
  <2>1. F \in Surjection(Priorities(s), {<<p, TRUE>> : p \in Priorities(s)})
    BY DEF Surjection
  <2>2. QED
    BY <1>1, <2>1, FS_Surjection
<1>4. IsFiniteSet(W)
  BY <1>2, <1>3, FS_Subset
<1>5. Cardinality(W) <= 1 /\ Cardinality(W) \in Nat
  BY <1>4, FS_CardinalityType DEF OneWaker
<1>6. ASSUME NEW u \in W, NEW v \in W, u # v PROVE FALSE
  <2>1. {u, v} \subseteq W
    OBVIOUS
  <2>2. Cardinality({u, v}) <= Cardinality(W)
    BY <1>4, <2>1, FS_Subset
  <2>3. IsFiniteSet({u}) /\ Cardinality({u}) = 1
    BY FS_Singleton
  <2>4. Cardinality({u} \cup {v}) = Cardinality({u}) + 1
    BY <1>6, <2>3, FS_AddElement, Zenon
  <2>5. {u} \cup {v} = {u, v}
    OBVIOUS
  <2>6. QED
    BY <1>5, <2>2, <2>3, <2>4, <2>5
<1>7. QED
  BY <1>6 DEF WakersAlike

\* NoInventedWake (waitCondition, wakeOneWaitCond): no wait is answered by a
\* wake that nobody gave, even where the waker preempts the waiter anywhere
\* between its loads and its stores.
THEOREM NoInventedWakeHolds ==
  ASSUME WakersFirst PROVE Spec => []NoInventedWake
<1>0. Given
  BY NucleusAssumption, WaitConditionAssumption DEF Given
<1>1. Init => PaidInv
  BY <1>0, PaidInit
<1>2. PaidInv /\ [Next]_vars => PaidInv'
  BY <1>0, PaidNext
<1>3. PaidInv => NoInventedWake
  <2> SUFFICES ASSUME PaidInv, NEW s \in Wids, used[s], clean[s], OneWaker(s)
               PROVE  owed[s] >= 0
    BY DEF NoInventedWake
  <2>1. Sound(s)
    BY OneWakerMeans DEF Sound, PaidInv, IndInv
  <2>2. count[s] <= owed[s]
    BY <2>1 DEF PaidInv, WakesPaid, PaidAt, Pays
  <2>3. QED
    BY <2>2 DEF PaidInv, IndInv, TypeOK, TableOK
<1>4. QED
  BY <1>1, <1>2, <1>3, PTL DEF Spec
=============================================================================
