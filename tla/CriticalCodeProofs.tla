-------------------------- MODULE CriticalCodeProofs --------------------------
(***************************************************************************)
(* Proofs about CriticalCode, for any number of threads, of killers and of *)
(* kills, where all tasks have one priority (that of the library).         *)
(***************************************************************************)
EXTENDS CriticalCode, NucleusProofs

\* The threads of a process and who kills it run in turns.
OnePriority == \A t, u \in Tasks : Prio[t] = Prio[u]

Setting == CriticalCodeAssumption /\ NucleusAssumption /\ OnePriority

\* Where a task has the processor: no other task of its priority runs.
RunPoints ==
  {"lock", "inside", "add", "start", "remove", "unlock", "unmark", "hit", "destroy", "next"}
KillPoints == {"begin", "children", "walk", "destroy", "next"}
Points == RunPoints \cup KillPoints \cup {"none", "idle", "waiting", "mark", "leave", "ended"}
WorkKinds == {"none", "use", "create", "destroy", "exit", "kill"}

CodeOK ==
  /\ locks \in Int /\ pid \in BOOLEAN /\ tid \in Threads \cup {NoTid}
  /\ mutex \in [locks : Int, count : Int] /\ line \in Seq(Tasks)
  /\ kill_mode \in BOOLEAN /\ terminated \in 0..2 /\ kill_state \in {0, 3, 4, 5}
ThreadsOK ==
  /\ taken \subseteq Threads /\ made \in 0..MaxCreates /\ cursor \in 0..made
  /\ list \in Seq(1..made) /\ tid_of \in [Inodes -> Threads \cup {NoTid}]
  /\ \A i \in 1..made : tid_of[i] \in Threads
  /\ inode_of \in [Threads -> 0..made]
CallsOK ==
  /\ pc \in [Tasks -> Points] /\ job \in [Tasks -> WorkKinds]
  /\ target \in [Tasks -> Threads \cup {NoTid}]
  /\ ready \subseteq Tasks /\ cpu \in [Levels -> Tasks \cup {NoTask}]
  /\ fails \in Nat /\ kills \in Nat
TypeOK == CodeOK /\ ThreadsOK /\ CallsOK

\* Who is suspended on the semaphore, each once.
LineExact == Distinct(line) /\ \A i \in 1..Len(line) : pc[line[i]] = "waiting"

RunnersExact == \A t \in Tasks : pc[t] \in RunPoints => cpu[Prio[t]] = t

\* The inode of a thread has the thread's number as its value.
InodesExact ==
  \A u \in Threads : inode_of[u] # NoInode => tid_of[inode_of[u]] = u

\* A thread that has a slot is in the list, or about to be put there by the
\* task that creates it; a thread that exists has a slot.
Listed(u) == \E i \in 1..Len(list) : list[i] = inode_of[u]
Coming(u) == \E t \in Tasks : pc[t] = "add" /\ target[t] = u
SlotsExact ==
  \A u \in Threads : (u \in taken => Listed(u) \/ Coming(u)) /\ (pc[u] # "none" => u \in taken)

\* What createThread knows of the thread it makes: no thread is created once
\* a kill has begun.
CreateAt(t) ==
  pc[t] \in {"add", "start"} =>
    /\ target[t] \in taken /\ pc[target[t]] = "none" /\ terminated = 0
    /\ pc[t] = "add" => made < MaxCreates
    /\ pc[t] = "start" => Listed(target[t])

\* What destroyThread knows of the thread it is about, which is another one.
DestroyAt(t) ==
  /\ target[t] \in Threads => target[t] # t
  /\ job[t] = "destroy" => target[t] \in Threads
  /\ pc[t] = "remove" => target[t] \in Threads /\ pc[target[t]] = "none"

\* Who can be where, and for what.
KindAt(t) ==
  /\ pc[t] \in KillPoints => t = Main
  /\ pc[t] = "hit" => job[t] = "kill"
  /\ pc[t] = "remove" => job[t] = "destroy"
  /\ job[t] = "exit" => t = Main
  /\ job[t] = "kill" => t # Main
  /\ t \in Killers => /\ pc[t] \in {"idle", "lock", "waiting", "mark", "hit"}
                      /\ pc[t] # "idle" => job[t] = "kill"

CreatesExact == \A t \in Tasks : CreateAt(t)
DestroysExact == \A t \in Tasks : DestroyAt(t)
KindsExact == \A t \in Tasks : KindAt(t)

\* The points of a destroyThread before and after the slot is freed.
DestroyBefore == {"lock", "waiting", "mark", "inside", "remove"}
DestroyAfter == {"leave", "unlock", "unmark", "next"}

\* Where the main is in each phase of the death of the process: when
\* kill_impl has done the thread at the cursor, the thread is gone.
MainExact ==
  /\ terminated = 0 => /\ pc[Main] \notin KillPoints \cup {"none"}
                       /\ job[Main] # "exit" /\ kill_state = 0
  /\ terminated = 1 => pc[Main] \in {"begin", "none"}
  /\ terminated = 2 /\ pc[Main] \in DestroyBefore \cup DestroyAfter =>
       \/ job[Main] = "destroy"
       \/ job[Main] = "exit" /\ pc[Main] \in {"lock", "waiting", "mark"}
  /\ terminated = 2 => pc[Main] \in DestroyBefore \cup DestroyAfter
                                      \cup {"children", "walk", "destroy", "none"}
  /\ pc[Main] = "destroy" => job[Main] = "destroy"
  /\ terminated = 2 /\ job[Main] = "destroy"
       /\ pc[Main] \in DestroyBefore \cup DestroyAfter \cup {"destroy"} =>
       cursor # NoInode /\ target[Main] = tid_of[cursor]
  /\ terminated = 2 /\ pc[Main] \in DestroyAfter => target[Main] \notin taken
  /\ kill_state = 5 <=> pc[Main] = "none"
  /\ kill_state = 5 => taken = {}

\* As long as the process has had no thread and nobody has hit it, the mutex
\* has one owner at most, and counts him and those in the queue.
Owner(t) == pc[t] \in {"mark", "inside", "add", "start", "remove", "leave", "unlock", "hit"}
Entered == {"lock", "waiting", "mark", "inside", "add", "start", "remove", "leave"}
Marked == {"inside", "add", "start", "remove", "leave", "unlock", "unmark"}
OneOwner == \A t, u \in Tasks : Owner(t) /\ Owner(u) => t = u
Owned == \E t \in Tasks : Owner(t)
Quiet == made = 0 /\ terminated = 0
NoThreadYet == Quiet => (\A u \in Threads : pc[u] = "none") /\ job[Main] # "destroy"
SemaphoreExact ==
  Quiet => /\ OneOwner
           /\ mutex.count = 0 /\ mutex.locks = Len(line) + (IF Owned THEN 1 ELSE 0)
           /\ ~Owned => line = << >>
RecordExact ==
  Quiet => /\ pid => pc[Main] \in Marked \/ \E t \in Tasks : pc[t] = "hit"
           /\ locks = IF pc[Main] \in Entered THEN 1 ELSE 0

IndInv ==
  /\ TypeOK /\ LineExact /\ RunnersExact /\ InodesExact /\ SlotsExact
  /\ CreatesExact /\ DestroysExact /\ KindsExact /\ MainExact
  /\ NoThreadYet /\ SemaphoreExact /\ RecordExact

-----------------------------------------------------------------------------
\* Taking one entry out of a list: the others stay, and nothing else comes in.
LEMMA RemoveFirstFacts ==
  ASSUME NEW S, NEW s \in Seq(S), NEW e
  PROVE  /\ RemoveFirst(s, e) \in Seq(S)
         /\ \A i \in 1..Len(RemoveFirst(s, e)) : \E j \in 1..Len(s) : RemoveFirst(s, e)[i] = s[j]
         /\ \A j \in 1..Len(s) :
              s[j] # e => \E i \in 1..Len(RemoveFirst(s, e)) : RemoveFirst(s, e)[i] = s[j]
         /\ Distinct(s) => /\ Distinct(RemoveFirst(s, e))
                           /\ \A i \in 1..Len(RemoveFirst(s, e)) : RemoveFirst(s, e)[i] # e
<1>1. CASE ~ \E i \in 1..Len(s) : s[i] = e
  <2>1. RemoveFirst(s, e) = s
    BY <1>1 DEF RemoveFirst
  <2>2. QED
    BY <1>1, <2>1
<1>2. CASE \E i \in 1..Len(s) : s[i] = e
  <2> DEFINE I == {i \in 1..Len(s) : s[i] = e}
             k == Min(I)
             left == SubSeq(s, 1, k - 1)
             right == SubSeq(s, k + 1, Len(s))
             r == left \o right
             at(i) == IF i < k THEN i ELSE i + 1
  <2>1. Len(s) \in Nat /\ I # {} /\ I \subseteq Nat
    BY <1>2
  <2>2. PICK m \in I : \A i \in I : ~ (<<i, m>> \in OpToRel(<, Nat))
    BY <2>1, NatLessThanWellFounded, WFMin, Zenon
  <2>3. \A i \in I : m <= i
    <3>1. ASSUME NEW i \in I PROVE ~ (i < m)
      <4>1. i \in Nat /\ m \in Nat
        BY <2>1
      <4>2. QED
        BY <2>2, <4>1, Zenon DEF OpToRel
    <3>2. QED
      BY <2>1, <3>1
  <2>4. k \in I
    <3>1. m \in I /\ \A i \in I : m <= i
      BY <2>3
    <3> HIDE DEF I
    <3>2. QED
      BY <3>1, Zenon DEF Min
  <2>5. k \in 1..Len(s) /\ s[k] = e
    BY <2>4
  <2>6. RemoveFirst(s, e) = r
    <3>1. SelectInSeq(s, LAMBDA v : v = e) = k
      BY <2>1, Zenon DEF SelectInSeq
    <3>2. RemoveFirst(s, e) = RemoveAt(s, SelectInSeq(s, LAMBDA v : v = e))
      BY <1>2, Zenon DEF RemoveFirst
    <3>3. RemoveFirst(s, e) = RemoveAt(s, k)
      BY <3>1, <3>2, Zenon
    <3>4. QED
      BY <3>3 DEF RemoveAt
  <2> HIDE DEF I, k
  <2>7. /\ left \in Seq(S) /\ Len(left) = k - 1
        /\ \A i \in 1..(k - 1) : left[i] = s[i]
    BY <2>1, <2>5, SubSeqProperties
  <2>8. /\ right \in Seq(S) /\ Len(right) = Len(s) - k
        /\ \A i \in 1..(Len(s) - k) : right[i] = s[k + i]
    BY <2>1, <2>5, SubSeqProperties
  <2>9. /\ r \in Seq(S) /\ Len(r) = Len(left) + Len(right)
        /\ \A i \in 1..(Len(left) + Len(right)) :
             r[i] = IF i <= Len(left) THEN left[i] ELSE right[i - Len(left)]
    BY <2>7, <2>8, ConcatProperties
  <2> HIDE DEF left, right, r
  <2>10. r \in Seq(S) /\ Len(r) = Len(s) - 1
    BY <2>1, <2>5, <2>7, <2>8, <2>9
  <2>11. ASSUME NEW i \in 1..(Len(s) - 1) PROVE r[i] = s[at(i)]
    <3>1. CASE i < k
      <4>1. i \in 1..(k - 1) /\ i \in 1..(Len(left) + Len(right)) /\ i <= Len(left)
        BY <2>1, <2>5, <2>7, <2>8, <3>1
      <4>2. r[i] = left[i] /\ left[i] = s[i]
        BY <2>7, <2>9, <4>1
      <4>3. QED
        BY <3>1, <4>2
    <3>2. CASE i >= k
      <4>1. PICK j \in 1..(Len(s) - k) : j = i - (k - 1)
        BY <2>1, <2>5, <3>2
      <4>2. i \in 1..(Len(left) + Len(right)) /\ ~ (i <= Len(left)) /\ i - Len(left) = j
        <5>1. Len(left) = k - 1 /\ Len(right) = Len(s) - k
          BY <2>7, <2>8
        <5>2. QED
          BY <2>1, <2>5, <3>2, <4>1, <5>1
      <4>3. r[i] = right[j] /\ right[j] = s[k + j]
        BY <2>8, <2>9, <4>2
      <4>4. k + j = i + 1 /\ ~ (i < k)
        BY <2>1, <2>5, <3>2, <4>1
      <4>5. QED
        BY <4>3, <4>4
    <3>3. QED
      BY <2>1, <2>5, <3>1, <3>2
  <2>12. \A i \in 1..(Len(s) - 1) : at(i) \in 1..Len(s) /\ at(i) # k
    BY <2>1, <2>5
  <2>13. \A j \in 1..Len(s) : j # k => \E i \in 1..(Len(s) - 1) : at(i) = j
    <3>1. ASSUME NEW j \in 1..Len(s), j < k PROVE j \in 1..(Len(s) - 1) /\ at(j) = j
      BY <2>1, <2>5, <3>1
    <3>2. ASSUME NEW j \in 1..Len(s), j > k PROVE j - 1 \in 1..(Len(s) - 1) /\ at(j - 1) = j
      BY <2>1, <2>5, <3>2
    <3>3. \A j \in 1..Len(s) : j # k => j < k \/ j > k
      BY <2>1, <2>5
    <3> HIDE DEF at
    <3>4. QED
      BY <3>1, <3>2, <3>3
  <2>14. \A i, j \in 1..(Len(s) - 1) : at(i) = at(j) => i = j
    BY <2>1, <2>5
  <2> HIDE DEF at
  <2>15. \A i \in 1..(Len(s) - 1) : \E j \in 1..Len(s) : r[i] = s[j]
    BY <2>11, <2>12
  <2>16. \A j \in 1..Len(s) : s[j] # e => \E i \in 1..(Len(s) - 1) : r[i] = s[j]
    BY <2>5, <2>11, <2>13
  <2>17. ASSUME Distinct(s)
         PROVE  Distinct(r) /\ \A i \in 1..(Len(s) - 1) : r[i] # e
    <3>1. ASSUME NEW i \in 1..(Len(s) - 1), NEW j \in 1..(Len(s) - 1), r[i] = r[j] PROVE i = j
      BY <2>11, <2>12, <2>14, <2>17, <3>1 DEF Distinct
    <3>2. \A i \in 1..(Len(s) - 1) : r[i] # e
      BY <2>5, <2>11, <2>12, <2>17 DEF Distinct
    <3>3. QED
      BY <2>10, <3>1, <3>2 DEF Distinct
  <2>18. QED
    BY <2>6, <2>10, <2>15, <2>16, <2>17
<1>3. QED
  BY <1>1, <1>2

\* The first free slot is one that is free.
LEMMA FreeSlot ==
  ASSUME CriticalCodeAssumption, Threads \ taken # {}
  PROVE  (CHOOSE v \in Threads \ taken : \A w \in Threads \ taken : v <= w) \in Threads \ taken
<1> DEFINE free == Threads \ taken
<1>1. free \subseteq Nat
  BY DEF Threads, CriticalCodeAssumption
<1>2. PICK m \in free : \A i \in free : ~ (<<i, m>> \in OpToRel(<, Nat))
  BY <1>1, NatLessThanWellFounded, WFMin, Zenon
<1>3. \A i \in free : m <= i
  <2>1. ASSUME NEW i \in free PROVE ~ (i < m)
    <3>1. i \in Nat /\ m \in Nat
      BY <1>1
    <3>2. QED
      BY <1>2, <3>1, Zenon DEF OpToRel
  <2>2. QED
    BY <1>1, <2>1
<1>4. m \in free /\ \A i \in free : m <= i
  BY <1>3
<1> HIDE DEF free
<1>5. (CHOOSE v \in free : \A w \in free : v <= w) \in free
  BY <1>4, Zenon
<1>6. QED
  BY <1>5 DEF free

\* Who is who.
LEMMA Who ==
  ASSUME CriticalCodeAssumption
  PROVE  /\ Main \in Tasks /\ Threads \subseteq Tasks /\ Killers \subseteq Tasks
         /\ \A t \in Tasks : t = Main \/ t \in Threads \/ t \in Killers
         /\ Main \notin Threads /\ Main \notin Killers /\ \A t \in Killers : t \notin Threads
         /\ NoTid \notin Threads /\ \A t \in Threads : t > NoTid
         /\ MaxCreates \in Nat /\ Inodes = 1..MaxCreates
BY DEF CriticalCodeAssumption, Clients, Threads, NoTid, Inodes

\* A task that gets the processor is the only one that can be at a run point.
LEMMA Alone ==
  ASSUME Setting, RunnersExact, NEW t \in Tasks, MayRun(t, ready, cpu)
  PROVE  \A u \in Tasks : pc[u] \in RunPoints => u = t
BY DEF Setting, NucleusAssumption, OnePriority, RunnersExact, MayRun

\* The registers after a step of t that leaves nobody else at a run point.
LEMMA RunsOn ==
  ASSUME Setting, TypeOK, NEW t \in Tasks,
         \A u \in Tasks : pc'[u] \in RunPoints => u = t,
         \/ cpu' = Occupy(t, cpu)
         \/ cpu' = GiveUp(t, cpu) /\ pc'[t] \notin RunPoints
         \/ \E u \in Tasks : cpu' = Occupy(t, Evict(u, cpu))
  PROVE  cpu' \in [Levels -> Tasks \cup {NoTask}] /\ RunnersExact'
<1>1. Prio[t] \in Levels /\ cpu \in [Levels -> Tasks \cup {NoTask}]
  BY DEF Levels, TypeOK, CallsOK
<1>2. \A u \in Tasks : Evict(u, cpu) \in [Levels -> Tasks \cup {NoTask}]
  BY <1>1 DEF Evict, GiveUp
<1>3. QED
  BY <1>1, <1>2 DEF RunnersExact, Occupy, GiveUp

\* A step that leaves the semaphore and its owner alone.
LEMMA OwnerStays ==
  ASSUME SemaphoreExact, Quiet' => Quiet,
         Quiet' => mutex' = mutex /\ line' = line /\ \A u \in Tasks : Owner(u)' <=> Owner(u)
  PROVE  SemaphoreExact'
<1>1. SUFFICES ASSUME Quiet' PROVE SemaphoreExact'
  BY DEF SemaphoreExact
<1>2. /\ mutex' = mutex /\ line' = line /\ \A u \in Tasks : Owner(u)' <=> Owner(u)
      /\ OneOwner /\ (~Owned => line = << >>)
      /\ mutex.count = 0 /\ mutex.locks = Len(line) + (IF Owned THEN 1 ELSE 0)
  BY <1>1 DEF SemaphoreExact
<1>3. OneOwner' /\ (Owned' <=> Owned)
  BY <1>2 DEF OneOwner, Owned
<1>4. QED
  BY <1>2, <1>3 DEF SemaphoreExact

\* A step that leaves the list and the slots alone, and no task at addProcessThread.
LEMMA SlotsStay ==
  ASSUME SlotsExact, taken' = taken, list' = list, inode_of' = inode_of,
         \A v \in Tasks : pc[v] # "add",
         \A u \in Threads : pc'[u] # "none" => u \in taken
  PROVE  SlotsExact'
<1>1. \A u \in Threads : u \in taken => Listed(u)
  BY DEF SlotsExact, Coming
<1>2. \A u \in Threads : Listed(u)' <=> Listed(u)
  BY DEF Listed
<1>3. QED
  BY <1>1, <1>2 DEF SlotsExact

\* A step that leaves the queue alone, and those who are in it.
LEMMA LineStays ==
  ASSUME LineExact, line' = line, line \in Seq(Tasks),
         \A v \in Tasks : pc[v] = "waiting" => pc'[v] = "waiting"
  PROVE  LineExact'
<1>1. \A i \in 1..Len(line) : line[i] \in Tasks
  BY ElementOfSeq
<1>2. QED
  BY <1>1 DEF LineExact

-----------------------------------------------------------------------------
\* lockMutex on a free mutex: nobody owned it, and its caller does now.
LEMMA LockKeeps ==
  ASSUME Setting, IndInv, NEW t \in Tasks, Lock(t)
  PROVE  IndInv'
<1>1. t \in Tasks /\ MayRun(t, ready, cpu)
  BY Who DEF Setting, Lock, Goto
<1>2. \A u \in Tasks : pc[u] \in RunPoints => u = t
  BY <1>1, Alone DEF IndInv
<1>3. \A u \in Tasks : pc'[u] \in RunPoints => u = t
  BY <1>1, <1>2 DEF RunPoints, IndInv, TypeOK, CallsOK, Lock, Goto
<1>4. cpu' \in [Levels -> Tasks \cup {NoTask}] /\ RunnersExact'
  BY <1>1, <1>3, RunsOn DEF IndInv, Lock, Goto
<1>5. CodeOK'
  BY DEF IndInv, TypeOK, CodeOK, Lock, Goto, Alive, critical_code, dying
<1>6. ThreadsOK'
  BY DEF IndInv, TypeOK, ThreadsOK, Lock, Goto, dying, threads
<1>7. CallsOK'
  BY <1>1, <1>4 DEF IndInv, TypeOK, CallsOK, Points, RunPoints, KillPoints, WorkKinds,
     Lock, Goto, threads
<1>8. LineExact'
  BY <1>1 DEF IndInv, LineExact, TypeOK, CodeOK, CallsOK, Lock, Goto
<1>9. InodesExact'
  BY DEF IndInv, InodesExact, Lock, Goto, threads
<1>10. SlotsExact'
  BY <1>1, <1>2 DEF IndInv, SlotsExact, Coming, Listed, RunPoints, TypeOK, CallsOK,
     Lock, Goto, threads
<1>11. CreatesExact'
  BY <1>1, <1>3 DEF CreatesExact, CreateAt, RunPoints, IndInv, TypeOK, CallsOK, Lock,
     Goto, dying, threads
<1>12. DestroysExact'
  BY <1>1, <1>3 DEF IndInv, DestroysExact, DestroyAt, RunPoints, TypeOK, CallsOK, Lock,
     Goto, threads
<1>13. KindsExact'
  BY <1>1 DEF IndInv, KindsExact, KindAt, KillPoints, TypeOK, CallsOK, Lock, Goto
<1>14. MainExact'
  BY <1>1 DEF IndInv, MainExact, KillPoints, DestroyBefore, DestroyAfter, TypeOK,
     CallsOK, Lock, Goto, dying, threads
<1>15. Quiet' => Quiet
  BY DEF Quiet, Lock, Goto, Alive, dying, threads
<1>16. NoThreadYet'
  BY <1>1, <1>15 DEF IndInv, NoThreadYet, TypeOK, CallsOK, Lock, Goto, Alive
<1>17. SemaphoreExact'
  BY <1>1, <1>15 DEF IndInv, Quiet, SemaphoreExact, OneOwner, Owned, Owner, MainExact,
     TypeOK, CodeOK, CallsOK, Lock, Goto, Alive
<1>18. RecordExact'
  BY <1>1, <1>15 DEF IndInv, RecordExact, Entered, Marked, TypeOK, CallsOK, Lock, Goto,
     Alive, critical_code
<1>19. QED
  BY <1>4, <1>5, <1>6, <1>7, <1>8, <1>9, <1>10, <1>11, <1>12, <1>13, <1>14, <1>16,
     <1>17, <1>18 DEF IndInv, TypeOK

\* lockMutex on a mutex that has an owner: one more in the queue.
LEMMA LockWaitKeeps ==
  ASSUME Setting, IndInv, NEW t \in Tasks, LockWait(t)
  PROVE  IndInv'
<1>1. t \in Tasks /\ MayRun(t, ready, cpu)
  BY Who DEF Setting, LockWait
<1>2. \A u \in Tasks : pc[u] \in RunPoints => u = t
  BY <1>1, Alone DEF IndInv
<1>3. /\ line' \in Seq(Tasks) /\ Len(line') = Len(line) + 1 /\ Distinct(line')
      /\ \A i \in 1..Len(line') : line'[i] = t \/ \E k \in 1..Len(line) : line'[i] = line[k]
  <2>1. /\ Ordered(line) /\ Distinct(line) /\ line \in Seq(Tasks)
        /\ \A i \in 1..Len(line) : line[i] # t
    <3>1. line \in Seq(Tasks) /\ \A i \in 1..Len(line) : line[i] \in Tasks
      BY ElementOfSeq DEF IndInv, TypeOK, CodeOK
    <3>2. QED
      BY <1>1, <3>1 DEF Setting, NucleusAssumption, OnePriority, Ordered, IndInv, LineExact,
         LockWait
  <2>2. line' = Enqueue(line, t)
    BY DEF LockWait
  <2>3. NucleusAssumption /\ t \in Tasks
    BY <1>1 DEF Setting
  <2> DEFINE new == Enqueue(line, t)
  <2>4. /\ new \in Seq(Tasks) /\ Len(new) = Len(line) + 1 /\ Distinct(new)
        /\ \A i \in 1..Len(new) : new[i] = t \/ \E k \in 1..Len(line) : new[i] = line[k]
    BY <2>1, <2>3, EnqueueKeeps
  <2>5. QED
    BY <2>2, <2>4
<1>4. /\ Alive /\ mutex.locks > 0 /\ mutex.count = 0 /\ pc[t] = "lock"
      /\ pc' = [pc EXCEPT ![t] = "waiting"] /\ cpu' = GiveUp(t, cpu) /\ ready' = ready \ {t}
      /\ mutex' = [mutex EXCEPT !.locks = @ + 1]
      /\ UNCHANGED <<critical_code, dying, threads, job, target, kills>>
  BY DEF LockWait
<1>5. \A u \in Tasks : pc'[u] \in RunPoints => u = t
  BY <1>1, <1>2, <1>3, <1>4 DEF RunPoints, IndInv, TypeOK, CallsOK
<1>6. cpu' \in [Levels -> Tasks \cup {NoTask}] /\ RunnersExact'
  BY <1>1, <1>3, <1>4, <1>5, RunsOn DEF IndInv, TypeOK, CallsOK, RunPoints,
     critical_code, dying, threads
<1>7. CodeOK'
  BY <1>3, <1>4 DEF IndInv, TypeOK, CodeOK, critical_code, dying
<1>8. ThreadsOK'
  BY <1>3, <1>4 DEF IndInv, TypeOK, ThreadsOK, dying, threads
<1>9. CallsOK'
  BY <1>1, <1>3, <1>4, <1>6 DEF IndInv, TypeOK, CallsOK, Points, RunPoints, KillPoints,
     WorkKinds, threads
<1>10. LineExact'
  BY <1>1, <1>3, <1>4 DEF IndInv, LineExact, TypeOK, CodeOK, CallsOK
<1>11. InodesExact'
  BY <1>3, <1>4 DEF IndInv, InodesExact, threads
<1>12. SlotsExact'
  <2>1. \A v \in Tasks : pc[v] # "add"
    BY <1>1, <1>2, <1>4 DEF RunPoints
  <2>2. \A u \in Threads : pc'[u] # "none" => u \in taken
    BY <1>1, <1>4 DEF IndInv, SlotsExact, TypeOK, CallsOK
  <2>3. QED
    BY <1>4, <2>1, <2>2, SlotsStay DEF IndInv, threads
<1>13. CreatesExact'
  BY <1>1, <1>3, <1>4, <1>5 DEF CreatesExact, CreateAt, RunPoints, IndInv, TypeOK,
     CallsOK, dying, threads
<1>14. DestroysExact'
  BY <1>1, <1>3, <1>4, <1>5 DEF IndInv, DestroysExact, DestroyAt, RunPoints, TypeOK,
     CallsOK, threads
<1>15. KindsExact'
  BY <1>1, <1>3, <1>4 DEF IndInv, KindsExact, KindAt, KillPoints, TypeOK, CallsOK
<1>16. MainExact'
  BY <1>1, <1>3, <1>4 DEF IndInv, MainExact, KillPoints, DestroyBefore, DestroyAfter,
     TypeOK, CallsOK, dying, threads
<1>17. Quiet' => Quiet
  BY <1>3, <1>4 DEF Quiet, dying, threads
<1>18. NoThreadYet'
  BY <1>1, <1>3, <1>4, <1>17 DEF IndInv, NoThreadYet, TypeOK, CallsOK
<1>19. SemaphoreExact'
  BY <1>1, <1>3, <1>4, <1>17 DEF IndInv, Quiet, SemaphoreExact, OneOwner, Owned, Owner,
     MainExact, TypeOK, CodeOK, CallsOK
<1>20. RecordExact'
  BY <1>1, <1>3, <1>4, <1>17 DEF IndInv, RecordExact, Entered, Marked, TypeOK, CallsOK,
     critical_code
<1>21. QED
  BY <1>6, <1>7, <1>8, <1>9, <1>10, <1>11, <1>12, <1>13, <1>14, <1>15, <1>16, <1>18,
     <1>19, <1>20 DEF IndInv, TypeOK

\* unlockMutex hands the mutex to the first in the queue, if there is one.
LEMMA UnlockKeeps ==
  ASSUME Setting, IndInv, NEW t \in Tasks, Unlock(t)
  PROVE  IndInv'
<1>1. t \in Tasks /\ MayRun(t, ready, cpu)
  BY Who DEF Setting, Unlock
<1>2. \A u \in Tasks : pc[u] \in RunPoints => u = t
  BY <1>1, Alone DEF IndInv
<1>3. /\ pc[t] = "unlock" /\ pc'[t] = "unmark" /\ cpu' = Occupy(t, cpu)
      /\ mutex' = [mutex EXCEPT !.locks = @ - 1,
                       !.count = IF mutex.locks > 1 /\ line = << >> THEN @ + 1 ELSE @]
      /\ UNCHANGED <<critical_code, dying, threads, job, target, kills>>
      /\ pc' \in [Tasks -> Points]
  <2>1. pc \in [Tasks -> Points] /\ {"unmark", "mark"} \subseteq Points
    BY DEF IndInv, TypeOK, CallsOK, Points, RunPoints
  <2>2. line # << >> => Head(line) # t
    BY <1>1 DEF Unlock, IndInv, TypeOK, CodeOK, LineExact
  <2>3. QED
    BY <1>1, <2>1, <2>2 DEF Unlock
<1>4. \/ /\ ~ (mutex.locks > 1 /\ line # << >>) /\ line' = line /\ ready' = ready
         /\ \A u \in Tasks : u # t => pc'[u] = pc[u]
      \/ /\ mutex.locks > 1 /\ line # << >> /\ line' = Tail(line)
         /\ Head(line) \in Tasks /\ Head(line) # t /\ ready' = ready \cup {Head(line)}
         /\ pc[Head(line)] = "waiting" /\ pc'[Head(line)] = "mark"
         /\ \A u \in Tasks : u # t /\ u # Head(line) => pc'[u] = pc[u]
  <2>1. pc \in [Tasks -> Points] /\ line \in Seq(Tasks)
    BY DEF IndInv, TypeOK, CodeOK, CallsOK
  <2>2. CASE mutex.locks > 1 /\ line # << >>
    <3>1. Head(line) \in Tasks /\ Head(line) = line[1] /\ 1 \in 1..Len(line)
      BY <2>1, <2>2
    <3>2. pc[Head(line)] = "waiting"
      BY <3>1 DEF IndInv, LineExact
    <3>3. Head(line) # t
      BY <1>3, <3>2
    <3>4. QED
      BY <1>1, <2>1, <2>2, <3>1, <3>2, <3>3 DEF Unlock
  <2>3. CASE ~ (mutex.locks > 1 /\ line # << >>)
    BY <1>1, <2>1, <2>3 DEF Unlock
  <2>4. QED
    BY <2>2, <2>3
<1>5. line # << >> =>
        /\ Tail(line) \in Seq(Tasks) /\ Len(Tail(line)) = Len(line) - 1 /\ Distinct(Tail(line))
        /\ Len(line) \in Nat /\ Len(line) > 0
        /\ \A i \in 1..Len(Tail(line)) :
             i + 1 \in 1..Len(line) /\ Tail(line)[i] = line[i + 1] /\ Tail(line)[i] # Head(line)
  <2>1. line \in Seq(Tasks) /\ Distinct(line) /\ \A i \in 1..Len(line) : line[i] \in Tasks
    BY ElementOfSeq DEF IndInv, TypeOK, CodeOK, LineExact
  <2>2. Ordered(line)
    BY <2>1 DEF Setting, NucleusAssumption, OnePriority, Ordered
  <2>3. QED
    BY <2>1, <2>2, TailKeeps
<1>6. \A u \in Tasks : pc'[u] \in RunPoints => u = t
  BY <1>1, <1>2, <1>3, <1>4, <1>5 DEF RunPoints, IndInv, TypeOK, CallsOK
<1>7. cpu' \in [Levels -> Tasks \cup {NoTask}] /\ RunnersExact'
  BY <1>1, <1>3, <1>4, <1>5, <1>6, RunsOn DEF IndInv
<1>8. CodeOK'
  <2>1. line' \in Seq(Tasks)
    BY <1>4, <1>5 DEF IndInv, TypeOK, CodeOK
  <2>2. mutex \in [locks : Int, count : Int]
    BY DEF IndInv, TypeOK, CodeOK
  <2>3. mutex' \in [locks : Int, count : Int]
    <3>1. mutex' = [locks |-> mutex.locks - 1,
                    count |-> IF mutex.locks > 1 /\ line = << >> THEN mutex.count + 1
                              ELSE mutex.count]
      BY <1>3, <2>2
    <3>2. mutex.locks \in Int /\ mutex.count \in Int
      BY <2>2
    <3>3. mutex.locks - 1 \in Int /\ mutex.count + 1 \in Int
      BY <3>2
    <3>4. QED
      BY <3>1, <3>2, <3>3
  <2>4. QED
    BY <1>3, <2>1, <2>3 DEF IndInv, TypeOK, CodeOK, critical_code, dying
<1>9. ThreadsOK'
  BY <1>3, <1>4, <1>5 DEF IndInv, TypeOK, ThreadsOK, dying, threads
<1>10. CallsOK'
  BY <1>3, <1>4, <1>7 DEF IndInv, TypeOK, CallsOK, threads
<1>11. LineExact'
  <2>1. line \in Seq(Tasks) /\ \A i \in 1..Len(line) : line[i] \in Tasks /\ pc[line[i]] = "waiting"
    BY ElementOfSeq DEF IndInv, TypeOK, CodeOK, LineExact
  <2>2. CASE line' = line
    <3>1. \A v \in Tasks : v # t => pc'[v] = pc[v]
      <4>1. ~ (line # << >> /\ line' = Tail(line))
        <5>1. line # << >> => Len(Tail(line)) # Len(line)
          BY <1>5
        <5>2. QED
          BY <2>2, <5>1
      <4>2. QED
        BY <1>4, <4>1
    <3>2. QED
      BY <1>3, <2>1, <2>2, <3>1, LineStays DEF IndInv
  <2>3. CASE line' # line
    <3>1. /\ line # << >> /\ line' = Tail(line)
          /\ \A u \in Tasks : u # t /\ u # Head(line) => pc'[u] = pc[u]
      BY <1>4, <2>3
    <3>2. ASSUME NEW i \in 1..Len(line') PROVE pc'[line'[i]] = "waiting"
      <4>1. i + 1 \in 1..Len(line) /\ line'[i] = line[i + 1] /\ line'[i] # Head(line)
        BY <1>5, <3>1
      <4>2. QED
        BY <1>3, <2>1, <3>1, <4>1
    <3>3. QED
      BY <1>5, <3>1, <3>2 DEF LineExact
  <2>4. QED
    BY <2>2, <2>3
<1>12. InodesExact'
  BY <1>3, <1>4, <1>5 DEF IndInv, InodesExact, threads
<1>13. SlotsExact'
  <2>1. \A v \in Tasks : pc[v] # "add"
    BY <1>1, <1>2, <1>3 DEF RunPoints
  <2>2. \A u \in Threads : pc'[u] # "none" => u \in taken
    BY <1>1, <1>3, <1>4, Who DEF Setting, IndInv, SlotsExact
  <2>3. QED
    BY <1>3, <2>1, <2>2, SlotsStay DEF IndInv, threads
<1>14. CreatesExact'
  BY <1>1, <1>3, <1>4, <1>5, <1>6 DEF CreatesExact, CreateAt, RunPoints, IndInv, TypeOK,
     CallsOK, dying, threads
<1>15. DestroysExact'
  BY <1>1, <1>3, <1>4, <1>5, <1>6 DEF IndInv, DestroysExact, DestroyAt, RunPoints,
     TypeOK, CallsOK, threads
<1>16. KindsExact'
  BY <1>1, <1>3, <1>4, <1>5 DEF IndInv, KindsExact, KindAt, KillPoints, TypeOK, CallsOK
<1>17. MainExact'
  <2>1. \/ pc'[Main] = pc[Main]
        \/ pc[Main] = "unlock" /\ pc'[Main] = "unmark"
        \/ pc[Main] = "waiting" /\ pc'[Main] = "mark"
    BY <1>3, <1>4, Who DEF Setting
  <2>2. CASE pc'[Main] = pc[Main]
    BY <1>3, <2>2 DEF IndInv, MainExact, DestroyBefore, DestroyAfter, KillPoints, dying, threads
  <2>3. CASE pc[Main] = "unlock" /\ pc'[Main] = "unmark"
    BY <1>3, <2>3 DEF IndInv, MainExact, DestroyBefore, DestroyAfter, KillPoints, dying, threads
  <2>4. CASE pc[Main] = "waiting" /\ pc'[Main] = "mark"
    BY <1>3, <2>4 DEF IndInv, MainExact, DestroyBefore, DestroyAfter, KillPoints, dying, threads
  <2>5. QED
    BY <2>1, <2>2, <2>3, <2>4
<1>18. Quiet' => Quiet
  BY <1>3, <1>4, <1>5 DEF Quiet, dying, threads
<1>19. NoThreadYet'
  <2>1. Quiet => t = Main /\ \A v \in Threads : pc[v] = "none"
    BY <1>1, <1>3, Who DEF Setting, IndInv, NoThreadYet, KindsExact, KindAt
  <2>2. QED
    BY <1>18, <1>3, <1>4, <2>1, Who DEF Setting, IndInv, NoThreadYet
<1>20. SemaphoreExact'
  BY <1>1, <1>3, <1>4, <1>5, <1>18 DEF IndInv, Quiet, SemaphoreExact, OneOwner, Owned,
     Owner, MainExact, TypeOK, CodeOK, CallsOK
<1>21. RecordExact'
  <2>1. Quiet => t = Main /\ \A v \in Threads : pc[v] = "none"
    BY <1>1, <1>3, Who DEF Setting, IndInv, NoThreadYet, KindsExact, KindAt
  <2>2. QED
    BY <1>18, <1>3, <2>1 DEF IndInv, RecordExact, Entered, Marked, critical_code
<1>22. QED
  BY <1>7, <1>8, <1>9, <1>10, <1>11, <1>12, <1>13, <1>14, <1>15, <1>16, <1>17, <1>19,
     <1>20, <1>21 DEF IndInv, TypeOK

\* The owner of the mutex writes its ids down.
LEMMA MarkKeeps ==
  ASSUME Setting, IndInv, NEW t \in Tasks, Mark(t)
  PROVE  IndInv'
<1>1. t \in Tasks /\ MayRun(t, ready, cpu)
  BY Who DEF Setting, Mark, Goto
<1>2. \A u \in Tasks : pc[u] \in RunPoints => u = t
  BY <1>1, Alone DEF IndInv
<1>3. \A u \in Tasks : pc'[u] \in RunPoints => u = t
  BY <1>1, <1>2 DEF RunPoints, IndInv, TypeOK, CallsOK, Mark, Goto
<1>4. cpu' \in [Levels -> Tasks \cup {NoTask}] /\ RunnersExact'
  BY <1>1, <1>3, RunsOn DEF IndInv, Mark, Goto
<1>5. CodeOK'
  BY DEF IndInv, TypeOK, CodeOK, Mark, Goto, Tid, semaphore
<1>6. ThreadsOK'
  BY DEF IndInv, TypeOK, ThreadsOK, Mark, Goto, threads
<1>7. CallsOK'
  BY <1>1, <1>4 DEF IndInv, TypeOK, CallsOK, Points, RunPoints, KillPoints, WorkKinds,
     Mark, Goto, threads
<1>8. LineExact'
  BY <1>1 DEF IndInv, LineExact, TypeOK, CodeOK, CallsOK, Mark, Goto, semaphore
<1>9. InodesExact'
  BY DEF IndInv, InodesExact, Mark, Goto, threads
<1>10. SlotsExact'
  BY <1>1, <1>2 DEF IndInv, SlotsExact, Coming, Listed, RunPoints, TypeOK, CallsOK,
     Mark, Goto, threads
<1>11. CreatesExact'
  BY <1>1, <1>3 DEF CreatesExact, CreateAt, RunPoints, IndInv, TypeOK, CallsOK, Mark,
     Goto, threads
<1>12. DestroysExact'
  BY <1>1, <1>3 DEF IndInv, DestroysExact, DestroyAt, RunPoints, TypeOK, CallsOK, Mark,
     Goto, threads
<1>13. KindsExact'
  BY <1>1 DEF IndInv, KindsExact, KindAt, KillPoints, TypeOK, CallsOK, Mark, Goto
<1>14. MainExact'
  BY <1>1, <1>2, Who DEF Setting, IndInv, MainExact, CreatesExact, CreateAt, KindsExact,
     KindAt, TypeOK, ThreadsOK, CallsOK, DestroyBefore, DestroyAfter, RunPoints,
     KillPoints, Mark, Goto, Tid, semaphore, threads
<1>15. Quiet' => Quiet
  BY DEF Quiet, Mark, Goto, Tid, threads
<1>16. NoThreadYet'
  BY <1>1, <1>15 DEF IndInv, NoThreadYet, TypeOK, CallsOK, Mark, Goto, Tid
<1>17. SemaphoreExact'
  BY <1>1, <1>2, <1>15, OwnerStays, Who DEF Setting, IndInv, Quiet, NoThreadYet,
     RecordExact, Owner, MainExact, KindsExact, KindAt, Entered, Marked, RunPoints,
     TypeOK, CodeOK, CallsOK, Mark, Goto, Tid, semaphore, threads
<1>18. RecordExact'
  <2>1. SUFFICES ASSUME Quiet' PROVE RecordExact'
    BY DEF RecordExact
  <2>2. Quiet /\ job[t] # "exit" /\ (t # Main => t \in Killers)
    BY <2>1, <1>15, <1>1, Who DEF Setting, IndInv, Quiet, NoThreadYet, KindsExact, KindAt,
       MainExact,
      Mark, Goto
  <2>3. CASE job[t] = "kill"
    <3>1. pc'[t] = "hit" /\ t # Main /\ pc'[Main] = pc[Main]
      BY <1>1, <2>3, Who DEF Setting, IndInv, KindsExact, KindAt, TypeOK, CallsOK, Mark, Goto
    <3>2. QED
      BY <1>1, <2>2, <3>1 DEF IndInv, Quiet, RecordExact, Mark
  <2>4. CASE job[t] # "kill"
    <3>1. t = Main /\ pc[Main] = "mark" /\ pc'[Main] = "inside"
      BY <1>1, <2>2, <2>4, Who DEF Setting, IndInv, KindsExact, KindAt, TypeOK, CallsOK, Mark,
         Goto
    <3>2. QED
      BY <1>1, <2>2, <3>1 DEF IndInv, Quiet, RecordExact, Entered, Marked, Mark
  <2>5. QED
    BY <2>3, <2>4
<1>19. QED
  BY <1>4, <1>5, <1>6, <1>7, <1>8, <1>9, <1>10, <1>11, <1>12, <1>13, <1>14, <1>16,
     <1>17, <1>18 DEF IndInv, TypeOK

\* leaveProcessCriticalCode: the last one to leave unlocks the mutex.
LEMMA LeaveKeeps ==
  ASSUME Setting, IndInv, NEW t \in Tasks, Leave(t)
  PROVE  IndInv'
<1>1. t \in Tasks /\ MayRun(t, ready, cpu)
  BY Who DEF Setting, Leave, Goto
<1>2. \A u \in Tasks : pc[u] \in RunPoints => u = t
  BY <1>1, Alone DEF IndInv
<1>3. \A u \in Tasks : pc'[u] \in RunPoints => u = t
  BY <1>1, <1>2 DEF RunPoints, IndInv, TypeOK, CallsOK, Leave, Goto, Back
<1>4. cpu' \in [Levels -> Tasks \cup {NoTask}] /\ RunnersExact'
  BY <1>1, <1>3, RunsOn DEF IndInv, Leave, Goto
<1>5. CodeOK'
  BY DEF IndInv, TypeOK, CodeOK, Leave, Goto, Back, semaphore, dying
<1>6. ThreadsOK'
  BY DEF IndInv, TypeOK, ThreadsOK, Leave, Goto, dying, threads
<1>7. CallsOK'
  BY <1>1, <1>4 DEF IndInv, TypeOK, CallsOK, Points, RunPoints, KillPoints, WorkKinds,
     Leave, Goto, Back, threads
<1>8. LineExact'
  BY <1>1 DEF IndInv, LineExact, TypeOK, CodeOK, CallsOK, Leave, Goto, semaphore
<1>9. InodesExact'
  BY DEF IndInv, InodesExact, Leave, Goto, threads
<1>10. SlotsExact'
  BY <1>1, <1>2 DEF IndInv, SlotsExact, Coming, Listed, RunPoints, TypeOK, CallsOK,
     Leave, Goto, Back, threads
<1>11. CreatesExact'
  BY <1>1, <1>3 DEF CreatesExact, CreateAt, RunPoints, IndInv, TypeOK, CallsOK, Leave,
     Goto, Back, dying, threads
<1>12. DestroysExact'
  BY <1>1, <1>3 DEF IndInv, DestroysExact, DestroyAt, RunPoints, TypeOK, CallsOK, Leave,
     Goto, Back, threads
<1>13. KindsExact'
  BY <1>1 DEF IndInv, KindsExact, KindAt, KillPoints, TypeOK, CallsOK, Leave, Goto, Back
<1>14. MainExact'
  BY <1>1 DEF IndInv, MainExact, KillPoints, DestroyBefore, DestroyAfter, TypeOK,
     CallsOK, Leave, Goto, Back, dying, threads
<1>15. Quiet' => Quiet
  BY DEF Quiet, Leave, Goto, Back, dying, threads
<1>16. NoThreadYet'
  BY <1>1, <1>15 DEF IndInv, NoThreadYet, TypeOK, CallsOK, Leave, Goto, Back
<1>17. SemaphoreExact'
  BY <1>1, <1>2, <1>15, OwnerStays, Who DEF Setting, IndInv, Quiet, NoThreadYet,
     RecordExact, Owner, MainExact, KindsExact, KindAt, Entered, Marked, RunPoints,
     TypeOK, CodeOK, CallsOK, Leave, Goto, Back, semaphore, dying, threads
<1>18. RecordExact'
  <2>1. SUFFICES ASSUME Quiet' PROVE RecordExact'
    BY DEF RecordExact
  <2>2. Quiet /\ t = Main /\ pc[Main] = "leave"
    BY <2>1, <1>15, <1>1, Who DEF Setting, IndInv, Quiet, NoThreadYet, KindsExact, KindAt,
       Leave, Goto
  <2>3. locks = 1
    BY <2>2 DEF IndInv, RecordExact, Entered
  <2>4. pc'[Main] = "unlock" /\ locks' = 0
    BY <1>1, <2>2, <2>3 DEF IndInv, TypeOK, CallsOK, Leave, Goto
  <2>5. QED
    BY <2>4 DEF RecordExact, Entered, Marked
<1>19. QED
  BY <1>4, <1>5, <1>6, <1>7, <1>8, <1>9, <1>10, <1>11, <1>12, <1>13, <1>14, <1>16,
     <1>17, <1>18 DEF IndInv, TypeOK

\* The ids are wiped when the mutex is already somebody else's.
LEMMA UnmarkKeeps ==
  ASSUME Setting, IndInv, NEW t \in Tasks, Unmark(t)
  PROVE  IndInv'
<1>1. t \in Tasks /\ MayRun(t, ready, cpu)
  BY Who DEF Setting, Unmark, Goto
<1>2. \A u \in Tasks : pc[u] \in RunPoints => u = t
  BY <1>1, Alone DEF IndInv
<1>3. \A u \in Tasks : pc'[u] \in RunPoints => u = t
  BY <1>1, <1>2 DEF RunPoints, IndInv, TypeOK, CallsOK, Unmark, Goto, Back
<1>4. cpu' \in [Levels -> Tasks \cup {NoTask}] /\ RunnersExact'
  BY <1>1, <1>3, RunsOn DEF IndInv, Unmark, Goto
<1>5. CodeOK'
  BY DEF IndInv, TypeOK, CodeOK, Unmark, Goto, Back, semaphore, dying
<1>6. ThreadsOK'
  BY DEF IndInv, TypeOK, ThreadsOK, Unmark, Goto, dying, threads
<1>7. CallsOK'
  BY <1>1, <1>4 DEF IndInv, TypeOK, CallsOK, Points, RunPoints, KillPoints, WorkKinds,
     Unmark, Goto, Back, threads
<1>8. LineExact'
  BY <1>1 DEF IndInv, LineExact, TypeOK, CodeOK, CallsOK, Unmark, Goto, semaphore
<1>9. InodesExact'
  BY DEF IndInv, InodesExact, Unmark, Goto, threads
<1>10. SlotsExact'
  BY <1>1, <1>2 DEF IndInv, SlotsExact, Coming, Listed, RunPoints, TypeOK, CallsOK,
     Unmark, Goto, Back, threads
<1>11. CreatesExact'
  BY <1>1, <1>3 DEF CreatesExact, CreateAt, RunPoints, IndInv, TypeOK, CallsOK, Unmark,
     Goto, Back, dying, threads
<1>12. DestroysExact'
  BY <1>1, <1>3 DEF IndInv, DestroysExact, DestroyAt, RunPoints, TypeOK, CallsOK,
     Unmark, Goto, Back, threads
<1>13. KindsExact'
  BY <1>1 DEF IndInv, KindsExact, KindAt, KillPoints, TypeOK, CallsOK, Unmark, Goto,
     Back
<1>14. MainExact'
  BY <1>1 DEF IndInv, MainExact, KillPoints, DestroyBefore, DestroyAfter, TypeOK,
     CallsOK, Unmark, Goto, Back, dying, threads
<1>15. Quiet' => Quiet
  BY DEF Quiet, Unmark, Goto, Back, dying, threads
<1>16. NoThreadYet'
  BY <1>1, <1>15 DEF IndInv, NoThreadYet, TypeOK, CallsOK, Unmark, Goto, Back
<1>17. SemaphoreExact'
  BY <1>1, <1>15, OwnerStays DEF IndInv, Owner, TypeOK, CallsOK, Unmark, Goto, Back,
     semaphore
<1>18. RecordExact'
  BY <1>1, <1>15 DEF IndInv, RecordExact, Entered, Marked, TypeOK, CallsOK, Unmark,
     Goto, Back
<1>19. QED
  BY <1>4, <1>5, <1>6, <1>7, <1>8, <1>9, <1>10, <1>11, <1>12, <1>13, <1>14, <1>16,
     <1>17, <1>18 DEF IndInv, TypeOK

\* What other components do in critical code.
LEMMA UseKeeps ==
  ASSUME Setting, IndInv, NEW t \in Tasks, Use(t)
  PROVE  IndInv'
<1>1. t \in Tasks /\ MayRun(t, ready, cpu)
  BY Who DEF Setting, Use, Goto
<1>2. \A u \in Tasks : pc[u] \in RunPoints => u = t
  BY <1>1, Alone DEF IndInv
<1>3. \A u \in Tasks : pc'[u] \in RunPoints => u = t
  BY <1>1, <1>2 DEF RunPoints, IndInv, TypeOK, CallsOK, Use, Goto
<1>4. cpu' \in [Levels -> Tasks \cup {NoTask}] /\ RunnersExact'
  BY <1>1, <1>3, RunsOn DEF IndInv, Use, Goto
<1>5. CodeOK'
  BY DEF IndInv, TypeOK, CodeOK, Use, Goto, critical_code, semaphore, dying
<1>6. ThreadsOK'
  BY DEF IndInv, TypeOK, ThreadsOK, Use, Goto, dying, threads
<1>7. CallsOK'
  BY <1>1, <1>4 DEF IndInv, TypeOK, CallsOK, Points, RunPoints, KillPoints, WorkKinds,
     Use, Goto, threads
<1>8. LineExact'
  BY <1>1 DEF IndInv, LineExact, TypeOK, CodeOK, CallsOK, Use, Goto, semaphore
<1>9. InodesExact'
  BY DEF IndInv, InodesExact, Use, Goto, threads
<1>10. SlotsExact'
  BY <1>1, <1>2 DEF IndInv, SlotsExact, Coming, Listed, RunPoints, TypeOK, CallsOK, Use,
     Goto, threads
<1>11. CreatesExact'
  BY <1>1, <1>3 DEF CreatesExact, CreateAt, RunPoints, IndInv, TypeOK, CallsOK, Use,
     Goto, dying, threads
<1>12. DestroysExact'
  BY <1>1, <1>3 DEF IndInv, DestroysExact, DestroyAt, RunPoints, TypeOK, CallsOK, Use,
     Goto, threads
<1>13. KindsExact'
  BY <1>1 DEF IndInv, KindsExact, KindAt, KillPoints, TypeOK, CallsOK, Use, Goto
<1>14. MainExact'
  BY <1>1 DEF IndInv, MainExact, KillPoints, DestroyBefore, DestroyAfter, TypeOK,
     CallsOK, Use, Goto, dying, threads
<1>15. Quiet' => Quiet
  BY DEF Quiet, Use, Goto, dying, threads
<1>16. NoThreadYet'
  BY <1>1, <1>15 DEF IndInv, NoThreadYet, TypeOK, CallsOK, Use, Goto
<1>17. SemaphoreExact'
  BY <1>1, <1>15, OwnerStays DEF IndInv, Owner, TypeOK, CallsOK, Use, Goto, semaphore
<1>18. RecordExact'
  BY <1>1, <1>15 DEF IndInv, RecordExact, Entered, Marked, TypeOK, CallsOK, Use, Goto,
     critical_code
<1>19. QED
  BY <1>4, <1>5, <1>6, <1>7, <1>8, <1>9, <1>10, <1>11, <1>12, <1>13, <1>14, <1>16,
     <1>17, <1>18 DEF IndInv, TypeOK

\* createThread in a process that is being killed creates nothing.
LEMMA CreateRefusedKeeps ==
  ASSUME Setting, IndInv, NEW t \in Tasks, CreateRefused(t)
  PROVE  IndInv'
<1>1. t \in Tasks /\ MayRun(t, ready, cpu)
  BY Who DEF Setting, CreateRefused, Goto
<1>2. \A u \in Tasks : pc[u] \in RunPoints => u = t
  BY <1>1, Alone DEF IndInv
<1>3. \A u \in Tasks : pc'[u] \in RunPoints => u = t
  BY <1>1, <1>2 DEF RunPoints, IndInv, TypeOK, CallsOK, CreateRefused, Goto, Back
<1>4. cpu' \in [Levels -> Tasks \cup {NoTask}] /\ RunnersExact'
  BY <1>1, <1>3, RunsOn DEF IndInv, CreateRefused, Goto
<1>5. CodeOK'
  BY DEF IndInv, TypeOK, CodeOK, CreateRefused, Goto, Back, critical_code, semaphore,
     dying
<1>6. ThreadsOK'
  BY DEF IndInv, TypeOK, ThreadsOK, CreateRefused, Goto, dying, threads
<1>7. CallsOK'
  BY <1>1, <1>4 DEF IndInv, TypeOK, CallsOK, Points, RunPoints, KillPoints, WorkKinds,
     CreateRefused, Goto, Back, threads
<1>8. LineExact'
  BY <1>1 DEF IndInv, LineExact, TypeOK, CodeOK, CallsOK, CreateRefused, Goto, semaphore
<1>9. InodesExact'
  BY DEF IndInv, InodesExact, CreateRefused, Goto, threads
<1>10. SlotsExact'
  BY <1>1, <1>2 DEF IndInv, SlotsExact, Coming, Listed, RunPoints, TypeOK, CallsOK,
     CreateRefused, Goto, Back, threads
<1>11. CreatesExact'
  BY <1>1, <1>3 DEF CreatesExact, CreateAt, RunPoints, IndInv, TypeOK, CallsOK,
     CreateRefused, Goto, Back, dying, threads
<1>12. DestroysExact'
  BY <1>1, <1>3 DEF IndInv, DestroysExact, DestroyAt, RunPoints, TypeOK, CallsOK,
     CreateRefused, Goto, Back, threads
<1>13. KindsExact'
  BY <1>1 DEF IndInv, KindsExact, KindAt, KillPoints, TypeOK, CallsOK, CreateRefused,
     Goto, Back
<1>14. MainExact'
  BY <1>1 DEF IndInv, MainExact, KillPoints, DestroyBefore, DestroyAfter, TypeOK,
     CallsOK, CreateRefused, Goto, Back, dying, threads
<1>15. ~ Quiet'
  BY <1>1 DEF IndInv, Quiet, MainExact, KillPoints, CreateRefused, Goto, Back, dying,
     threads
<1>16. NoThreadYet' /\ SemaphoreExact' /\ RecordExact'
  BY <1>15 DEF NoThreadYet, SemaphoreExact, RecordExact
<1>17. QED
  BY <1>4, <1>5, <1>6, <1>7, <1>8, <1>9, <1>10, <1>11, <1>12, <1>13, <1>14, <1>16 DEF
     IndInv, TypeOK

\* A new thread gets a free slot and is on its way into the list.
LEMMA NewThreadKeeps ==
  ASSUME Setting, IndInv, NEW t \in Tasks, NewThread(t)
  PROVE  IndInv'
<1>1. t \in Tasks /\ MayRun(t, ready, cpu)
  BY Who DEF Setting, NewThread, Goto
<1>2. \A u \in Tasks : pc[u] \in RunPoints => u = t
  BY <1>1, Alone DEF IndInv
<1>3. /\ pc[t] = "inside" /\ job[t] = "create" /\ terminated = 0 /\ made < MaxCreates
      /\ cpu' = Occupy(t, cpu)
      /\ UNCHANGED <<critical_code, semaphore, dying, list, tid_of, inode_of, made, fails,
                     job, kills, ready>>
  BY DEF NewThread, Goto
<1>4. \/ /\ pc' = [pc EXCEPT ![t] = "leave"]
         /\ taken' = taken /\ target' = [target EXCEPT ![t] = NoTid]
      \/ \E u \in Threads \ taken :
           /\ pc' = [pc EXCEPT ![t] = "add"]
           /\ taken' = taken \cup {u} /\ target' = [target EXCEPT ![t] = u]
  <2>1. CASE Threads \ taken = {}
    BY <2>1 DEF NewThread, Goto
  <2>2. CASE Threads \ taken # {}
    <3>1. (CHOOSE v \in Threads \ taken : \A w \in Threads \ taken : v <= w)
             \in Threads \ taken
      BY <2>2, FreeSlot DEF Setting
    <3>2. QED
      BY <2>2, <3>1 DEF NewThread, Goto
  <2>3. QED
    BY <2>1, <2>2
<1>5. \A u \in Threads \ taken : u # t /\ pc[u] = "none"
  <2>1. t \notin Threads \ taken
    BY <1>1, <1>3 DEF IndInv, SlotsExact
  <2>2. QED
    BY <2>1 DEF IndInv, SlotsExact
<1>6. \A u \in Tasks : pc'[u] \in RunPoints => u = t
  BY <1>1, <1>2, <1>3, <1>4, <1>5 DEF RunPoints, IndInv, TypeOK, CallsOK
<1>7. cpu' \in [Levels -> Tasks \cup {NoTask}] /\ RunnersExact'
  BY <1>1, <1>3, <1>4, <1>5, <1>6, RunsOn DEF IndInv
<1>8. CodeOK'
  BY <1>3, <1>4, <1>5 DEF IndInv, TypeOK, CodeOK, critical_code, semaphore, dying
<1>9. ThreadsOK'
  BY <1>3, <1>4, <1>5 DEF IndInv, TypeOK, ThreadsOK, dying
<1>10. CallsOK'
  <2>1. /\ {"leave", "add"} \subseteq Points /\ pc \in [Tasks -> Points]
        /\ target \in [Tasks -> Threads \cup {NoTid}]
    BY DEF Points, RunPoints, IndInv, TypeOK, CallsOK
  <2>2. pc' \in [Tasks -> Points] /\ target' \in [Tasks -> Threads \cup {NoTid}]
    BY <1>4, <2>1
  <2>3. QED
    BY <1>3, <1>7, <2>2 DEF IndInv, TypeOK, CallsOK
<1>11. LineExact'
  <2>1. line' = line /\ line \in Seq(Tasks)
    BY <1>3 DEF IndInv, TypeOK, CodeOK, semaphore
  <2>2. pc[t] # "waiting" /\ \A v \in Tasks : v # t => pc'[v] = pc[v]
    BY <1>1, <1>3, <1>4 DEF IndInv, TypeOK, CallsOK
  <2>3. QED
    BY <2>1, <2>2, LineStays DEF IndInv
<1>12. InodesExact'
  BY <1>3, <1>4, <1>5 DEF IndInv, InodesExact
<1>13. SlotsExact'
  <2>1. \A u \in Threads : u \in taken => Listed(u)
    BY <1>1, <1>2, <1>3 DEF RunPoints, IndInv, SlotsExact, Coming
  <2>2. \A u \in Threads : Listed(u)' <=> Listed(u)
    BY <1>3 DEF Listed
  <2>3. \A u \in Threads : pc'[u] # "none" => u \in taken
    <3>1. pc[t] # "none" /\ \A u \in Tasks : u # t => pc'[u] = pc[u]
      BY <1>1, <1>3, <1>4 DEF IndInv, TypeOK, CallsOK
    <3>2. QED
      BY <1>5, <3>1, Who DEF Setting, IndInv, SlotsExact
  <2>4. \A u \in Threads : u \in taken' => u \in taken \/ Coming(u)'
    BY <1>1, <1>4 DEF Coming, IndInv, TypeOK, CallsOK
  <2>5. \A u \in taken : u \in taken'
    BY <1>4
  <2>6. QED
    BY <2>1, <2>2, <2>3, <2>4, <2>5 DEF SlotsExact
<1>14. CreatesExact'
  <2>1. ASSUME pc'[t] = "add"
        PROVE  target'[t] \in taken' /\ pc'[target'[t]] = "none"
    <3>1. PICK u \in Threads \ taken :
             /\ pc' = [pc EXCEPT ![t] = "add"]
             /\ taken' = taken \cup {u} /\ target' = [target EXCEPT ![t] = u]
      BY <1>1, <1>4, <2>1 DEF IndInv, TypeOK, CallsOK
    <3>2. u # t /\ pc[u] = "none" /\ u \in Tasks
      BY <1>5, Who DEF Setting
    <3>3. QED
      BY <1>1, <3>1, <3>2 DEF IndInv, TypeOK, CallsOK
  <2>2. \A u \in Tasks : pc'[u] \in {"add", "start"} => u = t /\ pc'[u] = "add"
    BY <1>1, <1>6, <1>4 DEF RunPoints, IndInv, TypeOK, CallsOK
  <2>3. QED
    BY <1>3, <2>1, <2>2 DEF CreatesExact, CreateAt, dying
<1>15. DestroysExact'
  <2>1. ASSUME NEW v \in Tasks PROVE DestroyAt(v)'
    <3>1. CASE v = t
      <4>1. pc'[t] # "remove" /\ job'[t] # "destroy"
        BY <1>1, <1>3, <1>4 DEF IndInv, TypeOK, CallsOK
      <4>2. target'[t] = NoTid \/ target'[t] # t
        BY <1>1, <1>4, <1>5 DEF IndInv, TypeOK, CallsOK
      <4>3. QED
        BY <3>1, <4>1, <4>2, Who DEF Setting, DestroyAt
    <3>2. CASE v # t
      <4>1. pc'[v] = pc[v] /\ job'[v] = job[v] /\ target'[v] = target[v] /\ pc[v] # "remove"
        BY <1>1, <1>2, <1>3, <1>4, <3>2 DEF RunPoints, IndInv, TypeOK, CallsOK
      <4>2. QED
        BY <4>1 DEF IndInv, DestroysExact, DestroyAt
    <3>3. QED
      BY <3>1, <3>2
  <2>2. QED
    BY <2>1 DEF DestroysExact
<1>16. KindsExact'
  BY <1>1, <1>3, <1>4, <1>5 DEF IndInv, KindsExact, KindAt, KillPoints, TypeOK, CallsOK
<1>17. MainExact'
  <2>1. terminated = 0 /\ terminated' = 0 /\ kill_state' = kill_state /\ job' = job
    BY <1>3 DEF dying
  <2>2. pc'[Main] \in {pc[Main], "leave", "add"}
    BY <1>4, Who DEF Setting, IndInv, TypeOK, CallsOK
  <2>3. QED
    BY <2>1, <2>2 DEF IndInv, MainExact, KillPoints
<1>18. Quiet' => Quiet
  BY <1>3, <1>4, <1>5 DEF Quiet, dying
<1>19. NoThreadYet'
  <2>1. Quiet => t = Main /\ \A v \in Threads : pc[v] = "none"
    BY <1>1, <1>3, Who DEF Setting, IndInv, NoThreadYet, KindsExact, KindAt
  <2>2. \A u \in Tasks : u # t => pc'[u] = pc[u]
    BY <1>1, <1>4 DEF IndInv, TypeOK, CallsOK
  <2>3. QED
    BY <1>18, <1>3, <2>1, <2>2, Who DEF Setting, IndInv, NoThreadYet
<1>20. SemaphoreExact'
  BY <1>1, <1>3, <1>4, <1>5, <1>18, OwnerStays DEF IndInv, Owner, TypeOK, CallsOK,
     semaphore
<1>21. RecordExact'
  <2>1. Quiet => t = Main /\ \A v \in Threads : pc[v] = "none"
    BY <1>1, <1>3, Who DEF Setting, IndInv, NoThreadYet, KindsExact, KindAt
  <2>2. Quiet => pc[Main] = "inside" /\ pc'[Main] \in {"leave", "add"}
    BY <1>1, <1>3, <1>4, <2>1 DEF IndInv, TypeOK, CallsOK
  <2>3. QED
    BY <1>18, <1>3, <2>2 DEF IndInv, RecordExact, Entered, Marked, critical_code
<1>22. QED
  BY <1>7, <1>8, <1>9, <1>10, <1>11, <1>12, <1>13, <1>14, <1>15, <1>16, <1>17, <1>19,
     <1>20, <1>21 DEF IndInv, TypeOK

\* The new thread gets an inode, which makes it listed.
LEMMA AddThreadKeeps ==
  ASSUME Setting, IndInv, NEW t \in Tasks, AddThread(t)
  PROVE  IndInv'
<1>1. t \in Tasks /\ MayRun(t, ready, cpu)
  BY Who DEF Setting, AddThread, Goto
<1>2. \A u \in Tasks : pc[u] \in RunPoints => u = t
  BY <1>1, Alone DEF IndInv
<1>3. /\ pc[t] = "add" /\ pc' = [pc EXCEPT ![t] = "start"] /\ cpu' = Occupy(t, cpu)
      /\ made' = made + 1 /\ list' = Append(list, made + 1)
      /\ tid_of' = [tid_of EXCEPT ![made + 1] = target[t]]
      /\ inode_of' = [inode_of EXCEPT ![target[t]] = made + 1]
      /\ UNCHANGED <<critical_code, semaphore, dying, taken, fails, job, target, kills, ready>>
  BY DEF AddThread, Goto
<1>4. /\ target[t] \in taken /\ target[t] \in Threads /\ pc[target[t]] = "none" /\ terminated = 0
      /\ made < MaxCreates /\ made \in Nat /\ made + 1 \in Inodes
  BY <1>1, <1>3, Who DEF Setting, IndInv, CreatesExact, CreateAt, TypeOK, ThreadsOK
<1>5. /\ list' \in Seq(1..(made + 1)) /\ Len(list') = Len(list) + 1 /\ Len(list) \in Nat
      /\ \A i \in 1..Len(list) : list'[i] = list[i] /\ list[i] \in 1..made
      /\ list'[Len(list) + 1] = made + 1
  <2>1. list \in Seq(1..made) /\ \A i \in 1..Len(list) : list[i] \in 1..made
    BY ElementOfSeq DEF IndInv, TypeOK, ThreadsOK
  <2>2. list \in Seq(1..(made + 1)) /\ made + 1 \in 1..(made + 1)
    <3>1. \A i \in 1..Len(list) : list[i] \in 1..(made + 1)
      BY <1>4, <2>1
    <3>2. QED
      BY <1>4, <2>1, <3>1, SeqDef
  <2>3. QED
    BY <1>3, <2>1, <2>2
<1>6. \A u \in Tasks : pc'[u] \in RunPoints => u = t
  BY <1>1, <1>2, <1>3, <1>4, <1>5 DEF RunPoints, IndInv, TypeOK, CallsOK
<1>7. cpu' \in [Levels -> Tasks \cup {NoTask}] /\ RunnersExact'
  BY <1>1, <1>3, <1>4, <1>5, <1>6, RunsOn DEF IndInv
<1>8. CodeOK'
  BY <1>3, <1>4, <1>5 DEF IndInv, TypeOK, CodeOK, critical_code, semaphore, dying
<1>9. ThreadsOK'
  <2>1. tid_of \in [Inodes -> Threads \cup {NoTid}] /\ inode_of \in [Threads -> 0..made]
    BY DEF IndInv, TypeOK, ThreadsOK
  <2>2. tid_of' \in [Inodes -> Threads \cup {NoTid}]
    BY <1>3, <1>4, <2>1
  <2>3. 0..made \subseteq 0..(made + 1) /\ made + 1 \in 0..(made + 1) /\ made + 1 \in 0..MaxCreates
    BY <1>4, Who DEF Setting
  <2>4. inode_of' \in [Threads -> 0..(made + 1)]
    BY <1>3, <1>4, <2>1, <2>3
  <2>5. \A i \in 1..(made + 1) : tid_of'[i] \in Threads
    <3>1. \A i \in 1..(made + 1) : i \in Inodes /\ (i = made + 1 \/ i \in 1..made)
      BY <1>4, Who DEF Setting
    <3>2. QED
      BY <1>3, <1>4, <2>1, <3>1 DEF IndInv, TypeOK, ThreadsOK
  <2>6. cursor' \in 0..(made + 1)
    BY <1>3, <2>3 DEF dying, IndInv, TypeOK, ThreadsOK
  <2>7. QED
    BY <1>3, <1>5, <2>2, <2>3, <2>4, <2>5, <2>6 DEF IndInv, TypeOK, ThreadsOK
<1>10. CallsOK'
  BY <1>1, <1>3, <1>4, <1>5, <1>7 DEF IndInv, TypeOK, CallsOK, Points, RunPoints,
     KillPoints, WorkKinds
<1>11. LineExact'
  BY <1>1, <1>3, <1>4, <1>5 DEF IndInv, LineExact, TypeOK, CodeOK, CallsOK, semaphore
<1>12. InodesExact'
  <2>1. ASSUME NEW u \in Threads, inode_of'[u] # NoInode PROVE tid_of'[inode_of'[u]] = u
    <3>1. CASE u = target[t]
      BY <1>3, <1>4, <3>1 DEF IndInv, TypeOK, ThreadsOK
    <3>2. CASE u # target[t]
      <4>1. inode_of'[u] = inode_of[u] /\ inode_of[u] \in 0..made /\ inode_of[u] # made + 1
        BY <1>3, <1>4, <3>2 DEF IndInv, TypeOK, ThreadsOK
      <4>2. tid_of'[inode_of[u]] = tid_of[inode_of[u]]
        <5>1. inode_of[u] \in Inodes
          BY <1>4, <2>1, <4>1, Who DEF Setting, NoInode
        <5>2. QED
          BY <1>3, <4>1, <5>1 DEF IndInv, TypeOK, ThreadsOK
      <4>3. QED
        BY <2>1, <4>1, <4>2 DEF IndInv, InodesExact
    <3>3. QED
      BY <3>1, <3>2
  <2>2. QED
    BY <2>1 DEF InodesExact
<1>13. SlotsExact'
  <2>1. \A u \in Threads : u \in taken /\ u # target[t] => Listed(u)
    BY <1>1, <1>2 DEF RunPoints, IndInv, SlotsExact, Coming
  <2>2. \A u \in Threads : u # target[t] /\ Listed(u) => Listed(u)'
    <3>1. \A u \in Threads : u # target[t] => inode_of'[u] = inode_of[u]
      BY <1>3, <1>4 DEF IndInv, TypeOK, ThreadsOK
    <3>2. \A i \in 1..Len(list) : i \in 1..Len(list')
      BY <1>5
    <3>3. QED
      BY <1>5, <3>1, <3>2 DEF Listed
  <2>3. Listed(target[t])'
    <3>1. inode_of'[target'[t]] = made + 1
      BY <1>3, <1>4 DEF IndInv, TypeOK, ThreadsOK
    <3>2. Len(list) + 1 \in 1..Len(list') /\ list'[Len(list) + 1] = made + 1
      BY <1>5
    <3>3. QED
      BY <3>1, <3>2 DEF Listed
  <2>4. target'[t] = target[t]
    BY <1>3
  <2>5. \A u \in Threads : pc'[u] # "none" => u \in taken
    BY <1>1, <1>3 DEF IndInv, SlotsExact, TypeOK, CallsOK
  <2>6. QED
    BY <1>3, <2>1, <2>2, <2>3, <2>4, <2>5 DEF SlotsExact, Listed
<1>14. CreatesExact'
  <2>1. /\ pc'[t] = "start" /\ target'[t] = target[t] /\ pc'[target[t]] = "none"
        /\ target[t] \in taken' /\ terminated' = 0
    BY <1>1, <1>3, <1>4 DEF IndInv, TypeOK, CallsOK, dying
  <2>2. Listed(target[t])'
    <3>1. inode_of'[target'[t]] = made + 1
      BY <1>3, <1>4 DEF IndInv, TypeOK, ThreadsOK
    <3>2. Len(list) + 1 \in 1..Len(list') /\ list'[Len(list) + 1] = made + 1
      BY <1>5
    <3>3. QED
      BY <3>1, <3>2 DEF Listed
  <2>3. QED
    BY <1>6, <2>1, <2>2 DEF RunPoints, CreatesExact, CreateAt, Listed
<1>15. DestroysExact'
  BY <1>1, <1>3, <1>4, <1>5, <1>6 DEF IndInv, DestroysExact, DestroyAt, RunPoints,
     TypeOK, CallsOK
<1>16. KindsExact'
  BY <1>1, <1>3, <1>4, <1>5 DEF IndInv, KindsExact, KindAt, KillPoints, TypeOK, CallsOK
<1>17. MainExact'
  BY <1>1, <1>3, <1>4, <1>5 DEF IndInv, MainExact, KillPoints, DestroyBefore,
     DestroyAfter, TypeOK, CallsOK, dying
<1>18. ~ Quiet'
  BY <1>1, <1>3, <1>4, <1>5 DEF IndInv, Quiet, MainExact, KillPoints, dying
<1>19. NoThreadYet' /\ SemaphoreExact' /\ RecordExact'
  BY <1>18 DEF NoThreadYet, SemaphoreExact, RecordExact
<1>20. QED
  BY <1>7, <1>8, <1>9, <1>10, <1>11, <1>12, <1>13, <1>14, <1>15, <1>16, <1>17, <1>19 DEF
     IndInv, TypeOK

\* The new thread exists: it has a slot and an inode.
LEMMA StartThreadKeeps ==
  ASSUME Setting, IndInv, NEW t \in Tasks, StartThread(t)
  PROVE  IndInv'
<1>1. t \in Tasks /\ MayRun(t, ready, cpu)
  BY Who DEF Setting, StartThread
<1>2. \A u \in Tasks : pc[u] \in RunPoints => u = t
  BY <1>1, Alone DEF IndInv
<1>3. /\ target[t] \in Threads /\ target[t] \in taken /\ target[t] # t
      /\ pc[target[t]] = "none" /\ terminated = 0 /\ Listed(target[t]) /\ pc[t] = "start"
  BY <1>1, Who DEF Setting, IndInv, CreatesExact, CreateAt, DestroysExact, DestroyAt, TypeOK,
     ThreadsOK, StartThread
<1>4. /\ pc'[t] = "leave" /\ pc'[target[t]] = "idle" /\ pc' \in [Tasks -> Points]
      /\ \A v \in Tasks : v # t /\ v # target[t] => pc'[v] = pc[v]
      /\ cpu' = Occupy(t, cpu) /\ job' = [job EXCEPT ![target[t]] = "none"]
      /\ ready' = ready \cup {target[t]}
      /\ UNCHANGED <<critical_code, semaphore, dying, threads, target, kills>>
  <2>1. pc \in [Tasks -> Points] /\ {"leave", "idle"} \subseteq Points
    BY DEF IndInv, TypeOK, CallsOK, Points
  <2>2. target[t] \in Tasks
    BY <1>3, Who DEF Setting
  <2>3. QED
    BY <1>1, <1>3, <2>1, <2>2 DEF StartThread
<1>5. \A u \in Tasks : pc'[u] \in RunPoints => u = t
  BY <1>1, <1>2, <1>3, <1>4 DEF RunPoints, IndInv, TypeOK, CallsOK
<1>6. cpu' \in [Levels -> Tasks \cup {NoTask}] /\ RunnersExact'
  BY <1>1, <1>3, <1>4, <1>5, RunsOn DEF IndInv
<1>7. CodeOK'
  BY <1>3, <1>4 DEF IndInv, TypeOK, CodeOK, critical_code, semaphore, dying
<1>8. ThreadsOK'
  BY <1>3, <1>4 DEF IndInv, TypeOK, ThreadsOK, dying, threads
<1>9. CallsOK'
  BY <1>1, <1>3, <1>4, <1>6, Who DEF Setting, IndInv, TypeOK, CallsOK, Points,
     RunPoints, KillPoints, WorkKinds, critical_code, semaphore, dying, threads
<1>10. LineExact'
  BY <1>1, <1>3, <1>4 DEF IndInv, LineExact, TypeOK, CodeOK, CallsOK, semaphore
<1>11. InodesExact'
  BY <1>3, <1>4 DEF IndInv, InodesExact, threads
<1>12. SlotsExact'
  <2>1. \A v \in Tasks : pc[v] # "add"
    BY <1>1, <1>2, <1>3 DEF RunPoints
  <2>2. \A v \in Threads : pc'[v] # "none" => v \in taken
    BY <1>1, <1>3, <1>4, Who DEF Setting, IndInv, SlotsExact
  <2>3. QED
    BY <1>4, <2>1, <2>2, SlotsStay DEF IndInv, threads
<1>13. CreatesExact'
  BY <1>1, <1>3, <1>4, <1>5 DEF CreatesExact, CreateAt, RunPoints, IndInv, TypeOK,
     CallsOK, dying, threads
<1>14. DestroysExact'
  BY <1>1, <1>3, <1>4, <1>5 DEF IndInv, DestroysExact, DestroyAt, RunPoints, TypeOK,
     CallsOK, threads
<1>15. KindsExact'
  BY <1>1, <1>3, <1>4 DEF IndInv, KindsExact, KindAt, KillPoints, TypeOK, CallsOK
<1>16. MainExact'
  <2>1. terminated = 0 /\ terminated' = 0 /\ kill_state' = kill_state /\ job'[Main] = job[Main]
    BY <1>3, <1>4, Who DEF Setting, IndInv, TypeOK, CallsOK, dying
  <2>2. pc'[Main] \in {pc[Main], "leave"}
    BY <1>3, <1>4, Who DEF Setting
  <2>3. QED
    BY <2>1, <2>2 DEF IndInv, MainExact, KillPoints
<1>17. ~ Quiet'
  BY <1>1, <1>3, <1>4, Who DEF Setting, IndInv, Quiet, NoThreadYet, CreatesExact,
     CreateAt, KindsExact, KindAt, MainExact, Listed, KillPoints, TypeOK, CodeOK,
     ThreadsOK, CallsOK, critical_code, semaphore, dying, threads
<1>18. NoThreadYet' /\ SemaphoreExact' /\ RecordExact'
  BY <1>17 DEF NoThreadYet, SemaphoreExact, RecordExact
<1>19. QED
  BY <1>6, <1>7, <1>8, <1>9, <1>10, <1>11, <1>12, <1>13, <1>14, <1>15, <1>16, <1>18 DEF
     IndInv, TypeOK

\* The new thread does not come into being: its slot is free again.
LEMMA StartFailsKeeps ==
  ASSUME Setting, IndInv, NEW t \in Tasks, StartFails(t)
  PROVE  IndInv'
<1>1. t \in Tasks /\ MayRun(t, ready, cpu)
  BY Who DEF Setting, StartFails, Goto
<1>2. \A u \in Tasks : pc[u] \in RunPoints => u = t
  BY <1>1, Alone DEF IndInv
<1>3. /\ pc[t] = "start" /\ pc' = [pc EXCEPT ![t] = "leave"] /\ cpu' = Occupy(t, cpu)
      /\ fails' = fails + 1 /\ taken' = taken \ {target[t]}
      /\ UNCHANGED <<critical_code, semaphore, dying, list, tid_of, inode_of, made, job, target,
                     kills, ready>>
  BY DEF StartFails, Goto
<1>4. target[t] \in Threads /\ target[t] # t /\ pc[target[t]] = "none" /\ terminated = 0
  BY <1>1, <1>3, Who DEF Setting, IndInv, CreatesExact, CreateAt, DestroysExact, DestroyAt,
     TypeOK, ThreadsOK
<1>5. \A u \in Tasks : pc'[u] \in RunPoints => u = t
  BY <1>1, <1>2, <1>3, <1>4 DEF RunPoints, IndInv, TypeOK, CallsOK
<1>6. cpu' \in [Levels -> Tasks \cup {NoTask}] /\ RunnersExact'
  BY <1>1, <1>3, <1>4, <1>5, RunsOn DEF IndInv
<1>7. CodeOK'
  BY <1>3, <1>4 DEF IndInv, TypeOK, CodeOK, critical_code, semaphore, dying
<1>8. ThreadsOK'
  BY <1>3, <1>4 DEF IndInv, TypeOK, ThreadsOK, dying
<1>9. CallsOK'
  BY <1>1, <1>3, <1>4, <1>6 DEF IndInv, TypeOK, CallsOK, Points, RunPoints, KillPoints,
     WorkKinds
<1>10. LineExact'
  BY <1>1, <1>3, <1>4 DEF IndInv, LineExact, TypeOK, CodeOK, CallsOK, semaphore
<1>11. InodesExact'
  BY <1>3, <1>4 DEF IndInv, InodesExact
<1>12. SlotsExact'
  BY <1>1, <1>2, <1>3, <1>4 DEF IndInv, SlotsExact, Coming, Listed, RunPoints, TypeOK,
     CallsOK
<1>13. CreatesExact'
  BY <1>1, <1>3, <1>4, <1>5 DEF CreatesExact, CreateAt, RunPoints, IndInv, TypeOK,
     CallsOK, dying
<1>14. DestroysExact'
  BY <1>1, <1>3, <1>4, <1>5 DEF IndInv, DestroysExact, DestroyAt, RunPoints, TypeOK,
     CallsOK
<1>15. KindsExact'
  BY <1>1, <1>3, <1>4 DEF IndInv, KindsExact, KindAt, KillPoints, TypeOK, CallsOK
<1>16. MainExact'
  BY <1>1, <1>3, <1>4 DEF IndInv, MainExact, KillPoints, DestroyBefore, DestroyAfter,
     TypeOK, CallsOK, dying
<1>17. ~ Quiet'
  BY <1>1, <1>3, <1>4, Who DEF Setting, IndInv, Quiet, NoThreadYet, CreatesExact,
     CreateAt, KindsExact, KindAt, MainExact, Listed, KillPoints, TypeOK, CodeOK,
     ThreadsOK, CallsOK, critical_code, semaphore, dying
<1>18. NoThreadYet' /\ SemaphoreExact' /\ RecordExact'
  BY <1>17 DEF NoThreadYet, SemaphoreExact, RecordExact
<1>19. QED
  BY <1>6, <1>7, <1>8, <1>9, <1>10, <1>11, <1>12, <1>13, <1>14, <1>15, <1>16, <1>18 DEF
     IndInv, TypeOK

\* The task of another thread is terminated, in the queue or elsewhere.
LEMMA DestroyThreadKeeps ==
  ASSUME Setting, IndInv, NEW t \in Tasks, DestroyThread(t)
  PROVE  IndInv'
<1>1. t \in Tasks /\ MayRun(t, ready, cpu)
  BY Who DEF Setting, DestroyThread
<1>2. \A u \in Tasks : pc[u] \in RunPoints => u = t
  BY <1>1, Alone DEF IndInv
<1>3. /\ target[t] \in Threads /\ target[t] # t /\ target[t] \in Tasks
      /\ job[t] = "destroy" /\ pc[t] = "inside"
  BY <1>1, Who DEF Setting, IndInv, DestroysExact, DestroyAt, DestroyThread
<1>4. /\ pc'[t] = "remove" /\ pc'[target[t]] = "none" /\ pc' \in [Tasks -> Points]
      /\ \A v \in Tasks : v # t /\ v # target[t] => pc'[v] = pc[v]
      /\ ready' = ready \ {target[t]} /\ cpu' = Occupy(t, Evict(target[t], cpu))
      /\ UNCHANGED <<critical_code, mutex, dying, threads, job, target, kills>>
  <2>1. pc \in [Tasks -> Points] /\ {"remove", "none"} \subseteq Points
    BY DEF IndInv, TypeOK, CallsOK, Points, RunPoints
  <2>2. QED
    BY <1>1, <1>3, <2>1 DEF DestroyThread
<1>5. /\ line' \in Seq(Tasks) /\ Distinct(line')
      /\ \A i \in 1..Len(line') : line'[i] # target[t] /\ \E j \in 1..Len(line) : line'[i] = line[j]
  <2>1. line \in Seq(Tasks) /\ Distinct(line)
    BY DEF IndInv, TypeOK, CodeOK, LineExact
  <2>2. line' = RemoveFirst(line, target[t])
    BY DEF DestroyThread
  <2>3. QED
    BY <2>1, <2>2, RemoveFirstFacts
<1>6. \A u \in Tasks : pc'[u] \in RunPoints => u = t
  BY <1>1, <1>2, <1>3, <1>4, <1>5 DEF RunPoints, IndInv, TypeOK, CallsOK
<1>7. cpu' \in [Levels -> Tasks \cup {NoTask}] /\ RunnersExact'
  BY <1>1, <1>3, <1>4, <1>5, <1>6, RunsOn DEF IndInv
<1>8. CodeOK'
  BY <1>3, <1>4, <1>5 DEF IndInv, TypeOK, CodeOK, critical_code, dying
<1>9. ThreadsOK'
  BY <1>3, <1>4, <1>5 DEF IndInv, TypeOK, ThreadsOK, dying, threads
<1>10. CallsOK'
  BY <1>1, <1>3, <1>4, <1>5, <1>7 DEF IndInv, TypeOK, CallsOK, Points, RunPoints,
     KillPoints, WorkKinds, threads
<1>11. LineExact'
  BY <1>1, <1>3, <1>4, <1>5 DEF IndInv, LineExact, TypeOK, CodeOK, CallsOK
<1>12. InodesExact'
  BY <1>3, <1>4, <1>5 DEF IndInv, InodesExact, threads
<1>13. SlotsExact'
  <2>1. \A v \in Tasks : pc[v] # "add"
    BY <1>1, <1>2, <1>3 DEF RunPoints
  <2>2. \A u \in Threads : pc'[u] # "none" => u \in taken
    BY <1>1, <1>3, <1>4, Who DEF Setting, IndInv, SlotsExact
  <2>3. QED
    BY <1>4, <2>1, <2>2, SlotsStay DEF IndInv, threads
<1>14. CreatesExact'
  BY <1>1, <1>3, <1>4, <1>5, <1>6 DEF CreatesExact, CreateAt, RunPoints, IndInv, TypeOK,
     CallsOK, dying, threads
<1>15. DestroysExact'
  BY <1>1, <1>3, <1>4, <1>5, <1>6 DEF IndInv, DestroysExact, DestroyAt, RunPoints,
     TypeOK, CallsOK, threads
<1>16. KindsExact'
  <2>1. t \notin Killers /\ target[t] \notin Killers /\ target[t] # Main
    BY <1>1, <1>3, Who DEF Setting, IndInv, KindsExact, KindAt
  <2>2. ASSUME NEW v \in Tasks PROVE KindAt(v)'
    <3>1. CASE v = t
      BY <1>3, <1>4, <2>1, <3>1 DEF IndInv, KindsExact, KindAt, KillPoints
    <3>2. CASE v = target[t]
      BY <1>3, <1>4, <2>1, <3>2 DEF IndInv, KindsExact, KindAt, KillPoints
    <3>3. CASE v # t /\ v # target[t]
      BY <1>4, <3>3 DEF IndInv, KindsExact, KindAt
    <3>4. QED
      BY <3>1, <3>2, <3>3
  <2>3. QED
    BY <2>2 DEF KindsExact
<1>17. MainExact'
  <2>1. \/ pc'[Main] = pc[Main]
        \/ pc[Main] = "inside" /\ pc'[Main] = "remove"
    BY <1>3, <1>4, Who DEF Setting
  <2>2. CASE pc'[Main] = pc[Main]
    BY <1>4, <2>2 DEF IndInv, MainExact, DestroyBefore, DestroyAfter, KillPoints, dying, threads
  <2>3. CASE pc[Main] = "inside" /\ pc'[Main] = "remove"
    BY <1>4, <2>3 DEF IndInv, MainExact, DestroyBefore, DestroyAfter, KillPoints, dying, threads
  <2>4. QED
    BY <2>1, <2>2, <2>3
<1>18. ~ Quiet'
  BY <1>1, <1>3, <1>4, Who DEF Setting, IndInv, NoThreadYet, Quiet, KindsExact, KindAt, dying,
     threads
<1>19. NoThreadYet' /\ SemaphoreExact' /\ RecordExact'
  BY <1>18 DEF NoThreadYet, SemaphoreExact, RecordExact
<1>20. QED
  BY <1>7, <1>8, <1>9, <1>10, <1>11, <1>12, <1>13, <1>14, <1>15, <1>16, <1>17, <1>19 DEF
     IndInv, TypeOK

\* The inode and the slot of the terminated thread go, and no other's.
LEMMA RemoveThreadKeeps ==
  ASSUME Setting, IndInv, NEW t \in Tasks, RemoveThread(t)
  PROVE  IndInv'
<1>1. t \in Tasks /\ MayRun(t, ready, cpu)
  BY Who DEF Setting, RemoveThread, Goto
<1>2. \A u \in Tasks : pc[u] \in RunPoints => u = t
  BY <1>1, Alone DEF IndInv
<1>3. /\ pc[t] = "remove" /\ pc' = [pc EXCEPT ![t] = "leave"] /\ cpu' = Occupy(t, cpu)
      /\ inode_of' = [inode_of EXCEPT ![target[t]] = NoInode]
      /\ taken' = taken \ {target[t]}
      /\ UNCHANGED <<critical_code, semaphore, dying, tid_of, made, fails, job, target, kills,
                     ready>>
  BY DEF RemoveThread, Goto
<1>4. target[t] \in Threads /\ pc[target[t]] = "none"
  BY <1>1, <1>3 DEF IndInv, DestroysExact, DestroyAt
<1>5. /\ list' \in Seq(1..made)
      /\ \A j \in 1..Len(list) :
           list[j] # inode_of[target[t]] => \E i \in 1..Len(list') : list'[i] = list[j]
  <2> DEFINE e == inode_of[target[t]]
             S == 1..made
  <2>1. list \in Seq(S) /\ list' = RemoveFirst(list, e)
    BY DEF IndInv, TypeOK, ThreadsOK, RemoveThread
  <2> HIDE DEF e, S
  <2>2. /\ list' \in Seq(S)
        /\ \A j \in 1..Len(list) :
             list[j] # e => \E i \in 1..Len(list') : list'[i] = list[j]
    BY <2>1, RemoveFirstFacts
  <2>3. QED
    BY <2>2 DEF e, S
<1>6. Quiet => t = Main
  BY <1>1, <1>3, Who DEF Setting, IndInv, NoThreadYet, KindsExact, KindAt
<1>7. \A u \in Tasks : pc'[u] \in RunPoints => u = t
  BY <1>1, <1>2, <1>3, <1>4, <1>5, <1>6 DEF RunPoints, IndInv, TypeOK, CallsOK
<1>8. cpu' \in [Levels -> Tasks \cup {NoTask}] /\ RunnersExact'
  BY <1>1, <1>3, <1>4, <1>5, <1>6, <1>7, RunsOn DEF IndInv
<1>9. CodeOK'
  BY <1>3, <1>4, <1>5, <1>6 DEF IndInv, TypeOK, CodeOK, critical_code, semaphore, dying
<1>10. ThreadsOK'
  BY <1>3, <1>4, <1>5 DEF IndInv, TypeOK, ThreadsOK, NoInode, dying
<1>11. CallsOK'
  BY <1>1, <1>3, <1>4, <1>5, <1>6, <1>8 DEF IndInv, TypeOK, CallsOK, Points, RunPoints,
     KillPoints, WorkKinds
<1>12. LineExact'
  BY <1>1, <1>3, <1>4, <1>5, <1>6 DEF IndInv, LineExact, TypeOK, CodeOK, CallsOK,
     semaphore
<1>13. InodesExact'
  BY <1>3, <1>4, <1>5, <1>6 DEF IndInv, InodesExact
<1>14. SlotsExact'
  <2>1. \A v \in Threads : v \in taken => Listed(v)
    BY <1>1, <1>2, <1>3 DEF RunPoints, IndInv, SlotsExact, Coming
  <2>2. \A v \in Threads : inode_of'[v] = IF v = target[t] THEN NoInode ELSE inode_of[v]
    BY <1>3, <1>4 DEF IndInv, TypeOK, ThreadsOK
  <2>3. ASSUME NEW v \in Threads, v \in taken, v # target[t] PROVE Listed(v)'
    <3>1. PICK j \in 1..Len(list) : list[j] = inode_of[v]
      BY <2>1, <2>3 DEF Listed
    <3>2. list[j] # inode_of[target[t]]
      <4>1. inode_of[v] # NoInode
        <5>1. list[j] \in 1..made
          BY ElementOfSeq DEF IndInv, TypeOK, ThreadsOK
        <5>2. QED
          BY <3>1, <5>1 DEF NoInode
      <4>2. QED
        BY <1>4, <2>3, <3>1, <4>1 DEF IndInv, InodesExact
    <3>3. QED
      BY <1>5, <2>2, <2>3, <3>1, <3>2 DEF Listed
  <2>4. \A v \in Threads : pc'[v] # "none" => v \in taken /\ v # target[t]
    BY <1>1, <1>3, <1>4 DEF IndInv, SlotsExact, DestroysExact, DestroyAt, TypeOK, CallsOK
  <2>5. QED
    BY <1>3, <2>3, <2>4 DEF SlotsExact
<1>15. CreatesExact'
  BY <1>1, <1>3, <1>4, <1>5, <1>6, <1>7 DEF CreatesExact, CreateAt, RunPoints, IndInv,
     TypeOK, CallsOK, dying
<1>16. DestroysExact'
  BY <1>1, <1>3, <1>4, <1>5, <1>6, <1>7 DEF IndInv, DestroysExact, DestroyAt, RunPoints,
     TypeOK, CallsOK
<1>17. KindsExact'
  BY <1>1, <1>3, <1>4, <1>5, <1>6 DEF IndInv, KindsExact, KindAt, KillPoints, TypeOK,
     CallsOK
<1>18. MainExact'
  BY <1>1, <1>3, <1>4, <1>5, <1>6 DEF IndInv, MainExact, KillPoints, DestroyBefore,
     DestroyAfter, TypeOK, CallsOK, dying
<1>19. ~ Quiet'
  BY <1>1, <1>3, <1>6, Who DEF Setting, IndInv, NoThreadYet, Quiet, KindsExact, KindAt, dying
<1>20. NoThreadYet' /\ SemaphoreExact' /\ RecordExact'
  BY <1>19 DEF NoThreadYet, SemaphoreExact, RecordExact
<1>21. QED
  BY <1>8, <1>9, <1>10, <1>11, <1>12, <1>13, <1>14, <1>15, <1>16, <1>17, <1>18, <1>20
     DEF IndInv, TypeOK

\* A kill begins: its task needs the mutex before it hits.
LEMMA KillKeeps ==
  ASSUME Setting, IndInv, NEW t \in Tasks \ {Main}, Kill(t)
  PROVE  IndInv'
<1>1. t \in Tasks /\ MayRun(t, ready, cpu)
  BY Who DEF Setting, Kill, Goto
<1>2. \A u \in Tasks : pc[u] \in RunPoints => u = t
  BY <1>1, Alone DEF IndInv
<1>3. \A u \in Tasks : pc'[u] \in RunPoints => u = t
  BY <1>1, <1>2 DEF RunPoints, IndInv, TypeOK, CallsOK, Kill, Goto
<1>4. cpu' \in [Levels -> Tasks \cup {NoTask}] /\ RunnersExact'
  BY <1>1, <1>3, RunsOn DEF IndInv, Kill, Goto
<1>5. CodeOK'
  BY DEF IndInv, TypeOK, CodeOK, Kill, Goto, Alive, critical_code, semaphore, dying
<1>6. ThreadsOK'
  BY DEF IndInv, TypeOK, ThreadsOK, Kill, Goto, dying, threads
<1>7. CallsOK'
  BY <1>1, <1>4 DEF IndInv, TypeOK, CallsOK, Points, RunPoints, KillPoints, WorkKinds,
     Kill, Goto, threads
<1>8. LineExact'
  BY <1>1 DEF IndInv, LineExact, TypeOK, CodeOK, CallsOK, Kill, Goto, semaphore
<1>9. InodesExact'
  BY DEF IndInv, InodesExact, Kill, Goto, threads
<1>10. SlotsExact'
  BY <1>1, <1>2 DEF IndInv, SlotsExact, Coming, Listed, RunPoints, TypeOK, CallsOK,
     Kill, Goto, threads
<1>11. CreatesExact'
  BY <1>1, <1>3 DEF CreatesExact, CreateAt, RunPoints, IndInv, TypeOK, CallsOK, Kill,
     Goto, dying, threads
<1>12. DestroysExact'
  BY <1>1, <1>3 DEF IndInv, DestroysExact, DestroyAt, RunPoints, TypeOK, CallsOK, Kill,
     Goto, threads
<1>13. KindsExact'
  BY <1>1 DEF IndInv, KindsExact, KindAt, KillPoints, TypeOK, CallsOK, Kill, Goto
<1>14. MainExact'
  BY <1>1 DEF IndInv, MainExact, KillPoints, DestroyBefore, DestroyAfter, TypeOK,
     CallsOK, Kill, Goto, dying, threads
<1>15. Quiet' => Quiet
  BY DEF Quiet, Kill, Goto, Alive, dying, threads
<1>16. NoThreadYet'
  BY <1>1, <1>15 DEF IndInv, NoThreadYet, TypeOK, CallsOK, Kill, Goto, Alive
<1>17. SemaphoreExact'
  BY <1>1, <1>2, <1>15, OwnerStays, Who DEF Setting, IndInv, Quiet, NoThreadYet,
     RecordExact, Owner, MainExact, KindsExact, KindAt, Entered, Marked, RunPoints,
     TypeOK, CodeOK, CallsOK, Kill, Goto, Alive, critical_code, semaphore, dying,
     threads
<1>18. RecordExact'
  BY <1>1, <1>15 DEF IndInv, RecordExact, Entered, Marked, TypeOK, CallsOK, Kill, Goto,
     Alive, critical_code
<1>19. QED
  BY <1>4, <1>5, <1>6, <1>7, <1>8, <1>9, <1>10, <1>11, <1>12, <1>13, <1>14, <1>16,
     <1>17, <1>18 DEF IndInv, TypeOK

\* A hit: the killer is the owner, and the main starts again.
LEMMA HitKeeps ==
  ASSUME Setting, IndInv, NEW t \in Tasks, Hit(t)
  PROVE  IndInv'
<1>1. t \in Tasks /\ MayRun(t, ready, cpu)
  BY Who DEF Setting, Hit
<1>2. \A u \in Tasks : pc[u] \in RunPoints => u = t
  BY <1>1, Alone DEF IndInv
<1>3. t # Main /\ pc[t] = "hit" /\ Main \in Tasks
  BY <1>1, Who DEF Setting, IndInv, KindsExact, KindAt, Hit
<1>4. /\ pc'[t] = "idle" /\ pc' \in [Tasks -> Points]
      /\ (pc[Main] = "none" => pc'[Main] = "none") /\ (pc[Main] # "none" => pc'[Main] = "begin")
      /\ \A v \in Tasks : v # t /\ v # Main => pc'[v] = pc[v]
      /\ kill_mode' = TRUE /\ terminated' = 1 /\ cpu' = Occupy(t, Evict(Main, cpu))
      /\ ready' \in {ready, ready \cup {Main}}
      /\ UNCHANGED <<critical_code, mutex, kill_state, cursor, threads, job, target, kills>>
  <2>1. pc \in [Tasks -> Points] /\ {"idle", "begin", "none"} \subseteq Points
    BY DEF IndInv, TypeOK, CallsOK, Points, KillPoints
  <2>2. QED
    BY <1>1, <1>3, <2>1 DEF Hit
<1>5. /\ line' \in Seq(Tasks) /\ Distinct(line')
      /\ \A i \in 1..Len(line') : line'[i] # Main /\ \E j \in 1..Len(line) : line'[i] = line[j]
  <2>1. line \in Seq(Tasks) /\ Distinct(line)
    BY DEF IndInv, TypeOK, CodeOK, LineExact
  <2>2. line' = RemoveFirst(line, Main)
    BY DEF Hit
  <2>3. QED
    BY <2>1, <2>2, RemoveFirstFacts
<1>6. \A u \in Tasks : pc'[u] \in RunPoints => u = t
  BY <1>1, <1>2, <1>3, <1>4, <1>5 DEF RunPoints, IndInv, TypeOK, CallsOK
<1>7. cpu' \in [Levels -> Tasks \cup {NoTask}] /\ RunnersExact'
  BY <1>1, <1>3, <1>4, <1>5, <1>6, RunsOn DEF IndInv
<1>8. CodeOK'
  BY <1>3, <1>4, <1>5 DEF IndInv, TypeOK, CodeOK, critical_code
<1>9. ThreadsOK'
  BY <1>3, <1>4, <1>5 DEF IndInv, TypeOK, ThreadsOK, threads
<1>10. CallsOK'
  BY <1>1, <1>3, <1>4, <1>5, <1>7 DEF IndInv, TypeOK, CallsOK, Points, RunPoints,
     KillPoints, WorkKinds, threads
<1>11. LineExact'
  BY <1>1, <1>3, <1>4, <1>5 DEF IndInv, LineExact, TypeOK, CodeOK, CallsOK
<1>12. InodesExact'
  BY <1>3, <1>4, <1>5 DEF IndInv, InodesExact, threads
<1>13. SlotsExact'
  <2>1. \A v \in Tasks : pc[v] # "add"
    BY <1>1, <1>2, <1>3 DEF RunPoints
  <2>2. \A u \in Threads : pc'[u] # "none" => u \in taken
    BY <1>1, <1>3, <1>4, Who DEF Setting, IndInv, SlotsExact
  <2>3. QED
    BY <1>4, <2>1, <2>2, SlotsStay DEF IndInv, threads
<1>14. CreatesExact'
  BY <1>1, <1>3, <1>4, <1>5, <1>6 DEF CreatesExact, CreateAt, RunPoints, IndInv, TypeOK,
     CallsOK, threads
<1>15. DestroysExact'
  BY <1>1, <1>3, <1>4, <1>5, <1>6 DEF IndInv, DestroysExact, DestroyAt, RunPoints,
     TypeOK, CallsOK, threads
<1>16. KindsExact'
  <2>1. ASSUME NEW v \in Tasks PROVE KindAt(v)'
    <3>1. CASE v = t
      BY <1>3, <1>4, <3>1 DEF IndInv, KindsExact, KindAt, KillPoints
    <3>2. CASE v = Main
      BY <1>3, <1>4, <3>2, Who DEF Setting, IndInv, KindsExact, KindAt, KillPoints
    <3>3. CASE v # t /\ v # Main
      BY <1>4, <3>3 DEF IndInv, KindsExact, KindAt
    <3>4. QED
      BY <3>1, <3>2, <3>3
  <2>2. QED
    BY <2>1 DEF KindsExact
<1>17. MainExact'
  BY <1>1, <1>3, <1>4, <1>5 DEF IndInv, MainExact, KillPoints, DestroyBefore,
     DestroyAfter, TypeOK, CallsOK, threads
<1>18. ~ Quiet'
  BY <1>1, <1>3, <1>4, <1>5 DEF IndInv, Quiet, MainExact, KillPoints, threads
<1>19. NoThreadYet' /\ SemaphoreExact' /\ RecordExact'
  BY <1>18 DEF NoThreadYet, SemaphoreExact, RecordExact
<1>20. QED
  BY <1>7, <1>8, <1>9, <1>10, <1>11, <1>12, <1>13, <1>14, <1>15, <1>16, <1>17, <1>19 DEF
     IndInv, TypeOK

\* A task gives the processor up in its own work, in critical code or in a death.
LEMMA SleepKeeps ==
  ASSUME Setting, IndInv, NEW t \in Tasks, Sleep(t)
  PROVE  IndInv'
<1>1. t \in Tasks /\ MayRun(t, ready, cpu)
  BY Who DEF Setting, Sleep
<1>2. \A u \in Tasks : pc[u] \in RunPoints => u = t
  BY <1>1, Alone DEF IndInv
<1>3. /\ cpu' = GiveUp(t, cpu) /\ ready' = ready \ {t}
      /\ UNCHANGED <<critical_code, semaphore, dying, threads, job, target, kills>>
  BY DEF Sleep
<1>4. \/ pc[t] = "idle" /\ pc' = pc
      \/ pc[t] = "inside" /\ job[t] = "use" /\ pc' = [pc EXCEPT ![t] = "leave"]
      \/ pc[t] = "children" /\ pc' = [pc EXCEPT ![t] = "walk"]
  BY DEF Sleep
<1>5. \A u \in Tasks : pc'[u] \in RunPoints => u = t
  BY <1>1, <1>2, <1>3, <1>4 DEF RunPoints, IndInv, TypeOK, CallsOK
<1>6. cpu' \in [Levels -> Tasks \cup {NoTask}] /\ RunnersExact'
  BY <1>1, <1>3, <1>4, <1>5, RunsOn DEF IndInv, TypeOK, CallsOK, RunPoints,
     critical_code, semaphore, dying, threads
<1>7. CodeOK'
  BY <1>3, <1>4 DEF IndInv, TypeOK, CodeOK, critical_code, semaphore, dying
<1>8. ThreadsOK'
  BY <1>3, <1>4 DEF IndInv, TypeOK, ThreadsOK, dying, threads
<1>9. CallsOK'
  <2>1. pc \in [Tasks -> Points] /\ {"leave", "walk"} \subseteq Points
    BY DEF IndInv, TypeOK, CallsOK, Points, KillPoints
  <2>2. pc' \in [Tasks -> Points]
    BY <1>4, <2>1
  <2>3. QED
    BY <1>3, <1>6, <2>2 DEF IndInv, TypeOK, CallsOK, threads
<1>10. LineExact'
  BY <1>1, <1>3, <1>4 DEF IndInv, LineExact, TypeOK, CodeOK, CallsOK, semaphore
<1>11. InodesExact'
  BY <1>3, <1>4 DEF IndInv, InodesExact, threads
<1>12. SlotsExact'
  <2>1. \A v \in Tasks : pc[v] # "add"
    BY <1>1, <1>2, <1>4 DEF RunPoints, IndInv, KindsExact, KindAt
  <2>2. \A u \in Threads : pc'[u] # "none" => u \in taken
    BY <1>1, <1>4, Who DEF Setting, IndInv, SlotsExact, TypeOK, CallsOK
  <2>3. QED
    BY <1>3, <2>1, <2>2, SlotsStay DEF IndInv, threads
<1>13. CreatesExact'
  BY <1>1, <1>3, <1>4, <1>5 DEF CreatesExact, CreateAt, RunPoints, IndInv, TypeOK,
     CallsOK, dying, threads
<1>14. DestroysExact'
  BY <1>1, <1>3, <1>4, <1>5 DEF IndInv, DestroysExact, DestroyAt, RunPoints, TypeOK,
     CallsOK, threads
<1>15. KindsExact'
  BY <1>1, <1>3, <1>4 DEF IndInv, KindsExact, KindAt, KillPoints, TypeOK, CallsOK
<1>16. MainExact'
  <2>1. \/ pc'[Main] = pc[Main]
        \/ pc[Main] = "inside" /\ job[Main] = "use" /\ pc'[Main] = "leave"
        \/ pc[Main] = "children" /\ pc'[Main] = "walk"
    BY <1>1, <1>4, Who DEF Setting, IndInv, TypeOK, CallsOK
  <2>2. CASE pc'[Main] = pc[Main]
    BY <1>3, <2>2 DEF IndInv, MainExact, DestroyBefore, DestroyAfter, KillPoints, dying, threads
  <2>3. CASE pc[Main] = "inside" /\ job[Main] = "use" /\ pc'[Main] = "leave"
    BY <1>3, <2>3 DEF IndInv, MainExact, DestroyBefore, DestroyAfter, KillPoints, dying, threads
  <2>4. CASE pc[Main] = "children" /\ pc'[Main] = "walk"
    BY <1>3, <2>4 DEF IndInv, MainExact, DestroyBefore, DestroyAfter, KillPoints, dying, threads
  <2>5. QED
    BY <2>1, <2>2, <2>3, <2>4
<1>17. Quiet' => Quiet
  BY <1>3, <1>4 DEF Quiet, dying, threads
<1>18. NoThreadYet'
  <2>1. \A v \in Threads : pc[v] = "none" => pc'[v] = "none"
    BY <1>1, <1>4, Who DEF Setting, IndInv, TypeOK, CallsOK
  <2>2. QED
    BY <1>17, <1>3, <2>1 DEF IndInv, NoThreadYet
<1>19. SemaphoreExact'
  BY <1>1, <1>3, <1>4, <1>17, OwnerStays DEF IndInv, Owner, TypeOK, CallsOK, semaphore
<1>20. RecordExact'
  <2>1. SUFFICES ASSUME Quiet' PROVE RecordExact'
    BY DEF RecordExact
  <2>2. CASE pc' = pc
    BY <1>17, <1>3, <2>1, <2>2 DEF IndInv, Quiet, RecordExact, critical_code
  <2>3. CASE pc' # pc
    <3>1. t = Main /\ pc[Main] = "inside" /\ pc' = [pc EXCEPT ![Main] = "leave"]
      BY <1>17, <1>1, <1>4, <2>1, <2>3, Who
      DEF Setting, IndInv, Quiet, NoThreadYet, KindsExact, KindAt, MainExact, KillPoints
    <3>2. pc'[Main] = "leave"
      BY <1>1, <3>1 DEF IndInv, TypeOK, CallsOK
    <3>3. QED
      BY <1>17, <1>3, <2>1, <3>1, <3>2 DEF IndInv, RecordExact, Entered, Marked, critical_code
  <2>4. QED
    BY <2>2, <2>3
<1>21. QED
  BY <1>6, <1>7, <1>8, <1>9, <1>10, <1>11, <1>12, <1>13, <1>14, <1>15, <1>16, <1>18,
     <1>19, <1>20 DEF IndInv, TypeOK

\* A thread returns; it keeps its slot.
LEMMA EndKeeps ==
  ASSUME Setting, IndInv, NEW t \in Threads, End(t)
  PROVE  IndInv'
<1>1. t \in Tasks /\ MayRun(t, ready, cpu)
  BY Who DEF Setting, End
<1>2. \A u \in Tasks : pc[u] \in RunPoints => u = t
  BY <1>1, Alone DEF IndInv
<1>3. \A u \in Tasks : pc'[u] \in RunPoints => u = t
  BY <1>1, <1>2 DEF RunPoints, IndInv, TypeOK, CallsOK, End
<1>4. cpu' \in [Levels -> Tasks \cup {NoTask}] /\ RunnersExact'
  BY <1>1, <1>3, RunsOn DEF IndInv, TypeOK, CallsOK, RunPoints, End, critical_code,
     semaphore, dying, threads
<1>5. CodeOK'
  BY DEF IndInv, TypeOK, CodeOK, End, critical_code, semaphore, dying
<1>6. ThreadsOK'
  BY DEF IndInv, TypeOK, ThreadsOK, End, dying, threads
<1>7. CallsOK'
  BY <1>1, <1>4 DEF IndInv, TypeOK, CallsOK, Points, RunPoints, KillPoints, WorkKinds,
     End, threads
<1>8. LineExact'
  BY <1>1 DEF IndInv, LineExact, TypeOK, CodeOK, CallsOK, End, semaphore
<1>9. InodesExact'
  BY DEF IndInv, InodesExact, End, threads
<1>10. SlotsExact'
  BY <1>1, <1>2 DEF IndInv, SlotsExact, Coming, Listed, RunPoints, TypeOK, CallsOK, End,
     threads
<1>11. CreatesExact'
  BY <1>1, <1>3 DEF CreatesExact, CreateAt, RunPoints, IndInv, TypeOK, CallsOK, End,
     dying, threads
<1>12. DestroysExact'
  BY <1>1, <1>3 DEF IndInv, DestroysExact, DestroyAt, RunPoints, TypeOK, CallsOK, End,
     threads
<1>13. KindsExact'
  <2>1. pc' = [pc EXCEPT ![t] = "ended"] /\ job' = job /\ t # Main /\ t \notin Killers
    BY Who DEF Setting, End
  <2>2. QED
    BY <1>1, <2>1 DEF IndInv, KindsExact, KindAt, TypeOK, CallsOK, KillPoints
<1>14. MainExact'
  BY <1>1 DEF IndInv, MainExact, KillPoints, DestroyBefore, DestroyAfter, TypeOK,
     CallsOK, End, dying, threads
<1>15. ~ Quiet'
  BY <1>1, Who DEF Setting, IndInv, Quiet, NoThreadYet, CreatesExact, CreateAt,
     KindsExact, KindAt, MainExact, Listed, KillPoints, TypeOK, CodeOK, ThreadsOK,
     CallsOK, End, critical_code, semaphore, dying, threads
<1>16. NoThreadYet' /\ SemaphoreExact' /\ RecordExact'
  BY <1>15 DEF NoThreadYet, SemaphoreExact, RecordExact
<1>17. QED
  BY <1>4, <1>5, <1>6, <1>7, <1>8, <1>9, <1>10, <1>11, <1>12, <1>13, <1>14, <1>16 DEF
     IndInv, TypeOK

\* A client enters critical code: the first of them has to get the mutex.
LEMMA BeginKeeps ==
  ASSUME Setting, IndInv, NEW t \in Clients, Begin(t)
  PROVE  IndInv'
<1>1. t \in Tasks /\ MayRun(t, ready, cpu)
  BY Who DEF Setting, CriticalCodeAssumption, Clients, Begin, Enter, Goto
<1>2. \A u \in Tasks : pc[u] \in RunPoints => u = t
  BY <1>1, Alone DEF IndInv
<1>3. /\ pc[t] = "idle" /\ cpu' = Occupy(t, cpu) /\ locks' = locks + 1
      /\ UNCHANGED <<pid, tid, semaphore, dying, threads, kills, ready>>
  BY DEF Begin, Enter, Goto
<1>4. \/ locks = 0 /\ ~pid /\ pc' = [pc EXCEPT ![t] = "lock"]
      \/ /\ ~ (locks = 0 /\ ~pid /\ ~ (tid > NoTid /\ tid = Tid(t)))
         /\ pc' = [pc EXCEPT ![t] = "inside"]
  BY DEF Begin, Enter, Goto
<1>5. \/ target' = target /\ \E j \in {"use", "create"} : job' = [job EXCEPT ![t] = j]
      \/ \E u \in taken \ {t} : /\ pc[u] # "none" /\ job' = [job EXCEPT ![t] = "destroy"]
                                /\ target' = [target EXCEPT ![t] = u]
  BY DEF Begin, Enter, Goto
<1>6. taken \subseteq Threads
  BY DEF IndInv, TypeOK, ThreadsOK
<1>7. \A u \in Tasks : pc'[u] \in RunPoints => u = t
  BY <1>1, <1>2, <1>3, <1>4, <1>5, <1>6 DEF RunPoints, IndInv, TypeOK, CallsOK
<1>8. cpu' \in [Levels -> Tasks \cup {NoTask}] /\ RunnersExact'
  BY <1>1, <1>3, <1>4, <1>5, <1>6, <1>7, RunsOn DEF IndInv
<1>9. CodeOK'
  BY <1>3, <1>4, <1>5, <1>6 DEF IndInv, TypeOK, CodeOK, semaphore, dying
<1>10. ThreadsOK'
  BY <1>3, <1>4, <1>5, <1>6 DEF IndInv, TypeOK, ThreadsOK, dying, threads
<1>11. CallsOK'
  <2>1. /\ pc \in [Tasks -> Points] /\ {"lock", "inside"} \subseteq Points
        /\ job \in [Tasks -> WorkKinds] /\ {"use", "create", "destroy"} \subseteq WorkKinds
        /\ target \in [Tasks -> Threads \cup {NoTid}]
    BY DEF IndInv, TypeOK, CallsOK, Points, RunPoints, WorkKinds
  <2>2. pc' \in [Tasks -> Points]
    BY <1>4, <2>1
  <2>3. job' \in [Tasks -> WorkKinds] /\ target' \in [Tasks -> Threads \cup {NoTid}]
    BY <1>5, <1>6, <2>1
  <2>4. QED
    BY <1>3, <1>8, <2>2, <2>3 DEF IndInv, TypeOK, CallsOK, threads
<1>12. LineExact'
  BY <1>1, <1>3, <1>4, <1>5, <1>6 DEF IndInv, LineExact, TypeOK, CodeOK, CallsOK,
     semaphore
<1>13. InodesExact'
  BY <1>3, <1>4, <1>5, <1>6 DEF IndInv, InodesExact, threads
<1>14. SlotsExact'
  <2>1. \A v \in Tasks : pc[v] # "add"
    BY <1>1, <1>2, <1>3 DEF RunPoints
  <2>2. \A u \in Threads : pc'[u] # "none" => u \in taken
    BY <1>1, <1>3, <1>4, Who DEF Setting, IndInv, SlotsExact, TypeOK, CallsOK
  <2>3. QED
    BY <1>3, <2>1, <2>2, SlotsStay DEF IndInv, threads
<1>15. CreatesExact'
  BY <1>1, <1>3, <1>4, <1>5, <1>6, <1>7 DEF CreatesExact, CreateAt, RunPoints, IndInv,
     TypeOK, CallsOK, dying, threads
<1>16. DestroysExact'
  BY <1>1, <1>3, <1>4, <1>5, <1>6, <1>7 DEF IndInv, DestroysExact, DestroyAt, RunPoints,
     TypeOK, CallsOK, threads
<1>17. KindsExact'
  <2>1. t \notin Killers
    BY Who DEF Setting, Clients
  <2>2. ASSUME NEW v \in Tasks PROVE KindAt(v)'
    <3>1. CASE v = t
      <4>1. pc'[t] \in {"lock", "inside"} /\ job'[t] \in {"use", "create", "destroy"}
        BY <1>1, <1>4, <1>5 DEF IndInv, TypeOK, CallsOK
      <4>2. QED
        BY <2>1, <3>1, <4>1 DEF KindAt, KillPoints
    <3>2. CASE v # t
      <4>1. pc'[v] = pc[v] /\ job'[v] = job[v]
        BY <1>1, <1>4, <1>5, <3>2 DEF IndInv, TypeOK, CallsOK
      <4>2. QED
        BY <4>1 DEF IndInv, KindsExact, KindAt
    <3>3. QED
      BY <3>1, <3>2
  <2>3. QED
    BY <2>2 DEF KindsExact
<1>18. MainExact'
  <2>1. CASE t = Main
    <3>1. terminated = 0 /\ terminated' = 0 /\ kill_state' = kill_state
      BY <1>3, <2>1 DEF IndInv, MainExact, DestroyBefore, DestroyAfter, TypeOK, CodeOK, dying
    <3>2. pc'[Main] \in {"lock", "inside"} /\ job'[Main] \in {"use", "create", "destroy"}
      BY <1>1, <1>4, <1>5, <2>1 DEF IndInv, TypeOK, CallsOK
    <3>3. QED
      BY <1>3, <3>1, <3>2 DEF IndInv, MainExact, KillPoints, threads
  <2>2. CASE t # Main
    <3>1. pc'[Main] = pc[Main] /\ job'[Main] = job[Main] /\ target'[Main] = target[Main]
      BY <1>1, <1>4, <1>5, <2>2, Who DEF Setting, IndInv, TypeOK, CallsOK
    <3>2. QED
      BY <1>3, <3>1 DEF IndInv, MainExact, dying, threads
  <2>3. QED
    BY <2>1, <2>2
<1>19. Quiet' => Quiet
  BY <1>3, <1>4, <1>5, <1>6 DEF Quiet, dying, threads
<1>20. NoThreadYet'
  <2>1. SUFFICES ASSUME Quiet' PROVE NoThreadYet'
    BY DEF NoThreadYet
  <2>2. Quiet /\ t = Main /\ (\A v \in Threads : pc[v] = "none") /\ job[Main] # "destroy"
    BY <1>19, <1>1, <1>3, <2>1, Who DEF Setting, IndInv, NoThreadYet, Clients
  <2>3. locks = 0 /\ ~pid /\ pc'[Main] = "lock" /\ \A v \in Tasks : v # Main => pc'[v] = pc[v]
    <3>1. \A v \in Tasks : pc[v] # "hit"
      BY <1>1, <1>2, <1>3 DEF RunPoints
    <3>2. locks = 0 /\ ~pid
      BY <1>3, <2>2, <3>1 DEF IndInv, RecordExact, Entered, Marked
    <3>3. tid = NoTid \/ tid # Tid(t)
      BY <2>2, Who DEF Setting, IndInv, TypeOK, CodeOK, Tid
    <3>4. pc' = [pc EXCEPT ![t] = "lock"]
      BY <1>4, <3>2, <3>3, Who DEF Setting, NoTid
    <3>5. QED
      BY <1>1, <2>2, <3>2, <3>4 DEF IndInv, TypeOK, CallsOK
  <2>4. job'[Main] # "destroy"
    BY <1>1, <1>5, <1>6, <2>2 DEF IndInv, TypeOK, CallsOK
  <2>5. QED
    BY <2>2, <2>3, <2>4, Who DEF Setting, NoThreadYet
<1>21. SemaphoreExact'
  <2>1. SUFFICES ASSUME Quiet' PROVE SemaphoreExact'
    BY DEF SemaphoreExact
  <2>2. Quiet /\ t = Main /\ (\A v \in Threads : pc[v] = "none") /\ job[Main] # "destroy"
    BY <1>19, <1>1, <1>3, <2>1, Who DEF Setting, IndInv, NoThreadYet, Clients
  <2>3. locks = 0 /\ ~pid /\ pc'[Main] = "lock" /\ \A v \in Tasks : v # Main => pc'[v] = pc[v]
    <3>1. \A v \in Tasks : pc[v] # "hit"
      BY <1>1, <1>2, <1>3 DEF RunPoints
    <3>2. locks = 0 /\ ~pid
      BY <1>3, <2>2, <3>1 DEF IndInv, RecordExact, Entered, Marked
    <3>3. tid = NoTid \/ tid # Tid(t)
      BY <2>2, Who DEF Setting, IndInv, TypeOK, CodeOK, Tid
    <3>4. pc' = [pc EXCEPT ![t] = "lock"]
      BY <1>4, <3>2, <3>3, Who DEF Setting, NoTid
    <3>5. QED
      BY <1>1, <2>2, <3>2, <3>4 DEF IndInv, TypeOK, CallsOK
  <2>4. \A v \in Tasks : Owner(v)' <=> Owner(v)
    BY <1>3, <2>2, <2>3 DEF Owner
  <2>5. QED
    BY <1>19, <1>3, <2>4, OwnerStays DEF IndInv, semaphore
<1>22. RecordExact'
  <2>1. SUFFICES ASSUME Quiet' PROVE RecordExact'
    BY DEF RecordExact
  <2>2. Quiet /\ t = Main /\ (\A v \in Threads : pc[v] = "none") /\ job[Main] # "destroy"
    BY <1>19, <1>1, <1>3, <2>1, Who DEF Setting, IndInv, NoThreadYet, Clients
  <2>3. locks = 0 /\ ~pid /\ pc'[Main] = "lock" /\ \A v \in Tasks : v # Main => pc'[v] = pc[v]
    <3>1. \A v \in Tasks : pc[v] # "hit"
      BY <1>1, <1>2, <1>3 DEF RunPoints
    <3>2. locks = 0 /\ ~pid
      BY <1>3, <2>2, <3>1 DEF IndInv, RecordExact, Entered, Marked
    <3>3. tid = NoTid \/ tid # Tid(t)
      BY <2>2, Who DEF Setting, IndInv, TypeOK, CodeOK, Tid
    <3>4. pc' = [pc EXCEPT ![t] = "lock"]
      BY <1>4, <3>2, <3>3, Who DEF Setting, NoTid
    <3>5. QED
      BY <1>1, <2>2, <3>2, <3>4 DEF IndInv, TypeOK, CallsOK
  <2>4. QED
    BY <1>3, <2>3 DEF RecordExact, Entered
<1>23. QED
  BY <1>8, <1>9, <1>10, <1>11, <1>12, <1>13, <1>14, <1>15, <1>16, <1>17, <1>18, <1>20,
     <1>21, <1>22 DEF IndInv, TypeOK

\* The main has returned and dies of itself.
LEMMA ExitKeeps ==
  ASSUME Setting, IndInv, Exit
  PROVE  IndInv'
<1>1. Main \in Tasks /\ MayRun(Main, ready, cpu)
  BY Who DEF Setting, Exit, Goto
<1>2. \A u \in Tasks : pc[u] \in RunPoints => u = Main
  BY <1>1, Alone DEF IndInv
<1>3. \A u \in Tasks : pc'[u] \in RunPoints => u = Main
  BY <1>1, <1>2 DEF RunPoints, IndInv, TypeOK, CallsOK, Exit, Goto
<1>4. cpu' \in [Levels -> Tasks \cup {NoTask}] /\ RunnersExact'
  BY <1>1, <1>3, RunsOn DEF IndInv, Exit, Goto
<1>5. CodeOK'
  BY DEF IndInv, TypeOK, CodeOK, Exit, critical_code, semaphore, Goto
<1>6. ThreadsOK'
  BY DEF IndInv, TypeOK, ThreadsOK, Exit, threads, Goto
<1>7. CallsOK'
  BY <1>1, <1>4 DEF IndInv, TypeOK, CallsOK, Points, RunPoints, KillPoints, WorkKinds,
     Exit, threads, Goto
<1>8. LineExact'
  BY <1>1 DEF IndInv, LineExact, TypeOK, CodeOK, CallsOK, Exit, semaphore, Goto
<1>9. InodesExact'
  BY DEF IndInv, InodesExact, Exit, threads, Goto
<1>10. SlotsExact'
  BY <1>1, <1>2 DEF IndInv, SlotsExact, Coming, Listed, RunPoints, TypeOK, CallsOK,
     Exit, threads, Goto
<1>11. CreatesExact'
  BY <1>1, <1>3 DEF CreatesExact, CreateAt, RunPoints, IndInv, TypeOK, CallsOK, Exit,
     threads, Goto
<1>12. DestroysExact'
  BY <1>1, <1>3 DEF IndInv, DestroysExact, DestroyAt, RunPoints, TypeOK, CallsOK, Exit,
     threads, Goto
<1>13. KindsExact'
  <2>1. /\ pc' = [pc EXCEPT ![Main] = "lock"] /\ job' = [job EXCEPT ![Main] = "exit"]
        /\ Main \in Tasks /\ Main \notin Killers
    BY Who DEF Setting, Exit, Goto
  <2>2. QED
    BY <2>1 DEF IndInv, KindsExact, KindAt, TypeOK, CallsOK, KillPoints
<1>14. MainExact'
  BY <1>1 DEF IndInv, MainExact, KillPoints, DestroyBefore, DestroyAfter, TypeOK,
     CallsOK, Exit, threads, Goto
<1>15. ~ Quiet'
  BY <1>1 DEF IndInv, Quiet, MainExact, KillPoints, Exit, threads, Goto
<1>16. NoThreadYet' /\ SemaphoreExact' /\ RecordExact'
  BY <1>15 DEF NoThreadYet, SemaphoreExact, RecordExact
<1>17. QED
  BY <1>4, <1>5, <1>6, <1>7, <1>8, <1>9, <1>10, <1>11, <1>12, <1>13, <1>14, <1>16 DEF
     IndInv, TypeOK

\* The main that was hit begins to die, or goes on dying.
LEMMA KillImplKeeps ==
  ASSUME Setting, IndInv, KillImpl
  PROVE  IndInv'
<1>1. Main \in Tasks /\ MayRun(Main, ready, cpu)
  BY Who DEF Setting, KillImpl, Goto
<1>2. \A u \in Tasks : pc[u] \in RunPoints => u = Main
  BY <1>1, Alone DEF IndInv
<1>3. \A u \in Tasks : pc'[u] \in RunPoints => u = Main
  BY <1>1, <1>2 DEF RunPoints, IndInv, TypeOK, CallsOK, KillImpl, Goto
<1>4. cpu' \in [Levels -> Tasks \cup {NoTask}] /\ RunnersExact'
  BY <1>1, <1>3, RunsOn DEF IndInv, KillImpl, Goto
<1>5. CodeOK'
  BY DEF IndInv, TypeOK, CodeOK, KillImpl, critical_code, semaphore, Goto
<1>6. ThreadsOK'
  BY DEF IndInv, TypeOK, ThreadsOK, KillImpl, threads, Goto
<1>7. CallsOK'
  BY <1>1, <1>4 DEF IndInv, TypeOK, CallsOK, Points, RunPoints, KillPoints, WorkKinds,
     KillImpl, threads, Goto
<1>8. LineExact'
  BY <1>1 DEF IndInv, LineExact, TypeOK, CodeOK, CallsOK, KillImpl, semaphore, Goto
<1>9. InodesExact'
  BY DEF IndInv, InodesExact, KillImpl, threads, Goto
<1>10. SlotsExact'
  BY <1>1, <1>2 DEF IndInv, SlotsExact, Coming, Listed, RunPoints, TypeOK, CallsOK,
     KillImpl, threads, Goto
<1>11. CreatesExact'
  BY <1>1, <1>3 DEF CreatesExact, CreateAt, RunPoints, IndInv, TypeOK, CallsOK,
     KillImpl, threads, Goto
<1>12. DestroysExact'
  BY <1>1, <1>3 DEF IndInv, DestroysExact, DestroyAt, RunPoints, TypeOK, CallsOK,
     KillImpl, threads, Goto
<1>13. KindsExact'
  BY <1>1 DEF IndInv, KindsExact, KindAt, KillPoints, TypeOK, CallsOK, KillImpl, Goto
<1>14. MainExact'
  BY <1>1 DEF IndInv, MainExact, KillPoints, DestroyBefore, DestroyAfter, TypeOK,
     CallsOK, KillImpl, threads, Goto
<1>15. ~ Quiet'
  BY <1>1 DEF IndInv, Quiet, MainExact, KillPoints, KillImpl, threads, Goto
<1>16. NoThreadYet' /\ SemaphoreExact' /\ RecordExact'
  BY <1>15 DEF NoThreadYet, SemaphoreExact, RecordExact
<1>17. QED
  BY <1>4, <1>5, <1>6, <1>7, <1>8, <1>9, <1>10, <1>11, <1>12, <1>13, <1>14, <1>16 DEF
     IndInv, TypeOK

\* The child processes are gone; the threads are next.
LEMMA ChildrenKeeps ==
  ASSUME Setting, IndInv, Children
  PROVE  IndInv'
<1>1. Main \in Tasks /\ MayRun(Main, ready, cpu)
  BY Who DEF Setting, Children, Goto
<1>2. \A u \in Tasks : pc[u] \in RunPoints => u = Main
  BY <1>1, Alone DEF IndInv
<1>3. \A u \in Tasks : pc'[u] \in RunPoints => u = Main
  BY <1>1, <1>2 DEF RunPoints, IndInv, TypeOK, CallsOK, Children, Goto
<1>4. cpu' \in [Levels -> Tasks \cup {NoTask}] /\ RunnersExact'
  BY <1>1, <1>3, RunsOn DEF IndInv, Children, Goto
<1>5. CodeOK'
  BY DEF IndInv, TypeOK, CodeOK, Children, critical_code, semaphore, dying, Goto
<1>6. ThreadsOK'
  BY DEF IndInv, TypeOK, ThreadsOK, Children, dying, threads, Goto
<1>7. CallsOK'
  BY <1>1, <1>4 DEF IndInv, TypeOK, CallsOK, Points, RunPoints, KillPoints, WorkKinds,
     Children, threads, Goto
<1>8. LineExact'
  BY <1>1 DEF IndInv, LineExact, TypeOK, CodeOK, CallsOK, Children, semaphore, Goto
<1>9. InodesExact'
  BY DEF IndInv, InodesExact, Children, threads, Goto
<1>10. SlotsExact'
  BY <1>1, <1>2 DEF IndInv, SlotsExact, Coming, Listed, RunPoints, TypeOK, CallsOK,
     Children, threads, Goto
<1>11. CreatesExact'
  BY <1>1, <1>3 DEF CreatesExact, CreateAt, RunPoints, IndInv, TypeOK, CallsOK,
     Children, dying, threads, Goto
<1>12. DestroysExact'
  BY <1>1, <1>3 DEF IndInv, DestroysExact, DestroyAt, RunPoints, TypeOK, CallsOK,
     Children, threads, Goto
<1>13. KindsExact'
  BY <1>1 DEF IndInv, KindsExact, KindAt, KillPoints, TypeOK, CallsOK, Children, Goto
<1>14. MainExact'
  BY <1>1 DEF IndInv, MainExact, KillPoints, DestroyBefore, DestroyAfter, TypeOK,
     CallsOK, Children, dying, threads, Goto
<1>15. ~ Quiet'
  BY <1>1 DEF IndInv, Quiet, MainExact, KillPoints, Children, dying, threads, Goto
<1>16. NoThreadYet' /\ SemaphoreExact' /\ RecordExact'
  BY <1>15 DEF NoThreadYet, SemaphoreExact, RecordExact
<1>17. QED
  BY <1>4, <1>5, <1>6, <1>7, <1>8, <1>9, <1>10, <1>11, <1>12, <1>13, <1>14, <1>16 DEF
     IndInv, TypeOK

\* kill_impl calls destroyThread of the thread at the cursor, if it has a slot.
LEMMA DestroyNextKeeps ==
  ASSUME Setting, IndInv, DestroyNext
  PROVE  IndInv'
<1>1. Main \in Tasks /\ MayRun(Main, ready, cpu)
  BY Who DEF Setting, DestroyNext, Enter, Goto
<1>2. \A u \in Tasks : pc[u] \in RunPoints => u = Main
  BY <1>1, Alone DEF IndInv
<1>3. /\ pc[Main] = "destroy" /\ cpu' = Occupy(Main, cpu)
      /\ UNCHANGED <<pid, tid, semaphore, dying, threads, job, target, kills, ready>>
  BY DEF DestroyNext, Enter, Goto, critical_code
<1>4. \/ /\ locks' = locks + 1
         /\ \/ pc' = [pc EXCEPT ![Main] = "lock"]
            \/ pc' = [pc EXCEPT ![Main] = "inside"]
      \/ locks' = locks /\ target[Main] \notin taken /\ pc' = [pc EXCEPT ![Main] = "next"]
  BY DEF DestroyNext, Enter, Goto, critical_code
<1>5. terminated # 0
  BY <1>3 DEF IndInv, MainExact, KillPoints
<1>6. \A u \in Tasks : pc'[u] \in RunPoints => u = Main
  BY <1>1, <1>2, <1>3, <1>4, <1>5 DEF RunPoints, IndInv, TypeOK, CallsOK
<1>7. cpu' \in [Levels -> Tasks \cup {NoTask}] /\ RunnersExact'
  BY <1>1, <1>3, <1>4, <1>5, <1>6, RunsOn DEF IndInv
<1>8. CodeOK'
  BY <1>3, <1>4, <1>5 DEF IndInv, TypeOK, CodeOK, critical_code, semaphore, dying
<1>9. ThreadsOK'
  BY <1>3, <1>4, <1>5 DEF IndInv, TypeOK, ThreadsOK, dying, threads
<1>10. CallsOK'
  <2>1. pc \in [Tasks -> Points] /\ {"lock", "inside", "next"} \subseteq Points
    BY DEF IndInv, TypeOK, CallsOK, Points, RunPoints
  <2>2. pc' \in [Tasks -> Points]
    BY <1>4, <2>1
  <2>3. QED
    BY <1>3, <1>7, <2>2 DEF IndInv, TypeOK, CallsOK, threads
<1>11. LineExact'
  BY <1>1, <1>3, <1>4, <1>5 DEF IndInv, LineExact, TypeOK, CodeOK, CallsOK, semaphore
<1>12. InodesExact'
  BY <1>3, <1>4, <1>5 DEF IndInv, InodesExact, threads
<1>13. SlotsExact'
  <2>1. \A v \in Tasks : pc[v] # "add"
    BY <1>1, <1>2, <1>3 DEF RunPoints
  <2>2. \A u \in Threads : pc'[u] # "none" => u \in taken
    BY <1>1, <1>3, <1>4, Who DEF Setting, IndInv, SlotsExact, TypeOK, CallsOK
  <2>3. QED
    BY <1>3, <2>1, <2>2, SlotsStay DEF IndInv, threads
<1>14. CreatesExact'
  BY <1>1, <1>3, <1>4, <1>5, <1>6 DEF CreatesExact, CreateAt, RunPoints, IndInv, TypeOK,
     CallsOK, dying, threads
<1>15. DestroysExact'
  BY <1>1, <1>3, <1>4, <1>5, <1>6 DEF IndInv, DestroysExact, DestroyAt, RunPoints,
     TypeOK, CallsOK, threads
<1>16. KindsExact'
  BY <1>1, <1>3, <1>4, <1>5 DEF IndInv, KindsExact, KindAt, KillPoints, TypeOK, CallsOK
<1>17. MainExact'
  BY <1>1, <1>3, <1>4, <1>5 DEF IndInv, MainExact, KillPoints, DestroyBefore,
     DestroyAfter, TypeOK, CallsOK, dying, threads
<1>18. ~ Quiet'
  BY <1>1, <1>3, <1>4, <1>5 DEF IndInv, Quiet, MainExact, KillPoints, dying, threads
<1>19. NoThreadYet' /\ SemaphoreExact' /\ RecordExact'
  BY <1>18 DEF NoThreadYet, SemaphoreExact, RecordExact
<1>20. QED
  BY <1>7, <1>8, <1>9, <1>10, <1>11, <1>12, <1>13, <1>14, <1>15, <1>16, <1>17, <1>19 DEF
     IndInv, TypeOK

\* A sleeping task is ready again: only the kernel knows.
LEMMA WakeUpKeeps ==
  ASSUME Setting, IndInv, NEW t \in Tasks, WakeUp(t)
  PROVE  IndInv'
<1>1. UNCHANGED <<critical_code, semaphore, dying, threads, pc, job, target, kills, cpu>>
  BY DEF WakeUp
<1>2. ready' \subseteq Tasks
  BY DEF WakeUp, IndInv, TypeOK, CallsOK
<1>3. TypeOK'
  BY <1>1, <1>2 DEF IndInv, TypeOK, CodeOK, ThreadsOK, CallsOK, critical_code, semaphore,
    dying, threads
<1>4. LineExact' /\ RunnersExact' /\ InodesExact'
  BY <1>1 DEF IndInv, LineExact, RunnersExact, InodesExact, semaphore, threads
<1>5. SlotsExact' /\ CreatesExact'
  BY <1>1 DEF IndInv, SlotsExact, CreatesExact, CreateAt, Listed, Coming, dying, threads
<1>6. DestroysExact' /\ KindsExact'
  BY <1>1 DEF IndInv, DestroysExact, DestroyAt, KindsExact, KindAt
<1>7. MainExact'
  BY <1>1 DEF IndInv, MainExact, dying, threads
<1>8. NoThreadYet' /\ RecordExact'
  BY <1>1 DEF IndInv, NoThreadYet, RecordExact, Quiet, critical_code, dying, threads
<1>9. SemaphoreExact'
  BY <1>1, OwnerStays DEF IndInv, Quiet, Owner, semaphore, dying, threads
<1>10. QED
  BY <1>3, <1>4, <1>5, <1>6, <1>7, <1>8, <1>9 DEF IndInv

\* kill_impl looks at an inode of the list: the main runs on with its thread.
LEMMA WalkOn ==
  ASSUME Setting, IndInv, NEW from \in {"walk", "next"}, NEW inode \in 1..made,
         WalkTo(from, inode)
  PROVE  IndInv'
<1>1. /\ Main \in Tasks /\ MayRun(Main, ready, cpu) /\ pc[Main] = from /\ inode # NoInode
      /\ tid_of[inode] \in Threads /\ Main \notin Threads
  BY Who DEF Setting, WalkTo, IndInv, TypeOK, ThreadsOK, NoInode
<1>2. \A u \in Tasks : pc[u] \in RunPoints => u = Main
  BY <1>1, Alone DEF IndInv
<1>3. /\ cursor' = inode /\ pc' = [pc EXCEPT ![Main] = "destroy"] /\ cpu' = Occupy(Main, cpu)
      /\ job' = [job EXCEPT ![Main] = "destroy"]
      /\ target' = [target EXCEPT ![Main] = tid_of[inode]] /\ kill_state' = 4
      /\ UNCHANGED <<line, ready, critical_code, mutex, kill_mode, terminated, threads, kills>>
  BY <1>1 DEF WalkTo
<1>4. terminated = 2 /\ kill_state # 5
  BY <1>1 DEF IndInv, MainExact, KillPoints, TypeOK, CodeOK
<1>5. \A u \in Tasks : pc'[u] \in RunPoints => u = Main
  BY <1>1, <1>2, <1>3 DEF IndInv, TypeOK, CallsOK
<1>6. cpu' \in [Levels -> Tasks \cup {NoTask}] /\ RunnersExact'
  BY <1>1, <1>3, <1>5, RunsOn DEF IndInv
<1>7. CodeOK' /\ ThreadsOK'
  BY <1>3 DEF IndInv, TypeOK, CodeOK, ThreadsOK, critical_code, threads
<1>8. CallsOK'
  BY <1>1, <1>3, <1>6 DEF IndInv, TypeOK, CallsOK, Points, RunPoints, WorkKinds, threads
<1>9. LineExact'
  BY <1>1, <1>3, LineStays DEF IndInv, TypeOK, CodeOK, CallsOK
<1>10. InodesExact'
  BY <1>3 DEF IndInv, InodesExact, threads
<1>11. SlotsExact'
  <2>1. \A v \in Tasks : pc[v] # "add"
    BY <1>1, <1>2 DEF RunPoints
  <2>2. \A u \in Threads : pc'[u] # "none" => u \in taken
    BY <1>1, <1>3 DEF IndInv, SlotsExact
  <2>3. QED
    BY <1>3, <2>1, <2>2, SlotsStay DEF IndInv, threads
<1>12. CreatesExact'
  BY <1>1, <1>3, <1>5 DEF RunPoints, CreatesExact, CreateAt, IndInv, TypeOK, CallsOK
<1>13. DestroysExact'
  BY <1>1, <1>3 DEF IndInv, DestroysExact, DestroyAt, TypeOK, CallsOK
<1>14. KindsExact'
  BY <1>1, <1>3, Who DEF Setting, IndInv, KindsExact, KindAt, TypeOK, CallsOK, KillPoints
<1>15. MainExact'
  BY <1>1, <1>3, <1>4
  DEF IndInv, MainExact, TypeOK, CallsOK, DestroyBefore, DestroyAfter, KillPoints, threads
<1>16. NoThreadYet' /\ SemaphoreExact' /\ RecordExact'
  BY <1>3, <1>4 DEF Quiet, NoThreadYet, SemaphoreExact, RecordExact
<1>17. QED
  BY <1>6, <1>7, <1>8, <1>9, <1>10, <1>11, <1>12, <1>13, <1>14, <1>15, <1>16
  DEF IndInv, TypeOK

\* kill_impl has no inode left to look at: no thread has a slot, so nothing of
\* the process is left when the main ends and the mutex goes.
LEMMA WalkEnds ==
  ASSUME Setting, IndInv, NEW from \in {"walk", "next"}, WalkTo(from, NoInode), taken = {}
  PROVE  IndInv'
<1>1. Main \in Tasks /\ MayRun(Main, ready, cpu) /\ pc[Main] = from
  BY Who DEF Setting, WalkTo
<1>2. \A u \in Tasks : pc[u] \in RunPoints => u = Main
  BY <1>1, Alone DEF IndInv
<1>3. /\ cursor' = NoInode /\ kill_state' = 5 /\ line' = << >> /\ cpu' = GiveUp(Main, cpu)
      /\ ready' = (ready \cup ToSet(line)) \ {Main}
      /\ UNCHANGED <<job, target, critical_code, mutex, kill_mode, terminated, threads, kills>>
  BY DEF WalkTo
<1>4. /\ pc' = [t \in Tasks |-> IF t = Main THEN "none"
                                ELSE IF pc[t] = "waiting" THEN "mark" ELSE pc[t]]
  BY DEF WalkTo
<1>5. /\ pc'[Main] = "none" /\ pc' \in [Tasks -> Points]
      /\ \A t \in Tasks : t # Main => pc'[t] = IF pc[t] = "waiting" THEN "mark" ELSE pc[t]
  BY <1>1, <1>4 DEF IndInv, TypeOK, CallsOK, Points
<1>6. terminated = 2
  BY <1>1 DEF IndInv, MainExact, KillPoints, TypeOK, CodeOK
<1>7. \A u \in Tasks : pc'[u] \notin RunPoints
  BY <1>2, <1>5 DEF RunPoints
<1>8. cpu' \in [Levels -> Tasks \cup {NoTask}] /\ RunnersExact'
  BY <1>1, <1>3, <1>7, RunsOn DEF IndInv
<1>9. \A u \in Threads : pc[u] = "none" /\ pc'[u] = "none"
  BY <1>5, Who DEF Setting, IndInv, SlotsExact
<1>10. CodeOK' /\ ThreadsOK'
  BY <1>3 DEF IndInv, TypeOK, CodeOK, ThreadsOK, critical_code, threads, NoInode
<1>11. CallsOK'
  <2>1. ToSet(line) \subseteq Tasks
    BY ElementOfSeq DEF ToSet, IndInv, TypeOK, CodeOK
  <2>2. QED
    BY <1>3, <1>5, <1>8, <2>1 DEF IndInv, TypeOK, CallsOK, threads
<1>12. LineExact'
  BY <1>3 DEF LineExact, Distinct
<1>13. InodesExact'
  BY <1>3 DEF IndInv, InodesExact, threads
<1>14. SlotsExact'
  BY <1>3, <1>9 DEF SlotsExact, threads
<1>15. CreatesExact'
  BY <1>7 DEF RunPoints, CreatesExact, CreateAt
<1>16. DestroysExact'
  BY <1>3, <1>7 DEF RunPoints, IndInv, DestroysExact, DestroyAt
<1>17. KindsExact'
  <2>1. ASSUME NEW t \in Tasks PROVE KindAt(t)'
    <3>1. CASE t = Main
      BY <1>3, <1>5, <3>1, Who DEF Setting, IndInv, KindsExact, KindAt, KillPoints
    <3>2. CASE t # Main
      BY <1>3, <1>5, <3>2 DEF IndInv, KindsExact, KindAt, KillPoints
    <3>3. QED
      BY <3>1, <3>2
  <2>2. QED
    BY <2>1 DEF KindsExact
<1>18. MainExact'
  BY <1>3, <1>5, <1>6 DEF MainExact, DestroyBefore, DestroyAfter, threads
<1>19. NoThreadYet' /\ SemaphoreExact' /\ RecordExact'
  BY <1>3, <1>6 DEF Quiet, NoThreadYet, SemaphoreExact, RecordExact
<1>20. QED
  BY <1>8, <1>10, <1>11, <1>12, <1>13, <1>14, <1>15, <1>16, <1>17, <1>18, <1>19
  DEF IndInv, TypeOK

\* State 4 begins with the first inode.
LEMMA WalkKeeps ==
  ASSUME Setting, IndInv, Walk
  PROVE  IndInv'
<1>1. /\ Main \in Tasks /\ MayRun(Main, ready, cpu) /\ pc[Main] = "walk"
      /\ WalkTo("walk", FirstInode)
  BY Who DEF Setting, Walk, WalkTo
<1>2. \A u \in Tasks : pc[u] \in RunPoints => u = Main
  BY <1>1, Alone DEF IndInv
<1>3. \A u \in Threads : u \in taken => Listed(u)
  BY <1>1, <1>2 DEF IndInv, RunPoints, SlotsExact, Coming
<1>4. list \in Seq(1..made) /\ taken \subseteq Threads
  BY DEF IndInv, TypeOK, ThreadsOK
<1>5. CASE list = << >>
  <2>1. taken = {} /\ FirstInode = NoInode
    BY <1>3, <1>4, <1>5 DEF Listed, FirstInode
  <2>2. QED
    BY <1>1, <2>1, WalkEnds
<1>6. CASE list # << >>
  <2>1. FirstInode \in 1..made
    <3>1. Len(list) \in Nat /\ Len(list) > 0 /\ Head(list) = list[1]
      BY <1>4, <1>6
    <3>2. \A i \in 1..Len(list) : list[i] \in 1..made
      BY <1>4, ElementOfSeq
    <3>3. QED
      BY <1>6, <3>1, <3>2 DEF FirstInode
  <2>2. QED
    BY <1>1, <2>1, WalkOn
<1>7. QED
  BY <1>5, <1>6

\* When the thread at the cursor is done and no other inode is left, no thread
\* has a slot: it would be in the list, which is empty or the cursor's inode.
LEMMA WalkNextKeeps ==
  ASSUME Setting, IndInv, WalkNext
  PROVE  IndInv'
<1> DEFINE inode == IF cursor = FirstInode THEN SecondInode ELSE FirstInode
<1>1. /\ Main \in Tasks /\ MayRun(Main, ready, cpu) /\ pc[Main] = "next"
      /\ WalkTo("next", inode)
  BY Who DEF Setting, WalkNext, WalkTo
<1>2. \A u \in Tasks : pc[u] \in RunPoints => u = Main
  BY <1>1, Alone DEF IndInv
<1>3. \A u \in Threads : u \in taken => Listed(u)
  BY <1>1, <1>2 DEF IndInv, RunPoints, SlotsExact, Coming
<1>4. list \in Seq(1..made) /\ taken \subseteq Threads /\ Len(list) \in Nat
  BY DEF IndInv, TypeOK, ThreadsOK
<1>5. /\ cursor # NoInode /\ target[Main] = tid_of[cursor] /\ target[Main] \notin taken
  BY <1>1 DEF IndInv, MainExact, KillPoints, DestroyAfter, DestroyBefore, TypeOK, CodeOK
<1>6. \A i \in 1..Len(list) : list[i] \in 1..made
  BY <1>4, ElementOfSeq
<1>7. list # << >> => Head(list) = list[1] /\ Len(list) > 0
  BY <1>4
<1>8. CASE inode = NoInode
  <2>1. \A i \in 1..Len(list) : list[i] = cursor
    <3>1. CASE list = << >>
      BY <3>1
    <3>2. CASE list # << >>
      <4>1. FirstInode = list[1] /\ list[1] # NoInode
        BY <1>4, <1>6, <1>7, <3>2 DEF FirstInode, NoInode
      <4>2. cursor = list[1] /\ SecondInode = NoInode
        BY <1>8, <4>1
      <4>3. ~ (Len(list) > 1)
        BY <1>4, <1>6, <4>2 DEF SecondInode, NoInode
      <4>4. QED
        BY <1>4, <4>2, <4>3
    <3>3. QED
      BY <3>1, <3>2
  <2>2. \A u \in Threads : u \notin taken
    <3>1. ASSUME NEW u \in Threads, u \in taken PROVE FALSE
      <4>1. PICK i \in 1..Len(list) : list[i] = inode_of[u]
        BY <1>3, <3>1 DEF Listed
      <4>2. inode_of[u] = cursor
        BY <2>1, <4>1
      <4>3. tid_of[cursor] = u
        BY <1>5, <4>2 DEF IndInv, InodesExact
      <4>4. QED
        BY <1>5, <3>1, <4>3
    <3>2. QED
      BY <3>1
  <2>3. taken = {}
    BY <1>4, <2>2
  <2>4. QED
    BY <1>1, <1>8, <2>3, WalkEnds
<1>9. CASE inode # NoInode
  <2>1. inode \in 1..made
    BY <1>4, <1>6, <1>7, <1>9 DEF FirstInode, SecondInode
  <2> HIDE DEF inode
  <2>2. QED
    BY <1>1, <2>1, WalkOn
<1>10. QED
  BY <1>8, <1>9

-----------------------------------------------------------------------------
\* A process that has just started: its main, and no threads.
LEMMA InitKeeps ==
  ASSUME Setting, Init
  PROVE  IndInv
<1>1. \A t \in Tasks : pc[t] = IF t \in Threads THEN "none" ELSE "idle"
  BY DEF Init
<1>2. CodeOK /\ ThreadsOK
  <2>1. CodeOK
    <3>1. mutex \in [locks : Int, count : Int] /\ line \in Seq(Tasks)
      BY DEF Init
    <3>2. terminated \in 0..2 /\ kill_state \in {0, 3, 4, 5} /\ locks \in Int
      BY DEF Init
    <3>3. QED
      BY <3>1, <3>2 DEF Init, CodeOK
  <2>2. list \in Seq(1..made) /\ made \in 0..MaxCreates /\ cursor \in 0..made
    BY Who DEF Setting, Init, NoInode
  <2>3. \A i \in 1..made : FALSE
    BY DEF Init
  <2>4. QED
    BY <2>1, <2>2, <2>3 DEF Init, ThreadsOK, NoInode
<1>3. CallsOK
  BY <1>1, Who DEF Setting, Init, CallsOK, Points, WorkKinds, IdleCpu, Levels
<1>4. LineExact /\ RunnersExact
  BY <1>1 DEF Init, LineExact, Distinct, RunnersExact, RunPoints
<1>5. InodesExact /\ SlotsExact
  BY <1>1, Who DEF Setting, Init, InodesExact, SlotsExact
<1>6. CreatesExact /\ DestroysExact
  BY <1>1, Who DEF Setting, Init, CreatesExact, CreateAt, DestroysExact, DestroyAt
<1>7. KindsExact
  BY <1>1, Who DEF Setting, Init, KindsExact, KindAt, KillPoints
<1>8. MainExact
  BY <1>1, Who DEF Setting, Init, MainExact, KillPoints, DestroyBefore, DestroyAfter
<1>9. NoThreadYet /\ RecordExact
  BY <1>1, Who DEF Setting, Init, NoThreadYet, RecordExact, Entered, Marked
<1>10. SemaphoreExact
  <2>1. \A t \in Tasks : ~ Owner(t)
    BY <1>1 DEF Owner
  <2>2. ~ Owned /\ OneOwner
    BY <2>1 DEF Owned, OneOwner
  <2>3. QED
    BY <2>2 DEF Init, SemaphoreExact
<1>11. QED
  BY <1>2, <1>3, <1>4, <1>5, <1>6, <1>7, <1>8, <1>9, <1>10 DEF IndInv, TypeOK

\* Every step keeps the invariant.
LEMMA NextKeeps ==
  ASSUME Setting, IndInv, [Next]_vars
  PROVE  IndInv'
<1>1. ASSUME NEW t \in Tasks, Proceed(t) PROVE IndInv'
  BY <1>1, LockKeeps, LockWaitKeeps, UnlockKeeps, MarkKeeps, LeaveKeeps, UnmarkKeeps,
    UseKeeps, CreateRefusedKeeps, NewThreadKeeps, AddThreadKeeps, StartThreadKeeps,
    StartFailsKeeps, DestroyThreadKeeps, RemoveThreadKeeps, HitKeeps DEF Proceed
<1>2. ASSUME NEW t \in Tasks, Sleep(t) \/ WakeUp(t) PROVE IndInv'
  BY <1>2, SleepKeeps, WakeUpKeeps
<1>3. ASSUME NEW t \in Clients, Begin(t) PROVE IndInv'
  BY <1>3, BeginKeeps
<1>4. ASSUME NEW t \in Threads, End(t) PROVE IndInv'
  BY <1>4, EndKeeps
<1>5. ASSUME NEW t \in Tasks \ {Main}, Kill(t) PROVE IndInv'
  BY <1>5, KillKeeps
<1>6. CASE Exit \/ KillProceeds
  BY <1>6, ExitKeeps, KillImplKeeps, ChildrenKeeps, WalkKeeps, WalkNextKeeps, DestroyNextKeeps
  DEF KillProceeds
<1>7. CASE UNCHANGED vars
  <2>1. /\ UNCHANGED <<critical_code, semaphore, dying, threads, pc, job, target, kills, cpu>>
        /\ ready' = ready
    BY <1>7 DEF vars, critical_code, semaphore, dying, threads
  <2>2. TypeOK'
    BY <2>1 DEF IndInv, TypeOK, CodeOK, ThreadsOK, CallsOK, critical_code, semaphore,
      dying, threads
  <2>3. LineExact' /\ RunnersExact' /\ InodesExact'
    BY <2>1 DEF IndInv, LineExact, RunnersExact, InodesExact, semaphore, threads
  <2>4. SlotsExact' /\ CreatesExact'
    BY <2>1 DEF IndInv, SlotsExact, CreatesExact, CreateAt, Listed, Coming, dying, threads
  <2>5. DestroysExact' /\ KindsExact' /\ MainExact'
    BY <2>1 DEF IndInv, DestroysExact, DestroyAt, KindsExact, KindAt, MainExact, dying, threads
  <2>6. NoThreadYet' /\ RecordExact'
    BY <2>1 DEF IndInv, NoThreadYet, RecordExact, Quiet, critical_code, dying, threads
  <2>7. SemaphoreExact'
    BY <2>1, OwnerStays DEF IndInv, Quiet, Owner, semaphore, dying, threads
  <2>8. QED
    BY <2>2, <2>3, <2>4, <2>5, <2>6, <2>7 DEF IndInv
<1>8. QED
  BY <1>1, <1>2, <1>3, <1>4, <1>5, <1>6, <1>7 DEF Next

\* The invariant holds from the start on.
LEMMA IndInvInvariant ==
  ASSUME OnePriority
  PROVE  Spec => []IndInv
<1>1. Setting
  BY CriticalCodeAssumption, NucleusAssumption DEF Setting
<1>2. Init => IndInv
  BY <1>1, InitKeeps
<1>3. IndInv /\ [Next]_vars => IndInv'
  BY <1>1, NextKeeps
<1>4. QED
  BY <1>2, <1>3, PTL DEF Spec

-----------------------------------------------------------------------------
\* Every variable keeps its type: slots, inodes and cursor are in range however
\* createThread, destroyThread and the kill interleave.
THEOREM TypeCorrect == ASSUME OnePriority PROVE Spec => []TypeOK
<1>1. IndInv => TypeOK
  BY DEF IndInv
<1>2. QED
  BY <1>1, IndInvInvariant, PTL

\* When kill_impl has passed state 4, no thread of the process is left that
\* could still run, and no slot of threads[] is lost.
THEOREM DeathTakesThreads == ASSUME OnePriority PROVE Spec => []NoThreadSurvives
<1>1. IndInv => NoThreadSurvives
  BY DEF IndInv, MainExact, SlotsExact, NoThreadSurvives
<1>2. QED
  BY <1>1, IndInvInvariant, PTL

\* The step of a killer that tears the main out of what it does.
LEMMA HitSpares ==
  ASSUME Setting, IndInv, [Next]_vars, made = 0, terminated = 0, terminated' = 1
  PROVE  pc[Main] \notin {"inside", "add", "start", "remove", "leave"}
<1>1. ASSUME NEW t \in Tasks, Proceed(t) PROVE Hit(t)
  BY <1>1 DEF Proceed, Lock, LockWait, Mark, Leave, Unlock, Unmark, Use, CreateRefused,
    NewThread, AddThread, StartThread, StartFails, DestroyThread, RemoveThread, dying
<1>2. \E t \in Tasks : Hit(t)
  <2>1. \A t \in Tasks : ~ Sleep(t) /\ ~ WakeUp(t)
    BY DEF Sleep, WakeUp, dying
  <2>2. \A t \in Clients : ~ Begin(t)
    BY DEF Begin, Enter, dying
  <2>3. (\A t \in Threads : ~ End(t)) /\ \A t \in Tasks : ~ Kill(t)
    BY DEF End, Kill, dying
  <2>4. ~ Exit /\ ~ KillProceeds
    BY DEF Exit, KillProceeds, KillImpl, Children, Walk, WalkNext, WalkTo, DestroyNext, Enter,
      dying
  <2>5. terminated' # terminated
    OBVIOUS
  <2>6. QED
    BY <1>1, <2>1, <2>2, <2>3, <2>4, <2>5 DEF Next, vars
<1>3. PICK t \in Tasks : Hit(t)
  BY <1>2
<1>4. t # Main /\ Owner(t) /\ Main \in Tasks
  BY <1>3, Who DEF Setting, IndInv, KindsExact, KindAt, Hit, Owner
<1>5. ~ Owner(Main)
  BY <1>4 DEF IndInv, SemaphoreExact, Quiet, OneOwner
<1>6. QED
  BY <1>5 DEF Owner

\* A kill does not tear the main of a living process without threads out of
\* critical code: the mutex has one owner, and a killer that hits is the owner.
THEOREM KillSparesMainTheorem == ASSUME OnePriority PROVE Spec => KillSparesMain
<1>1. Setting
  BY CriticalCodeAssumption, NucleusAssumption DEF Setting
<1>2. IndInv /\ [Next]_vars =>
        [made = 0 /\ terminated = 0 /\ terminated' = 1
           => pc[Main] \notin {"inside", "add", "start", "remove", "leave"}]_vars
  BY <1>1, HitSpares
<1>3. QED
  BY <1>2, IndInvInvariant, PTL DEF Spec, KillSparesMain
=============================================================================
