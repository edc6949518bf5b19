---------------------------- MODULE NucleusProofs ----------------------------
(***************************************************************************)
(* What the queue of a semaphore is like, whatever the priorities of the   *)
(* tasks: used by the proofs about everything that waits for a semaphore.  *)
(***************************************************************************)
EXTENDS Nucleus, SequenceTheorems, WellFoundedInduction, TLAPS

\* The kernel's order: the more urgent first.
Ordered(line) == \A i, j \in 1..Len(line) : i < j => Prio[line[i]] <= Prio[line[j]]

\* A task waits once.
Distinct(line) == \A i, j \in 1..Len(line) : line[i] = line[j] => i = j

\* In an ordered queue there is one place behind all that are as urgent.
LEMMA BehindExists ==
  ASSUME NucleusAssumption, NEW w \in Seq(Tasks), Ordered(w), NEW t \in Tasks
  PROVE  /\ Behind(w, t) \in 0..Len(w)
         /\ \A i \in 1..Len(w) : i <= Behind(w, t) <=> Prio[w[i]] <= Prio[t]
<1>1. \A i \in 1..Len(w) : Prio[w[i]] \in Nat
  BY ElementOfSeq DEF NucleusAssumption
<1>2. Prio[t] \in Nat /\ Len(w) \in Nat
  BY DEF NucleusAssumption
<1> DEFINE Later == {i \in 1..Len(w) : Prio[t] < Prio[w[i]]}
<1>3. \E n \in 0..Len(w) : \A i \in 1..Len(w) : i <= n <=> Prio[w[i]] <= Prio[t]
  <2>1. CASE Later = {}
    <3>1. \A i \in 1..Len(w) : i <= Len(w) <=> Prio[w[i]] <= Prio[t]
      BY <1>1, <1>2, <2>1
    <3>2. Len(w) \in 0..Len(w)
      BY <1>2
    <3>3. QED
      BY <3>1, <3>2
  <2>2. CASE Later # {}
    <3>1. Later \subseteq Nat
      OBVIOUS
    <3>2. PICK m \in Later : \A i \in Later : ~ (<<i, m>> \in OpToRel(<, Nat))
      BY <2>2, <3>1, NatLessThanWellFounded, WFMin, Zenon
    <3>3. \A i \in Later : m <= i
      <4>1. ASSUME NEW i \in Later PROVE ~ (i < m)
        <5>1. i \in Nat /\ m \in Nat
          BY <3>1
        <5>2. QED
          BY <3>2, <5>1, Zenon DEF OpToRel
      <4>2. QED
        BY <3>1, <4>1
    <3>4. m - 1 \in 0..Len(w) /\ Prio[t] < Prio[w[m]] /\ m \in 1..Len(w)
      BY <1>2
    <3>5. ASSUME NEW i \in 1..Len(w)
          PROVE  i <= m - 1 <=> Prio[w[i]] <= Prio[t]
      <4>1. CASE i < m
        BY <1>1, <1>2, <3>3, <3>4, <4>1
      <4>2. CASE i = m
        BY <1>1, <1>2, <3>4, <4>2
      <4>3. CASE m < i
        <5>1. Prio[w[m]] <= Prio[w[i]]
          BY <3>4, <4>3 DEF Ordered
        <5>2. QED
          BY <1>1, <1>2, <3>4, <4>3, <5>1
      <4>4. QED
        BY <3>4, <4>1, <4>2, <4>3
    <3>6. QED
      BY <3>4, <3>5
  <2>3. QED
    BY <2>1, <2>2
<1>4. QED
  BY <1>3 DEF Behind

\* The kernel puts t into the queue at that place and moves nobody else.
LEMMA EnqueueInserts ==
  ASSUME NucleusAssumption, NEW w \in Seq(Tasks), Ordered(w), NEW t \in Tasks
  PROVE  /\ Enqueue(w, t) \in Seq(Tasks)
         /\ Len(Enqueue(w, t)) = Len(w) + 1
         /\ \A i \in 1..(Len(w) + 1) :
              Enqueue(w, t)[i] = IF i <= Behind(w, t) THEN w[i]
                                 ELSE IF i = Behind(w, t) + 1 THEN t ELSE w[i - 1]
<1> DEFINE n == Behind(w, t)
           front == SubSeq(w, 1, n)
           back == SubSeq(w, n + 1, Len(w))
           new == front \o <<t>>
<1>1. n \in 0..Len(w) /\ Len(w) \in Nat
  BY BehindExists
<1> HIDE DEF n
<1>2. front \in Seq(Tasks) /\ Len(front) = n /\ \A i \in 1..n : front[i] = w[i]
  BY <1>1
<1>3. /\ back \in Seq(Tasks) /\ Len(back) = Len(w) - n
      /\ \A i \in 1..(Len(w) - n) : back[i] = w[n + i]
  BY <1>1
<1> HIDE DEF front, back
<1>4. /\ new \in Seq(Tasks) /\ Len(new) = n + 1
      /\ \A i \in 1..(n + 1) : new[i] = IF i <= n THEN front[i] ELSE t
  <2>1. <<t>> \in Seq(Tasks) /\ Len(<<t>>) = 1 /\ <<t>>[1] = t
    OBVIOUS
  <2>2. QED
    BY <1>1, <1>2, <2>1, ConcatProperties
<1> HIDE DEF new
<1>5. /\ new \o back \in Seq(Tasks) /\ Len(new \o back) = Len(w) + 1
      /\ \A i \in 1..(Len(w) + 1) :
           (new \o back)[i] = IF i <= n + 1 THEN new[i] ELSE back[i - (n + 1)]
  <2>1. Len(new) + Len(back) = Len(w) + 1
    BY <1>1, <1>3, <1>4
  <2>2. /\ new \o back \in Seq(Tasks) /\ Len(new \o back) = Len(new) + Len(back)
        /\ \A i \in 1..(Len(new) + Len(back)) :
             (new \o back)[i] = IF i <= Len(new) THEN new[i] ELSE back[i - Len(new)]
    BY <1>3, <1>4, ConcatProperties, ZenonT(40)
  <2>3. QED
    BY <1>4, <2>1, <2>2
<1>6. Enqueue(w, t) = new \o back
  BY DEF Enqueue, n, front, back, new
<1>7. ASSUME NEW i \in 1..(Len(w) + 1)
      PROVE  (new \o back)[i] = IF i <= n THEN w[i] ELSE IF i = n + 1 THEN t ELSE w[i - 1]
  <2>1. CASE i <= n + 1
    <3>1. (new \o back)[i] = new[i] /\ i \in 1..(n + 1) /\ (i <= n => i \in 1..n)
      BY <1>1, <1>5, <2>1
    <3>2. i <= n \/ i = n + 1
      BY <1>1, <2>1
    <3>3. QED
      BY <1>2, <1>4, <3>1, <3>2
  <2>2. CASE i > n + 1
    <3> DEFINE j == i - (n + 1)
    <3>1. j \in 1..(Len(w) - n) /\ n + j = i - 1
      BY <1>1, <2>2
    <3>2. ~ (i <= n + 1) /\ ~ (i <= n) /\ i # n + 1
      BY <1>1, <2>2
    <3>3. (new \o back)[i] = back[j]
      BY <1>5, <3>2
    <3> HIDE DEF j
    <3>4. back[j] = w[n + j]
      BY <1>3, <3>1
    <3>5. QED
      BY <3>1, <3>2, <3>3, <3>4
  <2>3. i <= n + 1 \/ i > n + 1
    BY <1>1
  <2>4. QED
    BY <2>1, <2>2, <2>3, Zenon
<1>8. QED
  BY <1>5, <1>6, <1>7 DEF n

\* A task that was not in the queue gets in once, and the order is kept.
LEMMA EnqueueKeeps ==
  ASSUME NucleusAssumption, NEW w \in Seq(Tasks), Ordered(w), Distinct(w), NEW t \in Tasks,
         \A i \in 1..Len(w) : w[i] # t
  PROVE  /\ Enqueue(w, t) \in Seq(Tasks) /\ Len(Enqueue(w, t)) = Len(w) + 1
         /\ Ordered(Enqueue(w, t)) /\ Distinct(Enqueue(w, t))
         /\ \A i \in 1..Len(Enqueue(w, t)) :
              Enqueue(w, t)[i] = t \/ \E k \in 1..Len(w) : Enqueue(w, t)[i] = w[k]
<1> DEFINE n == Behind(w, t)
           line == Enqueue(w, t)
<1>1. n \in 0..Len(w) /\ \A i \in 1..Len(w) : i <= n <=> Prio[w[i]] <= Prio[t]
  BY BehindExists
<1>2. /\ line \in Seq(Tasks) /\ Len(line) = Len(w) + 1
      /\ \A i \in 1..(Len(w) + 1) :
           line[i] = IF i <= n THEN w[i] ELSE IF i = n + 1 THEN t ELSE w[i - 1]
  BY EnqueueInserts
<1> HIDE DEF n, line
<1>3. ASSUME NEW i \in 1..Len(line)
      PROVE  /\ i \in 1..(Len(w) + 1)
             /\ line[i] = IF i <= n THEN w[i] ELSE IF i = n + 1 THEN t ELSE w[i - 1]
  BY <1>2
<1>4. Len(w) \in Nat /\ \A i \in 1..Len(w) : w[i] \in Tasks
  BY ElementOfSeq
<1>5. \A i \in 1..Len(w) : Prio[w[i]] \in Nat /\ Prio[t] \in Nat
  BY <1>4 DEF NucleusAssumption
<1>6. \A i \in 1..Len(w) : w[i] # t
  OBVIOUS
<1>7. ASSUME NEW i \in 1..Len(line), NEW j \in 1..Len(line), i < j
      PROVE  Prio[line[i]] <= Prio[line[j]]
  <2>1. CASE j <= n
    <3>1. i \in 1..Len(w) /\ j \in 1..Len(w)
      BY <1>1, <1>3, <1>4, <1>7, <2>1
    <3>2. line[i] = w[i] /\ line[j] = w[j]
      BY <1>1, <1>3, <1>4, <1>7, <2>1
    <3>3. QED
      BY <1>7, <3>1, <3>2 DEF Ordered
  <2>2. CASE j = n + 1
    <3>1. i \in 1..Len(w) /\ i <= n
      BY <1>1, <1>3, <1>4, <1>7, <2>2
    <3>2. line[i] = w[i] /\ line[j] = t
      BY <1>1, <1>3, <1>4, <1>7, <2>2
    <3>3. QED
      BY <1>1, <3>1, <3>2
  <2>3. CASE j > n + 1 /\ i <= n
    <3>1. i \in 1..Len(w) /\ j - 1 \in 1..Len(w) /\ i < j - 1
      BY <1>1, <1>3, <1>4, <2>3
    <3>2. line[i] = w[i] /\ line[j] = w[j - 1]
      BY <1>1, <1>3, <1>4, <2>3
    <3>3. QED
      BY <3>1, <3>2 DEF Ordered
  <2>4. CASE j > n + 1 /\ i = n + 1
    <3>1. j - 1 \in 1..Len(w) /\ ~ (j - 1 <= n)
      BY <1>1, <1>3, <1>4, <2>4
    <3>2. line[i] = t /\ line[j] = w[j - 1]
      BY <1>1, <1>3, <1>4, <2>4
    <3>3. QED
      BY <1>1, <1>5, <3>1, <3>2
  <2>5. CASE j > n + 1 /\ i > n + 1
    <3>1. i - 1 \in 1..Len(w) /\ j - 1 \in 1..Len(w) /\ i - 1 < j - 1
      BY <1>1, <1>3, <1>4, <1>7, <2>5
    <3>2. ~(i <= n) /\ i # n + 1 /\ ~(j <= n) /\ j # n + 1
      BY <1>1, <1>4, <2>5
    <3>3. line[i] = w[i - 1] /\ line[j] = w[j - 1]
      BY <1>3, <3>2
    <3>4. QED
      BY <3>1, <3>3 DEF Ordered
  <2>6. QED
    BY <1>1, <1>3, <1>4, <2>1, <2>2, <2>3, <2>4, <2>5
<1>8. ASSUME NEW i \in 1..Len(line)
      PROVE  line[i] = t \/ \E k \in 1..Len(w) : line[i] = w[k]
  <2>1. CASE i <= n
    BY <1>1, <1>3, <1>4, <2>1
  <2>2. CASE i = n + 1
    BY <1>1, <1>3, <1>4, <2>2
  <2>3. CASE i > n + 1
    <3>1. i - 1 \in 1..Len(w) /\ line[i] = w[i - 1]
      BY <1>1, <1>3, <1>4, <2>3
    <3>2. QED
      BY <3>1
  <2>4. QED
    BY <1>1, <1>4, <2>1, <2>2, <2>3
<1>9. ASSUME NEW i \in 1..Len(line), NEW j \in 1..Len(line), line[i] = line[j]
      PROVE  i = j
  <2> DEFINE Old(k) == IF k <= n THEN k ELSE k - 1
  <2>1. ASSUME NEW k \in 1..Len(line)
        PROVE  IF k = n + 1 THEN line[k] = t
               ELSE Old(k) \in 1..Len(w) /\ line[k] = w[Old(k)]
    <3>1. CASE k <= n
      BY <1>1, <1>3, <1>4, <3>1
    <3>2. CASE k = n + 1
      BY <1>1, <1>3, <1>4, <3>2
    <3>3. CASE k > n + 1
      BY <1>1, <1>3, <1>4, <3>3
    <3>4. QED
      BY <1>1, <1>4, <3>1, <3>2, <3>3
  <2>2. CASE i = n + 1 \/ j = n + 1
    BY <1>6, <1>9, <2>1, <2>2
  <2>3. CASE i # n + 1 /\ j # n + 1
    <3>1. Old(i) \in 1..Len(w) /\ Old(j) \in 1..Len(w)
          /\ w[Old(i)] = w[Old(j)]
      BY <1>9, <2>1, <2>3
    <3>2. Old(i) = Old(j)
      BY <3>1 DEF Distinct
    <3>3. QED
      BY <1>1, <1>3, <1>4, <2>3, <3>2
  <2>4. QED
    BY <2>2, <2>3
<1>10. QED
  BY <1>2, <1>7, <1>8, <1>9 DEF Ordered, Distinct, line

\* The first waiter leaves the queue.
LEMMA TailKeeps ==
  ASSUME NEW w \in Seq(Tasks), Ordered(w), Distinct(w), w # << >>
  PROVE  /\ Tail(w) \in Seq(Tasks) /\ Len(Tail(w)) = Len(w) - 1
         /\ Len(w) \in Nat /\ Len(w) > 0 /\ Head(w) \in Tasks /\ Head(w) = w[1]
         /\ Ordered(Tail(w)) /\ Distinct(Tail(w))
         /\ \A i \in 1..Len(Tail(w)) :
              i + 1 \in 1..Len(w) /\ Tail(w)[i] = w[i + 1] /\ Tail(w)[i] # Head(w)
<1> DEFINE line == Tail(w)
<1>1. /\ line \in Seq(Tasks) /\ Len(line) = Len(w) - 1 /\ Len(w) \in Nat /\ Len(w) > 0
      /\ \A i \in 1..Len(line) : line[i] = w[i + 1]
      /\ Head(w) = w[1] /\ Head(w) \in Tasks
  BY HeadTailProperties, EmptySeq
<1> HIDE DEF line
<1>2. \A i \in 1..Len(line) : i + 1 \in 1..Len(w)
  BY <1>1
<1>3. \A i \in 1..Len(line) : line[i] # Head(w)
  BY <1>1, <1>2 DEF Distinct
<1>4. ASSUME NEW i \in 1..Len(line), NEW j \in 1..Len(line), i < j
      PROVE  Prio[line[i]] <= Prio[line[j]]
  <2>1. i + 1 \in 1..Len(w) /\ j + 1 \in 1..Len(w) /\ i + 1 < j + 1
    BY <1>2, <1>4
  <2>2. Prio[w[i + 1]] <= Prio[w[j + 1]]
    BY <2>1 DEF Ordered
  <2>3. QED
    BY <1>1, <2>2
<1>5. ASSUME NEW i \in 1..Len(line), NEW j \in 1..Len(line), line[i] = line[j]
      PROVE  i = j
  <2>1. i + 1 \in 1..Len(w) /\ j + 1 \in 1..Len(w) /\ w[i + 1] = w[j + 1]
    BY <1>1, <1>2, <1>5
  <2>2. i + 1 = j + 1
    BY <2>1 DEF Distinct
  <2>3. QED
    BY <2>2
<1>6. QED
  BY <1>1, <1>2, <1>3, <1>4, <1>5 DEF line, Ordered, Distinct
=============================================================================
