-------------------------- MODULE PipeTimerProofs ----------------------------
(***************************************************************************)
(* Proofs about Timer, for any table of timers, any length of the event    *)
(* queue and any number of kills, and then about Pipe, for any buffer and  *)
(* any tasks: that it is a stream of bytes, and that its waits end.  Timer *)
(* and Pipe have nothing to do with one another.                           *)
(***************************************************************************)
EXTENDS Timer, Pipe, FiniteSetTheorems, SequenceTheorems, TLAPS

-----------------------------------------------------------------------------
(***************************************************************************)
(* Timer                                                                   *)
(***************************************************************************)
StartPoints == {"s_fields", "s_create", "s_dtor"}
ResetPoints == {"r_data", "r_reset"}
StopPoints == {"t_disable", "t_delete", "t_decide"}
Points ==
  StartPoints \cup ResetPoints \cup StopPoints
    \cup {"idle", "callback", "begin", "receive", "dispatch", "count", "next", "die",
          "dtors", "dead"}

TypeOK ==
  /\ used \in [Slots -> BOOLEAN] /\ pid \in [Slots -> {0, -1}]
  /\ sended \in [Slots -> Int] /\ reg \in Int /\ last \in [Slots -> BOOLEAN]
  /\ mixed \in [Slots -> BOOLEAN]
  /\ kernel \in [Slots -> {"none", "on", "off"}]
  /\ queue \in Seq(Events)
  /\ dtors \in Seq(Slots)
  /\ pc \in Points /\ back \in {"idle", "callback", "begin", "dtors"}
  /\ pc \in StartPoints \cup ResetPoints \cup StopPoints => slot \in Slots
  /\ event \in Events /\ (pc \in {"dispatch", "count"} => event \in Slots)

Distinct(s) == \A i, j \in DOMAIN s : s[i] = s[j] => i = j

\* A timer is in dtors once, and while it is there it is neither free nor stopped.
EachOnce == Distinct(dtors)
KnownLive == \A s \in Known : used[s] /\ s \notin halted

\* What a timerStop leaves in the table, which decides over late events.
StopMarks ==
  \A s \in Slots :
    /\ s \in halted => pid[s] < 0 \/ last[s]
    /\ last[s] => s \in halted

\* Who will stop a kernel timer: the destructors, or the timerStart or
\* timerStop that is at it.
WatchedOver(s) ==
  s \in Known \cup torn \/ (slot = s /\ pc \in {"s_dtor", "t_disable", "t_delete"})
KernelWatched ==
  \A s \in Slots : kernel[s] # "none" => used[s] /\ s \notin halted /\ WatchedOver(s)

\* What each point of a call knows of the timer it is at.
CallExact ==
  /\ pc \in {"s_fields", "s_create"} => kernel[slot] = "none"
  /\ pc \in StartPoints \cup StopPoints => used[slot] /\ slot \notin Known
  /\ pc \in {"s_create", "s_dtor"} \cup StopPoints => slot \notin halted
  /\ pc = "t_decide" => kernel[slot] = "none"
  /\ pc \in ResetPoints => slot \in Known
  /\ pc = "count" => pid[event] = 0
  /\ pc = "dead" => dtors = << >>

\* Fields of two calls: a reset that is not through, of a timer that is not running.
MixedExact ==
  \A s \in Slots :
    mixed[s] => s \in hasty \/ (pc = "r_data" /\ slot = s /\ kernel[s] # "on")

IndInv ==
  TypeOK /\ EachOnce /\ KnownLive /\ StopMarks /\ KernelWatched /\ CallExact /\ MixedExact

-----------------------------------------------------------------------------
\* addProcessDtors adds a timer that was not in the list.
LEMMA AppendFacts ==
  ASSUME NEW S, NEW s \in Seq(S), NEW e \in S, e \notin ToSet(s), Distinct(s)
  PROVE  /\ Append(s, e) \in Seq(S)
         /\ ToSet(Append(s, e)) = ToSet(s) \cup {e}
         /\ Distinct(Append(s, e))
<1>1. /\ Append(s, e) \in Seq(S) /\ Len(s) \in Nat /\ DOMAIN s = 1..Len(s)
      /\ DOMAIN Append(s, e) = 1..(Len(s) + 1)
      /\ \A i \in 1..Len(s) : Append(s, e)[i] = s[i]
      /\ Append(s, e)[Len(s) + 1] = e
  OBVIOUS
<1>2. ToSet(s) = {s[i] : i \in 1..Len(s)}
  BY <1>1 DEF ToSet
<1>3. ToSet(Append(s, e)) = ToSet(s) \cup {e}
  BY <1>1, <1>2 DEF ToSet
<1>4. \A i \in 1..Len(s) : s[i] # e
  BY <1>2
<1>5. Distinct(Append(s, e))
  BY <1>1, <1>4 DEF Distinct
<1>6. QED
  BY <1>1, <1>3, <1>5

\* eraseProcessDtor takes out the one entry of a timer.
LEMMA RemoveAtFacts ==
  ASSUME NEW S, NEW s \in Seq(S), NEW k \in DOMAIN s, Distinct(s)
  PROVE  /\ RemoveAt(s, k) \in Seq(S)
         /\ ToSet(RemoveAt(s, k)) = ToSet(s) \ {s[k]}
         /\ Distinct(RemoveAt(s, k))
<1> DEFINE left == SubSeq(s, 1, k - 1)
           right == SubSeq(s, k + 1, Len(s))
           r == left \o right
           at(i) == IF i < k THEN i ELSE i + 1
<1>1. k \in 1..Len(s) /\ Len(s) \in Nat
  OBVIOUS
<1>2. \A i \in 1..Len(s) : s[i] \in S
  BY ElementOfSeq
<1>3. /\ left \in Seq(S) /\ Len(left) = k - 1
      /\ \A i \in 1..(k - 1) : left[i] = s[i]
  BY <1>1, <1>2, SubSeqProperties
<1>4. /\ right \in Seq(S) /\ Len(right) = Len(s) - k
      /\ \A i \in 1..(Len(s) - k) : right[i] = s[k + i]
  BY <1>1, <1>2, SubSeqProperties
<1>5. /\ r \in Seq(S) /\ Len(r) = Len(s) - 1
      /\ \A i \in 1..(Len(s) - 1) : r[i] = s[at(i)]
  <2>1. /\ r \in Seq(S) /\ Len(r) = Len(left) + Len(right)
        /\ \A i \in 1..(Len(left) + Len(right)) :
             r[i] = IF i <= Len(left) THEN left[i] ELSE right[i - Len(left)]
    BY <1>3, <1>4, ConcatProperties
  <2> HIDE DEF left, right, r
  <2>2. ASSUME NEW i \in 1..(Len(s) - 1) PROVE r[i] = s[at(i)]
    <3>1. CASE i < k
      <4>1. /\ i \in 1..(k - 1) /\ i \in 1..(Len(left) + Len(right)) /\ i <= Len(left)
            /\ at(i) = i
        BY <1>1, <1>3, <1>4, <3>1
      <4>2. r[i] = left[i] /\ left[i] = s[i]
        BY <1>3, <2>1, <4>1
      <4>3. QED
        BY <4>1, <4>2
    <3>2. CASE i >= k
      <4>0. /\ i \in 1..(Len(left) + Len(right)) /\ ~(i <= Len(left))
            /\ i - (k - 1) \in 1..(Len(s) - k)
        <5>1. Len(left) = k - 1 /\ Len(right) = Len(s) - k
          BY <1>3, <1>4
        <5>2. QED
          BY <1>1, <3>2, <5>1
      <4>1. r[i] = right[i - (k - 1)]
        BY <1>3, <2>1, <4>0
      <4>2. right[i - (k - 1)] = s[k + (i - (k - 1))] /\ k + (i - (k - 1)) = i + 1
        <5>1. PICK j \in 1..(Len(s) - k) : j = i - (k - 1)
          BY <4>0
        <5>2. right[j] = s[k + j]
          BY <1>4
        <5>3. k + j = i + 1
          BY <1>1, <5>1
        <5>4. QED
          BY <5>1, <5>2, <5>3
      <4>3. QED
        BY <1>1, <3>2, <4>1, <4>2
    <3>3. QED
      BY <1>1, <3>1, <3>2
  <2>3. QED
    BY <1>1, <1>3, <1>4, <2>1, <2>2
<1>6. DOMAIN r = 1..(Len(s) - 1) /\ DOMAIN s = 1..Len(s)
  BY <1>5, LenProperties
<1> HIDE DEF left, right, r
<1>7. ToSet(r) = ToSet(s) \ {s[k]}
  <2>1. ASSUME NEW i \in DOMAIN r PROVE r[i] \in ToSet(s) \ {s[k]}
    <3>1. i \in 1..(Len(s) - 1) /\ at(i) \in DOMAIN s /\ at(i) # k
      BY <1>1, <1>6
    <3>0. r[i] = s[at(i)]
      BY <1>5, <3>1
    <3>2. QED
      BY <1>6, <3>1, <3>0 DEF ToSet, Distinct
  <2>2. ASSUME NEW i \in DOMAIN s, i # k PROVE s[i] \in ToSet(r)
    <3>1. CASE i < k
      <4>1. i \in DOMAIN r /\ r[i] = s[i]
        BY <1>1, <1>5, <1>6, <3>1
      <4>2. QED
        BY <4>1 DEF ToSet
    <3>2. CASE i > k
      <4>0. i - 1 \in 1..(Len(s) - 1) /\ at(i - 1) = i
        BY <1>1, <1>6, <3>2
      <4>1. i - 1 \in DOMAIN r /\ r[i - 1] = s[i]
        BY <1>5, <1>6, <4>0
      <4>2. QED
        BY <4>1 DEF ToSet
    <3>3. QED
      BY <1>1, <1>6, <2>2, <3>1, <3>2
  <2>3. QED
    BY <2>1, <2>2 DEF ToSet
<1>8. Distinct(r)
  <2>1. ASSUME NEW i \in DOMAIN r, NEW j \in DOMAIN r, r[i] = r[j] PROVE i = j
    <3>1. /\ i \in 1..(Len(s) - 1) /\ j \in 1..(Len(s) - 1)
          /\ at(i) \in DOMAIN s /\ at(j) \in DOMAIN s
      BY <1>1, <1>6
    <3>2. s[at(i)] = s[at(j)]
      BY <1>5, <2>1, <3>1
    <3>3. at(i) = at(j)
      BY <3>1, <3>2 DEF Distinct
    <3>4. QED
      BY <1>1, <3>1, <3>3
  <2>2. QED
    BY <2>1 DEF Distinct
<1>9. r = RemoveAt(s, k)
  BY DEF RemoveAt, r, left, right
<1>10. QED
  BY <1>5, <1>7, <1>8, <1>9

\* kill_impl takes out the oldest entry.
LEMMA TailFacts ==
  ASSUME NEW S, NEW s \in Seq(S), s # << >>, Distinct(s)
  PROVE  /\ Head(s) \in ToSet(s) /\ Head(s) \in S
         /\ Tail(s) \in Seq(S)
         /\ ToSet(Tail(s)) = ToSet(s) \ {Head(s)}
         /\ Distinct(Tail(s))
<1>1. Len(s) \in Nat /\ Len(s) > 0 /\ 1 \in DOMAIN s /\ Head(s) = s[1]
  BY EmptySeq
<1>2. RemoveAt(s, 1) = << >> \o SubSeq(s, 2, Len(s))
  BY SubSeqEmpty DEF RemoveAt
<1>3. Tail(s) = SubSeq(s, 2, Len(s)) /\ Tail(s) \in Seq(S)
  BY TailIsSubSeq, HeadTailProperties
<1>4. RemoveAt(s, 1) = Tail(s)
  BY <1>2, <1>3, ConcatEmptySeq
<1>5. ToSet(Tail(s)) = ToSet(s) \ {Head(s)} /\ Distinct(Tail(s))
  BY <1>1, <1>4, RemoveAtFacts
<1>6. QED
  BY <1>1, <1>3, <1>5, ElementOfSeq DEF ToSet

-----------------------------------------------------------------------------
\* The inductive invariant holds when the process starts.
LEMMA InitEstablishes == Init => IndInv
BY DEF Init, IndInv, TypeOK, Points, Distinct, EachOnce, KnownLive, Known, ToSet, StopMarks,
       KernelWatched, CallExact, MixedExact, Quit, Events, StartPoints, ResetPoints, StopPoints

\* Every step preserves it: one case per action of Next.
LEMMA NextPreserves == IndInv /\ [Next]_vars => IndInv'
<1> SUFFICES ASSUME IndInv, [Next]_vars PROVE IndInv'
  OBVIOUS
<1> USE DEF IndInv, TypeOK, Points, StartPoints, ResetPoints, StopPoints, Events, Quit,
            EachOnce, KnownLive, Known, StopMarks, KernelWatched, WatchedOver, CallExact,
            MixedExact, Goto, Begin, Return, Client,
            vars, data, loop, place, history
<1>1. ASSUME NEW s \in Slots, TimerHandle(s) PROVE IndInv'
  <2>1. queue' \in Seq(Events)
    <3>1. queue' = queue \/ queue' = Append(queue, s)
      BY <1>1 DEF TimerHandle, sendEvent
    <3>2. Append(queue, s) \in Seq(Events)
      BY AppendProperties
    <3>3. QED
      BY <3>1, <3>2
  <2>2. QED
    BY <1>1, <2>1 DEF TimerHandle
<1>2. CASE CallStart
  BY <1>2 DEF CallStart
<1>3. CASE CallReset
  BY <1>3 DEF CallReset, ToSet
<1>4. CASE PauseOrResume
  BY <1>4 DEF PauseOrResume, ToSet
<1>5. CASE CallStop
  <2>1. PICK i \in DOMAIN dtors : Begin(dtors[i], "t_disable") /\ dtors' = RemoveAt(dtors, i)
    BY <1>5 DEF CallStop
  <2>2. /\ dtors' \in Seq(Slots) /\ Distinct(dtors')
        /\ ToSet(dtors') = ToSet(dtors) \ {dtors[i]}
    BY <2>1, RemoveAtFacts
  <2>3. dtors[i] \in Slots /\ dtors[i] \in ToSet(dtors)
    BY DEF ToSet
  <2>4. QED
    BY <1>5, <2>1, <2>2, <2>3 DEF CallStop
<1>6. CASE CallQuit
  <2>1. queue' \in Seq(Events)
    BY <1>6 DEF CallQuit, sendEvent
  <2>2. QED
    BY <1>6, <2>1 DEF CallQuit
<1>7. CASE processEvents
  BY <1>7 DEF processEvents
<1>8. CASE CallbackReturns
  BY <1>8 DEF CallbackReturns
<1>9. CASE StartRefused
  BY <1>9 DEF StartRefused
<1>10. CASE StartFields
  BY <1>10 DEF StartFields
<1>11. CASE StartTimer
  BY <1>11 DEF StartTimer
<1>12. CASE StartDtor
  <2>1. slot \in Slots /\ slot \notin ToSet(dtors)
    BY <1>12 DEF StartDtor
  <2>2. /\ dtors' \in Seq(Slots) /\ Distinct(dtors')
        /\ ToSet(dtors') = ToSet(dtors) \cup {slot}
    BY <1>12, <2>1, AppendFacts DEF StartDtor
  <2>3. QED
    BY <1>12, <2>1, <2>2 DEF StartDtor
<1>13. CASE ResetData
  BY <1>13 DEF ResetData
<1>14. CASE ResetTimer
  BY <1>14 DEF ResetTimer
<1>15. CASE StopDisable
  BY <1>15 DEF StopDisable
<1>16. CASE StopDelete
  BY <1>16 DEF StopDelete
<1>17. CASE StopDecide
  <2>1. TypeOK' /\ EachOnce' /\ KnownLive' /\ CallExact' /\ MixedExact'
    BY <1>17 DEF StopDecide
  <2>2. StopMarks'
    BY <1>17 DEF StopDecide
  <2>3. KernelWatched'
    BY <1>17 DEF StopDecide
  <2>4. QED
    BY <2>1, <2>2, <2>3
<1>18. CASE Receive
  BY <1>18 DEF Receive
<1>19. CASE Dispatch
  BY <1>19 DEF Dispatch
\* The slot of a timer is given free by the event that its timerStop marked as the last.
<1>20. CASE DispatchCount
  <2>1. last[event] => event \in halted /\ event \notin Known /\ kernel[event] = "none"
    BY <1>20 DEF DispatchCount
  <2>2. TypeOK'
    BY <1>20 DEF DispatchCount
  <2>3. QED
    BY <1>20, <2>1, <2>2 DEF DispatchCount
<1>21. CASE NextEvent
  BY <1>21 DEF NextEvent
<1>22. CASE KillImpl
  BY <1>22 DEF KillImpl
<1>23. CASE DeleteQueue
  BY <1>23 DEF DeleteQueue
<1>24. CASE RunDtors
  <2>1. CASE dtors = << >>
    BY <1>24, <2>1 DEF RunDtors
  <2>2. CASE dtors # << >>
    <3>0. dtors' = Tail(dtors) /\ dtors \in Seq(Slots) /\ Distinct(dtors)
      BY <1>24, <2>2 DEF RunDtors
    <3>1. /\ Head(dtors) \in ToSet(dtors) /\ Head(dtors) \in Slots
          /\ dtors' \in Seq(Slots) /\ Distinct(dtors')
          /\ ToSet(dtors') = ToSet(dtors) \ {Head(dtors)}
      BY ONLY <2>2, <3>0, TailFacts
    <3>2. TypeOK' /\ EachOnce' /\ KnownLive' /\ StopMarks' /\ MixedExact'
      BY <1>24, <2>2, <3>1 DEF RunDtors
    <3>3. KernelWatched' /\ CallExact'
      BY <1>24, <2>2, <3>1 DEF RunDtors
    <3>4. QED
      BY <3>2, <3>3
  <2>3. QED
    BY <2>1, <2>2
\* Whoever is killed in a timerStop or a timerReset leaves a name in torn or hasty.
<1>25. CASE Kill
  <2>1. TypeOK' /\ EachOnce' /\ KnownLive' /\ StopMarks' /\ CallExact'
    BY <1>25 DEF Kill
  <2>2. KernelWatched'
    BY <1>25 DEF Kill, Critical
  <2>3. MixedExact'
    BY <1>25 DEF Kill
  <2>4. QED
    BY <2>1, <2>2, <2>3
<1>26. CASE Exit
  BY <1>26 DEF Exit
<1>27. CASE UNCHANGED vars
  BY <1>27
<1>28. QED
  BY <1>1, <1>2, <1>3, <1>4, <1>5, <1>6, <1>7, <1>8, <1>9, <1>10, <1>11, <1>12, <1>13,
     <1>14, <1>15, <1>16, <1>17, <1>18, <1>19, <1>20, <1>21, <1>22, <1>23, <1>24, <1>25,
     <1>26, <1>27 DEF Next, Proceed

\* The inductive invariant always holds.
THEOREM Invariance == Spec => []IndInv
BY InitEstablishes, NextPreserves, PTL DEF Spec

\* A kernel timer belongs to a slot that is taken and not stopped, and none is
\* left of a dead process except where a kill cut a timerStop short.
THEOREM NoStrayTimerHolds == Spec => []NoStrayTimer
<1>1. IndInv => NoStrayTimer
  <2>1. dtors = << >> => Known = {}
    BY DEF Known, ToSet
  <2>2. QED
    BY <2>1 DEF IndInv, TypeOK, KernelWatched, WatchedOver, CallExact, NoStrayTimer
<1>2. QED
  BY <1>1, Invariance, PTL

\* A timer that can expire has its callback together with its userdata.
THEOREM EventsWholeHolds == Spec => []EventsWhole
<1>1. IndInv => EventsWhole
  BY DEF IndInv, MixedExact, EventsWhole
<1>2. QED
  BY <1>1, Invariance, PTL

\* No callback of a timer is called after its timerStop has returned.
THEOREM NoCallbackAfterStopHolds == Spec => NoCallbackAfterStop
<1>1. IndInv /\ [Next]_vars => [pc = "count" /\ pc' = "callback" => event \notin halted]_vars
  <2> SUFFICES ASSUME IndInv, Next, pc = "count", pc' = "callback"
               PROVE  event \notin halted
    BY DEF vars
  <2>1. DispatchCount
    BY DEF Next, Proceed, Goto, Begin, Return, Client, IndInv, TypeOK, TimerHandle, place,
           CallStart, CallReset, PauseOrResume, CallStop, CallQuit, processEvents,
           CallbackReturns, StartRefused, StartFields, StartTimer, StartDtor, ResetData,
           ResetTimer, StopDisable, StopDelete, StopDecide, Receive, Dispatch, NextEvent,
           Kill, Exit, KillImpl, DeleteQueue, RunDtors
  <2>2. ~last[event] /\ pid[event] = 0 /\ event \in Slots
    BY <2>1 DEF DispatchCount, IndInv, TypeOK, CallExact
  <2>3. QED
    BY <2>2 DEF IndInv, StopMarks
<1>2. QED
  BY <1>1, Invariance, PTL DEF Spec, NoCallbackAfterStop

-----------------------------------------------------------------------------
(***************************************************************************)
(* Pipe.  Who opens, closes, writes and reads has one priority: a memcpy   *)
(* or memmove is then never met half way by another of them.               *)
(***************************************************************************)
OnePriority ==
  \A t, u \in Writers \cup Readers \cup Owners : Prio[t] = Prio[u]

Copies == {"w_move", "w_copy", "r_copy"}
WriteSteps == {"w_wait", "w_lock", "w_check", "w_move", "w_size", "w_copy", "w_full",
               "w_unlock", "w_wake"}
ReadSteps == {"r_wait", "r_lock", "r_size", "r_copy", "r_empty", "r_wake", "r_unlock"}
OwnSteps == {"c_mutex", "c_fields", "c_cond0", "c_cond1", "c_cond2", "c_cond3", "c_wake",
             "x_lock", "x_free", "x_cond0", "x_cond1", "x_cond2", "x_cond3", "x_unlock",
             "x_mutex", "x_slot"}

PipeSteps == WriteSteps \cup ReadSteps \cup OwnSteps \cup {"idle", "f_wait"}
LockPoints ==
  {"idle", "critical", "suspended", "lock", "try", "take", "count", "obtain", "refused",
   "give_up", "unlock", "release", "drop", "reload", "settle"}
CondPoints ==
  {"idle", "suspended", "found", "make", "delete", "vacate", "wait", "consume", "count",
   "obtain", "refused", "give_up", "wake", "post", "clear", "release", "reload", "settle"}

PipeTypeOK ==
  /\ memory \in [1..Size -> Nat] /\ offset \in Nat /\ seek \in Nat
  /\ sent \in Nat /\ got \in Seq(Nat)
  /\ step \in [Tasks -> PipeSteps] /\ size \in [Tasks -> 0..Size]
  /\ copy \in [Tasks -> [first : Nat, left : Nat]]
  /\ lPc \in [Tasks -> LockPoints] /\ cPc \in [Tasks -> CondPoints]
  /\ cpu \in [Levels -> Tasks \cup {NoTask}]

\* Who is in which function of pipe.c
RolesExact ==
  \A t \in Tasks :
    /\ step[t] \in WriteSteps => t \in Writers
    /\ step[t] \in ReadSteps => t \in Readers
    /\ step[t] \in OwnSteps => t \in Owners

\* A task that copies is in no call and has the processor of its priority.
CopierRuns ==
  \A t \in Tasks :
    step[t] \in Copies =>
      lPc[t] \in {"idle", "critical"} /\ cPc[t] = "idle" /\ cpu[Prio[t]] = t

\* How many bytes were read
Arrived == Len(got)

\* The buffer from lo to hi has the bytes that follow those read, where the
\* next one to be read belongs at place next.
Filled(next, lo, hi) == \A j \in lo..(hi - 1) : memory[j + 1] = Arrived - next + j + 1

\* Between the copies
AtRest ==
  /\ offset <= seek /\ seek <= Size
  /\ sent - Arrived = seek - offset
  /\ Filled(offset, offset, seek)

BufferExact == (\A t \in Tasks : step[t] \notin Copies) => AtRest

\* In the middle of memmove the bytes are in two pieces,
MoveExact(t) ==
  LET first == copy[t].first
      left == copy[t].left
  IN  /\ left <= seek /\ seek + offset <= Size
      /\ first = offset + seek - left
      /\ sent - Arrived = seek
      /\ Filled(0, 0, seek - left)
      /\ Filled(offset, first, offset + seek)

\* in the memcpy of a write there are more than seek tells,
WriteExact(t) ==
  LET first == copy[t].first
      left == copy[t].left
  IN  /\ size[t] > 0 /\ left <= size[t]
      /\ offset <= seek /\ seek + size[t] <= Size
      /\ first = seek + size[t] - left
      /\ sent - Arrived = seek - offset
      /\ Filled(offset, offset, first)

\* and in that of a read the first ones are read already.
ReadExact(t) ==
  LET first == copy[t].first
      left == copy[t].left
  IN  /\ size[t] > 0 /\ left <= size[t]
      /\ seek <= Size /\ offset + size[t] <= seek
      /\ first = offset + size[t] - left
      /\ sent - Arrived = seek - first
      /\ Filled(first, first, seek)

CopiesExact ==
  \A t \in Tasks :
    /\ step[t] = "w_move" => MoveExact(t)
    /\ step[t] = "w_copy" => WriteExact(t)
    /\ step[t] = "r_copy" => ReadExact(t)

PipeInv == PipeTypeOK /\ RolesExact /\ CopierRuns /\ BufferExact /\ CopiesExact

\* A task runs and changes nothing that the copying of another relies on.
Turn(v) ==
  /\ MayRun(v, ready, cpu) /\ cpu' \in {Occupy(v, cpu), GiveUp(v, cpu)}
  /\ lPc' \in [Tasks -> LockPoints] /\ cPc' \in [Tasks -> CondPoints]
  /\ \A u \in Tasks \ {v} :
       /\ lPc[u] \in {"idle", "critical"} => lPc'[u] \in {"idle", "critical"}
       /\ cPc[u] = "idle" => cPc'[u] = "idle"

\* A step of pipe.c
LEMMA LocalTurns ==
  ASSUME PipeTypeOK, NEW v \in Tasks, NEW from, NEW to, Local(v, from, to)
  PROVE  Turn(v)
BY DEF PipeTypeOK, Local, locker, conds, Turn

\* The first step of a call of mutex.c
LEMMA LockTurns ==
  ASSUME PipeTypeOK, NEW v \in Tasks, NEW from, NEW to, LockPipe(v, from, to)
  PROVE  Turn(v)
<1>1. CASE Locker!CallLock(v) /\ UNCHANGED conds
  BY <1>1
     DEF PipeTypeOK, Locker!CallLock, Locker!Call, Locker!Goto, conds, Locker!MayRun,
         MayRun, Locker!Occupy, Occupy, Turn, LockPoints
<1>2. CASE Local(v, from, to)
  BY <1>2, LocalTurns
<1>3. QED
  BY <1>1, <1>2 DEF LockPipe

\* The first step of unlockMutex
LEMMA UnlockTurns ==
  ASSUME PipeTypeOK, NEW v \in Tasks, NEW from, NEW to, UnlockPipe(v, from, to)
  PROVE  Turn(v)
BY
   DEF PipeTypeOK, UnlockPipe, Locker!Goto, conds, Locker!MayRun, MayRun, Locker!Occupy,
       Occupy, Turn, LockPoints

\* The first step of a call of waitcondition.c
LEMMA CondTurns ==
  ASSUME PipeTypeOK, NEW v \in Tasks, NEW o, NEW c, NEW point \in CondPoints, NEW from, NEW to,
         CallCond(v, o, c, point, from, to)
  PROVE  Turn(v)
<1>1. CASE Cond!Call(v, o, c, point) /\ UNCHANGED locker
  BY <1>1
     DEF PipeTypeOK, Cond!Call, Cond!Jump, locker, Cond!MayRun, MayRun, Cond!Occupy,
         Occupy, Turn, CondPoints
<1>2. CASE Local(v, from, to)
  BY <1>2, LocalTurns
<1>3. QED
  BY <1>1, <1>2 DEF CallCond

\* Calls that have one step in the model of the component
LEMMA FindTurns ==
  ASSUME PipeTypeOK, NEW v \in Tasks, Cond!FindSlot(v), UNCHANGED locker
  PROVE  Turn(v)
BY
   DEF PipeTypeOK, Cond!FindSlot, Cond!Jump, locker, Cond!MayRun, MayRun, Cond!Occupy,
       Occupy, Turn, CondPoints

\* destroyMutex of a pipe, which is one step here too
LEMMA DestroyTurns ==
  ASSUME PipeTypeOK, NEW v \in Tasks, Locker!DestroyMutex(v), UNCHANGED conds
  PROVE  Turn(v)
BY
   DEF PipeTypeOK, Locker!DestroyMutex, conds, Locker!MayRun, MayRun, Locker!Occupy,
       Occupy, Turn, LockPoints

\* A step inside mutex.c: whoever gets the mutex is then where it may copy.
LEMMA LockerTurns ==
  ASSUME PipeTypeOK, NEW v \in Tasks, Locker!Continue(v), UNCHANGED conds
  PROVE  Turn(v) /\ lPc[v] \notin {"idle", "critical"}
<1>1. CASE Locker!Obtain(v)
  BY <1>1
     DEF PipeTypeOK, Locker!Obtain, conds, Locker!MayRun, MayRun, Locker!Occupy, Occupy,
         Locker!GiveUp, GiveUp, Turn, LockPoints
<1>2. CASE Locker!UnlockRelease(v)
  BY <1>2
     DEF PipeTypeOK, Locker!UnlockRelease, conds, Locker!MayRun, MayRun, Locker!Occupy,
         Occupy, Turn, LockPoints
<1>3. CASE \/ Locker!LockRead(v) \/ Locker!TryRead(v) \/ Locker!LockTake(v)
           \/ Locker!LockCount(v) \/ Locker!ObtainInvalid(v)
           \/ Locker!RefusedLoad(v) \/ Locker!RefusedStore(v) \/ Locker!UnlockRead(v)
           \/ Locker!UnlockReleaseInvalid(v) \/ Locker!UnlockReload(v) \/ Locker!UnlockStore(v)
  <2>1. \E from \in LockPoints \ {"idle", "critical"}, to \in LockPoints :
          Locker!Goto(v, from, to)
    BY <1>3 DEF Locker!LockRead, Locker!TryRead, Locker!LockTake, Locker!LockCount,
                Locker!ObtainInvalid, Locker!RefusedLoad, Locker!RefusedStore,
                Locker!UnlockRead, Locker!UnlockReleaseInvalid, Locker!UnlockReload,
                Locker!UnlockStore, LockPoints
  <2>2. QED
    BY <2>1
       DEF PipeTypeOK, Locker!Goto, conds, Locker!MayRun, MayRun, Locker!Occupy, Occupy,
           Turn, LockPoints
<1>4. QED
  BY <1>1, <1>2, <1>3 DEF Locker!Continue

\* A step inside waitcondition.c: whoever is woken is through its call.
LEMMA CondContinueTurns ==
  ASSUME PipeTypeOK, NEW v \in Tasks, Cond!Continue(v), UNCHANGED locker
  PROVE  Turn(v) /\ cPc[v] # "idle"
<1>1. CASE Cond!DeleteSemaphore(v)
  BY <1>1
     DEF PipeTypeOK, Cond!DeleteSemaphore, locker, Cond!MayRun, MayRun, Cond!Occupy,
         Occupy, Turn, CondPoints
<1>2. CASE Cond!ObtainSuspend(v)
  BY <1>2
     DEF PipeTypeOK, Cond!ObtainSuspend, locker, Cond!MayRun, MayRun, Cond!GiveUp, GiveUp,
         Turn, CondPoints
<1>3. CASE Cond!ReleaseWaiter(v)
  BY <1>3
     DEF PipeTypeOK, Cond!ReleaseWaiter, locker, Cond!MayRun, MayRun, Cond!Occupy, Occupy,
         Turn, CondPoints
<1>4. CASE \/ Cond!ClaimSlot(v) \/ Cond!MakeSemaphore(v) \/ Cond!MakeFails(v)
           \/ Cond!VacateSlot(v) \/ Cond!WaitRead(v) \/ Cond!WaitConsume(v)
           \/ Cond!WaitCount(v) \/ Cond!ObtainInvalid(v) \/ Cond!ObtainFree(v)
           \/ Cond!RefusedLoad(v) \/ Cond!RefusedStore(v) \/ Cond!WakeNobody(v)
           \/ Cond!WakeSome(v) \/ Cond!PostWake(v) \/ Cond!ClearWakes(v)
           \/ Cond!ReleaseFree(v) \/ Cond!ReleaseInvalid(v) \/ Cond!ReleaseReload(v)
           \/ Cond!ReleaseSettle(v)
  <2>1. \E from \in CondPoints \ {"idle"}, to \in CondPoints : Cond!Jump(v, from, to)
    BY <1>4 DEF Cond!ClaimSlot, Cond!MakeSemaphore, Cond!MakeFails, Cond!VacateSlot,
                Cond!WaitRead, Cond!WaitConsume, Cond!WaitCount, Cond!ObtainInvalid,
                Cond!ObtainFree, Cond!RefusedLoad, Cond!RefusedStore, Cond!WakeNobody,
                Cond!WakeSome, Cond!PostWake, Cond!ClearWakes, Cond!ReleaseFree,
                Cond!ReleaseInvalid, Cond!ReleaseReload, Cond!ReleaseSettle,
                Cond!Released, Cond!Goto, CondPoints
  <2>2. QED
    BY <2>1
       DEF PipeTypeOK, Cond!Jump, locker, Cond!MayRun, MayRun, Cond!Occupy, Occupy, Turn,
           CondPoints
<1>5. QED
  BY <1>1, <1>2, <1>3, <1>4 DEF Cond!Continue

\* A step that neither copies nor moves anything in the buffer
Plain(v) ==
  /\ UNCHANGED <<memory, offset, seek, sent, got, copy>>
  /\ step[v] \notin Copies
  /\ \E n \in 0..Size : size' = [size EXCEPT ![v] = n]
  /\ \E to \in PipeSteps \ Copies :
       /\ step' = [step EXCEPT ![v] = to]
       /\ to \in WriteSteps => v \in Writers
       /\ to \in ReadSteps => v \in Readers
       /\ to \in OwnSteps => v \in Owners

\* Nobody copies while another one of those who use the buffer runs.
LEMMA CopierAlone ==
  ASSUME NucleusAssumption, OnePriority, PipeInv, NEW v \in Tasks, NEW u \in Tasks,
         v \in Writers \cup Readers \cup Owners, MayRun(v, ready, cpu), step[u] \in Copies
  PROVE  u = v
<1>1. u \in Writers \cup Readers
  BY DEF PipeInv, RolesExact, Copies, WriteSteps, ReadSteps
<1>2. Prio[u] = Prio[v]
  BY <1>1 DEF OnePriority
<1>3. cpu[Prio[v]] = u
  BY <1>2 DEF PipeInv, CopierRuns
<1>4. QED
  BY <1>3 DEF MayRun, NucleusAssumption

\* Who copies is left alone by whoever takes a turn.
LEMMA TurnLeaves ==
  ASSUME NucleusAssumption, PipeInv, NEW v \in Tasks, NEW u \in Tasks \ {v},
         Turn(v), step[u] \in Copies
  PROVE  lPc'[u] \in {"idle", "critical"} /\ cPc'[u] = "idle" /\ cpu'[Prio[u]] = u
<1>1. lPc[u] \in {"idle", "critical"} /\ cPc[u] = "idle" /\ cpu[Prio[u]] = u
  BY DEF PipeInv, CopierRuns
<1>2. Prio[u] # Prio[v]
  BY <1>1 DEF Turn, MayRun, NucleusAssumption
<1>3. cpu'[Prio[u]] = cpu[Prio[u]]
  <2>1. Prio[u] \in Levels /\ Prio[v] \in Levels /\ cpu \in [Levels -> Tasks \cup {NoTask}]
    BY DEF Levels, PipeInv, PipeTypeOK
  <2>2. QED
    BY <1>2, <2>1 DEF Turn, Occupy, GiveUp
<1>4. QED
  BY <1>1, <1>3 DEF Turn

\* The processors stay what they are.
LEMMA TurnTypes ==
  ASSUME PipeTypeOK, NEW v \in Tasks, Turn(v)
  PROVE  cpu' \in [Levels -> Tasks \cup {NoTask}]
BY DEF PipeTypeOK, Turn, Occupy, GiveUp

\* A turn that leaves the buffer and the copies alone keeps the invariant.
LEMMA PlainKeeps ==
  ASSUME NucleusAssumption, PipeInv, NEW v \in Tasks, Turn(v), Plain(v)
  PROVE  PipeInv'
<1>1. PICK to \in PipeSteps \ Copies :
        /\ step' = [step EXCEPT ![v] = to]
        /\ to \in WriteSteps => v \in Writers
        /\ to \in ReadSteps => v \in Readers
        /\ to \in OwnSteps => v \in Owners
  BY DEF Plain
<1>2. PICK n \in 0..Size : size' = [size EXCEPT ![v] = n]
  BY DEF Plain
<1>3. \A u \in Tasks :
        /\ u # v => step'[u] = step[u] /\ size'[u] = size[u]
        /\ step'[v] = to
  BY <1>1, <1>2 DEF PipeInv, PipeTypeOK
<1>4. PipeTypeOK'
  BY <1>1, <1>2, TurnTypes DEF PipeInv, PipeTypeOK, Plain, Turn
<1>5. RolesExact'
  BY <1>1, <1>3 DEF PipeInv, RolesExact
<1>6. CopierRuns'
  BY <1>3, TurnLeaves DEF CopierRuns
<1>7. \A u \in Tasks : step'[u] \in Copies <=> step[u] \in Copies
  BY <1>3 DEF Plain
<1>8. BufferExact'
  BY <1>7 DEF PipeInv, BufferExact, AtRest, Filled, Arrived, Plain
<1>9. CopiesExact'
  <2> SUFFICES ASSUME NEW u \in Tasks
               PROVE  /\ step'[u] = "w_move" => MoveExact(u)'
                      /\ step'[u] = "w_copy" => WriteExact(u)'
                      /\ step'[u] = "r_copy" => ReadExact(u)'
    BY DEF CopiesExact
  <2>1. CASE u = v
    BY <1>3, <2>1 DEF Copies
  <2>2. CASE u # v
    BY <1>3, <2>2 DEF PipeInv, CopiesExact, MoveExact, WriteExact, ReadExact, Filled,
                        Arrived, Plain
  <2>3. QED
    BY <2>1, <2>2
<1>10. QED
  BY <1>4, <1>5, <1>6, <1>8, <1>9 DEF PipeInv

\* A step of pipe.c that stays in its function, or enters one of its own
LEMMA StepIsPlain ==
  ASSUME PipeInv, NEW v \in Tasks, NEW from \in PipeSteps \ Copies, NEW to \in PipeSteps \ Copies,
         Step(v, from, to),
         to \in WriteSteps => from \in WriteSteps \/ v \in Writers,
         to \in ReadSteps => from \in ReadSteps \/ v \in Readers,
         to \in OwnSteps => from \in OwnSteps \/ v \in Owners,
         UNCHANGED <<buffer, stream, copy>>,
         size' = size \/ \E n \in 0..Size : size' = [size EXCEPT ![v] = n]
  PROVE  Plain(v)
<1>1. step[v] = from /\ step' = [step EXCEPT ![v] = to]
  BY DEF Step
<1>2. \E n \in 0..Size : size' = [size EXCEPT ![v] = n]
  <2>1. size[v] \in 0..Size /\ size = [size EXCEPT ![v] = size[v]]
    BY DEF PipeInv, PipeTypeOK
  <2>2. QED
    BY <2>1
<1>3. /\ to \in WriteSteps => v \in Writers
      /\ to \in ReadSteps => v \in Readers
      /\ to \in OwnSteps => v \in Owners
  BY <1>1 DEF PipeInv, RolesExact
<1>4. UNCHANGED <<memory, offset, seek, sent, got, copy>>
  BY DEF buffer, stream
<1>5. QED
  BY <1>1, <1>2, <1>3, <1>4 DEF Plain

\* A call of a wait condition
LEMMA CondSteps ==
  ASSUME PipeTypeOK, NEW v \in Tasks, NEW o, NEW c, NEW point \in CondPoints, NEW from, NEW to,
         CallCond(v, o, c, point, from, to)
  PROVE  Turn(v) /\ Step(v, from, to)
BY CondTurns DEF CallCond, Local

\* The steps of createPipe but the one that empties the buffer
LEMMA CreateIsPlain ==
  ASSUME PipeInv, NEW v \in Tasks, CallCreate(v) \/ CreateLocker(v) \/ CreateConds(v)
  PROVE  Turn(v) /\ Plain(v)
<1> USE DEF PipeSteps, Copies, WriteSteps, ReadSteps, OwnSteps
<1>1. CASE CallCreate(v)
  <2>1. Local(v, "idle", "c_mutex") /\ v \in Owners /\ UNCHANGED <<buffer, stream, copy, size>>
    BY <1>1 DEF CallCreate
  <2>2. Turn(v)
    BY <2>1, LocalTurns DEF PipeInv
  <2>3. QED
    BY <2>1, <2>2, StepIsPlain DEF Local
<1>2. CASE CreateLocker(v)
  <2>1. Step(v, "c_mutex", "c_fields") /\ UNCHANGED <<buffer, stream, copy, size>>
    BY <1>2 DEF CreateLocker, pipe, buffer
  <2>2. Turn(v)
    BY <1>2 DEF CreateLocker, PipeInv, PipeTypeOK, conds, Turn
  <2>3. QED
    BY <2>1, <2>2, StepIsPlain
<1>3. CASE CreateConds(v)
  <2>0. UNCHANGED <<buffer, stream, copy, size>>
    BY <1>3 DEF CreateConds, pipe, buffer
  <2>1. ASSUME NEW c, NEW from, NEW to, CreateCond(v, c, from, to)
        PROVE  Turn(v) /\ Step(v, from, to)
    BY <2>1, FindTurns DEF CreateCond, PipeInv
  <2>2. CASE CreateCond(v, READY_READ, "c_cond0", "c_cond1")
    BY <2>0, <2>1, <2>2, StepIsPlain
  <2>3. CASE CreateCond(v, READY_WRITE, "c_cond1", "c_cond2")
    BY <2>0, <2>1, <2>3, StepIsPlain
  <2>4. CASE CreateCond(v, FULLY_FLUSHED, "c_cond2", "c_cond3")
    BY <2>0, <2>1, <2>4, StepIsPlain
  <2>5. CASE CreateCond(v, FULLY_EMPTY, "c_cond3", "c_wake")
    BY <2>0, <2>1, <2>5, StepIsPlain
  <2>6. CASE WakeOne(v, READY_WRITE, "c_wake", "idle")
    <3>1. Turn(v) /\ Step(v, "c_wake", "idle")
      BY <2>6, CondSteps DEF WakeOne, PipeInv, CondPoints
    <3>2. QED
      BY <2>0, <3>1, StepIsPlain
  <2>7. QED
    BY <1>3, <2>2, <2>3, <2>4, <2>5, <2>6 DEF CreateConds
<1>4. QED
  BY <1>1, <1>2, <1>3

\* The steps of closePipe
LEMMA CloseIsPlain ==
  ASSUME PipeInv, NEW v \in Tasks, Close(v)
  PROVE  Turn(v) /\ Plain(v)
<1> USE DEF PipeSteps, Copies, WriteSteps, ReadSteps, OwnSteps
<1>0. UNCHANGED <<buffer, stream, copy, size>>
  BY DEF Close, CallClose, CloseLock, CloseFree, CloseConds, CloseUnlock, CloseLocker,
         CloseSlot, pipe, buffer
<1>1. CASE CallClose(v)
  <2>1. Local(v, "idle", "x_lock") /\ v \in Owners
    BY <1>1 DEF CallClose
  <2>2. QED
    BY <1>0, <2>1, LocalTurns, StepIsPlain DEF Local, PipeInv
<1>2. CASE CloseLock(v)
  <2>1. LockPipe(v, "x_lock", "x_free")
    BY <1>2 DEF CloseLock
  <2>2. Step(v, "x_lock", "x_free")
    BY <2>1 DEF LockPipe, Local
  <2>3. QED
    BY <1>0, <2>1, <2>2, LockTurns, StepIsPlain DEF PipeInv
<1>3. CASE CloseFree(v)
  <2>1. Local(v, "x_free", "x_cond0")
    BY <1>3 DEF CloseFree
  <2>2. QED
    BY <1>0, <2>1, LocalTurns, StepIsPlain DEF Local, PipeInv
<1>4. CASE CloseConds(v)
  <2>1. ASSUME NEW c, NEW from, NEW to, CallCond(v, "destroy", c, "delete", from, to)
        PROVE  Turn(v) /\ Step(v, from, to)
    BY <2>1, CondSteps DEF PipeInv, CondPoints
  <2>2. CASE CallCond(v, "destroy", READY_READ, "delete", "x_cond0", "x_cond1")
    BY <1>0, <2>1, <2>2, StepIsPlain
  <2>3. CASE CallCond(v, "destroy", READY_WRITE, "delete", "x_cond1", "x_cond2")
    BY <1>0, <2>1, <2>3, StepIsPlain
  <2>4. CASE CallCond(v, "destroy", FULLY_FLUSHED, "delete", "x_cond2", "x_cond3")
    BY <1>0, <2>1, <2>4, StepIsPlain
  <2>5. CASE CallCond(v, "destroy", FULLY_EMPTY, "delete", "x_cond3", "x_unlock")
    BY <1>0, <2>1, <2>5, StepIsPlain
  <2>6. QED
    BY <1>4, <2>2, <2>3, <2>4, <2>5 DEF CloseConds
<1>5. CASE CloseUnlock(v)
  <2>1. UnlockPipe(v, "x_unlock", "x_mutex")
    BY <1>5 DEF CloseUnlock
  <2>2. Step(v, "x_unlock", "x_mutex")
    BY <2>1 DEF UnlockPipe
  <2>3. QED
    BY <1>0, <2>1, <2>2, UnlockTurns, StepIsPlain DEF PipeInv
<1>6. CASE CloseLocker(v)
  <2>1. Step(v, "x_mutex", "x_slot")
    BY <1>6 DEF CloseLocker, Local
  <2>2. Turn(v)
    BY <1>6, DestroyTurns, LocalTurns DEF CloseLocker, PipeInv
  <2>3. QED
    BY <1>0, <2>1, <2>2, StepIsPlain
<1>7. CASE CloseSlot(v)
  <2>1. Local(v, "x_slot", "idle")
    BY <1>7 DEF CloseSlot
  <2>2. QED
    BY <1>0, <2>1, LocalTurns, StepIsPlain DEF Local, PipeInv
<1>8. QED
  BY <1>1, <1>2, <1>3, <1>4, <1>5, <1>6, <1>7 DEF Close

\* The steps of writePipe outside its copies
LEMMA WriteIsPlain ==
  ASSUME PipeInv, NEW v \in Tasks,
         \/ CallWrite(v) \/ WriteWait(v) \/ WriteLock(v) \/ WriteFull(v) \/ WriteUnlock(v)
         \/ WriteWake(v)
  PROVE  Turn(v) /\ Plain(v)
<1> USE DEF PipeSteps, Copies, WriteSteps, ReadSteps, OwnSteps
<1>0. UNCHANGED <<buffer, stream, copy>>
  BY DEF CallWrite, WriteWait, WriteLock, WriteFull, WriteUnlock, WriteWake, pipe, buffer
<1>1. CASE CallWrite(v)
  <2>1. PICK to \in {"w_wait", "w_lock"} : Local(v, "idle", to)
    BY <1>1 DEF CallWrite
  <2>2. v \in Writers
    BY <1>1 DEF CallWrite
  <2>3. PICK n \in 1..Size : size' = [size EXCEPT ![v] = n]
    BY <1>1 DEF CallWrite
  <2>4. n \in 0..Size
    OBVIOUS
  <2>5. Turn(v) /\ Step(v, "idle", to)
    BY <2>1, LocalTurns DEF Local, PipeInv
  <2>6. QED
    BY <1>0, <2>2, <2>3, <2>4, <2>5, StepIsPlain
<1>2. CASE WriteWait(v)
  <2>1. CallCond(v, "wait", READY_WRITE, "wait", "w_wait", "w_lock") /\ size' = size
    BY <1>2 DEF WriteWait, WaitFor
  <2>2. QED
    BY <1>0, <2>1, CondSteps, StepIsPlain DEF PipeInv, CondPoints
<1>3. CASE WriteLock(v)
  <2>1. LockPipe(v, "w_lock", "w_check") /\ size' = size
    BY <1>3 DEF WriteLock
  <2>2. Step(v, "w_lock", "w_check")
    BY <2>1 DEF LockPipe, Local
  <2>3. QED
    BY <1>0, <2>1, <2>2, LockTurns, StepIsPlain DEF PipeInv
<1>4. CASE WriteFull(v)
  <2>1. CallCond(v, "all", FULLY_FLUSHED, "wake", "w_full", "w_unlock") /\ size' = size
    BY <1>4 DEF WriteFull, WakeAll
  <2>2. QED
    BY <1>0, <2>1, CondSteps, StepIsPlain DEF PipeInv, CondPoints
<1>5. CASE WriteUnlock(v)
  <2>1. PICK to \in {"w_wake", "idle"} : UnlockPipe(v, "w_unlock", to) /\ size' = size
    BY <1>5 DEF WriteUnlock
  <2>2. Step(v, "w_unlock", to)
    BY <2>1 DEF UnlockPipe
  <2>3. QED
    BY <1>0, <2>1, <2>2, UnlockTurns, StepIsPlain DEF PipeInv
<1>6. CASE WriteWake(v)
  <2>1. CallCond(v, "one", READY_READ, "wake", "w_wake", "idle") /\ size' = size
    BY <1>6 DEF WriteWake, WakeOne
  <2>2. QED
    BY <1>0, <2>1, CondSteps, StepIsPlain DEF PipeInv, CondPoints
<1>7. QED
  BY <1>1, <1>2, <1>3, <1>4, <1>5, <1>6

\* The steps of readPipe outside its copy
LEMMA ReadIsPlain ==
  ASSUME PipeInv, NEW v \in Tasks,
         CallRead(v) \/ ReadWait(v) \/ ReadLock(v) \/ ReadWake(v) \/ ReadUnlock(v)
  PROVE  Turn(v) /\ Plain(v)
<1> USE DEF PipeSteps, Copies, WriteSteps, ReadSteps, OwnSteps
<1>0. UNCHANGED <<buffer, stream, copy>>
  BY DEF CallRead, ReadWait, ReadLock, ReadWake, ReadUnlock, pipe, buffer
<1>1. CASE CallRead(v)
  <2>1. PICK to \in {"r_wait", "r_lock"} : Local(v, "idle", to)
    BY <1>1 DEF CallRead
  <2>2. v \in Readers
    BY <1>1 DEF CallRead
  <2>3. PICK n \in 1..Size : size' = [size EXCEPT ![v] = n]
    BY <1>1 DEF CallRead
  <2>4. n \in 0..Size
    OBVIOUS
  <2>5. Turn(v) /\ Step(v, "idle", to)
    BY <2>1, LocalTurns DEF Local, PipeInv
  <2>6. QED
    BY <1>0, <2>2, <2>3, <2>4, <2>5, StepIsPlain
<1>2. CASE ReadWait(v)
  <2>1. CallCond(v, "wait", READY_READ, "wait", "r_wait", "r_lock") /\ size' = size
    BY <1>2 DEF ReadWait, WaitFor
  <2>2. QED
    BY <1>0, <2>1, CondSteps, StepIsPlain DEF PipeInv, CondPoints
<1>3. CASE ReadLock(v)
  <2>1. LockPipe(v, "r_lock", "r_size") /\ size' = size
    BY <1>3 DEF ReadLock
  <2>2. Step(v, "r_lock", "r_size")
    BY <2>1 DEF LockPipe, Local
  <2>3. QED
    BY <1>0, <2>1, <2>2, LockTurns, StepIsPlain DEF PipeInv
<1>4. CASE ReadWake(v)
  <2>1. size' = size
    BY <1>4 DEF ReadWake
  <2>2. CASE CallCond(v, "one", FULLY_EMPTY, "wake", "r_empty", "r_wake")
    BY <1>0, <2>1, <2>2, CondSteps, StepIsPlain DEF PipeInv, CondPoints
  <2>3. CASE CallCond(v, "one", READY_WRITE, "wake", "r_wake", "r_unlock")
    BY <1>0, <2>1, <2>3, CondSteps, StepIsPlain DEF PipeInv, CondPoints
  <2>4. QED
    BY <1>4, <2>2, <2>3 DEF ReadWake, WakeOne
<1>5. CASE ReadUnlock(v)
  <2>1. UnlockPipe(v, "r_unlock", "idle") /\ size' = size
    BY <1>5 DEF ReadUnlock
  <2>2. Step(v, "r_unlock", "idle")
    BY <2>1 DEF UnlockPipe
  <2>3. QED
    BY <1>0, <2>1, <2>2, UnlockTurns, StepIsPlain DEF PipeInv
<1>6. QED
  BY <1>1, <1>2, <1>3, <1>4, <1>5

\* The functions that only wait
LEMMA WatchIsPlain ==
  ASSUME PipeInv, NEW v \in Tasks, Watch(v)
  PROVE  Turn(v) /\ Plain(v)
<1> USE DEF PipeSteps, Copies, WriteSteps, ReadSteps, OwnSteps
<1>0. UNCHANGED <<buffer, stream, copy, size>>
  BY DEF Watch, CallWaitFlushed, WaitFlushed, CallWaitOther, pipe, buffer
<1>1. CASE CallWaitFlushed(v)
  <2>1. Local(v, "idle", "f_wait")
    BY <1>1 DEF CallWaitFlushed
  <2>2. QED
    BY <1>0, <2>1, LocalTurns, StepIsPlain DEF Local, PipeInv
<1>2. CASE WaitFlushed(v)
  <2>1. CallCond(v, "wait", FULLY_FLUSHED, "wait", "f_wait", "idle")
    BY <1>2 DEF WaitFlushed, WaitFor
  <2>2. QED
    BY <1>0, <2>1, CondSteps, StepIsPlain DEF PipeInv, CondPoints
<1>3. CASE CallWaitOther(v)
  <2>1. PICK c \in {FULLY_EMPTY, READY_READ, READY_WRITE} :
          CallCond(v, "wait", c, "wait", "idle", "idle")
    BY <1>3 DEF CallWaitOther, WaitFor
  <2>2. QED
    BY <1>0, <2>1, CondSteps, StepIsPlain DEF PipeInv, CondPoints
<1>4. QED
  BY <1>1, <1>2, <1>3 DEF Watch

\* Steps inside mutex.c and waitcondition.c, and a sleep
LEMMA InCallIsPlain ==
  ASSUME PipeInv, NEW v \in Tasks, InCall(v) \/ Sleep(v)
  PROVE  Turn(v) /\ Plain(v)
<1>0. UNCHANGED <<buffer, stream, copy, size, step>>
  BY DEF InCall, Sleep, pipe, buffer
<1>1. Turn(v) /\ (lPc[v] \notin {"idle", "critical"} \/ cPc[v] # "idle" \/ step[v] = "idle")
  <2>1. CASE InCall(v)
    BY <2>1, LockerTurns, CondContinueTurns DEF InCall, PipeInv
  <2>2. CASE Sleep(v)
    BY <2>2 DEF Sleep, locker, conds, Turn, PipeInv, PipeTypeOK
  <2>3. QED
    BY <2>1, <2>2
<1>2. step[v] \in PipeSteps \ Copies
  BY <1>1 DEF PipeInv, PipeTypeOK, CopierRuns, Copies
<1>3. step' = [step EXCEPT ![v] = step[v]] /\ size' = [size EXCEPT ![v] = size[v]]
  BY <1>0 DEF PipeInv, PipeTypeOK
<1>4. /\ step[v] \in WriteSteps => v \in Writers
      /\ step[v] \in ReadSteps => v \in Readers
      /\ step[v] \in OwnSteps => v \in Owners
      /\ size[v] \in 0..Size
  BY DEF PipeInv, RolesExact, PipeTypeOK
<1>5. UNCHANGED <<memory, offset, seek, sent, got, copy>>
  BY <1>0 DEF buffer, stream
<1>6. QED
  BY <1>1, <1>2, <1>3, <1>4, <1>5 DEF Plain

\* In a step of those who use the buffer nobody else copies.
LEMMA UserSteps ==
  ASSUME NucleusAssumption, OnePriority, PipeInv, NEW v \in Tasks,
         NEW steps \in {WriteSteps, ReadSteps, OwnSteps}, NEW from \in steps, NEW to \in steps,
         Local(v, from, to)
  PROVE  /\ step[v] = from /\ step'[v] = to
         /\ \A u \in Tasks \ {v} : step[u] \notin Copies /\ step'[u] \notin Copies
         /\ step' \in [Tasks -> PipeSteps] /\ cpu' \in [Levels -> Tasks \cup {NoTask}]
         /\ UNCHANGED <<lPc, cPc>>
         /\ RolesExact' /\ CopierRuns'
<1> USE DEF PipeSteps
<1>1. step[v] = from /\ step' = [step EXCEPT ![v] = to] /\ step \in [Tasks -> PipeSteps]
  BY DEF Local, Step, PipeInv, PipeTypeOK, Arrived
<1>2. step' \in [Tasks -> PipeSteps] /\ step'[v] = to
      /\ \A u \in Tasks \ {v} : step'[u] = step[u]
  BY <1>1
<1>3. Turn(v) /\ UNCHANGED <<lPc, cPc>>
  BY LocalTurns DEF PipeInv, Local, locker, conds
<1>4. cpu' \in [Levels -> Tasks \cup {NoTask}]
  BY <1>3, TurnTypes DEF PipeInv
<1>5. RolesExact'
  <2>1. /\ to \in WriteSteps => v \in Writers
        /\ to \in ReadSteps => v \in Readers
        /\ to \in OwnSteps => v \in Owners
    BY <1>1 DEF PipeInv, RolesExact, WriteSteps, ReadSteps, OwnSteps
  <2>2. QED
    BY <1>2, <2>1 DEF PipeInv, RolesExact
<1>6. v \in Writers \cup Readers \cup Owners
  BY <1>1 DEF PipeInv, RolesExact
<1>7. \A u \in Tasks \ {v} : step[u] \notin Copies /\ step'[u] \notin Copies
  BY <1>2, <1>3, <1>6, CopierAlone DEF Turn
<1>8. CopierRuns'
  <2>1. lPc[v] \in {"idle", "critical"} /\ cPc[v] = "idle"
    BY DEF Local, Step
  <2>2. cpu'[Prio[v]] = v
    BY DEF Local, Occupy, PipeInv, PipeTypeOK, Levels, Arrived
  <2>3. QED
    BY <1>3, <1>7, <2>1, <2>2 DEF CopierRuns
<1>9. QED
  BY <1>1, <1>2, <1>3, <1>4, <1>5, <1>7, <1>8

\* Before such a step the buffer is at rest, and after it too, unless the task copies.
LEMMA RestBefore ==
  ASSUME PipeInv, NEW v \in Tasks, step[v] \notin Copies,
         \A u \in Tasks \ {v} : step[u] \notin Copies
  PROVE  AtRest
BY DEF PipeInv, BufferExact

\* The task that stepped does not copy:
LEMMA RestAfter ==
  ASSUME NEW v \in Tasks, step'[v] \notin Copies, AtRest',
         \A u \in Tasks \ {v} : step'[u] \notin Copies
  PROVE  BufferExact' /\ CopiesExact'
BY DEF BufferExact, CopiesExact, Copies

\* it is the one that copies:
LEMMA CopyAfter ==
  ASSUME NEW v \in Tasks, \A u \in Tasks \ {v} : step'[u] \notin Copies,
         \/ step'[v] = "w_move" /\ MoveExact(v)'
         \/ step'[v] = "w_copy" /\ WriteExact(v)'
         \/ step'[v] = "r_copy" /\ ReadExact(v)'
  PROVE  BufferExact' /\ CopiesExact'
BY DEF BufferExact, CopiesExact, Copies

\* the types after a step of the buffer's users.
LEMMA TypesKept ==
  ASSUME PipeTypeOK,
         memory' = memory \/ memory' \in [1..Size -> Nat],
         offset' = offset \/ offset' \in Nat, seek' = seek \/ seek' \in Nat,
         sent' = sent \/ sent' \in Nat, got' = got \/ got' \in Seq(Nat),
         step' \in [Tasks -> PipeSteps],
         size' = size \/ size' \in [Tasks -> 0..Size],
         copy' = copy \/ copy' \in [Tasks -> [first : Nat, left : Nat]],
         UNCHANGED <<lPc, cPc>>, cpu' \in [Levels -> Tasks \cup {NoTask}]
  PROVE  PipeTypeOK'
BY DEF PipeTypeOK, Arrived

\* createPipe begins with an empty buffer.
LEMMA CreateBufferKeeps ==
  ASSUME NucleusAssumption, OnePriority, PipeInv, NEW v \in Tasks, CreateBuffer(v)
  PROVE  PipeInv'
<1>1. Local(v, "c_fields", "c_cond0") /\ {"c_fields", "c_cond0"} \subseteq OwnSteps
  BY DEF CreateBuffer, OwnSteps
<1>2. /\ step'[v] = "c_cond0" /\ \A u \in Tasks \ {v} : step'[u] \notin Copies
      /\ step' \in [Tasks -> PipeSteps] /\ cpu' \in [Levels -> Tasks \cup {NoTask}]
      /\ UNCHANGED <<lPc, cPc>> /\ RolesExact' /\ CopierRuns'
  BY <1>1, UserSteps
<1>3. PipeTypeOK'
  BY <1>2 DEF CreateBuffer, PipeInv, PipeTypeOK, Arrived
<1>4. AtRest'
  <2>1. seek' = 0 /\ offset' = 0 /\ sent' = 0 /\ got' = << >> /\ Size \in Nat
    BY PipeAssumption DEF CreateBuffer
  <2>2. Len(got') = 0
    BY <2>1
  <2>3. offset' <= seek' /\ seek' <= Size
    BY <2>1
  <2>4. sent' - Len(got') = seek' - offset'
    <3>1. sent' = 0 /\ seek' = 0 /\ offset' = 0
      BY <2>1
    <3>2. QED
      BY <2>2, <3>1
  <2>5. Filled(offset, offset, seek)'
    BY <2>1 DEF Filled, Arrived
  <2>6. QED
    BY <2>3, <2>4, <2>5 DEF AtRest, Arrived
<1>5. QED
  BY <1>2, <1>3, <1>4, RestAfter DEF PipeInv, Copies

\* writePipeUnlocked: a test that changes nothing, or the start of memmove
LEMMA WriteCheckKeeps ==
  ASSUME NucleusAssumption, OnePriority, PipeInv, NEW v \in Tasks, WriteCheck(v)
  PROVE  PipeInv'
<1> USE DEF WriteSteps, Copies
<1>1. PICK to \in {"w_unlock", "w_move", "w_size"} : Local(v, "w_check", to)
  BY DEF WriteCheck
<1>2. /\ step[v] = "w_check" /\ step'[v] = to
      /\ \A u \in Tasks \ {v} : step[u] \notin Copies /\ step'[u] \notin Copies
      /\ step' \in [Tasks -> PipeSteps] /\ cpu' \in [Levels -> Tasks \cup {NoTask}]
      /\ UNCHANGED <<lPc, cPc>> /\ RolesExact' /\ CopierRuns'
  <2>1. {"w_check", "w_unlock", "w_move", "w_size"} \subseteq WriteSteps
    OBVIOUS
  <2>2. QED
    BY <1>1, <2>1, UserSteps
<1>3. AtRest
  BY <1>2, RestBefore
<1>4. UNCHANGED <<memory, offset, sent, got>>
  BY DEF WriteCheck, pipe, stream
<1>5. CASE step'[v] = "w_move"
  <2>1. seek' = seek - offset /\ copy' = Copying(v, offset, seek - offset) /\ size' = size
        /\ offset > 0
    BY <1>2, <1>5 DEF WriteCheck, Local, Step
  <2>2. /\ offset \in Nat /\ seek \in Nat /\ offset <= seek /\ seek <= Size /\ Size \in Nat
        /\ sent \in Nat /\ Arrived \in Nat /\ sent - Arrived = seek - offset
    BY <1>3, PipeAssumption DEF PipeInv, PipeTypeOK, AtRest, Arrived
  <2>3. copy' \in [Tasks -> [first : Nat, left : Nat]]
        /\ copy'[v].first = offset /\ copy'[v].left = seek - offset
    BY <2>1, <2>2 DEF PipeInv, PipeTypeOK, Copying, Arrived
  <2>4. PipeTypeOK'
    <3>1. seek' \in Nat
      BY <2>1, <2>2
    <3>2. QED
      BY <1>2, <1>4, <2>1, <2>3, <3>1, TypesKept DEF PipeInv
  <2>5. MoveExact(v)'
    BY <1>3, <1>4, <2>1, <2>2, <2>3 DEF MoveExact, AtRest, Filled, Arrived
  <2>6. QED
    BY <1>2, <1>5, <2>4, <2>5, CopyAfter DEF PipeInv
<1>6. CASE step'[v] # "w_move"
  <2>1. UNCHANGED <<memory, offset, seek, sent, got, copy>>
    BY <1>2, <1>6 DEF WriteCheck, Local, Step, pipe, stream
  <2>2. size' = size \/ size' = [size EXCEPT ![v] = 0]
    BY DEF WriteCheck
  <2>3. PipeTypeOK'
    <3>1. 0 \in 0..Size
      BY PipeAssumption
    <3>2. size' \in [Tasks -> 0..Size]
      BY <2>2, <3>1 DEF PipeInv, PipeTypeOK, Arrived
    <3>3. QED
      BY <1>2, <2>1, <3>2, TypesKept DEF PipeInv
  <2>4. AtRest'
    BY <1>3, <2>1 DEF AtRest, Filled, Arrived
  <2>5. QED
    BY <1>2, <1>6, <2>3, <2>4, RestAfter DEF PipeInv
<1>7. QED
  BY <1>5, <1>6

\* A byte of memmove goes to its place, which is before those still to move.
LEMMA WriteMoveKeeps ==
  ASSUME NucleusAssumption, OnePriority, PipeInv, NEW v \in Tasks, WriteMove(v)
  PROVE  PipeInv'
<1> DEFINE first == copy[v].first
           left == copy[v].left
<1>1. /\ Local(v, "w_move", "w_move") /\ left > 0
      /\ memory' = [memory EXCEPT ![seek - left + 1] = memory[first + 1]]
      /\ copy' = Copying(v, first + 1, left - 1)
      /\ UNCHANGED <<offset, seek, sent, got, size>>
  BY DEF WriteMove, stream
<1>2. /\ step[v] = "w_move" /\ step'[v] = "w_move"
      /\ \A u \in Tasks \ {v} : step'[u] \notin Copies
      /\ step' \in [Tasks -> PipeSteps] /\ cpu' \in [Levels -> Tasks \cup {NoTask}]
      /\ UNCHANGED <<lPc, cPc>> /\ RolesExact' /\ CopierRuns'
  BY <1>1, UserSteps DEF WriteSteps
<1>3. MoveExact(v)
  BY <1>2 DEF PipeInv, CopiesExact
<1>4. /\ first \in Nat /\ left \in Nat /\ seek \in Nat /\ offset \in Nat /\ Size \in Nat
      /\ sent \in Nat /\ Arrived \in Nat
  BY PipeAssumption DEF PipeInv, PipeTypeOK, Arrived
<1>5. memory \in [1..Size -> Nat] /\ copy \in [Tasks -> [first : Nat, left : Nat]]
  BY DEF PipeInv, PipeTypeOK, Arrived
<1>6. /\ copy'[v].first = first + 1 /\ copy'[v].left = left - 1
      /\ copy' \in [Tasks -> [first : Nat, left : Nat]]
  BY <1>1, <1>4, <1>5 DEF Copying
<1> HIDE DEF first, left
<1>7. /\ left > 0 /\ left <= seek /\ seek + offset <= Size /\ first = offset + seek - left
      /\ sent - Arrived = seek
  BY <1>1, <1>3 DEF MoveExact, first, left, Arrived
<1>8. Filled(0, 0, seek - left)
  BY <1>3 DEF MoveExact, left
<1>9. Filled(offset, first, offset + seek)
  BY <1>3 DEF MoveExact, first
<1>10. seek - left + 1 \in 1..Size /\ first + 1 \in 1..Size
      /\ first \in first..((offset + seek) - 1)
  BY <1>4, <1>7
<1>11. memory' \in [1..Size -> Nat]
  BY <1>1, <1>4, <1>10, <1>5
<1>12. memory[first + 1] = Arrived + seek - left + 1
  <2>1. memory[first + 1] = Arrived - offset + first + 1
    BY <1>9, <1>10 DEF Filled
  <2>2. QED
    BY <1>4, <1>7, <2>1
<1>13. ASSUME NEW j \in 0..(seek - left)
       PROVE  memory'[j + 1] = Arrived + j + 1
  <2>1. j + 1 \in 1..Size
    BY <1>4, <1>7
  <2>2. CASE j = seek - left
    BY <1>1, <1>4, <1>10, <1>12, <2>1, <2>2, <1>5
  <2>3. CASE j # seek - left
    <3>1. j \in 0..(seek - left - 1)
      BY <1>4, <1>7, <2>3
    <3>2. memory[j + 1] = Arrived - 0 + j + 1
      BY <1>8, <3>1 DEF Filled
    <3>3. memory'[j + 1] = memory[j + 1]
      BY <1>1, <1>4, <2>1, <2>3, <3>1, <1>5
    <3>4. QED
      BY <1>4, <3>2, <3>3
  <2>4. QED
    BY <2>2, <2>3
<1>14. ASSUME NEW j \in (first + 1)..((offset + seek) - 1)
       PROVE  memory'[j + 1] = Arrived - offset + j + 1
  <2>1. j \in first..((offset + seek) - 1) /\ j + 1 \in 1..Size /\ j + 1 # seek - left + 1
    BY <1>4, <1>7
  <2>2. memory[j + 1] = Arrived - offset + j + 1
    BY <1>9, <2>1 DEF Filled
  <2>3. QED
    BY <1>1, <1>4, <2>1, <2>2, <1>5
<1>15. /\ left - 1 <= seek /\ first + 1 = offset + seek - (left - 1)
       /\ seek - (left - 1) - 1 = seek - left
  BY <1>4, <1>7
<1>16. MoveExact(v)'
  <2>1. Filled(offset, copy[v].first, offset + seek)'
    BY <1>1, <1>4, <1>6, <1>14 DEF Filled, Arrived
  <2>2. \A j \in 0..(seek - left) : memory'[j + 1] = Arrived - 0 + j + 1
    BY <1>4, <1>13
  <2>3. Filled(0, 0, seek - copy[v].left)'
    BY <1>1, <1>6, <1>15, <2>2 DEF Filled, Arrived
  <2>4. QED
    BY <1>1, <1>6, <1>7, <1>15, <2>1, <2>3 DEF MoveExact, Arrived
<1>17. PipeTypeOK'
  BY <1>1, <1>2, <1>6, <1>11, TypesKept DEF PipeInv
<1>18. QED
  BY <1>2, <1>16, <1>17, CopyAfter DEF PipeInv

\* After the last byte of memmove the buffer begins at 0.
LEMMA WriteMovedKeeps ==
  ASSUME NucleusAssumption, OnePriority, PipeInv, NEW v \in Tasks, WriteMoved(v)
  PROVE  PipeInv'
<1>1. /\ Local(v, "w_move", "w_size") /\ copy[v].left = 0 /\ offset' = 0
      /\ copy' = Copying(v, 0, 0)
      /\ UNCHANGED <<memory, seek, sent, got, size>>
  BY DEF WriteMoved, stream
<1>2. /\ step[v] = "w_move" /\ step'[v] = "w_size"
      /\ \A u \in Tasks \ {v} : step'[u] \notin Copies
      /\ step' \in [Tasks -> PipeSteps] /\ cpu' \in [Levels -> Tasks \cup {NoTask}]
      /\ UNCHANGED <<lPc, cPc>> /\ RolesExact' /\ CopierRuns'
  BY <1>1, UserSteps DEF WriteSteps
<1>3. MoveExact(v)
  BY <1>2 DEF PipeInv, CopiesExact
<1>4. seek \in Nat /\ offset \in Nat /\ Size \in Nat /\ sent \in Nat /\ Arrived \in Nat
  BY PipeAssumption DEF PipeInv, PipeTypeOK, Arrived
<1>5. copy' \in [Tasks -> [first : Nat, left : Nat]]
  BY <1>1 DEF PipeInv, PipeTypeOK, Copying, Arrived
<1>6. PipeTypeOK'
  BY <1>1, <1>2, <1>5, TypesKept DEF PipeInv
<1>7. AtRest'
  BY <1>1, <1>3, <1>4 DEF MoveExact, AtRest, Filled, Arrived
<1>8. QED
  BY <1>2, <1>6, <1>7, RestAfter DEF PipeInv, Copies

\* The size of a write fits in behind seek.
LEMMA WriteSizeKeeps ==
  ASSUME NucleusAssumption, OnePriority, PipeInv, NEW v \in Tasks, WriteSize(v)
  PROVE  PipeInv'
<1> DEFINE n == Least(Size - seek, size[v])
<1>1. /\ Local(v, "w_size", IF n > 0 THEN "w_copy" ELSE "w_unlock")
      /\ size' = [size EXCEPT ![v] = IF n > 0 THEN n ELSE 0]
      /\ copy' = IF n > 0 THEN Copying(v, seek, n) ELSE copy
      /\ UNCHANGED <<memory, offset, seek, sent, got>>
  BY DEF WriteSize, pipe, stream
<1>2. /\ step[v] = "w_size" /\ step'[v] = IF n > 0 THEN "w_copy" ELSE "w_unlock"
      /\ \A u \in Tasks \ {v} : step[u] \notin Copies /\ step'[u] \notin Copies
      /\ step' \in [Tasks -> PipeSteps] /\ cpu' \in [Levels -> Tasks \cup {NoTask}]
      /\ UNCHANGED <<lPc, cPc>> /\ RolesExact' /\ CopierRuns'
  <2>1. "w_size" \in WriteSteps /\ "w_copy" \in WriteSteps /\ "w_unlock" \in WriteSteps
    BY DEF WriteSteps
  <2>2. QED
    BY <1>1, <2>1, UserSteps
<1>3. AtRest
  BY <1>2, RestBefore DEF Copies
<1>4. /\ seek \in Nat /\ offset \in Nat /\ Size \in Nat /\ sent \in Nat /\ Arrived \in Nat
      /\ size \in [Tasks -> 0..Size] /\ copy \in [Tasks -> [first : Nat, left : Nat]]
  BY PipeAssumption DEF PipeInv, PipeTypeOK, Arrived
<1>5. n \in Int /\ n <= Size - seek /\ n <= size[v]
  BY <1>4 DEF Least
<1> HIDE DEF n
<1>6. /\ copy' \in [Tasks -> [first : Nat, left : Nat]] /\ size' \in [Tasks -> 0..Size]
      /\ n > 0 => copy'[v].first = seek /\ copy'[v].left = n /\ size'[v] = n
  BY <1>1, <1>4, <1>5 DEF Copying
<1>7. PipeTypeOK'
  BY <1>1, <1>2, <1>6, TypesKept DEF PipeInv
<1>8. CASE n > 0
  <2>1. WriteExact(v)'
    BY <1>1, <1>3, <1>4, <1>5, <1>6, <1>8 DEF WriteExact, AtRest, Filled, Arrived
  <2>2. QED
    BY <1>2, <1>7, <1>8, <2>1, CopyAfter DEF PipeInv
<1>9. CASE ~(n > 0)
  <2>1. AtRest'
    BY <1>1, <1>3 DEF AtRest, Filled, Arrived
  <2>2. QED
    BY <1>2, <1>7, <1>9, <2>1, RestAfter DEF PipeInv, Copies
<1>10. QED
  BY <1>8, <1>9

\* A byte of memcpy goes behind those that are there.
LEMMA WriteCopyKeeps ==
  ASSUME NucleusAssumption, OnePriority, PipeInv, NEW v \in Tasks, WriteCopy(v)
  PROVE  PipeInv'
<1> DEFINE first == copy[v].first
           left == copy[v].left
<1>1. /\ Local(v, "w_copy", "w_copy") /\ left > 0
      /\ memory' = [memory EXCEPT ![first + 1] = sent + size[v] - left + 1]
      /\ copy' = Copying(v, first + 1, left - 1)
      /\ UNCHANGED <<offset, seek, sent, got, size>>
  BY DEF WriteCopy, stream
<1>2. /\ step[v] = "w_copy" /\ step'[v] = "w_copy"
      /\ \A u \in Tasks \ {v} : step'[u] \notin Copies
      /\ step' \in [Tasks -> PipeSteps] /\ cpu' \in [Levels -> Tasks \cup {NoTask}]
      /\ UNCHANGED <<lPc, cPc>> /\ RolesExact' /\ CopierRuns'
  BY <1>1, UserSteps DEF WriteSteps
<1>3. WriteExact(v)
  BY <1>2 DEF PipeInv, CopiesExact
<1>4. /\ first \in Nat /\ left \in Nat /\ seek \in Nat /\ offset \in Nat /\ Size \in Nat
      /\ sent \in Nat /\ Arrived \in Nat /\ size[v] \in Nat
  BY PipeAssumption DEF PipeInv, PipeTypeOK, Arrived
<1>5. memory \in [1..Size -> Nat] /\ copy \in [Tasks -> [first : Nat, left : Nat]]
  BY DEF PipeInv, PipeTypeOK, Arrived
<1>6. /\ copy'[v].first = first + 1 /\ copy'[v].left = left - 1
      /\ copy' \in [Tasks -> [first : Nat, left : Nat]]
  BY <1>1, <1>4, <1>5 DEF Copying
<1> HIDE DEF first, left
<1>7. /\ left > 0 /\ size[v] > 0 /\ left <= size[v] /\ offset <= seek
      /\ seek + size[v] <= Size /\ first = seek + size[v] - left
      /\ sent - Arrived = seek - offset
  BY <1>1, <1>3 DEF WriteExact, first, left, Arrived
<1>8. \A j \in offset..(first - 1) : memory[j + 1] = Arrived - offset + j + 1
  BY <1>3 DEF WriteExact, Filled, first, Arrived
<1>9. /\ first + 1 \in 1..Size /\ sent + size[v] - left + 1 \in Nat
      /\ sent + size[v] - left + 1 = Arrived - offset + first + 1
  <2>1. first + 1 \in 1..Size
    BY <1>4, <1>7
  <2>2. sent + size[v] - left + 1 \in Nat
    BY <1>4, <1>7
  <2>3. sent + size[v] - left + 1 = Arrived - offset + first + 1
    <3>1. ASSUME NEW s \in Int, NEW g \in Int, NEW o \in Int, NEW k \in Int, NEW z \in Int,
                 NEW l \in Int, s - g = k - o
          PROVE  s + z - l + 1 = g - o + (k + z - l) + 1
      BY <3>1
    <3>2. QED
      BY <1>4, <1>7, <3>1
  <2>4. QED
    BY <2>1, <2>2, <2>3
<1>10. memory' \in [1..Size -> Nat]
  BY <1>1, <1>4, <1>9, <1>5
<1>11. ASSUME NEW j \in offset..first
       PROVE  memory'[j + 1] = Arrived - offset + j + 1
  <2>1. j + 1 \in 1..Size
    BY <1>4, <1>7
  <2>2. CASE j = first
    BY <1>1, <1>4, <1>9, <2>2, <1>5
  <2>3. CASE j # first
    <3>1. j \in offset..(first - 1)
      BY <1>4, <2>3
    <3>2. memory[j + 1] = Arrived - offset + j + 1
      BY <1>8, <3>1
    <3>3. memory'[j + 1] = memory[j + 1]
      BY <1>1, <1>4, <2>1, <2>3, <1>5
    <3>4. QED
      BY <3>2, <3>3
  <2>4. QED
    BY <2>2, <2>3
<1>12. left - 1 <= size[v] /\ first + 1 = seek + size[v] - (left - 1)
  BY <1>4, <1>7
<1>13. WriteExact(v)'
  <2>1. Filled(offset, offset, copy[v].first)'
    <3>1. copy'[v].first - 1 = first
      BY <1>4, <1>6
    <3>2. QED
      BY <1>1, <1>11, <3>1 DEF Filled, Arrived
  <2>2. QED
    BY <1>1, <1>6, <1>7, <1>12, <2>1 DEF WriteExact, Arrived
<1>14. PipeTypeOK'
  BY <1>1, <1>2, <1>6, <1>10, TypesKept DEF PipeInv
<1>15. QED
  BY <1>2, <1>13, <1>14, CopyAfter DEF PipeInv

\* After the last byte seek goes behind it.
LEMMA WriteAdvanceKeeps ==
  ASSUME NucleusAssumption, OnePriority, PipeInv, NEW v \in Tasks, WriteAdvance(v)
  PROVE  PipeInv'
<1>1. PICK to \in {"w_full", "w_unlock"} :
        /\ Local(v, "w_copy", to) /\ copy[v].left = 0
        /\ seek' = seek + size[v] /\ sent' = sent + size[v]
        /\ copy' = Copying(v, 0, 0)
        /\ UNCHANGED <<memory, offset, got, size>>
  BY DEF WriteAdvance
<1>2. /\ step[v] = "w_copy" /\ step'[v] = to
      /\ \A u \in Tasks \ {v} : step'[u] \notin Copies
      /\ step' \in [Tasks -> PipeSteps] /\ cpu' \in [Levels -> Tasks \cup {NoTask}]
      /\ UNCHANGED <<lPc, cPc>> /\ RolesExact' /\ CopierRuns'
  <2>1. "w_copy" \in WriteSteps /\ to \in WriteSteps
    BY DEF WriteSteps
  <2>2. QED
    BY <1>1, <2>1, UserSteps
<1>3. WriteExact(v)
  BY <1>2 DEF PipeInv, CopiesExact
<1>4. /\ seek \in Nat /\ offset \in Nat /\ Size \in Nat /\ sent \in Nat /\ Arrived \in Nat
      /\ size[v] \in Nat
  BY PipeAssumption DEF PipeInv, PipeTypeOK, Arrived
<1>5. copy' \in [Tasks -> [first : Nat, left : Nat]]
  BY <1>1 DEF PipeInv, PipeTypeOK, Copying, Arrived
<1>6. PipeTypeOK'
  <2>1. seek' \in Nat /\ sent' \in Nat
    BY <1>1, <1>4
  <2>2. QED
    BY <1>1, <1>2, <1>5, <2>1, TypesKept DEF PipeInv
<1>7. AtRest'
  <2>1. /\ offset <= seek /\ seek + size[v] <= Size /\ sent - Arrived = seek - offset
        /\ copy[v].first = seek + size[v] - 0
    BY <1>1, <1>3 DEF WriteExact, Arrived
  <2>2. offset <= seek + size[v]
    BY <1>4, <2>1
  <2>3. (sent + size[v]) - Arrived = (seek + size[v]) - offset
    BY <1>4, <2>1
  <2>4. copy[v].first = seek + size[v]
    BY <1>4, <2>1
  <2>5. Filled(offset, offset, seek)'
    BY <1>1, <1>3, <2>4 DEF WriteExact, Filled, Arrived
  <2>6. offset' <= seek' /\ seek' <= Size
    BY <1>1, <2>1, <2>2
  <2>7. sent' - Arrived' = seek' - offset'
    <3>1. Arrived' = Arrived
      BY <1>1 DEF Arrived
    <3>2. sent' = sent + size[v] /\ seek' = seek + size[v] /\ offset' = offset
      BY <1>1
    <3>3. QED
      BY <2>3, <3>1, <3>2
  <2>8. QED
    BY <2>5, <2>6, <2>7 DEF AtRest, Arrived
<1>8. QED
  BY <1>2, <1>6, <1>7, RestAfter DEF PipeInv, Copies

\* The size of a read is there.
LEMMA ReadSizeKeeps ==
  ASSUME NucleusAssumption, OnePriority, PipeInv, NEW v \in Tasks, ReadSize(v)
  PROVE  PipeInv'
<1> DEFINE n == IF open /\ allocated THEN Least(seek - offset, size[v]) ELSE 0
<1>1. /\ Local(v, "r_size", IF n > 0 THEN "r_copy" ELSE "r_unlock")
      /\ size' = [size EXCEPT ![v] = IF n > 0 THEN n ELSE 0]
      /\ copy' = IF n > 0 THEN Copying(v, offset, n) ELSE copy
      /\ UNCHANGED <<memory, offset, seek, sent, got>>
  BY DEF ReadSize, pipe, stream
<1>2. /\ step[v] = "r_size" /\ step'[v] = IF n > 0 THEN "r_copy" ELSE "r_unlock"
      /\ \A u \in Tasks \ {v} : step[u] \notin Copies /\ step'[u] \notin Copies
      /\ step' \in [Tasks -> PipeSteps] /\ cpu' \in [Levels -> Tasks \cup {NoTask}]
      /\ UNCHANGED <<lPc, cPc>> /\ RolesExact' /\ CopierRuns'
  <2>1. "r_size" \in ReadSteps /\ "r_copy" \in ReadSteps /\ "r_unlock" \in ReadSteps
    BY DEF ReadSteps
  <2>2. QED
    BY <1>1, <2>1, UserSteps
<1>3. AtRest
  BY <1>2, RestBefore DEF Copies
<1>4. /\ seek \in Nat /\ offset \in Nat /\ Size \in Nat /\ sent \in Nat /\ Arrived \in Nat
      /\ size \in [Tasks -> 0..Size] /\ copy \in [Tasks -> [first : Nat, left : Nat]]
  BY PipeAssumption DEF PipeInv, PipeTypeOK, Arrived
<1>5. n \in Int /\ (n > 0 => n <= seek - offset /\ n <= size[v])
  BY <1>4 DEF Least
<1> HIDE DEF n
<1>6. /\ copy' \in [Tasks -> [first : Nat, left : Nat]] /\ size' \in [Tasks -> 0..Size]
      /\ n > 0 => copy'[v].first = offset /\ copy'[v].left = n /\ size'[v] = n
  BY <1>1, <1>4, <1>5 DEF Copying
<1>7. PipeTypeOK'
  BY <1>1, <1>2, <1>6, TypesKept DEF PipeInv
<1>8. CASE n > 0
  <2>1. /\ offset <= seek /\ seek <= Size /\ sent - Arrived = seek - offset
        /\ n <= size[v] /\ n <= seek - offset
    BY <1>3, <1>5, <1>8 DEF AtRest, Arrived
  <2>2. offset + n <= seek /\ offset = offset + n - n
    BY <1>4, <1>5, <2>1
  <2>3. Filled(copy[v].first, copy[v].first, seek)'
    BY <1>1, <1>3, <1>6, <1>8 DEF AtRest, Filled, Arrived
  <2>4. ReadExact(v)'
    BY <1>1, <1>5, <1>6, <1>8, <2>1, <2>2, <2>3 DEF ReadExact, Arrived
  <2>5. QED
    BY <1>2, <1>7, <1>8, <2>4, CopyAfter DEF PipeInv
<1>9. CASE ~(n > 0)
  <2>1. AtRest'
    BY <1>1, <1>3 DEF AtRest, Filled, Arrived
  <2>2. QED
    BY <1>2, <1>7, <1>9, <2>1, RestAfter DEF PipeInv, Copies
<1>10. QED
  BY <1>8, <1>9

\* The byte that a read copies is the one that follows those read.
LEMMA ReadsNext ==
  ASSUME PipeInv, NEW v \in Tasks, ReadCopy(v)
  PROVE  /\ Arrived + 1 <= sent
         /\ memory[copy[v].first + 1] = Arrived + 1
         /\ got' = Append(got, Arrived + 1) /\ sent' = sent
<1> DEFINE first == copy[v].first
           left == copy[v].left
<1>1. step[v] = "r_copy" /\ left > 0 /\ got' = Append(got, memory[first + 1]) /\ sent' = sent
  BY DEF ReadCopy, Local, Step
<1>2. /\ first \in Nat /\ left \in Nat /\ seek \in Nat /\ offset \in Nat
      /\ sent \in Nat /\ Arrived \in Nat /\ size[v] \in Nat
  BY DEF PipeInv, PipeTypeOK, Arrived
<1>3. ReadExact(v)
  BY <1>1 DEF PipeInv, CopiesExact
<1> HIDE DEF first, left
<1>4. /\ left > 0 /\ left <= size[v] /\ offset + size[v] <= seek
      /\ first = offset + size[v] - left /\ sent - Arrived = seek - first
  BY <1>1, <1>3 DEF ReadExact, first, left, Arrived
<1>5. first \in first..(seek - 1) /\ Arrived + 1 <= sent
  BY <1>2, <1>4
<1>6. \A j \in first..(seek - 1) : memory[j + 1] = Arrived - first + j + 1
  BY <1>3 DEF ReadExact, Filled, first, Arrived
<1>7. memory[first + 1] = Arrived - first + first + 1
  BY <1>5, <1>6, Zenon
<1>8. memory[first + 1] = Arrived + 1
  BY <1>2, <1>7
<1>9. QED
  BY <1>1, <1>5, <1>8 DEF first, left

\* What is left to read is shorter by that byte.
LEMMA ReadCopyKeeps ==
  ASSUME NucleusAssumption, OnePriority, PipeInv, NEW v \in Tasks, ReadCopy(v)
  PROVE  PipeInv'
<1> DEFINE first == copy[v].first
           left == copy[v].left
<1>1. /\ Local(v, "r_copy", "r_copy") /\ left > 0
      /\ copy' = Copying(v, first + 1, left - 1)
      /\ UNCHANGED <<memory, offset, seek, sent, size>>
  BY DEF ReadCopy, pipe
<1>2. /\ step[v] = "r_copy" /\ step'[v] = "r_copy"
      /\ \A u \in Tasks \ {v} : step'[u] \notin Copies
      /\ step' \in [Tasks -> PipeSteps] /\ cpu' \in [Levels -> Tasks \cup {NoTask}]
      /\ UNCHANGED <<lPc, cPc>> /\ RolesExact' /\ CopierRuns'
  BY <1>1, UserSteps DEF ReadSteps
<1>3. ReadExact(v)
  BY <1>2 DEF PipeInv, CopiesExact
<1>4. /\ first \in Nat /\ left \in Nat /\ seek \in Nat /\ offset \in Nat /\ Size \in Nat
      /\ sent \in Nat /\ Arrived \in Nat /\ size[v] \in Nat
  BY PipeAssumption DEF PipeInv, PipeTypeOK, Arrived
<1>5. memory \in [1..Size -> Nat] /\ copy \in [Tasks -> [first : Nat, left : Nat]]
  BY DEF PipeInv, PipeTypeOK, Arrived
<1>6. /\ copy'[v].first = first + 1 /\ copy'[v].left = left - 1
      /\ copy' \in [Tasks -> [first : Nat, left : Nat]]
  BY <1>1, <1>4, <1>5 DEF Copying
<1>7. got' \in Seq(Nat) /\ Arrived' = Arrived + 1
  <2>1. got' = Append(got, Arrived + 1) /\ Arrived + 1 \in Nat
    BY <1>4, ReadsNext
  <2>2. got \in Seq(Nat)
    BY DEF PipeInv, PipeTypeOK
  <2>3. QED
    BY <2>1, <2>2 DEF Arrived
<1> HIDE DEF first, left
<1>8. PipeTypeOK'
  BY <1>1, <1>2, <1>6, <1>7, TypesKept DEF PipeInv
<1>9. /\ left > 0 /\ size[v] > 0 /\ left <= size[v] /\ seek <= Size
      /\ offset + size[v] <= seek /\ first = offset + size[v] - left
      /\ sent - Arrived = seek - first
  BY <1>1, <1>3 DEF ReadExact, first, left, Arrived
<1>10. \A j \in first..(seek - 1) : memory[j + 1] = Arrived - first + j + 1
  BY <1>3 DEF ReadExact, Filled, first, Arrived
<1>11. ReadExact(v)'
  <2>1. /\ left - 1 <= size[v] /\ first + 1 = offset + size[v] - (left - 1)
        /\ sent - (Arrived + 1) = seek - (first + 1)
        /\ Arrived + 1 - (first + 1) = Arrived - first
    <3>1. left - 1 <= size[v] /\ first + 1 = offset + size[v] - (left - 1)
      BY <1>4, <1>9
    <3>2. sent - (Arrived + 1) = seek - (first + 1)
      BY <1>4, <1>9
    <3>3. Arrived + 1 - (first + 1) = Arrived - first
      BY <1>4
    <3>4. QED
      BY <3>1, <3>2, <3>3
  <2>2. \A j \in (first + 1)..(seek - 1) : memory[j + 1] = Arrived + 1 - (first + 1) + j + 1
    <3>1. \A j \in (first + 1)..(seek - 1) : j \in first..(seek - 1)
      BY <1>4
    <3>2. QED
      BY <1>10, <2>1, <3>1
  <2>3. Filled(copy[v].first, copy[v].first, seek)'
    BY <1>1, <1>6, <1>7, <2>2 DEF Filled, Arrived
  <2>4. QED
    BY <1>1, <1>6, <1>7, <1>9, <2>1, <2>3 DEF ReadExact, Arrived
<1>12. QED
  BY <1>2, <1>8, <1>11, CopyAfter DEF PipeInv

\* After the last byte offset goes behind it.
LEMMA ReadAdvanceKeeps ==
  ASSUME NucleusAssumption, OnePriority, PipeInv, NEW v \in Tasks, ReadAdvance(v)
  PROVE  PipeInv'
<1>1. PICK to \in {"r_empty", "r_wake"} :
        /\ Local(v, "r_copy", to) /\ copy[v].left = 0
        /\ offset' = offset + size[v]
        /\ copy' = Copying(v, 0, 0)
        /\ UNCHANGED <<memory, seek, sent, got, size>>
  BY DEF ReadAdvance, stream
<1>2. /\ step[v] = "r_copy" /\ step'[v] = to
      /\ \A u \in Tasks \ {v} : step'[u] \notin Copies
      /\ step' \in [Tasks -> PipeSteps] /\ cpu' \in [Levels -> Tasks \cup {NoTask}]
      /\ UNCHANGED <<lPc, cPc>> /\ RolesExact' /\ CopierRuns'
  <2>1. "r_copy" \in ReadSteps /\ to \in ReadSteps
    BY DEF ReadSteps
  <2>2. QED
    BY <1>1, <2>1, UserSteps
<1>3. ReadExact(v)
  BY <1>2 DEF PipeInv, CopiesExact
<1>4. /\ seek \in Nat /\ offset \in Nat /\ Size \in Nat /\ sent \in Nat /\ Arrived \in Nat
      /\ size[v] \in Nat
  BY PipeAssumption DEF PipeInv, PipeTypeOK, Arrived
<1>5. copy' \in [Tasks -> [first : Nat, left : Nat]]
  BY <1>1 DEF PipeInv, PipeTypeOK, Copying, Arrived
<1>6. PipeTypeOK'
  <2>1. offset' \in Nat
    BY <1>1, <1>4
  <2>2. QED
    BY <1>1, <1>2, <1>5, <2>1, TypesKept DEF PipeInv
<1>7. AtRest'
  <2>1. copy[v].first = offset'
    BY <1>1, <1>3, <1>4 DEF ReadExact, Arrived
  <2>2. Filled(offset, offset, seek)'
    BY <1>1, <1>3, <2>1 DEF ReadExact, Filled, Arrived
  <2>3. QED
    BY <1>1, <1>3, <1>4, <2>1, <2>2 DEF ReadExact, AtRest, Arrived
<1>8. QED
  BY <1>2, <1>6, <1>7, RestAfter DEF PipeInv, Copies

\* The invariant holds at first: nobody is in the pipe, which is empty.
LEMMA PipeInitHolds ==
  ASSUME NucleusAssumption, PipeInit
  PROVE  PipeInv
<1>1. /\ memory = [i \in 1..Size |-> 0] /\ offset = 0 /\ seek = 0 /\ sent = 0 /\ got = << >>
      /\ step = [t \in Tasks |-> "idle"] /\ size = [t \in Tasks |-> 0]
      /\ copy = [t \in Tasks |-> NoCopy]
  BY DEF PipeInit
<1>2. lPc = [t \in Tasks |-> "idle"] /\ cpu = [p \in Levels |-> NoTask]
  BY DEF PipeInit, Locker!Init, Locker!IdleCpu, Locker!Levels, Levels
<1>3. cPc = [t \in Tasks |-> "idle"]
  BY DEF PipeInit, Cond!Start
<1>4. Size \in Nat /\ 0 \in 0..Size
  BY PipeAssumption
<1>5. PipeTypeOK
  <2>1. memory \in [1..Size -> Nat] /\ got \in Seq(Nat)
    BY <1>1
  <2>2. step \in [Tasks -> PipeSteps] /\ size \in [Tasks -> 0..Size]
    BY <1>1, <1>4 DEF PipeSteps
  <2>3. copy \in [Tasks -> [first : Nat, left : Nat]]
    BY <1>1 DEF NoCopy
  <2>4. lPc \in [Tasks -> LockPoints] /\ cPc \in [Tasks -> CondPoints]
    BY <1>2, <1>3 DEF LockPoints, CondPoints
  <2>5. cpu \in [Levels -> Tasks \cup {NoTask}]
    BY <1>2
  <2>6. QED
    BY <1>1, <2>1, <2>2, <2>3, <2>4, <2>5 DEF PipeTypeOK
<1>6. \A t \in Tasks : step[t] = "idle"
  BY <1>1
<1>7. RolesExact
  BY <1>6 DEF RolesExact, WriteSteps, ReadSteps, OwnSteps
<1>8. CopierRuns /\ CopiesExact
  BY <1>6 DEF CopierRuns, CopiesExact, Copies
<1>9. AtRest
  <2>1. Arrived = 0
    BY <1>1 DEF Arrived
  <2>2. Filled(offset, offset, seek)
    BY <1>1 DEF Filled
  <2>3. QED
    BY <1>1, <1>4, <2>1, <2>2 DEF AtRest
<1>10. QED
  BY <1>5, <1>7, <1>8, <1>9 DEF PipeInv, BufferExact

\* The steps that neither copy nor prepare a copy
PlainStep(v) ==
  \/ CallCreate(v) \/ CreateLocker(v) \/ CreateConds(v) \/ Close(v)
  \/ CallWrite(v) \/ WriteWait(v) \/ WriteLock(v) \/ WriteFull(v) \/ WriteUnlock(v)
  \/ WriteWake(v)
  \/ CallRead(v) \/ ReadWait(v) \/ ReadLock(v) \/ ReadWake(v) \/ ReadUnlock(v)
  \/ Watch(v) \/ InCall(v) \/ Sleep(v)

\* Each of them is the turn of its task and leaves the buffer alone.
LEMMA PlainSteps ==
  ASSUME PipeInv, NEW v \in Tasks, PlainStep(v)
  PROVE  Turn(v) /\ Plain(v)
BY CreateIsPlain, CloseIsPlain, WriteIsPlain, ReadIsPlain, WatchIsPlain, InCallIsPlain
   DEF PlainStep

\* One of the plain steps, one of those that use the buffer, or a sleep that ends
LEMMA NextCases ==
  ASSUME PipeNext
  PROVE  \E v \in Tasks :
           \/ PlainStep(v) \/ CreateBuffer(v) \/ WriteCheck(v) \/ WriteMove(v)
           \/ WriteMoved(v) \/ WriteSize(v) \/ WriteCopy(v) \/ WriteAdvance(v)
           \/ ReadSize(v) \/ ReadCopy(v) \/ ReadAdvance(v) \/ WakeUp(v)
BY DEF PipeNext, Create, Write, Read, PlainStep

\* What concerns the buffer and the copies stays with these variables.
LEMMA IdleKeeps ==
  ASSUME PipeInv, UNCHANGED <<memory, offset, seek, sent, got, copy, size, step, lPc, cPc, cpu>>
  PROVE  PipeInv'
<1>1. PipeTypeOK' /\ RolesExact' /\ CopierRuns'
  BY DEF PipeInv, PipeTypeOK, RolesExact, CopierRuns
<1>2. BufferExact'
  BY DEF PipeInv, BufferExact, AtRest, Filled, Arrived
<1>3. CopiesExact'
  BY DEF PipeInv, CopiesExact, MoveExact, WriteExact, ReadExact, Filled, Arrived
<1>4. QED
  BY <1>1, <1>2, <1>3 DEF PipeInv

\* Every step keeps the invariant.
LEMMA PipeNextKeeps ==
  ASSUME NucleusAssumption, OnePriority, PipeInv, [PipeNext]_pipeVars
  PROVE  PipeInv'
<1>1. CASE UNCHANGED pipeVars
  BY <1>1, IdleKeeps DEF pipeVars, pipe, locker, conds, stream
<1>2. CASE PipeNext
  <2>1. PICK v \in Tasks :
          \/ PlainStep(v) \/ CreateBuffer(v) \/ WriteCheck(v) \/ WriteMove(v)
          \/ WriteMoved(v) \/ WriteSize(v) \/ WriteCopy(v) \/ WriteAdvance(v)
          \/ ReadSize(v) \/ ReadCopy(v) \/ ReadAdvance(v) \/ WakeUp(v)
    BY <1>2, NextCases
  <2>2. CASE PlainStep(v)
    BY <2>2, PlainSteps, PlainKeeps
  <2>3. CASE CreateBuffer(v) \/ WriteCheck(v) \/ WriteMove(v) \/ WriteMoved(v) \/ WriteSize(v)
    BY <2>3, CreateBufferKeeps, WriteCheckKeeps, WriteMoveKeeps, WriteMovedKeeps,
       WriteSizeKeeps
  <2>4. CASE WriteCopy(v) \/ WriteAdvance(v) \/ ReadSize(v) \/ ReadCopy(v) \/ ReadAdvance(v)
    BY <2>4, WriteCopyKeeps, WriteAdvanceKeeps, ReadSizeKeeps, ReadCopyKeeps,
       ReadAdvanceKeeps
  <2>5. CASE WakeUp(v)
    BY <2>5, IdleKeeps DEF WakeUp, pipe, locker, conds, stream
  <2>6. QED
    BY <2>1, <2>2, <2>3, <2>4, <2>5
<1>3. QED
  BY <1>1, <1>2

\* A write that is through sends its bytes at once; there was room for them.
LEMMA AdvanceSends ==
  ASSUME NucleusAssumption, PipeInv, NEW v \in Tasks, WriteAdvance(v)
  PROVE  \E n \in 1..Size : Stream!Send(n)
<1>1. step[v] = "w_copy" /\ sent' = sent + size[v] /\ got' = got
  BY DEF WriteAdvance, Local, Step
<1>2. WriteExact(v)
  BY <1>1 DEF PipeInv, CopiesExact
<1>3. /\ size[v] > 0 /\ offset <= seek /\ seek + size[v] <= Size
      /\ sent - Arrived = seek - offset
  BY <1>2 DEF WriteExact
<1>4. /\ seek \in Nat /\ offset \in Nat /\ Size \in Nat /\ sent \in Nat /\ Arrived \in Nat
      /\ size[v] \in 0..Size
  BY PipeAssumption DEF PipeInv, PipeTypeOK, Arrived
<1>5. size[v] \in 1..Size /\ size[v] <= Size - (sent - Arrived)
  BY <1>3, <1>4
<1>6. Stream!Send(size[v])
  BY <1>1, <1>5 DEF Stream!Send, Arrived
<1>7. QED
  BY <1>5, <1>6

\* Each byte that a read copies arrives, as the next one.
LEMMA CopyReceives ==
  ASSUME NucleusAssumption, PipeInv, NEW v \in Tasks, ReadCopy(v)
  PROVE  \E n \in 1..Size : Stream!Receive(n)
<1>1. Arrived + 1 <= sent /\ got' = Append(got, Arrived + 1) /\ sent' = sent
  BY ReadsNext
<1>2. got \in Seq(Nat) /\ sent \in Nat /\ Arrived = Len(got) /\ Arrived \in Nat
  BY DEF PipeInv, PipeTypeOK, Arrived
<1>3. 1 <= sent - Len(got)
  BY <1>1, <1>2
<1>4. got' = got \o [i \in 1..1 |-> Len(got) + i]
  <2>1. [i \in 1..1 |-> Len(got) + i] = <<Len(got) + 1>>
    BY <1>2
  <2>2. QED
    BY <1>1, <1>2, <2>1
<1>5. Stream!Receive(1)
  BY <1>1, <1>3, <1>4 DEF Stream!Receive
<1>6. 1 \in 1..Size
  BY PipeAssumption
<1>7. QED
  BY <1>5, <1>6

\* Every step of the pipe is one of the stream, or none.
LEMMA StreamStep ==
  ASSUME NucleusAssumption, PipeInv, [PipeNext]_pipeVars
  PROVE  [\/ Stream!Restart
          \/ \E n \in 1..Size : Stream!Send(n) \/ Stream!Receive(n)]_<<sent, got>>
<1>1. CASE UNCHANGED pipeVars
  BY <1>1 DEF pipeVars, stream
<1>2. CASE PipeNext
  <2>1. PICK v \in Tasks :
          \/ PlainStep(v) \/ CreateBuffer(v) \/ WriteCheck(v) \/ WriteMove(v)
          \/ WriteMoved(v) \/ WriteSize(v) \/ WriteCopy(v) \/ WriteAdvance(v)
          \/ ReadSize(v) \/ ReadCopy(v) \/ ReadAdvance(v) \/ WakeUp(v)
    BY <1>2, NextCases
  <2>2. CASE PlainStep(v)
    BY <2>2, PlainSteps DEF Plain
  <2>3. CASE CreateBuffer(v)
    BY <2>3 DEF CreateBuffer, Stream!Restart
  <2>4. CASE WriteAdvance(v)
    BY <2>4, AdvanceSends
  <2>5. CASE ReadCopy(v)
    BY <2>5, CopyReceives
  <2>6. CASE \/ WriteCheck(v) \/ WriteMove(v) \/ WriteMoved(v) \/ WriteSize(v) \/ WriteCopy(v)
             \/ ReadSize(v) \/ ReadAdvance(v) \/ WakeUp(v)
    BY <2>6 DEF WriteCheck, WriteMove, WriteMoved, WriteSize, WriteCopy, ReadSize,
                ReadAdvance, WakeUp, stream
  <2>7. QED
    BY <2>1, <2>2, <2>3, <2>4, <2>5, <2>6
<1>3. QED
  BY <1>1, <1>2

\* createPipe, writePipe, readPipe and closePipe, and the waits on a pipe, by
\* any number of tasks of one priority, with any buffer: the bytes read are the
\* bytes written, in order, each once, and the buffer holds those on the way.
THEOREM PipeIsStream ==
  ASSUME OnePriority
  PROVE  PipeSpec => ImplementsStream
<1>1. PipeInit => PipeInv
  BY NucleusAssumption, PipeInitHolds
<1>2. PipeInv /\ [PipeNext]_pipeVars => PipeInv'
  BY NucleusAssumption, PipeNextKeeps
<1>3. PipeInit => Stream!Start
  BY DEF PipeInit, Stream!Start
<1>4. PipeInv /\ [PipeNext]_pipeVars =>
        [\/ Stream!Restart
         \/ \E n \in 1..Size : Stream!Send(n) \/ Stream!Receive(n)]_<<sent, got>>
  BY NucleusAssumption, StreamStep
<1>5. QED
  BY <1>1, <1>2, <1>3, <1>4, PTL DEF PipeSpec, ImplementsStream, Stream!Spec

-----------------------------------------------------------------------------
(***************************************************************************)
(* Pipe, among tasks of one priority: who takes a turn, from the wait that *)
(* a function of pipe.c begins with to its end, takes it alone, so nobody  *)
(* ever waits for the mutex, and a wake that is taken is passed on.        *)
(***************************************************************************)
EachOnePriority == \A t, u \in Tasks : Prio[t] = Prio[u]

\* What is proved of WaitCondition, for the conditions of the pipe
WC ==
  INSTANCE WaitConditionProofs WITH MaxCond <- 4, Owners <- Tasks, Waiters <- Tasks,
    WakeOps <- [t \in Tasks |-> {"one", "all"}], used <- cUsed,
    waiters <- cWaiters, live <- cLive, count <- cCount, queue <- cQueue,
    owed <- cOwed, clean <- cClean,
    users <- [s \in 0..3 |-> Everybody], call <- cCall, pc <- cPc, reg <- cReg

\* A task that has not begun its turn, or has ended it: it is in no function
\* of pipe.c, or asleep in the wait that one begins with, or through that wait.
Resting(t) ==
  /\ lPc[t] = "idle" /\ cPc[t] \in {"idle", "suspended", "refused"}
  /\ step[t] \in {"idle", "w_lock", "r_lock"}
BusyRuns == \A t \in Tasks : ~Resting(t) => cpu[Prio[t]] = t

\* The steps between lockMutex and unlockMutex. Nobody waits for the mutex.
LockedSteps == {"x_free", "x_cond0", "x_cond1", "x_cond2", "x_cond3", "x_unlock",
                "w_check", "w_move", "w_size", "w_copy", "w_full", "w_unlock",
                "r_size", "r_copy", "r_empty", "r_wake", "r_unlock"}
LockAt(t) ==
  /\ step[t] \in LockedSteps =>
       lPc[t] \in IF lUsed THEN {"lock", "take", "critical"} ELSE {"idle"}
  /\ step[t] \notin LockedSteps => lPc[t] \in {"idle", "unlock", "drop"}
  /\ lPc[t] \in {"unlock", "drop"} => lUsed /\ step[t] \in {"x_mutex", "w_wake", "idle"}
  /\ lPc[t] \in {"lock", "take"} => lLocks = 0
  /\ lPc[t] = "take" => lReg[t] = 0
  /\ lPc[t] \in {"critical", "unlock", "drop"} => lLocks = 1
  /\ lPc[t] = "drop" => lReg[t] = 1
  /\ lPc[t] \notin {"idle", "critical"} => cPc[t] = "idle"
NobodyWaits == lWaiters = << >> /\ lReg \in [Tasks -> Int]
LockExact ==
  /\ NobodyWaits
  /\ \A t \in Tasks : LockAt(t)
  /\ lUsed /\ (\A t \in Tasks : lPc[t] = "idle") => lLocks = 0

\* Which conditions there are: the first n, or all but the first n
First(n) == \A c \in 0..3 : cUsed[c] <=> c < n
AfterFirst(n) == \A c \in 0..3 : cUsed[c] <=> c >= n

\* Task t has created n conditions, or is about to create the last of them.
Creating(t, n) ==
  /\ open /\ allocated /\ lUsed /\ seek = 0 /\ offset = 0
  /\ IF cPc[t] = "found" THEN cCall[t].wid = n - 1 /\ First(n - 1) ELSE First(n)
\* It has destroyed n conditions, or is about to destroy the last of them.
Closing(t, n) ==
  /\ open /\ ~allocated /\ lUsed
  /\ IF cPc[t] \in {"delete", "vacate"}
     THEN cCall[t].wid = n - 1 /\ AfterFirst(n - 1)
     ELSE AfterFirst(n)
Whole == open /\ allocated /\ lUsed /\ First(4)
Gone == ~allocated /\ ~lUsed /\ First(0)
OpenAt(t) ==
  /\ step[t] = "c_mutex" => open /\ Gone
  /\ step[t] = "c_fields" => open /\ ~allocated /\ lUsed /\ First(0)
  /\ step[t] = "c_cond0" => Creating(t, 0)
  /\ step[t] = "c_cond1" => Creating(t, 1)
  /\ step[t] = "c_cond2" => Creating(t, 2)
  /\ step[t] = "c_cond3" => Creating(t, 3)
  /\ step[t] = "c_wake" => Creating(t, 4)
  /\ step[t] \in {"x_lock", "x_free"} => Whole
  /\ step[t] = "x_cond0" => Closing(t, 0)
  /\ step[t] = "x_cond1" => Closing(t, 1)
  /\ step[t] = "x_cond2" => Closing(t, 2)
  /\ step[t] = "x_cond3" => Closing(t, 3)
  /\ step[t] = "x_unlock" => Closing(t, 4)
  /\ step[t] = "x_mutex" => open /\ ~allocated /\ lUsed /\ First(0)
  /\ step[t] = "x_slot" => open /\ Gone
\* The pipe is whole or gone, but in the middle of createPipe and closePipe.
OpenExact ==
  /\ (\A t \in Tasks : step[t] \notin OwnSteps) => IF open THEN Whole ELSE Gone
  /\ \A t \in Tasks : OpenAt(t)

\* Nobody else takes the wakes that are meant for writers and readers.
PlainWatchers == Watched \subseteq {"flushed", "empty"}

\* Which condition each call is about
WaitPoints == {"wait", "consume", "count", "obtain", "suspended", "refused", "give_up"}
WakePoints == {"wake", "post", "clear", "release", "reload", "settle"}
CallAt(t) ==
  /\ cPc[t] \in WaitPoints =>
       \/ step[t] = "w_lock" /\ cCall[t].wid = READY_WRITE
       \/ step[t] = "r_lock" /\ cCall[t].wid = READY_READ
       \/ /\ step[t] = "idle"
          /\ PlainWatchers => cCall[t].wid \in {FULLY_FLUSHED, FULLY_EMPTY}
  /\ cPc[t] \in {"found", "make"} => step[t] \in {"c_cond1", "c_cond2", "c_cond3", "c_wake"}
  /\ cPc[t] \in {"delete", "vacate"} => step[t] \in {"x_cond1", "x_cond2", "x_cond3", "x_unlock"}
  /\ cPc[t] \in WakePoints =>
       \/ cCall[t].op = "all" /\ cCall[t].wid = FULLY_FLUSHED /\ step[t] = "w_unlock"
       \/ cCall[t].op = "one" /\ cPc[t] # "clear" /\ step[t] \in {"idle", "r_wake", "r_unlock"}
CallsExact == \A t \in Tasks : CallAt(t)

\* What a writer or reader will write or read is not nothing, and a writer
\* computes it when the bytes are at the beginning of the buffer.
Sized == {"w_wait", "w_lock", "w_check", "w_move", "w_size", "w_copy",
          "r_wait", "r_lock", "r_size", "r_copy"}
SizeAt(t) ==
  /\ step[t] \in Sized => size[t] > 0
  /\ step[t] = "w_size" => offset = 0
SizesExact == \A t \in Tasks : SizeAt(t)

\* How many bytes the buffer has
Content == IF \E t \in Tasks : step[t] = "w_move" THEN seek ELSE seek - offset

\* A wake is on its way to a writer: stored, in the hands of one who has been
\* woken and has not yet written, or of one who has read or created the pipe
\* and has not yet passed it on.  The same for readers.
Woken(t) == cPc[t] \notin {"wait", "count", "obtain", "suspended"}
Wakes(t, c) == cPc[t] \in {"wake", "post", "release"} /\ cCall[t].wid = c
CreateSteps == {"c_cond0", "c_cond1", "c_cond2", "c_cond3", "c_wake"}
ForWriter(t) ==
  \/ step[t] \in {"w_check", "w_move", "w_size", "w_copy", "r_empty", "r_wake"} \cup CreateSteps
  \/ step[t] = "w_lock" /\ Woken(t)
  \/ Wakes(t, READY_WRITE)
ForReader(t) ==
  \/ step[t] \in {"r_size", "r_copy", "w_wake"}
  \/ step[t] \in {"w_full", "w_unlock"} /\ size[t] > 0
  \/ step[t] = "r_lock" /\ Woken(t)
  \/ Wakes(t, READY_READ)
WriterServed == cOwed[READY_WRITE] > 0 \/ \E t \in Tasks : ForWriter(t)
ReaderServed == cOwed[READY_READ] > 0 \/ \E t \in Tasks : ForReader(t)

\* Where there is something to read, or something can be written, whoever can
\* do it has a wake coming: for both ends of the buffer, and for one of them
\* in between.
TurnsGoOn ==
  allocated /\ cClean[READY_READ] /\ cClean[READY_WRITE] /\ PlainWatchers =>
    /\ Content = Size => ReaderServed
    /\ Content = 0 => WriterServed
    /\ ReaderServed \/ WriterServed

\* Nobody waits for a buffer to be full that is full already, unless he will
\* be woken at once.
Flushes(t) == step[t] = "w_full" \/ (cPc[t] \in WakePoints /\ cCall[t].op = "all")
Enters(t) ==
  step[t] = "f_wait"
    \/ (cPc[t] \in {"wait", "count", "obtain"} /\ cCall[t].wid = FULLY_FLUSHED)
FlushExact ==
  allocated /\ cClean[FULLY_FLUSHED] =>
    /\ Content = Size /\ (\A t \in Tasks : ~Flushes(t)) => cQueue[FULLY_FLUSHED] = << >>
    /\ \A t \in Tasks : Enters(t) => Content < Size

TurnInv ==
  /\ PipeInv /\ WC!IndInv /\ BusyRuns /\ LockExact /\ OpenExact /\ CallsExact /\ SizesExact
  /\ TurnsGoOn /\ FlushExact

Given == NucleusAssumption /\ EachOnePriority

-----------------------------------------------------------------------------
\* The assumptions of WaitCondition hold for its instance.
LEMMA CondAssumptions == WC!NucleusAssumption /\ WC!WaitConditionAssumption
<1>1. [t \in Tasks |-> {"one", "all"}] \in [Tasks -> SUBSET {"one", "all", "reset"}]
  OBVIOUS
<1>2. WC!WaitConditionAssumption
  BY <1>1, PipeAssumption DEF WC!WaitConditionAssumption
<1>3. WC!NucleusAssumption
  BY NucleusAssumption DEF WC!NucleusAssumption
<1>4. QED
  BY <1>2, <1>3

\* The two instances of WaitCondition are one.
LEMMA CondIsWC ==
  ASSUME NEW t \in Tasks
  PROVE  /\ Cond!Continue(t) => WC!Continue(t)
         /\ Cond!FindSlot(t) => WC!FindSlot(t)
         /\ \A o, c, point : Cond!Call(t, o, c, point) => WC!Call(t, o, c, point)
BY DEF Cond!ClaimSlot, WC!ClaimSlot, Cond!MakeSemaphore, WC!MakeSemaphore, Cond!MakeFails,
       WC!MakeFails, Cond!DeleteSemaphore, WC!DeleteSemaphore, Cond!VacateSlot,
       WC!VacateSlot, Cond!WaitRead, WC!WaitRead, Cond!WaitConsume, WC!WaitConsume,
       Cond!WaitCount, WC!WaitCount, Cond!ObtainInvalid, WC!ObtainInvalid,
       Cond!ObtainFree, WC!ObtainFree, Cond!ObtainSuspend, WC!ObtainSuspend,
       Cond!RefusedLoad, WC!RefusedLoad, Cond!RefusedStore, WC!RefusedStore,
       Cond!WakeNobody, WC!WakeNobody, Cond!WakeSome, WC!WakeSome, Cond!PostWake,
       WC!PostWake, Cond!ClearWakes, WC!ClearWakes, Cond!ReleaseWaiter, WC!ReleaseWaiter,
       Cond!ReleaseFree, WC!ReleaseFree, Cond!ReleaseInvalid, WC!ReleaseInvalid,
       Cond!ReleaseReload, WC!ReleaseReload, Cond!ReleaseSettle, WC!ReleaseSettle,
       Cond!Op, WC!Op, Cond!Wid, WC!Wid, Cond!Jump, WC!Jump, Cond!Goto, WC!Goto,
       Cond!Load, WC!Load, Cond!Store, WC!Store, Cond!Use, WC!Use, Cond!Call, WC!Call,
       Cond!FindSlot, WC!FindSlot, Cond!Released, WC!Released, Cond!Continue, WC!Continue,
       Cond!table, WC!table, Cond!semaphores, WC!semaphores, Cond!history, WC!history,
       Cond!MayRun, WC!MayRun, Cond!Occupy, WC!Occupy, Cond!GiveUp, WC!GiveUp,
       Cond!NoCall, WC!NoCall, Cond!Wids, WC!Wids, Cond!Enqueue, WC!Enqueue, Cond!Behind,
       WC!Behind, Cond!Levels, WC!Levels, Cond!IdleCpu, WC!IdleCpu, Cond!MidCall,
       WC!MidCall

\* Who wants to run, and does, is the only one in the middle of a turn.
LEMMA OthersRest ==
  ASSUME Given, BusyRuns, NEW v \in Tasks, MayRun(v, ready, cpu)
  PROVE  \A u \in Tasks \ {v} : Resting(u)
<1> SUFFICES ASSUME NEW u \in Tasks \ {v}, ~Resting(u) PROVE FALSE
  OBVIOUS
<1>1. cpu[Prio[u]] = u /\ Prio[u] = Prio[v]
  BY DEF BusyRuns, Given, EachOnePriority
<1>2. QED
  BY <1>1 DEF MayRun, Given, NucleusAssumption

\* A step of v leaves the others where they are, but that it may end their waits.
Left(u) ==
  \/ cPc'[u] = cPc[u] /\ cCall'[u] = cCall[u]
  \/ cPc[u] = "suspended" /\ cPc'[u] = "idle"
  \/ cPc[u] = "suspended" /\ cPc'[u] = "refused" /\ cCall'[u] = cCall[u]
TakesTurn(v) ==
  /\ MayRun(v, ready, cpu)
  /\ cpu' = Occupy(v, cpu) \/ (cpu' = GiveUp(v, cpu) /\ Resting(v)')
  /\ \A u \in Tasks \ {v} :
       /\ step'[u] = step[u] /\ size'[u] = size[u]
       /\ lPc'[u] = lPc[u] /\ Left(u)

\* The others rest before his step and after it.
LEMMA TurnRests ==
  ASSUME Given, BusyRuns, NEW v \in Tasks, TakesTurn(v)
  PROVE  \A u \in Tasks \ {v} : Resting(u) /\ Resting(u)'
BY OthersRest DEF TakesTurn, Left, Resting

\* Only he can be in the middle of a turn afterwards.
LEMMA BusyKept ==
  ASSUME Given, TurnInv, NEW v \in Tasks, TakesTurn(v)
  PROVE  BusyRuns'
<1>1. \A u \in Tasks \ {v} : Resting(u)'
  BY TurnRests DEF TurnInv
<1>2. ~Resting(v)' => cpu'[Prio[v]] = v
  BY DEF TakesTurn, Occupy, TurnInv, PipeInv, PipeTypeOK, Levels
<1>3. QED
  BY <1>1, <1>2 DEF BusyRuns

\* What concerns who takes a turn; the others rest.
At(v) ==
  /\ LockAt(v) /\ OpenAt(v) /\ CallAt(v) /\ SizeAt(v)
  /\ NobodyWaits
  /\ lUsed /\ lPc[v] = "idle" => lLocks = 0
  /\ step[v] \notin OwnSteps => IF open THEN Whole ELSE Gone

\* Who rests is in no call and at no step of its own ...
LEMMA RestsOutside ==
  ASSUME NEW u \in Tasks, Resting(u)
  PROVE  /\ lPc[u] = "idle" /\ step[u] \notin OwnSteps /\ step[u] \notin Copies
         /\ LockAt(u) /\ OpenAt(u) /\ ~Flushes(u) /\ ~Enters(u)
<1> USE DEF Resting, LockedSteps, OwnSteps, Copies, WakePoints
<1>1. LockAt(u)
  BY DEF LockAt
<1>2. OpenAt(u)
  BY DEF OpenAt
<1>3. ~Flushes(u) /\ ~Enters(u)
  BY DEF Flushes, Enters
<1>4. QED
  BY <1>1, <1>2, <1>3

\* ... also afterwards.
LEMMA RestsOutsideAfter ==
  ASSUME NEW u \in Tasks, Resting(u)'
  PROVE  /\ lPc'[u] = "idle" /\ step'[u] \notin OwnSteps
         /\ LockAt(u)' /\ OpenAt(u)' /\ ~Flushes(u)' /\ ~Enters(u)'
<1> USE DEF Resting, LockedSteps, OwnSteps, WakePoints
<1>1. LockAt(u)'
  BY DEF LockAt
<1>2. OpenAt(u)'
  BY DEF OpenAt
<1>3. ~Flushes(u)' /\ ~Enters(u)'
  BY DEF Flushes, Enters
<1>4. QED
  BY <1>1, <1>2, <1>3

\* Who runs knows where he is, and the others rest.
LEMMA AtBefore ==
  ASSUME Given, TurnInv, NEW v \in Tasks, MayRun(v, ready, cpu)
  PROVE  At(v) /\ \A u \in Tasks \ {v} : Resting(u)
<1>1. \A u \in Tasks \ {v} : Resting(u)
  BY OthersRest DEF TurnInv
<1>2. \A u \in Tasks \ {v} : lPc[u] = "idle" /\ step[u] \notin OwnSteps
  BY <1>1, RestsOutside
<1>3. QED
  BY <1>1, <1>2 DEF At, TurnInv, LockExact, OpenExact, CallsExact, SizesExact

\* If he knows it after his step, everybody does.
LEMMA AtAfter ==
  ASSUME Given, TurnInv, NEW v \in Tasks, TakesTurn(v), At(v)'
  PROVE  BusyRuns' /\ LockExact' /\ OpenExact' /\ CallsExact' /\ SizesExact'
<1>1. \A u \in Tasks \ {v} : Resting(u) /\ Resting(u)'
  BY TurnRests DEF TurnInv
<1>2. ASSUME NEW u \in Tasks \ {v}
      PROVE  lPc'[u] = "idle" /\ step'[u] \notin OwnSteps /\ LockAt(u)' /\ OpenAt(u)'
  <2>1. Resting(u)'
    BY <1>1
  <2>2. QED
    BY <2>1, RestsOutsideAfter
<1>3. ASSUME NEW u \in Tasks \ {v} PROVE CallAt(u)' /\ SizeAt(u)'
  <2>1. CallAt(u) /\ SizeAt(u) /\ step'[u] = step[u] /\ size'[u] = size[u] /\ Left(u)
    BY DEF TurnInv, CallsExact, SizesExact, TakesTurn
  <2>2. step[u] # "w_size" /\ Resting(u)'
    BY <1>1 DEF Resting
  <2>3. CallAt(u)'
    BY <2>1, <2>2 DEF CallAt, Left, WaitPoints, WakePoints, Resting
  <2>4. QED
    BY <2>1, <2>2, <2>3 DEF SizeAt
<1>4. BusyRuns'
  BY BusyKept
<1>5. LockExact'
  BY <1>2 DEF LockExact, At
<1>6. OpenExact'
  BY <1>2 DEF OpenExact, At
<1>7. QED
  BY <1>3, <1>4, <1>5, <1>6 DEF CallsExact, SizesExact, At

\* What the others contribute to the turns that go on
LEMMA OthersServe ==
  ASSUME Given, TurnInv, NEW v \in Tasks, TakesTurn(v), NEW u \in Tasks \ {v}
  PROVE  /\ ForWriter(u) => ForWriter(u)'
         /\ ForReader(u) => ForReader(u)'
<1>1. /\ Resting(u) /\ Resting(u)' /\ Left(u) /\ step'[u] = step[u] /\ size'[u] = size[u]
  BY TurnRests DEF TakesTurn, TurnInv
<1>2. QED
  BY <1>1 DEF Left, Resting, ForWriter, ForReader, Woken, Wakes, CreateSteps

ContentBy(v) == IF step[v] = "w_move" THEN seek ELSE seek - offset
\* What v sees in the buffer is what is there.
LEMMA ContentIs ==
  ASSUME Given, TurnInv, NEW v \in Tasks, TakesTurn(v)
  PROVE  Content = ContentBy(v) /\ Content' = ContentBy(v)'
<1>1. \A u \in Tasks \ {v} : step[u] # "w_move" /\ step'[u] # "w_move"
  BY TurnRests DEF Resting, TurnInv
<1>2. QED
  BY <1>1 DEF Content, ContentBy

\* A turn that changes neither what the buffer has nor who is served
Serves(v) ==
  allocated' =>
    /\ allocated /\ ContentBy(v)' = ContentBy(v)
    /\ \A c \in {READY_READ, READY_WRITE, FULLY_FLUSHED} : cClean'[c] => cClean[c]
    /\ cClean[READY_WRITE] /\ PlainWatchers =>
         /\ cOwed[READY_WRITE] > 0 => cOwed'[READY_WRITE] > 0 \/ ForWriter(v)'
         /\ ForWriter(v) => WriterServed'
    /\ cClean[READY_READ] /\ PlainWatchers =>
         /\ cOwed[READY_READ] > 0 => cOwed'[READY_READ] > 0 \/ ForReader(v)'
         /\ ForReader(v) => ReaderServed'
    /\ cClean[FULLY_FLUSHED] =>
         /\ Flushes(v) => Flushes(v)' \/ cQueue'[FULLY_FLUSHED] = << >>
         /\ cQueue[FULLY_FLUSHED] = << >> => cQueue'[FULLY_FLUSHED] = << >> \/ Enters(v)
         /\ Enters(v)' => Enters(v) \/ ContentBy(v) < Size

\* The others neither fill the buffer nor enter a wait for it to be full.
LEMMA FlushKept ==
  ASSUME Given, TurnInv, NEW v \in Tasks, TakesTurn(v),
         allocated' /\ cClean'[FULLY_FLUSHED] =>
           /\ ContentBy(v)' = Size => Flushes(v)' \/ cQueue'[FULLY_FLUSHED] = << >>
           /\ Enters(v)' => ContentBy(v)' < Size
  PROVE  FlushExact'
<1>1. ASSUME NEW u \in Tasks \ {v} PROVE ~Flushes(u)' /\ ~Enters(u)'
  <2>1. Resting(u)'
    BY TurnRests DEF TurnInv
  <2>2. QED
    BY <2>1, RestsOutsideAfter
<1>2. Content' = ContentBy(v)'
  BY ContentIs
<1>3. QED
  BY <1>1, <1>2 DEF FlushExact

\* Hence the turns go on.
LEMMA ServesKeeps ==
  ASSUME Given, TurnInv, NEW v \in Tasks, TakesTurn(v), Serves(v)
  PROVE  TurnsGoOn' /\ FlushExact'
<1>0. CASE ~allocated'
  BY <1>0 DEF TurnsGoOn, FlushExact
<1>1. CASE allocated'
  <2>1. Content = ContentBy(v) /\ Content' = ContentBy(v)' /\ Content' = Content
    BY <1>1, ContentIs DEF Serves
  <2>2. TurnsGoOn'
    <3> SUFFICES ASSUME cClean'[READY_READ], cClean'[READY_WRITE], PlainWatchers
                 PROVE  /\ WriterServed => WriterServed'
                        /\ ReaderServed => ReaderServed'
      BY <1>1, <2>1 DEF Serves, TurnInv, TurnsGoOn
    <3>1. WriterServed => WriterServed'
      BY <1>1, OthersServe DEF Serves, WriterServed
    <3>2. ReaderServed => ReaderServed'
      BY <1>1, OthersServe DEF Serves, ReaderServed
    <3>3. QED
      BY <3>1, <3>2
  <2>3. FlushExact'
    <3>1. \A u \in Tasks \ {v} : ~Flushes(u)
      BY RestsOutside, TurnRests DEF TurnInv
    <3> SUFFICES ASSUME cClean'[FULLY_FLUSHED]
                 PROVE  /\ ContentBy(v)' = Size => Flushes(v)' \/ cQueue'[FULLY_FLUSHED] = << >>
                        /\ Enters(v)' => ContentBy(v)' < Size
      BY FlushKept
    <3>2. cClean[FULLY_FLUSHED] /\ allocated
      BY <1>1 DEF Serves
    <3>3. /\ ContentBy(v) = Size /\ ~Flushes(v) => cQueue[FULLY_FLUSHED] = << >>
          /\ Enters(v) => ContentBy(v) < Size
      BY <2>1, <3>1, <3>2 DEF TurnInv, FlushExact
    <3>4. Enters(v) => ContentBy(v) # Size
      BY <2>1, <3>3, PipeAssumption
    <3>5. QED
      BY <1>1, <2>1, <3>2, <3>3, <3>4 DEF Serves
  <2>4. QED
    BY <2>2, <2>3
<1>2. QED
  BY <1>0, <1>1

-----------------------------------------------------------------------------
\* Everything but what concerns the buffer alone
Turned(v) ==
  TakesTurn(v) /\ WC!IndInv' /\ At(v)' /\ TurnsGoOn' /\ FlushExact'

\* One priority of all tasks is one of those that PipeIsStream speaks of.
LEMMA OneOfEach == ASSUME EachOnePriority PROVE OnePriority
BY PipeAssumption DEF EachOnePriority, OnePriority

\* PipeInv is kept by every step, the rest by the turn.
LEMMA TurnKeeps ==
  ASSUME Given, TurnInv, PipeNext, NEW v \in Tasks, Turned(v)
  PROVE  TurnInv'
<1>1. PipeInv'
  BY OneOfEach, PipeNextKeeps DEF Given, TurnInv
<1>2. BusyRuns' /\ LockExact' /\ OpenExact' /\ CallsExact' /\ SizesExact'
  BY AtAfter DEF Turned
<1>3. QED
  BY <1>1, <1>2 DEF Turned, TurnInv

\* A step elsewhere leaves the conditions alone.
LEMMA CondsIdle ==
  ASSUME Given, WC!IndInv, UNCHANGED conds,
         \/ cpu' = cpu
         \/ \E v \in Tasks :
              /\ MayRun(v, ready, cpu) /\ cPc[v] = "idle"
              /\ cpu' \in {Occupy(v, cpu), GiveUp(v, cpu)}
  PROVE  WC!IndInv'
<1>1. UNCHANGED <<WC!table, WC!semaphores, WC!history, cCall, cPc, cReg>>
  BY DEF conds, WC!table, WC!semaphores, WC!history
<1>2. \/ cpu' = cpu
      \/ \E v \in Tasks :
           /\ WC!MayRun(v, ready, cpu) /\ cPc[v] = "idle"
           /\ cpu' \in {WC!Occupy(v, cpu), WC!GiveUp(v, cpu)}
  BY DEF MayRun, WC!MayRun, Occupy, WC!Occupy, GiveUp, WC!GiveUp
<1>3. QED
  BY <1>1, <1>2, CondAssumptions, NucleusAssumption, WC!IdlePreserves

\* The steps of pipe.c itself
LEMMA LocalTurn ==
  ASSUME Given, TurnInv, NEW v \in Tasks, NEW from, NEW to, Local(v, from, to),
         size' = size \/ \E n : size' = [size EXCEPT ![v] = n]
  PROVE  /\ TakesTurn(v) /\ WC!IndInv' /\ At(v)
         /\ step[v] = from /\ step'[v] = to
         /\ lPc[v] \in {"idle", "critical"} /\ cPc[v] = "idle"
         /\ UNCHANGED <<locker, conds>>
<1>1. /\ step[v] = from /\ step' = [step EXCEPT ![v] = to]
      /\ lPc[v] \in {"idle", "critical"} /\ cPc[v] = "idle"
      /\ MayRun(v, ready, cpu) /\ cpu' = Occupy(v, cpu) /\ UNCHANGED <<locker, conds>>
  BY DEF Local, Step
<1>2. step \in [Tasks -> PipeSteps] /\ size \in [Tasks -> 0..Size]
  BY DEF TurnInv, PipeInv, PipeTypeOK
<1>3. TakesTurn(v)
  BY <1>1, <1>2 DEF TakesTurn, Left, locker, conds
<1>4. WC!IndInv'
  BY <1>1, CondsIdle DEF TurnInv
<1>5. At(v)
  BY <1>1, AtBefore
<1>6. QED
  BY <1>1, <1>2, <1>3, <1>4, <1>5

\* A step of pipe.c that stays on its side of the mutex
LEMMA LocalLock ==
  ASSUME Given, TurnInv, NEW v \in Tasks, NEW from, NEW to, Local(v, from, to),
         size' = size \/ \E n : size' = [size EXCEPT ![v] = n],
         from \in LockedSteps <=> to \in LockedSteps
  PROVE  /\ LockAt(v)' /\ NobodyWaits' /\ (lUsed' /\ lPc'[v] = "idle" => lLocks' = 0)
         /\ CallAt(v)'
<1>1. /\ At(v) /\ step[v] = from /\ step'[v] = to
      /\ lPc[v] \in {"idle", "critical"} /\ cPc[v] = "idle" /\ UNCHANGED <<locker, conds>>
  BY LocalTurn
<1>2. LockAt(v)'
  BY <1>1 DEF At, LockAt, locker, conds
<1>3. CallAt(v)'
  BY <1>1 DEF CallAt, WaitPoints, WakePoints, conds
<1>4. QED
  BY <1>1, <1>2, <1>3 DEF At, NobodyWaits, locker

\* A step in a function for the clients of an open pipe
LEMMA LocalUser ==
  ASSUME Given, TurnInv, NEW v \in Tasks, NEW from, NEW to, Local(v, from, to),
         size' = size \/ \E n : size' = [size EXCEPT ![v] = n],
         from \in LockedSteps <=> to \in LockedSteps,
         from \notin OwnSteps, to \notin OwnSteps, UNCHANGED <<open, allocated>>, SizeAt(v)'
  PROVE  /\ TakesTurn(v) /\ WC!IndInv' /\ At(v)' /\ At(v)
         /\ step[v] = from /\ step'[v] = to /\ cPc[v] = "idle" /\ UNCHANGED conds
<1>1. /\ TakesTurn(v) /\ WC!IndInv' /\ At(v)
      /\ step[v] = from /\ step'[v] = to /\ cPc[v] = "idle" /\ UNCHANGED <<locker, conds>>
  BY LocalTurn
<1>2. LockAt(v)' /\ NobodyWaits' /\ (lUsed' /\ lPc'[v] = "idle" => lLocks' = 0) /\ CallAt(v)'
  BY LocalLock
<1>3. OpenAt(v)'
  BY <1>1 DEF OpenAt, OwnSteps
<1>4. IF open' THEN Whole' ELSE Gone'
  BY <1>1 DEF At, Whole, Gone, First, locker, conds
<1>5. At(v)'
  BY <1>2, <1>3, <1>4 DEF At
<1>6. QED
  BY <1>1, <1>5

\* A turn that does not end a copy, empty the buffer or fill it
LEMMA LocalServes ==
  ASSUME Given, TurnInv, NEW v \in Tasks, NEW from, NEW to, Local(v, from, to),
         size' = size \/ \E n : size' = [size EXCEPT ![v] = n],
         from \in LockedSteps <=> to \in LockedSteps,
         from \notin OwnSteps, to \notin OwnSteps, UNCHANGED <<open, allocated>>, SizeAt(v)',
         allocated => ContentBy(v)' = ContentBy(v),
         from # "w_full", to = "f_wait" => from = "f_wait" \/ ContentBy(v) < Size,
         allocated => (ForWriter(v) => ForWriter(v)') /\ (ForReader(v) => ForReader(v)')
  PROVE  Turned(v)
<1>1. /\ TakesTurn(v) /\ WC!IndInv' /\ At(v)'
      /\ step[v] = from /\ step'[v] = to /\ cPc[v] = "idle" /\ UNCHANGED conds
  BY LocalUser
<1>2. ~Flushes(v) /\ (Enters(v)' => Enters(v) \/ ContentBy(v) < Size)
  BY <1>1 DEF Flushes, Enters, WakePoints, conds
<1>3. Serves(v)
  BY <1>1, <1>2 DEF Serves, WriterServed, ReaderServed, conds
<1>4. QED
  BY <1>1, <1>3, ServesKeeps DEF Turned

\* The entry of writePipe, readPipe and waitForPipeFullyFlushed
LEMMA CallsTurn ==
  ASSUME Given, TurnInv, NEW v \in Tasks, CallWrite(v) \/ CallRead(v) \/ CallWaitFlushed(v)
  PROVE  Turned(v)
<1> USE DEF LockedSteps, OwnSteps, PipeSteps
<1>1. PICK to \in {"w_wait", "w_lock", "r_wait", "r_lock", "f_wait"} : Local(v, "idle", to)
  BY DEF CallWrite, CallRead, CallWaitFlushed
<1>2. /\ size' = size \/ \E n : size' = [size EXCEPT ![v] = n]
      /\ UNCHANGED <<open, allocated, offset, seek>>
      /\ to # "f_wait" => size'[v] > 0
      /\ to = "f_wait" => seek - offset < Size
  BY <1>1 DEF CallWrite, CallRead, CallWaitFlushed, pipe, Local, Step, TurnInv, PipeInv, PipeTypeOK
<1>3. step[v] = "idle" /\ step'[v] = to /\ cPc[v] = "idle"
  BY <1>1, <1>2, LocalTurn
<1>4. SizeAt(v)' /\ ContentBy(v)' = ContentBy(v) /\ (to = "f_wait" => ContentBy(v) < Size)
  BY <1>2, <1>3 DEF SizeAt, Sized, ContentBy
<1>5. ~ForWriter(v) /\ ~ForReader(v)
  BY <1>3 DEF ForWriter, ForReader, Wakes, CreateSteps
<1>6. QED
  BY <1>1, <1>2, <1>4, <1>5, LocalServes

\* The buffer between the copies, where v alone is in a turn
LEMMA AtRestHere ==
  ASSUME Given, TurnInv, NEW v \in Tasks, MayRun(v, ready, cpu), step[v] \notin Copies
  PROVE  AtRest /\ offset \in Nat /\ seek \in Nat /\ Size \in Nat \ {0} /\ size[v] \in 0..Size
<1>1. \A u \in Tasks \ {v} : step[u] \notin Copies
  BY AtBefore, RestsOutside
<1>2. QED
  BY <1>1, PipeAssumption DEF TurnInv, PipeInv, BufferExact, PipeTypeOK

\* offsetPipeFlush, its first half
LEMMA WriteCheckTurn ==
  ASSUME Given, TurnInv, NEW v \in Tasks, WriteCheck(v)
  PROVE  Turned(v)
<1> USE DEF LockedSteps, OwnSteps
<1>1. PICK to \in {"w_unlock", "w_move", "w_size"} : Local(v, "w_check", to)
  BY DEF WriteCheck
<1>2. /\ size' = size \/ \E n : size' = [size EXCEPT ![v] = n]
      /\ UNCHANGED <<open, allocated, offset>>
      /\ to = "w_unlock" => ~open \/ ~allocated
      /\ to = "w_move" => seek' = seek - offset /\ size' = size
      /\ to = "w_size" => seek' = seek /\ (offset = 0 \/ seek = 0) /\ size' = size
  BY <1>1 DEF WriteCheck, pipe, Local, Step, TurnInv, PipeInv, PipeTypeOK
<1>3. step[v] = "w_check" /\ step'[v] = to /\ cPc[v] = "idle" /\ At(v)
  BY <1>1, <1>2, LocalTurn
<1>4. AtRest /\ offset \in Nat /\ seek \in Nat
  BY <1>1, <1>3, AtRestHere DEF Local, Copies
<1>5. to = "w_size" => offset = 0
  BY <1>2, <1>4 DEF AtRest
<1>6. SizeAt(v)'
  BY <1>2, <1>3, <1>5 DEF SizeAt, Sized, At
<1>7. allocated => to # "w_unlock"
  BY <1>2, <1>3 DEF At, Gone
<1>8. allocated => ContentBy(v)' = ContentBy(v)
  BY <1>2, <1>3, <1>7 DEF ContentBy
<1>9. allocated => ForWriter(v)' /\ ~ForReader(v)
  BY <1>3, <1>7 DEF ForWriter, ForReader, Wakes
<1>10. QED
  BY <1>1, <1>2, <1>6, <1>8, <1>9, LocalServes

\* memmove and memcpy
LEMMA CopyTurn ==
  ASSUME Given, TurnInv, NEW v \in Tasks,
         WriteMove(v) \/ WriteMoved(v) \/ WriteCopy(v) \/ ReadCopy(v)
  PROVE  Turned(v)
<1> USE DEF LockedSteps, OwnSteps
<1>1. PICK from \in {"w_move", "w_copy", "r_copy"}, to \in {"w_move", "w_size", "w_copy", "r_copy"} :
        /\ Local(v, from, to) /\ (from = "w_move" <=> to \in {"w_move", "w_size"})
        /\ UNCHANGED <<open, allocated, seek, size>>
        /\ from = "r_copy" <=> to = "r_copy"
        /\ offset' = IF to = "w_size" THEN 0 ELSE offset
  BY DEF WriteMove, WriteMoved, WriteCopy, ReadCopy, pipe
<1>2. step[v] = from /\ step'[v] = to /\ cPc[v] = "idle" /\ At(v)
  BY <1>1, LocalTurn
<1>3. seek \in Nat
  BY DEF TurnInv, PipeInv, PipeTypeOK
<1>4. SizeAt(v)'
  BY <1>1, <1>2 DEF SizeAt, Sized, At
<1>5. ContentBy(v)' = ContentBy(v)
  BY <1>1, <1>2, <1>3 DEF ContentBy
<1>6. (ForWriter(v) => ForWriter(v)') /\ (ForReader(v) => ForReader(v)')
  BY <1>1, <1>2 DEF ForWriter, ForReader, Wakes
<1>7. QED
  BY <1>1, <1>4, <1>5, <1>6, LocalServes

\* Who has nothing to write has met a full buffer: a reader has a wake coming,
\* and so it is with who has nothing to read.
LEMMA SizeTurn ==
  ASSUME Given, TurnInv, NEW v \in Tasks, WriteSize(v) \/ ReadSize(v)
  PROVE  Turned(v)
<1> USE DEF LockedSteps, OwnSteps
<1>1. PICK from \in {"w_size", "r_size"}, to \in {"w_copy", "w_unlock", "r_copy", "r_unlock"},
           n \in 0..Size :
        /\ Local(v, from, to) /\ UNCHANGED pipe
        /\ size' = [size EXCEPT ![v] = n]
        /\ from = "w_size" => to \in {"w_copy", "w_unlock"}
        /\ from = "r_size" => to \in {"r_copy", "r_unlock"}
        /\ to \in {"w_copy", "r_copy"} => n > 0
        /\ to = "w_unlock" => n = 0 /\ Least(Size - seek, size[v]) <= 0
        /\ to = "r_unlock" => ~(open /\ allocated) \/ Least(seek - offset, size[v]) <= 0
  <2>1. MayRun(v, ready, cpu) /\ step[v] \notin Copies
    BY DEF WriteSize, ReadSize, Local, Step, Copies
  <2>2. /\ offset \in Nat /\ seek \in Nat /\ Size \in Nat \ {0} /\ size[v] \in 0..Size
        /\ offset <= seek /\ seek <= Size
    BY <2>1, AtRestHere DEF AtRest
  <2>3. CASE WriteSize(v)
    <3> DEFINE m == Least(Size - seek, size[v])
    <3>1. m \in 0..Size
      BY <2>2 DEF Least
    <3>2. /\ Local(v, "w_size", IF m > 0 THEN "w_copy" ELSE "w_unlock") /\ UNCHANGED pipe
          /\ size' = [size EXCEPT ![v] = IF m > 0 THEN m ELSE 0]
      BY <2>3 DEF WriteSize
    <3> HIDE DEF m
    <3>3. m > 0 \/ ~(m > 0)
      OBVIOUS
    <3>4. CASE m > 0
      BY <3>1, <3>2, <3>4
    <3>5. CASE ~(m > 0)
      <4>1. 0 \in 0..Size /\ m <= 0
        BY <2>2, <3>1, <3>5
      <4>2. QED
        BY <3>2, <3>5, <4>1 DEF m
    <3>6. QED
      BY <3>4, <3>5
  <2>4. CASE ReadSize(v)
    <3> DEFINE m == IF open /\ allocated THEN Least(seek - offset, size[v]) ELSE 0
    <3>1. m \in 0..Size
      BY <2>2 DEF Least
    <3>2. /\ Local(v, "r_size", IF m > 0 THEN "r_copy" ELSE "r_unlock") /\ UNCHANGED pipe
          /\ size' = [size EXCEPT ![v] = IF m > 0 THEN m ELSE 0]
      BY <2>4 DEF ReadSize
    <3>3. m <= 0 => ~(open /\ allocated) \/ Least(seek - offset, size[v]) <= 0
      OBVIOUS
    <3> HIDE DEF m
    <3>4. CASE m > 0
      BY <3>1, <3>2, <3>4
    <3>5. CASE ~(m > 0)
      <4>1. 0 \in 0..Size /\ m <= 0
        BY <2>2, <3>1, <3>5
      <4>2. QED
        BY <3>2, <3>3, <3>5, <4>1
    <3>6. QED
      BY <3>4, <3>5
  <2>5. QED
    BY <2>3, <2>4
<1>2. /\ step[v] = from /\ step'[v] = to /\ At(v) /\ TakesTurn(v)
  BY <1>1, LocalTurn
<1>3. AtRest /\ offset \in Nat /\ seek \in Nat /\ Size \in Nat \ {0} /\ size[v] \in 0..Size
  BY <1>1, <1>2, AtRestHere DEF TakesTurn, Copies
<1>4. size'[v] = n /\ UNCHANGED <<open, allocated, offset, seek>>
  BY <1>1 DEF pipe, TurnInv, PipeInv, PipeTypeOK
<1>5. SizeAt(v)'
  BY <1>1, <1>2, <1>4 DEF SizeAt, Sized
<1>6. /\ TakesTurn(v) /\ WC!IndInv' /\ At(v)' /\ cPc[v] = "idle" /\ UNCHANGED conds
  BY <1>1, <1>4, <1>5, LocalUser
<1>7. /\ Content = seek - offset /\ Content' = seek - offset
      /\ 0 <= Content /\ Content <= Size /\ Size > 0
  BY <1>1, <1>2, <1>3, <1>4, ContentIs DEF ContentBy, AtRest
<1>8. size[v] > 0 /\ (from = "w_size" => offset = 0)
  BY <1>1, <1>2 DEF At, SizeAt, Sized
<1>9. /\ allocated => open
      /\ to = "w_unlock" => Content = Size
      /\ allocated /\ to = "r_unlock" => Content = 0
  BY <1>1, <1>2, <1>3, <1>7, <1>8 DEF At, Gone, Least, AtRest
<1>10. FlushExact'
  <2>1. ~Flushes(v) /\ ~Flushes(v)' /\ ~Enters(v)' /\ cQueue' = cQueue /\ cClean' = cClean
    BY <1>1, <1>2, <1>6 DEF Flushes, Enters, WakePoints, conds
  <2>2. \A u \in Tasks : ~Flushes(u)
    BY <2>1, <1>6, TurnRests, RestsOutside DEF TurnInv
  <2>3. allocated /\ cClean[FULLY_FLUSHED] /\ Content = Size => cQueue[FULLY_FLUSHED] = << >>
    BY <2>2 DEF TurnInv, FlushExact
  <2>4. Content = ContentBy(v)'
    BY <1>6, <1>7, ContentIs
  <2>5. QED
    BY <1>4, <1>6, <2>1, <2>3, <2>4, FlushKept
<1>11. TurnsGoOn'
  <2> SUFFICES ASSUME allocated, cClean[READY_READ], cClean[READY_WRITE], PlainWatchers
               PROVE  /\ Content' = Size => ReaderServed'
                      /\ Content' = 0 => WriterServed'
                      /\ ReaderServed' \/ WriterServed'
    BY <1>4, <1>6 DEF TurnsGoOn, conds
  <2>1. /\ Content = Size => ReaderServed
        /\ Content = 0 => WriterServed
        /\ ReaderServed \/ WriterServed
    BY DEF TurnInv, TurnsGoOn
  <2>2. cOwed' = cOwed
    BY <1>6 DEF conds
  <2>3. CASE to = "w_copy"
    <3>1. ForWriter(v)'
      BY <1>2, <2>3 DEF ForWriter
    <3>2. ~ForReader(v)
      BY <1>1, <1>2, <1>6, <2>3 DEF ForReader, Wakes
    <3>3. ReaderServed => ReaderServed'
      BY <1>6, <2>2, <3>2, OthersServe DEF ReaderServed
    <3>4. QED
      BY <1>7, <2>1, <3>1, <3>3 DEF WriterServed
  <2>4. CASE to = "w_unlock"
    <3>1. ~ForReader(v)
      BY <1>1, <1>2, <1>6, <2>4 DEF ForReader, Wakes
    <3>2. ReaderServed => ReaderServed'
      BY <1>6, <2>2, <3>1, OthersServe DEF ReaderServed
    <3>3. QED
      BY <1>7, <1>9, <2>1, <2>4, <3>2
  <2>5. CASE to = "r_copy"
    <3>1. ForReader(v)'
      BY <1>2, <2>5 DEF ForReader
    <3>2. ~ForWriter(v)
      BY <1>1, <1>2, <1>6, <2>5 DEF ForWriter, Wakes, CreateSteps
    <3>3. WriterServed => WriterServed'
      BY <1>6, <2>2, <3>2, OthersServe DEF WriterServed
    <3>4. QED
      BY <1>7, <2>1, <3>1, <3>3 DEF ReaderServed
  <2>6. CASE to = "r_unlock"
    <3>1. ~ForWriter(v)
      BY <1>1, <1>2, <1>6, <2>6 DEF ForWriter, Wakes, CreateSteps
    <3>2. WriterServed => WriterServed'
      BY <1>6, <2>2, <3>1, OthersServe DEF WriterServed
    <3>3. QED
      BY <1>7, <1>9, <2>1, <2>6, <3>2
  <2>7. QED
    BY <2>3, <2>4, <2>5, <2>6
<1>12. QED
  BY <1>6, <1>10, <1>11 DEF Turned

\* A write makes a turn for a reader, a read one for a writer.
LEMMA AdvanceTurn ==
  ASSUME Given, TurnInv, NEW v \in Tasks, WriteAdvance(v) \/ ReadAdvance(v)
  PROVE  Turned(v)
<1> USE DEF LockedSteps, OwnSteps
<1>1. PICK from \in {"w_copy", "r_copy"}, to \in {"w_full", "w_unlock", "r_empty", "r_wake"} :
        /\ Local(v, from, to) /\ UNCHANGED <<open, allocated, size>>
        /\ from = "w_copy" =>
             /\ to = IF seek + size[v] = Size THEN "w_full" ELSE "w_unlock"
             /\ seek' = seek + size[v] /\ offset' = offset
        /\ from = "r_copy" =>
             /\ to \in {"r_empty", "r_wake"}
             /\ offset' = offset + size[v] /\ seek' = seek
  BY DEF WriteAdvance, ReadAdvance
<1>2. step[v] = from /\ step'[v] = to
  BY <1>1, LocalTurn
<1>3. SizeAt(v)'
  BY <1>1, <1>2 DEF SizeAt, Sized
<1>4. TakesTurn(v) /\ WC!IndInv' /\ At(v)' /\ cPc[v] = "idle" /\ UNCHANGED conds
  BY <1>1, <1>3, LocalUser
<1>5. /\ seek \in Nat /\ offset \in Nat /\ Size \in Nat \ {0} /\ size[v] \in 0..Size /\ size'[v] = size[v]
      /\ from = "w_copy" => WriteExact(v)
      /\ from = "r_copy" => ReadExact(v)
  BY <1>1, <1>2, PipeAssumption DEF TurnInv, PipeInv, PipeTypeOK, CopiesExact
<1>6. Content' = seek' - offset'
  BY <1>1, <1>2, <1>4, ContentIs DEF ContentBy
<1>7. /\ size[v] > 0
      /\ from = "w_copy" => Content' > 0 /\ (Content' = Size => to = "w_full")
      /\ from = "r_copy" => Content' < Size
  BY <1>1, <1>5, <1>6 DEF WriteExact, ReadExact
<1>8. FlushExact'
  <2>1. ~Enters(v)' /\ (to = "w_full" => Flushes(v)')
    BY <1>1, <1>2, <1>4 DEF Flushes, Enters, conds
  <2>2. Content' = Size => to = "w_full"
    BY <1>1, <1>5, <1>7
  <2>3. Content' = ContentBy(v)'
    BY <1>4, ContentIs
  <2>4. QED
    BY <1>4, <2>1, <2>2, <2>3, FlushKept
<1>9. TurnsGoOn'
  <2>1. CASE from = "w_copy"
    <3>1. ForReader(v)' /\ Content' # 0
      BY <1>1, <1>2, <1>5, <1>6, <1>7, <2>1 DEF ForReader
    <3>2. QED
      BY <3>1 DEF TurnsGoOn, ReaderServed
  <2>2. CASE from = "r_copy"
    <3>1. ForWriter(v)' /\ Content' # Size
      BY <1>1, <1>2, <1>5, <1>6, <1>7, <2>2 DEF ForWriter
    <3>2. QED
      BY <3>1 DEF TurnsGoOn, WriterServed
  <2>3. QED
    BY <2>1, <2>2
<1>10. QED
  BY <1>4, <1>8, <1>9 DEF Turned

-----------------------------------------------------------------------------
\* A step that touches neither the buffer nor the conditions
LEMMA ElsewhereServes ==
  ASSUME Given, TurnInv, NEW v \in Tasks, TakesTurn(v), UNCHANGED <<conds, pipe>>, size'[v] = size[v],
         cPc[v] = "idle",
         step[v] # "w_full" /\ step'[v] # "f_wait" /\ step[v] # "w_move" /\ step'[v] # "w_move",
         ForWriter(v) => ForWriter(v)', ForReader(v) => ForReader(v)'
  PROVE  TurnsGoOn' /\ FlushExact'
<1>1. UNCHANGED <<allocated, seek, offset, cClean, cOwed, cQueue, cPc, cCall>>
  BY DEF conds, pipe
<1>2. ~Flushes(v) /\ ~Enters(v)'
  BY <1>1 DEF Flushes, Enters, WakePoints
<1>3. ContentBy(v)' = ContentBy(v)
  BY <1>1 DEF ContentBy
<1>4. Serves(v)
  BY <1>1, <1>2, <1>3 DEF Serves, WriterServed, ReaderServed
<1>5. QED
  BY <1>4, ServesKeeps

\* lockMutex, which every task enters when nobody has the mutex
LEMMA LockEnters ==
  ASSUME Given, TurnInv, NEW v \in Tasks, NEW from \in PipeSteps \ LockedSteps, NEW to \in LockedSteps,
         LockPipe(v, from, to), UNCHANGED <<pipe, size>>
  PROVE  /\ TakesTurn(v) /\ WC!IndInv' /\ At(v)
         /\ step[v] = from /\ step'[v] = to /\ cPc[v] = "idle"
         /\ UNCHANGED <<conds, lUsed>>
         /\ LockAt(v)' /\ NobodyWaits' /\ (lUsed' /\ lPc'[v] = "idle" => lLocks' = 0)
<1>0. /\ step[v] = from /\ step' = [step EXCEPT ![v] = to]
      /\ lPc[v] \in {"idle", "critical"} /\ cPc[v] = "idle"
      /\ MayRun(v, ready, cpu) /\ cpu' = Occupy(v, cpu) /\ UNCHANGED conds
      /\ UNCHANGED <<lUsed, lLocks, lCount, lWaiters, lReg>>
      /\ lPc' = IF lUsed THEN [lPc EXCEPT ![v] = "lock"] ELSE lPc
      /\ lUsed => lPc[v] = "idle"
  BY DEF LockPipe, Local, Step, Locker!CallLock, Locker!Call, Locker!Goto, Locker!MayRun, MayRun,
         Locker!Occupy, Occupy, Locker!mutexVars, locker
<1>1. step \in [Tasks -> PipeSteps] /\ lPc \in [Tasks -> LockPoints]
  BY DEF TurnInv, PipeInv, PipeTypeOK
<1>2. At(v)
  BY <1>0, AtBefore
<1>3. TakesTurn(v)
  BY <1>0, <1>1 DEF TakesTurn, Left, conds
<1>4. WC!IndInv'
  BY <1>0, CondsIdle DEF TurnInv
<1>5. step'[v] = to /\ (lUsed => lPc'[v] = "lock" /\ lLocks = 0) /\ (~lUsed => lPc'[v] = "idle")
  BY <1>0, <1>1, <1>2 DEF At, LockAt
<1>6. LockAt(v)'
  BY <1>0, <1>5 DEF LockAt, conds
<1>7. QED
  BY <1>0, <1>2, <1>3, <1>4, <1>5, <1>6 DEF At, NobodyWaits

LEMMA LockTurn ==
  ASSUME Given, TurnInv, NEW v \in Tasks, CloseLock(v) \/ WriteLock(v) \/ ReadLock(v)
  PROVE  Turned(v)
<1> USE DEF LockedSteps, OwnSteps, PipeSteps, WriteSteps, ReadSteps
<1>1. PICK from \in {"x_lock", "w_lock", "r_lock"}, to \in {"x_free", "w_check", "r_size"} :
        /\ LockPipe(v, from, to) /\ UNCHANGED <<pipe, size, copy, stream>>
        /\ from = "x_lock" <=> to = "x_free"
        /\ from = "w_lock" <=> to = "w_check"
  BY DEF CloseLock, WriteLock, ReadLock
<1>2. /\ TakesTurn(v) /\ WC!IndInv' /\ At(v)
      /\ step[v] = from /\ step'[v] = to /\ cPc[v] = "idle"
      /\ UNCHANGED <<conds, lUsed>>
      /\ LockAt(v)' /\ NobodyWaits' /\ (lUsed' /\ lPc'[v] = "idle" => lLocks' = 0)
  BY <1>1, LockEnters
<1>3. UNCHANGED <<open, allocated, offset, seek, cUsed, cPc, cCall, size>>
  BY <1>1, <1>2 DEF pipe, conds
<1>4. OpenAt(v)' /\ (step'[v] \notin OwnSteps => IF open' THEN Whole' ELSE Gone')
  BY <1>1, <1>2, <1>3 DEF At, OpenAt, Whole, Gone, First
<1>5. CallAt(v)' /\ SizeAt(v)'
  BY <1>1, <1>2, <1>3 DEF At, CallAt, WaitPoints, WakePoints, SizeAt, Sized
<1>6. At(v)'
  BY <1>2, <1>4, <1>5 DEF At
<1>7. (ForWriter(v) => ForWriter(v)') /\ (ForReader(v) => ForReader(v)')
  BY <1>1, <1>2, <1>3 DEF ForWriter, ForReader, Wakes, Woken, CreateSteps
<1>8. TurnsGoOn' /\ FlushExact'
  BY <1>1, <1>2, <1>3, <1>7, ElsewhereServes DEF TakesTurn
<1>9. QED
  BY <1>2, <1>6, <1>8 DEF Turned

\* unlockMutex, which a task enters that has the mutex, if there is one
LEMMA UnlockTurn ==
  ASSUME Given, TurnInv, NEW v \in Tasks, CloseUnlock(v) \/ WriteUnlock(v) \/ ReadUnlock(v)
  PROVE  Turned(v)
<1> USE DEF LockedSteps, OwnSteps
<1>1. PICK from \in {"x_unlock", "w_unlock", "r_unlock"}, to \in {"x_mutex", "w_wake", "idle"} :
        /\ UnlockPipe(v, from, to) /\ UNCHANGED <<pipe, size, copy, stream>>
        /\ from = "x_unlock" <=> to = "x_mutex"
        /\ from = "w_unlock" => to = IF size[v] > 0 THEN "w_wake" ELSE "idle"
        /\ from = "r_unlock" => to = "idle"
  BY DEF CloseUnlock, WriteUnlock, ReadUnlock
<1>2. /\ step[v] = from /\ step' = [step EXCEPT ![v] = to]
      /\ lPc[v] \in {"idle", "critical"} /\ cPc[v] = "idle"
      /\ MayRun(v, ready, cpu) /\ cpu' = Occupy(v, cpu) /\ UNCHANGED conds
      /\ UNCHANGED <<lUsed, lLocks, lCount, lWaiters, lReg>>
      /\ lPc' = [lPc EXCEPT ![v] = IF lUsed THEN "unlock" ELSE "idle"]
  BY <1>1 DEF UnlockPipe, Step, Locker!Goto, Locker!MayRun, MayRun, Locker!Occupy, Occupy
<1>3. step \in [Tasks -> PipeSteps] /\ lPc \in [Tasks -> LockPoints]
  BY DEF TurnInv, PipeInv, PipeTypeOK
<1>4. At(v) /\ step'[v] = to
  BY <1>2, <1>3, AtBefore
<1>5. UNCHANGED <<open, allocated, offset, seek, cUsed, cPc, cCall, size>>
  BY <1>1, <1>2 DEF pipe, conds
<1>6. TakesTurn(v)
  BY <1>2, <1>3, <1>5 DEF TakesTurn, Left
<1>7. WC!IndInv'
  BY <1>2, CondsIdle DEF TurnInv
<1>8. /\ lUsed => lPc[v] = "critical" /\ lPc'[v] = "unlock" /\ lLocks = 1
      /\ ~lUsed => lPc'[v] = "idle"
  BY <1>1, <1>2, <1>3, <1>4 DEF At, LockAt, NobodyWaits
<1>9. LockAt(v)' /\ NobodyWaits' /\ (lUsed' /\ lPc'[v] = "idle" => lLocks' = 0)
  BY <1>1, <1>2, <1>4, <1>5, <1>8 DEF At, LockAt, NobodyWaits
<1>10. OpenAt(v)' /\ (step'[v] \notin OwnSteps => IF open' THEN Whole' ELSE Gone')
  BY <1>1, <1>2, <1>4, <1>5 DEF At, OpenAt, Whole, Gone, First, AfterFirst, Closing
<1>11. CallAt(v)' /\ SizeAt(v)'
  BY <1>1, <1>2, <1>4, <1>5 DEF At, CallAt, WaitPoints, WakePoints, SizeAt, Sized
<1>12. At(v)'
  BY <1>9, <1>10, <1>11 DEF At
<1>13. (ForWriter(v) => ForWriter(v)') /\ (ForReader(v) => ForReader(v)')
  BY <1>1, <1>2, <1>4, <1>5 DEF ForWriter, ForReader, Wakes, Woken, CreateSteps
<1>14. TurnsGoOn' /\ FlushExact'
  BY <1>1, <1>2, <1>4, <1>5, <1>6, <1>13, ElsewhereServes
<1>15. QED
  BY <1>6, <1>7, <1>12, <1>14 DEF Turned

\* The steps of createPipe and closePipe that call nobody, CreateLocker apart
LEMMA OwnTurn ==
  ASSUME Given, TurnInv, NEW v \in Tasks, CallCreate(v) \/ CallClose(v) \/ CloseFree(v) \/ CloseSlot(v)
  PROVE  Turned(v)
<1> USE DEF LockedSteps, OwnSteps
<1>1. PICK from \in {"idle", "x_free", "x_slot"}, to \in {"c_mutex", "x_lock", "x_cond0", "idle"} :
        /\ Local(v, from, to) /\ UNCHANGED <<offset, seek, size>>
        /\ from = "idle" => /\ to \in {"c_mutex", "x_lock"} /\ allocated' = allocated
                            /\ to = "c_mutex" => ~open /\ open' = TRUE
                            /\ to = "x_lock" => open /\ open' = open
        /\ from = "x_free" => to = "x_cond0" /\ allocated' = FALSE /\ open' = open
        /\ from = "x_slot" => to = "idle" /\ open' = FALSE /\ allocated' = allocated
  BY DEF CallCreate, CallClose, CloseFree, CloseSlot, pipe, buffer
<1>2. /\ TakesTurn(v) /\ WC!IndInv' /\ At(v)
      /\ step[v] = from /\ step'[v] = to /\ cPc[v] = "idle" /\ UNCHANGED <<locker, conds>>
  BY <1>1, LocalTurn
<1>3. LockAt(v)' /\ NobodyWaits' /\ (lUsed' /\ lPc'[v] = "idle" => lLocks' = 0) /\ CallAt(v)'
  BY <1>1, LocalLock
<1>4. UNCHANGED <<lUsed, cUsed, cPc, cCall, cOwed, cClean, cQueue>>
  BY <1>2 DEF locker, conds
<1>5. OpenAt(v)' /\ (step'[v] \notin OwnSteps => IF open' THEN Whole' ELSE Gone')
  <2>1. CASE from = "idle"
    BY <1>1, <1>2, <1>4, <2>1 DEF At, OpenAt, Whole, Gone, First
  <2>2. CASE from = "x_free"
    BY <1>1, <1>2, <1>4, <2>2 DEF At, OpenAt, Whole, Closing, First, AfterFirst
  <2>3. CASE from = "x_slot"
    BY <1>1, <1>2, <1>4, <2>3 DEF At, OpenAt, Gone, First
  <2>4. QED
    BY <1>1, <2>1, <2>2, <2>3
<1>6. At(v)'
  BY <1>1, <1>2, <1>3, <1>5 DEF At, SizeAt, Sized
<1>7. Serves(v)
  BY <1>1, <1>2, <1>4
     DEF Serves, ContentBy, ForWriter, ForReader, Wakes, Woken, CreateSteps, Flushes, Enters, WakePoints
<1>8. QED
  BY <1>2, <1>6, <1>7, ServesKeeps DEF Turned

\* createMutex and destroyMutex
LEMMA LockerTurn ==
  ASSUME Given, TurnInv, NEW v \in Tasks, CreateLocker(v) \/ CloseLocker(v)
  PROVE  Turned(v)
<1> USE DEF LockedSteps, OwnSteps
<1>1. PICK from \in {"c_mutex", "x_mutex"}, to \in {"c_fields", "x_slot"} :
        /\ Step(v, from, to) /\ MayRun(v, ready, cpu) /\ cpu' = Occupy(v, cpu)
        /\ UNCHANGED <<conds, pipe, size, lReg>>
        /\ from = "c_mutex" <=> to = "c_fields"
        /\ from = "c_mutex" =>
             lUsed' = TRUE /\ lLocks' = 0 /\ UNCHANGED <<lWaiters, lPc>>
        /\ from = "x_mutex" /\ lUsed =>
             /\ lUsed' = FALSE /\ lWaiters' = << >>
             /\ lPc' = [u \in Tasks |-> IF lPc[u] = "suspended" THEN "refused" ELSE lPc[u]]
  BY DEF CreateLocker, CloseLocker, Locker!DestroyMutex, Locker!MayRun, MayRun, Locker!Occupy,
         Occupy, Local, locker
<1>2. At(v) /\ \A u \in Tasks \ {v} : Resting(u)
  BY <1>1, AtBefore
<1>3. /\ step[v] = from /\ step'[v] = to /\ cPc[v] = "idle" /\ lPc[v] = "idle"
      /\ \A u \in Tasks \ {v} : step'[u] = step[u]
      /\ from = "x_mutex" => lUsed
  BY <1>1, <1>2 DEF Step, At, LockAt, OpenAt, TurnInv, PipeInv, PipeTypeOK
<1>4. \A u \in Tasks : lPc'[u] = lPc[u]
  BY <1>1, <1>2, <1>3 DEF Resting
<1>5. UNCHANGED <<open, allocated, seek, offset, cUsed, cPc, cCall>>
  BY <1>1 DEF pipe, conds
<1>6. TakesTurn(v)
  BY <1>1, <1>3, <1>4, <1>5 DEF TakesTurn, Left
<1>7. WC!IndInv'
  BY <1>1, <1>3, CondsIdle DEF TurnInv
<1>8. LockAt(v)' /\ NobodyWaits' /\ (lUsed' /\ lPc'[v] = "idle" => lLocks' = 0)
  BY <1>1, <1>2, <1>3, <1>4 DEF At, LockAt, NobodyWaits
<1>9. OpenAt(v)'
  BY <1>1, <1>2, <1>3, <1>5 DEF At, OpenAt, Gone, First
<1>10. CallAt(v)' /\ SizeAt(v)'
  BY <1>1, <1>3, <1>5 DEF CallAt, WaitPoints, WakePoints, SizeAt, Sized
<1>11. At(v)'
  BY <1>1, <1>3, <1>8, <1>9, <1>10 DEF At
<1>12. TurnsGoOn' /\ FlushExact'
  BY <1>1, <1>3, <1>5, <1>6, ElsewhereServes DEF ForWriter, ForReader, Wakes, CreateSteps
<1>13. QED
  BY <1>6, <1>7, <1>11, <1>12 DEF Turned

\* Who has created the buffer has the first turn to give, to a writer.
LEMMA CreatorServes ==
  ASSUME Given, TurnInv, NEW v \in Tasks, TakesTurn(v), step'[v] \in CreateSteps,
         seek' = 0, offset' = 0
  PROVE  TurnsGoOn' /\ FlushExact'
<1>1. Content' = 0 /\ ContentBy(v)' = 0 /\ Size > 0 /\ Size # 0
  BY PipeAssumption, ContentIs DEF ContentBy, CreateSteps
<1>2. WriterServed' /\ Content' # Size
  BY <1>1 DEF WriterServed, ForWriter
<1>3. TurnsGoOn'
  BY <1>1, <1>2 DEF TurnsGoOn
<1>4. QED
  BY <1>1, <1>3, FlushKept

LEMMA CreateBufferTurn ==
  ASSUME Given, TurnInv, NEW v \in Tasks, CreateBuffer(v)
  PROVE  Turned(v)
<1> USE DEF LockedSteps, OwnSteps
<1>1. /\ Local(v, "c_fields", "c_cond0") /\ UNCHANGED <<open, size>>
      /\ allocated' = TRUE /\ seek' = 0 /\ offset' = 0
  BY DEF CreateBuffer
<1>2. /\ TakesTurn(v) /\ WC!IndInv' /\ At(v)
      /\ step[v] = "c_fields" /\ step'[v] = "c_cond0" /\ cPc[v] = "idle" /\ UNCHANGED <<locker, conds>>
  BY <1>1, LocalTurn
<1>3. LockAt(v)' /\ NobodyWaits' /\ (lUsed' /\ lPc'[v] = "idle" => lLocks' = 0) /\ CallAt(v)'
  BY <1>1, LocalLock
<1>4. OpenAt(v)'
  BY <1>1, <1>2 DEF At, OpenAt, Creating, First, locker, conds
<1>5. At(v)'
  BY <1>2, <1>3, <1>4 DEF At, SizeAt, Sized
<1>6. QED
  BY <1>1, <1>2, <1>5, CreatorServes DEF Turned, CreateSteps

-----------------------------------------------------------------------------
\* A call of waitcondition.c on a condition that there is
EntryOf(o, point) ==
  \/ o = "wait" /\ point = "wait"
  \/ o \in {"one", "all"} /\ point = "wake"
  \/ o = "destroy" /\ point = "delete"

LEMMA CondEnters ==
  ASSUME Given, TurnInv, NEW v \in Tasks, NEW o, NEW c \in 0..3, NEW point, NEW from, NEW to,
         Step(v, from, to), Cond!Call(v, o, c, point), EntryOf(o, point),
         UNCHANGED <<locker, size>>
  PROVE  /\ TakesTurn(v) /\ WC!IndInv' /\ At(v)
         /\ step[v] = from /\ step'[v] = to
         /\ lPc[v] \in {"idle", "critical"} /\ cPc[v] = "idle"
         /\ cPc'[v] = point /\ cCall'[v].op = o /\ cCall'[v].wid = c
         /\ UNCHANGED <<cUsed, cOwed, cClean, cQueue>>
<1>1. /\ step[v] = from /\ step' = [step EXCEPT ![v] = to]
      /\ lPc[v] \in {"idle", "critical"} /\ cPc[v] = "idle"
      /\ MayRun(v, ready, cpu) /\ cpu' = Occupy(v, cpu)
      /\ cPc' = [cPc EXCEPT ![v] = point]
      /\ cCall' = [cCall EXCEPT ![v] = [op |-> o, wid |-> c, left |-> 0]]
      /\ UNCHANGED <<cUsed, cOwed, cClean, cQueue>>
  BY DEF Step, Cond!Call, Cond!Jump, Cond!MayRun, MayRun, Cond!Occupy, Occupy, Cond!table,
         Cond!semaphores
<1>2. /\ step \in [Tasks -> PipeSteps] /\ cPc \in [Tasks -> CondPoints] /\ cCall \in [Tasks -> WC!Calls]
  BY DEF TurnInv, PipeInv, PipeTypeOK, WC!IndInv, WC!TypeOK, WC!TasksOK
<1>3. TakesTurn(v)
  BY <1>1, <1>2 DEF TakesTurn, Left, locker
<1>4. WC!IndInv'
  <2>1. WC!Call(v, o, c, point) /\ c \in WC!Wids
    BY CondIsWC DEF WC!Wids
  <2>2. WC!CallDestroy(v) \/ WC!CallWait(v) \/ WC!CallWake(v)
    BY <2>1 DEF EntryOf, WC!CallDestroy, WC!CallWait, WC!CallWake
  <2>3. QED
    BY <2>2, CondAssumptions, NucleusAssumption, WC!CallPreserves DEF TurnInv
<1>5. At(v)
  BY <1>1, AtBefore
<1>6. cCall'[v] = [op |-> o, wid |-> c, left |-> 0]
  BY <1>1, <1>2
<1>7. QED
  BY <1>1, <1>2, <1>3, <1>4, <1>5, <1>6

\* The locker is left alone, on either side of it.
LEMMA LockSame ==
  ASSUME NEW v \in Tasks, At(v), UNCHANGED locker, lPc[v] \in {"idle", "critical"},
         step[v] \in LockedSteps <=> step'[v] \in LockedSteps
  PROVE  LockAt(v)' /\ NobodyWaits' /\ (lUsed' /\ lPc'[v] = "idle" => lLocks' = 0)
BY DEF At, LockAt, NobodyWaits, locker

\* The calls of who writes, reads and waits: where the condition is not there
\* the pipe is gone.
UserCall(v, o, c, point, from, to) ==
  /\ CallCond(v, o, c, point, from, to) /\ UNCHANGED <<pipe, size>>
  /\ c \in 0..3 /\ EntryOf(o, point) /\ point # "delete"
  /\ from \in LockedSteps <=> to \in LockedSteps
  /\ from \notin OwnSteps /\ to \notin OwnSteps
  /\ to \in Sized => from \in Sized
  /\ to # "w_size"
  /\ step'[v] = to /\ cPc'[v] = point /\ cCall'[v].op = o /\ cCall'[v].wid = c => CallAt(v)'

LEMMA UserCalls ==
  ASSUME Given, TurnInv, NEW v \in Tasks, NEW o, NEW c, NEW point, NEW from, NEW to,
         UserCall(v, o, c, point, from, to)
  PROVE  /\ TakesTurn(v) /\ WC!IndInv' /\ At(v)'
         /\ step[v] = from /\ step'[v] = to /\ cPc[v] = "idle" /\ size'[v] = size[v]
         /\ UNCHANGED <<allocated, seek, offset, cOwed, cClean, cQueue>>
         /\ allocated => cPc'[v] = point /\ cCall'[v].op = o /\ cCall'[v].wid = c
<1> USE DEF UserCall
<1>1. UNCHANGED <<open, allocated, seek, offset>>
  BY DEF pipe
<1>2. CASE cUsed[c] /\ Step(v, from, to) /\ Cond!Call(v, o, c, point) /\ UNCHANGED locker
  <2>1. /\ TakesTurn(v) /\ WC!IndInv' /\ At(v)
        /\ step[v] = from /\ step'[v] = to
        /\ lPc[v] \in {"idle", "critical"} /\ cPc[v] = "idle"
        /\ cPc'[v] = point /\ cCall'[v].op = o /\ cCall'[v].wid = c
        /\ UNCHANGED <<cUsed, cOwed, cClean, cQueue>>
    BY <1>2, CondEnters
  <2>2. LockAt(v)' /\ NobodyWaits' /\ (lUsed' /\ lPc'[v] = "idle" => lLocks' = 0)
    BY <1>2, <2>1, LockSame
  <2>3. OpenAt(v)' /\ (IF open' THEN Whole' ELSE Gone')
    BY <1>1, <1>2, <2>1 DEF At, OpenAt, OwnSteps, Whole, Gone, First, locker
  <2>4. SizeAt(v)'
    BY <2>1 DEF At, SizeAt
  <2>5. At(v)'
    BY <2>1, <2>2, <2>3, <2>4 DEF At
  <2>6. QED
    BY <1>1, <2>1, <2>5
<1>3. CASE ~cUsed[c] /\ Local(v, from, to)
  <2>1. /\ At(v) /\ step[v] = from /\ step'[v] = to /\ cPc[v] = "idle" /\ UNCHANGED conds
    BY <1>3, LocalTurn
  <2>2. SizeAt(v)'
    BY <2>1 DEF At, SizeAt
  <2>3. TakesTurn(v) /\ WC!IndInv' /\ At(v)'
    BY <1>1, <1>3, <2>2, LocalUser
  <2>4. ~allocated
    BY <1>3, <2>1 DEF At, Whole, Gone, First
  <2>5. QED
    BY <1>1, <2>1, <2>3, <2>4 DEF conds
<1>4. QED
  BY <1>2, <1>3 DEF CallCond

\* The waits
LEMMA WaitTurn ==
  ASSUME Given, TurnInv, NEW v \in Tasks,
         WriteWait(v) \/ ReadWait(v) \/ WaitFlushed(v) \/ CallWaitOther(v)
  PROVE  Turned(v)
<1> USE DEF LockedSteps, OwnSteps, READY_READ, READY_WRITE, FULLY_FLUSHED, FULLY_EMPTY
<1>1. PICK from \in {"w_wait", "r_wait", "f_wait", "idle"}, to \in {"w_lock", "r_lock", "idle"}, c \in 0..3 :
        /\ CallCond(v, "wait", c, "wait", from, to) /\ UNCHANGED <<pipe, size>>
        /\ from = "w_wait" <=> to = "w_lock"
        /\ from = "r_wait" <=> to = "r_lock"
        /\ to = "w_lock" => c = READY_WRITE
        /\ to = "r_lock" => c = READY_READ
        /\ from = "f_wait" => c = FULLY_FLUSHED
        /\ from = "idle" => c # FULLY_FLUSHED
        /\ to = "idle" /\ PlainWatchers => c \in {FULLY_FLUSHED, FULLY_EMPTY}
  <2>1. CASE WriteWait(v) \/ ReadWait(v) \/ WaitFlushed(v)
    BY <2>1 DEF WriteWait, ReadWait, WaitFlushed, WaitFor
  <2>2. CASE CallWaitOther(v)
    BY <2>2 DEF CallWaitOther, WaitFor, PlainWatchers
  <2>3. QED
    BY <2>1, <2>2
<1>2. step'[v] = to /\ cPc'[v] = "wait" /\ cCall'[v].op = "wait" /\ cCall'[v].wid = c => CallAt(v)'
  BY <1>1 DEF CallAt, WaitPoints, WakePoints, PlainWatchers
<1>3. EntryOf("wait", "wait")
  BY DEF EntryOf
<1>10. UserCall(v, "wait", c, "wait", from, to)
  BY <1>1, <1>2, <1>3 DEF UserCall, Sized
<1>4. /\ TakesTurn(v) /\ WC!IndInv' /\ At(v)'
      /\ step[v] = from /\ step'[v] = to /\ cPc[v] = "idle" /\ size'[v] = size[v]
      /\ UNCHANGED <<allocated, seek, offset, cOwed, cClean, cQueue>>
      /\ allocated => cPc'[v] = "wait" /\ cCall'[v].op = "wait" /\ cCall'[v].wid = c
  BY <1>10, UserCalls
<1>5. ~ForWriter(v) /\ ~ForReader(v) /\ ~Flushes(v)
  BY <1>1, <1>4 DEF ForWriter, ForReader, Wakes, CreateSteps, Flushes, WakePoints
<1>6. allocated /\ Enters(v)' => Enters(v)
  BY <1>1, <1>4 DEF Enters
<1>7. ContentBy(v)' = ContentBy(v)
  BY <1>4 DEF ContentBy
<1>8. Serves(v)
  BY <1>4, <1>5, <1>6, <1>7 DEF Serves
<1>9. QED
  BY <1>4, <1>8, ServesKeeps DEF Turned

\* The wakes, which pass on what the turn that ends has to give
LEMMA WakeServes ==
  ASSUME Given, TurnInv, NEW v \in Tasks, NEW o, NEW c \in 0..3, NEW from, NEW to,
         CallCond(v, o, c, "wake", from, to), UNCHANGED <<pipe, size>>, EntryOf(o, "wake"),
         from \in LockedSteps <=> to \in LockedSteps,
         from \notin OwnSteps, to \notin OwnSteps, to \notin Sized, from \notin Sized,
         to # "f_wait", from # "w_full" \/ (to = "w_unlock" /\ o = "all"),
         step'[v] = to /\ cPc'[v] = "wake" /\ cCall'[v].op = o /\ cCall'[v].wid = c =>
           CallAt(v)' /\ (ForWriter(v) => ForWriter(v)') /\ (ForReader(v) => ForReader(v)')
  PROVE  Turned(v)
<1>1. /\ TakesTurn(v) /\ WC!IndInv' /\ At(v)'
      /\ step[v] = from /\ step'[v] = to /\ cPc[v] = "idle" /\ size'[v] = size[v]
      /\ UNCHANGED <<allocated, seek, offset, cOwed, cClean, cQueue>>
      /\ allocated => cPc'[v] = "wake" /\ cCall'[v].op = o /\ cCall'[v].wid = c
  <2>1. UserCall(v, o, c, "wake", from, to)
    BY DEF UserCall, Sized
  <2>2. QED
    BY <2>1, UserCalls
<1>2. allocated => (ForWriter(v) => ForWriter(v)') /\ (ForReader(v) => ForReader(v)')
  BY <1>1
<1>3. allocated => (Flushes(v) => Flushes(v)') /\ ~Enters(v)'
  BY <1>1 DEF Enters, Flushes, WakePoints
<1>4. ContentBy(v)' = ContentBy(v)
  BY <1>1 DEF ContentBy, Sized
<1>5. Serves(v)
  BY <1>1, <1>2, <1>3, <1>4 DEF Serves, WriterServed, ReaderServed
<1>6. QED
  BY <1>1, <1>5, ServesKeeps DEF Turned

LEMMA WakeTurn ==
  ASSUME Given, TurnInv, NEW v \in Tasks, WriteFull(v) \/ WriteWake(v) \/ ReadWake(v)
  PROVE  Turned(v)
<1> USE DEF LockedSteps, OwnSteps, Sized, EntryOf, CallAt, WaitPoints, WakePoints, ForWriter,
            ForReader, Wakes, CreateSteps
<1>1. UNCHANGED <<pipe, size>>
  BY DEF WriteFull, WriteWake, ReadWake
<1>2. CASE CallCond(v, "all", FULLY_FLUSHED, "wake", "w_full", "w_unlock")
  <2>1. step[v] = "w_full" /\ cPc[v] = "idle"
    BY <1>2 DEF CallCond, Local, Step
  <2>2. QED
    BY <1>1, <1>2, <2>1, WakeServes DEF FULLY_FLUSHED
<1>3. CASE CallCond(v, "one", READY_READ, "wake", "w_wake", "idle")
  <2>1. step[v] = "w_wake" /\ cPc[v] = "idle"
    BY <1>3 DEF CallCond, Local, Step
  <2>2. QED
    BY <1>1, <1>3, <2>1, WakeServes DEF READY_READ
<1>4. CASE CallCond(v, "one", FULLY_EMPTY, "wake", "r_empty", "r_wake")
  <2>1. step[v] = "r_empty" /\ cPc[v] = "idle"
    BY <1>4 DEF CallCond, Local, Step
  <2>2. QED
    BY <1>1, <1>4, <2>1, WakeServes DEF FULLY_EMPTY
<1>5. CASE CallCond(v, "one", READY_WRITE, "wake", "r_wake", "r_unlock")
  <2>1. step[v] = "r_wake" /\ cPc[v] = "idle"
    BY <1>5 DEF CallCond, Local, Step
  <2>2. QED
    BY <1>1, <1>5, <2>1, WakeServes DEF READY_WRITE
<1>6. QED
  BY <1>2, <1>3, <1>4, <1>5 DEF WriteFull, WriteWake, ReadWake, WakeAll, WakeOne

\* createWaitCond takes the next slot.
LEMMA FindTurn ==
  ASSUME Given, TurnInv, NEW v \in Tasks, NEW c \in 0..3, NEW from, NEW to,
         CreateCond(v, c, from, to), UNCHANGED <<pipe, size>>,
         OpenAt(v) /\ step[v] = from => Creating(v, c),
         step'[v] = to /\ Creating(v, c + 1)' => OpenAt(v)',
         from \in CreateSteps, to \in CreateSteps \ {"c_cond0"}
  PROVE  Turned(v)
<1>1. /\ step[v] = from /\ step' = [step EXCEPT ![v] = to]
      /\ lPc[v] \in {"idle", "critical"} /\ cPc[v] = "idle"
      /\ MayRun(v, ready, cpu) /\ cpu' = Occupy(v, cpu)
      /\ cPc' = [cPc EXCEPT ![v] = "found"]
      /\ \E s : cCall' = [cCall EXCEPT ![v] = [op |-> "create", wid |-> s, left |-> 0]]
      /\ cCall'[v].wid = c
      /\ UNCHANGED <<cUsed, locker>>
  BY DEF CreateCond, Step, Cond!FindSlot, Cond!Jump, Cond!MayRun, MayRun, Cond!Occupy, Occupy,
         Cond!table, Cond!semaphores
<1>2. /\ step \in [Tasks -> PipeSteps] /\ cPc \in [Tasks -> CondPoints] /\ cCall \in [Tasks -> WC!Calls]
  BY DEF TurnInv, PipeInv, PipeTypeOK, WC!IndInv, WC!TypeOK, WC!TasksOK
<1>3. step'[v] = to /\ cPc'[v] = "found"
  BY <1>1, <1>2
<1>4. TakesTurn(v)
  BY <1>1, <1>2 DEF TakesTurn, Left, locker
<1>5. WC!IndInv'
  <2>1. WC!FindSlot(v)
    BY CondIsWC DEF CreateCond
  <2>2. QED
    BY <2>1, CondAssumptions, NucleusAssumption, WC!FindSlotPreserves DEF TurnInv
<1>6. At(v) /\ Creating(v, c)
  BY <1>1, AtBefore DEF At
<1>7. LockAt(v)' /\ NobodyWaits' /\ (lUsed' /\ lPc'[v] = "idle" => lLocks' = 0)
  BY <1>1, <1>3, <1>6, LockSame DEF LockedSteps, CreateSteps
<1>8. open' /\ allocated' /\ seek' = 0 /\ offset' = 0
  BY <1>6 DEF Creating, pipe
<1>9. First(c)
  BY <1>1, <1>6 DEF Creating
<1>10. Creating(v, c + 1)'
  <2>1. c + 1 - 1 = c
    OBVIOUS
  <2>2. First(c)'
    BY <1>1, <1>9 DEF First
  <2>3. lUsed'
    BY <1>1, <1>6 DEF Creating, locker
  <2>4. QED
    BY <1>1, <1>3, <1>8, <2>1, <2>2, <2>3 DEF Creating
<1>11. OpenAt(v)'
  BY <1>1, <1>3, <1>6, <1>10
<1>12. CallAt(v)'
  BY <1>3, <1>10 DEF CallAt, WaitPoints, WakePoints, CreateSteps
<1>13. At(v)'
  BY <1>3, <1>7, <1>11, <1>12 DEF At, SizeAt, Sized, CreateSteps, OwnSteps
<1>14. QED
  BY <1>3, <1>4, <1>5, <1>8, <1>13, CreatorServes DEF Turned

\* The four conditions, and the wake that starts the writers
LEMMA CreateCondsTurn ==
  ASSUME Given, TurnInv, NEW v \in Tasks, CreateConds(v)
  PROVE  Turned(v)
<1> USE DEF CreateSteps
<1>1. UNCHANGED <<pipe, size>>
  BY DEF CreateConds
<1>2. CASE CreateCond(v, READY_READ, "c_cond0", "c_cond1")
  BY <1>1, <1>2, FindTurn DEF OpenAt, READY_READ
<1>3. CASE CreateCond(v, READY_WRITE, "c_cond1", "c_cond2")
  BY <1>1, <1>3, FindTurn DEF OpenAt, READY_WRITE
<1>4. CASE CreateCond(v, FULLY_FLUSHED, "c_cond2", "c_cond3")
  BY <1>1, <1>4, FindTurn DEF OpenAt, FULLY_FLUSHED
<1>5. CASE CreateCond(v, FULLY_EMPTY, "c_cond3", "c_wake")
  BY <1>1, <1>5, FindTurn DEF OpenAt, FULLY_EMPTY
<1>6. CASE WakeOne(v, READY_WRITE, "c_wake", "idle")
  <2>1. step[v] = "c_wake" /\ cPc[v] = "idle" /\ MayRun(v, ready, cpu)
    BY <1>6 DEF WakeOne, CallCond, Local, Step, Cond!Call, Cond!Jump, Cond!MayRun, MayRun
  <2>2. At(v) /\ Creating(v, 4) /\ First(4)
    BY <2>1, AtBefore DEF At, OpenAt, Creating
  <2>3. /\ cUsed[READY_WRITE] /\ Step(v, "c_wake", "idle")
        /\ Cond!Call(v, "one", READY_WRITE, "wake") /\ UNCHANGED locker
    BY <1>6, <2>2 DEF WakeOne, CallCond, First, READY_WRITE
  <2>4. /\ TakesTurn(v) /\ WC!IndInv' /\ step'[v] = "idle" /\ lPc[v] \in {"idle", "critical"}
        /\ cPc'[v] = "wake" /\ cCall'[v].op = "one" /\ cCall'[v].wid = READY_WRITE
        /\ UNCHANGED <<cUsed, cOwed, cClean, cQueue>>
    BY <1>1, <2>3, CondEnters DEF EntryOf, READY_WRITE
  <2>5. LockAt(v)' /\ NobodyWaits' /\ (lUsed' /\ lPc'[v] = "idle" => lLocks' = 0)
    BY <2>1, <2>2, <2>3, <2>4, LockSame DEF LockedSteps
  <2>6. UNCHANGED <<open, allocated, seek, offset, lUsed>>
    BY <1>1, <2>3 DEF pipe, locker
  <2>7. Whole' /\ open' /\ OpenAt(v)' /\ SizeAt(v)' /\ CallAt(v)'
    BY <2>2, <2>4, <2>6
       DEF Creating, Whole, First, OpenAt, SizeAt, Sized, CallAt, WaitPoints, WakePoints
  <2>8. At(v)'
    BY <2>5, <2>7 DEF At
  <2>9. Serves(v)
    BY <2>1, <2>2, <2>4, <2>6
       DEF Serves, Creating, ContentBy, WriterServed, ForWriter, ForReader, Wakes, Flushes, Enters,
           WakePoints
  <2>10. QED
    BY <2>4, <2>8, <2>9, ServesKeeps DEF Turned
<1>7. QED
  BY <1>2, <1>3, <1>4, <1>5, <1>6 DEF CreateConds

\* destroyWaitCond is called of each condition, which is there.
LEMMA DestroyTurn ==
  ASSUME Given, TurnInv, NEW v \in Tasks, NEW c \in 0..3, NEW from, NEW to,
         CallCond(v, "destroy", c, "delete", from, to), UNCHANGED <<pipe, size>>,
         OpenAt(v) /\ step[v] = from => Closing(v, c),
         step'[v] = to /\ Closing(v, c + 1)' => OpenAt(v)',
         from \in {"x_cond0", "x_cond1", "x_cond2", "x_cond3"},
         to \in {"x_cond1", "x_cond2", "x_cond3", "x_unlock"}
  PROVE  Turned(v)
<1>1. step[v] = from /\ cPc[v] = "idle" /\ MayRun(v, ready, cpu)
  BY DEF CallCond, Local, Step, Cond!Call, Cond!Jump, Cond!MayRun, MayRun
<1>2. At(v) /\ Closing(v, c) /\ AfterFirst(c)
  BY <1>1, AtBefore DEF At, Closing
<1>3. Step(v, from, to) /\ Cond!Call(v, "destroy", c, "delete") /\ UNCHANGED locker
  BY <1>2 DEF CallCond, AfterFirst
<1>4. /\ TakesTurn(v) /\ WC!IndInv' /\ step'[v] = to /\ lPc[v] \in {"idle", "critical"}
      /\ cPc'[v] = "delete" /\ cCall'[v].wid = c /\ UNCHANGED cUsed
  BY <1>3, CondEnters DEF EntryOf
<1>5. LockAt(v)' /\ NobodyWaits' /\ (lUsed' /\ lPc'[v] = "idle" => lLocks' = 0)
  BY <1>1, <1>2, <1>3, <1>4, LockSame DEF LockedSteps
<1>6. UNCHANGED <<open, allocated, lUsed>>
  BY <1>3 DEF pipe, locker
<1>7. Closing(v, c + 1)'
  <2>1. c + 1 - 1 = c /\ AfterFirst(c)'
    BY <1>2, <1>4 DEF AfterFirst
  <2>2. QED
    BY <1>1, <1>2, <1>4, <1>6, <2>1 DEF Closing
<1>8. OpenAt(v)' /\ SizeAt(v)' /\ CallAt(v)'
  BY <1>4, <1>7 DEF SizeAt, Sized, CallAt, WaitPoints, WakePoints
<1>9. At(v)'
  BY <1>4, <1>5, <1>8 DEF At, OwnSteps
<1>10. Serves(v)
  BY <1>2, <1>6 DEF Serves, Closing
<1>11. QED
  BY <1>4, <1>9, <1>10, ServesKeeps DEF Turned

\* The four conditions
LEMMA CloseCondsTurn ==
  ASSUME Given, TurnInv, NEW v \in Tasks, CloseConds(v)
  PROVE  Turned(v)
<1>1. UNCHANGED <<pipe, size>>
  BY DEF CloseConds
<1>2. CASE CallCond(v, "destroy", READY_READ, "delete", "x_cond0", "x_cond1")
  BY <1>1, <1>2, DestroyTurn DEF OpenAt, READY_READ
<1>3. CASE CallCond(v, "destroy", READY_WRITE, "delete", "x_cond1", "x_cond2")
  BY <1>1, <1>3, DestroyTurn DEF OpenAt, READY_WRITE
<1>4. CASE CallCond(v, "destroy", FULLY_FLUSHED, "delete", "x_cond2", "x_cond3")
  BY <1>1, <1>4, DestroyTurn DEF OpenAt, FULLY_FLUSHED
<1>5. CASE CallCond(v, "destroy", FULLY_EMPTY, "delete", "x_cond3", "x_unlock")
  BY <1>1, <1>5, DestroyTurn DEF OpenAt, FULLY_EMPTY
<1>6. QED
  BY <1>2, <1>3, <1>4, <1>5 DEF CloseConds

-----------------------------------------------------------------------------
\* The steps inside mutex.c: nobody ever waits for the mutex.
LEMMA InLockerTurn ==
  ASSUME Given, TurnInv, NEW v \in Tasks, Locker!Continue(v), UNCHANGED <<conds, pipe, step, size>>
  PROVE  Turned(v)
<1>1. MayRun(v, ready, cpu) /\ lPc[v] \notin {"idle", "critical"}
  BY DEF Locker!Continue, Locker!LockRead, Locker!TryRead, Locker!LockTake, Locker!LockCount,
         Locker!ObtainInvalid, Locker!Obtain, Locker!RefusedLoad, Locker!RefusedStore,
         Locker!UnlockRead, Locker!UnlockRelease, Locker!UnlockReleaseInvalid,
         Locker!UnlockReload, Locker!UnlockStore, Locker!Goto, Locker!MayRun, MayRun
<1>2. At(v) /\ lPc[v] \in {"lock", "take", "unlock", "drop"} /\ cPc[v] = "idle"
  <2>1. At(v)
    BY <1>1, AtBefore
  <2>2. QED
    BY <1>1, <2>1 DEF At, LockAt
<1>3. PICK to \in {"take", "critical", "drop", "idle"} :
        /\ lPc' = [lPc EXCEPT ![v] = to] /\ cpu' = Occupy(v, cpu)
        /\ UNCHANGED <<lUsed, lWaiters>>
        /\ lPc[v] = "lock" => to = "take" /\ lLocks' = 0 /\ lReg' = [lReg EXCEPT ![v] = 0]
        /\ lPc[v] = "take" => to = "critical" /\ lLocks' = lReg[v] + 1 /\ lReg' = [lReg EXCEPT ![v] = 0]
        /\ lPc[v] = "unlock" => to = "drop" /\ lLocks' = 1 /\ lReg' = [lReg EXCEPT ![v] = 1]
        /\ lPc[v] = "drop" => to = "idle" /\ lLocks' = lReg[v] - 1 /\ lReg' = [lReg EXCEPT ![v] = 0]
  <2>1. /\ lPc[v] = "lock" => lLocks = 0 /\ ~(lLocks > 0)
        /\ lPc[v] = "unlock" => lLocks = 1 /\ ~(lLocks > 1)
    BY <1>2 DEF At, LockAt
  <2>2. \/ Locker!LockRead(v) \/ Locker!LockTake(v) \/ Locker!UnlockRead(v) \/ Locker!UnlockStore(v)
    BY <1>2 DEF Locker!Continue, Locker!TryRead, Locker!LockCount, Locker!ObtainInvalid,
         Locker!Obtain, Locker!RefusedLoad, Locker!RefusedStore, Locker!UnlockRelease,
         Locker!UnlockReleaseInvalid, Locker!UnlockReload, Locker!Goto
  <2>3. QED
    BY <1>2, <2>1, <2>2
       DEF Locker!LockRead, Locker!LockTake, Locker!UnlockRead, Locker!UnlockStore, Locker!Load,
           Locker!Goto, Locker!mutexVars, Locker!Occupy, Occupy
<1>4. lPc'[v] = to /\ \A u \in Tasks \ {v} : lPc'[u] = lPc[u]
  BY <1>3 DEF TurnInv, PipeInv, PipeTypeOK
<1>5. UNCHANGED <<open, allocated, seek, offset, cUsed, cPc, cCall, step, size>>
  BY DEF pipe, conds
<1>6. TakesTurn(v)
  BY <1>1, <1>3, <1>4, <1>5 DEF TakesTurn, Left
<1>7. WC!IndInv'
  BY <1>1, <1>2, <1>3, CondsIdle DEF TurnInv
<1>8. LockAt(v)' /\ NobodyWaits' /\ (lUsed' /\ lPc'[v] = "idle" => lLocks' = 0)
  <2>1. /\ to = "drop" => lReg'[v] = 1
        /\ to = "take" => lReg'[v] = 0
        /\ NobodyWaits'
    BY <1>2, <1>3 DEF At, NobodyWaits
  <2>2. QED
    BY <1>2, <1>3, <1>4, <1>5, <2>1 DEF At, LockAt
<1>9. OpenAt(v)' /\ (step'[v] \notin OwnSteps => IF open' THEN Whole' ELSE Gone')
  BY <1>2, <1>3, <1>5 DEF At, OpenAt, Whole, Gone, First, AfterFirst, Creating, Closing
<1>10. CallAt(v)' /\ SizeAt(v)'
  BY <1>2, <1>5 DEF At, CallAt, SizeAt
<1>11. At(v)'
  BY <1>8, <1>9, <1>10 DEF At
<1>12. Serves(v)
  BY <1>5 DEF Serves, ContentBy, ForWriter, ForReader, WriterServed, ReaderServed, Wakes, Woken,
              Flushes, Enters, conds
<1>13. QED
  BY <1>6, <1>7, <1>11, <1>12, ServesKeeps DEF Turned

\* A client between calls goes to sleep.
LEMMA SleepTurn ==
  ASSUME Given, TurnInv, NEW v \in Tasks, Sleep(v)
  PROVE  Turned(v)
<1>1. /\ step[v] = "idle" /\ lPc[v] = "idle" /\ cPc[v] = "idle" /\ MayRun(v, ready, cpu)
      /\ cpu' = GiveUp(v, cpu) /\ UNCHANGED <<pipe, locker, conds, step, size>>
  BY DEF Sleep
<1>2. UNCHANGED <<open, allocated, seek, offset, lUsed, lLocks, lWaiters, lPc, lReg, cUsed,
                  cPc, cCall, step, size>>
  BY <1>1 DEF pipe, locker, conds
<1>3. TakesTurn(v)
  BY <1>1, <1>2 DEF TakesTurn, Left, Resting
<1>4. WC!IndInv'
  BY <1>1, CondsIdle DEF TurnInv
<1>5. At(v)
  BY <1>1, AtBefore
<1>6. At(v)'
  BY <1>1, <1>2, <1>5 DEF At, LockAt, OpenAt, CallAt, SizeAt, Whole, Gone, First, NobodyWaits, WaitPoints,
                      WakePoints, OwnSteps
<1>7. TurnsGoOn' /\ FlushExact'
  BY <1>1, <1>2, <1>3, ElsewhereServes DEF ForWriter, ForReader, Wakes, CreateSteps
<1>8. QED
  BY <1>3, <1>4, <1>6, <1>7 DEF Turned

-----------------------------------------------------------------------------
\* The steps inside waitcondition.c, and what WaitCondition's invariant says
\* of the task that takes them
CondTypes ==
  /\ cCall \in [Tasks -> WC!Calls] /\ cPc \in [Tasks -> CondPoints]
  /\ cOwed \in [0..3 -> Int] /\ cQueue \in [0..3 -> Seq(Tasks)] /\ cClean \in [0..3 -> BOOLEAN]
  /\ cUsed \in [0..3 -> BOOLEAN]

LEMMA CondAt ==
  ASSUME Given, TurnInv, NEW v \in Tasks, cPc[v] \notin {"idle", "suspended"}
  PROVE  /\ CondTypes /\ cCall[v].wid \in 0..3
         /\ cPc[v] # "refused" => WC!StepAt(v, cCall[v].wid)
         /\ WC!QueueAt(cCall[v].wid)
<1>1. WC!TypeOK /\ WC!QueuesExact /\ WC!TasksExact /\ WC!SlotsExact /\ cPc \in [Tasks -> CondPoints]
  BY DEF TurnInv, WC!IndInv, PipeInv, PipeTypeOK
<1>2. CondTypes
  BY <1>1 DEF WC!TypeOK, WC!TableOK, WC!TasksOK, WC!Wids, CondTypes
<1>3. cCall[v].wid \in WC!Wids /\ WC!Wids = 0..3
  BY <1>1 DEF WC!TasksExact, WC!TaskAt, WC!Wid, WC!Wids
<1>4. WC!OneLevel(cCall[v].wid)
  BY <1>3 DEF WC!OneLevel, Everybody, Levels, Given, EachOnePriority
<1>5. cPc[v] # "refused" => cPc[v] \in WC!Running
  BY <1>1 DEF CondPoints, WC!Running, WC!MidCall
<1>6. cPc[v] # "refused" => WC!StepAt(v, cCall[v].wid)
  BY <1>1, <1>3, <1>4, <1>5 DEF WC!SlotsExact, WC!SlotAt, WC!Wid
<1>7. QED
  BY <1>1, <1>2, <1>3, <1>6 DEF WC!QueuesExact

\* Task v goes on within a wait or a wake, or ends it, and may end the waits of others.
CondMove(v) ==
  /\ MayRun(v, ready, cpu)
  /\ cpu' = Occupy(v, cpu) \/ (cpu' = GiveUp(v, cpu) /\ cPc'[v] = "suspended")
  /\ cPc[v] \in (WaitPoints \ {"suspended"}) \cup WakePoints
  /\ cPc'[v] \in WaitPoints \cup WakePoints \cup {"idle"}
  /\ cPc'[v] # "idle" =>
       /\ cPc[v] \in WaitPoints <=> cPc'[v] \in WaitPoints
       /\ cCall'[v].op = cCall[v].op /\ cCall'[v].wid = cCall[v].wid
  /\ cPc'[v] = "clear" => cCall[v].op = "all"
  /\ \A u \in Tasks \ {v} :
       \/ cPc'[u] = cPc[u] /\ cCall'[u] = cCall[u]
       \/ cPc[u] = "suspended" /\ cPc'[u] = "idle"
  /\ \A c \in 0..3 : c # cCall[v].wid => cOwed'[c] = cOwed[c] /\ cQueue'[c] = cQueue[c]
  /\ UNCHANGED <<locker, pipe, step, size, cUsed, cClean>>

\* It loses no wake, and leaves nobody waiting who was to be flushed.
CondGives(v) ==
  LET s == cCall[v].wid
  IN  /\ Woken(v) => Woken(v)'
      /\ cPc'[v] \in {"wait", "count", "obtain"} => cPc[v] \in {"wait", "count", "obtain"}
      /\ cClean[s] =>
           /\ cOwed[s] > 0 /\ (cPc[v] \in WakePoints => cCall[v].op = "one") =>
                cOwed'[s] > 0 \/ (cPc[v] \in WaitPoints /\ Woken(v)')
           /\ cPc[v] \in {"wake", "post", "release"} /\ cCall[v].op = "one" =>
                \/ cPc'[v] \in {"wake", "post", "release"}
                \/ cOwed'[s] > 0
                \/ \E u \in Tasks \ {v} : cPc[u] = "suspended" /\ cCall[u].wid = s /\ cPc'[u] = "idle"
           /\ cPc[v] \in WakePoints /\ cCall[v].op = "all" /\ cPc'[v] = "idle" => cQueue'[s] = << >>
           /\ cQueue[s] = << >> => cQueue'[s] = << >> \/ cPc[v] = "obtain"

\* Such a step is part of the turn of v and leaves it where it was.
LEMMA MoveKeeps ==
  ASSUME Given, TurnInv, NEW v \in Tasks, CondMove(v)
  PROVE  TakesTurn(v) /\ At(v) /\ At(v)' /\ step[v] \in {"idle", "w_lock", "r_lock", "w_unlock", "r_wake", "r_unlock"}
<1>1. At(v) /\ MayRun(v, ready, cpu)
  BY AtBefore DEF CondMove
<1>2. /\ step[v] \in {"idle", "w_lock", "r_lock", "w_unlock", "r_wake", "r_unlock"}
      /\ cPc[v] \in WaitPoints => step[v] \in {"idle", "w_lock", "r_lock"}
  BY <1>1 DEF At, CallAt, CondMove
<1>3. lPc[v] \in {"idle", "critical"} /\ UNCHANGED <<locker, pipe, step, size, cUsed>>
  BY <1>1 DEF At, LockAt, CondMove, WaitPoints, WakePoints
<1>4. UNCHANGED <<lUsed, lPc, open, allocated, offset>>
  BY <1>3 DEF locker, pipe
<1>5. cPc'[v] = "suspended" => Resting(v)'
  BY <1>1, <1>2, <1>3, <1>4 DEF At, LockAt, CondMove, Resting, LockedSteps, WaitPoints, WakePoints
<1>6. TakesTurn(v)
  BY <1>1, <1>3, <1>4, <1>5 DEF TakesTurn, CondMove, Left
<1>7. LockAt(v)' /\ NobodyWaits' /\ (lUsed' /\ lPc'[v] = "idle" => lLocks' = 0)
  BY <1>1, <1>3, LockSame
<1>8. OpenAt(v)' /\ SizeAt(v)' /\ (step'[v] \notin OwnSteps => IF open' THEN Whole' ELSE Gone')
  BY <1>1, <1>2, <1>3, <1>4 DEF At, OpenAt, SizeAt, Sized, Whole, Gone, First, OwnSteps
<1>9. CallAt(v)'
  BY <1>1, <1>3 DEF At, CallAt, CondMove, WaitPoints, WakePoints
<1>10. QED
  BY <1>1, <1>2, <1>6, <1>7, <1>8, <1>9 DEF At

\* It keeps the wakes that are under way ...
LEMMA MoveServes ==
  ASSUME Given, TurnInv, NEW v \in Tasks, CondMove(v), CondGives(v)
  PROVE  Serves(v)
<1> USE DEF READY_READ, READY_WRITE, FULLY_FLUSHED, FULLY_EMPTY
<1>1. /\ TakesTurn(v) /\ CallAt(v) /\ cCall[v].wid \in 0..3
      /\ step[v] \in {"idle", "w_lock", "r_lock", "w_unlock", "r_wake", "r_unlock"}
  BY MoveKeeps, CondAt DEF At, CondMove, WaitPoints, WakePoints
<1>2. /\ UNCHANGED <<allocated, seek, offset, step, size, cClean>>
      /\ \A c \in 0..3 : c # cCall[v].wid => cOwed'[c] = cOwed[c] /\ cQueue'[c] = cQueue[c]
      /\ cPc'[v] # "idle" =>
           /\ cPc[v] \in WaitPoints <=> cPc'[v] \in WaitPoints
           /\ cCall'[v].op = cCall[v].op /\ cCall'[v].wid = cCall[v].wid
      /\ cPc[v] \in WaitPoints \cup WakePoints
  BY DEF CondMove, pipe
<1>3. ContentBy(v)' = ContentBy(v)
  BY <1>2 DEF ContentBy
<1>4. ASSUME NEW u \in Tasks \ {v}, cPc[u] = "suspended", cPc'[u] = "idle", PlainWatchers
      PROVE  /\ cCall[u].wid = READY_WRITE => ForWriter(u)'
             /\ cCall[u].wid = READY_READ => ForReader(u)'
  <2>1. CallAt(u)
    BY DEF TurnInv, CallsExact
  <2>2. QED
    BY <1>2, <1>4, <2>1 DEF CallAt, WaitPoints, ForWriter, ForReader, Woken
<1>5. ASSUME cClean[READY_WRITE], PlainWatchers
      PROVE  /\ cOwed[READY_WRITE] > 0 => cOwed'[READY_WRITE] > 0 \/ ForWriter(v)'
             /\ ForWriter(v) => WriterServed'
  <2>1. cOwed[READY_WRITE] > 0 => cOwed'[READY_WRITE] > 0 \/ ForWriter(v)'
    BY <1>1, <1>2, <1>5 DEF CondGives, CallAt, ForWriter
  <2>2. step[v] = "r_wake" \/ (step[v] = "w_lock" /\ Woken(v))
          => WriterServed'
    BY <1>2 DEF WriterServed, ForWriter, CondGives
  <2>3. ASSUME Wakes(v, READY_WRITE) PROVE WriterServed'
    <3>1. cPc[v] \in {"wake", "post", "release"} /\ cCall[v].op = "one" /\ cCall[v].wid = READY_WRITE
      BY <1>1, <2>3 DEF CallAt, Wakes, WakePoints
    <3>2. CASE cPc'[v] \in {"wake", "post", "release"}
      BY <1>2, <3>1, <3>2 DEF WriterServed, ForWriter, Wakes
    <3>3. CASE cOwed'[READY_WRITE] > 0
      BY <3>3 DEF WriterServed
    <3>4. CASE \E u \in Tasks \ {v} : cPc[u] = "suspended" /\ cCall[u].wid = READY_WRITE /\ cPc'[u] = "idle"
      BY <1>4, <1>5, <3>4 DEF WriterServed
    <3>5. QED
      BY <1>5, <3>1, <3>2, <3>3, <3>4 DEF CondGives
  <2>4. ForWriter(v) => \/ step[v] = "r_wake" \/ (step[v] = "w_lock" /\ Woken(v))
                       \/ Wakes(v, READY_WRITE)
    BY <1>1 DEF ForWriter, CreateSteps
  <2>5. QED
    BY <2>1, <2>2, <2>3, <2>4
<1>6. ASSUME cClean[READY_READ], PlainWatchers
      PROVE  /\ cOwed[READY_READ] > 0 => cOwed'[READY_READ] > 0 \/ ForReader(v)'
             /\ ForReader(v) => ReaderServed'
  <2>1. cOwed[READY_READ] > 0 => cOwed'[READY_READ] > 0 \/ ForReader(v)'
    BY <1>1, <1>2, <1>6 DEF CondGives, CallAt, ForReader
  <2>2. (step[v] = "w_unlock" /\ size[v] > 0) \/ (step[v] = "r_lock" /\ Woken(v))
          => ReaderServed'
    BY <1>2 DEF ReaderServed, ForReader, CondGives
  <2>3. ASSUME Wakes(v, READY_READ) PROVE ReaderServed'
    <3>1. cPc[v] \in {"wake", "post", "release"} /\ cCall[v].op = "one" /\ cCall[v].wid = READY_READ
      BY <1>1, <2>3 DEF CallAt, Wakes, WakePoints
    <3>2. CASE cPc'[v] \in {"wake", "post", "release"}
      BY <1>2, <3>1, <3>2 DEF ReaderServed, ForReader, Wakes
    <3>3. CASE cOwed'[READY_READ] > 0
      BY <3>3 DEF ReaderServed
    <3>4. CASE \E u \in Tasks \ {v} : cPc[u] = "suspended" /\ cCall[u].wid = READY_READ /\ cPc'[u] = "idle"
      BY <1>4, <1>6, <3>4 DEF ReaderServed
    <3>5. QED
      BY <1>6, <3>1, <3>2, <3>3, <3>4 DEF CondGives
  <2>4. ForReader(v) => \/ (step[v] = "w_unlock" /\ size[v] > 0) \/ (step[v] = "r_lock" /\ Woken(v))
                       \/ Wakes(v, READY_READ)
    BY <1>1 DEF ForReader
  <2>5. QED
    BY <2>1, <2>2, <2>3, <2>4
<1>7. ASSUME cClean[FULLY_FLUSHED]
      PROVE  /\ Flushes(v) => Flushes(v)' \/ cQueue'[FULLY_FLUSHED] = << >>
             /\ cQueue[FULLY_FLUSHED] = << >> => cQueue'[FULLY_FLUSHED] = << >> \/ Enters(v)
             /\ Enters(v)' => Enters(v) \/ ContentBy(v) < Size
  <2>1. Flushes(v) => Flushes(v)' \/ cQueue'[FULLY_FLUSHED] = << >>
    <3>1. Flushes(v) => cPc[v] \in WakePoints /\ cCall[v].op = "all" /\ cCall[v].wid = FULLY_FLUSHED
      BY <1>1 DEF Flushes, CallAt
    <3>2. cPc[v] \in WakePoints /\ cPc'[v] # "idle" => cPc'[v] \in WakePoints
      BY <1>2 DEF CondMove, WaitPoints, WakePoints
    <3>3. QED
      BY <1>2, <1>7, <3>1, <3>2 DEF Flushes, CondGives
  <2>2. cQueue[FULLY_FLUSHED] = << >> => cQueue'[FULLY_FLUSHED] = << >> \/ Enters(v)
    BY <1>1, <1>2, <1>7 DEF CondGives, Enters
  <2>3. Enters(v)' => Enters(v)
    BY <1>1, <1>2 DEF Enters, CondGives
  <2>4. QED
    BY <2>1, <2>2, <2>3
<1>8. QED
  BY <1>2, <1>3, <1>5, <1>6, <1>7 DEF Serves

\* ... and the invariant.
LEMMA MoveTurn ==
  ASSUME Given, TurnInv, NEW v \in Tasks, Cond!Continue(v), CondMove(v), CondGives(v)
  PROVE  Turned(v)
<1>1. WC!IndInv'
  BY CondIsWC, CondAssumptions, NucleusAssumption, WC!ContinuePreserves DEF TurnInv
<1>2. QED
  BY <1>1, MoveKeeps, MoveServes, ServesKeeps DEF Turned

\* A step within a call, or to its end, that concerns v alone
Within(v, from, to) ==
  /\ Cond!Jump(v, from, to)
  /\ \/ cCall' = cCall
     \/ to = "idle" /\ cCall' = [cCall EXCEPT ![v] = Cond!NoCall]
     \/ \E n : cCall' = [cCall EXCEPT ![v].left = n]
  /\ UNCHANGED <<locker, pipe, step, size, cUsed, cClean, cQueue>>
  /\ \A c \in 0..3 : c # cCall[v].wid => cOwed'[c] = cOwed[c]
  /\ from \in (WaitPoints \ {"suspended"}) \cup WakePoints
  /\ to \in (WaitPoints \ {"suspended"}) \cup WakePoints \cup {"idle"}
  /\ to # "idle" => (from \in WaitPoints <=> to \in WaitPoints)
  /\ to = "clear" => cCall[v].op = "all"

\* It is a step as above.
LEMMA WithinMoves ==
  ASSUME Given, TurnInv, NEW v \in Tasks, NEW from, NEW to, Within(v, from, to)
  PROVE  CondMove(v) /\ cPc[v] = from /\ cPc'[v] = to /\ CondTypes /\ cCall[v].wid \in 0..3
<1>1. /\ cPc[v] = from /\ MayRun(v, ready, cpu)
      /\ cPc' = [cPc EXCEPT ![v] = to] /\ cpu' = Occupy(v, cpu)
  BY DEF Within, Cond!Jump, Cond!MayRun, MayRun, Cond!Occupy, Occupy
<1>2. CondTypes /\ cCall[v].wid \in 0..3
  BY <1>1, CondAt DEF Within, WaitPoints, WakePoints
<1>3. cPc'[v] = to /\ \A u \in Tasks \ {v} : cPc'[u] = cPc[u] /\ cCall'[u] = cCall[u]
  BY <1>1, <1>2 DEF CondTypes, Within
<1>4. to # "idle" => cCall'[v].op = cCall[v].op /\ cCall'[v].wid = cCall[v].wid
  BY <1>2 DEF CondTypes, Within, WC!Calls
<1>5. QED
  BY <1>1, <1>2, <1>3, <1>4 DEF CondMove, Within

\* waitCondition: a wake that is taken off the counter or the semaphore is in
\* the hands of who takes it.
LEMMA WaitingTurn ==
  ASSUME Given, TurnInv, NEW v \in Tasks, UNCHANGED <<locker, pipe, step, size>>,
         \/ Cond!WaitRead(v) \/ Cond!WaitConsume(v) \/ Cond!WaitCount(v)
         \/ Cond!ObtainInvalid(v) \/ Cond!ObtainFree(v)
         \/ Cond!RefusedLoad(v) \/ Cond!RefusedStore(v)
  PROVE  Turned(v)
<1> USE DEF WaitPoints, WakePoints
<1> DEFINE Waits(from, to) ==
             /\ Cond!Goto(v, from, to) /\ UNCHANGED <<cUsed, cClean, cQueue>>
             /\ cOwed' = IF to = "consume" \/ (from = "obtain" /\ to = "idle")
                         THEN [cOwed EXCEPT ![cCall[v].wid] = @ - 1] ELSE cOwed
             /\ to \notin {"wait", "obtain", "suspended"} \/ from = "count"
             /\ to = "count" => from = "wait"
<1>1. PICK from \in WaitPoints \ {"suspended"}, to \in (WaitPoints \ {"suspended"}) \cup {"idle"} :
        Waits(from, to)
  <2> USE DEF Cond!table, Cond!semaphores, Cond!history, Cond!Wid, Cond!Store
  <2>1. CASE Cond!WaitRead(v)
    <3>1. CASE cWaiters[cCall[v].wid] < 0
      <4>1. Waits("wait", "consume")
        BY <2>1, <3>1 DEF Cond!WaitRead
      <4>2. QED
        BY <4>1
    <3>2. CASE ~(cWaiters[cCall[v].wid] < 0)
      <4>1. Waits("wait", "count")
        BY <2>1, <3>2 DEF Cond!WaitRead
      <4>2. QED
        BY <4>1
    <3>3. QED
      BY <3>1, <3>2
  <2>2. Cond!WaitConsume(v) => Waits("consume", "idle")
    BY DEF Cond!WaitConsume
  <2>3. Cond!WaitCount(v) => Waits("count", "obtain")
    BY DEF Cond!WaitCount
  <2>4. Cond!ObtainInvalid(v) => Waits("obtain", "refused")
    BY DEF Cond!ObtainInvalid
  <2>5. Cond!ObtainFree(v) => Waits("obtain", "idle")
    BY DEF Cond!ObtainFree
  <2>6. Cond!RefusedLoad(v) => Waits("refused", "give_up")
    BY DEF Cond!RefusedLoad
  <2>7. Cond!RefusedStore(v) => Waits("give_up", "idle")
    BY DEF Cond!RefusedStore
  <2> HIDE DEF Waits
  <2>8. QED
    BY <2>1, <2>2, <2>3, <2>4, <2>5, <2>6, <2>7
<1>2. Cond!Continue(v)
  BY DEF Cond!Continue
<1>3. \A c \in 0..3 : c # cCall[v].wid => cOwed'[c] = cOwed[c]
  BY <1>1 DEF TurnInv, WC!IndInv, WC!TypeOK, WC!TableOK, WC!Wids
<1>4. Within(v, from, to)
  BY <1>1, <1>3 DEF Within, Cond!Goto
<1>5. CondMove(v) /\ cPc[v] = from /\ cPc'[v] = to /\ CondTypes /\ cCall[v].wid \in 0..3
  BY <1>4, WithinMoves
<1>6. CondGives(v)
  BY <1>1, <1>5 DEF CondGives, Woken
<1>7. QED
  BY <1>2, <1>5, <1>6, MoveTurn

\* It waits for the semaphore: no wake was stored.
LEMMA SuspendTurn ==
  ASSUME Given, TurnInv, NEW v \in Tasks, UNCHANGED <<locker, pipe, step, size>>,
         Cond!ObtainSuspend(v)
  PROVE  Turned(v)
<1>1. /\ cPc[v] = "obtain" /\ MayRun(v, ready, cpu)
      /\ cPc' = [cPc EXCEPT ![v] = "suspended"] /\ cpu' = GiveUp(v, cpu)
      /\ \E line : cQueue' = [cQueue EXCEPT ![cCall[v].wid] = line]
      /\ UNCHANGED <<cUsed, cClean, cOwed, cCall>>
  BY DEF Cond!ObtainSuspend, Cond!MayRun, MayRun, Cond!GiveUp, GiveUp, Cond!table, Cond!history,
         Cond!Wid
<1>2. CondTypes /\ cCall[v].wid \in 0..3
  BY <1>1, CondAt
<1>3. cPc'[v] = "suspended" /\ \A u \in Tasks \ {v} : cPc'[u] = cPc[u]
  BY <1>1, <1>2 DEF CondTypes
<1>4. \A c \in 0..3 : c # cCall[v].wid => cQueue'[c] = cQueue[c]
  BY <1>1, <1>2 DEF CondTypes
<1>5. CondMove(v) /\ CondGives(v)
  BY <1>1, <1>2, <1>3, <1>4 DEF CondMove, CondGives, WaitPoints, WakePoints, Woken
<1>6. Cond!Continue(v)
  BY DEF Cond!Continue
<1>7. QED
  BY <1>5, <1>6, MoveTurn

\* wakeOneWaitCond and wakeAllWaitConds: where the counter is exact, one stores
\* a wake or resumes somebody, and all leaves nobody waiting.
LEMMA WakingTurn ==
  ASSUME Given, TurnInv, NEW v \in Tasks, UNCHANGED <<locker, pipe, step, size>>,
         \/ Cond!WakeNobody(v) \/ Cond!WakeSome(v) \/ Cond!PostWake(v) \/ Cond!ClearWakes(v)
         \/ Cond!ReleaseFree(v) \/ Cond!ReleaseInvalid(v)
         \/ Cond!ReleaseReload(v) \/ Cond!ReleaseSettle(v)
  PROVE  Turned(v)
<1> USE DEF WaitPoints, WakePoints
<1> DEFINE s == cCall[v].wid
<1>1. cPc[v] \in WakePoints /\ MayRun(v, ready, cpu)
  BY DEF Cond!WakeNobody, Cond!WakeSome, Cond!PostWake, Cond!ClearWakes, Cond!ReleaseFree,
         Cond!ReleaseInvalid, Cond!ReleaseReload, Cond!ReleaseSettle, Cond!Released, Cond!Goto,
         Cond!Jump, Cond!MayRun, MayRun
<1>2. CondTypes /\ s \in 0..3 /\ WC!StepAt(v, s) /\ CallAt(v)
  BY <1>1, CondAt, AtBefore DEF At
<1>3. cLive[s] /\ cCall[v].op \in {"one", "all"} /\ (cPc[v] = "clear" => cCall[v].op = "all")
  BY <1>1, <1>2 DEF WC!StepAt, WC!Inside, WC!WakePoints, CallAt
<1>4. cClean[s] => WC!PointAt(v, s)
  BY <1>2 DEF WC!StepAt
<1>5. Cond!Continue(v)
  BY DEF Cond!Continue
<1> DEFINE Moves(from, to) ==
             /\ Cond!Jump(v, from, to)
             /\ \/ cCall' = cCall
                \/ to = "idle" /\ cCall' = [cCall EXCEPT ![v] = Cond!NoCall]
                \/ \E n : cCall' = [cCall EXCEPT ![v].left = n]
             /\ UNCHANGED <<cUsed, cClean, cQueue>>
             /\ cOwed' = cOwed
                \/ \E n : cOwed' = [cOwed EXCEPT ![s] = n]
             /\ to = "clear" => cCall[v].op = "all"
             /\ cClean[s] =>
                  /\ cOwed[s] > 0 /\ cCall[v].op = "one" => cOwed'[s] > 0
                  /\ from \in {"wake", "post", "release"} /\ cCall[v].op = "one" =>
                       to \in {"wake", "post", "release"} \/ cOwed'[s] > 0
                  /\ cCall[v].op = "all" /\ to = "idle" => cQueue[s] = << >>
<1>6. \E from \in WakePoints, to \in WakePoints \cup {"idle"} : Moves(from, to)
  <2> USE DEF Cond!table, Cond!semaphores, Cond!history, Cond!Wid, Cond!Op, Cond!Store, Cond!Goto
  <2>1. CASE Cond!WakeNobody(v)
    <3>1. CASE cCall[v].op = "one"
      <4>1. Moves("wake", "post")
        BY <2>1, <3>1 DEF Cond!WakeNobody
      <4>2. QED
        BY <4>1
    <3>2. CASE cCall[v].op = "all"
      <4>1. Moves("wake", "clear")
        BY <2>1, <3>2 DEF Cond!WakeNobody
      <4>2. QED
        BY <4>1
    <3>3. QED
      BY <1>3, <3>1, <3>2
  <2>2. CASE Cond!WakeSome(v)
    <3>1. Moves("wake", "release")
      BY <2>2 DEF Cond!WakeSome
    <3>2. QED
      BY <3>1
  <2>3. CASE Cond!PostWake(v)
    <3>1. cPc[v] = "post" /\ cOwed' = [cOwed EXCEPT ![s] = @ + 1]
      BY <2>3 DEF Cond!PostWake, Cond!Jump
    <3>2. cOwed'[s] = cOwed[s] + 1 /\ cOwed[s] \in Int
      BY <1>2, <3>1 DEF CondTypes
    <3>3. cClean[s] => cQueue[s] = << >> /\ cOwed[s] >= 0
      BY <1>4, <3>1 DEF WC!PointAt, WC!Balance
    <3>4. cClean[s] => cOwed'[s] > 0 /\ cQueue[s] = << >>
      BY <3>2, <3>3
    <3>5. /\ Cond!Jump(v, "post", "idle") /\ cCall' = [cCall EXCEPT ![v] = Cond!NoCall]
          /\ UNCHANGED <<cUsed, cClean, cQueue>>
      BY <2>3 DEF Cond!PostWake
    <3>6. Moves("post", "idle")
      BY <3>1, <3>4, <3>5
    <3>7. QED
      BY <3>6
  <2>4. CASE Cond!ClearWakes(v)
    <3>1. cPc[v] = "clear"
      BY <2>4 DEF Cond!ClearWakes, Cond!Jump
    <3>2. cClean[s] => cQueue[s] = << >>
      BY <1>4, <3>1 DEF WC!PointAt
    <3>3. Moves("clear", "idle")
      BY <1>3, <2>4, <3>1, <3>2 DEF Cond!ClearWakes
    <3>4. QED
      BY <3>3
  <2>5. CASE Cond!ReleaseFree(v)
    <3>1. cPc[v] = "release" /\ cQueue[s] = << >>
      BY <2>5 DEF Cond!ReleaseFree, Cond!Jump
    <3>2. ~cClean[s]
      BY <1>4, <3>1 DEF WC!PointAt
    <3>3. Moves("release", "reload")
      BY <2>5, <3>2 DEF Cond!ReleaseFree
    <3>4. QED
      BY <3>3
  <2>6. CASE Cond!ReleaseInvalid(v)
    BY <1>3, <2>6 DEF Cond!ReleaseInvalid
  <2>7. CASE Cond!ReleaseReload(v)
    <3>1. Moves("reload", "settle")
      BY <2>7 DEF Cond!ReleaseReload
    <3>2. QED
      BY <3>1
  <2>8. CASE Cond!ReleaseSettle(v)
    <3>1. cPc[v] = "settle" /\ UNCHANGED <<cUsed, cClean, cQueue, cOwed>>
      BY <2>8 DEF Cond!ReleaseSettle, Cond!Released, Cond!Jump
    <3>2. CASE Cond!Jump(v, "settle", "release") /\ \E n : cCall' = [cCall EXCEPT ![v].left = n]
      <4>1. Moves("settle", "release")
        BY <3>1, <3>2
      <4>2. QED
        BY <4>1
    <3>3. CASE cCall[v].left <= 1 /\ Cond!Goto(v, "settle", "idle")
      <4>1. cClean[s] /\ cCall[v].op = "all" => cCall[v].left = Len(cQueue[s]) + 1
        BY <1>4, <3>1 DEF WC!PointAt, WC!Op
      <4>2. cClean[s] /\ cCall[v].op = "all" => cQueue[s] = << >>
        <5>1. cQueue[s] \in Seq(Tasks) /\ Len(cQueue[s]) \in Nat
          BY <1>2 DEF CondTypes
        <5>2. Len(cQueue[s]) = 0 => cQueue[s] = << >>
          BY <5>1
        <5>3. QED
          BY <3>3, <4>1, <5>1, <5>2
      <4>3. Cond!Jump(v, "settle", "idle") /\ cCall' = [cCall EXCEPT ![v] = Cond!NoCall]
        BY <3>3
      <4>4. Moves("settle", "idle")
        BY <3>1, <4>2, <4>3
      <4>5. QED
        BY <4>4
    <3>4. Cond!Released(v, "settle") /\ cCall[v].op # "reset"
      BY <1>3, <2>8 DEF Cond!ReleaseSettle
    <3> HIDE DEF Moves
    <3>5. QED
      BY <3>2, <3>3, <3>4 DEF Cond!Released
  <2>9. QED
    BY <2>1, <2>2, <2>3, <2>4, <2>5, <2>6, <2>7, <2>8
<1>7. PICK from \in WakePoints, to \in WakePoints \cup {"idle"} : Moves(from, to)
  BY <1>6
<1>8. \A c \in 0..3 : c # s => cOwed'[c] = cOwed[c]
  BY <1>2, <1>7 DEF CondTypes
<1>9. Within(v, from, to)
  BY <1>7, <1>8 DEF Within
<1>10. CondMove(v) /\ cPc[v] = from /\ cPc'[v] = to
  BY <1>9, WithinMoves
<1>11. CondGives(v)
  BY <1>1, <1>7, <1>10 DEF CondGives, Woken
<1>12. QED
  BY <1>5, <1>10, <1>11, MoveTurn

\* A release hands its wake to the first who waits.
LEMMA ReleaseTurn ==
  ASSUME Given, TurnInv, NEW v \in Tasks, UNCHANGED <<locker, pipe, step, size>>,
         Cond!ReleaseWaiter(v)
  PROVE  Turned(v)
<1> DEFINE s == cCall[v].wid
           h == Head(cQueue[s])
<1>1. /\ cPc[v] = "release" /\ MayRun(v, ready, cpu) /\ cQueue[s] # << >>
      /\ cPc' = [cPc EXCEPT ![v] = "reload", ![h] = "idle"] /\ cpu' = Occupy(v, cpu)
      /\ cCall' = [cCall EXCEPT ![h] = Cond!NoCall]
      /\ cQueue' = [cQueue EXCEPT ![s] = Tail(cQueue[s])]
      /\ UNCHANGED <<cUsed, cClean, cOwed>>
  BY DEF Cond!ReleaseWaiter, Cond!MayRun, MayRun, Cond!Occupy, Occupy, Cond!table, Cond!history,
         Cond!Wid
<1>2. CondTypes /\ s \in 0..3 /\ WC!QueueAt(s)
  BY <1>1, CondAt
<1>3. h \in Tasks \ {v} /\ cPc[h] = "suspended" /\ cCall[h].wid = s
  <2>1. cQueue[s] \in Seq(Tasks)
    BY <1>2 DEF CondTypes
  <2>2. Len(cQueue[s]) >= 1 /\ h = cQueue[s][1] /\ h \in Tasks
    BY <1>1, <2>1
  <2>3. 1 \in 1..Len(cQueue[s])
    BY <2>1, <2>2
  <2>4. cPc[h] = "suspended" /\ cCall[h].wid = s
    BY <1>2, <2>2, <2>3 DEF WC!QueueAt, WC!Wid
  <2>5. QED
    BY <1>1, <2>2, <2>4
<1>4. /\ cPc'[v] = "reload" /\ cPc'[h] = "idle" /\ cCall'[v] = cCall[v]
      /\ \A u \in Tasks \ {v, h} : cPc'[u] = cPc[u] /\ cCall'[u] = cCall[u]
      /\ \A c \in 0..3 : c # s => cQueue'[c] = cQueue[c]
  BY <1>1, <1>2, <1>3 DEF CondTypes
<1>5. CondMove(v)
  BY <1>1, <1>2, <1>3, <1>4 DEF CondMove, WaitPoints, WakePoints
<1>6. CondGives(v)
  BY <1>1, <1>2, <1>3, <1>4 DEF CondGives, WaitPoints, WakePoints, Woken
<1>7. Cond!Continue(v)
  BY DEF Cond!Continue
<1>8. QED
  BY <1>5, <1>6, <1>7, MoveTurn

\* createWaitCond claims the slot it has found and creates its semaphore.
LEMMA ClaimTurn ==
  ASSUME Given, TurnInv, NEW v \in Tasks, UNCHANGED <<locker, pipe, step, size>>,
         Cond!ClaimSlot(v) \/ Cond!MakeSemaphore(v) \/ Cond!MakeFails(v)
  PROVE  Turned(v)
<1> DEFINE s == cCall[v].wid
<1>1. cPc[v] \in {"found", "make"} /\ MayRun(v, ready, cpu)
  BY DEF Cond!ClaimSlot, Cond!MakeSemaphore, Cond!MakeFails, Cond!Goto, Cond!Jump, Cond!MayRun, MayRun
<1>2. CondTypes /\ s \in 0..3 /\ WC!StepAt(v, s)
  BY <1>1, CondAt
<1>3. At(v) /\ step[v] \in {"c_cond1", "c_cond2", "c_cond3", "c_wake"} /\ lPc[v] \in {"idle", "critical"}
  <2>1. At(v)
    BY <1>1, AtBefore
  <2>2. QED
    BY <1>1, <2>1 DEF At, CallAt, LockAt
<1>4. PICK to \in {"make", "idle"} :
        /\ cPc' = [cPc EXCEPT ![v] = to] /\ cpu' = Occupy(v, cpu)
        /\ cPc[v] = "found" => to = "make" /\ cUsed' = [cUsed EXCEPT ![s] = TRUE]
        /\ cPc[v] = "make" => to = "idle" /\ cUsed' = cUsed
        /\ cCall' = IF to = "idle" THEN [cCall EXCEPT ![v] = Cond!NoCall] ELSE cCall
  <2>1. CASE Cond!ClaimSlot(v)
    BY <2>1 DEF Cond!ClaimSlot, Cond!Goto, Cond!Jump, Cond!Occupy, Occupy, Cond!Wid
  <2>2. CASE Cond!MakeSemaphore(v)
    BY <2>2 DEF Cond!MakeSemaphore, Cond!Goto, Cond!Jump, Cond!Occupy, Occupy, Cond!table
  <2>3. ~Cond!MakeFails(v)
    BY <1>2 DEF Cond!MakeFails, Cond!Goto, Cond!Jump, WC!StepAt, Cond!Wid
  <2>4. QED
    BY <2>1, <2>2, <2>3
<1>5. cPc'[v] = to /\ \A u \in Tasks \ {v} : cPc'[u] = cPc[u] /\ cCall'[u] = cCall[u]
  BY <1>2, <1>4 DEF CondTypes
<1>6. TakesTurn(v)
  BY <1>1, <1>4, <1>5 DEF TakesTurn, Left, locker
<1>7. WC!IndInv'
  <2>1. Cond!Continue(v)
    BY DEF Cond!Continue
  <2>2. QED
    BY <2>1, CondIsWC, CondAssumptions, NucleusAssumption, WC!ContinuePreserves DEF TurnInv
<1>8. PICK n \in 1..4 : Creating(v, n) /\ (Creating(v, n)' => OpenAt(v)')
  BY <1>3 DEF At, OpenAt
<1>9. UNCHANGED <<open, allocated, seek, offset, lUsed>>
  BY DEF pipe, locker
<1>10. Creating(v, n)'
  <2>1. First(n)'
    <3>1. CASE cPc[v] = "found"
      <4>1. s = n - 1 /\ First(n - 1)
        BY <1>8, <3>1 DEF Creating
      <4>2. QED
        BY <1>2, <1>4, <3>1, <4>1 DEF First, CondTypes
    <3>2. CASE cPc[v] = "make"
      BY <1>4, <1>8, <3>2 DEF Creating, First
    <3>3. QED
      BY <1>1, <3>1, <3>2
  <2>2. QED
    BY <1>5, <1>8, <1>9, <2>1 DEF Creating
<1>11. LockAt(v)' /\ NobodyWaits' /\ (lUsed' /\ lPc'[v] = "idle" => lLocks' = 0)
  BY <1>3, LockSame
<1>12. SizeAt(v)' /\ CallAt(v)' /\ step'[v] \in OwnSteps
  BY <1>3, <1>5 DEF SizeAt, Sized, CallAt, WaitPoints, WakePoints, OwnSteps
<1>13. At(v)'
  BY <1>8, <1>10, <1>11, <1>12 DEF At
<1>14. TurnsGoOn' /\ FlushExact'
  BY <1>3, <1>6, <1>8, <1>9, CreatorServes DEF Creating, CreateSteps
<1>15. QED
  BY <1>6, <1>7, <1>13, <1>14 DEF Turned

\* destroyWaitCond deletes the semaphore, whose waiters are dismissed, and
\* leaves the slot.
LEMMA VacateTurn ==
  ASSUME Given, TurnInv, NEW v \in Tasks, UNCHANGED <<locker, pipe, step, size>>,
         Cond!DeleteSemaphore(v) \/ Cond!VacateSlot(v)
  PROVE  Turned(v)
<1> DEFINE s == cCall[v].wid
<1>1. cPc[v] \in {"delete", "vacate"} /\ MayRun(v, ready, cpu)
  BY DEF Cond!DeleteSemaphore, Cond!VacateSlot, Cond!Goto, Cond!Jump, Cond!MayRun, MayRun
<1>2. CondTypes /\ s \in 0..3
  BY <1>1, CondAt
<1>3. At(v) /\ step[v] \in {"x_cond1", "x_cond2", "x_cond3", "x_unlock"} /\ lPc[v] \in {"idle", "critical"}
  <2>1. At(v)
    BY <1>1, AtBefore
  <2>2. QED
    BY <1>1, <2>1 DEF At, CallAt, LockAt
<1>4. /\ cpu' = Occupy(v, cpu)
      /\ cPc[v] = "delete" => cPc'[v] = "vacate" /\ cUsed' = cUsed /\ cCall' = cCall
      /\ cPc[v] = "vacate" => cPc'[v] = "idle" /\ cUsed' = [cUsed EXCEPT ![s] = FALSE]
      /\ \A u \in Tasks \ {v} : Left(u)
  <2>1. CASE Cond!DeleteSemaphore(v)
    BY <2>1 DEF Cond!DeleteSemaphore, Cond!Occupy, Occupy, Cond!table, Left
  <2>2. CASE Cond!VacateSlot(v)
    <3>1. /\ cPc[v] = "vacate" /\ cPc' = [cPc EXCEPT ![v] = "idle"] /\ cpu' = Occupy(v, cpu)
          /\ cUsed' = [cUsed EXCEPT ![s] = FALSE] /\ cCall' = [cCall EXCEPT ![v] = Cond!NoCall]
      BY <2>2 DEF Cond!VacateSlot, Cond!Goto, Cond!Jump, Cond!Occupy, Occupy, Cond!Wid
    <3>2. QED
      BY <1>2, <3>1 DEF CondTypes, Left
  <2>3. QED
    BY <2>1, <2>2
<1>5. TakesTurn(v)
  BY <1>1, <1>4 DEF TakesTurn, locker
<1>6. WC!IndInv'
  <2>1. Cond!Continue(v)
    BY DEF Cond!Continue
  <2>2. QED
    BY <2>1, CondIsWC, CondAssumptions, NucleusAssumption, WC!ContinuePreserves DEF TurnInv
<1>7. PICK n \in 1..4 : Closing(v, n) /\ (Closing(v, n)' => OpenAt(v)')
  BY <1>3 DEF At, OpenAt
<1>8. UNCHANGED <<open, allocated, lUsed>>
  BY DEF pipe, locker
<1>9. Closing(v, n)'
  <2>1. s = n - 1 /\ AfterFirst(n - 1)
    BY <1>1, <1>7 DEF Closing
  <2>2. CASE cPc[v] = "delete"
    BY <1>4, <1>7, <1>8, <2>1, <2>2 DEF Closing, AfterFirst
  <2>3. CASE cPc[v] = "vacate"
    <3>1. AfterFirst(n)'
      BY <1>2, <1>4, <2>1, <2>3 DEF AfterFirst, CondTypes
    <3>2. QED
      BY <1>4, <1>7, <1>8, <2>3, <3>1 DEF Closing
  <2>4. QED
    BY <1>1, <2>2, <2>3
<1>10. LockAt(v)' /\ NobodyWaits' /\ (lUsed' /\ lPc'[v] = "idle" => lLocks' = 0)
  BY <1>3, LockSame
<1>11. SizeAt(v)' /\ CallAt(v)' /\ step'[v] \in OwnSteps
  BY <1>1, <1>3, <1>4 DEF SizeAt, Sized, CallAt, WaitPoints, WakePoints, OwnSteps
<1>12. At(v)'
  BY <1>7, <1>9, <1>10, <1>11 DEF At
<1>13. Serves(v)
  BY <1>7, <1>8 DEF Serves, Closing
<1>14. QED
  BY <1>5, <1>6, <1>12, <1>13, ServesKeeps DEF Turned

\* The steps inside waitcondition.c together
LEMMA InCondTurn ==
  ASSUME Given, TurnInv, NEW v \in Tasks, UNCHANGED <<locker, pipe, step, size>>, Cond!Continue(v)
  PROVE  Turned(v)
<1>1. \/ Cond!ClaimSlot(v) \/ Cond!MakeSemaphore(v) \/ Cond!MakeFails(v)
      \/ Cond!DeleteSemaphore(v) \/ Cond!VacateSlot(v)
      \/ Cond!WaitRead(v) \/ Cond!WaitConsume(v) \/ Cond!WaitCount(v)
      \/ Cond!ObtainInvalid(v) \/ Cond!ObtainFree(v) \/ Cond!ObtainSuspend(v)
      \/ Cond!RefusedLoad(v) \/ Cond!RefusedStore(v)
      \/ Cond!WakeNobody(v) \/ Cond!WakeSome(v) \/ Cond!PostWake(v) \/ Cond!ClearWakes(v)
      \/ Cond!ReleaseWaiter(v) \/ Cond!ReleaseFree(v) \/ Cond!ReleaseInvalid(v)
      \/ Cond!ReleaseReload(v) \/ Cond!ReleaseSettle(v)
  BY DEF Cond!Continue
<1>2. QED
  BY <1>1, ClaimTurn, VacateTurn, WaitingTurn, SuspendTurn, WakingTurn, ReleaseTurn

-----------------------------------------------------------------------------
\* At the beginning there is no pipe.
LEMMA CondsBegin ==
  ASSUME Given, PipeInit
  PROVE  WC!IndInv
<1>1. /\ cUsed = [s \in 0..3 |-> FALSE] /\ cLive = [s \in 0..3 |-> FALSE]
      /\ cWaiters = [s \in 0..3 |-> 0] /\ cOwed = [s \in 0..3 |-> 0] /\ cCount = [s \in 0..3 |-> 0]
      /\ cClean = [s \in 0..3 |-> TRUE] /\ cQueue = [s \in 0..3 |-> << >>]
      /\ cCall = [t \in Tasks |-> Cond!NoCall] /\ cPc = [t \in Tasks |-> "idle"]
      /\ cReg = [t \in Tasks |-> 0] /\ cpu = [p \in Levels |-> NoTask]
      /\ WC!Wids = 0..3
  BY DEF PipeInit, Cond!Start, Cond!Wids, WC!Wids, Cond!IdleCpu, Cond!Levels, Levels
<1>2. \A s \in 0..3 : IsFiniteSet(WC!Priorities(s))
  <2> SUFFICES ASSUME NEW s \in 0..3 PROVE IsFiniteSet(WC!Priorities(s))
    OBVIOUS
  <2>1. WC!Priorities(s) = {u[1] : u \in Everybody}
    BY DEF WC!Priorities
  <2>2. ASSUME NEW p \in Levels PROVE p \in {u[1] : u \in Everybody}
    <3>1. <<p, TRUE>> \in Everybody /\ <<p, TRUE>>[1] = p
      BY DEF Everybody
    <3>2. QED
      BY <3>1
  <2>3. \A p \in {u[1] : u \in Everybody} : p \in Levels
    BY DEF Everybody
  <2>4. WC!Priorities(s) = Levels
    BY <2>1, <2>2, <2>3
  <2>5. CASE Tasks = {}
    BY <2>4, <2>5, FS_EmptySet DEF Levels
  <2>6. CASE Tasks # {}
    <3>1. PICK t \in Tasks : TRUE
      BY <2>6
    <3>2. Levels = {Prio[t]}
      BY <3>1 DEF Levels, Given, EachOnePriority
    <3>3. IsFiniteSet({Prio[t]})
      BY FS_Singleton, Zenon
    <3>4. QED
      BY <2>4, <3>2, <3>3
  <2>7. QED
    BY <2>5, <2>6
<1>3. WC!TypeOK
  <2>1. << >> \in Seq(Tasks) /\ Cond!NoCall \in WC!Calls
    BY DEF Cond!NoCall, WC!Calls
  <2>2. [s \in 0..3 |-> Everybody] \in [0..3 -> SUBSET (Nat \X BOOLEAN)]
    BY DEF Everybody, Levels, Given, NucleusAssumption
  <2>3. WC!TableOK
    <3>1. \A s \in 0..3 : WC!IsFiniteSet(WC!Priorities(s))
      BY <1>2, Zenon DEF IsFiniteSet, WC!IsFiniteSet
    <3>2. QED
      BY <1>1, <2>1, <2>2, <3>1 DEF WC!TableOK
  <2>4. WC!TasksOK
    BY <1>1, <2>1 DEF WC!TasksOK, WC!Points, WC!Levels, Levels
  <2>5. QED
    BY <2>3, <2>4 DEF WC!TypeOK
<1>4. WC!QueuesExact
  <2>1. ASSUME NEW s \in 0..3 PROVE WC!QueueAt(s)
    <3>1. cQueue[s] = << >> /\ cCount[s] = 0
      BY <1>1
    <3>2. WC!Ordered(<< >>) /\ WC!Distinct(<< >>) /\ Len(<< >>) = 0
      BY DEF WC!Ordered, WC!Distinct
    <3>3. \A i \in 1..Len(cQueue[s]) : FALSE
      BY <3>1, <3>2
    <3>4. QED
      BY <3>1, <3>2, <3>3 DEF WC!QueueAt
  <2>2. QED
    BY <1>1, <2>1 DEF WC!QueuesExact
<1>5. WC!TasksExact
  BY <1>1 DEF WC!TasksExact, WC!TaskAt, WC!Running, WC!MidCall
<1>6. WC!SlotsExact
  BY <1>1 DEF WC!SlotsExact, WC!SlotAt, WC!InUse, WC!RestAt, WC!LeftAt, WC!Running, WC!MidCall
<1>7. QED
  BY <1>3, <1>4, <1>5, <1>6 DEF WC!IndInv

\* All tasks rest.
LEMMA TurnBegins ==
  ASSUME Given, PipeInit
  PROVE  TurnInv
<1>1. PipeInv /\ WC!IndInv
  BY PipeInitHolds, CondsBegin DEF Given
<1>2. /\ ~open /\ ~allocated /\ ~lUsed /\ lLocks = 0 /\ lWaiters = << >>
      /\ lReg = [t \in Tasks |-> 0] /\ lPc = [t \in Tasks |-> "idle"]
      /\ step = [t \in Tasks |-> "idle"] /\ cPc = [t \in Tasks |-> "idle"]
      /\ cUsed = [s \in 0..3 |-> FALSE]
  BY DEF PipeInit, Locker!Init, Cond!Start, Cond!Wids
<1>3. \A t \in Tasks : Resting(t)
  BY <1>2 DEF Resting
<1>4. BusyRuns /\ LockExact /\ OpenExact
  BY <1>2, <1>3, RestsOutside DEF BusyRuns, LockExact, NobodyWaits, OpenExact, Gone, First
<1>5. CallsExact /\ SizesExact
  BY <1>2 DEF CallsExact, CallAt, WaitPoints, WakePoints, SizesExact, SizeAt, Sized
<1>6. TurnsGoOn /\ FlushExact
  BY <1>2 DEF TurnsGoOn, FlushExact
<1>7. QED
  BY <1>1, <1>4, <1>5, <1>6 DEF TurnInv

\* Nothing changes, but that a sleep may end.
LEMMA TurnIdles ==
  ASSUME Given, TurnInv, UNCHANGED <<pipe, locker, conds, step, size, copy, cpu, stream>>
  PROVE  TurnInv'
<1>1. UNCHANGED <<open, allocated, memory, offset, seek, lUsed, lLocks, lWaiters, lPc, lReg, cUsed, cOwed,
                  cClean, cQueue, cCall, cPc, sent, got>>
  BY DEF pipe, locker, conds, stream
<1>2. PipeInv'
  BY <1>1, IdleKeeps DEF TurnInv
<1>3. WC!IndInv'
  BY CondsIdle DEF TurnInv
<1>4. BusyRuns'
  BY <1>1 DEF TurnInv, BusyRuns, Resting
<1>5. LockExact'
  BY <1>1 DEF TurnInv, LockExact, LockAt, NobodyWaits
<1>6. OpenExact'
  BY <1>1 DEF TurnInv, OpenExact, OpenAt, Creating, Closing, Whole, Gone, First, AfterFirst
<1>7. CallsExact' /\ SizesExact'
  BY <1>1 DEF TurnInv, CallsExact, CallAt, SizesExact, SizeAt
<1>8. TurnsGoOn'
  BY <1>1 DEF TurnInv, TurnsGoOn, Content, WriterServed, ReaderServed, ForWriter, ForReader, Wakes, Woken
<1>9. FlushExact'
  BY <1>1 DEF TurnInv, FlushExact, Content, Flushes, Enters
<1>10. QED
  BY <1>2, <1>3, <1>4, <1>5, <1>6, <1>7, <1>8, <1>9 DEF TurnInv

\* Every step keeps the invariant: one case per function of pipe.c.
LEMMA TurnNextKeeps ==
  ASSUME Given, TurnInv, [PipeNext]_pipeVars
  PROVE  TurnInv'
<1>1. CASE UNCHANGED pipeVars
  BY <1>1, TurnIdles DEF pipeVars
<1>2. CASE PipeNext
  <2>1. PICK v \in Tasks :
          Create(v) \/ Close(v) \/ Write(v) \/ Read(v) \/ Watch(v) \/ InCall(v)
            \/ Sleep(v) \/ WakeUp(v)
    BY <1>2 DEF PipeNext
  <2>2. CASE WakeUp(v)
    BY <2>2, TurnIdles DEF WakeUp
  <2>3. Create(v) => Turned(v)
    BY OwnTurn, LockerTurn, CreateBufferTurn, CreateCondsTurn DEF Create
  <2>4. Close(v) => Turned(v)
    BY OwnTurn, LockTurn, CloseCondsTurn, UnlockTurn, LockerTurn DEF Close
  <2>5. Write(v) => Turned(v)
    BY CallsTurn, WaitTurn, LockTurn, WriteCheckTurn, CopyTurn, SizeTurn, AdvanceTurn, WakeTurn,
       UnlockTurn DEF Write
  <2>6. Read(v) => Turned(v)
    BY CallsTurn, WaitTurn, LockTurn, CopyTurn, SizeTurn, AdvanceTurn, WakeTurn, UnlockTurn DEF Read
  <2>7. Watch(v) => Turned(v)
    BY CallsTurn, WaitTurn DEF Watch
  <2>8. InCall(v) => Turned(v)
    BY InLockerTurn, InCondTurn DEF InCall
  <2>9. Sleep(v) => Turned(v)
    BY SleepTurn
  <2>10. QED
    BY <1>2, <2>1, <2>2, <2>3, <2>4, <2>5, <2>6, <2>7, <2>8, <2>9, TurnKeeps
<1>3. QED
  BY <1>1, <1>2

\* TurnInv is an invariant.
LEMMA TurnInvariance ==
  ASSUME EachOnePriority
  PROVE  PipeSpec => []TurnInv
<1>1. PipeInit => TurnInv
  BY NucleusAssumption, TurnBegins DEF Given
<1>2. TurnInv /\ [PipeNext]_pipeVars => TurnInv'
  BY NucleusAssumption, TurnNextKeeps DEF Given
<1>3. QED
  BY <1>1, <1>2, PTL DEF PipeSpec

-----------------------------------------------------------------------------
\* A condition that is not there has nobody waiting, and one that nobody was
\* still using when it was created has no stored wake where somebody waits.
LEMMA CondRests ==
  ASSUME Given, TurnInv, NEW c \in 0..3
  PROVE  /\ ~cUsed[c] => cQueue[c] = << >>
         /\ Quiet /\ cClean[c] /\ Waiting(c) => cOwed[c] = 0
<1>1. WC!SlotAt(c) /\ WC!QueueAt(c)
  <2>1. WC!OneLevel(c) /\ c \in WC!Wids
    BY DEF WC!OneLevel, Everybody, Levels, Given, EachOnePriority, WC!Wids
  <2>2. QED
    BY <2>1 DEF TurnInv, WC!IndInv, WC!SlotsExact, WC!QueuesExact
<1>2. ~cUsed[c] => ~cLive[c]
  <2>1. CASE WC!InUse(c)
    <3>1. PICK t \in Tasks : cPc[t] \in WC!Running /\ WC!StepAt(t, c)
      BY <1>1, <2>1 DEF WC!InUse, WC!SlotAt
    <3>2. cPc[t] \in {"found", "make", "vacate", "give_up"} \cup WC!Inside
      BY <3>1 DEF WC!Running, WC!MidCall, WC!Inside, WC!WakePoints
    <3>3. QED
      BY <3>1, <3>2 DEF WC!StepAt
  <2>2. CASE ~WC!InUse(c)
    BY <1>1, <2>2 DEF WC!SlotAt, WC!RestAt
  <2>3. QED
    BY <2>1, <2>2
<1>3. ASSUME Quiet, cClean[c], Waiting(c) PROVE cOwed[c] = 0
  <2>1. ~WC!InUse(c)
    BY <1>3 DEF Quiet, WC!InUse, WC!Running, WC!MidCall
  <2>2. cLive[c]
    BY <1>1, <1>3 DEF WC!QueueAt, Waiting
  <2>3. WC!Balance(c, 0)
    BY <1>1, <1>3, <2>1, <2>2 DEF WC!SlotAt, WC!RestAt
  <2>4. QED
    BY <1>3, <2>3 DEF WC!Balance, Waiting
<1>4. QED
  BY <1>1, <1>2, <1>3 DEF WC!QueueAt

\* Between the calls of its clients an open pipe is whole, and nobody has a
\* turn to end.
LEMMA QuietMeans ==
  ASSUME TurnInv, Quiet, open
  PROVE  /\ allocated /\ Content = seek - offset
         /\ \A t \in Tasks : ~ForWriter(t) /\ ~ForReader(t) /\ ~Flushes(t)
<1>1. ASSUME NEW t \in Tasks
      PROVE  \/ cPc[t] = "idle" /\ step[t] = "idle"
             \/ cPc[t] = "suspended" /\ step[t] \in {"idle", "w_lock", "r_lock"}
  BY DEF Quiet, TurnInv, CallsExact, CallAt, WaitPoints
<1>2. \A t \in Tasks : step[t] \notin OwnSteps /\ step[t] # "w_move"
  BY <1>1 DEF OwnSteps
<1>3. allocated
  BY <1>2 DEF TurnInv, OpenExact, Whole
<1>4. ASSUME NEW t \in Tasks PROVE ~ForWriter(t) /\ ~ForReader(t) /\ ~Flushes(t)
  <2>1. step[t] \in {"w_lock", "r_lock"} => cPc[t] = "suspended"
    BY <1>1
  <2>2. cPc[t] \in {"idle", "suspended"} /\ step[t] \in {"idle", "w_lock", "r_lock"}
    BY <1>1
  <2>3. QED
    BY <2>1, <2>2 DEF ForWriter, ForReader, Flushes, Wakes, Woken, CreateSteps, WakePoints
<1>5. QED
  BY <1>2, <1>3, <1>4 DEF Content

\* NoStandoff (writePipe, readPipe with both flags): among tasks of one priority
\* a writer that waits for a reader and a reader that waits for a writer never
\* face each other.
THEOREM NoStandoffHolds ==
  ASSUME EachOnePriority
  PROVE  PipeSpec => []NoStandoff
<1>1. TurnInv => NoStandoff
  <2> SUFFICES ASSUME TurnInv, open, Quiet, PlainWatchers, cClean[READY_READ], cClean[READY_WRITE],
                      Waiting(READY_READ), Waiting(READY_WRITE)
               PROVE  FALSE
    BY DEF NoStandoff, PlainWatchers
  <2>1. allocated /\ \A t \in Tasks : ~ForWriter(t) /\ ~ForReader(t)
    BY QuietMeans
  <2>2. WriterServed \/ ReaderServed
    BY <2>1 DEF TurnInv, TurnsGoOn
  <2>3. cOwed[READY_WRITE] > 0 \/ cOwed[READY_READ] > 0
    BY <2>1, <2>2 DEF WriterServed, ReaderServed
  <2>4. cOwed[READY_WRITE] = 0 /\ cOwed[READY_READ] = 0
    BY NucleusAssumption, CondRests DEF Given, READY_READ, READY_WRITE
  <2>5. QED
    BY <2>3, <2>4
<1>2. QED
  BY <1>1, TurnInvariance, PTL

\* NobodyStranded (waitForPipeFullyFlushed, closePipe): among tasks of one
\* priority nobody is left waiting for a pipe to be full that is full, nor for
\* anything on a pipe that is closed.
THEOREM NobodyStrandedHolds ==
  ASSUME EachOnePriority
  PROVE  PipeSpec => []NobodyStranded
<1>1. TurnInv => NobodyStranded
  <2> SUFFICES ASSUME TurnInv PROVE NobodyStranded
    OBVIOUS
  <2>1. ASSUME open, Quiet, cClean[FULLY_FLUSHED], seek - offset = Size
        PROVE  ~Waiting(FULLY_FLUSHED)
    <3>1. allocated /\ Content = Size /\ \A t \in Tasks : ~Flushes(t)
      BY <2>1, QuietMeans
    <3>2. QED
      BY <2>1, <3>1 DEF TurnInv, FlushExact, Waiting
  <2>2. ASSUME ~open, NEW c \in 0..3 PROVE ~Waiting(c)
    <3>1. \A t \in Tasks : step[t] \notin OwnSteps
      BY <2>2 DEF TurnInv, OpenExact, OpenAt, OwnSteps, Creating, Closing, Whole
    <3>2. ~cUsed[c]
      BY <2>2, <3>1 DEF TurnInv, OpenExact, Gone, First
    <3>3. QED
      BY <3>2, NucleusAssumption, CondRests DEF Given, Waiting
  <2>3. QED
    BY <2>1, <2>2 DEF NobodyStranded
<1>2. QED
  BY <1>1, TurnInvariance, PTL
=============================================================================
