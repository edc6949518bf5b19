---------------------------- MODULE ProcessProofs ----------------------------
(***************************************************************************)
(* Proofs about Process, for any number of pids, processes, kills, stops   *)
(* and handlers, and with a kill by a more urgent task at any point.  What *)
(* is said of children and of requests holds for any priorities; that argv *)
(* is freed once, among processes of one priority; that nobody is left     *)
(* behind, where the helper is less urgent than the processes.             *)
(*                                                                         *)
(* A step moves one task, and touches the slot of one more.  The invariant *)
(* is therefore stated of each task (LocalAt, MakesAt, WaitsAt, KidDone)   *)
(* and of each slot (SlotAt, ExitAt, ChildAt), and Frame says what a step  *)
(* leaves to the tasks that do not take it: FrameKeeps carries the parts   *)
(* of all of them over, so that each step shows those of its own task.     *)
(*                                                                         *)
(* A child that its parent does not know of is the one thing to exclude:   *)
(* ChildAt says that a child is in the list of its parent, or on its way   *)
(* into it, until one of the two is past the point, and FirstComesFirst    *)
(* and FirstPending that of the requests of one process the first is the   *)
(* one that deletes it.                                                    *)
(***************************************************************************)
EXTENDS Process, SequenceTheorems, WellFoundedInduction, TLAPS

\* The processes have one priority (that of the default), or the helper is
\* less urgent than every process.
OneLevel == \A p, q \in Pids : Prio[p] = Prio[q]
LazyHelp == \A p \in Pids : Prio[p] < Prio[Helper]

\* Where a task can be: at one of the points where it waits for others, in a
\* call of kill_hisr_chek or waitForProcessFinished, or elsewhere and ready.
StillPoints == {"none", "main", "handled", "unstarted", "terminated", "finished",
                "asleep", "wait", "astray", "locked"}
StrikePoints == {"lock", "take", "queue", "locked", "mark", "marked", "terminate", "reset", "resume"}
AwaitPoints == {"await", "wait", "astray"}
CallPoints == StrikePoints \cup AwaitPoints
RunPoints == (CallPoints \ StillPoints) \cup CreatePoints
  \cup {"joined", "start", "kill_impl", "handler", "try", "stages", "state0", "argv", "kid",
        "kid_finish", "kid_next", "dtor", "asked", "wake", "resched"}
Points == StillPoints \cup RunPoints
MakePoints == {"filled", "created", "listed"}

SlotType ==
  [id : BOOLEAN, kids : Seq(Pids), dtors : SUBSET Pids, ppid : Pids \cup {NoPid},
   kill_mode : BOOLEAN, terminated : {0, 1, 2}, kill_state : 0..11, kill_tryes : Nat,
   critical : {"free", "held", "none"}, exit_wait : Nat, handler : BOOLEAN,
   signum : {"none", "kill_", "SIGTERM"}]
RequestType == [pid : Pids, life : Nat, first : BOOLEAN]
TablesOK ==
  /\ proc \in [Pids -> SlotType] /\ pc \in [Pids -> Points]
  /\ back \in [Pids -> {"main", "kid_finish", "kid_next"}]
  /\ lock \in [Pids -> BOOLEAN] /\ at \in [Pids -> Nat] /\ wid \in [Pids -> Nat]
  /\ aim \in [Pids -> Pids \cup {NoPid}] /\ conds \in [Pids -> SUBSET Nat]
KernelOK ==
  /\ stopped \subseteq Pids /\ ready \subseteq Tasks /\ cpu \in [Levels -> Tasks \cup {NoTask}]
  /\ requests \in Seq(RequestType) /\ helping \in Pids \cup {NoPid}
HistoryOK ==
  /\ lives \in [Pids -> Nat] /\ \A p \in Pids : lives[p] <= MaxLives
  /\ frees \in [Pids -> Nat] /\ kills \in Nat /\ stops \in Nat
  /\ cut \subseteq Pids /\ orphans \subseteq Pids /\ asked \subseteq Pids
TypeOK == TablesOK /\ KernelOK /\ HistoryOK

\* A process that has not been deleted.
Lives(p) == proc[p].id /\ helping # p
\* One that has not run yet.
Fresh(p) == pc[p] = "none" \/ (pc[p] \in {"unstarted", "start"} /\ ~proc[p].kill_mode)

\* Who is on behalf of its main, in state 3 of its death, or in state 0.
Calls(p) == pc[p] \in CallPoints /\ aim[p] # p
InMain(p) == pc[p] \in {"main", "joined"} \cup CreatePoints \/ (Calls(p) /\ back[p] = "main")
InKids(p) == pc[p] \in {"kid", "kid_finish", "kid_next"} \/ (Calls(p) /\ back[p] # "main")
InOwn(p) == pc[p] = "state0" \/ (pc[p] \in CallPoints /\ aim[p] = p)

PlaceAt(p) ==
  /\ ~Lives(p) => pc[p] = "none"
  /\ pc[p] \in RunPoints => p \in ready
  /\ pc[p] \in CallPoints \cup {"joined", "dtor"} => aim[p] \in Pids
  /\ pc[p] \in AwaitPoints => back[p] # "kid_finish" /\ aim[p] # p
  /\ pc[p] \in StrikePoints => back[p] # "kid_next" \/ aim[p] = p
  /\ InOwn(p) => pc[p] \in {"state0", "take", "queue", "locked"}
StateAt(p) ==
  /\ p \notin cut /\ (InMain(p) \/ (pc[p] \in {"unstarted", "start"} /\ ~proc[p].kill_mode))
       => proc[p].kill_state = 0
  /\ InOwn(p) => proc[p].kill_state = 0
  /\ pc[p] = "argv" => proc[p].kill_state = 2
  /\ pc[p] = "dtor" => proc[p].kill_state = 5
  /\ pc[p] = "asked" => proc[p].kill_state = 8 /\ p \in asked
  /\ pc[p] \in {"wake", "resched", "asleep"} => proc[p].kill_state = 11
  /\ pc[p] \in {"wake", "resched", "asleep"} /\ p \notin cut => proc[p].exit_wait = 0
  /\ p \in asked => proc[p].kill_state >= 8
  /\ p \in asked /\ Lives(p) => pc[p] # "none"
KidAt(p) ==
  /\ InKids(p) => proc[p].kill_state = 3 /\ at[p] \in 1..Len(proc[p].kids)
  /\ InKids(p) /\ pc[p] # "kid" => aim[p] = proc[p].kids[at[p]]
  /\ \A i \in 1..Len(proc[p].kids) : proc[p].kids[i] # p
LocalAt(p) == PlaceAt(p) /\ StateAt(p) /\ KidAt(p)
LocalExact == \A p \in Pids : LocalAt(p)

\* What is being created
MakesAt(q) ==
  /\ pc[q] \in CreatePoints =>
       /\ aim[q] \in Pids \ {q} /\ Lives(aim[q])
       /\ \A r \in Pids \ {q} : pc[r] \in CreatePoints => aim[r] # aim[q]
       /\ aim[q] \notin cut => pc[aim[q]] \in {"none", "unstarted", "start", "terminated"}
  /\ pc[q] \in MakePoints => proc[aim[q]].ppid = q
  /\ pc[q] = "new" =>
       /\ proc[aim[q]].ppid = NoPid /\ proc[aim[q]].critical = "none"
       /\ aim[q] \notin asked
  /\ pc[q] \in {"new", "filled"} => pc[aim[q]] = "none"
  /\ pc[q] = "filled" => proc[aim[q]].kill_state = 0
MakesExact == \A q \in Pids : MakesAt(q)

\* Nobody waits where nobody will wake him.
WaitsAt(q) ==
  /\ pc[q] = "wait" => wid[q] \in conds[aim[q]]
  /\ pc[q] = "locked" => proc[aim[q]].critical = "held"
WaitsExact == \A q \in Pids : WaitsAt(q)
SlotAt(p) == ~Lives(p) => proc[p].critical = "none"
SlotsExact == \A p \in Pids : SlotAt(p)
ExitAt(p) ==
  proc[p].id /\ p \notin orphans /\ proc[p].kill_state < 11
  /\ (\A q \in Pids : pc[q] \in {"new", "filled", "created"} => aim[q] # p)
  => proc[p].exit_wait \in conds[p]
ExitsExact == \A p \in Pids : ExitAt(p)

\* The requests of the helper, and the process whose end is half done
Own(r) == r.life = lives[r.pid]
RequestAt(r) ==
  /\ r.life <= lives[r.pid]
  /\ Own(r) => r.pid \in asked
  /\ r.first => r.pid \in cut \/ (Own(r) /\ Lives(r.pid))
RequestsExact ==
  /\ helping # NoPid => proc[helping].id
  /\ \A i \in DOMAIN requests : RequestAt(requests[i])
FirstComesFirst ==
  \A i, j \in DOMAIN requests :
    i < j /\ requests[i].pid = requests[j].pid /\ requests[i].life = requests[j].life
    => ~requests[j].first
FirstPending ==
  \A p \in Pids :
    Lives(p) /\ p \in asked =>
      \E i \in DOMAIN requests :
        requests[i].pid = p /\ requests[i].life = lives[p] /\ requests[i].first

\* The children of a process
Over(q) == proc[q].kill_state >= 11
ChildOf(q, p) == proc[q].id /\ proc[q].ppid = p /\ q \notin orphans
InList(p, q) == \E i \in 1..Len(proc[p].kids) : proc[p].kids[i] = q
ChildAt(p, q) ==
  p \notin cut /\ ChildOf(q, p) =>
    \/ Over(q)
    \/ /\ Lives(p) /\ proc[p].kill_state <= 3 /\ ~Fresh(p)
       /\ InList(p, q) \/ (pc[p] \in MakePoints /\ aim[p] = q)
ChildrenExact == \A p, q \in Pids : ChildAt(p, q)
KidDone(p) ==
  /\ pc[p] = "kid_next" \/ (pc[p] = "astray" /\ back[p] = "kid_next")
       => (ChildOf(aim[p], p) => Over(aim[p]))
  /\ pc[p] = "await" /\ back[p] = "kid_next" /\ wid[p] \notin conds[aim[p]]
       => (ChildOf(aim[p], p) => Over(aim[p]))
KidsDone == \A p \in Pids : KidDone(p)

IndInv ==
  /\ TypeOK /\ LocalExact /\ MakesExact /\ WaitsExact /\ SlotsExact /\ ExitsExact
  /\ RequestsExact /\ FirstComesFirst /\ FirstPending /\ ChildrenExact /\ KidsDone

ArgvAt(p) ==
  /\ pc[p] = "argv" => cpu[Prio[p]] = p
  /\ frees[p] <= 1
  /\ Lives(p) /\ pc[p] # "argv" /\ proc[p].kill_state <= 2 => frees[p] = 0
  /\ pc[p] = "new" => frees[aim[p]] = 0
ArgvExact == \A p \in Pids : ArgvAt(p)

\* With a helper less urgent
CondsAt(p) ==
  /\ p \notin cut => conds[p] \subseteq IF pc[p] = "wake" THEN {wid[p]} ELSE {proc[p].exit_wait} \ {0}
  /\ p \notin cut /\ ~Lives(p) => conds[p] = {}
  /\ pc[p] \in {"new", "filled", "created"} /\ aim[p] \notin cut => proc[aim[p]].exit_wait = 0
  /\ Lives(p) => lives[p] # 0
CondsExact == \A p \in Pids : CondsAt(p)
-----------------------------------------------------------------------------
\* The pids and the helper.
LEMMA Constants ==
  ASSUME ProcessAssumption, NucleusAssumption
  PROVE  /\ MaxPid \in Nat \ {0} /\ Pids \subseteq Nat /\ 0 \in Pids /\ NoPid \notin Pids
         /\ Pids \subseteq Tasks /\ Helper \in Tasks /\ Helper \notin Pids
         /\ NoTask \notin Tasks /\ MaxLives \in Nat
         /\ \A t \in Tasks : Prio[t] \in Nat /\ Prio[t] \in Levels
<1>1. MaxPid \in Nat \ {0} /\ MaxLives \in Nat
  BY Zenon DEF ProcessAssumption
<1>2. Pids \subseteq Nat /\ 0 \in Pids /\ NoPid \notin Pids
  BY <1>1 DEF Pids, NoPid
<1>3. Tasks = Pids \cup {Helper} /\ Helper \notin Pids
  BY Zenon DEF ProcessAssumption
<1>4. NoTask \notin Tasks /\ Prio \in [Tasks -> Nat]
  BY DEF NucleusAssumption
<1>5. \A t \in Tasks : Prio[t] \in Nat /\ Prio[t] \in Levels
  BY <1>4 DEF Levels
<1>6. QED
  BY <1>1, <1>2, <1>3, <1>4, <1>5

\* A set of numbers up to n that is not empty has a greatest one.
LEMMA MaxFacts ==
  ASSUME NEW n \in Nat, NEW S, S \subseteq 0..n, S # {}
  PROVE  Max(S) \in S /\ \A x \in S : x <= Max(S)
<1> DEFINE T == {n - x : x \in S}
<1>0. T \subseteq Nat
  OBVIOUS
<1>1. T \subseteq Nat /\ T # {}
  BY <1>0
<1>2. PICK g \in T : \A h \in T : ~(<<h, g>> \in OpToRel(<, Nat))
  BY <1>1, NatLessThanWellFounded, WFMin
<1>3. \A h \in T : g <= h
  <2>1. ASSUME NEW h \in T, h < g PROVE FALSE
    BY <1>1, <1>2, <2>1 DEF OpToRel
  <2>2. \A h \in T : h \in Nat /\ g \in Nat
    BY <1>1
  <2>3. QED
    BY <2>1, <2>2
<1>4. PICK m \in S : g = n - m
  OBVIOUS
<1>5. \A x \in S : m >= x
  <2>1. ASSUME NEW x \in S PROVE m >= x
    <3>1. n - x \in T /\ m \in Nat /\ x \in Nat
      OBVIOUS
    <3>2. n - m <= n - x
      BY <1>3, <1>4, <3>1
    <3>3. QED
      BY <3>1, <3>2
  <2>2. QED
    BY <2>1
<1>6. Max(S) \in S /\ \A x \in S : Max(S) >= x
  BY <1>5, Zenon DEF Max
<1>7. QED
  BY <1>6

\* What a queue holds after a request, and after the helper has taken one.
LEMMA AppendFacts ==
  ASSUME NEW S, NEW s \in Seq(S), NEW e \in S
  PROVE  /\ Append(s, e) \in Seq(S) /\ Len(s) \in Nat /\ Len(Append(s, e)) = Len(s) + 1
         /\ DOMAIN s = 1..Len(s) /\ DOMAIN Append(s, e) = 1..(Len(s) + 1)
         /\ \A i \in DOMAIN s : s[i] \in S /\ Append(s, e)[i] = s[i]
         /\ Append(s, e)[Len(s) + 1] = e
OBVIOUS

\* The queue after its first element has gone is the queue moved down by one.
LEMMA TailFacts ==
  ASSUME NEW S, NEW s \in Seq(S), s # << >>
  PROVE  /\ 1 \in DOMAIN s /\ Head(s) = s[1] /\ Head(s) \in S /\ Tail(s) \in Seq(S)
         /\ DOMAIN s \subseteq Nat \ {0}
         /\ \A i \in DOMAIN Tail(s) :
              i \in Nat /\ i + 1 \in DOMAIN s /\ i + 1 # 1 /\ Tail(s)[i] = s[i + 1] /\ Tail(s)[i] \in S
         /\ \A i \in DOMAIN s : i # 1 => i - 1 \in DOMAIN Tail(s) /\ Tail(s)[i - 1] = s[i]
<1>1. Len(s) \in Nat /\ Len(s) > 0 /\ DOMAIN s = 1..Len(s) /\ Head(s) = s[1]
  BY EmptySeq
<1>2. Tail(s) \in Seq(S) /\ DOMAIN Tail(s) = 1..(Len(s) - 1)
  BY <1>1, HeadTailProperties, LenProperties
<1>3. \A i \in 1..(Len(s) - 1) : Tail(s)[i] = s[i + 1] /\ s[i + 1] \in S
  BY <1>1, <1>2, HeadTailProperties, ElementOfSeq
<1>4. QED
  BY <1>1, <1>2, <1>3, ElementOfSeq

Setting == ProcessAssumption /\ NucleusAssumption

\* What a slot holds
LEMMA SlotFields ==
  ASSUME NEW s \in SlotType
  PROVE  /\ s.id \in BOOLEAN /\ s.kids \in Seq(Pids) /\ s.dtors \subseteq Pids
         /\ s.ppid \in Pids \cup {NoPid} /\ s.kill_mode \in BOOLEAN
         /\ s.terminated \in {0, 1, 2} /\ s.kill_state \in 0..11 /\ s.kill_tryes \in Nat
         /\ s.critical \in {"free", "held", "none"} /\ s.exit_wait \in Nat
         /\ s.handler \in BOOLEAN /\ s.signum \in {"none", "kill_", "SIGTERM"}
BY DEF SlotType

\* What is stored in a table of slots has the types of its fields.
LEMMA TableFields ==
  ASSUME NEW f \in [Pids -> SlotType], NEW p \in Pids
  PROVE  /\ f[p] \in SlotType /\ f[p].kill_state \in Nat /\ f[p].kill_state \in 0..11
         /\ f[p].kids \in Seq(Pids) /\ Len(f[p].kids) \in Nat
<1>1. f[p] \in SlotType
  OBVIOUS
<1>2. f[p].kids \in Seq(Pids)
  BY <1>1, SlotFields
<1>3. QED
  BY <1>1, <1>2, SlotFields, LenProperties

\* What a step leaves of a slot that it does not move
Alike(s, e) ==
  /\ e.id = s.id /\ e.ppid = s.ppid /\ e.kids = s.kids
  /\ e.kill_state = s.kill_state /\ e.exit_wait = s.exit_wait
  /\ s.kill_mode => e.kill_mode
\* A task that a step leaves where it is, or lets go on
Pushed(r) ==
  \/ pc'[r] = pc[r]
  \/ pc[r] = "unstarted" /\ pc'[r] = "start"
  \/ pc[r] = "locked" /\ pc'[r] = Past(r)
  \/ pc[r] = "wait" /\ pc'[r] = back[r] /\ Over(aim[r])
  \/ pc[r] = "astray" /\ pc'[r] = back[r]
Rests(r) ==
  /\ Alike(proc[r], proc'[r]) /\ Pushed(r)
  /\ aim'[r] = aim[r] /\ at'[r] = at[r] /\ wid'[r] = wid[r] /\ back'[r] = back[r]
  /\ r \in ready \/ pc'[r] # pc[r] => r \in ready'
  /\ r \in asked' <=> r \in asked
\* The mutex of a process: locked by one more, or destroyed and all let go
MutexMoves(r) ==
  \/ proc'[r].critical = proc[r].critical
  \/ proc[r].critical # "none" /\ proc'[r].critical = "held"
  \/ proc'[r].critical = "none" /\ \A q \in Pids : aim'[q] = r => pc'[q] # "locked"
\* The exit condition of a process: it stays, or there is no need of it
ExitMoves(r) ==
  /\ conds[r] \subseteq conds'[r]
     \/ (Over(r) /\ \A q \in Pids : pc'[q] = "wait" /\ aim'[q] = r => wid'[q] \in conds'[r])
  /\ \/ proc'[r].exit_wait = proc[r].exit_wait \/ Over(r) \/ ExitAt(r)'
Grows(r) ==
  /\ proc'[r].id => proc[r].id
  /\ proc'[r].ppid = proc[r].ppid /\ proc'[r].kill_state >= proc[r].kill_state
  /\ r \in orphans => r \in orphans'
  /\ MutexMoves(r) /\ ExitMoves(r)
\* Who creates begins with a free slot, goes on with that, or leaves an orphan or
\* a complete process.
Begins(q) == pc[q] \notin CreatePoints /\ ~Lives(aim'[q])
Makers(q) ==
  /\ pc'[q] \in CreatePoints => (pc[q] \in CreatePoints /\ aim'[q] = aim[q]) \/ Begins(q)
  /\ pc[q] \in {"new", "filled", "created"} =>
       \/ pc'[q] \in {"new", "filled", "created"} /\ aim'[q] = aim[q]
       \/ aim[q] \in orphans' \/ \E r \in Pids : aim[q] = r /\ ExitAt(r)'
\* A task that is not one of S, nor is its creator, finds it as before.
Starts(r, S) ==
  \/ \A q \in Pids \ S : pc[q] \in CreatePoints => aim[q] # r
  \/ /\ pc[r] = "none" => pc'[r] = "none" /\ proc'[r].kill_state = proc[r].kill_state
                          /\ (r \in asked' => r \in asked)
     /\ pc[r] \in {"none", "unstarted", "start", "terminated"} =>
          r \in cut' \/ pc'[r] \in {"none", "unstarted", "start", "terminated"}
\* A process that is deleted, and a slot that is given away or filled
Ends(r) == SlotAt(r)' /\ \A q \in Pids : r \notin Orphaned(q)
Renewed(r, S) ==
  /\ proc[r].critical = "none" /\ conds'[r] = conds[r] /\ SlotAt(r)' /\ ExitAt(r)'
  /\ \A q \in Pids \ S : ~ChildOf(r, q)' /\ (pc[q] \in CreatePoints => aim[q] # r)
\* A step of the tasks in S, as the others see it
Seen(r, S) ==
  \/ Grows(r) /\ (Lives(r)' = Lives(r) \/ (r \in S /\ Ends(r)))
  \/ r \in S /\ Renewed(r, S)
Frame(S) ==
  /\ cut \subseteq cut'
  /\ \A r \in Pids \ S : Rests(r)
  /\ \A r \in Pids : Seen(r, S) /\ Makers(r)
  /\ \A r \in S : Starts(r, S)

\* Where a call returns, and whom it aims at
LEMMA Back == ASSUME TypeOK, NEW r \in Pids
  PROVE back[r] \in {"main", "kid_finish", "kid_next"} /\ aim[r] \in Pids \cup {NoPid}
BY DEF TypeOK, TablesOK

\* What the table says of a process
LEMMA States ==
  ASSUME TypeOK, NEW r \in Pids
  PROVE  /\ proc[r] \in SlotType /\ proc[r].kill_state \in 0..11
         /\ proc[r].kids \in Seq(Pids) /\ Len(proc[r].kids) \in Nat
         /\ Over(r) <=> proc[r].kill_state = 11
<1>1. proc \in [Pids -> SlotType]
  BY DEF TypeOK, TablesOK
<1>2. proc[r].kill_state \in 0..11
  BY <1>1, TableFields
<1>3. QED
  BY <1>1, <1>2, TableFields DEF Over

\* A step of others (the tasks in S) leaves the place and the state of task r exact.
LEMMA LocalKeeps ==
  ASSUME IndInv, NEW S \in SUBSET Pids, Frame(S), NEW r \in Pids \ S
  PROVE  LocalAt(r)'
<1>1. LocalAt(r) /\ Rests(r) /\ (r \in cut => r \in cut')
  BY DEF IndInv, LocalExact, Frame
<1>2. Lives(r)' = Lives(r)
  BY DEF Frame, Seen
<1>3. back[r] \in {"main", "kid_finish", "kid_next"}
  BY Back DEF IndInv
<1>4. PlaceAt(r)'
  BY <1>1, <1>2, <1>3 DEF LocalAt, PlaceAt, Rests, Pushed, Past, InOwn, CallPoints, StrikePoints, AwaitPoints, RunPoints, CreatePoints, StillPoints
<1>5. InMain(r)' => InMain(r)
  BY <1>1, <1>3 DEF LocalAt, PlaceAt, Rests, Pushed, Past, InMain, Calls, CallPoints, StrikePoints, AwaitPoints, CreatePoints
<1>6. InKids(r)' => InKids(r) /\ (pc'[r] # "kid" => pc[r] # "kid")
  BY <1>1, <1>3 DEF LocalAt, PlaceAt, Rests, Pushed, Past, InKids, Calls, CallPoints, StrikePoints, AwaitPoints, CreatePoints
<1>7. InOwn(r)' => InOwn(r)
  BY <1>1, <1>3 DEF LocalAt, PlaceAt, Rests, Pushed, Past, InOwn, CallPoints, StrikePoints, AwaitPoints, CreatePoints
<1>8. StateAt(r)'
  BY <1>1, <1>2, <1>3, <1>5, <1>7 DEF LocalAt, StateAt, Rests, Alike, Pushed, Past
<1>9. KidAt(r)'
  BY <1>1, <1>3, <1>6 DEF LocalAt, KidAt, Rests, Alike
<1>10. QED
  BY <1>4, <1>8, <1>9 DEF LocalAt

\* ... and nobody waiting where nobody will wake him.
LEMMA WaitsKeep ==
  ASSUME IndInv, NEW S \in SUBSET Pids, Frame(S), NEW r \in Pids \ S
  PROVE  WaitsAt(r)'
<1>1. LocalAt(r) /\ Rests(r) /\ WaitsAt(r)
  BY DEF IndInv, LocalExact, WaitsExact, Frame
<1>2. back[r] \in {"main", "kid_finish", "kid_next"}
  BY Back DEF IndInv
<1>3. pc'[r] \in {"wait", "locked"} => pc'[r] = pc[r] /\ aim[r] \in Pids
  BY <1>1, <1>2 DEF LocalAt, PlaceAt, Rests, Pushed, Past, CallPoints, StrikePoints, AwaitPoints
<1>4. \A x \in Pids : Grows(x) \/ Renewed(x, S)
  BY DEF Frame, Seen
<1>5. QED
  BY <1>1, <1>3, <1>4 DEF WaitsAt, Rests, Grows, MutexMoves, ExitMoves, Renewed

\* A step leaves the mutex and the exit condition of every slot exact.
LEMMA SlotKeeps ==
  ASSUME IndInv, NEW S \in SUBSET Pids, Frame(S), NEW r \in Pids, TypeOK'
  PROVE  SlotAt(r)' /\ ExitAt(r)'
<1>1. SlotAt(r) /\ ExitAt(r) /\ Seen(r, S)
  BY DEF IndInv, SlotsExact, ExitsExact, Frame
<1>2. CASE Renewed(r, S)
  BY <1>2 DEF Renewed
<1>3. ASSUME Grows(r), Lives(r)' = Lives(r) \/ Ends(r) PROVE SlotAt(r)'
  BY <1>1, <1>3 DEF SlotAt, Ends, Grows, MutexMoves
<1>4. proc[r].kill_state \in 0..11 /\ (Over(r) <=> proc[r].kill_state = 11)
  BY States DEF IndInv
<1>7. proc'[r].kill_state \in 0..11
  <2>1. proc' \in [Pids -> SlotType]
    BY DEF TypeOK, TablesOK
  <2>2. QED
    BY <2>1, TableFields
<1>5. ASSUME Grows(r), ~ExitAt(r)' PROVE FALSE
  <2>1. /\ proc'[r].id /\ r \notin orphans' /\ proc'[r].kill_state < 11
        /\ \A q \in Pids : pc'[q] \in {"new", "filled", "created"} => aim'[q] # r
    BY <1>5 DEF ExitAt
  <2>2. proc'[r].kill_state >= proc[r].kill_state /\ proc'[r].kill_state < 11
    BY <1>5, <2>1 DEF Grows
  <2>9. ~Over(r)
    BY <1>4, <1>7, <2>2
  <2>3. \A q \in Pids : pc[q] \in {"new", "filled", "created"} => aim[q] # r
    <3>1. \A q \in Pids : Makers(q)
      BY DEF Frame
    <3>2. QED
      BY <1>5, <2>1, <3>1 DEF Makers
  <2>4. proc[r].id /\ r \notin orphans /\ proc[r].kill_state < 11
    BY <1>4, <1>5, <2>1, <2>9 DEF Grows, Over
  <2>5. proc[r].exit_wait \in conds[r]
    BY <1>1, <2>3, <2>4 DEF ExitAt
  <2>6. QED
    BY <1>5, <2>5, <2>9 DEF Grows, ExitMoves, ExitAt
<1>6. QED
  BY <1>1, <1>2, <1>3, <1>5 DEF Seen

\* A step of others leaves what task q creates as it was.
LEMMA MakesKeep ==
  ASSUME IndInv, NEW S \in SUBSET Pids, Frame(S), NEW q \in Pids \ S, TypeOK'
  PROVE  MakesAt(q)'
<1>1. LocalAt(q) /\ Rests(q) /\ MakesAt(q) /\ Makers(q)
  BY DEF IndInv, LocalExact, MakesExact, Frame
<1>2. CASE pc'[q] \notin CreatePoints
  BY <1>2 DEF MakesAt, MakePoints, CreatePoints
<1>3. CASE pc'[q] \in CreatePoints
  <2>0. back[q] \in {"main", "kid_finish", "kid_next"}
    BY Back DEF IndInv
  <2>1. pc[q] \in CreatePoints /\ pc'[q] = pc[q] /\ aim'[q] = aim[q]
    BY <1>1, <1>3, <2>0 DEF Rests, Pushed, Past, CreatePoints
  <2>17. PICK x \in Pids : x = aim[q]
    BY <1>1, <2>1 DEF MakesAt
  <2>2. x \in Pids \ {q} /\ Lives(x) /\ Grows(x) /\ (Lives(x)' = Lives(x) \/ Ends(x))
    BY <1>1, <2>1, <2>17 DEF MakesAt, Frame, Seen, Renewed
  <2>3. Lives(x)'
    BY <2>1, <2>2, <2>17 DEF Ends, Orphaned
  <2>4. \A r \in Pids \ {q} : pc'[r] \in CreatePoints => aim'[r] # x
    BY <1>1, <2>1, <2>2, <2>17 DEF MakesAt, Makers, Begins, Frame
  <2>5. pc[x] \in Points
    BY <2>2 DEF IndInv, TypeOK, TablesOK
  <2>6. /\ pc[x] = "none" => pc'[x] = "none" /\ proc'[x].kill_state = proc[x].kill_state
                             /\ (x \in asked' => x \in asked)
        /\ pc[x] \in {"none", "unstarted", "start", "terminated"} =>
             x \in cut' \/ pc'[x] \in {"none", "unstarted", "start", "terminated"}
    <3>1. CASE x \in S
      BY <2>1, <2>2, <2>17, <3>1 DEF Frame, Starts
    <3>2. CASE x \notin S
      BY <2>2, <3>2 DEF Frame, Rests, Pushed, Alike
    <3>3. QED
      BY <3>1, <3>2
  <2>7. x \notin cut' => x \notin cut
    BY DEF Frame
  <2>8. proc'[x].ppid = proc[x].ppid /\ (proc[x].critical = "none" => proc'[x].critical = "none")
    BY <2>2 DEF Grows, MutexMoves
  <2>9. MakesAt(q)
    BY <1>1
  <2>10. /\ x \in Pids \ {q} /\ \A r \in Pids \ {q} : pc'[r] \in CreatePoints => aim'[r] # aim'[q]
         /\ proc'[x].id /\ helping' # x
    BY <2>1, <2>2, <2>3, <2>4, <2>17 DEF Lives
  <2>11. aim'[q] \notin cut' => pc'[aim'[q]] \in {"none", "unstarted", "start", "terminated"}
    BY <2>1, <2>6, <2>7, <2>9, <2>17 DEF MakesAt
  <2>12. pc'[q] \in MakePoints => proc'[aim'[q]].ppid = q
    BY <2>1, <2>8, <2>9, <2>17 DEF MakesAt
  <2>13. pc'[q] = "new" =>
       /\ proc'[aim'[q]].ppid = NoPid /\ proc'[aim'[q]].critical = "none"
       /\ aim'[q] \notin asked'
    BY <2>1, <2>6, <2>8, <2>9, <2>17 DEF MakesAt
  <2>14. pc'[q] \in {"new", "filled"} => pc'[aim'[q]] = "none"
    BY <2>1, <2>6, <2>9, <2>17 DEF MakesAt
  <2>15. pc'[q] = "filled" => proc'[aim'[q]].kill_state = 0
    BY <2>1, <2>6, <2>9, <2>17 DEF MakesAt
  <2>16. QED
    BY <2>1, <2>10, <2>11, <2>12, <2>13, <2>14, <2>15, <2>17 DEF MakesAt, Lives
<1>4. QED
  BY <1>2, <1>3

\* Who is a child after a step of others was one before it, and stays ended if it has ended.
LEMMA Kin ==
  ASSUME IndInv, NEW S \in SUBSET Pids, Frame(S), NEW x \in Pids, NEW p \in Pids, TypeOK',
         p \notin S \/ Grows(x), ChildOf(x, p)'
  PROVE  ChildOf(x, p) /\ (Over(x) => Over(x)')
<1>1. proc[x].kill_state \in Nat /\ proc'[x].kill_state \in Nat
  BY TableFields DEF IndInv, TypeOK, TablesOK
<1>2. Grows(x)
  BY DEF Frame, Seen, Renewed
<1>3. QED
  BY <1>1, <1>2 DEF Over, ChildOf, Grows

\* A step of others leaves what a process knows of its children exact.
LEMMA ChildKeeps ==
  ASSUME IndInv, NEW S \in SUBSET Pids, Frame(S), NEW r \in Pids \ S, TypeOK'
  PROVE  (\A x \in Pids : ChildAt(r, x)') /\ KidDone(r)'
<1>1. LocalAt(r) /\ Rests(r) /\ KidDone(r) /\ \A x \in Pids : ChildAt(r, x)
  BY DEF IndInv, LocalExact, KidsDone, ChildrenExact, Frame
<1>2. back[r] \in {"main", "kid_finish", "kid_next"} /\ pc[r] \in Points
  BY Back DEF IndInv, TypeOK, TablesOK
<1>3. Lives(r)' = Lives(r)
  BY DEF Frame, Seen
<1>4. Fresh(r)' => Fresh(r)
  BY <1>1, <1>2 DEF Fresh, Rests, Pushed, Past, Alike
<1>5. pc[r] \in MakePoints => pc'[r] \in MakePoints
  BY <1>1, <1>2 DEF MakePoints, Rests, Pushed
<1>6. ASSUME NEW x \in Pids PROVE ChildAt(r, x)'
  <2>1. ChildAt(r, x) /\ (ChildOf(x, r)' => ChildOf(x, r) /\ (Over(x) => Over(x)')) /\ cut \subseteq cut'
    BY <1>1, Kin DEF Frame
  <2>2. InList(r, x)' = InList(r, x) /\ aim'[r] = aim[r] /\ proc'[r].kill_state = proc[r].kill_state
    BY <1>1 DEF InList, Rests, Alike
  <2>3. QED
    BY <1>3, <1>4, <1>5, <2>1, <2>2 DEF ChildAt
<1>7. KidDone(r)'
  <2>1. CASE pc'[r] \in {"kid_next", "astray", "await"}
    <3>1. pc[r] = "await" \/ pc[r] \in {"kid_next", "wait", "astray"}
      BY <1>1, <1>2, <2>1 DEF Rests, Pushed, Past
    <3>2. aim[r] \in Pids \/ pc[r] = "kid_next"
      BY <1>1, <3>1 DEF LocalAt, PlaceAt, CallPoints, AwaitPoints
    <3>3. pc[r] = "kid_next" => aim[r] \in Pids
      <4>1. pc[r] = "kid_next" => at[r] \in 1..Len(proc[r].kids) /\ aim[r] = proc[r].kids[at[r]]
        BY <1>1 DEF LocalAt, KidAt, InKids
      <4>2. proc[r].kids \in Seq(Pids)
        BY TableFields DEF IndInv, TypeOK, TablesOK
      <4>3. QED
        BY <4>1, <4>2, ElementOfSeq
    <3>4. aim[r] \in Pids /\ aim'[r] = aim[r] /\ wid'[r] = wid[r] /\ back'[r] = back[r]
      BY <1>1, <3>2, <3>3 DEF Rests
    <3>10. PICK x \in Pids : x = aim[r]
      BY <3>4
    <3>5. ChildOf(x, r)' => ChildOf(x, r) /\ (Over(x) => Over(x)')
      BY Kin
    <3>6. conds[x] \subseteq conds'[x] \/ Over(x)
      BY DEF Frame, Seen, Renewed, Grows, ExitMoves
    <3>7. pc'[r] = pc[r] \/ (pc[r] = "wait" /\ Over(aim[r]) /\ pc'[r] = back[r]) \/ (pc[r] = "astray" /\ pc'[r] = back[r])
      BY <1>1, <1>2, <2>1 DEF Rests, Pushed, Past
    <3>8. pc'[r] = "await" /\ wid[r] \notin conds'[x] => wid[r] \notin conds[x] \/ Over(x)
      BY <3>6
    <3>11. CASE ChildOf(x, r)'
      <4>1. Over(x)' \/ (pc'[r] = "await" /\ (back[r] # "kid_next" \/ wid[r] \in conds'[x]))
                    \/ (pc'[r] = "astray" /\ back[r] # "kid_next")
        BY <1>1, <2>1, <3>5, <3>6, <3>7, <3>8, <3>10, <3>11 DEF KidDone
      <4>2. QED
        BY <3>4, <3>10, <4>1 DEF KidDone, Over
    <3>12. CASE ~ChildOf(x, r)'
      BY <3>4, <3>10, <3>12 DEF KidDone, ChildOf
    <3>9. QED
      BY <3>11, <3>12
  <2>2. CASE pc'[r] \notin {"kid_next", "astray", "await"}
    BY <2>2 DEF KidDone
  <2>3. QED
    BY <2>1, <2>2
<1>8. QED
  BY <1>6, <1>7

\* What a step of the tasks in S has to show
Shows(p) == /\ LocalAt(p)' /\ MakesAt(p)' /\ WaitsAt(p)' /\ KidDone(p)'
            /\ \A x \in Pids : ChildAt(p, x)'
\* So a step has only to show its own tasks exact, if it keeps the frame of the others.
LEMMA FrameKeeps ==
  ASSUME IndInv, NEW S \in SUBSET Pids, Frame(S), TypeOK', \A p \in S : Shows(p)
  PROVE  /\ LocalExact' /\ MakesExact' /\ WaitsExact' /\ SlotsExact' /\ ExitsExact'
         /\ ChildrenExact' /\ KidsDone'
<1>1. \A r \in Pids : LocalAt(r)' /\ MakesAt(r)' /\ WaitsAt(r)'
  BY LocalKeeps, MakesKeep, WaitsKeep DEF Shows
<1>2. \A r \in Pids : KidDone(r)' /\ \A x \in Pids : ChildAt(r, x)'
  BY ChildKeeps DEF Shows
<1>3. QED
  BY <1>1, <1>2, SlotKeeps
    DEF LocalExact, MakesExact, WaitsExact, SlotsExact, ExitsExact, ChildrenExact, KidsDone

\* What a task that runs is like.
LEMMA Runner ==
  ASSUME Setting, TypeOK, NEW p \in Pids, Runs(p)
  PROVE  p \in ready /\ p \notin stopped /\ p \in Tasks /\ Prio[p] \in Levels
BY Constants DEF Setting, Runs, MayRun

\* Whoever takes or leaves the processor, it is held by tasks of its level.
LEMMA CpuTyped ==
  ASSUME Setting, TypeOK, NEW t \in Tasks
  PROVE  /\ Occupy(t, cpu) \in [Levels -> Tasks \cup {NoTask}]
         /\ GiveUp(t, cpu) \in [Levels -> Tasks \cup {NoTask}]
         /\ Evict(t, cpu) \in [Levels -> Tasks \cup {NoTask}]
         /\ \A u \in Tasks : Occupy(t, Evict(u, cpu)) \in [Levels -> Tasks \cup {NoTask}]
BY Constants DEF Setting, TypeOK, KernelOK, Occupy, GiveUp, Evict

-----------------------------------------------------------------------------
\* The queue of the helper stays as it is.
LEMMA RequestsStay ==
  ASSUME IndInv, UNCHANGED <<requests, helping, lives, asked>>, cut \subseteq cut',
         \A r \in Pids : proc'[r].id = proc[r].id
  PROVE  RequestsExact' /\ FirstComesFirst' /\ FirstPending'
<1>1. \A i \in DOMAIN requests : requests[i] \in RequestType
  BY ElementOfSeq, LenProperties DEF IndInv, TypeOK, KernelOK
<1>2. \A i \in DOMAIN requests : requests[i].pid \in Pids
  BY <1>1 DEF RequestType
<1>3. helping' # NoPid => proc'[helping'].id
  BY DEF IndInv, RequestsExact, TypeOK, KernelOK
<1>4. ASSUME NEW i \in DOMAIN requests PROVE RequestAt(requests[i])'
  <2>1. RequestAt(requests[i]) /\ requests[i].pid \in Pids
    BY <1>2 DEF IndInv, RequestsExact
  <2>2. QED
    BY <2>1 DEF RequestAt, Own, Lives
<1>5. FirstComesFirst'
  BY DEF IndInv, FirstComesFirst
<1>6. FirstPending'
  BY DEF IndInv, FirstPending, Lives
<1>7. QED
  BY <1>3, <1>4, <1>5, <1>6 DEF RequestsExact

\* The task of p runs to a point and stores e in slot x.
Moved(p, to, x, e) ==
  /\ pc' = [pc EXCEPT ![p] = to]
  /\ proc' = [proc EXCEPT ![x] = e]
  /\ ready' = ready \/ (ready' = ready \ {p} /\ to \notin RunPoints)
  /\ cpu' = Occupy(p, cpu) \/ cpu' = GiveUp(p, cpu)
  /\ kills' \in Nat /\ stops' \in Nat
  /\ cut \subseteq cut' /\ cut' \subseteq Pids
  /\ lock' = lock \/ \E b \in BOOLEAN : lock' = [lock EXCEPT ![p] = b]
  /\ aim' = aim \/ \E c \in Pids : aim' = [aim EXCEPT ![p] = c]
  /\ at' = at \/ \E n \in Nat : at' = [at EXCEPT ![p] = n]
  /\ wid' = wid \/ \E n \in Nat : wid' = [wid EXCEPT ![p] = n]
  /\ back' = back \/ \E c \in {"main", "kid_finish", "kid_next"} : back' = [back EXCEPT ![p] = c]
  /\ frees' = frees \/ frees' = [frees EXCEPT ![p] = frees[p] + 1]
  /\ UNCHANGED <<stopped, helping, lives, orphans>>

\* A store at one place of a function keeps its type.
LEMMA Put ==
  ASSUME NEW T, NEW f \in [Pids -> T], NEW g, NEW p \in Pids,
         g = f \/ \E v \in T : g = [f EXCEPT ![p] = v]
  PROVE  g \in [Pids -> T]
OBVIOUS

\* A step of one task keeps the types.
LEMMA MoveTyped ==
  ASSUME Setting, TypeOK, NEW p \in Pids, NEW to \in Points, NEW x \in Pids, NEW e \in SlotType,
         Moved(p, to, x, e), requests' \in Seq(RequestType), asked' \subseteq Pids,
         conds' \in [Pids -> SUBSET Nat]
  PROVE  TypeOK'
<1>1. p \in Tasks
  BY Constants DEF Setting
<1>2. TablesOK'
  <2>1. proc' \in [Pids -> SlotType] /\ pc' \in [Pids -> Points]
    BY DEF TypeOK, TablesOK, Moved
  <2>2. lock' \in [Pids -> BOOLEAN]
    BY Put DEF TypeOK, TablesOK, Moved
  <2>6. at' \in [Pids -> Nat]
    BY Put DEF TypeOK, TablesOK, Moved
  <2>7. wid' \in [Pids -> Nat]
    BY Put DEF TypeOK, TablesOK, Moved
  <2>3. back' \in [Pids -> {"main", "kid_finish", "kid_next"}]
    BY Put DEF TypeOK, TablesOK, Moved
  <2>4. aim' \in [Pids -> Pids \cup {NoPid}]
    <3>1. aim' = aim \/ \E c \in Pids \cup {NoPid} : aim' = [aim EXCEPT ![p] = c]
      BY DEF Moved
    <3>2. QED
      BY <3>1, Put DEF TypeOK, TablesOK
  <2>5. QED
    BY <2>1, <2>2, <2>3, <2>4, <2>6, <2>7 DEF TypeOK, TablesOK
<1>3. KernelOK'
  BY <1>1, CpuTyped DEF TypeOK, KernelOK, Moved
<1>4. HistoryOK'
  <2>1. frees' \in [Pids -> Nat]
    <3>1. frees \in [Pids -> Nat] /\ frees[p] + 1 \in Nat
      BY DEF TypeOK, HistoryOK
    <3>2. frees' = frees \/ frees' = [frees EXCEPT ![p] = frees[p] + 1]
      BY DEF Moved
    <3>3. QED
      BY <3>1, <3>2, Put
  <2>2. lives' = lives /\ orphans' = orphans /\ cut' \subseteq Pids /\ kills' \in Nat /\ stops' \in Nat
    BY DEF Moved
  <2>3. QED
    BY <2>1, <2>2 DEF TypeOK, HistoryOK
<1>5. QED
  BY <1>2, <1>3, <1>4 DEF TypeOK

\* What the move is to the others and to the process itself
LEMMA MoveSeen ==
  ASSUME TypeOK, NEW p \in Pids, NEW to \in Points, NEW x \in Pids, NEW e \in SlotType,
         Moved(p, to, x, e)
  PROVE  /\ pc'[p] = to /\ proc'[x] = e
         /\ \A r \in Pids \ {x} : proc'[r] = proc[r]
         /\ \A r \in Pids \ {p} :
              /\ pc'[r] = pc[r] /\ aim'[r] = aim[r] /\ at'[r] = at[r] /\ wid'[r] = wid[r]
              /\ back'[r] = back[r] /\ (r \in ready => r \in ready')
         /\ to \in RunPoints => ready' = ready
BY DEF TypeOK, TablesOK, Moved

\* A step of one task keeps the frame of the others, if it only adds to what they read.
LEMMA MoveFrame ==
  ASSUME IndInv, NEW p \in Pids, NEW to \in Points, NEW x \in Pids, NEW e \in SlotType,
         Moved(p, to, x, e), pc[p] \notin {"none", "new", "filled", "created", "unstarted", "terminated"},
         to \notin CreatePoints \cup {"none"},
         pc[p] = "start" => p \in cut' \/ \A q \in Pids : p \notin Orphaned(q),
         asked' = asked \/ asked' = asked \cup {p},
         x # p => Alike(proc[x], e),
         e.id = proc[x].id, e.ppid = proc[x].ppid, e.kill_state >= proc[x].kill_state,
         \/ e.critical = proc[x].critical
         \/ proc[x].critical # "none" /\ e.critical = "held",
         e.exit_wait = proc[x].exit_wait \/ Over(x),
         \A r \in Pids :
            \/ conds[r] \subseteq conds'[r]
            \/ Over(r) /\ \A q \in Pids : pc'[q] = "wait" /\ aim'[q] = r => wid'[q] \in conds'[r]
  PROVE  Frame({p}) /\ \A r \in Pids : Grows(r) /\ Lives(r)' = Lives(r)
<1> USE MoveSeen DEF IndInv
<1>1. TypeOK
  OBVIOUS
<1>2. \A r \in Pids \ {p} : Rests(r)
  BY <1>1 DEF Rests, Pushed, Alike
<1>3. ASSUME NEW r \in Pids PROVE Grows(r)
  <2>1. proc[r].kill_state \in 0..11
    BY <1>1, States
  <2>2. MutexMoves(r)
    BY <1>1 DEF MutexMoves
  <2>3. ExitMoves(r)
    BY <1>1 DEF ExitMoves
  <2>4. QED
    BY <1>1, <2>1, <2>2, <2>3 DEF Grows, Moved
<1>4. ASSUME NEW r \in Pids PROVE Makers(r)
  BY <1>1 DEF Makers, CreatePoints
<1>5. Starts(p, {p})
  <2>1. CASE \A q \in Pids \ {p} : pc[q] \in CreatePoints => aim[q] # p
    BY <2>1 DEF Starts
  <2>2. ASSUME NEW q \in Pids \ {p}, pc[q] \in CreatePoints, aim[q] = p PROVE Starts(p, {p})
    <3>1. MakesAt(q)
      BY DEF MakesExact
    <3>2. p \in Orphaned(q)
      BY <2>2 DEF Orphaned
    <3>3. p \in cut'
      BY <2>2, <3>1, <3>2 DEF MakesAt, Moved
    <3>4. QED
      BY <3>3 DEF Starts
  <2>3. QED
    BY <2>1, <2>2
<1>6. QED
  <2>1. \A r \in Pids : Lives(r)' = Lives(r)
    BY <1>3, MoveSeen DEF Moved, Lives
  <2>2. QED
    BY <1>2, <1>3, <1>4, <1>5, <2>1 DEF Frame, Seen, Moved

\* What nobody reads but the task itself
Plainly(s, e) == e \in SlotType /\ Alike(s, e) /\ e.critical = s.critical
\* The stores that no other process depends on leave a slot like it was:
LEMMA OwnStored ==
  ASSUME NEW s \in SlotType
  PROVE  /\ \A h \in BOOLEAN : Plainly(s, [s EXCEPT !.handler = h])
         /\ \A g \in {"none", "kill_", "SIGTERM"} : Plainly(s, [s EXCEPT !.signum = g])
         /\ \A n \in Nat : Plainly(s, [s EXCEPT !.kill_tryes = n])
         /\ \A t \in {0, 1, 2} : Plainly(s, [s EXCEPT !.terminated = t])
         /\ \A d \in SUBSET Pids : Plainly(s, [s EXCEPT !.dtors = d])
BY DEF SlotType, Plainly, Alike

\* two of them at once,
LEMMA PairStored ==
  ASSUME NEW s \in SlotType, NEW g \in {"none", "kill_", "SIGTERM"}
  PROVE  /\ \A h \in BOOLEAN : Plainly(s, [s EXCEPT !.handler = h, !.signum = g])
         /\ \A t \in {0, 1, 2} : Plainly(s, [s EXCEPT !.terminated = t, !.signum = g])
<1>1. ASSUME NEW h \in BOOLEAN PROVE Plainly(s, [s EXCEPT !.handler = h, !.signum = g])
  <2> DEFINE a == [s EXCEPT !.handler = h]
             e == [s EXCEPT !.handler = h, !.signum = g]
  <2>1. Plainly(s, a) /\ e = [a EXCEPT !.signum = g]
    BY OwnStored
  <2> HIDE DEF a
  <2>5. a \in SlotType
    BY <2>1 DEF Plainly
  <2>2. Plainly(a, e)
    BY <2>1, <2>5, OwnStored
  <2> HIDE DEF e
  <2>3. Plainly(s, e)
    BY <2>1, <2>2 DEF Plainly, Alike
  <2>4. QED
    BY <2>3 DEF e
<1>2. ASSUME NEW t \in {0, 1, 2} PROVE Plainly(s, [s EXCEPT !.terminated = t, !.signum = g])
  <2> DEFINE a == [s EXCEPT !.terminated = t]
             e == [s EXCEPT !.terminated = t, !.signum = g]
  <2>1. Plainly(s, a) /\ e = [a EXCEPT !.signum = g]
    BY OwnStored
  <2> HIDE DEF a
  <2>5. a \in SlotType
    BY <2>1 DEF Plainly
  <2>2. Plainly(a, e)
    BY <2>1, <2>5, OwnStored
  <2> HIDE DEF e
  <2>3. Plainly(s, e)
    BY <2>1, <2>2 DEF Plainly, Alike
  <2>4. QED
    BY <2>3 DEF e
<1>3. QED
  BY <1>1, <1>2

\* The mutex
LEMMA MutexStored ==
  ASSUME NEW s \in SlotType, NEW c \in {"free", "held", "none"}
  PROVE  LET e == [s EXCEPT !.critical = c]
         IN  e \in SlotType /\ Alike(s, e) /\ e.critical = c
BY DEF SlotType, Alike

\* kill_mode
LEMMA ModeStored ==
  ASSUME NEW s \in SlotType
  PROVE  LET e == [s EXCEPT !.kill_mode = TRUE]
         IN  e \in SlotType /\ Alike(s, e) /\ e.critical = s.critical
BY DEF SlotType, Alike

\* kill_state, the list of children, exit_wait_cond
LEMMA StateStored ==
  ASSUME NEW s \in SlotType, NEW n \in 0..11
  PROVE  LET e == [s EXCEPT !.kill_state = n]
         IN  /\ e \in SlotType /\ e.kill_state = n
             /\ e.id = s.id /\ e.ppid = s.ppid /\ e.kids = s.kids /\ e.kill_mode = s.kill_mode
             /\ e.critical = s.critical /\ e.exit_wait = s.exit_wait
BY DEF SlotType

\* the list of children,
LEMMA KidsStored ==
  ASSUME NEW s \in SlotType, NEW k \in Seq(Pids)
  PROVE  LET e == [s EXCEPT !.kids = k]
         IN  /\ e \in SlotType /\ e.kids = k
             /\ e.id = s.id /\ e.ppid = s.ppid /\ e.kill_mode = s.kill_mode
             /\ e.kill_state = s.kill_state /\ e.critical = s.critical /\ e.exit_wait = s.exit_wait
BY DEF SlotType

\* the exit condition,
LEMMA ExitStored ==
  ASSUME NEW s \in SlotType, NEW n \in Nat
  PROVE  LET e == [s EXCEPT !.exit_wait = n]
         IN  /\ e \in SlotType /\ e.exit_wait = n
             /\ e.id = s.id /\ e.ppid = s.ppid /\ e.kids = s.kids /\ e.kill_mode = s.kill_mode
             /\ e.kill_state = s.kill_state /\ e.critical = s.critical
BY DEF SlotType

\* and the id.
LEMMA IdStored ==
  ASSUME NEW s \in SlotType
  PROVE  LET e == [s EXCEPT !.id = FALSE]
         IN  /\ e \in SlotType /\ e.id = FALSE
             /\ e.ppid = s.ppid /\ e.kids = s.kids /\ e.kill_mode = s.kill_mode
             /\ e.kill_state = s.kill_state /\ e.critical = s.critical /\ e.exit_wait = s.exit_wait
BY DEF SlotType

\* The slot that createConfigurableProcess has found
LEMMA SlotTaken ==
  ASSUME NEW s \in SlotType
  PROVE  LET e == [s EXCEPT !.id = TRUE, !.kill_mode = FALSE, !.terminated = 0,
                            !.ppid = NoPid, !.exit_wait = 0]
         IN  /\ e \in SlotType /\ e.id /\ ~e.kill_mode /\ e.ppid = NoPid /\ e.exit_wait = 0
             /\ e.kids = s.kids /\ e.kill_state = s.kill_state /\ e.critical = s.critical
<1> DEFINE a == [s EXCEPT !.id = TRUE]
           b == [s EXCEPT !.id = TRUE, !.kill_mode = FALSE]
           c == [s EXCEPT !.id = TRUE, !.kill_mode = FALSE, !.terminated = 0]
           d == [s EXCEPT !.id = TRUE, !.kill_mode = FALSE, !.terminated = 0, !.ppid = NoPid]
           e == [s EXCEPT !.id = TRUE, !.kill_mode = FALSE, !.terminated = 0,
                          !.ppid = NoPid, !.exit_wait = 0]
<1>1. a \in SlotType
  BY DEF SlotType
<1>2. b \in SlotType
  BY <1>1 DEF SlotType
<1>3. c \in SlotType
  BY <1>2 DEF SlotType
<1>4. d \in SlotType
  BY <1>3 DEF SlotType
<1>5. e \in SlotType
  BY <1>4 DEF SlotType
<1>6. QED
  BY <1>5 DEF SlotType

\* ... and fills.
LEMMA SlotFilled ==
  ASSUME NEW s \in SlotType, NEW q \in Pids
  PROVE  LET e == [s EXCEPT !.critical = "free", !.ppid = q, !.kill_state = 0, !.kill_tryes = 0,
                            !.signum = "none"]
         IN  /\ e \in SlotType /\ e.critical = "free" /\ e.ppid = q /\ e.kill_state = 0
             /\ e.id = s.id /\ e.kids = s.kids /\ e.kill_mode = s.kill_mode /\ e.exit_wait = s.exit_wait
<1> DEFINE a == [s EXCEPT !.critical = "free"]
           b == [s EXCEPT !.critical = "free", !.ppid = q]
           c == [s EXCEPT !.critical = "free", !.ppid = q, !.kill_state = 0]
           d == [s EXCEPT !.critical = "free", !.ppid = q, !.kill_state = 0, !.kill_tryes = 0]
           e == [s EXCEPT !.critical = "free", !.ppid = q, !.kill_state = 0, !.kill_tryes = 0,
                          !.signum = "none"]
<1>1. a \in SlotType
  BY DEF SlotType
<1>2. b \in SlotType
  BY <1>1 DEF SlotType
<1>3. c \in SlotType
  <2>1. \A n \in 0..11 : [b EXCEPT !.kill_state = n] \in SlotType
    BY <1>2, StateStored
  <2>2. 0 \in 0..11
    OBVIOUS
  <2>3. QED
    BY <2>1, <2>2
<1>4. d \in SlotType
  BY <1>3 DEF SlotType
<1>5. e \in SlotType
  BY <1>4 DEF SlotType
<1>6. QED
  BY <1>5 DEF SlotType

\* The new exit condition
LEMMA SlotListed ==
  ASSUME NEW s \in SlotType, NEW n \in Nat
  PROVE  LET e == [s EXCEPT !.dtors = {}, !.handler = FALSE, !.exit_wait = n]
         IN  /\ e \in SlotType /\ e.exit_wait = n
             /\ e.id = s.id /\ e.ppid = s.ppid /\ e.kids = s.kids /\ e.kill_mode = s.kill_mode
             /\ e.kill_state = s.kill_state /\ e.critical = s.critical
<1> DEFINE a == [s EXCEPT !.dtors = {}]
           b == [s EXCEPT !.dtors = {}, !.handler = FALSE]
           e == [s EXCEPT !.dtors = {}, !.handler = FALSE, !.exit_wait = n]
<1>1. a \in SlotType
  BY DEF SlotType
<1>2. b \in SlotType
  BY <1>1 DEF SlotType
<1>3. e \in SlotType
  BY <1>2 DEF SlotType
<1>4. QED
  BY <1>3 DEF SlotType

\* Who runs is at his place.
LEMMA Here ==
  ASSUME IndInv, NEW p \in Pids, pc[p] # "none"
  PROVE  /\ TypeOK /\ PlaceAt(p) /\ StateAt(p) /\ KidAt(p) /\ MakesAt(p) /\ WaitsAt(p)
         /\ KidDone(p) /\ Lives(p) /\ \A q \in Pids : ChildAt(p, q)
         /\ back[p] \in {"main", "kid_finish", "kid_next"} /\ aim[p] \in Pids \cup {NoPid}
         /\ proc[p] \in SlotType /\ proc[p].kill_state \in 0..11
         /\ proc[p].kids \in Seq(Pids) /\ Len(proc[p].kids) \in Nat
<1>1. TypeOK /\ LocalAt(p) /\ MakesAt(p) /\ WaitsAt(p) /\ KidDone(p) /\ \A q \in Pids : ChildAt(p, q)
  BY DEF IndInv, LocalExact, MakesExact, WaitsExact, KidsDone, ChildrenExact
<1>2. QED
  BY <1>1, Back, States DEF LocalAt, PlaceAt

\* A parent that stays in the states before 4, or after, keeps its children.
LEMMA ParentKeeps ==
  ASSUME IndInv, TypeOK', NEW p \in Pids, NEW S \in SUBSET Pids, Frame(S),
         \A x \in Pids : Grows(x), Lives(p)' = Lives(p),
         proc'[p].kids = proc[p].kids, ~Fresh(p)', pc[p] \notin MakePoints,
         proc[p].kill_state <= 3 => proc'[p].kill_state <= 3
  PROVE  \A x \in Pids : ChildAt(p, x)'
<1>1. ASSUME NEW x \in Pids PROVE ChildAt(p, x)'
  <2>1. ChildAt(p, x) /\ (ChildOf(x, p)' => ChildOf(x, p) /\ (Over(x) => Over(x)')) /\ cut \subseteq cut'
    BY Kin DEF Frame, IndInv, ChildrenExact
  <2>2. InList(p, x)' = InList(p, x)
    BY DEF InList
  <2>3. QED
    BY <2>1, <2>2 DEF ChildAt
<1>2. QED
  BY <1>1

\* A step of p that changes no condition: what is left to show is about p.
LEMMA SoloStep ==
  ASSUME Setting, IndInv, NEW p \in Pids, NEW to \in Points, NEW x \in Pids, NEW e \in SlotType,
         Moved(p, to, x, e), UNCHANGED <<conds, asked, requests>>,
         pc[p] \notin {"none", "new", "filled", "created", "unstarted", "terminated"},
         to \notin CreatePoints \cup {"none"},
         pc[p] = "start" => p \in cut' \/ \A q \in Pids : p \notin Orphaned(q),
         x # p => Alike(proc[x], e),
         e.id = proc[x].id, e.ppid = proc[x].ppid, e.kill_state >= proc[x].kill_state,
         \/ e.critical = proc[x].critical
         \/ proc[x].critical # "none" /\ e.critical = "held",
         e.exit_wait = proc[x].exit_wait \/ Over(x),
         PlaceAt(p)', StateAt(p)', KidAt(p)', WaitsAt(p)', KidDone(p)',
         \/ \A q \in Pids : ChildAt(p, q)'
         \/ /\ proc'[p].kids = proc[p].kids /\ to \notin {"unstarted", "start"}
            /\ pc[p] \notin MakePoints
            /\ proc[p].kill_state <= 3 => proc'[p].kill_state <= 3
  PROVE  IndInv'
<1>1. TypeOK
  BY DEF IndInv
<1>2. TypeOK'
  BY <1>1, MoveTyped DEF TypeOK, TablesOK, KernelOK, HistoryOK
<1>3. Frame({p}) /\ \A r \in Pids : Grows(r) /\ Lives(r)' = Lives(r)
  BY MoveFrame
<1>4. pc'[p] = to /\ \A r \in Pids : proc'[r].id = proc[r].id
  BY <1>1, MoveSeen
<1>5. \A q \in Pids : ChildAt(p, q)'
  BY <1>2, <1>3, <1>4, ParentKeeps DEF Fresh
<1>6. MakesAt(p)'
  BY <1>4 DEF MakesAt, CreatePoints, MakePoints
<1>7. Shows(p)
  BY <1>5, <1>6 DEF Shows, LocalAt
<1>8. {p} \in SUBSET Pids
  OBVIOUS
<1>9. /\ LocalExact' /\ MakesExact' /\ WaitsExact' /\ SlotsExact' /\ ExitsExact'
      /\ ChildrenExact' /\ KidsDone'
  BY <1>2, <1>3, <1>7, <1>8, FrameKeeps
<1>10. RequestsExact' /\ FirstComesFirst' /\ FirstPending'
  BY <1>4, RequestsStay DEF Moved
<1>11. QED
  BY <1>2, <1>9, <1>10 DEF IndInv

\* A step that changes nothing of the slot that the invariant speaks of
LEMMA PlainStep ==
  ASSUME Setting, IndInv, NEW p \in Pids, NEW to \in Points, NEW x \in Pids, NEW e \in SlotType,
         Moved(p, to, x, e), UNCHANGED <<conds, asked, requests>>,
         pc[p] \notin {"none", "unstarted", "terminated"} \cup CreatePoints,
         to \notin CreatePoints \cup {"none", "unstarted", "start"},
         pc[p] = "start" => p \in cut' \/ \A q \in Pids : p \notin Orphaned(q),
         Alike(proc[x], e),
         \/ e.critical = proc[x].critical
         \/ proc[x].critical # "none" /\ e.critical = "held",
         PlaceAt(p)', StateAt(p)', KidAt(p)', WaitsAt(p)', KidDone(p)'
  PROVE  IndInv'
<1>1. TypeOK /\ proc[x].kill_state \in 0..11 /\ proc[p].kill_state \in 0..11
  BY States DEF IndInv
<1>2. Alike(proc[p], proc'[p])
  BY <1>1, MoveSeen DEF Alike
<1>3. QED
  BY <1>1, <1>2, SoloStep DEF Alike, CreatePoints, MakePoints

\* The points of a task that are in no call, and what is said there
PlainPoints == {"main", "kill_impl", "handler", "handled", "try", "stages", "finished",
                "state0", "argv", "dtor", "kid"}
\* A task that goes to a point in no call is where it says it is.
LEMMA PlainPoint ==
  ASSUME IndInv, NEW p \in Pids, pc[p] # "none", pc'[p] \in PlainPoints,
         pc'[p] \in RunPoints => p \in ready',
         pc'[p] = "main" => InMain(p),
         pc'[p] = "state0" => proc[p].kill_state = 0,
         pc'[p] = "argv" => proc[p].kill_state = 2,
         pc'[p] = "dtor" => proc[p].kill_state = 5 /\ aim'[p] \in Pids,
         pc'[p] = "kid" => proc[p].kill_state = 3 /\ at'[p] \in 1..Len(proc[p].kids),
         Alike(proc[p], proc'[p]), UNCHANGED <<asked, helping>>, cut \subseteq cut'
  PROVE  PlaceAt(p)' /\ StateAt(p)' /\ KidAt(p)' /\ WaitsAt(p)' /\ KidDone(p)'
<1>1. PlaceAt(p) /\ StateAt(p) /\ KidAt(p) /\ Lives(p)
  BY Here
<1>2. Lives(p)'
  BY <1>1 DEF Lives, Alike
<1>3. PlaceAt(p)'
  BY <1>2 DEF PlaceAt, PlainPoints, CallPoints, StrikePoints, AwaitPoints, InOwn
<1>4. StateAt(p)'
  BY <1>1, <1>2 DEF StateAt, PlainPoints, CallPoints, StrikePoints, AwaitPoints, CreatePoints,
    InOwn, InMain, Calls, Alike
<1>5. KidAt(p)'
  BY <1>1 DEF KidAt, PlainPoints, CallPoints, StrikePoints, AwaitPoints, InKids, Calls, Alike
<1>6. WaitsAt(p)' /\ KidDone(p)'
  BY DEF WaitsAt, KidDone, PlainPoints
<1>7. QED
  BY <1>3, <1>4, <1>5, <1>6

\* ... and those in a call, with the walk over the children that makes calls.
LEMMA CallPoint ==
  ASSUME IndInv, NEW p \in Pids, pc[p] # "none",
         pc'[p] \in CallPoints \cup {"kid_finish", "kid_next"},
         pc'[p] \in RunPoints => p \in ready',
         NEW c \in Pids, aim'[p] = c, at'[p] = at[p],
         back'[p] \in {"main", "kid_finish", "kid_next"},
         \/ c # p /\ InMain(p) /\ back'[p] = "main" /\ pc'[p] \in CallPoints
         \/ c # p /\ InKids(p) /\ c = proc[p].kids[at[p]]
              /\ (pc'[p] \in CallPoints => back'[p] # "main")
         \/ c = p /\ proc[p].kill_state = 0 /\ pc'[p] \in {"take", "queue", "locked"},
         pc'[p] \in AwaitPoints => back'[p] # "kid_finish",
         pc'[p] \in StrikePoints => back'[p] # "kid_next" \/ c = p,
         Alike(proc[p], proc'[p]), UNCHANGED <<asked, helping>>, cut \subseteq cut'
  PROVE  PlaceAt(p)' /\ StateAt(p)' /\ KidAt(p)'
<1>1. PlaceAt(p) /\ StateAt(p) /\ KidAt(p) /\ Lives(p)
  BY Here
<1>2. Lives(p)'
  BY <1>1 DEF Lives, Alike
<1>3. PlaceAt(p)'
  BY <1>2 DEF PlaceAt, CallPoints, StrikePoints, AwaitPoints, InOwn
<1>4. InMain(p)' => InMain(p)
  BY DEF CallPoints, StrikePoints, AwaitPoints, InMain, Calls, CreatePoints
<1>5. InKids(p)' => InKids(p) /\ c = proc[p].kids[at[p]]
  BY DEF CallPoints, StrikePoints, AwaitPoints, InKids, Calls
<1>6. StateAt(p)'
  BY <1>1, <1>2, <1>4 DEF StateAt, CallPoints, StrikePoints, AwaitPoints, InOwn, Alike
<1>7. KidAt(p)'
  BY <1>1, <1>5 DEF KidAt, Alike
<1>8. QED
  BY <1>3, <1>6, <1>7

\* A step may store what is there already.
LEMMA Same == ASSUME TypeOK, NEW p \in Pids
  PROVE proc = [proc EXCEPT ![p] = proc[p]] /\ Alike(proc[p], proc[p])
BY DEF TypeOK, TablesOK, Alike

\* A step to a point in no call that stores nothing
LEMMA PlainGo ==
  ASSUME Setting, IndInv, NEW p \in Pids, NEW to \in PlainPoints, NEW e \in SlotType,
         Runs(p), Moved(p, to, p, e), UNCHANGED <<conds, asked, requests>>,
         pc[p] \notin {"none", "unstarted", "terminated"} \cup CreatePoints,
         pc[p] = "start" => p \in cut' \/ \A q \in Pids : p \notin Orphaned(q),
         Alike(proc[p], e),
         \/ e.critical = proc[p].critical
         \/ proc[p].critical # "none" /\ e.critical = "held",
         to = "main" => InMain(p),
         to = "state0" => proc[p].kill_state = 0,
         to = "argv" => proc[p].kill_state = 2,
         to = "dtor" => proc[p].kill_state = 5 /\ aim'[p] \in Pids,
         to = "kid" => proc[p].kill_state = 3 /\ at'[p] \in 1..Len(proc[p].kids)
  PROVE  IndInv'
<1>1. to \in Points
  BY DEF PlainPoints, Points, RunPoints, StillPoints
<1>2. TypeOK
  BY DEF IndInv
<1>3. pc'[p] = to /\ proc'[p] = e /\ (to \in RunPoints => p \in ready')
  BY <1>1, <1>2, MoveSeen, Runner
<1>4. UNCHANGED helping /\ cut \subseteq cut'
  BY DEF Moved
<1>5. PlaceAt(p)' /\ StateAt(p)' /\ KidAt(p)' /\ WaitsAt(p)' /\ KidDone(p)'
  BY <1>3, <1>4, PlainPoint
<1>6. to \notin CreatePoints \cup {"none", "unstarted", "start"}
  BY DEF PlainPoints, CreatePoints
<1>7. QED
  BY <1>1, <1>5, <1>6, PlainStep

\* A main and the way into kill_impl
LEMMA MainPreserves ==
  ASSUME Setting, IndInv, NEW p \in Pids
  PROVE  Exit(p) \/ Sleep(p) \/ Signal(p) => IndInv'
<1> USE DEF Goto, Block, locals, helper, history
<1>1. TypeOK /\ proc[p] \in SlotType /\ proc = [proc EXCEPT ![p] = proc[p]] /\ Alike(proc[p], proc[p])
  BY Same, States DEF IndInv
<1>2. kills \in Nat /\ stops \in Nat /\ cut \subseteq Pids
  BY <1>1 DEF TypeOK, HistoryOK
<1>3. ASSUME Exit(p) PROVE IndInv'
  <2>1. Runs(p) /\ pc[p] \in {"main", "handler"} /\ Moved(p, "kill_impl", p, proc[p])
        /\ UNCHANGED <<conds, asked, requests>>
    BY <1>1, <1>2, <1>3 DEF Exit, Moved
  <2>2. QED
    BY <1>1, <2>1, PlainGo DEF PlainPoints, CreatePoints
<1>4. ASSUME Sleep(p) PROVE IndInv'
  <2>1. PICK to \in {"main", "handled"} :
          /\ Runs(p) /\ Moved(p, to, p, proc[p]) /\ UNCHANGED <<conds, asked, requests>>
          /\ pc[p] \in {"main", "handler"} /\ (to = "main" => pc[p] = "main")
    BY <1>1, <1>2, <1>4 DEF Sleep, Moved, RunPoints, CallPoints, StillPoints, StrikePoints,
      AwaitPoints, CreatePoints
  <2>2. QED
    BY <1>1, <2>1, PlainGo DEF PlainPoints, CreatePoints, InMain
<1>5. ASSUME Signal(p) PROVE IndInv'
  <2> DEFINE e == [proc[p] EXCEPT !.handler = TRUE]
  <2>1. e \in SlotType /\ Alike(proc[p], e) /\ e.critical = proc[p].critical
    BY <1>1, OwnStored, PairStored DEF Plainly
  <2>2. Runs(p) /\ pc[p] = "main" /\ Moved(p, "main", p, e) /\ UNCHANGED <<conds, asked, requests>>
    BY <1>2, <1>5 DEF Signal, Moved
  <2> HIDE DEF e
  <2>3. QED
    BY <2>1, <2>2, PlainGo DEF PlainPoints, CreatePoints, InMain
<1>6. QED
  BY <1>3, <1>4, <1>5

\* The entry of kill_impl, its tries and state 2 preserve the invariant;
LEMMA EntryPreserves ==
  ASSUME Setting, IndInv, NEW p \in Pids
  PROVE  CallHandler(p) \/ KillImplAgain(p) \/ KillImpl(p) \/ Try(p) \/ Stage2(p) => IndInv'
<1> USE DEF Goto, Block, locals, helper, history
<1>1. TypeOK /\ proc[p] \in SlotType /\ proc = [proc EXCEPT ![p] = proc[p]] /\ Alike(proc[p], proc[p])
  BY Same, States DEF IndInv
<1>2. kills \in Nat /\ stops \in Nat /\ cut \subseteq Pids
  BY <1>1 DEF TypeOK, HistoryOK
<1>3. ASSUME CallHandler(p) PROVE IndInv'
  <2> DEFINE e == [proc[p] EXCEPT !.handler = FALSE, !.signum = "none"]
  <2>1. e \in SlotType /\ Alike(proc[p], e) /\ e.critical = proc[p].critical
    BY <1>1, OwnStored, PairStored DEF Plainly
  <2>2. Runs(p) /\ pc[p] = "kill_impl" /\ Moved(p, "handler", p, e) /\ UNCHANGED <<conds, asked, requests>>
    BY <1>2, <1>3 DEF CallHandler, Moved
  <2> HIDE DEF e
  <2>3. QED
    BY <2>1, <2>2, PlainGo DEF PlainPoints, CreatePoints
<1>4. ASSUME KillImplAgain(p) PROVE IndInv'
  <2>1. Runs(p) /\ pc[p] = "kill_impl" /\ Moved(p, "finished", p, proc[p]) /\ UNCHANGED <<conds, asked, requests>>
    BY <1>1, <1>2, <1>4 DEF KillImplAgain, Moved, RunPoints, CallPoints, StillPoints, CreatePoints
  <2>2. QED
    BY <1>1, <2>1, PlainGo DEF PlainPoints, CreatePoints
<1>5. ASSUME KillImpl(p) PROVE IndInv'
  <2> DEFINE g == IF pc[p] = "kill_impl" THEN "none" ELSE proc[p].signum
             e == [proc[p] EXCEPT !.terminated = 2, !.signum = g]
  <2>1. g \in {"none", "kill_", "SIGTERM"}
    BY <1>1, SlotFields
  <2> HIDE DEF g
  <2>2. e \in SlotType /\ Alike(proc[p], e) /\ e.critical = proc[p].critical
    <3>1. \A t \in {0, 1, 2} : Plainly(proc[p], [proc[p] EXCEPT !.terminated = t, !.signum = g])
      BY <1>1, <2>1, PairStored
    <3>2. Plainly(proc[p], e)
      BY <3>1
    <3>3. QED
      BY <3>2 DEF Plainly
  <2>3. Runs(p) /\ pc[p] \in {"kill_impl", "handler", "handled"} /\ pc' = [pc EXCEPT ![p] = "try"]
    BY <1>5 DEF KillImpl
  <2>4. Moved(p, "try", p, e) /\ UNCHANGED <<conds, asked, requests>>
    BY <1>2, <1>5 DEF KillImpl, Moved, g
  <2> HIDE DEF e
  <2>5. QED
    BY <2>2, <2>3, <2>4, PlainGo DEF PlainPoints, CreatePoints
<1>6. ASSUME Try(p) PROVE IndInv'
  <2> DEFINE n == IF proc[p].kill_tryes > MaxTries THEN proc[p].kill_tryes ELSE proc[p].kill_tryes + 1
             e == [proc[p] EXCEPT !.kill_tryes = n]
  <2>1. n \in Nat
    BY <1>1, SlotFields
  <2> HIDE DEF n
  <2>2. e \in SlotType /\ Alike(proc[p], e) /\ e.critical = proc[p].critical
    <3>1. \A m \in Nat : Plainly(proc[p], [proc[p] EXCEPT !.kill_tryes = m])
      BY <1>1, OwnStored
    <3>2. Plainly(proc[p], e)
      BY <2>1, <3>1
    <3>3. QED
      BY <3>2 DEF Plainly
  <2>3. PICK to \in {"finished", "stages"} :
          Runs(p) /\ pc[p] = "try" /\ Moved(p, to, p, e) /\ UNCHANGED <<conds, asked, requests>>
    BY <1>2, <1>6 DEF Try, Moved, n, RunPoints, CallPoints, StillPoints, CreatePoints
  <2> HIDE DEF e
  <2>4. QED
    BY <2>2, <2>3, PlainGo DEF PlainPoints, CreatePoints
<1>7. ASSUME Stage2(p) PROVE IndInv'
  <2>1. Runs(p) /\ pc[p] = "stages" /\ Moved(p, "argv", p, proc[p]) /\ UNCHANGED <<conds, asked, requests>>
        /\ proc[p].kill_state = 2
    BY <1>1, <1>2, <1>7 DEF Stage2, InState, Moved
  <2>2. QED
    BY <1>1, <2>1, PlainGo DEF PlainPoints, CreatePoints
<1>8. QED
  BY <1>3, <1>4, <1>5, <1>6, <1>7

\* A dtor is taken out of its cell.
LEMMA TakeDtorPreserves == ASSUME Setting, IndInv, NEW p \in Pids, TakeDtor(p) PROVE IndInv'
<1> USE DEF Goto, locals, helper, history
<1>1. proc[p] \in SlotType /\ kills \in Nat /\ stops \in Nat /\ cut \subseteq Pids
  BY States DEF IndInv, TypeOK, HistoryOK
<1>2. PICK c \in proc[p].dtors :
        /\ aim' = [aim EXCEPT ![p] = c] /\ proc' = [proc EXCEPT ![p].dtors = @ \ {c}]
  BY DEF TakeDtor
<1> DEFINE e == [proc[p] EXCEPT !.dtors = proc[p].dtors \ {c}]
<1>3. proc[p].dtors \in SUBSET Pids /\ c \in Pids /\ proc[p].dtors \ {c} \in SUBSET Pids
  BY <1>1, SlotFields
<1>4. e \in SlotType /\ Alike(proc[p], e) /\ e.critical = proc[p].critical
  BY <1>1, <1>3, OwnStored, PairStored DEF Plainly
<1>5. Runs(p) /\ pc[p] = "stages" /\ proc[p].kill_state = 5
  BY DEF TakeDtor, InState
<1>6. Moved(p, "dtor", p, e) /\ UNCHANGED <<conds, asked, requests>>
  BY <1>1, <1>2, <1>3 DEF TakeDtor, Moved
<1>8. aim'[p] \in Pids
  BY <1>2, <1>3 DEF IndInv, TypeOK, TablesOK
<1> HIDE DEF e
<1>7. QED
  BY <1>4, <1>5, <1>6, <1>8, PlainGo DEF PlainPoints, CreatePoints

\* handle sets the lists up for a new process, and starts its death otherwise.
LEMMA HandlePreserves == ASSUME Setting, IndInv, NEW p \in Pids, Handle(p) PROVE IndInv'
<1> USE DEF Goto, locals, helper, history
<1>1. /\ TypeOK /\ PlaceAt(p) /\ StateAt(p) /\ KidAt(p) /\ Lives(p) /\ proc[p] \in SlotType
      /\ proc[p].kill_state \in 0..11 /\ \A q \in Pids : ChildAt(p, q)
      /\ proc = [proc EXCEPT ![p] = proc[p]] /\ Alike(proc[p], proc[p])
  BY Here, Same DEF Handle
<1>2. kills \in Nat /\ stops \in Nat /\ cut' \subseteq Pids /\ cut \subseteq cut'
  BY <1>1 DEF Handle, TypeOK, HistoryOK
<1>3. p \in cut' \/ \A q \in Pids : p \notin Orphaned(q)
  BY DEF Handle
<1>4. Runs(p) /\ pc[p] = "start" /\ UNCHANGED <<conds, asked, requests>>
  BY DEF Handle
<1>5. CASE proc[p].kill_mode
  <2>1. proc' = proc
    BY <1>1, <1>5 DEF Handle, SlotType
  <2>2. Moved(p, "kill_impl", p, proc[p])
    BY <1>1, <1>2, <1>5, <2>1 DEF Handle, Moved
  <2>3. QED
    BY <1>1, <1>3, <1>4, <2>2, PlainGo DEF PlainPoints, CreatePoints
<1>6. CASE ~proc[p].kill_mode
  <2> DEFINE e == [proc[p] EXCEPT !.kids = << >>]
  <2>1. << >> \in Seq(Pids) /\ Len(<< >>) = 0
    OBVIOUS
  <2>2. /\ e \in SlotType /\ e.kids = << >>
        /\ e.id = proc[p].id /\ e.ppid = proc[p].ppid /\ e.kill_mode = proc[p].kill_mode
        /\ e.kill_state = proc[p].kill_state /\ e.critical = proc[p].critical
        /\ e.exit_wait = proc[p].exit_wait
    BY <1>1, <2>1, KidsStored
  <2>3. Moved(p, "main", p, e)
    BY <1>2, <1>6 DEF Handle, Moved
  <2> HIDE DEF e
  <2>4. "main" \in Points
    BY DEF Points, StillPoints
  <2>5. proc'[p] = e /\ pc'[p] = "main" /\ helping' = helping
    <3>1. proc'[p] = e /\ pc'[p] = "main"
      BY <1>1, <2>2, <2>3, <2>4, MoveSeen
    <3>2. QED
      BY <3>1 DEF Handle
  <2>6. p \notin cut' => p \notin cut /\ proc[p].kill_state = 0
    BY <1>1, <1>2, <1>4, <1>6 DEF StateAt
  <2>7. Lives(p)'
    BY <1>1, <2>2, <2>5 DEF Lives
  <2>8. PlaceAt(p)'
    BY <1>1, <2>5, <2>7 DEF PlaceAt, InOwn, RunPoints, CallPoints, StillPoints, CreatePoints, StrikePoints,
      AwaitPoints
  <2>9. StateAt(p)'
    BY <1>1, <1>4, <2>2, <2>5, <2>6, <2>7 DEF StateAt, InOwn, CallPoints, StrikePoints, AwaitPoints
  <2>10. KidAt(p)' /\ WaitsAt(p)' /\ KidDone(p)'
    BY <2>1, <2>2, <2>5 DEF KidAt, WaitsAt, KidDone, InKids, Calls, CallPoints, StrikePoints, AwaitPoints
  <2>11. ASSUME NEW q \in Pids PROVE ChildAt(p, q)'
    <3>1. p \notin cut' /\ ChildOf(q, p) => Over(q)
      BY <1>1, <1>4, <1>6, <2>6 DEF ChildAt, Fresh
    <3>2. proc'[q].id = proc[q].id /\ proc'[q].ppid = proc[q].ppid
          /\ proc'[q].kill_state = proc[q].kill_state /\ orphans' = orphans
      <4>1. orphans' = orphans
        BY DEF Handle
      <4>2. QED
        BY <1>1, <2>2, <2>3, <2>4, <4>1, MoveSeen
    <3>3. QED
      BY <3>1, <3>2 DEF ChildAt, ChildOf, Over
  <2>12. QED
    BY <1>1, <1>3, <1>4, <2>2, <2>3, <2>4, <2>8, <2>9, <2>10, <2>11, SoloStep DEF CreatePoints
<1>7. QED
  BY <1>5, <1>6

\* The new process joins the list of its parent.
LEMMA JoinPreserves == ASSUME Setting, IndInv, NEW p \in Pids, JoinParent(p) PROVE IndInv'
<1> USE DEF Goto, locals, helper, history
<1> DEFINE k == Append(proc[p].kids, aim[p])
           e == [proc[p] EXCEPT !.kids = k]
<1>4. Runs(p) /\ pc[p] = "listed" /\ UNCHANGED <<conds, asked, requests>>
  BY DEF JoinParent
<1>1. /\ TypeOK /\ PlaceAt(p) /\ StateAt(p) /\ KidAt(p) /\ MakesAt(p) /\ Lives(p) /\ proc[p] \in SlotType
      /\ proc[p].kill_state \in 0..11 /\ \A q \in Pids : ChildAt(p, q)
      /\ proc[p].kids \in Seq(Pids) /\ Len(proc[p].kids) \in Nat
  BY <1>4, Here
<1>2. kills \in Nat /\ stops \in Nat /\ cut \subseteq Pids
  BY <1>1 DEF TypeOK, HistoryOK
<1>3. aim[p] \in Pids \ {p}
  BY <1>1, <1>4 DEF MakesAt, CreatePoints
<1>5. /\ k \in Seq(Pids) /\ Len(k) = Len(proc[p].kids) + 1
      /\ \A i \in 1..Len(proc[p].kids) : k[i] = proc[p].kids[i]
      /\ k[Len(proc[p].kids) + 1] = aim[p]
  BY <1>1, <1>3, AppendFacts
<1>6. Moved(p, "joined", p, e)
  BY <1>2 DEF JoinParent, Moved
<1> HIDE DEF k
<1>7. /\ e \in SlotType /\ e.kids = k
      /\ e.id = proc[p].id /\ e.ppid = proc[p].ppid /\ e.kill_mode = proc[p].kill_mode
      /\ e.kill_state = proc[p].kill_state /\ e.critical = proc[p].critical
      /\ e.exit_wait = proc[p].exit_wait
  BY <1>1, <1>5, KidsStored
<1> HIDE DEF e
<1>8. "joined" \in Points /\ "joined" \in RunPoints
  BY DEF Points, RunPoints
<1>9. proc'[p] = e /\ pc'[p] = "joined" /\ helping' = helping /\ cut' = cut /\ orphans' = orphans /\ p \in ready'
  <2>1. p \in ready
    BY <1>1, <1>4 DEF PlaceAt, RunPoints, CreatePoints
  <2>2. QED
    <3>1. proc'[p] = e /\ pc'[p] = "joined" /\ ready' = ready
      BY <1>1, <1>6, <1>7, <1>8, MoveSeen
    <3>2. QED
      BY <2>1, <3>1 DEF JoinParent
<1>10. Lives(p)' /\ InMain(p)
  BY <1>1, <1>4, <1>7, <1>9 DEF Lives, InMain, CreatePoints
<1>11. PlaceAt(p)'
  BY <1>3, <1>4, <1>9, <1>10 DEF JoinParent, PlaceAt, InOwn, CallPoints, StrikePoints, AwaitPoints
<1>12. StateAt(p)'
  BY <1>1, <1>4, <1>7, <1>9, <1>10 DEF StateAt, InOwn, CallPoints, StrikePoints, AwaitPoints
<1>13. WaitsAt(p)' /\ KidDone(p)' /\ ~InKids(p)'
  BY <1>9 DEF WaitsAt, KidDone, InKids, Calls, CallPoints, StrikePoints, AwaitPoints
<1>14. \A i \in 1..Len(k) : k[i] # p
  BY <1>1, <1>3, <1>5 DEF KidAt
<1>15. KidAt(p)'
  BY <1>7, <1>9, <1>13, <1>14 DEF KidAt
<1>16. ASSUME NEW q \in Pids PROVE ChildAt(p, q)'
  <2>1. /\ proc'[q].id = proc[q].id /\ proc'[q].ppid = proc[q].ppid
        /\ proc'[q].kill_state = proc[q].kill_state
    BY <1>1, <1>6, <1>7, <1>8, MoveSeen
  <2>2. InList(p, q) \/ aim[p] = q => InList(p, q)'
    <3>1. \A i \in 1..Len(proc[p].kids) : i \in 1..Len(k)
      BY <1>1, <1>5
    <3>2. Len(proc[p].kids) + 1 \in 1..Len(k)
      BY <1>1, <1>5
    <3>3. QED
      BY <1>5, <1>7, <1>9, <3>1, <3>2 DEF InList
  <2>3. ~Fresh(p)'
    BY <1>9 DEF Fresh
  <2>4. QED
    BY <1>1, <1>7, <1>9, <1>10, <2>1, <2>2, <2>3 DEF ChildAt, ChildOf, Over
<1>17. QED
  BY <1>1, <1>4, <1>6, <1>7, <1>8, <1>11, <1>12, <1>13, <1>15, <1>16, SoloStep DEF CreatePoints

\* kill_impl goes on with the same state or another one.
LEMMA StateStep ==
  ASSUME Setting, IndInv, NEW p \in Pids, NEW n \in 0..11, NEW to \in {"stages", "kid"},
         Runs(p), Moved(p, to, p, [proc[p] EXCEPT !.kill_state = n]),
         UNCHANGED <<conds, asked, requests>>,
         pc[p] \in {"stages", "kid_next", "state0", "argv", "asked"}, n >= proc[p].kill_state,
         to = "kid" => n = 3 /\ at'[p] \in 1..Len(proc[p].kids),
         \/ proc[p].kill_state <= 3 => n <= 3
         \/ \A q \in Pids : p \notin cut /\ ChildOf(q, p) => Over(q)
  PROVE  IndInv'
<1> DEFINE e == [proc[p] EXCEPT !.kill_state = n]
<1>1. /\ TypeOK /\ PlaceAt(p) /\ StateAt(p) /\ KidAt(p) /\ Lives(p) /\ proc[p] \in SlotType
      /\ proc[p].kill_state \in 0..11
  BY Here
<1>2. /\ e \in SlotType /\ e.kill_state = n
      /\ e.id = proc[p].id /\ e.ppid = proc[p].ppid /\ e.kids = proc[p].kids
      /\ e.kill_mode = proc[p].kill_mode /\ e.critical = proc[p].critical
      /\ e.exit_wait = proc[p].exit_wait
  BY <1>1, StateStored
<1>3. Moved(p, to, p, e)
  OBVIOUS
<1> HIDE DEF e
<1>4. to \in Points /\ to \in RunPoints /\ to \notin CreatePoints \cup {"none", "unstarted", "start"}
  BY DEF Points, RunPoints, CreatePoints
<1>5. /\ pc'[p] = to /\ proc'[p] = e /\ p \in ready' /\ \A r \in Pids \ {p} : proc'[r] = proc[r]
  BY <1>1, <1>2, <1>3, <1>4, MoveSeen, Runner
<1>6. helping' = helping /\ cut \subseteq cut' /\ orphans' = orphans
  BY <1>3 DEF Moved
<1>7. Lives(p)'
  BY <1>1, <1>2, <1>5, <1>6 DEF Lives
<1>8. PlaceAt(p)'
  BY <1>5, <1>7 DEF PlaceAt, InOwn, CallPoints, StrikePoints, AwaitPoints
<1>9. StateAt(p)'
  BY <1>1, <1>2, <1>5, <1>7
    DEF StateAt, InOwn, InMain, Calls, CallPoints, StrikePoints, AwaitPoints, CreatePoints
<1>10. KidAt(p)'
  BY <1>1, <1>2, <1>5 DEF KidAt, InKids, Calls, CallPoints, StrikePoints, AwaitPoints
<1>11. WaitsAt(p)' /\ KidDone(p)'
  BY <1>5 DEF WaitsAt, KidDone
<1>12. \/ \A q \in Pids : ChildAt(p, q)'
       \/ proc[p].kill_state <= 3 => proc'[p].kill_state <= 3
  <2>1. CASE proc[p].kill_state <= 3 => n <= 3
    BY <1>2, <1>5, <2>1
  <2>2. ASSUME \A q \in Pids : p \notin cut /\ ChildOf(q, p) => Over(q), NEW q \in Pids
        PROVE  ChildAt(p, q)'
    <3>1. proc'[q].id = proc[q].id /\ proc'[q].ppid = proc[q].ppid
      BY <1>2, <1>5
    <3>2. Over(q) => Over(q)'
      <4>1. CASE q = p
        BY <1>1, <1>2, <1>5, <4>1 DEF Over
      <4>2. CASE q # p
        BY <1>5, <4>2 DEF Over
      <4>3. QED
        BY <4>1, <4>2
    <3>3. QED
      BY <1>6, <2>2, <3>1, <3>2 DEF ChildAt, ChildOf
  <2>3. QED
    BY <2>1, <2>2
<1>13. QED
  BY <1>1, <1>2, <1>3, <1>4, <1>5, <1>8, <1>9, <1>10, <1>11, <1>12, SoloStep
    DEF CreatePoints, MakePoints

\* Who has gone through the list of children has none that is not over.
LEMMA ListDone ==
  ASSUME IndInv, NEW p \in Pids, pc[p] \in {"stages", "kid_next"},
         proc[p].kids # << >> => pc[p] = "kid_next" /\ at[p] = 1 /\ Len(proc[p].kids) = 1
  PROVE  \A q \in Pids : p \notin cut /\ ChildOf(q, p) => Over(q)
<1>1. /\ KidAt(p) /\ KidDone(p) /\ \A q \in Pids : ChildAt(p, q)
      /\ proc[p].kids \in Seq(Pids) /\ Len(proc[p].kids) \in Nat
  BY Here
<1>2. ASSUME NEW q \in Pids, p \notin cut, ChildOf(q, p), ~Over(q) PROVE FALSE
  <2>1. PICK i \in 1..Len(proc[p].kids) : proc[p].kids[i] = q
    BY <1>1, <1>2 DEF ChildAt, MakePoints, InList
  <2>2. proc[p].kids # << >>
    <3>1. ASSUME proc[p].kids = << >> PROVE FALSE
      <4>1. Len(proc[p].kids) = 0
        BY <3>1
      <4>2. QED
        BY <2>1, <4>1
    <3>2. QED
      BY <3>1
  <2>3. pc[p] = "kid_next" /\ at[p] = 1 /\ i = 1
    BY <2>1, <2>2
  <2>4. aim[p] = q
    BY <1>1, <2>1, <2>3 DEF KidAt, InKids
  <2>5. QED
    BY <1>1, <1>2, <2>3, <2>4 DEF KidDone
<1>3. QED
  BY <1>2

\* so do the states that only advance,
LEMMA StagesPreserve ==
  ASSUME Setting, IndInv, NEW p \in Pids
  PROVE  StageDone(p) \/ StagePass(p) => IndInv'
<1> USE DEF Goto, locals, helper, history, Advance
<1>1. ASSUME StageDone(p) \/ StagePass(p) PROVE IndInv'
  <2>1. pc[p] \in {"state0", "argv", "asked", "stages"} /\ Runs(p)
    BY <1>1 DEF StageDone, StagePass
  <2>2. TypeOK /\ StateAt(p) /\ proc[p] \in SlotType /\ proc[p].kill_state \in 0..11
    BY <2>1, Here
  <2>3. kills \in Nat /\ stops \in Nat /\ cut \subseteq Pids
    BY <2>2 DEF TypeOK, HistoryOK
  <2>4. proc[p].kill_state \in {0, 1, 2, 4, 5, 6, 7, 8, 9, 10}
    BY <1>1, <2>2 DEF StageDone, StagePass, InState, StateAt, InOwn
  <2> DEFINE n == proc[p].kill_state + 1
  <2>5. n \in 0..11 /\ n >= proc[p].kill_state /\ (proc[p].kill_state <= 3 => n <= 3)
    BY <2>4
  <2>6. Moved(p, "stages", p, [proc[p] EXCEPT !.kill_state = n]) /\ UNCHANGED <<conds, asked, requests>>
    BY <1>1, <2>3 DEF StageDone, StagePass, Moved
  <2> HIDE DEF n
  <2>7. QED
    BY <2>1, <2>5, <2>6, StateStep
<1>2. QED
  BY <1>1

\* State 3 and the walk over the children
LEMMA KidsPreserve ==
  ASSUME Setting, IndInv, NEW p \in Pids
  PROVE  Stage3(p) \/ KidNext(p) => IndInv'
<1> USE DEF Goto, locals, helper, history
<1>1. ASSUME Stage3(p) \/ KidNext(p) PROVE IndInv'
  <2>1. pc[p] \in {"stages", "kid_next"} /\ Runs(p)
    BY <1>1 DEF Stage3, KidNext, InState
  <2>2. /\ TypeOK /\ KidAt(p) /\ proc[p] \in SlotType /\ proc[p].kill_state \in 0..11
        /\ proc[p].kids \in Seq(Pids) /\ Len(proc[p].kids) \in Nat
    BY <2>1, Here
  <2>3. kills \in Nat /\ stops \in Nat /\ cut \subseteq Pids
    BY <2>2 DEF TypeOK, HistoryOK
  <2>4. proc[p].kill_state = 3
    BY <1>1, <2>2 DEF Stage3, KidNext, InState, KidAt, InKids
  <2>5. Len(proc[p].kids) = 0 <=> proc[p].kids = << >>
    BY <2>2, EmptySeq
  <2>6. UNCHANGED <<conds, asked, requests>>
    BY <1>1 DEF Stage3, KidNext
  <2>10. 3 \in 0..11 /\ 4 \in 0..11 /\ 3 >= proc[p].kill_state /\ 4 >= proc[p].kill_state
    BY <2>4
  <2>7. CASE \/ Stage3(p) /\ proc[p].kids = << >>
             \/ KidNext(p) /\ at[p] = 1 /\ Len(proc[p].kids) = 1
    <3>1. Moved(p, "stages", p, [proc[p] EXCEPT !.kill_state = 4])
      BY <2>3, <2>7 DEF Stage3, KidNext, Moved
    <3>2. proc[p].kids # << >> => pc[p] = "kid_next" /\ at[p] = 1 /\ Len(proc[p].kids) = 1
      BY <2>7 DEF Stage3, KidNext
    <3>3. \A q \in Pids : p \notin cut /\ ChildOf(q, p) => Over(q)
      BY <2>1, <3>2, ListDone
    <3>4. QED
      BY <2>1, <2>4, <2>6, <2>10, <3>1, <3>3, StateStep
  <2>8. CASE \/ Stage3(p) /\ proc[p].kids # << >>
             \/ KidNext(p) /\ ~(at[p] = 1 /\ Len(proc[p].kids) = 1)
    <3>1. Moved(p, "kid", p, [proc[p] EXCEPT !.kill_state = 3])
      BY <2>3, <2>8 DEF Stage3, KidNext, Moved
    <3>2. at'[p] \in 1..Len(proc[p].kids)
      <4>1. at \in [Pids -> Nat]
        BY <2>2 DEF TypeOK, TablesOK
      <4>2. CASE Stage3(p) /\ proc[p].kids # << >>
        BY <2>2, <2>5, <4>1, <4>2 DEF Stage3
      <4>3. CASE KidNext(p) /\ ~(at[p] = 1 /\ Len(proc[p].kids) = 1)
        <5>1. at[p] \in 1..Len(proc[p].kids) /\ at'[p] = IF at[p] = 1 THEN 2 ELSE 1
          BY <2>2, <4>1, <4>3 DEF KidNext, KidAt, InKids
        <5>2. PICK n \in Nat : n = Len(proc[p].kids)
          BY <2>2
        <5>3. at[p] \in 1..n /\ ~(at[p] = 1 /\ n = 1)
          BY <4>3, <5>1, <5>2
        <5>4. at'[p] \in 1..n
          BY <5>1, <5>3
        <5>5. QED
          BY <5>2, <5>4
      <4>4. QED
        BY <2>8, <4>2, <4>3
    <3>3. QED
      BY <2>1, <2>4, <2>6, <2>10, <3>1, <3>2, StateStep
  <2>9. QED
    BY <1>1, <2>7, <2>8
<1>2. QED
  BY <1>1

\* A step within a call, or of the walk over the children
LEMMA CallGo ==
  ASSUME Setting, IndInv, NEW p \in Pids, NEW to \in CallPoints \cup {"kid_finish", "kid_next"},
         NEW x \in Pids, NEW e \in SlotType, NEW c \in Pids,
         Runs(p), Moved(p, to, x, e), UNCHANGED <<conds, asked, requests>>,
         pc[p] \notin {"none", "unstarted", "terminated", "start"} \cup CreatePoints,
         Alike(proc[x], e),
         \/ e.critical = proc[x].critical
         \/ proc[x].critical # "none" /\ e.critical = "held",
         aim'[p] = c, at'[p] = at[p], back'[p] \in {"main", "kid_finish", "kid_next"},
         \/ c # p /\ InMain(p) /\ back'[p] = "main" /\ to \in CallPoints
         \/ c # p /\ InKids(p) /\ c = proc[p].kids[at[p]] /\ (to \in CallPoints => back'[p] # "main")
         \/ c = p /\ proc[p].kill_state = 0 /\ to \in {"take", "queue", "locked"},
         to \in AwaitPoints => back'[p] # "kid_finish",
         to \in StrikePoints => back'[p] # "kid_next" \/ c = p,
         WaitsAt(p)', KidDone(p)'
  PROVE  IndInv'
<1>1. to \in Points /\ to \notin CreatePoints \cup {"none", "unstarted", "start"}
  BY DEF CallPoints, StrikePoints, AwaitPoints, Points, RunPoints, StillPoints, CreatePoints
<1>2. TypeOK /\ proc[p] \in SlotType /\ helping' = helping /\ cut \subseteq cut'
  BY Here DEF Moved
<1>3. pc'[p] = to /\ proc'[x] = e /\ (to \in RunPoints => p \in ready')
      /\ \A r \in Pids \ {x} : proc'[r] = proc[r]
  BY <1>1, <1>2, MoveSeen, Runner
<1>4. Alike(proc[p], proc'[p])
  BY <1>2, <1>3 DEF Alike
<1>5. PlaceAt(p)' /\ StateAt(p)' /\ KidAt(p)'
  BY <1>2, <1>3, <1>4, CallPoint
<1>6. QED
  BY <1>1, <1>2, <1>3, <1>5, PlainStep

\* What is known of a call
LEMMA Calling ==
  ASSUME IndInv, NEW p \in Pids, pc[p] \in CallPoints
  PROVE  /\ aim[p] \in Pids /\ back[p] \in {"main", "kid_finish", "kid_next"}
         /\ pc[p] \notin {"none", "unstarted", "terminated", "start"} \cup CreatePoints
         /\ \/ aim[p] # p /\ InMain(p) /\ back[p] = "main"
            \/ aim[p] # p /\ InKids(p) /\ aim[p] = proc[p].kids[at[p]] /\ back[p] # "main"
            \/ aim[p] = p /\ proc[p].kill_state = 0 /\ pc[p] \in {"take", "queue", "locked"}
         /\ pc[p] \in AwaitPoints => back[p] # "kid_finish" /\ aim[p] # p
         /\ pc[p] \in StrikePoints => back[p] # "kid_next" \/ aim[p] = p
<1>1. pc[p] \notin {"none", "unstarted", "terminated", "start"} \cup CreatePoints
      /\ pc[p] \notin {"kid", "main", "joined"}
  BY DEF CallPoints, StrikePoints, AwaitPoints, CreatePoints
<1>2. PlaceAt(p) /\ StateAt(p) /\ KidAt(p) /\ back[p] \in {"main", "kid_finish", "kid_next"}
  BY <1>1, Here
<1>3. aim[p] \in Pids
  BY <1>2 DEF PlaceAt
<1>4. aim[p] = p => InOwn(p) /\ proc[p].kill_state = 0 /\ pc[p] \in {"take", "queue", "locked"}
  <2>1. aim[p] = p => InOwn(p)
    BY DEF InOwn
  <2>2. pc[p] # "state0"
    BY DEF CallPoints, StrikePoints, AwaitPoints
  <2>3. QED
    BY <1>2, <2>1, <2>2 DEF PlaceAt, StateAt
<1>5. aim[p] # p /\ back[p] = "main" => InMain(p)
  BY DEF InMain, Calls
<1>6. aim[p] # p /\ back[p] # "main" => InKids(p) /\ aim[p] = proc[p].kids[at[p]]
  BY <1>1, <1>2 DEF InKids, Calls, KidAt
<1>7. QED
  BY <1>1, <1>2, <1>3, <1>4, <1>5, <1>6 DEF PlaceAt

\* A call goes on.
LEMMA CallOn ==
  ASSUME Setting, IndInv, NEW p \in Pids, NEW to, NEW x \in Pids, NEW e \in SlotType,
         Runs(p), Moved(p, to, x, e), UNCHANGED <<conds, asked, requests, aim, at, back>>,
         \/ pc[p] \in StrikePoints /\ to \in StrikePoints
         \/ pc[p] \in AwaitPoints /\ to \in {"wait", "astray"},
         aim[p] = p => to \in {"take", "queue", "locked"},
         Alike(proc[x], e),
         \/ e.critical = proc[x].critical
         \/ proc[x].critical # "none" /\ e.critical = "held",
         WaitsAt(p)', KidDone(p)'
  PROVE  IndInv'
<1>1. pc[p] \in CallPoints /\ to \in CallPoints
  BY DEF CallPoints, StrikePoints, AwaitPoints
<1>2. (to \in AwaitPoints => pc[p] \in AwaitPoints) /\ (to \in StrikePoints => pc[p] \in StrikePoints)
  BY DEF StrikePoints, AwaitPoints
<1>3. PICK c \in Pids : c = aim[p]
  BY <1>1, Calling
<1>4. QED
  BY <1>1, <1>2, <1>3, Calling, CallGo

\* A call returns.
LEMMA CallReturns ==
  ASSUME Setting, IndInv, NEW p \in Pids, Runs(p), pc[p] \in CallPoints, aim[p] # p,
         Moved(p, back[p], p, proc[p]), UNCHANGED <<conds, asked, requests, aim, at, back>>,
         back[p] = "kid_next" => KidDone(p)'
  PROVE  IndInv'
<1>1. /\ back[p] \in {"main", "kid_finish", "kid_next"} /\ TypeOK /\ proc[p] \in SlotType
      /\ pc[p] \notin {"none", "unstarted", "terminated", "start"} \cup CreatePoints
      /\ Alike(proc[p], proc[p])
  BY Calling, States, Same DEF IndInv
<1>2. CASE back[p] = "main"
  <2>1. InMain(p)
    BY <1>2, Calling
  <2>2. QED
    BY <1>1, <1>2, <2>1, PlainGo DEF PlainPoints
<1>3. CASE back[p] # "main"
  <2>1. PICK c \in Pids : c = aim[p]
    BY Calling
  <2>2. PICK to \in {"kid_finish", "kid_next"} : to = back[p]
    BY <1>1, <1>3
  <2>3. to \in Points
    BY DEF Points, RunPoints
  <2>4. pc'[p] = to
    BY <1>1, <2>2, <2>3, MoveSeen
  <2>5. to \notin CallPoints \cup StrikePoints \cup AwaitPoints
    BY DEF CallPoints, StrikePoints, AwaitPoints
  <2>6. WaitsAt(p)' /\ KidDone(p)'
    BY <2>2, <2>4 DEF WaitsAt, KidDone
  <2>7. InKids(p) /\ c = proc[p].kids[at[p]] /\ c # p
    BY <1>3, <2>1, Calling
  <2>8. Moved(p, to, p, proc[p])
    BY <2>2
  <2>9. QED
    BY <1>1, <2>1, <2>5, <2>6, <2>7, <2>8, CallGo
<1>4. QED
  BY <1>2, <1>3

\* Which points are in a call of kill_hisr_chek or waitForProcessFinished
LEMMA MovePoints ==
  /\ \A to \in {"lock", "take", "queue", "locked", "mark", "marked", "terminate", "await", "wait",
                "astray"} : to \in CallPoints /\ to \in Points
  /\ \A to \in {"lock", "take", "queue", "locked", "mark", "marked", "terminate"} : to \in StrikePoints
  /\ {"await", "wait", "astray"} = AwaitPoints /\ StrikePoints \cap AwaitPoints = {}
  /\ \A to \in {"lock", "take", "queue", "mark", "marked", "terminate", "await", "kid_finish",
                "kid_next", "stages", "state0"} :
       to \in RunPoints /\ to \in Points
  /\ {"lock", "await", "kid_finish", "kid_next", "main"} \cap (CreatePoints \cup {"none", "start", "unstarted", "terminated"}) = {}
  /\ {"locked", "wait", "astray"} \cap RunPoints = {}
BY DEF CallPoints, StrikePoints, AwaitPoints, Points, RunPoints, StillPoints, CreatePoints

\* kill_hisr_chek is called for process c: by the main of p, or for its child.
LEMMA StrikePreserves ==
  ASSUME Setting, IndInv, NEW p \in Pids, NEW c \in Pids \ {p},
         NEW g \in {"none", "kill_", "SIGTERM"}, NEW from, NEW ret,
         Strike(p, c, g, from, ret), kills' \in Nat, UNCHANGED <<lives, stops, frees, orphans, cut>>,
         \/ from = "main" /\ ret = "main"
         \/ from = "kid" /\ ret = "kid_finish" /\ c = proc[p].kids[at[p]]
  PROVE  IndInv'
<1> USE DEF Goto, helper
<1>1. pc[p] = from /\ Runs(p)
  BY DEF Strike
<1>2. /\ TypeOK /\ proc[p] \in SlotType /\ proc[c] \in SlotType
      /\ proc = [proc EXCEPT ![p] = proc[p]] /\ Alike(proc[p], proc[p])
  BY States, Same DEF IndInv
<1>3. stops \in Nat /\ cut \subseteq Pids
  BY <1>2 DEF TypeOK, HistoryOK
<1>4. back \in [Pids -> {"main", "kid_finish", "kid_next"}] /\ aim \in [Pids -> Pids \cup {NoPid}]
  BY <1>2 DEF TypeOK, TablesOK
<1>5. aim'[p] = c /\ at'[p] = at[p] /\ back'[p] = ret /\ UNCHANGED <<conds, asked, requests>>
  BY <1>4 DEF Strike
<1>6. pc[p] \notin {"none", "unstarted", "terminated", "start"} \cup CreatePoints
  BY <1>1 DEF CreatePoints
<1>7. \/ InMain(p) /\ ret = "main"
      \/ InKids(p) /\ ret = "kid_finish" /\ c = proc[p].kids[at[p]]
  <2>1. from = "main" => InMain(p)
    BY <1>1 DEF InMain
  <2>2. from = "kid" => InKids(p)
    BY <1>1 DEF InKids
  <2>3. QED
    BY <2>1, <2>2
<1>8. CASE proc[c].id
  <2> DEFINE e == [proc[c] EXCEPT !.signum = g]
  <2>1. e \in SlotType /\ Alike(proc[c], e) /\ e.critical = proc[c].critical
    BY <1>2, OwnStored DEF Plainly
  <2>2. Moved(p, "lock", c, e)
    BY <1>3, <1>8 DEF Strike, Moved
  <2> HIDE DEF e
  <2>3. pc'[p] = "lock"
    BY <1>2, <2>1, <2>2, MoveSeen, MovePoints
  <2>4. WaitsAt(p)' /\ KidDone(p)'
    BY <2>3 DEF WaitsAt, KidDone
  <2>5. QED
    BY <1>1, <1>5, <1>6, <1>7, <2>1, <2>2, <2>4, CallGo, MovePoints
<1>9. CASE ~proc[c].id
  <2>1. Moved(p, ret, p, proc[p])
    BY <1>2, <1>3, <1>9 DEF Strike, Moved
  <2>2. CASE ret = "main"
    BY <1>1, <1>2, <1>5, <1>6, <1>7, <2>1, <2>2, PlainGo DEF PlainPoints
  <2>3. CASE ret = "kid_finish"
    <3>1. Moved(p, "kid_finish", p, proc[p])
      BY <2>1, <2>3
    <3>2. pc'[p] = "kid_finish"
      BY <1>2, <3>1, MoveSeen, MovePoints
    <3>3. WaitsAt(p)' /\ KidDone(p)'
      BY <3>2 DEF WaitsAt, KidDone
    <3>4. "kid_finish" \notin CallPoints \cup AwaitPoints \cup StrikePoints
      BY DEF CallPoints, AwaitPoints, StrikePoints
    <3>5. QED
      BY <1>1, <1>2, <1>5, <1>6, <1>7, <2>3, <3>1, <3>3, <3>4, CallGo
  <2>4. QED
    BY <2>2, <2>3
<1>10. QED
  BY <1>8, <1>9

\* Kills preserve it, by main or by state 3,
LEMMA KillPreserves ==
  ASSUME Setting, IndInv, NEW p \in Pids
  PROVE  Kill(p) \/ KidKill(p) => IndInv'
<1>1. kills \in Nat
  BY DEF IndInv, TypeOK, HistoryOK
<1>2. ASSUME Kill(p) PROVE IndInv'
  <2>1. PICK c \in Pids \ {p} : Strike(p, c, "SIGTERM", "main", "main")
    BY <1>2 DEF Kill
  <2>2. kills' \in Nat /\ UNCHANGED <<lives, stops, frees, orphans, cut>>
    BY <1>1, <1>2 DEF Kill
  <2>3. QED
    BY <2>1, <2>2, StrikePreserves
<1>3. ASSUME KidKill(p) PROVE IndInv'
  <2>1. pc[p] = "kid" /\ Strike(p, proc[p].kids[at[p]], "kill_", "kid", "kid_finish")
        /\ UNCHANGED <<lives, kills, stops, frees, orphans, cut>>
    BY <1>3 DEF KidKill, history
  <2>2. KidAt(p) /\ proc[p].kids \in Seq(Pids)
    BY <2>1, Here
  <2>3. at[p] \in 1..Len(proc[p].kids)
    BY <2>1, <2>2 DEF KidAt, InKids
  <2>4. PICK c \in Pids : c = proc[p].kids[at[p]]
    BY <2>2, <2>3, ElementOfSeq
  <2>5. c # p
    BY <2>2, <2>3, <2>4 DEF KidAt
  <2>6. QED
    BY <1>1, <2>1, <2>4, <2>5, StrikePreserves
<1>4. QED
  BY <1>2, <1>3

\* The steps of kill_hisr_chek up to the two flags.
LEMMA LockPreserves == ASSUME Setting, IndInv, NEW p \in Pids, Lock(p) PROVE IndInv'
<1> USE DEF Goto, locals, helper, history
<1>1. pc[p] = "lock" /\ Runs(p) /\ pc[p] \in CallPoints /\ pc[p] \in StrikePoints
  BY MovePoints DEF Lock
<1>2. /\ TypeOK /\ proc[p] \in SlotType /\ kills \in Nat /\ stops \in Nat /\ cut \subseteq Pids
      /\ proc = [proc EXCEPT ![p] = proc[p]] /\ Alike(proc[p], proc[p])
  BY States, Same DEF IndInv, TypeOK, HistoryOK
<1>3. aim[p] \in Pids /\ aim[p] # p /\ back[p] # "kid_next"
  BY <1>1, Calling
<1>4. proc[aim[p]].critical \in {"free", "held", "none"}
  <2>1. PICK c \in Pids : c = aim[p]
    BY <1>3
  <2>2. QED
    BY <1>2, <2>1, States, SlotFields
<1>5. UNCHANGED <<conds, asked, requests, aim, at, back>>
  BY DEF Lock
<1>6. CASE ~proc[aim[p]].id
  <2>1. Moved(p, back[p], p, proc[p])
    BY <1>2, <1>6 DEF Lock, Moved
  <2>2. QED
    BY <1>1, <1>3, <1>5, <2>1, CallReturns
<1>7. CASE proc[aim[p]].id
  <2>1. PICK to \in {"mark", "take", "queue"} : Moved(p, to, p, proc[p])
    <3>1. PICK to \in {"mark", "take", "queue"} : pc' = [pc EXCEPT ![p] = to]
      BY <1>4, <1>7 DEF Lock, LockTest
    <3>2. QED
      BY <1>2, <3>1 DEF Lock, Moved
  <2>2. pc'[p] = to
    BY <1>2, <2>1, MoveSeen, MovePoints
  <2>3. WaitsAt(p)' /\ KidDone(p)'
    BY <2>2 DEF WaitsAt, KidDone
  <2>4. QED
    BY <1>1, <1>2, <1>3, <1>5, <2>1, <2>3, CallOn, MovePoints
<1>8. QED
  BY <1>6, <1>7

\* lockMutex of the mutex of c is through, or waits.
LEMMA TakePreserves == ASSUME Setting, IndInv, NEW p \in Pids, Take(p) \/ Queue(p) PROVE IndInv'
<1> USE DEF Goto, Block, locals, helper, history
<1>1. pc[p] \in {"take", "queue"} /\ Runs(p) /\ pc[p] \in CallPoints /\ pc[p] \in StrikePoints
  BY MovePoints DEF Take, Queue
<1>2. TypeOK /\ kills \in Nat /\ stops \in Nat /\ cut \subseteq Pids
  BY DEF IndInv, TypeOK, HistoryOK
<1>3. PICK c \in Pids : c = aim[p]
  BY <1>1, Calling
<1>4. proc[c] \in SlotType
  BY <1>2, States
<1>5. UNCHANGED <<conds, asked, requests, aim, at, back>>
  BY DEF Take, Queue
<1> DEFINE m == IF proc[c].critical = "none" THEN "none" ELSE "held"
           e == [proc[c] EXCEPT !.critical = m]
<1>6. proc' = [proc EXCEPT ![c] = e]
  BY <1>3, <1>4 DEF Take, Queue, SlotType
<1>7. /\ e \in SlotType /\ Alike(proc[c], e) /\ e.critical = m
      /\ (m = proc[c].critical \/ (proc[c].critical # "none" /\ m = "held"))
  BY <1>4, MutexStored
<1>15. proc[c].critical # "none" => m = "held"
  OBVIOUS
<1> HIDE DEF e, m
<1>8. CASE pc' = [pc EXCEPT ![p] = Past(p)]
  <2>1. UNCHANGED <<wid, lock, frees, stopped, helping, lives, orphans, kills, stops, cut>>
    BY DEF Take, Queue
  <2>5. ready' = ready /\ cpu' = Occupy(p, cpu)
    BY <1>1, <1>2, <1>8 DEF Take, Queue, Past, TypeOK, TablesOK
  <2>2. Moved(p, Past(p), c, e)
    BY <1>2, <1>5, <1>6, <1>8, <2>1, <2>5 DEF Moved
  <2>3. CASE aim[p] = p
    <3>1. Moved(p, "state0", p, e) /\ c = p
      BY <1>3, <2>2, <2>3 DEF Past
    <3>2. proc[p].kill_state = 0 /\ pc[p] \notin {"none", "unstarted", "terminated", "start"} \cup CreatePoints
      BY <1>1, <2>3, Calling
    <3>3. QED
      BY <1>1, <1>5, <1>7, <3>1, <3>2, PlainGo DEF PlainPoints
  <2>4. CASE aim[p] # p
    <3>1. Moved(p, "mark", c, e)
      BY <2>2, <2>4 DEF Past
    <3>2. pc'[p] = "mark"
      BY <1>2, <1>7, <3>1, MoveSeen, MovePoints
    <3>3. WaitsAt(p)' /\ KidDone(p)'
      BY <3>2 DEF WaitsAt, KidDone
    <3>4. QED
      BY <1>1, <1>5, <1>7, <2>4, <3>1, <3>3, CallOn, MovePoints
  <2>6. QED
    BY <2>3, <2>4
<1>9. CASE pc' # [pc EXCEPT ![p] = Past(p)]
  <2>1. Queue(p) /\ proc[c].critical # "none" /\ pc' = [pc EXCEPT ![p] = "locked"]
    BY <1>3, <1>9 DEF Take, Queue
  <2>2. Moved(p, "locked", c, e)
    BY <1>2, <1>3, <1>6, <2>1, MovePoints DEF Queue, Moved
  <2>3. pc'[p] = "locked" /\ proc'[c] = e
    BY <1>2, <1>7, <2>2, MoveSeen, MovePoints
  <2>4. WaitsAt(p)' /\ KidDone(p)'
    BY <1>3, <1>5, <1>7, <1>15, <2>1, <2>3 DEF WaitsAt, KidDone
  <2>5. QED
    BY <1>1, <1>5, <1>7, <2>2, <2>4, CallOn, MovePoints
<1>10. QED
  BY <1>8, <1>9

\* the stores of kill_mode and terminated,
LEMMA MarkPreserves == ASSUME Setting, IndInv, NEW p \in Pids PROVE MarkMode(p) \/ MarkTerminated(p) => IndInv'
<1> USE DEF Goto, locals, helper, history
<1>1. ASSUME MarkMode(p) \/ MarkTerminated(p) PROVE IndInv'
  <2>1. pc[p] \in {"mark", "marked"} /\ Runs(p) /\ pc[p] \in CallPoints /\ pc[p] \in StrikePoints
    BY <1>1, MovePoints DEF MarkMode, MarkTerminated
  <2>2. TypeOK /\ kills \in Nat /\ stops \in Nat /\ cut \subseteq Pids
    BY DEF IndInv, TypeOK, HistoryOK
  <2>3. PICK c \in Pids : c = aim[p]
    BY <2>1, Calling
  <2>4. aim[p] # p /\ proc[c] \in SlotType
    BY <2>1, <2>2, Calling, States
  <2>5. UNCHANGED <<conds, asked, requests, aim, at, back>>
    BY <1>1 DEF MarkMode, MarkTerminated
  <2>6. PICK to \in {"marked", "terminate"}, e \in SlotType :
          Moved(p, to, c, e) /\ Alike(proc[c], e) /\ e.critical = proc[c].critical
    <3>1. CASE MarkMode(p)
      <4> DEFINE e == [proc[c] EXCEPT !.kill_mode = TRUE]
      <4>1. e \in SlotType /\ Alike(proc[c], e) /\ e.critical = proc[c].critical
        BY <2>4, ModeStored
      <4>2. Moved(p, "marked", c, e)
        BY <2>2, <2>3, <3>1 DEF MarkMode, Moved
      <4> HIDE DEF e
      <4>3. QED
        BY <4>1, <4>2
    <3>2. CASE MarkTerminated(p)
      <4> DEFINE e == [proc[c] EXCEPT !.terminated = 1]
      <4>1. e \in SlotType /\ Alike(proc[c], e) /\ e.critical = proc[c].critical
        BY <2>4, OwnStored DEF Plainly
      <4>2. Moved(p, "terminate", c, e)
        BY <2>2, <2>3, <3>2 DEF MarkTerminated, Moved
      <4> HIDE DEF e
      <4>3. QED
        BY <4>1, <4>2
    <3>3. QED
      BY <1>1, <3>1, <3>2
  <2>7. pc'[p] = to
    BY <2>2, <2>6, MoveSeen, MovePoints
  <2>8. WaitsAt(p)' /\ KidDone(p)'
    BY <2>7 DEF WaitsAt, KidDone
  <2>9. QED
    BY <2>1, <2>4, <2>5, <2>6, <2>8, CallOn, MovePoints
<1>2. QED
  BY <1>1

\* waitForProcessFinished is called: by the main of p, or for its child.
LEMMA AwaitPreserves ==
  ASSUME Setting, IndInv, NEW p \in Pids, NEW c \in Pids \ {p}, NEW from, NEW ret,
         Await(p, c, from, ret),
         \/ from = "main" /\ ret = "main"
         \/ from = "kid_finish" /\ ret = "kid_next" /\ c = proc[p].kids[at[p]]
  PROVE  IndInv'
<1> USE DEF Goto, helper, history
<1>1. pc[p] = from /\ Runs(p)
  BY DEF Await
<1>2. /\ TypeOK /\ proc[p] \in SlotType /\ proc[c] \in SlotType
      /\ proc = [proc EXCEPT ![p] = proc[p]] /\ Alike(proc[p], proc[p])
  BY States, Same DEF IndInv
<1>3. kills \in Nat /\ stops \in Nat /\ cut \subseteq Pids /\ proc[c].exit_wait \in Nat
  BY <1>2, SlotFields DEF TypeOK, HistoryOK
<1>4. /\ back \in [Pids -> {"main", "kid_finish", "kid_next"}] /\ aim \in [Pids -> Pids \cup {NoPid}]
      /\ wid \in [Pids -> Nat]
  BY <1>2 DEF TypeOK, TablesOK
<1>5. /\ aim'[p] = c /\ at'[p] = at[p] /\ back'[p] = ret /\ wid'[p] = proc[c].exit_wait
      /\ proc' = proc /\ orphans' = orphans /\ UNCHANGED <<conds, asked, requests>>
  BY <1>4 DEF Await
<1>6. pc[p] \notin {"none", "unstarted", "terminated", "start"} \cup CreatePoints
  BY <1>1 DEF CreatePoints
<1>7. \/ InMain(p) /\ ret = "main"
      \/ InKids(p) /\ ret = "kid_next" /\ c = proc[p].kids[at[p]]
  <2>1. from = "main" => InMain(p)
    BY <1>1 DEF InMain
  <2>2. from = "kid_finish" => InKids(p)
    BY <1>1 DEF InKids
  <2>3. QED
    BY <2>1, <2>2
<1>8. CASE proc[c].id
  <2>1. Moved(p, "await", p, proc[p])
    BY <1>2, <1>3, <1>8 DEF Await, Moved
  <2>2. pc'[p] = "await"
    BY <1>2, <2>1, MoveSeen, MovePoints
  <2>3. ChildOf(c, p) /\ proc[c].exit_wait \notin conds[c] => Over(c)
    <3>1. ASSUME ChildOf(c, p), NEW q \in Pids, pc[q] \in {"new", "filled", "created"}, aim[q] = c PROVE FALSE
      <4>1. MakesAt(q) /\ p # NoPid
        BY Constants DEF IndInv, MakesExact, Setting
      <4>2. q = p
        BY <3>1, <4>1 DEF MakesAt, ChildOf, MakePoints
      <4>3. QED
        BY <1>6, <3>1, <4>2 DEF CreatePoints
    <3>2. ExitAt(c) /\ (Over(c) <=> proc[c].kill_state = 11) /\ proc[c].kill_state \in 0..11
      BY States DEF IndInv, ExitsExact
    <3>3. proc[c].kill_state # 11 => proc[c].kill_state < 11
      BY <3>2
    <3>4. QED
      BY <3>1, <3>2, <3>3 DEF ExitAt, ChildOf
  <2>4. WaitsAt(p)' /\ KidDone(p)'
    BY <1>5, <2>2, <2>3 DEF WaitsAt, KidDone, ChildOf, Over
  <2>5. QED
    BY <1>1, <1>2, <1>5, <1>6, <1>7, <2>1, <2>4, CallGo, MovePoints
<1>9. CASE ~proc[c].id
  <2>1. Moved(p, ret, p, proc[p])
    BY <1>2, <1>3, <1>9 DEF Await, Moved
  <2>2. CASE ret = "main"
    BY <1>1, <1>2, <1>5, <1>6, <1>7, <2>1, <2>2, PlainGo DEF PlainPoints
  <2>3. CASE ret = "kid_next"
    <3>1. Moved(p, "kid_next", p, proc[p])
      BY <2>1, <2>3
    <3>2. pc'[p] = "kid_next"
      BY <1>2, <3>1, MoveSeen, MovePoints
    <3>3. WaitsAt(p)' /\ KidDone(p)'
      BY <1>5, <1>9, <3>2 DEF WaitsAt, KidDone, ChildOf
    <3>4. "kid_next" \notin CallPoints \cup AwaitPoints \cup StrikePoints
      BY DEF CallPoints, AwaitPoints, StrikePoints
    <3>5. QED
      BY <1>1, <1>2, <1>5, <1>6, <1>7, <2>3, <3>1, <3>3, <3>4, CallGo
  <2>4. QED
    BY <2>2, <2>3
<1>10. QED
  BY <1>8, <1>9

\* waitForProcessFinished, by main or by state 3,
LEMMA WaitsPreserve ==
  ASSUME Setting, IndInv, NEW p \in Pids
  PROVE  WaitForProcess(p) \/ KidWait(p) => IndInv'
<1>1. ASSUME WaitForProcess(p) PROVE IndInv'
  <2>1. PICK c \in Pids \ {p} : Await(p, c, "main", "main")
    BY <1>1 DEF WaitForProcess
  <2>2. QED
    BY <2>1, AwaitPreserves
<1>2. ASSUME KidWait(p) PROVE IndInv'
  <2>1. pc[p] = "kid_finish" /\ Await(p, aim[p], "kid_finish", "kid_next")
    BY <1>2 DEF KidWait
  <2>2. KidAt(p) /\ proc[p].kids \in Seq(Pids)
    BY <2>1, Here
  <2>3. at[p] \in 1..Len(proc[p].kids) /\ aim[p] = proc[p].kids[at[p]]
    BY <2>1, <2>2 DEF KidAt, InKids
  <2>4. PICK c \in Pids : c = aim[p]
    BY <2>2, <2>3, ElementOfSeq
  <2>5. c # p
    BY <2>2, <2>3, <2>4 DEF KidAt
  <2>6. QED
    BY <2>1, <2>3, <2>4, <2>5, AwaitPreserves
<1>3. QED
  BY <1>1, <1>2

\* The exit condition is waited for, or gone.
LEMMA WaitPreserves == ASSUME Setting, IndInv, NEW p \in Pids, Wait(p) PROVE IndInv'
<1> USE DEF Goto, Block, locals, helper, history
<1>1. pc[p] = "await" /\ Runs(p) /\ pc[p] \in CallPoints /\ pc[p] \in AwaitPoints
  BY MovePoints DEF Wait
<1>2. /\ TypeOK /\ proc[p] \in SlotType /\ kills \in Nat /\ stops \in Nat /\ cut \subseteq Pids
      /\ proc = [proc EXCEPT ![p] = proc[p]] /\ Alike(proc[p], proc[p]) /\ KidDone(p)
  BY States, Same DEF IndInv, TypeOK, HistoryOK, KidsDone
<1>3. aim[p] \in Pids /\ aim[p] # p
  BY <1>1, Calling
<1>4. UNCHANGED <<conds, asked, requests, aim, at, back, wid, proc, orphans>>
  BY DEF Wait
<1>5. PICK to \in {"wait", "astray", back[p]} :
        /\ Moved(p, to, p, proc[p])
        /\ to = "wait" => wid[p] \in conds[aim[p]]
        /\ to # "wait" => wid[p] \notin conds[aim[p]]
  <2>1. back[p] \in {"main", "kid_finish", "kid_next"}
    BY <1>1, Calling
  <2>2. CASE wid[p] \in conds[aim[p]] /\ Block(p, "await", "wait")
    BY <1>2, <2>2, MovePoints DEF Wait, Moved
  <2>3. CASE wid[p] \notin conds[aim[p]] /\ Goto(p, "await", back[p]) /\ UNCHANGED ready
    BY <1>2, <2>1, <2>3 DEF Wait, Moved
  <2>4. CASE wid[p] \notin conds[aim[p]] /\ Block(p, "await", "astray")
    BY <1>2, <2>4, MovePoints DEF Wait, Moved
  <2>5. QED
    BY <2>2, <2>3, <2>4 DEF Wait
<1>6. CASE to = back[p]
  <2>1. back[p] = "kid_next" => KidDone(p)'
    <3>1. ASSUME back[p] = "kid_next" PROVE KidDone(p)'
      <4>1. pc'[p] = "kid_next"
        BY <1>2, <1>5, <1>6, <3>1, MoveSeen, MovePoints
      <4>2. wid[p] \notin conds[aim[p]]
        BY <1>5, <1>6, <3>1
      <4>3. QED
        BY <1>1, <1>2, <1>4, <3>1, <4>1, <4>2 DEF KidDone, ChildOf, Over
    <3>2. QED
      BY <3>1
  <2>2. QED
    BY <1>1, <1>3, <1>4, <1>5, <1>6, <2>1, CallReturns
<1>7. CASE to \in {"wait", "astray"}
  <2>1. pc'[p] = to
    BY <1>2, <1>5, <1>7, MoveSeen, MovePoints
  <2>2. WaitsAt(p)'
    BY <1>4, <1>5, <1>7, <2>1 DEF WaitsAt
  <2>3. KidDone(p)'
    BY <1>1, <1>2, <1>4, <1>5, <1>7, <2>1 DEF KidDone, ChildOf, Over
  <2>4. QED
    BY <1>1, <1>2, <1>3, <1>4, <1>5, <1>7, <2>2, <2>3, CallOn
<1>8. QED
  BY <1>5, <1>6, <1>7

\* State 0: one's own mutex is locked, or not.
LEMMA Stage0Preserves == ASSUME Setting, IndInv, NEW p \in Pids, Stage0(p) PROVE IndInv'
<1> USE DEF Goto, locals, helper, history
<1>1. pc[p] = "stages" /\ Runs(p) /\ proc[p].kill_state = 0
  BY DEF Stage0, InState
<1>2. /\ TypeOK /\ proc[p] \in SlotType /\ kills \in Nat /\ stops \in Nat /\ cut \subseteq Pids
      /\ proc = [proc EXCEPT ![p] = proc[p]] /\ Alike(proc[p], proc[p])
      /\ proc[p].critical \in {"free", "held", "none"}
      /\ back[p] \in {"main", "kid_finish", "kid_next"}
  BY <1>1, States, Same, SlotFields, Back DEF IndInv, TypeOK, HistoryOK
<1>3. UNCHANGED <<conds, asked, requests>> /\ aim'[p] = p /\ at'[p] = at[p] /\ back'[p] = back[p]
  BY <1>2 DEF Stage0, TypeOK, TablesOK
<1>4. pc[p] \notin {"none", "unstarted", "terminated", "start"} \cup CreatePoints
  BY <1>1 DEF CreatePoints
<1>5. PICK to \in {"state0", "take", "queue"} : Moved(p, to, p, proc[p])
  <2>1. PICK to \in {"state0", "take", "queue"} : pc' = [pc EXCEPT ![p] = to]
    BY <1>2 DEF Stage0, LockTest
  <2>2. QED
    BY <1>2, <2>1 DEF Stage0, Moved
<1>6. CASE to = "state0"
  BY <1>1, <1>2, <1>3, <1>4, <1>5, <1>6, PlainGo DEF PlainPoints
<1>7. CASE to \in {"take", "queue"}
  <2>1. pc'[p] = to
    BY <1>2, <1>5, MoveSeen, MovePoints
  <2>2. WaitsAt(p)' /\ KidDone(p)'
    BY <1>7, <2>1 DEF WaitsAt, KidDone
  <2>3. to \in CallPoints /\ to \notin AwaitPoints
    BY <1>7, MovePoints
  <2>4. QED
    BY <1>1, <1>2, <1>3, <1>4, <1>5, <1>7, <2>2, <2>3, CallGo
<1>8. QED
  BY <1>5, <1>6, <1>7

\* A step that stores nothing in the table: the tasks of S move, others are let go.
LEMMA QuietStep ==
  ASSUME Setting, IndInv, TypeOK', NEW S \in SUBSET Pids,
         UNCHANGED <<proc, conds, asked, helping, requests, lives, orphans>>, cut \subseteq cut',
         \A r \in Pids \ S :
           /\ Pushed(r) /\ (r \in ready \/ pc'[r] # pc[r] => r \in ready')
           /\ aim'[r] = aim[r] /\ at'[r] = at[r] /\ wid'[r] = wid[r] /\ back'[r] = back[r],
         \A r \in S :
           /\ pc[r] \notin {"none", "unstarted", "start", "terminated"} \cup CreatePoints
           /\ pc'[r] \notin {"unstarted", "start", "none"} \cup CreatePoints
           /\ PlaceAt(r)' /\ StateAt(r)' /\ KidAt(r)' /\ WaitsAt(r)' /\ KidDone(r)'
  PROVE  IndInv'
<1>1. \A r \in Pids : Alike(proc[r], proc'[r]) /\ Grows(r)
  <2>1. \A r \in Pids : proc'[r].kill_state \in 0..11
    BY States DEF IndInv
  <2>2. QED
    BY <2>1 DEF Alike, Grows, MutexMoves, ExitMoves
<1>2. \A r \in Pids \ S : Rests(r)
  BY <1>1 DEF Rests
<1>3. ASSUME NEW r \in Pids PROVE Makers(r)
  <2>1. CASE r \in S
    BY <2>1 DEF Makers, CreatePoints
  <2>2. CASE r \notin S
    <3>1. back[r] \in {"main", "kid_finish", "kid_next"}
      BY Back DEF IndInv
    <3>2. Pushed(r) /\ aim'[r] = aim[r]
      BY <2>2
    <3>3. QED
      BY <3>1, <3>2 DEF Makers, Pushed, Past, CreatePoints
  <2>3. QED
    BY <2>1, <2>2
<1>4. \A r \in S : Starts(r, S)
  BY DEF Starts
<1>9. \A r \in Pids : Lives(r)' = Lives(r)
  BY DEF Lives
<1>5. Frame(S)
  BY <1>1, <1>2, <1>3, <1>4, <1>9 DEF Frame, Seen
<1>6. ASSUME NEW r \in S PROVE Shows(r)
  <2>1. r \in Pids /\ MakesAt(r)'
    BY DEF MakesAt, CreatePoints, MakePoints
  <2>2. ~Fresh(r)' /\ pc[r] \notin MakePoints
    BY DEF Fresh, MakePoints, CreatePoints
  <2>3. \A q \in Pids : ChildAt(r, q)'
    BY <1>1, <1>5, <1>9, <2>1, <2>2, ParentKeeps
  <2>4. QED
    BY <2>1, <2>3 DEF Shows, LocalAt
<1>7. /\ LocalExact' /\ MakesExact' /\ WaitsExact' /\ SlotsExact' /\ ExitsExact'
      /\ ChildrenExact' /\ KidsDone'
  BY <1>5, <1>6, FrameKeeps
<1>8. RequestsExact' /\ FirstComesFirst' /\ FirstPending'
  BY RequestsStay
<1>10. QED
  BY <1>7, <1>8 DEF IndInv

\* The types of a step that moves tasks only
LEMMA QuietTyped ==
  ASSUME TypeOK, UNCHANGED <<proc, locals, conds, helper, lives, frees, orphans>>,
         pc' \in [Pids -> Points], ready' \subseteq Tasks, stopped' \subseteq Pids,
         cpu' \in [Levels -> Tasks \cup {NoTask}], cut' \subseteq Pids, kills' \in Nat, stops' \in Nat
  PROVE  TypeOK'
<1>1. TablesOK'
  BY DEF TypeOK, TablesOK, locals
<1>2. KernelOK'
  BY DEF TypeOK, KernelOK, helper
<1>3. HistoryOK'
  BY DEF TypeOK, HistoryOK, helper
<1>4. QED
  BY <1>1, <1>2, <1>3 DEF TypeOK

\* those who stop a task or wake one,
LEMMA WakePreserves ==
  ASSUME Setting, IndInv, NEW p \in Pids
  PROVE  WakeUp(p) \/ StrayReturns(p) \/ Stop(p) \/ WakeWaiter(p) => IndInv'
<1> USE DEF locals, helper, history
<1>1. TypeOK /\ pc \in [Pids -> Points] /\ back \in [Pids -> {"main", "kid_finish", "kid_next"}]
      /\ kills \in Nat /\ stops \in Nat /\ cut \subseteq Pids /\ ready \subseteq Tasks
      /\ stopped \subseteq Pids /\ cpu \in [Levels -> Tasks \cup {NoTask}] /\ Pids \subseteq Tasks
      /\ p \in Tasks
  BY Constants DEF Setting, IndInv, TypeOK, TablesOK, KernelOK, HistoryOK
<1>2. {"main", "kid_finish", "kid_next"} \subseteq Points
  BY DEF Points, RunPoints, StillPoints
<1>3. ASSUME WakeUp(p) PROVE IndInv'
  <2>1. TypeOK'
    BY <1>1, <1>3, QuietTyped DEF WakeUp
  <2>2. /\ UNCHANGED <<proc, conds, asked, helping, requests, lives, orphans, cut>>
        /\ \A r \in Pids : Pushed(r) /\ (r \in ready \/ pc'[r] # pc[r] => r \in ready')
             /\ aim'[r] = aim[r] /\ at'[r] = at[r] /\ wid'[r] = wid[r] /\ back'[r] = back[r]
    BY <1>3 DEF WakeUp, Pushed
  <2>3. {} \in SUBSET Pids
    OBVIOUS
  <2>4. QED
    BY <2>1, <2>2, <2>3, QuietStep
<1>4. ASSUME StrayReturns(p) PROVE IndInv'
  <2>1. pc' = [pc EXCEPT ![p] = back[p]] /\ pc[p] = "astray" /\ ready' = ready \cup {p}
    BY <1>4 DEF StrayReturns
  <2>2. pc' \in [Pids -> Points]
    BY <1>1, <1>2, <2>1
  <2>3. TypeOK'
    BY <1>1, <1>4, <2>1, <2>2, QuietTyped DEF StrayReturns
  <2>4. \A r \in Pids : Pushed(r) /\ (r \in ready \/ pc'[r] # pc[r] => r \in ready')
    BY <1>1, <2>1 DEF Pushed
  <2>5. /\ UNCHANGED <<proc, conds, asked, helping, requests, lives, orphans, cut>>
        /\ \A r \in Pids : aim'[r] = aim[r] /\ at'[r] = at[r] /\ wid'[r] = wid[r] /\ back'[r] = back[r]
    BY <1>4 DEF StrayReturns
  <2>6. {} \in SUBSET Pids
    OBVIOUS
  <2>7. QED
    BY <2>3, <2>4, <2>5, <2>6, QuietStep
<1>5. ASSUME Stop(p) PROVE IndInv'
  <2>1. PICK q \in Pids : stopped' = stopped \cup {q} /\ cpu' = Occupy(p, Evict(q, cpu))
    BY <1>5 DEF Stop
  <2>2. cpu' \in [Levels -> Tasks \cup {NoTask}]
    <3>1. q \in Tasks
      BY <1>1
    <3>2. Occupy(p, Evict(q, cpu)) \in [Levels -> Tasks \cup {NoTask}]
      BY <1>1, <3>1, CpuTyped
    <3>3. QED
      BY <2>1, <3>2
  <2>3. /\ UNCHANGED <<proc, pc, locals, conds, helper, lives, kills, frees, orphans, cut, ready>>
        /\ stops' \in Nat
    BY <1>1, <1>5 DEF Stop
  <2>4. TypeOK'
    BY <1>1, <2>1, <2>2, <2>3, QuietTyped
  <2>5. \A r \in Pids : Pushed(r) /\ (r \in ready \/ pc'[r] # pc[r] => r \in ready')
             /\ aim'[r] = aim[r] /\ at'[r] = at[r] /\ wid'[r] = wid[r] /\ back'[r] = back[r]
    BY <2>3 DEF Pushed
  <2>6. {} \in SUBSET Pids
    OBVIOUS
  <2>7. QED
    BY <2>3, <2>4, <2>5, <2>6, QuietStep
<1>6. ASSUME WakeWaiter(p) PROVE IndInv'
  <2>1. PICK q \in Waiters(p) : pc' = [pc EXCEPT ![q] = back[q]] /\ ready' = ready \cup {q}
    BY <1>6 DEF WakeWaiter
  <2>2. q \in Pids /\ pc[q] = "wait" /\ aim[q] = p
    BY <2>1 DEF Waiters
  <2>3. Over(p)
    <3>1. pc[p] = "wake"
      BY <1>6 DEF WakeWaiter
    <3>2. proc[p].kill_state = 11
      BY <3>1, Here DEF StateAt
    <3>3. QED
      BY <3>2 DEF Over
  <2>4. pc' \in [Pids -> Points]
    BY <1>1, <1>2, <2>1, <2>2
  <2>5. cpu' \in [Levels -> Tasks \cup {NoTask}]
    <3>1. cpu' = Occupy(p, cpu)
      BY <1>6 DEF WakeWaiter
    <3>2. QED
      BY <1>1, <3>1, CpuTyped
  <2>6. TypeOK'
    BY <1>1, <1>6, <2>1, <2>2, <2>4, <2>5, QuietTyped DEF WakeWaiter
  <2>7. \A r \in Pids : Pushed(r) /\ (r \in ready \/ pc'[r] # pc[r] => r \in ready')
    BY <1>1, <2>1, <2>2, <2>3 DEF Pushed
  <2>8. /\ UNCHANGED <<proc, conds, asked, helping, requests, lives, orphans, cut>>
        /\ \A r \in Pids : aim'[r] = aim[r] /\ at'[r] = at[r] /\ wid'[r] = wid[r] /\ back'[r] = back[r]
    BY <1>6 DEF WakeWaiter
  <2>9. {} \in SUBSET Pids
    OBVIOUS
  <2>10. QED
    BY <2>6, <2>7, <2>8, <2>9, QuietStep
<1>7. QED
  BY <1>3, <1>4, <1>5, <1>6

\* NU_Resume_Task: process p starts or goes on.
LEMMA ResumePreserves ==
  ASSUME Setting, IndInv, NEW q \in Pids, NEW p \in Pids, NEW from, NEW to, Resume(q, p, from, to),
         UNCHANGED <<proc, locals, conds, helper, history>>,
         \/ from \in {"main", "joined"} /\ to = "main"
         \/ from = "resume" /\ to = back[q]
  PROVE  IndInv'
<1> USE DEF locals, helper, history
<1>1. /\ TypeOK /\ pc \in [Pids -> Points] /\ ready \subseteq Tasks /\ stopped \subseteq Pids
      /\ kills \in Nat /\ stops \in Nat /\ cut \subseteq Pids /\ p \in Tasks /\ q \in Tasks
  BY Constants DEF Setting, IndInv, TypeOK, TablesOK, KernelOK, HistoryOK
<1>2. pc[q] = from /\ Runs(q) /\ pc' = [pc EXCEPT ![p] = IF pc[p] = "unstarted" THEN "start" ELSE @, ![q] = to]
      /\ ready' = IF pc[p] = "unstarted" THEN ready \cup {p} ELSE ready
  BY DEF Resume
<1>3. pc[q] \notin {"none", "unstarted", "start", "terminated"} \cup CreatePoints /\ pc[q] # "unstarted"
  BY <1>2 DEF CreatePoints
<1>4. /\ from = "resume" => aim[q] \in Pids \ {q} /\ back[q] \in {"main", "kid_finish"}
                            /\ (back[q] = "main" => InMain(q))
                            /\ (back[q] = "kid_finish" => InKids(q) /\ aim[q] = proc[q].kids[at[q]])
      /\ from # "resume" => InMain(q)
  <2>1. CASE from = "resume"
    <3>1. pc[q] \in StrikePoints /\ pc[q] \in CallPoints
      BY <1>2, <2>1 DEF CallPoints, StrikePoints
    <3>2. QED
      BY <1>2, <2>1, <3>1, Calling
  <2>2. CASE from # "resume"
    BY <1>2, <2>2 DEF InMain
  <2>3. QED
    BY <2>1, <2>2
<1>5. to \in {"main", "kid_finish"} /\ to \in Points /\ "start" \in Points
  BY <1>4 DEF Points, RunPoints, StillPoints
<1>6. pc' \in [Pids -> Points] /\ pc'[q] = to
  BY <1>1, <1>2, <1>5
<1>7. TypeOK'
  <2>1. cpu' \in [Levels -> Tasks \cup {NoTask}]
    <3>1. cpu' = Occupy(q, cpu)
      BY DEF Resume
    <3>2. QED
      BY <1>1, <3>1, CpuTyped
  <2>2. ready' \subseteq Tasks /\ stopped' \subseteq Pids
    BY <1>1 DEF Resume
  <2>3. QED
    BY <1>1, <1>6, <2>1, <2>2, QuietTyped
<1>8. \A r \in Pids \ {q} : Pushed(r) /\ (r \in ready \/ pc'[r] # pc[r] => r \in ready')
        /\ aim'[r] = aim[r] /\ at'[r] = at[r] /\ wid'[r] = wid[r] /\ back'[r] = back[r]
  BY <1>1, <1>2 DEF Pushed
<1>9. q \in ready' /\ Alike(proc[q], proc'[q]) /\ UNCHANGED <<asked, helping>> /\ cut \subseteq cut'
  BY <1>1, <1>2, Runner DEF Alike
<1>10. PlaceAt(q)' /\ StateAt(q)' /\ KidAt(q)' /\ WaitsAt(q)' /\ KidDone(q)'
  <2>1. CASE to = "main"
    <3>1. pc'[q] = "main" /\ InMain(q)
      BY <1>4, <1>6, <2>1
    <3>2. QED
      BY <1>3, <1>9, <3>1, PlainPoint DEF PlainPoints
  <2>2. CASE to = "kid_finish"
    <3>1. pc'[q] = "kid_finish" /\ aim'[q] = aim[q] /\ at'[q] = at[q] /\ back'[q] = back[q]
      BY <1>6, <2>2
    <3>2. InKids(q) /\ aim[q] = proc[q].kids[at[q]] /\ back[q] = "kid_finish" /\ aim[q] \in Pids \ {q}
      BY <1>4, <2>2
    <3>3. PICK c \in Pids \ {q} : c = aim[q]
      BY <3>2
    <3>4. "kid_finish" \notin CallPoints \cup AwaitPoints \cup StrikePoints
      BY DEF CallPoints, AwaitPoints, StrikePoints
    <3>5. PlaceAt(q)' /\ StateAt(q)' /\ KidAt(q)'
      BY <1>3, <1>9, <3>1, <3>2, <3>3, <3>4, CallPoint
    <3>6. QED
      BY <3>1, <3>5 DEF WaitsAt, KidDone
  <2>3. QED
    BY <1>5, <2>1, <2>2
<1>11. pc'[q] \notin {"unstarted", "start", "none"} \cup CreatePoints
  BY <1>5, <1>6 DEF CreatePoints
<1>12. {q} \in SUBSET Pids /\ \A r \in {q} : r = q
  OBVIOUS
<1>13. UNCHANGED <<proc, conds, asked, helping, requests, lives, orphans>> /\ cut \subseteq cut'
  OBVIOUS
<1>14. QED
  BY <1>3, <1>7, <1>8, <1>10, <1>11, <1>12, <1>13, QuietStep

\* NU_Resume_Task,
LEMMA ResumesPreserve ==
  ASSUME Setting, IndInv, NEW q \in Pids
  PROVE  Continue(q) \/ Restart(q) \/ StartTask(q) => IndInv'
<1>1. ASSUME Continue(q) PROVE IndInv'
  <2>1. PICK p \in Pids : Resume(q, p, "main", "main")
    BY <1>1 DEF Continue
  <2>2. UNCHANGED <<proc, locals, conds, helper, history>>
    BY <1>1 DEF Continue
  <2>3. QED
    BY <2>1, <2>2, ResumePreserves
<1>2. ASSUME Restart(q) PROVE IndInv'
  <2>1. pc[q] = "resume" /\ pc[q] \in CallPoints /\ Resume(q, aim[q], "resume", back[q])
        /\ UNCHANGED <<proc, locals, conds, helper, history>>
    <3>1. Resume(q, aim[q], "resume", back[q]) /\ UNCHANGED <<proc, locals, conds, helper, history>>
      BY <1>2 DEF Restart
    <3>2. pc[q] = "resume"
      BY <3>1 DEF Resume
    <3>3. pc[q] \in CallPoints
      BY <3>2 DEF CallPoints, StrikePoints
    <3>4. QED
      BY <3>1, <3>2, <3>3
  <2>2. PICK p \in Pids : p = aim[q]
    BY <2>1, Calling
  <2>3. QED
    BY <2>1, <2>2, ResumePreserves
<1>3. ASSUME StartTask(q) PROVE IndInv'
  <2>1. pc[q] = "joined" /\ Runs(q) /\ UNCHANGED <<proc, locals, conds, helper, lives, kills, frees, orphans, cut>>
    BY <1>3 DEF StartTask, Resume, Goto
  <2>2. PICK p \in Pids : p = aim[q]
    BY <2>1, Here DEF PlaceAt
  <2>3. CASE Resume(q, aim[q], "joined", "main") /\ UNCHANGED stops
    <3>1. UNCHANGED <<proc, locals, conds, helper, history>>
      BY <2>1, <2>3 DEF history
    <3>2. QED
      BY <2>2, <2>3, <3>1, ResumePreserves
  <2>4. CASE stops' = stops + 1 /\ Goto(q, "joined", "main") /\ UNCHANGED <<stopped, ready>>
    <3>1. /\ TypeOK /\ proc[q] \in SlotType /\ proc = [proc EXCEPT ![q] = proc[q]] /\ Alike(proc[q], proc[q])
          /\ kills \in Nat /\ stops \in Nat /\ cut \subseteq Pids
      BY Same, States DEF IndInv, TypeOK, HistoryOK
    <3>2. Moved(q, "main", q, proc[q]) /\ UNCHANGED <<conds, asked, requests>>
      BY <2>1, <2>4, <3>1 DEF Moved, Goto, locals, helper
    <3>3. InMain(q) /\ pc[q] \notin {"none", "unstarted", "terminated", "start"} \cup CreatePoints
      BY <2>1 DEF InMain, CreatePoints
    <3>4. "main" \in PlainPoints
      BY DEF PlainPoints
    <3>5. QED
      BY <2>1, <3>1, <3>2, <3>3, <3>4, PlainGo
  <2>5. QED
    BY <1>3, <2>3, <2>4 DEF StartTask
<1>4. QED
  BY <1>1, <1>2, <1>3

\* The exit condition is withdrawn.
LEMMA WithdrawPreserves == ASSUME Setting, IndInv, NEW p \in Pids, WithdrawExit(p) PROVE IndInv'
<1> USE DEF Goto, locals, helper, history
<1> DEFINE e == [proc[p] EXCEPT !.exit_wait = 0]
<1>1. pc[p] = "stages" /\ Runs(p) /\ proc[p].kill_state = 11 /\ Over(p)
  BY DEF WithdrawExit, InState, Over
<1>2. /\ TypeOK /\ PlaceAt(p) /\ StateAt(p) /\ KidAt(p) /\ Lives(p) /\ proc[p] \in SlotType
      /\ kills \in Nat /\ stops \in Nat /\ cut \subseteq Pids /\ proc[p].exit_wait \in Nat
  BY <1>1, Here, SlotFields DEF TypeOK, HistoryOK
<1>3. /\ e \in SlotType /\ e.exit_wait = 0
      /\ e.id = proc[p].id /\ e.ppid = proc[p].ppid /\ e.kids = proc[p].kids
      /\ e.kill_mode = proc[p].kill_mode /\ e.kill_state = proc[p].kill_state
      /\ e.critical = proc[p].critical
  BY <1>2, ExitStored
<1>4. Moved(p, "wake", p, e) /\ UNCHANGED <<conds, asked, requests, helping, cut>>
  BY <1>2 DEF WithdrawExit, Moved
<1> HIDE DEF e
<1>5. "wake" \in Points /\ "wake" \in RunPoints
  BY DEF Points, RunPoints
<1>6. pc'[p] = "wake" /\ proc'[p] = e /\ p \in ready'
  BY <1>1, <1>2, <1>3, <1>4, <1>5, MoveSeen, Runner
<1>7. Lives(p)'
  BY <1>2, <1>3, <1>4, <1>6 DEF Lives
<1>8. PlaceAt(p)'
  BY <1>6, <1>7 DEF PlaceAt, InOwn, CallPoints, StrikePoints, AwaitPoints
<1>9. StateAt(p)'
  BY <1>1, <1>2, <1>3, <1>4, <1>6, <1>7
    DEF StateAt, InOwn, InMain, Calls, CallPoints, StrikePoints, AwaitPoints, CreatePoints
<1>10. KidAt(p)' /\ WaitsAt(p)' /\ KidDone(p)'
  BY <1>2, <1>3, <1>6
    DEF KidAt, InKids, Calls, CallPoints, StrikePoints, AwaitPoints, WaitsAt, KidDone
<1>11. pc[p] \notin {"none", "new", "filled", "created", "unstarted", "terminated"} /\ pc[p] \notin MakePoints
       /\ "wake" \notin CreatePoints \cup {"none"}
  BY <1>1 DEF MakePoints, CreatePoints
<1>12. proc'[p].kids = proc[p].kids /\ ~(proc[p].kill_state <= 3) /\ e.kill_state >= proc[p].kill_state
  BY <1>1, <1>3, <1>6
<1>13. QED
  BY <1>1, <1>3, <1>4, <1>5, <1>8, <1>9, <1>10, <1>11, <1>12, SoloStep

\* ... and destroyed.
LEMMA DestroyPreserves == ASSUME Setting, IndInv, NEW p \in Pids, DestroyExit(p) PROVE IndInv'
<1> USE DEF Goto, locals, helper, history
<1>1. pc[p] = "wake" /\ Runs(p) /\ Waiters(p) = {} /\ conds' = [conds EXCEPT ![p] = @ \ {wid[p]}]
  BY DEF DestroyExit
<1>2. /\ TypeOK /\ PlaceAt(p) /\ StateAt(p) /\ KidAt(p) /\ Lives(p) /\ proc[p] \in SlotType
      /\ kills \in Nat /\ stops \in Nat /\ cut \subseteq Pids
      /\ proc = [proc EXCEPT ![p] = proc[p]] /\ Alike(proc[p], proc[p])
      /\ conds \in [Pids -> SUBSET Nat]
  BY <1>1, Here, Same DEF TypeOK, TablesOK, HistoryOK
<1>3. proc[p].kill_state = 11 /\ Over(p)
  BY <1>1, <1>2 DEF StateAt, Over
<1>4. Moved(p, "resched", p, proc[p])
      /\ UNCHANGED <<proc, asked, requests, helping, cut, lives, aim, wid>>
  BY <1>2 DEF DestroyExit, Moved
<1>5. "resched" \in Points /\ "resched" \in RunPoints
  BY DEF Points, RunPoints
<1>6. /\ pc'[p] = "resched" /\ p \in ready'
      /\ \A r \in Pids \ {p} : pc'[r] = pc[r]
  BY <1>1, <1>2, <1>4, <1>5, MoveSeen, Runner
<1>7. conds' \in [Pids -> SUBSET Nat]
  BY <1>1, <1>2
<1>8. TypeOK'
  <2>1. requests' \in Seq(RequestType) /\ asked' \subseteq Pids
    BY <1>2, <1>4 DEF TypeOK, KernelOK, HistoryOK
  <2>2. QED
    BY <1>2, <1>4, <1>5, <1>7, <2>1, MoveTyped
<1>9. ASSUME NEW r \in Pids
      PROVE \/ conds[r] \subseteq conds'[r]
            \/ Over(r) /\ \A q \in Pids : pc'[q] = "wait" /\ aim'[q] = r => wid'[q] \in conds'[r]
  <2>1. CASE r # p
    BY <1>1, <1>2, <2>1
  <2>2. CASE r = p
    <3>1. ASSUME NEW q \in Pids, pc'[q] = "wait", aim'[q] = p PROVE wid'[q] \in conds'[p]
      <4>1. pc[q] = "wait" /\ aim[q] = p /\ wid'[q] = wid[q]
        BY <1>4, <1>6, <3>1
      <4>2. wid[q] \in conds[p]
        BY <4>1 DEF IndInv, WaitsExact, WaitsAt
      <4>3. wid[q] # wid[p]
        BY <1>1, <4>1 DEF Waiters
      <4>4. QED
        BY <1>1, <1>2, <4>1, <4>2, <4>3
    <3>2. QED
      BY <1>3, <2>2, <3>1
  <2>3. QED
    BY <2>1, <2>2
<1>10. Frame({p}) /\ \A r \in Pids : Grows(r) /\ Lives(r)' = Lives(r)
  <2>1. /\ "resched" \notin CreatePoints \cup {"none"}
        /\ pc[p] \notin {"none", "new", "filled", "created", "unstarted", "terminated", "start"}
    BY <1>1 DEF CreatePoints
  <2>2. proc[p].kill_state \in 0..11
    BY <1>2, States
  <2>3. PICK e \in SlotType : e = proc[p]
    BY <1>2
  <2>4. /\ e.id = proc[p].id /\ e.ppid = proc[p].ppid /\ e.kill_state >= proc[p].kill_state
        /\ e.critical = proc[p].critical /\ e.exit_wait = proc[p].exit_wait
        /\ asked' = asked /\ Moved(p, "resched", p, e)
    BY <1>4, <2>2, <2>3
  <2>5. QED
    BY <1>5, <1>9, <2>1, <2>4, MoveFrame
<1>11. Shows(p)
  <2>1. Lives(p)'
    BY <1>2, <1>4 DEF Lives
  <2>2. PlaceAt(p)'
    BY <1>6, <2>1 DEF PlaceAt, InOwn, CallPoints, StrikePoints, AwaitPoints
  <2>3. StateAt(p)'
    BY <1>1, <1>2, <1>3, <1>4, <1>6, <2>1
      DEF StateAt, InOwn, InMain, Calls, CallPoints, StrikePoints, AwaitPoints, CreatePoints
  <2>4. KidAt(p)' /\ WaitsAt(p)' /\ KidDone(p)' /\ MakesAt(p)'
    BY <1>2, <1>4, <1>6
      DEF KidAt, InKids, Calls, CallPoints, StrikePoints, AwaitPoints, WaitsAt, KidDone, MakesAt,
        CreatePoints, MakePoints
  <2>5. ~Fresh(p)' /\ pc[p] \notin MakePoints
    BY <1>1, <1>6 DEF Fresh, MakePoints
  <2>6. \A x \in Pids : ChildAt(p, x)'
    BY <1>4, <1>8, <1>10, <2>5, ParentKeeps
  <2>7. QED
    BY <2>2, <2>3, <2>4, <2>6 DEF Shows, LocalAt
<1>12. /\ LocalExact' /\ MakesExact' /\ WaitsExact' /\ SlotsExact' /\ ExitsExact'
       /\ ChildrenExact' /\ KidsDone'
  BY <1>8, <1>10, <1>11, FrameKeeps
<1>13. RequestsExact' /\ FirstComesFirst' /\ FirstPending'
  BY <1>4, RequestsStay
<1>14. QED
  BY <1>8, <1>12, <1>13 DEF IndInv

\* The killer q goes on, and moves the task of p.
LEMMA HitStep ==
  ASSUME Setting, IndInv, TypeOK', NEW q \in Pids, NEW p \in Pids \ {q},
         pc[q] \in {"terminate", "reset"}, aim[q] = p, pc'[q] \in {"reset", "resume"}, q \in ready',
         UNCHANGED <<proc, aim, at, wid, back, conds, asked, helping, requests, lives>>,
         cut \subseteq cut', orphans \subseteq orphans',
         \A r \in Pids \ {p, q} : pc'[r] = pc[r] /\ (r \in ready => r \in ready'),
         \/ pc'[p] = "terminated" /\ pc[p] # "none"
         \/ pc'[p] = "none" /\ pc[p] = "none"
         \/ pc'[p] = "unstarted" /\ pc[p] \in {"terminated", "finished"},
         Orphaned(p) \subseteq orphans',
         pc'[p] = "unstarted" => p \in cut' \/ proc[p].kill_mode
  PROVE  IndInv'
<1>1. \A r \in Pids : Alike(proc[r], proc'[r]) /\ Grows(r)
  <2>1. \A r \in Pids : proc'[r].kill_state \in 0..11
    BY States DEF IndInv
  <2>2. QED
    BY <2>1 DEF Alike, Grows, MutexMoves, ExitMoves
<1>2. \A r \in Pids \ {p, q} : Rests(r)
  BY <1>1 DEF Rests, Pushed
<1>3. \A r \in Pids : Makers(r)
  BY DEF Makers, Orphaned, CreatePoints
<1>4. Starts(p, {p, q}) /\ Starts(q, {p, q})
  BY DEF Starts
<1>5. Frame({p, q})
  <2>1. \A r \in Pids : Lives(r)' = Lives(r)
    BY DEF Lives
  <2>2. QED
    BY <1>1, <1>2, <1>3, <1>4, <2>1 DEF Frame, Seen
<1>6. Lives(p)' = Lives(p) /\ Lives(q)' = Lives(q)
  BY DEF Lives
<1>7. LocalAt(p) /\ \A x \in Pids : ChildAt(p, x)
  BY DEF IndInv, LocalExact, ChildrenExact
<1>8. Shows(p)
  <2>1. PlaceAt(p)'
    BY <1>6, <1>7 DEF LocalAt, PlaceAt, InOwn, CallPoints, StrikePoints, AwaitPoints, RunPoints, StillPoints, CreatePoints
  <2>2. StateAt(p)'
    BY <1>6, <1>7 DEF LocalAt, StateAt, InOwn, InMain, Calls, CallPoints, StrikePoints, AwaitPoints, CreatePoints
  <2>3. KidAt(p)' /\ WaitsAt(p)' /\ KidDone(p)' /\ MakesAt(p)'
    BY <1>7 DEF LocalAt, KidAt, InKids, Calls, CallPoints, StrikePoints, AwaitPoints, WaitsAt, KidDone,
      MakesAt, CreatePoints, MakePoints
  <2>4. ASSUME NEW x \in Pids PROVE ChildAt(p, x)'
    <3>1. ChildAt(p, x) /\ (ChildOf(x, p)' => ChildOf(x, p)) /\ Over(x)' = Over(x)
          /\ InList(p, x)' = InList(p, x)
      BY <1>7 DEF ChildOf, Over, InList
    <3>2. ChildOf(x, p)' /\ pc[p] \in MakePoints => aim[p] # x
      BY DEF Orphaned, MakePoints, CreatePoints, ChildOf
    <3>3. p \notin cut' => p \notin cut /\ (Fresh(p)' => Fresh(p))
      BY DEF Fresh
    <3>4. QED
      BY <1>6, <3>1, <3>2, <3>3 DEF ChildAt
  <2>5. QED
    BY <2>1, <2>2, <2>3, <2>4 DEF Shows, LocalAt
<1>9. Shows(q)
  <2>1. pc[q] \in CallPoints /\ pc[q] \in StrikePoints /\ pc'[q] \in CallPoints /\ pc'[q] \in StrikePoints
        /\ pc'[q] \notin AwaitPoints
    BY DEF CallPoints, StrikePoints, AwaitPoints
  <2>2. PlaceAt(q)' /\ StateAt(q)' /\ KidAt(q)'
    BY <1>1, <2>1, Calling, CallPoint
  <2>3. WaitsAt(q)' /\ KidDone(q)' /\ MakesAt(q)'
    BY DEF WaitsAt, KidDone, MakesAt, CreatePoints, MakePoints
  <2>4. ~Fresh(q)' /\ pc[q] \notin MakePoints
    BY DEF Fresh, MakePoints
  <2>6. {p, q} \in SUBSET Pids
    OBVIOUS
  <2>5. \A x \in Pids : ChildAt(q, x)'
    BY <1>1, <1>5, <1>6, <2>4, <2>6, ParentKeeps
  <2>7. QED
    BY <2>2, <2>3, <2>5 DEF Shows, LocalAt
<1>10. {p, q} \in SUBSET Pids /\ \A r \in {p, q} : Shows(r)
  BY <1>8, <1>9
<1>11. /\ LocalExact' /\ MakesExact' /\ WaitsExact' /\ SlotsExact' /\ ExitsExact'
       /\ ChildrenExact' /\ KidsDone'
  BY <1>5, <1>10, FrameKeeps
<1>12. RequestsExact' /\ FirstComesFirst' /\ FirstPending'
  BY RequestsStay
<1>13. QED
  BY <1>11, <1>12 DEF IndInv

\* NU_Terminate_Task,
LEMMA TerminatePreserves == ASSUME Setting, IndInv, NEW q \in Pids, Terminate(q) PROVE IndInv'
<1>1. pc[q] = "terminate" /\ Runs(q) /\ pc[q] \in StrikePoints /\ pc[q] \in CallPoints
  BY DEF Terminate, StrikePoints, CallPoints
<1>2. PICK p \in Pids \ {q} : p = aim[q]
  BY <1>1, Calling
<1>3. /\ TypeOK /\ pc \in [Pids -> Points] /\ ready \subseteq Tasks /\ stopped \subseteq Pids
      /\ cut \subseteq Pids /\ orphans \subseteq Pids /\ p \in Tasks /\ q \in Tasks
      /\ requests \in Seq(RequestType)
  BY Constants DEF Setting, IndInv, TypeOK, TablesOK, KernelOK, HistoryOK
<1>4. /\ pc' = [pc EXCEPT ![p] = IF pc[p] # "none" THEN "terminated" ELSE @, ![q] = "reset"]
      /\ ready' = ready \ {p}
      /\ stopped' \in {stopped \ {p}} \cup {s \in {stopped} : p \notin ready}
      /\ cpu' = Occupy(q, IF pc[p] # "none" THEN Evict(p, cpu) ELSE cpu)
      /\ orphans' = orphans \cup Orphaned(p)
      /\ cut' = IF pc[p] = "wake" THEN cut \cup {p} ELSE cut
      /\ UNCHANGED <<proc, locals, conds, helper, lives, kills, stops, frees>>
  BY <1>2 DEF Terminate
<1>5. Orphaned(p) \subseteq Pids
  BY DEF Orphaned, IndInv, MakesExact, MakesAt
<1>6. "terminated" \in Points /\ "reset" \in Points
  BY DEF Points, StillPoints, RunPoints, CallPoints, StrikePoints
<1>7. pc' \in [Pids -> Points]
  BY <1>3, <1>4, <1>6
<1>8. cpu' \in [Levels -> Tasks \cup {NoTask}]
  <2>1. \A u \in Tasks : Occupy(q, Evict(u, cpu)) \in [Levels -> Tasks \cup {NoTask}]
    BY <1>3, CpuTyped
  <2>2. Occupy(q, cpu) \in [Levels -> Tasks \cup {NoTask}]
    BY <1>3, CpuTyped
  <2>3. QED
    BY <1>3, <1>4, <2>1, <2>2
<1>9. TypeOK'
  <2>1. TablesOK'
    BY <1>3, <1>4, <1>7 DEF TypeOK, TablesOK, locals
  <2>2. KernelOK'
    BY <1>3, <1>4, <1>8 DEF TypeOK, KernelOK, helper
  <2>3. HistoryOK'
    BY <1>3, <1>4, <1>5 DEF TypeOK, HistoryOK, helper
  <2>4. QED
    BY <2>1, <2>2, <2>3 DEF TypeOK
<1>10. q \in ready'
  BY <1>1, <1>3, <1>4, Runner
<1>11. /\ UNCHANGED <<proc, aim, at, wid, back, conds, asked, helping, requests, lives>>
       /\ cut \subseteq cut' /\ orphans \subseteq orphans' /\ Orphaned(p) \subseteq orphans'
  BY <1>4 DEF locals, helper
<1>12. /\ \A r \in Pids \ {p, q} : pc'[r] = pc[r] /\ (r \in ready => r \in ready')
       /\ \/ pc'[p] = "terminated" /\ pc[p] # "none"
          \/ pc'[p] = "none" /\ pc[p] = "none"
       /\ pc'[q] = "reset"
  BY <1>3, <1>4
<1>13. QED
  BY <1>1, <1>2, <1>9, <1>10, <1>11, <1>12, HitStep

\* NU_Reset_Task,
LEMMA ResetPreserves == ASSUME Setting, IndInv, NEW q \in Pids, Reset(q) PROVE IndInv'
<1>1. pc[q] = "reset" /\ Runs(q) /\ pc[q] \in StrikePoints /\ pc[q] \in CallPoints
  BY DEF Reset, StrikePoints, CallPoints
<1>2. PICK p \in Pids \ {q} : p = aim[q]
  BY <1>1, Calling
<1>3. /\ TypeOK /\ pc \in [Pids -> Points] /\ ready \subseteq Tasks /\ stopped \subseteq Pids
      /\ kills \in Nat /\ stops \in Nat /\ cut \subseteq Pids /\ p \in Tasks /\ q \in Tasks
  BY Constants DEF Setting, IndInv, TypeOK, TablesOK, KernelOK, HistoryOK
<1>4. /\ pc' = [pc EXCEPT ![p] = IF @ \in {"terminated", "finished"} THEN "unstarted" ELSE @,
                          ![q] = "resume"]
      /\ cpu' = Occupy(q, cpu)
      /\ cut' = cut \cup {r \in {p} : pc[r] \in {"terminated", "finished"} /\ ~proc[r].kill_mode}
      /\ UNCHANGED <<proc, locals, conds, stopped, helper, ready>>
      /\ UNCHANGED <<lives, kills, stops, frees, orphans>>
  BY <1>2 DEF Reset
<1>5. "unstarted" \in Points /\ "resume" \in Points
  BY DEF Points, StillPoints, RunPoints, CallPoints, StrikePoints
<1>6. pc' \in [Pids -> Points]
  BY <1>3, <1>4, <1>5
<1>7. TypeOK'
  <2>1. cpu' \in [Levels -> Tasks \cup {NoTask}]
    BY <1>3, <1>4, CpuTyped
  <2>2. ready' \subseteq Tasks /\ stopped' \subseteq Pids /\ cut' \subseteq Pids /\ kills' \in Nat /\ stops' \in Nat
    BY <1>3, <1>4
  <2>3. UNCHANGED <<proc, locals, conds, helper, lives, frees, orphans>>
    BY <1>4
  <2>4. QED
    BY <1>3, <1>6, <2>1, <2>2, <2>3, QuietTyped
<1>8. q \in ready'
  BY <1>1, <1>3, <1>4, Runner
<1>9. /\ UNCHANGED <<proc, aim, at, wid, back, conds, asked, helping, requests, lives, orphans>>
      /\ cut \subseteq cut'
  BY <1>4 DEF locals, helper
<1>10. pc'[q] = "resume" /\ \A r \in Pids \ {p, q} : pc'[r] = pc[r] /\ (r \in ready => r \in ready')
  BY <1>3, <1>4
<1>11. CASE pc[p] \in {"terminated", "finished"}
  <2>1. pc'[p] = "unstarted" /\ (p \in cut' \/ proc[p].kill_mode)
    BY <1>3, <1>4, <1>11
  <2>2. Orphaned(p) \subseteq orphans'
    BY <1>11 DEF Orphaned, CreatePoints
  <2>3. QED
    BY <1>1, <1>2, <1>7, <1>8, <1>9, <1>10, <1>11, <2>1, <2>2, HitStep
<1>12. CASE pc[p] \notin {"terminated", "finished"}
  <2>1. \A r \in Pids \ {q} :
          /\ Pushed(r) /\ (r \in ready \/ pc'[r] # pc[r] => r \in ready')
          /\ aim'[r] = aim[r] /\ at'[r] = at[r] /\ wid'[r] = wid[r] /\ back'[r] = back[r]
    BY <1>3, <1>4, <1>9, <1>12 DEF Pushed
  <2>2. Alike(proc[q], proc'[q])
    BY <1>9 DEF Alike
  <2>3. pc'[q] \in CallPoints /\ pc'[q] \in StrikePoints /\ pc'[q] \notin AwaitPoints
    BY <1>10 DEF CallPoints, StrikePoints, AwaitPoints
  <2>4. PlaceAt(q)' /\ StateAt(q)' /\ KidAt(q)'
    BY <1>1, <1>2, <1>8, <1>9, <2>2, <2>3, Calling, CallPoint
  <2>5. WaitsAt(q)' /\ KidDone(q)'
    BY <1>10 DEF WaitsAt, KidDone
  <2>6. /\ pc[q] \notin {"none", "unstarted", "start", "terminated"} \cup CreatePoints
        /\ pc'[q] \notin {"unstarted", "start", "none"} \cup CreatePoints
    BY <1>1, <1>10 DEF CreatePoints
  <2>7. {q} \in SUBSET Pids /\ \A r \in {q} : r = q
    OBVIOUS
  <2>8. QED
    BY <1>7, <1>9, <2>1, <2>4, <2>5, <2>6, <2>7, QuietStep
<1>13. QED
  BY <1>11, <1>12

\* A dtor destroys the mutex of c: who waited for it goes on.
LEMMA RunDtorPreserves == ASSUME Setting, IndInv, NEW p \in Pids, RunDtor(p) PROVE IndInv'
<1> USE DEF locals, helper, history
<1>1. pc[p] = "dtor" /\ Runs(p)
  BY DEF RunDtor
<1>2. /\ TypeOK /\ PlaceAt(p) /\ proc[p] \in SlotType /\ Lives(p)
      /\ kills \in Nat /\ stops \in Nat /\ cut \subseteq Pids /\ ready \subseteq Tasks
      /\ pc \in [Pids -> Points] /\ proc \in [Pids -> SlotType] /\ p \in Tasks /\ Pids \subseteq Tasks
  BY <1>1, Here, Constants DEF Setting, TypeOK, TablesOK, KernelOK, HistoryOK
<1>3. PICK c \in Pids : c = aim[p]
  BY <1>1, <1>2 DEF PlaceAt
<1> DEFINE e == [proc[c] EXCEPT !.critical = "none"]
<1>4. proc[c] \in SlotType /\ e \in SlotType /\ Alike(proc[c], e) /\ e.critical = "none"
  BY <1>2, MutexStored
<1>5. proc' = [proc EXCEPT ![c] = e] /\ pc' = [WithoutMutex(c) EXCEPT ![p] = "stages"]
      /\ ready' = ready \cup Freed(c) /\ cpu' = Occupy(p, cpu)
      /\ UNCHANGED <<back, lock, aim, at, wid, conds, stopped, requests, helping, asked,
                     lives, kills, stops, frees, orphans, cut>>
  BY <1>3 DEF RunDtor
<1> HIDE DEF e
<1>6. /\ pc'[p] = "stages" /\ proc'[c] = e
      /\ \A r \in Pids \ {p} : pc'[r] = IF r \in Freed(c) THEN Past(r) ELSE pc[r]
      /\ \A r \in Pids \ {c} : proc'[r] = proc[r]
  BY <1>2, <1>5 DEF WithoutMutex
<1>7. \A r \in Pids : Alike(proc[r], proc'[r])
  BY <1>4, <1>6 DEF Alike
<1>8. TypeOK'
  <2>1. pc' \in [Pids -> Points]
    <3>1. {"state0", "mark", "stages"} \subseteq Points
      BY DEF Points, RunPoints, CallPoints, StrikePoints, StillPoints
    <3>2. WithoutMutex(c) \in [Pids -> Points]
      BY <1>2, <3>1 DEF WithoutMutex, Past
    <3>3. QED
      BY <1>5, <3>1, <3>2
  <2>2. proc' \in [Pids -> SlotType]
    BY <1>2, <1>4, <1>5
  <2>3. cpu' \in [Levels -> Tasks \cup {NoTask}]
    BY <1>2, <1>5, CpuTyped
  <2>4. ready' \subseteq Tasks
    BY <1>2, <1>5 DEF Freed
  <2>5. TablesOK'
    BY <1>2, <1>5, <2>1, <2>2 DEF TypeOK, TablesOK
  <2>6. KernelOK'
    BY <1>2, <1>5, <2>3, <2>4 DEF TypeOK, KernelOK
  <2>7. HistoryOK'
    BY <1>2, <1>5 DEF TypeOK, HistoryOK
  <2>8. QED
    BY <2>5, <2>6, <2>7 DEF TypeOK
<1>9. \A r \in Pids \ {p} : Rests(r)
  BY <1>5, <1>6, <1>7 DEF Rests, Pushed, Freed
<1>10. ASSUME NEW r \in Pids PROVE Grows(r)
  <2>1. MutexMoves(r)
    <3>1. CASE r # c
      BY <1>6, <3>1 DEF MutexMoves
    <3>2. CASE r = c
      <4>1. ASSUME NEW q \in Pids, aim'[q] = c PROVE pc'[q] # "locked"
        BY <1>5, <1>6, <4>1 DEF Freed, Past
      <4>2. QED
        BY <1>4, <1>6, <3>2, <4>1 DEF MutexMoves
    <3>3. QED
      BY <3>1, <3>2
  <2>2. ExitMoves(r)
    BY <1>5, <1>7 DEF ExitMoves, Alike
  <2>3. proc[r].kill_state \in 0..11
    BY <1>2, States
  <2>4. QED
    BY <1>5, <1>7, <2>1, <2>2, <2>3 DEF Grows, Alike
<1>11. \A r \in Pids : Makers(r) /\ Lives(r)' = Lives(r)
  <2>1. ASSUME NEW r \in Pids PROVE Makers(r)
    <3>1. pc'[r] \in CreatePoints \/ pc[r] \in CreatePoints => pc'[r] = pc[r]
      BY <1>1, <1>6 DEF Past, CreatePoints, Freed
    <3>2. QED
      BY <1>5, <3>1 DEF Makers, CreatePoints
  <2>2. QED
    BY <1>5, <1>7, <2>1 DEF Lives, Alike
<1>12. Frame({p})
  <2>1. Starts(p, {p})
    BY <1>1 DEF Starts
  <2>2. QED
    BY <1>5, <1>9, <1>10, <1>11, <2>1 DEF Frame, Seen
<1>13. Shows(p)
  <2>1. PlaceAt(p)' /\ StateAt(p)' /\ KidAt(p)' /\ WaitsAt(p)' /\ KidDone(p)'
    BY <1>1, <1>2, <1>5, <1>6, <1>7, Runner, PlainPoint DEF PlainPoints
  <2>2. ~Fresh(p)' /\ pc[p] \notin MakePoints /\ MakesAt(p)'
    BY <1>1, <1>6 DEF Fresh, MakePoints, MakesAt, CreatePoints
  <2>3. \A x \in Pids : ChildAt(p, x)'
    <3>1. proc'[p].kids = proc[p].kids /\ proc'[p].kill_state = proc[p].kill_state
      BY <1>7 DEF Alike
    <3>2. QED
      BY <1>8, <1>10, <1>11, <1>12, <2>2, <3>1, ParentKeeps
  <2>4. QED
    BY <2>1, <2>2, <2>3 DEF Shows, LocalAt
<1>14. /\ LocalExact' /\ MakesExact' /\ WaitsExact' /\ SlotsExact' /\ ExitsExact'
       /\ ChildrenExact' /\ KidsDone'
  BY <1>8, <1>12, <1>13, FrameKeeps
<1>15. RequestsExact' /\ FirstComesFirst' /\ FirstPending'
  <2>1. \A r \in Pids : proc'[r].id = proc[r].id
    BY <1>7 DEF Alike
  <2>2. QED
    BY <1>5, <2>1, RequestsStay
<1>16. QED
  BY <1>8, <1>14, <1>15 DEF IndInv

\* kill_process is requested from the helper.
LEMMA RequestsGrow ==
  ASSUME IndInv, NEW p \in Pids, Lives(p), Request(p), UNCHANGED <<proc, helping, lives, cut>>
  PROVE  /\ requests' \in Seq(RequestType) /\ asked' \subseteq Pids
         /\ RequestsExact' /\ FirstComesFirst' /\ FirstPending'
<1> DEFINE e == [pid |-> p, life |-> lives[p], first |-> p \notin asked]
           n == Len(requests) + 1
<1>1. TypeOK /\ requests \in Seq(RequestType) /\ asked \subseteq Pids /\ lives[p] \in Nat
      /\ requests' = Append(requests, e) /\ asked' = asked \cup {p}
  BY DEF IndInv, TypeOK, KernelOK, HistoryOK, Request
<1>2. e \in RequestType
  BY <1>1 DEF RequestType
<1> HIDE DEF e
<1>3. /\ requests' \in Seq(RequestType) /\ Len(requests) \in Nat
      /\ DOMAIN requests = 1..Len(requests) /\ DOMAIN requests' = 1..n
      /\ \A i \in DOMAIN requests : requests[i] \in RequestType /\ requests'[i] = requests[i]
      /\ requests'[n] = e
  BY <1>1, <1>2, AppendFacts
<1>4. \A i \in DOMAIN requests' : i \in Nat /\ i <= n /\ (i \in DOMAIN requests \/ i = n)
  BY <1>3
<1>5. e.pid = p /\ e.life = lives[p] /\ (e.first <=> p \notin asked)
  BY DEF e
<1>6. \A i \in DOMAIN requests : requests[i].pid \in Pids /\ RequestAt(requests[i])
  BY <1>3 DEF IndInv, RequestsExact, RequestType
<1>7. ASSUME NEW i \in DOMAIN requests' PROVE RequestAt(requests[i])'
  <2>1. CASE i \in DOMAIN requests
    <3>1. PICK r \in RequestType : r = requests[i] /\ requests'[i] = r /\ RequestAt(r) /\ r.pid \in Pids
      BY <1>3, <1>6, <2>1
    <3>2. QED
      BY <1>1, <3>1 DEF RequestAt, Own, Lives
  <2>2. CASE i = n
    <3>1. requests'[i] = e
      BY <1>3, <2>2
    <3>2. QED
      BY <1>1, <1>5, <3>1 DEF RequestAt, Own, Lives
  <2>3. QED
    BY <1>4, <2>1, <2>2
<1>8. FirstComesFirst'
  <2>1. ASSUME NEW i \in DOMAIN requests', NEW j \in DOMAIN requests', i < j,
               requests'[i].pid = requests'[j].pid, requests'[i].life = requests'[j].life
        PROVE  ~requests'[j].first
    <3>0. i \in DOMAIN requests
      BY <1>3, <1>4, <2>1
    <3>1. CASE j \in DOMAIN requests
      BY <1>3, <2>1, <3>0, <3>1 DEF IndInv, FirstComesFirst
    <3>2. CASE j = n
      <4>1. Own(requests[i]) /\ requests[i].pid = p
        BY <1>3, <1>5, <2>1, <3>0, <3>2 DEF Own
      <4>2. p \in asked
        BY <1>6, <3>0, <4>1 DEF RequestAt
      <4>3. QED
        BY <1>3, <1>5, <3>2, <4>2
    <3>3. QED
      BY <1>4, <3>1, <3>2
  <2>2. QED
    BY <2>1 DEF FirstComesFirst
<1>9. FirstPending'
  <2>1. ASSUME NEW r \in Pids, Lives(r)', r \in asked'
        PROVE  \E i \in DOMAIN requests' : requests'[i].pid = r /\ requests'[i].life = lives'[r] /\ requests'[i].first
    <3>1. CASE r \in asked
      <4>1. Lives(r) /\ \A i \in DOMAIN requests : i \in DOMAIN requests'
        BY <1>3, <2>1 DEF Lives
      <4>2. PICK i \in DOMAIN requests :
              requests[i].pid = r /\ requests[i].life = lives[r] /\ requests[i].first
        BY <3>1, <4>1 DEF IndInv, FirstPending
      <4>3. QED
        BY <1>3, <4>1, <4>2
    <3>2. CASE r \notin asked
      <4>1. r = p /\ n \in DOMAIN requests'
        BY <1>1, <1>3, <2>1, <3>2
      <4>2. QED
        BY <1>3, <1>5, <3>2, <4>1
    <3>3. QED
      BY <3>1, <3>2
  <2>2. QED
    BY <2>1 DEF FirstPending
<1>10. helping' # NoPid => proc'[helping'].id
  BY DEF IndInv, RequestsExact
<1>11. asked' \subseteq Pids
  BY <1>1
<1>12. QED
  BY <1>3, <1>7, <1>8, <1>9, <1>10, <1>11 DEF RequestsExact

\* and SUBPROC, which adds a request of kill_process.
LEMMA RequestPreserves ==
  ASSUME Setting, IndInv, NEW p \in Pids
  PROVE  Stage8(p) \/ Reschedule(p) => IndInv'
<1> USE DEF locals, history, Goto
<1>0. ASSUME Stage8(p) \/ Reschedule(p) PROVE IndInv'
  <2>1. PICK to \in {"asked", "asleep"} :
          /\ pc' = [pc EXCEPT ![p] = to] /\ Request(p)
          /\ ready' \subseteq ready \cup {Helper} /\ ready \subseteq ready' \cup {p}
          /\ to = "asked" => pc[p] = "stages" /\ proc[p].kill_state = 8 /\ ready \subseteq ready'
          /\ to = "asleep" => pc[p] = "resched"
          /\ cpu' = Occupy(p, cpu) \/ cpu' = GiveUp(p, cpu)
    BY <1>0 DEF Stage8, Reschedule, InState
  <2>2. UNCHANGED <<proc, back, lock, aim, at, wid, conds, stopped, helping,
                    lives, kills, stops, frees, orphans, cut>> /\ Runs(p)
    BY <1>0 DEF Stage8, Reschedule
  <2>3. /\ TypeOK /\ PlaceAt(p) /\ StateAt(p) /\ KidAt(p) /\ Lives(p) /\ pc \in [Pids -> Points]
        /\ p \in ready /\ ready \subseteq Tasks /\ Helper \in Tasks /\ p \in Tasks
        /\ proc[p].kill_state \in 0..11
    BY <2>1, <2>2, Here, Runner, Constants DEF Setting, TypeOK, TablesOK, KernelOK
  <2>4. pc'[p] = to /\ \A r \in Pids \ {p} : pc'[r] = pc[r]
    BY <2>1, <2>3
  <2>5. /\ requests' \in Seq(RequestType) /\ asked' \subseteq Pids /\ asked' = asked \cup {p}
        /\ RequestsExact' /\ FirstComesFirst' /\ FirstPending'
    BY <2>1, <2>2, <2>3, RequestsGrow DEF Request
  <2>6. TypeOK'
    <3>1. "asked" \in Points /\ "asleep" \in Points
      BY DEF Points, RunPoints, StillPoints
    <3>2. pc' \in [Pids -> Points]
      BY <2>1, <2>3, <3>1
    <3>3. cpu' \in [Levels -> Tasks \cup {NoTask}]
      BY <2>1, <2>3, CpuTyped
    <3>4. TablesOK'
      BY <2>2, <2>3, <3>2 DEF TypeOK, TablesOK
    <3>5. KernelOK'
      BY <2>1, <2>2, <2>3, <2>5, <3>3 DEF TypeOK, KernelOK
    <3>6. HistoryOK'
      BY <2>2, <2>3, <2>5 DEF TypeOK, HistoryOK
    <3>7. QED
      BY <3>4, <3>5, <3>6 DEF TypeOK
  <2>7. \A r \in Pids : Grows(r) /\ Lives(r)' = Lives(r) /\ Alike(proc[r], proc'[r])
    <3>1. \A r \in Pids : proc[r].kill_state \in 0..11
      BY <2>3, States
    <3>2. QED
      BY <2>2, <3>1 DEF Grows, Lives, MutexMoves, ExitMoves, Alike
  <2>8. \A r \in Pids \ {p} : Rests(r)
    BY <2>1, <2>2, <2>4, <2>5, <2>7 DEF Rests, Pushed
  <2>9. \A r \in Pids : Makers(r)
    BY <2>1, <2>2, <2>4 DEF Makers, CreatePoints
  <2>10. Frame({p})
    <3>1. Starts(p, {p})
      BY <2>1 DEF Starts
    <3>2. QED
      BY <2>2, <2>7, <2>8, <2>9, <3>1 DEF Frame, Seen
  <2>11. proc[p].kill_state >= 8 /\ (to = "asleep" => proc[p].kill_state = 11)
    BY <2>1, <2>3 DEF StateAt
  <2>12. PlaceAt(p)'
    <3>1. to \in RunPoints => p \in ready'
      BY <2>1, <2>3 DEF RunPoints, CallPoints, StrikePoints, AwaitPoints, StillPoints, CreatePoints
    <3>2. QED
      BY <2>3, <2>4, <2>7, <3>1 DEF PlaceAt, InOwn, CallPoints, StrikePoints, AwaitPoints
  <2>13. StateAt(p)'
    BY <2>1, <2>2, <2>3, <2>4, <2>5, <2>11
      DEF StateAt, InOwn, InMain, Calls, CallPoints, StrikePoints, AwaitPoints, CreatePoints
  <2>14. KidAt(p)' /\ WaitsAt(p)' /\ KidDone(p)' /\ MakesAt(p)'
    BY <2>2, <2>3, <2>4 DEF KidAt, InKids, Calls, CallPoints, StrikePoints, AwaitPoints, WaitsAt, KidDone,
      MakesAt, CreatePoints, MakePoints
  <2>15. \A x \in Pids : ChildAt(p, x)'
    <3>1. ~Fresh(p)' /\ pc[p] \notin MakePoints
      BY <2>1, <2>4 DEF Fresh, MakePoints
    <3>2. QED
      BY <2>2, <2>6, <2>7, <2>10, <3>1, ParentKeeps
  <2>16. Shows(p)
    BY <2>12, <2>13, <2>14, <2>15 DEF Shows, LocalAt
  <2>17. /\ LocalExact' /\ MakesExact' /\ WaitsExact' /\ SlotsExact' /\ ExitsExact'
         /\ ChildrenExact' /\ KidsDone'
    BY <2>6, <2>10, <2>16, FrameKeeps
  <2>18. QED
    BY <2>5, <2>6, <2>17 DEF IndInv
<1>1. QED
  BY <1>0

\* Who creates a process goes on; the slot x of it is stored into.
LEMMA CreateStep ==
  ASSUME Setting, IndInv, TypeOK', NEW q \in Pids, NEW x \in Pids \ {q}, aim[q] = x,
         pc[q] \in CreatePoints, pc'[q] \in MakePoints, aim'[q] = x, q \in ready',
         helping' = helping, cut' = cut, Alike(proc[q], proc'[q]), pc'[q] = "filled" => pc'[x] = "none",
         UNCHANGED asked,
         \A r \in Pids \ {q, x} : Rests(r), \A r \in Pids : Makers(r),
         \A r \in Pids : Seen(r, {q, x}), Lives(x)', Lives(q)' = Lives(q),
         proc'[x].ppid = q, proc'[x].kill_state = 0 \/ pc'[q] # "filled",
         x \notin cut => pc'[x] \in {"none", "unstarted", "start", "terminated"},
         LocalAt(x)', MakesAt(x)', WaitsAt(x)', KidDone(x)', \A y \in Pids : ChildAt(x, y)',
         \A y \in Pids : ChildAt(q, y)'
  PROVE  /\ LocalExact' /\ MakesExact' /\ WaitsExact' /\ SlotsExact' /\ ExitsExact'
         /\ ChildrenExact' /\ KidsDone'
<1>1. /\ PlaceAt(q) /\ StateAt(q) /\ KidAt(q) /\ MakesAt(q) /\ Lives(q)
  BY Here DEF CreatePoints
<1>2. \A r \in Pids \ {q} : pc[r] \in CreatePoints => aim[r] # x
  BY <1>1 DEF MakesAt
<1>3. Starts(x, {q, x}) /\ Starts(q, {q, x})
  BY <1>2 DEF Starts, CreatePoints
<1>4. Frame({q, x})
  BY <1>3 DEF Frame
<1>5. LocalAt(q)'
  <2>1. InMain(q)
    BY DEF InMain
  <2>2. PlaceAt(q)'
    BY <1>1 DEF PlaceAt, InOwn, MakePoints, CallPoints, StrikePoints, AwaitPoints
  <2>3. StateAt(q)'
    BY <1>1, <2>1 DEF StateAt, InOwn, MakePoints, CallPoints, StrikePoints, AwaitPoints, Alike
  <2>4. KidAt(q)'
    BY <1>1 DEF KidAt, InKids, Calls, MakePoints, CallPoints, StrikePoints, AwaitPoints, Alike
  <2>5. QED
    BY <2>2, <2>3, <2>4 DEF LocalAt
<1>6. MakesAt(q)'
  <2>1. ASSUME NEW r \in Pids \ {q}, pc'[r] \in CreatePoints PROVE aim'[r] # x
    <3>1. (pc[r] \in CreatePoints /\ aim'[r] = aim[r]) \/ ~Lives(aim'[r])
      BY <2>1 DEF Makers, Begins
    <3>2. Lives(x)
      BY <1>1 DEF MakesAt
    <3>3. QED
      BY <1>2, <3>1, <3>2
  <2>2. QED
    BY <2>1 DEF MakesAt, MakePoints, CreatePoints
<1>7. WaitsAt(q)' /\ KidDone(q)'
  BY DEF WaitsAt, KidDone, MakePoints
<1>8. {q, x} \in SUBSET Pids /\ \A r \in {q, x} : Shows(r)
  BY <1>5, <1>6, <1>7 DEF Shows
<1>9. QED
  BY <1>4, <1>8, FrameKeeps

\* The task of the new process
LEMMA CreateTaskPreserves == ASSUME Setting, IndInv, NEW q \in Pids, CreateTask(q) PROVE IndInv'
<1> USE DEF locals, helper, history
<1>1. pc[q] = "filled" /\ Runs(q) /\ pc[q] \in CreatePoints /\ pc[q] \in MakePoints
  BY DEF CreateTask, CreatePoints, MakePoints
<1>2. /\ TypeOK /\ PlaceAt(q) /\ StateAt(q) /\ KidAt(q) /\ MakesAt(q) /\ Lives(q)
      /\ \A y \in Pids : ChildAt(q, y)
  BY <1>1, Here
<1>3. PICK x \in Pids \ {q} : x = aim[q]
  BY <1>1, <1>2 DEF MakesAt
<1>4. /\ Lives(x) /\ proc[x].ppid = q /\ pc[x] = "none" /\ proc[x].kill_state = 0
  BY <1>1, <1>2, <1>3 DEF MakesAt
<1>5. /\ pc \in [Pids -> Points] /\ kills \in Nat /\ stops \in Nat /\ cut \subseteq Pids
      /\ ready \subseteq Tasks /\ stopped \subseteq Pids /\ q \in Tasks /\ q \in ready
  BY <1>1, <1>2, Constants, Runner DEF Setting, TypeOK, TablesOK, KernelOK, HistoryOK
<1>6. /\ pc' = [pc EXCEPT ![x] = "unstarted", ![q] = "created"] /\ cpu' = Occupy(q, cpu)
      /\ UNCHANGED <<proc, locals, conds, stopped, helper, history, ready>>
  BY <1>3 DEF CreateTask
<1>7. /\ pc'[q] = "created" /\ pc'[x] = "unstarted" /\ \A r \in Pids \ {q, x} : pc'[r] = pc[r]
  BY <1>5, <1>6
<1>8. TypeOK'
  <2>1. "unstarted" \in Points /\ "created" \in Points
    BY DEF Points, RunPoints, StillPoints, CreatePoints
  <2>2. pc' \in [Pids -> Points]
    BY <1>5, <1>6, <2>1
  <2>3. cpu' \in [Levels -> Tasks \cup {NoTask}]
    BY <1>2, <1>5, <1>6, CpuTyped
  <2>4. QED
    BY <1>2, <1>5, <1>6, <2>2, <2>3, QuietTyped
<1>9. \A r \in Pids : Grows(r) /\ Lives(r)' = Lives(r) /\ Alike(proc[r], proc'[r])
  <2>1. \A r \in Pids : proc[r].kill_state \in 0..11
    BY <1>2, States
  <2>2. QED
    BY <1>6, <2>1 DEF Grows, Lives, MutexMoves, ExitMoves, Alike
<1>10. \A r \in Pids \ {q, x} : Rests(r)
  BY <1>6, <1>7, <1>9 DEF Rests, Pushed
<1>11. \A r \in Pids : Makers(r)
  BY <1>1, <1>4, <1>6, <1>7 DEF Makers, CreatePoints
<1>12. LocalAt(x)'
  <2>1. LocalAt(x) /\ Lives(x)'
    BY <1>4, <1>9 DEF IndInv, LocalExact
  <2>2. PlaceAt(x)'
    BY <1>7, <2>1 DEF PlaceAt, InOwn, RunPoints, StillPoints, CallPoints, StrikePoints, AwaitPoints, CreatePoints
  <2>3. StateAt(x)'
    BY <1>4, <1>6, <1>7, <2>1 DEF LocalAt, StateAt, InOwn, InMain, Calls, CallPoints, StrikePoints, AwaitPoints, CreatePoints
  <2>4. KidAt(x)'
    BY <1>6, <1>7, <2>1 DEF LocalAt, KidAt, InKids, Calls, CallPoints, StrikePoints, AwaitPoints
  <2>5. QED
    BY <2>2, <2>3, <2>4 DEF LocalAt
<1>13. MakesAt(x)' /\ WaitsAt(x)' /\ KidDone(x)'
  BY <1>7 DEF MakesAt, WaitsAt, KidDone, MakePoints, CreatePoints
<1>14. ASSUME NEW y \in Pids PROVE ChildAt(x, y)'
  BY <1>4, <1>6 DEF IndInv, ChildrenExact, ChildAt, ChildOf, Over, Fresh
<1>15. ASSUME NEW y \in Pids PROVE ChildAt(q, y)'
  <2>1. ChildAt(q, y) /\ Lives(q)' /\ ~Fresh(q)' /\ pc'[q] \in MakePoints
    BY <1>2, <1>7, <1>9 DEF Fresh, MakePoints
  <2>2. QED
    BY <1>6, <2>1 DEF ChildAt, ChildOf, Over, InList
<1>16. /\ LocalExact' /\ MakesExact' /\ WaitsExact' /\ SlotsExact' /\ ExitsExact'
       /\ ChildrenExact' /\ KidsDone'
  <2>1. pc'[q] \in MakePoints /\ aim'[q] = x /\ aim[q] = x /\ q \in ready' /\ pc'[q] # "filled"
    BY <1>3, <1>5, <1>6, <1>7 DEF MakePoints
  <2>2. /\ UNCHANGED <<helping, cut, asked>> /\ Lives(x)' /\ proc'[x].ppid = q
    BY <1>4, <1>6, <1>9
  <2>3. \A r \in Pids : Seen(r, {q, x})
    BY <1>9 DEF Seen
  <2>4. QED
    BY <1>1, <1>7, <1>8, <1>9, <1>10, <1>11, <1>12, <1>13, <1>14, <1>15, <2>1, <2>2, <2>3, CreateStep
<1>17. RequestsExact' /\ FirstComesFirst' /\ FirstPending'
  BY <1>6, RequestsStay
<1>18. QED
  BY <1>8, <1>16, <1>17 DEF IndInv

\* Its exit condition
LEMMA CreateCondsPreserves == ASSUME Setting, IndInv, NEW q \in Pids, CreateConds(q) PROVE IndInv'
<1> USE DEF locals, helper, history
<1>1. pc[q] = "created" /\ Runs(q) /\ pc[q] \in CreatePoints /\ pc[q] \in MakePoints
  BY DEF CreateConds, Goto, CreatePoints, MakePoints
<1>2. /\ TypeOK /\ PlaceAt(q) /\ StateAt(q) /\ KidAt(q) /\ MakesAt(q) /\ Lives(q)
      /\ \A y \in Pids : ChildAt(q, y)
  BY <1>1, Here
<1>3. PICK x \in Pids \ {q} : x = aim[q]
  BY <1>1, <1>2 DEF MakesAt
<1>4. /\ Lives(x) /\ proc[x].ppid = q /\ proc[x] \in SlotType /\ lives[x] \in Nat
      /\ x \notin cut => pc[x] \in {"none", "unstarted", "start", "terminated"}
  BY <1>1, <1>2, <1>3, States DEF MakesAt, TypeOK, HistoryOK
<1>5. /\ pc \in [Pids -> Points] /\ kills \in Nat /\ stops \in Nat /\ cut \subseteq Pids
      /\ proc \in [Pids -> SlotType] /\ conds \in [Pids -> SUBSET Nat]
      /\ ready \subseteq Tasks /\ stopped \subseteq Pids /\ q \in Tasks /\ q \in ready
  BY <1>1, <1>2, Constants, Runner DEF Setting, TypeOK, TablesOK, KernelOK, HistoryOK
<1> DEFINE e == [proc[x] EXCEPT !.dtors = {}, !.handler = FALSE, !.exit_wait = lives[x]]
<1>6. /\ pc' = [pc EXCEPT ![q] = "listed"] /\ cpu' = Occupy(q, cpu)
      /\ proc' = [proc EXCEPT ![x] = e] /\ conds' = [conds EXCEPT ![x] = @ \cup {lives[x]}]
      /\ UNCHANGED <<back, lock, aim, at, wid, stopped, requests, helping, asked,
                     lives, kills, stops, frees, orphans, cut, ready>>
  BY <1>3 DEF CreateConds, Goto
<1>7. /\ e \in SlotType /\ e.exit_wait = lives[x]
      /\ e.id = proc[x].id /\ e.ppid = proc[x].ppid /\ e.kids = proc[x].kids
      /\ e.kill_mode = proc[x].kill_mode /\ e.kill_state = proc[x].kill_state
      /\ e.critical = proc[x].critical
  BY <1>4, SlotListed
<1> HIDE DEF e
<1>8. /\ pc'[q] = "listed" /\ \A r \in Pids \ {q} : pc'[r] = pc[r]
  BY <1>5, <1>6
<1>9. /\ proc'[x] = e /\ conds'[x] = conds[x] \cup {lives[x]}
      /\ \A r \in Pids \ {x} : proc'[r] = proc[r] /\ conds'[r] = conds[r]
  BY <1>5, <1>6
<1>10. TypeOK'
  <2>1. "listed" \in Points
    BY DEF Points, RunPoints, CreatePoints
  <2>2. pc' \in [Pids -> Points] /\ proc' \in [Pids -> SlotType] /\ conds' \in [Pids -> SUBSET Nat]
    BY <1>4, <1>5, <1>6, <1>7, <2>1
  <2>3. cpu' \in [Levels -> Tasks \cup {NoTask}]
    BY <1>2, <1>5, <1>6, CpuTyped
  <2>4. TablesOK'
    BY <1>2, <1>6, <2>2 DEF TypeOK, TablesOK
  <2>5. KernelOK' /\ HistoryOK'
    BY <1>2, <1>6, <2>3 DEF TypeOK, KernelOK, HistoryOK
  <2>6. QED
    BY <2>4, <2>5 DEF TypeOK
<1>11. \A r \in Pids : /\ proc'[r].id = proc[r].id /\ proc'[r].ppid = proc[r].ppid /\ proc'[r].kids = proc[r].kids
                       /\ proc'[r].kill_mode = proc[r].kill_mode /\ proc'[r].kill_state = proc[r].kill_state
                       /\ proc'[r].critical = proc[r].critical
                       /\ Lives(r)' = Lives(r) /\ conds[r] \subseteq conds'[r]
                       /\ Over(r)' = Over(r) /\ \A y \in Pids : ChildOf(r, y)' = ChildOf(r, y)
  BY <1>6, <1>7, <1>9 DEF Lives, Over, ChildOf
<1>12. ExitAt(x)'
  BY <1>7, <1>9 DEF ExitAt
<1>13. ASSUME NEW r \in Pids PROVE Grows(r)
  <2>1. MutexMoves(r)
    BY <1>11 DEF MutexMoves
  <2>2. ExitMoves(r)
    BY <1>9, <1>11, <1>12 DEF ExitMoves
  <2>3. proc[r].kill_state \in 0..11
    BY <1>2, States
  <2>4. QED
    BY <1>6, <1>11, <2>1, <2>2, <2>3 DEF Grows
<1>14. \A r \in Pids \ {x} : Alike(proc[r], proc'[r])
  BY <1>9 DEF Alike
<1>15. \A r \in Pids \ {q, x} : Rests(r)
  BY <1>6, <1>8, <1>14 DEF Rests, Pushed
<1>16. ASSUME NEW r \in Pids PROVE Makers(r)
  <2>1. CASE r = q
    BY <1>1, <1>3, <1>6, <1>8, <1>12, <2>1 DEF Makers, CreatePoints
  <2>2. CASE r # q
    BY <1>6, <1>8, <2>2 DEF Makers
  <2>3. QED
    BY <2>1, <2>2
<1>17. LocalAt(x)'
  <2>1. LocalAt(x) /\ Lives(x)'
    BY <1>4, <1>11 DEF IndInv, LocalExact
  <2>2. PlaceAt(x)'
    BY <1>6, <1>8, <2>1 DEF LocalAt, PlaceAt, InOwn
  <2>3. StateAt(x)'
    BY <1>4, <1>6, <1>8, <1>11, <2>1 DEF LocalAt, StateAt, InOwn, InMain, Calls
  <2>4. KidAt(x)'
    BY <1>6, <1>8, <1>11, <2>1 DEF LocalAt, KidAt, InKids, Calls
  <2>5. QED
    BY <2>2, <2>3, <2>4 DEF LocalAt
<1>18. MakesAt(x)'
  <2>1. CASE pc[x] \in CreatePoints
    <3>1. PICK y \in Pids \ {x} : y = aim[x] /\ Lives(y)
      BY <2>1 DEF IndInv, MakesExact, MakesAt
    <3>2. MakesAt(x) /\ (y = q => q \in cut /\ pc[x] \notin {"new", "filled"})
      <4>1. MakesAt(x)
        BY DEF IndInv, MakesExact
      <4>2. QED
        BY <1>1, <1>2, <3>1, <4>1, <2>1 DEF MakesAt, CreatePoints, MakePoints
    <3>3. \A r \in Pids \ {x} : pc'[r] \in CreatePoints => pc[r] \in CreatePoints /\ aim'[r] = aim[r]
      BY <1>1, <1>6, <1>8
    <3>4. QED
      BY <1>6, <1>8, <1>11, <2>1, <3>1, <3>2, <3>3 DEF MakesAt
  <2>2. CASE pc[x] \notin CreatePoints
    BY <1>8, <2>2 DEF MakesAt, MakePoints, CreatePoints
  <2>3. QED
    BY <2>1, <2>2
<1>19. WaitsAt(x)' /\ KidDone(x)'
  <2>1. WaitsAt(x) /\ KidDone(x) /\ LocalAt(x)
    BY DEF IndInv, WaitsExact, KidsDone, LocalExact
  <2>2. pc[x] \in {"wait", "locked", "await", "astray"} => aim[x] \in Pids
    BY <2>1 DEF LocalAt, PlaceAt, CallPoints, StrikePoints, AwaitPoints
  <2>3. WaitsAt(x)'
    BY <1>6, <1>8, <1>11, <2>1, <2>2 DEF WaitsAt
  <2>4. pc[x] = "kid_next" => aim[x] \in Pids
    <3>1. pc[x] = "kid_next" => at[x] \in 1..Len(proc[x].kids) /\ aim[x] = proc[x].kids[at[x]]
      BY <2>1 DEF LocalAt, KidAt, InKids
    <3>2. proc[x].kids \in Seq(Pids)
      BY <1>2, States
    <3>3. QED
      BY <3>1, <3>2, ElementOfSeq
  <2>5. CASE aim[x] \in Pids
    <3>1. PICK y \in Pids : y = aim[x]
      BY <2>5
    <3>2. aim'[x] = y /\ pc'[x] = pc[x] /\ back'[x] = back[x] /\ wid'[x] = wid[x]
      BY <1>6, <1>8, <3>1
    <3>3. (ChildOf(y, x)' => ChildOf(y, x)) /\ (Over(y) => Over(y)') /\ conds[y] \subseteq conds'[y]
      BY <1>11
    <3>4. KidDone(x)'
      <4>1. CASE ChildOf(y, x)'
        <5>1. \/ Over(y)'
              \/ /\ ~(pc[x] = "kid_next" \/ (pc[x] = "astray" /\ back[x] = "kid_next"))
                 /\ ~(pc[x] = "await" /\ back[x] = "kid_next" /\ wid[x] \notin conds'[y])
          BY <2>1, <3>1, <3>3, <4>1 DEF KidDone
        <5>2. QED
          BY <3>2, <5>1 DEF KidDone, Over
      <4>2. CASE ~ChildOf(y, x)'
        BY <3>2, <4>2 DEF KidDone, ChildOf
      <4>3. QED
        BY <4>1, <4>2
    <3>5. QED
      BY <2>3, <3>4
  <2>6. CASE aim[x] \notin Pids
    BY <1>8, <2>2, <2>3, <2>4, <2>6 DEF KidDone
  <2>7. QED
    BY <2>5, <2>6
<1>20. ASSUME NEW y \in Pids PROVE ChildAt(x, y)'
  <2>1. ChildAt(x, y) /\ pc'[x] = pc[x] /\ aim'[x] = aim[x] /\ cut' = cut
    BY <1>6, <1>8 DEF IndInv, ChildrenExact
  <2>2. (Fresh(x)' => Fresh(x)) /\ (InList(x, y) => InList(x, y)')
    BY <1>11, <2>1 DEF Fresh, InList
  <2>3. QED
    BY <1>11, <2>1, <2>2 DEF ChildAt
<1>21. ASSUME NEW y \in Pids PROVE ChildAt(q, y)'
  <2>1. ChildAt(q, y) /\ Lives(q)' /\ ~Fresh(q)' /\ pc'[q] \in MakePoints /\ aim'[q] = aim[q] /\ cut' = cut
    BY <1>2, <1>6, <1>8, <1>11 DEF Fresh, MakePoints
  <2>2. InList(q, y) => InList(q, y)'
    BY <1>11 DEF InList
  <2>3. QED
    BY <1>11, <2>1, <2>2 DEF ChildAt
<1>22. /\ LocalExact' /\ MakesExact' /\ WaitsExact' /\ SlotsExact' /\ ExitsExact'
       /\ ChildrenExact' /\ KidsDone'
  <2>1. pc'[q] \in MakePoints /\ aim'[q] = x /\ aim[q] = x /\ q \in ready' /\ pc'[q] # "filled"
    BY <1>3, <1>5, <1>6, <1>8 DEF MakePoints
  <2>2. UNCHANGED <<helping, cut, asked>> /\ Lives(x)' /\ proc'[x].ppid = q /\ Lives(q)' = Lives(q)
    BY <1>4, <1>6, <1>11
  <2>3. \A r \in Pids : Seen(r, {q, x})
    BY <1>11, <1>13 DEF Seen
  <2>4. Alike(proc[q], proc'[q]) /\ (x \notin cut => pc'[x] \in {"none", "unstarted", "start", "terminated"})
    BY <1>4, <1>8, <1>14
  <2>5. QED
    BY <1>1, <1>10, <1>15, <1>16, <1>17, <1>18, <1>19, <1>20, <1>21, <2>1, <2>2, <2>3, <2>4, CreateStep
<1>23. RequestsExact' /\ FirstComesFirst' /\ FirstPending'
  BY <1>6, <1>11, RequestsStay
<1>24. QED
  BY <1>10, <1>22, <1>23 DEF IndInv

\* The mutex and the fields of a new process
LEMMA FillSlotPreserves == ASSUME Setting, IndInv, NEW q \in Pids, FillSlot(q) PROVE IndInv'
<1> USE DEF locals, helper, history
<1>1. pc[q] = "new" /\ Runs(q) /\ pc[q] \in CreatePoints /\ pc[q] \notin MakePoints
  BY DEF FillSlot, Goto, CreatePoints, MakePoints
<1>2. /\ TypeOK /\ PlaceAt(q) /\ StateAt(q) /\ KidAt(q) /\ MakesAt(q) /\ Lives(q)
      /\ \A y \in Pids : ChildAt(q, y)
  BY <1>1, Here
<1>3. PICK x \in Pids \ {q} : x = aim[q]
  BY <1>1, <1>2 DEF MakesAt
<1>4. /\ Lives(x) /\ proc[x].critical = "none" /\ pc[x] = "none" /\ x \notin asked
      /\ proc[x] \in SlotType /\ proc[q] \in SlotType
  BY <1>1, <1>2, <1>3, States DEF MakesAt
<1>5. /\ pc \in [Pids -> Points] /\ proc \in [Pids -> SlotType] /\ q \in Tasks /\ q \in ready
  BY <1>1, <1>2, Constants, Runner DEF Setting, TypeOK, TablesOK
<1> DEFINE e == [proc[x] EXCEPT !.critical = "free", !.ppid = q, !.kill_state = 0, !.kill_tryes = 0,
                                !.signum = "none"]
           d == [proc[q] EXCEPT !.dtors = proc[q].dtors \cup {x}]
<1>6. /\ pc' = [pc EXCEPT ![q] = "filled"] /\ cpu' = Occupy(q, cpu)
      /\ proc' = [proc EXCEPT ![x].critical = "free", ![x].ppid = q, ![x].kill_state = 0,
                              ![x].kill_tryes = 0, ![x].signum = "none", ![q].dtors = @ \cup {x}]
      /\ UNCHANGED <<back, lock, aim, at, wid, conds, stopped, requests, helping, asked,
                     lives, kills, stops, frees, orphans, cut, ready>>
  BY <1>3 DEF FillSlot, Goto
<1>7. proc' = [proc EXCEPT ![x] = e, ![q] = d]
  BY <1>5, <1>6
<1>8. /\ e \in SlotType /\ e.critical = "free" /\ e.ppid = q /\ e.kill_state = 0
      /\ e.id = proc[x].id /\ e.kids = proc[x].kids /\ e.kill_mode = proc[x].kill_mode
      /\ e.exit_wait = proc[x].exit_wait
  BY <1>4, SlotFilled
<1>9. Plainly(proc[q], d)
  <2>1. proc[q].dtors \cup {x} \in SUBSET Pids
    BY <1>4, SlotFields
  <2>2. \A s \in SUBSET Pids : Plainly(proc[q], [proc[q] EXCEPT !.dtors = s])
    BY <1>4, OwnStored
  <2>3. QED
    BY <2>1, <2>2
<1> HIDE DEF e, d
<1>10. /\ proc'[x] = e /\ proc'[q] = d /\ \A r \in Pids \ {q, x} : proc'[r] = proc[r]
       /\ d \in SlotType /\ Alike(proc[q], d) /\ d.critical = proc[q].critical
  BY <1>5, <1>7, <1>9 DEF Plainly
<1>11. pc'[q] = "filled" /\ \A r \in Pids \ {q} : pc'[r] = pc[r]
  BY <1>5, <1>6
<1>12. TypeOK'
  <2>1. "filled" \in Points
    BY DEF Points, RunPoints, CreatePoints
  <2>2. pc' \in [Pids -> Points] /\ proc' \in [Pids -> SlotType]
    BY <1>5, <1>6, <1>7, <1>8, <1>10, <2>1
  <2>3. cpu' \in [Levels -> Tasks \cup {NoTask}]
    BY <1>2, <1>5, <1>6, CpuTyped
  <2>4. TablesOK'
    BY <1>2, <1>6, <2>2 DEF TypeOK, TablesOK
  <2>5. KernelOK' /\ HistoryOK'
    BY <1>2, <1>6, <2>3 DEF TypeOK, KernelOK, HistoryOK
  <2>6. QED
    BY <2>4, <2>5 DEF TypeOK
<1>13. \A r \in Pids \ {x} :
         /\ Alike(proc[r], proc'[r]) /\ proc'[r].critical = proc[r].critical
         /\ Over(r)' = Over(r) /\ \A y \in Pids : ChildOf(r, y)' = ChildOf(r, y)
  BY <1>6, <1>10 DEF Alike, Over, ChildOf
<1>14. \A r \in Pids : proc'[r].id = proc[r].id /\ Lives(r)' = Lives(r)
  BY <1>6, <1>8, <1>10 DEF Lives, Alike
<1>15. \A r \in Pids \ {q, x} : Rests(r)
  BY <1>6, <1>10, <1>11 DEF Rests, Pushed, Alike
<1>16. \A r \in Pids : Makers(r)
  BY <1>1, <1>6, <1>11 DEF Makers, CreatePoints
<1>17. \A p \in Pids : ChildOf(x, p)' => p = q
  BY <1>8, <1>10 DEF ChildOf
<1>18. Renewed(x, {q, x})
  <2>1. SlotAt(x)' /\ ExitAt(x)'
    <3>1. pc'[q] \in {"new", "filled", "created"} /\ aim'[q] = x /\ q \in Pids
      BY <1>3, <1>6, <1>11
    <3>2. ExitAt(x)'
      BY <3>1 DEF ExitAt
    <3>3. Lives(x)'
      BY <1>4, <1>14
    <3>4. QED
      BY <3>2, <3>3 DEF SlotAt
  <2>2. \A p \in Pids \ {q} : pc[p] \in CreatePoints => aim[p] # x
    BY <1>1, <1>2, <1>3 DEF MakesAt
  <2>3. QED
    BY <1>4, <1>6, <1>17, <2>1, <2>2 DEF Renewed
<1>19. ASSUME NEW r \in Pids \ {x} PROVE Grows(r)
  <2>1. proc[r].kill_state \in 0..11
    BY <1>2, States
  <2>2. /\ proc'[r].critical = proc[r].critical /\ proc'[r].exit_wait = proc[r].exit_wait
        /\ proc'[r].id = proc[r].id /\ proc'[r].ppid = proc[r].ppid
        /\ proc'[r].kill_state = proc[r].kill_state /\ conds' = conds /\ orphans' = orphans
    BY <1>6, <1>13 DEF Alike
  <2>3. proc'[r].kill_state >= proc[r].kill_state
    BY <2>1, <2>2
  <2>4. QED
    BY <2>2, <2>3 DEF Grows, MutexMoves, ExitMoves
<1>20. LocalAt(x)'
  <2>1. LocalAt(x) /\ Lives(x)'
    BY <1>4, <1>14 DEF IndInv, LocalExact
  <2>2. pc'[x] = "none"
    BY <1>4, <1>11
  <2>3. PlaceAt(x)'
    BY <2>1, <2>2 DEF PlaceAt, InOwn, RunPoints, StillPoints, CallPoints, StrikePoints, AwaitPoints, CreatePoints
  <2>4. StateAt(x)'
    BY <1>4, <1>6, <1>8, <1>10, <2>2 DEF StateAt, InOwn, InMain, Calls, CallPoints, StrikePoints, AwaitPoints, CreatePoints
  <2>5. KidAt(x)'
    BY <1>8, <1>10, <2>1, <2>2 DEF LocalAt, KidAt, InKids, Calls, CallPoints, StrikePoints, AwaitPoints
  <2>6. QED
    BY <2>3, <2>4, <2>5 DEF LocalAt
<1>21. MakesAt(x)' /\ WaitsAt(x)' /\ KidDone(x)'
  BY <1>4, <1>11 DEF MakesAt, WaitsAt, KidDone, MakePoints, CreatePoints
<1>22. ASSUME NEW y \in Pids PROVE ChildAt(x, y)'
  <2>1. CASE y = x
    BY <1>17, <2>1 DEF ChildAt
  <2>2. CASE y # x
    <3>1. x \notin cut /\ ChildOf(y, x) => Over(y)
      BY <1>4 DEF IndInv, ChildrenExact, ChildAt, Fresh
    <3>2. cut' = cut
      BY <1>6
    <3>3. QED
      BY <1>13, <2>2, <3>1, <3>2 DEF ChildAt
  <2>3. QED
    BY <2>1, <2>2
<1>23. ASSUME NEW y \in Pids PROVE ChildAt(q, y)'
  <2>1. /\ Lives(q)' /\ ~Fresh(q)' /\ pc'[q] \in MakePoints /\ aim'[q] = x /\ cut' = cut
        /\ (InList(q, y) => InList(q, y)') /\ proc'[q].kill_state = proc[q].kill_state
    BY <1>2, <1>3, <1>6, <1>10, <1>11, <1>14 DEF Fresh, MakePoints, InList, Alike
  <2>2. CASE y = x
    <3>1. q \notin cut => proc[q].kill_state = 0
      BY <1>1, <1>2 DEF StateAt, InMain
    <3>2. QED
      BY <2>1, <2>2, <3>1 DEF ChildAt
  <2>3. CASE y # x
    BY <1>1, <1>2, <1>13, <2>1, <2>3 DEF ChildAt
  <2>4. QED
    BY <2>2, <2>3
<1>24. /\ LocalExact' /\ MakesExact' /\ WaitsExact' /\ SlotsExact' /\ ExitsExact'
       /\ ChildrenExact' /\ KidsDone'
  <2>1. pc'[q] \in MakePoints /\ aim'[q] = x /\ aim[q] = x /\ q \in ready' /\ pc'[x] = "none"
    BY <1>3, <1>4, <1>5, <1>6, <1>11 DEF MakePoints
  <2>2. UNCHANGED <<helping, cut, asked>> /\ Lives(x)' /\ proc'[x].ppid = q /\ Lives(q)' = Lives(q)
        /\ proc'[x].kill_state = 0
    BY <1>4, <1>6, <1>8, <1>10, <1>14
  <2>3. \A r \in Pids : Seen(r, {q, x})
    BY <1>14, <1>18, <1>19 DEF Seen
  <2>4. Alike(proc[q], proc'[q])
    BY <1>10
  <2>5. QED
    BY <1>1, <1>12, <1>15, <1>16, <1>20, <1>21, <1>22, <1>23, <2>1, <2>2, <2>3, <2>4, CreateStep
<1>25. RequestsExact' /\ FirstComesFirst' /\ FirstPending'
  BY <1>6, <1>14, RequestsStay
<1>26. QED
  BY <1>12, <1>24, <1>25 DEF IndInv

\* The greatest of all lives that there have been bounds those of each slot.
LEMMA LivesBound ==
  ASSUME Setting, TypeOK, Max(Range(lives)) < MaxLives
  PROVE  /\ Max(Range(lives)) + 1 \in Nat /\ Max(Range(lives)) + 1 <= MaxLives
         /\ \A p \in Pids : lives[p] \in Nat /\ lives[p] < Max(Range(lives)) + 1
<1>1. /\ lives \in [Pids -> Nat] /\ 0 \in Pids /\ MaxLives \in Nat
      /\ \A p \in Pids : lives[p] <= MaxLives
  BY Constants DEF Setting, TypeOK, HistoryOK
<1>2. Range(lives) = {lives[p] : p \in Pids}
  BY <1>1 DEF Range
<1>3. Range(lives) \subseteq 0..MaxLives /\ Range(lives) # {}
  BY <1>1, <1>2
<1>4. Max(Range(lives)) \in Range(lives) /\ \A n \in Range(lives) : n <= Max(Range(lives))
  BY <1>1, <1>3, MaxFacts
<1>5. Max(Range(lives)) \in Nat
  BY <1>3, <1>4
<1>6. \A p \in Pids : lives[p] \in Nat /\ lives[p] <= Max(Range(lives))
  BY <1>1, <1>2, <1>4
<1>7. QED
  BY <1>1, <1>5, <1>6

\* The queue of the helper, when a new process gets slot x: whatever is still
\* asked for it is asked by an earlier one.
LEMMA RequestsPass ==
  ASSUME IndInv, NEW x \in Pids, ~proc[x].id, NEW n \in Nat, \A p \in Pids : lives[p] < n,
         lives' = [lives EXCEPT ![x] = n], asked' = asked \ {x}, helping # x,
         UNCHANGED <<requests, helping, cut>>,
         \A r \in Pids \ {x} : proc'[r].id = proc[r].id
  PROVE  RequestsExact' /\ FirstComesFirst' /\ FirstPending'
<1>1. /\ lives \in [Pids -> Nat] /\ \A i \in DOMAIN requests : requests[i] \in RequestType
      /\ helping \in Pids \cup {NoPid}
  BY ElementOfSeq, LenProperties DEF IndInv, TypeOK, KernelOK, HistoryOK
<1>2. lives'[x] = n /\ \A r \in Pids \ {x} : lives'[r] = lives[r]
  BY <1>1
<1>3. \A r \in Pids \ {x} : Lives(r)' = Lives(r)
  BY DEF Lives
<1>4. ASSUME NEW i \in DOMAIN requests PROVE RequestAt(requests[i])'
  <2>1. PICK r \in RequestType : r = requests[i] /\ RequestAt(r)
    BY <1>1 DEF IndInv, RequestsExact
  <2>2. r.pid \in Pids /\ r.life \in Nat
    BY DEF RequestType
  <2>3. CASE r.pid = x
    <3>1. r.life < n /\ (r.first => x \in cut)
      <4>1. r.life <= lives[x] /\ lives[x] \in Nat /\ lives[x] < n
        BY <1>1, <2>1, <2>3 DEF RequestAt
      <4>2. r.first => x \in cut
        BY <2>1, <2>3 DEF RequestAt, Lives
      <4>3. QED
        BY <2>2, <4>1, <4>2
    <3>2. QED
      BY <1>2, <2>1, <2>2, <2>3, <3>1 DEF RequestAt, Own
  <2>4. CASE r.pid # x
    <3>1. Lives(r.pid)' = Lives(r.pid)
      BY <1>3, <2>2, <2>4
    <3>2. lives'[r.pid] = lives[r.pid] /\ (r.pid \in asked' <=> r.pid \in asked)
      BY <1>2, <2>2, <2>4
    <3>3. requests'[i] = r
      BY <2>1
    <3>4. QED
      BY <2>1, <2>2, <3>1, <3>2, <3>3 DEF RequestAt, Own, Lives
  <2>5. QED
    BY <2>3, <2>4
<1>5. RequestsExact'
  <2>1. helping' # NoPid => proc'[helping'].id
    BY <1>1 DEF IndInv, RequestsExact
  <2>2. QED
    BY <1>4, <2>1 DEF RequestsExact
<1>6. FirstComesFirst'
  BY DEF IndInv, FirstComesFirst
<1>7. FirstPending'
  BY <1>2, <1>3 DEF IndInv, FirstPending
<1>8. QED
  BY <1>5, <1>6, <1>7

\* A process is given a slot.
LEMMA NewProcessPreserves == ASSUME Setting, IndInv, NEW q \in Pids, NewProcess(q) PROVE IndInv'
<1>1. pc[q] = "main" /\ Runs(q)
  BY DEF NewProcess, Goto
<1>2. /\ TypeOK /\ PlaceAt(q) /\ StateAt(q) /\ KidAt(q) /\ Lives(q)
      /\ \A y \in Pids : ChildAt(q, y)
  BY <1>1, Here
<1> DEFINE n == Max(Range(lives)) + 1
<1>3. PICK x \in Pids :
        /\ ~proc[x].id
        /\ aim' = [aim EXCEPT ![q] = x]
        /\ proc' = [proc EXCEPT ![x].id = TRUE, ![x].kill_mode = FALSE, ![x].terminated = 0,
                                ![x].ppid = NoPid, ![x].exit_wait = 0]
        /\ lives' = [lives EXCEPT ![x] = n]
        /\ frees' = [frees EXCEPT ![x] = 0]
        /\ asked' = asked \ {x} /\ orphans' = orphans \ {x}
  BY DEF NewProcess
<1>4. /\ n \in Nat /\ n <= MaxLives /\ \A p \in Pids : lives[p] \in Nat /\ lives[p] < n
  BY <1>2, LivesBound DEF NewProcess
<1> HIDE DEF n
<1>5. /\ pc' = [pc EXCEPT ![q] = "new"] /\ cpu' = Occupy(q, cpu)
      /\ UNCHANGED <<back, lock, at, wid, conds, stopped, requests, helping, kills, stops, cut, ready>>
  BY DEF NewProcess, Goto
<1>6. /\ x # q /\ ~Lives(x) /\ pc[x] = "none" /\ proc[x].critical = "none" /\ helping # x
  <2>1. LocalAt(x) /\ SlotAt(x) /\ (helping # NoPid => proc[helping].id) /\ NoPid \notin Pids
    BY Constants DEF Setting, IndInv, LocalExact, SlotsExact, RequestsExact
  <2>3. x # q /\ ~Lives(x) /\ helping # x
    BY <1>2, <1>3, <2>1 DEF Lives
  <2>2. QED
    BY <2>1, <2>3 DEF LocalAt, PlaceAt, SlotAt
<1>7. /\ pc \in [Pids -> Points] /\ proc \in [Pids -> SlotType] /\ q \in Tasks /\ q \in ready
      /\ proc[x] \in SlotType /\ aim \in [Pids -> Pids \cup {NoPid}]
      /\ lives \in [Pids -> Nat] /\ frees \in [Pids -> Nat]
  BY <1>1, <1>2, Constants, Runner DEF Setting, TypeOK, TablesOK, HistoryOK
<1> DEFINE e == [proc[x] EXCEPT !.id = TRUE, !.kill_mode = FALSE, !.terminated = 0,
                                !.ppid = NoPid, !.exit_wait = 0]
<1>8. proc' = [proc EXCEPT ![x] = e]
  BY <1>3, <1>7
<1>9. /\ e \in SlotType /\ e.id /\ ~e.kill_mode /\ e.ppid = NoPid /\ e.exit_wait = 0
      /\ e.kids = proc[x].kids /\ e.kill_state = proc[x].kill_state /\ e.critical = proc[x].critical
  BY <1>7, SlotTaken
<1> HIDE DEF e
<1>10. proc'[x] = e /\ \A r \in Pids \ {x} : proc'[r] = proc[r]
  BY <1>7, <1>8
<1>11. /\ pc'[q] = "new" /\ \A r \in Pids \ {q} : pc'[r] = pc[r]
       /\ aim'[q] = x /\ \A r \in Pids \ {q} : aim'[r] = aim[r]
  BY <1>3, <1>5, <1>7
<1>12. TypeOK'
  <2>1. "new" \in Points
    BY DEF Points, RunPoints, CreatePoints
  <2>2. /\ pc' \in [Pids -> Points] /\ proc' \in [Pids -> SlotType]
        /\ aim' \in [Pids -> Pids \cup {NoPid}]
    <3>1. pc' \in [Pids -> Points]
      BY <1>5, <1>7, <2>1
    <3>2. proc' \in [Pids -> SlotType]
      BY <1>7, <1>8, <1>9
    <3>3. aim' \in [Pids -> Pids \cup {NoPid}]
      BY <1>3, <1>7
    <3>4. QED
      BY <3>1, <3>2, <3>3
  <2>3. cpu' \in [Levels -> Tasks \cup {NoTask}]
    BY <1>2, <1>5, <1>7, CpuTyped
  <2>4. /\ lives' \in [Pids -> Nat] /\ frees' \in [Pids -> Nat]
        /\ \A p \in Pids : lives'[p] <= MaxLives
    BY <1>2, <1>3, <1>4, <1>7 DEF TypeOK, HistoryOK
  <2>5. TablesOK'
    BY <1>2, <1>5, <2>2 DEF TypeOK, TablesOK
  <2>6. KernelOK'
    BY <1>2, <1>5, <2>3 DEF TypeOK, KernelOK
  <2>7. HistoryOK'
    <3>1. asked' \subseteq Pids /\ orphans' \subseteq Pids
      BY <1>2, <1>3 DEF TypeOK, HistoryOK
    <3>2. UNCHANGED <<kills, stops, cut>>
      BY <1>5
    <3>3. QED
      BY <1>2, <2>4, <3>1, <3>2 DEF TypeOK, HistoryOK
  <2>8. QED
    BY <2>5, <2>6, <2>7 DEF TypeOK
<1>13. Lives(x)' /\ \A r \in Pids \ {x} : Lives(r)' = Lives(r)
  BY <1>5, <1>6, <1>9, <1>10 DEF Lives
<1>14. /\ \A p \in Pids : ~ChildOf(x, p)'
       /\ \A r \in Pids \ {x}, p \in Pids : ChildOf(r, p)' = ChildOf(r, p) /\ Over(r)' = Over(r)
  BY <1>3, <1>9, <1>10, Constants DEF Setting, ChildOf, Over
<1>15. ASSUME NEW r \in Pids \ {x} PROVE Grows(r) /\ Alike(proc[r], proc'[r])
  <2>1. proc[r].kill_state \in 0..11
    BY <1>2, States
  <2>2. proc'[r] = proc[r] /\ conds' = conds /\ (r \in orphans => r \in orphans')
    BY <1>3, <1>5, <1>10
  <2>3. QED
    BY <2>1, <2>2 DEF Grows, MutexMoves, ExitMoves, Alike
<1>16. \A r \in Pids \ {q, x} : Rests(r)
  BY <1>3, <1>5, <1>11, <1>15 DEF Rests, Pushed
<1>17. \A p \in Pids : pc[p] \in CreatePoints => aim[p] # x
  BY <1>6 DEF IndInv, MakesExact, MakesAt
<1>18. Renewed(x, {q, x})
  <2>1. SlotAt(x)'
    BY <1>13 DEF SlotAt
  <2>2. ExitAt(x)'
    BY <1>11 DEF ExitAt
  <2>3. QED
    BY <1>5, <1>6, <1>14, <1>17, <2>1, <2>2 DEF Renewed
<1>19. ASSUME NEW r \in Pids PROVE Makers(r)
  <2>1. CASE r = q
    BY <1>1, <1>6, <1>11, <2>1 DEF Makers, Begins, CreatePoints
  <2>2. CASE r # q
    BY <1>11, <2>2 DEF Makers
  <2>3. QED
    BY <2>1, <2>2
<1>20. Frame({q, x})
  <2>1. Starts(x, {q, x}) /\ Starts(q, {q, x})
    BY <1>1, <1>17 DEF Starts
  <2>2. \A r \in Pids : Seen(r, {q, x})
    BY <1>13, <1>15, <1>18 DEF Seen
  <2>3. QED
    BY <1>5, <1>16, <1>19, <2>1, <2>2 DEF Frame
<1>21. Shows(x)
  <2>1. LocalAt(x) /\ \A y \in Pids : ChildAt(x, y)
    BY DEF IndInv, LocalExact, ChildrenExact
  <2>2. pc'[x] = "none" /\ x \notin asked' /\ cut' = cut
    BY <1>3, <1>5, <1>6, <1>11
  <2>3. PlaceAt(x)'
    BY <1>13, <2>2 DEF PlaceAt, InOwn, RunPoints, StillPoints, CallPoints, StrikePoints, AwaitPoints, CreatePoints
  <2>4. StateAt(x)'
    BY <2>2 DEF StateAt, InOwn, InMain, Calls, CallPoints, StrikePoints, AwaitPoints, CreatePoints
  <2>5. KidAt(x)'
    BY <1>9, <1>10, <2>1, <2>2 DEF LocalAt, KidAt, InKids, Calls, CallPoints, StrikePoints, AwaitPoints
  <2>6. MakesAt(x)' /\ WaitsAt(x)' /\ KidDone(x)'
    BY <2>2 DEF MakesAt, WaitsAt, KidDone, MakePoints, CreatePoints
  <2>7. ASSUME NEW y \in Pids PROVE ChildAt(x, y)'
    BY <1>6, <1>14, <2>1, <2>2 DEF ChildAt
  <2>8. QED
    BY <2>3, <2>4, <2>5, <2>6, <2>7 DEF Shows, LocalAt
<1>22. Shows(q)
  <2>1. /\ proc'[q] = proc[q] /\ Lives(q)' /\ cut' = cut /\ (q \in asked' <=> q \in asked)
        /\ q \in ready' /\ aim'[q] = x /\ at' = at
    BY <1>2, <1>3, <1>5, <1>6, <1>7, <1>10, <1>11, <1>13
  <2>2. PlaceAt(q)'
    BY <1>11, <2>1 DEF PlaceAt, InOwn, CallPoints, StrikePoints, AwaitPoints
  <2>3. StateAt(q)'
    BY <1>1, <1>2, <1>11, <2>1 DEF StateAt, InOwn, InMain, CallPoints, StrikePoints, AwaitPoints
  <2>4. KidAt(q)'
    BY <1>2, <1>11, <2>1 DEF KidAt, InKids, Calls, CallPoints, StrikePoints, AwaitPoints
  <2>5. MakesAt(q)'
    <3>1. \A r \in Pids \ {q} : pc'[r] \in CreatePoints => aim'[r] # x
      BY <1>11, <1>17
    <3>2. pc'[x] = "none" /\ x \notin asked' /\ proc'[x].ppid = NoPid /\ proc'[x].critical = "none"
      BY <1>3, <1>6, <1>9, <1>10, <1>11
    <3>3. QED
      BY <1>6, <1>11, <1>13, <2>1, <3>1, <3>2 DEF MakesAt, MakePoints
  <2>6. WaitsAt(q)' /\ KidDone(q)'
    BY <1>11 DEF WaitsAt, KidDone
  <2>7. ASSUME NEW y \in Pids PROVE ChildAt(q, y)'
    <3>1. ChildAt(q, y) /\ ~Fresh(q)' /\ pc[q] \notin MakePoints /\ InList(q, y)' = InList(q, y)
      BY <1>1, <1>2, <1>11, <2>1 DEF Fresh, MakePoints, InList
    <3>2. CASE y = x
      BY <1>14, <3>2 DEF ChildAt
    <3>3. CASE y # x
      BY <1>14, <2>1, <3>1, <3>3 DEF ChildAt
    <3>4. QED
      BY <3>2, <3>3
  <2>8. QED
    BY <2>2, <2>3, <2>4, <2>5, <2>6, <2>7 DEF Shows, LocalAt
<1>23. {q, x} \in SUBSET Pids /\ \A r \in {q, x} : Shows(r)
  BY <1>21, <1>22
<1>24. /\ LocalExact' /\ MakesExact' /\ WaitsExact' /\ SlotsExact' /\ ExitsExact'
       /\ ChildrenExact' /\ KidsDone'
  BY <1>12, <1>20, <1>23, FrameKeeps
<1>25. RequestsExact' /\ FirstComesFirst' /\ FirstPending'
  BY <1>3, <1>4, <1>5, <1>6, <1>10, RequestsPass
<1>26. QED
  BY <1>12, <1>24, <1>25 DEF IndInv

\* The queue of the helper loses its head, a request for a process that is not
\* there any more afterwards.
LEMMA RequestsShrink ==
  ASSUME IndInv, requests # << >>, requests' = Tail(requests), UNCHANGED <<lives, asked>>,
         cut \subseteq cut', NEW p \in Pids, Head(requests).pid = p, ~Lives(p)',
         helping' # NoPid => proc'[helping'].id,
         \A r \in Pids \ {p} : Lives(r)' = Lives(r),
         Lives(p) => Head(requests).life = lives[p] \/ p \in cut'
  PROVE  requests' \in Seq(RequestType) /\ RequestsExact' /\ FirstComesFirst' /\ FirstPending'
<1>1. requests \in Seq(RequestType)
  BY DEF IndInv, TypeOK, KernelOK
<1>2. /\ 1 \in DOMAIN requests /\ Head(requests) = requests[1]
      /\ requests' \in Seq(RequestType) /\ DOMAIN requests \subseteq Nat \ {0}
      /\ \A i \in DOMAIN requests' :
           /\ i \in Nat /\ i + 1 \in DOMAIN requests /\ i + 1 # 1
           /\ requests'[i] = requests[i + 1] /\ requests'[i] \in RequestType
      /\ \A i \in DOMAIN requests :
           i # 1 => i - 1 \in DOMAIN requests' /\ requests'[i - 1] = requests[i]
  BY <1>1, TailFacts
<1>3. ASSUME NEW i \in DOMAIN requests' PROVE RequestAt(requests[i])'
  <2>1. PICK r \in RequestType : r = requests'[i] /\ r = requests[i + 1]
    BY <1>2
  <2>2. r.pid \in Pids /\ RequestAt(r) /\ i \in Nat /\ i + 1 \in DOMAIN requests
    BY <1>2, <2>1 DEF RequestType, IndInv, RequestsExact
  <2>3. CASE r.pid = p
    <3>1. r.first => p \in cut'
      <4>1. ASSUME r.first, Lives(p), r.life = lives[p], Head(requests).life = lives[p] PROVE FALSE
        <5>1. 1 < i + 1
          BY <1>2, <2>2
        <5>2. requests[1].pid = requests[i + 1].pid /\ requests[1].life = requests[i + 1].life
              /\ requests[i + 1].first
          BY <1>2, <2>1, <2>3, <4>1
        <5>3. QED
          BY <1>2, <2>2, <5>1, <5>2 DEF IndInv, FirstComesFirst
      <4>2. QED
        BY <2>2, <2>3, <4>1 DEF RequestAt, Own
    <3>2. QED
      BY <2>1, <2>2, <2>3, <3>1 DEF RequestAt, Own
  <2>4. CASE r.pid # p
    <3>1. Lives(r.pid)' = Lives(r.pid)
      BY <2>2, <2>4
    <3>2. QED
      BY <2>1, <2>2, <3>1 DEF RequestAt, Own, Lives
  <2>5. QED
    BY <2>3, <2>4
<1>4. FirstComesFirst'
  <2>1. ASSUME NEW i \in DOMAIN requests', NEW j \in DOMAIN requests', i < j,
               requests'[i].pid = requests'[j].pid, requests'[i].life = requests'[j].life
        PROVE  ~requests'[j].first
    <3>1. i + 1 \in DOMAIN requests /\ j + 1 \in DOMAIN requests /\ i + 1 < j + 1
          /\ requests'[i] = requests[i + 1] /\ requests'[j] = requests[j + 1]
      BY <1>2, <2>1
    <3>2. QED
      BY <2>1, <3>1 DEF IndInv, FirstComesFirst
  <2>2. QED
    BY <2>1 DEF FirstComesFirst
<1>5. FirstPending'
  <2>1. ASSUME NEW r \in Pids, Lives(r)', r \in asked'
        PROVE  \E i \in DOMAIN requests' : requests'[i].pid = r /\ requests'[i].life = lives'[r] /\ requests'[i].first
    <3>1. r # p /\ Lives(r) /\ r \in asked
      BY <2>1
    <3>2. PICK i \in DOMAIN requests :
            requests[i].pid = r /\ requests[i].life = lives[r] /\ requests[i].first
      BY <3>1 DEF IndInv, FirstPending
    <3>3. i # 1
      BY <1>2, <3>1, <3>2
    <3>4. i - 1 \in DOMAIN requests' /\ requests'[i - 1] = requests[i]
      BY <1>2, <3>3
    <3>5. QED
      BY <3>2, <3>4
  <2>2. QED
    BY <2>1 DEF FirstPending
<1>6. QED
  BY <1>2, <1>3, <1>4, <1>5 DEF RequestsExact

\* A request for a slot that is free is dropped.
LEMMA DropPreserves == ASSUME Setting, IndInv, DropRequest PROVE IndInv'
<1> USE DEF locals, helper, history
<1>1. /\ TypeOK /\ requests # << >> /\ requests' = Tail(requests) /\ helping = NoPid
      /\ ~proc[Head(requests).pid].id
      /\ ready' \in {ready, ready \ {Helper}} /\ cpu' = GiveUp(Helper, cpu)
      /\ UNCHANGED <<proc, helping, pc, back, lock, aim, at, wid, conds, stopped, asked,
                     lives, kills, stops, frees, orphans, cut>>
  BY DEF IndInv, DropRequest, Done
<1>2. PICK p \in Pids : p = Head(requests).pid
  <2>1. Head(requests) \in RequestType
    BY <1>1, TailFacts DEF TypeOK, KernelOK
  <2>2. QED
    BY <2>1 DEF RequestType
<1>3. requests' \in Seq(RequestType) /\ RequestsExact' /\ FirstComesFirst' /\ FirstPending'
  <2>1. ~Lives(p) /\ ~Lives(p)' /\ \A r \in Pids : Lives(r)' = Lives(r)
    BY <1>1, <1>2 DEF Lives
  <2>2. QED
    BY <1>1, <1>2, <2>1, RequestsShrink
<1>4. TypeOK'
  <2>1. cpu' \in [Levels -> Tasks \cup {NoTask}]
    BY <1>1, Constants, CpuTyped DEF Setting
  <2>2. TablesOK'
    BY <1>1 DEF TypeOK, TablesOK
  <2>3. KernelOK'
    BY <1>1, <1>3, <2>1 DEF TypeOK, KernelOK
  <2>4. HistoryOK'
    BY <1>1 DEF TypeOK, HistoryOK
  <2>5. QED
    BY <2>2, <2>3, <2>4 DEF TypeOK
<1>5. Frame({})
  <2>1. \A r \in Pids : Grows(r) /\ Lives(r)' = Lives(r) /\ Alike(proc[r], proc'[r])
    <3>1. \A r \in Pids : proc[r].kill_state \in 0..11
      BY <1>1, States
    <3>2. QED
      BY <1>1, <3>1 DEF Grows, Lives, MutexMoves, ExitMoves, Alike
  <2>2. \A r \in Pids : Rests(r) /\ Makers(r)
    BY <1>1, <2>1, Constants DEF Setting, Rests, Pushed, Makers, CreatePoints
  <2>3. QED
    BY <1>1, <2>1, <2>2 DEF Frame, Seen
<1>6. {} \in SUBSET Pids
  OBVIOUS
<1>7. /\ LocalExact' /\ MakesExact' /\ WaitsExact' /\ SlotsExact' /\ ExitsExact'
      /\ ChildrenExact' /\ KidsDone'
  BY <1>4, <1>5, <1>6, FrameKeeps
<1>8. QED
  BY <1>3, <1>4, <1>7 DEF IndInv

\* The slot of a process that has been deleted is given back.
LEMMA FreePreserves == ASSUME Setting, IndInv, FreeSlot PROVE IndInv'
<1> USE DEF locals, helper, history
<1>1. /\ TypeOK /\ requests' = requests /\ helping # NoPid /\ helping' = NoPid
      /\ proc' = [proc EXCEPT ![helping].id = FALSE]
      /\ ready' \in {ready, ready \ {Helper}} /\ cpu' = GiveUp(Helper, cpu)
      /\ UNCHANGED <<pc, back, lock, aim, at, wid, conds, stopped, asked,
                     lives, kills, stops, frees, orphans, cut>>
  BY DEF IndInv, FreeSlot, Done
<1>2. PICK h \in Pids : h = helping
  BY <1>1 DEF TypeOK, KernelOK
<1>3. proc \in [Pids -> SlotType] /\ proc[h] \in SlotType /\ ~Lives(h) /\ NoPid \notin Pids
  BY <1>1, <1>2, Constants DEF Setting, TypeOK, TablesOK, Lives
<1> DEFINE e == [proc[h] EXCEPT !.id = FALSE]
<1>4. proc' = [proc EXCEPT ![h] = e]
  BY <1>1, <1>2
<1>5. /\ e \in SlotType /\ e.id = FALSE
      /\ e.ppid = proc[h].ppid /\ e.kids = proc[h].kids /\ e.kill_mode = proc[h].kill_mode
      /\ e.kill_state = proc[h].kill_state /\ e.critical = proc[h].critical
      /\ e.exit_wait = proc[h].exit_wait
  BY <1>3, IdStored
<1> HIDE DEF e
<1>6. proc'[h] = e /\ \A r \in Pids \ {h} : proc'[r] = proc[r]
  BY <1>3, <1>4
<1>7. \A r \in Pids : Lives(r)' = Lives(r)
  BY <1>1, <1>2, <1>3, <1>5, <1>6 DEF Lives
<1>8. TypeOK'
  <2>1. proc' \in [Pids -> SlotType]
    BY <1>3, <1>4, <1>5
  <2>2. cpu' \in [Levels -> Tasks \cup {NoTask}]
    BY <1>1, Constants, CpuTyped DEF Setting
  <2>3. TablesOK'
    BY <1>1, <2>1 DEF TypeOK, TablesOK
  <2>4. KernelOK'
    BY <1>1, <2>2 DEF TypeOK, KernelOK
  <2>5. HistoryOK'
    BY <1>1 DEF TypeOK, HistoryOK
  <2>6. QED
    BY <2>3, <2>4, <2>5 DEF TypeOK
<1>9. ASSUME NEW r \in Pids
      PROVE  /\ proc'[r].ppid = proc[r].ppid /\ proc'[r].kids = proc[r].kids
             /\ proc'[r].kill_mode = proc[r].kill_mode /\ proc'[r].kill_state = proc[r].kill_state
             /\ proc'[r].critical = proc[r].critical /\ proc'[r].exit_wait = proc[r].exit_wait
             /\ (proc'[r].id => proc[r].id)
  BY <1>5, <1>6
<1>10. \A r \in Pids : Grows(r)
  <2>1. \A r \in Pids : proc[r].kill_state \in 0..11
    BY <1>1, States
  <2>2. QED
    BY <1>1, <1>9, <2>1 DEF Grows, MutexMoves, ExitMoves
<1>11. Frame({h})
  <2>1. \A r \in Pids : Makers(r)
    BY <1>1 DEF Makers, CreatePoints
  <2>2. \A r \in Pids \ {h} : Rests(r)
    BY <1>1, <1>6, Constants DEF Setting, Rests, Pushed, Alike
  <2>3. Starts(h, {h})
    BY <1>3 DEF IndInv, MakesExact, MakesAt, Starts
  <2>4. QED
    BY <1>1, <1>7, <1>10, <2>1, <2>2, <2>3 DEF Frame, Seen
<1>12. Shows(h)
  <2>1. LocalAt(h) /\ pc[h] = "none" /\ \A y \in Pids : ChildAt(h, y)
    BY <1>3 DEF IndInv, LocalExact, LocalAt, PlaceAt, ChildrenExact
  <2>2. /\ pc'[h] = "none" /\ (h \in asked' <=> h \in asked) /\ cut' = cut
        /\ ~Lives(h) /\ ~Lives(h)'
    BY <1>1, <1>3, <1>7, <2>1
  <2>3. PlaceAt(h)'
    BY <2>2 DEF PlaceAt, InOwn, RunPoints, StillPoints, CallPoints, StrikePoints, AwaitPoints, CreatePoints
  <2>4. StateAt(h)'
    BY <1>9, <2>1, <2>2
      DEF LocalAt, StateAt, InOwn, InMain, Calls, CallPoints, StrikePoints, AwaitPoints, CreatePoints
  <2>5. KidAt(h)'
    BY <1>9, <2>1, <2>2 DEF LocalAt, KidAt, InKids, Calls, CallPoints, StrikePoints, AwaitPoints
  <2>6. MakesAt(h)' /\ WaitsAt(h)' /\ KidDone(h)'
    BY <2>2 DEF MakesAt, WaitsAt, KidDone, MakePoints, CreatePoints
  <2>7. ASSUME NEW y \in Pids PROVE ChildAt(h, y)'
    <3>1. /\ ChildOf(y, h)' => ChildOf(y, h)
          /\ Over(y)' <=> Over(y)
      BY <1>1, <1>9 DEF ChildOf, Over
    <3>2. QED
      BY <2>1, <2>2, <3>1 DEF ChildAt
  <2>8. QED
    BY <2>3, <2>4, <2>5, <2>6, <2>7 DEF Shows, LocalAt
<1>13. {h} \in SUBSET Pids /\ \A r \in {h} : Shows(r)
  BY <1>12
<1>14. /\ LocalExact' /\ MakesExact' /\ WaitsExact' /\ SlotsExact' /\ ExitsExact'
       /\ ChildrenExact' /\ KidsDone'
  BY <1>8, <1>11, <1>13, FrameKeeps
<1>15. RequestsExact' /\ FirstComesFirst' /\ FirstPending'
  <2>1. \A i \in DOMAIN requests : requests[i] \in RequestType
    BY <1>1, ElementOfSeq, LenProperties DEF TypeOK, KernelOK
  <2>2. ASSUME NEW i \in DOMAIN requests PROVE RequestAt(requests[i])'
    <3>1. PICK r \in RequestType : r = requests[i] /\ RequestAt(r)
      BY <2>1 DEF IndInv, RequestsExact
    <3>2. r.pid \in Pids /\ Lives(r.pid)' = Lives(r.pid)
      BY <1>7 DEF RequestType
    <3>3. requests'[i] = r /\ lives' = lives /\ asked' = asked /\ cut' = cut
      BY <1>1, <3>1
    <3>4. QED
      BY <3>1, <3>2, <3>3 DEF RequestAt, Own, Lives
  <2>3. RequestsExact'
    BY <1>1, <2>2 DEF RequestsExact
  <2>4. QED
    BY <1>1, <1>7, <2>3 DEF IndInv, FirstComesFirst, FirstPending
<1>16. QED
  BY <1>8, <1>14, <1>15 DEF IndInv

\* The helper deletes a process.
LEMMA DeletePreserves == ASSUME Setting, IndInv, DeleteTask PROVE IndInv'
<1> USE DEF locals, helper, history
<1>1. requests # << >> /\ helping = NoPid /\ TypeOK /\ requests \in Seq(RequestType)
  BY DEF DeleteTask, IndInv, TypeOK, KernelOK
<1>2. PICK h \in RequestType : h = Head(requests) /\ RequestAt(h)
  <2>1. 1 \in DOMAIN requests /\ Head(requests) = requests[1] /\ Head(requests) \in RequestType
    BY <1>1, TailFacts
  <2>2. QED
    BY <2>1 DEF IndInv, RequestsExact
<1>3. PICK p \in Pids : p = h.pid
  BY DEF RequestType
<1>4. /\ proc[p].id /\ \A q \in Pids : p \notin Orphaned(q)
      /\ requests' = Tail(requests) /\ helping' = p
      /\ pc' = [WithoutMutex(p) EXCEPT ![p] = "none"]
      /\ ready' = (ready \cup Freed(p)) \ {p}
      /\ stopped' = stopped \ {p}
      /\ cpu' = Occupy(Helper, Evict(p, cpu))
      /\ orphans' = orphans \cup Orphaned(p)
      /\ UNCHANGED <<back, lock, aim, at, wid, conds, asked, lives, kills, stops, frees>>
  BY <1>2, <1>3 DEF DeleteTask
<1>5. proc' = [q \in Pids |->
                 IF q = p THEN [proc[q] EXCEPT !.critical = "none"]
                 ELSE IF q = proc[p].ppid /\ proc[p].critical # "none"
                      THEN [proc[q] EXCEPT !.dtors = @ \ {p}]
                 ELSE proc[q]]
  BY <1>2, <1>3 DEF DeleteTask
<1>6. cut \subseteq cut' /\ cut' \subseteq Pids /\ (h.life # lives[p] => p \in cut')
  BY <1>1, <1>2, <1>3 DEF DeleteTask, TypeOK, HistoryOK
<1>7. /\ proc \in [Pids -> SlotType] /\ pc \in [Pids -> Points] /\ ready \subseteq Tasks
      /\ Pids \subseteq Tasks /\ Helper \in Tasks /\ NoPid \notin Pids
  BY <1>1, Constants DEF Setting, TypeOK, TablesOK, KernelOK
<1>8. /\ proc'[p].critical = "none"
      /\ \A r \in Pids : proc'[r] \in SlotType /\ Alike(proc[r], proc'[r])
      /\ \A r \in Pids \ {p} : proc'[r].critical = proc[r].critical
  <2>1. \A r \in Pids : proc[r] \in SlotType /\ proc[r].dtors \ {p} \in SUBSET Pids
    BY <1>7, SlotFields
  <2>2. \A s \in SlotType : LET e == [s EXCEPT !.critical = "none"]
                            IN  e \in SlotType /\ Alike(s, e) /\ e.critical = "none"
    BY MutexStored
  <2>3. \A s \in SlotType, d \in SUBSET Pids :
          Plainly(s, [s EXCEPT !.dtors = d])
    BY OwnStored
  <2>4. proc'[p] \in SlotType /\ Alike(proc[p], proc'[p]) /\ proc'[p].critical = "none"
    BY <1>5, <2>1, <2>2
  <2>5. ASSUME NEW r \in Pids \ {p}
        PROVE  proc'[r] \in SlotType /\ Alike(proc[r], proc'[r]) /\ proc'[r].critical = proc[r].critical
    <3>1. proc'[r] = proc[r] \/ proc'[r] = [proc[r] EXCEPT !.dtors = proc[r].dtors \ {p}]
      BY <1>5
    <3>2. CASE proc'[r] = proc[r]
      BY <2>1, <3>2 DEF Alike
    <3>3. CASE proc'[r] = [proc[r] EXCEPT !.dtors = proc[r].dtors \ {p}]
      BY <2>1, <2>3, <3>3 DEF Plainly
    <3>4. QED
      BY <3>1, <3>2, <3>3
  <2>6. QED
    BY <2>4, <2>5
<1>9. /\ pc'[p] = "none"
      /\ \A r \in Pids \ {p} : pc'[r] = IF r \in Freed(p) THEN Past(r) ELSE pc[r]
  BY <1>4, <1>7 DEF WithoutMutex
<1>10. Orphaned(p) \subseteq Pids
  BY DEF Orphaned, IndInv, MakesExact, MakesAt
<1>11. Lives(p) /\ ~Lives(p)' /\ \A r \in Pids \ {p} : Lives(r)' = Lives(r)
  BY <1>1, <1>4, <1>7, <1>8 DEF Lives, Alike
<1>12. requests' \in Seq(RequestType) /\ RequestsExact' /\ FirstComesFirst' /\ FirstPending'
  <2>1. helping' # NoPid => proc'[helping'].id
    BY <1>4, <1>8 DEF Alike
  <2>2. QED
    BY <1>1, <1>2, <1>3, <1>4, <1>6, <1>11, <2>1, RequestsShrink
<1>13. TypeOK'
  <2>1. pc' \in [Pids -> Points]
    <3>1. {"state0", "mark", "none"} \subseteq Points
      BY DEF Points, RunPoints, CallPoints, StrikePoints, StillPoints
    <3>2. WithoutMutex(p) \in [Pids -> Points]
      BY <1>7, <3>1 DEF WithoutMutex, Past
    <3>3. QED
      BY <1>4, <3>1, <3>2
  <2>2. proc' \in [Pids -> SlotType]
    BY <1>5, <1>8
  <2>3. cpu' \in [Levels -> Tasks \cup {NoTask}]
    BY <1>1, <1>4, <1>7, CpuTyped
  <2>4. ready' \subseteq Tasks /\ stopped' \subseteq Pids
    BY <1>1, <1>4, <1>7 DEF Freed, TypeOK, KernelOK
  <2>5. TablesOK'
    BY <1>1, <1>4, <2>1, <2>2 DEF TypeOK, TablesOK
  <2>6. KernelOK'
    BY <1>4, <1>12, <2>3, <2>4 DEF KernelOK
  <2>7. HistoryOK'
    BY <1>1, <1>4, <1>6, <1>10 DEF TypeOK, HistoryOK
  <2>8. QED
    BY <2>5, <2>6, <2>7 DEF TypeOK
<1>14. \A r \in Pids \ {p} : Rests(r)
  <2>1. ASSUME NEW r \in Pids \ {p} PROVE Pushed(r) /\ (r \in ready \/ pc'[r] # pc[r] => r \in ready')
    BY <1>4, <1>9 DEF Pushed, Freed
  <2>2. QED
    BY <1>4, <1>8, <2>1 DEF Rests
<1>15. ASSUME NEW r \in Pids PROVE Grows(r)
  <2>1. MutexMoves(r)
    <3>1. CASE r # p
      BY <1>8, <3>1 DEF MutexMoves
    <3>2. CASE r = p
      <4>1. ASSUME NEW q \in Pids, aim'[q] = p PROVE pc'[q] # "locked"
        BY <1>4, <1>9, <4>1 DEF Freed, Past
      <4>2. QED
        BY <1>8, <3>2, <4>1 DEF MutexMoves
    <3>3. QED
      BY <3>1, <3>2
  <2>2. Alike(proc[r], proc'[r]) /\ conds' = conds
    BY <1>4, <1>8
  <2>3. ExitMoves(r)
    BY <2>2 DEF ExitMoves, Alike
  <2>4. proc[r].kill_state \in 0..11 /\ (r \in orphans => r \in orphans')
    BY <1>1, <1>4, States
  <2>5. QED
    BY <2>1, <2>2, <2>3, <2>4 DEF Grows, Alike
<1>16. ASSUME NEW r \in Pids PROVE Makers(r)
  <2>1. CASE r = p
    BY <1>4, <1>9, <2>1 DEF Makers, Orphaned, CreatePoints
  <2>2. CASE r # p
    <3>1. pc'[r] \in CreatePoints \/ pc[r] \in CreatePoints => pc'[r] = pc[r]
      BY <1>9, <2>2 DEF Past, CreatePoints, Freed
    <3>2. QED
      BY <1>4, <3>1 DEF Makers, CreatePoints
  <2>3. QED
    BY <2>1, <2>2
<1>17. Frame({p})
  <2>1. \A q \in Pids : pc[q] \in CreatePoints => aim[q] # p
    BY <1>4 DEF Orphaned
  <2>2. Starts(p, {p})
    BY <2>1 DEF Starts
  <2>3. Ends(p)
    BY <1>4, <1>8 DEF Ends, SlotAt
  <2>4. \A r \in Pids : Seen(r, {p})
    BY <1>11, <1>15, <2>3 DEF Seen
  <2>5. QED
    BY <1>6, <1>14, <1>16, <2>2, <2>4 DEF Frame
<1>18. Shows(p)
  <2>1. LocalAt(p) /\ MakesAt(p) /\ \A y \in Pids : ChildAt(p, y)
    BY DEF IndInv, LocalExact, MakesExact, ChildrenExact
  <2>2. /\ (p \in asked' <=> p \in asked)
        /\ proc'[p].kill_state = proc[p].kill_state /\ proc'[p].kids = proc[p].kids
    BY <1>4, <1>8 DEF Alike
  <2>3. PlaceAt(p)'
    BY <1>9, <1>11 DEF PlaceAt, InOwn, RunPoints, StillPoints, CallPoints, StrikePoints, AwaitPoints, CreatePoints
  <2>4. StateAt(p)'
    BY <1>9, <1>11, <2>1, <2>2
      DEF LocalAt, StateAt, InOwn, InMain, Calls, CallPoints, StrikePoints, AwaitPoints, CreatePoints
  <2>5. KidAt(p)'
    BY <1>9, <2>1, <2>2 DEF LocalAt, KidAt, InKids, Calls, CallPoints, StrikePoints, AwaitPoints
  <2>6. MakesAt(p)' /\ WaitsAt(p)' /\ KidDone(p)'
    BY <1>9 DEF MakesAt, WaitsAt, KidDone, MakePoints, CreatePoints
  <2>7. p \notin cut' => proc[p].kill_state > 3 \/ proc[p].kill_state = 11
    <3>1. p \notin cut' => p \in asked
      BY <1>2, <1>3, <1>6 DEF RequestAt, Own
    <3>2. proc[p].kill_state \in 0..11
      BY <1>1, States
    <3>3. QED
      BY <2>1, <3>1, <3>2 DEF LocalAt, StateAt
  <2>8. ASSUME NEW y \in Pids PROVE ChildAt(p, y)'
    <3>1. /\ ChildOf(y, p)' => ChildOf(y, p)
          /\ Over(y)' <=> Over(y)
      BY <1>4, <1>8 DEF ChildOf, Over, Alike
    <3>2. proc[p].kill_state \in 0..11
      BY <1>1, States
    <3>3. p \notin cut' /\ ChildOf(y, p) => Over(y)
      BY <1>6, <2>1, <2>7, <3>2 DEF ChildAt
    <3>4. QED
      BY <3>1, <3>3 DEF ChildAt
  <2>9. QED
    BY <2>3, <2>4, <2>5, <2>6, <2>8 DEF Shows, LocalAt
<1>19. {p} \in SUBSET Pids /\ \A r \in {p} : Shows(r)
  BY <1>18
<1>20. /\ LocalExact' /\ MakesExact' /\ WaitsExact' /\ SlotsExact' /\ ExitsExact'
       /\ ChildrenExact' /\ KidsDone'
  BY <1>13, <1>17, <1>19, FrameKeeps
<1>21. QED
  BY <1>12, <1>13, <1>20 DEF IndInv

\* In the beginning there is process 0 alone.
LEMMA InitEstablishes == ASSUME Setting, Init PROVE IndInv
<1>1. /\ MaxPid \in Nat \ {0} /\ Pids \subseteq Nat /\ 0 \in Pids /\ NoPid \notin Pids
      /\ Pids \subseteq Tasks /\ MaxLives \in Nat
  BY Constants DEF Setting
<1>2. Slot \in SlotType /\ ~Slot.id /\ Slot.kids = << >> /\ Slot.kill_state = 0
      /\ Slot.critical = "none" /\ Slot.ppid = NoPid /\ Slot.kill_mode = FALSE
  BY DEF Slot, SlotType
<1> DEFINE e == [Slot EXCEPT !.id = TRUE, !.critical = "free", !.exit_wait = 1]
<1>3. /\ e \in SlotType /\ e.id /\ e.kids = << >> /\ e.kill_state = 0 /\ e.critical = "free"
      /\ e.ppid = NoPid /\ e.exit_wait = 1 /\ ~e.kill_mode
  <2> DEFINE a == [Slot EXCEPT !.id = TRUE]
             b == [Slot EXCEPT !.id = TRUE, !.critical = "free"]
  <2>1. a \in SlotType
    BY <1>2 DEF SlotType
  <2>2. b \in SlotType
    BY <2>1 DEF SlotType
  <2>3. e \in SlotType
    BY <2>2 DEF SlotType
  <2>4. QED
    BY <1>2, <2>3 DEF SlotType
<1> HIDE DEF e
<1>4. /\ proc = [p \in Pids |-> IF p # 0 THEN Slot ELSE e]
      /\ pc = [p \in Pids |-> IF p = 0 THEN "start" ELSE "none"]
  BY DEF Init, e
<1>5. /\ proc[0] = e /\ pc[0] = "start" /\ 0 \in ready /\ helping = NoPid /\ cut = {} /\ asked = {}
      /\ requests = << >> /\ conds[0] = {1}
      /\ \A p \in Pids \ {0} : proc[p] = Slot /\ pc[p] = "none"
  BY <1>1, <1>4 DEF Init
<1>6. TypeOK
  <2>1. {"start", "none"} \subseteq Points
    BY DEF Points, RunPoints, StillPoints
  <2>2. pc \in [Pids -> Points] /\ proc \in [Pids -> SlotType]
    BY <1>2, <1>3, <1>4, <2>1
  <2>3. TablesOK
    BY <2>2 DEF Init, TablesOK
  <2>4. KernelOK
    BY <1>1 DEF Init, KernelOK, IdleCpu
  <2>5. HistoryOK
    <3>1. MaxLives # 0
      BY Zenon DEF Setting, ProcessAssumption
    <3>2. \A p \in Pids : lives[p] <= MaxLives
      BY <1>1, <3>1 DEF Init
    <3>3. QED
      BY <1>1, <3>2 DEF Init, HistoryOK
  <2>6. QED
    BY <2>3, <2>4, <2>5 DEF TypeOK
<1>7. \A p \in Pids : /\ pc[p] \in {"none", "start"} /\ proc[p].kids = << >> /\ proc[p].kill_state = 0
                      /\ ~proc[p].kill_mode /\ (Lives(p) <=> p = 0) /\ (pc[p] = "start" <=> p = 0)
                      /\ proc[p].ppid = NoPid
  BY <1>1, <1>2, <1>3, <1>5 DEF Lives
<1>8. LocalExact
  <2>1. ASSUME NEW p \in Pids PROVE PlaceAt(p) /\ StateAt(p)
    BY <1>5, <1>7 DEF PlaceAt, StateAt, InMain, InOwn, Calls, RunPoints, StillPoints, CallPoints,
      StrikePoints, AwaitPoints, CreatePoints
  <2>2. ASSUME NEW p \in Pids PROVE KidAt(p)
    BY <1>7 DEF KidAt, InKids, Calls, CallPoints, StrikePoints, AwaitPoints
  <2>3. QED
    BY <2>1, <2>2 DEF LocalExact, LocalAt
<1>9. MakesExact /\ WaitsExact /\ KidsDone
  BY <1>7 DEF MakesExact, MakesAt, WaitsExact, WaitsAt, KidsDone, KidDone, CreatePoints, MakePoints
<1>10. SlotsExact /\ ExitsExact
  BY <1>1, <1>2, <1>3, <1>5, <1>7 DEF SlotsExact, SlotAt, ExitsExact, ExitAt
<1>11. RequestsExact /\ FirstComesFirst /\ FirstPending
  <2>1. DOMAIN requests = {}
    BY <1>5
  <2>2. QED
    BY <1>5, <2>1 DEF RequestsExact, FirstComesFirst, FirstPending
<1>12. ChildrenExact
  BY <1>1, <1>7 DEF ChildrenExact, ChildAt, ChildOf
<1>13. QED
  BY <1>6, <1>8, <1>9, <1>10, <1>11, <1>12 DEF IndInv

\* What is left of the death
LEMMA ProceedPreserves == ASSUME Setting, IndInv, NEW p \in Pids, Proceed(p) PROVE IndInv'
<1>1. CASE Create(p)
  BY <1>1, FillSlotPreserves, CreateTaskPreserves, CreateCondsPreserves, JoinPreserves,
    ResumesPreserve DEF Create
<1>2. CASE Handle(p) \/ Wait(p)
  BY <1>2, HandlePreserves, WaitPreserves
<1>3. CASE KillAnother(p)
  BY <1>3, LockPreserves, TakePreserves, MarkPreserves, TerminatePreserves, ResetPreserves,
    ResumesPreserve DEF KillAnother
<1>4. CASE CallHandler(p) \/ KillImplAgain(p) \/ KillImpl(p) \/ Try(p)
  BY <1>4, EntryPreserves
<1>5. CASE Stages(p)
  <2>1. CASE Stage0(p) \/ Stage2(p) \/ StagePass(p) \/ StageDone(p)
    BY <2>1, Stage0Preserves, EntryPreserves, StagesPreserve
  <2>2. CASE Stage3(p) \/ KidKill(p) \/ KidWait(p) \/ KidNext(p)
    BY <2>2, KidsPreserve, KillPreserves, WaitsPreserve
  <2>3. CASE TakeDtor(p) \/ RunDtor(p) \/ Stage8(p) \/ Reschedule(p)
    BY <2>3, TakeDtorPreserves, RunDtorPreserves, RequestPreserves
  <2>4. CASE WithdrawExit(p) \/ WakeWaiter(p) \/ DestroyExit(p)
    BY <2>4, WithdrawPreserves, WakePreserves, DestroyPreserves
  <2>5. QED
    BY <1>5, <2>1, <2>2, <2>3, <2>4 DEF Stages
<1>6. QED
  BY <1>1, <1>2, <1>3, <1>4, <1>5 DEF Proceed

\* Every step preserves the invariant.
LEMMA NextPreserves == ASSUME Setting, IndInv, [Next]_vars PROVE IndInv'
<1>1. ASSUME NEW p \in Pids,
             NewProcess(p) \/ Exit(p) \/ Sleep(p) \/ WakeUp(p) \/ StrayReturns(p) \/ Signal(p)
      PROVE  IndInv'
  BY <1>1, NewProcessPreserves, MainPreserves, WakePreserves
<1>2. ASSUME NEW p \in Pids, Kill(p) \/ Stop(p) \/ Continue(p) \/ WaitForProcess(p) \/ Proceed(p)
      PROVE  IndInv'
  BY <1>2, KillPreserves, WakePreserves, ResumesPreserve, WaitsPreserve, ProceedPreserves
<1>3. CASE HelperRuns
  BY <1>3, DeletePreserves, FreePreserves, DropPreserves DEF HelperRuns
<1>4. CASE UNCHANGED vars
  BY <1>4 DEF vars, locals, helper, history, IndInv, TypeOK, TablesOK, KernelOK, HistoryOK,
    LocalExact, LocalAt, PlaceAt, StateAt, KidAt, InMain, InOwn, InKids, Calls, Lives, Fresh,
    MakesExact, MakesAt, WaitsExact, WaitsAt, SlotsExact, SlotAt, ExitsExact, ExitAt,
    RequestsExact, RequestAt, Own, FirstComesFirst, FirstPending, ChildrenExact, ChildAt, ChildOf,
    Over, InList, KidsDone, KidDone
<1>5. QED
  BY <1>1, <1>2, <1>3, <1>4 DEF Next

\* The invariant of the specification, whatever the priorities
LEMMA Invariance == Spec => []IndInv
<1> USE ProcessAssumption, NucleusAssumption DEF Setting
<1>1. Init => IndInv
  BY InitEstablishes
<1>2. IndInv /\ [Next]_vars => IndInv'
  BY NextPreserves
<1>3. QED
  BY <1>1, <1>2, PTL DEF Spec

\* A process that has passed state 3 of its death has no child that could
\* still run, unless its creation was cut short by a kill before it was in the
\* list: for any number of processes of any priorities.
THEOREM ChildrenGo == Spec => []ChildrenDieFirst
<1>1. IndInv => ChildrenDieFirst
  <2>1. ASSUME IndInv, NEW p \in Pids, NEW q \in Pids, p \notin cut, proc[p].kill_state >= 4,
               proc[q].id, proc[q].ppid = p, q \notin orphans
        PROVE  proc[q].kill_state >= 11
    <3>1. ChildAt(p, q) /\ ChildOf(q, p) /\ proc[p].kill_state \in 0..11
      BY <2>1, States DEF IndInv, ChildrenExact, ChildOf
    <3>2. QED
      BY <2>1, <3>1 DEF ChildAt, Over
  <2>2. QED
    BY <2>1 DEF ChildrenDieFirst
<1>2. QED
  BY <1>1, Invariance, PTL

\* Only kill_process begins with a process, in the step that takes a request.
LEMMA OnlyDeletes ==
  ASSUME [Next]_vars, helping' # helping, helping = NoPid
  PROVE  DeleteTask
<1> USE DEF locals, helper, history
<1>1. ASSUME NEW p \in Pids, Create(p) \/ Handle(p) \/ Wait(p) PROVE helping' = helping
  BY <1>1 DEF Create, FillSlot, CreateTask, CreateConds, JoinParent, StartTask, Handle, Wait
<1>2. ASSUME NEW p \in Pids, KillAnother(p) PROVE helping' = helping
  BY <1>2 DEF KillAnother, Lock, Take, Queue, MarkMode, MarkTerminated, Terminate, Reset, Restart
<1>3. ASSUME NEW p \in Pids, CallHandler(p) \/ KillImplAgain(p) \/ KillImpl(p) \/ Try(p)
      PROVE  helping' = helping
  BY <1>3 DEF CallHandler, KillImplAgain, KillImpl, Try
<1>4. ASSUME NEW p \in Pids, Stages(p) PROVE helping' = helping
  BY <1>4 DEF Stages, Stage0, Stage2, StagePass, Stage3, KidKill, Strike, KidWait, Await, KidNext,
    TakeDtor, RunDtor, Stage8, StageDone, WithdrawExit, WakeWaiter, DestroyExit, Reschedule
<1>5. ASSUME NEW p \in Pids,
             NewProcess(p) \/ Exit(p) \/ Sleep(p) \/ WakeUp(p) \/ StrayReturns(p) \/ Signal(p)
      PROVE  helping' = helping
  BY <1>5 DEF NewProcess, Exit, Sleep, WakeUp, StrayReturns, Signal
<1>6. ASSUME NEW p \in Pids, Kill(p) \/ Stop(p) \/ Continue(p) \/ WaitForProcess(p)
      PROVE  helping' = helping
  BY <1>6 DEF Kill, Strike, Stop, Continue, WaitForProcess, Await
<1>7. FreeSlot \/ DropRequest => helping # NoPid \/ helping' = helping
  BY DEF FreeSlot, DropRequest
<1>8. UNCHANGED vars => helping' = helping
  BY DEF vars
<1>9. QED
  BY <1>1, <1>2, <1>3, <1>4, <1>5, <1>6, <1>7, <1>8 DEF Next, Proceed, HelperRuns

\* kill_process deletes a process that has asked for it and is past state 8,
\* unless the request is not the first of a process or that one was deleted out
\* of turn, whatever the priorities and however often the requests are repeated.
THEOREM HelperDeletesOwn == Spec => OwnRequest
<1>1. ASSUME IndInv, [Next]_vars, helping = NoPid, helping' # NoPid, Head(requests).first
      PROVE  \/ /\ Head(requests).life = lives[Head(requests).pid]
                /\ proc[Head(requests).pid].kill_state >= 8
             \/ Head(requests).pid \in cut
  <2>1. requests # << >> /\ requests \in Seq(RequestType)
    BY <1>1, OnlyDeletes DEF DeleteTask, IndInv, TypeOK, KernelOK
  <2>2. PICK h \in RequestType : h = Head(requests) /\ RequestAt(h)
    <3>1. 1 \in DOMAIN requests /\ Head(requests) = requests[1] /\ Head(requests) \in RequestType
      BY <2>1, TailFacts
    <3>2. QED
      BY <1>1, <3>1 DEF IndInv, RequestsExact
  <2>3. StateAt(h.pid)
    BY <1>1, <2>2 DEF RequestType, IndInv, LocalExact, LocalAt
  <2>4. QED
    BY <1>1, <2>2, <2>3 DEF RequestAt, Own, StateAt
<1>2. IndInv /\ [Next]_vars =>
        [helping = NoPid /\ helping' # NoPid =>
           LET r == Head(requests)
           IN  r.first => (r.life = lives[r.pid] /\ proc[r.pid].kill_state >= 8) \/ r.pid \in cut]_vars
  BY <1>1
<1>3. QED
  BY <1>2, Invariance, PTL DEF Spec, OwnRequest

Making == {"new", "filled", "created"}
\* What the two theorems that need to know about priorities look at: argv is
\* freed no more, a death never goes back, an exit condition stays.
Mild(r) ==
  /\ Lives(r)' = Lives(r) /\ frees'[r] = frees[r] /\ proc'[r].kill_state >= proc[r].kill_state
  /\ pc'[r] = "new" => pc[r] = "new" /\ aim'[r] = aim[r]
Calm(r) ==
  /\ conds'[r] = conds[r] /\ Lives(r)' = Lives(r) /\ lives'[r] = lives[r]
  /\ proc'[r].exit_wait = proc[r].exit_wait
  /\ pc'[r] \in Making => pc[r] \in Making /\ aim'[r] = aim[r]
  /\ r \in cut' \/ (pc'[r] = "wake" <=> pc[r] = "wake")
  /\ pc[r] = "wake" => wid'[r] = wid[r]
Steady(r) == Mild(r) /\ Calm(r)
\* The step of a running task that neither creates a process nor frees argv.
SteadyRun(p) ==
  /\ Runs(p) /\ pc'[p] # "argv" /\ cut \subseteq cut'
  /\ pc[p] = "argv" => proc'[p].kill_state >= 3
  /\ \A r \in Pids : Steady(r) /\ (r # p /\ pc'[r] = "argv" => pc[r] = "argv")
\* Where a task is afterwards
Notable == Making \cup {"argv", "wake"}
Goes(r) ==
  /\ \/ pc'[r] = pc[r]
     \/ pc'[r] \notin Notable /\ (pc[r] # "wake" \/ r \in cut')
     \/ pc[r] \in Making /\ pc'[r] \in {"filled", "created"}
  /\ pc'[r] \in Notable => aim'[r] = aim[r]
  /\ pc[r] = "wake" => wid'[r] = wid[r]

\* A step that writes one slot and lowers nobody's kill_state is steady.
LEMMA SteadyMove ==
  ASSUME IndInv, NEW p \in Pids, Runs(p), NEW q \in Pids, NEW e, proc' = [proc EXCEPT ![q] = e],
         e.id = proc[q].id, e.kill_state >= proc[q].kill_state, e.exit_wait = proc[q].exit_wait,
         UNCHANGED <<helping, frees, lives, conds>>, cut \subseteq cut',
         pc'[p] # "argv", pc[p] = "argv" => proc'[p].kill_state >= 3, \A r \in Pids : Goes(r)
  PROVE  SteadyRun(p)
<1>1. proc \in [Pids -> SlotType]
  BY DEF IndInv, TypeOK, TablesOK
<1>2. \A r \in Pids : proc[r].kill_state \in Nat /\ proc'[r] = IF r = q THEN e ELSE proc[r]
  BY <1>1, TableFields
<1>3. ASSUME NEW r \in Pids
      PROVE  /\ proc'[r].id = proc[r].id /\ proc'[r].exit_wait = proc[r].exit_wait
             /\ proc'[r].kill_state >= proc[r].kill_state
  BY <1>2
<1>4. \A r \in Pids : Steady(r) /\ (r # p /\ pc'[r] = "argv" => pc[r] = "argv")
  BY <1>3 DEF Steady, Mild, Calm, Lives, Goes, Notable, Making
<1>5. QED
  BY <1>4 DEF SteadyRun

\* ... and so is one that writes none.
LEMMA SteadyStill ==
  ASSUME IndInv, NEW p \in Pids, Runs(p),
         UNCHANGED <<proc, helping, frees, lives, conds>>, cut \subseteq cut',
         pc[p] # "argv", pc'[p] # "argv", \A r \in Pids : Goes(r)
  PROVE  SteadyRun(p)
<1>1. proc \in [Pids -> SlotType] /\ proc' = [proc EXCEPT ![p] = proc[p]]
  BY DEF IndInv, TypeOK, TablesOK
<1>2. proc[p].kill_state \in Nat
  BY <1>1, TableFields
<1>3. proc[p].kill_state >= proc[p].kill_state
  BY <1>2
<1>4. QED
  BY <1>1, <1>3, SteadyMove

\* Where lockMutex goes after its test
LEMMA LockTested ==
  ASSUME TypeOK, NEW p \in Pids, NEW past PROVE LockTest(p, past) \in {past, "take", "queue"}
<1>1. proc[p].critical \in {"free", "held", "none"}
  BY States, SlotFields
<1>2. QED
  BY <1>1 DEF LockTest

\* The steps of a task that change no slot
LEMMA SteadyWalks ==
  ASSUME IndInv, NEW p \in Pids,
         \/ Exit(p) \/ Sleep(p) \/ Lock(p) \/ Wait(p) \/ WaitForProcess(p) \/ KidWait(p)
         \/ Stage0(p) \/ KillImplAgain(p) \/ Stage8(p) \/ Reschedule(p)
  PROVE  SteadyRun(p)
<1> USE DEF Goto, Block, InState, locals, helper, history
<1>1. pc \in [Pids -> Points] /\ PlaceAt(p) /\ back[p] \in {"main", "kid_finish", "kid_next"}
  BY Back DEF IndInv, TypeOK, TablesOK, LocalExact, LocalAt
<1>2. PICK to \in {"kill_impl", "main", "handled", "mark", "take", "queue", "await", "wait", "astray",
                   "kid_finish", "kid_next", "state0", "finished", "asked", "asleep"} :
        /\ pc[p] \in {"main", "handler", "lock", "await", "kid_finish", "stages", "kill_impl", "resched"}
        /\ Runs(p) /\ pc' = [pc EXCEPT ![p] = to] /\ UNCHANGED <<proc, helping, frees, lives, conds, cut>>
        /\ aim' = aim \/ \E c : aim' = [aim EXCEPT ![p] = c]
        /\ wid' = wid \/ \E n : wid' = [wid EXCEPT ![p] = n]
  <2>1. CASE Exit(p) \/ Sleep(p) \/ Stage8(p) \/ Reschedule(p)
    BY <2>1 DEF Exit, Sleep, Stage8, Reschedule
  <2>2. CASE Lock(p)
    <3>1. PICK x \in Pids : x = aim[p] /\ pc[p] = "lock"
      BY <1>1, <2>2 DEF Lock, PlaceAt, CallPoints, StrikePoints
    <3>2. LockTest(x, "mark") \in {"mark", "take", "queue"}
      BY LockTested DEF IndInv
    <3>3. QED
      BY <1>1, <2>2, <3>1, <3>2 DEF Lock
  <2>3. CASE Wait(p)
    BY <1>1, <2>3 DEF Wait
  <2>4. CASE WaitForProcess(p) \/ KidWait(p)
    BY <2>4 DEF WaitForProcess, KidWait, Await
  <2>5. CASE Stage0(p)
    <3>1. LockTest(p, "state0") \in {"state0", "take", "queue"}
      BY LockTested DEF IndInv
    <3>2. QED
      BY <2>5, <3>1 DEF Stage0
  <2>6. CASE KillImplAgain(p)
    BY <2>6 DEF KillImplAgain
  <2>7. QED
    BY <2>1, <2>2, <2>3, <2>4, <2>5, <2>6
<1>3. pc'[p] = to /\ \A r \in Pids \ {p} : pc'[r] = pc[r]
  BY <1>1, <1>2
<1>4. \A r \in Pids : r # p => aim'[r] = aim[r] /\ wid'[r] = wid[r]
  BY <1>2 DEF IndInv, TypeOK, TablesOK
<1>5. \A r \in Pids : Goes(r)
  BY <1>2, <1>3, <1>4 DEF Goes, Notable, Making
<1>6. QED
  BY <1>2, <1>3, <1>5, SteadyStill

\* The steps that let other tasks go on, or stop them
LEMMA SteadyMoves ==
  ASSUME Setting, IndInv, NEW p \in Pids,
         \/ CreateTask(p) \/ StartTask(p) \/ Continue(p) \/ Restart(p) \/ Terminate(p) \/ Reset(p)
         \/ Stop(p) \/ WakeWaiter(p)
  PROVE  SteadyRun(p)
<1> USE DEF Resume, locals, helper, history
<1>1. /\ pc \in [Pids -> Points] /\ PlaceAt(p) /\ MakesAt(p) /\ cut \subseteq Pids
      /\ \A r \in Pids : back[r] \in {"main", "kid_finish", "kid_next"}
  BY Back DEF IndInv, TypeOK, TablesOK, HistoryOK, LocalExact, LocalAt, MakesExact
<1>2. /\ UNCHANGED <<proc, helping, frees, lives, conds, aim, wid>> /\ cut \subseteq cut' /\ Runs(p)
  BY DEF CreateTask, StartTask, Continue, Restart, Terminate, Reset, Stop, WakeWaiter, Goto
<1>3. pc[p] # "argv" /\ pc'[p] # "argv" /\ \A r \in Pids : Goes(r)
  <2>1. CASE CreateTask(p)
    <3>1. PICK x \in Pids \ {p} : x = aim[p] /\ pc[x] = "none" /\ pc[p] = "filled"
      BY <1>1, <2>1 DEF CreateTask, MakesAt, CreatePoints
    <3>2. pc' = [pc EXCEPT ![x] = "unstarted", ![p] = "created"]
      BY <2>1, <3>1 DEF CreateTask
    <3>3. QED
      BY <1>1, <1>2, <3>1, <3>2 DEF Goes, Notable, Making
  <2>2. CASE StartTask(p) \/ Continue(p) \/ Restart(p)
    <3>1. \E x \in Pids, to \in {"main", "kid_finish", "kid_next"} :
            pc[p] \in {"main", "joined", "resume"}
            /\ pc' = [pc EXCEPT ![x] = IF pc[x] = "unstarted" THEN "start" ELSE @, ![p] = to]
      <4>1. CASE StartTask(p)
        <5>1. PICK x \in Pids : x = aim[p] /\ pc[p] = "joined"
          BY <1>1, <2>2, <4>1 DEF StartTask, PlaceAt, Goto
        <5>2. CASE Resume(p, x, "joined", "main")
          BY <5>1, <5>2
        <5>3. CASE Goto(p, "joined", "main")
          BY <1>1, <5>1, <5>3 DEF Goto
        <5>4. QED
          BY <4>1, <5>1, <5>2, <5>3 DEF StartTask
      <4>2. CASE Continue(p)
        BY <4>2 DEF Continue
      <4>3. CASE Restart(p)
        <5>1. PICK x \in Pids : x = aim[p] /\ pc[p] = "resume"
          BY <1>1, <4>3 DEF Restart, PlaceAt, CallPoints, StrikePoints
        <5>2. QED
          BY <1>1, <4>3, <5>1 DEF Restart
      <4>4. QED
        BY <2>2, <4>1, <4>2, <4>3
    <3>2. PICK x \in Pids, to \in {"main", "kid_finish", "kid_next"} :
            pc[p] \in {"main", "joined", "resume"}
            /\ pc' = [pc EXCEPT ![x] = IF pc[x] = "unstarted" THEN "start" ELSE @, ![p] = to]
      BY <3>1
    <3>3. \A r \in Pids : pc'[r] = IF r = p THEN to ELSE IF r = x /\ pc[r] = "unstarted" THEN "start" ELSE pc[r]
      BY <1>1, <3>2
    <3>4. \A r \in Pids : Goes(r)
      <4>1. pc[p] \in {"main", "joined", "resume"} /\ aim' = aim /\ wid' = wid
            /\ to \notin Notable
        BY <1>2, <3>2 DEF Notable, Making
      <4>2. "start" \notin Notable
        BY DEF Notable, Making
      <4>3. QED
        BY <3>3, <4>1, <4>2 DEF Goes
    <3>5. pc[p] # "argv" /\ pc'[p] # "argv"
      BY <3>2, <3>3
    <3>6. QED
      BY <3>4, <3>5
  <2>3. CASE Terminate(p) \/ Reset(p)
    <3>1. PICK x \in Pids \ {p} : x = aim[p]
      BY <2>3, Calling DEF Terminate, Reset, StrikePoints, CallPoints
    <3>2. PICK to \in {"terminated", "unstarted", pc[x]} :
            /\ pc[p] \in {"terminate", "reset"} /\ (pc[x] = "wake" => to = "wake" \/ x \in cut')
            /\ \E u \in {"reset", "resume"} : pc' = [pc EXCEPT ![x] = to, ![p] = u]
      BY <1>1, <2>3, <3>1 DEF Terminate, Reset
    <3>3. QED
      BY <1>1, <1>2, <3>1, <3>2 DEF Goes, Notable, Making
  <2>4. CASE Stop(p)
    BY <1>2, <2>4 DEF Stop, Goes
  <2>5. CASE WakeWaiter(p)
    <3>1. PICK x \in Pids : pc[x] = "wait" /\ pc' = [pc EXCEPT ![x] = back[x]] /\ pc[p] = "wake"
      BY <2>5 DEF WakeWaiter, Waiters
    <3>2. QED
      BY <1>1, <1>2, <3>1 DEF Goes, Notable, Making
  <2>6. QED
    BY <2>1, <2>2, <2>3, <2>4, <2>5
<1>4. QED
  BY <1>2, <1>3, SteadyStill

\* A step in which the running task goes somewhere and stores into one slot
LEMMA SteadyStore ==
  ASSUME IndInv, NEW p \in Pids, Runs(p), NEW q \in Pids, NEW e, proc' = [proc EXCEPT ![q] = e],
         Alike(proc[q], e), UNCHANGED <<helping, frees, lives, conds>>, cut \subseteq cut',
         NEW to, to \notin Notable, pc' = [pc EXCEPT ![p] = to], pc[p] \notin {"argv", "wake"},
         \A r \in Pids \ {p} : aim'[r] = aim[r] /\ wid'[r] = wid[r]
  PROVE  SteadyRun(p)
<1>1. pc'[p] = to /\ \A r \in Pids \ {p} : pc'[r] = pc[r]
  BY DEF IndInv, TypeOK, TablesOK
<1>2. \A r \in Pids : Goes(r)
  BY <1>1 DEF Goes
<1>3. proc[q].kill_state \in Nat /\ e.kill_state = proc[q].kill_state
  BY TableFields DEF IndInv, TypeOK, TablesOK, Alike
<1>4. e.id = proc[q].id /\ e.exit_wait = proc[q].exit_wait /\ e.kill_state >= proc[q].kill_state
  BY <1>3 DEF Alike
<1>5. pc'[p] # "argv" /\ pc[p] # "argv"
  BY <1>1 DEF Notable
<1>6. QED
  BY <1>2, <1>4, <1>5, SteadyMove

\* handle, the handlers and the entry of kill_impl
LEMMA SteadyEntries ==
  ASSUME IndInv, NEW p \in Pids,
         Handle(p) \/ Signal(p) \/ CallHandler(p) \/ KillImpl(p) \/ Try(p) \/ TakeDtor(p)
  PROVE  SteadyRun(p)
<1> USE DEF Goto, Block, locals, helper, history
<1>1. TypeOK /\ proc[p] \in SlotType
  BY States DEF IndInv
<1>2. PICK to \in {"kill_impl", "main", "handler", "try", "finished", "stages", "dtor"} :
        /\ Runs(p) /\ pc' = [pc EXCEPT ![p] = to] /\ pc[p] \notin {"argv", "wake"}
        /\ UNCHANGED <<helping, frees, lives, conds, wid>> /\ cut \subseteq cut'
        /\ aim' = aim \/ \E c : aim' = [aim EXCEPT ![p] = c]
  <2>1. CASE Handle(p) \/ Signal(p) \/ CallHandler(p)
    BY <2>1 DEF Handle, Signal, CallHandler
  <2>2. CASE KillImpl(p) \/ TakeDtor(p)
    BY <2>2 DEF KillImpl, TakeDtor, InState
  <2>3. CASE Try(p)
    BY <2>3 DEF Try
  <2>4. QED
    BY <2>1, <2>2, <2>3
<1>3. \A r \in Pids \ {p} : aim'[r] = aim[r] /\ wid'[r] = wid[r]
  BY <1>1, <1>2 DEF TypeOK, TablesOK
<1>4. to \notin Notable
  BY DEF Notable, Making
<1>5. CASE Signal(p) \/ CallHandler(p) \/ KillImpl(p) \/ Try(p) \/ TakeDtor(p)
  <2>1. \E e : proc' = [proc EXCEPT ![p] = e] /\ Plainly(proc[p], e)
    <3>1. CASE Signal(p)
      <4>1. proc' = [proc EXCEPT ![p] = [proc[p] EXCEPT !.handler = TRUE]]
        BY <3>1 DEF Signal
      <4>2. QED
        BY <1>1, <4>1, OwnStored
    <3>2. CASE CallHandler(p)
      <4>1. proc' = [proc EXCEPT ![p] = [proc[p] EXCEPT !.handler = FALSE, !.signum = "none"]]
        BY <3>2 DEF CallHandler
      <4>2. Plainly(proc[p], [proc[p] EXCEPT !.handler = FALSE, !.signum = "none"])
        BY <1>1, PairStored
      <4>3. QED
        BY <4>1, <4>2
    <3>3. CASE KillImpl(p)
      <4> DEFINE g == IF pc[p] = "kill_impl" THEN "none" ELSE proc[p].signum
      <4>1. g \in {"none", "kill_", "SIGTERM"}
        BY <1>1, SlotFields
      <4>2. proc' = [proc EXCEPT ![p] = [proc[p] EXCEPT !.terminated = 2, !.signum = g]]
        BY <3>3 DEF KillImpl
      <4> HIDE DEF g
      <4>3. Plainly(proc[p], [proc[p] EXCEPT !.terminated = 2, !.signum = g])
        BY <1>1, <4>1, PairStored
      <4>4. QED
        BY <4>2, <4>3
    <3>4. CASE Try(p)
      <4> DEFINE n == IF proc[p].kill_tryes > MaxTries THEN proc[p].kill_tryes ELSE proc[p].kill_tryes + 1
      <4>1. n \in Nat
        BY <1>1, SlotFields
      <4>2. proc' = [proc EXCEPT ![p] = [proc[p] EXCEPT !.kill_tryes = n]]
        BY <3>4 DEF Try
      <4> HIDE DEF n
      <4>3. QED
        BY <1>1, <4>1, <4>2, OwnStored
    <3>5. CASE TakeDtor(p)
      <4>1. PICK c \in proc[p].dtors : proc' = [proc EXCEPT ![p].dtors = @ \ {c}]
        BY <3>5 DEF TakeDtor
      <4> DEFINE d == proc[p].dtors \ {c}
      <4>2. d \in SUBSET Pids
        BY <1>1, SlotFields
      <4>3. proc' = [proc EXCEPT ![p] = [proc[p] EXCEPT !.dtors = d]]
        BY <4>1
      <4> HIDE DEF d
      <4>4. QED
        BY <1>1, <4>2, <4>3, OwnStored
    <3>6. QED
      BY <1>5, <3>1, <3>2, <3>3, <3>4, <3>5
  <2>2. PICK e : proc' = [proc EXCEPT ![p] = e] /\ Plainly(proc[p], e)
    BY <2>1
  <2>3. QED
    BY <1>2, <1>3, <1>4, <2>2, SteadyStore DEF Plainly
<1>6. CASE Handle(p)
  <2> DEFINE k == IF proc[p].kill_mode THEN proc[p].kids ELSE << >>
             e == [proc[p] EXCEPT !.kids = k]
  <2>1. k \in Seq(Pids)
    BY <1>1, SlotFields
  <2>2. proc' = [proc EXCEPT ![p] = e]
    BY <1>6 DEF Handle
  <2> HIDE DEF k
  <2>3. e.id = proc[p].id /\ e.kill_state = proc[p].kill_state /\ e.exit_wait = proc[p].exit_wait
    BY <1>1, <2>1, KidsStored
  <2> HIDE DEF e
  <2>4. pc'[p] = to /\ pc'[p] # "argv" /\ pc[p] # "argv" /\ \A r \in Pids : Goes(r)
    BY <1>1, <1>2, <1>3, <1>4 DEF TypeOK, TablesOK, Goes, Notable
  <2>5. e.kill_state >= proc[p].kill_state
    BY <1>1, <2>3, SlotFields
  <2>6. QED
    BY <1>2, <2>2, <2>3, <2>4, <2>5, SteadyMove
<1>7. QED
  BY <1>5, <1>6

\* The steps that raise kill_state
LEMMA SteadyStages ==
  ASSUME IndInv, NEW p \in Pids, StageDone(p) \/ StagePass(p) \/ Stage3(p) \/ KidNext(p)
  PROVE  SteadyRun(p)
<1> USE DEF Goto, Advance, InState, locals, helper, history
<1>1. /\ TypeOK /\ proc[p] \in SlotType /\ StateAt(p) /\ KidAt(p) /\ pc \in [Pids -> Points]
      /\ proc[p].kill_state \in 0..11
  BY States DEF IndInv, LocalExact, LocalAt, TypeOK, TablesOK
<1>2. PICK n \in 0..11, to \in {"stages", "kid"} :
        /\ Runs(p) /\ pc' = [pc EXCEPT ![p] = to] /\ pc[p] # "wake" /\ n >= proc[p].kill_state
        /\ pc[p] = "argv" => n >= 3
        /\ proc' = [proc EXCEPT ![p].kill_state = n]
        /\ UNCHANGED <<helping, frees, lives, conds, wid, aim, cut>>
  <2> DEFINE n == proc[p].kill_state + 1
  <2>1. CASE StageDone(p)
    <3>1. pc[p] \in {"state0", "argv", "asked"} /\ Runs(p) /\ pc' = [pc EXCEPT ![p] = "stages"]
          /\ proc' = [proc EXCEPT ![p].kill_state = n]
          /\ UNCHANGED <<helping, frees, lives, conds, wid, aim, cut>>
      BY <2>1 DEF StageDone
    <3>2. proc[p].kill_state < 11 /\ (pc[p] = "argv" => proc[p].kill_state = 2)
      BY <1>1, <3>1 DEF StateAt, InOwn
    <3>3. n \in 0..11 /\ n >= proc[p].kill_state /\ (pc[p] = "argv" => n >= 3)
      BY <1>1, <3>2
    <3> HIDE DEF n
    <3>4. QED
      BY <3>1, <3>3
  <2>2. CASE StagePass(p)
    <3>1. n \in 0..11 /\ n >= proc[p].kill_state
      BY <1>1, <2>2 DEF StagePass
    <3>2. pc[p] = "stages" /\ Runs(p) /\ pc' = [pc EXCEPT ![p] = "stages"]
          /\ proc' = [proc EXCEPT ![p].kill_state = n]
          /\ UNCHANGED <<helping, frees, lives, conds, wid, aim, cut>>
      BY <2>2 DEF StagePass
    <3> HIDE DEF n
    <3>3. QED
      BY <3>1, <3>2
  <2>3. CASE Stage3(p) \/ KidNext(p)
    <3>1. proc[p].kill_state = 3 /\ pc[p] \in {"stages", "kid_next"}
      BY <1>1, <2>3 DEF Stage3, KidNext, KidAt, InKids
    <3>2. QED
      BY <2>3, <3>1 DEF Stage3, KidNext
  <2>4. QED
    BY <2>1, <2>2, <2>3
<1> DEFINE e == [proc[p] EXCEPT !.kill_state = n]
<1>3. /\ e.id = proc[p].id /\ e.kill_state = n /\ e.exit_wait = proc[p].exit_wait
      /\ proc' = [proc EXCEPT ![p] = e]
  BY <1>1, <1>2, StateStored
<1> HIDE DEF e
<1>4. proc'[p] = e /\ pc'[p] = to /\ \A r \in Pids \ {p} : pc'[r] = pc[r]
  BY <1>1, <1>2, <1>3 DEF TypeOK, TablesOK
<1>5. \A r \in Pids : Goes(r)
  BY <1>2, <1>4 DEF Goes, Notable, Making
<1>6. pc'[p] # "argv" /\ (pc[p] = "argv" => proc'[p].kill_state >= 3) /\ cut \subseteq cut'
  BY <1>2, <1>3, <1>4
<1>7. QED
  BY <1>2, <1>3, <1>5, <1>6, SteadyMove

\* The steps that mark the slot of another process
LEMMA SteadyMarks ==
  ASSUME Setting, IndInv, NEW p \in Pids, Take(p) \/ Queue(p) \/ MarkMode(p) \/ MarkTerminated(p)
  PROVE  SteadyRun(p)
<1> USE DEF Goto, Block, locals, helper, history
<1>1. /\ pc[p] \in {"take", "queue", "mark", "marked"} /\ Runs(p)
      /\ UNCHANGED <<helping, frees, lives, conds, aim, wid>> /\ cut \subseteq cut'
  BY DEF Take, Queue, MarkMode, MarkTerminated
<1>2. PlaceAt(p) /\ TypeOK
  BY <1>1, Here
<1>3. PICK x \in Pids : x = aim[p] /\ proc[x] \in SlotType
  BY <1>1, <1>2, States DEF PlaceAt, CallPoints, StrikePoints
<1>4. PICK to \in {"state0", "mark", "locked", "marked", "terminate"} : pc' = [pc EXCEPT ![p] = to]
  BY <1>1, <1>3 DEF Take, Queue, MarkMode, MarkTerminated, Past
<1>5. \E e : proc' = [proc EXCEPT ![x] = e] /\ Alike(proc[x], e)
  <2>1. CASE Take(p) \/ Queue(p)
    <3> DEFINE c == IF proc[x].critical = "none" THEN proc[x].critical ELSE "held"
               e == [proc[x] EXCEPT !.critical = c]
    <3>1. c \in {"free", "held", "none"}
      OBVIOUS
    <3>2. proc' = [proc EXCEPT ![x] = e]
      BY <1>3, <2>1 DEF Take, Queue
    <3> HIDE DEF c
    <3>3. Alike(proc[x], e)
      BY <1>3, <3>1, MutexStored
    <3>4. QED
      BY <3>2, <3>3
  <2>2. CASE MarkMode(p)
    <3>1. proc' = [proc EXCEPT ![x] = [proc[x] EXCEPT !.kill_mode = TRUE]]
      BY <1>3, <2>2 DEF MarkMode
    <3>2. QED
      BY <1>3, <3>1, ModeStored
  <2>3. CASE MarkTerminated(p)
    <3>1. proc' = [proc EXCEPT ![x] = [proc[x] EXCEPT !.terminated = 1]]
      BY <1>3, <2>3 DEF MarkTerminated
    <3>2. QED
      BY <1>3, <3>1, OwnStored DEF Plainly
  <2>4. QED
    BY <2>1, <2>2, <2>3
<1>6. PICK e : proc' = [proc EXCEPT ![x] = e] /\ Alike(proc[x], e)
  BY <1>5
<1>7. to \notin Notable /\ \A r \in Pids \ {p} : aim'[r] = aim[r] /\ wid'[r] = wid[r]
  BY <1>1 DEF Notable, Making
<1>8. QED
  BY <1>1, <1>3, <1>4, <1>6, <1>7, SteadyStore

\* A signal is sent.
LEMMA SteadyStrike ==
  ASSUME IndInv, NEW p \in Pids, NEW x \in Pids, NEW g \in {"kill_", "SIGTERM"},
         NEW from \in {"main", "kid"}, NEW ret \in {"main", "kid_finish"},
         Strike(p, x, g, from, ret), UNCHANGED <<frees, lives>>, cut \subseteq cut'
  PROVE  SteadyRun(p)
<1> USE DEF Goto, helper
<1>1. proc \in [Pids -> SlotType] /\ aim \in [Pids -> Pids \cup {NoPid}]
  BY DEF IndInv, TypeOK, TablesOK
<1>2. PICK to \in {"lock", "main", "kid_finish"} :
        /\ pc[p] = from /\ Runs(p) /\ pc' = [pc EXCEPT ![p] = to] /\ aim' = [aim EXCEPT ![p] = x]
        /\ UNCHANGED <<wid, conds, helping>>
  BY DEF Strike
<1>3. \E e : proc' = [proc EXCEPT ![x] = e] /\ Alike(proc[x], e)
  <2>1. CASE proc[x].id
    <3>1. proc' = [proc EXCEPT ![x] = [proc[x] EXCEPT !.signum = g]]
      BY <2>1 DEF Strike
    <3>2. QED
      BY <1>1, <3>1, OwnStored DEF Plainly
  <2>2. CASE ~proc[x].id
    BY <1>1, <2>2 DEF Strike, Alike
  <2>3. QED
    BY <2>1, <2>2
<1>4. PICK e : proc' = [proc EXCEPT ![x] = e] /\ Alike(proc[x], e)
  BY <1>3
<1>5. to \notin Notable /\ \A r \in Pids \ {p} : aim'[r] = aim[r] /\ wid'[r] = wid[r]
  BY <1>1, <1>2 DEF Notable, Making
<1>6. QED
  BY <1>2, <1>4, <1>5, SteadyStore

\* A kill changes no slot but for its signal.
LEMMA SteadyKills == ASSUME Setting, IndInv, NEW p \in Pids, Kill(p) \/ KidKill(p) PROVE SteadyRun(p)
<1>1. CASE Kill(p)
  <2>1. PICK x \in Pids \ {p} : Strike(p, x, "SIGTERM", "main", "main")
    BY <1>1 DEF Kill
  <2>2. QED
    BY <1>1, <2>1, SteadyStrike DEF Kill
<1>2. CASE KidKill(p)
  <2>1. pc[p] = "kid" /\ UNCHANGED <<frees, lives, cut>>
    BY <1>2 DEF KidKill, history
  <2>2. PICK x \in Pids : x = proc[p].kids[at[p]]
    <3>1. KidAt(p) /\ proc[p].kids \in Seq(Pids)
      BY <2>1, Here
    <3>2. QED
      BY <2>1, <3>1, ElementOfSeq DEF KidAt, InKids
  <2>3. Strike(p, x, "kill_", "kid", "kid_finish")
    BY <1>2, <2>2 DEF KidKill
  <2>4. QED
    BY <2>1, <2>3, SteadyStrike
<1>3. QED
  BY <1>1, <1>2

\* The child joins the list.
LEMMA SteadyJoin == ASSUME IndInv, NEW p \in Pids, JoinParent(p) PROVE SteadyRun(p)
<1> USE DEF Goto, locals, helper, history
<1>1. /\ pc[p] = "listed" /\ Runs(p) /\ pc' = [pc EXCEPT ![p] = "joined"]
      /\ UNCHANGED <<helping, frees, lives, conds, aim, wid, cut>>
  BY DEF JoinParent
<1>2. aim[p] \in Pids /\ proc[p] \in SlotType /\ proc[p].kids \in Seq(Pids) /\ proc[p].kill_state \in 0..11
      /\ pc \in [Pids -> Points]
  BY <1>1, Here DEF MakesAt, CreatePoints, TypeOK, TablesOK
<1> DEFINE k == Append(proc[p].kids, aim[p])
           e == [proc[p] EXCEPT !.kids = k]
<1>3. k \in Seq(Pids) /\ proc' = [proc EXCEPT ![p] = e]
  BY <1>2, AppendFacts DEF JoinParent
<1> HIDE DEF k
<1>4. e.id = proc[p].id /\ e.kill_state = proc[p].kill_state /\ e.exit_wait = proc[p].exit_wait
  BY <1>2, <1>3, KidsStored
<1> HIDE DEF e
<1>5. e.kill_state >= proc[p].kill_state
  BY <1>2, <1>4
<1>6. \A r \in Pids : Goes(r)
  BY <1>1, <1>2 DEF Goes, Notable, Making
<1>7. pc'[p] # "argv" /\ pc[p] # "argv" /\ cut \subseteq cut'
  BY <1>1, <1>2
<1>8. QED
  BY <1>1, <1>3, <1>4, <1>5, <1>6, <1>7, SteadyMove

\* A mutex is destroyed.
LEMMA SteadyDtor == ASSUME Setting, IndInv, NEW p \in Pids, RunDtor(p) PROVE SteadyRun(p)
<1> USE DEF locals, helper, history
<1>1. pc[p] = "dtor" /\ Runs(p)
  BY DEF RunDtor
<1>2. PlaceAt(p) /\ TypeOK /\ pc \in [Pids -> Points]
  BY <1>1, Here DEF TypeOK, TablesOK
<1>3. PICK c \in Pids : c = aim[p] /\ proc[c] \in SlotType
  BY <1>1, <1>2, States DEF PlaceAt
<1> DEFINE e == [proc[c] EXCEPT !.critical = "none"]
<1>4. /\ proc' = [proc EXCEPT ![c] = e] /\ pc' = [WithoutMutex(c) EXCEPT ![p] = "stages"]
      /\ UNCHANGED <<helping, frees, lives, conds, aim, wid, cut>>
  BY <1>3 DEF RunDtor
<1>5. Alike(proc[c], e) /\ proc[c].kill_state \in 0..11
  BY <1>3, MutexStored, SlotFields
<1> HIDE DEF e
<1>6. /\ pc'[p] = "stages"
      /\ \A r \in Pids \ {p} : pc'[r] = IF r \in Freed(c) THEN Past(r) ELSE pc[r]
  BY <1>2, <1>4 DEF WithoutMutex
<1>7. \A r \in Pids : Goes(r)
  BY <1>1, <1>4, <1>6 DEF Goes, Notable, Making, Freed, Past
<1>8. e.id = proc[c].id /\ e.kill_state >= proc[c].kill_state /\ e.exit_wait = proc[c].exit_wait
      /\ pc'[p] # "argv" /\ pc[p] # "argv" /\ cut \subseteq cut'
  BY <1>1, <1>4, <1>5, <1>6 DEF Alike
<1>9. QED
  BY <1>1, <1>4, <1>7, <1>8, SteadyMove

\* The steps that are steady
LEMMA SteadySteps ==
  ASSUME Setting, IndInv, NEW p \in Pids,
         \/ Exit(p) \/ Sleep(p) \/ Signal(p) \/ Kill(p) \/ Stop(p) \/ Continue(p) \/ WaitForProcess(p)
         \/ Proceed(p)
             /\ ~FillSlot(p) /\ ~CreateConds(p) /\ ~Stage2(p) /\ ~WithdrawExit(p) /\ ~DestroyExit(p)
  PROVE  SteadyRun(p)
<1>1. CASE Exit(p) \/ Sleep(p) \/ WaitForProcess(p) \/ Signal(p) \/ Kill(p) \/ Stop(p) \/ Continue(p)
  BY <1>1, SteadyWalks, SteadyEntries, SteadyKills, SteadyMoves
<1>2. CASE CreateTask(p) \/ JoinParent(p) \/ StartTask(p) \/ Handle(p) \/ Wait(p)
  BY <1>2, SteadyMoves, SteadyJoin, SteadyEntries, SteadyWalks
<1>3. CASE KillAnother(p)
  BY <1>3, SteadyWalks, SteadyMarks, SteadyMoves DEF KillAnother
<1>4. CASE CallHandler(p) \/ KillImplAgain(p) \/ KillImpl(p) \/ Try(p)
  BY <1>4, SteadyEntries, SteadyWalks
<1>5. CASE Stages(p) /\ ~Stage2(p) /\ ~WithdrawExit(p) /\ ~DestroyExit(p)
  <2>1. CASE Stage0(p) \/ StagePass(p) \/ Stage3(p) \/ KidKill(p) \/ KidWait(p) \/ KidNext(p)
    BY <2>1, SteadyWalks, SteadyStages, SteadyKills
  <2>2. CASE TakeDtor(p) \/ RunDtor(p) \/ Stage8(p) \/ StageDone(p) \/ WakeWaiter(p) \/ Reschedule(p)
    BY <2>2, SteadyEntries, SteadyDtor, SteadyWalks, SteadyStages, SteadyMoves
  <2>3. QED
    BY <1>5, <2>1, <2>2 DEF Stages
<1>6. QED
  BY <1>1, <1>2, <1>3, <1>4, <1>5 DEF Proceed, Create

\* The fields of a new process: of a slot whose argv is not yet freed
LEMMA FilledOne ==
  ASSUME Setting, IndInv, NEW q \in Pids, FillSlot(q)
  PROVE  \E x \in Pids \ {q} :
           /\ Runs(q) /\ pc[q] = "new" /\ pc'[q] = "filled" /\ cut' = cut /\ aim[q] = x
           /\ \A r \in Pids \ {q} : pc'[r] = pc[r]
           /\ \A r \in Pids : Calm(r)
           /\ \A r \in Pids \ {x} : Mild(r)
           /\ frees'[x] = frees[x] /\ pc[x] = "none"
<1> USE DEF locals, helper, history
<1>1. pc[q] = "new" /\ Runs(q)
  BY DEF FillSlot, Goto
<1>2. TypeOK /\ MakesAt(q)
  BY <1>1, Here
<1>3. PICK x \in Pids \ {q} : x = aim[q] /\ pc[x] = "none"
  BY <1>1, <1>2 DEF MakesAt, CreatePoints
<1>4. /\ proc[x] \in SlotType /\ proc[q] \in SlotType /\ pc \in [Pids -> Points]
      /\ proc \in [Pids -> SlotType] /\ \A r \in Pids : proc[r].kill_state \in 0..11
  BY <1>2, States DEF TypeOK, TablesOK
<1> DEFINE e == [proc[x] EXCEPT !.critical = "free", !.ppid = q, !.kill_state = 0, !.kill_tryes = 0,
                                !.signum = "none"]
           d == [proc[q] EXCEPT !.dtors = proc[q].dtors \cup {x}]
<1>6. /\ pc' = [pc EXCEPT ![q] = "filled"]
      /\ proc' = [proc EXCEPT ![x].critical = "free", ![x].ppid = q, ![x].kill_state = 0,
                              ![x].kill_tryes = 0, ![x].signum = "none", ![q].dtors = @ \cup {x}]
      /\ UNCHANGED <<aim, wid, conds, helping, lives, frees, cut>>
  BY <1>3 DEF FillSlot, Goto
<1>7. proc' = [proc EXCEPT ![x] = e, ![q] = d]
  BY <1>4, <1>6
<1>8. e.id = proc[x].id /\ e.exit_wait = proc[x].exit_wait
  BY <1>4, SlotFilled
<1>9. Plainly(proc[q], d)
  <2>1. proc[q].dtors \cup {x} \in SUBSET Pids
    BY <1>4, SlotFields
  <2>2. \A s \in SUBSET Pids : Plainly(proc[q], [proc[q] EXCEPT !.dtors = s])
    BY <1>4, OwnStored
  <2>3. QED
    BY <2>1, <2>2
<1> HIDE DEF e, d
<1>10. /\ proc'[x] = e /\ proc'[q] = d /\ \A r \in Pids \ {q, x} : proc'[r] = proc[r]
       /\ d.id = proc[q].id /\ d.exit_wait = proc[q].exit_wait /\ d.kill_state = proc[q].kill_state
  BY <1>4, <1>7, <1>9 DEF Plainly, Alike
<1>11. pc'[q] = "filled" /\ \A r \in Pids \ {q} : pc'[r] = pc[r]
  BY <1>4, <1>6
<1>12. \A r \in Pids : proc'[r].id = proc[r].id /\ proc'[r].exit_wait = proc[r].exit_wait
  BY <1>8, <1>10
<1>13. \A r \in Pids : Calm(r)
  BY <1>1, <1>6, <1>11, <1>12 DEF Calm, Lives, Making
<1>14. ASSUME NEW r \in Pids \ {x} PROVE Mild(r)
  <2>1. proc'[r].kill_state = proc[r].kill_state
    BY <1>10
  <2>2. proc'[r].kill_state >= proc[r].kill_state
    BY <1>4, <2>1
  <2>3. QED
    BY <1>1, <1>6, <1>11, <1>12, <2>2 DEF Mild, Lives
<1>15. QED
  BY <1>1, <1>3, <1>6, <1>11, <1>13, <1>14

\* A new process: argv of this one has not been freed.
LEMMA NewOne ==
  ASSUME Setting, IndInv, NEW q \in Pids, NewProcess(q)
  PROVE  \E x \in Pids \ {q} :
           /\ Runs(q) /\ pc[q] = "main" /\ pc'[q] = "new" /\ aim'[q] = x /\ cut' = cut /\ conds' = conds
           /\ \A r \in Pids \ {q} : pc'[r] = pc[r] /\ aim'[r] = aim[r]
           /\ \A r \in Pids \ {x, q} : Calm(r) /\ Mild(r)
           /\ proc'[q] = proc[q] /\ frees'[q] = frees[q] /\ Lives(q)' = Lives(q) /\ lives'[q] = lives[q]
           /\ wid' = wid /\ frees'[x] = 0 /\ ~Lives(x) /\ pc[x] = "none"
           /\ proc'[x].exit_wait = 0 /\ lives'[x] # 0
           /\ \A r \in Pids \ {x} : proc'[r].exit_wait = proc[r].exit_wait
<1> DEFINE n == Max(Range(lives)) + 1
<1>1. pc[q] = "main" /\ Runs(q)
  BY DEF NewProcess, Goto
<1>2. TypeOK /\ Lives(q)
  BY <1>1, Here
<1>3. PICK x \in Pids :
        /\ ~proc[x].id
        /\ aim' = [aim EXCEPT ![q] = x]
        /\ proc' = [proc EXCEPT ![x].id = TRUE, ![x].kill_mode = FALSE, ![x].terminated = 0,
                                ![x].ppid = NoPid, ![x].exit_wait = 0]
        /\ lives' = [lives EXCEPT ![x] = n]
        /\ frees' = [frees EXCEPT ![x] = 0]
  BY DEF NewProcess
<1>4. n \in Nat /\ n # 0
  <2>1. n \in Nat /\ \A p \in Pids : lives[p] \in Nat /\ lives[p] < n
    BY <1>2, LivesBound DEF NewProcess
  <2> HIDE DEF n
  <2>2. QED
    BY <2>1
<1> HIDE DEF n
<1>5. pc' = [pc EXCEPT ![q] = "new"] /\ UNCHANGED <<wid, conds, helping, cut>>
  BY DEF NewProcess, Goto
<1>6. x # q /\ ~Lives(x) /\ pc[x] = "none"
  <2>1. LocalAt(x)
    BY DEF IndInv, LocalExact
  <2>2. x # q /\ ~Lives(x)
    BY <1>2, <1>3 DEF Lives
  <2>3. QED
    BY <2>1, <2>2 DEF LocalAt, PlaceAt
<1>7. /\ pc \in [Pids -> Points] /\ proc \in [Pids -> SlotType]
      /\ proc[x] \in SlotType /\ aim \in [Pids -> Pids \cup {NoPid}]
      /\ lives \in [Pids -> Nat] /\ frees \in [Pids -> Nat] /\ \A r \in Pids : proc[r].kill_state \in 0..11
  BY <1>2, States DEF TypeOK, TablesOK, HistoryOK
<1> DEFINE e == [proc[x] EXCEPT !.id = TRUE, !.kill_mode = FALSE, !.terminated = 0,
                                !.ppid = NoPid, !.exit_wait = 0]
<1>8. proc' = [proc EXCEPT ![x] = e]
  BY <1>3, <1>7
<1>9. e.exit_wait = 0
  BY <1>7, SlotTaken
<1> HIDE DEF e
<1>10. proc'[x] = e /\ \A r \in Pids \ {x} : proc'[r] = proc[r]
  BY <1>7, <1>8
<1>11. /\ pc'[q] = "new" /\ \A r \in Pids \ {q} : pc'[r] = pc[r]
       /\ aim'[q] = x /\ \A r \in Pids \ {q} : aim'[r] = aim[r]
  BY <1>3, <1>5, <1>7
<1>12. /\ frees'[x] = 0 /\ lives'[x] = n
       /\ \A r \in Pids \ {x} : frees'[r] = frees[r] /\ lives'[r] = lives[r]
  BY <1>3, <1>7
<1>13. ASSUME NEW r \in Pids \ {x} PROVE Lives(r)' = Lives(r) /\ proc'[r].kill_state >= proc[r].kill_state
  <2>1. proc'[r] = proc[r] /\ helping' = helping /\ proc[r].kill_state \in 0..11
    BY <1>5, <1>7, <1>10
  <2>2. QED
    BY <2>1 DEF Lives
<1>14. ASSUME NEW r \in Pids \ {x, q} PROVE Calm(r) /\ Mild(r)
  BY <1>5, <1>10, <1>11, <1>12, <1>13 DEF Calm, Mild
<1>15. QED
  <2>1. /\ \A r \in Pids \ {q} : pc'[r] = pc[r] /\ aim'[r] = aim[r]
        /\ Lives(q)' = Lives(q) /\ proc'[q] = proc[q] /\ frees'[q] = frees[q] /\ lives'[q] = lives[q]
    BY <1>6, <1>10, <1>11, <1>12, <1>13
  <2>2. /\ proc'[x].exit_wait = 0 /\ lives'[x] # 0 /\ frees'[x] = 0
        /\ \A r \in Pids \ {x} : proc'[r].exit_wait = proc[r].exit_wait
    BY <1>4, <1>9, <1>10, <1>12
  <2>3. Runs(q) /\ pc[q] = "main" /\ pc'[q] = "new" /\ aim'[q] = x /\ cut' = cut /\ conds' = conds /\ wid' = wid
    BY <1>1, <1>5, <1>11
  <2>4. x \in Pids \ {q}
    BY <1>6
  <2>5. QED
    BY <1>6, <1>14, <2>1, <2>2, <2>3, <2>4

\* The exit condition of a new process
LEMMA ListedOne ==
  ASSUME Setting, IndInv, NEW q \in Pids, CreateConds(q)
  PROVE  \E x \in Pids \ {q} :
           /\ Runs(q) /\ pc[q] = "created" /\ pc'[q] = "listed" /\ aim[q] = x /\ pc'[x] = pc[x] /\ cut' = cut /\ Lives(x)' = Lives(x)
           /\ \A r \in Pids : Mild(r) /\ (r # q => pc'[r] = pc[r])
           /\ \A r \in Pids \ {x} : Calm(r) /\ proc'[r].exit_wait = proc[r].exit_wait
           /\ conds'[x] = conds[x] \cup {lives[x]} /\ proc'[x].exit_wait = lives[x]
           /\ lives' = lives /\ Lives(x) /\ aim' = aim
           /\ x \notin cut => pc[x] \in {"none", "unstarted", "start", "terminated"}
<1> USE DEF locals, helper, history
<1>1. pc[q] = "created" /\ Runs(q)
  BY DEF CreateConds, Goto
<1>2. TypeOK /\ MakesAt(q)
  BY <1>1, Here
<1>3. PICK x \in Pids \ {q} :
        /\ x = aim[q] /\ Lives(x) /\ \A r \in Pids \ {q} : pc[r] \in CreatePoints => aim[r] # x
        /\ x \notin cut => pc[x] \in {"none", "unstarted", "start", "terminated"}
  BY <1>1, <1>2 DEF MakesAt, CreatePoints
<1>4. /\ proc[x] \in SlotType /\ lives[x] \in Nat /\ pc \in [Pids -> Points]
      /\ proc \in [Pids -> SlotType] /\ conds \in [Pids -> SUBSET Nat]
      /\ \A r \in Pids : proc[r].kill_state \in 0..11
  BY <1>2, States DEF TypeOK, TablesOK, HistoryOK
<1> DEFINE e == [proc[x] EXCEPT !.dtors = {}, !.handler = FALSE, !.exit_wait = lives[x]]
<1>6. /\ pc' = [pc EXCEPT ![q] = "listed"]
      /\ proc' = [proc EXCEPT ![x] = e] /\ conds' = [conds EXCEPT ![x] = @ \cup {lives[x]}]
      /\ UNCHANGED <<aim, wid, helping, lives, frees, cut>>
  BY <1>3 DEF CreateConds, Goto
<1>7. e.exit_wait = lives[x] /\ e.id = proc[x].id /\ e.kill_state = proc[x].kill_state
  BY <1>4, SlotListed
<1> HIDE DEF e
<1>8. /\ pc'[q] = "listed" /\ \A r \in Pids \ {q} : pc'[r] = pc[r]
      /\ proc'[x] = e /\ conds'[x] = conds[x] \cup {lives[x]}
      /\ \A r \in Pids \ {x} : proc'[r] = proc[r] /\ conds'[r] = conds[r]
  BY <1>4, <1>6
<1>9. ASSUME NEW r \in Pids PROVE Mild(r) /\ Lives(r)' = Lives(r)
  <2>1. proc'[r].id = proc[r].id /\ proc'[r].kill_state = proc[r].kill_state
    BY <1>7, <1>8
  <2>2. proc'[r].kill_state >= proc[r].kill_state
    BY <1>4, <2>1
  <2>3. QED
    BY <1>1, <1>6, <1>8, <2>1, <2>2 DEF Mild, Lives
<1>10. ASSUME NEW r \in Pids \ {x} PROVE Calm(r) /\ proc'[r].exit_wait = proc[r].exit_wait
  BY <1>1, <1>6, <1>8, <1>9 DEF Calm, Making
<1>11. QED
  BY <1>1, <1>3, <1>6, <1>7, <1>8, <1>9, <1>10

\* The exit condition is withdrawn, and later destroyed.
LEMMA WithdrawnOne ==
  ASSUME IndInv, NEW p \in Pids, WithdrawExit(p)
  PROVE  /\ Runs(p) /\ pc[p] = "stages" /\ pc'[p] = "wake" /\ cut' = cut /\ wid'[p] = proc[p].exit_wait
         /\ proc'[p].exit_wait = 0 /\ conds' = conds /\ lives' = lives
         /\ \A r \in Pids : Mild(r)
         /\ \A r \in Pids \ {p} : Calm(r) /\ pc'[r] = pc[r]
<1> USE DEF Goto, InState, locals, helper, history
<1> DEFINE e == [proc[p] EXCEPT !.exit_wait = 0]
<1>1. /\ Runs(p) /\ pc[p] = "stages" /\ pc' = [pc EXCEPT ![p] = "wake"]
      /\ wid' = [wid EXCEPT ![p] = proc[p].exit_wait]
      /\ proc' = [proc EXCEPT ![p] = e] /\ UNCHANGED <<conds, aim, helping, lives, frees, cut>>
  BY DEF WithdrawExit
<1>2. /\ proc[p] \in SlotType /\ pc \in [Pids -> Points] /\ wid \in [Pids -> Nat]
      /\ proc \in [Pids -> SlotType] /\ \A r \in Pids : proc[r].kill_state \in 0..11
  BY States DEF IndInv, TypeOK, TablesOK
<1>3. e.exit_wait = 0 /\ e.id = proc[p].id /\ e.kill_state = proc[p].kill_state
  BY <1>2, ExitStored
<1> HIDE DEF e
<1>4. /\ pc'[p] = "wake" /\ proc'[p] = e /\ wid'[p] = proc[p].exit_wait
      /\ \A r \in Pids \ {p} : pc'[r] = pc[r] /\ proc'[r] = proc[r] /\ wid'[r] = wid[r]
  BY <1>1, <1>2
<1>5. ASSUME NEW r \in Pids PROVE Mild(r) /\ Lives(r)' = Lives(r)
  <2>1. proc'[r].id = proc[r].id /\ proc'[r].kill_state = proc[r].kill_state
    BY <1>3, <1>4
  <2>2. proc'[r].kill_state >= proc[r].kill_state
    BY <1>2, <2>1
  <2>3. QED
    BY <1>1, <1>4, <2>1, <2>2 DEF Mild, Lives
<1>6. \A r \in Pids \ {p} : Calm(r)
  BY <1>1, <1>4, <1>5 DEF Calm
<1>7. QED
  BY <1>1, <1>3, <1>4, <1>5, <1>6

\* The destruction of an exit condition changes that of its process alone.
LEMMA DestroyedOne ==
  ASSUME IndInv, NEW p \in Pids, DestroyExit(p)
  PROVE  /\ Runs(p) /\ pc[p] = "wake" /\ pc'[p] = "resched" /\ cut' = cut
         /\ proc' = proc /\ conds'[p] = conds[p] \ {wid[p]} /\ lives' = lives
         /\ \A r \in Pids : Mild(r)
         /\ \A r \in Pids \ {p} : Calm(r) /\ pc'[r] = pc[r]
<1> USE DEF Goto, locals, helper, history
<1>1. /\ Runs(p) /\ pc[p] = "wake" /\ pc' = [pc EXCEPT ![p] = "resched"]
      /\ conds' = [conds EXCEPT ![p] = @ \ {wid[p]}]
      /\ UNCHANGED <<proc, aim, wid, helping, lives, frees, cut>>
  BY DEF DestroyExit
<1>2. /\ pc \in [Pids -> Points] /\ conds \in [Pids -> SUBSET Nat]
      /\ \A r \in Pids : proc[r].kill_state \in 0..11
  BY States DEF IndInv, TypeOK, TablesOK
<1>3. /\ pc'[p] = "resched" /\ conds'[p] = conds[p] \ {wid[p]}
      /\ \A r \in Pids \ {p} : pc'[r] = pc[r] /\ conds'[r] = conds[r]
  BY <1>1, <1>2
<1>4. ASSUME NEW r \in Pids PROVE Mild(r) /\ Lives(r)' = Lives(r)
  <2>1. proc'[r].kill_state >= proc[r].kill_state
    BY <1>1, <1>2
  <2>2. QED
    BY <1>1, <1>3, <2>1 DEF Mild, Lives
<1>5. \A r \in Pids \ {p} : Calm(r)
  BY <1>1, <1>3, <1>4 DEF Calm
<1>6. QED
  BY <1>1, <1>3, <1>4, <1>5

\* argv is freed in state 2, by a step that does not leave the processor.
LEMMA FreedOne ==
  ASSUME IndInv, NEW p \in Pids, Stage2(p)
  PROVE  /\ Runs(p) /\ pc[p] = "stages" /\ proc[p].kill_state = 2 /\ Lives(p) /\ cut' = cut
         /\ frees'[p] = frees[p] + 1 /\ pc'[p] = "argv" /\ cpu' = Occupy(p, cpu)
         /\ proc' = proc /\ aim' = aim
         /\ \A r \in Pids : Calm(r)
         /\ \A r \in Pids \ {p} : Mild(r) /\ pc'[r] = pc[r]
<1>1. /\ Runs(p) /\ pc[p] = "stages" /\ proc[p].kill_state = 2
      /\ frees' = [frees EXCEPT ![p] = frees[p] + 1] /\ pc' = [pc EXCEPT ![p] = "argv"]
      /\ cpu' = Occupy(p, cpu) /\ UNCHANGED <<proc, aim, wid, conds, helping, lives, cut>>
  BY DEF Stage2, InState, Goto, locals, helper
<1>2. /\ frees \in [Pids -> Nat] /\ pc \in [Pids -> Points]
      /\ \A r \in Pids : proc[r].kill_state \in 0..11
  BY States DEF IndInv, TypeOK, TablesOK, HistoryOK
<1>3. Lives(p) /\ \A r \in Pids : Lives(r)' = Lives(r) /\ proc'[r].kill_state >= proc[r].kill_state
  <2>1. Lives(p)
    BY <1>1, Here
  <2>2. \A r \in Pids : proc'[r].kill_state >= proc[r].kill_state
    BY <1>1, <1>2
  <2>3. QED
    BY <1>1, <2>1, <2>2 DEF Lives
<1>4. /\ pc'[p] = "argv" /\ frees'[p] = frees[p] + 1
      /\ \A r \in Pids \ {p} : pc'[r] = pc[r] /\ frees'[r] = frees[r]
  BY <1>1, <1>2
<1>5. \A r \in Pids : Calm(r)
  BY <1>1, <1>3, <1>4 DEF Calm, Making
<1>6. \A r \in Pids \ {p} : Mild(r)
  BY <1>1, <1>3, <1>4 DEF Mild
<1>7. QED
  <2>1. cut' = cut /\ aim' = aim /\ proc' = proc /\ cpu' = Occupy(p, cpu) /\ proc[p].kill_state = 2
    BY <1>1
  <2>2. Runs(p) /\ pc[p] = "stages" /\ Lives(p) /\ pc'[p] = "argv" /\ frees'[p] = frees[p] + 1
    BY <1>1, <1>3, <1>4
  <2>3. \A r \in Pids \ {p} : Mild(r) /\ pc'[r] = pc[r]
    BY <1>4, <1>6
  <2>4. QED
    BY <1>5, <2>1, <2>2, <2>3

\* A stutter, a timer's expiry and the helper's other steps leave every
\* process as it was.
LEMMA StillOne ==
  ASSUME Setting, IndInv,
         UNCHANGED vars \/ FreeSlot \/ DropRequest \/ \E p \in Pids : WakeUp(p) \/ StrayReturns(p)
  PROVE  /\ (\A r \in Pids : Steady(r) /\ (pc'[r] = "argv" <=> pc[r] = "argv")) /\ cut' = cut
         /\ cpu' = cpu \/ (Runs(Helper) /\ cpu' = GiveUp(Helper, cpu))
<1> USE DEF locals, helper, history
<1>1. /\ TypeOK /\ \A r \in Pids : proc[r].kill_state \in 0..11 /\ back[r] \in {"main", "kid_finish", "kid_next"}
      /\ pc \in [Pids -> Points] /\ proc \in [Pids -> SlotType]
  BY States, Back DEF IndInv, TypeOK, TablesOK
<1>2. CASE UNCHANGED vars \/ DropRequest \/ \E p \in Pids : WakeUp(p)
  <2>1. UNCHANGED <<proc, helping, lives, frees, pc, cut, conds, aim, wid>>
        /\ (cpu' = cpu \/ (Runs(Helper) /\ cpu' = GiveUp(Helper, cpu)))
    BY <1>2 DEF vars, WakeUp, DropRequest, Done
  <2>2. \A r \in Pids : proc'[r].kill_state >= proc[r].kill_state
    BY <1>1, <2>1
  <2>3. QED
    BY <2>1, <2>2 DEF Steady, Mild, Calm, Lives
<1>3. ASSUME NEW p \in Pids, StrayReturns(p) PROVE (\A r \in Pids : Steady(r) /\ (pc'[r] = "argv" <=> pc[r] = "argv"))
  <2>1. /\ UNCHANGED <<proc, helping, lives, frees, cut, conds, aim, wid>> /\ pc[p] = "astray"
        /\ pc' = [pc EXCEPT ![p] = back[p]]
    BY <1>3 DEF StrayReturns
  <2>2. \A r \in Pids : proc'[r].kill_state >= proc[r].kill_state
    BY <1>1, <2>1
  <2>3. pc'[p] \in {"main", "kid_finish", "kid_next"} /\ \A r \in Pids \ {p} : pc'[r] = pc[r]
    BY <1>1, <2>1
  <2>4. QED
    BY <2>1, <2>2, <2>3 DEF Steady, Mild, Calm, Lives, Making
<1>4. CASE FreeSlot
  <2>1. /\ UNCHANGED <<pc, lives, frees, cut, conds, aim, wid>> /\ helping \in Pids /\ helping' = NoPid
        /\ NoPid \notin Pids
        /\ Runs(Helper) /\ cpu' = GiveUp(Helper, cpu) /\ proc' = [proc EXCEPT ![helping].id = FALSE]
    BY <1>1, <1>4, Constants DEF FreeSlot, Done, TypeOK, KernelOK, Setting
  <2>2. PICK h \in Pids : h = helping
    BY <2>1
  <2> DEFINE e == [proc[h] EXCEPT !.id = FALSE]
  <2>3. e.id = FALSE /\ e.kill_state = proc[h].kill_state /\ e.exit_wait = proc[h].exit_wait
    BY <1>1, IdStored
  <2>4. proc' = [proc EXCEPT ![h] = e]
    BY <2>1, <2>2
  <2> HIDE DEF e
  <2>5. proc'[h] = e /\ \A r \in Pids \ {h} : proc'[r] = proc[r]
    BY <1>1, <2>4
  <2>6. ASSUME NEW r \in Pids PROVE Steady(r)
    <3>1. proc'[r].kill_state = proc[r].kill_state /\ proc'[r].exit_wait = proc[r].exit_wait
          /\ (r # h => proc'[r].id = proc[r].id) /\ (r = h => ~proc'[r].id)
      BY <2>3, <2>5
    <3>2. proc'[r].kill_state >= proc[r].kill_state
      BY <1>1, <3>1
    <3>3. Lives(r)' = Lives(r)
      BY <2>1, <2>2, <3>1 DEF Lives
    <3>4. QED
      BY <2>1, <3>1, <3>2, <3>3 DEF Steady, Mild, Calm
  <2>7. QED
    BY <2>1, <2>6
<1>5. QED
  BY <1>2, <1>3, <1>4 DEF StrayReturns

\* kill_process deletes a process.
LEMMA DeletedOne ==
  ASSUME Setting, IndInv, DeleteTask
  PROVE  \E p \in Pids :
           /\ requests # << >> /\ p = Head(requests).pid /\ Lives(p) /\ ~Lives(p)' /\ Runs(Helper)
           /\ cpu' = Occupy(Helper, Evict(p, cpu)) /\ pc'[p] = "none" /\ cut \subseteq cut'
           /\ p \notin cut' => /\ Head(requests).life = lives[p] /\ p \notin stopped
                               /\ pc[p] \notin {"handled", "finished", "terminated", "unstarted"}
           /\ conds' = conds /\ frees' = frees /\ lives' = lives /\ aim' = aim
           /\ \A r \in Pids : proc'[r].exit_wait = proc[r].exit_wait
           /\ \A r \in Pids \ {p} : Steady(r) /\ (pc'[r] = "argv" <=> pc[r] = "argv")
<1> USE DEF locals, helper, history
<1>1. requests # << >> /\ helping = NoPid /\ TypeOK /\ requests \in Seq(RequestType) /\ Runs(Helper)
  BY DEF DeleteTask, IndInv, TypeOK, KernelOK
<1>2. PICK p \in Pids : p = Head(requests).pid
  <2>1. Head(requests) \in RequestType
    BY <1>1, TailFacts
  <2>2. QED
    BY <2>1 DEF RequestType
<1>3. /\ proc[p].id /\ helping' = p /\ pc' = [WithoutMutex(p) EXCEPT ![p] = "none"]
      /\ cpu' = Occupy(Helper, Evict(p, cpu)) /\ UNCHANGED <<aim, wid, conds, lives, frees>>
      /\ cut \subseteq cut'
      /\ p \notin cut' => /\ Head(requests).life = lives[p] /\ p \notin stopped
                          /\ pc[p] \notin {"handled", "finished", "terminated", "unstarted"}
  BY <1>2 DEF DeleteTask
<1>4. proc' = [q \in Pids |->
                 IF q = p THEN [proc[q] EXCEPT !.critical = "none"]
                 ELSE IF q = proc[p].ppid /\ proc[p].critical # "none"
                      THEN [proc[q] EXCEPT !.dtors = @ \ {p}]
                 ELSE proc[q]]
  BY <1>2 DEF DeleteTask
<1>5. /\ proc \in [Pids -> SlotType] /\ pc \in [Pids -> Points] /\ NoPid \notin Pids
      /\ \A r \in Pids : proc[r] \in SlotType /\ proc[r].kill_state \in 0..11
  BY <1>1, States, Constants DEF Setting, TypeOK, TablesOK
<1>6. \A r \in Pids : Alike(proc[r], proc'[r])
  <2>1. \A r \in Pids : proc[r].dtors \ {p} \in SUBSET Pids
    BY <1>5, SlotFields
  <2>2. \A s \in SlotType : Alike(s, [s EXCEPT !.critical = "none"])
    BY MutexStored
  <2>3. \A s \in SlotType, d \in SUBSET Pids : Alike(s, [s EXCEPT !.dtors = d])
    BY OwnStored DEF Plainly
  <2>4. ASSUME NEW r \in Pids PROVE Alike(proc[r], proc'[r])
    <3>1. \/ proc'[r] = proc[r]
          \/ proc'[r] = [proc[r] EXCEPT !.dtors = proc[r].dtors \ {p}]
          \/ proc'[r] = [proc[r] EXCEPT !.critical = "none"]
      BY <1>4
    <3>2. CASE proc'[r] = proc[r]
      BY <3>2 DEF Alike
    <3>3. CASE proc'[r] = [proc[r] EXCEPT !.dtors = proc[r].dtors \ {p}]
      <4>1. proc[r] \in SlotType /\ proc[r].dtors \ {p} \in SUBSET Pids
        BY <1>5, <2>1
      <4>2. QED
        BY <2>3, <3>3, <4>1
    <3>4. CASE proc'[r] = [proc[r] EXCEPT !.critical = "none"]
      BY <1>5, <2>2, <3>4
    <3>5. QED
      BY <3>1, <3>2, <3>3, <3>4
  <2>5. QED
    BY <2>4
<1>7. /\ pc'[p] = "none"
      /\ \A r \in Pids \ {p} : pc'[r] = IF r \in Freed(p) THEN Past(r) ELSE pc[r]
  BY <1>3, <1>5 DEF WithoutMutex
<1>8. Lives(p) /\ ~Lives(p)' /\ \A r \in Pids \ {p} : Lives(r)' = Lives(r)
  BY <1>1, <1>3, <1>5, <1>6 DEF Lives, Alike
<1>9. ASSUME NEW r \in Pids \ {p} PROVE Steady(r) /\ (pc'[r] = "argv" <=> pc[r] = "argv")
  <2>1. proc'[r].kill_state = proc[r].kill_state /\ proc'[r].exit_wait = proc[r].exit_wait
    BY <1>6 DEF Alike
  <2>2. proc'[r].kill_state >= proc[r].kill_state
    BY <1>5, <2>1
  <2>3. pc'[r] \in {pc[r], "state0", "mark"} /\ (pc'[r] # pc[r] => pc[r] = "locked")
    BY <1>7 DEF Freed, Past
  <2>4. /\ frees'[r] = frees[r] /\ lives'[r] = lives[r] /\ conds'[r] = conds[r]
        /\ aim'[r] = aim[r] /\ wid'[r] = wid[r] /\ Lives(r)' = Lives(r)
    BY <1>3, <1>8
  <2>5. Mild(r)
    BY <2>2, <2>3, <2>4 DEF Mild
  <2>6. Calm(r)
    BY <2>1, <2>3, <2>4 DEF Calm, Making
  <2>7. QED
    BY <2>3, <2>5, <2>6 DEF Steady
<1>10. \A r \in Pids : proc'[r].exit_wait = proc[r].exit_wait
  BY <1>6 DEF Alike
<1>11. QED
  BY <1>1, <1>2, <1>3, <1>7, <1>8, <1>9, <1>10

\* The kinds of steps
LEMMA Kinds ==
  ASSUME Setting, IndInv, [Next]_vars
  PROVE  \/ UNCHANGED vars \/ FreeSlot \/ DropRequest \/ \E p \in Pids : WakeUp(p) \/ StrayReturns(p)
         \/ \E p \in Pids : SteadyRun(p)
         \/ \E p \in Pids : NewProcess(p) \/ FillSlot(p) \/ CreateConds(p)
         \/ \E p \in Pids : Stage2(p) \/ WithdrawExit(p) \/ DestroyExit(p)
         \/ DeleteTask
BY SteadySteps DEF Next, HelperRuns

\* A step that leaves the conditions of a process as they are
LEMMA CalmKeeps ==
  ASSUME NEW r \in Pids, CondsAt(r), MakesAt(r), Calm(r), cut \subseteq cut',
         pc[r] \in Making => proc'[aim[r]].exit_wait \in {0, proc[aim[r]].exit_wait}
  PROVE  CondsAt(r)'
<1>1. r \notin cut' => conds'[r] \subseteq IF pc'[r] = "wake" THEN {wid'[r]} ELSE {proc'[r].exit_wait} \ {0}
  BY DEF CondsAt, Calm
<1>2. (r \notin cut' /\ ~Lives(r)' => conds'[r] = {}) /\ (Lives(r)' => lives'[r] # 0)
  BY DEF CondsAt, Calm
<1>3. pc'[r] \in Making /\ aim'[r] \notin cut' => proc'[aim'[r]].exit_wait = 0
  BY DEF CondsAt, Calm, Making
<1>4. QED
  BY <1>1, <1>2, <1>3 DEF CondsAt, Making

\* A helper less urgent than the processes runs when no process does: the one
\* it deletes, unless counted in cut, has ended its death and woken everybody.
LEMMA CondsPreserved ==
  ASSUME Setting, LazyHelp, IndInv, CondsExact, [Next]_vars PROVE CondsExact'
<1> SUFFICES ASSUME NEW r \in Pids PROVE CondsAt(r)'
  BY DEF CondsExact
<1>1. /\ CondsAt(r) /\ MakesAt(r) /\ PlaceAt(r) /\ StateAt(r) /\ KidAt(r) /\ pc[r] \in Points
      /\ pc[r] \in Making => aim[r] \in Pids /\ Lives(aim[r])
  BY DEF CondsExact, IndInv, MakesExact, LocalExact, LocalAt, TypeOK, TablesOK, MakesAt, CreatePoints, Making
<1>2. CASE UNCHANGED vars \/ FreeSlot \/ DropRequest \/ \E p \in Pids : WakeUp(p) \/ StrayReturns(p)
  BY <1>1, <1>2, StillOne, CalmKeeps DEF Steady, Calm
<1>3. ASSUME NEW p \in Pids, SteadyRun(p) PROVE CondsAt(r)'
  BY <1>1, <1>3, CalmKeeps DEF SteadyRun, Steady, Calm
<1>4. ASSUME NEW q \in Pids, NewProcess(q) PROVE CondsAt(r)'
  <2>1. PICK x \in Pids \ {q} :
          /\ pc[q] = "main" /\ pc'[q] = "new" /\ aim'[q] = x /\ cut' = cut /\ conds' = conds
          /\ \A u \in Pids \ {q} : pc'[u] = pc[u] /\ aim'[u] = aim[u]
          /\ \A u \in Pids \ {x, q} : Calm(u)
          /\ proc'[q] = proc[q] /\ Lives(q)' = Lives(q) /\ lives'[q] = lives[q]
          /\ ~Lives(x) /\ pc[x] = "none" /\ proc'[x].exit_wait = 0 /\ lives'[x] # 0
          /\ \A u \in Pids \ {x} : proc'[u].exit_wait = proc[u].exit_wait
    BY <1>4, NewOne
  <2>2. CASE r = q
    BY <1>1, <2>1, <2>2 DEF CondsAt
  <2>3. CASE r = x
    BY <1>1, <2>1, <2>3 DEF CondsAt
  <2>4. CASE r \notin {x, q}
    <3>1. pc[r] \in Making => proc'[aim[r]].exit_wait = proc[aim[r]].exit_wait
      BY <1>1, <2>1
    <3>2. Calm(r) /\ cut \subseteq cut'
      BY <2>1, <2>4
    <3>3. QED
      BY <1>1, <3>1, <3>2, CalmKeeps
  <2>5. QED
    BY <2>2, <2>3, <2>4
<1>5. ASSUME NEW q \in Pids, FillSlot(q) PROVE CondsAt(r)'
  BY <1>1, <1>5, FilledOne, CalmKeeps DEF Calm
<1>6. ASSUME NEW q \in Pids, CreateConds(q) PROVE CondsAt(r)'
  <2>1. PICK x \in Pids \ {q} :
          /\ pc[q] = "created" /\ pc'[q] = "listed" /\ aim[q] = x /\ pc'[x] = pc[x] /\ cut' = cut
          /\ Lives(x)' = Lives(x)
          /\ \A u \in Pids \ {x} : Calm(u) /\ proc'[u].exit_wait = proc[u].exit_wait
          /\ conds'[x] = conds[x] \cup {lives[x]} /\ proc'[x].exit_wait = lives[x]
          /\ lives' = lives /\ Lives(x) /\ aim' = aim
          /\ x \notin cut => pc[x] \in {"none", "unstarted", "start", "terminated"}
    BY <1>6, ListedOne
  <2>2. CASE r # x
    <3>1. pc[r] \in Making /\ pc'[r] \in Making => aim[r] # x
      <4>1. CASE r = q
        BY <2>1, <4>1 DEF Making
      <4>2. CASE r # q
        BY <1>1, <2>1, <4>2 DEF MakesAt, Making, CreatePoints
      <4>3. QED
        BY <4>1, <4>2
    <3>2. Calm(r) /\ cut \subseteq cut'
      BY <2>1, <2>2
    <3>3. CASE pc'[r] \in Making
      <4>1. pc[r] \in Making
        BY <3>2, <3>3 DEF Calm
      <4>2. proc'[aim[r]].exit_wait = proc[aim[r]].exit_wait
        BY <1>1, <2>1, <3>1, <3>3, <4>1
      <4>3. QED
        BY <1>1, <3>2, <4>2, CalmKeeps
    <3>4. CASE pc'[r] \notin Making
      BY <1>1, <3>2, <3>4 DEF CondsAt, Calm, Making
    <3>5. QED
      BY <3>3, <3>4
  <2>3. CASE r = x
    <3>1. lives[x] # 0 /\ (pc[x] \in Making => x \in cut)
      BY <1>1, <2>1, <2>3 DEF CondsAt, Making
    <3>2. ASSUME x \notin cut PROVE conds'[x] = {lives[x]} /\ pc'[x] \notin {"wake", "new", "filled", "created"}
      <4>1. CondsAt(q)
        BY DEF CondsExact
      <4>2. proc[x].exit_wait = 0 /\ pc[x] # "wake"
        BY <2>1, <3>2, <4>1 DEF CondsAt
      <4>3. conds[x] = {}
        BY <1>1, <2>3, <3>2, <4>2 DEF CondsAt
      <4>4. QED
        BY <2>1, <3>2, <4>3
    <3>3. pc'[x] \in Making /\ aim'[x] \notin cut' => proc'[aim'[x]].exit_wait = 0
      <4>1. ASSUME pc[x] \in Making PROVE aim[x] # x
        BY <1>1, <2>3, <4>1 DEF MakesAt, Making, CreatePoints
      <4>2. QED
        BY <1>1, <2>1, <2>3, <4>1 DEF CondsAt, Making
    <3>4. QED
      BY <2>1, <2>3, <3>1, <3>2, <3>3 DEF CondsAt, Making
  <2>4. QED
    BY <2>2, <2>3
<1>7. ASSUME NEW q \in Pids, Stage2(q) PROVE CondsAt(r)'
  BY <1>1, <1>7, FreedOne, CalmKeeps DEF Calm
<1>8. ASSUME NEW p \in Pids, WithdrawExit(p) PROVE CondsAt(r)'
  <2>1. /\ pc[p] = "stages" /\ pc'[p] = "wake" /\ cut' = cut /\ wid'[p] = proc[p].exit_wait
        /\ proc'[p].exit_wait = 0 /\ conds' = conds /\ lives' = lives
        /\ Mild(p) /\ \A u \in Pids \ {p} : Calm(u)
    BY <1>8, WithdrawnOne
  <2>2. CASE r = p
    <3>1. conds[r] \subseteq {wid'[p]} \/ r \in cut
      BY <1>1, <2>1, <2>2 DEF CondsAt
    <3>2. Lives(r)
      BY <1>1, <2>1, <2>2 DEF PlaceAt
    <3>3. QED
      BY <1>1, <2>1, <2>2, <3>1, <3>2 DEF CondsAt, Mild
  <2>3. CASE r # p
    <3>1. \A u \in Pids \ {p} : proc'[u].exit_wait = proc[u].exit_wait
      BY <2>1 DEF Calm
    <3>2. pc[r] \in Making => proc'[aim[r]].exit_wait \in {0, proc[aim[r]].exit_wait}
      BY <1>1, <2>1, <3>1
    <3>3. QED
      BY <1>1, <2>1, <2>3, <3>2, CalmKeeps
  <2>4. QED
    BY <2>2, <2>3
<1>9. ASSUME NEW p \in Pids, DestroyExit(p) PROVE CondsAt(r)'
  <2>1. /\ pc[p] = "wake" /\ pc'[p] = "resched" /\ cut' = cut
        /\ proc' = proc /\ conds'[p] = conds[p] \ {wid[p]} /\ lives' = lives
        /\ Mild(p) /\ \A u \in Pids \ {p} : Calm(u)
    BY <1>9, DestroyedOne
  <2>2. CASE r = p
    <3>1. conds'[r] = {} \/ r \in cut
      BY <1>1, <2>1, <2>2 DEF CondsAt
    <3>2. Lives(r)
      BY <1>1, <2>1, <2>2 DEF PlaceAt
    <3>3. QED
      BY <1>1, <2>1, <2>2, <3>1, <3>2 DEF CondsAt, Mild
  <2>3. CASE r # p
    BY <1>1, <2>1, <2>3, CalmKeeps
  <2>4. QED
    BY <2>2, <2>3
<1>10. CASE DeleteTask
  <2>1. PICK p \in Pids :
          /\ requests # << >> /\ p = Head(requests).pid /\ Lives(p) /\ ~Lives(p)' /\ Runs(Helper)
          /\ pc'[p] = "none" /\ cut \subseteq cut'
          /\ p \notin cut' => /\ Head(requests).life = lives[p] /\ p \notin stopped
                              /\ pc[p] \notin {"handled", "finished", "terminated", "unstarted"}
          /\ conds' = conds
          /\ \A u \in Pids : proc'[u].exit_wait = proc[u].exit_wait
          /\ \A u \in Pids \ {p} : Steady(u)
    BY <1>10, DeletedOne
  <2>2. CASE r # p
    <3>1. pc[r] \in Making => proc'[aim[r]].exit_wait = proc[aim[r]].exit_wait
      BY <1>1, <2>1
    <3>2. QED
      BY <1>1, <2>1, <2>2, <3>1, CalmKeeps DEF Steady
  <2>3. CASE r = p /\ p \in cut'
    BY <2>1, <2>3 DEF CondsAt
  <2>4. CASE r = p /\ p \notin cut'
    <3>1. p \in asked
      <4>1. requests \in Seq(RequestType)
        BY DEF IndInv, TypeOK, KernelOK
      <4>2. 1 \in DOMAIN requests /\ Head(requests) = requests[1]
        BY <2>1, <4>1, TailFacts
      <4>3. RequestAt(Head(requests)) /\ Own(Head(requests))
        BY <2>1, <2>4, <4>2 DEF Own, IndInv, RequestsExact
      <4>4. QED
        BY <2>1, <4>3 DEF RequestAt
    <3>2. proc[p].kill_state >= 8 /\ pc[p] # "none" /\ proc[p].kill_state \in 0..11 /\ p \notin cut
      BY <1>1, <2>1, <2>4, <3>1, States DEF StateAt, IndInv
    <3>3. p \notin ready
      <4>1. SUFFICES ASSUME p \in ready \ stopped PROVE FALSE
        BY <2>1, <2>4
      <4>2. Prio[Helper] <= Prio[p]
        BY <2>1, <4>1 DEF Runs, MayRun
      <4>3. Prio[p] < Prio[Helper] /\ Prio[p] \in Nat /\ Prio[Helper] \in Nat
        BY Constants DEF LazyHelp, Setting
      <4>4. QED
        BY <4>2, <4>3
    <3>4. pc[p] \in {"main", "asleep", "wait", "astray", "locked"}
      <4>1. pc[p] \notin RunPoints
        BY <1>1, <2>4, <3>3 DEF PlaceAt
      <4>2. pc[p] \in StillPoints
        BY <1>1, <2>4, <4>1 DEF Points
      <4>3. QED
        BY <2>1, <2>4, <3>2, <4>2 DEF StillPoints
    <3>5. pc[p] = "asleep"
      <4>1. ~InMain(p) /\ ~InKids(p) /\ ~InOwn(p)
        BY <1>1, <2>4, <3>2 DEF StateAt, KidAt
      <4>2. QED
        BY <3>4, <4>1 DEF InMain, InKids, InOwn, Calls, CallPoints, StrikePoints, AwaitPoints
    <3>6. proc[p].exit_wait = 0
      BY <1>1, <2>4, <3>2, <3>5 DEF StateAt
    <3>7. conds[p] = {}
      BY <1>1, <2>4, <3>2, <3>5, <3>6 DEF CondsAt
    <3>8. QED
      BY <2>1, <2>4, <3>7 DEF CondsAt
  <2>5. QED
    BY <2>2, <2>3, <2>4
<1>11. QED
  BY <1>2, <1>3, <1>4, <1>5, <1>6, <1>7, <1>8, <1>9, <1>10, Kinds

(***************************************************************************)
(* The end of kill_process, with a helper less urgent than the processes,  *)
(* whatever their priorities: when a slot is given back nobody is left     *)
(* waiting for the process or for its mutex, unless that one was deleted   *)
(* before the end of its death or was killed while it woke its waiters.    *)
(***************************************************************************)
THEOREM NobodyStays == ASSUME LazyHelp PROVE Spec => []NobodyLeftBehind
<1>1. Setting
  BY ProcessAssumption, NucleusAssumption DEF Setting
<1>2. Init => CondsExact
  <2>1. ASSUME Init, NEW p \in Pids PROVE CondsAt(p)
    <3>1. Slot.id = FALSE
      BY DEF Slot
    <3>2. /\ p # 0 => ~proc[p].id
          /\ p = 0 => proc[p].id /\ proc[p].exit_wait = 1
      BY <2>1, <3>1 DEF Init, Slot
    <3>3. conds[p] = (IF p = 0 THEN {1} ELSE {}) /\ lives[p] = (IF p = 0 THEN 1 ELSE 0)
          /\ pc[p] \in {"start", "none"} /\ helping = NoPid /\ NoPid # p
      BY <1>1, <2>1, Constants DEF Init, Setting
    <3>4. QED
      BY <3>2, <3>3 DEF CondsAt, Lives
  <2>2. QED
    BY <2>1 DEF CondsExact
<1>3. IndInv /\ CondsExact /\ [Next]_vars => CondsExact'
  BY <1>1, CondsPreserved
<1>4. IndInv /\ CondsExact => NobodyLeftBehind
  <2>1. ASSUME IndInv, CondsExact, NEW p \in Pids, NEW q \in Pids, ~proc[p].id, p \notin cut, aim[q] = p
        PROVE  pc[q] \notin {"wait", "locked"}
    <3>1. ~Lives(p)
      BY <2>1 DEF Lives
    <3>2. conds[p] = {} /\ proc[p].critical = "none"
      BY <2>1, <3>1 DEF CondsExact, CondsAt, IndInv, SlotsExact, SlotAt
    <3>3. WaitsAt(q)
      BY <2>1 DEF IndInv, WaitsExact
    <3>4. QED
      BY <2>1, <3>2, <3>3 DEF WaitsAt
  <2>2. QED
    BY <2>1 DEF NobodyLeftBehind
<1>5. QED
  BY <1>1, <1>2, <1>3, <1>4, Invariance, PTL DEF Spec

\* Among processes of one priority, nobody else runs while one is between
\* free(argv) and kill_state++.
LEMMA Alone ==
  ASSUME Setting, OneLevel, ArgvExact, NEW p \in Pids, Runs(p)
  PROVE  \A r \in Pids \ {p} : pc[r] # "argv"
<1>1. cpu[Prio[p]] \in {p, NoTask}
  BY DEF Runs, MayRun
<1>2. \A r \in Pids : pc[r] = "argv" => cpu[Prio[p]] = r
  BY DEF OneLevel, ArgvExact, ArgvAt
<1>3. QED
  BY <1>1, <1>2, Constants DEF Setting

\* A process whose slot loses nothing
LEMMA MildKeeps ==
  ASSUME IndInv, NEW r \in Pids, ArgvAt(r), Mild(r), pc[r] # "argv" \/ proc'[r].kill_state >= 3,
         pc'[r] # "argv", pc[r] = "new" => frees'[aim[r]] \in {0, frees[aim[r]]},
         proc'[r].kill_state \in Nat
  PROVE  ArgvAt(r)'
<1>1. proc[r].kill_state \in 0..11 /\ frees[r] \in Nat
  BY States DEF IndInv, TypeOK, HistoryOK
<1>2. frees'[r] <= 1
  BY DEF ArgvAt, Mild
<1>3. Lives(r)' /\ proc'[r].kill_state <= 2 => frees'[r] = 0
  BY <1>1 DEF ArgvAt, Mild
<1>4. pc'[r] = "new" => frees'[aim'[r]] = 0
  BY DEF ArgvAt, Mild
<1>5. QED
  BY <1>2, <1>3, <1>4 DEF ArgvAt

\* Every step keeps the count of the frees of argv, among processes of one priority.
LEMMA ArgvPreserves ==
  ASSUME Setting, OneLevel, IndInv, ArgvExact, [Next]_vars PROVE ArgvExact'
<1> SUFFICES ASSUME NEW r \in Pids PROVE ArgvAt(r)'
  BY DEF ArgvExact
<1>1. /\ ArgvAt(r) /\ proc[r].kill_state \in 0..11 /\ proc'[r].kill_state \in 0..11 /\ frees[r] \in Nat
      /\ Prio[r] \in Levels
      /\ pc[r] = "new" => aim[r] \in Pids /\ Lives(aim[r]) /\ pc[aim[r]] = "none"
  <2>1. TypeOK /\ TypeOK' /\ proc'[r].kill_state \in 0..11
    <3>1. TypeOK /\ TypeOK'
      BY NextPreserves DEF IndInv
    <3>2. QED
      BY <3>1, TableFields DEF TypeOK, TablesOK
  <2>2. MakesAt(r) /\ ArgvAt(r)
    BY DEF IndInv, MakesExact, ArgvExact
  <2>3. QED
    BY <2>1, <2>2, States, Constants DEF Setting, TypeOK, HistoryOK, MakesAt, CreatePoints
<1>2. ASSUME pc[r] = "argv", Runs(Helper)
      PROVE  /\ cpu[Prio[r]] = r /\ \A p \in Pids \ {r} : Occupy(Helper, Evict(p, cpu))[Prio[r]] = r
             /\ GiveUp(Helper, cpu)[Prio[r]] = r
  <2>1. cpu[Prio[r]] = r /\ cpu[Prio[Helper]] \in {Helper, NoTask}
    BY <1>1, <1>2 DEF ArgvAt, Runs, MayRun
  <2>2. Prio[r] # Prio[Helper]
    BY <2>1, Constants DEF Setting
  <2>3. cpu \in [Levels -> Tasks \cup {NoTask}] /\ Prio[Helper] \in Levels
    BY Constants DEF IndInv, TypeOK, KernelOK, Setting
  <2>4. \A p \in Pids \ {r} : Evict(p, cpu) = cpu
    BY <2>1 DEF Evict, OneLevel
  <2>5. QED
    BY <1>1, <2>1, <2>2, <2>3, <2>4 DEF Occupy, GiveUp
<1>3. CASE UNCHANGED vars \/ FreeSlot \/ DropRequest \/ \E p \in Pids : WakeUp(p) \/ StrayReturns(p)
  <2>1. /\ \A u \in Pids : Mild(u)
        /\ pc'[r] = "argv" <=> pc[r] = "argv"
        /\ cpu' = cpu \/ (Runs(Helper) /\ cpu' = GiveUp(Helper, cpu))
    BY <1>3, StillOne DEF Steady
  <2>2. pc'[r] = "argv" => cpu'[Prio[r]] = r
    BY <1>1, <1>2, <2>1 DEF ArgvAt
  <2>3. frees'[r] <= 1 /\ (pc'[r] = "new" => frees'[aim'[r]] = 0)
    BY <1>1, <2>1 DEF ArgvAt, Mild
  <2>4. Lives(r)' /\ pc'[r] # "argv" /\ proc'[r].kill_state <= 2 => pc[r] # "argv"
    BY <2>1
  <2>5. Lives(r)' /\ pc'[r] # "argv" /\ proc'[r].kill_state <= 2 => frees'[r] = 0
    BY <1>1, <2>1, <2>4 DEF ArgvAt, Mild
  <2>6. QED
    BY <2>2, <2>3, <2>5 DEF ArgvAt
<1>4. ASSUME NEW p \in Pids, SteadyRun(p) PROVE ArgvAt(r)'
  <2>1. \A u \in Pids : Mild(u)
    BY <1>4 DEF SteadyRun, Steady
  <2>2. pc'[r] # "argv" /\ (pc[r] # "argv" \/ proc'[r].kill_state >= 3)
    BY <1>4, Alone DEF SteadyRun
  <2>3. pc[r] = "new" => frees'[aim[r]] = frees[aim[r]]
    BY <1>1, <2>1 DEF Mild
  <2>4. QED
    BY <1>1, <2>1, <2>2, <2>3, MildKeeps
<1>5. ASSUME NEW q \in Pids, NewProcess(q) PROVE ArgvAt(r)'
  <2>1. PICK x \in Pids \ {q} :
          /\ Runs(q) /\ pc[q] = "main" /\ pc'[q] = "new" /\ aim'[q] = x
          /\ \A u \in Pids \ {q} : pc'[u] = pc[u] /\ aim'[u] = aim[u]
          /\ \A u \in Pids \ {x, q} : Mild(u)
          /\ proc'[q] = proc[q] /\ frees'[q] = frees[q] /\ Lives(q)' = Lives(q)
          /\ frees'[x] = 0 /\ ~Lives(x) /\ pc[x] = "none"
    BY <1>5, NewOne
  <2>2. pc[r] # "argv"
    BY <2>1, Alone
  <2>3. CASE r = x
    BY <2>1, <2>3 DEF ArgvAt
  <2>4. CASE r = q
    BY <1>1, <2>1, <2>4 DEF ArgvAt
  <2>5. CASE r \notin {x, q}
    <3>1. pc[r] = "new" => frees'[aim[r]] = frees[aim[r]]
      BY <1>1, <2>1 DEF Mild
    <3>2. QED
      BY <1>1, <2>1, <2>2, <2>5, <3>1, MildKeeps
  <2>6. QED
    BY <2>3, <2>4, <2>5
<1>6. ASSUME NEW q \in Pids, FillSlot(q) PROVE ArgvAt(r)'
  <2>1. PICK x \in Pids \ {q} :
          /\ Runs(q) /\ pc[q] = "new" /\ pc'[q] = "filled" /\ aim[q] = x
          /\ \A u \in Pids \ {q} : pc'[u] = pc[u]
          /\ \A u \in Pids \ {x} : Mild(u)
          /\ frees'[x] = frees[x] /\ pc[x] = "none"
    BY <1>6, FilledOne
  <2>2. pc[r] # "argv" /\ pc'[r] # "argv"
    BY <2>1, Alone
  <2>3. CASE r = x
    <3>1. frees[x] = 0
      BY <2>1 DEF ArgvExact, ArgvAt
    <3>2. QED
      BY <2>1, <2>3, <3>1 DEF ArgvAt
  <2>4. CASE r # x
    <3>1. pc[r] = "new" => frees'[aim[r]] = frees[aim[r]]
      BY <1>1, <2>1 DEF Mild
    <3>2. QED
      BY <1>1, <2>1, <2>2, <2>4, <3>1, MildKeeps
  <2>5. QED
    BY <2>3, <2>4
<1>7. ASSUME NEW q \in Pids, CreateConds(q) \/ WithdrawExit(q) \/ DestroyExit(q) PROVE ArgvAt(r)'
  <2>1. /\ Runs(q) /\ pc[q] # "argv" /\ pc'[q] # "argv" /\ \A u \in Pids : Mild(u)
        /\ \A u \in Pids \ {q} : pc'[u] = pc[u]
    <3>1. CASE CreateConds(q)
      BY <3>1, ListedOne
    <3>2. CASE WithdrawExit(q) \/ DestroyExit(q)
      BY <3>2, WithdrawnOne, DestroyedOne DEF Mild
    <3>3. QED
      BY <1>7, <3>1, <3>2
  <2>2. pc[r] # "argv" /\ pc'[r] # "argv"
    BY <2>1, Alone
  <2>3. pc[r] = "new" => frees'[aim[r]] = frees[aim[r]]
    BY <1>1, <2>1 DEF Mild
  <2>4. QED
    BY <1>1, <2>1, <2>2, <2>3, MildKeeps
<1>8. ASSUME NEW q \in Pids, Stage2(q) PROVE ArgvAt(r)'
  <2>1. /\ Runs(q) /\ pc[q] = "stages" /\ proc[q].kill_state = 2 /\ Lives(q)
        /\ frees'[q] = frees[q] + 1 /\ pc'[q] = "argv" /\ cpu' = Occupy(q, cpu) /\ aim' = aim
        /\ \A u \in Pids \ {q} : Mild(u) /\ pc'[u] = pc[u] /\ pc[u] # "argv"
    BY <1>8, FreedOne, Alone
  <2>2. CASE r = q
    <3>1. frees[r] = 0 /\ frees'[r] = 1
      BY <1>1, <2>1, <2>2 DEF ArgvAt
    <3>2. cpu'[Prio[r]] = r
      BY <1>1, <2>1, <2>2 DEF Occupy, IndInv, TypeOK, KernelOK
    <3>3. QED
      BY <2>1, <2>2, <3>1, <3>2 DEF ArgvAt
  <2>3. CASE r # q
    <3>1. pc[r] = "new" => frees'[aim[r]] = frees[aim[r]]
      <4>1. pc[r] = "new" => aim[r] # q
        BY <1>1, <2>1
      <4>2. QED
        BY <1>1, <2>1, <4>1 DEF Mild
    <3>2. QED
      BY <1>1, <2>1, <2>3, <3>1, MildKeeps
  <2>4. QED
    BY <2>2, <2>3
<1>9. CASE DeleteTask
  <2>1. PICK p \in Pids :
          /\ ~Lives(p)' /\ Runs(Helper) /\ cpu' = Occupy(Helper, Evict(p, cpu)) /\ pc'[p] = "none"
          /\ frees' = frees
          /\ \A u \in Pids \ {p} : Mild(u) /\ (pc'[u] = "argv" <=> pc[u] = "argv")
    BY <1>9, DeletedOne DEF Steady
  <2>2. CASE r = p
    BY <1>1, <2>1, <2>2 DEF ArgvAt
  <2>3. CASE r # p
    <3>1. Mild(r) /\ (pc'[r] = "argv" => cpu'[Prio[r]] = r)
      BY <1>2, <2>1, <2>3
    <3>2. frees'[r] <= 1 /\ (pc'[r] = "new" => frees'[aim'[r]] = 0)
      BY <1>1, <2>1, <3>1 DEF ArgvAt, Mild
    <3>3. pc[r] = "argv" => pc'[r] = "argv"
      BY <2>1, <2>3
    <3>4. Lives(r)' /\ pc'[r] # "argv" /\ proc'[r].kill_state <= 2 => frees'[r] = 0
      BY <1>1, <3>1, <3>3 DEF ArgvAt, Mild
    <3>5. QED
      BY <3>1, <3>2, <3>4 DEF ArgvAt
  <2>4. QED
    BY <2>2, <2>3
<1>10. QED
  BY <1>3, <1>4, <1>5, <1>6, <1>7, <1>8, <1>9, Kinds

(***************************************************************************)
(* State 2 of kill_impl, among processes of one priority: however often    *)
(* and from wherever a kill is started over, argv is freed once.           *)
(***************************************************************************)
THEOREM ArgvOnce == ASSUME OneLevel PROVE Spec => []ArgvFreedOnce
<1>1. Setting
  BY ProcessAssumption, NucleusAssumption DEF Setting
<1>2. Init => ArgvExact
  <2>1. ASSUME Init, NEW p \in Pids PROVE ArgvAt(p)
    <3>1. frees[p] = 0 /\ pc[p] \in {"start", "none"}
      BY <2>1 DEF Init
    <3>2. QED
      BY <3>1 DEF ArgvAt
  <2>2. QED
    BY <2>1 DEF ArgvExact
<1>3. IndInv /\ ArgvExact /\ [Next]_vars => ArgvExact'
  BY <1>1, ArgvPreserves
<1>4. ArgvExact => ArgvFreedOnce
  BY DEF ArgvExact, ArgvAt, ArgvFreedOnce
<1>5. QED
  BY <1>1, <1>2, <1>3, <1>4, Invariance, PTL DEF Spec
=============================================================================
