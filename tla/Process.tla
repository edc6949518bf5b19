------------------------------- MODULE Process -------------------------------
(***************************************************************************)
(* CoreProc/process.c: the table of processes and their death.  A process  *)
(* dies when its main returns or when it is killed: its task is then reset *)
(* to the start of handle, which finds kill_mode and runs kill_impl.       *)
(* kill_impl goes through the stages of kill_state, so that a kill that is *)
(* itself reset goes on where it was; a task cannot delete itself, so the  *)
(* end is left to kill_process, run by the firmware's helper (SUBPROC).    *)
(*                                                                         *)
(* Tasks of different priorities preempt each other anywhere: a step is a  *)
(* run of statements of which a more urgent task that comes in between can *)
(* tell nothing.  Of the critical code mutex of a process (in the form of  *)
(* mutex.c that CoreMutex shows) and of its exit condition the stores that *)
(* others read are here; threads and critical sections are in              *)
(* CriticalCode; resources and names are left out.  Of signals.c, signal   *)
(* and kill are here, for one signal that a program may handle (SIGTERM).  *)
(***************************************************************************)
EXTENDS Nucleus, Integers, FiniteSetsExt, Functions

CONSTANTS
  MaxPid,      \* MAX_PROCESS_ID, the length of core_process
  Helper,      \* the task behind SUBPROC
  Creators,    \* the processes that create others; their pb_mutex keeps them apart
               \* because they have one priority (see MutexMixedBroken of CoreMutex)
  MaxTries,    \* how often kill_impl is entered before it gives up: 14
  MaxLives,    \* bound: how many processes are ever created
  MaxKids,     \* bound: how many children a process creates
  MaxSignals,  \* bound: how often a main kills, stops or does not start a process
  MaxStops,    \* bound: how many of these are not kills
  Handlers     \* bound: the processes that may install a signal handler

Pids == 0..(MaxPid - 1)

ASSUME ProcessAssumption ==
  /\ MaxPid \in Nat \ {0}
  /\ {MaxTries, MaxLives, MaxKids, MaxSignals, MaxStops} \subseteq Nat /\ MaxLives # 0
  /\ Handlers \subseteq Pids
  /\ Creators \subseteq Pids /\ \A p, q \in Creators : Prio[p] = Prio[q]
  /\ Tasks = Pids \cup {Helper} /\ Helper \notin Pids

NoPid == -1

VARIABLES
  proc,        \* core_process, the table of processes
  pc,          \* where the task of each process is; "none" without a task
  back,        \* where a call of kill_hisr_chek or waitForProcessFinished returns
  lock,        \* the argument of kill_impl: take critical_code.mutex itself
  aim, at,     \* the process a task creates, kills or waits for; its place in kids
  wid,         \* the local copy of an exit_wait_cond
  conds,       \* the exit conditions that exist, for each pid by the life they are of
  stopped,     \* the tasks that were suspended
  requests,    \* the calls of kill_process left to the helper: the pid and, as
               \* history, which of its processes asked, and whether it was the first time
  helping,     \* the pid whose kill_process is half done, or NoPid
  lives,       \* history: which process has the slot, counted from 1
  asked,       \* history: the pids whose process has asked for kill_process
  kills, stops, frees,  \* history: calls of kill, stops, calls of free(argv)
  orphans,     \* history: pids whose creator was killed before they were in its list
  cut,         \* history: pids whose process was deleted before it could end its
               \* death (by an earlier one's request, stopped, reset and not
               \* resumed, asleep in a handler, or having returned from
               \* kill_impl), killed while it woke its waiters, started by
               \* others before its creation was complete, or reset by a
               \* kill that was meant for an earlier process
  ready, cpu   \* see Nucleus

locals == <<back, lock, aim, at, wid>>
helper == <<requests, helping, asked>>
history == <<lives, kills, stops, frees, orphans, cut>>
vars == <<proc, pc, locals, conds, stopped, helper, history, ready, cpu>>

Slot ==
  [id |-> FALSE,         \* t.id >= 0: the slot is taken
   kids |-> << >>,       \* process.list: the pids of the children, never shortened
   dtors |-> {},         \* dtors: the pids whose critical_code.mutex it has created
   ppid |-> NoPid,       \* the pid of the process that created it
   kill_mode |-> FALSE, terminated |-> 0, kill_state |-> 0, kill_tryes |-> 0,
   critical |-> "none",  \* critical_code.mutex: "free", "held" for a kill, "none"
   exit_wait |-> 0,      \* exit_wait_cond: that of this life, or 0 for -1
   handler |-> FALSE,    \* siglist.list has a handler
   signum |-> "none"]    \* siglist.signum: "none", "kill_" (0) or "SIGTERM"

Init ==
  /\ proc = [p \in Pids |-> IF p # 0 THEN Slot
                            ELSE [Slot EXCEPT !.id = TRUE, !.critical = "free", !.exit_wait = 1]]
  /\ pc = [p \in Pids |-> IF p = 0 THEN "start" ELSE "none"]
  /\ back = [p \in Pids |-> "main"] /\ lock = [p \in Pids |-> FALSE]
  /\ aim = [p \in Pids |-> NoPid] /\ at = [p \in Pids |-> 0] /\ wid = [p \in Pids |-> 0]
  /\ conds = [p \in Pids |-> IF p = 0 THEN {1} ELSE {}]
  /\ stopped = {}
  /\ requests = << >> /\ helping = NoPid /\ asked = {}
  /\ lives = [p \in Pids |-> IF p = 0 THEN 1 ELSE 0]
  /\ kills = 0 /\ stops = 0 /\ frees = [p \in Pids |-> 0] /\ orphans = {} /\ cut = {}
  /\ ready = {0} /\ cpu = IdleCpu

-----------------------------------------------------------------------------
Runs(t) == MayRun(t, ready \ stopped, cpu)

\* The task of process p runs from one point to another.
Goto(p, from, to) ==
  /\ pc[p] = from /\ Runs(p)
  /\ pc' = [pc EXCEPT ![p] = to]
  /\ cpu' = Occupy(p, cpu)

\* ... and suspends there.
Block(p, from, to) ==
  /\ pc[p] = from /\ Runs(p)
  /\ pc' = [pc EXCEPT ![p] = to]
  /\ cpu' = GiveUp(p, cpu)
  /\ ready' = ready \ {p}

MayStop == stops < MaxStops /\ kills + stops < MaxSignals

\* NU_Resume_Task(p) by the task of q, which goes on at to: p has been created
\* or reset, or was suspended.
Resume(q, p, from, to) ==
  LET starts == pc[p] = "unstarted"
  IN  /\ pc[q] = from /\ Runs(q)
      /\ pc' = [pc EXCEPT ![p] = IF starts THEN "start" ELSE @, ![q] = to]
      /\ ready' = IF starts THEN ready \cup {p} ELSE ready
      /\ stopped' = IF starts THEN stopped ELSE stopped \ {p}
      /\ cpu' = Occupy(q, cpu)

-----------------------------------------------------------------------------
\* createConfigurableProcess.  newCoreProcessData gives away the first free
\* slot, whose lists are still those of the process before;
NewProcess(q) ==
  /\ q \in Creators /\ Goto(q, "main", "new")
  /\ Max(Range(lives)) < MaxLives /\ Len(proc[q].kids) < MaxKids
  /\ \E p \in Pids :
       /\ ~proc[p].id /\ \A r \in Pids : r < p => proc[r].id
       /\ aim' = [aim EXCEPT ![q] = p]
       /\ proc' = [proc EXCEPT ![p].id = TRUE, ![p].kill_mode = FALSE, ![p].terminated = 0,
                               ![p].ppid = NoPid, ![p].exit_wait = 0]
       /\ lives' = [lives EXCEPT ![p] = Max(Range(lives)) + 1]
       /\ frees' = [frees EXCEPT ![p] = 0]
       /\ asked' = asked \ {p} /\ orphans' = orphans \ {p}
  /\ UNCHANGED <<back, lock, at, wid, conds, stopped, requests, helping, kills, stops, cut, ready>>

\* createMutex, which registers destroyMutex with the caller, and the fields;
FillSlot(q) ==
  /\ Goto(q, "new", "filled")
  /\ proc' = [proc EXCEPT ![aim[q]].critical = "free", ![aim[q]].ppid = q,
                          ![aim[q]].kill_state = 0, ![aim[q]].kill_tryes = 0,
                          ![aim[q]].signum = "none",
                          ![q].dtors = @ \cup {aim[q]}]
  /\ UNCHANGED <<locals, conds, stopped, helper, history, ready>>

\* NU_Create_Task with NU_NO_START;
CreateTask(q) ==
  /\ pc[q] = "filled" /\ Runs(q)
  /\ pc' = [pc EXCEPT ![aim[q]] = "unstarted", ![q] = "created"]
  /\ cpu' = Occupy(q, cpu)
  /\ UNCHANGED <<proc, locals, conds, stopped, helper, history, ready>>

\* the lists of dtors and signals, and the exit condition;
CreateConds(q) ==
  LET p == aim[q]
  IN  /\ Goto(q, "created", "listed")
      /\ proc' = [proc EXCEPT ![p].dtors = {}, ![p].handler = FALSE, ![p].exit_wait = lives[p]]
      /\ conds' = [conds EXCEPT ![p] = @ \cup {lives[p]}]
      /\ UNCHANGED <<locals, stopped, helper, history, ready>>

\* addProcessToParent;
JoinParent(q) ==
  /\ Goto(q, "listed", "joined")
  /\ proc' = [proc EXCEPT ![q].kids = Append(@, aim[q])]
  /\ UNCHANGED <<locals, conds, stopped, helper, history, ready>>

\* and the task is started if run is not 0.
StartTask(q) ==
  /\ \/ Resume(q, aim[q], "joined", "main") /\ UNCHANGED stops
     \/ /\ MayStop /\ stops' = stops + 1
        /\ Goto(q, "joined", "main")
        /\ UNCHANGED <<stopped, ready>>
  /\ UNCHANGED <<proc, locals, conds, helper, lives, kills, frees, orphans, cut>>

CreatePoints == {"new", "filled", "created", "listed"}

\* The process whose creation a kill of p leaves undone
Orphaned(p) == IF pc[p] \in CreatePoints THEN {aim[p]} ELSE {}

-----------------------------------------------------------------------------
\* Variant with a fault: a reset kill starts from state 0 again.
HandleAfresh(p) ==
  /\ Goto(p, "start", IF proc[p].kill_mode THEN "kill_impl" ELSE "main")
  /\ proc' = [proc EXCEPT ![p].kids = IF proc[p].kill_mode THEN @ ELSE << >>,
                          ![p].kill_state = 0]
  /\ lock' = [lock EXCEPT ![p] = FALSE]
  /\ UNCHANGED <<back, aim, at, wid, conds, stopped, helper, history, ready>>

\* handle: kill_impl(..., 0) in kill_mode, otherwise the lists are set up and
\* main is called.
Handle(p) ==
  /\ Goto(p, "start", IF proc[p].kill_mode THEN "kill_impl" ELSE "main")
  /\ proc' = [proc EXCEPT ![p].kids = IF proc[p].kill_mode THEN @ ELSE << >>]
  /\ lock' = [lock EXCEPT ![p] = FALSE]
  /\ cut' = cut \cup {r \in {p} : \E q \in Pids : p \in Orphaned(q)}
  /\ UNCHANGED <<back, aim, at, wid, conds, stopped, helper, ready>>
  /\ UNCHANGED <<lives, kills, stops, frees, orphans>>

\* main returns, or calls exit, which kills its own process: kill_impl(..., 1).
\* A signal handler may call exit as well.
Exit(p) ==
  /\ Goto(p, "main", "kill_impl") \/ Goto(p, "handler", "kill_impl")
  /\ lock' = [lock EXCEPT ![p] = TRUE]
  /\ UNCHANGED <<proc, back, aim, at, wid, conds, stopped, helper, history, ready>>

\* A main sleeps, and its sleep ends; so does a handler (bound: once).
Sleep(p) ==
  /\ Block(p, "main", "main") \/ Block(p, "handler", "handled")
  /\ UNCHANGED <<proc, locals, conds, stopped, helper, history>>

WakeUp(p) ==
  /\ pc[p] \in {"main", "handled"} /\ p \notin ready
  /\ ready' = ready \cup {p}
  /\ UNCHANGED <<proc, pc, locals, conds, stopped, helper, history, cpu>>

\* signal: a second handler for the same signal is not installed.
Signal(p) ==
  /\ p \in Handlers /\ ~proc[p].handler
  /\ Goto(p, "main", "main")
  /\ proc' = [proc EXCEPT ![p].handler = TRUE]
  /\ UNCHANGED <<locals, conds, stopped, helper, history, ready>>

\* suspendProcess, by kill with SIGSTOP: the task stops now, or as soon as
\* what it waits for has come.
Stop(q) ==
  /\ pc[q] = "main" /\ Runs(q)
  /\ MayStop /\ stops' = stops + 1
  /\ \E p \in Pids \ ({q} \cup stopped) :
       /\ pc[p] \notin {"none", "unstarted", "terminated", "finished"}
       /\ stopped' = stopped \cup {p}
       /\ cpu' = Occupy(q, Evict(p, cpu))
  /\ UNCHANGED <<proc, pc, locals, conds, helper, lives, kills, frees, orphans, cut, ready>>

\* resumeProcess, by kill with SIGCONT or by who created the process
Continue(q) ==
  /\ \E p \in Pids \ {q} :
       /\ p \in stopped \/ pc[p] = "unstarted"
       /\ Resume(q, p, "main", "main")
  /\ UNCHANGED <<proc, locals, conds, helper, history>>

-----------------------------------------------------------------------------
\* kill_hisr_chek(p, ...) by the task of q at a point from, which goes on at
\* ret: p has a process, whose signum is set.
Strike(q, p, signum, from, ret) ==
  /\ aim' = [aim EXCEPT ![q] = p]
  /\ back' = [back EXCEPT ![q] = ret]
  /\ Goto(q, from, IF proc[p].id THEN "lock" ELSE ret)
  /\ proc' = IF proc[p].id THEN [proc EXCEPT ![p].signum = signum] ELSE proc
  /\ UNCHANGED <<lock, at, wid, conds, stopped, helper, ready>>

\* kill(p, SIGTERM) called by the main of another process
Kill(q) ==
  /\ kills + stops < MaxSignals /\ kills' = kills + 1
  /\ \E p \in Pids \ {q} : Strike(q, p, "SIGTERM", "main", "main")
  /\ UNCHANGED <<lives, stops, frees, orphans, cut>>

\* lockMutex(&proc->critical_code.mutex) of the process aim[q]: its test of
\* locks; it fails, unnoticed, where the mutex has been destroyed.
LockTest(p, past) ==
  CASE proc[p].critical = "none" -> past
    [] proc[p].critical = "free" -> "take"
    [] proc[p].critical = "held" -> "queue"

\* What follows: the reset of another process, state 1 of one's own death.
Past(q) == IF aim[q] = q THEN "state0" ELSE "mark"

\* The killer takes the mutex unless p is in kill_impl already.
Lock(q) ==
  LET p == aim[q]
  IN  /\ pc[q] = "lock"
      /\ Goto(q, "lock", IF ~proc[p].id THEN back[q]
                         ELSE IF proc[p].terminated = 2 THEN "mark" ELSE LockTest(p, "mark"))
      /\ UNCHANGED <<proc, locals, conds, stopped, helper, history, ready>>

\* locks++, whoever else may have tested it before;
Take(q) ==
  /\ Goto(q, "take", Past(q))
  /\ proc' = [proc EXCEPT ![aim[q]].critical = IF @ = "none" THEN @ ELSE "held"]
  /\ UNCHANGED <<locals, conds, stopped, helper, history, ready>>

\* or locks++ and NU_Obtain_Semaphore, on which nobody can wait if it was deleted.
Queue(q) ==
  /\ pc[q] = "queue"
  /\ IF proc[aim[q]].critical = "none" THEN Goto(q, "queue", Past(q)) /\ UNCHANGED ready
     ELSE Block(q, "queue", "locked")
  /\ proc' = [proc EXCEPT ![aim[q]].critical = IF @ = "none" THEN @ ELSE "held"]
  /\ UNCHANGED <<locals, conds, stopped, helper, history>>

\* kill_mode = 1
MarkMode(q) ==
  /\ Goto(q, "mark", "marked")
  /\ proc' = [proc EXCEPT ![aim[q]].kill_mode = TRUE]
  /\ UNCHANGED <<locals, conds, stopped, helper, history, ready>>

\* terminated = 1
MarkTerminated(q) ==
  /\ Goto(q, "marked", "terminate")
  /\ proc' = [proc EXCEPT ![aim[q]].terminated = 1]
  /\ UNCHANGED <<locals, conds, stopped, helper, history, ready>>

\* NU_Terminate_Task, of whatever task the slot holds by now.  A task that was
\* stopped while it waited may stay so.
Terminate(q) ==
  LET p == aim[q]
      here == pc[p] # "none"
  IN  /\ pc[q] = "terminate" /\ Runs(q)
      /\ pc' = [pc EXCEPT ![p] = IF here THEN "terminated" ELSE @, ![q] = "reset"]
      /\ ready' = ready \ {p}
      /\ stopped' \in {stopped \ {p}} \cup {s \in {stopped} : p \notin ready}
      /\ cpu' = Occupy(q, IF here THEN Evict(p, cpu) ELSE cpu)
      /\ orphans' = orphans \cup Orphaned(p)
      /\ cut' = IF pc[p] = "wake" THEN cut \cup {p} ELSE cut
      /\ UNCHANGED <<proc, locals, conds, helper, lives, kills, stops, frees>>

\* NU_Reset_Task
Reset(q) ==
  LET p == aim[q]
  IN  /\ pc[q] = "reset" /\ Runs(q)
      /\ pc' = [pc EXCEPT ![p] = IF @ \in {"terminated", "finished"} THEN "unstarted" ELSE @,
                          ![q] = "resume"]
      /\ cpu' = Occupy(q, cpu)
      /\ cut' = cut \cup {r \in {p} : pc[r] \in {"terminated", "finished"} /\ ~proc[r].kill_mode}
      /\ UNCHANGED <<proc, locals, conds, stopped, helper, ready>>
      /\ UNCHANGED <<lives, kills, stops, frees, orphans>>

\* NU_Resume_Task
Restart(q) ==
  /\ Resume(q, aim[q], "resume", back[q])
  /\ UNCHANGED <<proc, locals, conds, helper, history>>

-----------------------------------------------------------------------------
\* waitForProcessFinished(p, ...) by the task of q: it returns at once if the
\* slot is free; exit_wait_cond is read ...
Await(q, p, from, ret) ==
  /\ aim' = [aim EXCEPT ![q] = p]
  /\ back' = [back EXCEPT ![q] = ret]
  /\ wid' = [wid EXCEPT ![q] = proc[p].exit_wait]
  /\ Goto(q, from, IF proc[p].id THEN "await" ELSE ret)
  /\ UNCHANGED <<proc, lock, at, conds, stopped, helper, history, ready>>

\* ... and waited for.  If it is gone by now nobody waits, or its number has
\* been given away and the process waits astray for something else.
Wait(q) ==
  /\ pc[q] = "await"
  /\ \/ /\ wid[q] \in conds[aim[q]]
        /\ Block(q, "await", "wait")
     \/ /\ wid[q] \notin conds[aim[q]]
        /\ Goto(q, "await", back[q]) /\ UNCHANGED ready
     \/ /\ wid[q] \notin conds[aim[q]] \cup {0}
        /\ Block(q, "await", "astray")
  /\ UNCHANGED <<proc, locals, conds, stopped, helper, history>>

StrayReturns(q) ==
  /\ pc[q] = "astray"
  /\ pc' = [pc EXCEPT ![q] = back[q]]
  /\ ready' = ready \cup {q}
  /\ UNCHANGED <<proc, locals, conds, stopped, helper, history, cpu>>

WaitForProcess(q) == \E p \in Pids \ {q} : Await(q, p, "main", "main")

-----------------------------------------------------------------------------
\* kill_impl: first the handler of the signal, which is taken out of the list.
HandlerCalled(p) == proc[p].signum = "SIGTERM" /\ proc[p].handler

CallHandler(p) ==
  /\ proc[p].terminated # 2 /\ HandlerCalled(p)
  /\ Goto(p, "kill_impl", "handler")
  /\ proc' = [proc EXCEPT ![p].handler = FALSE, ![p].signum = "none"]
  /\ UNCHANGED <<locals, conds, stopped, helper, history, ready>>

\* A second call of kill_impl returns at once, and so does handle, which ends
\* the task.
KillImplAgain(p) ==
  /\ proc[p].terminated = 2
  /\ Block(p, "kill_impl", "finished")
  /\ UNCHANGED <<proc, locals, conds, stopped, helper, history>>

\* ... terminated = 2,
KillImpl(p) ==
  /\ \/ proc[p].terminated # 2 /\ ~HandlerCalled(p) /\ Goto(p, "kill_impl", "try")
     \/ Goto(p, "handler", "try")
     \/ Goto(p, "handled", "try")
  /\ proc' = [proc EXCEPT ![p].terminated = 2,
                          ![p].signum = IF pc[p] = "kill_impl" THEN "none" ELSE @]
  /\ UNCHANGED <<locals, conds, stopped, helper, history, ready>>

\* and one more try, after the last of which it returns as well (bound: the
\* tries are counted up to there).
Try(p) ==
  /\ IF proc[p].kill_tryes >= MaxTries THEN Block(p, "try", "finished")
     ELSE Goto(p, "try", "stages") /\ UNCHANGED ready
  /\ proc' = [proc EXCEPT ![p].kill_tryes = IF @ > MaxTries THEN @ ELSE @ + 1]
  /\ UNCHANGED <<locals, conds, stopped, helper, history>>

\* kill_impl is done with a state and looks at the next one.
Advance(p, from) ==
  /\ Goto(p, from, "stages")
  /\ proc' = [proc EXCEPT ![p].kill_state = @ + 1]

InState(p, states) == pc[p] = "stages" /\ proc[p].kill_state \in states

\* State 0: the mutex of the critical code, unless the killer has taken it.
Stage0(p) ==
  /\ InState(p, {0})
  /\ Goto(p, "stages", IF lock[p] THEN LockTest(p, "state0") ELSE "state0")
  /\ aim' = [aim EXCEPT ![p] = p]
  /\ UNCHANGED <<proc, back, lock, at, wid, conds, stopped, helper, history, ready>>

\* State 2: free(argv), and only then kill_state++.
Stage2(p) ==
  /\ InState(p, {2})
  /\ Goto(p, "stages", "argv")
  /\ frees' = [frees EXCEPT ![p] = @ + 1]
  /\ UNCHANGED <<proc, locals, conds, stopped, helper, lives, kills, stops, orphans, cut, ready>>

\* States that change nothing another process sees: 1 (event queue), 4
\* (threads), 6 (lists and mutexes), 7 (resources), 10 (signal list); and 9,
\* where ppid_inode, which no code ever sets, is tested.  State 5 is over when
\* there is no dtor left.
StagePass(p) ==
  /\ InState(p, {1, 4, 6, 7, 9, 10}) \/ (InState(p, {5}) /\ proc[p].dtors = {})
  /\ Advance(p, "stages")
  /\ UNCHANGED <<locals, conds, stopped, helper, history, ready>>

\* State 3: for each child, kill it and wait for its end.  After the first
\* inode comes the next one, after any other inode the first one again: the
\* loop is meant for a list that children leave.
Stage3(p) ==
  LET none == proc[p].kids = << >>
  IN  /\ InState(p, {3})
      /\ at' = [at EXCEPT ![p] = 1]
      /\ Goto(p, "stages", IF none THEN "stages" ELSE "kid")
      /\ proc' = [proc EXCEPT ![p].kill_state = IF none THEN 4 ELSE 3]
      /\ UNCHANGED <<back, lock, aim, wid, conds, stopped, helper, history, ready>>

KidKill(p) ==
  /\ pc[p] = "kid"
  /\ Strike(p, proc[p].kids[at[p]], "kill_", "kid", "kid_finish")
  /\ UNCHANGED history

\* Variant with a fault: the end of the child is not awaited.
KidNoWait(p) ==
  /\ Goto(p, "kid_finish", "kid_next")
  /\ UNCHANGED <<proc, locals, conds, stopped, helper, history, ready>>

KidWait(p) == pc[p] = "kid_finish" /\ Await(p, aim[p], "kid_finish", "kid_next")

\* Variant with a fault: always back to the first child.
KidNextAgain(p) ==
  /\ Goto(p, "kid_next", "kid")
  /\ UNCHANGED <<proc, locals, conds, stopped, helper, history, ready>>

KidNext(p) ==
  LET last == at[p] = 1 /\ Len(proc[p].kids) = 1
  IN  /\ Goto(p, "kid_next", IF last THEN "stages" ELSE "kid")
      /\ at' = [at EXCEPT ![p] = IF @ = 1 THEN 2 ELSE 1]
      /\ proc' = [proc EXCEPT ![p].kill_state = IF last THEN 4 ELSE 3]
      /\ UNCHANGED <<back, lock, aim, wid, conds, stopped, helper, history, ready>>

\* destroyMutex of the critical code of process p lets go all who wait for it:
\* the tasks that are at a point freed of pc afterwards.
Freed(p) == {q \in Pids : pc[q] = "locked" /\ aim[q] = p}
WithoutMutex(p) == [q \in Pids |-> IF q \in Freed(p) THEN Past(q) ELSE pc[q]]

\* State 5: a dtor is taken out of its cell ...
TakeDtor(p) ==
  /\ InState(p, {5})
  /\ Goto(p, "stages", "dtor")
  /\ \E c \in proc[p].dtors :
       /\ aim' = [aim EXCEPT ![p] = c]
       /\ proc' = [proc EXCEPT ![p].dtors = @ \ {c}]
  /\ UNCHANGED <<back, lock, at, wid, conds, stopped, helper, history, ready>>

\* ... and destroys the mutex of a child.
RunDtor(p) ==
  LET c == aim[p]
  IN  /\ pc[p] = "dtor" /\ Runs(p)
      /\ pc' = [WithoutMutex(c) EXCEPT ![p] = "stages"]
      /\ ready' = ready \cup Freed(c)
      /\ cpu' = Occupy(p, cpu)
      /\ proc' = [proc EXCEPT ![c].critical = "none"]
      /\ UNCHANGED <<locals, conds, stopped, helper, history>>

Request(p) ==
  /\ requests' = Append(requests, [pid |-> p, life |-> lives[p], first |-> p \notin asked])
  /\ asked' = asked \cup {p}

\* Variant with a fault: the slot is given back before the task is deleted.
Stage8Frees(p) ==
  /\ InState(p, {8})
  /\ Goto(p, "stages", "asked")
  /\ proc' = [proc EXCEPT ![p].id = FALSE]
  /\ Request(p)
  /\ ready' = ready \cup {Helper}
  /\ UNCHANGED <<locals, conds, stopped, helping, history>>

\* State 8: SUBPROC(kill_process, _pid), and then kill_state++.
Stage8(p) ==
  /\ InState(p, {8})
  /\ Goto(p, "stages", "asked")
  /\ Request(p)
  /\ ready' = ready \cup {Helper}
  /\ UNCHANGED <<proc, locals, conds, stopped, helping, history>>

\* kill_state++, after the mutex, free(argv) or SUBPROC
StageDone(p) ==
  /\ \E from \in {"state0", "argv", "asked"} : Advance(p, from)
  /\ UNCHANGED <<locals, conds, stopped, helper, history, ready>>

\* After the last state the exit condition is withdrawn,
WithdrawExit(p) ==
  /\ InState(p, {11})
  /\ Goto(p, "stages", "wake")
  /\ wid' = [wid EXCEPT ![p] = proc[p].exit_wait]
  /\ proc' = [proc EXCEPT ![p].exit_wait = 0]
  /\ UNCHANGED <<back, lock, aim, at, conds, stopped, helper, history, ready>>

Waiters(p) == {q \in Pids : pc[q] = "wait" /\ aim[q] = p /\ wid[q] = wid[p]}

\* everybody who waits for the end of p is woken, one after the other,
WakeWaiter(p) ==
  /\ pc[p] = "wake" /\ Runs(p)
  /\ \E q \in Waiters(p) :
       /\ pc' = [pc EXCEPT ![q] = back[q]]
       /\ ready' = ready \cup {q}
  /\ cpu' = Occupy(p, cpu)
  /\ UNCHANGED <<proc, locals, conds, stopped, helper, history>>

\* Variant with a fault: the exit condition is withdrawn, nobody is woken.
DestroyNobodyWoken(p) ==
  /\ Goto(p, "wake", "resched")
  /\ UNCHANGED <<proc, locals, conds, stopped, helper, history, ready>>

\* and the condition is destroyed.
DestroyExit(p) ==
  /\ Waiters(p) = {}
  /\ Goto(p, "wake", "resched")
  /\ conds' = [conds EXCEPT ![p] = @ \ {wid[p]}]
  /\ UNCHANGED <<proc, locals, stopped, helper, history, ready>>

\* helperproc_schedule(kill_process, _pid) a second time, and NU_Sleep for ever
Reschedule(p) ==
  /\ pc[p] = "resched" /\ Runs(p)
  /\ pc' = [pc EXCEPT ![p] = "asleep"]
  /\ cpu' = GiveUp(p, cpu)
  /\ Request(p)
  /\ ready' = (ready \ {p}) \cup {Helper}
  /\ UNCHANGED <<proc, locals, conds, stopped, helping, history>>

-----------------------------------------------------------------------------
\* kill_process by the helper: the task is deleted, and destroyMutex lets the
\* killers that wait for the mutex go on, and takes the dtor from the parent ...
\* (bound: not while a process is created in that slot)
DeleteTask ==
  LET p == Head(requests).pid
  IN  /\ helping = NoPid /\ requests # << >> /\ proc[p].id
      /\ Runs(Helper) /\ \A q \in Pids : p \notin Orphaned(q)
      /\ requests' = Tail(requests)
      /\ helping' = p
      /\ pc' = [WithoutMutex(p) EXCEPT ![p] = "none"]
      /\ ready' = (ready \cup Freed(p)) \ {p}
      /\ stopped' = stopped \ {p}
      /\ cpu' = Occupy(Helper, Evict(p, cpu))
      /\ proc' = [q \in Pids |->
                    IF q = p THEN [proc[q] EXCEPT !.critical = "none"]
                    ELSE IF q = proc[p].ppid /\ proc[p].critical # "none"
                         THEN [proc[q] EXCEPT !.dtors = @ \ {p}]
                    ELSE proc[q]]
      /\ orphans' = orphans \cup Orphaned(p)
      /\ cut' = IF \/ Head(requests).life # lives[p] \/ p \in stopped
                   \/ pc[p] \in {"handled", "finished", "terminated", "unstarted"}
                THEN cut \cup {p} ELSE cut
      /\ UNCHANGED <<locals, conds, asked, lives, kills, stops, frees>>

\* The helper has done a request: it waits for the next one.
Done ==
  /\ ready' = IF requests' = << >> THEN ready \ {Helper} ELSE ready
  /\ cpu' = GiveUp(Helper, cpu)
  /\ UNCHANGED <<pc, locals, conds, stopped, asked, history>>

\* ... and freeCoreProcessData gives the slot back.
FreeSlot ==
  /\ helping # NoPid /\ Runs(Helper)
  /\ proc' = [proc EXCEPT ![helping].id = FALSE]
  /\ helping' = NoPid
  /\ UNCHANGED requests
  /\ Done

\* t.id != _pid: nothing to kill any more
DropRequest ==
  /\ helping = NoPid /\ requests # << >> /\ ~proc[Head(requests).pid].id
  /\ Runs(Helper)
  /\ requests' = Tail(requests)
  /\ UNCHANGED <<proc, helping>>
  /\ Done

HelperRuns == DeleteTask \/ FreeSlot \/ DropRequest

-----------------------------------------------------------------------------
\* The steps that a process is not free to put off; handlers return.
Create(q) ==
  FillSlot(q) \/ CreateTask(q) \/ CreateConds(q) \/ JoinParent(q) \/ StartTask(q)
KillAnother(q) ==
  \/ Lock(q) \/ Take(q) \/ Queue(q) \/ MarkMode(q) \/ MarkTerminated(q)
  \/ Terminate(q) \/ Reset(q) \/ Restart(q)
Stages(p) ==
  \/ Stage0(p) \/ Stage2(p) \/ StagePass(p) \/ Stage3(p) \/ KidKill(p) \/ KidWait(p)
  \/ KidNext(p) \/ TakeDtor(p) \/ RunDtor(p) \/ Stage8(p) \/ StageDone(p)
  \/ WithdrawExit(p) \/ WakeWaiter(p) \/ DestroyExit(p) \/ Reschedule(p)
Proceed(p) ==
  \/ Create(p) \/ Handle(p) \/ KillAnother(p) \/ Wait(p)
  \/ CallHandler(p) \/ KillImplAgain(p) \/ KillImpl(p) \/ Try(p) \/ Stages(p)

Next ==
  \/ \E p \in Pids :
       \/ NewProcess(p) \/ Exit(p) \/ Sleep(p) \/ WakeUp(p) \/ StrayReturns(p)
       \/ Signal(p) \/ Kill(p) \/ Stop(p) \/ Continue(p) \/ WaitForProcess(p)
       \/ Proceed(p)
  \/ HelperRuns

Spec == Init /\ [][Next]_vars

(***************************************************************************)
(* Tasks of one priority take turns when the one that runs suspends (the   *)
(* kernel keeps them in a FIFO).  The mains sleep: again and again all of  *)
(* them are asleep at once, which leaves time to less urgent tasks.        *)
(***************************************************************************)
MainsAsleep == \A p \in Pids : pc[p] \in {"main", "await"} => p \notin ready

Fairness ==
  /\ SF_vars(HelperRuns)
  /\ \A p \in Pids : SF_vars(Proceed(p) \/ (pc[p] = "handled" /\ WakeUp(p)))
  /\ []<>MainsAsleep

FairSpec == Spec /\ Fairness

-----------------------------------------------------------------------------
Dying(p) == proc[p].id /\ (proc[p].kill_mode \/ proc[p].terminated = 2)

\* However often and from wherever a kill is started over, argv is freed once.
ArgvFreedOnce == \A p \in Pids : frees[p] <= 1

\* A process that has passed state 3 of its death has no child that could
\* still run: each is gone or has nothing left but to wake its waiters and to
\* wait for the helper; unless its creation was cut short by a kill before it
\* was in the list.
ChildrenDieFirst ==
  \A p, q \in Pids :
    /\ proc[p].id /\ p \notin cut /\ proc[p].kill_state >= 4
    /\ proc[q].id /\ proc[q].ppid = p /\ q \notin orphans
    => proc[q].kill_state >= 11

\* When a slot is given back nobody is left waiting for the end of the
\* process that had it, nor for its mutex, unless that one was deleted before
\* it could wake anybody (by a late request of an earlier process, or because
\* it was stopped or otherwise held up after it had asked for its end), or was
\* killed again while it woke them.
NobodyLeftBehind ==
  \A p, q \in Pids :
    ~proc[p].id /\ p \notin cut /\ aim[q] = p => pc[q] \notin {"wait", "locked"}

\* kill_process deletes a process that has asked for it, after all that its
\* death does for others but to wake who waits for it; only a request that is
\* not the first of a process may find the slot taken again and delete the
\* next one in mid life, whose own request then comes too late in turn.
OwnRequest ==
  [][helping = NoPid /\ helping' # NoPid =>
       LET r == Head(requests)
       IN  r.first => (r.life = lives[r.pid] /\ proc[r.pid].kill_state >= 8) \/ r.pid \in cut]_vars

\* A process that is killed or returns from main is gone in the end, its pid
\* free again (where nothing is stopped).
KillCompletes == \A p \in Pids : Dying(p) ~> ~proc[p].id

\* waitForProcessFinished returns once the process it waits for has ended.
WaitersReturn ==
  \A p, q \in Pids :
    (pc[q] = "wait" /\ aim[q] = p /\ Dying(p)) ~> ~(pc[q] = "wait" /\ aim[q] = p)
=============================================================================
