----------------------------- MODULE CriticalCode -----------------------------
(***************************************************************************)
(* enterProcessCriticalCode and leaveProcessCriticalCode of                *)
(* CoreProc/process.c, the code that is put between them, above all        *)
(* createThread and destroyThread of CoreProc/thread.c, and the kill of    *)
(* the process, which takes the same mutex.                                *)
(*                                                                         *)
(* One process: its main, its threads, and tasks of other processes that   *)
(* kill it.  A step is a statement of the source that touches shared       *)
(* state; lockMutex and unlockMutex are single steps (CoreMutex takes them *)
(* apart).  The stages of kill_impl that do not concern threads are in     *)
(* Process.                                                                *)
(***************************************************************************)
EXTENDS Nucleus, Integers, FiniteSets, SequencesExt

CONSTANTS
  Main,        \* the task of the process
  MaxThreads,  \* the length of threads[]
  Killers,     \* tasks of other processes
  Jobs,        \* what the process does: "use", "create", "destroy", "exit", or some
  Users,       \* bound: the tasks that use critical code for something else
  MaxCreates,  \* bound: how many threads are ever listed
  MaxFails,    \* bound: how often NU_Create_Task fails
  MaxKills,    \* bound: how often the process is killed
  MaxLocks     \* bound: nobody begins to enter once locks is this high

Threads == 0..(MaxThreads - 1)
Clients == {Main} \cup Threads
Inodes == 1..MaxCreates

ASSUME CriticalCodeAssumption ==
  /\ {MaxThreads, MaxCreates, MaxFails, MaxKills, MaxLocks} \subseteq Nat
  /\ Jobs \subseteq {"use", "create", "destroy", "exit"} /\ Users \subseteq Clients
  /\ Tasks = Clients \cup Killers
  /\ Main \notin Threads \cup Killers /\ Threads \cap Killers = {}

NoTid == -1
NoInode == 0

VARIABLES
  locks, pid, tid,   \* proc->critical_code; pid tells whether it is set
  mutex,             \* critical_code.mutex: its counter and its semaphore
  line,              \* the tasks suspended on that semaphore
  kill_mode, terminated,
  kill_state,        \* 0, 3, 4, or 5 when every thread has been destroyed
  taken,             \* the slots of threads[] with an id
  list, tid_of,      \* proc->threads.list: its inodes, and their values
  inode_of,          \* ppid_list_inode of a thread
  cursor,            \* the inode that kill_impl is at
  pc, job, target,   \* where a task is, what for, and on which thread
  made, fails, kills,  \* history: inodes made, failures, kills
  ready, cpu         \* see Nucleus

critical_code == <<locks, pid, tid>>
semaphore == <<mutex, line>>
dying == <<kill_mode, terminated, kill_state, cursor>>
threads == <<taken, list, tid_of, inode_of, made, fails>>
vars == <<locks, pid, tid, mutex, line, kill_mode, terminated, kill_state, taken, list,
          tid_of, inode_of, cursor, pc, job, target, made, fails, kills, ready, cpu>>

Init ==
  /\ locks = 0 /\ pid = FALSE /\ tid = NoTid
  /\ mutex = [locks |-> 0, count |-> 0] /\ line = << >>
  /\ kill_mode = FALSE /\ terminated = 0 /\ kill_state = 0
  /\ taken = {} /\ list = << >>
  /\ tid_of = [i \in Inodes |-> NoTid] /\ inode_of = [t \in Threads |-> NoInode]
  /\ cursor = NoInode
  /\ pc = [t \in Tasks |-> IF t \in Threads THEN "none" ELSE "idle"]
  /\ job = [t \in Tasks |-> "none"] /\ target = [t \in Tasks |-> NoTid]
  /\ made = 0 /\ fails = 0 /\ kills = 0
  /\ ready = {Main} \cup Killers
  /\ cpu = IdleCpu

-----------------------------------------------------------------------------
\* Task t runs from one point to another.
Goto(t, from, to) ==
  /\ pc[t] = from
  /\ MayRun(t, ready, cpu)
  /\ pc' = [pc EXCEPT ![t] = to]
  /\ cpu' = Occupy(t, cpu)

Tid(t) == IF t \in Threads THEN t ELSE NoTid

\* kill_impl goes on with the next thread, everybody else with his own work.
Back(t) == IF t = Main /\ terminated = 2 THEN "next" ELSE "idle"

\* kill_process has not destroyed the mutex.
Alive == kill_state < 5

\* lockMutex, which fails unnoticed on a mutex that was destroyed
Lock(t) ==
  /\ Alive => mutex.locks <= 0 \/ mutex.count > 0
  /\ Goto(t, "lock", "mark")
  /\ mutex' = IF ~Alive THEN mutex
              ELSE [locks |-> mutex.locks + 1,
                    count |-> IF mutex.locks > 0 THEN mutex.count - 1 ELSE mutex.count]
  /\ UNCHANGED <<critical_code, line, dying, threads, job, target, kills, ready>>

LockWait(t) ==
  /\ Alive /\ mutex.locks > 0 /\ mutex.count = 0
  /\ pc[t] = "lock" /\ MayRun(t, ready, cpu)
  /\ pc' = [pc EXCEPT ![t] = "waiting"]
  /\ cpu' = GiveUp(t, cpu)
  /\ ready' = ready \ {t}
  /\ mutex' = [mutex EXCEPT !.locks = @ + 1]
  /\ line' = Enqueue(line, t)
  /\ UNCHANGED <<critical_code, dying, threads, job, target, kills>>

\* unlockMutex
Unlock(t) ==
  /\ pc[t] = "unlock" /\ MayRun(t, ready, cpu)
  /\ cpu' = Occupy(t, cpu)
  /\ IF mutex.locks > 1 /\ line # << >>
     THEN /\ line' = Tail(line)
          /\ ready' = ready \cup {Head(line)}
          /\ pc' = [pc EXCEPT ![t] = "unmark", ![Head(line)] = "mark"]
     ELSE /\ pc' = [pc EXCEPT ![t] = "unmark"]
          /\ UNCHANGED <<line, ready>>
  /\ mutex' = [mutex EXCEPT !.locks = @ - 1,
                            !.count = IF mutex.locks > 1 /\ line = << >> THEN @ + 1 ELSE @]
  /\ UNCHANGED <<critical_code, dying, threads, job, target, kills>>

\* Variant with a fault: a killer does not record that it has the mutex.
MarkNoKill(t) ==
  /\ Goto(t, "mark", CASE job[t] = "kill" -> "hit"
                       [] job[t] = "exit" -> "children"
                       [] OTHER -> "inside")
  /\ pid' = (job[t] # "kill")
  /\ tid' = IF job[t] # "kill" THEN Tid(t) ELSE NoTid
  /\ kill_state' = IF job[t] = "exit" THEN 3 ELSE kill_state
  /\ UNCHANGED <<locks, semaphore, kill_mode, terminated, cursor, threads, job, target,
                 kills, ready>>

\* critical_code.pid and .tid after lockMutex, of a client, a killer, or of
\* the main that has returned (state 0 of kill_impl)
Mark(t) ==
  /\ Goto(t, "mark", CASE job[t] = "kill" -> "hit"
                       [] job[t] = "exit" -> "children"
                       [] OTHER -> "inside")
  /\ pid' = TRUE
  /\ tid' = IF job[t] = "exit" THEN NoTid ELSE Tid(t)
  /\ kill_state' = IF job[t] = "exit" THEN 3 ELSE kill_state
  /\ UNCHANGED <<locks, semaphore, kill_mode, terminated, cursor, threads, job, target,
                 kills, ready>>

-----------------------------------------------------------------------------
\* enterProcessCriticalCode by task t, from a point: only the first one in
\* locks the mutex, and not if the process or the thread has it already.
Enter(t, from) ==
  LET mine == tid > NoTid /\ tid = Tid(t)
  IN  /\ Goto(t, from, IF locks = 0 /\ ~mine /\ ~pid THEN "lock" ELSE "inside")
      /\ locks' = locks + 1
      /\ UNCHANGED <<pid, tid, semaphore, dying, threads, kills, ready>>

\* A client calls something that enters critical code; destroyThread of a
\* thread other than itself looks at its id first.
Begin(t) ==
  /\ locks < MaxLocks
  /\ \/ \E j \in Jobs \cap {"use", "create"} :
          /\ j = "create" => made < MaxCreates
          /\ j = "use" => t \in Users
          /\ Enter(t, "idle")
          /\ job' = [job EXCEPT ![t] = j]
          /\ UNCHANGED target
     \/ \E u \in taken \ {t} :
          /\ "destroy" \in Jobs /\ pc[u] # "none"
          /\ Enter(t, "idle")
          /\ job' = [job EXCEPT ![t] = "destroy"]
          /\ target' = [target EXCEPT ![t] = u]

\* leaveProcessCriticalCode: locks--, unlockMutex, and then the record
Leave(t) ==
  /\ Goto(t, "leave", IF locks <= 1 THEN "unlock" ELSE Back(t))
  /\ locks' = locks - 1
  /\ UNCHANGED <<pid, tid, semaphore, dying, threads, job, target, kills, ready>>

Unmark(t) ==
  /\ Goto(t, "unmark", Back(t))
  /\ pid' = FALSE /\ tid' = NoTid
  /\ UNCHANGED <<locks, semaphore, dying, threads, job, target, kills, ready>>

\* What other components do in critical code may sleep there.
Use(t) ==
  /\ job[t] = "use"
  /\ Goto(t, "inside", "leave")
  /\ UNCHANGED <<critical_code, semaphore, dying, threads, job, target, kills, ready>>

-----------------------------------------------------------------------------
\* createConfigurableThread: while the process is being killed it returns
\* without leaving the critical code.
CreateRefused(t) ==
  /\ job[t] = "create" /\ terminated > 0
  /\ Goto(t, "inside", Back(t))
  /\ UNCHANGED <<critical_code, semaphore, dying, threads, job, target, kills, ready>>

\* newCoreThreadData: the first free slot
NewThread(t) ==
  LET free == Threads \ taken
      u == CHOOSE v \in free : \A w \in free : v <= w
  IN  /\ job[t] = "create" /\ terminated = 0 /\ made < MaxCreates
      /\ Goto(t, "inside", IF free = {} THEN "leave" ELSE "add")
      /\ taken' = IF free = {} THEN taken ELSE taken \cup {u}
      /\ target' = [target EXCEPT ![t] = IF free = {} THEN NoTid ELSE u]
      /\ UNCHANGED <<critical_code, semaphore, dying, list, tid_of, inode_of, made, fails,
                     job, kills, ready>>

\* addProcessThread
AddThread(t) ==
  /\ Goto(t, "add", "start")
  /\ made' = made + 1
  /\ list' = Append(list, made + 1)
  /\ tid_of' = [tid_of EXCEPT ![made + 1] = target[t]]
  /\ inode_of' = [inode_of EXCEPT ![target[t]] = made + 1]
  /\ UNCHANGED <<critical_code, semaphore, dying, taken, fails, job, target, kills, ready>>

\* NU_Create_Task and NU_Resume_Task
StartThread(t) ==
  /\ pc[t] = "start" /\ MayRun(t, ready, cpu)
  /\ pc' = [pc EXCEPT ![t] = "leave", ![target[t]] = "idle"]
  /\ cpu' = Occupy(t, cpu)
  /\ job' = [job EXCEPT ![target[t]] = "none"]
  /\ ready' = ready \cup {target[t]}
  /\ UNCHANGED <<critical_code, semaphore, dying, threads, target, kills>>

\* NU_Create_Task fails: the slot is free again, the inode stays in the list.
StartFails(t) ==
  /\ fails < MaxFails
  /\ Goto(t, "start", "leave")
  /\ fails' = fails + 1
  /\ taken' = taken \ {target[t]}
  /\ UNCHANGED <<critical_code, semaphore, dying, list, tid_of, inode_of, made, job, target,
                 kills, ready>>

\* destroyThread: the task is terminated wherever it is and deleted ...
DestroyThread(t) ==
  LET u == target[t]
  IN  /\ job[t] = "destroy"
      /\ pc[t] = "inside" /\ MayRun(t, ready, cpu)
      /\ pc' = [pc EXCEPT ![t] = "remove", ![u] = "none"]
      /\ cpu' = Occupy(t, Evict(u, cpu))
      /\ ready' = ready \ {u}
      /\ line' = RemoveFirst(line, u)
      /\ UNCHANGED <<critical_code, mutex, dying, threads, job, target, kills>>

\* ... its inode removed, and the slot freed.
RemoveThread(t) ==
  LET u == target[t]
  IN  /\ Goto(t, "remove", "leave")
      /\ list' = RemoveFirst(list, inode_of[u])
      /\ inode_of' = [inode_of EXCEPT ![u] = NoInode]
      /\ taken' = taken \ {u}
      /\ UNCHANGED <<critical_code, semaphore, dying, tid_of, made, fails, job, target,
                     kills, ready>>

-----------------------------------------------------------------------------
\* Variant with a fault: the killer does not take the mutex.
KillUnlocked(t) ==
  /\ Alive /\ kills < MaxKills
  /\ Goto(t, "idle", "hit")
  /\ kills' = kills + 1
  /\ job' = [job EXCEPT ![t] = "kill"]
  /\ UNCHANGED <<critical_code, semaphore, dying, threads, target, ready>>

\* kill_hisr_chek by a task of another process or by a thread: a process in
\* kill_impl is not locked again.
Kill(t) ==
  /\ Alive /\ kills < MaxKills
  /\ Goto(t, "idle", IF terminated = 2 THEN "hit" ELSE "lock")
  /\ kills' = kills + 1
  /\ job' = [job EXCEPT ![t] = "kill"]
  /\ UNCHANGED <<critical_code, semaphore, dying, threads, target, ready>>

\* NU_Terminate_Task, NU_Reset_Task and NU_Resume_Task of the main
Hit(t) ==
  /\ pc[t] = "hit" /\ MayRun(t, ready, cpu)
  /\ kill_mode' = TRUE
  /\ terminated' = 1
  /\ pc' = [pc EXCEPT ![t] = "idle", ![Main] = IF @ = "none" THEN @ ELSE "begin"]
  /\ line' = RemoveFirst(line, Main)
  /\ ready' = IF pc[Main] = "none" THEN ready ELSE ready \cup {Main}
  /\ cpu' = Occupy(t, Evict(Main, cpu))
  /\ UNCHANGED <<critical_code, mutex, kill_state, cursor, threads, job, target, kills>>

\* kill_impl(..., 1) after main has returned: state 0
Exit ==
  /\ "exit" \in Jobs
  /\ Goto(Main, "idle", "lock")
  /\ terminated' = 2
  /\ job' = [job EXCEPT ![Main] = "exit"]
  /\ UNCHANGED <<critical_code, semaphore, kill_mode, kill_state, cursor, threads, target,
                 kills, ready>>

\* kill_impl(..., 0) after the reset
KillImpl ==
  /\ Goto(Main, "begin", IF kill_state = 4 THEN "walk" ELSE "children")
  /\ terminated' = 2
  /\ kill_state' = IF kill_state = 0 THEN 3 ELSE kill_state
  /\ UNCHANGED <<critical_code, semaphore, kill_mode, cursor, threads, job, target, kills,
                 ready>>

\* State 4: to an inode of the list, or out of the loop.  Then the process
\* is deleted; destroyMutex lets the killers that wait for it go.
WalkTo(from, inode) ==
  /\ pc[Main] = from /\ MayRun(Main, ready, cpu)
  /\ cursor' = inode
  /\ IF inode = NoInode
     THEN /\ kill_state' = 5
          /\ pc' = [t \in Tasks |-> IF t = Main THEN "none"
                                    ELSE IF pc[t] = "waiting" THEN "mark" ELSE pc[t]]
          /\ line' = << >>
          /\ ready' = (ready \cup ToSet(line)) \ {Main}
          /\ cpu' = GiveUp(Main, cpu)
          /\ UNCHANGED <<job, target>>
     ELSE /\ pc' = [pc EXCEPT ![Main] = "destroy"]
          /\ cpu' = Occupy(Main, cpu)
          /\ job' = [job EXCEPT ![Main] = "destroy"]
          /\ target' = [target EXCEPT ![Main] = tid_of[inode]]
          /\ kill_state' = 4
          /\ UNCHANGED <<line, ready>>
  /\ UNCHANGED <<critical_code, mutex, kill_mode, terminated, threads, kills>>

FirstInode == IF list = << >> THEN NoInode ELSE Head(list)

\* inode->next of the first inode
SecondInode == IF Len(list) > 1 THEN list[2] ELSE NoInode

\* State 3, when no child keeps it waiting
Children ==
  /\ Goto(Main, "children", "walk")
  /\ UNCHANGED <<critical_code, semaphore, dying, threads, job, target, kills, ready>>

Walk == WalkTo("walk", FirstInode)

\* Variant with a fault: the list is not walked again from its start.
WalkOnce == WalkTo("next", NoInode)

\* The first inode is looked at again when the one just done is not it.
WalkNext == WalkTo("next", IF cursor = FirstInode THEN SecondInode ELSE FirstInode)

\* destroyThread of the thread at the cursor
DestroyNext ==
  IF target[Main] \in taken
  THEN /\ Enter(Main, "destroy")
       /\ UNCHANGED <<job, target>>
  ELSE /\ Goto(Main, "destroy", "next")
       /\ UNCHANGED <<critical_code, semaphore, dying, threads, job, target, kills, ready>>

-----------------------------------------------------------------------------
\* thread_handle returns.
End(t) ==
  /\ pc[t] = "idle" /\ MayRun(t, ready, cpu)
  /\ pc' = [pc EXCEPT ![t] = "ended"]
  /\ ready' = ready \ {t}
  /\ cpu' = GiveUp(t, cpu)
  /\ UNCHANGED <<critical_code, semaphore, dying, threads, job, target, kills>>

\* A task sleeps in its own work or once in critical code, and a dying main
\* waits for its child processes (state 3); then it wakes up.
Sleep(t) ==
  /\ \/ pc[t] = "idle" /\ UNCHANGED pc
     \/ pc[t] = "inside" /\ job[t] = "use" /\ pc' = [pc EXCEPT ![t] = "leave"]
     \/ pc[t] = "children" /\ pc' = [pc EXCEPT ![t] = "walk"]
  /\ MayRun(t, ready, cpu)
  /\ ready' = ready \ {t}
  /\ cpu' = GiveUp(t, cpu)
  /\ UNCHANGED <<critical_code, semaphore, dying, threads, job, target, kills>>

WakeUp(t) ==
  /\ t \notin ready
  /\ pc[t] \in {"idle", "leave", "walk"}
  /\ ready' = ready \cup {t}
  /\ UNCHANGED <<critical_code, semaphore, dying, threads, pc, job, target, kills, cpu>>

\* The steps that a task is not free to put off
Proceed(t) ==
  \/ Lock(t) \/ LockWait(t) \/ Mark(t) \/ Leave(t) \/ Unlock(t) \/ Unmark(t)
  \/ Use(t)
  \/ CreateRefused(t) \/ NewThread(t) \/ AddThread(t) \/ StartThread(t) \/ StartFails(t)
  \/ DestroyThread(t) \/ RemoveThread(t)
  \/ Hit(t)

KillProceeds == KillImpl \/ Children \/ Walk \/ WalkNext \/ DestroyNext

Next ==
  \/ \E t \in Tasks : Proceed(t) \/ Sleep(t) \/ WakeUp(t)
  \/ \E t \in Clients : Begin(t)
  \/ \E t \in Threads : End(t)
  \/ \E t \in Tasks \ {Main} : Kill(t)
  \/ Exit
  \/ KillProceeds

Spec == Init /\ [][Next]_vars

(***************************************************************************)
(* A task that is inside critical code or a kill goes on whenever its turn *)
(* comes again and again (the kernel keeps tasks of one priority in a      *)
(* FIFO), a sleep there ends, and no task keeps the processor for ever.    *)
(***************************************************************************)
Forced(t) ==
  \/ Proceed(t)
  \/ t = Main /\ KillProceeds
  \/ pc[t] # "idle" /\ WakeUp(t)

Fairness ==
  /\ \A t \in Tasks : SF_vars(Forced(t))
  /\ []<>(cpu = IdleCpu)

FairSpec == Spec /\ Fairness

-----------------------------------------------------------------------------
\* When the death of the process has passed state 4, no thread of it is left
\* that could still run, however the threads were creating and destroying
\* each other when the kill came, and no slot of threads[] is lost.
NoThreadSurvives ==
  kill_state = 5 => taken = {} /\ \A t \in Threads : pc[t] = "none"

\* A kill does not tear the main of a living process out of critical code,
\* which could not be finished any more.  It is claimed of a process without
\* threads: of two clients the second is not protected, because the kill can
\* get the mutex between the first one's leave and its next enter.
KillSparesMain ==
  [][made = 0 /\ terminated = 0 /\ terminated' = 1
       => pc[Main] \notin {"inside", "add", "start", "remove", "leave"}]_vars

\* A process that is killed before its main returns gets past the killing of
\* its threads, whoever holds the mutex when the kill comes.  It is claimed
\* of a process that has not had a second thread: one that destroys a killer
\* to which main has just handed the mutex takes it away for ever.
KillCompletes ==
  kill_mode /\ kill_state = 0 /\ job[Main] # "exit" /\ made <= 1
    ~> kill_state = 5 \/ made > 1
=============================================================================
