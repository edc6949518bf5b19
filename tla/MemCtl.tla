-------------------------------- MODULE MemCtl --------------------------------
(***************************************************************************)
(* CoreProc/memctl.c: the list of the memory blocks of one process, which  *)
(* its main and its threads change under a mutex and which its death goes  *)
(* through to free what is left.  malloc, free and realloc of a program    *)
(* end up here (dietlibc, directswicall.h).                                *)
(*                                                                         *)
(* The mutex is CoreMutex, step by step; the statements inside it are      *)
(* steps too, since the calls are no critical code: a more urgent process  *)
(* may kill the caller between any two of them, and the main does not wait *)
(* for its threads to come out when it dies.  createMutex has registered   *)
(* destroyMutex with the process: the mutex is gone, whoever had it, when  *)
(* the death comes to the list, and its lockMutex returns -1 at once.      *)
(* Only a kill between the two steps of state 5 leaves it there.  The      *)
(* model stops where two tasks are in the list together (Clash), which     *)
(* CoreMutex does not rule out for tasks of different priorities.          *)
(***************************************************************************)
EXTENDS CoreMutex, CoreList

CONSTANTS
  Main,      \* the task of the process; the other tasks are its threads
  MaxAddr,   \* bound: how many blocks the heap has room for
  MaxCalls,  \* bound: how often memory is asked for
  MaxKills   \* bound: how often the process is killed

ASSUME MemCtlAssumption ==
  /\ Main \in Tasks
  /\ {MaxAddr, MaxCalls, MaxKills, MaxInodes} \subseteq Nat

Addrs == 1..MaxAddr

VARIABLES
  heap,      \* what the firmware's heap has at each address: "free", "malloc", "ws"
  list,      \* mblock->list
  block,     \* the memory_block whose address is self of that inode, or NoBlock
  mblock,    \* whether the memory_blocked_data of the process is allocated
  dtor,      \* whether destroyMutex of its mutex is among the dtors of the process
  held,      \* the blocks that the program has and may free or reallocate
  at,        \* the call that each task is in, and where
  ptr, inode,  \* its local variables
  dying,     \* whether the process has come to kill_impl
  fork,      \* the copy that onClose goes through, as far as it is left
  calls, kills,  \* history: how much memory was asked for, kills
  lost,      \* history: blocks that a kill has caught between malloc and push_back
  unlisted,  \* history: blocks whose realloc has failed, and that are not in the list
  hit,       \* history: a task was killed while it had the mutex or changed the list
  late,      \* history: a kill has caught onClose of a later resource
  odd,       \* history: an unlisted block was reallocated
  skipped    \* history: a kill has kept state 5 from destroying the mutex

memory == <<heap, list, block, mblock, dtor, held, calls>>
place == <<at, ptr, inode, dying, fork>>
history == <<kills, lost, unlisted, hit, late, odd, skipped>>
memVars == <<memory, place, history>>

NoBlock == [ptr |-> 0, destroy |-> "none"]

Allocs == {"memoryAlloc", "alloc_ws"}
Frees == {"memoryFree", "free_ws"}

\* The kind of block that each call is about
Kind(name) == IF name \in {"alloc_ws", "free_ws"} THEN "ws" ELSE "malloc"
MemInit ==
  /\ Init
  /\ heap = [a \in Addrs |-> "free"]
  /\ list = corelist_init
  /\ block = [n \in Inodes |-> NoBlock]
  /\ mblock = FALSE /\ dtor = FALSE
  /\ held = {}
  /\ at = [t \in Tasks |-> IF t = Main THEN "onCreate" ELSE "client"]
  /\ ptr = [t \in Tasks |-> 0] /\ inode = [t \in Tasks |-> 0]
  /\ dying = FALSE /\ fork = << >>
  /\ calls = 0 /\ kills = 0 /\ lost = {} /\ unlisted = {}
  /\ hit = FALSE /\ late = FALSE /\ odd = FALSE /\ skipped = FALSE

-----------------------------------------------------------------------------
\* Two tasks are between lockMutex and unlockMutex.
Clash == \E t, u \in Tasks : t # u /\ Owns(t) /\ Owns(u)

\* Task t computes, between calls of the mutex or while it has it.
Compute(t, point) == ~Clash /\ Goto(t, point, point) /\ UNCHANGED <<mutexVars, reg, ready>>

\* Task t computes and is past lockMutex: it has the mutex, or there is none
\* any more and the -1 of lockMutex is not looked at.
PastLock(t) == Compute(t, IF used THEN "critical" ELSE "idle")

Local(t, to, p, n) ==
  /\ at' = [at EXCEPT ![t] = to]
  /\ ptr' = [ptr EXCEPT ![t] = p]
  /\ inode' = [inode EXCEPT ![t] = n]

\* destroyMutex(&mblock->mutex), which takes itself out of the dtors; it may
\* have been called before.
Destroy ==
  \/ used /\ DestroyMutex(Main) /\ dtor' = FALSE
  \/ ~used /\ Compute(Main, "idle") /\ UNCHANGED dtor

\* Variant with a fault: the mutex is not registered with the process.
onCreateUnregistered ==
  /\ at[Main] = "onCreate"
  /\ CreateMutex(Main)
  /\ list' = corelist_init /\ mblock' = TRUE
  /\ at' = [at EXCEPT ![Main] = "client"]
  /\ UNCHANGED <<heap, block, dtor, held, calls, ptr, inode, dying, fork, history>>

\* attachResCtl calls onCreate before the main of the process.  createMutex
\* registers destroyMutex with the process; it does nothing where the memory
\* fresh from malloc says that the mutex is in use, and the model stops there.
onCreate ==
  /\ at[Main] = "onCreate"
  /\ \/ /\ CreateMutex(Main)
        /\ dtor' = TRUE
        /\ list' = corelist_init /\ mblock' = TRUE
        /\ at' = [at EXCEPT ![Main] = "client"]
     \/ /\ Compute(Main, "idle")
        /\ at' = [at EXCEPT ![Main] = "bare"]
        /\ UNCHANGED <<list, mblock, dtor>>
  /\ UNCHANGED <<heap, block, held, calls, ptr, inode, dying, fork, history>>

\* The first inode and memory_block that nobody uses; there may be none left
\* for this instance.
FreeInode == {n \in Inodes : block[n] = NoBlock /\ \A m \in 1..(n - 1) : block[m] # NoBlock}

\* memoryAlloc and alloc_ws up to the lock: the block and its memory_block,
\* whose place in the list is n.  malloc may fail, which memoryAlloc does not
\* look at and alloc_ws does.
Alloc(t, name) ==
  /\ at[t] = "client" /\ mblock /\ calls < MaxCalls
  /\ Compute(t, "idle")
  /\ calls' = calls + 1
  /\ \/ \E a \in Addrs, n \in FreeInode :
          /\ heap[a] = "free"
          /\ heap' = [heap EXCEPT ![a] = Kind(name)]
          /\ block' = [block EXCEPT ![n] =
                         [ptr |-> a, destroy |-> IF name = "alloc_ws" THEN "free_ws" ELSE "memoryFree"]]
          /\ Local(t, name, a, n)
     \/ \E n \in FreeInode :
          /\ name = "memoryAlloc"
          /\ block' = [block EXCEPT ![n] = [ptr |-> 0, destroy |-> "memoryFree"]]
          /\ Local(t, name, 0, n)
          /\ UNCHANGED heap
  /\ UNCHANGED <<list, mblock, dtor, held, dying, fork, history>>

\* The program has no use for a block any more, or wants more of it.
Free(t) ==
  /\ at[t] = "client" /\ mblock
  /\ Compute(t, "idle")
  /\ \E a \in held :
       /\ held' = held \ {a}
       /\ Local(t, IF heap[a] = "ws" THEN "free_ws" ELSE "memoryFree", a, 0)
  /\ UNCHANGED <<heap, list, block, mblock, dtor, calls, dying, fork, history>>

Realloc(t) ==
  /\ at[t] = "client" /\ mblock /\ calls < MaxCalls
  /\ Compute(t, "idle")
  /\ calls' = calls + 1
  /\ \E a \in held :
       /\ heap[a] = "malloc"
       /\ held' = held \ {a}
       /\ Local(t, "memoryRealloc", a, 0)
  /\ UNCHANGED <<heap, list, block, mblock, dtor, dying, fork, history>>

\* lockMutex(&mblock->mutex), the steps of lock and unlock, unlockMutex
EnterList(t) ==
  /\ at[t] \in Allocs \cup Frees \cup {"memoryRealloc"}
  /\ ~Clash /\ CallLock(t)
  /\ UNCHANGED memVars

InMutex(t) == ~Clash /\ Continue(t) /\ UNCHANGED memVars

LeaveList(t) ==
  /\ at[t] = "leave"
  /\ \/ used /\ ~Clash /\ CallUnlock(t)
     \/ ~used /\ Compute(t, "idle")
  /\ at' = [at EXCEPT ![t] = "return"]
  /\ UNCHANGED <<memory, ptr, inode, dying, fork, history>>

-----------------------------------------------------------------------------
\* corelist_push_back(list, b)
PushBack(t) ==
  /\ at[t] \in Allocs
  /\ PastLock(t)
  /\ list' = corelist_push_back(list, inode[t], inode[t])
  /\ Local(t, "leave", ptr[t], 0)
  /\ UNCHANGED <<heap, block, mblock, dtor, held, calls, dying, fork, history>>

\* The last inode whose memory_block has the address, or null
findPtrInode(a) ==
  LET way == corelist_back_foreach(list)
      found == {k \in DOMAIN way :
                  list.self[way[k]] # 0 /\ block[list.self[way[k]]].ptr = a}
  IN  IF found = {} THEN 0 ELSE way[Min(found)]

\* memoryFree and free_ws: free(b), where free_ws takes it out of the inode
FreeBlock(t) ==
  LET n == findPtrInode(ptr[t])
  IN  /\ at[t] \in Frees
      /\ PastLock(t)
      /\ block' = IF n = 0 THEN block ELSE [block EXCEPT ![list.self[n]] = NoBlock]
      /\ list' = IF n = 0 \/ at[t] = "memoryFree" THEN list ELSE [list EXCEPT !.self[n] = 0]
      /\ Local(t, "free", ptr[t], n)
      /\ UNCHANGED <<heap, mblock, dtor, held, calls, dying, fork, history>>

\* ... free(ptr), also of a block that is not in the list,
FreePtr(t) ==
  /\ at[t] = "free"
  /\ PastLock(t)
  /\ heap' = [heap EXCEPT ![ptr[t]] = "free"]
  /\ unlisted' = unlisted \ {ptr[t]}
  /\ Local(t, "unlink", 0, inode[t])
  /\ UNCHANGED <<list, block, mblock, dtor, held, calls, dying, fork>>
  /\ UNCHANGED <<kills, lost, hit, late, odd, skipped>>

\* Variant with a fault: the inode stays in the list.
UnlinkNothing(t) ==
  /\ at[t] = "unlink"
  /\ PastLock(t)
  /\ Local(t, "leave", 0, 0)
  /\ UNCHANGED <<memory, dying, fork, history>>

\* ... and corelist_del_inode(list, inode).
Unlink(t) ==
  /\ at[t] = "unlink"
  /\ PastLock(t)
  /\ list' = corelist_del_inode(list, inode[t])
  /\ Local(t, "leave", 0, 0)
  /\ UNCHANGED <<heap, block, mblock, dtor, held, calls, dying, fork, history>>

\* memoryRealloc: an address that is not in the list gets an inode, with a
\* memory_block whose destroy is not set; realloc may move the block, or
\* fail and leave it ...
ReallocMove(t) ==
  LET a == ptr[t]
      found == findPtrInode(a)
  IN  /\ at[t] = "memoryRealloc"
      /\ PastLock(t)
      /\ \E n \in IF found = 0 THEN FreeInode ELSE {found} :
           /\ list' = IF found = 0 THEN corelist_push_back(list, n, n) ELSE list
           /\ block' = IF found = 0 THEN [block EXCEPT ![n] = [ptr |-> a, destroy |-> "unset"]]
                       ELSE block
           /\ \/ \E b \in Addrs :
                   /\ b = a \/ heap[b] = "free"
                   /\ heap' = [heap EXCEPT ![a] = "free", ![b] = "malloc"]
                   /\ Local(t, "store", b, n)
                   /\ odd' = (odd \/ found = 0)
                   /\ unlisted' = unlisted \ {a}
                   /\ UNCHANGED held
              \/ /\ Local(t, "store", 0, n)
                 /\ held' = held \cup {a}
                 /\ unlisted' = unlisted \cup {a}
                 /\ odd' = (odd \/ found = 0)
                 /\ UNCHANGED heap
      /\ UNCHANGED <<mblock, dtor, calls, dying, fork, kills, lost, hit, late, skipped>>

\* Variant with a fault: the list keeps the old address.
ReallocStoreNothing(t) ==
  /\ at[t] = "store"
  /\ PastLock(t)
  /\ Local(t, "leave", ptr[t], 0)
  /\ UNCHANGED <<memory, dying, fork, history>>

\* ... and b->ptr = ptr, whatever it is.
ReallocStore(t) ==
  /\ at[t] = "store"
  /\ PastLock(t)
  /\ block' = [block EXCEPT ![list.self[inode[t]]].ptr = ptr[t]]
  /\ Local(t, "leave", ptr[t], 0)
  /\ UNCHANGED <<heap, list, mblock, dtor, held, calls, dying, fork, history>>

\* The call returns to the program, or to onClose of the main.
Return(t) ==
  /\ at[t] = "return"
  /\ Compute(t, "idle")
  /\ held' = held \cup ({ptr[t]} \ {0})
  /\ Local(t, IF dying /\ t = Main THEN "onClose" ELSE "client", 0, 0)
  /\ UNCHANGED <<heap, list, block, mblock, dtor, calls, dying, fork, history>>

-----------------------------------------------------------------------------
\* A task that a kill catches in the list
InTheList(t) == Owns(t) \/ at[t] \in {"free", "unlink", "store"}

\* What is left in the hands of a task that is terminated.
Dropped(t) == IF at[t] \in Allocs THEN {ptr[t]} \ {0} ELSE {}

\* The process returns from main, or
Exit ==
  /\ at[Main] = "client" /\ mblock
  /\ Compute(Main, "idle")
  /\ dying' = TRUE
  /\ at' = [at EXCEPT ![Main] = "dying"]
  /\ UNCHANGED <<memory, ptr, inode, fork, history>>

\* is killed, which resets its task; after a second kill the death begins
\* again with the state that it was in.
Kill ==
  /\ kills < MaxKills
  /\ at[Main] \notin {"onCreate", "bare", "wild", "dead"}
  /\ kills' = kills + 1
  /\ pc' = [pc EXCEPT ![Main] = "idle"]
  /\ reg' = [reg EXCEPT ![Main] = 0]
  /\ waiters' = SelectSeq(waiters, LAMBDA t : t # Main)
  /\ ready' = ready \cup {Main}
  /\ cpu' = Evict(Main, cpu)
  /\ dying' = TRUE /\ fork' = << >>
  /\ Local(Main, "dying", 0, 0)
  /\ lost' = lost \cup Dropped(Main)
  /\ hit' = (hit \/ InTheList(Main))
  /\ late' = (late \/ at[Main] = "closed")
  /\ skipped' = (skipped \/ at[Main] = "destroy")
  /\ UNCHANGED <<used, locks, count, memory, unlisted, odd>>

\* State 4 of kill_impl: destroyThread of each, wherever it is.
DestroyThreads ==
  /\ at[Main] = "dying"
  /\ MayRun(Main, ready, cpu)
  /\ pc' = [t \in Tasks |-> "idle"] /\ reg' = [t \in Tasks |-> 0]
  /\ waiters' = << >>
  /\ ready' = {Main} /\ cpu' = [IdleCpu EXCEPT ![Prio[Main]] = Main]
  /\ at' = [t \in Tasks |-> IF t = Main THEN "dtors" ELSE "none"]
  /\ ptr' = [t \in Tasks |-> 0] /\ inode' = [t \in Tasks |-> 0]
  /\ lost' = lost \cup UNION {Dropped(t) : t \in Tasks}
  /\ hit' = (hit \/ \E t \in Tasks : InTheList(t))
  /\ UNCHANGED <<used, locks, count, memory, dying, fork, kills, unlisted, late, odd, skipped>>

\* State 5 takes the dtor out of its cell,
TakeDtor ==
  /\ at[Main] = "dtors"
  /\ Compute(Main, "idle")
  /\ at' = [at EXCEPT ![Main] = IF dtor THEN "destroy" ELSE "fork"]
  /\ dtor' = FALSE
  /\ UNCHANGED <<heap, list, block, mblock, held, calls, ptr, inode, dying, fork, history>>

\* and calls it; state 6 is about nothing of this module.
RunDtor ==
  /\ at[Main] = "destroy"
  /\ Destroy
  /\ at' = [at EXCEPT ![Main] = "fork"]
  /\ UNCHANGED <<heap, list, block, mblock, held, calls, ptr, inode, dying, fork, history>>

\* State 7, onClose: a copy of the list is made (of whatever is there, if the
\* data have been freed), and each block in it destroyed; the memory_block of
\* a block may be gone, or never have been filled in.
Fork ==
  /\ at[Main] = "fork"
  /\ Compute(Main, "idle")
  /\ fork' = IF mblock THEN corelist_fork(list) ELSE << >>
  /\ at' = [at EXCEPT ![Main] = IF mblock THEN "onClose" ELSE "wild"]
  /\ UNCHANGED <<memory, ptr, inode, dying, history>>

onClose ==
  LET self == Head(fork)
  IN  /\ at[Main] = "onClose" /\ fork # << >>
      /\ Compute(Main, "idle")
      /\ fork' = Tail(fork)
      /\ \/ /\ self = 0
            /\ UNCHANGED <<at, ptr>>
         \/ /\ self # 0 /\ block[self].destroy \notin Frees
            /\ at' = [at EXCEPT ![Main] = "wild"]
            /\ UNCHANGED ptr
         \/ /\ self # 0 /\ block[self].destroy \in Frees
            /\ at' = [at EXCEPT ![Main] = IF block[self].ptr = 0 THEN @ ELSE block[self].destroy]
            /\ ptr' = [ptr EXCEPT ![Main] = block[self].ptr]
      /\ UNCHANGED <<memory, inode, dying, history>>

\* The copy and the list are released, and destroyMutex is called once more.
CloseMutex ==
  /\ at[Main] = "onClose" /\ fork = << >>
  /\ Destroy
  /\ at' = [at EXCEPT ![Main] = "closing"]
  /\ UNCHANGED <<heap, list, block, mblock, held, calls, ptr, inode, dying, fork, history>>

\* free(mblock); onClose of the other resources follows.
FreeList ==
  /\ at[Main] = "closing"
  /\ Compute(Main, "idle")
  /\ mblock' = FALSE
  /\ at' = [at EXCEPT ![Main] = "closed"]
  /\ UNCHANGED <<heap, list, block, dtor, held, calls, ptr, inode, dying, fork, history>>

\* ... and with kill_state++ state 7 is over.
StateDone ==
  /\ at[Main] = "closed"
  /\ Compute(Main, "idle")
  /\ at' = [at EXCEPT ![Main] = "dead"]
  /\ UNCHANGED <<memory, ptr, inode, dying, fork, history>>

-----------------------------------------------------------------------------
\* Programs sleep between calls.
SleepClient(t) == at[t] = "client" /\ pc[t] = "idle" /\ Sleep(t) /\ UNCHANGED memVars
WakeUpClient(t) == at[t] = "client" /\ WakeUp(t) /\ UNCHANGED memVars

\* The steps of the calls that have begun
Step(t) ==
  \/ EnterList(t) \/ InMutex(t) \/ LeaveList(t) \/ Return(t)
  \/ PushBack(t) \/ FreeBlock(t) \/ FreePtr(t) \/ Unlink(t)
  \/ ReallocMove(t) \/ ReallocStore(t)

Die ==
  \/ DestroyThreads \/ TakeDtor \/ RunDtor
  \/ Fork \/ onClose \/ CloseMutex \/ FreeList \/ StateDone

MemNext ==
  \/ onCreate
  \/ \E t \in Tasks :
       \/ \E name \in Allocs : Alloc(t, name)
       \/ Free(t) \/ Realloc(t) \/ Step(t)
       \/ SleepClient(t) \/ WakeUpClient(t)
  \/ Exit \/ Kill \/ Die

allVars == <<vars, memVars>>

MemSpec == MemInit /\ [][MemNext]_allVars

\* A process that dies is dispatched in the end.
FairMemSpec == MemSpec /\ WF_allVars(Die \/ (dying /\ Step(Main)))

-----------------------------------------------------------------------------
\* A block is freed while it is allocated, and by the function that belongs
\* to it: by the program or by the death of its process, which takes no
\* notice of the mutex, once, however often the process is killed, unless a
\* kill falls into the list.
FreedOnce ==
  ~hit => \A t \in Tasks :
    /\ at[t] \in Frees => heap[ptr[t]] = Kind(at[t])
    /\ at[t] = "free" => heap[ptr[t]] # "free"

\* While no task is half way through a change of the list, its links agree in
\* both directions and it names each block of the process once: all that are
\* allocated except those on their way into it, those a kill has caught
\* there, and those that a failing realloc has thrown out.
ListExact ==
  LET way == corelist_foreach(list)
      names == {block[n].ptr : n \in ToSet(way)} \ {0}
      pending == UNION {Dropped(t) : t \in Tasks}
  IN  mblock /\ ~hit /\ (\A t \in Tasks : at[t] \notin {"free", "unlink", "store"}) =>
        /\ Linked(list)
        /\ names = {a \in Addrs : heap[a] # "free"} \ (pending \cup lost \cup unlisted)
        /\ \A n, m \in ToSet(way) : block[n].ptr = block[m].ptr /\ n # m => block[n].ptr = 0

\* When the data of the list are freed the process has given back all its
\* memory, but for the blocks that the list did not know.
DeathFreesAll ==
  at[Main] \in {"closing", "closed", "dead"} /\ ~hit =>
    {a \in Addrs : heap[a] # "free"} \subseteq lost \cup unlisted

\* The death of a process calls no destroy of a memory_block that is gone or
\* not filled in, and uses no list that was freed, unless a kill has fallen
\* into the list or into onClose of a later resource, or an address that the
\* list did not know was reallocated.
DeathFollowsBlocks == at[Main] = "wild" => hit \/ late \/ odd

\* The death gets through the list and waits for nobody, wherever a task had
\* the mutex when it was killed, unless a kill comes between the two steps of
\* state 5.
DeathGetsThrough ==
  at[Main] = "dying" /\ ~skipped ~> at[Main] \in {"dead", "wild"} \/ skipped
=============================================================================
