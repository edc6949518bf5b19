# Verification of the process library

`src/` is a library of user-space processes for Siemens phones. `CoreProc.so` gives a
program processes, threads, mutexes, pipes, timers, sockets and file descriptors on top of a
Nucleus kernel (`NU_*`) and the phone's firmware (GBS messages, CSM, GUI). This directory
holds TLA+ models of its core, the TLC runs that check them and proofs for TLAPS.

## 1. The system

### What it runs on

Every process and every thread is a Nucleus task: priority based, preemptive, no time
slices (`NU_Create_Task(..., 0 /* slice */, NU_PREEMPT)`), semaphores that start at 0 with
priority suspension. Code of the library seldom disables interrupts. What it relies on
instead is that a task keeps the processor until it suspends or a *more urgent* task becomes
ready. That assumption is where most of its hard behaviour lives, so every concurrent module
shares one model of it (`Nucleus.tla`), and every run states the priorities of its tasks.

### Components

State, operations and neighbours of each component, and what would make it correct.

| Component (file) | State | Operations | Uses / used by | Hard behaviour | Correct when |
|---|---|---|---|---|---|
| Mutexes `mutex.c` | `CoreMutex`: semaphore, `lock` counter, initialised flag | create, destroy, lock, tryLock, unlock | kernel semaphores / everything | counter and semaphore change in separate steps; destroy under waiters | at most one holder, nobody enters a destroyed mutex, no lost hand-over |
| Wait conditions `waitcondition.c` | table of conditions, semaphore and `wait_count` per slot | create, destroy, wait, wakeOne, wakeAll, reset | kernel semaphores / processes, threads, pipes, sockets | check-then-suspend, table slots reused | a wake reaches those who waited, a wait returns only for a reason |
| Processes `process.c` | `core_process[]` (id, list of children, kill mode, kill stage, tries, critical code mutex, exit condition, ctors, resources) | create, exit, kill, kill_impl, kill_process, wait, suspend, resume, reset, quit, events | mutexes, wait conditions, helper, threads, resources | a kill resets the victim at any point and may itself be reset; slots and pids reused; a task cannot delete itself | each death completes, nothing freed twice, children die before parents, waiters return |
| Helper `helperproc.c` | queue of requests in the firmware | `helperproc_schedule` | firmware SUBPROC / process.c | runs at a priority of its own, which may be above or below | each request done once, in order |
| Critical code `process.c`, `thread.c` | `critical_code` (mutex, `locks`, pid, tid) per process | enter, leave | mutexes / create and destroy of threads, memory, pipes, timers, kill | the record is not atomic, the killer takes it too | a kill never resets a task in the middle of critical code |
| Threads `thread.c` | `core_thread[]`, list in the process | create, destroy, handle, suspend, resume, wait | critical code, wait conditions | create against kill, end against destroy | no thread outlives its process |
| Process bridge `processbridge.c` | per call a block of packed arguments and a block with semaphore and result, a GBS message with both | call, async call | GBS messages, the heap | the answer against the death of the caller, who frees the blocks | each call done once with its arguments |
| Timers `timer.c` | table of timers with `sended`, `last`, owner | start, stop, HISR, dispatcher | kernel timers, process events | the stop of a timer against events under way | no callback after stop, no slot lost |
| Pipes `pipe.c` | buffer that is moved and extended, a mutex, four wait conditions | create, read, write, flush, close | wait conditions, file descriptors | a wake between a check and the wait | bytes in order, nobody blocked for ever while data or space exists |
| Sockets `socket.c` | state bits, error, wait conditions | socket, connect, send, recv, close, message handler | firmware sockets, message hooks | events against calls, late events | each blocked call sees its event |
| Queues, static data base `queue.c`, `static_data_base.h` | table of slots, first free id | new, free, push, pop | kernel queues / pipes, timers, hooks | id allotment not locked | an id has one owner |
| File descriptors `io.c`, `fs.c`, `ioresctl.c`, `resctl.c` | per process array of descriptors, table of resources | open, dup, read, write, close, attach, detach | pipes, sockets, files | close while in use, failure of one step | a descriptor is closed once, by its owner or by its process's death |
| Memory control `memctl.c`, `resctl.c` | list of blocks per process, with a mutex of its own | malloc, realloc, free, the same for `WSHDR`, creation and destruction with the process | corelist, mutexes / every program | not critical code: a kill between any two steps; a death that is started over | blocks freed once, at death at the latest |
| Lists and arrays `corelist.c`, `corearray.c` | linked list, growing array | push, pop, insert, delete, fork | most of the above | boundary cases | agrees with a sequence |
| CSM and GUI `csm.c`, `gui.c`, `lcd_primitives.c` | tables of dialogs and windows | create, close, redraw | firmware / bridge | created and closed in the context of another task | a slot is freed once |
| Signals `signals.c` | list of handlers per process | signal, kill (terminate, stop, continue) | process.c | a handler runs inside the death of its process; a stop falls anywhere into it | the handler is called once, the death goes on after it |
| Message hooks `procmesshook.c`, `libmess` | list of hooks per process, chain of hooks per task | add, delete, dispatch | GBS | deletion during dispatch | each hook sees each message once |
| Exceptions `exc_*.c` | vectors | – | ARM modes | disabled in `main.c` | – |
| Asynchronous print `async_print.c` | buffer | print | – | disabled (`lock_print = 1`) | – |
| Start and end `main.c`, `_start.c`, `libnucrt` | – | `_init`, `_fini` in fixed order | all | – | – |

`dietlibc`, `libstdc++`, `libs` and `src/include` (other than `spl/`) are vendored;
`Applications` and `tests` are programs that use the library, read here for the priorities
and call patterns they use.

### How the components meet

* A process or thread that dies is never asked: its task is terminated where it is, reset to
  its entry point, finds `kill_mode` and runs `kill_impl`. Critical code is what delays this.
* A wait (`waitCondition`, `lockMutex`) is a semaphore of the kernel. A task that is reset
  drops out of the semaphore, but not out of the counters the library keeps beside it.
* A task cannot delete itself, so the last step of a death is a request to the firmware's
  helper (`SUBPROC`), which runs at the priority of the firmware.
* Firmware objects belong to one firmware task (MMI); a process calls functions there
  through the bridge and waits.

## 2. The modules

| Module | Models | Composes |
|---|---|---|
| `Nucleus` | dispatching by priority without time slices, the queue of a semaphore (external: the kernel is firmware) | – |
| `NucleusProofs` | lemmas about that queue, for tasks of any priorities | `Nucleus`, TLAPS |
| `CoreMutex`, `MCCoreMutex` | `mutex.c`, one action per memory access or kernel call | `Nucleus` |
| `FifoLock` | what a mutex promises: a lock with a queue | – |
| `CoreList` | `corelist.c` as operators on linked inodes | – |
| `MemCtl`, `MCMemCtl` | `memctl.c`: the list of blocks of a process, changed by its tasks and freed by its death | `CoreMutex`, `CoreList` |
| `MutexMemCtlProofs` | inductive invariants and theorems of `CoreMutex` (among tasks of one priority, and what it keeps among tasks of any) and of `MemCtl` (tasks of any priorities) | `MemCtl`, `FifoLock`, `NucleusProofs` |
| `WaitCondition`, `MCWaitCondition` | `waitcondition.c`, one action per memory access or kernel call | `Nucleus` |
| `WaitConditionProofs` | its inductive invariants and theorems, for tasks of any priorities | `WaitCondition`, `NucleusProofs` |
| `Pipe`, `MCPipe` | `pipe.c`, the steps between its calls of mutex and conditions | instances of `CoreMutex` and `WaitCondition` |
| `ByteStream` | what a pipe promises: a bounded channel of bytes | – |
| `Process`, `MCProcess` | the life and death of processes in `process.c`, with the helper, and the signals of `signals.c` | `Nucleus` |
| `ProcessProofs` | its inductive invariant and theorems, for any number of processes | `Process`, TLAPS |
| `CriticalCode`, `MCCriticalCode` | enter and leave of critical code, threads, and the kill of their process | `Nucleus` |
| `CriticalCodeProofs` | its inductive invariant and theorems, for tasks of one priority | `CriticalCode`, `NucleusProofs` |
| `Timer` | `timer.c`, and the event loop of `process.c` that it feeds | – |
| `PipeTimerProofs` | the inductive invariants and theorems of `Timer` and of `Pipe`, one after the other | `Timer`, `Pipe`, TLAPS |
| `Socket`, `MCSocket`, `SocketProofs` | `socket.c` with the descriptors of `io.c`; its proofs | `Nucleus` |
| `Bridge`, `MCBridge`, `BridgeProofs` | `processbridge.c`; its proofs | – |

A variable has the name of the field or table it stands for; where the code has none (the
queue of a semaphore, where a task is in a call) the declaration says what it is. `pc[t]` is
where task `t` is, and `Goto(t, from, to)`, `Block(t, from, to)` are the two ways of getting
from one point to the next: staying on the processor and giving it up. An action has the name of
the function, or of the part of it, that it stands for.

**How fine the steps are.** `CoreMutex` and `WaitCondition` take the code apart down to the
load and the store of a counter, since that is where they go wrong. The modules above them use
coarser steps, from one call that another task can notice to the next. `Process`,
`CriticalCode` and `Socket` therefore are run with tasks of one priority (or with a helper and
a root of another one), where nobody can run in between; `Timer` has an interrupt, and its
steps are single statements.

**CoreMutex.** `used`, `locks` are the fields; `count` and `waiters` are the semaphore. `reg[t]`
is the register between load and store. `LockRead`, `LockTake`, `LockCount`, `Obtain`
are the statements of `lockMutex`; `UnlockRead`, `UnlockReload`, `UnlockRelease`,
`UnlockStore` those of `unlockMutex`; `RefusedLoad`, `RefusedStore` are a waiter that
`destroyMutex` has dismissed. A semaphore that `Obtain` finds free, or that `UnlockRelease`
releases with nobody in its queue, needs lockers of several priorities: no passing run takes these
two branches (`count` stays 0), and only `DestroyStrandsNobody` speaks of them.

**WaitCondition.** The table with `used`, `waiters`, and a semaphore per slot; creation,
destruction, wait, the three wakes, each taken apart in the same way. Histories count wakes
and answered waits, and tell which priorities have used a slot and which have woken its waiters:
the properties are claimed as far as the code can keep them, see section 6.

**MemCtl.** `heap` is what the firmware has given out, `list` the list of inodes with its links,
`block` the record each inode points to. A call is `Alloc`, `Free` or `Realloc`, the steps of
`CoreMutex` around the list (`EnterList`, `InMutex`, `LeaveList`), and the statements between them. A
`Kill` takes the main out of wherever it is; `DestroyThreads`, `Fork`, `onClose`, `CloseMutex`,
`FreeList` are what its death comes to. `CoreList` has the functions of `corelist.c` as operators
from list to list, link by link: a list whose links do not agree is a value too.

**Process.** `proc` is the table `core_process`: a record per slot with the fields of `CoreProcess`
that matter here. `requests` is the queue of the helper. `kill_impl` has one action
per stage; a kill resets `pc` to the entry of `handle` and leaves `kill_state`, so that the
stage where the process was is done again. `Kill`, `Stop`, `Continue` and `Signal` are the calls of
`signals.c`; `CallHandler` is the handler that `kill_impl` runs first, which may sleep, return or
call `exit`. `stopped` holds what `NU_Suspend_Task` has been called for; a stopped task keeps its
point and its place in queues, and may be killed.

**CriticalCode.** `locks`, `pid`, `tid` are the record `critical_code`; `mutex` and `line` its
mutex; `threads`, `taken` the table and the list of the process. The clients are main, the
threads and the killers, which all take the same mutex. A sleep inside critical code lets the
others in where the code allows it.

**Timer.** `data` is the table, `queue` the events of the process; `TimerHandle` is the
interrupt, `Dispatch` and `DispatchCount` the dispatcher that is run by the event loop.

**Pipe.** `offset`, `seek`, the buffer and the wait conditions of the one slot. The two
parts it is composed of keep their own `pc`; a step of a call is a step of theirs. Its `Init`, `Next`, `vars` and
`Spec` begin with `Pipe`, so that its proofs can be in a module with those of `Timer`.

**Socket.** `sockets`, `handlers`, `fds` are the three tables of the library, `owner`,
`connection`, `data` what the firmware knows. `requests` is the queue of the helper,
`messages` that of the MMI. A `Kill` asks for the death of a process and `Reset` is what it
comes to when critical code lets it.

**Bridge.** `heap` holds the two blocks of each call, what is in them being who called, which of
its calls it was and how many arguments it has. `pack_args` to `Collect` are the steps of the
caller, `Receive`, `Run`, `Answer`, `Release` those of the firmware's task. The parties run in any
order, which covers every choice of priorities; `Kill` breaks a call off anywhere, since a call is
not critical code.

## 3. The runs

| Run | Instance | What it shows |
|---|---|---|
| `mutex_equal` | 3 threads of one priority that lock, and a more urgent main that destroys and creates | the counter needs no protection then: `MutualExclusion`, `CounterExact` (counter = owner and waiters), nobody is forgotten (`WaiterServed`) or stranded by `destroyMutex`, wherever it falls, and `CoreMutex` implements `FifoLock` |
| `mutex_mixed_broken` | a main of 90 and a thread of 95 | violation: both are in the critical section |
| `mem_death` | a main of 90 and a thread of 95, 2 blocks, 3 inodes, 3 allocations, 2 kills | the list stays whole and names each block once, whatever is killed outside it; the death frees all of it, each block once, also if it is started over, and waits for nobody if the mutex is free |
| `wait_mixed` | 3 threads of one priority, one of which uses a slot in every way, and a more urgent helper that creates, destroys and wakes one | among the threads: the counter tells how many wait or how many wakes are stored, `wakeAllWaitConds` reaches all, a free slot can be used. With the helper wakes may be lost, but none is invented while the wakers have one priority |
| `process_life` | a chain of 3 processes, one kill | deaths complete, waiters return, a kill that starts over repeats nothing |
| `process_urgent_root` | a root of 90 above processes of 94 (two at once, or one after the other in one slot), one kill, stop or creation without start, one handler | whoever is preempted, stopped or in its handler in whatever stage: children die before parents, a returned slot leaves no waiter, the helper deletes who asked for it |
| `process_two_children` | one process with 2 children | violation: it never dies |
| `pipe_equal` | writer, reader, owner; 2 bytes of buffer, 3 bytes written | the pipe implements `ByteStream`; no two-sided wait; a full or a closed pipe leaves nobody waiting (where no dismissed task is still on a new pipe's conditions) |
| `critical_threads` | main, 2 threads, 1 killer that kills twice | no thread survives its process, no slot is lost, main is not reset in critical code, the kill gets through |
| `timer_loop` | 2 timers, a queue of 2, 1 kill | no callback after a stop, no timer outlives its process, slots come back quiet, `quit` ends the loop |
| `socket_death` | 2 processes, 2 slots, 2 firmware numbers | the tables agree, no request outlives its call, a process closes only what is its own, a sleeper is woken, every death completes |
| `bridge_calls` | 2 processes, 2 calls each, a synchronized and an asynchronous function, 1 call broken off | a message is whole whatever becomes of its sender, each block has one owner, a call returns its own result, a waiter is answered |

**Bounds.** All are constants with the comment "bound". Three tasks are what it takes for one
to own, one to wait and one to interfere; two slots are what it takes for one to be given
again while the other is live. `MaxDrift` stops new calls once a counter has drifted so far
that every later state has the same kind of error (`mutex_mixed_broken`), and is never reached where
the counters are exact. In `Process` a chain of three has a parent with a parent and a child with
a child; `MaxLives` is the number of processes ever created: three of them fill a table of three
once, or one slot of it twice. The parents' kills of their children are not counted by `MaxSignals`,
so one more kill is enough for a kill to meet another one. In `MemCtl` two blocks are one to lose
and one to meet again under the same address; a third inode is needed for the block without
memory that a failing `malloc` leaves in the list. In `Pipe`, three bytes through two
cells wrap around once and fill the buffer. In `Timer` a queue of two is full with one event
of each timer. In `Socket` a process has one descriptor and one of the two talks; two slots and two
numbers are enough for them to be swapped between the processes. `MaxWakes = 1` keeps one
stored wake. In `Bridge` five
blocks are two calls and one block of the call that was broken off, so that a block that were freed too
soon would be used again. One slot in `wait_mixed` is given again while dismissed waiters are still
on it; `Pipe` uses four. `CriticalThreads.cfg` lets main and one thread use critical code for other things.

**Deadlock.** `CHECK_DEADLOCK FALSE` is said where the system does stop: processes that have
died stay dead, and a bound that is used up stops its tasks. Where stopping would be an
error, a liveness property says so.

**Fairness.** The kernel gives no time slices, so nothing is fair among tasks of different
priorities. Among tasks of one priority it keeps a FIFO: a task whose turn comes again and again
is dispatched again and again, which is strong fairness of its next step. A task that never
gives the processor up starves its whole priority; `[]<>(cpu = IdleCpu)` in `CriticalCode`
(`[]<>MainsAsleep` in `Process`, and the end of each call in `Socket`) says that the programs
sleep, as those in `tests/` do. Helper and MMI are tasks of
the firmware, more urgent than any process, that catch up with their queues again and again; `Timer` has one task, for which weak fairness is
enough,
and so has `Bridge`: its handler is a task of the firmware. No step of a *program* is assumed to happen, except that in `CoreMutex` an owner leaves
its critical section and a client that polls `tryLockMutex` sleeps, that in `CriticalCode` a
sleep in critical code ends, and that in `Timer` a callback returns.

## 4. What is proved

| Module | Theorems | Of a run's property | Assumed |
|---|---|---|---|
| `MutexMemCtlProofs` | `TypeCorrect`, `MutexExcludes`, `CounterIsExact`, `MutexImplementsLock` | `TypeOK`, `MutualExclusion`, `CounterExact`, `ImplementsLock` | one priority |
| | `DestroyStrandsNobody` | `DestroyDismisses` | – |
| | `BlocksFreedOnce`, `ListIsExact`, `DeathFreesEverything`, `DeathReadsWhatIsThere` | `FreedOnce`, `ListExact`, `DeathFreesAll`, `DeathFollowsBlocks` | – |
| `WaitConditionProofs` | `CounterExactHolds`, `FreeSlotsUsableHolds`, `WakeAllReachesAllHolds` | the same without `Holds` | – |
| | `NoInventedWakeHolds` | `NoInventedWake` | who wakes goes before who waits (`WakersFirst`) |
| `ProcessProofs` | `ChildrenGo`, `HelperDeletesOwn` | `ChildrenDieFirst`, `OwnRequest` | – |
| | `NobodyStays` | `NobodyLeftBehind` | a helper less urgent than the processes (`LazyHelp`) |
| | `ArgvOnce` | `ArgvFreedOnce` | processes of one priority (`OneLevel`) |
| `PipeTimerProofs` | `NoStrayTimerHolds`, `EventsWholeHolds`, `NoCallbackAfterStopHolds` | the same | – |
| | `PipeIsStream` | `ImplementsStream` | one priority for who opens, closes, writes and reads (`OnePriority`) |
| | `NoStandoffHolds`, `NobodyStrandedHolds` | the same | one priority for all tasks (`EachOnePriority`) |
| `BridgeProofs` | `BlocksKeptHolds`, `OwnResultHolds` | the same | – |
| `SocketProofs` | `NoDanglingRequestHolds`, `ClosesOwnHolds`, `DeathClosesAllHolds`, `TablesAgreeHolds` | the same | one priority for `TablesAgree` |
| `CriticalCodeProofs` | `TypeCorrect`, `DeathTakesThreads`, `KillSparesMainTheorem` | `NoThreadSurvives`, `KillSparesMain` | one priority |

All hold for every value of the constants under the named `ASSUME` of the modules, which say no more
than that numbers are numbers and that `NoTask` is no task (in `Bridge` also that a block is not
the null pointer and which functions there are), and for bounds of any size. What the
last column says is a hypothesis of the theorem. Without it TLC refutes `MutualExclusion`, `CounterExact` of the mutex,
`TablesAgree`, `NoInventedWake`, `NobodyLeftBehind` and `ArgvFreedOnce` (section 6); the two properties of `CriticalCode` also hold on the instance of
`critical_threads` with killers that are more urgent than the process, but the argument below is
one of equal priorities and proves nothing there. Each inductive invariant was
checked by TLC on the instance of a run, or on smaller ones, before it was proved; some that looked inductive
were not, and what TLC showed went into the invariant.

**Wait conditions.** `CounterExact`, `FreeSlotsUsable` and `WakeAllReachesAll` speak of slots that
tasks of one priority have used. They are proved for tasks of any priorities, of which some may share
other slots in any way: a kernel that runs the most urgent task first lets nobody into a slot of one
priority while a task is in the middle of a call there. `IndInv` says so in four parts: `TypeOK`;
`QueuesExact` (queues in the kernel's order, of tasks suspended on that slot, none on a deleted semaphore);
`TasksExact` (a task in a call has the processor of its priority, and has left its priority with the
slot); and `SlotsExact`. The last is the argument. A slot nobody is in is at rest
(`RestAt`: used if and only if it has a semaphore, counter exact); a task in a call knows how
far the counter is from exact at its point (`PointAt`, `Balance(s, off)`); and a dismissed waiter that has yet to
count itself off is met only where the slot is free or no more `clean` (`LeftAt`). There is a lemma
for each action, nearly all by one of four lemmas about kinds of steps: a load (`LookPreserves`), a
store (`StorePreserves`), the entry of a call (`EnterPreserves`) and a step in place
(`InPlaceKeeps`). `WakeAllReachesAll` follows since the releases still to do are the tasks still in the queue.

`NoInventedWake` is about slots that tasks of several priorities share, where the counter is no longer exact. Its
hypothesis `WakersFirst` is what `wait_mixed` has: the waiters are of one priority, whoever creates, destroys or
wakes is at least as urgent as they, and who is more urgent wakes one task at a time. Each of these is
needed (section 6). A waiter that runs is then alone in all calls (`WaiterAlone`), and a waker is the only
waker at a slot that wakers of one priority use (`WakerAlone`). The invariant `WakesPaid` is a comparison:
the wakes owed are at least those in the semaphore and those the counter has stored, except for one
that a waiter is about to take off the counter (`Pays(s, off)`, `Taking`); and what a task has loaded errs on the safe side
(`Knows`): a preempted waiter that consumes a wake has seen the counter no lower than it is now, so
its store loses wakes but makes none up. Stores of a dismissed waiter are met only where the slot is free or no
more `clean`.

**Processes.** `IndInv` holds for any priorities. `PlacesExact` ties the point where a process is to its slot
(only who is killed is in the stages, `argv` is in state 2, the walk over the children in state 3 and at
an inode of its list). `WaitsExact` says that nobody waits where nobody will wake him: a waiter for the
end of a process waits for a slot whose condition has not been woken (`exit_wait`), one for a mutex
for a mutex that is held. `ChildrenDieFirst` rests on `ChildrenExact`: a child is over, or its parent lives, is in a
state up to 3 and has it in its list; and on `KidsDone`, that a child the walk has left is over. That is not
more than the walk's order says, since children never leave the list and the walk goes to the end
only when each was killed and awaited. `OwnRequest` rests on the requests in the queue of the helper: one of the
first kind (`process.c:433`) comes before any other of the same life (`FirstComesFirst`), is there as long as the process lives
in state 9 or later (`FirstPending`), and its process lives, unless it was deleted by
the second request of an earlier life (`cut`). A process `kill_impl` gives up after too many tries is `cut` too.

`NobodyLeftBehind` needs `GoneWoke`, that a deleted process has woken its waiters; only a helper that runs when
no process can gets to the first request after state 11. `ArgvFreedOnce` needs `ArgvExact`: who is between
`free(argv)` and `kill_state++` has the processor of its priority, so nobody of the same priority kills him there.

**Timers.** A timer is in the list of destructors once (`EachOnce`) and is then neither free
nor stopped (`KnownLive`). `KernelWatched` is the point: whoever will stop a kernel timer is named, a
destructor or the `timerStart` or `timerStop` that is at it; `torn` are those a kill left without. A
stop leaves `pid < 0` or `last` (`StopMarks`), which is what late events are told by. `NoCallbackAfterStop` is an
action property and follows from `StopMarks` and from what the dispatcher has tested before (`CallExact`).

**Pipes.** `PipeIsStream` is the refinement of `ByteStream`. While nobody copies, `BufferExact` says which byte of
the stream is in which cell from `offset` to `seek`; `CopiesExact` says it for the middle of a `memmove`, whose
bytes are in two pieces then, and of the two `memcpy`. That a copy is met half way by nobody is `CopierRuns`: who
copies is in no call, so he has the processor of his priority, and nobody else of that priority who opens, closes,
writes or reads can run. The mutex is not needed for this, and where it would be, among tasks of several priorities, the
theorem does not hold (section 6); tasks that only wait may have any. Every step that touches none of
this keeps the invariant for one reason (`PlainKeeps`): it is the `Turn` of a task and leaves the buffer alone.
A `writePipe` sends at `seek += write_sz`, a `readPipe` receives with every byte of its `memcpy`, and
`createPipe` starts the stream afresh.

`NoStandoffHolds` and `NobodyStrandedHolds` are about what the pipe, its mutex and its four conditions
make together, and use what is proved of `WaitCondition` (`WC!IndInv`, for the pipe's instance of it) as it is. A task
*takes a turn* from the end of the wait that a function begins with to its return. Among tasks of one
priority whoever is in a turn has the processor (`BusyRuns`); the others rest, asleep in that wait, through it, or
outside. From this follow `LockExact` (nobody ever waits for the mutex), `OpenExact` (which conditions there are at
each step of `createPipe` and `closePipe`; at all others the pipe is whole or gone), `CallsExact` (which
condition a call is about) and `SizesExact`. Then `TurnsGoOn`: where there is something to read a reader has a wake coming, where something
can be written a writer has, and where both are true one of them: it is stored, or in the
hands of a task that must yet pass it on (`ForReader`, `ForWriter`). A wake that is stored is what a waiter may not face, so when all
is quiet the two cannot both wait. `FlushExact` says that nobody enters the wait for a full buffer when it is full, and that
who waits then will be woken by the writer that filled it. Each action keeps all of it for one reason,
`Turned`: one task took its turn, and (`Serves`) lost no wake that it had.

Neither property is inductive, and `NoStandoff` was false as first written: TLC found that tasks that
`closePipe` dismissed and that have not yet run count themselves off the counters of the next pipe. The
properties except conditions of that kind (`cClean`), which section 6 tells of.

**Bridge.** `Accounted` says of each block who will free it, and that it is one: its caller, the message of an
asynchronous call, or nobody if the call was broken off (`lost`). That a message carries the blocks of
one call (`MessageExact`), is in the queue once (`QueueOnce`), and that only a caller that is there waits at
a semaphore (`WaitsExact`) makes it inductive. `ResultExact` follows the result from
the function to the caller: it can only be told to be right by what the message's arguments block still holds.

**Sockets.** Descriptor, slot and firmware number are followed from `socket` to `close`: `SlotsExact` (a slot has
one descriptor), `NumbersExact` (a number has one owner, who has it in one place, in hand or in a slot, or it is
`lost`), `CloseExact` (the close asked for is of the number the process is at), all as long as no
kill has torn a close (`torn`). `RequestsExact` and `DyingExact` (the death has gone through all
descriptors before the one it is at) hold without that. `TablesAgree` needs the invariant of the handlers
(`HandlersExact`, `RegisterExact`), which is inductive among processes of one priority only: between the
choice of a slot and the registration of its handler a more urgent process can take the next slot and register first, and the
handlers are then the other way round. TLC finds that.

**Critical code.** `DeathTakesThreads` is about a walk over a list that others change. Who is
between `newCoreThreadData` and the entry in the list, or between the two halves of `destroyThread`,
has the processor (`RunnersExact`), so nobody of his priority sees him there; and every thread that has
a slot is listed, or about to be by the task that creates it (`SlotsExact`). The value of an inode is the
thread's number (`InodesExact`), a creation is refused once a kill has begun (`CreatesExact`), and nobody
destroys himself (`DestroysExact`). `MainExact` then says of each point of `kill_impl` what is done: when the
thread at the cursor has been destroyed it has no slot, so that when no other inode is left no
slot is taken, which is all that state 5 needs. `KillSparesMain` is an action property about a process that has had no
thread yet: as long as nobody has hit it (`Quiet`), the mutex has one owner and counts him and
those in its queue (`SemaphoreExact`), and `locks` and `pid` are set by main alone (`RecordExact`); a
killer that hits is the owner, hence main is not in critical code. With threads it is false, and not claimed.
That `MaxCreates` inodes are made at most is a bound of the model; it is a constant of the theorems.

**Mutexes.** The second part of `MutexMemCtlProofs` proves, for any set of tasks of any priorities, from `NucleusAssumption` alone,

* `DestroyStrandsNobody`: `Spec => []DestroyDismisses`.

The invariant is `QueueInv`: the semaphore's queue is in the kernel's order, and who is in it is
suspended and is in it once. The order is needed because the place of a new waiter
(`Behind`) exists in an ordered queue only; the lemmas `BehindExists`, `EnqueueInserts` and `EnqueueKeeps` of
`NucleusProofs` say what `Enqueue` does to one. Nothing is said of the counter, which may be anything.

Its first part proves four theorems for any set of tasks, from `NucleusAssumption` (a
priority is a number, `NoTask` is no task), `MaxDriftAssumption` and

    OnePriority == \A t, u \in Tasks : Prio[t] = Prio[u]

which the first finding shows to be necessary. The theorems are:

* `TypeCorrect`: `Spec => []TypeOK`;
* `MutexExcludes`: `Spec => []MutualExclusion`;
* `CounterIsExact`: `Spec => []CounterExact`;
* `MutexImplementsLock`: `Spec => ImplementsLock`, the refinement of `FifoLock`.

None of these is inductive. What makes them true is that a task of the same priority cannot
run until the one that runs suspends, and that a call never suspends between load and
store. `IndInv` says this in parts: `CallerRuns` (a task in the middle of a call is the one on
the processor, so at most one is), `QueueExact` (who is in the semaphore's queue is at the
point of waiting there), `WaitersHaveOwner`, `CallsInTime`, `CounterBalanced` (the
counter is waiters plus owner plus the one a call has not yet counted off), and `RegisterExact`
(what each point of a call knows from its load: it is still true). It also has
`count = 0`: among tasks of one priority a release always has somebody to go to. There is one
lemma per action, and most of them are instances of `StepInPlace`, for the steps of a task that
neither block nor wake. The
instance of `mutex_equal` is wider in one respect, a main of another priority that creates and
destroys but never locks: there the properties are model-checked, and `IndInv` does not hold (a
call may outlive the mutex). Among the three threads alone TLC finds no violation of `IndInv`.

The refinement maps `FifoLock`'s owner to the task between the end of `lockMutex` and the
effect of `unlockMutex`, its queue to the semaphore's. The two parts do not cite what `MemCtl` assumes.

**Memory control.** The third part proves the four invariants of `MemCtl` for a main and any number of threads,
of any priorities, with any heap and any room in the list. `MemCtlAssumption` says only that main is a task and that
the bounds are numbers; that everybody allocates is a choice of the instance (`MCMemCtlAssumption`) and no hypothesis here. The
theorems are about `MemInv`, which holds as long as no kill has fallen into the list (`hit`), and this is just what the
properties except: `SoundUnlessHit` is the invariant, and a step that makes `hit` true owes nothing.

* *The list.* `ListInOrder` says that the links forwards and backwards run through one sequence of different inodes
  (`Chain`). `FollowIs` proves that the walk along such links gives this sequence: were it wrong anywhere,
  there would be a first place where it is. From that come `PushBackAppends`, `DelInodeRemoves`,
  `DelInodeStranger` (the inode is not in the list) and `FindDoes`, and
  `ChainIsLinked`, which is what `ListExact` says of links.
* *The tasks.* `AloneInList`: who changes the list has the mutex and is alone in it. Among tasks of different priorities
  this is true up to `Clash` only, where the model stops (section 6); among tasks of one priority it is
  what `MutexExcludes` says.
* *The blocks.* Every address is in one place: named by a settled inode, once, and of the right kind (`NamesExact`), on
  its way into the list with one task (`PendingExact`), in the hand of one task (`HandsExact`), lost or thrown out
  (`LostExact`), or free. `InodesExact` says the same of inodes, `HeldExact` of what clients may still free.
* *The death.* `PhaseExact` and `CreateExact` say which tasks are there in which state of the process; `ForkExact`, that the copy
  of the list has exactly the blocks still to destroy, so that when it is used up nothing is left but what the
  list did not know; `DeathExact`, that the list is used only before it is freed unless the death
  was begun again (`late`).

None of the four is inductive. `FreedOnce` needs to know that what a name in the list stands for is allocated when a
client frees it, hence `NamesExact`; that one needs `HandsExact`, since a block that two tasks had in hand could be
freed by one of them after the other; and all of it needs the order of the list, since an unlink that lost one direction would
leave the search and the fork with different lists.

**A note on the prover.** tlapm 1.4.5 rewrites the intersection of two enumerated sets by their text,
so that for variables `x`, `y` it takes `{x, y} \cap {1, 2}` to be empty. No proof here states such an
intersection; memberships and unions are used instead.

## 5. What is model-checked only

* All liveness (out of the prover's reach), hence also `WaiterServed`.
* `MemCtl` from the moment a kill has fallen into the list (`hit`): its properties then claim only that
  the death ends (`DeathGetsThrough`), which is liveness. Walks along links that are not in order are not proved about.

## 6. Findings and limits

Two runs show the code to disagree with what the repository says of it:

1. `mutex_mixed_broken`: `lockMutex` tests and increments in two steps, so tasks of different
   priorities can own a mutex together; the comment in `tests/mutexes/main.c:23` says that they
   cannot.
2. `process_two_children`: a process with two children goes round in state 3 of its death for
   ever, because `ppid_inode` is never set and children never leave the list; `tests/proc`
   makes twenty and returns.

Other things the models show or had to keep out of a property. No document promises
otherwise, so they are limits of what is claimed:

* *Process.* With a helper more urgent than the processes, a process is deleted before it
  wakes those who wait for its end. `kill_process` is requested twice; if the pid has been given
  to a new process between the two, that one is deleted (`OwnRequest` says that nothing else of the
  kind happens, `cut` who was deleted so or was given up by `kill_impl` after too many tries). The same early request (state 8) deletes a process that
  is stopped, or killed once more and asleep in its handler, before it can wake its waiters. A
  handler that calls `exit` waits in state 0 for a mutex that its own killer has locked
  (`process.c:318`), until the next kill. The handlers' records are blocks of `memoryAlloc`, which state
  7 frees and a kill between the states 7 and 10 still reads; the model gives the handler back as it
  was. A root more urgent than
  its processes may free its `argv` twice, and may wait for ever for the mutex of a process that
  waits for it. Such runs check safety only.
* *MemCtl.* A kill between `malloc` and the list loses the block (`lost`); one inside the list leaves
  its mutex locked for the death to wait for, or, where the semaphore is one too high, a list half
  changed (`hit`). A `realloc` that fails throws the block out of the list (`unlisted`), and
  reallocating such a block makes a record whose `destroy` is not set (`memctl.c:154`) and which the death
  calls (`odd`). A second kill that falls into `onClose` of a later resource makes state 7 close the
  freed list again (`late`). The properties except these by name. Tasks of different priorities can be
  in the list together, as finding 1 says; the model stops there (`Clash`).
* *CriticalCode.* A killer that main has just handed the mutex, and that a second thread then
  destroys, takes the mutex away for ever. A kill that comes while two clients are in critical
  code reaches the second of them there. A kill between `lockMutex` and the record of it in
  state 0 makes main wait for itself (the case the comment at `process.c:1044` is about). A killer
  more urgent than the process loses its record when it gets the mutex between the unlock and the
  clearing of the record in `leaveProcessCriticalCode` (`process.c:1073`). After
  two failed `NU_Create_Task` the walk of state 4 does not end.
* *WaitCondition.* A more urgent waker between test and wait is not seen. Two wakers that preempt each
  other may both store one wake, and so may a waker that a more urgent waiter preempts before it has
  counted the waiter off; a `wakeAllWaitConds` in the middle of a wait that consumes a
  wake makes another one up. So can waiters of several priorities, which may take one wake twice,
  and a destroyer less urgent than the waiters: it leaves the slot used while those it dismissed
  count themselves off a counter that a reset has cleared. Creators of different
  priorities can take one slot, and from then on no condition can be created. A dismissed
  waiter counts itself off a slot that may be another condition's.
* *Pipe.* A task that `closePipe` has dismissed decrements the counter of its condition when it runs next
  (`waitcondition.c`, after `NU_Obtain_Semaphore` has failed). If the pipe's slot and conditions have been given to a new pipe
  by then, that pipe's counter is one too low: a wake is stored where a task waits, and with two
  readers dismissed a reader and a writer can wait for each other for ever. `NoStandoff` and the first half of
  `NobodyStranded` leave such conditions out (`cClean`), and `NoStandoff` also watchers that wait for `READY_READ` or
  `READY_WRITE`, who take the wakes of readers and writers and pass none on. With the priorities of `tests/RadioSI` (writer 100, reader 120) a byte can be
  skipped, and `waitForPipeFullyFlushed` can miss the last wake. A pipe of one priority shows
  neither.
* *Pipe, a failure.* `createPipe` that finds no free descriptor (`pipe.c:89`) returns within critical
  code, and the process cannot be killed from then on; the model does not have descriptors run out.
* *Timer.* A stop with no event under way keeps the slot. A kill inside `timerStop`
  leaves a kernel timer running. `NoCallbackAfterStop` ends where the slot has a new timer.
  A `quit` that meets a full queue is lost. `timerReset` of a running timer can mix
  the old userdata with the new callback; `EventsWhole` leaves such timers out.
* *Socket.* A kill between the two critical sections of `socket` leaks the firmware's socket
  (`lost`), one between `_sclose` and the end of `close_fd` makes the process close a slot
  that may be another's by then (`torn`); the properties except exactly these. A second kill of a
  dying process, threads destroyed in the middle of a request, processes of different priorities
  and several threads on one socket are not modelled: among these the close of a connection can
  fall between test and wait, and the index of a handler can be other than that of its
  slot, which `removeSocketMessageHandler` takes it to be. That a firmware number is used again only
  after its last message, and that data left by a read is told of again, are assumptions about
  the firmware.

* *Bridge.* The blocks of a killed caller are never freed, nor are the arguments of a call whose
  semaphore cannot be created; `BlocksKept` counts them as `lost`. With 8 or 9 arguments the last ones
  are not passed on (no function of the library has so many); a message without a pack of arguments
  would be carried out twice (nobody sends one). What a pointer among the arguments leads to is
  not modelled: it may lead into the stack of a caller that has been killed.

## 7. Not modelled

`procmesshook.c` and `libmess` are planned (below). `csm.c` and `gui.c` wrap firmware objects; the
`memset` at their creation (`csm.c:220`, `gui.c:319`) sets the `id` in each record to 0, with which the
callbacks and the return of the slot work, so that the second dialog or window in the system is
taken for the first: a model could claim something of one of each only. `queue.c` puts
the table of `static_data_base.h`, which is in `Timer`, in front of the kernel's queues.
`corelist_insert`, `corelist_pop` and `resetProcess` are called by nobody. `gethostbyname`, `fs.c`, `dup`, sizes of
transfers, suspended threads, constructors and user data are left out of the modules that come near
them. `exc_*.c` and `async_print.c` are disabled in the code. `dietlibc`, `libstdc++` and
`libs` are vendored.

## 8. Plan

In order of weight, all but the ninth being done:

1. `CoreMutex` against `FifoLock`, with proofs. Everything else stands on it.
2. `WaitCondition`.
3. `Process`, then `CriticalCode`: the deaths.
4. `Pipe`, composed of 1 and 2, against `ByteStream`.
5. `Timer` with the event loop.
6. `Socket` with the descriptors.
7. `Bridge`: the calls into the MMI, the packing of their arguments, the death of the caller.
8. `MemCtl` and `CoreList`: the list, link by link, and the kill in the middle of a change.
9. `MessageHook`: `libmess` and `procmesshook.c`, deletion during dispatch.
10. Signals, suspend and resume in `Process`.

Abstract specifications still worth stating: a monitor for `WaitCondition`, a table whose slots
have one owner (the pattern that threads, timers, conditions and sockets share), a remote call that
is carried out at most once and in order, for `Bridge`. Every safety property that a passing run
checks is a theorem; what is left to prove is liveness, for which the prover has no rules.
