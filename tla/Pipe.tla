-------------------------------- MODULE Pipe --------------------------------
(***************************************************************************)
(* CoreProc/pipe.c: a buffer of bytes with a mutex and four wait           *)
(* conditions, composed of CoreMutex and WaitCondition.  Only the steps    *)
(* between their calls are here; a call's own steps are theirs.  There is  *)
(* one slot for a pipe, and its pipe alone uses wait conditions, so they   *)
(* are always 0 to 3.  Critical code, which only delays a kill, is left    *)
(* out, and file descriptors too.                                          *)
(***************************************************************************)
EXTENDS Nucleus, Integers, FiniteSets

CONSTANTS
  Size,      \* of the buffer, in bytes
  Flags,     \* of the pipe: "read" for PIPE_WAIT_FOR_READY_READ, "write"
  Writers, Readers, Watchers, Owners,  \* the tasks that write, read, wait, open and close
  Watched,   \* what Watchers wait for: "flushed", "empty", "read", "write", or some
  MaxBytes,  \* bound: bytes written to a pipe
  MaxDrift   \* bound of CoreMutex and WaitCondition

ASSUME PipeAssumption ==
  /\ Size \in Nat \ {0} /\ MaxBytes \in Nat /\ MaxDrift \in Nat
  /\ Flags \subseteq {"read", "write"}
  /\ Watched \subseteq {"flushed", "empty", "read", "write"}
  /\ Writers \cup Readers \cup Watchers \cup Owners \subseteq Tasks

VARIABLES
  \* Spipe
  open,                  \* id # -1, which is all that checkSpipeData tests
  allocated,             \* memory # 0
  memory, offset, seek,  \* the buffer; its bytes are numbered as they are written
  \* Spipe.locker
  lUsed, lLocks, lCount, lWaiters, lPc, lReg,
  \* the wait conditions
  cUsed, cWaiters, cLive, cCount, cQueue, cOwed, cClean, cCall, cPc, cReg,
  \* the tasks
  step,                  \* where each task is in pipe.c
  size,                  \* the size it asked for, or write_sz or read_sz once known
  copy,                  \* its memcpy or memmove: first byte in the buffer, bytes to go
  ready, cpu,            \* see Nucleus
  \* history
  sent,                  \* how many bytes were written to the pipe
  got                    \* the bytes read from it

locker == <<lUsed, lLocks, lCount, lWaiters, lPc, lReg>>
conds == <<cUsed, cWaiters, cLive, cCount, cQueue, cOwed, cClean, cCall, cPc, cReg>>
buffer == <<memory, offset, seek>>
pipe == <<open, allocated, memory, offset, seek>>
stream == <<sent, got>>
pipeVars == <<pipe, locker, conds, step, size, copy, ready, cpu, stream>>

Locker ==
  INSTANCE CoreMutex WITH Users <- Tasks, used <- lUsed, locks <- lLocks, count <- lCount,
    waiters <- lWaiters, pc <- lPc, reg <- lReg

\* The history of who used a condition does not matter here: it names
\* everybody from the beginning.
Everybody == Levels \X BOOLEAN

Cond ==
  INSTANCE WaitCondition WITH MaxCond <- 4, Owners <- Tasks, Waiters <- Tasks,
    WakeOps <- [t \in Tasks |-> {"one", "all"}], used <- cUsed,
    waiters <- cWaiters, live <- cLive, count <- cCount, queue <- cQueue,
    owed <- cOwed, clean <- cClean,
    users <- [s \in 0..3 |-> Everybody], call <- cCall, pc <- cPc, reg <- cReg

\* The conditions, in the order in which createPipe creates them
READY_READ == 0
READY_WRITE == 1
FULLY_FLUSHED == 2
FULLY_EMPTY == 3

NoCopy == [first |-> 0, left |-> 0]

PipeInit ==
  /\ open = FALSE /\ allocated = FALSE
  /\ memory = [i \in 1..Size |-> 0] /\ offset = 0 /\ seek = 0
  /\ Locker!Init
  /\ Cond!Start
  /\ step = [t \in Tasks |-> "idle"]
  /\ size = [t \in Tasks |-> 0]
  /\ copy = [t \in Tasks |-> NoCopy]
  /\ sent = 0 /\ got = << >>

-----------------------------------------------------------------------------
Copying(t, first, left) == [copy EXCEPT ![t] = [first |-> first, left |-> left]]

Least(a, b) == IF a < b THEN a ELSE b

\* Task t is not inside a call of mutex.c or waitcondition.c and goes on.
Step(t, from, to) ==
  /\ step[t] = from
  /\ lPc[t] \in {"idle", "critical"} /\ cPc[t] = "idle"
  /\ step' = [step EXCEPT ![t] = to]

\* A step of pipe.c itself
Local(t, from, to) ==
  /\ Step(t, from, to)
  /\ MayRun(t, ready, cpu)
  /\ cpu' = Occupy(t, cpu)
  /\ UNCHANGED <<locker, conds, ready>>

\* waitCondition, wakeOneWaitCond, wakeAllWaitConds, destroyWaitCond on
\* condition c, which do nothing when it is not used
CallCond(t, o, c, point, from, to) ==
  \/ /\ cUsed[c]
     /\ Step(t, from, to)
     /\ Cond!Call(t, o, c, point)
     /\ UNCHANGED locker
  \/ ~cUsed[c] /\ Local(t, from, to)

WaitFor(t, c, from, to) == CallCond(t, "wait", c, "wait", from, to)
WakeOne(t, c, from, to) == CallCond(t, "one", c, "wake", from, to)
WakeAll(t, c, from, to) == CallCond(t, "all", c, "wake", from, to)

\* lockMutex: nobody looks at its result.
LockPipe(t, from, to) ==
  \/ lUsed /\ Step(t, from, to) /\ Locker!CallLock(t) /\ UNCHANGED conds
  \/ ~lUsed /\ Local(t, from, to)

\* unlockMutex, also by a task whose lockMutex failed
UnlockPipe(t, from, to) ==
  /\ Step(t, from, to)
  /\ Locker!Goto(t, lPc[t], IF lUsed THEN "unlock" ELSE "idle")
  /\ UNCHANGED <<lUsed, lLocks, lCount, lWaiters, lReg, ready, conds>>

-----------------------------------------------------------------------------
\* createPipe: newSpipeData marks the slot before its fields are set.
CallCreate(t) ==
  /\ t \in Owners /\ ~open
  /\ Local(t, "idle", "c_mutex")
  /\ open' = TRUE
  /\ UNCHANGED <<allocated, buffer, size, copy, stream>>

CreateLocker(t) ==
  /\ Step(t, "c_mutex", "c_fields")
  /\ MayRun(t, ready, cpu)
  /\ cpu' = Occupy(t, cpu)
  /\ lUsed' = TRUE /\ lLocks' = 0 /\ lCount' = 0
  /\ UNCHANGED <<lWaiters, lPc, lReg, conds, ready, pipe, size, copy, stream>>

CreateBuffer(t) ==
  /\ Local(t, "c_fields", "c_cond0")
  /\ allocated' = TRUE
  /\ seek' = 0 /\ offset' = 0
  /\ sent' = 0 /\ got' = << >>
  /\ UNCHANGED <<open, memory, size, copy>>

CreateCond(t, c, from, to) ==
  /\ Step(t, from, to)
  /\ Cond!FindSlot(t) /\ cCall'[t].wid = c
  /\ UNCHANGED locker

CreateConds(t) ==
  /\ \/ CreateCond(t, READY_READ, "c_cond0", "c_cond1")
     \/ CreateCond(t, READY_WRITE, "c_cond1", "c_cond2")
     \/ CreateCond(t, FULLY_FLUSHED, "c_cond2", "c_cond3")
     \/ CreateCond(t, FULLY_EMPTY, "c_cond3", "c_wake")
     \/ WakeOne(t, READY_WRITE, "c_wake", "idle")
  /\ UNCHANGED <<pipe, size, copy, stream>>

\* closePipe
CallClose(t) ==
  /\ t \in Owners /\ open
  /\ Local(t, "idle", "x_lock")
  /\ UNCHANGED <<pipe, size, copy, stream>>

CloseLock(t) ==
  /\ LockPipe(t, "x_lock", "x_free")
  /\ UNCHANGED <<pipe, size, copy, stream>>

CloseFree(t) ==
  /\ Local(t, "x_free", "x_cond0")
  /\ allocated' = FALSE
  /\ UNCHANGED <<open, buffer, size, copy, stream>>

CloseConds(t) ==
  /\ \/ CallCond(t, "destroy", READY_READ, "delete", "x_cond0", "x_cond1")
     \/ CallCond(t, "destroy", READY_WRITE, "delete", "x_cond1", "x_cond2")
     \/ CallCond(t, "destroy", FULLY_FLUSHED, "delete", "x_cond2", "x_cond3")
     \/ CallCond(t, "destroy", FULLY_EMPTY, "delete", "x_cond3", "x_unlock")
  /\ UNCHANGED <<pipe, size, copy, stream>>

CloseUnlock(t) ==
  /\ UnlockPipe(t, "x_unlock", "x_mutex")
  /\ UNCHANGED <<pipe, size, copy, stream>>

CloseLocker(t) ==
  /\ \/ lUsed /\ Step(t, "x_mutex", "x_slot") /\ Locker!DestroyMutex(t) /\ UNCHANGED conds
     \/ ~lUsed /\ Local(t, "x_mutex", "x_slot")
  /\ UNCHANGED <<pipe, size, copy, stream>>

\* freeSpipeData
CloseSlot(t) ==
  /\ Local(t, "x_slot", "idle")
  /\ open' = FALSE
  /\ UNCHANGED <<allocated, buffer, size, copy, stream>>

-----------------------------------------------------------------------------
\* writePipe
CallWrite(t) ==
  /\ t \in Writers /\ open
  /\ sent < MaxBytes
  /\ Local(t, "idle", IF "write" \in Flags THEN "w_wait" ELSE "w_lock")
  /\ \E n \in 1..Size : size' = [size EXCEPT ![t] = n]
  /\ UNCHANGED <<pipe, copy, stream>>

WriteWait(t) ==
  /\ WaitFor(t, READY_WRITE, "w_wait", "w_lock")
  /\ UNCHANGED <<pipe, size, copy, stream>>

WriteLock(t) ==
  /\ LockPipe(t, "w_lock", "w_check")
  /\ UNCHANGED <<pipe, size, copy, stream>>

\* writePipeUnlocked, to the first half of offsetPipeFlush
WriteCheck(t) ==
  \/ /\ ~open \/ ~allocated
     /\ Local(t, "w_check", "w_unlock")
     /\ size' = [size EXCEPT ![t] = 0]
     /\ UNCHANGED <<pipe, copy, stream>>
  \/ /\ open /\ allocated /\ offset > 0 /\ seek > 0
     /\ Local(t, "w_check", "w_move")
     /\ seek' = seek - offset
     /\ copy' = Copying(t, offset, seek - offset)
     /\ UNCHANGED <<open, allocated, memory, offset, size, stream>>
  \/ /\ open /\ allocated /\ (offset = 0 \/ seek = 0)
     /\ Local(t, "w_check", "w_size")
     /\ UNCHANGED <<pipe, size, copy, stream>>

\* offsetPipeFlush: memmove, byte by byte, then offset = 0
WriteMove(t) ==
  /\ copy[t].left > 0
  /\ Local(t, "w_move", "w_move")
  /\ memory' = [memory EXCEPT ![seek - copy[t].left + 1] = memory[copy[t].first + 1]]
  /\ copy' = Copying(t, copy[t].first + 1, copy[t].left - 1)
  /\ UNCHANGED <<open, allocated, offset, seek, size, stream>>

\* Variant with a fault: offset stays.
WriteMovedOnly(t) ==
  /\ copy[t].left = 0
  /\ Local(t, "w_move", "w_size")
  /\ copy' = Copying(t, 0, 0)
  /\ UNCHANGED <<open, allocated, memory, offset, seek, size, stream>>

WriteMoved(t) ==
  /\ copy[t].left = 0
  /\ Local(t, "w_move", "w_size")
  /\ offset' = 0
  /\ copy' = Copying(t, 0, 0)
  /\ UNCHANGED <<open, allocated, memory, seek, size, stream>>

\* write_sz
WriteSize(t) ==
  LET n == Least(Size - seek, size[t])
  IN  /\ Local(t, "w_size", IF n > 0 THEN "w_copy" ELSE "w_unlock")
      /\ size' = [size EXCEPT ![t] = IF n > 0 THEN n ELSE 0]
      /\ copy' = IF n > 0 THEN Copying(t, seek, n) ELSE copy
      /\ UNCHANGED <<pipe, stream>>

\* memcpy, byte by byte
WriteCopy(t) ==
  /\ copy[t].left > 0
  /\ Local(t, "w_copy", "w_copy")
  /\ memory' = [memory EXCEPT ![copy[t].first + 1] = sent + size[t] - copy[t].left + 1]
  /\ copy' = Copying(t, copy[t].first + 1, copy[t].left - 1)
  /\ UNCHANGED <<open, allocated, offset, seek, size, stream>>

\* Variant with a fault: only a write of the whole buffer counts as full.
WriteAdvanceWhole(t) ==
  /\ copy[t].left = 0
  /\ Local(t, "w_copy", IF size[t] = Size THEN "w_full" ELSE "w_unlock")
  /\ seek' = seek + size[t]
  /\ sent' = sent + size[t]
  /\ copy' = Copying(t, 0, 0)
  /\ UNCHANGED <<open, allocated, memory, offset, size, got>>

WriteAdvance(t) ==
  /\ copy[t].left = 0
  /\ Local(t, "w_copy", IF seek + size[t] = Size THEN "w_full" ELSE "w_unlock")
  /\ seek' = seek + size[t]
  /\ sent' = sent + size[t]
  /\ copy' = Copying(t, 0, 0)
  /\ UNCHANGED <<open, allocated, memory, offset, size, got>>

WriteFull(t) ==
  /\ WakeAll(t, FULLY_FLUSHED, "w_full", "w_unlock")
  /\ UNCHANGED <<pipe, size, copy, stream>>

WriteUnlock(t) ==
  /\ UnlockPipe(t, "w_unlock", IF size[t] > 0 THEN "w_wake" ELSE "idle")
  /\ UNCHANGED <<pipe, size, copy, stream>>

WriteWake(t) ==
  /\ WakeOne(t, READY_READ, "w_wake", "idle")
  /\ UNCHANGED <<pipe, size, copy, stream>>

-----------------------------------------------------------------------------
\* readPipe
CallRead(t) ==
  /\ t \in Readers /\ open
  /\ Local(t, "idle", IF "read" \in Flags THEN "r_wait" ELSE "r_lock")
  /\ \E n \in 1..Size : size' = [size EXCEPT ![t] = n]
  /\ UNCHANGED <<pipe, copy, stream>>

ReadWait(t) ==
  /\ WaitFor(t, READY_READ, "r_wait", "r_lock")
  /\ UNCHANGED <<pipe, size, copy, stream>>

ReadLock(t) ==
  /\ LockPipe(t, "r_lock", "r_size")
  /\ UNCHANGED <<pipe, size, copy, stream>>

\* readPipeUnlocked: read_sz
ReadSize(t) ==
  LET n == IF open /\ allocated THEN Least(seek - offset, size[t]) ELSE 0
  IN  /\ Local(t, "r_size", IF n > 0 THEN "r_copy" ELSE "r_unlock")
      /\ size' = [size EXCEPT ![t] = IF n > 0 THEN n ELSE 0]
      /\ copy' = IF n > 0 THEN Copying(t, offset, n) ELSE copy
      /\ UNCHANGED <<pipe, stream>>

\* memcpy, byte by byte
ReadCopy(t) ==
  /\ copy[t].left > 0
  /\ Local(t, "r_copy", "r_copy")
  /\ got' = Append(got, memory[copy[t].first + 1])
  /\ copy' = Copying(t, copy[t].first + 1, copy[t].left - 1)
  /\ UNCHANGED <<pipe, size, sent>>

\* offset += read_sz; seek cannot be 0 where something was read.
ReadAdvance(t) ==
  /\ copy[t].left = 0
  /\ Local(t, "r_copy", IF offset + size[t] = Size \/ seek = 0 THEN "r_empty" ELSE "r_wake")
  /\ offset' = offset + size[t]
  /\ copy' = Copying(t, 0, 0)
  /\ UNCHANGED <<open, allocated, memory, seek, size, stream>>

\* Variant with a fault: a writer is only woken when the buffer is used up.
ReadWakeEmpty(t) ==
  /\ \/ WakeOne(t, READY_WRITE, "r_empty", "r_unlock")
     \/ Local(t, "r_wake", "r_unlock")
  /\ UNCHANGED <<pipe, size, copy, stream>>

ReadWake(t) ==
  /\ \/ WakeOne(t, FULLY_EMPTY, "r_empty", "r_wake")
     \/ WakeOne(t, READY_WRITE, "r_wake", "r_unlock")
  /\ UNCHANGED <<pipe, size, copy, stream>>

ReadUnlock(t) ==
  /\ UnlockPipe(t, "r_unlock", "idle")
  /\ UNCHANGED <<pipe, size, copy, stream>>

\* waitForPipeFullyFlushed tests without the lock, then waits; the other
\* waitForPipe functions wait at once.
CallWaitFlushed(t) ==
  /\ t \in Watchers /\ open /\ "flushed" \in Watched
  /\ seek - offset < Size
  /\ Local(t, "idle", "f_wait")
  /\ UNCHANGED <<pipe, size, copy, stream>>

WaitFlushed(t) ==
  /\ WaitFor(t, FULLY_FLUSHED, "f_wait", "idle")
  /\ UNCHANGED <<pipe, size, copy, stream>>

CallWaitOther(t) ==
  /\ t \in Watchers /\ open
  /\ \/ "empty" \in Watched /\ WaitFor(t, FULLY_EMPTY, "idle", "idle")
     \/ "read" \in Watched /\ WaitFor(t, READY_READ, "idle", "idle")
     \/ "write" \in Watched /\ WaitFor(t, READY_WRITE, "idle", "idle")
  /\ UNCHANGED <<pipe, size, copy, stream>>

-----------------------------------------------------------------------------
\* A step of mutex.c or waitcondition.c
InCall(t) ==
  /\ \/ Locker!Continue(t) /\ UNCHANGED conds
     \/ Cond!Continue(t) /\ UNCHANGED locker
  /\ UNCHANGED <<pipe, step, size, copy, stream>>

\* A client sleeps between calls, and its sleep ends.
Sleep(t) ==
  /\ step[t] = "idle" /\ lPc[t] = "idle" /\ cPc[t] = "idle"
  /\ MayRun(t, ready, cpu)
  /\ ready' = ready \ {t}
  /\ cpu' = GiveUp(t, cpu)
  /\ UNCHANGED <<pipe, locker, conds, step, size, copy, stream>>

WakeUp(t) ==
  /\ step[t] = "idle" /\ lPc[t] = "idle" /\ cPc[t] = "idle"
  /\ t \notin ready
  /\ ready' = ready \cup {t}
  /\ UNCHANGED <<pipe, locker, conds, step, size, copy, cpu, stream>>

Create(t) == CallCreate(t) \/ CreateLocker(t) \/ CreateBuffer(t) \/ CreateConds(t)
Close(t) ==
  \/ CallClose(t) \/ CloseLock(t) \/ CloseFree(t) \/ CloseConds(t)
  \/ CloseUnlock(t) \/ CloseLocker(t) \/ CloseSlot(t)
Write(t) ==
  \/ CallWrite(t) \/ WriteWait(t) \/ WriteLock(t) \/ WriteCheck(t) \/ WriteMove(t)
  \/ WriteMoved(t) \/ WriteSize(t) \/ WriteCopy(t) \/ WriteAdvance(t)
  \/ WriteFull(t) \/ WriteUnlock(t) \/ WriteWake(t)
Read(t) ==
  \/ CallRead(t) \/ ReadWait(t) \/ ReadLock(t) \/ ReadSize(t) \/ ReadCopy(t) \/ ReadAdvance(t)
  \/ ReadWake(t) \/ ReadUnlock(t)
Watch(t) == CallWaitFlushed(t) \/ WaitFlushed(t) \/ CallWaitOther(t)

PipeNext ==
  \E t \in Tasks :
    Create(t) \/ Close(t) \/ Write(t) \/ Read(t) \/ Watch(t) \/ InCall(t)
      \/ Sleep(t) \/ WakeUp(t)

PipeSpec == PipeInit /\ [][PipeNext]_pipeVars

-----------------------------------------------------------------------------
\* Nobody is inside a call of the library other than asleep in a wait.
Quiet ==
  \A t \in Tasks :
    /\ lPc[t] = "idle" /\ cPc[t] \in {"idle", "suspended"}
    /\ cPc[t] = "idle" => step[t] = "idle"

Waiting(c) == cQueue[c] # << >>

\* With both flags a writer that waits for a reader and a reader that waits
\* for a writer never face each other: whoever is served wakes the other. It is
\* claimed where no watcher takes their wakes, and of conditions whose slots
\* nobody was still using when the pipe was created: who was dismissed by
\* closePipe and has not yet run counts itself off the next pipe's waiters.
NoStandoff ==
  open /\ Quiet /\ Flags = {"read", "write"} /\ Watched \subseteq {"flushed", "empty"}
  /\ cClean[READY_READ] /\ cClean[READY_WRITE] =>
    ~(Waiting(READY_READ) /\ Waiting(READY_WRITE))

\* Nobody is left waiting for a pipe to be full that is full, if nobody was
\* still using that condition's slot when the pipe was created, nor for
\* anything on a pipe that is closed.
NobodyStranded ==
  /\ open /\ Quiet /\ cClean[FULLY_FLUSHED] /\ seek - offset = Size => ~Waiting(FULLY_FLUSHED)
  /\ ~open => \A c \in 0..3 : ~Waiting(c)

\* The bytes read are the bytes written, in order, each once, and no more
\* than Size of them are on the way.
Stream == INSTANCE ByteStream WITH Capacity <- Size
ImplementsStream == Stream!Spec
=============================================================================
