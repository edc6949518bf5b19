-------------------------------- MODULE Timer --------------------------------
(***************************************************************************)
(* CoreProc/timer.c and the event loop of CoreProc/process.c that its      *)
(* timers feed: one process, its events, and the table of timers.          *)
(*                                                                         *)
(* A timer is called by the kernel in an interrupt, between any two steps  *)
(* of the process; there it only queues an event, and the process calls    *)
(* the callback when its loop gets to it.  The process may be killed at    *)
(* any step outside of critical code, also when it is dying already; the   *)
(* stages of kill_impl that do not concern timers are left out.            *)
(***************************************************************************)
EXTENDS Integers, SequencesExt

CONSTANTS
  MaxTimers,  \* MAX_TIMER_ID, the length of the table
  QueueSize,  \* how many events the queue of a process holds
  MaxSended,  \* bound: a timer expires only while its counter is in -MaxSended..MaxSended - 1
  MaxKills    \* bound: how often the process is killed

ASSUME TimerAssumption ==
  {MaxTimers, QueueSize, MaxSended, MaxKills} \subseteq Nat

Slots == 0..(MaxTimers - 1)

VARIABLES
  used, pid, sended, last,  \* TimerData; pid is 0 for the process, or -1
  mixed,                    \* ... whether its callback and its userdata are of two calls
  kernel,                   \* the NU_TIMER: "none", "on" or "off"
  events, queue,            \* t.events # 0, and what is in that queue
  event_stop,
  dtors,                    \* proc->dtors: the timers to stop, oldest first
  pc, back,                 \* where the process is, and where its call returns to
  slot, reg, event,         \* the timer it is at, its last load, the event in hand
  kills,                    \* history: how often the process was killed
  halted,                   \* history: timerStop has returned for the slot's timer
  torn,                     \* history: timers whose timerStop was cut short by a kill
  hasty                     \* history: timers that were reset while they were running,
                            \* or only in part

data == <<used, pid, sended, last, mixed>>
loop == <<events, queue, event_stop>>
place == <<pc, back, slot, reg, event>>
history == <<kills, halted, torn, hasty>>
vars == <<data, kernel, loop, dtors, place, history>>

\* An event is the timer it comes from.
Quit == -1
Events == Slots \cup {Quit}

Init ==
  /\ used = [s \in Slots |-> FALSE] /\ pid = [s \in Slots |-> 0]
  /\ sended = [s \in Slots |-> 0] /\ last = [s \in Slots |-> FALSE]
  /\ mixed = [s \in Slots |-> FALSE]
  /\ kernel = [s \in Slots |-> "none"]
  /\ events = TRUE /\ queue = << >> /\ event_stop = FALSE
  /\ dtors = << >>
  /\ pc = "idle" /\ back = "idle" /\ slot = 0 /\ reg = 0 /\ event = Quit
  /\ kills = 0
  /\ halted = {} /\ torn = {} /\ hasty = {}

-----------------------------------------------------------------------------
\* The process runs its own code: before or after processEvents, in a
\* callback, or in the signal handler that kill_impl calls first.
Client == pc \in {"idle", "callback", "begin"}

Goto(from, to) == pc = from /\ pc' = to /\ UNCHANGED <<back, slot, reg, event>>

Begin(s, to) ==
  /\ Client
  /\ pc' = to /\ back' = pc /\ slot' = s
  /\ UNCHANGED <<reg, event>>

Return(from) == pc = from /\ pc' = back /\ back' = "idle" /\ slot' = 0 /\ UNCHANGED <<reg, event>>

\* An event is sent with NU_NO_SUSPEND: it is lost if there is no room.
sendEvent(e) == queue' = IF events /\ Len(queue) < QueueSize THEN Append(queue, e) ELSE queue

-----------------------------------------------------------------------------
\* timer_handle, an interrupt
TimerHandle(s) ==
  /\ kernel[s] = "on" /\ sended[s] \in -MaxSended..(MaxSended - 1)
  /\ sended' = [sended EXCEPT ![s] = @ + 1]
  /\ IF pid[s] < 0 THEN UNCHANGED queue ELSE sendEvent(s)
  /\ UNCHANGED <<used, pid, last, mixed, kernel, events, event_stop, dtors, place,
                 history>>

\* timerStart: newTimerDataData takes the first free slot ...
CallStart ==
  /\ \E s \in Slots :
       /\ ~used[s] /\ \A r \in Slots : r < s => used[r]
       /\ Begin(s, "s_fields")
       /\ used' = [used EXCEPT ![s] = TRUE]
  /\ UNCHANGED <<pid, sended, last, mixed, kernel, loop, dtors, history>>

\* ... which stays taken when the process is being killed (and the process
\* stays in critical code).
StartRefused ==
  /\ back = "begin"
  /\ Return("s_fields")
  /\ UNCHANGED <<data, kernel, loop, dtors, history>>

\* Variant with a fault: the userdata is set too late.
StartFieldsHalf ==
  /\ back # "begin"
  /\ Goto("s_fields", "s_create")
  /\ mixed' = [mixed EXCEPT ![slot] = TRUE]
  /\ pid' = [pid EXCEPT ![slot] = 0]
  /\ sended' = [sended EXCEPT ![slot] = 0]
  /\ last' = [last EXCEPT ![slot] = FALSE]
  /\ halted' = halted \ {slot} /\ torn' = torn \ {slot} /\ hasty' = hasty \ {slot}
  /\ UNCHANGED <<used, kernel, loop, dtors, kills>>

StartFields ==
  /\ back # "begin"
  /\ Goto("s_fields", "s_create")
  /\ mixed' = [mixed EXCEPT ![slot] = FALSE]
  /\ pid' = [pid EXCEPT ![slot] = 0]
  /\ sended' = [sended EXCEPT ![slot] = 0]
  /\ last' = [last EXCEPT ![slot] = FALSE]
  /\ halted' = halted \ {slot} /\ torn' = torn \ {slot} /\ hasty' = hasty \ {slot}
  /\ UNCHANGED <<used, kernel, loop, dtors, kills>>

\* NU_Create_Timer
StartTimer ==
  /\ Goto("s_create", "s_dtor")
  /\ kernel' = [kernel EXCEPT ![slot] = "on"]
  /\ UNCHANGED <<data, loop, dtors, history>>

\* addProcessDtors, leaveProcessCriticalCode
StartDtor ==
  /\ Return("s_dtor")
  /\ dtors' = Append(dtors, slot)
  /\ UNCHANGED <<data, kernel, loop, history>>

\* A program uses the id of a timer from the return of timerStart to the
\* call of timerStop, which is as long as the timer is in dtors.
Known == ToSet(dtors)

\* timerReset: the fields one after the other, then NU_Reset_Timer, which
\* refuses a timer that is not disabled.
CallReset ==
  /\ \E s \in Known :
       /\ Begin(s, "r_data")
       /\ mixed' = [mixed EXCEPT ![s] = TRUE]
       /\ pid' = [pid EXCEPT ![s] = 0]
       /\ sended' = [sended EXCEPT ![s] = 0]
       /\ last' = [last EXCEPT ![s] = FALSE]
       /\ hasty' = IF kernel[s] = "on" THEN hasty \cup {s} ELSE hasty
  /\ UNCHANGED <<used, kernel, loop, dtors, kills, halted, torn>>

ResetData ==
  /\ Goto("r_data", "r_reset")
  /\ mixed' = [mixed EXCEPT ![slot] = FALSE]
  /\ UNCHANGED <<used, pid, sended, last, kernel, loop, dtors, history>>

ResetTimer ==
  /\ Return("r_reset")
  /\ kernel' = [kernel EXCEPT ![slot] = "on"]
  /\ UNCHANGED <<data, loop, dtors, history>>

\* timerPause and timerResume
PauseOrResume ==
  /\ Client
  /\ \E s \in Known, state \in {"on", "off"} : kernel' = [kernel EXCEPT ![s] = state]
  /\ UNCHANGED <<data, loop, dtors, place, history>>

\* timerStop: eraseProcessDtor, NU_Control_Timer, NU_Delete_Timer, and then
\* the slot is left to the event that is still on its way, or is never used
\* again when there is none.
CallStop ==
  /\ \E i \in DOMAIN dtors :
       /\ Begin(dtors[i], "t_disable")
       /\ dtors' = RemoveAt(dtors, i)
  /\ UNCHANGED <<data, kernel, loop, history>>

StopDisable ==
  /\ Goto("t_disable", "t_delete")
  /\ kernel' = [kernel EXCEPT ![slot] = "off"]
  /\ UNCHANGED <<data, loop, dtors, history>>

StopDelete ==
  /\ Goto("t_delete", "t_decide")
  /\ kernel' = [kernel EXCEPT ![slot] = "none"]
  /\ UNCHANGED <<data, loop, dtors, history>>

\* Variant with a fault: an event on its way is not taken into account.
StopDecideFree ==
  /\ Return("t_decide")
  /\ pid' = IF sended[slot] < 1 THEN [pid EXCEPT ![slot] = -1] ELSE pid
  /\ halted' = halted \cup {slot}
  /\ UNCHANGED <<used, sended, last, mixed, kernel, loop, dtors, kills, torn,
                 hasty>>

StopDecide ==
  /\ Return("t_decide")
  /\ IF sended[slot] < 1
     THEN pid' = [pid EXCEPT ![slot] = -1] /\ UNCHANGED last
     ELSE last' = [last EXCEPT ![slot] = TRUE] /\ UNCHANGED pid
  /\ halted' = halted \cup {slot}
  /\ UNCHANGED <<used, sended, mixed, kernel, loop, dtors, kills, torn,
                 hasty>>

-----------------------------------------------------------------------------
\* quit
CallQuit ==
  /\ Client
  /\ sendEvent(Quit)
  /\ UNCHANGED <<data, kernel, events, event_stop, dtors, place, history>>

processEvents ==
  /\ Goto("idle", "receive")
  /\ UNCHANGED <<data, kernel, loop, dtors, history>>

\* Variant with a fault: process_bump does not stop the loop.
ReceiveNoBump ==
  /\ pc = "receive" /\ queue # << >>
  /\ queue' = Tail(queue) /\ event' = Head(queue)
  /\ pc' = IF Head(queue) = Quit THEN "next" ELSE "dispatch"
  /\ UNCHANGED <<data, kernel, events, event_stop, dtors, back, slot, reg, history>>

\* NU_Receive_From_Queue, and the dispatcher process_bump
Receive ==
  /\ pc = "receive" /\ queue # << >>
  /\ queue' = Tail(queue) /\ event' = Head(queue)
  /\ pc' = IF Head(queue) = Quit THEN "next" ELSE "dispatch"
  /\ event_stop' = (event_stop \/ Head(queue) = Quit)
  /\ UNCHANGED <<data, kernel, events, dtors, back, slot, reg, history>>

\* timer_displatcher
Dispatch ==
  /\ pc = "dispatch"
  /\ IF pid[event] < 0
     THEN pc' = "next" /\ event' = Quit /\ UNCHANGED reg
     ELSE pc' = "count" /\ reg' = sended[event] /\ UNCHANGED event
  /\ UNCHANGED <<data, kernel, loop, dtors, back, slot, history>>

DispatchCount ==
  /\ pc = "count"
  /\ pc' = IF last[event] THEN "next" ELSE "callback"
  /\ reg' = 0 /\ event' = Quit
  /\ sended' = [sended EXCEPT ![event] = reg - 1]
  /\ used' = IF last[event] THEN [used EXCEPT ![event] = FALSE] ELSE used
  /\ UNCHANGED <<pid, last, mixed, kernel, loop, dtors, back, slot, history>>

CallbackReturns ==
  /\ Goto("callback", "next")
  /\ UNCHANGED <<data, kernel, loop, dtors, history>>

NextEvent ==
  /\ Goto("next", IF event_stop THEN "idle" ELSE "receive")
  /\ UNCHANGED <<data, kernel, loop, dtors, history>>

-----------------------------------------------------------------------------
Critical == {"s_create", "s_dtor"}

\* A kill terminates the process where it is, and resets it.
Kill ==
  /\ kills < MaxKills
  /\ pc \notin Critical \cup {"dead"}
  /\ kills' = kills + 1
  /\ torn' = IF pc \in {"t_disable", "t_delete"} THEN torn \cup {slot} ELSE torn
  /\ hasty' = IF pc = "r_data" THEN hasty \cup {slot} ELSE hasty
  /\ pc' = "begin" /\ back' = "idle" /\ slot' = 0 /\ reg' = 0 /\ event' = Quit
  /\ UNCHANGED <<data, kernel, loop, dtors, halted>>

\* main returns, or the process kills itself, perhaps in a callback.
Exit ==
  /\ pc \in {"idle", "callback"}
  /\ pc' = "die"
  /\ UNCHANGED <<back, slot, reg, event>>
  /\ UNCHANGED <<data, kernel, loop, dtors, history>>

\* kill_impl after the signal handler; stage 1 deletes the queue.
KillImpl ==
  /\ Goto("begin", "die")
  /\ UNCHANGED <<data, kernel, loop, dtors, history>>

DeleteQueue ==
  /\ Goto("die", "dtors")
  /\ events' = FALSE /\ queue' = << >>
  /\ UNCHANGED <<data, kernel, event_stop, dtors, history>>

\* Variant with a fault: only the first destructor is run.
RunDtorsOnce ==
  /\ pc = "dtors"
  /\ IF dtors = << >>
     THEN pc' = "dead" /\ UNCHANGED <<dtors, slot, back>>
     ELSE dtors' = << >> /\ slot' = Head(dtors) /\ back' = "dtors" /\ pc' = "t_disable"
  /\ UNCHANGED <<data, kernel, loop, reg, event, history>>

\* Stage 5: timerStop from the destructors; each is taken out before it runs.
RunDtors ==
  /\ pc = "dtors"
  /\ IF dtors = << >>
     THEN pc' = "dead" /\ UNCHANGED <<dtors, slot, back>>
     ELSE dtors' = Tail(dtors) /\ slot' = Head(dtors) /\ back' = "dtors" /\ pc' = "t_disable"
  /\ UNCHANGED <<data, kernel, loop, reg, event, history>>

\* What the process does next when it is not free to choose
Proceed ==
  \/ StartRefused \/ StartFields \/ StartTimer \/ StartDtor
  \/ ResetData \/ ResetTimer
  \/ StopDisable \/ StopDelete \/ StopDecide
  \/ Receive \/ Dispatch \/ DispatchCount \/ NextEvent
  \/ KillImpl \/ DeleteQueue \/ RunDtors

Next ==
  \/ \E s \in Slots : TimerHandle(s)
  \/ CallStart \/ CallReset \/ PauseOrResume \/ CallStop \/ CallQuit
  \/ processEvents \/ CallbackReturns
  \/ Proceed
  \/ Kill \/ Exit

Spec == Init /\ [][Next]_vars

\* The process runs when it can, and its callbacks return.
FairSpec == Spec /\ WF_vars(Proceed) /\ SF_vars(CallbackReturns)

-----------------------------------------------------------------------------
\* When timerStop has returned no callback of the timer is called any more,
\* however many of its events are in the queue and whatever counter the
\* interrupts have left, unless its slot has a new timer.
NoCallbackAfterStop ==
  [][pc = "count" /\ pc' = "callback" => event \notin halted]_vars

\* A slot that timerStart may take has no kernel timer, neither has a slot
\* whose timer was stopped, nor has any after the death of the process, unless
\* a kill came in the middle of a timerStop.
NoStrayTimer ==
  \A s \in Slots :
    kernel[s] # "none" => used[s] /\ s \notin halted /\ (pc = "dead" => s \in torn)

\* A timer that can expire has a callback and the userdata that was given
\* with it, which its event takes along; only a timerReset of a timer that is
\* running, or one that a kill cuts short, may mix them.
EventsWhole == \A s \in Slots : kernel[s] = "on" /\ mixed[s] => s \in hasty

\* A quit whose event found room in the queue ends processEvents, unless the
\* process dies first.
InLoop ==
  \/ pc \in {"receive", "dispatch", "count", "callback", "next"}
  \/ back = "callback" /\ pc \notin {"idle", "begin", "die", "dtors", "dead"}
QuitEnds == Contains(queue, Quit) /\ InLoop ~> ~InLoop
=============================================================================
