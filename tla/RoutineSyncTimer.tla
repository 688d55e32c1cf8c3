-------------------------- MODULE RoutineSyncTimer --------------------------
(***************************************************************************)
(* The timer of the coroutine scheduler: src/coroutine/routine_sync_timer  *)
(* (RoutineSyncTimer, TimerId, CallbackWrapper).                           *)
(*                                                                         *)
(* One thread (run) fires the timers; any other thread adds, resets or     *)
(* cancels them.  Each timer is used by one caller at a time, whose        *)
(* progress through add, reset or cancel is caller[id].  Everything that   *)
(* the code does while it holds mutex_ is one step, because mutex_ is only *)
(* released at the points where a step ends here: around invoke(), in      *)
(* wait_for() and when a method returns.  invokeMutex[id] is the mutex     *)
(* inside the timer's CallbackWrapper.  The clock counts milliseconds and  *)
(* does not advance within a step.                                         *)
(***************************************************************************)
EXTENDS Integers

CONSTANTS
    Ids,            \* the TimerId objects
    NoId,           \* the null TimerId pointer
    MaxTime,        \* bound: the clock and every time point stay below it
    LoopInterval    \* LoopInterval(), 20 ms in the code

ASSUME TimerAssumption ==
    /\ NoId \notin Ids
    /\ MaxTime \in Nat
    /\ LoopInterval \in Nat \ {0}

VARIABLES
    timerIds,           \* timerIds_: the std::set ordered by time point only
    tp,                 \* TimerId::tp_
    done,               \* CallbackWrapper::done_
    canceled,           \* CallbackWrapper::canceled_
    invokeLocked,       \* is the CallbackWrapper's mutex held?
    nextCheckAbstime,   \* nextCheckAbstime_
    stopped,            \* stopped_
    pc,                 \* where the timer thread is in run()
    id,                 \* run()'s local variable id
    signalled,          \* cond_ was notified while the timer thread waits
    now,                \* Now()
    caller,             \* caller[i]: where the user of timer i is
    raced,              \* unlocked erases of reset() overlapped by another access
    ctl                 \* where the thread that starts and stops the timer is

timerVars == <<timerIds, tp, done, canceled, invokeLocked>>
threadVars == <<nextCheckAbstime, pc, id, signalled>>
vars == <<timerVars, threadVars, stopped, now, caller, raced, ctl>>

TimePoints == 0..MaxTime

Init ==
    /\ timerIds = {}
    /\ tp = [i \in Ids |-> 0]
    /\ done = [i \in Ids |-> FALSE]
    /\ canceled = [i \in Ids |-> FALSE]
    /\ invokeLocked = [i \in Ids |-> FALSE]
    /\ nextCheckAbstime = 0
    /\ stopped = TRUE
    /\ pc = "exited"
    /\ id = NoId
    /\ signalled = FALSE
    /\ now = 0
    /\ caller = [i \in Ids |-> "new"]
    /\ raced = {}
    /\ ctl = "stopped"

-----------------------------------------------------------------------------
(* The std::set of TimerId pointers, ordered by TimerId::operator<=>.       *)

(* *timerIds_.begin() *)
IsBegin(i) == i \in timerIds /\ \A j \in timerIds : tp[i] <= tp[j]

(* a variant that compares the wrong way round *)
AtFrontSwapped(t) == \A j \in timerIds : t > tp[j]

(* atFront(tp) *)
AtFront(t) == \A j \in timerIds : t < tp[j]

(* timerIds_.erase(target): removes the element equivalent to target, the   *)
(* one with its time point, whichever timer that is                         *)
Equivalent(i) == {j \in timerIds : tp[j] = tp[i]}

(* insertTimerId: std::set::insert leaves the set alone if it holds an      *)
(* equivalent element; the thread is only notified if it may oversleep      *)
InsertTimerId(i, t) ==
    /\ timerIds' = IF \E j \in timerIds : tp[j] = t THEN timerIds ELSE timerIds \cup {i}
    /\ signalled' = (signalled \/ (pc = "waiting" /\ AtFront(t) /\ t < nextCheckAbstime))

(* Another thread touches timerIds_ while reset() erases without mutex_.    *)
TouchTimerIds == raced' = {i \in Ids : caller[i] = "erasing"}

-----------------------------------------------------------------------------
(* Callers: add, reset and cancel, from any thread.                         *)

Add(i) ==
    /\ caller[i] = "new"
    /\ \E t \in TimePoints :
        /\ tp' = [tp EXCEPT ![i] = t]
        /\ InsertTimerId(i, t)
    /\ caller' = [caller EXCEPT ![i] = "idle"]
    /\ TouchTimerIds
    /\ UNCHANGED <<done, canceled, invokeLocked, nextCheckAbstime, pc, id, stopped, now, ctl>>

(* reset() enters eraseTimerId without mutex_ ... *)
ResetBegin(i) ==
    /\ caller[i] \in {"idle", "canceled"}
    /\ caller' = [caller EXCEPT ![i] = "erasing"]
    /\ raced' = raced \ {i}
    /\ UNCHANGED <<timerVars, threadVars, stopped, now, ctl>>

(* ... so the erase races with every access made in between: its traversal  *)
(* may then miss the element.  If it erased one, the timer gets its new     *)
(* time point and done_ is cleared, still without mutex_.                   *)
ResetErase(i) ==
    /\ caller[i] = "erasing"
    /\ \/ /\ Equivalent(i) # {}
          /\ timerIds' = timerIds \ Equivalent(i)
          /\ \E t \in TimePoints : tp' = [tp EXCEPT ![i] = t]
          /\ done' = [done EXCEPT ![i] = FALSE]
          /\ caller' = [caller EXCEPT ![i] = "inserting"]
       \/ /\ Equivalent(i) = {} \/ i \in raced
          /\ caller' = [caller EXCEPT ![i] = "idle"]
          /\ UNCHANGED <<timerIds, tp, done>>
    /\ raced' = raced \ {i}
    /\ UNCHANGED <<canceled, invokeLocked, threadVars, stopped, now, ctl>>

ResetInsert(i) ==
    /\ caller[i] = "inserting"
    /\ InsertTimerId(i, tp[i])
    /\ caller' = [caller EXCEPT ![i] = "idle"]
    /\ TouchTimerIds
    /\ UNCHANGED <<tp, done, canceled, invokeLocked, nextCheckAbstime, pc, id, stopped, now, ctl>>

(* cancel(): first the wrapper, under its mutex; CallbackWrapper::cancel    *)
(* stores false                                                             *)
CancelCall(i) ==
    /\ caller[i] \in {"idle", "canceled"}
    /\ caller' = [caller EXCEPT ![i] = "locking"]
    /\ UNCHANGED <<timerVars, threadVars, stopped, now, raced, ctl>>

CancelLock(i) ==
    /\ caller[i] = "locking"
    /\ ~invokeLocked[i]
    /\ invokeLocked' = [invokeLocked EXCEPT ![i] = TRUE]
    /\ caller' = [caller EXCEPT ![i] = "locked"]
    /\ UNCHANGED <<timerIds, tp, done, canceled, threadVars, stopped, now, raced, ctl>>

CancelMark(i) ==
    /\ caller[i] = "locked"
    /\ canceled' = [canceled EXCEPT ![i] = FALSE]
    /\ invokeLocked' = [invokeLocked EXCEPT ![i] = FALSE]
    /\ caller' = [caller EXCEPT ![i] = "canceling"]
    /\ UNCHANGED <<timerIds, tp, done, threadVars, stopped, now, raced, ctl>>

(* ... then the set, under mutex_; it returns done_.  (The first of the two *)
(* is a variant that only reads done_.)                                     *)
CancelEraseForgotten(i) ==
    /\ caller[i] = "canceling"
    /\ caller' = [caller EXCEPT ![i] = "canceled"]
    /\ UNCHANGED <<timerVars, threadVars, stopped, now, raced, ctl>>

CancelErase(i) ==
    /\ caller[i] = "canceling"
    /\ timerIds' = timerIds \ Equivalent(i)
    /\ caller' = [caller EXCEPT ![i] = "canceled"]
    /\ TouchTimerIds
    /\ UNCHANGED <<tp, done, canceled, invokeLocked, threadVars, stopped, now, ctl>>

-----------------------------------------------------------------------------
(* The timer thread: run().                                                 *)

(* a variant that drains the timers before it exits *)
RunExitDrained ==
    /\ pc = "loop" /\ stopped /\ timerIds = {}
    /\ pc' = "exited"
    /\ id' = NoId
    /\ UNCHANGED <<timerVars, nextCheckAbstime, signalled, stopped, now, caller, raced, ctl>>

RunExit ==
    /\ pc = "loop" /\ stopped
    /\ pc' = "exited"
    /\ id' = NoId
    /\ UNCHANGED <<timerVars, nextCheckAbstime, signalled, stopped, now, caller, raced, ctl>>

(* try_lock of the wrapper's mutex, which fails while a cancel() holds it;  *)
(* and a variant that ignores the result of the try_lock                    *)
TryInvokeUnchecked(i) ==
    /\ invokeLocked' = [invokeLocked EXCEPT ![i] = TRUE]
    /\ pc' = "invoke"

TryInvoke(i) ==
    /\ invokeLocked' = [invokeLocked EXCEPT ![i] = TRUE]
    /\ pc' = IF invokeLocked[i] THEN "loop" ELSE "invoke"

(* An expired timer leaves the set whether or not it can be invoked.        *)
RunFire ==
    /\ pc = "loop" /\ ~stopped
    /\ \E i \in timerIds :
        /\ IsBegin(i)
        /\ now >= tp[i]
        /\ timerIds' = timerIds \ Equivalent(i)
        /\ id' = i
        /\ TryInvoke(i)
    /\ TouchTimerIds
    /\ UNCHANGED <<tp, done, canceled, nextCheckAbstime, signalled, stopped, now, caller, ctl>>

(* CallbackWrapper::invoke, without mutex_ *)
RunInvoke ==
    /\ pc = "invoke"
    /\ IF canceled[id]
       THEN /\ invokeLocked' = [invokeLocked EXCEPT ![id] = FALSE]
            /\ pc' = "loop"
            /\ UNCHANGED done
       ELSE /\ done' = [done EXCEPT ![id] = TRUE]
            /\ pc' = "callback"
            /\ UNCHANGED invokeLocked
    /\ UNCHANGED <<timerIds, tp, canceled, nextCheckAbstime, id, signalled, stopped, now, caller, raced, ctl>>

(* run() locks mutex_ again and gives the wrapper's mutex back; the first   *)
(* of the two is a variant that does not                                    *)
RunCallbackReturnsLocked ==
    /\ pc = "callback"
    /\ pc' = "loop"
    /\ UNCHANGED <<timerVars, nextCheckAbstime, id, signalled, stopped, now, caller, raced, ctl>>

RunCallbackReturns ==
    /\ pc = "callback"
    /\ invokeLocked' = [invokeLocked EXCEPT ![id] = FALSE]
    /\ pc' = "loop"
    /\ UNCHANGED <<timerIds, tp, done, canceled, nextCheckAbstime, id, signalled, stopped, now, caller, raced, ctl>>

(* min(delta, 1 ms) after now, where delta is measured to the last timer    *)
(* looked at, if there ever was one; the first is a variant that forgets to *)
(* add the current time                                                     *)
SleepUntilRelative(i) ==
    IF i = NoId THEN LoopInterval
    ELSE IF tp[i] - now < 1 THEN tp[i] - now ELSE 1

SleepUntil(i) ==
    IF i = NoId THEN now + LoopInterval
    ELSE IF tp[i] < now + 1 THEN tp[i] ELSE now + 1

RunSleep ==
    /\ pc = "loop" /\ ~stopped
    /\ \/ timerIds = {} /\ id' = id
       \/ \E i \in timerIds : IsBegin(i) /\ now < tp[i] /\ id' = i
    /\ nextCheckAbstime' = SleepUntil(id')
    /\ pc' = "waiting"
    /\ signalled' = FALSE
    /\ TouchTimerIds
    /\ UNCHANGED <<timerVars, stopped, now, caller, ctl>>

(* wait_for ends; the variant waits without a timeout *)
RunWakeNotified ==
    /\ pc = "waiting"
    /\ signalled
    /\ pc' = "loop"
    /\ signalled' = FALSE
    /\ UNCHANGED <<timerVars, nextCheckAbstime, id, stopped, now, caller, raced, ctl>>

RunWake ==
    /\ pc = "waiting"
    /\ signalled \/ now >= nextCheckAbstime
    /\ pc' = "loop"
    /\ signalled' = FALSE
    /\ UNCHANGED <<timerVars, nextCheckAbstime, id, stopped, now, caller, raced, ctl>>

(* A condition variable may also wake its waiter for no reason. *)
RunSpuriousWake ==
    /\ pc = "waiting"
    /\ ~signalled /\ now < nextCheckAbstime
    /\ pc' = "loop"
    /\ UNCHANGED <<timerVars, nextCheckAbstime, id, signalled, stopped, now, caller, raced, ctl>>

Run == RunExit \/ RunFire \/ RunInvoke \/ RunCallbackReturns \/ RunSleep \/ RunWake

-----------------------------------------------------------------------------
(* The thread that starts and stops the timer, and time.                    *)

Start ==
    /\ ctl = "stopped"
    /\ stopped' = FALSE
    /\ pc' = "loop"
    /\ ctl' = "started"
    /\ UNCHANGED <<timerVars, nextCheckAbstime, id, signalled, now, caller, raced>>

Stop ==
    /\ ctl = "started"
    /\ stopped' = TRUE
    /\ ctl' = "stopping"
    /\ UNCHANGED <<timerVars, threadVars, now, caller, raced>>

StopNotify ==
    /\ ctl = "stopping"
    /\ signalled' = (signalled \/ pc = "waiting")
    /\ ctl' = "joining"
    /\ UNCHANGED <<timerVars, nextCheckAbstime, pc, id, stopped, now, caller, raced>>

StopJoin ==
    /\ ctl = "joining"
    /\ pc = "exited"
    /\ ctl' = "stopped"
    /\ UNCHANGED <<timerVars, threadVars, stopped, now, caller, raced>>

Tick ==
    /\ now < MaxTime
    /\ now' = now + 1
    /\ UNCHANGED <<timerVars, threadVars, stopped, caller, raced, ctl>>

CallerNext(i) ==
    \/ Add(i)
    \/ ResetBegin(i) \/ ResetErase(i) \/ ResetInsert(i)
    \/ CancelCall(i) \/ CancelLock(i) \/ CancelMark(i) \/ CancelErase(i)

Next ==
    \/ \E i \in Ids : CallerNext(i)
    \/ Run \/ RunSpuriousWake
    \/ Start \/ Stop \/ StopNotify \/ StopJoin
    \/ Tick

(* The operating system schedules every thread that can run, time passes,   *)
(* callbacks return; nobody has to call anything, and nobody has to stop.   *)
Fairness ==
    /\ WF_vars(Run)
    /\ WF_vars(Tick)
    /\ WF_vars(StopNotify) /\ WF_vars(StopJoin)
    /\ \A i \in Ids : /\ WF_vars(ResetErase(i) \/ ResetInsert(i))
                      /\ WF_vars(CancelLock(i) \/ CancelMark(i) \/ CancelErase(i))

Spec == Init /\ [][Next]_vars /\ Fairness

-----------------------------------------------------------------------------
(* Properties *)

TypeOK ==
    /\ timerIds \subseteq Ids
    /\ tp \in [Ids -> TimePoints]
    /\ done \in [Ids -> BOOLEAN]
    /\ canceled \in [Ids -> BOOLEAN]
    /\ invokeLocked \in [Ids -> BOOLEAN]
    /\ nextCheckAbstime \in 0..(MaxTime + LoopInterval)
    /\ stopped \in BOOLEAN
    /\ pc \in {"loop", "invoke", "callback", "waiting", "exited"}
    /\ id \in Ids \cup {NoId}
    /\ pc \in {"invoke", "callback"} => id \in Ids
    /\ signalled \in BOOLEAN
    /\ now \in TimePoints
    /\ caller \in [Ids -> {"new", "idle", "erasing", "inserting", "locking",
                          "locked", "canceling", "canceled"}]
    /\ raced \subseteq Ids
    /\ ctl \in {"stopped", "started", "stopping", "joining"}

(* The timer thread never oversleeps a timer: while it waits and nobody has *)
(* notified it, its wait_for ends no later than the first timer is due.     *)
(* insertTimerId notifies only for a timer that goes to the front and is    *)
(* due before nextCheckAbstime_, and this is why that is enough.            *)
NoOversleep ==
    pc = "waiting" /\ ~signalled => \A i \in timerIds : nextCheckAbstime <= tp[i]

(* The wrapper's mutex has one holder: the timer thread from the try_lock   *)
(* in run() until the callback has returned, or a cancel() between its lock *)
(* and its unlock.  So a cancel() that finds the callback running waits for *)
(* its end.                                                                 *)
InvokeMutexOwner ==
    \A i \in Ids : invokeLocked[i] =>
        (caller[i] = "locked") # (pc \in {"invoke", "callback"} /\ id = i)

(* When cancel() has returned, the timer thread does not take that timer    *)
(* out of the set to invoke it any more; an invoke() that had begun before  *)
(* the erase in cancel() may still be on its way.                           *)
CanceledNeverStarts ==
    [][\A i \in Ids : caller[i] = "canceled" /\ pc' = "invoke" /\ id' = i
                        => pc = "invoke" /\ id = i]_vars

(* A timer in the set leaves it in the end (it fires, it is cancelled or    *)
(* reset) unless the timer is stopped: run() always comes back to it.       *)
TimerLeavesSet == \A i \in Ids : i \in timerIds ~> (i \notin timerIds \/ stopped)

(* cancel() returns: the callback it may have to wait for ends, and run()   *)
(* does not take the wrapper's mutex again while cancel() waits for it.     *)
CancelReturns == \A i \in Ids : caller[i] = "locking" ~> caller[i] = "canceled"

(* stop() returns: the timer thread notices stopped_ wherever it is.        *)
StopReturns == ctl = "stopping" ~> ctl = "stopped"

(* Every timer that is added and left alone fires, unless the timer is      *)
(* stopped.                                                                 *)
EveryTimerFires ==
    \A i \in Ids : (caller[i] = "idle" /\ ~done[i]) ~>
                       (caller[i] # "idle" \/ done[i] \/ stopped)

=============================================================================
