------------------------------ MODULE Processor ------------------------------
(***************************************************************************)
(* The processors of the coroutine scheduler: src/coroutine/processor.cc.  *)
(*                                                                         *)
(* A processor is one thread, in process(), that runs tasks (coroutines)   *)
(* until they yield, block or finish.  Other threads add tasks to newQue_  *)
(* and wake blocked tasks through SuspendEntry objects.  A blocked task    *)
(* belongs to a shared_ptr whose deleter (TaskPointerDeleter) puts the     *)
(* task back on runQue_ when the last copy is gone: waitSet_ holds one     *)
(* copy and every WakeUp() in progress holds another.                      *)
(*                                                                         *)
(* pc[p] is where the thread of processor p is: in the loops of process(), *)
(* or in the code of the task it runs ("user"; "suspending" inside         *)
(* suspendBySelf; "blocked" between Suspend() and Yield()).  wpc[w] is     *)
(* where thread w is inside WakeUp(), if it is; a processor's thread is    *)
(* there on behalf of the task it runs, the threads in Wakers are those of *)
(* the timer and the reactors.                                             *)
(***************************************************************************)
EXTENDS Naturals, SequencesExt

CONSTANTS
    Procs,          \* processors
    Tasks,          \* Task objects
    Wakers,         \* other threads that call WakeUp
    NoTask, NoProc, NoRef,
    MaxSuspends,    \* bound: how often one task suspends itself
    MaxList         \* bound: the length of a list of tasks given to addTask

Threads == Wakers \cup Procs

(* A shared_ptr's control block: the e-th suspension of a task, and the     *)
(* processor its deleter refers to.                                         *)
Refs == [task : Tasks, epoch : 1..MaxSuspends, proc : Procs]

ASSUME ProcessorAssumption ==
    /\ NoTask \notin Tasks /\ NoProc \notin Procs /\ NoRef \notin Refs
    /\ Wakers \cap Procs = {}
    /\ MaxSuspends \in Nat /\ MaxList \in Nat

(* What is given to addTask: a task, or a list of them                      *)
Lists == {ts \in UNION {[1..n -> Tasks] : n \in 1..MaxList} : IsInjective(ts)}

VARIABLES
    newQue, runQue,     \* newQue_, runQue_
    taken,              \* what addNewTask has popped and not yet pushed
    running, nextTask,  \* runningTask_, nextTask_
    waitSet,            \* waitSet_, hashed by the address of the task
    notified,           \* notified_
    signalled,          \* newQueCond_ was notified while the thread waits
    pc,                 \* where the processor's thread is
    state,              \* Task::state_, "NEW" before the task exists
    processor,          \* Task::processor_
    epoch,              \* number of suspensions of the task so far
    wpc, wref,          \* WakeUp() in progress: where, and its shared_ptr
    torn,               \* unlocked pushes to runQue_ overlapped by another access
    lost,               \* tasks that such a push lost
    silent              \* tasks added as a range, which notifies nobody

queVars == <<newQue, runQue, taken, torn>>
loopVars == <<running, nextTask, pc>>
condVars == <<notified, signalled>>
taskVars == <<state, processor, epoch, silent>>
wakeVars == <<wpc, wref, lost>>
vars == <<queVars, loopVars, condVars, taskVars, wakeVars, waitSet>>

Init ==
    /\ newQue = [p \in Procs |-> <<>>]
    /\ runQue = [p \in Procs |-> <<>>]
    /\ taken = [p \in Procs |-> <<>>]
    /\ running = [p \in Procs |-> NoTask]
    /\ nextTask = [p \in Procs |-> NoTask]
    /\ waitSet = [p \in Procs |-> {}]
    /\ notified = [p \in Procs |-> FALSE]
    /\ signalled = [p \in Procs |-> FALSE]
    /\ pc = [p \in Procs |-> "pick"]
    /\ state = [t \in Tasks |-> "NEW"]
    /\ processor = [t \in Tasks |-> NoProc]
    /\ epoch = [t \in Tasks |-> 0]
    /\ wpc = [w \in Threads |-> "idle"]
    /\ wref = [w \in Threads |-> NoRef]
    /\ torn = {} /\ lost = {} /\ silent = {}

-----------------------------------------------------------------------------
(* Shared ownership of blocked tasks, newQueCond_ and the queues            *)

(* The shared_ptr copies of a control block *)
InWaitSet(r) == \E p \in Procs : r \in waitSet[p]
Holders(r) == {w \in Threads : wref[w] = r}
Alive(r) == InWaitSet(r) \/ Holders(r) # {}

(* Is the copy of thread w the last one?  The variants count nothing, or    *)
(* only the copy in waitSet_.                                               *)
LastCopyAssumed(w) == TRUE
LastCopyOutside(w) == ~InWaitSet(wref[w])
LastCopy(w) == ~InWaitSet(wref[w]) /\ Holders(wref[w]) = {w}

(* notify_all() if the thread waits, else leave a note for its next wait;   *)
(* the first of the two is a variant that leaves no note                    *)
NotifyWaiting(p) ==
    /\ signalled' = [signalled EXCEPT ![p] = @ \/ pc[p] = "waiting"]
    /\ UNCHANGED notified

Notify(p) ==
    /\ signalled' = [signalled EXCEPT ![p] = @ \/ pc[p] = "waiting"]
    /\ notified' = [notified EXCEPT ![p] = @ \/ pc[p] # "waiting"]

(* Thread a changes runQue_ of p while other threads, in the deleter, push  *)
(* to it without the lock.                                                  *)
TouchRunQue(p, a) ==
    torn' = (torn \ {a}) \cup
        {w \in Threads \ {a} : wpc[w] = "release" /\ wref[w].proc = p /\ LastCopy(w)}

(* Processor p starts, or resumes, task t: the head of process()'s inner    *)
(* loop                                                                     *)
Runs(p, t) ==
    /\ running' = [running EXCEPT ![p] = t]
    /\ processor' = [processor EXCEPT ![t] = p]
    /\ state' = [state EXCEPT ![t] = "RUNNING"]
    /\ pc' = [pc EXCEPT ![p] = "user"]

(* runningTask_ = std::move(nextTask_), after two variants: one that does   *)
(* not look whether there is a next task, one that keeps nextTask_          *)
RunsNextBlindly(p) ==
    /\ nextTask' = [nextTask EXCEPT ![p] = NoTask]
    /\ running' = [running EXCEPT ![p] = nextTask[p]]
    /\ pc' = [pc EXCEPT ![p] = "user"]
    /\ UNCHANGED <<processor, state>>

RunsNextKept(p) ==
    /\ UNCHANGED nextTask
    /\ IF nextTask[p] # NoTask
       THEN Runs(p, nextTask[p])
       ELSE /\ running' = [running EXCEPT ![p] = NoTask]
            /\ pc' = [pc EXCEPT ![p] = "pick"]
            /\ UNCHANGED <<processor, state>>

RunsNext(p) ==
    /\ nextTask' = [nextTask EXCEPT ![p] = NoTask]
    /\ IF nextTask[p] # NoTask
       THEN Runs(p, nextTask[p])
       ELSE /\ running' = [running EXCEPT ![p] = NoTask]
            /\ pc' = [pc EXCEPT ![p] = "pick"]
            /\ UNCHANGED <<processor, state>>

-----------------------------------------------------------------------------
(* addTask: from any thread                                                 *)

Push(p, ts) ==
    /\ \A t \in ToSet(ts) : state[t] = "NEW"
    /\ state' = [t \in Tasks |-> IF t \in ToSet(ts) THEN "READY" ELSE state[t]]
    /\ newQue' = [newQue EXCEPT ![p] = @ \o ts]
    /\ UNCHANGED <<runQue, taken, torn, loopVars, processor, epoch, wakeVars, waitSet>>

AddTask(p, ts) == Push(p, ts) /\ Notify(p) /\ UNCHANGED silent

(* addTask(first, last) adds the tasks one by one and notifies nobody.      *)
AddRange(p, t) == Push(p, <<t>>) /\ silent' = silent \cup {t} /\ UNCHANGED condVars

-----------------------------------------------------------------------------
(* process(): the outer loop                                                *)

PickRun(p) ==
    /\ pc[p] \in {"pick", "pick2"}
    /\ runQue[p] # <<>>
    /\ Runs(p, Head(runQue[p]))
    /\ runQue' = [runQue EXCEPT ![p] = Tail(@)]
    /\ TouchRunQue(p, p)
    /\ UNCHANGED <<newQue, taken, nextTask, condVars, epoch, silent, wakeVars, waitSet>>

PickNothing(p) ==
    /\ pc[p] \in {"pick", "pick2"}
    /\ runQue[p] = <<>>
    /\ pc' = [pc EXCEPT ![p] = IF @ = "pick" THEN "drain" ELSE "wait"]
    /\ UNCHANGED <<queVars, running, nextTask, condVars, taskVars, wakeVars, waitSet>>

(* addNewTask() is called before the second look at runQue_, after a wait,  *)
(* and with an empty runQue_ when a task has yielded or ended: it pops all  *)
(* of newQue_, then pushes that to runQue_.                                 *)
AfterDrain == [drain |-> "pick2", woken |-> "pick", drainYield |-> "push", drainDone |-> "erase"]

PopNew(p) ==
    /\ pc[p] \in DOMAIN AfterDrain /\ taken[p] = <<>>
    /\ taken' = [taken EXCEPT ![p] = newQue[p]]
    /\ newQue' = [newQue EXCEPT ![p] = <<>>]
    /\ pc' = [pc EXCEPT ![p] = IF newQue[p] = <<>> THEN AfterDrain[@] ELSE @]
    /\ UNCHANGED <<runQue, torn, running, nextTask, condVars, taskVars, wakeVars, waitSet>>

PushNew(p) ==
    /\ taken[p] # <<>>
    /\ runQue' = [runQue EXCEPT ![p] = @ \o taken[p]]
    /\ taken' = [taken EXCEPT ![p] = <<>>]
    /\ pc' = [pc EXCEPT ![p] = AfterDrain[@]]
    /\ TouchRunQue(p, p)
    /\ UNCHANGED <<newQue, running, nextTask, condVars, taskVars, wakeVars, waitSet>>

(* waitNewQueCondition(); the variant ignores notified_ *)
WaitEnterBlindly(p) ==
    /\ pc[p] = "wait"
    /\ pc' = [pc EXCEPT ![p] = "waiting"]
    /\ notified' = [notified EXCEPT ![p] = FALSE]
    /\ UNCHANGED <<queVars, running, nextTask, signalled, taskVars, wakeVars, waitSet>>

WaitEnter(p) ==
    /\ pc[p] = "wait"
    /\ pc' = [pc EXCEPT ![p] = IF notified[p] THEN "woken" ELSE "waiting"]
    /\ notified' = [notified EXCEPT ![p] = FALSE]
    /\ UNCHANGED <<queVars, running, nextTask, signalled, taskVars, wakeVars, waitSet>>

WaitEnd(p) ==
    /\ pc[p] = "waiting"
    /\ signalled[p]
    /\ pc' = [pc EXCEPT ![p] = "woken"]
    /\ signalled' = [signalled EXCEPT ![p] = FALSE]
    /\ UNCHANGED <<queVars, running, nextTask, notified, taskVars, wakeVars, waitSet>>

(* The wait has no predicate: a condition variable may wake its waiter for  *)
(* no reason.                                                               *)
SpuriousWake(p) ==
    /\ pc[p] = "waiting"
    /\ ~signalled[p]
    /\ pc' = [pc EXCEPT ![p] = "woken"]
    /\ UNCHANGED <<queVars, running, nextTask, condVars, taskVars, wakeVars, waitSet>>

-----------------------------------------------------------------------------
(* process(): the inner loop, after the task has swapped out                *)

(* case RUNNING: the task only yielded.  The queue may be empty again when  *)
(* the processor takes the next task from it: the balance thread steals.    *)
SwitchYield(p) ==
    /\ pc[p] = "switch" /\ state[running[p]] = "RUNNING"
    /\ pc' = [pc EXCEPT ![p] = IF runQue[p] = <<>> THEN "drainYield" ELSE "push"]
    /\ UNCHANGED <<queVars, running, nextTask, condVars, taskVars, wakeVars, waitSet>>

PushYield(p) ==
    /\ pc[p] = "push"
    /\ runQue' = [runQue EXCEPT ![p] = Append(@, running[p])]
    /\ running' = [running EXCEPT ![p] = NoTask]
    /\ pc' = [pc EXCEPT ![p] = "pop"]
    /\ TouchRunQue(p, p)
    /\ UNCHANGED <<newQue, taken, nextTask, condVars, taskVars, wakeVars, waitSet>>

PopFirst(p) ==
    /\ pc[p] = "pop" /\ runQue[p] # <<>>
    /\ Runs(p, Head(runQue[p]))
    /\ runQue' = [runQue EXCEPT ![p] = Tail(@)]
    /\ TouchRunQue(p, p)
    /\ UNCHANGED <<newQue, taken, nextTask, condVars, epoch, silent, wakeVars, waitSet>>

PopNothing(p) ==
    /\ pc[p] = "pop" /\ runQue[p] = <<>>
    /\ pc' = [pc EXCEPT ![p] = "pick"]
    /\ UNCHANGED <<queVars, running, nextTask, condVars, taskVars, wakeVars, waitSet>>

PopYield(p) == IF runQue[p] # <<>> THEN PopFirst(p) ELSE PopNothing(p)

(* case BLOCK: the shared_ptr of suspendBySelf owns the task by now *)
SwitchBlock(p) ==
    /\ pc[p] = "switch" /\ state[running[p]] = "BLOCK"
    /\ RunsNext(p)
    /\ UNCHANGED <<queVars, condVars, epoch, silent, wakeVars, waitSet>>

(* cases EXCEPT and DONE *)
SwitchDone(p) ==
    /\ pc[p] = "switch" /\ state[running[p]] \in {"DONE", "EXCEPT"}
    /\ pc' = [pc EXCEPT ![p] = IF runQue[p] = <<>> THEN "drainDone" ELSE "erase"]
    /\ UNCHANGED <<queVars, running, nextTask, condVars, taskVars, wakeVars, waitSet>>

SwitchErase(p) ==
    /\ pc[p] = "erase"
    /\ IF newQue[p] # <<>>
       THEN /\ Runs(p, Head(newQue[p]))
            /\ newQue' = [newQue EXCEPT ![p] = Tail(@)]
            /\ UNCHANGED nextTask
       ELSE RunsNext(p) /\ UNCHANGED newQue
    /\ UNCHANGED <<runQue, taken, torn, condVars, epoch, silent, wakeVars, waitSet>>

-----------------------------------------------------------------------------
(* The task that processor p runs                                           *)

InUser(p) == pc[p] = "user" /\ wpc[p] = "idle"

Yield(p) ==
    /\ pc[p] \in {"user", "blocked"} /\ wpc[p] = "idle"
    /\ pc' = [pc EXCEPT ![p] = "switch"]
    /\ UNCHANGED <<queVars, running, nextTask, condVars, taskVars, wakeVars, waitSet>>

(* Task::Run, when the callback returns or throws *)
Finish(p) ==
    /\ InUser(p)
    /\ \E s \in {"DONE", "EXCEPT"} : state' = [state EXCEPT ![running[p]] = s]
    /\ pc' = [pc EXCEPT ![p] = "switch"]
    /\ UNCHANGED <<queVars, running, nextTask, condVars, processor, epoch, silent, wakeVars, waitSet>>

(* Suspend() and suspendBySelf() up to the emplace into waitSet_ *)
Suspend(p) ==
    LET t == running[p] IN
    /\ InUser(p)
    /\ epoch[t] < MaxSuspends
    /\ epoch' = [epoch EXCEPT ![t] = @ + 1]
    /\ state' = [state EXCEPT ![t] = "BLOCK"]
    /\ waitSet' = [waitSet EXCEPT ![processor[t]] =
                      @ \cup {[task |-> t, epoch |-> epoch'[t], proc |-> processor[t]]}]
    /\ pc' = [pc EXCEPT ![p] = "suspending"]
    /\ UNCHANGED <<queVars, running, nextTask, condVars, processor, silent, wakeVars>>

(* the rest of suspendBySelf(): it fetches the task to run next *)
SuspendReturn(p) ==
    LET q == processor[running[p]] IN
    /\ pc[p] = "suspending"
    /\ IF runQue[q] # <<>>
       THEN /\ nextTask' = [nextTask EXCEPT ![q] = Head(runQue[q])]
            /\ runQue' = [runQue EXCEPT ![q] = Tail(@)]
            /\ TouchRunQue(q, p)
       ELSE UNCHANGED <<nextTask, runQue, torn>>
    /\ pc' = [pc EXCEPT ![p] = "blocked"]
    /\ UNCHANGED <<newQue, taken, running, condVars, taskVars, wakeVars, waitSet>>

-----------------------------------------------------------------------------
(* WakeUp(): from the timer thread, a reactor thread or a task              *)

CanCall(w) == w \in Procs => pc[w] \in {"user", "blocked"}

(* weak_ptr::lock succeeds as long as a copy exists.  The entry of a        *)
(* suspension is known to others once Suspend() has returned it, and they   *)
(* may keep it long after the task was woken.                               *)
WakeLock(w) ==
    /\ wpc[w] = "idle" /\ CanCall(w)
    /\ \E r \in Refs :
        /\ Alive(r)
        /\ ~\E p \in Procs : pc[p] = "suspending" /\ running[p] = r.task
        /\ wref' = [wref EXCEPT ![w] = r]
    /\ wpc' = [wpc EXCEPT ![w] = "locked"]
    /\ UNCHANGED <<queVars, loopVars, condVars, taskVars, lost, waitSet>>

(* wakeUpBySelf(): under mutex_, which suspendBySelf() does not take, so an *)
(* erase that overlaps its emplace may miss the element                     *)
WakeErase(w) ==
    LET t == wref[w].task
        p == processor[t]
    IN
    /\ wpc[w] = "locked"
    /\ \/ waitSet' = [waitSet EXCEPT ![p] = {r \in @ : r.task # t}]
       \/ pc[p] = "suspending" /\ UNCHANGED waitSet
    /\ wpc' = [wpc EXCEPT ![w] =
                  IF Len(runQue[p]) = 1 \/ w # p THEN "notify" ELSE "release"]
    /\ UNCHANGED <<queVars, loopVars, condVars, taskVars, wref, lost>>

(* notifiNewQueCondition() *)
WakeNotify(w) ==
    /\ wpc[w] = "notify"
    /\ Notify(processor[wref[w].task])
    /\ wpc' = [wpc EXCEPT ![w] = "release"]
    /\ UNCHANGED <<queVars, loopVars, taskVars, wref, lost, waitSet>>

(* WakeUp() returns and drops its copy.  If that was the last one, the      *)
(* deleter pushes the task to runQue_ without its lock: an overlapped push  *)
(* may be lost.                                                             *)
WakeRelease(w) ==
    LET r == wref[w] IN
    /\ wpc[w] = "release"
    /\ IF LastCopy(w)
       THEN /\ TouchRunQue(r.proc, w)
            /\ \/ /\ runQue' = [runQue EXCEPT ![r.proc] = Append(@, r.task)]
                  /\ UNCHANGED lost
               \/ /\ w \in torn
                  /\ lost' = lost \cup {r.task}
                  /\ UNCHANGED runQue
       ELSE torn' = torn \ {w} /\ UNCHANGED <<runQue, lost>>
    /\ wpc' = [wpc EXCEPT ![w] = "idle"]
    /\ wref' = [wref EXCEPT ![w] = NoRef]
    /\ UNCHANGED <<newQue, taken, loopVars, condVars, taskVars, waitSet>>

-----------------------------------------------------------------------------

Process(p) ==
    \/ PickRun(p) \/ PickNothing(p) \/ PopNew(p) \/ PushNew(p) \/ WaitEnter(p) \/ WaitEnd(p)
    \/ SwitchYield(p) \/ PushYield(p) \/ PopYield(p)
    \/ SwitchBlock(p) \/ SwitchDone(p) \/ SwitchErase(p)

User(p) == Yield(p) \/ Finish(p) \/ Suspend(p) \/ SuspendReturn(p)

WakeUp(w) == WakeErase(w) \/ WakeNotify(w) \/ WakeRelease(w)

Next ==
    \/ \E p \in Procs, ts \in Lists : AddTask(p, ts)
    \/ \E p \in Procs, t \in Tasks : AddRange(p, t)
    \/ \E p \in Procs : Process(p) \/ SpuriousWake(p) \/ User(p)
    \/ \E w \in Threads : WakeLock(w) \/ WakeUp(w)

(* Every thread that can run does, and the code of a task does not keep its *)
(* processor for ever.  Nobody has to add tasks or to wake them up.         *)
Fairness ==
    /\ \A p \in Procs : WF_vars(Process(p)) /\ SF_vars(User(p))
    /\ \A w \in Threads : WF_vars(WakeUp(w))

Spec == Init /\ [][Next]_vars /\ Fairness

-----------------------------------------------------------------------------
(* Properties *)

PcSet == {"pick", "drain", "pick2", "wait", "waiting", "woken", "user",
          "suspending", "blocked", "switch", "drainYield", "push", "pop",
          "drainDone", "erase"}
StateSet == {"NEW", "READY", "RUNNING", "BLOCK", "DONE", "EXCEPT"}

TypeOK ==
    /\ newQue \in [Procs -> Seq(Tasks)]
    /\ runQue \in [Procs -> Seq(Tasks)]
    /\ taken \in [Procs -> Seq(Tasks)]
    /\ \A p \in Procs : taken[p] # <<>> => pc[p] \in DOMAIN AfterDrain
    /\ running \in [Procs -> Tasks \cup {NoTask}]
    /\ nextTask \in [Procs -> Tasks \cup {NoTask}]
    /\ waitSet \in [Procs -> SUBSET Refs]
    /\ notified \in [Procs -> BOOLEAN]
    /\ signalled \in [Procs -> BOOLEAN]
    /\ pc \in [Procs -> PcSet]
    /\ \A p \in Procs :
          pc[p] \in {"user", "suspending", "blocked", "switch", "drainYield", "push"} =>
              running[p] \in Tasks
    /\ state \in [Tasks -> StateSet]
    /\ processor \in [Tasks -> Procs \cup {NoProc}]
    /\ epoch \in [Tasks -> 0..MaxSuspends]
    /\ wpc \in [Threads -> {"idle", "locked", "notify", "release"}]
    /\ wref \in [Threads -> Refs \cup {NoRef}]
    /\ torn \subseteq Threads
    /\ lost \subseteq Tasks /\ silent \subseteq Tasks

(* Everything that owns task t: a place in a queue or on the way from one   *)
(* to the other, runningTask_ (unless suspendBySelf took the task over),    *)
(* nextTask_, or a shared_ptr                                               *)
Places(que, t) == UNION {{<<p, i>> : i \in {j \in DOMAIN que[p] : que[p][j] = t}} : p \in Procs}
Owners(t) ==
    {<<"newQue", x>> : x \in Places(newQue, t)} \cup {<<"runQue", x>> : x \in Places(runQue, t)}
    \cup {<<"taken", x>> : x \in Places(taken, t)}
    \cup {<<"running", p>> : p \in {q \in Procs : running[q] = t /\ state[t] # "BLOCK"}}
    \cup {<<"next", p>> : p \in {q \in Procs : nextTask[q] = t}}
    \cup {<<"shared", r>> : r \in {x \in Refs : x.task = t /\ Alive(x)}}

(* No task is queued twice, run twice or freed while it is still in use,    *)
(* and only one thing drops a task: a push without the lock, of a task that *)
(* was woken, that another access to runQue_ overlaps.  Any other task that *)
(* exists and has not ended has exactly one owner, whatever order its       *)
(* wake-ups, its yield and the switch happen in (a task may be woken, and   *)
(* be back on runQue_, before it has yielded).                              *)
OneOwner ==
    \A t \in Tasks :
        /\ state[t] = "NEW" => Owners(t) = {}
        /\ state[t] \in {"READY", "RUNNING", "BLOCK"} =>
              IF t \in lost THEN Owners(t) = {} ELSE \E o \in Owners(t) : Owners(t) = {o}
        /\ state[t] \in {"DONE", "EXCEPT"} => Owners(t) \subseteq {<<"running", p>> : p \in Procs}

(* A SuspendEntry wakes the suspension it was made for or nothing: a        *)
(* control block that a late or second WakeUp (timer and reactor hold the   *)
(* same entry) can still lock is that of the task's current suspension.     *)
FreshWakeUp ==
    \A r \in Refs : Alive(r) =>
        /\ r.epoch = epoch[r.task]
        /\ state[r.task] = "BLOCK"
        /\ r.proc = processor[r.task]

(* A processor never sleeps on a task that an addTask which notifies gave   *)
(* it: while its thread waits and such a task is on newQue_, it has been    *)
(* notified.  Only addTask(first, last) does not notify.                    *)
NoLostAdd ==
    \A p \in Procs : pc[p] = "waiting" /\ ~(ToSet(newQue[p]) \subseteq silent) => signalled[p]

(* nextTask_ is only set while the running task is on its way to its BLOCK  *)
(* switch, which consumes it: suspendBySelf never overwrites a task in it.  *)
NextTaskKept ==
    \A p \in Procs : nextTask[p] # NoTask =>
        pc[p] \in {"blocked", "switch"} /\ state[running[p]] = "BLOCK"

(* A task on runQue_ does not stay there while its processor sleeps.        *)
WokenTaskRuns == \A p \in Procs : runQue[p] # <<>> ~> pc[p] # "waiting"

=============================================================================
