--------------------------- MODULE ProcessorProofs ---------------------------
(***************************************************************************)
(* Proofs about Processor, for any number of processors, tasks and wakers. *)
(*                                                                         *)
(* OneOwner counts the places of a task and is not inductive.  Owned says, *)
(* place by place, which states a task can be in there and that it is      *)
(* nowhere else; what a step does to a queue enters the proofs only as the *)
(* set of the queue's elements (module SequenceLemmas).                    *)
(***************************************************************************)
EXTENDS Processor, SequenceLemmas

(* A task that runs, or whose suspension can still be woken, has been given *)
(* a processor.                                                             *)
HasProcessor ==
    /\ \A p \in Procs : running[p] # NoTask => processor[running[p]] \in Procs
    /\ \A p \in Procs : \A r \in waitSet[p] : processor[r.task] \in Procs
    /\ \A w \in Threads : wref[w] # NoRef => processor[wref[w].task] \in Procs
    /\ \A w \in Threads : wpc[w] # "idle" => wref[w] # NoRef

(* From the moment the processor has emptied newQue_, a new task leaves a   *)
(* note (notified_) or wakes the thread, unless it is added as a range.     *)
NotedAdd ==
    \A p \in Procs : ~(ToSet(newQue[p]) \subseteq silent) =>
        /\ pc[p] \in {"pick2", "wait"} => notified[p]
        /\ pc[p] = "drain" /\ taken[p] # <<>> => notified[p]
        /\ pc[p] = "waiting" => signalled[p]

(* The new tasks of a processor: on newQue_, or on their way to runQue_ *)
NewSet(p) == ToSet(newQue[p]) \cup ToSet(taken[p])

(* A task is once in one queue. *)
QueuesApart ==
    \A p, q \in Procs :
        /\ IsInjective(newQue[p]) /\ IsInjective(taken[p]) /\ IsInjective(runQue[p])
        /\ ToSet(newQue[p]) \cap ToSet(taken[p]) = {}
        /\ NewSet(p) \cap ToSet(runQue[q]) = {}
        /\ p # q => /\ NewSet(p) \cap NewSet(q) = {}
                    /\ ToSet(runQue[p]) \cap ToSet(runQue[q]) = {}

(* Where the thread of a processor is tells the state of the task it runs,  *)
(* and no other processor runs that task.                                   *)
InTask(p) == pc[p] \in {"user", "suspending", "blocked", "switch", "drainYield", "push",
                        "drainDone", "erase"}

RunningState ==
    \A p \in Procs :
        /\ ~InTask(p) => running[p] = NoTask
        /\ InTask(p) => running[p] \in Tasks /\ processor[running[p]] = p
        /\ pc[p] \in {"user", "drainYield", "push"} => state[running[p]] = "RUNNING"
        /\ pc[p] \in {"suspending", "blocked"} => state[running[p]] = "BLOCK"
        /\ pc[p] = "switch" => state[running[p]] \in {"RUNNING", "BLOCK", "DONE", "EXCEPT"}
        /\ pc[p] \in {"drainDone", "erase"} => state[running[p]] \in {"DONE", "EXCEPT"}

(* No shared_ptr holds t, and no torn push has lost it. *)
Unowned(t) == t \notin lost /\ \A r \in Refs : Alive(r) => r.task # t

(* A queued task may be scheduled, and nothing else is about to; one that   *)
(* was woken before it has yielded is on the queue of the processor that    *)
(* still runs it.                                                           *)
NewOwned ==
    \A p \in Procs : \A t \in NewSet(p) :
        /\ state[t] \in {"READY", "RUNNING"} /\ t \notin lost
        /\ \A q \in Procs : running[q] # t /\ nextTask[q] # t

RunOwned ==
    \A p \in Procs : \A t \in ToSet(runQue[p]) :
        /\ state[t] \in {"READY", "RUNNING", "BLOCK"} /\ Unowned(t)
        /\ state[t] = "BLOCK" => processor[t] = p
        /\ \A q \in Procs : nextTask[q] # t /\ (running[q] = t => state[t] = "BLOCK")

NextOwned ==
    \A p \in Procs : nextTask[p] # NoTask =>
        LET t == nextTask[p] IN
        /\ state[t] \in {"READY", "RUNNING", "BLOCK"} /\ Unowned(t)
        /\ state[t] = "BLOCK" => processor[t] = p
        /\ \A q \in Procs : (nextTask[q] = t => q = p) /\ (running[q] = t => state[t] = "BLOCK")

(* A thread has a shared_ptr only inside WakeUp(); a task that one owns, or *)
(* that was lost, is blocked.                                               *)
SharedOwned ==
    /\ \A r \in Refs : Alive(r) => r.task \notin lost
    /\ \A w \in Threads : wpc[w] = "idle" => wref[w] = NoRef
    /\ \A t \in lost : state[t] = "BLOCK"

Owned ==
    /\ QueuesApart /\ RunningState /\ NewOwned /\ RunOwned /\ NextOwned /\ SharedOwned
    /\ FreshWakeUp /\ NextTaskKept

(* Something owns t. *)
Held(t) ==
    \/ \E p \in Procs : \/ t \in NewSet(p) \/ t \in ToSet(runQue[p]) \/ nextTask[p] = t
                        \/ (running[p] = t /\ state[t] = "RUNNING")
    \/ ~Unowned(t)

AllHeld == \A t \in Tasks : state[t] \in {"READY", "RUNNING", "BLOCK"} => Held(t)

IInv == TypeOK /\ HasProcessor /\ NotedAdd /\ Owned /\ AllHeld

-----------------------------------------------------------------------------

(* The places where addNewTask is called, and where it returns to *)
LEMMA DrainPcs ==
  /\ DOMAIN AfterDrain = {"drain", "woken", "drainYield", "drainDone"}
  /\ AfterDrain["drain"] = "pick2" /\ AfterDrain["woken"] = "pick"
  /\ AfterDrain["drainYield"] = "push" /\ AfterDrain["drainDone"] = "erase"
  BY DEF AfterDrain

(* The types of what a switch to another task changes, after the switch *)
SwitchTypes ==
    /\ running' \in [Procs -> Tasks \cup {NoTask}]
    /\ processor' \in [Tasks -> Procs \cup {NoProc}]
    /\ state' \in [Tasks -> StateSet]
    /\ pc' \in [Procs -> PcSet]
    /\ \A q \in Procs : pc'[q] \in {"user", "suspending", "blocked", "switch", "drainYield", "push"} =>
                            running'[q] \in Tasks
    /\ \A q \in Procs : running'[q] # NoTask => processor'[running'[q]] \in Procs
    /\ \A u \in Tasks : processor[u] \in Procs => processor'[u] \in Procs
    /\ \A q \in Procs : pc[q] \in DOMAIN AfterDrain => pc'[q] = pc[q]

LEMMA RunsTypes ==
  ASSUME TypeOK, HasProcessor, NEW p \in Procs, NEW t \in Tasks, Runs(p, t),
         pc[p] \notin DOMAIN AfterDrain
  PROVE  SwitchTypes
  BY ProcessorAssumption DEF Runs, TypeOK, HasProcessor, SwitchTypes, PcSet, StateSet

LEMMA RunsNextTypes ==
  ASSUME TypeOK, HasProcessor, NEW p \in Procs, RunsNext(p), pc[p] \notin DOMAIN AfterDrain
  PROVE  SwitchTypes /\ nextTask' \in [Procs -> Tasks \cup {NoTask}]
<1>1. nextTask' \in [Procs -> Tasks \cup {NoTask}]
  BY DEF RunsNext, TypeOK
<1>2. CASE nextTask[p] # NoTask
  <2>1. nextTask[p] \in Tasks /\ Runs(p, nextTask[p])
    BY <1>2 DEF RunsNext, TypeOK
  <2> QED
    BY <1>1, <2>1, RunsTypes
<1>3. CASE nextTask[p] = NoTask
  <2>1. /\ running' = [running EXCEPT ![p] = NoTask]
        /\ pc' = [pc EXCEPT ![p] = "pick"]
        /\ UNCHANGED <<processor, state>>
    BY <1>3 DEF RunsNext
  <2>2. /\ running' \in [Procs -> Tasks \cup {NoTask}]
        /\ pc' \in [Procs -> PcSet]
    BY <2>1 DEF TypeOK, PcSet
  <2>3. ASSUME NEW q \in Procs, pc'[q] \in {"user", "suspending", "blocked", "switch", "drainYield", "push"}
        PROVE  running'[q] \in Tasks
    BY <2>1, <2>3 DEF TypeOK
  <2>4. ASSUME NEW q \in Procs, running'[q] # NoTask
        PROVE  processor'[running'[q]] \in Procs
    BY <2>1, <2>4 DEF TypeOK, HasProcessor
  <2> QED
    BY <1>1, <2>1, <2>2, <2>3, <2>4 DEF TypeOK, SwitchTypes
<1> QED
  BY <1>2, <1>3

(* A switch that leaves the suspensions and the wake-ups alone *)
LEMMA SwitchKeeps ==
  ASSUME TypeOK, HasProcessor, SwitchTypes,
         newQue' \in [Procs -> Seq(Tasks)], runQue' \in [Procs -> Seq(Tasks)], UNCHANGED taken,
         nextTask' \in [Procs -> Tasks \cup {NoTask}], torn' \subseteq Threads,
         UNCHANGED <<condVars, epoch, silent, wakeVars, waitSet>>
  PROVE  TypeOK' /\ HasProcessor'
<1>1. TypeOK'
  BY DEF TypeOK, SwitchTypes, condVars, wakeVars
<1>2. ASSUME NEW p \in Procs, NEW r \in waitSet'[p] PROVE processor'[r.task] \in Procs
  <2>1. r \in Refs /\ r \in waitSet[p]
    BY DEF TypeOK
  <2> QED
    BY <2>1 DEF HasProcessor, SwitchTypes, Refs
<1>3. ASSUME NEW w \in Threads, wref'[w] # NoRef PROVE processor'[wref'[w].task] \in Procs
  <2>1. wref'[w] = wref[w] /\ wref[w] \in Refs
    BY <1>3 DEF TypeOK, wakeVars
  <2> QED
    BY <1>3, <2>1 DEF HasProcessor, SwitchTypes, Refs
<1>4. \A w \in Threads : wpc'[w] # "idle" => wref'[w] # NoRef
  BY DEF HasProcessor, wakeVars
<1> QED
  BY <1>1, <1>2, <1>3, <1>4 DEF HasProcessor, SwitchTypes

(* TouchRunQue only marks threads. *)
LEMMA TouchTypes ==
  ASSUME TypeOK, NEW p, NEW a, TouchRunQue(p, a)
  PROVE  torn' \subseteq Threads
  BY DEF TypeOK, TouchRunQue

(* A list of one task *)
LEMMA SingleElement ==
  ASSUME NEW t PROVE ToSet(<<t>>) = {t} /\ IsInjective(<<t>>)
  BY DEF ToSet, IsInjective

(* A list of tasks is a sequence of distinct tasks. *)
LEMMA ListsType == ASSUME NEW ts \in Lists PROVE ts \in Seq(Tasks) /\ IsInjective(ts)
  BY DEF Lists

(* Every step keeps the types, and the processor of every task in use.      *)
LEMMA NextTypes ==
  TypeOK /\ HasProcessor /\ [Next]_vars => TypeOK' /\ HasProcessor'
<1> SUFFICES ASSUME TypeOK, HasProcessor, [Next]_vars PROVE TypeOK' /\ HasProcessor'
  OBVIOUS
<1> USE ProcessorAssumption
<1> USE DrainPcs
<1>1. ASSUME NEW p \in Procs, NEW ts \in Seq(Tasks), Push(p, ts), condVars' = condVars \/ Notify(p),
             silent' \subseteq Tasks
      PROVE  TypeOK' /\ HasProcessor'
  <2>1. newQue' \in [Procs -> Seq(Tasks)]
    <3>1. newQue[p] \o ts \in Seq(Tasks)
      BY <1>1, ConcatProperties DEF TypeOK
    <3> QED
      BY <1>1, <3>1 DEF Push, TypeOK
  <2>2. notified' \in [Procs -> BOOLEAN] /\ signalled' \in [Procs -> BOOLEAN]
    BY <1>1 DEF condVars, Notify, TypeOK
  <2>3. state' \in [Tasks -> StateSet]
    BY <1>1 DEF Push, TypeOK, StateSet
  <2> QED
    BY <1>1, <2>1, <2>2, <2>3 DEF Push, TypeOK, HasProcessor, loopVars, wakeVars
<1>19. ASSUME NEW p \in Procs, NEW ts \in Lists, AddTask(p, ts) PROVE TypeOK' /\ HasProcessor'
  BY <1>1, <1>19, ListsType DEF AddTask, TypeOK
<1>20. ASSUME NEW p \in Procs, NEW t \in Tasks, AddRange(p, t) PROVE TypeOK' /\ HasProcessor'
  <2>1. <<t>> \in Seq(Tasks) /\ silent' \subseteq Tasks
    BY <1>20 DEF AddRange, TypeOK
  <2> QED
    BY <1>1, <1>20, <2>1 DEF AddRange
<1>2. ASSUME NEW p \in Procs, PickRun(p) \/ PopFirst(p) PROVE TypeOK' /\ HasProcessor'
  <2>1. Head(runQue[p]) \in Tasks /\ Tail(runQue[p]) \in Seq(Tasks)
    BY <1>2, HeadTailProperties DEF PickRun, PopFirst, TypeOK
  <2>2. SwitchTypes
    BY <1>2, <2>1, RunsTypes DEF PickRun, PopFirst
  <2>3. runQue' \in [Procs -> Seq(Tasks)]
    BY <1>2, <2>1 DEF PickRun, PopFirst, TypeOK
  <2>4. torn' \subseteq Threads
    BY <1>2, TouchTypes DEF PickRun, PopFirst
  <2> QED
    BY <1>2, <2>2, <2>3, <2>4, SwitchKeeps DEF PickRun, PopFirst, TypeOK
<1>3. ASSUME NEW p \in Procs, PickNothing(p) PROVE TypeOK' /\ HasProcessor'
  BY <1>3 DEF PickNothing, TypeOK, HasProcessor, PcSet, queVars, condVars, taskVars, wakeVars
<1>4. ASSUME NEW p \in Procs, PopNew(p) \/ PushNew(p) PROVE TypeOK' /\ HasProcessor'
  <2>1. /\ runQue' \in [Procs -> Seq(Tasks)] /\ newQue' \in [Procs -> Seq(Tasks)]
        /\ taken' \in [Procs -> Seq(Tasks)]
    <3>1. runQue[p] \o taken[p] \in Seq(Tasks)
      BY ConcatProperties DEF TypeOK
    <3> QED
      <4>1. CASE PopNew(p)
        BY <4>1 DEF PopNew, TypeOK
      <4>2. CASE PushNew(p)
        <5>1. <<>> \in Seq(Tasks)
          OBVIOUS
        <5> QED
          BY <3>1, <4>2, <5>1 DEF PushNew, TypeOK
      <4> QED
        BY <1>4, <4>1, <4>2
  <2>2. torn' \subseteq Threads
    BY <1>4, TouchTypes DEF PopNew, PushNew, TypeOK
  <2>3. UNCHANGED <<running, nextTask, condVars, taskVars, wakeVars, waitSet>>
    BY <1>4 DEF PopNew, PushNew
  <2>4. /\ pc[p] \in DOMAIN AfterDrain
        /\ \E v \in {pc[p], AfterDrain[pc[p]]} : pc' = [pc EXCEPT ![p] = v]
    BY <1>4 DEF PopNew, PushNew, TypeOK
  <2> PICK v \in {pc[p], AfterDrain[pc[p]]} : pc' = [pc EXCEPT ![p] = v]
    BY <2>4
  <2>6. pc'[p] = v /\ \A q \in Procs \ {p} : pc'[q] = pc[q]
    BY DEF TypeOK
  <2>5. /\ pc' \in [Procs -> PcSet]
        /\ \A q \in Procs : pc'[q] \in {"user", "suspending", "blocked", "switch", "drainYield", "push"} =>
                                running'[q] \in Tasks
        /\ \A q \in Procs : taken'[q] # <<>> => pc'[q] \in DOMAIN AfterDrain
    <3>1. v \in PcSet
      BY <2>4 DEF TypeOK, PcSet
    <3>2. \A q \in Procs \ {p} : taken'[q] = taken[q]
      BY <1>4 DEF PopNew, PushNew, TypeOK
    <3>3. v = "push" => pc[p] = "drainYield"
      BY <2>4
    <3>4. v \notin {"user", "suspending", "blocked", "switch"}
      BY <2>4
    <3>5. taken'[p] # <<>> => pc'[p] \in DOMAIN AfterDrain
      BY <1>4 DEF PopNew, PushNew, TypeOK
    <3>6. pc' \in [Procs -> PcSet]
      BY <3>1 DEF TypeOK
    <3>7. /\ \A q \in Procs : pc[q] \in {"user", "suspending", "blocked", "switch", "drainYield", "push"} =>
                                  running[q] \in Tasks
          /\ \A q \in Procs : taken[q] # <<>> => pc[q] \in DOMAIN AfterDrain
      BY DEF TypeOK
    <3>8. \A q \in Procs : pc'[q] \in {"user", "suspending", "blocked", "switch", "drainYield", "push"} =>
                              running'[q] \in Tasks
      <4> SUFFICES ASSUME NEW q \in Procs,
                          pc'[q] \in {"user", "suspending", "blocked", "switch", "drainYield", "push"}
                   PROVE  running[q] \in Tasks
        BY <2>3
      <4>1. CASE q = p
        <5>1. pc'[p] = "drainYield" \/ pc'[p] = "push"
          BY <2>6, <3>4, <4>1
        <5>2. pc[p] = "drainYield"
          BY <2>4, <2>6, <3>3, <5>1
        <5> QED
          BY <3>7, <4>1, <5>2
      <4>2. CASE q # p
        BY <2>6, <3>7, <4>2
      <4> QED
        BY <4>1, <4>2
    <3>9. \A q \in Procs : taken'[q] # <<>> => pc'[q] \in DOMAIN AfterDrain
      BY <2>6, <3>2, <3>5, <3>7
    <3> QED
      BY <3>6, <3>8, <3>9
  <2> QED
    BY <2>1, <2>2, <2>3, <2>5 DEF TypeOK, HasProcessor, condVars, taskVars, wakeVars
<1>5. ASSUME NEW p \in Procs, WaitEnter(p) \/ WaitEnd(p) \/ SpuriousWake(p)
      PROVE  TypeOK' /\ HasProcessor'
  <2>1. /\ pc' \in [Procs -> PcSet]
        /\ \A q \in Procs : pc'[q] \in {"user", "suspending", "blocked", "switch", "drainYield", "push"} =>
                                running'[q] \in Tasks
    BY <1>5 DEF WaitEnter, WaitEnd, SpuriousWake, TypeOK, PcSet
  <2>4. \A q \in Procs : taken'[q] # <<>> => pc'[q] \in DOMAIN AfterDrain
    BY <1>5 DEF WaitEnter, WaitEnd, SpuriousWake, TypeOK, queVars
  <2>2. notified' \in [Procs -> BOOLEAN] /\ signalled' \in [Procs -> BOOLEAN]
    BY <1>5 DEF WaitEnter, WaitEnd, SpuriousWake, TypeOK, condVars
  <2>3. UNCHANGED <<queVars, running, nextTask, taskVars, wakeVars, waitSet>>
    BY <1>5 DEF WaitEnter, WaitEnd, SpuriousWake
  <2> QED
    BY <2>1, <2>2, <2>3, <2>4 DEF TypeOK, HasProcessor, queVars, taskVars, wakeVars
<1>6. ASSUME NEW p \in Procs, SwitchYield(p) \/ SwitchDone(p) \/ PopNothing(p)
      PROVE  TypeOK' /\ HasProcessor'
  <2>1. /\ pc[p] \in {"switch", "pop"}
        /\ \E v \in {"drainYield", "push", "drainDone", "erase", "pick"} :
              pc' = [pc EXCEPT ![p] = v] /\ (v \in {"drainYield", "push"} => pc[p] = "switch")
        /\ UNCHANGED <<queVars, running, nextTask, condVars, taskVars, wakeVars, waitSet>>
    BY <1>6 DEF SwitchYield, SwitchDone, PopNothing, TypeOK
  <2>2. /\ pc' \in [Procs -> PcSet] /\ \A q \in Procs \ {p} : pc'[q] = pc[q]
        /\ pc'[p] \in {"drainYield", "push", "drainDone", "erase", "pick"}
        /\ pc'[p] \in {"drainYield", "push"} => pc[p] = "switch"
    BY <2>1 DEF TypeOK, PcSet
  <2>3. \A q \in Procs : pc'[q] \in {"user", "suspending", "blocked", "switch", "drainYield", "push"} =>
                            running'[q] \in Tasks
    BY <2>1, <2>2 DEF TypeOK
  <2>4. \A q \in Procs : taken'[q] # <<>> => pc'[q] \in DOMAIN AfterDrain
    BY <2>1, <2>2 DEF TypeOK, queVars
  <2> QED
    BY <2>1, <2>2, <2>3, <2>4 DEF TypeOK, HasProcessor, queVars, condVars, taskVars, wakeVars
<1>8. ASSUME NEW p \in Procs, PushYield(p) PROVE TypeOK' /\ HasProcessor'
  <2>1. runQue' \in [Procs -> Seq(Tasks)]
    <3>1. Append(runQue[p], running[p]) \in Seq(Tasks)
      BY <1>8, AppendProperties DEF PushYield, TypeOK
    <3> QED
      BY <1>8, <3>1 DEF PushYield, TypeOK
  <2>2. running' \in [Procs -> Tasks \cup {NoTask}]
    BY <1>8 DEF PushYield, TypeOK
  <2>3. /\ pc' \in [Procs -> PcSet]
        /\ \A q \in Procs \ {p} : pc'[q] = pc[q] /\ running'[q] = running[q]
        /\ pc'[p] = "pop" /\ running'[p] = NoTask /\ pc[p] = "push"
    BY <1>8 DEF PushYield, TypeOK, PcSet
  <2>4. torn' \subseteq Threads
    BY <1>8, TouchTypes DEF PushYield
  <2>5. UNCHANGED <<newQue, taken, nextTask, condVars, taskVars, wakeVars, waitSet>>
    BY <1>8 DEF PushYield
  <2>6. \A q \in Procs : taken'[q] # <<>> => pc'[q] \in DOMAIN AfterDrain
    BY <2>3, <2>5 DEF TypeOK
  <2>7. HasProcessor'
    BY <2>3, <2>5 DEF HasProcessor, taskVars, wakeVars
  <2> QED
    BY <2>1, <2>2, <2>3, <2>4, <2>5, <2>6, <2>7 DEF TypeOK, condVars, taskVars, wakeVars
<1>7. ASSUME NEW p \in Procs, SwitchBlock(p) PROVE TypeOK' /\ HasProcessor'
  <2>1. SwitchTypes /\ nextTask' \in [Procs -> Tasks \cup {NoTask}]
    BY <1>7, RunsNextTypes DEF SwitchBlock
  <2> QED
    BY <1>7, <2>1, SwitchKeeps DEF SwitchBlock, TypeOK, queVars
<1>9. ASSUME NEW p \in Procs, SwitchErase(p) PROVE TypeOK' /\ HasProcessor'
  <2>1. CASE newQue[p] # <<>>
    <3>1. Head(newQue[p]) \in Tasks /\ Tail(newQue[p]) \in Seq(Tasks)
      BY <2>1, HeadTailProperties DEF TypeOK
    <3>2. SwitchTypes
      BY <1>9, <2>1, <3>1, RunsTypes DEF SwitchErase
    <3>3. newQue' = [newQue EXCEPT ![p] = Tail(@)] /\ UNCHANGED nextTask
      BY <1>9, <2>1 DEF SwitchErase
    <3>4. newQue' \in [Procs -> Seq(Tasks)]
      BY <3>1, <3>3 DEF TypeOK
    <3> QED
      BY <1>9, <3>2, <3>3, <3>4, SwitchKeeps DEF SwitchErase, TypeOK
  <2>2. CASE newQue[p] = <<>>
    <3>1. RunsNext(p) /\ UNCHANGED newQue
      BY <1>9, <2>2 DEF SwitchErase
    <3>3. pc[p] \notin DOMAIN AfterDrain
      BY <1>9 DEF SwitchErase
    <3>2. SwitchTypes /\ nextTask' \in [Procs -> Tasks \cup {NoTask}]
      BY <3>1, <3>3, RunsNextTypes
    <3> QED
      BY <1>9, <3>1, <3>2, SwitchKeeps DEF SwitchErase, TypeOK
  <2> QED
    BY <2>1, <2>2
<1>10. ASSUME NEW p \in Procs, Yield(p) PROVE TypeOK' /\ HasProcessor'
  BY <1>10 DEF Yield, TypeOK, HasProcessor, PcSet, queVars, condVars, taskVars, wakeVars
<1>11. ASSUME NEW p \in Procs, Finish(p) PROVE TypeOK' /\ HasProcessor'
  <2>1. state' \in [Tasks -> StateSet]
    BY <1>11 DEF Finish, TypeOK, StateSet
  <2>2. /\ pc' \in [Procs -> PcSet]
        /\ \A q \in Procs : pc'[q] \in {"user", "suspending", "blocked", "switch", "drainYield", "push"} =>
                                running'[q] \in Tasks
    BY <1>11 DEF Finish, InUser, TypeOK, PcSet
  <2>3. \A q \in Procs : taken'[q] # <<>> => pc'[q] \in DOMAIN AfterDrain
    BY <1>11 DEF Finish, InUser, TypeOK, queVars
  <2> QED
    BY <1>11, <2>1, <2>2, <2>3 DEF Finish, TypeOK, HasProcessor, queVars, condVars, wakeVars
<1>12. ASSUME NEW p \in Procs, Suspend(p) PROVE TypeOK' /\ HasProcessor'
  <2> DEFINE t == running[p]
             r == [task |-> t, epoch |-> epoch[t] + 1, proc |-> processor[t]]
  <2>1. t \in Tasks /\ processor[t] \in Procs /\ epoch[t] + 1 \in 1..MaxSuspends
    BY <1>12 DEF Suspend, InUser, TypeOK, HasProcessor
  <2>2. r \in Refs
    BY <2>1 DEF Refs
  <2>3. epoch' = [epoch EXCEPT ![t] = @ + 1] /\ epoch' \in [Tasks -> 0..MaxSuspends]
    BY <1>12, <2>1 DEF Suspend, TypeOK
  <2>4. waitSet' = [waitSet EXCEPT ![processor[t]] = @ \cup {r}]
    BY <1>12, <2>1, <2>3 DEF Suspend, TypeOK
  <2>5. waitSet' \in [Procs -> SUBSET Refs]
    BY <2>1, <2>2, <2>4 DEF TypeOK
  <2>6. \A q \in Procs : \A x \in waitSet'[q] : processor[x.task] \in Procs
    BY <2>1, <2>4 DEF TypeOK, HasProcessor
  <2>7. state' \in [Tasks -> StateSet]
    BY <1>12, <2>1 DEF Suspend, TypeOK, StateSet
  <2>8. /\ pc' \in [Procs -> PcSet]
        /\ \A q \in Procs : pc'[q] \in {"user", "suspending", "blocked", "switch", "drainYield", "push"} =>
                                running'[q] \in Tasks
    BY <1>12, <2>1 DEF Suspend, TypeOK, PcSet
  <2>9. \A q \in Procs : taken'[q] # <<>> => pc'[q] \in DOMAIN AfterDrain
    BY <1>12 DEF Suspend, InUser, TypeOK, queVars
  <2> QED
    BY <1>12, <2>3, <2>5, <2>6, <2>7, <2>8, <2>9
    DEF Suspend, TypeOK, HasProcessor, queVars, condVars, wakeVars
<1>13. ASSUME NEW p \in Procs, SuspendReturn(p) PROVE TypeOK' /\ HasProcessor'
  <2> DEFINE q == processor[running[p]]
  <2>1. q \in Procs
    BY <1>13 DEF SuspendReturn, TypeOK, HasProcessor
  <2>2. /\ nextTask' \in [Procs -> Tasks \cup {NoTask}]
        /\ runQue' \in [Procs -> Seq(Tasks)]
    <3>1. CASE runQue[q] = <<>>
      BY <1>13, <3>1 DEF SuspendReturn, TypeOK
    <3>2. CASE runQue[q] # <<>>
      <4>1. Head(runQue[q]) \in Tasks /\ Tail(runQue[q]) \in Seq(Tasks)
        BY <2>1, <3>2, HeadTailProperties DEF TypeOK
      <4>2. /\ nextTask' = [nextTask EXCEPT ![q] = Head(runQue[q])]
            /\ runQue' = [runQue EXCEPT ![q] = Tail(runQue[q])]
        BY <1>13, <3>2 DEF SuspendReturn
      <4> QED
        BY <2>1, <4>1, <4>2 DEF TypeOK
    <3> QED
      BY <3>1, <3>2
  <2>3. torn' \subseteq Threads
    BY <1>13, TouchTypes DEF SuspendReturn, TypeOK
  <2>4. /\ pc' \in [Procs -> PcSet]
        /\ \A x \in Procs : pc'[x] \in {"user", "suspending", "blocked", "switch", "drainYield", "push"} =>
                                running'[x] \in Tasks
    BY <1>13 DEF SuspendReturn, TypeOK, PcSet
  <2> QED
    BY <1>13, <2>2, <2>3, <2>4 DEF SuspendReturn, TypeOK, HasProcessor, condVars, taskVars, wakeVars
<1>14. ASSUME NEW w \in Threads, WakeLock(w) PROVE TypeOK' /\ HasProcessor'
  <2>1. PICK r \in Refs : Alive(r) /\ wref' = [wref EXCEPT ![w] = r]
    BY <1>14 DEF WakeLock
  <2>2. processor[r.task] \in Procs
    BY <2>1 DEF Alive, InWaitSet, Holders, HasProcessor
  <2>3. wpc' \in [Threads -> {"idle", "locked", "notify", "release"}]
    BY <1>14 DEF WakeLock, TypeOK
  <2> QED
    BY <1>14, <2>1, <2>2, <2>3
    DEF WakeLock, TypeOK, HasProcessor, queVars, loopVars, condVars, taskVars
<1>15. ASSUME NEW w \in Threads, WakeErase(w) PROVE TypeOK' /\ HasProcessor'
  <2> DEFINE t == wref[w].task
             p == processor[t]
  <2>1. p \in Procs
    BY <1>15 DEF WakeErase, HasProcessor
  <2>2. waitSet' \in [Procs -> SUBSET Refs] /\ \A q \in Procs : waitSet'[q] \subseteq waitSet[q]
    <3>1. CASE waitSet' = waitSet
      BY <3>1 DEF TypeOK
    <3>2. CASE waitSet' = [waitSet EXCEPT ![p] = {r \in @ : r.task # t}]
      BY <2>1, <3>2 DEF TypeOK
    <3> QED
      BY <1>15, <3>1, <3>2 DEF WakeErase
  <2>3. wpc' \in [Threads -> {"idle", "locked", "notify", "release"}]
    BY <1>15 DEF WakeErase, TypeOK
  <2>4. \A v \in Threads : wpc'[v] # "idle" => wpc[v] # "idle"
    BY <1>15 DEF WakeErase, TypeOK
  <2> QED
    BY <1>15, <2>2, <2>3, <2>4
    DEF WakeErase, TypeOK, HasProcessor, queVars, loopVars, condVars, taskVars
<1>16. ASSUME NEW w \in Threads, WakeNotify(w) PROVE TypeOK' /\ HasProcessor'
  <2>1. /\ notified' \in [Procs -> BOOLEAN] /\ signalled' \in [Procs -> BOOLEAN]
        /\ wpc' \in [Threads -> {"idle", "locked", "notify", "release"}]
    BY <1>16 DEF WakeNotify, Notify, TypeOK
  <2>2. \A v \in Threads : wpc'[v] # "idle" => wpc[v] # "idle"
    BY <1>16 DEF WakeNotify, TypeOK
  <2> QED
    BY <1>16, <2>1, <2>2 DEF WakeNotify, TypeOK, HasProcessor, queVars, loopVars, taskVars
<1>17. ASSUME NEW w \in Threads, WakeRelease(w) PROVE TypeOK' /\ HasProcessor'
  <2> DEFINE r == wref[w]
  <2>1. r \in Refs
    BY <1>17 DEF WakeRelease, TypeOK, HasProcessor
  <2>2. r.task \in Tasks /\ r.proc \in Procs
    BY <2>1 DEF Refs
  <2>3. runQue' \in [Procs -> Seq(Tasks)] /\ lost' \subseteq Tasks
    <3>1. CASE UNCHANGED runQue
      BY <1>17, <2>2, <3>1 DEF WakeRelease, TypeOK
    <3>2. CASE runQue' = [runQue EXCEPT ![r.proc] = Append(@, r.task)] /\ UNCHANGED lost
      <4>1. Append(runQue[r.proc], r.task) \in Seq(Tasks)
        BY <2>2, AppendProperties DEF TypeOK
      <4> QED
        BY <2>2, <3>2, <4>1 DEF TypeOK
    <3> QED
      BY <1>17, <3>1, <3>2 DEF WakeRelease
  <2>4. torn' \subseteq Threads
    BY <1>17, TouchTypes DEF WakeRelease, TypeOK
  <2>5. /\ wpc' \in [Threads -> {"idle", "locked", "notify", "release"}]
        /\ wref' \in [Threads -> Refs \cup {NoRef}]
        /\ \A v \in Threads : wpc'[v] # "idle" => wref'[v] # NoRef
        /\ \A v \in Threads : wref'[v] # NoRef => processor[wref'[v].task] \in Procs
    BY <1>17 DEF WakeRelease, TypeOK, HasProcessor
  <2> QED
    BY <1>17, <2>3, <2>4, <2>5
    DEF WakeRelease, TypeOK, HasProcessor, loopVars, condVars, taskVars
<1>18. CASE UNCHANGED vars
  BY <1>18 DEF vars, queVars, loopVars, condVars, taskVars, wakeVars, TypeOK, HasProcessor
<1> QED
  BY <1>1, <1>2, <1>3, <1>4, <1>5, <1>6, <1>7, <1>8, <1>9, <1>10, <1>11, <1>12, <1>13,
     <1>14, <1>15, <1>16, <1>17, <1>18, <1>19, <1>20 DEF Next, Process, PopYield, User, WakeUp

(* What is left of a queue *)
LEMMA TailSubset ==
  ASSUME NEW s \in Seq(Tasks), s # <<>> PROVE ToSet(Tail(s)) \subseteq ToSet(s)
<1> SUFFICES ASSUME NEW i \in DOMAIN Tail(s) PROVE Tail(s)[i] \in ToSet(s)
  BY DEF ToSet
<1>1. i + 1 \in DOMAIN s /\ Tail(s)[i] = s[i + 1]
  OBVIOUS
<1> QED
  BY <1>1 DEF ToSet

(* NotedAdd is preserved. *)
LEMMA NextNotedAdd == TypeOK /\ HasProcessor /\ NotedAdd /\ [Next]_vars => NotedAdd'
<1> SUFFICES ASSUME TypeOK, HasProcessor, NotedAdd, [Next]_vars,
                    NEW q \in Procs, ~(ToSet(newQue'[q]) \subseteq silent')
             PROVE  /\ pc'[q] \in {"pick2", "wait"} => notified'[q]
                    /\ pc'[q] = "drain" /\ taken'[q] # <<>> => notified'[q]
                    /\ pc'[q] = "waiting" => signalled'[q]
  BY DEF NotedAdd
<1> USE DrainPcs DEF TypeOK, NotedAdd
<1> DEFINE Goal == /\ pc'[q] \in {"pick2", "wait"} => notified'[q]
                   /\ pc'[q] = "drain" /\ taken'[q] # <<>> => notified'[q]
                   /\ pc'[q] = "waiting" => signalled'[q]
<1>1. ASSUME NEW p \in Procs, NEW ts \in Lists, AddTask(p, ts) PROVE Goal
  <2>1. CASE q = p
    BY <1>1, <2>1 DEF AddTask, Push, Notify, loopVars
  <2>2. CASE q # p
    BY <1>1, <2>2 DEF AddTask, Push, Notify, loopVars
  <2> QED
    BY <2>1, <2>2
<1>2. ASSUME NEW p \in Procs, NEW t \in Tasks, AddRange(p, t) PROVE Goal
  <2>1. /\ newQue' = [newQue EXCEPT ![p] = @ \o <<t>>] /\ silent' = silent \cup {t}
        /\ UNCHANGED <<taken, pc, notified, signalled>>
    BY <1>2 DEF AddRange, Push, loopVars, condVars
  <2>2. ToSet(newQue[p] \o <<t>>) = ToSet(newQue[p]) \cup {t}
    <3>1. newQue[p] \in Seq(Tasks) /\ <<t>> \in Seq(Tasks)
      OBVIOUS
    <3>2. ToSet(<<t>>) = {t}
      BY SingleElement
    <3>3. newQue[p] \o <<t>> = Append(newQue[p], t)
      BY <3>1
    <3>4. ToSet(Append(newQue[p], t)) = ToSet(newQue[p]) \cup {t}
      BY <3>1, AppendElements
    <3> QED
      BY <3>3, <3>4
  <2>3. newQue'[q] = IF q = p THEN newQue[p] \o <<t>> ELSE newQue[q]
    BY <2>1
  <2>4. ~(ToSet(newQue[q]) \subseteq silent)
    <3>1. CASE q = p
      BY <2>1, <2>2, <2>3, <3>1
    <3>2. CASE q # p
      BY <2>1, <2>3, <3>2
    <3> QED
      BY <3>1, <3>2
  <2> QED
    BY <2>1, <2>4
<1>18. ASSUME NEW p \in Procs, NEW v, pc' = [pc EXCEPT ![p] = v],
              v \notin {"pick2", "wait", "waiting", "drain"},
              ToSet(newQue'[q]) \subseteq ToSet(newQue[q]), UNCHANGED <<taken, condVars, silent>>
       PROVE  Goal
  <2>1. ~(ToSet(newQue[q]) \subseteq silent)
    BY <1>18
  <2>2. CASE q = p
    BY <1>18, <2>2
  <2>3. CASE q # p
    <3>1. pc'[q] = pc[q] /\ taken'[q] = taken[q] /\ notified'[q] = notified[q] /\ signalled'[q] = signalled[q]
      BY <1>18, <2>3 DEF condVars
    <3> QED
      BY <2>1, <3>1
  <2> QED
    BY <2>2, <2>3
<1>3. ASSUME NEW p \in Procs, PickRun(p) \/ PopFirst(p) PROVE Goal
  BY <1>3, <1>18 DEF PickRun, PopFirst, Runs
<1>4. ASSUME NEW p \in Procs, PickNothing(p) \/ PopNothing(p) PROVE Goal
  <2>1. UNCHANGED <<newQue, taken, silent, notified, signalled>>
    BY <1>4 DEF PickNothing, PopNothing, queVars, condVars, taskVars
  <2>2. CASE q # p \/ PopNothing(p)
    BY <1>4, <2>1, <2>2 DEF PickNothing, PopNothing
  <2>3. CASE q = p /\ PickNothing(p)
    <3>1. CASE pc[p] = "pick"
      <4>1. taken[p] = <<>> /\ pc'[p] = "drain"
        BY <2>3, <3>1 DEF PickNothing
      <4> QED
        BY <2>1, <2>3, <4>1
    <3>2. CASE pc[p] = "pick2"
      BY <2>1, <2>3, <3>2 DEF PickNothing
    <3> QED
      BY <2>3, <3>1, <3>2 DEF PickNothing
  <2> QED
    BY <1>4, <2>2, <2>3
<1>5. ASSUME NEW p \in Procs, PopNew(p) PROVE Goal
  <2>1. CASE q = p
    <3>1. newQue'[q] = <<>>
      BY <1>5, <2>1 DEF PopNew
    <3> QED
      BY <3>1, EmptyElements
  <2>2. CASE q # p
    BY <1>5, <2>2 DEF PopNew, condVars, taskVars
  <2> QED
    BY <2>1, <2>2
<1>6. ASSUME NEW p \in Procs, PushNew(p) PROVE Goal
  BY <1>6 DEF PushNew, condVars, taskVars
<1>7. ASSUME NEW p \in Procs, WaitEnter(p) PROVE Goal
  BY <1>7 DEF WaitEnter, queVars, taskVars
<1>8. ASSUME NEW p \in Procs, WaitEnd(p) PROVE Goal
  BY <1>8 DEF WaitEnd, queVars, taskVars
<1>9. ASSUME NEW p \in Procs, SpuriousWake(p) PROVE Goal
  BY <1>9 DEF SpuriousWake, queVars, condVars, taskVars
<1>10. ASSUME NEW p \in Procs, SwitchYield(p) \/ PushYield(p) PROVE Goal
  <2>1. CASE SwitchYield(p)
    BY <1>18, <2>1 DEF SwitchYield, queVars, taskVars
  <2>2. CASE PushYield(p)
    BY <1>18, <2>2 DEF PushYield, taskVars
  <2> QED
    BY <1>10, <2>1, <2>2
<1>11. ASSUME NEW p \in Procs, SwitchBlock(p) PROVE Goal
  <2>1. UNCHANGED <<newQue, taken, condVars, silent>>
    BY <1>11 DEF SwitchBlock, queVars
  <2>2. \E v \in {"user", "pick"} : pc' = [pc EXCEPT ![p] = v]
    BY <1>11 DEF SwitchBlock, RunsNext, Runs
  <2> QED
    BY <1>18, <2>1, <2>2
<1>12. ASSUME NEW p \in Procs, SwitchDone(p) PROVE Goal
  BY <1>12 DEF SwitchDone, queVars, condVars, taskVars
<1>13. ASSUME NEW p \in Procs, SwitchErase(p) PROVE Goal
  <2>1. UNCHANGED <<taken, condVars, silent>>
    BY <1>13 DEF SwitchErase
  <2>2. CASE newQue[p] # <<>>
    <3>1. ToSet(Tail(newQue[p])) \subseteq ToSet(newQue[p])
      BY <2>2, TailSubset
    <3>2. newQue' = [newQue EXCEPT ![p] = Tail(@)] /\ pc' = [pc EXCEPT ![p] = "user"]
      BY <1>13, <2>2 DEF SwitchErase, Runs
    <3> QED
      BY <1>18, <2>1, <3>1, <3>2
  <2>3. CASE newQue[p] = <<>>
    BY <1>13, <1>18, <2>1, <2>3 DEF SwitchErase, RunsNext, Runs
  <2> QED
    BY <2>2, <2>3
<1>14. ASSUME NEW p \in Procs, User(p) PROVE Goal
  <2>1. UNCHANGED <<newQue, taken, condVars, silent>>
    BY <1>14 DEF User, Yield, Finish, Suspend, SuspendReturn, queVars, taskVars
  <2>2. \E v \in {"switch", "suspending", "blocked"} : pc' = [pc EXCEPT ![p] = v]
    BY <1>14 DEF User, Yield, Finish, Suspend, SuspendReturn
  <2> QED
    BY <1>18, <2>1, <2>2
<1>15. ASSUME NEW w \in Threads, WakeLock(w) \/ WakeErase(w) \/ WakeRelease(w) PROVE Goal
  BY <1>15 DEF WakeLock, WakeErase, WakeRelease, queVars, loopVars, condVars, taskVars
<1>16. ASSUME NEW w \in Threads, WakeNotify(w) PROVE Goal
  <2>1. processor[wref[w].task] \in Procs
    BY <1>16 DEF WakeNotify, HasProcessor
  <2> QED
    BY <1>16, <2>1 DEF WakeNotify, Notify, queVars, loopVars, taskVars
<1>17. CASE UNCHANGED vars
  BY <1>17 DEF vars, queVars, loopVars, condVars, taskVars
<1> QED
  BY <1>1, <1>2, <1>3, <1>4, <1>5, <1>6, <1>7, <1>8, <1>9, <1>10, <1>11, <1>12, <1>13, <1>14,
     <1>15, <1>16, <1>17 DEF Next, Process, PopYield, WakeUp

-----------------------------------------------------------------------------
(* Ownership.  A step of a processor moves tasks that have an owner to other  *)
(* owners, until they end; it does not touch the others.                      *)

Follows(t) ==
    /\ Held(t) /\ state'[t] \notin {"DONE", "EXCEPT"} => Held(t)'
    /\ ~Held(t) => ~Held(t)' /\ state'[t] = state[t]

OwnedStep == Owned' /\ \A t \in Tasks : Follows(t)

(* The elements of the queues are tasks. *)
LEMMA QueuedTasks ==
  ASSUME TypeOK, NEW p \in Procs
  PROVE  /\ ToSet(newQue[p]) \subseteq Tasks /\ ToSet(taken[p]) \subseteq Tasks
         /\ ToSet(runQue[p]) \subseteq Tasks /\ NewSet(p) \subseteq Tasks
<1>1. /\ ToSet(newQue[p]) \subseteq Tasks /\ ToSet(taken[p]) \subseteq Tasks
      /\ ToSet(runQue[p]) \subseteq Tasks
  BY ElementsType DEF TypeOK
<1> QED
  BY <1>1 DEF NewSet

LEMMA SameQueues ==
  ASSUME Owned, UNCHANGED <<newQue, taken, runQue>>
  PROVE  QueuesApart' /\ \A q \in Procs : NewSet(q)' = NewSet(q)
<1>1. \A q \in Procs : NewSet(q)' = NewSet(q)
  BY DEF NewSet
<1> QED
  BY <1>1 DEF Owned, QueuesApart

(* Processor p starts task t, taken from a place it has there. *)
LEMMA RunsOwned ==
  ASSUME TypeOK, TypeOK', Owned, NEW p \in Procs, NEW t \in Tasks, Runs(p, t),
         UNCHANGED <<epoch, wakeVars, waitSet>>,
         Held(t), state[t] \in {"READY", "RUNNING", "BLOCK"}, Unowned(t),
         \A q \in Procs : running[q] = t => q = p,
         \A u \in Tasks \ {t} : running[p] = u => state[u] # "RUNNING",
         QueuesApart',
         \A q \in Procs : t \notin NewSet(q)' /\ t \notin ToSet(runQue'[q]) /\ nextTask'[q] # t,
         \A q \in Procs : NewSet(q)' \subseteq NewSet(q) /\ ToSet(runQue'[q]) \subseteq ToSet(runQue[q]),
         \A q \in Procs : \A u \in Tasks \ {t} :
            u \in NewSet(q) \cup ToSet(runQue[q]) => u \in NewSet(q)' \cup ToSet(runQue'[q]),
         nextTask'[p] = NoTask,
         nextTask[p] # t => nextTask[p] = NoTask,
         \A q \in Procs \ {p} : nextTask'[q] = nextTask[q]
  PROVE  OwnedStep
<1> USE ProcessorAssumption
<1>1. /\ running' = [running EXCEPT ![p] = t] /\ processor' = [processor EXCEPT ![t] = p]
      /\ state' = [state EXCEPT ![t] = "RUNNING"] /\ pc' = [pc EXCEPT ![p] = "user"]
  BY DEF Runs
<1>2. /\ lost' = lost /\ wpc' = wpc /\ wref' = wref
      /\ \A r \in Refs : Alive(r)' <=> Alive(r)
      /\ \A u \in Tasks : Unowned(u)' <=> Unowned(u)
  BY DEF wakeVars, Alive, InWaitSet, Holders, Unowned
<1>3. /\ \A q \in Procs : running[q] = t => q = p
      /\ \A u \in Tasks \ {t} : state'[u] = state[u] /\ processor'[u] = processor[u]
      /\ state'[t] = "RUNNING" /\ processor'[t] = p
      /\ \A q \in Procs \ {p} : running'[q] = running[q] /\ pc'[q] = pc[q]
      /\ running'[p] = t /\ pc'[p] = "user"
  BY <1>1 DEF TypeOK
<1>4. RunningState'
  <2> SUFFICES ASSUME NEW q \in Procs, q # p
               PROVE  /\ ~InTask(q)' => running'[q] = NoTask
                      /\ InTask(q)' => running'[q] \in Tasks /\ processor'[running'[q]] = q
                      /\ pc'[q] \in {"user", "drainYield", "push"} => state'[running'[q]] = "RUNNING"
                      /\ pc'[q] \in {"suspending", "blocked"} => state'[running'[q]] = "BLOCK"
                      /\ pc'[q] = "switch" => state'[running'[q]] \in {"RUNNING", "BLOCK", "DONE", "EXCEPT"}
                      /\ pc'[q] \in {"drainDone", "erase"} => state'[running'[q]] \in {"DONE", "EXCEPT"}
    BY <1>3 DEF RunningState, InTask
  <2> QED
    BY <1>3 DEF Owned, RunningState, InTask
<1>5. NewOwned'
  <2> SUFFICES ASSUME NEW q \in Procs, NEW u \in NewSet(q)'
               PROVE  /\ state'[u] \in {"READY", "RUNNING"} /\ u \notin lost'
                      /\ \A x \in Procs : running'[x] # u /\ nextTask'[x] # u
    BY DEF NewOwned
  <2>1. u \in NewSet(q) /\ u \in Tasks /\ u # t
    BY QueuedTasks
  <2> QED
    BY <1>2, <1>3, <2>1 DEF Owned, NewOwned
<1>6. RunOwned'
  <2> SUFFICES ASSUME NEW q \in Procs, NEW u \in ToSet(runQue'[q])
               PROVE  /\ state'[u] \in {"READY", "RUNNING", "BLOCK"} /\ Unowned(u)'
                      /\ state'[u] = "BLOCK" => processor'[u] = q
                      /\ \A x \in Procs : nextTask'[x] # u /\ (running'[x] = u => state'[u] = "BLOCK")
    BY DEF RunOwned
  <2>1. u \in Tasks /\ u # t
    BY ElementsType DEF TypeOK
  <2>2. u \in ToSet(runQue[q])
    OBVIOUS
  <2> QED
    BY <1>2, <1>3, <2>1, <2>2 DEF Owned, RunOwned
<1>7. NextOwned' /\ NextTaskKept'
  <2> SUFFICES ASSUME NEW q \in Procs, NEW u, u # NoTask, nextTask'[q] = u
               PROVE  /\ state'[u] \in {"READY", "RUNNING", "BLOCK"} /\ Unowned(u)'
                      /\ state'[u] = "BLOCK" => processor'[u] = q
                      /\ \A x \in Procs : /\ nextTask'[x] = u => x = q
                                          /\ running'[x] = u => state'[u] = "BLOCK"
                      /\ pc'[q] \in {"blocked", "switch"} /\ state'[running'[q]] = "BLOCK"
    BY DEF NextOwned, NextTaskKept
  <2>1. q # p /\ nextTask[q] = u /\ u \in Tasks /\ u # t
    BY DEF TypeOK
  <2>2. pc[q] \in {"blocked", "switch"} /\ state[running[q]] = "BLOCK" /\ running[q] \in Tasks
    BY <2>1 DEF Owned, NextTaskKept, RunningState, InTask
  <2>3. running[q] # t
    BY <1>3, <2>1
  <2>4. /\ state'[u] \in {"READY", "RUNNING", "BLOCK"} /\ Unowned(u)'
        /\ state'[u] = "BLOCK" => processor'[u] = q
    BY <1>2, <1>3, <2>1 DEF Owned, NextOwned
  <2>5. ASSUME NEW x \in Procs PROVE (nextTask'[x] = u => x = q) /\ (running'[x] = u => state'[u] = "BLOCK")
    BY <1>2, <1>3, <2>1 DEF Owned, NextOwned
  <2> QED
    BY <1>3, <2>1, <2>2, <2>3, <2>4, <2>5
<1>8. SharedOwned' /\ FreshWakeUp'
  BY <1>2, <1>3 DEF Owned, SharedOwned, FreshWakeUp, Unowned, Refs, TypeOK
<1>9. ASSUME NEW u \in Tasks PROVE Follows(u)
  <2>1. CASE u = t
    BY <1>3, <2>1 DEF Held, Follows
  <2>2. CASE u # t
    <3>1. ASSUME Held(u) PROVE Held(u)'
      BY <1>2, <1>3, <2>2, <3>1 DEF Held
    <3>2. ASSUME Held(u)' PROVE Held(u)
      <4>1. CASE ~Unowned(u)'
        <5>1. ~Unowned(u)
          BY <1>2, <1>3, <4>1
        <5> QED
          BY <5>1 DEF Held
      <4>2. ASSUME NEW q \in Procs, u \in NewSet(q)' \/ u \in ToSet(runQue'[q]) PROVE Held(u)
        BY <4>2 DEF Held
      <4>3. ASSUME NEW q \in Procs, nextTask'[q] = u PROVE Held(u)
        <5>1. q # p
          BY <4>3
        <5> QED
          BY <4>3, <5>1 DEF Held
      <4>4. ASSUME NEW q \in Procs, running'[q] = u, state'[u] = "RUNNING" PROVE Held(u)
        BY <1>3, <2>2, <4>4 DEF Held
      <4> QED
        BY <3>2, <4>1, <4>2, <4>3, <4>4 DEF Held
    <3> QED
      BY <1>3, <2>2, <3>1, <3>2 DEF Follows
  <2> QED
    BY <2>1, <2>2
<1> QED
  BY <1>4, <1>5, <1>6, <1>7, <1>8, <1>9 DEF Owned, OwnedStep

(* Tasks and shared_ptrs stay what they are, and the tasks in the queues. *)
LEMMA QuietOwned ==
  ASSUME Owned, UNCHANGED <<runQue, running, nextTask, taskVars, lost>>,
         QueuesApart', \A q \in Procs : NewSet(q)' = NewSet(q),
         \A r \in Refs : Alive(r)' <=> Alive(r),
         \A w \in Threads : wpc'[w] = "idle" => wref'[w] = NoRef,
         RunningState', NextTaskKept'
  PROVE  OwnedStep
<1>1. \A t \in Tasks : Unowned(t)' <=> Unowned(t)
  BY DEF Unowned
<1>2. \A t : Unowned(t) => Unowned(t)'
  BY DEF Unowned
<1>3. NewOwned' /\ RunOwned' /\ NextOwned' /\ SharedOwned' /\ FreshWakeUp'
  BY <1>2 DEF Owned, NewOwned, RunOwned, NextOwned, SharedOwned, FreshWakeUp, taskVars
<1>4. \A t \in Tasks : Follows(t)
  BY <1>1 DEF Follows, Held, taskVars
<1> QED
  BY <1>3, <1>4 DEF Owned, OwnedStep

(* Processor p has nothing to run, as its task has blocked or ended. *)
LEMMA StopsOwned ==
  ASSUME TypeOK, Owned, NEW p \in Procs, nextTask[p] = NoTask, state[running[p]] # "RUNNING",
         running' = [running EXCEPT ![p] = NoTask], pc' = [pc EXCEPT ![p] = "pick"],
         UNCHANGED <<newQue, taken, runQue, nextTask, taskVars, wakeVars, waitSet>>
  PROVE  OwnedStep
<1> USE ProcessorAssumption
<1>1. /\ \A r \in Refs : Alive(r)' <=> Alive(r)
      /\ \A t : Unowned(t)' <=> Unowned(t)
  BY DEF wakeVars, Alive, InWaitSet, Holders, Unowned
<1>2. /\ \A q \in Procs \ {p} : running'[q] = running[q] /\ pc'[q] = pc[q]
      /\ running'[p] = NoTask /\ pc'[p] = "pick"
  BY DEF TypeOK
<1>3. SharedOwned' /\ FreshWakeUp'
  BY <1>1 DEF Owned, SharedOwned, FreshWakeUp, wakeVars, taskVars
<1>4. RunningState' /\ NextTaskKept'
  BY <1>2 DEF Owned, RunningState, NextTaskKept, InTask, taskVars
<1>9. QueuesApart' /\ \A q \in Procs : NewSet(q)' = NewSet(q)
  BY SameQueues
<1>5. \A q \in Procs : \A t \in Tasks : running'[q] = t => running[q] = t
  BY <1>2
<1>6. NewOwned' /\ RunOwned'
  BY <1>1, <1>5, <1>9, QueuedTasks DEF Owned, NewOwned, RunOwned, taskVars, wakeVars
<1>7. NextOwned'
  BY <1>1, <1>5 DEF Owned, NextOwned, taskVars, TypeOK
<1>8. ASSUME NEW t \in Tasks PROVE Follows(t)
  BY <1>1, <1>2, <1>9 DEF Follows, Held, taskVars
<1> QED
  BY <1>3, <1>4, <1>6, <1>7, <1>8, <1>9 DEF Owned, OwnedStep

LEMMA RunsNextOwned ==
  ASSUME TypeOK, TypeOK', Owned, NEW p \in Procs, RunsNext(p), state[running[p]] # "RUNNING",
         UNCHANGED <<newQue, taken, runQue, epoch, silent, wakeVars, waitSet>>
  PROVE  OwnedStep
<1>1. CASE nextTask[p] = NoTask
  <2>1. nextTask' = nextTask
    BY <1>1 DEF RunsNext, TypeOK
  <2> QED
    BY <1>1, <2>1, StopsOwned DEF RunsNext, taskVars
<1>2. CASE nextTask[p] # NoTask
  <2> DEFINE t == nextTask[p]
  <2>1. t \in Tasks /\ Runs(p, t) /\ nextTask' = [nextTask EXCEPT ![p] = NoTask]
    BY <1>2 DEF RunsNext, TypeOK
  <2>2. /\ Held(t) /\ state[t] \in {"READY", "RUNNING", "BLOCK"} /\ Unowned(t)
        /\ \A q \in Procs : running[q] = t => q = p
        /\ \A q \in Procs : nextTask[q] = t => q = p
    BY <1>2, <2>1 DEF Owned, NextOwned, RunningState, InTask, Held
  <2>3. \A q \in Procs : t \notin NewSet(q) /\ t \notin ToSet(runQue[q])
    BY <2>1 DEF Owned, NewOwned, RunOwned
  <2>4. /\ nextTask'[p] = NoTask /\ \A q \in Procs \ {p} : nextTask'[q] = nextTask[q]
        /\ \A q \in Procs : nextTask'[q] # t
    BY <2>1, <2>2, ProcessorAssumption DEF TypeOK
  <2>5. QueuesApart' /\ \A q \in Procs : NewSet(q)' = NewSet(q)
    BY SameQueues
  <2>6. \A u \in Tasks \ {t} : running[p] = u => state[u] # "RUNNING"
    OBVIOUS
  <2> QED
    BY <2>1, <2>2, <2>3, <2>4, <2>5, <2>6, RunsOwned
<1> QED
  BY <1>1, <1>2

(* Tasks leave queues, move to the run queue of their processor, or yield   *)
(* to the one of p (those in Y).                                            *)
LEMMA StillApart ==
  ASSUME QueuesApart, NEW p \in Procs, NEW Y,
         \A q \in Procs :
            /\ Y \cap (NewSet(q) \cup ToSet(runQue[q])) = {}
            /\ IsInjective(newQue'[q]) /\ IsInjective(taken'[q]) /\ IsInjective(runQue'[q])
            /\ ToSet(newQue'[q]) \cap ToSet(taken'[q]) = {}
            /\ NewSet(q)' \subseteq NewSet(q)
            /\ NewSet(q)' \cap ToSet(runQue'[q]) = {}
            /\ ToSet(runQue'[q]) \subseteq
                  ToSet(runQue[q]) \cup NewSet(q) \cup (IF q = p THEN Y ELSE {})
  PROVE  QueuesApart'
<1> SUFFICES ASSUME NEW q \in Procs, NEW r \in Procs
             PROVE  /\ NewSet(q)' \cap ToSet(runQue'[r]) = {}
                    /\ q # r => /\ NewSet(q)' \cap NewSet(r)' = {}
                                /\ ToSet(runQue'[q]) \cap ToSet(runQue'[r]) = {}
  BY DEF QueuesApart
<1>1. q # r => NewSet(q)' \cap NewSet(r)' = {}
  BY DEF QueuesApart
<1>2. NewSet(q)' \cap ToSet(runQue'[r]) = {}
  BY DEF QueuesApart
<1>3. q # r => ToSet(runQue'[q]) \cap ToSet(runQue'[r]) = {}
  BY DEF QueuesApart
<1> QED
  BY <1>1, <1>2, <1>3

(* The new tasks that processor p has popped move to the back of its run    *)
(* queue.                                                                   *)
LEMMA MovesOwned ==
  ASSUME TypeOK, Owned, NEW p \in Procs,
         taken' = [taken EXCEPT ![p] = <<>>],
         runQue' = [runQue EXCEPT ![p] = @ \o taken[p]],
         UNCHANGED <<newQue, running, nextTask, taskVars, wakeVars, waitSet>>,
         RunningState', NextTaskKept'
  PROVE  OwnedStep
<1>1. /\ \A r \in Refs : Alive(r)' <=> Alive(r)
      /\ \A t : Unowned(t)' <=> Unowned(t)
  BY DEF wakeVars, Alive, InWaitSet, Holders, Unowned
<1>2. /\ ToSet(taken'[p]) = {} /\ IsInjective(taken'[p])
      /\ ToSet(runQue'[p]) = ToSet(runQue[p]) \cup ToSet(taken[p]) /\ IsInjective(runQue'[p])
      /\ \A q \in Procs \ {p} : taken'[q] = taken[q] /\ runQue'[q] = runQue[q]
  <2>1. taken'[p] = <<>> /\ runQue'[p] = runQue[p] \o taken[p]
    BY DEF TypeOK
  <2>2. /\ IsInjective(taken[p]) /\ IsInjective(runQue[p])
        /\ ToSet(runQue[p]) \cap ToSet(taken[p]) = {}
    BY DEF Owned, QueuesApart, NewSet
  <2>3. taken[p] \in Seq(Tasks) /\ runQue[p] \in Seq(Tasks)
    BY DEF TypeOK
  <2>4. /\ ToSet(runQue'[p]) = ToSet(runQue[p]) \cup ToSet(taken[p]) /\ IsInjective(runQue'[p])
    <3>1. /\ ToSet(runQue[p] \o taken[p]) = ToSet(runQue[p]) \cup ToSet(taken[p])
          /\ IsInjective(runQue[p] \o taken[p])
      BY <2>2, <2>3, ConcatElements, ZenonT(30)
    <3> QED
      BY <2>1, <3>1
  <2>5. \A q \in Procs \ {p} : taken'[q] = taken[q] /\ runQue'[q] = runQue[q]
    BY DEF TypeOK
  <2> QED
    BY <2>1, <2>4, <2>5, EmptyElements
<1>8. /\ NewSet(p)' = ToSet(newQue[p]) /\ NewSet(p) = ToSet(newQue[p]) \cup ToSet(taken[p])
      /\ \A q \in Procs \ {p} : NewSet(q)' = NewSet(q)
      /\ \A q \in Procs : NewSet(q)' \subseteq NewSet(q)
  BY <1>2 DEF NewSet
<1>3. QueuesApart'
  <2> DEFINE Y == {}
  <2>1. \A q \in Procs :
          /\ Y \cap (NewSet(q) \cup ToSet(runQue[q])) = {}
          /\ IsInjective(newQue'[q]) /\ IsInjective(taken'[q]) /\ IsInjective(runQue'[q])
          /\ ToSet(newQue'[q]) \cap ToSet(taken'[q]) = {}
          /\ NewSet(q)' \subseteq NewSet(q)
          /\ NewSet(q)' \cap ToSet(runQue'[q]) = {}
          /\ ToSet(runQue'[q]) \subseteq
                ToSet(runQue[q]) \cup NewSet(q) \cup (IF q = p THEN Y ELSE {})
    <3> SUFFICES ASSUME NEW q \in Procs
                 PROVE  /\ IsInjective(newQue'[q]) /\ IsInjective(taken'[q]) /\ IsInjective(runQue'[q])
                        /\ ToSet(newQue'[q]) \cap ToSet(taken'[q]) = {}
                        /\ NewSet(q)' \cap ToSet(runQue'[q]) = {}
                        /\ ToSet(runQue'[q]) \subseteq ToSet(runQue[q]) \cup NewSet(q)
      BY <1>8
    <3>1. CASE q = p
      BY <1>2, <1>8, <3>1 DEF Owned, QueuesApart
    <3>2. CASE q # p
      BY <1>2, <1>8, <3>2 DEF Owned, QueuesApart
    <3> QED
      BY <3>1, <3>2
  <2> HIDE DEF Y
  <2> QED
    BY <2>1, StillApart DEF Owned
<1>4. SharedOwned' /\ FreshWakeUp' /\ NextOwned'
  BY <1>1 DEF Owned, SharedOwned, FreshWakeUp, NextOwned, wakeVars, taskVars
<1>5. NewOwned'
  BY <1>8 DEF Owned, NewOwned, wakeVars, taskVars
<1>6. RunOwned'
  <2> SUFFICES ASSUME NEW q \in Procs, NEW u \in ToSet(runQue'[q])
               PROVE  /\ state[u] \in {"READY", "RUNNING", "BLOCK"} /\ Unowned(u)
                      /\ state[u] = "BLOCK" => processor[u] = q
                      /\ \A x \in Procs : nextTask[x] # u /\ (running[x] = u => state[u] = "BLOCK")
    BY <1>1 DEF RunOwned, taskVars
  <2>1. CASE u \in ToSet(runQue[q])
    BY <2>1 DEF Owned, RunOwned
  <2>2. CASE u \in NewSet(q)
    BY <2>2 DEF Owned, NewOwned, FreshWakeUp, Unowned
  <2> QED
    BY <1>2, <1>8, <2>1, <2>2
<1>7. ASSUME NEW t \in Tasks PROVE Follows(t)
  BY <1>1, <1>2, <1>8 DEF Follows, Held, taskVars
<1> QED
  BY <1>3, <1>4, <1>5, <1>6, <1>7 DEF Owned, OwnedStep

(* A task that is queued at p, or runs there, is at no other processor. *)
LEMMA Takeable ==
  ASSUME TypeOK, Owned, NEW p \in Procs, NEW t \in Tasks,
         \/ t \in NewSet(p) \cup ToSet(runQue[p])
         \/ running[p] = t /\ state[t] = "RUNNING"
  PROVE  /\ Held(t) /\ state[t] \in {"READY", "RUNNING", "BLOCK"} /\ Unowned(t)
         /\ \A q \in Procs : (running[q] = t => q = p) /\ nextTask[q] # t
<1> USE ProcessorAssumption
<1>1. CASE t \in NewSet(p)
  BY <1>1 DEF Owned, NewOwned, FreshWakeUp, Unowned, Held
<1>2. CASE t \in ToSet(runQue[p])
  BY <1>2 DEF Owned, RunOwned, RunningState, InTask, Held
<1>3. CASE running[p] = t /\ state[t] = "RUNNING"
  <2>1. Unowned(t) /\ \A q \in Procs : nextTask[q] # t
    BY <1>3 DEF Owned, NextOwned, SharedOwned, FreshWakeUp, Unowned
  <2>2. \A q \in Procs : running[q] = t => q = p
    BY <1>3 DEF Owned, RunningState, InTask
  <2> QED
    BY <1>3, <2>1, <2>2 DEF Held
<1> QED
  BY <1>1, <1>2, <1>3

(* A task that runs is nowhere else. *)
LEMMA RunsOnly ==
  ASSUME TypeOK, Owned, NEW p \in Procs, running[p] \in Tasks, state[running[p]] = "RUNNING"
  PROVE  /\ \A q \in Procs : /\ running[p] \notin NewSet(q) /\ running[p] \notin ToSet(runQue[q])
                             /\ nextTask[q] # running[p]
         /\ Unowned(running[p])
         /\ \A q \in Procs \ {p} : running[q] # running[p]
<1>1. \A q \in Procs : running[p] \notin NewSet(q) /\ running[p] \notin ToSet(runQue[q])
  BY DEF Owned, NewOwned, RunOwned
<1> QED
  BY <1>1, Takeable

(* nextTask_ is empty unless the running task has blocked. *)
LEMMA NoNext ==
  ASSUME Owned, NEW p \in Procs,
         pc[p] \notin {"blocked", "switch"} \/ state[running[p]] # "BLOCK"
  PROVE  nextTask[p] = NoTask
  BY DEF Owned, NextTaskKept

(* The front of runQue_ leaves the queue. *)
LEMMA PopsRunQue ==
  ASSUME TypeOK, Owned, NEW p \in Procs, runQue[p] # <<>>,
         runQue' = [runQue EXCEPT ![p] = Tail(@)], UNCHANGED <<newQue, taken>>
  PROVE  LET t == Head(runQue[p]) IN
         /\ t \in Tasks /\ t \in ToSet(runQue[p])
         /\ ToSet(runQue[p]) = ToSet(runQue'[p]) \cup {t} /\ t \notin ToSet(runQue'[p])
         /\ \A q \in Procs \ {p} : runQue'[q] = runQue[q]
         /\ \A q \in Procs : t \notin NewSet(q)' /\ t \notin ToSet(runQue'[q])
         /\ QueuesApart'
         /\ \A q \in Procs : NewSet(q)' = NewSet(q)
<1> DEFINE t == Head(runQue[p])
<1>1. runQue[p] \in Seq(Tasks) /\ IsInjective(runQue[p])
  BY DEF TypeOK, Owned, QueuesApart
<1>2. /\ ToSet(runQue[p]) = ToSet(Tail(runQue[p])) \cup {t} /\ t \notin ToSet(Tail(runQue[p]))
      /\ IsInjective(Tail(runQue[p]))
  BY <1>1, TailElements, Zenon
<1>3. /\ ToSet(runQue[p]) = ToSet(runQue'[p]) \cup {t} /\ t \notin ToSet(runQue'[p])
      /\ IsInjective(runQue'[p])
      /\ \A q \in Procs \ {p} : runQue'[q] = runQue[q]
  BY <1>2 DEF TypeOK
<1>4. \A q \in Procs : NewSet(q)' = NewSet(q)
  BY DEF NewSet
<1>5. t \in Tasks /\ t \in ToSet(runQue[p])
  BY <1>3, QueuedTasks
<1> HIDE DEF t
<1>6. QueuesApart'
  <2> DEFINE Y == {}
  <2>1. \A q \in Procs :
          /\ Y \cap (NewSet(q) \cup ToSet(runQue[q])) = {}
          /\ IsInjective(newQue'[q]) /\ IsInjective(taken'[q]) /\ IsInjective(runQue'[q])
          /\ ToSet(newQue'[q]) \cap ToSet(taken'[q]) = {}
          /\ NewSet(q)' \subseteq NewSet(q)
          /\ NewSet(q)' \cap ToSet(runQue'[q]) = {}
          /\ ToSet(runQue'[q]) \subseteq
                ToSet(runQue[q]) \cup NewSet(q) \cup (IF q = p THEN Y ELSE {})
    BY <1>3, <1>4 DEF Owned, QueuesApart
  <2> HIDE DEF Y
  <2> QED
    BY <2>1, StillApart DEF Owned
<1>7. \A q \in Procs : t \notin NewSet(q)' /\ t \notin ToSet(runQue'[q])
  BY <1>3, <1>4, <1>5 DEF Owned, QueuesApart
<1> QED
  BY <1>3, <1>4, <1>5, <1>6, <1>7 DEF t

LEMMA PickRunOwned ==
  ASSUME TypeOK, TypeOK', Owned, NEW p \in Procs, PickRun(p) \/ PopFirst(p)
  PROVE  OwnedStep
<1> DEFINE t == Head(runQue[p])
<1>1. /\ runQue[p] # <<>> /\ Runs(p, t) /\ runQue' = [runQue EXCEPT ![p] = Tail(@)]
      /\ UNCHANGED <<newQue, taken, nextTask, epoch, wakeVars, waitSet>>
      /\ pc[p] \in {"pick", "pick2", "pop"}
  BY DEF PickRun, PopFirst
<1>2. /\ t \in Tasks /\ t \in ToSet(runQue[p])
      /\ ToSet(runQue[p]) = ToSet(runQue'[p]) \cup {t} /\ t \notin ToSet(runQue'[p])
      /\ \A q \in Procs \ {p} : runQue'[q] = runQue[q]
      /\ \A q \in Procs : t \notin NewSet(q)' /\ t \notin ToSet(runQue'[q])
      /\ QueuesApart'
      /\ \A q \in Procs : NewSet(q)' = NewSet(q)
  BY <1>1, PopsRunQue
<1>3. nextTask[p] = NoTask /\ running[p] = NoTask
  BY <1>1, NoNext DEF Owned, RunningState, InTask
<1>4. \A u \in Tasks \ {t} : running[p] = u => state[u] # "RUNNING"
  BY <1>3, ProcessorAssumption
<1>5. /\ Held(t) /\ state[t] \in {"READY", "RUNNING", "BLOCK"} /\ Unowned(t)
      /\ \A q \in Procs : (running[q] = t => q = p) /\ nextTask[q] # t
  BY <1>2, Takeable
<1> HIDE DEF t
<1> QED
  BY <1>1, <1>2, <1>3, <1>4, <1>5, RunsOwned

(* A task that yields goes to the back of runQue_. *)
LEMMA PushYieldOwned ==
  ASSUME TypeOK, TypeOK', Owned, NEW p \in Procs, PushYield(p)
  PROVE  OwnedStep
<1> USE ProcessorAssumption
<1> DEFINE u == running[p]
<1>1. /\ u \in Tasks /\ state[u] = "RUNNING" /\ pc[p] = "push" /\ runQue[p] \in Seq(Tasks)
      /\ runQue' = [runQue EXCEPT ![p] = Append(@, u)]
      /\ running' = [running EXCEPT ![p] = NoTask]
      /\ pc' = [pc EXCEPT ![p] = "pop"]
      /\ UNCHANGED <<newQue, taken, nextTask, taskVars, wakeVars, waitSet>>
  BY DEF PushYield, TypeOK, Owned, RunningState
<1>2. /\ \A q \in Procs : u \notin NewSet(q) /\ u \notin ToSet(runQue[q]) /\ nextTask[q] # u
      /\ Unowned(u)
      /\ \A q \in Procs \ {p} : running[q] # u
  BY <1>1, RunsOnly
<1>3. /\ ToSet(runQue'[p]) = ToSet(runQue[p]) \cup {u} /\ IsInjective(runQue'[p])
      /\ \A q \in Procs \ {p} : runQue'[q] = runQue[q]
  <2>1. IsInjective(runQue[p]) /\ u \notin ToSet(runQue[p])
    BY <1>2 DEF Owned, QueuesApart
  <2>2. runQue'[p] = Append(runQue[p], u) /\ \A q \in Procs \ {p} : runQue'[q] = runQue[q]
    BY <1>1 DEF TypeOK
  <2> HIDE DEF u
  <2>3. ToSet(Append(runQue[p], u)) = ToSet(runQue[p]) \cup {u} /\ IsInjective(Append(runQue[p], u))
    <3>1. u \in Tasks /\ runQue[p] \in Seq(Tasks)
      BY <1>1
    <3> QED
      BY <2>1, <3>1, AppendElements
  <2> QED
    BY <2>2, <2>3
<1>4. /\ \A q \in Procs : NewSet(q)' = NewSet(q)
      /\ \A r \in Refs : Alive(r)' <=> Alive(r)
      /\ \A t : Unowned(t)' <=> Unowned(t)
  BY <1>1 DEF NewSet, wakeVars, Alive, InWaitSet, Holders, Unowned
<1>5. /\ \A q \in Procs \ {p} : running'[q] = running[q] /\ pc'[q] = pc[q]
      /\ running'[p] = NoTask /\ pc'[p] = "pop"
  BY <1>1 DEF TypeOK
<1> HIDE DEF u
<1>6. QueuesApart'
  <2> DEFINE Y == {u}
  <2>1. \A q \in Procs :
          /\ Y \cap (NewSet(q) \cup ToSet(runQue[q])) = {}
          /\ IsInjective(newQue'[q]) /\ IsInjective(taken'[q]) /\ IsInjective(runQue'[q])
          /\ ToSet(newQue'[q]) \cap ToSet(taken'[q]) = {}
          /\ NewSet(q)' \subseteq NewSet(q)
          /\ NewSet(q)' \cap ToSet(runQue'[q]) = {}
          /\ ToSet(runQue'[q]) \subseteq
                ToSet(runQue[q]) \cup NewSet(q) \cup (IF q = p THEN Y ELSE {})
    BY <1>1, <1>2, <1>3, <1>4 DEF Owned, QueuesApart
  <2> HIDE DEF Y
  <2> QED
    BY <2>1, StillApart DEF Owned
<1>7. SharedOwned' /\ FreshWakeUp'
  BY <1>1, <1>4 DEF Owned, SharedOwned, FreshWakeUp, wakeVars, taskVars
<1>8. RunningState'
  BY <1>1, <1>5 DEF Owned, RunningState, InTask, taskVars
<1>9. NextTaskKept'
  <2>1. nextTask[p] = NoTask
    BY <1>1, NoNext
  <2> QED
    BY <1>1, <1>5, <2>1 DEF Owned, NextTaskKept, taskVars
<1>10. \A q \in Procs : \A t \in Tasks : running'[q] = t => running[q] = t
  BY <1>5
<1>11. NewOwned'
  BY <1>1, <1>4, <1>10, QueuedTasks DEF Owned, NewOwned, taskVars, wakeVars
<1>12. NextOwned'
  BY <1>1, <1>4, <1>10 DEF Owned, NextOwned, taskVars, TypeOK
<1>13. RunOwned'
  <2> SUFFICES ASSUME NEW q \in Procs, NEW t \in ToSet(runQue'[q])
               PROVE  /\ state[t] \in {"READY", "RUNNING", "BLOCK"} /\ Unowned(t)
                      /\ state[t] = "BLOCK" => processor[t] = q
                      /\ \A x \in Procs : nextTask[x] # t /\ (running'[x] = t => state[t] = "BLOCK")
    BY <1>1, <1>4 DEF RunOwned, taskVars
  <2>1. CASE t = u
    BY <1>1, <1>2, <1>5, <2>1
  <2>2. CASE t # u
    <3>1. t \in ToSet(runQue[q]) /\ t \in Tasks
      BY <1>3, <2>2, QueuedTasks
    <3> QED
      BY <1>10, <3>1 DEF Owned, RunOwned
  <2> QED
    BY <2>1, <2>2
<1>14. ASSUME NEW t \in Tasks PROVE Follows(t)
  <2>1. CASE t = u
    <3>1. Held(t)'
      BY <1>3, <2>1 DEF Held
    <3>2. Held(t)
      BY <1>1, <2>1 DEF Held, u
    <3> QED
      BY <3>1, <3>2 DEF Follows
  <2>2. CASE t # u
    <3>1. Held(t)' <=> Held(t)
      BY <1>1, <1>3, <1>4, <1>5, <2>2 DEF Held, taskVars, u
    <3> QED
      BY <1>1, <3>1 DEF Follows, taskVars
  <2> QED
    BY <2>1, <2>2
<1> QED
  BY <1>6, <1>7, <1>8, <1>9, <1>11, <1>12, <1>13, <1>14 DEF Owned, OwnedStep

LEMMA SwitchEraseOwned ==
  ASSUME TypeOK, TypeOK', Owned, NEW p \in Procs, SwitchErase(p)
  PROVE  OwnedStep
<1>1. state[running[p]] # "RUNNING" /\ nextTask[p] = NoTask
  BY NoNext DEF SwitchErase, Owned, RunningState
<1>2. CASE newQue[p] = <<>>
  BY <1>1, <1>2, RunsNextOwned DEF SwitchErase
<1>3. CASE newQue[p] # <<>>
  <2> DEFINE t == Head(newQue[p])
  <2>1. /\ newQue[p] \in Seq(Tasks) /\ newQue[p] # <<>>
        /\ Runs(p, t) /\ newQue' = [newQue EXCEPT ![p] = Tail(@)]
        /\ UNCHANGED <<runQue, taken, nextTask, epoch, wakeVars, waitSet>>
    BY <1>3 DEF SwitchErase, TypeOK
  <2>2. IsInjective(newQue[p])
    BY DEF Owned, QueuesApart
  <2>3. /\ ToSet(newQue[p]) = ToSet(Tail(newQue[p])) \cup {t} /\ t \notin ToSet(Tail(newQue[p]))
        /\ IsInjective(Tail(newQue[p]))
    BY <2>1, <2>2, TailElements, Zenon
  <2>4. /\ ToSet(newQue[p]) = ToSet(newQue'[p]) \cup {t} /\ t \notin ToSet(newQue'[p])
        /\ IsInjective(newQue'[p])
        /\ \A q \in Procs \ {p} : newQue'[q] = newQue[q]
    BY <2>1, <2>3 DEF TypeOK
  <2>5. t \in Tasks /\ t \in NewSet(p)
    BY <2>4, QueuedTasks DEF NewSet
  <2> HIDE DEF t
  <2>6. /\ NewSet(p) = NewSet(p)' \cup {t} /\ t \notin NewSet(p)'
        /\ \A q \in Procs \ {p} : NewSet(q)' = NewSet(q)
    BY <2>1, <2>4 DEF NewSet, Owned, QueuesApart
  <2>7. QueuesApart'
    <3> DEFINE Y == {}
    <3>1. \A q \in Procs :
            /\ Y \cap (NewSet(q) \cup ToSet(runQue[q])) = {}
            /\ IsInjective(newQue'[q]) /\ IsInjective(taken'[q]) /\ IsInjective(runQue'[q])
            /\ ToSet(newQue'[q]) \cap ToSet(taken'[q]) = {}
            /\ NewSet(q)' \subseteq NewSet(q)
            /\ NewSet(q)' \cap ToSet(runQue'[q]) = {}
            /\ ToSet(runQue'[q]) \subseteq
                  ToSet(runQue[q]) \cup NewSet(q) \cup (IF q = p THEN Y ELSE {})
      BY <2>1, <2>4, <2>6 DEF Owned, QueuesApart
    <3> HIDE DEF Y
    <3> QED
      BY <3>1, StillApart DEF Owned
  <2>8. \A q \in Procs : t \notin NewSet(q)' /\ t \notin ToSet(runQue'[q])
    BY <2>1, <2>5, <2>6 DEF Owned, QueuesApart
  <2>9. \A u \in Tasks \ {t} : running[p] = u => state[u] # "RUNNING"
    BY <1>1
  <2>10. /\ Held(t) /\ state[t] \in {"READY", "RUNNING", "BLOCK"} /\ Unowned(t)
         /\ \A q \in Procs : (running[q] = t => q = p) /\ nextTask[q] # t
    BY <2>5, Takeable
  <2> QED
    BY <1>1, <2>1, <2>5, <2>6, <2>7, <2>8, <2>9, <2>10, RunsOwned
<1> QED
  BY <1>2, <1>3

LEMMA SuspendOwned ==
  ASSUME TypeOK, TypeOK', Owned, NEW p \in Procs, Suspend(p)
  PROVE  OwnedStep
<1> DEFINE t == running[p]
           n == [task |-> t, epoch |-> epoch[t] + 1, proc |-> p]
<1>1. /\ t \in Tasks /\ processor[t] = p /\ state[t] = "RUNNING" /\ pc[p] = "user"
      /\ epoch[t] + 1 \in 1..MaxSuspends
  BY ProcessorAssumption DEF Suspend, InUser, Owned, RunningState, InTask, TypeOK
<1>2. /\ epoch' = [epoch EXCEPT ![t] = @ + 1] /\ epoch'[t] = epoch[t] + 1
      /\ state' = [state EXCEPT ![t] = "BLOCK"] /\ pc' = [pc EXCEPT ![p] = "suspending"]
      /\ waitSet' = [waitSet EXCEPT ![p] = @ \cup {n}]
      /\ UNCHANGED <<newQue, taken, runQue, running, nextTask, processor, wpc, wref, lost>>
  BY <1>1 DEF Suspend, TypeOK, queVars, wakeVars
<1>3. \A r \in Refs : Alive(r)' <=> Alive(r) \/ r = n
  BY <1>2 DEF Alive, InWaitSet, Holders, TypeOK
<1>4. \A r \in Refs : Alive(r) => r.task # t
  BY <1>1 DEF Owned, FreshWakeUp
<1>5. /\ \A q \in Procs : t \notin NewSet(q) /\ t \notin ToSet(runQue[q]) /\ nextTask[q] # t
      /\ t \notin lost
      /\ \A q \in Procs \ {p} : running[q] # t
  BY <1>1, RunsOnly DEF Unowned
<1>6. /\ \A u \in Tasks \ {t} : state'[u] = state[u] /\ epoch'[u] = epoch[u] /\ (Unowned(u)' <=> Unowned(u))
      /\ state'[t] = "BLOCK" /\ pc'[p] = "suspending" /\ \A q \in Procs \ {p} : pc'[q] = pc[q]
  BY <1>1, <1>2, <1>3 DEF TypeOK, Unowned
<1>7. n \in Refs /\ n.task = t /\ n.epoch = epoch'[t] /\ n.proc = p
  BY <1>1, <1>2 DEF Refs
<1> HIDE DEF n
<1>8. QueuesApart' /\ \A q \in Procs : NewSet(q)' = NewSet(q)
  BY <1>2, SameQueues
<1>9. RunningState'
  BY <1>1, <1>2, <1>5, <1>6 DEF Owned, RunningState, InTask
<1>10. NewOwned' /\ RunOwned'
  BY <1>2, <1>5, <1>6, <1>8, QueuedTasks DEF Owned, NewOwned, RunOwned
<1>11. NextOwned'
  BY <1>2, <1>5, <1>6 DEF Owned, NextOwned, TypeOK
<1>12. SharedOwned' /\ FreshWakeUp'
  BY <1>1, <1>2, <1>3, <1>4, <1>5, <1>6, <1>7 DEF Owned, SharedOwned, FreshWakeUp, Refs, TypeOK
<1>13. NextTaskKept'
  <2>1. nextTask[p] = NoTask
    BY <1>1, NoNext
  <2> QED
    BY <1>2, <1>5, <1>6, <2>1 DEF Owned, NextTaskKept, RunningState, InTask
<1>14. ASSUME NEW u \in Tasks PROVE Follows(u)
  <2>1. CASE u = t
    BY <1>1, <1>3, <1>7, <2>1 DEF Follows, Held, Unowned
  <2>2. CASE u # t
    BY <1>2, <1>6, <1>8, <2>2 DEF Follows, Held
  <2> QED
    BY <2>1, <2>2
<1> QED
  BY <1>8, <1>9, <1>10, <1>11, <1>12, <1>13, <1>14 DEF Owned, OwnedStep

LEMMA SuspendReturnOwned ==
  ASSUME TypeOK, TypeOK', Owned, NEW p \in Procs, SuspendReturn(p)
  PROVE  OwnedStep
<1> USE ProcessorAssumption
<1>1. /\ running[p] \in Tasks /\ processor[running[p]] = p /\ state[running[p]] = "BLOCK"
      /\ pc[p] = "suspending" /\ pc' = [pc EXCEPT ![p] = "blocked"]
      /\ nextTask[p] = NoTask
      /\ UNCHANGED <<newQue, taken, running, taskVars, wakeVars, waitSet>>
  BY NoNext DEF SuspendReturn, Owned, RunningState, InTask
<1>2. RunningState'
  BY <1>1 DEF Owned, RunningState, InTask, taskVars, TypeOK
<1>3. /\ \A r \in Refs : Alive(r)' <=> Alive(r)
      /\ \A u : Unowned(u)' <=> Unowned(u)
  BY <1>1 DEF wakeVars, Alive, InWaitSet, Holders, Unowned
<1>4. CASE runQue[p] = <<>>
  <2>1. UNCHANGED <<nextTask, runQue>>
    BY <1>1, <1>4 DEF SuspendReturn
  <2>3. QueuesApart' /\ \A q \in Procs : NewSet(q)' = NewSet(q)
    BY <1>1, <2>1, SameQueues
  <2>2. NextTaskKept'
    BY <1>1, <2>1 DEF Owned, NextTaskKept, taskVars, TypeOK
  <2> QED
    BY <1>1, <1>2, <1>3, <2>1, <2>2, <2>3, QuietOwned DEF Owned, SharedOwned, wakeVars
<1>5. CASE runQue[p] # <<>>
  <2> DEFINE t == Head(runQue[p])
  <2>1. /\ nextTask' = [nextTask EXCEPT ![p] = t] /\ runQue' = [runQue EXCEPT ![p] = Tail(@)]
        /\ runQue[p] \in Seq(Tasks)
    BY <1>1, <1>5 DEF SuspendReturn, TypeOK
  <2>2. /\ t \in Tasks /\ t \in ToSet(runQue[p])
        /\ ToSet(runQue[p]) = ToSet(runQue'[p]) \cup {t} /\ t \notin ToSet(runQue'[p])
        /\ \A q \in Procs \ {p} : runQue'[q] = runQue[q]
        /\ \A q \in Procs : t \notin NewSet(q)' /\ t \notin ToSet(runQue'[q])
        /\ QueuesApart'
        /\ \A q \in Procs : NewSet(q)' = NewSet(q)
    BY <1>1, <1>5, <2>1, PopsRunQue
  <2>3. \A q \in Procs : t \notin NewSet(q)
    BY <2>2
  <2>4. nextTask'[p] = t /\ \A q \in Procs \ {p} : nextTask'[q] = nextTask[q]
    BY <2>1 DEF TypeOK
  <2> HIDE DEF t
  <2>8. /\ state[t] \in {"READY", "RUNNING", "BLOCK"} /\ Unowned(t)
        /\ state[t] = "BLOCK" => processor[t] = p
        /\ \A q \in Procs : nextTask[q] # t /\ (running[q] = t => state[t] = "BLOCK")
    BY <2>2 DEF Owned, RunOwned
  <2>9. NewOwned'
    BY <1>1, <2>2, <2>3, <2>4 DEF Owned, NewOwned, taskVars, wakeVars
  <2>10. RunOwned'
    <3> SUFFICES ASSUME NEW q \in Procs, NEW u \in ToSet(runQue'[q])
                 PROVE  /\ state[u] \in {"READY", "RUNNING", "BLOCK"} /\ Unowned(u)
                        /\ state[u] = "BLOCK" => processor[u] = q
                        /\ \A x \in Procs : nextTask'[x] # u /\ (running[x] = u => state[u] = "BLOCK")
      BY <1>1, <1>3 DEF RunOwned, taskVars
    <3>1. u \in ToSet(runQue[q]) /\ u # t
      BY <2>2
    <3> QED
      BY <2>4, <3>1 DEF Owned, RunOwned
  <2>11. NextOwned'
    <3> SUFFICES ASSUME NEW q \in Procs, NEW u, u # NoTask, nextTask'[q] = u
                 PROVE  /\ state[u] \in {"READY", "RUNNING", "BLOCK"} /\ Unowned(u)
                        /\ state[u] = "BLOCK" => processor[u] = q
                        /\ \A x \in Procs : /\ nextTask'[x] = u => x = q
                                            /\ running[x] = u => state[u] = "BLOCK"
      BY <1>1, <1>3 DEF NextOwned, taskVars
    <3>1. CASE q = p
      BY <2>4, <2>8, <3>1
    <3>2. CASE q # p
      BY <2>4, <2>8, <3>2 DEF Owned, NextOwned
    <3> QED
      BY <3>1, <3>2
  <2>12. SharedOwned' /\ FreshWakeUp'
    BY <1>1, <1>3 DEF Owned, SharedOwned, FreshWakeUp, wakeVars, taskVars
  <2>13. NextTaskKept'
    BY <1>1, <2>4 DEF Owned, NextTaskKept, taskVars, TypeOK
  <2>14. ASSUME NEW u \in Tasks PROVE Follows(u)
    <3>1. CASE u = t
      BY <1>1, <2>2, <2>4, <3>1 DEF Follows, Held, taskVars
    <3>2. CASE u # t
      BY <1>1, <1>3, <2>2, <2>4, <3>2 DEF Follows, Held, taskVars
    <3> QED
      BY <3>1, <3>2
  <2> QED
    BY <1>2, <2>2, <2>9, <2>10, <2>11, <2>12, <2>13, <2>14 DEF Owned, OwnedStep
<1> QED
  BY <1>4, <1>5

LEMMA FinishOwned ==
  ASSUME TypeOK, TypeOK', Owned, NEW p \in Procs, Finish(p)
  PROVE  OwnedStep
<1> DEFINE t == running[p]
<1>1. /\ t \in Tasks /\ processor[t] = p /\ state[t] = "RUNNING" /\ pc[p] = "user"
      /\ UNCHANGED <<newQue, taken, runQue, running, nextTask, processor, epoch, wakeVars, waitSet>>
      /\ pc' = [pc EXCEPT ![p] = "switch"]
  BY DEF Finish, InUser, Owned, RunningState, InTask, queVars
<1>2. PICK s \in {"DONE", "EXCEPT"} : state' = [state EXCEPT ![t] = s]
  BY DEF Finish
<1>3. /\ \A r \in Refs : Alive(r)' <=> Alive(r)
      /\ \A u : Unowned(u)' <=> Unowned(u)
  BY <1>1 DEF wakeVars, Alive, InWaitSet, Holders, Unowned
<1>4. /\ \A q \in Procs : t \notin NewSet(q) /\ t \notin ToSet(runQue[q]) /\ nextTask[q] # t
      /\ t \notin lost
      /\ \A r \in Refs : Alive(r) => r.task # t
      /\ \A q \in Procs \ {p} : running[q] # t
  BY <1>1, RunsOnly DEF Unowned
<1>5. /\ \A u \in Tasks \ {t} : state'[u] = state[u]
      /\ state'[t] \in {"DONE", "EXCEPT"} /\ pc'[p] = "switch"
      /\ \A q \in Procs \ {p} : pc'[q] = pc[q]
  BY <1>1, <1>2 DEF TypeOK
<1>6. QueuesApart' /\ \A q \in Procs : NewSet(q)' = NewSet(q)
  BY <1>1, SameQueues
<1>7. RunningState'
  BY <1>1, <1>4, <1>5 DEF Owned, RunningState, InTask
<1>8. NewOwned' /\ RunOwned'
  BY <1>1, <1>3, <1>4, <1>5, <1>6, QueuedTasks DEF Owned, NewOwned, RunOwned, wakeVars
<1>9. NextOwned'
  BY <1>1, <1>3, <1>4, <1>5 DEF Owned, NextOwned, TypeOK
<1>10. SharedOwned' /\ FreshWakeUp'
  BY <1>1, <1>3, <1>4, <1>5 DEF Owned, SharedOwned, FreshWakeUp, wakeVars, Refs, TypeOK
<1>11. NextTaskKept'
  <2>1. nextTask[p] = NoTask
    BY <1>1, NoNext
  <2> QED
    BY <1>1, <1>4, <1>5, <2>1 DEF Owned, NextTaskKept, RunningState, InTask
<1>12. ASSUME NEW u \in Tasks PROVE Follows(u)
  <2>1. CASE u = t
    BY <1>1, <1>5, <2>1 DEF Follows, Held
  <2>2. CASE u # t
    BY <1>1, <1>3, <1>5, <1>6, <2>2 DEF Follows, Held
  <2> QED
    BY <2>1, <2>2
<1> QED
  BY <1>6, <1>7, <1>8, <1>9, <1>10, <1>11, <1>12 DEF Owned, OwnedStep

(* No step of a processor's thread drops, doubles or steals a task. *)
LEMMA ProcessorOwned ==
  ASSUME TypeOK, TypeOK', Owned, NEW p \in Procs, Process(p) \/ SpuriousWake(p) \/ User(p)
  PROVE  OwnedStep
<1>1. ASSUME UNCHANGED <<runQue, running, nextTask, taskVars, wakeVars, waitSet>>,
             QueuesApart', \A q \in Procs : NewSet(q)' = NewSet(q),
             RunningState', NextTaskKept'
      PROVE  OwnedStep
  <2>1. \A r \in Refs : Alive(r)' <=> Alive(r)
    BY <1>1 DEF wakeVars, Alive, InWaitSet, Holders
  <2> QED
    BY <1>1, <2>1, QuietOwned DEF Owned, SharedOwned, wakeVars
<1>2. CASE PickRun(p) \/ PopFirst(p)
  BY <1>2, PickRunOwned
<1>3. CASE \/ PickNothing(p) \/ WaitEnter(p) \/ WaitEnd(p) \/ SpuriousWake(p) \/ PopNothing(p)
           \/ SwitchYield(p) \/ SwitchDone(p) \/ Yield(p)
  <2>1. /\ UNCHANGED <<queVars, running, nextTask, taskVars, wakeVars, waitSet>>
        /\ \A q \in Procs \ {p} : pc'[q] = pc[q]
        /\ \/ /\ pc[p] \in {"pick", "pick2", "wait", "waiting", "pop"}
              /\ pc'[p] \in {"pick", "drain", "wait", "waiting", "woken"}
           \/ /\ pc[p] = "switch" /\ state[running[p]] = "RUNNING"
              /\ pc'[p] \in {"drainYield", "push"}
           \/ /\ pc[p] = "switch" /\ state[running[p]] \in {"DONE", "EXCEPT"}
              /\ pc'[p] \in {"drainDone", "erase"}
           \/ pc[p] \in {"user", "blocked"} /\ pc'[p] = "switch"
    BY <1>3 DEF PickNothing, WaitEnter, WaitEnd, SpuriousWake, PopNothing, SwitchYield,
                SwitchDone, Yield, TypeOK
  <2>2. RunningState' /\ NextTaskKept'
    BY <2>1 DEF Owned, RunningState, NextTaskKept, InTask, taskVars
  <2>3. QueuesApart' /\ \A q \in Procs : NewSet(q)' = NewSet(q)
    BY <2>1, SameQueues DEF queVars
  <2> QED
    BY <1>1, <2>1, <2>2, <2>3 DEF queVars
<1>4. CASE PopNew(p) \/ PushNew(p)
  <2>1. /\ UNCHANGED <<running, nextTask, taskVars, wakeVars, waitSet>>
        /\ \A q \in Procs \ {p} : pc'[q] = pc[q]
        /\ \/ pc[p] \in DOMAIN AfterDrain /\ pc'[p] = pc[p]
           \/ pc[p] \in {"drain", "woken"} /\ pc'[p] \in {"pick2", "pick"}
           \/ pc[p] = "drainYield" /\ pc'[p] = "push"
           \/ pc[p] = "drainDone" /\ pc'[p] = "erase"
    <3>1. /\ UNCHANGED <<running, nextTask, taskVars, wakeVars, waitSet>> /\ pc[p] \in DOMAIN AfterDrain
          /\ \E v \in {pc[p], AfterDrain[pc[p]]} : pc' = [pc EXCEPT ![p] = v]
      BY <1>4 DEF PopNew, PushNew, TypeOK
    <3> PICK v \in {pc[p], AfterDrain[pc[p]]} : pc' = [pc EXCEPT ![p] = v]
      BY <3>1
    <3>2. pc'[p] = v /\ \A q \in Procs \ {p} : pc'[q] = pc[q]
      BY DEF TypeOK
    <3> QED
      BY <3>1, <3>2, DrainPcs
  <2>2. RunningState' /\ NextTaskKept'
    BY <2>1 DEF Owned, RunningState, NextTaskKept, InTask, taskVars
  <2>3. CASE PopNew(p)
    <3>1. /\ taken[p] = <<>> /\ taken' = [taken EXCEPT ![p] = newQue[p]]
          /\ newQue' = [newQue EXCEPT ![p] = <<>>] /\ UNCHANGED runQue
      BY <2>3 DEF PopNew
    <3>2. /\ newQue'[p] = <<>> /\ taken'[p] = newQue[p]
          /\ \A q \in Procs \ {p} : newQue'[q] = newQue[q] /\ taken'[q] = taken[q]
      BY <3>1 DEF TypeOK
    <3>3. \A q \in Procs : NewSet(q)' = NewSet(q)
      BY <3>1, <3>2, EmptyElements DEF NewSet
    <3>4. QueuesApart'
      BY <3>1, <3>2, <3>3, EmptyElements DEF Owned, QueuesApart
    <3> QED
      BY <1>1, <2>1, <2>2, <3>1, <3>3, <3>4
  <2>4. CASE PushNew(p)
    BY <2>1, <2>2, <2>4, MovesOwned DEF PushNew
  <2> QED
    BY <1>4, <2>3, <2>4
<1>5. CASE PushYield(p)
  BY <1>5, PushYieldOwned
<1>6. CASE SwitchBlock(p)
  BY <1>6, RunsNextOwned DEF SwitchBlock, queVars
<1>8. CASE SwitchErase(p)
  BY <1>8, SwitchEraseOwned
<1>9. CASE Finish(p)
  BY <1>9, FinishOwned
<1>10. CASE Suspend(p)
  BY <1>10, SuspendOwned
<1>11. CASE SuspendReturn(p)
  BY <1>11, SuspendReturnOwned
<1> QED
  BY <1>2, <1>3, <1>4, <1>5, <1>6, <1>8, <1>9, <1>10, <1>11 DEF Process, PopYield, User

(* Only a thread that has the last copy of a shared_ptr takes a task from it. *)
LEMMA WakeOwned ==
  ASSUME TypeOK, TypeOK', HasProcessor, Owned, NEW w \in Threads, WakeLock(w) \/ WakeUp(w)
  PROVE  OwnedStep
<1> USE ProcessorAssumption
<1>1. ASSUME UNCHANGED <<newQue, taken, runQue, loopVars, taskVars, lost>>,
             \A r \in Refs : Alive(r)' <=> Alive(r),
             \A v \in Threads : wpc'[v] = "idle" => wref'[v] = NoRef
      PROVE  OwnedStep
  <2>1. RunningState' /\ NextTaskKept'
    BY <1>1 DEF Owned, RunningState, NextTaskKept, InTask, loopVars, taskVars
  <2> QED
    BY <1>1, <2>1, SameQueues, QuietOwned DEF loopVars
<1>2. CASE WakeLock(w)
  <2>1. PICK r \in Refs : Alive(r) /\ wref' = [wref EXCEPT ![w] = r]
    BY <1>2 DEF WakeLock
  <2>2. /\ wref[w] = NoRef /\ wpc' = [wpc EXCEPT ![w] = "locked"]
        /\ UNCHANGED <<queVars, loopVars, taskVars, lost, waitSet>>
    BY <1>2 DEF WakeLock, Owned, SharedOwned
  <2>3. \A x \in Refs : Alive(x)' <=> Alive(x)
    BY <2>1, <2>2 DEF Alive, InWaitSet, Holders, TypeOK
  <2>4. \A v \in Threads : wpc'[v] = "idle" => wref'[v] = NoRef
    BY <2>1, <2>2 DEF Owned, SharedOwned, TypeOK
  <2> QED
    BY <1>1, <2>2, <2>3, <2>4 DEF queVars
<1>3. CASE WakeErase(w)
  <2> DEFINE t == wref[w].task
             p == processor[t]
  <2>1. wref[w] \in Refs /\ wpc[w] = "locked" /\ UNCHANGED <<queVars, loopVars, taskVars, wref, lost>>
    BY <1>3 DEF WakeErase, HasProcessor, TypeOK
  <2>2. Alive(wref[w])
    BY <2>1 DEF Alive, Holders
  <2>3. \A x \in Refs : Alive(x) /\ x.task = t => x = wref[w]
    BY <2>1, <2>2 DEF Owned, FreshWakeUp, Refs
  <2>4. \A q \in Procs : /\ waitSet'[q] \subseteq waitSet[q]
                         /\ \A x \in waitSet[q] : x.task # t => x \in waitSet'[q]
    <3>1. \/ waitSet' = [waitSet EXCEPT ![p] = {x \in @ : x.task # t}]
          \/ waitSet' = waitSet
      BY <1>3 DEF WakeErase
    <3> HIDE DEF p, t
    <3>2. \A q \in Procs \ {p} : waitSet'[q] = waitSet[q]
      BY <3>1 DEF TypeOK
    <3>3. p \in Procs => waitSet'[p] \in {waitSet[p], {x \in waitSet[p] : x.task # t}}
      BY <3>1 DEF TypeOK
    <3> QED
      BY <3>2, <3>3
  <2>5. ASSUME NEW x \in Refs PROVE Alive(x)' <=> Alive(x)
    <3>1. Alive(x)' => Alive(x)
      BY <2>1, <2>4 DEF Alive, InWaitSet, Holders
    <3>2. CASE x = wref[w]
      BY <2>1, <2>2, <3>2 DEF Alive, Holders
    <3>3. CASE x # wref[w] /\ Alive(x)
      <4>1. x.task # t
        BY <2>3, <3>3
      <4> QED
        BY <2>1, <2>4, <3>3, <4>1 DEF Alive, InWaitSet, Holders
    <3> QED
      BY <3>1, <3>2, <3>3
  <2>6. \A v \in Threads : wpc'[v] = "idle" => wref'[v] = NoRef
    BY <1>3, <2>1 DEF WakeErase, Owned, SharedOwned, TypeOK
  <2> QED
    BY <1>1, <2>1, <2>5, <2>6 DEF queVars
<1>4. CASE WakeNotify(w)
  <2>1. \A x \in Refs : Alive(x)' <=> Alive(x)
    BY <1>4 DEF WakeNotify, Alive, InWaitSet, Holders
  <2>2. \A v \in Threads : wpc'[v] = "idle" => wref'[v] = NoRef
    BY <1>4 DEF WakeNotify, Owned, SharedOwned, TypeOK
  <2> QED
    BY <1>1, <1>4, <2>1, <2>2 DEF WakeNotify, queVars
<1>5. CASE WakeRelease(w)
  <2>1. PICK r \in Refs : r = wref[w]
    BY <1>5 DEF WakeRelease, HasProcessor, TypeOK
  <2>2. PICK t \in Tasks : t = r.task
    BY DEF Refs
  <2> USE <2>1, <2>2
  <2>3. /\ t \in Tasks /\ r.proc \in Procs /\ Alive(r)
        /\ UNCHANGED <<newQue, taken, loopVars, taskVars, waitSet>>
        /\ \A q \in Procs : NewSet(q)' = NewSet(q)
        /\ wpc' = [wpc EXCEPT ![w] = "idle"] /\ wref' = [wref EXCEPT ![w] = NoRef]
    BY <1>5 DEF WakeRelease, HasProcessor, TypeOK, Refs, Alive, Holders, NewSet
  <2>4. \A v \in Threads : wpc'[v] = "idle" => wref'[v] = NoRef
    BY <2>3 DEF Owned, SharedOwned, TypeOK
  <2>5. \A x \in Refs \ {r} : Alive(x)' <=> Alive(x)
    BY <2>3 DEF Alive, InWaitSet, Holders, TypeOK
  <2>6. CASE ~LastCopy(w)
    <3>1. Alive(r)'
      BY <2>3, <2>6 DEF LastCopy, Alive, InWaitSet, Holders, TypeOK
    <3> QED
      BY <1>1, <1>5, <2>3, <2>4, <2>5, <2>6, <3>1 DEF WakeRelease
  <2>7. CASE LastCopy(w)
    <3>1. ~Alive(r)'
      BY <2>3, <2>7 DEF LastCopy, Alive, InWaitSet, Holders, TypeOK
    <3>2. state[t] = "BLOCK" /\ r.proc = processor[t]
      BY <2>3 DEF Owned, FreshWakeUp
    <3>3. /\ t \notin lost
          /\ \A q \in Procs : t \notin NewSet(q) /\ t \notin ToSet(runQue[q]) /\ nextTask[q] # t
      BY <2>3, <3>2 DEF Owned, SharedOwned, NewOwned, RunOwned, NextOwned, Unowned
    <3>4. \A x \in Refs : Alive(x) /\ x.task = t => x = r
      BY <2>3 DEF Owned, FreshWakeUp, Refs
    <3>5. \A x \in Refs : Alive(x)' => x.task # t /\ Alive(x)
      BY <2>5, <3>1, <3>4
    <3>6. RunningState' /\ NextTaskKept' /\ FreshWakeUp'
      BY <2>3, <3>5 DEF Owned, RunningState, NextTaskKept, FreshWakeUp, InTask, loopVars, taskVars
    <3>7. CASE UNCHANGED runQue /\ lost' = lost \cup {t}
      <4>1. \A u : u # t /\ Unowned(u) => Unowned(u)'
        BY <3>5, <3>7 DEF Unowned
      <4>2. \A u \in Tasks \ {t} : Unowned(u)' => Unowned(u)
        BY <2>5, <3>7 DEF Unowned
      <4>3. QueuesApart'
        BY <2>3, <3>7 DEF Owned, QueuesApart
      <4>4. NewOwned'
        BY <2>3, <3>3, <3>7 DEF Owned, NewOwned, loopVars, taskVars
      <4>5. RunOwned'
        BY <2>3, <3>3, <3>7, <4>1 DEF Owned, RunOwned, loopVars, taskVars
      <4>6. NextOwned'
        BY <2>3, <3>3, <3>7, <4>1 DEF Owned, NextOwned, loopVars, taskVars
      <4>7. SharedOwned'
        BY <2>3, <2>4, <3>2, <3>5, <3>7 DEF Owned, SharedOwned, taskVars
      <4>8. ASSUME NEW u \in Tasks PROVE Follows(u)
        <5>1. CASE u = t
          BY <2>3, <3>7, <5>1 DEF Follows, Held, Unowned
        <5>2. CASE u # t
          BY <2>3, <3>7, <4>1, <4>2, <5>2 DEF Follows, Held, loopVars, taskVars
        <5> QED
          BY <5>1, <5>2
      <4> QED
        BY <3>6, <4>3, <4>4, <4>5, <4>6, <4>7, <4>8 DEF Owned, OwnedStep
    <3>8. CASE runQue' = [runQue EXCEPT ![r.proc] = Append(@, t)] /\ UNCHANGED lost
      <4> DEFINE p == r.proc
      <4>1. /\ ToSet(Append(runQue[p], t)) = ToSet(runQue[p]) \cup {t}
            /\ IsInjective(Append(runQue[p], t))
        <5>1. runQue[p] \in Seq(Tasks) /\ t \in Tasks /\ IsInjective(runQue[p]) /\ t \notin ToSet(runQue[p])
          BY <2>3, <3>3 DEF TypeOK, Owned, QueuesApart
        <5>2. ToSet(Append(runQue[p], t)) = ToSet(runQue[p]) \cup {t}
          BY <5>1, AppendElements
        <5>3. IsInjective(Append(runQue[p], t))
          BY <5>1, AppendElements
        <5> QED
          BY <5>2, <5>3
      <4>2. /\ ToSet(runQue'[p]) = ToSet(runQue[p]) \cup {t} /\ IsInjective(runQue'[p])
            /\ \A q \in Procs \ {p} : runQue'[q] = runQue[q]
        BY <2>3, <3>8, <4>1 DEF TypeOK
      <4>3. /\ \A u : Unowned(u) => Unowned(u)'
            /\ \A u \in Tasks \ {t} : Unowned(u)' => Unowned(u)
            /\ Unowned(t)'
        BY <2>5, <3>3, <3>5, <3>8 DEF Unowned
      <4>4. QueuesApart'
        <5>1. \A q \in Procs :
                /\ {t} \cap (NewSet(q) \cup ToSet(runQue[q])) = {}
                /\ IsInjective(newQue'[q]) /\ IsInjective(taken'[q]) /\ IsInjective(runQue'[q])
                /\ ToSet(newQue'[q]) \cap ToSet(taken'[q]) = {}
                /\ NewSet(q)' \subseteq NewSet(q)
                /\ NewSet(q)' \cap ToSet(runQue'[q]) = {}
                /\ ToSet(runQue'[q]) \subseteq
                      ToSet(runQue[q]) \cup NewSet(q) \cup (IF q = p THEN {t} ELSE {})
          BY <2>3, <3>3, <4>2 DEF Owned, QueuesApart
        <5>2. p \in Procs
          BY <2>3
        <5> HIDE DEF p
        <5> QED
          BY <5>1, <5>2, StillApart, Zenon DEF Owned
      <4>5. NewOwned'
        BY <2>3, <3>8 DEF Owned, NewOwned, loopVars, taskVars
      <4>6. RunOwned'
        <5> SUFFICES ASSUME NEW q \in Procs, NEW u \in ToSet(runQue'[q])
                     PROVE  /\ state[u] \in {"READY", "RUNNING", "BLOCK"} /\ Unowned(u)'
                            /\ state[u] = "BLOCK" => processor[u] = q
                            /\ \A x \in Procs : nextTask[x] # u /\ (running[x] = u => state[u] = "BLOCK")
          BY <2>3 DEF RunOwned, loopVars, taskVars
        <5>1. CASE u = t
          <6>1. q = p
            BY <3>3, <4>2, <5>1
          <6> QED
            BY <2>3, <3>2, <3>3, <4>3, <5>1, <6>1
        <5>2. CASE u # t
          <6>1. u \in ToSet(runQue[q])
            BY <4>2, <5>2
          <6> QED
            BY <4>3, <6>1 DEF Owned, RunOwned
        <5> QED
          BY <5>1, <5>2
      <4>7. NextOwned'
        BY <2>3, <4>3 DEF Owned, NextOwned, loopVars, taskVars
      <4>8. SharedOwned'
        BY <2>3, <2>4, <3>5, <3>8 DEF Owned, SharedOwned, taskVars
      <4>9. ASSUME NEW u \in Tasks PROVE Follows(u)
        <5>1. CASE u = t
          BY <2>3, <4>2, <5>1 DEF Follows, Held, Unowned
        <5>2. CASE u # t
          BY <2>3, <4>2, <4>3, <5>2 DEF Follows, Held, loopVars, taskVars
        <5> QED
          BY <5>1, <5>2
      <4> QED
        BY <3>6, <4>4, <4>5, <4>6, <4>7, <4>8, <4>9 DEF Owned, OwnedStep
    <3> QED
      BY <1>5, <2>7, <3>7, <3>8 DEF WakeRelease
  <2> QED
    BY <2>6, <2>7
<1> QED
  BY <1>2, <1>3, <1>4, <1>5 DEF WakeUp

(* addTask: only new tasks come to have an owner. *)
LEMMA PushOwned ==
  ASSUME TypeOK, TypeOK', Owned, NEW p \in Procs, NEW ts \in Seq(Tasks), IsInjective(ts), Push(p, ts)
  PROVE  Owned' /\ \A u \in Tasks : IF u \in ToSet(ts) THEN Held(u)' ELSE Follows(u)
<1> USE ProcessorAssumption
<1> DEFINE T == ToSet(ts)
<1>1. /\ T \subseteq Tasks /\ \A t \in T : state[t] = "NEW"
      /\ newQue' = [newQue EXCEPT ![p] = @ \o ts]
      /\ state' = [t \in Tasks |-> IF t \in T THEN "READY" ELSE state[t]]
      /\ UNCHANGED <<runQue, taken, loopVars, processor, epoch, wakeVars, waitSet>>
  BY ElementsType DEF Push
<1>2. /\ \A r \in Refs : Alive(r)' <=> Alive(r)
      /\ \A u : Unowned(u)' <=> Unowned(u)
  BY <1>1 DEF wakeVars, Alive, InWaitSet, Holders, Unowned
<1>3. \A t \in T :
        /\ \A q \in Procs : /\ t \notin NewSet(q) /\ t \notin ToSet(runQue[q])
                            /\ nextTask[q] # t /\ running[q] # t
        /\ t \notin lost
        /\ \A r \in Refs : Alive(r) => r.task # t
  BY <1>1 DEF Owned, NewOwned, RunOwned, NextOwned, SharedOwned, FreshWakeUp, RunningState, InTask
<1>4. /\ ToSet(newQue'[p]) = ToSet(newQue[p]) \cup T /\ IsInjective(newQue'[p])
      /\ \A q \in Procs \ {p} : newQue'[q] = newQue[q]
  <2>1. /\ newQue[p] \in Seq(Tasks) /\ IsInjective(newQue[p]) /\ ToSet(newQue[p]) \cap T = {}
    BY <1>3 DEF TypeOK, Owned, QueuesApart, NewSet
  <2>2. ToSet(newQue[p] \o ts) = ToSet(newQue[p]) \cup T /\ IsInjective(newQue[p] \o ts)
    BY <2>1, ConcatElements, ZenonT(30)
  <2>3. newQue'[p] = newQue[p] \o ts /\ \A q \in Procs \ {p} : newQue'[q] = newQue[q]
    BY <1>1 DEF TypeOK
  <2> QED
    BY <2>2, <2>3
<1>5. /\ NewSet(p)' = NewSet(p) \cup T
      /\ \A q \in Procs \ {p} : NewSet(q)' = NewSet(q)
  BY <1>1, <1>4 DEF NewSet
<1>6. QueuesApart'
  <2> SUFFICES ASSUME NEW q \in Procs, NEW r \in Procs
               PROVE  /\ IsInjective(newQue'[q]) /\ IsInjective(taken'[q]) /\ IsInjective(runQue'[q])
                      /\ ToSet(newQue'[q]) \cap ToSet(taken'[q]) = {}
                      /\ NewSet(q)' \cap ToSet(runQue'[r]) = {}
                      /\ q # r => /\ NewSet(q)' \cap NewSet(r)' = {}
                                  /\ ToSet(runQue'[q]) \cap ToSet(runQue'[r]) = {}
    BY DEF QueuesApart
  <2>1. IsInjective(newQue'[q]) /\ IsInjective(taken'[q]) /\ IsInjective(runQue'[q])
    BY <1>1, <1>4 DEF Owned, QueuesApart
  <2>2. ToSet(newQue'[q]) \cap ToSet(taken'[q]) = {}
    BY <1>1, <1>3, <1>4 DEF Owned, QueuesApart, NewSet
  <2>3. NewSet(q)' \cap ToSet(runQue'[r]) = {}
    BY <1>1, <1>3, <1>5 DEF Owned, QueuesApart
  <2>4. q # r => NewSet(q)' \cap NewSet(r)' = {}
    BY <1>3, <1>5 DEF Owned, QueuesApart
  <2>5. q # r => ToSet(runQue'[q]) \cap ToSet(runQue'[r]) = {}
    BY <1>1 DEF Owned, QueuesApart
  <2> QED
    BY <2>1, <2>2, <2>3, <2>4, <2>5
<1>7. \A u \in Tasks : u \notin T => state'[u] = state[u]
  BY <1>1
<1>8. \A t \in T : state'[t] = "READY"
  BY <1>1
<1>9. RunningState' /\ NextTaskKept'
  <2>1. ASSUME NEW q \in Procs, running[q] \in Tasks PROVE state'[running[q]] = state[running[q]]
    BY <1>3, <1>7, <2>1
  <2>2. RunningState'
    BY <1>1, <2>1 DEF Owned, RunningState, InTask, loopVars
  <2>3. NextTaskKept'
    BY <1>1, <2>1 DEF Owned, RunningState, NextTaskKept, InTask, loopVars
  <2> QED
    BY <2>2, <2>3
<1>10. NewOwned'
  <2> SUFFICES ASSUME NEW q \in Procs, NEW u \in NewSet(q)'
               PROVE  /\ state'[u] \in {"READY", "RUNNING"} /\ u \notin lost
                      /\ \A x \in Procs : running[x] # u /\ nextTask[x] # u
    BY <1>1 DEF NewOwned, loopVars, wakeVars
  <2>1. CASE u \in T
    BY <1>3, <1>8, <2>1
  <2>2. CASE u \notin T
    <3>1. u \in NewSet(q) /\ u \in Tasks
      BY <1>5, <2>2, QueuedTasks
    <3> QED
      BY <1>7, <2>2, <3>1 DEF Owned, NewOwned
  <2> QED
    BY <2>1, <2>2
<1>11. RunOwned'
  <2>1. ASSUME NEW q \in Procs, NEW u \in ToSet(runQue[q]) PROVE u \in Tasks /\ u \notin T
    BY <1>3, <2>1, QueuedTasks
  <2> QED
    BY <1>1, <1>2, <1>7, <2>1 DEF Owned, RunOwned, loopVars
<1>12. NextOwned'
  <2>1. ASSUME NEW q \in Procs, nextTask[q] # NoTask
        PROVE  nextTask[q] \in Tasks /\ state'[nextTask[q]] = state[nextTask[q]]
    BY <1>3, <1>7, <2>1 DEF TypeOK
  <2> QED
    BY <1>1, <1>2, <2>1 DEF Owned, NextOwned, loopVars
<1>13. SharedOwned' /\ FreshWakeUp'
  <2>1. ASSUME NEW r \in Refs, Alive(r) PROVE state'[r.task] = state[r.task]
    BY <1>3, <1>7, <2>1 DEF Refs
  <2>2. \A t \in lost : state'[t] = state[t]
    BY <1>3, <1>7 DEF TypeOK
  <2>3. FreshWakeUp'
    BY <1>1, <1>2, <2>1 DEF Owned, FreshWakeUp
  <2>4. SharedOwned'
    BY <1>1, <1>2, <2>2 DEF Owned, SharedOwned, wakeVars
  <2> QED
    BY <2>3, <2>4
<1>14. ASSUME NEW u \in Tasks, u \in T PROVE Held(u)'
  BY <1>5, <1>14 DEF Held
<1>15. ASSUME NEW u \in Tasks, u \notin T PROVE Follows(u)
  BY <1>1, <1>2, <1>5, <1>7, <1>15 DEF Follows, Held, loopVars
<1> QED
  BY <1>6, <1>9, <1>10, <1>11, <1>12, <1>13, <1>14, <1>15 DEF Owned

(* Ownership is preserved, and no task that can run is left without.        *)
LEMMA NextOwnership ==
  TypeOK /\ HasProcessor /\ Owned /\ AllHeld /\ [Next]_vars => Owned' /\ AllHeld'
<1> SUFFICES ASSUME TypeOK, HasProcessor, Owned, AllHeld, [Next]_vars PROVE Owned' /\ AllHeld'
  OBVIOUS
<1>1. TypeOK'
  BY NextTypes
<1>2. ASSUME OwnedStep PROVE Owned' /\ AllHeld'
  BY <1>2 DEF OwnedStep, AllHeld, Follows
<1>7. ASSUME NEW p \in Procs, NEW ts \in Seq(Tasks), IsInjective(ts), Push(p, ts)
      PROVE  Owned' /\ AllHeld'
  <2>1. Owned' /\ \A u \in Tasks : IF u \in ToSet(ts) THEN Held(u)' ELSE Follows(u)
    BY <1>1, <1>7, PushOwned
  <2>2. ASSUME NEW u \in Tasks, u \notin ToSet(ts) PROVE state'[u] = state[u]
    BY <1>7, <2>2 DEF Push
  <2> QED
    BY <2>1, <2>2 DEF AllHeld, Follows
<1>3. /\ \A p \in Procs, ts \in Lists : AddTask(p, ts) => Owned' /\ AllHeld'
      /\ \A p \in Procs, t \in Tasks : AddRange(p, t) => Owned' /\ AllHeld'
  <2>1. \A p \in Procs, ts \in Lists : AddTask(p, ts) => Owned' /\ AllHeld'
    BY <1>7, ListsType DEF AddTask
  <2>2. ASSUME NEW t \in Tasks PROVE <<t>> \in Seq(Tasks) /\ IsInjective(<<t>>)
    <3>1. <<t>> \in Seq(Tasks)
      OBVIOUS
    <3> QED
      BY <3>1, SingleElement, Zenon
  <2>3. \A p \in Procs, t \in Tasks : AddRange(p, t) => Push(p, <<t>>)
    BY DEF AddRange
  <2> QED
    BY <1>7, <2>1, <2>2, <2>3
<1>4. ASSUME NEW p \in Procs, Process(p) \/ SpuriousWake(p) \/ User(p) PROVE Owned' /\ AllHeld'
  BY <1>1, <1>2, <1>4, ProcessorOwned
<1>5. ASSUME NEW w \in Threads, WakeLock(w) \/ WakeUp(w) PROVE Owned' /\ AllHeld'
  BY <1>1, <1>2, <1>5, WakeOwned
<1>6. CASE UNCHANGED vars
  <2>1. \A r \in Refs : Alive(r)' <=> Alive(r)
    BY <1>6 DEF vars, wakeVars, Alive, InWaitSet, Holders
  <2>2. RunningState' /\ NextTaskKept'
    BY <1>6 DEF vars, loopVars, taskVars, Owned, RunningState, NextTaskKept, InTask
  <2> QED
    BY <1>2, <1>6, <2>1, <2>2, SameQueues, QuietOwned
    DEF vars, queVars, loopVars, wakeVars, Owned, SharedOwned
<1> QED
  BY <1>3, <1>4, <1>5, <1>6 DEF Next

(* Where t is in the queues, and that it is at most one place.              *)
LEMMA PlacesAre ==
  ASSUME NEW que, NEW t, NEW p \in Procs,
         \A q \in Procs \ {p} : t \notin ToSet(que[q]), IsInjective(que[p])
  PROVE  /\ t \notin ToSet(que[p]) => Places(que, t) = {}
         /\ t \in ToSet(que[p]) => \E x : Places(que, t) = {x}
<1>1. Places(que, t) = {<<p, i>> : i \in {j \in DOMAIN que[p] : que[p][j] = t}}
  <2>1. \A q \in Procs \ {p} : {j \in DOMAIN que[q] : que[q][j] = t} = {}
    BY DEF ToSet
  <2>2. \A q \in Procs \ {p} : {<<q, i>> : i \in {j \in DOMAIN que[q] : que[q][j] = t}} = {}
    BY <2>1
  <2> QED
    BY <2>2 DEF Places
<1>2. t \notin ToSet(que[p]) => Places(que, t) = {}
  BY <1>1 DEF ToSet
<1>3. ASSUME t \in ToSet(que[p]) PROVE \E x : Places(que, t) = {x}
  <2>1. PICK j \in DOMAIN que[p] : que[p][j] = t
    BY <1>3 DEF ToSet
  <2>2. \A i \in DOMAIN que[p] : que[p][i] = t <=> i = j
    BY <2>1 DEF IsInjective
  <2>3. Places(que, t) = {<<p, j>>}
    BY <1>1, <2>1, <2>2
  <2> QED
    BY <2>3
<1> QED
  BY <1>2, <1>3

(* Every owner of t, part by part *)
LEMMA OwnersAre ==
  ASSUME TypeOK, Owned, NEW t \in Tasks
  PROVE  /\ (\A p \in Procs : t \notin ToSet(newQue[p])) => Places(newQue, t) = {}
         /\ (\A p \in Procs : t \notin ToSet(taken[p])) => Places(taken, t) = {}
         /\ (\A p \in Procs : t \notin ToSet(runQue[p])) => Places(runQue, t) = {}
         /\ \A p \in Procs : t \in ToSet(newQue[p]) => \E x : Places(newQue, t) = {x}
         /\ \A p \in Procs : t \in ToSet(taken[p]) => \E x : Places(taken, t) = {x}
         /\ \A p \in Procs : t \in ToSet(runQue[p]) => \E x : Places(runQue, t) = {x}
<1>1. \A p \in Procs : IsInjective(newQue[p]) /\ IsInjective(taken[p]) /\ IsInjective(runQue[p])
  BY DEF Owned, QueuesApart
<1>2. /\ (\A p \in Procs : t \notin ToSet(newQue[p])) => Places(newQue, t) = {}
      /\ (\A p \in Procs : t \notin ToSet(taken[p])) => Places(taken, t) = {}
      /\ (\A p \in Procs : t \notin ToSet(runQue[p])) => Places(runQue, t) = {}
  BY DEF Places, ToSet
<1>3. ASSUME NEW p \in Procs, t \in ToSet(newQue[p]) PROVE \E x : Places(newQue, t) = {x}
  <2>1. \A q \in Procs \ {p} : t \notin ToSet(newQue[q])
    BY <1>3 DEF Owned, QueuesApart, NewSet
  <2> QED
    BY <1>1, <1>3, <2>1, PlacesAre
<1>4. ASSUME NEW p \in Procs, t \in ToSet(taken[p]) PROVE \E x : Places(taken, t) = {x}
  <2>1. \A q \in Procs \ {p} : t \notin ToSet(taken[q])
    BY <1>4 DEF Owned, QueuesApart, NewSet
  <2> QED
    BY <1>1, <1>4, <2>1, PlacesAre
<1>5. ASSUME NEW p \in Procs, t \in ToSet(runQue[p]) PROVE \E x : Places(runQue, t) = {x}
  <2>1. \A q \in Procs \ {p} : t \notin ToSet(runQue[q])
    BY <1>5 DEF Owned, QueuesApart
  <2> QED
    BY <1>1, <1>5, <2>1, PlacesAre
<1> QED
  BY <1>2, <1>3, <1>4, <1>5

(* The ownership invariant allows one owner, and Held asks for one.         *)
LEMMA OwnersByState ==
  ASSUME TypeOK, Owned, NEW t \in Tasks
  PROVE  /\ state[t] = "NEW" => Owners(t) = {}
         /\ state[t] \in {"READY", "RUNNING", "BLOCK"} =>
               IF Held(t) /\ t \notin lost THEN \E o : Owners(t) = {o} ELSE Owners(t) = {}
         /\ state[t] \in {"DONE", "EXCEPT"} => Owners(t) \subseteq {<<"running", p>> : p \in Procs}
<1> USE ProcessorAssumption
<1> DEFINE NewPart == {<<"newQue", x>> : x \in Places(newQue, t)}
           RunPart == {<<"runQue", x>> : x \in Places(runQue, t)}
           RunningPart == {<<"running", p>> : p \in {q \in Procs : running[q] = t /\ state[t] # "BLOCK"}}
           NextPart == {<<"next", p>> : p \in {q \in Procs : nextTask[q] = t}}
           SharedPart == {<<"shared", r>> : r \in {x \in Refs : x.task = t /\ Alive(x)}}
           TakenPart == {<<"taken", x>> : x \in Places(taken, t)}
<1>1. Owners(t) = NewPart \cup RunPart \cup RunningPart \cup NextPart \cup SharedPart \cup TakenPart
  BY DEF Owners
<1>2. /\ (\A p \in Procs : t \notin ToSet(newQue[p])) => NewPart = {}
      /\ (\A p \in Procs : t \notin ToSet(runQue[p])) => RunPart = {}
      /\ (\A p \in Procs : running[p] = t => state[t] = "BLOCK") => RunningPart = {}
      /\ (\A p \in Procs : nextTask[p] # t) => NextPart = {}
      /\ (\A r \in Refs : Alive(r) => r.task # t) => SharedPart = {}
      /\ (\A p \in Procs : t \notin ToSet(taken[p])) => TakenPart = {}
      /\ (\A p \in Procs : t \notin NewSet(p)) => NewPart = {} /\ TakenPart = {}
  BY OwnersAre DEF NewSet
<1>3. state[t] \notin {"READY", "RUNNING", "BLOCK"} =>
        /\ \A p \in Procs : t \notin NewSet(p) /\ t \notin ToSet(runQue[p]) /\ nextTask[p] # t
        /\ \A r \in Refs : Alive(r) => r.task # t
        /\ t \notin lost
  BY DEF Owned, NewOwned, RunOwned, NextOwned, FreshWakeUp, SharedOwned
<1>4. ASSUME state[t] = "NEW" PROVE Owners(t) = {}
  <2>1. \A p \in Procs : running[p] # t
    BY <1>4 DEF Owned, RunningState, InTask
  <2> QED
    BY <1>1, <1>2, <1>3, <1>4, <2>1
<1>5. ASSUME state[t] \in {"DONE", "EXCEPT"}
      PROVE  Owners(t) \subseteq {<<"running", p>> : p \in Procs}
  BY <1>1, <1>2, <1>3, <1>5
<1>6. ASSUME state[t] \in {"READY", "RUNNING", "BLOCK"}, Held(t), t \notin lost PROVE \E o : Owners(t) = {o}
  <2>1. ASSUME NEW p \in Procs, t \in NewSet(p) PROVE \E o : Owners(t) = {o}
    <3>1. /\ \A q \in Procs : t \notin ToSet(runQue[q]) /\ nextTask[q] # t /\ running[q] # t
          /\ \A r \in Refs : Alive(r) => r.task # t
      BY <2>1 DEF Owned, QueuesApart, NewOwned, FreshWakeUp
    <3>2. RunPart = {} /\ RunningPart = {} /\ NextPart = {} /\ SharedPart = {}
      BY <1>2, <3>1
    <3>3. CASE t \in ToSet(newQue[p])
      <4>1. \A q \in Procs : t \notin ToSet(taken[q])
        BY <2>1, <3>3 DEF Owned, QueuesApart, NewSet
      <4>2. PICK x : Places(newQue, t) = {x}
        BY <3>3, OwnersAre
      <4>3. NewPart = {<<"newQue", x>>} /\ TakenPart = {}
        BY <1>2, <4>1, <4>2
      <4> QED
        BY <1>1, <3>2, <4>3
    <3>4. CASE t \in ToSet(taken[p])
      <4>1. \A q \in Procs : t \notin ToSet(newQue[q])
        BY <2>1, <3>4 DEF Owned, QueuesApart, NewSet
      <4>2. PICK x : Places(taken, t) = {x}
        BY <3>4, OwnersAre
      <4>3. TakenPart = {<<"taken", x>>} /\ NewPart = {}
        BY <1>2, <4>1, <4>2
      <4> QED
        BY <1>1, <3>2, <4>3
    <3> QED
      BY <2>1, <3>3, <3>4 DEF NewSet
  <2>2. CASE \E p \in Procs : t \in ToSet(runQue[p])
    <3>1. /\ \A q \in Procs : /\ t \notin NewSet(q) /\ nextTask[q] # t
                              /\ running[q] = t => state[t] = "BLOCK"
          /\ \A r \in Refs : Alive(r) => r.task # t
      BY <2>2 DEF Owned, QueuesApart, RunOwned, Unowned
    <3>2. PICK x : Places(runQue, t) = {x}
      BY <2>2, OwnersAre
    <3>3. RunPart = {<<"runQue", x>>}
      BY <3>2
    <3>4. NewPart = {} /\ RunningPart = {} /\ NextPart = {} /\ SharedPart = {} /\ TakenPart = {}
      BY <1>2, <3>1
    <3> QED
      BY <1>1, <3>3, <3>4
  <2>3. ASSUME NEW p \in Procs, nextTask[p] = t PROVE \E o : Owners(t) = {o}
    <3>1. /\ \A q \in Procs : /\ t \notin NewSet(q) /\ t \notin ToSet(runQue[q])
                              /\ (running[q] = t => state[t] = "BLOCK") /\ (nextTask[q] = t => q = p)
          /\ \A r \in Refs : Alive(r) => r.task # t
      BY <2>3 DEF Owned, NewOwned, RunOwned, NextOwned, Unowned
    <3>2. NextPart = {<<"next", p>>}
      BY <2>3, <3>1
    <3>3. NewPart = {} /\ RunPart = {} /\ RunningPart = {} /\ SharedPart = {} /\ TakenPart = {}
      BY <1>2, <3>1
    <3> QED
      BY <1>1, <3>2, <3>3
  <2>4. ASSUME NEW p \in Procs, running[p] = t, state[t] = "RUNNING" PROVE \E o : Owners(t) = {o}
    <3>1. /\ \A q \in Procs : /\ t \notin NewSet(q) /\ t \notin ToSet(runQue[q])
                              /\ nextTask[q] # t /\ (running[q] = t => q = p)
          /\ \A r \in Refs : Alive(r) => r.task # t
      BY <2>4, RunsOnly DEF Unowned
    <3>2. RunningPart = {<<"running", p>>}
      BY <2>4, <3>1
    <3> QED
      BY <1>1, <1>2, <3>1, <3>2
  <2>5. ASSUME NEW r \in Refs, Alive(r), r.task = t PROVE \E o : Owners(t) = {o}
    <3>1. state[t] = "BLOCK" /\ \A x \in Refs : Alive(x) /\ x.task = t => x = r
      BY <2>5 DEF Owned, FreshWakeUp, Refs
    <3>2. /\ \A q \in Procs : /\ t \notin NewSet(q) /\ t \notin ToSet(runQue[q])
                              /\ nextTask[q] # t
      BY <2>5, <3>1 DEF Owned, NewOwned, RunOwned, NextOwned, SharedOwned, Unowned
    <3>3. SharedPart = {<<"shared", r>>}
      BY <2>5, <3>1
    <3> QED
      BY <1>1, <1>2, <3>1, <3>2, <3>3
  <2> QED
    BY <1>6, <2>1, <2>2, <2>3, <2>4, <2>5 DEF Held, Unowned
<1>7. ASSUME state[t] \in {"READY", "RUNNING", "BLOCK"}, ~Held(t) \/ t \in lost PROVE Owners(t) = {}
  <2>1. /\ \A q \in Procs : t \notin NewSet(q) /\ t \notin ToSet(runQue[q]) /\ nextTask[q] # t
        /\ \A r \in Refs : Alive(r) => r.task # t
    <3>1. CASE t \in lost
      BY <3>1 DEF Owned, NewOwned, RunOwned, NextOwned, SharedOwned, Unowned
    <3>2. CASE ~Held(t)
      BY <3>2 DEF Held, Unowned
    <3> QED
      BY <1>7, <3>1, <3>2
  <2>2. ASSUME NEW q \in Procs, running[q] = t PROVE state[t] = "BLOCK"
    <3>1. CASE t \in lost
      BY <3>1 DEF Owned, SharedOwned
    <3>2. CASE ~Held(t)
      BY <1>7, <2>2, <3>2 DEF Owned, RunningState, InTask, Held
    <3> QED
      BY <1>7, <3>1, <3>2
  <2> QED
    BY <1>1, <1>2, <2>1, <2>2
<1> QED
  BY <1>4, <1>5, <1>6, <1>7

LEMMA OwnedIsOne == TypeOK /\ Owned /\ AllHeld => OneOwner
<1> SUFFICES ASSUME TypeOK, Owned, AllHeld, NEW t \in Tasks, state[t] \in {"READY", "RUNNING", "BLOCK"}
             PROVE  IF t \in lost THEN Owners(t) = {} ELSE \E o \in Owners(t) : Owners(t) = {o}
  BY OwnersByState DEF OneOwner
<1>1. CASE t \in lost
  BY <1>1, OwnersByState
<1>2. CASE t \notin lost
  <2>1. Held(t)
    BY DEF AllHeld
  <2>2. \E o : Owners(t) = {o}
    BY <1>2, <2>1, OwnersByState
  <2> QED
    BY <1>2, <2>2
<1> QED
  BY <1>1, <1>2

-----------------------------------------------------------------------------

LEMMA InitHolds == Init => IInv
<1> SUFFICES ASSUME Init PROVE IInv
  OBVIOUS
<1>1. <<>> \in Seq(Tasks) /\ 0 \in 0..MaxSuspends
  BY ProcessorAssumption
<1>2. TypeOK
  BY <1>1 DEF Init, TypeOK, PcSet, StateSet
<1>3. HasProcessor /\ NotedAdd
  BY EmptyElements DEF Init, HasProcessor, NotedAdd
<1>4. \A r \in Refs : ~Alive(r)
  BY ProcessorAssumption DEF Init, Alive, InWaitSet, Holders
<1>5. \A p \in Procs : /\ newQue[p] = <<>> /\ taken[p] = <<>> /\ runQue[p] = <<>>
                       /\ running[p] = NoTask /\ nextTask[p] = NoTask /\ pc[p] = "pick"
                       /\ NewSet(p) = {}
  BY EmptyElements DEF Init, NewSet
<1>6. QueuesApart /\ NewOwned /\ RunOwned /\ RunningState /\ NextOwned /\ NextTaskKept
  BY <1>5, EmptyElements
  DEF QueuesApart, NewOwned, RunOwned, RunningState, InTask, NextOwned, NextTaskKept
<1>7. SharedOwned /\ FreshWakeUp /\ AllHeld
  BY <1>4 DEF Init, SharedOwned, FreshWakeUp, AllHeld
<1> QED
  BY <1>2, <1>3, <1>6, <1>7 DEF IInv, Owned

(* The inductive invariant holds in every reachable state. *)
THEOREM InvariantHolds == Spec => []IInv
<1>1. Init => IInv
  BY InitHolds
<1>2. IInv /\ [Next]_vars => IInv'
  BY NextTypes, NextNotedAdd, NextOwnership DEF IInv
<1> QED
  BY <1>1, <1>2, PTL DEF Spec

(* Every variable of the processors keeps its type; in particular a thread  *)
(* in task code always has a task to run.                                   *)
THEOREM TypeCorrect == Spec => []TypeOK
<1>1. IInv => TypeOK
  BY DEF IInv
<1> QED
  BY <1>1, InvariantHolds, PTL

(* No processor sleeps on a task that an addTask which notifies gave it.    *)
THEOREM NoAddIsLost == Spec => []NoLostAdd
<1>1. IInv => NoLostAdd
  BY DEF IInv, NotedAdd, NoLostAdd
<1> QED
  BY <1>1, InvariantHolds, PTL

(* Every task that exists and has not ended has exactly one owner, however  *)
(* its wake-ups, its yield and the switches of the processors interleave,   *)
(* unless an overlapped push without the lock has dropped it: none is       *)
(* queued twice, run twice or freed while it is in use.                     *)
THEOREM TaskHasOneOwner == Spec => []OneOwner
<1>1. IInv => OneOwner
  BY OwnedIsOne DEF IInv
<1> QED
  BY <1>1, InvariantHolds, PTL

(* A SuspendEntry that a late or second WakeUp can still lock is that of    *)
(* the task's current suspension.                                           *)
THEOREM WakeUpIsFresh == Spec => []FreshWakeUp
<1>1. IInv => FreshWakeUp
  BY DEF IInv, Owned
<1> QED
  BY <1>1, InvariantHolds, PTL

(* suspendBySelf never overwrites a task in nextTask_.                      *)
THEOREM NextTaskIsKept == Spec => []NextTaskKept
<1>1. IInv => NextTaskKept
  BY DEF IInv, Owned
<1> QED
  BY <1>1, InvariantHolds, PTL

=============================================================================
