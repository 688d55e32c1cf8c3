----------------------------- MODULE Scheduler -----------------------------
(***************************************************************************)
(* The scheduler: src/coroutine/scheduler.cc, over the processors of       *)
(* module Processor.  addTask hands tasks to the active processors in      *)
(* turn; a balance thread (runBalance) looks at every processor once a     *)
(* second, takes the new tasks of those that are stuck in one task, steals *)
(* from the busiest and gives what it holds to the least busy.             *)
(*                                                                         *)
(* Processors are numbered as in processors_.  bpc is where the balance    *)
(* thread is; cursor is the index of its two loops over processors_; plan  *)
(* lists the processors it still has to steal from or give to, with the    *)
(* number of tasks; hand holds the tasks in blockingTasks or tasks.        *)
(***************************************************************************)
EXTENDS Processor, Integers, FiniteSets

CONSTANTS
    SizeMax,        \* the number of values of size_t
    MaxRounds,      \* bound: how often the balance thread makes its round
    MaxCalls        \* bound: how many calls of addTask are under way at once

ASSUME SchedulerAssumption ==
    /\ IsFiniteSet(Procs) /\ Procs # {} /\ Procs = 0..(Cardinality(Procs) - 1)
    /\ SizeMax \in Nat \ {0}
    /\ MaxRounds \in Nat /\ MaxCalls \in Nat

VARIABLES
    active,         \* Processor::active_
    slice,          \* markSwitch_ = switchCount_? for 100 seconds by now?
    lastActive,     \* lastActiveProcessorIndex_
    calls,          \* calls of addTask that have chosen a processor: what they add, where
    taskCount,      \* taskCount_: the calls of onAdd less those of onErase
    hidden,         \* how many tasks onAdd did not count, as they came in lists
    bpc, cursor, blockings, actives, plan, hand,
    rounds

balanceVars == <<bpc, cursor, blockings, actives, plan, hand, rounds>>
countVars == <<taskCount, hidden>>
schedVars == <<active, slice, lastActive, calls, countVars, balanceVars>>
allVars == <<vars, schedVars>>

N == Cardinality(Procs)

SchedInit ==
    /\ Init
    /\ active = [p \in Procs |-> TRUE]
    /\ slice = [p \in Procs |-> "unmarked"]
    /\ lastActive = 0
    /\ calls = {}
    /\ taskCount = 0 /\ hidden = 0
    /\ bpc = "sleep" /\ cursor = 0 /\ rounds = 0
    /\ blockings = {} /\ actives = <<>> /\ plan = <<>> /\ hand = <<>>

-----------------------------------------------------------------------------
(* addTask: the caller chooses a processor, then adds a task or a list of   *)
(* tasks to it.  If no processor is active they are dropped: nothing        *)
(* happens.                                                                 *)

(* nextTaskAcceptableProcessor *)
Acceptable(i) == active[(lastActive + i) % N]
NextAcceptable == {(lastActive + i) % N : i \in
    {j \in 1..N : Acceptable(j) /\ \A k \in 1..(j - 1) : ~Acceptable(k)}}

(* tasks that no call is about to add *)
Uncalled(ts) ==
    \A t \in ToSet(ts) : state[t] = "NEW" /\ \A c \in calls : t \notin ToSet(c.tasks)

PickProcessor(ts) ==
    /\ Uncalled(ts) /\ Cardinality(calls) < MaxCalls
    /\ \E p \in NextAcceptable :
        /\ lastActive' = p
        /\ calls' = calls \cup {[proc |-> p, tasks |-> ts]}
    /\ UNCHANGED <<vars, active, slice, countVars, balanceVars>>

(* addTask(Task&&) chooses a processor, and calls the overload that does so *)
(* again.                                                                   *)
PickTwice(t) ==
    /\ Uncalled(<<t>>)
    /\ lastActive' \in NextAcceptable
    /\ UNCHANGED <<vars, active, slice, calls, countVars, balanceVars>>

(* onAdd counts a list as one task. *)
AddPicked(c) ==
    /\ AddTask(c.proc, c.tasks)
    /\ taskCount' = taskCount + 1
    /\ hidden' = hidden + Len(c.tasks) - 1
    /\ calls' = calls \ {c}
    /\ UNCHANGED <<active, slice, lastActive, balanceVars>>

-----------------------------------------------------------------------------
(* The processors, seen by the scheduler                                    *)

(* ++switchCount_ whenever a task starts or resumes *)
CountSwitch ==
    slice' = [p \in Procs |-> IF pc[p] # "user" /\ pc'[p] = "user" THEN "unmarked" ELSE slice[p]]

(* SchedulerTaskOpt::onErase; the variant counts every switch *)
CountEraseEach(p) == taskCount' = IF pc[p] = "switch" THEN taskCount - 1 ELSE taskCount
CountErase(p) == taskCount' = IF pc'[p] = "erase" THEN taskCount - 1 ELSE taskCount

ProcessorStep(p) ==
    /\ Process(p) \/ SpuriousWake(p) \/ User(p)
    /\ CountSwitch
    /\ CountErase(p)
    /\ UNCHANGED <<active, lastActive, calls, hidden, balanceVars>>

(* 100 seconds after mark(), in the same task *)
Overdue(p) ==
    /\ slice[p] = "marked"
    /\ slice' = [slice EXCEPT ![p] = "overdue"]
    /\ UNCHANGED <<vars, active, lastActive, calls, countVars, balanceVars>>

IsBlocking(p) == slice[p] = "overdue"
IsWaiting(p) == pc[p] = "waiting"

(* runQue_.size() + newQue_.size() *)
RunnableTaskCount(p) == Len(runQue[p]) + Len(newQue[p])

(* mark() *)
Mark(p) ==
    slice' = [slice EXCEPT ![p] = IF running[p] # NoTask /\ @ = "unmarked" THEN "marked" ELSE @]

-----------------------------------------------------------------------------
(* runBalance: the two loops over processors_                               *)

BalanceStart ==
    /\ bpc = "sleep" /\ rounds < MaxRounds
    /\ rounds' = rounds + 1
    /\ bpc' = "scan" /\ cursor' = 0
    /\ UNCHANGED <<vars, active, slice, lastActive, calls, countVars, blockings, actives, plan, hand>>

(* the end of a turn of the loop: its locals go out of scope *)
BalanceEnd == bpc' = "sleep" /\ blockings' = {} /\ actives' = <<>>

(* cursor moves on; after the last processor the loop is left for l *)
Advance(l) ==
    /\ cursor' = (cursor + 1) % N
    /\ bpc' = IF cursor + 1 = N THEN l ELSE bpc

(* A waiting processor does not count as blocking.  The variant forgets to  *)
(* take a blocking one out of service.                                      *)
ScanKeptActive ==
    /\ bpc = "scan"
    /\ blockings' = IF ~IsWaiting(cursor) /\ IsBlocking(cursor) THEN blockings \cup {cursor} ELSE blockings
    /\ Advance("mark")
    /\ UNCHANGED <<vars, active, slice, lastActive, calls, countVars, actives, plan, hand, rounds>>

Scan ==
    /\ bpc = "scan"
    /\ IF ~IsWaiting(cursor) /\ IsBlocking(cursor)
       THEN /\ blockings' = blockings \cup {cursor}
            /\ active' = [active EXCEPT ![cursor] = FALSE]
       ELSE UNCHANGED <<blockings, active>>
    /\ Advance("mark")
    /\ UNCHANGED <<vars, slice, lastActive, calls, countVars, actives, plan, hand, rounds>>

(* actives.emplace(load, p): a multimap keeps equal loads in the order of   *)
(* their insertion                                                          *)
Emplace(m, load, p) ==
    InsertAt(m, Cardinality({i \in DOMAIN m : m[i].load <= load}) + 1, [load |-> load, proc |-> p])

ScanActive ==
    /\ bpc = "mark"
    /\ IF active[cursor]
       THEN /\ actives' = Emplace(actives, RunnableTaskCount(cursor), cursor)
            /\ Mark(cursor)
            /\ UNCHANGED <<active, lastActive>>
       ELSE /\ IF ~IsBlocking(cursor) \/ IsWaiting(cursor)
               THEN active' = [active EXCEPT ![cursor] = TRUE] /\ lastActive' = cursor
               ELSE UNCHANGED <<active, lastActive>>
            /\ UNCHANGED <<actives, slice>>
    /\ Advance("blocked")
    /\ UNCHANGED <<vars, calls, countVars, blockings, plan, hand, rounds>>

-----------------------------------------------------------------------------
(* balanceBlock and balanceActive, with the loads seen by the two loops     *)

Load(k) == actives[k].load
SumLoads(k) ==
    LET sum[j \in 0..k] == IF j = 0 THEN 0 ELSE sum[j - 1] + Load(j)
    IN sum[k]

(* avg when the k least busy processors share m tasks; the variant counts   *)
(* one processor too many                                                   *)
AverageOffByOne(k, m) == (SumLoads(k) + m) \div (k + 1)
Average(k, m) == (SumLoads(k) + m) \div k

(* The processors from this one on are too busy to get a share of m tasks.  *)
TooBusy(k, m) == Load(k) > Average(k, m)

SizeT(n) == n % SizeMax  \* size_t arithmetic wraps

(* The first processor that is too busy still gets a share, of avg - load   *)
(* which wraps around.                                                      *)
BlockPlan(m) ==
    LET busy == {k \in 1..Len(actives) : TooBusy(k, m)}
        last == IF busy = {} THEN Len(actives) ELSE Min(busy)
        avg == Average(IF busy = {} THEN last ELSE last - 1, m)
    IN [k \in 1..last |-> [proc |-> actives[k].proc, n |-> SizeT(avg - Load(k))]]

(* the steals of balanceActive, busiest first, and its gives *)
StealPlan ==
    LET avg == Average(Len(actives), 0)
    IN [i \in 1..Cardinality({k \in 1..Len(actives) : Load(k) > avg}) |->
           LET k == Len(actives) + 1 - i IN [proc |-> actives[k].proc, n |-> Load(k) - avg]]

GivePlan ==
    LET avg == Average(Len(actives), 0)
    IN [k \in 1..Cardinality({j \in 1..Len(actives) : Load(j) < avg}) |->
           [proc |-> actives[k].proc, n |-> avg - Load(k)]]

(* popFrontBulk, popBackBulk *)
Least(a, b) == IF a < b THEN a ELSE b
FrontBulk(q, n) == SubSeq(q, 1, Least(n, Len(q)))
AfterFront(q, n) == SubSeq(q, Least(n, Len(q)) + 1, Len(q))
BackBulk(q, n) == SubSeq(q, Len(q) - Least(n, Len(q)) + 1, Len(q))
BeforeBack(q, n) == SubSeq(q, 1, Len(q) - Least(n, Len(q)))

(* balanceBlock: steal(0) from every blocking processor, in index order *)
BlockSteal ==
    /\ bpc = "blocked" /\ actives # <<>>
    /\ \E p \in blockings :
        /\ cursor <= p /\ \A q \in blockings : cursor <= q => p <= q
        /\ hand' = hand \o newQue[p]
        /\ newQue' = [newQue EXCEPT ![p] = <<>>]
        /\ cursor' = p + 1
    /\ UNCHANGED <<runQue, taken, torn, loopVars, condVars, taskVars, wakeVars, waitSet>>
    /\ UNCHANGED <<active, slice, lastActive, calls, countVars, bpc, blockings, actives, plan, rounds>>

BlockStolen ==
    /\ bpc = "blocked" /\ actives # <<>>
    /\ \A p \in blockings : p < cursor
    /\ cursor' = 0
    /\ IF hand # <<>>
       THEN bpc' = "blockGive" /\ plan' = BlockPlan(Len(hand))
       ELSE bpc' = "active" /\ UNCHANGED plan
    /\ UNCHANGED <<vars, active, slice, lastActive, calls, countVars, blockings, actives, hand, rounds>>

NoActives ==
    /\ bpc = "blocked" /\ actives = <<>>
    /\ BalanceEnd
    /\ UNCHANGED <<vars, active, slice, lastActive, calls, countVars, cursor, plan, hand, rounds>>

(* processor->addTask(tasks): one onAdd for all of them *)
AddTasks(p, ts) ==
    /\ newQue' = [newQue EXCEPT ![p] = @ \o ts]
    /\ Notify(p)
    /\ taskCount' = taskCount + 1
    /\ UNCHANGED <<runQue, taken, torn, loopVars, taskVars, wakeVars, waitSet>>

(* a turn of the loop that gives *)
Give ==
    /\ bpc \in {"blockGive", "activeGive"} /\ plan # <<>>
    /\ LET in == FrontBulk(hand, Head(plan).n) IN
        IF bpc = "blockGive" /\ in = <<>>
        THEN plan' = <<>> /\ UNCHANGED <<vars, taskCount, hand>>
        ELSE /\ AddTasks(Head(plan).proc, in)
             /\ hand' = AfterFront(hand, Head(plan).n)
             /\ plan' = Tail(plan)
    /\ UNCHANGED <<active, slice, lastActive, calls, hidden, bpc, cursor, blockings, actives, rounds>>

(* what is left goes to the least busy processor; the variant drops it *)
GiveRestDropped ==
    /\ bpc \in {"blockGive", "activeGive"} /\ plan = <<>>
    /\ hand' = <<>>
    /\ IF bpc = "blockGive" THEN bpc' = "active" /\ UNCHANGED <<blockings, actives>> ELSE BalanceEnd
    /\ UNCHANGED <<vars, active, slice, lastActive, calls, countVars, cursor, plan, rounds>>

GiveRest ==
    /\ bpc \in {"blockGive", "activeGive"} /\ plan = <<>>
    /\ IF hand # <<>> THEN AddTasks(actives[1].proc, hand) ELSE UNCHANGED <<vars, taskCount>>
    /\ hand' = <<>>
    /\ IF bpc = "blockGive" THEN bpc' = "active" /\ UNCHANGED <<blockings, actives>> ELSE BalanceEnd
    /\ UNCHANGED <<active, slice, lastActive, calls, hidden, cursor, plan, rounds>>

(* balanceActive: only if some processor has (almost) nothing to do *)
ActiveBegin ==
    /\ bpc = "active"
    /\ IF Load(1) > Average(Len(actives), 0) \div 100
       THEN BalanceEnd /\ UNCHANGED plan
       ELSE bpc' = "stealNew" /\ plan' = StealPlan /\ UNCHANGED <<blockings, actives>>
    /\ UNCHANGED <<vars, active, slice, lastActive, calls, countVars, cursor, hand, rounds>>

(* steal(n): the back of newQue_, then that of runQue_ *)
StealNew ==
    /\ bpc = "stealNew" /\ plan # <<>>
    /\ LET p == Head(plan).proc
           got == BackBulk(newQue[p], Head(plan).n)
       IN /\ newQue' = [newQue EXCEPT ![p] = BeforeBack(@, Head(plan).n)]
          /\ hand' = hand \o got
          /\ IF Len(got) < Head(plan).n
             THEN /\ bpc' = "stealRun"
                  /\ plan' = <<[proc |-> p, n |-> Head(plan).n - Len(got)]>> \o Tail(plan)
             ELSE plan' = Tail(plan) /\ UNCHANGED bpc
    /\ UNCHANGED <<runQue, taken, torn, loopVars, condVars, taskVars, wakeVars, waitSet>>
    /\ UNCHANGED <<active, slice, lastActive, calls, countVars, cursor, blockings, actives, rounds>>

StealRun ==
    /\ bpc = "stealRun"
    /\ LET p == Head(plan).proc IN
        /\ runQue' = [runQue EXCEPT ![p] = BeforeBack(@, Head(plan).n)]
        /\ hand' = hand \o BackBulk(runQue[p], Head(plan).n)
        /\ TouchRunQue(p, NoProc)
    /\ plan' = Tail(plan)
    /\ bpc' = "stealNew"
    /\ UNCHANGED <<newQue, taken, loopVars, condVars, taskVars, wakeVars, waitSet>>
    /\ UNCHANGED <<active, slice, lastActive, calls, countVars, cursor, blockings, actives, rounds>>

Stolen ==
    /\ bpc = "stealNew" /\ plan = <<>>
    /\ IF hand # <<>>
       THEN bpc' = "activeGive" /\ plan' = GivePlan /\ UNCHANGED <<blockings, actives>>
       ELSE BalanceEnd /\ UNCHANGED plan
    /\ UNCHANGED <<vars, active, slice, lastActive, calls, countVars, cursor, hand, rounds>>

-----------------------------------------------------------------------------

Balance ==
    \/ BalanceStart \/ Scan \/ ScanActive
    \/ BlockSteal \/ BlockStolen \/ NoActives
    \/ Give \/ GiveRest
    \/ ActiveBegin \/ StealNew \/ StealRun \/ Stolen

SchedNext ==
    \/ \E ts \in Lists : PickProcessor(ts)
    \/ \E t \in Tasks : PickTwice(t)
    \/ \E c \in calls : AddPicked(c)
    \/ \E p \in Procs : ProcessorStep(p) \/ Overdue(p)
    \/ Balance

SchedSpec == SchedInit /\ [][SchedNext]_allVars

(* ... and with threads that wake up suspended tasks *)
WakeNext ==
    \/ SchedNext
    \/ \E w \in Threads : (WakeLock(w) \/ WakeUp(w)) /\ UNCHANGED schedVars

WakeSpec == SchedInit /\ [][WakeNext]_allVars

-----------------------------------------------------------------------------
(* Properties *)

SchedTypeOK ==
    /\ TypeOK
    /\ active \in [Procs -> BOOLEAN]
    /\ slice \in [Procs -> {"unmarked", "marked", "overdue"}]
    /\ lastActive \in Procs
    /\ calls \subseteq [proc : Procs, tasks : Lists]
    /\ taskCount \in Int /\ hidden \in Nat
    /\ bpc \in {"sleep", "scan", "mark", "blocked", "blockGive", "active",
                "stealNew", "stealRun", "activeGive"}
    /\ cursor \in 0..N
    /\ blockings \subseteq Procs
    /\ actives \in Seq([load : Nat, proc : Procs])
    /\ plan \in Seq([proc : Procs, n : Nat])
    /\ bpc = "stealRun" => plan # <<>>
    /\ hand \in Seq(Tasks)
    /\ rounds \in 0..MaxRounds

(* Balancing neither loses nor duplicates a task: while the balance thread  *)
(* moves tasks between queues that their processors use at the same time,   *)
(* every task that has not ended is in exactly one place, its hands         *)
(* included, and its hands are empty between two rounds.                    *)
InHand(t) == {i \in DOMAIN hand : hand[i] = t}

SchedOneOwner ==
    /\ \A t \in Tasks :
        /\ state[t] \in {"NEW", "DONE", "EXCEPT"} => InHand(t) = {}
        /\ state[t] \in {"READY", "RUNNING"} => Cardinality(Owners(t)) + Cardinality(InHand(t)) = 1
    /\ bpc \in {"sleep", "scan", "mark"} => hand = <<>>

(* The tasks taken from a processor that is stuck in one task go to other   *)
(* processors: in a round, none is both found blocking and given tasks.     *)
NoGiveToBlocked == \A k \in 1..Len(actives) : actives[k].proc \notin blockings

(* The average is taken over the right processors: once each of them has    *)
(* its share, fewer tasks than processors are left over.                    *)
RestIsSmall ==
    bpc \in {"blockGive", "activeGive"} /\ plan = <<>> => Len(hand) < Len(actives)

(* Only tasks added in lists escape the count: taskCount_, which counts a   *)
(* list once, a task that is moved again and every end of a task, never     *)
(* falls further below the number of tasks that exist, as isEmpty() reads   *)
(* it, than by what those lists hid.                                        *)
CountCovers ==
    Cardinality({t \in Tasks : state[t] \in {"READY", "RUNNING", "BLOCK"}}) <= taskCount + hidden

(* The assertions of suspendBySelf hold wherever a task may call Suspend(): *)
(* it is the running task of its processor, and its state is RUNNING.       *)
SuspendAsserts ==
    \A p \in Procs : InUser(p) =>
        LET t == running[p] IN running[processor[t]] = t /\ state[t] = "RUNNING"

=============================================================================
