---------------------------- MODULE ReactorProofs ----------------------------
(***************************************************************************)
(* Proofs about Reactor, for every set of tasks, every set of calls and    *)
(* every number of opens.                                                  *)
(*                                                                         *)
(* NoLostEvent is not inductive: what the reactor thread has fetched may   *)
(* be enough for one vector and not for another that is registered for the *)
(* same events.  NoLostEdge says it event by event, about the kernel's     *)
(* registration only; InterestIsExact brings it back to the entries.       *)
(***************************************************************************)
EXTENDS Reactor, TLAPS

(* An Entry belongs to a call that waits, in the vector of its events. *)
EntryOwner ==
    \A t \in Tasks : \A v \in Vectors :
        t \in entries[v] => pc[t] = "waiting" /\ op[t].want = v

(* event_ is what is registered as long as the element exists; an erased    *)
(* element has no entries, a closed descriptor no registration.             *)
ElementInv ==
    /\ phase \in {"open", "notified"} => interest = event
    /\ phase \in {"erased", "closed"} => event = {} /\ \A v \in Vectors : entries[v] = {}
    /\ phase = "closed" => interest = {}

(* event_ is the union of what the entries wait for, event by event. *)
EventExact ==
    phase = "open" =>
        \A e \in Events : e \in event <=> \E v \in Vectors : entries[v] # {} /\ e \in Asked(v)

(* The reactor thread holds a context only while it has events for it. *)
HeldInv == held # 0 => fetched # {}

(* Every event that is registered and there is about to be reported, or is  *)
(* in the hands of the reactor thread.                                      *)
NoLostEdge ==
    (phase = "open" /\ interest # {}) =>
        \A e \in Reported(interest) :
            queued \/ (held \in {0, gen} /\ e \in fetched)

(* A suspension that is over before its Entry is added has a time limit. *)
SuspendedInv ==
    \A t \in Tasks : (pc[t] \in {"suspended", "adding"} /\ ~fresh[t]) => op[t].timed

IInv ==
    /\ TypeOK /\ EntryOwner /\ ElementInv /\ EventExact /\ HeldInv /\ NoLostEdge
    /\ SuspendedInv /\ NoFalseTimeout /\ NoStrandedWaiter

-----------------------------------------------------------------------------

(* The operators of the model stay within their types. *)
LEMMA Types ==
    /\ Vectors = {{}, {"in"}, {"out"}, {"in", "out"}}
    /\ \A v \in Vectors : Asked(v) \subseteq Events /\ Asked(v) # {} /\ v \subseteq Asked(v)
    /\ NoOp \in Calls
    /\ \A t \in Tasks : \A o \in Ops[t] : o \in Calls
    /\ \A o \in Calls : o.want \in Vectors /\ o.timed \in BOOLEAN /\ o.io \in BOOLEAN
BY ReactorAssumption DEF Vectors, Asked, Events, NoOp, Calls

(* trigger() keeps registered what the vectors it does not concern wait for. *)
LEMMA PromiseMember ==
    ASSUME NEW evs, NEW e
    PROVE  e \in Promise(evs) <=>
            \E v \in Vectors : v \notin Fired(evs) /\ entries[v] # {} /\ e \in Asked(v)
BY DEF Promise

(* The initial states satisfy the invariant. *)
LEMMA InitIInv == Init => IInv
<1> SUFFICES ASSUME Init PROVE IInv
  OBVIOUS
<1> USE ReactorAssumption DEF Init
<1>1. TypeOK
  <2>1. NoOp \in Calls /\ 0 \in 0..MaxOpens /\ 1 \in 1..MaxOpens
    BY Types
  <2>2. op \in [Tasks -> Calls] /\ ptr \in [Tasks -> 0..MaxOpens]
    BY <2>1
  <2>3. pc \in [Tasks -> {"idle", "suspended", "adding", "waiting", "io"}]
    OBVIOUS
  <2>4. /\ entries \in [Vectors -> SUBSET (Tasks \cup {Expired})]
        /\ revents \in [Tasks -> SUBSET (Events \cup {"nval"})]
    OBVIOUS
  <2> QED
    BY <2>1, <2>2, <2>3, <2>4 DEF TypeOK, Phases
<1>2. EntryOwner /\ ElementInv /\ HeldInv /\ NoLostEdge
  BY DEF EntryOwner, ElementInv, HeldInv, NoLostEdge
<1>3. EventExact
  BY DEF EventExact
<1>4. SuspendedInv /\ NoFalseTimeout /\ NoStrandedWaiter
  BY DEF SuspendedInv, NoFalseTimeout, NoStrandedWaiter
<1> QED
  BY <1>1, <1>2, <1>3, <1>4 DEF IInv

(* Every step keeps every variable in its type. *)
LEMMA NextTypeOK == TypeOK /\ [Next]_vars => TypeOK'
<1> SUFFICES ASSUME TypeOK, [Next]_vars PROVE TypeOK'
  OBVIOUS
<1> USE ReactorAssumption, Types DEF TypeOK, fdVars, elemVars, kernVars, loopVars, callVars
<1>1. Get \in 0..MaxOpens
  BY DEF Get
<1>2. ASSUME NEW evs \in SUBSET (Events \cup {"nval"}), WakeEntries(evs)
      PROVE /\ entries' \in [Vectors -> SUBSET (Tasks \cup {Expired})]
            /\ revents' \in [Tasks -> SUBSET (Events \cup {"nval"})]
            /\ fresh' \in [Tasks -> BOOLEAN]
  <2>1. entries' \in [Vectors -> SUBSET (Tasks \cup {Expired})]
    BY <1>2 DEF WakeEntries
  <2>2. revents' \in [Tasks -> SUBSET (Events \cup {"nval"})]
    BY <1>2 DEF WakeEntries
  <2>3. fresh' \in [Tasks -> BOOLEAN]
    BY <1>2 DEF WakeEntries
  <2> QED
    BY <2>1, <2>2, <2>3
<1>3. CASE EpollWait
  BY <1>3 DEF EpollWait, Reported
<1>4. CASE RunGet
  BY <1>1, <1>4 DEF RunGet
<1>5. CASE RunTrigger
  <2>1. Promise(fetched) \subseteq Events
    <3>1. ASSUME NEW e \in Promise(fetched) PROVE e \in Events
      <4>1. PICK v \in Vectors : e \in Asked(v)
        BY <3>1, PromiseMember
      <4> QED
        BY <4>1
    <3> QED
      BY <3>1
  <2>2. event' \subseteq Events /\ interest' \subseteq Events
    BY <1>5, <2>1 DEF RunTrigger, DelEvent, EpollDel, EpollSet
  <2>3. queued' \in BOOLEAN
    BY <1>5, Zenon DEF RunTrigger, DelEvent, EpollDel, EpollSet
  <2> QED
    BY <1>2, <1>5, <2>2, <2>3 DEF RunTrigger
<1>6. CASE RunTriggerFreed
  BY <1>6 DEF RunTriggerFreed
<1>7. ASSUME NEW t \in Tasks, NEW o \in Ops[t], CallReady(t, o) \/ CallSuspend(t, o)
      PROVE TypeOK'
  <2>1. o \in Calls
    OBVIOUS
  <2>2. op' \in [Tasks -> Calls]
    BY <1>7, <2>1 DEF CallReady, CallSuspend
  <2>3. /\ pc' \in [Tasks -> {"idle", "suspended", "adding", "waiting", "io"}]
        /\ fresh' \in [Tasks -> BOOLEAN]
    BY <1>7 DEF CallReady, CallSuspend
  <2> QED
    BY <1>7, <2>2, <2>3 DEF CallReady, CallSuspend
<1>8. ASSUME NEW t \in Tasks, PollGet(t) PROVE TypeOK'
  <2>1. pc' \in [Tasks -> {"idle", "suspended", "adding", "waiting", "io"}]
    BY <1>8 DEF PollGet, AddFails
  <2>2. fresh' \in [Tasks -> BOOLEAN]
    <3>1. CASE Get = 0
      <4>1. fresh' = [fresh EXCEPT ![t] = FALSE]
        BY <1>8, <3>1, Zenon DEF PollGet, AddFails
      <4> QED
        BY <4>1
    <3>2. CASE Get # 0
      BY <1>8, <3>2 DEF PollGet
    <3> QED
      BY <3>1, <3>2
  <2>3. revents' \in [Tasks -> SUBSET (Events \cup {"nval"})]
    <3>1. CASE Get = 0
      BY <1>8, <3>1 DEF PollGet, AddFails
    <3>2. CASE Get # 0
      BY <1>8, <3>2 DEF PollGet
    <3> QED
      BY <3>1, <3>2
  <2>4. ptr' \in [Tasks -> 0..MaxOpens]
    BY <1>1, <1>8 DEF PollGet
  <2> QED
    BY <1>8, <2>1, <2>2, <2>3, <2>4 DEF PollGet
<1>9. ASSUME NEW t \in Tasks, PollAdd(t) PROVE TypeOK'
  <2>1. op[t].want \in Vectors
    OBVIOUS
  <2>2. entries' \in [Vectors -> SUBSET (Tasks \cup {Expired})]
    <3>1. Unexpired(entries[op[t].want]) \cup {t} \subseteq Tasks \cup {Expired}
      BY DEF Unexpired
    <3> QED
      BY <1>9, <2>1, <3>1 DEF PollAdd
  <2>3. event' \subseteq Events /\ interest' \subseteq Events
    <3>1. event \cup Asked(op[t].want) \subseteq Events
      BY <2>1
    <3> QED
      BY <1>9, <3>1 DEF PollAdd, EpollSet
  <2>4. queued' \in BOOLEAN
    BY <1>9, Zenon DEF PollAdd, EpollSet
  <2> QED
    BY <1>9, <2>2, <2>3, <2>4 DEF PollAdd
<1>10. ASSUME NEW t \in Tasks, PollAddFails(t) PROVE TypeOK'
  <2>1. op[t].want \in Vectors
    OBVIOUS
  <2>2. entries' \in [Vectors -> SUBSET (Tasks \cup {Expired})]
    BY <1>10, <2>1 DEF PollAddFails, Unexpired
  <2> QED
    BY <1>10, <2>2 DEF PollAddFails, AddFails
<1>11. ASSUME NEW t \in Tasks, PollAddFreed(t) \/ Timeout(t) PROVE TypeOK'
  BY <1>11 DEF PollAddFreed, Timeout
<1>12. ASSUME NEW t \in Tasks, PollReturn(t) PROVE TypeOK'
  <2>1. op[t].want \in Vectors
    OBVIOUS
  <2>2. entries' \in [Vectors -> SUBSET (Tasks \cup {Expired})]
    BY <1>12, <2>1 DEF PollReturn
  <2>3. op' \in [Tasks -> Calls]
    BY <1>12 DEF PollReturn
  <2>4. pc' \in [Tasks -> {"idle", "suspended", "adding", "waiting", "io"}]
    BY <1>12 DEF PollReturn
  <2> QED
    BY <1>12, <2>2, <2>3, <2>4 DEF PollReturn
<1>13. ASSUME NEW t \in Tasks, IoReturn(t) PROVE TypeOK'
  BY <1>13 DEF IoReturn
<1>14. CASE CloseNotify
  BY <1>2, <1>14 DEF CloseNotify, Phases
<1>15. CASE CloseErase
  BY <1>15 DEF CloseErase, Phases
<1>16. CASE CloseFd
  BY <1>16 DEF CloseFd, EpollDel, Phases
<1>17. CASE Open
  BY <1>17 DEF Open, Phases
<1>18. ASSUME NEW e \in Events, Arrive(e) PROVE TypeOK'
  BY <1>18 DEF Arrive
<1>19. CASE UNCHANGED vars
  BY <1>19 DEF vars
<1> QED
  BY <1>3, <1>4, <1>5, <1>6, <1>7, <1>8, <1>9, <1>10, <1>11, <1>12, <1>13, <1>14,
     <1>15, <1>16, <1>17, <1>18, <1>19 DEF Next, ReactorThread, Poll, Closer

(* Entries are added by waiting calls, and a call leaves its vector when it *)
(* returns.                                                                 *)
LEMMA NextEntryOwner == TypeOK /\ EntryOwner /\ [Next]_vars => EntryOwner'
<1> SUFFICES ASSUME TypeOK, EntryOwner, [Next]_vars,
                    NEW t \in Tasks, NEW v \in Vectors, t \in entries'[v]
             PROVE  pc'[t] = "waiting" /\ op'[t].want = v
  BY DEF EntryOwner
<1> USE Types DEF fdVars, elemVars, kernVars, loopVars, callVars
<1>e. entries \in [Vectors -> SUBSET (Tasks \cup {Expired})]
  BY DEF TypeOK
<1>f. /\ pc \in [Tasks -> {"idle", "suspended", "adding", "waiting", "io"}]
      /\ op \in [Tasks -> Calls]
  BY DEF TypeOK
<1>k. t \in entries[v] => pc[t] = "waiting" /\ op[t].want = v
  BY DEF EntryOwner
<1>1. ASSUME entries' = entries, UNCHANGED <<pc, op>> PROVE pc'[t] = "waiting" /\ op'[t].want = v
  BY <1>1, <1>k
<1>2. ASSUME NEW evs, WakeEntries(evs), UNCHANGED <<pc, op>>
      PROVE pc'[t] = "waiting" /\ op'[t].want = v
  <2>1. t \in entries[v]
    BY <1>2 DEF WakeEntries
  <2> QED
    BY <1>2, <2>1, <1>k
<1>3. ASSUME NEW u \in Tasks, NEW o \in Ops[u], CallReady(u, o) \/ CallSuspend(u, o)
      PROVE pc'[t] = "waiting" /\ op'[t].want = v
  BY <1>3, <1>e, <1>f, <1>k DEF CallReady, CallSuspend
<1>4. ASSUME NEW u \in Tasks, PollGet(u) PROVE pc'[t] = "waiting" /\ op'[t].want = v
  BY <1>4, <1>f, <1>k DEF PollGet, AddFails
<1>5. ASSUME NEW u \in Tasks, PollAdd(u) PROVE pc'[t] = "waiting" /\ op'[t].want = v
  <2>1. op[u].want \in Vectors
    BY <1>f
  <2>2. op' = op /\ pc' = [pc EXCEPT ![u] = "waiting"]
    BY <1>5 DEF PollAdd
  <2>3. t \in entries[v] \/ (t = u /\ v = op[u].want)
    BY <1>5, <1>e, <2>1 DEF PollAdd, Unexpired
  <2> QED
    BY <1>f, <1>k, <2>2, <2>3
<1>6. ASSUME NEW u \in Tasks, PollAddFails(u) PROVE pc'[t] = "waiting" /\ op'[t].want = v
  <2>1. t \in entries[v]
    BY <1>6, <1>e, <1>f DEF PollAddFails, Unexpired
  <2> QED
    BY <1>6, <1>f, <1>k, <2>1 DEF PollAddFails, AddFails
<1>7. ASSUME NEW u \in Tasks, PollReturn(u) PROVE pc'[t] = "waiting" /\ op'[t].want = v
  <2>1. op[u].want \in Vectors
    BY <1>f
  <2>2. t \in entries[v] /\ ~(t = u /\ v = op[u].want)
    BY <1>7, <1>e, <2>1, ReactorAssumption DEF PollReturn
  <2>3. t # u
    BY <1>k, <2>2
  <2>4. pc'[t] = pc[t] /\ op'[t] = op[t]
    BY <1>7, <1>f, <2>3 DEF PollReturn
  <2> QED
    BY <1>k, <2>2, <2>4
<1>8. ASSUME NEW u \in Tasks, IoReturn(u) PROVE pc'[t] = "waiting" /\ op'[t].want = v
  BY <1>8, <1>f, <1>k DEF IoReturn
<1>9. ASSUME NEW u \in Tasks, PollAddFreed(u) \/ Timeout(u)
      PROVE pc'[t] = "waiting" /\ op'[t].want = v
  BY <1>9, <1>1 DEF PollAddFreed, Timeout
<1>10. CASE ReactorThread
  BY <1>10, <1>1, <1>2 DEF ReactorThread, EpollWait, RunGet, RunTrigger, RunTriggerFreed
<1>11. CASE Closer
  <2>1. CASE CloseNotify
    BY <2>1, <1>2 DEF CloseNotify
  <2>2. CASE CloseErase
    BY <2>2 DEF CloseErase
  <2>3. CASE CloseFd \/ Open
    BY <2>3, <1>1 DEF CloseFd, Open
  <2> QED
    BY <1>11, <2>1, <2>2, <2>3 DEF Closer
<1>12. ASSUME NEW e \in Events, Arrive(e) PROVE pc'[t] = "waiting" /\ op'[t].want = v
  BY <1>12, <1>1 DEF Arrive
<1>13. CASE UNCHANGED vars
  BY <1>13, <1>1 DEF vars
<1> QED
  BY <1>3, <1>4, <1>5, <1>6, <1>7, <1>8, <1>9, <1>10, <1>11, <1>12, <1>13 DEF Next, Poll

(* epoll_ctl never fails while the element exists, but for lack of          *)
(* resources: event_ follows the registration.                              *)
LEMMA NextElementInv == TypeOK /\ ElementInv /\ [Next]_vars => ElementInv'
<1> SUFFICES ASSUME TypeOK, ElementInv, [Next]_vars PROVE ElementInv'
  OBVIOUS
<1> USE DEF ElementInv, fdVars, elemVars, kernVars, loopVars, callVars
<1>1. CASE EpollWait \/ RunGet \/ RunTriggerFreed
  BY <1>1 DEF EpollWait, RunGet, RunTriggerFreed
<1>2. CASE RunTrigger
  <2>1. phase \in {"open", "notified"} /\ phase' = phase
    BY <1>2 DEF RunTrigger, Alive
  <2>2. interest' = event'
    BY <1>2, <2>1 DEF RunTrigger, DelEvent, EpollDel, EpollSet
  <2> QED
    BY <2>1, <2>2
<1>3. ASSUME NEW t \in Tasks, NEW o \in Ops[t], CallReady(t, o) \/ CallSuspend(t, o)
      PROVE ElementInv'
  BY <1>3 DEF CallReady, CallSuspend
<1>4. ASSUME NEW t \in Tasks, PollGet(t) \/ PollAddFreed(t) \/ Timeout(t) \/ IoReturn(t)
      PROVE ElementInv'
  BY <1>4 DEF PollGet, PollAddFreed, Timeout, IoReturn
<1>5. ASSUME NEW t \in Tasks, PollAdd(t) PROVE ElementInv'
  <2>1. phase \in {"open", "notified"} /\ phase' = phase
    BY <1>5 DEF PollAdd, Alive
  <2>2. interest' = event'
    BY <1>5, <2>1 DEF PollAdd, EpollSet
  <2> QED
    BY <2>1, <2>2
<1>6. ASSUME NEW t \in Tasks, PollAddFails(t) PROVE ElementInv'
  BY <1>6 DEF PollAddFails, Alive
<1>7. ASSUME NEW t \in Tasks, PollReturn(t) PROVE ElementInv'
  <2>1. UNCHANGED <<phase, event, interest>>
    BY <1>7 DEF PollReturn
  <2>2. ASSUME phase \in {"erased", "closed"}, NEW v \in Vectors PROVE entries'[v] = {}
    BY <1>7, <2>2 DEF PollReturn, TypeOK
  <2> QED
    BY <2>1, <2>2
<1>8. CASE CloseNotify \/ Open
  BY <1>8 DEF CloseNotify, Open
<1>9. CASE CloseErase
  BY <1>9 DEF CloseErase
<1>10. CASE CloseFd
  BY <1>10 DEF CloseFd, EpollDel
<1>11. ASSUME NEW e \in Events, Arrive(e) PROVE ElementInv'
  BY <1>11 DEF Arrive
<1>12. CASE UNCHANGED vars
  BY <1>12 DEF vars
<1> QED
  BY <1>1, <1>2, <1>3, <1>4, <1>5, <1>6, <1>7, <1>8, <1>9, <1>10, <1>11, <1>12
     DEF Next, ReactorThread, Poll, Closer

(* trigger() leaves exactly the events of the remaining entries in event_,  *)
(* add() adds those of the new one, and an Entry that expires stays in its  *)
(* vector until the next add() or trigger().                                *)
LEMMA NextEventExact == TypeOK /\ ElementInv /\ EventExact /\ [Next]_vars => EventExact'
<1> SUFFICES ASSUME TypeOK, ElementInv, EventExact, [Next]_vars, phase' = "open", NEW e \in Events
             PROVE  e \in event' <=> \E v \in Vectors : entries'[v] # {} /\ e \in Asked(v)
  BY DEF EventExact
<1> DEFINE Exact == e \in event <=> \E v \in Vectors : entries[v] # {} /\ e \in Asked(v)
<1> USE Types DEF fdVars, elemVars, kernVars, loopVars, callVars
<1>e. entries \in [Vectors -> SUBSET (Tasks \cup {Expired})]
  BY DEF TypeOK
<1>w. \A u \in Tasks : op[u].want \in Vectors
  BY DEF TypeOK
<1>k. phase = "open" => Exact
  BY DEF EventExact
<1>1. ASSUME phase = "open", UNCHANGED elemVars PROVE Exact'
  BY <1>1, <1>k
<1>2. CASE RunTrigger
  <2>1. phase = "open" /\ interest = event
    BY <1>2 DEF RunTrigger, ElementInv
  <2>2. \A v \in Vectors : entries'[v] # {} <=> v \notin Fired(fetched) /\ entries[v] # {}
    BY <1>2 DEF RunTrigger, WakeEntries
  <2>3. e \in Promise(fetched) <=> \E v \in Vectors : entries'[v] # {} /\ e \in Asked(v)
    BY <2>2, PromiseMember
  <2>4. CASE Promise(fetched) = event \/ interest # {}
    BY <1>2, <2>3, <2>4 DEF RunTrigger, DelEvent
  <2>5. CASE Promise(fetched) # event /\ interest = {}
    <3>1. PICK x : x \in Promise(fetched)
      BY <2>1, <2>5
    <3>2. PICK v \in Vectors : entries[v] # {} /\ x \in Asked(v)
      BY <3>1, PromiseMember
    <3>3. x \in Events
      BY <3>2
    <3>4. x \in event
      BY <2>1, <3>2, <3>3 DEF EventExact
    <3> QED
      BY <2>1, <2>5, <3>4
  <2> QED
    BY <2>4, <2>5
<1>3. ASSUME NEW t \in Tasks, PollAdd(t) PROVE Exact'
  <2>1. phase = "open"
    BY <1>3 DEF PollAdd
  <2>2. \A v \in Vectors : entries'[v] # {} <=> v = op[t].want \/ entries[v] # {}
    BY <1>3, <1>e, <1>w DEF PollAdd
  <2>3. event' = event \cup Asked(op[t].want)
    BY <1>3 DEF PollAdd
  <2> QED
    BY <1>k, <1>w, <2>1, <2>2, <2>3
<1>4. ASSUME NEW t \in Tasks, PollAddFails(t) PROVE Exact'
  <2>1. phase = "open" /\ event = {} /\ event' = {}
    BY <1>4 DEF PollAddFails, ElementInv
  <2>2. \A v \in Vectors : entries[v] = {}
    BY <2>1 DEF EventExact
  <2>3. \A v \in Vectors : entries'[v] = {}
    BY <1>4, <1>e, <1>w, <2>2 DEF PollAddFails, Unexpired
  <2> QED
    BY <2>1, <2>3
<1>5. ASSUME NEW t \in Tasks, PollReturn(t) PROVE Exact'
  <2>1. phase = "open" /\ event' = event
    BY <1>5 DEF PollReturn
  <2>2. \A v \in Vectors : entries'[v] # {} <=> entries[v] # {}
    BY <1>5, <1>e, <1>w DEF PollReturn
  <2> QED
    BY <1>k, <2>1, <2>2
<1>6. CASE EpollWait \/ RunGet \/ RunTriggerFreed
  BY <1>6, <1>1 DEF EpollWait, RunGet, RunTriggerFreed
<1>7. ASSUME NEW t \in Tasks, NEW o \in Ops[t], CallReady(t, o) \/ CallSuspend(t, o)
      PROVE Exact'
  BY <1>7, <1>1 DEF CallReady, CallSuspend
<1>8. ASSUME NEW t \in Tasks, PollGet(t) \/ PollAddFreed(t) \/ Timeout(t) \/ IoReturn(t)
      PROVE Exact'
  BY <1>8, <1>1 DEF PollGet, PollAddFreed, Timeout, IoReturn
<1>9. CASE Open
  BY <1>9 DEF Open, ElementInv
<1>10. ASSUME NEW x \in Events, Arrive(x) PROVE Exact'
  BY <1>10, <1>1 DEF Arrive
<1>11. CASE UNCHANGED vars
  BY <1>11, <1>1 DEF vars
<1>12. CASE CloseNotify \/ CloseErase \/ CloseFd
  BY <1>12 DEF CloseNotify, CloseErase, CloseFd
<1> QED
  BY <1>2, <1>3, <1>4, <1>5, <1>6, <1>7, <1>8, <1>9, <1>10, <1>11, <1>12
     DEF Next, ReactorThread, Poll, Closer

(* The reactor thread never looks a context up for nothing. *)
LEMMA NextHeldInv == HeldInv /\ [Next]_vars => HeldInv'
<1> SUFFICES ASSUME HeldInv, [Next]_vars PROVE HeldInv'
  OBVIOUS
<1> USE DEF HeldInv, fdVars, elemVars, kernVars, loopVars, callVars
<1>1. CASE ReactorThread
  BY <1>1 DEF ReactorThread, EpollWait, RunGet, RunTrigger, RunTriggerFreed
<1>2. ASSUME NEW t \in Tasks, NEW o \in Ops[t], CallReady(t, o) \/ CallSuspend(t, o)
      PROVE HeldInv'
  BY <1>2 DEF CallReady, CallSuspend
<1>3. ASSUME NEW t \in Tasks, Poll(t) \/ Timeout(t) \/ IoReturn(t) PROVE HeldInv'
  BY <1>3 DEF Poll, PollGet, PollAdd, PollAddFails, PollAddFreed, PollReturn, Timeout, IoReturn
<1>4. CASE Closer
  BY <1>4 DEF Closer, CloseNotify, CloseErase, CloseFd, Open
<1>5. ASSUME NEW e \in Events, Arrive(e) PROVE HeldInv'
  BY <1>5 DEF Arrive
<1>6. CASE UNCHANGED vars
  BY <1>6 DEF vars
<1> QED
  BY <1>1, <1>2, <1>3, <1>4, <1>5, <1>6 DEF Next

(* No edge slips: epoll_ctl looks at the readiness again whenever the       *)
(* registration changes, and a trigger that leaves it unchanged has woken   *)
(* nobody whose event it carried.                                           *)
LEMMA NextNoLostEdge ==
    TypeOK /\ ElementInv /\ EventExact /\ HeldInv /\ NoLostEdge /\ [Next]_vars => NoLostEdge'
<1> SUFFICES ASSUME TypeOK, ElementInv, EventExact, HeldInv, NoLostEdge, [Next]_vars,
                    phase' = "open", NEW e \in ready', e \in interest' \/ e = "err",
                    interest' # {}
             PROVE  queued' \/ (held' \in {0, gen'} /\ e \in fetched')
  BY DEF NoLostEdge, Reported
<1> DEFINE Kept == queued \/ (held \in {0, gen} /\ e \in fetched)
<1> USE DEF fdVars, elemVars, kernVars, loopVars, callVars
<1>k. ASSUME phase = "open", interest # {}, e \in ready, e \in interest \/ e = "err" PROVE Kept
  BY <1>k DEF NoLostEdge, Reported
<1>1. ASSUME phase = "open", UNCHANGED <<gen, kernVars, loopVars>>, ready' \subseteq ready
      PROVE Kept'
  BY <1>1, <1>k
<1>2. CASE EpollWait
  <2>1. held = 0
    BY <1>2 DEF EpollWait, HeldInv
  <2> QED
    BY <1>2, <2>1 DEF EpollWait, Reported
<1>3. CASE RunGet
  <2>1. phase = "open" /\ UNCHANGED <<gen, kernVars, ready>>
    BY <1>3 DEF RunGet
  <2>2. Get = gen /\ gen # 0
    BY <2>1, ReactorAssumption DEF Get, TypeOK
  <2>3. held' = gen /\ fetched' = fetched
    BY <1>3, <2>2 DEF RunGet
  <2> QED
    BY <1>k, <2>1, <2>3
<1>4. CASE RunTrigger
  <2>1. phase = "open" /\ interest = event /\ ready' = ready
    BY <1>4 DEF RunTrigger, ElementInv
  <2>2. CASE Promise(fetched) # event /\ interest # {}
    <3>1. event' = Promise(fetched)
      BY <1>4, <2>2 DEF RunTrigger, DelEvent
    <3>2. Promise(fetched) # {}
      BY <1>4, <2>2 DEF RunTrigger, DelEvent, EpollDel
    <3>3. interest' = Promise(fetched) /\ queued' = (queued \/ Reported(Promise(fetched)) # {})
      BY <1>4, <2>2, <3>2 DEF RunTrigger, DelEvent, EpollSet
    <3> QED
      BY <2>1, <3>3 DEF Reported
  <2>3. CASE Promise(fetched) = event /\ interest # {}
    <3>1. interest' = interest /\ queued' = queued
      BY <1>4, <2>3 DEF RunTrigger, DelEvent
    <3>2. Kept
      BY <1>k, <2>1, <2>3, <3>1
    <3>3. e \notin fetched
      <4>1. SUFFICES ASSUME e \in fetched PROVE FALSE
        OBVIOUS
      <4>2. CASE e = "err"
        <5>1. Fired(fetched) = Vectors
          BY <4>1, <4>2 DEF Fired, Check
        <5>2. PICK x : x \in Promise(fetched)
          BY <2>1, <2>3
        <5> QED
          BY <5>1, <5>2, PromiseMember
      <4>3. CASE e # "err"
        <5>1. e \in Promise(fetched)
          BY <2>1, <2>3, <3>1, <4>3
        <5>2. PICK v \in Vectors : v \notin Fired(fetched) /\ e \in Asked(v)
          BY <5>1, PromiseMember
        <5>3. e \in v
          BY <4>3, <5>2 DEF Asked
        <5> QED
          BY <4>1, <5>2, <5>3 DEF Fired, Check
      <4> QED
        BY <4>2, <4>3
    <3> QED
      BY <3>1, <3>2, <3>3
  <2>4. CASE interest = {}
    BY <1>4, <2>4 DEF RunTrigger, DelEvent
  <2> QED
    BY <2>2, <2>3, <2>4
<1>5. ASSUME NEW t \in Tasks, PollAdd(t) PROVE Kept'
  <2>1. UNCHANGED <<phase, gen, ready, loopVars>>
    BY <1>5 DEF PollAdd
  <2>2. CASE UNCHANGED kernVars
    BY <1>1, <2>1, <2>2
  <2>3. CASE EpollSet(event \cup Asked(op[t].want))
    BY <2>1, <2>3 DEF EpollSet, Reported
  <2> QED
    BY <1>5, <2>2, <2>3 DEF PollAdd
<1>6. CASE RunTriggerFreed
  BY <1>6, <1>1 DEF RunTriggerFreed
<1>7. ASSUME NEW t \in Tasks, NEW o \in Ops[t], CallReady(t, o) \/ CallSuspend(t, o)
      PROVE Kept'
  BY <1>7, <1>1 DEF CallReady, CallSuspend
<1>8. ASSUME NEW t \in Tasks, PollGet(t) \/ PollAddFails(t) \/ PollAddFreed(t) \/ PollReturn(t)
      PROVE Kept'
  BY <1>8, <1>1 DEF PollGet, PollAddFails, PollAddFreed, PollReturn
<1>9. ASSUME NEW t \in Tasks, Timeout(t) \/ IoReturn(t) PROVE Kept'
  <2>1. phase = "open" /\ UNCHANGED <<gen, kernVars, loopVars>> /\ ready' \subseteq ready
    BY <1>9 DEF Timeout, IoReturn
  <2> QED
    BY <1>1, <2>1
<1>10. CASE Open
  BY <1>10 DEF Open, ElementInv
<1>11. ASSUME NEW x \in Events, Arrive(x) PROVE Kept'
  <2>1. phase = "open" /\ UNCHANGED <<gen, loopVars, interest>>
    BY <1>11 DEF Arrive
  <2>2. ready' = ready \cup {x} /\ queued' = (queued \/ (interest # {} /\ x \in interest \cup {"err"}))
    BY <1>11 DEF Arrive
  <2>3. CASE e = x
    BY <2>1, <2>2, <2>3
  <2>4. CASE e # x
    BY <1>k, <2>1, <2>2, <2>4
  <2> QED
    BY <2>3, <2>4
<1>12. CASE UNCHANGED vars
  BY <1>12, <1>1 DEF vars
<1>13. CASE CloseNotify \/ CloseErase \/ CloseFd
  BY <1>13 DEF CloseNotify, CloseErase, CloseFd
<1> QED
  BY <1>2, <1>3, <1>4, <1>5, <1>6, <1>7, <1>8, <1>9, <1>10, <1>11, <1>12, <1>13
     DEF Next, ReactorThread, Poll, Closer

(* A task is woken before its Entry is added by its time limit only. *)
LEMMA NextSuspendedInv == TypeOK /\ EntryOwner /\ SuspendedInv /\ [Next]_vars => SuspendedInv'
<1> SUFFICES ASSUME TypeOK, EntryOwner, SuspendedInv, [Next]_vars, NEW t \in Tasks,
                    pc'[t] \in {"suspended", "adding"}, ~fresh'[t]
             PROVE  op'[t].timed
  BY DEF SuspendedInv
<1> USE DEF fdVars, elemVars, kernVars, loopVars, callVars
<1>f. /\ pc \in [Tasks -> {"idle", "suspended", "adding", "waiting", "io"}]
      /\ op \in [Tasks -> Calls] /\ fresh \in [Tasks -> BOOLEAN]
  BY DEF TypeOK
<1>k. pc[t] \in {"suspended", "adding"} /\ ~fresh[t] => op[t].timed
  BY DEF SuspendedInv
<1>1. ASSUME UNCHANGED <<pc, op, fresh>> PROVE op'[t].timed
  BY <1>1, <1>k
<1>2. ASSUME NEW evs, WakeEntries(evs), UNCHANGED <<pc, op>> PROVE op'[t].timed
  <2>1. \A v \in Vectors : t \notin entries[v]
    BY <1>2 DEF EntryOwner
  <2>2. t \notin Woken(evs)
    BY <2>1 DEF Woken, Fired
  <2>3. fresh'[t] = (fresh[t] /\ t \notin Woken(evs))
    BY <1>2, Zenon DEF WakeEntries
  <2> QED
    BY <1>2, <1>k, <2>2, <2>3
<1>3. ASSUME NEW u \in Tasks, NEW o \in Ops[u], CallReady(u, o) \/ CallSuspend(u, o)
      PROVE op'[t].timed
  BY <1>3, <1>f, <1>k DEF CallReady, CallSuspend
<1>4. ASSUME NEW u \in Tasks, PollGet(u) PROVE op'[t].timed
  <2>1. t # u => pc'[t] = pc[t] /\ fresh'[t] = fresh[t]
    BY <1>4, <1>f DEF PollGet, AddFails
  <2>2. t = u => pc[t] = "suspended" /\ fresh'[t] = fresh[t]
    BY <1>4, <1>f DEF PollGet, AddFails
  <2>3. op' = op
    BY <1>4 DEF PollGet
  <2> QED
    BY <1>k, <2>1, <2>2, <2>3
<1>5. ASSUME NEW u \in Tasks, PollAdd(u) \/ PollAddFails(u) PROVE op'[t].timed
  <2>1. t # u /\ pc'[t] = pc[t] /\ fresh'[t] = fresh[t] /\ op' = op
    BY <1>5, <1>f DEF PollAdd, PollAddFails, AddFails
  <2> QED
    BY <1>k, <2>1
<1>6. ASSUME NEW u \in Tasks, PollAddFreed(u) PROVE op'[t].timed
  BY <1>6, <1>1 DEF PollAddFreed
<1>7. ASSUME NEW u \in Tasks, PollReturn(u) \/ IoReturn(u) PROVE op'[t].timed
  <2>1. t # u /\ pc'[t] = pc[t] /\ op'[t] = op[t] /\ fresh' = fresh
    BY <1>7, <1>f DEF PollReturn, IoReturn
  <2> QED
    BY <1>k, <2>1
<1>8. ASSUME NEW u \in Tasks, Timeout(u) PROVE op'[t].timed
  BY <1>8, <1>f, <1>k DEF Timeout
<1>9. CASE ReactorThread
  BY <1>9, <1>1, <1>2 DEF ReactorThread, EpollWait, RunGet, RunTrigger, RunTriggerFreed
<1>10. CASE Closer
  BY <1>10, <1>1, <1>2 DEF Closer, CloseNotify, CloseErase, CloseFd, Open
<1>11. ASSUME NEW e \in Events, Arrive(e) PROVE op'[t].timed
  BY <1>11, <1>1 DEF Arrive
<1>12. CASE UNCHANGED vars
  BY <1>12, <1>1 DEF vars
<1> QED
  BY <1>3, <1>4, <1>5, <1>6, <1>7, <1>8, <1>9, <1>10, <1>11, <1>12 DEF Next, Poll

(* Whoever is woken by trigger(), or wakes itself, finds an event set. *)
LEMMA NextNoFalseTimeout ==
    TypeOK /\ EntryOwner /\ SuspendedInv /\ NoFalseTimeout /\ [Next]_vars => NoFalseTimeout'
<1> SUFFICES ASSUME TypeOK, EntryOwner, SuspendedInv, NoFalseTimeout, [Next]_vars,
                    NEW t \in Tasks, pc'[t] = "waiting", ~fresh'[t], revents'[t] = {}
             PROVE  op'[t].timed
  BY DEF NoFalseTimeout
<1> USE DEF fdVars, elemVars, kernVars, loopVars, callVars
<1>f. /\ pc \in [Tasks -> {"idle", "suspended", "adding", "waiting", "io"}]
      /\ op \in [Tasks -> Calls] /\ fresh \in [Tasks -> BOOLEAN]
      /\ revents \in [Tasks -> SUBSET (Events \cup {"nval"})]
  BY DEF TypeOK
<1>k. pc[t] = "waiting" /\ ~fresh[t] /\ revents[t] = {} => op[t].timed
  BY DEF NoFalseTimeout
<1>1. ASSUME UNCHANGED <<pc, op, fresh, revents>> PROVE op'[t].timed
  BY <1>1, <1>k
<1>2. ASSUME NEW evs, WakeEntries(evs), UNCHANGED <<pc, op>> PROVE op'[t].timed
  <2>1. fresh'[t] = (fresh[t] /\ t \notin Woken(evs))
    BY <1>2, Zenon DEF WakeEntries
  <2>2. revents'[t] = IF t \in Woken(evs) THEN evs \cap Check(op[t].want) ELSE revents[t]
    BY <1>2, Zenon DEF WakeEntries
  <2>3. CASE t \in Woken(evs)
    <3>1. PICK v \in Fired(evs) : t \in entries[v]
      BY <2>3 DEF Woken
    <3>2. v \in Vectors /\ evs \cap Check(v) # {}
      BY <3>1 DEF Fired
    <3>3. op[t].want = v
      BY <3>1, <3>2 DEF EntryOwner
    <3> QED
      BY <2>2, <2>3, <3>2, <3>3
  <2>4. CASE t \notin Woken(evs)
    BY <1>2, <1>k, <2>1, <2>2, <2>4
  <2> QED
    BY <2>3, <2>4
<1>3. ASSUME NEW u \in Tasks, NEW o \in Ops[u], CallReady(u, o) \/ CallSuspend(u, o)
      PROVE op'[t].timed
  <2>1. t # u /\ pc'[t] = pc[t] /\ op'[t] = op[t] /\ fresh'[t] = fresh[t] /\ revents' = revents
    BY <1>3, <1>f DEF CallReady, CallSuspend
  <2> QED
    BY <1>k, <2>1
<1>4. ASSUME NEW u \in Tasks, PollGet(u) \/ PollAddFails(u) PROVE op'[t].timed
  <2>1. t # u
    BY <1>4, <1>f, SMTT(20) DEF PollGet, PollAddFails, AddFails
  <2>2. pc'[t] = pc[t] /\ op' = op /\ fresh'[t] = fresh[t] /\ revents'[t] = revents[t]
    BY <1>4, <1>f, <2>1 DEF PollGet, PollAddFails, AddFails
  <2> QED
    BY <1>k, <2>2
<1>5. ASSUME NEW u \in Tasks, PollAdd(u) PROVE op'[t].timed
  <2>1. t # u => pc'[t] = pc[t]
    BY <1>5, <1>f DEF PollAdd
  <2>2. t = u => pc[t] = "adding"
    BY <1>5 DEF PollAdd
  <2>3. UNCHANGED <<op, fresh, revents>>
    BY <1>5 DEF PollAdd
  <2>4. pc[t] = "adding" /\ ~fresh[t] => op[t].timed
    BY DEF SuspendedInv
  <2> QED
    BY <1>k, <2>1, <2>2, <2>3, <2>4
<1>6. ASSUME NEW u \in Tasks, PollAddFreed(u) PROVE op'[t].timed
  BY <1>6, <1>1 DEF PollAddFreed
<1>7. ASSUME NEW u \in Tasks, PollReturn(u) \/ IoReturn(u) PROVE op'[t].timed
  <2>1. t # u
    BY <1>7, <1>f DEF PollReturn, IoReturn
  <2>2. pc'[t] = pc[t] /\ op'[t] = op[t] /\ fresh' = fresh /\ revents'[t] = revents[t]
    BY <1>7, <1>f, <2>1 DEF PollReturn, IoReturn
  <2> QED
    BY <1>k, <2>2
<1>8. ASSUME NEW u \in Tasks, Timeout(u) PROVE op'[t].timed
  BY <1>8, <1>f, <1>k DEF Timeout
<1>9. CASE ReactorThread
  BY <1>9, <1>1, <1>2 DEF ReactorThread, EpollWait, RunGet, RunTrigger, RunTriggerFreed
<1>10. CASE Closer
  BY <1>10, <1>1, <1>2 DEF Closer, CloseNotify, CloseErase, CloseFd, Open
<1>11. ASSUME NEW e \in Events, Arrive(e) PROVE op'[t].timed
  BY <1>11, <1>1 DEF Arrive
<1>12. CASE UNCHANGED vars
  BY <1>12, <1>1 DEF vars
<1> QED
  BY <1>3, <1>4, <1>5, <1>6, <1>7, <1>8, <1>9, <1>10, <1>11, <1>12 DEF Next, Poll

(* A waiting task leaves its vector only when it is woken, and onClose()    *)
(* wakes whoever is in one.                                                 *)
LEMMA NextNoStrandedWaiter == TypeOK /\ NoStrandedWaiter /\ [Next]_vars => NoStrandedWaiter'
<1> SUFFICES ASSUME TypeOK, NoStrandedWaiter, [Next]_vars, NEW t \in Tasks,
                    pc'[t] = "waiting", fresh'[t], t \notin late'
             PROVE  phase' = "open" /\ t \in entries'[op'[t].want]
  BY DEF NoStrandedWaiter
<1> DEFINE Kept == phase = "open" /\ t \in entries[op[t].want]
<1> USE DEF fdVars, elemVars, kernVars, loopVars, callVars
<1>e. entries \in [Vectors -> SUBSET (Tasks \cup {Expired})]
  BY DEF TypeOK
<1>f. /\ pc \in [Tasks -> {"idle", "suspended", "adding", "waiting", "io"}]
      /\ op \in [Tasks -> Calls] /\ fresh \in [Tasks -> BOOLEAN]
  BY DEF TypeOK
<1>w. \A u \in Tasks : op[u].want \in Vectors
  BY <1>f, Types
<1>k. pc[t] = "waiting" /\ fresh[t] /\ t \notin late => Kept
  BY DEF NoStrandedWaiter
<1>1. ASSUME UNCHANGED <<phase, entries, pc, op, fresh, late>> PROVE Kept'
  BY <1>1, <1>k
<1>2. ASSUME NEW evs, WakeEntries(evs), UNCHANGED <<pc, op, late>>
      PROVE /\ phase = "open" /\ op[t].want \notin Fired(evs)
            /\ t \in entries'[op'[t].want]
  <2>1. fresh'[t] = (fresh[t] /\ t \notin Woken(evs))
    BY <1>2, Zenon DEF WakeEntries
  <2>2. Kept /\ t \notin Woken(evs)
    BY <1>2, <1>k, <2>1
  <2>3. op[t].want \notin Fired(evs)
    BY <2>2 DEF Woken
  <2> QED
    BY <1>2, <1>w, <2>2, <2>3 DEF WakeEntries
<1>3. ASSUME NEW u \in Tasks, NEW o \in Ops[u], CallReady(u, o) \/ CallSuspend(u, o) PROVE Kept'
  <2>1. t # u /\ pc'[t] = pc[t] /\ op'[t] = op[t] /\ fresh'[t] = fresh[t]
    BY <1>3, <1>f DEF CallReady, CallSuspend
  <2>2. UNCHANGED <<phase, entries, late>>
    BY <1>3 DEF CallReady, CallSuspend
  <2> QED
    BY <1>k, <2>1, <2>2
<1>4. ASSUME NEW u \in Tasks, PollGet(u) PROVE Kept'
  <2>1. t # u /\ pc'[t] = pc[t] /\ op' = op /\ fresh'[t] = fresh[t]
    BY <1>4, <1>f DEF PollGet, AddFails
  <2>2. UNCHANGED <<phase, entries, late>>
    BY <1>4 DEF PollGet
  <2> QED
    BY <1>k, <2>1, <2>2
<1>5. ASSUME NEW u \in Tasks, PollAdd(u) PROVE Kept'
  <2>1. UNCHANGED <<phase, op, fresh>> /\ late \subseteq late'
    BY <1>5 DEF PollAdd
  <2>2. entries' = [entries EXCEPT ![op[u].want] = Unexpired(@) \cup {u}]
    BY <1>5 DEF PollAdd
  <2>3. CASE t = u
    <3>1. phase = "open"
      BY <1>5, <2>3 DEF PollAdd, Alive
    <3> QED
      BY <1>e, <1>w, <2>1, <2>2, <2>3, <3>1
  <2>4. CASE t # u
    <3>1. pc'[t] = pc[t]
      BY <1>5, <1>f, <2>4 DEF PollAdd
    <3>2. Kept /\ fresh[t]
      BY <1>k, <2>1, <3>1
    <3> QED
      BY <1>e, <1>w, <2>1, <2>2, <3>2 DEF Unexpired
  <2> QED
    BY <2>3, <2>4
<1>6. ASSUME NEW u \in Tasks, PollAddFails(u) PROVE Kept'
  <2>1. t # u /\ pc'[t] = pc[t] /\ fresh'[t] = fresh[t] /\ UNCHANGED <<phase, op, late>>
    BY <1>6, <1>f DEF PollAddFails, AddFails
  <2>2. entries' = [entries EXCEPT ![op[u].want] = Unexpired(@)]
    BY <1>6 DEF PollAddFails
  <2> QED
    BY <1>e, <1>k, <1>w, <2>1, <2>2 DEF Unexpired
<1>7. ASSUME NEW u \in Tasks, PollReturn(u) PROVE Kept'
  <2>1. t # u /\ pc'[t] = pc[t] /\ op'[t] = op[t] /\ UNCHANGED <<phase, fresh>>
    BY <1>7, <1>f DEF PollReturn
  <2>2. late' = late \ {u}
    BY <1>7 DEF PollReturn
  <2>3. Kept
    BY <1>k, <2>1, <2>2
  <2>4. \A v \in Vectors : t \in entries[v] => t \in entries'[v]
    BY <1>7, <1>e, <1>w, <2>1 DEF PollReturn
  <2> QED
    BY <1>w, <2>1, <2>3, <2>4
<1>8. ASSUME NEW u \in Tasks, IoReturn(u) PROVE Kept'
  <2>1. t # u /\ pc'[t] = pc[t] /\ op'[t] = op[t] /\ UNCHANGED <<phase, entries, fresh, late>>
    BY <1>8, <1>f DEF IoReturn
  <2> QED
    BY <1>k, <2>1
<1>9. ASSUME NEW u \in Tasks, Timeout(u) PROVE Kept'
  BY <1>9, <1>f, <1>k DEF Timeout
<1>10. ASSUME NEW u \in Tasks, PollAddFreed(u) PROVE Kept'
  BY <1>10, <1>1 DEF PollAddFreed
<1>11. CASE EpollWait \/ RunGet \/ RunTriggerFreed
  BY <1>11, <1>1 DEF EpollWait, RunGet, RunTriggerFreed
<1>12. CASE RunTrigger
  BY <1>12, <1>2 DEF RunTrigger
<1>13. CASE CloseNotify
  <2>1. Fired({"nval"}) = Vectors
    BY DEF Fired, Check
  <2> QED
    BY <1>13, <1>2, <1>w, <2>1 DEF CloseNotify
<1>14. CASE CloseErase \/ CloseFd \/ Open
  BY <1>14, <1>k DEF CloseErase, CloseFd, Open
<1>15. ASSUME NEW e \in Events, Arrive(e) PROVE Kept'
  BY <1>15, <1>1 DEF Arrive
<1>16. CASE UNCHANGED vars
  BY <1>16, <1>1 DEF vars
<1> QED
  BY <1>3, <1>4, <1>5, <1>6, <1>7, <1>8, <1>9, <1>10, <1>11, <1>12, <1>13, <1>14,
     <1>15, <1>16 DEF Next, ReactorThread, Poll, Closer

(* The conjunction is inductive. *)
THEOREM Invariance == Spec => []IInv
<1>1. Init => IInv
  BY InitIInv
<1>2. IInv /\ [Next]_vars => IInv'
  BY NextTypeOK, NextEntryOwner, NextElementInv, NextEventExact, NextHeldInv, NextNoLostEdge,
     NextSuspendedInv, NextNoFalseTimeout, NextNoStrandedWaiter DEF IInv
<1> QED
  BY <1>1, <1>2, PTL DEF Spec

-----------------------------------------------------------------------------

(* Every variable of the element, of epoll and of the calls keeps its type, *)
(* whatever descriptors, calls and closes there are: reactor_element.cc.    *)
THEOREM TypeCorrect == Spec => []TypeOK
<1>1. IInv => TypeOK
  BY DEF IInv
<1> QED
  BY <1>1, Invariance, PTL

(* event_ never drifts from epoll, nor epoll from the entries: add() and    *)
(* trigger() of ReactorElement.                                             *)
THEOREM RegistrationIsExact == Spec => []InterestIsExact
<1>1. IInv => InterestIsExact
  <2> SUFFICES ASSUME IInv, phase = "open"
               PROVE  /\ interest = event
                      /\ interest = UNION {Asked(v) : v \in {u \in Vectors : entries[u] # {}}}
    BY DEF InterestIsExact
  <2> DEFINE U == UNION {Asked(v) : v \in {u \in Vectors : entries[u] # {}}}
  <2>1. interest = event /\ event \subseteq Events
    BY DEF IInv, ElementInv, TypeOK
  <2>2. ASSUME NEW e PROVE e \in U <=> \E v \in Vectors : entries[v] # {} /\ e \in Asked(v)
    OBVIOUS
  <2>3. U \subseteq Events
    BY <2>2, Types
  <2>4. \A e \in Events : e \in event <=> e \in U
    BY <2>2 DEF IInv, EventExact
  <2> HIDE DEF U
  <2>5. event = U
    BY <2>1, <2>3, <2>4
  <2> QED
    BY <2>1, <2>5 DEF U
<1> QED
  BY <1>1, Invariance, PTL

(* No task waits for a descriptor that is ready without epoll or the        *)
(* reactor thread about to wake it: edge-triggered epoll loses no event.    *)
THEOREM NoEventIsLost == Spec => []NoLostEvent
<1>1. IInv => NoLostEvent
  <2> SUFFICES ASSUME IInv, NEW t \in Tasks, Waits(t)
               PROVE  queued \/ (held \in {0, gen} /\ fetched \cap Check(op[t].want) # {})
    BY DEF NoLostEvent
  <2>1. op[t].want \in Vectors
    BY Types DEF IInv, TypeOK
  <2>2. PICK e \in ready : e \in op[t].want \/ e = "err"
    BY DEF Waits, Reported
  <2>3. e \in Events
    BY DEF IInv, TypeOK
  <2>4. \A x \in Asked(op[t].want) : x \in interest
    <3>1. \A x \in Asked(op[t].want) : x \in Events
      BY <2>1, Types
    <3>2. entries[op[t].want] # {} /\ phase = "open"
      BY DEF Waits
    <3> QED
      BY <2>1, <3>1, <3>2 DEF IInv, EventExact, ElementInv
  <2>5. interest # {} /\ (e \in interest \/ e = "err")
    BY <2>1, <2>2, <2>4, Types
  <2>6. queued \/ (held \in {0, gen} /\ e \in fetched)
    BY <2>5 DEF IInv, NoLostEdge, Reported, Waits
  <2>7. e \in Check(op[t].want)
    BY <2>2 DEF Check
  <2> QED
    BY <2>6, <2>7
<1> QED
  BY <1>1, Invariance, PTL

(* A hooked call without a time limit never reports EAGAIN: Poll in hook.cc *)
(* returns 0 only after its time-out.                                       *)
THEOREM TimeoutIsReal == Spec => []NoFalseTimeout
<1>1. IInv => NoFalseTimeout
  BY DEF IInv
<1> QED
  BY <1>1, Invariance, PTL

(* close() leaves nobody behind but the tasks whose add() came between      *)
(* onClose() and erase().                                                   *)
THEOREM CloseWakesWaiters == Spec => []NoStrandedWaiter
<1>1. IInv => NoStrandedWaiter
  BY DEF IInv
<1> QED
  BY <1>1, Invariance, PTL

=============================================================================
