------------------------------- MODULE Reactor -------------------------------
(***************************************************************************)
(* One file descriptor between hooked I/O calls and the reactor:           *)
(* src/net/io/reactor_element.cc, reactor.cc, epoll_reactor.cc, hook.cc    *)
(* and FdManager of src/util/file_descriptor.cc.                           *)
(*                                                                         *)
(* A task that reads or writes suspends itself, adds an Entry to the       *)
(* ReactorElement of the descriptor and yields.  The reactor thread gets   *)
(* edge-triggered events from epoll, looks the element up by descriptor    *)
(* number and triggers it.  The timer wakes tasks whose call has a time    *)
(* limit.  Another thread may close() the descriptor at any time, and its  *)
(* number may be opened again.                                             *)
(*                                                                         *)
(* "err" stands for POLLERR and POLLHUP, "nval" for POLLNVAL.  The kernel  *)
(* (readiness of the descriptor, epoll) is modelled from how it is used.   *)
(* All of trigger() and of add() runs under the element's mutex_; looking  *)
(* the element up (FdManager::get) and using the raw pointer are two steps.*)
(***************************************************************************)
EXTENDS Naturals, FiniteSets

CONSTANTS
    Tasks,
    Expired,        \* an Entry whose suspension is over and whose Poll returned
    Ops,            \* a task's calls: events, with a time limit?, DoIo or bare Poll?
    AddMayFail,     \* may epoll_ctl(ADD) run out of resources?
    MaxOpens        \* bound: how often the descriptor number is opened

Calls == [want : SUBSET {"in", "out"}, timed : BOOLEAN, io : BOOLEAN]

ASSUME ReactorAssumption ==
    /\ Expired \notin Tasks
    /\ Ops \in [Tasks -> SUBSET Calls]
    /\ AddMayFail \in BOOLEAN
    /\ MaxOpens \in Nat \ {0}

Events == {"in", "out", "err"}
NoOp == [want |-> {}, timed |-> FALSE, io |-> FALSE]

VARIABLES
    phase, gen,         \* progress of close(); number of opens so far
    entries, event,     \* ReactorElement: the four vectors, event_
    interest, queued,   \* epoll: events registered, on the ready list?
    ready,              \* readiness of the descriptor
    fetched, held,      \* reactor thread: result of epoll_wait, fdCtx (0: none yet)
    pc, op, ptr,        \* a task's call: where, which, and its FdContext*
    fresh,              \* the task's suspension has not been woken yet
    revents,            \* the array Poll shares with its Entry
    late,               \* tasks that added an Entry after onClose()
    freed               \* an erased element was used: undefined behaviour, the end

elemVars == <<entries, event>>
kernVars == <<interest, queued>>
loopVars == <<fetched, held>>
fdVars == <<phase, gen>>
callVars == <<pc, op, ptr>>
vars == <<fdVars, elemVars, kernVars, ready, loopVars, callVars,
          fresh, revents, late, freed>>

(* select(): in_, out_, inAndOut_ and error_ are named by what they wait for *)
Vectors == SUBSET {"in", "out"}

Init ==
    /\ phase = "open" /\ gen = 1
    /\ entries = [v \in Vectors |-> {}] /\ event = {}
    /\ interest = {} /\ queued = FALSE /\ ready = {}
    /\ fetched = {} /\ held = 0
    /\ pc = [t \in Tasks |-> "idle"]
    /\ op = [t \in Tasks |-> NoOp]
    /\ ptr = [t \in Tasks |-> 0]
    /\ fresh = [t \in Tasks |-> FALSE]
    /\ revents = [t \in Tasks |-> {}]
    /\ late = {}
    /\ freed = FALSE

-----------------------------------------------------------------------------
(* The element                                                              *)

(* Is the element of the g-th open still in FdManager's map? *)
Alive(g) == g = gen /\ phase \in {"open", "notified"}
Get == IF phase \in {"open", "notified"} THEN gen ELSE 0

(* The events that trigger vector v, and those registered for its entries.  *)
(* The variants forget errors, and register whatever triggers.              *)
CheckWanted(v) == IF v = {} THEN {"err", "nval"} ELSE v \cup {"nval"}
Check(v) == v \cup {"err", "nval"}
AskedAll(v) == v \cup {"err", "nval"}
Asked(v) == IF v = {} THEN {"err"} ELSE v

(* What the kernel reports for a set of requested events *)
Reported(evs) == ready \cap (evs \cup {"err"})

(* epoll_ctl with ADD or MOD queues the descriptor if it is ready already;  *)
(* the variant relies on new edges only                                     *)
EpollSetOnly(evs) == interest' = evs /\ UNCHANGED queued

EpollSet(evs) ==
    /\ interest' = evs
    /\ queued' = (queued \/ Reported(evs) # {})

EpollDel == interest' = {} /\ queued' = FALSE

(* EpollReactor::delEvent and the assignment of event_ that follows it; the *)
(* variant leaves the events of the woken entries registered                *)
KeepEvent(promise) == UNCHANGED <<event, kernVars>>

DelEvent(promise) ==
    IF promise = event \/ interest = {}
    THEN UNCHANGED <<event, kernVars>>
    ELSE /\ event' = promise
         /\ IF promise = {} THEN EpollDel ELSE EpollSet(promise)

Fired(evs) == {v \in Vectors : evs \cap Check(v) # {}}
Woken(evs) == {t \in Tasks : \E v \in Fired(evs) : t \in entries[v]}
Promise(evs) == UNION {Asked(v) : v \in {u \in Vectors \ Fired(evs) : entries[u] # {}}}

(* trigger(revent, entries) for every vector that evs concerns: revents is  *)
(* written before the task is woken.  WakeUp does nothing for a suspension  *)
(* that is over.  The variant omits the error events of revent.             *)
WakeEntriesWanted(evs) ==
    /\ entries' = [v \in Vectors |-> IF v \in Fired(evs) THEN {} ELSE entries[v]]
    /\ revents' = [t \in Tasks |->
                    IF t \in Woken(evs) THEN evs \cap op[t].want ELSE revents[t]]
    /\ fresh' = [t \in Tasks |-> fresh[t] /\ t \notin Woken(evs)]

WakeEntries(evs) ==
    /\ entries' = [v \in Vectors |-> IF v \in Fired(evs) THEN {} ELSE entries[v]]
    /\ revents' = [t \in Tasks |->
                    IF t \in Woken(evs) THEN evs \cap Check(op[t].want) ELSE revents[t]]
    /\ fresh' = [t \in Tasks |-> fresh[t] /\ t \notin Woken(evs)]

-----------------------------------------------------------------------------
(* The reactor thread: EpollReactor::run                                    *)

EpollWait ==
    /\ ~freed /\ fetched = {} /\ queued
    /\ fetched' = Reported(interest)
    /\ queued' = FALSE
    /\ UNCHANGED <<fdVars, elemVars, interest, ready, held, callVars, fresh, revents, late, freed>>

RunGet ==
    /\ ~freed /\ fetched # {} /\ held = 0
    /\ held' = Get
    /\ fetched' = IF Get = 0 THEN {} ELSE fetched
    /\ UNCHANGED <<fdVars, elemVars, kernVars, ready, callVars, fresh, revents, late, freed>>

RunTrigger ==
    /\ ~freed /\ held # 0 /\ Alive(held)
    /\ WakeEntries(fetched)
    /\ DelEvent(Promise(fetched))
    /\ fetched' = {} /\ held' = 0
    /\ UNCHANGED <<fdVars, ready, callVars, late, freed>>

(* trigger() on an element that close() has erased *)
RunTriggerFreed ==
    /\ ~freed /\ held # 0 /\ ~Alive(held)
    /\ freed' = TRUE
    /\ UNCHANGED <<fdVars, elemVars, kernVars, ready, loopVars, callVars, fresh, revents, late>>

ReactorThread == EpollWait \/ RunGet \/ RunTrigger \/ RunTriggerFreed

-----------------------------------------------------------------------------
(* A task's call: DoIo (o.io), or Poll without the check before it, as      *)
(* connect() uses it                                                        *)

(* f() can return at once: the descriptor is ready, or closed *)
Completes(t) == Reported(op[t].want) # {} \/ phase = "closed"

(* DoIo without a context, or with a successful ::poll: straight to f() *)
CallReady(t, o) ==
    /\ ~freed /\ pc[t] = "idle"
    /\ o.io
    /\ Get = 0 \/ Reported(o.want) # {}
    /\ pc' = [pc EXCEPT ![t] = "io"]
    /\ op' = [op EXCEPT ![t] = o]
    /\ UNCHANGED <<fdVars, elemVars, kernVars, ready, loopVars, ptr, fresh, revents, late, freed>>

(* ::poll finds nothing, Suspend() *)
CallSuspend(t, o) ==
    /\ ~freed /\ pc[t] = "idle"
    /\ Get # 0
    /\ o.io => Reported(o.want) = {}
    /\ pc' = [pc EXCEPT ![t] = "suspended"]
    /\ op' = [op EXCEPT ![t] = o]
    /\ fresh' = [fresh EXCEPT ![t] = TRUE]
    /\ UNCHANGED <<fdVars, elemVars, kernVars, ready, loopVars, ptr, revents, late, freed>>

(* Poll finds no context, or epoll_ctl failed: the task wakes itself *)
AddFails(t) ==
    /\ pc' = [pc EXCEPT ![t] = "waiting"]
    /\ fresh' = [fresh EXCEPT ![t] = FALSE]
    /\ revents' = [revents EXCEPT ![t] = {"nval"}]

(* Reactor::add looks the context up *)
PollGet(t) ==
    /\ ~freed /\ pc[t] = "suspended"
    /\ IF Get = 0
       THEN AddFails(t) /\ UNCHANGED ptr
       ELSE /\ ptr' = [ptr EXCEPT ![t] = Get]
            /\ pc' = [pc EXCEPT ![t] = "adding"]
            /\ UNCHANGED <<fresh, revents>>
    /\ UNCHANGED <<fdVars, elemVars, kernVars, ready, loopVars, op, late, freed>>

(* removeExpired *)
Unexpired(es) == {u \in es \cap Tasks : fresh[u]}

(* ReactorElement::add, with addEvent *)
PollAdd(t) ==
    LET v == op[t].want
        promise == event \cup Asked(v)
    IN  /\ ~freed /\ pc[t] = "adding" /\ Alive(ptr[t])
        /\ entries' = [entries EXCEPT ![v] = Unexpired(@) \cup {t}]
        /\ event' = promise
        /\ IF promise = event
           THEN UNCHANGED kernVars
           ELSE /\ event = {} <=> interest = {}     \* ADD or MOD succeeds
                /\ EpollSet(promise)
        /\ pc' = [pc EXCEPT ![t] = "waiting"]
        /\ ptr' = [ptr EXCEPT ![t] = 0]
        /\ late' = IF phase = "notified" THEN late \cup {t} ELSE late
        /\ UNCHANGED <<fdVars, ready, loopVars, op, fresh, revents, freed>>

(* epoll_ctl(ADD) may run out of resources, MOD needs a registration: rollback *)
PollAddFails(t) ==
    LET v == op[t].want
    IN  /\ ~freed /\ pc[t] = "adding" /\ Alive(ptr[t])
        /\ event \cup Asked(v) # event
        /\ (AddMayFail /\ event = {}) \/ (event = {}) # (interest = {})
        /\ entries' = [entries EXCEPT ![v] = Unexpired(@)]
        /\ AddFails(t)
        /\ ptr' = [ptr EXCEPT ![t] = 0]
        /\ UNCHANGED <<fdVars, event, kernVars, ready, loopVars, op, late, freed>>

(* add() on an element that close() has erased *)
PollAddFreed(t) ==
    /\ ~freed /\ pc[t] = "adding" /\ ~Alive(ptr[t])
    /\ freed' = TRUE
    /\ UNCHANGED <<fdVars, elemVars, kernVars, ready, loopVars, callVars, fresh, revents, late>>

(* The time limit of the suspension *)
Timeout(t) ==
    /\ ~freed /\ fresh[t] /\ op[t].timed
    /\ fresh' = [fresh EXCEPT ![t] = FALSE]
    /\ UNCHANGED <<fdVars, elemVars, kernVars, ready, loopVars, callVars, revents, late, freed>>

(* The woken task reads revents; none set means that it timed out.  Its     *)
(* Entry, if still in a vector, is an expired one from now on.              *)
PollReturn(t) ==
    LET v == op[t].want
        io == op[t].io /\ revents[t] # {}
    IN  /\ ~freed /\ pc[t] = "waiting" /\ ~fresh[t]
        /\ entries' = [entries EXCEPT ![v] =
                        IF t \in @ THEN (@ \ {t}) \cup {Expired} ELSE @]
        /\ pc' = [pc EXCEPT ![t] = IF io THEN "io" ELSE "idle"]
        /\ op' = [op EXCEPT ![t] = IF io THEN @ ELSE NoOp]
        /\ revents' = [revents EXCEPT ![t] = {}]
        /\ late' = late \ {t}
        /\ UNCHANGED <<fdVars, event, kernVars, ready, loopVars, ptr, fresh, freed>>

(* f(): on a descriptor in blocking mode it returns when it can, and may    *)
(* use up what made the descriptor ready                                    *)
IoReturn(t) ==
    /\ ~freed /\ pc[t] = "io" /\ Completes(t)
    /\ ready' \in {ready, ready \ op[t].want}
    /\ pc' = [pc EXCEPT ![t] = "idle"]
    /\ op' = [op EXCEPT ![t] = NoOp]
    /\ UNCHANGED <<fdVars, elemVars, kernVars, loopVars, ptr, fresh, revents, late, freed>>

Poll(t) ==
    \/ PollGet(t) \/ PollAdd(t) \/ PollAddFails(t) \/ PollAddFreed(t) \/ PollReturn(t)

-----------------------------------------------------------------------------
(* close(), socket() and the other end                                      *)

(* onClose: trigger(nullptr, POLLNVAL), which leaves event_ alone.  The     *)
(* variant only goes on to erase the element.                               *)
CloseNotifySilently ==
    /\ ~freed /\ phase = "open"
    /\ phase' = "notified"
    /\ UNCHANGED <<gen, elemVars, kernVars, ready, loopVars, callVars, fresh, revents, late, freed>>

CloseNotify ==
    /\ ~freed /\ phase = "open"
    /\ phase' = "notified"
    /\ WakeEntries({"nval"})
    /\ UNCHANGED <<gen, event, kernVars, ready, loopVars, callVars, late, freed>>

CloseErase ==
    /\ ~freed /\ phase = "notified"
    /\ phase' = "erased"
    /\ entries' = [v \in Vectors |-> {}] /\ event' = {}
    /\ UNCHANGED <<gen, kernVars, ready, loopVars, callVars, fresh, revents, late, freed>>

(* close_f: the kernel drops the registration *)
CloseFd ==
    /\ ~freed /\ phase = "erased"
    /\ phase' = "closed"
    /\ EpollDel
    /\ ready' = {}
    /\ UNCHANGED <<gen, elemVars, loopVars, callVars, fresh, revents, late, freed>>

(* socket() or accept() returns the same number: a new context *)
Open ==
    /\ ~freed /\ phase = "closed" /\ gen < MaxOpens
    /\ phase' = "open" /\ gen' = gen + 1
    /\ UNCHANGED <<elemVars, kernVars, ready, loopVars, callVars, fresh, revents, late, freed>>

(* Data, room to write, or an error; each arrival is an edge *)
Arrive(e) ==
    /\ ~freed /\ phase # "closed"
    /\ ready' = ready \cup {e}
    /\ queued' = (queued \/ (interest # {} /\ e \in interest \cup {"err"}))
    /\ UNCHANGED <<fdVars, elemVars, interest, loopVars, callVars, fresh, revents, late, freed>>

Closer == CloseNotify \/ CloseErase \/ CloseFd \/ Open

Next ==
    \/ ReactorThread
    \/ \E t \in Tasks :
        \/ \E o \in Ops[t] : CallReady(t, o) \/ CallSuspend(t, o)
        \/ Poll(t) \/ Timeout(t) \/ IoReturn(t)
    \/ Closer
    \/ \E e \in Events : Arrive(e)

Spec == Init /\ [][Next]_vars

(* The reactor thread loops for ever and is never disabled for long *)
LiveSpec == Spec /\ WF_vars(ReactorThread)

-----------------------------------------------------------------------------
(* Properties                                                               *)

Phases == {"open", "notified", "erased", "closed"}

(* Every variable of the element, of epoll and of the calls keeps its type; *)
(* only IN, OUT and ERR are ever registered.                                *)
TypeOK ==
    /\ phase \in Phases /\ gen \in 1..MaxOpens
    /\ entries \in [Vectors -> SUBSET (Tasks \cup {Expired})]
    /\ event \subseteq Events /\ interest \subseteq Events
    /\ queued \in BOOLEAN /\ ready \subseteq Events
    /\ fetched \subseteq Events /\ held \in 0..MaxOpens
    /\ pc \in [Tasks -> {"idle", "suspended", "adding", "waiting", "io"}]
    /\ op \in [Tasks -> Calls]
    /\ ptr \in [Tasks -> 0..MaxOpens]
    /\ fresh \in [Tasks -> BOOLEAN]
    /\ revents \in [Tasks -> SUBSET (Events \cup {"nval"})]
    /\ late \subseteq Tasks
    /\ freed \in BOOLEAN

(* While the descriptor is open, what the kernel has registered is exactly  *)
(* what the entries of the four vectors wait for, whatever adds, time-outs, *)
(* failed adds, triggers and stale events of an earlier open have happened: *)
(* event_ of ReactorElement never drifts from epoll.                        *)
InterestIsExact ==
    phase = "open" =>
        /\ interest = event
        /\ interest = UNION {Asked(v) : v \in {u \in Vectors : entries[u] # {}}}

(* The task waits, through an Entry of the open descriptor, and f() could   *)
(* proceed                                                                  *)
Waits(t) ==
    /\ phase = "open" /\ pc[t] = "waiting" /\ fresh[t]
    /\ t \in entries[op[t].want] /\ Reported(op[t].want) # {}

(* add() and trigger() never let an edge slip: if a descriptor is ready for *)
(* a task that waits on it, epoll is about to report it, or the reactor     *)
(* thread is about to trigger this element with an event that wakes it.     *)
NoLostEvent ==
    \A t \in Tasks :
        Waits(t) => queued \/ (held \in {0, gen} /\ fetched \cap Check(op[t].want) # {})

(* DoIo reports EAGAIN when Poll returns 0: that happens only to a call     *)
(* that has a time limit, never because of an error or a close.             *)
NoFalseTimeout ==
    \A t \in Tasks :
        (pc[t] = "waiting" /\ ~fresh[t] /\ revents[t] = {}) => op[t].timed

(* A task that waits can be woken: its Entry is in the element of an open   *)
(* descriptor.  The only tasks left behind are those whose add() came       *)
(* between onClose() and the erase of the element.                          *)
NoStrandedWaiter ==
    \A t \in Tasks :
        (pc[t] = "waiting" /\ fresh[t] /\ t \notin late) =>
            phase = "open" /\ t \in entries[op[t].want]

(* The comment on hooked calls in the hook test: while a call waits, other  *)
(* coroutines run.  So, at least while nobody closes the descriptor, f() is *)
(* only entered when it can return at once.                                 *)
NoThreadBlocks ==
    phase = "open" => \A t \in Tasks : pc[t] = "io" => Completes(t)

(* A task that waits for a descriptor that is ready is woken, unless        *)
(* another call uses up the readiness or the descriptor is closed.          *)
EventWakes == \A t \in Tasks : Waits(t) ~> (~Waits(t) \/ freed)

=============================================================================
