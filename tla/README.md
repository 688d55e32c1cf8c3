# nemo-webserver: specifications

TLA+ modules for NemoYZ/nemo-webserver, a C++20 web server built on its own
coroutine scheduler. Paths below are relative to the repository (`src/...`,
`include/...`, `tests/...`).

## Inventory

| part | code | state | operations | hard because |
|---|---|---|---|---|
| timer | `src/coroutine/routine_sync_timer.cc` | `timerIds_` (a `std::set` ordered by time point only), `nextCheckAbstime_`, `stopped_`, per timer `tp_`, `done_`, `canceled_` and a mutex | add, reset, cancel, start, stop; thread `run` | two mutexes taken in both orders, a `try_lock`, an unlocked erase in `reset`, notification only if needed |
| processor | `src/coroutine/processor.cc` | `newQue_`, `runQue_`, `runningTask_`, `nextTask_`, `waitSet_`, `notified_`, `waitting_` | addTask, process, Suspend, WakeUp, Yield | tasks change owner between a `unique_ptr` and a `shared_ptr` whose deleter re-queues them; wake-ups come from other threads, twice, early or late |
| scheduler | `src/coroutine/scheduler.cc` | processors, `active_` flags, `lastActiveProcessorIndex_`, `taskCount_` | addTask, start, stop; thread `runBalance` | work stealing by stale loads, from queues in use |
| task, context | `src/coroutine/task.cc`, `src/context` | `state_`, `processor_`, a machine context | Run, swapIn, swapOut | assembly |
| reactor | `src/net/io/reactor*.cc`, `epoll_reactor.cc` | per descriptor four lists of waiters and the events registered with epoll | add, trigger, close; thread `run` | edge-triggered events race with registration, expired waiters |
| hook, descriptors | `src/net/io/hook.cc`, `src/util/file_descriptor.cc` | `FdManager`'s table, non-blocking flags | poll, connect, read, write, accept, close, dup, fcntl | a timeout races an event; descriptor numbers are reused |
| logging | `src/log` | loggers, double buffer of the file appender | log, stop; thread `consumeFunc` | producer and consumer swap buffers; last lines at stop |
| configuration | `include/common/config.h` | value and listeners of every variable | setValue, addListener, load | check then act under two locks |
| containers | `include/container`, `src/container` | nodes of a `ByteArray`, a `Buffer`, an LRU list | read, write, put, get | boundaries |
| sockets, TCP server | `src/net/socket.cc`, `tcp_server.cc` | sockets and accept loops | bind, start, stop | stop while accepting |
| URIs | `src/net/uri.rl`, `uri.rl.cc` | the parts of a URI, one pointer `mark` | Create | the actions of an ambiguous grammar overwrite one another's mark |
| HTTP server | `src/net/http/http_server.cc`, `http_session.cc`, `servlet.cc`, `http11_parser.rl` | parser, marks into the buffer, servlets | recvRequest, sendResponse, dispatch | messages in pieces, pipelining, keep-alive |
| HTTP client | `src/net/http/http_connection.cc`, `http_client_parser.rl` | parser, connection pool | recvResponse, getConnection, doRequest | chunks in pieces, late answers, shared connections |

A task runs on one processor's thread. To wait it calls `Suspend`, hands the
entry it gets to the timer and/or a reactor, and yields; the timer's thread or a
reactor's thread calls `WakeUp` on the entry. The scheduler's balance thread
moves tasks between processors.

What makes each part correct: the timer fires what it was given, never sleeps
past it, and lets go of what was cancelled; a processor neither loses, nor runs
twice, nor frees early a task, and wakes when there is something to run; a wake-up
reaches the suspension it was meant for or nothing; the scheduler moves tasks
without losing or doubling them; a reactor loses no event that somebody waits for; a
request reaches its servlet, and a response its caller, as it was written; a log line
reaches the file once, in order; a listener hears of what is stored; a byte that was
written is read.

## Modules

* `RoutineSyncTimer` - the timer. `caller[i]` is where the user of timer `i` is in
  add, reset or cancel; `pc` is where the timer thread is in `run()`. What happens
  under `mutex_` without releasing it is one step. `timerIds` obeys the order of the
  code: an insert is ignored and an erase hits another timer if the time points are
  equal.
* `MCTimerTest` - the timer used the way `tests/routine_sync_timer_test.cc` uses it.
* `RoutineSyncTimerProofs` - theorems about `RoutineSyncTimer`.
* `Processor` - processors, their tasks and the threads that wake tasks up. `AddTask` is the
  addTask of a task or of a list, which notifies; `AddRange` is that of a range, which
  pushes its tasks one by one and notifies nobody (`silent` remembers them). The locks of
  `runQue_` that a yielding task's processor takes are steps of their own, so that the
  queue may be empty when it comes to take the next task. A
  `shared_ptr` control block is a record (task, number of the suspension,
  processor of the deleter); its copies are the element of `waitSet` and the
  `wref` of every thread inside `WakeUp`. The deleter runs in `WakeRelease` when the
  last copy goes.
* `MCProcessor` - symmetry for `Processor`.
* `ProcessorProofs` - theorems about `Processor`.
* `Scheduler` - extends `Processor` with addTask's choice of a processor, for one task (which
  chooses twice) or a list (which `onAdd` counts as one task: `hidden` is what it does not
  count), and with
  the balance thread, step by step: the two loops over the processors, the steals
  (each lock of its own), the shares, the gives. `slice` stands for `markSwitch_`,
  `switchCount_` and the 100 seconds of `isBlocking()`. It begins when `start()` has
  created the processors.
* `MCScheduler` - symmetry and view for `Scheduler`.
* `SchedulerProofs` - theorems about `Scheduler`; extends `ProcessorProofs`.
* `SequenceLemmas` - what the operations on queues do to the elements of a queue, and
  what `FlattenSeq` makes of a sequence of buffers; used by all proofs about queues.
* `Reactor` - one descriptor, the hooked calls that wait on it (`DoIo`, `Poll`), its
  `ReactorElement`, the reactor thread and `close()`. A vector of waiters is named by
  the events it is for. `fresh[t]` abstracts the suspension of `Processor`: true until
  the first wake-up, and `FreshWakeUp` is why later ones need not be modelled. What the
  code does under the element's mutex is one step; looking the element up and using
  the raw pointer are two. `ready`, `interest` and `queued` are the kernel: readiness,
  registration, and the ready list of edge-triggered epoll, on which `EPOLL_CTL_ADD`
  and `MOD` put a descriptor that is ready already.
* `MCReactor` - the calls of the model's two tasks.
* `ReactorProofs` - theorems about `Reactor`.
* `UriGrammar`, `Ip6Address` - the machine Ragel generates from `uri.rl`, as edges between
  named places of the grammar with the actions they run. `Ip6Address` gives the states of
  a bracketed address as tuples (groups, gap, digits, octet) instead of one by one; the
  request parser uses it too. A class of characters has one or two members.
* `UriParser` - `Uri::Create`: one step per character, on a string put together from
  parts, so that the properties can compare what is stored with what was written. A string
  cut from a null `mark` is `undefined`, a failing `LexicalCast` is `throws`.
* `MCUriExamples` - the example of `include/net/uri.h:2` and an IPv6 address of RFC 3986, in
  turn.
* `HttpParser` - what the two parsers of messages share: edges, marks, headers.
* `HttpRequestParser`, `HttpResponseParser` - the machines of `http11_parser.rl` and
  `http_client_parser.rl` with the callbacks of `http_parser.cc`, as operators: `Execute`
  is one call of `execute()` on a buffer. In the response's machine a state is a set of
  places, because a header line is read as any header and as a known one at once. `SP`,
  `CR`, `LF`, `NUL`, `LBR`, `RBR` and `SEMI` are the characters that have no letter: space,
  line end, zero, brackets and semicolon.
* `HttpSession` - one connection of the server: reads of any size, `recvRequest`, the
  choice of the servlet, `sendResponse`, keep-alive, and the client that writes requests.
  `HttpSessionProofs` - theorems about it and about the parser it uses.
* `HttpConnection` - `recvResponse` with the reads of its socket, with and without chunks.
* `HttpConnectionPool` - `getConnection` and `doRequest` by several callers, and a server
  that answers late or never. Connecting and the unlocked `emplace_back` are two steps, and
  so are closing a connection in `recvResponse` and asking its socket for an address after
  that, between which another caller may erase it. `HttpClientProofs` - theorems about both
  and the parser.
* `AsyncLog` - what a file log promises; `FileLogAppender` - the appender behind its
  Logger: threads that log, the consumer thread, the buffers that go round, the buffer of
  the `FILE`, the destructor. `FileLogAppender!Promise` is the refinement mapping:
  `written` is the file, `logged` is the file and everything on its way, oldest first.
* `ConfigVar` - setters in two steps (announce, store), listeners, some of which throw, and
  their keys: `sFunId` is shared with all variables of the type (`AddElsewhere`).
* `ByteArray` - blocks, the first of which has any size, the writer's and the reader's place.
* `LibraryProofs` - theorems about `FileLogAppender` (the refinement among them), `ConfigVar`,
  `ByteArray`, and about the run of these three side by side.
* `MCNet` (with `MCUriInputs`, `MCHttpPlans`, `MCClientResponses`) and `MCLibrary` - run
  parts that share no step side by side: `part` says which one a behaviour belongs to. No
  interleaving is lost, because no variable of one is read by another. They extend the
  modules whose properties are proved as well, and instantiate the others.
* `MCHttp` - `HttpSession` alone, for the run that shows a torn token.

Undefined behaviour is a choice over outcomes. An element used after `close()` has freed it
ends the behaviour (`freed`). The erase that `reset()` does without `mutex_` may miss its
element if another access to the set overlapped it (`raced`). The push that the deleter does
without the lock of `runQue_` may be lost if another access overlapped it (`torn`, `lost`).
An erase from `waitSet_` that overlaps the emplace of `suspendBySelf` (they lock different
mutexes) may miss its element. The `emplace_back` of the pool runs without the mutex of
`getConnection` (`src/net/http/http_connection.cc:323`): if another access overlapped it,
this push and any later one may be lost to the list (`tornList`), while its caller goes on
with the connection. A connection that was erased between its close and its caller's
`getRemoteAddress` (`:408`) is used when freed; what that returns is text that nothing
depends on, or it ends the program, and nothing is claimed of it. `sFunId` of `addListener`
is one static counter under the many mutexes of the variables: it may go on from an older
value, so that a key is used twice and the second listener is dropped. `ByteArray` allocates
its first block from a `blockSize_` that is not set yet (`src/container/byte_array.cc:20`,
order of members in `include/container/byte_array.h:289-297`): the block has any size
(`firstSize`; one that is larger than a block is as good as one of a block's size), and an
access beyond it, or through the null pointer of a reader that has caught up, ends what is
known (`undefined`). If that first `malloc` fails or does not give room for a node, the
constructor itself writes beyond it, and there is no state to speak of. Condition variables
wake spuriously. `NEMO_ASSERT(running_)` of a consumer thread that starts after its appender
is already being destroyed ends the process (`aborted`).

## Runs

| run | asks | bounds | result |
|---|---|---|---|
| `timer` | `NoOversleep`, `InvokeMutexOwner`, `CanceledNeverStarts`; `TimerLeavesSet`, `CancelReturns`, `StopReturns` | 2 timers, times 0..1, loop interval 2 | hold |
| `timer_equal` | `EveryTimerFires` | 2 timers, times 0..1, add only | violated: a timer with the time point of another is never armed |
| `processor` | `OneOwner`, `FreshWakeUp`, `NoLostAdd`, `NextTaskKept` | 2 processors, 2 tasks suspending twice, added alone, as a list of two or as a range, timer and reactor threads | hold |
| `processor_wake` | `WokenTaskRuns` | 1 processor, 1 task, 1 thread | violated: the notification precedes the push |
| `scheduler` | `SchedOneOwner`, `NoLostAdd`, `NoGiveToBlocked`, `RestIsSmall`, `CountCovers` | 2 processors, 2 tasks that do not suspend, added alone or as a list by two calls at once, 2 rounds | hold |
| `scheduler_steal` | `SuspendAsserts` | 2 processors, 1 task suspending twice, 1 round | violated: a woken task that has not yielded is stolen and runs twice |
| `reactor` | `InterestIsExact`, `NoLostEvent`, `NoFalseTimeout`, `NoStrandedWaiter`, `EventWakes` | a timed reader, a task that reads or waits for IN and OUT, descriptor opened twice | hold |
| `reactor_block` | `NoThreadBlocks` | the same tasks, descriptor opened once | violated: another reader empties the descriptor between Poll and the blocking read |
| `uri_create` | `UrisAreCreated` | two URIs, one after the other | violated: `Create` throws at a port that a path follows, and refuses the address `[a::1]` |
| `request_split` | `RequestInAnyPieces` | as `net` | violated: a token that two reads share is stored without its first part |
| `net` | `PartsAsWritten`, `PromiseKeptButAtPort`, `NullWhenRefused`; `RequestAsSent`, `LostOnlyWhenPipelined`, `EveryRequestAnswered`; `ResponseAsSent`, `EndIsKnown`; `OwnAnswer` | about 3,700 URIs; plans of 1 or 2 requests, buffer of 30, 2 short reads; 16 responses, buffer of 28; 2 callers with 2 requests each, 3 connections | hold |
| `library` | `LogKeepsPromise`, `BuffersKept`; `ToldOfValue`; `ReadBack` | 2 threads logging 4 lines of size 1, 2 and 4 into buffers of 3; 3 values, 2 setters with 2 calls, 2 listeners, 2 keys; 9 bytes in blocks of 3, operations of up to 7 | hold |

`net` and `library` also check the type invariants of their parts; the other passing
runs check that of their module.

Why the bounds are enough: two timers give equal and different time points and both orders.
Two points of time separate what is due from what is not; the loop interval lies beyond
both, so that `nextCheckAbstime_` is at times a timer's and at times that of the interval.
The four safety properties of the timer are proved for all bounds. Two suspensions are
needed for a late wake-up to meet a later suspension, two waking threads for two copies of
one entry. Two rounds are needed for the balance thread to mark a processor and then find it
blocking; two tasks, for one to run while the other waits behind it and is stolen, and for a
list that hides one of them from `taskCount_`; two calls, for two to choose processors
before either has added. What larger numbers could show of shares and of ownership is proved
for all. States are taken up to what the run cannot tell apart (`View` of `MCScheduler`:
`processor_` of tasks that do not suspend, how a task ended, and the two counters but for
their sum). `SizeMax` is 2^30, for the 2^64 values of `size_t`: TLC's integers have 32 bits,
and what wraps is far from any length of a queue with either. Two opens let events fetched
for one descriptor meet the next one with its number; the two tasks fill vectors that share
an event. The URIs combine every part that is empty, plain, escaped or misleading with every
other. The buffers of the two HTTP parts are as small as lets one header line fit, so that
reads end at every place between two tokens; the responses have chunks that fit the buffer,
end with it and exceed it. Once a read has torn a token the others return all they can: what
follows is not what the properties are about. Four lines let the loggers run two buffers
ahead of the consumer, and a line of size 4 fits no buffer. Two setters overlap in either
order; with two keys a listener can be dropped because another variable's listener was given
its key. Operations of up to 7 bytes cross two ends of blocks of 3, or fill them exactly.
Two requests per caller are needed for one to meet the late answer to the other. Deadlock is
not checked in the reactor's runs: after an element is used when freed the program is gone,
and after the last open every task may have been left behind by a close. Nor is it in `net`
and `library`, where a parser stops at the end of its input and a connection, an appender or
a caller with nothing left to do is at its end.

Fairness. In `RoutineSyncTimer`: the timer thread, time, and a cancel, reset or stop that
has begun go on (weak fairness: the operating system schedules every thread that can run,
callbacks return). Nobody has to call anything. In `Processor`: processors and wake-ups in
progress go on, and the code of a task does not keep its thread for ever (strong fairness,
because it may be inside `WakeUp` at times). Nothing is assumed of what a task does: tasks
that yield to each other for ever starve those in `newQue_`, so no property says that an
added task runs. Wake-ups are never assumed to happen. In `Reactor`: the reactor's thread
goes on; no event, time-out or call is assumed. In `HttpSession`: the coroutine that handles
a client goes on while there is something to do for it; clients need not send. In
`FileLogAppender`: the consumer thread is scheduled, and its `wait_for` ends within a second
by itself; a thread that has begun `start()` or the destructor goes on. That is what
`AsyncLog` needs for its own fairness, that lines do not wait for ever in a process that
lives. The composed modules restate these assumptions for the part that runs.

What the properties say of the code where it differs from what one expects:

* `RequestAsSent` and `ResponseAsSent` exclude reads that end inside a token, because
  both parsers reset their marks in every call of `execute()` (`request_split`). A chunk's
  header counts as one token: it is parsed from the start in every call.
* `LostOnlyWhenPipelined`: what follows a request in the buffer is thrown away with it.
* `OneOwner`: a task that the deleter's unlocked push has dropped (`lost`) has no owner; any
  other task that lives has one. `NoLostAdd` is about tasks added one by one or as a list:
  `addTask(first, last)` (`include/coroutine/processor.h:226-240`) notifies nobody, and its
  tasks may lie in `newQue_` while the processor sleeps. The scheduler does not use it.
* `CountCovers`: `onAdd` counts a list as one task and `onErase` every task of it, so
  `taskCount_` may fall below the number of tasks, and below zero, by what lists have hidden.
* `PromiseKeptButAtPort` says where the promise of `include/net/uri.h:29`, a `Uri` or
  nullptr, is kept: everywhere but at a port. `save_port` converts everything from the port
  to the end of the string, so a port that something follows throws; and an empty port of a
  URI with a scheme leaves `mark` null for the path. `NullWhenRefused` names what is
  answered with nullptr: malformed addresses, and well-formed ones that `uri.rl` refuses
  because the groups before `::` must be exactly as many as its rules say. `uri_create`
  shows that both divergences are reached, by the repository's own example and by an address
  of RFC 3986.
* `ResponseAsSent` admits that extensions of chunks are stored as headers of the response.
* `OwnAnswer` excludes connections that two callers used at once: `getConnection` leaves a
  connection in the list while it is used, so that they may take each other's answers. It
  says nothing of a caller that has closed its connection. The limits of the pool play no
  part: `createTime_` is never set, and `maxSize_` and `maxRequest_` are never read.
* `ToldOfValue` excludes a listener that is added between the announcement and the store of
  a value: it begins with the old value and is not told of the new one. `addListener`
  returns `sFunId` after the increment (`include/common/config.h:222-224`), the key of the
  next listener, although its comments call it the id to delete by; `DelListener` does what
  the code does with it. When two setters overlap, the value that is announced last need not
  be the one that is stored last. A listener that throws keeps the value from being stored,
  and those after it from hearing of it.
* `LogKeepsPromise` drops a line that is longer than a buffer, as `Buffer::append` does. The
  buffer of the `FILE` is written out whenever it is full, amid the lines of a buffer, so a
  step of `AsyncLog` may write any number of lines; no write fails.
* `ReadBack` admits what follows a first block that is too small, and a null pointer after a
  reader has caught up with the writer at the very end of a block, where `currentNode_`
  becomes null for good, though `include/container/byte_array.h:179-186` has `read` succeed
  or throw `out_of_range`. It says nothing of a reader that believes `getReadableBytes()`:
  nothing moves `currNodeIndex_`, so that bytes which were read still count.

The passing scheduler run leaves out suspension, because stealing a woken task breaks
single ownership (that is `scheduler_steal`); the processor run has suspension and no
stealing.

## Proofs

`RoutineSyncTimerProofs`, for every set of timers, bound on time and loop interval:
`TypeOK`, `NoOversleep`, `InvokeMutexOwner` and `CanceledNeverStarts`. The inductive
invariant adds that a timer whose caller has erased it is not in the set (`OutsideSet`:
otherwise `tp` could change under the set's order while the thread sleeps, and a
cancelled timer could fire), that a caller between lock and unlock and the thread
between try_lock and unlock do hold the mutex (`MutexHeld`), and that the thread lives
only between start and stop (`OneThread`).

`ProcessorProofs`, for any processors, tasks, waking threads and number of
suspensions: `TypeOK`, `NoLostAdd`, `OneOwner`, `FreshWakeUp` and `NextTaskKept`.

* For `NoLostAdd` the invariant adds that a task that runs, is suspended or is being
  woken has a processor (`HasProcessor`), and that a task in newQue_ that the processor
  has not looked at yet is covered by a notification, kept in `notified_` or delivered
  (`NotedAdd`): this covers the window between the drain of newQue_ and the wait.
* `OneOwner` counts the owners of a task that was not dropped, and says too little of each
  to be inductive: it does not tell which owner a step may take from. `Owned` says it owner
  by owner: a task is in one queue, once (`QueuesApart`); the place of a processor's thread
  tells the state of the task it runs (`RunningState`); a task in newQue_ or runQue_ has an
  owner besides only if it was woken before it has yielded (`NewOwned`, `RunOwned`);
  nextTask_ is held only from suspendBySelf to the switch (`NextOwned`, the reason for
  `NextTaskKept`); and a control block that is alive belongs to a task that nobody else
  holds, and there is one per task, that of its current suspension (`SharedOwned` and
  `FreshWakeUp`). `AllHeld` adds that no task is without owner. `OneOwner` follows.

`SchedulerProofs`, for any number of processors, tasks, calls of addTask with lists of any
length, and rounds of the balance thread, in three layers with the assumptions each needs:

1. With tasks that suspend or not: `NoGiveToBlocked`, `NoLostAdd` and `SchedTypeOK`, from
   `BaseInv`. It
   carries the processors' invariant over the steals and gives, and says that a processor
   the round has found blocking stays out of service until the round's second loop has
   passed it (`Looks`).
2. With tasks that do not suspend (`MaxSuspends = 0`): `SchedOneOwner` and
   `CountCovers`. The assumption is not one of convenience: with one suspension
   `SchedOneOwner` is false, because a woken task that has not yielded is stolen
   (`scheduler_steal`). The invariant extends `Owned` by the hand of the balance thread
   (`HandOwned`: what it holds is held by nobody else) and by when the hand is empty
   (`HandEmpty`). `taskCount_` is decreased after a task has ended and before the next one
   runs, so the invariant counts the tasks that live and those whose processor is
   between the two (`Counted`), and what lists hid is on the other side.
3. Also with fewer than `SizeMax / 2` tasks (`TasksFit`; `SizeMax` is the number of values
   of `size_t`, any positive number for the proof, and a task takes more than two bytes of
   memory): `RestIsSmall`. The shares are differences of unsigned numbers, computed from
   loads that are stale when the tasks are stolen and given. `Short(avg, j, k)` is what the
   processors from j+1 to k lack of the average, as an integer. While it steals, the thread
   holds no more than what the processors behind it had above the average (`StealFits`);
   while it gives, less than what those ahead of it lack and one per processor (`GiveFits`).
   Hence no difference wraps and the rest is smaller than the number of processors, even if
   the queues have changed since their sizes were read: a steal takes what is left, and a
   give may give less than its share.

`ReactorProofs`, for any tasks, calls and number of opens: `TypeOK`, `InterestIsExact`,
`NoLostEvent`, `NoFalseTimeout` and `NoStrandedWaiter`. `NoLostEvent` is not inductive:
an event in the reactor thread's hands may wake one vector and not another that is
registered for the same events. The invariant says it event by event (`NoLostEdge`),
with the registration equal to `event_` (`ElementInv`) and to the union of what the
vectors wait for (`EventExact`); that a trigger which leaves the registration alone has
woken nobody follows from the two. The kernel's part (epoll) is an assumption: it is
modelled from its documented behaviour.

`LibraryProofs`, in three parts and their sum. For any values, setters and listeners: the
type invariant of `ConfigVar` and `ToldOfValue`. It is not inductive because a setter stores
what it announced earlier. The invariant says the same of every value a setter is going to
store: each listener that was not `late` has been told of it (`Heard`). And, for blocks and
operations of any size: the type invariant of `ByteArray` and `ReadBack`. And for a first
block of any size: once a cell beyond it is touched the array is `undefined`, before that
the missing cells hold nothing. The invariant says which byte is in which cell (`Blocks`)
and that the reader's place is behind what was read (`Reader`), both by the number of bytes
before a place, which does not depend on how writes and reads are cut.

Also in `LibraryProofs`, for any threads, lines and sizes and any size of a buffer: the type
invariant, `BuffersKept`, and the refinement of `AsyncLog` except for its liveness
(`ImplementsAsyncLog`): the initial state is one of the abstract log and every step is one
of its steps or a stutter, so that no line is lost, doubled or overtaken by another of the
same or of another thread, up to the last line written by the destructor. The invariant says
that a full buffer waits whenever the next buffer is gone (`FrontBuffers`), that the
consumer gets back from what it writes what it gave away (`BackBuffers`), and that only one
consumer is ever started (`OneConsumer`). The steps are grouped by what they do to the lines
on their way: those that add one, those that only move lines (swap, flush, hand-over: the
concatenation stays the same, by the lemmas about `FlattenSeq`), and those that write
(`WriteBuffer` cuts the lines at any place, `SplitConcat`). `LibraryTypeCorrect` is the type
invariant of `MCLibrary`, whatever part runs: the invariants of the parts hold together,
since a step of one part leaves the variables of the others as they are.

`HttpSessionProofs`, for any buffer size, any number of reads and any cuts: `RequestAsSent` and
`LostOnlyWhenPipelined`. What is assumed of the requests (`PlansAssumption`, which TLC
evaluates for the plans of `net`) is about their texts only: the parser, given the whole
text of a request at once, stores what the client meant and ends where the request ends, and
no line of it begins with a CR that is not part of a line end. What is proved is that nothing
depends on how the text arrives.

* `PieceByPiece` is about the parser alone. `execute()` on a buffer that begins in the
  middle of a text does, character by character, what one run over the whole text does: same
  state, same request, positions shifted. The marks are the exception, they are reset to the
  beginning of the buffer. So the simulation relates a mark only where it is live, that is
  in the states from which an action that uses it can come before one that sets it; that no
  edge of the table makes a mark live that was neither live before nor set by the edge is
  checked group by group. Where a read ends between two tokens no mark is live. What the
  code does with a read that ends inside a token is not excluded, it is what `torn` records.
* `SessionInv` says that, unless a token was torn or bytes were thrown away, what the server
  has read, what it holds and what is on its way are together the texts of the plan, in step
  with the number of answers (`InStep`): in the headers the parser is where the run over
  the whole text is, in the body the body is a prefix of the one that was sent and what is
  missing is what is to come. That `LostOnlyWhenPipelined` is one of its conjuncts
  is not for convenience: only as long as nothing was thrown away is the next character the
  first of the next request.

`HttpClientProofs`, in two parts. For any buffer size, any reads and any cuts:
`ResponseAsSent` and `EndIsKnown`. As for the requests, what is assumed of the responses
(`ResponsesAssumption`, which TLC evaluates for those of `net`) is about their texts only.
The parser, given the whole text of a well-formed response at once, stores what the server
meant and ends where the head ends; given all from the k-th chunk on, it stores the chunk's
size and extension and ends where its data begins; a malformed one it refuses; and no line
behind a known header without a value begins as that value would (`Unfolded`): the grammar
skips line ends in front of a value, so that what it takes for one would stand in two lines.
What is proved is that `recvResponse` puts the response together however it arrives.

* Its `PieceByPiece` is the simulation for this machine, whose state is a set of places: a
  mark is live if it is in one of them, and the actions of all edges of a step run together
  (`LiveAlongMoves`, from `EdgeOK` of every edge). At the beginning and in the header of a
  chunk the machine is in one place (`SingleEdges`), which is why a field that begins there
  forgets nothing of another.
* `ConnectionInv` says in which place of the response `recvResponse` is (`loop`), until a
  read cuts a token: in the head, the parser is where the run over the whole text is
  (`AtHead`); before a chunk, the body is the data of the chunks before, and the buffer and
  what is arriving are the text of those from here on (`AtChunk`); in a chunk, what is
  missing is the rest of its data and its line end, wherever the buffer ended (`InChunk`).
  `ResponseAsSent` alone is not inductive, since it says nothing before the last chunk is
  done; with it, `EndIsKnown` follows from the count of what is missing.

For any callers, connections and number of requests: the type invariant of the pool and
`OwnAnswer`. The invariant describes the line of a connection that was never shared: one
user (`OneUser`), and nothing on its way but the request of the caller that waits on it or
the answer to that (`OnlyOwn`). A connection that is still on its way into the list is in
nobody else's hands (`Pushing`), whatever the list loses; and what `getConnection` destroys,
or a caller has closed, stays closed (`Closed`). That a caller whose time is up closes its
connection is what keeps it: the late answer has nobody left to reach.

Assumptions on the constants: model values differ from what they stand beside (no task, no
processor, no connection, no buffer), bounds are natural numbers, the set of processors is
0..n-1 for some n > 0 as the vector of processors is, a buffer and a line have a size. They
are `InitialAssumption`, `BytesAssumption`, `PoolAssumption`, `LogAssumption`, `PartsAssumption`
(these together), `PlansAssumption`, `ResponsesAssumption`, `BuffSizeAssumption`,
`ResponseBuffSizeAssumption`, or ASSUMEs of the modules. Those that the modules under
`MCNet` and `MCLibrary` need are named definitions, which these two assume.

`FlattenSeq` and `SumLoads` are recursive functions over the length of a sequence. What the
proofs need of them is proved with `FirstPosition`: a property of the positions of a
sequence that fails somewhere fails at a first position, from the well-foundedness of <
on the natural numbers.

Only model-checked: liveness (the runs' temporal properties, the fairness part of
`LogKeepsPromise`), which is out of the prover's reach; what the parsers
compute for every input (`PartsAsWritten`, `PromiseKeptButAtPort`, `NullWhenRefused`, and that a
message in one piece is parsed as it was meant), which needs induction over the input;
and `NetTypeOK` but for the part of the pool: it also speaks of URIs, and of connections on
which a token was cut, where the proofs know nothing of the parser.

## Plan

Done: timer, processor, balance thread, reactor with the hooked calls; URIs, both HTTP
parsers, the server's connection, the client's connection and pool; the file log with its
abstract specification, configuration variables, `ByteArray`. The safety invariants of the
timer, the processors, the balance thread, the reactor, the server's and the client's
connection, the connection pool, the file log, the configuration and `ByteArray` are proved. Next:

1. `start()`/`stop()` of the scheduler; start, accept loop and stop of the TCP server;
   `LruCache`.

## Not modelled

* `start()`/`stop()` of the scheduler; the TCP server. `stop()` destroys processors while
  their threads may run, and joins a thread that `start()` never creates.
* In the hook: `usleep` (waits milliseconds for microseconds), the error numbers of
  `connect` (a refused connection is reported as a time-out), dup2 and dup3 (a descriptor
  element left in the table answers for the new file), amounts of data.
* In HTTP: cookies, parameters, the text of requests and responses that are sent,
  servlets that are added while the server runs, the static `DoRequest` functions (which
  drop the response they receive).
* In the scheduler: empty lists given to addTask (they count as a task that never ends), and
  that `taskCount_` is modulo 2^64. `onAdd`, which comes before the push, is in one step with
  it: between the two the count would only be higher.
* In logging: writes that fail (`src/util/file_appender.cc:30-36` drops the rest of the
  buffer, and the log goes on), rolling and naming of files, other appenders, the logger
  tree and the reload of its configuration. In the configuration: the registry and YAML. In
  the containers: the encodings on top of `ByteArray`, its iovec buffers and files, `Buffer`
  but for `append`, `LruCache`, the intrusive list.
* The order in which ready tasks run: the loop takes the front of `newQue_` before older
  tasks of `runQue_` when a task has ended, against the "first come, first served" of the
  comment at `src/coroutine/processor.cc:300`.
* The assembly of the context switch, the formatter of log lines, addresses, the database
  layer and the ORM, daemon mode and modules: conversions, I/O or other people's code,
  without concurrent state of their own. `PROJECT.json` lists them with the reason.
