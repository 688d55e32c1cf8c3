--------------------------- MODULE FileLogAppender ---------------------------
(***************************************************************************)
(* FileLogAppender (src/log/log_appender.cc) behind its Logger             *)
(* (src/log/logger.cc): threads that log fill buffers, and a consumer      *)
(* thread writes the buffers to a FileAppender (src/util/file_appender.cc).*)
(*                                                                         *)
(* A buffer is the sequence of the lines in it; a line is its number and   *)
(* its size.  Which file a line goes to is left out, and writes that fail. *)
(***************************************************************************)
EXTENDS Integers, Sequences, SequencesExt, FiniteSetsExt

CONSTANTS
    Producers,  \* the threads that log
    NoProducer, \* nobody holds the mutex of the Logger
    NoBuffer,   \* nullptr
    Capacity,   \* EXEC_PAGESIZE
    Sizes,      \* of lines
    MaxLines    \* bound: lines that are logged

CapacityAssumption == Capacity \in Nat \ {0} /\ Sizes \subseteq Nat \ {0}

VARIABLES
    lines,     \* how many lines were logged
    owner,     \* who holds Logger::mutex_
    starting,  \* the producer in it has found running_ false
    running,   \* running_
    curr,      \* currBuff_
    next,      \* nextBuff_
    buffers,   \* buffers_
    thread,    \* where the consumer thread is
    new1, new2,\* newBuff1 and newBuff2 of consumeFunc
    batch,     \* buffsToWrite
    index,     \* how many of batch are written
    out,       \* the lines in the buffer of the FILE
    disk,      \* the lines in the file
    appender   \* the appender is "open", "stopping" or "closed"

logVars == <<lines, owner, starting, running, curr, next, buffers, thread, new1, new2, batch, index,
            out, disk, appender>>

LogTypeOK ==
    /\ lines \in 0..MaxLines
    /\ owner \in Producers \cup {NoProducer}
    /\ {starting, running} \subseteq BOOLEAN
    /\ thread \in {"none", "begin", "check", "lock", "write", "last", "write last", "ended", "aborted"}
    /\ index \in 0..Len(batch)
    /\ appender \in {"open", "stopping", "closed"}

LogInit ==
    /\ lines = 0 /\ owner = NoProducer /\ starting = FALSE /\ running = FALSE
    /\ curr = <<>> /\ next = <<>> /\ buffers = <<>>
    /\ thread = "none" /\ new1 = <<>> /\ new2 = <<>> /\ batch = <<>> /\ index = 0
    /\ out = <<>> /\ disk = <<>> /\ appender = "open"

alive == thread # "aborted"

Size(buffer) == FoldLeft(LAMBDA n, line : n + line[2], 0, buffer)

\* A fixed Buffer takes a line that fits, and otherwise nothing.
AppendTo(buffer, line) == IF Capacity - Size(buffer) < line[2] THEN buffer ELSE Append(buffer, line)

\* Logger::log has locked the mutex, and log() looks at running_.
LogEnter(p) ==
    /\ appender = "open" /\ alive /\ owner = NoProducer
    /\ owner' = p /\ starting' = ~running
    /\ UNCHANGED <<lines, running, curr, next, buffers, thread, new1, new2, batch, index, out, disk, appender>>

Start ==
    /\ starting /\ alive
    /\ starting' = FALSE /\ running' = TRUE /\ thread' = "begin"
    /\ UNCHANGED <<lines, owner, curr, next, buffers, new1, new2, batch, index, out, disk, appender>>

\* A line goes to the current buffer if it is shorter than what is left; else the current
\* buffer is full and the line goes to the next one, or to a new one.
LogLine(s) ==
    /\ owner # NoProducer /\ ~starting /\ alive
    /\ lines < MaxLines /\ lines' = lines + 1
    /\ LET line == <<lines + 1, s>> IN
        IF Capacity - Size(curr) > s
        THEN curr' = Append(curr, line) /\ UNCHANGED <<next, buffers>>
        ELSE /\ buffers' = Append(buffers, curr)
             /\ curr' = AppendTo(IF next = NoBuffer THEN <<>> ELSE next, line)
             /\ next' = NoBuffer
    /\ owner' = NoProducer
    /\ UNCHANGED <<starting, running, thread, new1, new2, batch, index, out, disk, appender>>

\* The level of the line is below that of the appender.
LogNothing ==
    /\ owner # NoProducer /\ ~starting /\ alive
    /\ owner' = NoProducer
    /\ UNCHANGED <<lines, starting, running, curr, next, buffers, thread, new1, new2, batch, index,
                   out, disk, appender>>

\* consumeFunc asserts that running_ is true.
ConsumeBegin ==
    /\ thread = "begin"
    /\ thread' = IF running THEN "check" ELSE "aborted"
    /\ UNCHANGED <<lines, owner, starting, running, curr, next, buffers, new1, new2, batch, index,
                   out, disk, appender>>

ConsumeCheck ==
    /\ thread = "check"
    /\ thread' = IF running THEN "lock" ELSE "last"
    /\ UNCHANGED <<lines, owner, starting, running, curr, next, buffers, new1, new2, batch, index,
                   out, disk, appender>>

\* Under mutex_, at once or when wait_for has returned, which it does within a second.
ConsumeSwap ==
    /\ thread = "lock"
    /\ batch' = Append(buffers, curr) /\ buffers' = <<>>
    /\ curr' = new1 /\ new1' = NoBuffer
    /\ IF next = NoBuffer THEN next' = new2 /\ new2' = NoBuffer ELSE UNCHANGED <<next, new2>>
    /\ index' = 0 /\ thread' = "write"
    /\ UNCHANGED <<lines, owner, starting, running, out, disk, appender>>

\* One turn of write(): the FILE writes its buffer out when it is full, which may be amid the
\* lines, when a new file is begun and when it is flushed. No write fails: FileAppender would
\* drop the rest of the buffer (file_appender.cc:30-36).
WriteBuffer ==
    /\ thread \in {"write", "write last"} /\ index < Len(batch)
    /\ index' = index + 1
    /\ LET all == out \o batch[index + 1] IN
        \E n \in 0..Len(all) :
            disk' = disk \o SubSeq(all, 1, n) /\ out' = SubSeq(all, n + 1, Len(all))
    /\ UNCHANGED <<lines, owner, starting, running, curr, next, buffers, thread, new1, new2, batch, appender>>

\* The buffers of the consumer that were handed over without clear().
NotCleared ==
    LET two == IF Len(batch) > 2 THEN SubSeq(batch, 1, 2) ELSE batch
        rest == IF new1 = NoBuffer THEN Front(two) ELSE two
    IN /\ new1' = IF new1 = NoBuffer THEN Last(two) ELSE new1
       /\ new2' = IF new2 = NoBuffer THEN Last(rest) ELSE new2

\* One of the two buffers kept instead of two.
OneKept ==
    LET two == IF Len(batch) > 1 THEN SubSeq(batch, 1, 1) ELSE batch
        rest == IF new1 = NoBuffer THEN Front(two) ELSE two
    IN /\ new1' = IF new1 = NoBuffer /\ two # <<>> THEN <<>> ELSE new1
       /\ new2' = IF new2 = NoBuffer /\ rest # <<>> THEN <<>> ELSE new2

\* At most two of the buffers that were written are kept; they replace, cleared, those
\* the consumer has given away.
Refill ==
    LET two == IF Len(batch) > 2 THEN SubSeq(batch, 1, 2) ELSE batch
        rest == IF new1 = NoBuffer THEN Front(two) ELSE two
    IN /\ new1' = IF new1 = NoBuffer /\ two # <<>> THEN <<>> ELSE new1
       /\ new2' = IF new2 = NoBuffer /\ rest # <<>> THEN <<>> ELSE new2

Flush == disk' = disk \o out /\ out' = <<>>

ConsumeFlush ==
    /\ thread = "write" /\ index = Len(batch)
    /\ Refill /\ Flush
    /\ batch' = <<>> /\ index' = 0 /\ thread' = "check"
    /\ UNCHANGED <<lines, owner, starting, running, curr, next, buffers, appender>>

\* What destructor and consumer do in the end with a buffer that has lines in it.
HandOver(buffer) == IF buffer \in {NoBuffer, <<>>} THEN <<>> ELSE <<buffer>>

Left(buffer) == IF HandOver(buffer) = <<>> THEN buffer ELSE NoBuffer

ConsumeLast ==
    /\ thread = "last"
    /\ batch' = buffers \o HandOver(curr) \o HandOver(next)
    /\ curr' = Left(curr) /\ next' = Left(next)
    /\ buffers' = <<>> /\ index' = 0 /\ thread' = "write last"
    /\ UNCHANGED <<lines, owner, starting, running, new1, new2, out, disk, appender>>

ConsumeEnd ==
    /\ thread = "write last" /\ index = Len(batch)
    /\ Flush
    /\ batch' = <<>> /\ index' = 0 /\ thread' = "ended"
    /\ UNCHANGED <<lines, owner, starting, running, curr, next, buffers, new1, new2, appender>>

\* clearAppenders() destroys the appender: stop() up to the join.
Stop ==
    /\ appender = "open" /\ owner = NoProducer /\ alive
    /\ appender' = "stopping" /\ running' = FALSE
    /\ UNCHANGED <<lines, owner, starting, curr, next, buffers, thread, new1, new2, batch, index, out, disk>>

\* The rest of the destructor, when the thread has ended or was never started; it ends
\* with that of the FileAppender.
Destroy ==
    /\ appender = "stopping" /\ thread \in {"none", "ended"}
    /\ appender' = "closed"
    /\ disk' = disk \o out \o FlattenSeq(buffers \o HandOver(curr) \o HandOver(next))
    /\ out' = <<>> /\ buffers' = <<>> /\ curr' = NoBuffer /\ next' = NoBuffer
    /\ UNCHANGED <<lines, owner, starting, running, thread, new1, new2, batch, index>>

Consume ==
    \/ ConsumeBegin \/ ConsumeCheck \/ ConsumeSwap \/ WriteBuffer \/ ConsumeFlush
    \/ ConsumeLast \/ ConsumeEnd

LogNext ==
    \/ \E p \in Producers : LogEnter(p)
    \/ Start \/ LogNothing \/ \E s \in Sizes : LogLine(s)
    \/ Consume \/ Stop \/ Destroy

\* The consumer thread is scheduled, and a thread in log() goes on.
LogSpec == LogInit /\ [][LogNext]_logVars
           /\ WF_logVars(Consume) /\ WF_logVars(Start) /\ WF_logVars(Destroy)

-----------------------------------------------------------------------------

Held(buffer) == IF buffer = NoBuffer THEN <<>> ELSE buffer

\* The lines that are somewhere between log() and the file, oldest first.
Pending ==
    out \o FlattenSeq(SubSeq(batch, index + 1, Len(batch))) \o FlattenSeq(buffers)
    \o Held(curr) \o Held(next)

Promise == INSTANCE AsyncLog WITH logged <- disk \o Pending, written <- disk

\* The appender keeps the promise of a log, though lines move from buffer to buffer under
\* two mutexes, one of them not its own: no line that fits a buffer is lost, doubled or
\* overtaken, on the way or when the appender is destroyed, and the consumer, which also
\* wakes up by itself, writes every line in the end.
LogKeepsPromise == Promise!Spec

\* Buffers change hands without being lost: the consumer always gets two empty ones back
\* before it next asserts that it has them, log() and the consumer never find the current
\* buffer gone, only one consumer is ever started, and a destroyed appender has written
\* all it was given.
BuffersKept ==
    /\ thread \in {"check", "lock"} => new1 = <<>> /\ new2 = <<>> /\ batch = <<>>
    /\ appender = "open" => curr # NoBuffer
    /\ starting => thread = "none"
    /\ appender = "closed" => Pending = <<>>
=============================================================================
