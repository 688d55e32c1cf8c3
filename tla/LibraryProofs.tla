---------------------------- MODULE LibraryProofs ----------------------------
(***************************************************************************)
(* The parts of the library that MCLibrary runs side by side.              *)
(*                                                                         *)
(* FileLogAppender loses no buffer, and every step of it is one of the log *)
(* that AsyncLog promises, or none: no line is lost, doubled or overtaken  *)
(* between Logger::log and the file.  BuffersKept is not inductive:        *)
(* consumeFunc gets its two buffers back because the next buffer can only  *)
(* be gone when a full one is waiting, and running_ tells whether the      *)
(* thread was started only as long as the appender is open.                *)
(*                                                                         *)
(* A listener of a ConfigVar has heard of the value that is stored,        *)
(* however many threads call setValue at once.  ToldOfValue is not         *)
(* inductive: SetStore stores what was announced earlier, with listeners   *)
(* coming and going in between.  Heard adds the values that are announced  *)
(* and not stored.                                                         *)
(*                                                                         *)
(* A ByteArray gives back the bytes that were written, however writes and  *)
(* reads cut them and whatever the size of a block.  ReadBack says nothing *)
(* of the blocks.  Blocks says which byte is in which cell and where the   *)
(* writer is, Reader where the reader is; both count the bytes before a    *)
(* place (At), which does not depend on how they are cut.                  *)
(***************************************************************************)
EXTENDS MCLibrary, SequenceLemmas

Lines == Nat \X Sizes

Buffer == Seq(Lines)

\* What the theorems assume of the constants.
LogAssumption ==
    CapacityAssumption /\ MaxLines \in Nat /\ NoProducer \notin Producers /\ NoBuffer \notin Buffer

LogTypes ==
    /\ LogTypeOK
    /\ curr \in Buffer \cup {NoBuffer} /\ {next, new1, new2} \subseteq {<<>>, NoBuffer}
    /\ buffers \in Seq(Buffer) /\ batch \in Seq(Buffer)
    /\ out \in Buffer /\ disk \in Buffer

\* One consumer is started, by a producer in log(), and none in a stopped appender.
OneConsumer ==
    /\ owner # NoProducer => appender = "open"
    /\ starting => owner # NoProducer /\ thread = "none"
    /\ appender = "open" => /\ running <=> thread # "none"
                            /\ thread \notin {"last", "write last", "ended", "aborted"}
    /\ running => appender = "open"
    /\ appender = "closed" => thread \in {"none", "ended"}

\* Until the end there is a current buffer, and when the next one was taken a full one waits.
FrontBuffers ==
    appender # "closed" /\ thread \notin {"write last", "ended"} =>
        curr # NoBuffer /\ (next = NoBuffer => buffers # <<>>)

\* What the consumer has given away comes back from what it writes.
BackBuffers ==
    /\ thread \in {"none", "begin", "check", "lock", "last"} => new1 = <<>> /\ new2 = <<>>
    /\ thread \notin {"write", "write last"} => batch = <<>> /\ index = 0
    /\ thread = "write" => batch # <<>> /\ (new2 = NoBuffer => Len(batch) > 1)

AllWritten ==
    appender = "closed" => buffers = <<>> /\ out = <<>> /\ curr = NoBuffer /\ next = NoBuffer

LogInv == LogTypes /\ OneConsumer /\ FrontBuffers /\ BackBuffers /\ AllWritten

-----------------------------------------------------------------------------

LEMMA NullIsNoBuffer ==
  ASSUME LogAssumption
  PROVE  <<>> \in Buffer /\ NoBuffer # <<>> /\ <<>> \in Seq(Buffer)
<1>1. <<>> \in Buffer
  BY DEF Buffer
<1>2. <<>> \in Seq(Buffer)
  BY EmptySeq
<1> QED
  BY <1>1, <1>2 DEF LogAssumption

LEMMA Counted ==
  ASSUME LogAssumption, LogTypes
  PROVE  /\ lines \in 0..MaxLines /\ index \in 0..Len(batch)
         /\ Len(batch) \in Nat /\ MaxLines \in Nat
         /\ lines < MaxLines => lines + 1 \in 0..MaxLines
<1>1. lines \in 0..MaxLines /\ index \in 0..Len(batch)
  BY Zenon DEF LogTypes, LogTypeOK
<1>2. batch \in Seq(Buffer) /\ MaxLines \in Nat
  BY DEF LogTypes, LogAssumption
<1>3. Len(batch) \in Nat
  BY <1>2, LenProperties
<1> QED
  BY <1>1, <1>2, <1>3

LEMMA LogInitInvariant ==
  ASSUME LogAssumption, LogInit
  PROVE  LogInv
<1>1. LogTypes
  <2>1. lines \in 0..MaxLines /\ index \in 0..Len(batch)
    BY DEF LogAssumption, LogInit
  <2>2. LogTypeOK
    BY <2>1 DEF LogInit, LogTypeOK
  <2> QED
    BY <2>2, NullIsNoBuffer DEF LogInit, LogTypes
<1> QED
  BY <1>1, NullIsNoBuffer
  DEF LogAssumption, LogInit, LogInv, OneConsumer, FrontBuffers, BackBuffers, AllWritten

(* Threads and flags change, buffers do not. *)
LEMMA BuffersUnchanged ==
  ASSUME LogInv, UNCHANGED <<curr, next, buffers, new1, new2, batch, index, out, disk>>
  PROVE  /\ LogTypeOK' => LogTypes'
         /\ UNCHANGED <<appender, thread>> => (FrontBuffers /\ BackBuffers /\ AllWritten)'
  BY DEF LogInv, LogTypes, FrontBuffers, BackBuffers, AllWritten

(* log() puts a line that is numbered next into the current or a new buffer. *)
LEMMA LogLinePuts ==
  ASSUME LogAssumption, LogInv, NEW s \in Sizes, LogLine(s)
  PROVE  /\ <<lines + 1, s>> \in Lines /\ curr \in Buffer /\ next \in {<<>>, NoBuffer}
         /\ \/ curr' = Append(curr, <<lines + 1, s>>) /\ UNCHANGED <<next, buffers>>
            \/ /\ buffers' = Append(buffers, curr) /\ next' = NoBuffer
               /\ curr' = <<>> \/ curr' = Append(<<>>, <<lines + 1, s>>)
<1>1. lines + 1 \in Nat /\ <<lines + 1, s>> \in Lines
  BY Counted DEF LogInv, Lines
<1>2. curr \in Buffer
  BY DEF LogInv, LogTypes, OneConsumer, FrontBuffers, LogLine
<1>3. next \in {<<>>, NoBuffer}
  BY DEF LogInv, LogTypes
<1>4. CASE Capacity - Size(curr) > s
  BY <1>1, <1>2, <1>3, <1>4 DEF LogLine
<1>5. CASE ~ (Capacity - Size(curr) > s)
  <2>1. (IF next = NoBuffer THEN <<>> ELSE next) = <<>>
    BY <1>3
  <2>2. /\ buffers' = Append(buffers, curr) /\ next' = NoBuffer
        /\ curr' = AppendTo(<<>>, <<lines + 1, s>>)
    BY <1>5, <2>1 DEF LogLine
  <2> QED
    BY <1>1, <1>2, <1>3, <2>2 DEF AppendTo
<1> QED
  BY <1>4, <1>5

(* What consumeFunc gets back after it has written two buffers or more, or one when *)
(* it has given away one.                                                           *)
LEMMA RefillGivesBack ==
  ASSUME LogAssumption, LogInv, thread = "write", Refill
  PROVE  new1' = <<>> /\ new2' = <<>>
<1> DEFINE two == IF Len(batch) > 2 THEN SubSeq(batch, 1, 2) ELSE batch
           rest == IF new1 = NoBuffer THEN Front(two) ELSE two
<1>1. /\ batch \in Seq(Buffer) /\ batch # <<>> /\ {new1, new2} \subseteq {<<>>, NoBuffer}
      /\ new2 = NoBuffer => Len(batch) > 1
  BY DEF LogInv, LogTypes, BackBuffers
<1>2. /\ new1' = IF new1 = NoBuffer /\ two # <<>> THEN <<>> ELSE new1
      /\ new2' = IF new2 = NoBuffer /\ rest # <<>> THEN <<>> ELSE new2
  BY DEF Refill
<1>3. two \in Seq(Buffer) /\ two # <<>> /\ (Len(batch) > 1 => Len(two) > 1)
  BY <1>1
<1>4. Len(two) > 1 => rest # <<>>
  <2> SUFFICES ASSUME Len(two) > 1, new1 = NoBuffer PROVE Front(two) # <<>>
    BY <1>3
  <2> HIDE DEF two
  <2>1. /\ Len(two) \in Nat /\ 1 \in Int /\ Len(two) - 1 \in Int /\ 1 <= Len(two) - 1
        /\ \A i \in 1..Len(two) - 1 : two[i] \in Buffer
    BY <1>3
  <2>2. Len(SubSeq(two, 1, Len(two) - 1)) = Len(two) - 1
    BY <2>1, SubSeqProperties
  <2>3. Len(SubSeq(two, 1, Len(two) - 1)) # 0
    BY <2>1, <2>2
  <2>4. Len(<<>>) = 0
    OBVIOUS
  <2>5. SubSeq(two, 1, Len(two) - 1) # <<>>
    BY <2>3, <2>4, Zenon
  <2> QED
    BY <2>5 DEF Front
<1> HIDE DEF two, rest
<1> QED
  BY <1>1, <1>2, <1>3, <1>4

(* What destructor and consumer hand over in the end is a buffer or nothing. *)
LEMMA HandedOver ==
  ASSUME LogAssumption, NEW b \in Buffer \cup {NoBuffer}
  PROVE  /\ HandOver(b) \in Seq(Buffer) /\ Left(b) \in Buffer \cup {NoBuffer}
         /\ \/ HandOver(b) = <<>> /\ Held(b) = <<>> /\ Left(b) = b /\ b \in {NoBuffer, <<>>}
            \/ HandOver(b) = <<b>> /\ b \in Buffer /\ Held(b) = b /\ Left(b) = NoBuffer
<1>1. CASE b \in {NoBuffer, <<>>}
  <2>1. HandOver(b) = <<>> /\ Left(b) = b /\ Held(b) = <<>>
    BY <1>1 DEF HandOver, Held, Left
  <2> QED
    BY <1>1, <2>1, NullIsNoBuffer
<1>2. CASE b \notin {NoBuffer, <<>>}
  <2>1. b \in Buffer /\ HandOver(b) = <<b>> /\ <<b>> # <<>>
    BY <1>2 DEF HandOver
  <2>2. <<b>> \in Seq(Buffer)
    BY <2>1
  <2> QED
    BY <1>2, <2>1, <2>2 DEF Held, Left
<1> QED
  BY <1>1, <1>2

LEMMA LogNextInvariant ==
  ASSUME LogAssumption, LogInv, [LogNext]_logVars
  PROVE  LogInv'
<1> USE NullIsNoBuffer
<1>1. LogTypes /\ LogTypeOK /\ OneConsumer /\ FrontBuffers /\ BackBuffers /\ AllWritten
  BY DEF LogInv, LogTypes
<1>2. ASSUME NEW p \in Producers, LogEnter(p)
      PROVE  LogInv'
  <2>1. /\ appender = "open" /\ owner = NoProducer /\ owner' = p /\ starting' = ~running
        /\ UNCHANGED <<lines, running, curr, next, buffers, thread, new1, new2, batch, index, out,
                       disk, appender>>
    BY <1>2 DEF LogEnter
  <2>2. LogTypeOK'
    BY <1>1, <2>1 DEF LogTypeOK
  <2>3. OneConsumer'
    BY <1>1, <2>1 DEF OneConsumer, LogAssumption
  <2> QED
    BY <2>1, <2>2, <2>3, BuffersUnchanged DEF LogInv
<1>3. CASE Start
  <2>1. /\ starting /\ starting' = FALSE /\ running' = TRUE /\ thread' = "begin"
        /\ UNCHANGED <<lines, owner, curr, next, buffers, new1, new2, batch, index, out, disk, appender>>
    BY <1>3 DEF Start
  <2>2. appender = "open" /\ thread = "none"
    BY <1>1, <2>1 DEF OneConsumer
  <2>3. LogTypeOK'
    BY <1>1, <2>1 DEF LogTypeOK
  <2>4. OneConsumer'
    BY <1>1, <2>1, <2>2 DEF OneConsumer
  <2>5. (FrontBuffers /\ BackBuffers /\ AllWritten)'
    BY <1>1, <2>1, <2>2 DEF FrontBuffers, BackBuffers, AllWritten
  <2> QED
    BY <2>1, <2>3, <2>4, <2>5, BuffersUnchanged DEF LogInv
<1>4. CASE LogNothing
  <2>1. /\ ~starting /\ owner' = NoProducer
        /\ UNCHANGED <<lines, starting, running, curr, next, buffers, thread, new1, new2, batch,
                       index, out, disk, appender>>
    BY <1>4 DEF LogNothing
  <2>2. LogTypeOK'
    BY <1>1, <2>1 DEF LogTypeOK
  <2>3. OneConsumer'
    BY <1>1, <2>1 DEF OneConsumer
  <2> QED
    BY <2>1, <2>2, <2>3, BuffersUnchanged DEF LogInv
<1>5. ASSUME NEW s \in Sizes, LogLine(s)
      PROVE  LogInv'
  <2> DEFINE line == <<lines + 1, s>>
  <2>1. /\ owner # NoProducer /\ ~starting /\ lines < MaxLines /\ lines' = lines + 1
        /\ owner' = NoProducer
        /\ UNCHANGED <<starting, running, thread, new1, new2, batch, index, out, disk, appender>>
    BY <1>5 DEF LogLine
  <2>2. appender = "open" /\ thread \notin {"write last", "ended"}
    BY <1>1, <2>1 DEF OneConsumer
  <2>3. line \in Lines /\ curr \in Buffer /\ next \in {<<>>, NoBuffer}
    BY <1>5, LogLinePuts DEF LogInv
  <2>4. \/ curr' = Append(curr, line) /\ UNCHANGED <<next, buffers>>
        \/ /\ buffers' = Append(buffers, curr) /\ next' = NoBuffer
           /\ curr' = <<>> \/ curr' = Append(<<>>, line)
    BY <1>5, LogLinePuts DEF LogInv
  <2> HIDE DEF line
  <2>5. Append(curr, line) \in Buffer /\ Append(<<>>, line) \in Buffer
    BY <2>3 DEF Buffer
  <2>6. buffers \in Seq(Buffer)
    BY <1>1 DEF LogTypes
  <2>7. Append(buffers, curr) \in Seq(Buffer) /\ Append(buffers, curr) # <<>>
    BY <2>3, <2>6, AppendProperties
  <2>8. /\ curr' \in Buffer /\ buffers' \in Seq(Buffer) /\ next' \in {<<>>, NoBuffer}
        /\ next' = NoBuffer => buffers' # <<>>
    BY <1>1, <2>2, <2>3, <2>4, <2>5, <2>6, <2>7 DEF FrontBuffers
  <2>9. LogTypes'
    <3>1. lines' \in 0..MaxLines
      BY <1>1, <2>1, Counted
    <3>2. LogTypeOK'
      BY <1>1, <2>1, <3>1 DEF LogTypeOK, LogAssumption
    <3> QED
      BY <1>1, <2>1, <2>8, <3>2 DEF LogTypes
  <2>10. OneConsumer'
    BY <1>1, <2>1 DEF OneConsumer
  <2>11. FrontBuffers'
    BY <2>8 DEF FrontBuffers, LogAssumption
  <2>12. BackBuffers' /\ AllWritten'
    BY <1>1, <2>1, <2>2 DEF BackBuffers, AllWritten
  <2> QED
    BY <2>9, <2>10, <2>11, <2>12 DEF LogInv
<1>6. CASE ConsumeBegin \/ ConsumeCheck
  <2>1. /\ \/ thread = "begin" /\ thread' = IF running THEN "check" ELSE "aborted"
           \/ thread = "check" /\ thread' = IF running THEN "lock" ELSE "last"
        /\ UNCHANGED <<lines, owner, starting, running, curr, next, buffers, new1, new2, batch,
                       index, out, disk, appender>>
    BY <1>6 DEF ConsumeBegin, ConsumeCheck
  <2>2. LogTypeOK'
    BY <1>1, <2>1 DEF LogTypeOK
  <2>3. OneConsumer'
    BY <1>1, <2>1 DEF OneConsumer
  <2>4. (FrontBuffers /\ BackBuffers /\ AllWritten)'
    BY <1>1, <2>1 DEF FrontBuffers, BackBuffers, AllWritten
  <2> QED
    BY <2>1, <2>2, <2>3, <2>4, BuffersUnchanged DEF LogInv
<1>7. CASE ConsumeSwap
  <2>1. /\ thread = "lock" /\ batch' = Append(buffers, curr) /\ buffers' = <<>>
        /\ curr' = new1 /\ new1' = NoBuffer
        /\ IF next = NoBuffer THEN next' = new2 /\ new2' = NoBuffer ELSE UNCHANGED <<next, new2>>
        /\ index' = 0 /\ thread' = "write"
        /\ UNCHANGED <<lines, owner, starting, running, out, disk, appender>>
    BY <1>7 DEF ConsumeSwap
  <2>2. appender # "closed" /\ new1 = <<>> /\ new2 = <<>>
    BY <1>1, <2>1 DEF OneConsumer, BackBuffers
  <2>3. curr \in Buffer /\ (next = NoBuffer => buffers # <<>>) /\ next \in {<<>>, NoBuffer}
    BY <1>1, <2>1, <2>2 DEF FrontBuffers, LogTypes
  <2>4. buffers \in Seq(Buffer)
    BY <1>1 DEF LogTypes
  <2>5. /\ batch' \in Seq(Buffer) /\ batch' # <<>> /\ Len(batch') = Len(buffers) + 1
        /\ Len(buffers) \in Nat /\ (buffers # <<>> => Len(buffers) > 0)
    BY <2>1, <2>3, <2>4, AppendProperties
  <2>6. next' = <<>> /\ {new1', new2'} \subseteq {<<>>, NoBuffer}
        /\ (new2' = NoBuffer => next = NoBuffer)
    BY <2>1, <2>2, <2>3
  <2>7. LogTypes'
    <3>1. LogTypeOK'
      BY <1>1, <2>1, <2>5 DEF LogTypeOK
    <3> QED
      BY <1>1, <2>1, <2>2, <2>5, <2>6, <3>1 DEF LogTypes
  <2>8. OneConsumer'
    BY <1>1, <2>1 DEF OneConsumer
  <2>9. FrontBuffers'
    BY <2>1, <2>2, <2>6 DEF FrontBuffers
  <2>10. BackBuffers'
    BY <2>1, <2>3, <2>5, <2>6 DEF BackBuffers
  <2>11. AllWritten'
    BY <2>1, <2>2 DEF AllWritten
  <2> QED
    BY <2>7, <2>8, <2>9, <2>10, <2>11 DEF LogInv
<1>8. CASE WriteBuffer
  <2> DEFINE all == out \o batch[index + 1]
  <2>1. /\ thread \in {"write", "write last"} /\ index < Len(batch) /\ index' = index + 1
        /\ \E n \in 0..Len(all) :
              disk' = disk \o SubSeq(all, 1, n) /\ out' = SubSeq(all, n + 1, Len(all))
        /\ UNCHANGED <<lines, owner, starting, running, curr, next, buffers, thread, new1, new2,
                       batch, appender>>
    BY <1>8 DEF WriteBuffer
  <2>2. /\ batch \in Seq(Buffer) /\ index \in 0..Len(batch) /\ Len(batch) \in Nat
        /\ out \in Buffer /\ disk \in Buffer
    BY <1>1, Counted DEF LogTypes
  <2>3. index + 1 \in 1..Len(batch) /\ index + 1 \in 0..Len(batch)
    <3>1. index < Len(batch)
      BY <2>1
    <3> QED
      BY <2>2, <3>1
  <2>4. all \in Buffer
    <3>1. batch[index + 1] \in Buffer
      BY <2>2, <2>3
    <3> QED
      BY <2>2, <3>1 DEF Buffer
  <2> HIDE DEF all
  <2>5. disk' \in Buffer /\ out' \in Buffer
    <3>1. PICK n \in 0..Len(all) :
              disk' = disk \o SubSeq(all, 1, n) /\ out' = SubSeq(all, n + 1, Len(all))
      BY <2>1
    <3>2. SubSeq(all, 1, n) \in Buffer /\ SubSeq(all, n + 1, Len(all)) \in Buffer
      BY <2>4, SplitConcat DEF Buffer
    <3> QED
      BY <2>2, <3>1, <3>2, ConcatProperties DEF Buffer
  <2>6. LogTypes'
    <3>1. LogTypeOK'
      BY <1>1, <2>1, <2>3 DEF LogTypeOK
    <3> QED
      BY <1>1, <2>1, <2>5, <3>1 DEF LogTypes
  <2>7. OneConsumer'
    BY <1>1, <2>1 DEF OneConsumer
  <2>8. appender # "closed"
    BY <1>1, <2>1 DEF OneConsumer
  <2>9. (FrontBuffers /\ BackBuffers /\ AllWritten)'
    BY <1>1, <2>1, <2>8 DEF FrontBuffers, BackBuffers, AllWritten
  <2> QED
    BY <2>6, <2>7, <2>9 DEF LogInv
<1>9. CASE ConsumeFlush
  <2>1. /\ thread = "write" /\ Refill /\ disk' = disk \o out /\ out' = <<>>
        /\ batch' = <<>> /\ index' = 0 /\ thread' = "check"
        /\ UNCHANGED <<lines, owner, starting, running, curr, next, buffers, appender>>
    BY <1>9 DEF ConsumeFlush, Flush
  <2>2. new1' = <<>> /\ new2' = <<>>
    BY <2>1, RefillGivesBack
  <2>3. disk' \in Buffer
    BY <1>1, <2>1 DEF LogTypes, Buffer
  <2>4. LogTypes'
    <3>1. LogTypeOK'
      BY <1>1, <2>1 DEF LogTypeOK
    <3> QED
      BY <1>1, <2>1, <2>2, <2>3, <3>1 DEF LogTypes
  <2>5. OneConsumer'
    BY <1>1, <2>1 DEF OneConsumer
  <2>6. FrontBuffers' /\ BackBuffers' /\ AllWritten'
    BY <1>1, <2>1, <2>2 DEF FrontBuffers, BackBuffers, AllWritten
  <2> QED
    BY <2>4, <2>5, <2>6 DEF LogInv
<1>10. CASE ConsumeLast
  <2>1. /\ thread = "last"
        /\ batch' = buffers \o HandOver(curr) \o HandOver(next)
        /\ curr' = Left(curr) /\ next' = Left(next)
        /\ buffers' = <<>> /\ index' = 0 /\ thread' = "write last"
        /\ UNCHANGED <<lines, owner, starting, running, new1, new2, out, disk, appender>>
    BY <1>10 DEF ConsumeLast
  <2>2. /\ HandOver(curr) \in Seq(Buffer) /\ HandOver(next) \in Seq(Buffer)
        /\ curr' \in Buffer \cup {NoBuffer} /\ next' \in {<<>>, NoBuffer}
    <3>1. curr \in Buffer \cup {NoBuffer} /\ next \in Buffer \cup {NoBuffer} /\ next \in {<<>>, NoBuffer}
      BY <1>1 DEF LogTypes
    <3>2. \A b \in Buffer \cup {NoBuffer} : HandOver(b) \in Seq(Buffer) /\ Left(b) \in Buffer \cup {NoBuffer}
      BY HandedOver
    <3> QED
      BY <2>1, <3>1, <3>2 DEF Left, HandOver
  <2>3. batch' \in Seq(Buffer) /\ 0 \in 0..Len(batch')
    <3>1. buffers \in Seq(Buffer)
      BY <1>1 DEF LogTypes
    <3>2. batch' \in Seq(Buffer)
      BY <2>1, <2>2, <3>1, ConcatProperties
    <3>3. Len(batch') \in Nat
      BY <3>2, LenProperties
    <3> QED
      BY <3>2, <3>3
  <2>4. LogTypes'
    <3>1. LogTypeOK'
      BY <1>1, <2>1, <2>3 DEF LogTypeOK
    <3> QED
      BY <1>1, <2>1, <2>2, <2>3, <3>1 DEF LogTypes
  <2>5. OneConsumer'
    BY <1>1, <2>1 DEF OneConsumer
  <2>6. appender # "closed"
    BY <1>1, <2>1 DEF OneConsumer
  <2>7. FrontBuffers' /\ BackBuffers' /\ AllWritten'
    BY <1>1, <2>1, <2>6 DEF FrontBuffers, BackBuffers, AllWritten
  <2> QED
    BY <2>4, <2>5, <2>7 DEF LogInv
<1>11. CASE ConsumeEnd
  <2>1. /\ thread = "write last" /\ disk' = disk \o out /\ out' = <<>>
        /\ batch' = <<>> /\ index' = 0 /\ thread' = "ended"
        /\ UNCHANGED <<lines, owner, starting, running, curr, next, buffers, new1, new2, appender>>
    BY <1>11 DEF ConsumeEnd, Flush
  <2>2. disk' \in Buffer /\ index' \in 0..Len(batch')
    <3>1. index' = 0 /\ Len(batch') = 0
      BY <2>1
    <3>2. disk \in Buffer /\ out \in Buffer
      BY <1>1 DEF LogTypes
    <3>3. disk \o out \in Buffer
      BY <3>2 DEF Buffer
    <3>4. index' \in 0..Len(batch')
      BY <3>1
    <3> QED
      BY <2>1, <3>3, <3>4, Zenon
  <2>3. LogTypes'
    <3>1. LogTypeOK'
      BY <1>1, <2>1, <2>2 DEF LogTypeOK
    <3> QED
      BY <1>1, <2>1, <2>2, <3>1 DEF LogTypes
  <2>4. OneConsumer'
    BY <1>1, <2>1 DEF OneConsumer
  <2>5. FrontBuffers' /\ BackBuffers' /\ AllWritten'
    BY <1>1, <2>1 DEF FrontBuffers, BackBuffers, AllWritten
  <2> QED
    BY <2>3, <2>4, <2>5 DEF LogInv
<1>12. CASE Stop
  <2>1. /\ appender = "open" /\ owner = NoProducer /\ appender' = "stopping" /\ running' = FALSE
        /\ UNCHANGED <<lines, owner, starting, curr, next, buffers, thread, new1, new2, batch,
                       index, out, disk>>
    BY <1>12 DEF Stop
  <2>2. LogTypeOK'
    BY <1>1, <2>1 DEF LogTypeOK
  <2>3. OneConsumer'
    BY <1>1, <2>1 DEF OneConsumer
  <2>4. (FrontBuffers /\ BackBuffers /\ AllWritten)'
    BY <1>1, <2>1 DEF FrontBuffers, BackBuffers, AllWritten
  <2> QED
    BY <2>1, <2>2, <2>3, <2>4, BuffersUnchanged DEF LogInv
<1>13. CASE Destroy
  <2> DEFINE rest == buffers \o HandOver(curr) \o HandOver(next)
  <2>1. /\ appender = "stopping" /\ thread \in {"none", "ended"} /\ appender' = "closed"
        /\ disk' = disk \o out \o FlattenSeq(rest)
        /\ out' = <<>> /\ buffers' = <<>> /\ curr' = NoBuffer /\ next' = NoBuffer
        /\ UNCHANGED <<lines, owner, starting, running, thread, new1, new2, batch, index>>
    BY <1>13 DEF Destroy
  <2>2. HandOver(curr) \in Seq(Buffer) /\ HandOver(next) \in Seq(Buffer)
    BY <1>1, HandedOver DEF LogTypes
  <2>3. rest \in Seq(Buffer)
    BY <1>1, <2>2 DEF LogTypes
  <2>4. FlattenSeq(rest) \in Buffer
    BY <2>3, FlattenType DEF Buffer
  <2> HIDE DEF rest
  <2>5. disk' \in Buffer
    BY <1>1, <2>1, <2>4 DEF LogTypes, Buffer
  <2>6. LogTypes'
    <3>1. LogTypeOK'
      BY <1>1, <2>1 DEF LogTypeOK
    <3> QED
      BY <1>1, <2>1, <2>5, <3>1 DEF LogTypes
  <2>7. OneConsumer'
    BY <1>1, <2>1 DEF OneConsumer
  <2>8. FrontBuffers' /\ BackBuffers' /\ AllWritten'
    BY <1>1, <2>1 DEF FrontBuffers, BackBuffers, AllWritten
  <2> QED
    BY <2>6, <2>7, <2>8 DEF LogInv
<1>14. CASE UNCHANGED logVars
  BY <1>14 DEF logVars, LogInv, LogTypes, LogTypeOK, OneConsumer, FrontBuffers, BackBuffers, AllWritten
<1> QED
  BY <1>2, <1>3, <1>4, <1>5, <1>6, <1>7, <1>8, <1>9, <1>10, <1>11, <1>12, <1>13, <1>14
  DEF LogNext, Consume

-----------------------------------------------------------------------------

(* The inductive invariant holds, for any number of producers, size of a buffer *)
(* and sizes of lines.                                                          *)
THEOREM LogInvariantHolds ==
  ASSUME LogAssumption
  PROVE  LogSpec => []LogInv
<1>1. LogInit => LogInv
  BY LogInitInvariant
<1>2. LogInv /\ [LogNext]_logVars => LogInv'
  BY LogNextInvariant
<1> QED
  BY <1>1, <1>2, PTL DEF LogSpec

(* The variables keep their types; in particular consumeFunc never reads beyond *)
(* the end of buffsToWrite.                                                     *)
THEOREM LogTypeCorrect ==
  ASSUME LogAssumption
  PROVE  LogSpec => []LogTypeOK
<1>1. LogInv => LogTypeOK
  BY DEF LogInv, LogTypes
<1> QED
  BY <1>1, LogInvariantHolds, PTL

(* Nothing waits in an appender that is closed. *)
LEMMA NothingPending ==
  ASSUME LogAssumption, LogInv, appender = "closed"
  PROVE  Pending = <<>>
<1>1. /\ batch = <<>> /\ index = 0 /\ buffers = <<>> /\ out = <<>>
      /\ curr = NoBuffer /\ next = NoBuffer
  BY DEF LogInv, OneConsumer, BackBuffers, AllWritten
<1>2. Held(curr) = <<>> /\ Held(next) = <<>>
  BY <1>1 DEF Held
<1>3. Len(<<>>) = 0 /\ SubSeq(<<>>, 0 + 1, 0) = <<>>
  BY SubSeqEmpty
<1>4. SubSeq(batch, index + 1, Len(batch)) = <<>>
  BY <1>1, <1>3, Zenon
<1>5. FlattenSeq(<<>>) = <<>>
  BY <1>3, FlattenEmpty
<1>6. <<>> \o <<>> = <<>>
  BY EmptySeq, ConcatEmptySeq
<1> QED
  BY <1>1, <1>2, <1>4, <1>5, <1>6, Zenon DEF Pending

(* Buffers change hands without being lost: the two that consumeFunc asserts    *)
(* are there, the current one always is, one consumer is started, and a         *)
(* destroyed appender has written everything.                                   *)
THEOREM NoBufferIsLost ==
  ASSUME LogAssumption
  PROVE  LogSpec => []BuffersKept
<1>1. LogInv => BuffersKept
  <2> SUFFICES ASSUME LogInv PROVE BuffersKept
    OBVIOUS
  <2>1. appender = "closed" => Pending = <<>>
    BY NothingPending
  <2> QED
    BY <2>1 DEF LogInv, OneConsumer, FrontBuffers, BackBuffers, BuffersKept
<1> QED
  BY <1>1, LogInvariantHolds, PTL

-----------------------------------------------------------------------------
(***************************************************************************)
(* The steps of AsyncLog.                                                  *)
(***************************************************************************)

Logged == disk \o Pending

LEMMA StutterStep ==
  ASSUME disk' = disk, Logged' = Logged, alive' = alive
  PROVE  UNCHANGED Promise!vars
  BY DEF Promise!vars, Logged

LEMMA PrefixOfConcat ==
  ASSUME NEW S, NEW s \in Seq(S), NEW t \in Seq(S)
  PROVE  IsPrefix(s, s \o t)
<1>1. /\ Len(s) \in Nat /\ Len(t) \in Nat /\ Len(s \o t) = Len(s) + Len(t)
      /\ SubSeq(s \o t, 1, Len(s)) = s /\ SubSeq(s, 1, Len(s)) = s
  OBVIOUS
<1> QED
  BY <1>1 DEF IsPrefix

LEMMA LogStep ==
  ASSUME Logged \in Buffer, NEW line \in Lines, Logged' = Append(Logged, line),
         disk' = disk, alive, alive' = alive
  PROVE  Promise!Log
<1>1. Logged' = Logged \o <<line>> /\ <<line>> \in Buffer
  BY AppendIsConcat DEF Buffer
<1>2. IsPrefix(Logged, Logged')
  BY <1>1, PrefixOfConcat DEF Buffer
<1>3. Len(Logged') = Len(Logged) + 1 /\ Logged # Logged'
  BY DEF Buffer
<1> QED
  BY <1>2, <1>3 DEF Promise!Log, Promise!IsPrefix, IsPrefix, Logged

LEMMA WriteStep ==
  ASSUME disk \in Buffer, NEW w \in Buffer, NEW r \in Buffer,
         disk' = disk \o w, Logged = disk' \o r, Logged' = Logged, alive, alive' = alive
  PROVE  Promise!Write \/ UNCHANGED Promise!vars
<1>1. CASE w = <<>>
  <2>1. disk' = disk
    BY <1>1 DEF Buffer
  <2> QED
    BY <2>1, StutterStep
<1>2. CASE w # <<>>
  <2>1. disk' # disk
    BY <1>2, ConcatEqualIffEmpty DEF Buffer
  <2>2. IsPrefix(disk, disk')
    BY PrefixOfConcat DEF Buffer
  <2>3. disk' \in Buffer
    BY DEF Buffer
  <2>4. IsPrefix(disk', Logged)
    BY <2>3, PrefixOfConcat DEF Buffer
  <2> QED
    BY <2>1, <2>2, <2>4 DEF Promise!Write, Promise!IsPrefix, IsPrefix, Logged
<1> QED
  BY <1>1, <1>2

-----------------------------------------------------------------------------
(***************************************************************************)
(* How lines move.  Cat hides that sequences are functions, which keeps    *)
(* the equations about them algebra.                                       *)
(***************************************************************************)

Cat(x, y) == x \o y

LEMMA CatLaws ==
  ASSUME NEW S
  PROVE  /\ \A x, y \in Seq(S) : Cat(x, y) \in Seq(S)
         /\ <<>> \in Seq(S)
         /\ \A x \in Seq(S) : Cat(x, <<>>) = x /\ Cat(<<>>, x) = x
         /\ \A x, y, z \in Seq(S) : Cat(Cat(x, y), z) = Cat(x, Cat(y, z))
  BY ConcatProperties, ConcatEmptySeq, ConcatAssociative DEF Cat

\* The lines in the places of Pending, and in the file before them.
All(d, o, u, b, c, n) == Cat(d, Cat(o, Cat(u, Cat(b, Cat(c, n)))))

LEMMA AllOfPlaces ==
  ASSUME NEW d \in Buffer, NEW o \in Buffer, NEW u \in Buffer, NEW b \in Buffer,
         NEW c \in Buffer, NEW n \in Buffer
  PROVE  d \o (o \o u \o b \o c \o n) = All(d, o, u, b, c, n) /\ All(d, o, u, b, c, n) \in Buffer
<1>1. d \o (o \o u \o b \o c \o n) = Cat(d, Cat(Cat(Cat(Cat(o, u), b), c), n))
  BY Zenon DEF Cat
<1>2. \A x, y \in Buffer : Cat(x, y) \in Buffer
  BY CatLaws, Zenon DEF Buffer
<1>3. \A x, y, z \in Buffer : Cat(Cat(x, y), z) = Cat(x, Cat(y, z))
  BY CatLaws, Zenon DEF Buffer
<1>4. Cat(Cat(Cat(Cat(o, u), b), c), n) = Cat(o, Cat(u, Cat(b, Cat(c, n))))
  <2>1. /\ Cat(o, u) \in Buffer /\ Cat(Cat(o, u), b) \in Buffer
        /\ Cat(c, n) \in Buffer /\ Cat(b, Cat(c, n)) \in Buffer
    BY <1>2
  <2>2. Cat(Cat(Cat(Cat(o, u), b), c), n) = Cat(Cat(Cat(o, u), b), Cat(c, n))
    BY <1>3, <2>1
  <2>3. Cat(Cat(Cat(o, u), b), Cat(c, n)) = Cat(Cat(o, u), Cat(b, Cat(c, n)))
    BY <1>3, <2>1
  <2>4. Cat(Cat(o, u), Cat(b, Cat(c, n))) = Cat(o, Cat(u, Cat(b, Cat(c, n))))
    BY <1>3, <2>1
  <2> QED
    BY <2>2, <2>3, <2>4, Zenon
<1>5. Cat(d, Cat(o, Cat(u, Cat(b, Cat(c, n))))) \in Buffer
  <2>1. Cat(b, Cat(c, n)) \in Buffer
    BY <1>2, Zenon
  <2>2. Cat(o, Cat(u, Cat(b, Cat(c, n)))) \in Buffer
    BY <1>2, <2>1, Zenon
  <2> QED
    BY <1>2, <2>2, Zenon
<1> QED
  BY <1>1, <1>4, <1>5, Zenon DEF All

BeginsWith(s, d) == \E r \in Buffer : s = d \o r

LEMMA AllBegins ==
  ASSUME NEW d \in Buffer, NEW o \in Buffer, NEW u \in Buffer, NEW b \in Buffer,
         NEW c \in Buffer, NEW n \in Buffer
  PROVE  BeginsWith(All(d, o, u, b, c, n), d)
<1>1. \A x, y \in Buffer : Cat(x, y) \in Buffer
  BY CatLaws, Zenon DEF Buffer
<1>2. Cat(b, Cat(c, n)) \in Buffer
  BY <1>1, Zenon
<1>3. Cat(o, Cat(u, Cat(b, Cat(c, n)))) \in Buffer
  BY <1>1, <1>2, Zenon
<1> QED
  BY <1>3, Zenon DEF All, Cat, BeginsWith

(* Where the lines go from one place to the next, none is lost and none overtakes:   *)
(* from log() on, in write() and in the end.                                         *)
MovesFront(d, o, u, b, c, e) ==
    /\ All(d, o, u, b, Cat(c, e), <<>>) = Cat(All(d, o, u, b, c, <<>>), e)
    /\ All(d, o, u, Cat(b, c), e, <<>>) = Cat(All(d, o, u, b, c, <<>>), e)
    /\ All(d, o, u, Cat(b, c), <<>>, <<>>) = All(d, o, u, b, c, <<>>)
    /\ All(d, o, Cat(b, c), <<>>, <<>>, <<>>) = All(d, o, <<>>, b, c, <<>>)

MovesWritten(d, o, u, b, c, n, e) ==
    /\ All(d, Cat(o, e), u, b, c, n) = All(d, o, Cat(e, u), b, c, n)
    /\ All(Cat(d, o), e, u, b, c, n) = All(d, Cat(o, e), u, b, c, n)

MovesLast(d, o, b, c, n) ==
    /\ All(Cat(d, o), <<>>, <<>>, b, c, n) = All(d, o, <<>>, b, c, n)
    /\ All(d, o, Cat(Cat(b, c), n), <<>>, <<>>, <<>>) = All(d, o, <<>>, b, c, n)
    /\ All(Cat(Cat(d, o), Cat(Cat(b, c), n)), <<>>, <<>>, <<>>, <<>>, <<>>) = All(d, o, <<>>, b, c, n)

LEMMA Moves ==
  ASSUME NEW d \in Buffer, NEW o \in Buffer, NEW u \in Buffer, NEW b \in Buffer,
         NEW c \in Buffer, NEW n \in Buffer, NEW e \in Buffer
  PROVE  MovesFront(d, o, u, b, c, e) /\ MovesWritten(d, o, u, b, c, n, e) /\ MovesLast(d, o, b, c, n)
<1>1. /\ \A x, y \in Buffer : Cat(x, y) \in Buffer
      /\ <<>> \in Buffer
      /\ \A x \in Buffer : Cat(x, <<>>) = x /\ Cat(<<>>, x) = x
  BY CatLaws, Zenon DEF Buffer
<1>2. \A x, y, z \in Buffer : Cat(Cat(x, y), z) = Cat(x, Cat(y, z))
  BY CatLaws, Zenon DEF Buffer
<1>3. ASSUME NEW x \in Buffer
      PROVE  All(d, o, u, b, x, <<>>) = Cat(d, Cat(o, Cat(u, Cat(b, x))))
  BY <1>1, Zenon DEF All
<1>4. ASSUME NEW x \in Buffer
      PROVE  /\ Cat(Cat(d, Cat(o, Cat(u, x))), e) = Cat(d, Cat(o, Cat(u, Cat(x, e))))
             /\ Cat(u, x) \in Buffer
  <2>1. Cat(u, x) \in Buffer /\ Cat(o, Cat(u, x)) \in Buffer
    BY <1>1, Zenon
  <2>2. Cat(Cat(d, Cat(o, Cat(u, x))), e) = Cat(d, Cat(Cat(o, Cat(u, x)), e))
    BY <1>2, <2>1
  <2>3. Cat(Cat(o, Cat(u, x)), e) = Cat(o, Cat(Cat(u, x), e))
    BY <1>2, <2>1
  <2>4. Cat(Cat(u, x), e) = Cat(u, Cat(x, e))
    BY <1>2
  <2> QED
    BY <2>1, <2>2, <2>3, <2>4, Zenon
<1>5. /\ Cat(b, c) \in Buffer /\ Cat(c, e) \in Buffer
      /\ Cat(b, Cat(c, e)) = Cat(Cat(b, c), e) /\ Cat(Cat(b, c), <<>>) = Cat(b, c)
  <2>1. Cat(b, c) \in Buffer /\ Cat(c, e) \in Buffer
    BY <1>1, Zenon
  <2>2. Cat(b, Cat(c, e)) = Cat(Cat(b, c), e)
    BY <1>2
  <2> QED
    BY <1>1, <2>1, <2>2, Zenon
<1>6. /\ All(d, o, u, b, Cat(c, e), <<>>) = Cat(All(d, o, u, b, c, <<>>), e)
      /\ All(d, o, u, Cat(b, c), e, <<>>) = Cat(All(d, o, u, b, c, <<>>), e)
      /\ All(d, o, u, Cat(b, c), <<>>, <<>>) = All(d, o, u, b, c, <<>>)
  <2>1. /\ All(d, o, u, b, Cat(c, e), <<>>) = Cat(d, Cat(o, Cat(u, Cat(Cat(b, c), e))))
        /\ All(d, o, u, b, c, <<>>) = Cat(d, Cat(o, Cat(u, Cat(b, c))))
    BY <1>3, <1>5, Zenon
  <2>2. /\ All(d, o, u, Cat(b, c), e, <<>>) = Cat(d, Cat(o, Cat(u, Cat(Cat(b, c), e))))
        /\ All(d, o, u, Cat(b, c), <<>>, <<>>) = Cat(d, Cat(o, Cat(u, Cat(b, c))))
    <3>1. Cat(e, <<>>) = e /\ Cat(<<>>, <<>>) = <<>>
      BY <1>1, Zenon
    <3> QED
      BY <1>5, <3>1, Zenon DEF All
  <2>3. Cat(Cat(d, Cat(o, Cat(u, Cat(b, c)))), e) = Cat(d, Cat(o, Cat(u, Cat(Cat(b, c), e))))
    BY <1>4, <1>5, Zenon
  <2> QED
    BY <2>1, <2>2, <2>3, Zenon
<1> DEFINE rest == Cat(b, Cat(c, n))
<1>7. /\ rest \in Buffer /\ Cat(u, rest) \in Buffer /\ Cat(e, u) \in Buffer
      /\ Cat(b, c) \in Buffer /\ Cat(Cat(b, c), n) = rest
      /\ Cat(<<>>, <<>>) = <<>> /\ Cat(<<>>, rest) = rest /\ Cat(rest, <<>>) = rest
      /\ Cat(c, <<>>) = c /\ Cat(<<>>, Cat(u, rest)) = Cat(u, rest)
  <2>1. Cat(c, n) \in Buffer /\ Cat(b, c) \in Buffer /\ Cat(e, u) \in Buffer
    BY <1>1, Zenon
  <2>2. rest \in Buffer
    BY <1>1, <2>1, Zenon
  <2>3. Cat(u, rest) \in Buffer
    BY <1>1, <2>2, Zenon
  <2>4. Cat(Cat(b, c), n) = rest
    BY <1>2
  <2> QED
    BY <1>1, <2>1, <2>2, <2>3, <2>4, Zenon
<1>8. All(d, o, Cat(b, c), <<>>, <<>>, <<>>) = All(d, o, <<>>, b, c, <<>>)
  <2>1. Cat(Cat(b, c), <<>>) = Cat(b, c) /\ Cat(<<>>, Cat(b, c)) = Cat(b, c)
    BY <1>1, <1>7, Zenon
  <2> QED
    BY <1>7, <2>1, Zenon DEF All
<1>9. Cat(Cat(e, u), rest) = Cat(e, Cat(u, rest))
  BY <1>2, <1>7
<1>10. All(d, Cat(o, e), u, b, c, n) = All(d, o, Cat(e, u), b, c, n)
  <2>1. Cat(Cat(o, e), Cat(u, rest)) = Cat(o, Cat(e, Cat(u, rest)))
    BY <1>2, <1>7
  <2> QED
    BY <1>9, <2>1, Zenon DEF All
<1>11. All(Cat(d, o), e, u, b, c, n) = All(d, Cat(o, e), u, b, c, n)
  <2>1. Cat(e, Cat(u, rest)) \in Buffer
    BY <1>1, <1>7, Zenon
  <2>2. Cat(Cat(d, o), Cat(e, Cat(u, rest))) = Cat(d, Cat(o, Cat(e, Cat(u, rest))))
    BY <1>2, <2>1
  <2>3. Cat(Cat(o, e), Cat(u, rest)) = Cat(o, Cat(e, Cat(u, rest)))
    BY <1>2, <1>7
  <2> QED
    BY <2>2, <2>3, Zenon DEF All
<1>12. All(Cat(d, o), <<>>, <<>>, b, c, n) = All(d, o, <<>>, b, c, n)
  <2>1. Cat(Cat(d, o), rest) = Cat(d, Cat(o, rest))
    BY <1>2, <1>7
  <2> QED
    BY <1>7, <2>1, Zenon DEF All
<1>13. All(d, o, Cat(Cat(b, c), n), <<>>, <<>>, <<>>) = All(d, o, <<>>, b, c, n)
  BY <1>7, Zenon DEF All
<1>14. All(Cat(Cat(d, o), Cat(Cat(b, c), n)), <<>>, <<>>, <<>>, <<>>, <<>>) = All(d, o, <<>>, b, c, n)
  <2>1. Cat(d, o) \in Buffer
    BY <1>1, Zenon
  <2>2. Cat(Cat(d, o), rest) = Cat(d, Cat(o, rest))
    BY <1>2, <1>7
  <2>3. Cat(Cat(d, o), rest) \in Buffer
    BY <1>1, <1>7, <2>1, Zenon
  <2>4. Cat(Cat(Cat(d, o), rest), <<>>) = Cat(Cat(d, o), rest)
    BY <1>1, <2>3, Zenon
  <2> QED
    BY <1>7, <2>2, <2>4, Zenon DEF All
<1> QED
  BY <1>6, <1>8, <1>10, <1>11, <1>12, <1>13, <1>14, Zenon DEF MovesFront, MovesWritten, MovesLast

(* The buffers handed over in the end hold the lines of all there are. *)
LEMMA FlattenHandedOver ==
  ASSUME LogAssumption, NEW s \in Seq(Buffer),
         NEW x \in Buffer \cup {NoBuffer}, NEW y \in Buffer \cup {NoBuffer}
  PROVE  FlattenSeq(s \o HandOver(x) \o HandOver(y)) = Cat(Cat(FlattenSeq(s), Held(x)), Held(y))
<1>1. ASSUME NEW t \in Seq(Buffer), NEW z \in Buffer \cup {NoBuffer}
      PROVE  FlattenSeq(t \o HandOver(z)) = Cat(FlattenSeq(t), Held(z)) /\ t \o HandOver(z) \in Seq(Buffer)
  <2>1. FlattenSeq(t) \in Buffer
    BY FlattenType, Zenon DEF Buffer
  <2>2. CASE HandOver(z) = <<>> /\ Held(z) = <<>>
    <3>1. t \o HandOver(z) = t
      BY <2>2, ConcatEmptySeq
    <3>2. Cat(FlattenSeq(t), Held(z)) = FlattenSeq(t)
      BY <2>1, <2>2, CatLaws DEF Buffer
    <3> QED
      BY <3>1, <3>2
  <2>3. CASE HandOver(z) = <<z>> /\ z \in Buffer /\ Held(z) = z
    <3>1. t \o HandOver(z) = Append(t, z) /\ Append(t, z) \in Seq(Buffer)
      BY <2>3, AppendIsConcat, AppendProperties
    <3>2. FlattenSeq(Append(t, z)) = FlattenSeq(t) \o z
      BY <2>3, FlattenAppend, Zenon DEF Buffer
    <3> QED
      BY <2>3, <3>1, <3>2, Zenon DEF Cat
  <2> QED
    BY <2>2, <2>3, HandedOver
<1>2. s \o HandOver(x) \in Seq(Buffer) /\ FlattenSeq(s \o HandOver(x)) = Cat(FlattenSeq(s), Held(x))
  BY <1>1
<1> DEFINE t == s \o HandOver(x)
<1>3. FlattenSeq(t \o HandOver(y)) = Cat(FlattenSeq(t), Held(y))
  BY <1>1, <1>2, Zenon
<1> QED
  BY <1>2, <1>3, Zenon

\* The lines of the buffers of a batch that were not written yet.
Unwritten(bufs, i) == FlattenSeq(SubSeq(bufs, i + 1, Len(bufs)))

LEMMA Waiting ==
  ASSUME NEW bufs \in Seq(Buffer), NEW i \in 0..Len(bufs)
  PROVE  /\ Unwritten(bufs, i) \in Buffer /\ FlattenSeq(bufs) \in Buffer
         /\ i = Len(bufs) => Unwritten(bufs, i) = <<>>
         /\ Unwritten(bufs, 0) = FlattenSeq(bufs)
         /\ bufs = <<>> => FlattenSeq(bufs) = <<>> /\ Unwritten(bufs, i) = <<>>
         /\ i < Len(bufs) => /\ bufs[i + 1] \in Buffer
                             /\ Unwritten(bufs, i) = Cat(bufs[i + 1], Unwritten(bufs, i + 1))
                             /\ Unwritten(bufs, i + 1) \in Buffer
<1>1. Len(bufs) \in Nat /\ i \in Nat /\ \A j \in 1..Len(bufs) : bufs[j] \in Buffer
  BY LenProperties
<1>2. FlattenSeq(<<>>) = <<>> /\ <<>> \in Buffer
  BY FlattenEmpty, EmptySeq DEF Buffer
<1>3. ASSUME NEW j \in Nat
      PROVE  Unwritten(bufs, j) \in Buffer
  <2>1. SubSeq(bufs, j + 1, Len(bufs)) \in Seq(Buffer)
    BY <1>1, SubSeqProperties
  <2> QED
    BY <2>1, FlattenType DEF Unwritten, Buffer
<1>4. FlattenSeq(bufs) \in Buffer
  BY FlattenType DEF Buffer
<1>5. ASSUME i = Len(bufs) PROVE Unwritten(bufs, i) = <<>>
  <2>1. SubSeq(bufs, i + 1, Len(bufs)) = <<>>
    BY <1>1, <1>5, SubSeqEmpty
  <2> QED
    BY <1>2, <2>1 DEF Unwritten
<1>6. Unwritten(bufs, 0) = FlattenSeq(bufs)
  <2>1. SubSeq(bufs, 0 + 1, Len(bufs)) = bufs
    BY SubSeqFull
  <2> QED
    BY <2>1 DEF Unwritten
<1>7. ASSUME bufs = <<>> PROVE FlattenSeq(bufs) = <<>> /\ Unwritten(bufs, i) = <<>>
  <2>1. i = Len(bufs)
    BY <1>7
  <2> QED
    BY <1>2, <1>5, <1>7, <2>1
<1>8. ASSUME i < Len(bufs)
      PROVE  Unwritten(bufs, i) = Cat(bufs[i + 1], Unwritten(bufs, i + 1)) /\ i + 1 \in 1..Len(bufs)
  <2>1. i + 1 \in 1..Len(bufs)
    BY <1>1, <1>8
  <2>2. /\ FlattenSeq(SubSeq(bufs, i + 1, Len(bufs)))
           = bufs[i + 1] \o FlattenSeq(SubSeq(bufs, (i + 1) + 1, Len(bufs)))
    BY <2>1, FlattenSuffix DEF Buffer
  <2> QED
    BY <2>1, <2>2, Zenon DEF Unwritten, Cat
<1>9. i + 1 \in Nat
  BY <1>1
<1> QED
  BY <1>1, <1>3, <1>4, <1>5, <1>6, <1>7, <1>8, <1>9

LEMMA HeldLines ==
  ASSUME LogAssumption, NEW b \in Buffer \cup {NoBuffer}
  PROVE  /\ Held(b) \in Buffer
         /\ b # NoBuffer => Held(b) = b
         /\ b \in {<<>>, NoBuffer} => Held(b) = <<>>
  BY NullIsNoBuffer DEF Held

(* The lines that were logged, by place. *)
LEMMA LoggedIn ==
  ASSUME LogAssumption, NEW d \in Buffer, NEW o \in Buffer, NEW bt \in Seq(Buffer),
         NEW i \in 0..Len(bt), NEW bs \in Seq(Buffer),
         NEW c \in Buffer \cup {NoBuffer}, NEW n \in Buffer \cup {NoBuffer}
  PROVE  /\ d \o (o \o Unwritten(bt, i) \o FlattenSeq(bs) \o Held(c) \o Held(n))
            = All(d, o, Unwritten(bt, i), FlattenSeq(bs), Held(c), Held(n))
         /\ All(d, o, Unwritten(bt, i), FlattenSeq(bs), Held(c), Held(n)) \in Buffer
<1>1. Unwritten(bt, i) \in Buffer /\ FlattenSeq(bs) \in Buffer
  <2>1. FlattenSeq(bs) \in Buffer
    BY FlattenType DEF Buffer
  <2> QED
    BY <2>1, Waiting
<1>2. Held(c) \in Buffer /\ Held(n) \in Buffer
  BY HeldLines
<1> QED
  BY <1>1, <1>2, AllOfPlaces, Zenon

LEMMA LoggedNow ==
  ASSUME LogAssumption, LogInv, LogInv'
  PROVE  /\ Logged = All(disk, out, Unwritten(batch, index), FlattenSeq(buffers), Held(curr), Held(next))
         /\ Logged \in Buffer
         /\ Logged' = All(disk', out', Unwritten(batch', index'), FlattenSeq(buffers'),
                          Held(curr'), Held(next'))
<1>1. /\ disk \in Buffer /\ out \in Buffer /\ batch \in Seq(Buffer) /\ index \in 0..Len(batch)
      /\ buffers \in Seq(Buffer) /\ curr \in Buffer \cup {NoBuffer}
      /\ next \in Buffer \cup {NoBuffer}
  BY NullIsNoBuffer, Counted DEF LogInv, LogTypes
<1>2. /\ disk' \in Buffer /\ out' \in Buffer /\ batch' \in Seq(Buffer) /\ index' \in 0..Len(batch')
      /\ buffers' \in Seq(Buffer) /\ curr' \in Buffer \cup {NoBuffer}
      /\ next' \in Buffer \cup {NoBuffer}
  <2>1. index' \in 0..Len(batch')
    BY Zenon DEF LogInv, LogTypes, LogTypeOK
  <2> QED
    BY <2>1, NullIsNoBuffer DEF LogInv, LogTypes
<1>3. Logged = disk \o (out \o Unwritten(batch, index) \o FlattenSeq(buffers) \o Held(curr) \o Held(next))
  BY Zenon DEF Logged, Pending, Unwritten
<1>4. Logged' = disk' \o (out' \o Unwritten(batch', index') \o FlattenSeq(buffers')
                          \o Held(curr') \o Held(next'))
  BY Zenon DEF Logged, Pending, Unwritten, Held
<1>5. /\ disk \o (out \o Unwritten(batch, index) \o FlattenSeq(buffers) \o Held(curr) \o Held(next))
          = All(disk, out, Unwritten(batch, index), FlattenSeq(buffers), Held(curr), Held(next))
      /\ All(disk, out, Unwritten(batch, index), FlattenSeq(buffers), Held(curr), Held(next)) \in Buffer
  BY <1>1, LoggedIn, Zenon
<1>6. /\ disk' \o (out' \o Unwritten(batch', index') \o FlattenSeq(buffers') \o Held(curr') \o Held(next'))
          = All(disk', out', Unwritten(batch', index'), FlattenSeq(buffers'), Held(curr'), Held(next'))
      /\ All(disk', out', Unwritten(batch', index'), FlattenSeq(buffers'), Held(curr'), Held(next'))
          \in Buffer
  BY <1>2, LoggedIn, Zenon
<1> QED
  BY <1>3, <1>4, <1>5, <1>6, Zenon

-----------------------------------------------------------------------------
(***************************************************************************)
(* Each action is a step of AsyncLog or none.                              *)
(***************************************************************************)

LEMMA QuietStep ==
  ASSUME UNCHANGED <<curr, next, buffers, batch, index, out, disk>>
  PROVE  disk' = disk /\ Logged' = Logged
<1>1. Pending' = Pending
  BY DEF Pending, Held
<1> QED
  BY <1>1 DEF Logged

(* A line that fits a buffer is logged, behind those that were; one that does not is not. *)
LEMMA LogLineRefines ==
  ASSUME LogAssumption, LogInv, LogInv', NEW s \in Sizes, LogLine(s)
  PROVE  Promise!Log \/ UNCHANGED Promise!vars
<1> DEFINE line == <<lines + 1, s>>
           u == Unwritten(batch, index)
           b == FlattenSeq(buffers)
<1>1. /\ line \in Lines /\ curr \in Buffer /\ next \in {<<>>, NoBuffer}
      /\ \/ curr' = Append(curr, line) /\ UNCHANGED <<next, buffers>>
         \/ /\ buffers' = Append(buffers, curr) /\ next' = NoBuffer
            /\ curr' = <<>> \/ curr' = Append(<<>>, line)
  BY LogLinePuts
<1>2. alive /\ alive' = alive /\ UNCHANGED <<thread, batch, index, out, disk>>
  BY DEF LogLine, alive
<1> HIDE DEF line
<1>3. <<line>> \in Buffer /\ Append(curr, line) = Cat(curr, <<line>>) /\ Append(<<>>, line) = <<line>>
  BY <1>1, AppendIsConcat DEF Buffer, Cat
<1>4. /\ Logged = All(disk, out, u, b, Held(curr), Held(next)) /\ Logged \in Buffer
      /\ Logged' = All(disk', out', Unwritten(batch', index'), FlattenSeq(buffers'), Held(curr'), Held(next'))
  BY LoggedNow, Zenon
<1>5. /\ disk \in Buffer /\ out \in Buffer /\ u \in Buffer /\ b \in Buffer /\ buffers \in Seq(Buffer)
      /\ <<>> \in Buffer /\ NoBuffer \in {<<>>, NoBuffer}
  BY Waiting, Counted, FlattenType, NullIsNoBuffer DEF LogInv, LogTypes, Buffer
<1>6. \A x \in Buffer : Held(x) = x
  BY NullIsNoBuffer DEF Held, LogAssumption
<1>7. \A x \in {<<>>, NoBuffer} : Held(x) = <<>>
  BY DEF Held
<1>8. Unwritten(batch', index') = u
  BY <1>2, Zenon
<1>9. Append(Logged, line) = Cat(Logged, <<line>>)
  BY <1>4, AppendIsConcat DEF Buffer, Cat
<1>10. Logged = All(disk, out, u, b, curr, <<>>)
  BY <1>1, <1>4, <1>6, <1>7, Zenon
<1> HIDE DEF u, b
<1> DEFINE e == <<line>>
<1> HIDE DEF e
<1>11. /\ All(disk, out, u, b, Cat(curr, e), <<>>) = Cat(All(disk, out, u, b, curr, <<>>), e)
       /\ All(disk, out, u, Cat(b, curr), e, <<>>) = Cat(All(disk, out, u, b, curr, <<>>), e)
       /\ All(disk, out, u, Cat(b, curr), <<>>, <<>>) = All(disk, out, u, b, curr, <<>>)
  <2>1. e \in Buffer
    BY <1>3 DEF e
  <2>2. MovesFront(disk, out, u, b, curr, e)
    BY <1>1, <1>5, <2>1, Moves, Zenon
  <2> QED
    BY <2>2, Zenon DEF MovesFront
<1>12. CASE curr' = Append(curr, line) /\ UNCHANGED <<next, buffers>>
  <2>1. Held(curr') = Cat(curr, <<line>>) /\ Held(next') = <<>> /\ FlattenSeq(buffers') = b
    <3>1. Append(curr, line) \in Buffer
      BY <1>1 DEF Buffer
    <3> QED
      BY <1>1, <1>3, <1>6, <1>7, <1>12, <3>1, Zenon DEF b
  <2>2. Logged' = All(disk, out, u, b, Cat(curr, <<line>>), <<>>)
    BY <1>2, <1>4, <1>8, <2>1, Zenon
  <2>3. Logged' = Append(Logged, line)
    BY <1>9, <1>10, <1>11, <2>2, Zenon DEF e
  <2> QED
    BY <1>1, <1>2, <1>4, <2>3, LogStep
<1>13. CASE buffers' = Append(buffers, curr) /\ next' = NoBuffer
  <2>1. FlattenSeq(buffers') = Cat(b, curr) /\ Held(next') = <<>>
    <3>1. FlattenSeq(Append(buffers, curr)) = FlattenSeq(buffers) \o curr
      BY <1>1, <1>5, FlattenAppend, Zenon DEF Buffer
    <3> QED
      BY <1>5, <1>7, <1>13, <3>1, Zenon DEF b, Cat
  <2>2. Logged' = All(disk, out, u, Cat(b, curr), Held(curr'), <<>>)
    BY <1>2, <1>4, <1>8, <2>1, Zenon
  <2>3. CASE curr' = <<>>
    <3>1. Logged' = Logged
      BY <1>5, <1>6, <1>10, <1>11, <2>2, <2>3, Zenon
    <3> QED
      BY <1>2, <3>1, StutterStep
  <2>4. CASE curr' = Append(<<>>, line)
    <3>1. Held(curr') = <<line>>
      BY <1>3, <1>6, <2>4, Zenon
    <3>2. Logged' = Append(Logged, line)
      BY <1>9, <1>10, <1>11, <2>2, <3>1, Zenon DEF e
    <3> QED
      BY <1>1, <1>2, <1>4, <3>2, LogStep
  <2>5. curr' = <<>> \/ curr' = Append(<<>>, line)
    <3>1. curr' = Append(curr, line) /\ UNCHANGED <<next, buffers>> => buffers' # Append(buffers, curr)
      <4>1. Len(Append(buffers, curr)) = Len(buffers) + 1 /\ Len(buffers) \in Nat
        BY <1>1, <1>5, AppendProperties, LenProperties
      <4>2. Append(buffers, curr) # buffers
        BY <4>1
      <4> QED
        BY <4>2
    <3> QED
      BY <1>1, <1>13, <3>1
  <2> QED
    BY <2>3, <2>4, <2>5
<1> QED
  BY <1>1, <1>12, <1>13

(* The consumer takes the buffers over in the order they were filled. *)
LEMMA SwapRefines ==
  ASSUME LogAssumption, LogInv, LogInv', ConsumeSwap
  PROVE  UNCHANGED Promise!vars
<1> DEFINE b == FlattenSeq(buffers)
<1>1. /\ thread = "lock" /\ batch' = Append(buffers, curr) /\ buffers' = <<>>
      /\ curr' = new1 /\ index' = 0 /\ thread' = "write" /\ UNCHANGED <<out, disk>>
      /\ IF next = NoBuffer THEN next' = new2 ELSE next' = next
  BY DEF ConsumeSwap
<1>2. /\ batch = <<>> /\ index = 0 /\ new1 = <<>> /\ new2 = <<>> /\ curr \in Buffer
      /\ next \in {<<>>, NoBuffer} /\ buffers \in Seq(Buffer)
  BY <1>1 DEF LogInv, LogTypes, OneConsumer, FrontBuffers, BackBuffers
<1>3. curr' = <<>> /\ next' \in {<<>>, NoBuffer}
  BY <1>1, <1>2
<1>4. /\ Logged = All(disk, out, Unwritten(batch, index), b, Held(curr), Held(next))
      /\ Logged' = All(disk', out', Unwritten(batch', index'), FlattenSeq(buffers'), Held(curr'), Held(next'))
  BY LoggedNow, Zenon
<1>5. disk \in Buffer /\ out \in Buffer /\ b \in Buffer /\ <<>> \in Buffer
  BY <1>2, FlattenType, NullIsNoBuffer DEF LogInv, LogTypes, Buffer
<1>6. Held(curr) = curr /\ Held(next) = <<>> /\ Held(curr') = <<>> /\ Held(next') = <<>>
  BY <1>2, <1>3, NullIsNoBuffer DEF Held, LogAssumption
<1>7. FlattenSeq(<<>>) = <<>>
  BY FlattenEmpty
<1>8. Unwritten(batch, index) = <<>>
  <2>1. batch \in Seq(Buffer) /\ index \in 0..Len(batch)
    BY Counted DEF LogInv, LogTypes
  <2> QED
    BY <1>2, <2>1, Waiting, Zenon
<1>9. Unwritten(batch', index') = Cat(b, curr)
  <2>1. FlattenSeq(Append(buffers, curr)) = b \o curr
    BY <1>2, FlattenAppend, Zenon DEF Buffer
  <2>2. Append(buffers, curr) \in Seq(Buffer)
    BY <1>2, AppendProperties
  <2>3. 0 \in 0..Len(Append(buffers, curr))
    BY <2>2, LenProperties
  <2>4. Unwritten(Append(buffers, curr), 0) = FlattenSeq(Append(buffers, curr))
    BY <2>2, <2>3, Waiting, Zenon
  <2> QED
    BY <1>1, <2>1, <2>4, Zenon DEF Cat
<1>10. Logged = All(disk, out, <<>>, b, curr, <<>>)
  BY <1>4, <1>6, <1>8, Zenon
<1>11. Logged' = All(disk, out, Cat(b, curr), <<>>, <<>>, <<>>)
  BY <1>1, <1>4, <1>6, <1>7, <1>9, Zenon
<1> HIDE DEF b
<1>12. MovesFront(disk, out, <<>>, b, curr, <<>>)
  BY <1>2, <1>5, Moves, Zenon
<1>13. Logged' = Logged
  BY <1>10, <1>11, <1>12, Zenon DEF MovesFront
<1> QED
  BY <1>1, <1>13, StutterStep DEF alive

(* What write() does with a buffer keeps the lines in order, whenever the FILE passes *)
(* its own buffer on.                                                                 *)
LEMMA WriteRefines ==
  ASSUME LogAssumption, LogInv, LogInv', WriteBuffer
  PROVE  Promise!Write \/ UNCHANGED Promise!vars
<1> DEFINE e == batch[index + 1]
           u == Unwritten(batch, index + 1)
           b == FlattenSeq(buffers)
           c == Held(curr)
           n == Held(next)
<1>1. /\ thread \in {"write", "write last"} /\ index < Len(batch) /\ index' = index + 1
      /\ UNCHANGED <<curr, next, buffers, thread, batch>>
      /\ \E k \in 0..Len(out \o e) :
            /\ disk' = disk \o SubSeq(out \o e, 1, k)
            /\ out' = SubSeq(out \o e, k + 1, Len(out \o e))
  BY DEF WriteBuffer
<1>2. /\ disk \in Buffer /\ out \in Buffer /\ batch \in Seq(Buffer) /\ index \in 0..Len(batch)
      /\ buffers \in Seq(Buffer) /\ curr \in Buffer \cup {NoBuffer} /\ next \in Buffer \cup {NoBuffer}
      /\ disk' \in Buffer /\ <<>> \in Buffer
  BY Counted, NullIsNoBuffer DEF LogInv, LogTypes
<1>3. /\ Logged = All(disk, out, Unwritten(batch, index), b, c, n)
      /\ Logged' = All(disk', out', Unwritten(batch', index'), FlattenSeq(buffers'), Held(curr'), Held(next'))
  BY LoggedNow, Zenon
<1>4. e \in Buffer /\ u \in Buffer /\ Unwritten(batch, index) = Cat(e, u)
  BY <1>1, <1>2, Waiting, Zenon
<1>5. b \in Buffer
  BY <1>2, FlattenType, Zenon DEF Buffer
<1>6. c \in Buffer /\ n \in Buffer
  BY <1>2, HeldLines, Zenon
<1>7. alive /\ alive' = alive
  BY <1>1 DEF alive
<1>8. Unwritten(batch', index') = u /\ FlattenSeq(buffers') = b /\ Held(curr') = c /\ Held(next') = n
  BY <1>1, Zenon
<1> HIDE DEF e, u, b, c, n
<1>9. MovesWritten(disk, out, u, b, c, n, e)
  BY <1>2, <1>4, <1>5, <1>6, Moves, Zenon
<1>10. PICK k \in 0..Len(out \o e) :
          /\ disk' = disk \o SubSeq(out \o e, 1, k)
          /\ out' = SubSeq(out \o e, k + 1, Len(out \o e))
  BY <1>1
<1> DEFINE w == SubSeq(out \o e, 1, k)
           v == SubSeq(out \o e, k + 1, Len(out \o e))
<1>11. w \in Buffer /\ v \in Buffer /\ w \o v = out \o e
  <2>1. out \o e \in Buffer
    BY <1>2, <1>4, ConcatProperties DEF Buffer
  <2> QED
    BY <2>1, SplitConcat DEF Buffer
<1> HIDE DEF w, v
<1>12. disk' = Cat(disk, w) /\ out' = v /\ Cat(w, v) = Cat(out, e)
  BY <1>10, <1>11, Zenon DEF w, v, Cat
<1>13. MovesWritten(disk, w, u, b, c, n, v)
  BY <1>2, <1>4, <1>5, <1>6, <1>11, Moves, Zenon
<1>14. Logged' = Logged
  <2>1. Logged = All(disk, Cat(w, v), u, b, c, n)
    BY <1>3, <1>4, <1>9, <1>12, Zenon DEF MovesWritten
  <2>2. Logged' = All(Cat(disk, w), v, u, b, c, n)
    BY <1>3, <1>8, <1>12, Zenon
  <2> QED
    BY <1>13, <2>1, <2>2, Zenon DEF MovesWritten
<1>15. PICK r \in Buffer : Logged' = disk' \o r
  <2>1. BeginsWith(All(disk', v, u, b, c, n), disk')
    BY <1>2, <1>4, <1>5, <1>6, <1>11, AllBegins, Zenon
  <2> QED
    BY <1>3, <1>8, <1>12, <2>1, Zenon DEF BeginsWith
<1>16. disk' = disk \o w
  BY <1>10 DEF w
<1> QED
  BY <1>2, <1>7, <1>11, <1>14, <1>15, <1>16, WriteStep

(* The consumer flushes what it wrote, and so when it ends. *)
LEMMA FlushRefines ==
  ASSUME LogAssumption, LogInv, LogInv', ConsumeFlush \/ ConsumeEnd
  PROVE  Promise!Write \/ UNCHANGED Promise!vars
<1> DEFINE b == FlattenSeq(buffers)
           c == Held(curr)
           n == Held(next)
<1>1. /\ thread \in {"write", "write last"} /\ index = Len(batch) /\ batch' = <<>> /\ index' = 0
      /\ thread' \in {"check", "ended"} /\ disk' = disk \o out /\ out' = <<>>
      /\ UNCHANGED <<curr, next, buffers>>
  BY DEF ConsumeFlush, ConsumeEnd, Flush
<1>2. /\ disk \in Buffer /\ out \in Buffer /\ batch \in Seq(Buffer) /\ index \in 0..Len(batch)
      /\ buffers \in Seq(Buffer) /\ curr \in Buffer \cup {NoBuffer} /\ next \in Buffer \cup {NoBuffer}
      /\ disk' \in Buffer /\ <<>> \in Buffer /\ <<>> \in Seq(Buffer)
  BY Counted, NullIsNoBuffer DEF LogInv, LogTypes
<1>3. /\ Logged = All(disk, out, Unwritten(batch, index), b, c, n)
      /\ Logged' = All(disk', out', Unwritten(batch', index'), FlattenSeq(buffers'), Held(curr'), Held(next'))
  BY LoggedNow, Zenon
<1>4. Unwritten(batch, index) = <<>> /\ Unwritten(batch', index') = <<>>
  <2>1. 0 \in 0..Len(<<>>)
    OBVIOUS
  <2>2. Unwritten(<<>>, 0) = <<>>
    BY <1>2, <2>1, Waiting, Zenon
  <2> QED
    BY <1>1, <1>2, <2>2, Waiting, Zenon
<1>5. b \in Buffer /\ c \in Buffer /\ n \in Buffer
  <2>1. b \in Buffer
    BY <1>2, FlattenType, Zenon DEF Buffer
  <2> QED
    BY <1>2, <2>1, HeldLines, Zenon
<1>6. FlattenSeq(buffers') = b /\ Held(curr') = c /\ Held(next') = n
  BY <1>1, Zenon
<1> HIDE DEF b, c, n
<1>7. MovesLast(disk, out, b, c, n)
  BY <1>2, <1>5, Moves, Zenon
<1>8. Logged' = Logged
  BY <1>1, <1>3, <1>4, <1>6, <1>7, Zenon DEF MovesLast, Cat
<1>9. PICK r \in Buffer : Logged' = disk' \o r
  <2>1. BeginsWith(All(disk', <<>>, <<>>, b, c, n), disk')
    BY <1>2, <1>5, AllBegins, Zenon
  <2> QED
    BY <1>1, <1>3, <1>4, <1>6, <2>1, Zenon DEF BeginsWith
<1> QED
  BY <1>1, <1>2, <1>8, <1>9, WriteStep DEF alive

(* In the end the consumer takes all the buffers there are, in their order. *)
LEMMA LastRefines ==
  ASSUME LogAssumption, LogInv, LogInv', ConsumeLast
  PROVE  UNCHANGED Promise!vars
<1> DEFINE b == FlattenSeq(buffers)
           c == Held(curr)
           n == Held(next)
           all == buffers \o HandOver(curr) \o HandOver(next)
<1>1. /\ thread = "last" /\ batch' = all /\ index' = 0 /\ buffers' = <<>> /\ thread' = "write last"
      /\ curr' = Left(curr) /\ next' = Left(next) /\ UNCHANGED <<out, disk>>
  BY DEF ConsumeLast
<1>2. /\ disk \in Buffer /\ out \in Buffer /\ batch \in Seq(Buffer) /\ index \in 0..Len(batch)
      /\ buffers \in Seq(Buffer) /\ curr \in Buffer \cup {NoBuffer} /\ next \in Buffer \cup {NoBuffer}
      /\ batch = <<>> /\ batch' \in Seq(Buffer) /\ <<>> \in Buffer
  BY <1>1, Counted, NullIsNoBuffer DEF LogInv, LogTypes, BackBuffers
<1>3. /\ Logged = All(disk, out, Unwritten(batch, index), b, c, n)
      /\ Logged' = All(disk', out', Unwritten(batch', index'), FlattenSeq(buffers'), Held(curr'), Held(next'))
  BY LoggedNow, Zenon
<1>4. Unwritten(batch, index) = <<>>
  BY <1>2, Waiting, Zenon
<1>5. b \in Buffer /\ c \in Buffer /\ n \in Buffer
  <2>1. b \in Buffer
    BY <1>2, FlattenType, Zenon DEF Buffer
  <2> QED
    BY <1>2, <2>1, HeldLines, Zenon
<1>6. FlattenSeq(all) = Cat(Cat(b, c), n)
  BY <1>2, FlattenHandedOver, Zenon
<1>7. Unwritten(batch', index') = FlattenSeq(all)
  <2>1. 0 \in 0..Len(batch')
    BY <1>2, LenProperties
  <2>2. Unwritten(batch', 0) = FlattenSeq(batch')
    BY <1>2, <2>1, Waiting, Zenon
  <2> QED
    BY <1>1, <2>2, Zenon
<1>8. \A x \in Buffer \cup {NoBuffer} : Held(Left(x)) = <<>>
  BY HandedOver DEF Held
<1>9. FlattenSeq(buffers') = <<>> /\ Held(curr') = <<>> /\ Held(next') = <<>>
  <2>1. FlattenSeq(<<>>) = <<>>
    BY FlattenEmpty
  <2> QED
    BY <1>1, <1>2, <1>8, <2>1, Zenon
<1> HIDE DEF b, c, n, all
<1>10. MovesLast(disk, out, b, c, n)
  BY <1>2, <1>5, Moves, Zenon
<1>11. Logged' = Logged
  BY <1>1, <1>3, <1>4, <1>6, <1>7, <1>9, <1>10, Zenon DEF MovesLast
<1> QED
  BY <1>1, <1>11, StutterStep DEF alive

(* The destructor writes what is left. *)
LEMMA DestroyRefines ==
  ASSUME LogAssumption, LogInv, LogInv', Destroy
  PROVE  Promise!Write \/ UNCHANGED Promise!vars
<1> DEFINE b == FlattenSeq(buffers)
           c == Held(curr)
           n == Held(next)
           all == buffers \o HandOver(curr) \o HandOver(next)
           w == out \o FlattenSeq(all)
<1>1. /\ thread \in {"none", "ended"} /\ out' = <<>> /\ buffers' = <<>>
      /\ curr' = NoBuffer /\ next' = NoBuffer
      /\ disk' = (disk \o out) \o FlattenSeq(all) /\ UNCHANGED <<thread, batch, index>>
  BY DEF Destroy
<1>2. /\ disk \in Buffer /\ out \in Buffer /\ batch \in Seq(Buffer) /\ index \in 0..Len(batch)
      /\ buffers \in Seq(Buffer) /\ curr \in Buffer \cup {NoBuffer} /\ next \in Buffer \cup {NoBuffer}
      /\ batch = <<>> /\ <<>> \in Buffer /\ disk' \in Buffer
  BY <1>1, Counted, NullIsNoBuffer DEF LogInv, LogTypes, BackBuffers
<1>3. /\ Logged = All(disk, out, Unwritten(batch, index), b, c, n)
      /\ Logged' = All(disk', out', Unwritten(batch', index'), FlattenSeq(buffers'), Held(curr'), Held(next'))
  BY LoggedNow, Zenon
<1>4. Unwritten(batch, index) = <<>> /\ Unwritten(batch', index') = <<>>
  BY <1>1, <1>2, Waiting, Zenon
<1>5. b \in Buffer /\ c \in Buffer /\ n \in Buffer
  <2>1. b \in Buffer
    BY <1>2, FlattenType, Zenon DEF Buffer
  <2> QED
    BY <1>2, <2>1, HeldLines, Zenon
<1>6. FlattenSeq(all) = Cat(Cat(b, c), n)
  BY <1>2, FlattenHandedOver, Zenon
<1>7. FlattenSeq(buffers') = <<>> /\ Held(curr') = <<>> /\ Held(next') = <<>>
  <2>1. FlattenSeq(<<>>) = <<>>
    BY FlattenEmpty
  <2> QED
    BY <1>1, <2>1, Zenon DEF Held
<1>8. disk' = disk \o w /\ w \in Buffer
  <2>1. \A x, y \in Buffer : Cat(x, y) \in Buffer
    BY CatLaws, Zenon DEF Buffer
  <2>2. FlattenSeq(all) \in Buffer
    BY <1>5, <1>6, <2>1, Zenon
  <2> HIDE DEF all
  <2>3. \A x, y, z \in Buffer : Cat(Cat(x, y), z) = Cat(x, Cat(y, z))
    BY CatLaws, Zenon DEF Buffer
  <2>4. disk \in Buffer /\ out \in Buffer
    BY <1>2
  <2>5. Cat(Cat(disk, out), FlattenSeq(all)) = Cat(disk, Cat(out, FlattenSeq(all)))
    BY <2>2, <2>3, <2>4, Zenon
  <2>6. Cat(out, FlattenSeq(all)) \in Buffer
    BY <2>1, <2>2, <2>4, Zenon
  <2>7. disk' = Cat(Cat(disk, out), FlattenSeq(all))
    BY <1>1, Zenon DEF Cat, all
  <2> QED
    BY <2>5, <2>6, <2>7, Zenon DEF Cat, w
<1> HIDE DEF b, c, n, all, w
<1>9. MovesLast(disk, out, b, c, n)
  BY <1>2, <1>5, Moves, Zenon
<1>10. Logged' = Logged
  <2>1. disk' = Cat(Cat(disk, out), Cat(Cat(b, c), n))
    BY <1>1, <1>6, Zenon DEF Cat
  <2> QED
    BY <1>1, <1>3, <1>4, <1>7, <1>9, <2>1, Zenon DEF MovesLast
<1>11. PICK r \in Buffer : Logged' = disk' \o r
  <2>1. BeginsWith(All(disk', <<>>, <<>>, <<>>, <<>>, <<>>), disk')
    BY <1>2, AllBegins, Zenon
  <2> QED
    BY <1>1, <1>3, <1>4, <1>7, <2>1, Zenon DEF BeginsWith
<1> QED
  BY <1>1, <1>2, <1>8, <1>10, <1>11, WriteStep DEF alive

LEMMA StepRefines ==
  ASSUME LogAssumption, LogInv, LogInv', [LogNext]_logVars
  PROVE  [Promise!Next]_(Promise!vars)
<1>1. ASSUME NEW p \in Producers, LogEnter(p)
      PROVE  UNCHANGED Promise!vars
  BY <1>1, QuietStep, StutterStep DEF LogEnter, alive
<1>2. CASE Start
  BY <1>2, QuietStep, StutterStep DEF Start, alive
<1>3. CASE LogNothing
  BY <1>3, QuietStep, StutterStep DEF LogNothing, alive
<1>4. ASSUME NEW s \in Sizes, LogLine(s)
      PROVE  Promise!Log \/ UNCHANGED Promise!vars
  BY <1>4, LogLineRefines
<1>5. CASE ConsumeBegin
  <2>1. disk' = disk /\ Logged' = Logged
    BY <1>5, QuietStep DEF ConsumeBegin
  <2>2. CASE thread' = "aborted"
    <3>1. alive' = FALSE
      BY <2>2 DEF alive
    <3>2. Promise!Die
      BY <2>1, <3>1, Zenon DEF Promise!Die, Logged
    <3> QED
      BY <3>2 DEF Promise!Next
  <2>3. CASE thread' # "aborted"
    BY <1>5, <2>1, <2>3, StutterStep DEF ConsumeBegin, alive
  <2> QED
    BY <2>2, <2>3 DEF Promise!Next
<1>6. CASE ConsumeCheck
  BY <1>6, QuietStep, StutterStep DEF ConsumeCheck, alive
<1>7. CASE Stop
  BY <1>7, QuietStep, StutterStep DEF Stop, alive
<1>8. CASE UNCHANGED logVars
  BY <1>8, QuietStep, StutterStep DEF logVars, alive
<1>9. CASE ConsumeSwap \/ ConsumeLast
  BY <1>9, SwapRefines, LastRefines
<1>10. CASE WriteBuffer \/ ConsumeFlush \/ ConsumeEnd \/ Destroy
  <2>1. Promise!Write \/ UNCHANGED Promise!vars
    BY <1>10, WriteRefines, FlushRefines, DestroyRefines
  <2> QED
    BY <2>1 DEF Promise!Next
<1> QED
  BY <1>1, <1>2, <1>3, <1>4, <1>5, <1>6, <1>7, <1>8, <1>9, <1>10 DEF LogNext, Consume, Promise!Next

(* The appender implements AsyncLog, but for its liveness: lines reach the file in *)
(* the order they were logged, each once, whoever logs and whenever buffers are    *)
(* swapped, written, flushed and handed over to the destructor.                    *)
THEOREM ImplementsAsyncLog ==
  ASSUME LogAssumption
  PROVE  LogSpec => Promise!Init /\ [][Promise!Next]_(Promise!vars)
<1>1. LogInit => Promise!Init
  <2> SUFFICES ASSUME LogInit PROVE Promise!Init
    OBVIOUS
  <2>1. /\ batch = <<>> /\ index = 0 /\ buffers = <<>> /\ out = <<>> /\ disk = <<>>
        /\ curr = <<>> /\ next = <<>> /\ alive
    BY DEF LogInit, alive
  <2>2. Held(<<>>) = <<>>
    BY DEF Held
  <2>3. Len(<<>>) = 0 /\ SubSeq(<<>>, 0 + 1, 0) = <<>>
    BY SubSeqEmpty
  <2>4. SubSeq(batch, index + 1, Len(batch)) = <<>>
    BY <2>1, <2>3, Zenon
  <2>5. FlattenSeq(<<>>) = <<>>
    BY <2>3, FlattenEmpty
  <2>6. <<>> \o <<>> = <<>>
    BY EmptySeq, ConcatEmptySeq
  <2>7. disk \o Pending = <<>>
    BY <2>1, <2>2, <2>4, <2>5, <2>6, Zenon DEF Pending
  <2> QED
    BY <2>1, <2>7 DEF Promise!Init
<1>2. LogInv /\ LogInv' /\ [LogNext]_logVars => [Promise!Next]_(Promise!vars)
  BY StepRefines
<1> QED
  BY <1>1, <1>2, LogInvariantHolds, PTL DEF LogSpec

-----------------------------------------------------------------------------

\* Every listener but the late ones has been told of the value, and of each value that a
\* setter has announced and is going to store.
Heard ==
    \A l \in Added \ late :
        /\ value \in told[l]
        /\ \A t \in Setters : setting[t] # NoValue => setting[t] \in told[l]

ConfigInv == ConfigTypeOK /\ Heard

-----------------------------------------------------------------------------

LEMMA ConfigInitInvariant ==
  ASSUME InitialAssumption, ConfigInit
  PROVE  ConfigInv
  BY DEF InitialAssumption, ConfigInit, ConfigInv, ConfigTypeOK, Heard, Added

(* What the operations on cbs_ do to the listeners there are. *)
LEMMA AddedOne ==
  ASSUME InitialAssumption, ConfigTypeOK, NEW l \in Listeners, AddListener(l)
  PROVE  /\ Added' \subseteq Added \cup {l} /\ DOMAIN cbs' \subseteq 0..MaxKey - 1
         /\ sFunId' \in 1..MaxKey
<1>1. /\ MaxKey \in Nat /\ sFunId \in 0..MaxKey /\ sFunId < MaxKey /\ sFunId' \in 1..sFunId + 1
      /\ DOMAIN cbs \subseteq 0..MaxKey - 1
      /\ cbs' = [k \in DOMAIN cbs \cup {sFunId} |-> IF k \in DOMAIN cbs THEN cbs[k] ELSE l]
  BY DEF InitialAssumption, ConfigTypeOK, AddListener, NextKeys
<1>2. sFunId \in 0..MaxKey - 1 /\ sFunId' \in 1..MaxKey
  BY <1>1
<1>3. /\ DOMAIN cbs' = DOMAIN cbs \cup {sFunId}
      /\ \A k \in DOMAIN cbs' : cbs'[k] = IF k \in DOMAIN cbs THEN cbs[k] ELSE l
  BY <1>1
<1>4. Added' \subseteq Added \cup {l}
  BY <1>3 DEF Added
<1> QED
  BY <1>1, <1>2, <1>3, <1>4

LEMMA AddedFewer ==
  ASSUME (\E l \in Listeners : DelListener(l)) \/ ClearListener
  PROVE  Added' \subseteq Added /\ DOMAIN cbs' \subseteq DOMAIN cbs
  BY DEF DelListener, ClearListener, Added

-----------------------------------------------------------------------------

LEMMA ConfigNextInvariant ==
  ASSUME InitialAssumption, ConfigInv, [ConfigNext]_configVars
  PROVE  ConfigInv'
<1> USE DEF ConfigInv
<1>1. ASSUME NEW l \in Listeners, AddListener(l)
      PROVE  ConfigInv'
  <2>1. /\ Added' \subseteq Added \cup {l} /\ DOMAIN cbs' \subseteq 0..MaxKey - 1
        /\ sFunId' \in 1..MaxKey
    BY <1>1, AddedOne
  <2>2. /\ key' = [key EXCEPT ![l] = sFunId']
        /\ told' = [told EXCEPT ![l] = {value}]
        /\ late' = IF \E t \in Setters : setting[t] # NoValue THEN late \cup {l} ELSE late
        /\ value' = value /\ setting' = setting
    BY <1>1 DEF AddListener
  <2>3. sFunId' \in 0..MaxKey
    BY <2>1 DEF InitialAssumption
  <2>4. ConfigTypeOK'
    <3>1. key' \in [Listeners -> {NoKey} \cup 1..MaxKey]
      BY <2>1, <2>2 DEF ConfigTypeOK
    <3>2. told' \in [Listeners -> SUBSET Values]
      BY <2>2 DEF ConfigTypeOK
    <3> QED
      BY <2>1, <2>2, <2>3, <3>1, <3>2 DEF ConfigTypeOK
  <2>5. Heard'
    <3> SUFFICES ASSUME NEW m \in Added' \ late'
                 PROVE  /\ value \in told'[m]
                        /\ \A t \in Setters : setting[t] # NoValue => setting[t] \in told'[m]
      BY <2>2 DEF Heard
    <3>1. CASE m = l
      <4>1. \A t \in Setters : setting[t] = NoValue
        BY <2>2, <3>1
      <4> QED
        BY <2>2, <3>1, <4>1 DEF ConfigTypeOK
    <3>2. CASE m # l
      <4>1. m \in Added \ late /\ told'[m] = told[m]
        BY <2>1, <2>2, <3>2 DEF ConfigTypeOK
      <4> QED
        BY <4>1 DEF Heard
    <3> QED
      BY <3>1, <3>2
  <2> QED
    BY <2>4, <2>5
<1>2. ASSUME (\E l \in Listeners : DelListener(l)) \/ ClearListener
      PROVE  ConfigInv'
  <2>1. Added' \subseteq Added /\ DOMAIN cbs' \subseteq DOMAIN cbs
    BY <1>2, AddedFewer
  <2>2. UNCHANGED <<value, sFunId, key, setting, told, late>>
    BY <1>2 DEF DelListener, ClearListener
  <2> QED
    BY <2>1, <2>2 DEF ConfigTypeOK, Heard
<1>3. ASSUME NEW t \in Setters, SetStore(t)
      PROVE  ConfigInv'
  <2>1. /\ setting[t] # NoValue /\ value' = setting[t]
        /\ setting' = [setting EXCEPT ![t] = NoValue]
        /\ UNCHANGED <<cbs, sFunId, key, told, late>> /\ Added' = Added
    BY <1>3 DEF SetStore, Added
  <2>2. ConfigTypeOK'
    BY <2>1 DEF ConfigTypeOK
  <2>3. Heard'
    BY <2>1 DEF ConfigTypeOK, Heard
  <2> QED
    BY <2>2, <2>3
<1>4. ASSUME NEW t \in Setters, NEW v \in Values, SetAnnounce(t, v)
      PROVE  ConfigInv'
  <2>1. UNCHANGED <<value, cbs, sFunId, key, late>> /\ Added' = Added
    BY <1>4 DEF SetAnnounce, Added
  <2>2. CASE v = value
    BY <1>4, <2>1, <2>2 DEF SetAnnounce, ConfigTypeOK, Heard
  <2>3. CASE v # value
    <3>1. /\ setting' = [setting EXCEPT ![t] = v]
          /\ told' = [l \in Listeners |-> IF l \in Added THEN told[l] \cup {v} ELSE told[l]]
      BY <1>4, <2>3 DEF SetAnnounce
    <3>2. ConfigTypeOK'
      BY <2>1, <3>1 DEF ConfigTypeOK
    <3>3. Heard'
      BY <2>1, <3>1 DEF ConfigTypeOK, Heard
    <3> QED
      BY <3>2, <3>3
  <2> QED
    BY <2>2, <2>3
<1>5. CASE UNCHANGED configVars
  BY <1>5 DEF configVars, ConfigTypeOK, Heard, Added
<1>6. CASE AddElsewhere
  <2>1. /\ MaxKey \in Nat /\ sFunId \in 0..MaxKey /\ sFunId < MaxKey /\ sFunId' \in 1..sFunId + 1
        /\ UNCHANGED <<value, cbs, key, setting, told, late>>
    BY <1>6 DEF AddElsewhere, NextKeys, InitialAssumption, ConfigTypeOK
  <2>2. sFunId' \in 0..MaxKey /\ Added' = Added
    BY <2>1 DEF Added
  <2> QED
    BY <2>1, <2>2 DEF ConfigTypeOK, Heard
<1>7. ASSUME NEW t \in Setters, NEW v \in Values, SetThrows(t, v)
      PROVE  ConfigInv'
  <2>1. /\ UNCHANGED <<value, cbs, sFunId, key, setting, late>> /\ Added' = Added
        /\ \E some \in SUBSET Added :
              told' = [l \in Listeners |-> IF l \in some THEN told[l] \cup {v} ELSE told[l]]
    BY <1>7 DEF SetThrows, Added
  <2>2. PICK some \in SUBSET Added :
              told' = [l \in Listeners |-> IF l \in some THEN told[l] \cup {v} ELSE told[l]]
    BY <2>1
  <2>3. told' \in [Listeners -> SUBSET Values] /\ \A l \in Listeners : told[l] \subseteq told'[l]
    BY <2>2 DEF ConfigTypeOK
  <2>4. ConfigTypeOK'
    BY <2>1, <2>3 DEF ConfigTypeOK
  <2>5. Heard'
    BY <2>1, <2>3 DEF ConfigTypeOK, Heard
  <2> QED
    BY <2>4, <2>5
<1> QED
  BY <1>1, <1>2, <1>3, <1>4, <1>5, <1>6, <1>7 DEF ConfigNext

-----------------------------------------------------------------------------

(* The inductive invariant holds, whatever threads set the value and whatever *)
(* listeners are added and deleted meanwhile.                                 *)
THEOREM ConfigInvariantHolds ==
  ASSUME InitialAssumption
  PROVE  ConfigSpec => []ConfigInv
<1>1. ConfigInit => ConfigInv
  BY ConfigInitInvariant
<1>2. ConfigInv /\ [ConfigNext]_configVars => ConfigInv'
  BY ConfigNextInvariant
<1> QED
  BY <1>1, <1>2, PTL DEF ConfigSpec

(* The variables keep their types: keys are numbers that the shared counter   *)
(* has had, and only values of the configuration are announced and stored.    *)
THEOREM ConfigTypeCorrect ==
  ASSUME InitialAssumption
  PROVE  ConfigSpec => []ConfigTypeOK
<1>1. ConfigInv => ConfigTypeOK
  BY DEF ConfigInv
<1> QED
  BY <1>1, ConfigInvariantHolds, PTL

(* Whatever calls of setValue overlap, each listener that was not added       *)
(* between an announcement and its store has heard of the stored value.       *)
THEOREM ListenersWereTold ==
  ASSUME InitialAssumption
  PROVE  ConfigSpec => []ToldOfValue
<1>1. ConfigInv => ToldOfValue
  BY DEF ConfigInv, Heard, ToldOfValue
<1> QED
  BY <1>1, ConfigInvariantHolds, PTL

-----------------------------------------------------------------------------
(* ByteArray                                                                 *)

\* What the theorems assume of the constants.
BytesAssumption ==
    BlockSizeAssumption /\ MaxSize \in Nat /\ MaxBytes \in Nat /\ NoNode \notin Nat

\* How many bytes there are up to the p-th cell of the n-th block.
At(n, p) == (n - 1) * BlockSize + p

Byte == {NoByte} \cup 1..MaxBytes

\* The list ends with lastNode_, and a cell before the writer's place holds its byte.
Blocks ==
    /\ Len(nodes) = lastNode
    /\ written = At(lastNode, lastNodeBytesUsed)
    /\ \A n \in 1..lastNode, p \in 1..BlockSize : At(n, p) <= written => nodes[n][p] = At(n, p)

\* The reader's place is behind what was read, as long as currentNode_ is not nullptr.
Reader == currentNode # NoNode => Len(result) = At(currentNode, currNodePosition)

\* What was read is the beginning of what was written.
InOrder == ~over => Len(result) <= written /\ \A i \in 1..Len(result) : result[i] = i

Ended == undefined /\ ~over => currentNode = NoNode \/ firstSize < BlockSize

BytesInv == BytesTypeOK /\ result \in Seq(Byte) /\ Blocks /\ Reader /\ InOrder /\ Ended

-----------------------------------------------------------------------------
(* Division, and the products that the places of bytes are computed from      *)

LEMMA Division ==
  ASSUME NEW x \in Nat, NEW n \in Nat \ {0}
  PROVE  x \div n \in Nat /\ x % n \in 0..n - 1 /\ x = (x \div n) * n + (x % n)
<1>1. x \div n \in Nat /\ x % n \in 0..n - 1
  OBVIOUS
<1>2. x % n = x - n * (x \div n)
  BY SMTT(30)
<1>3. n * (x \div n) = (x \div n) * n /\ (x \div n) * n \in Int
  BY <1>1
<1> QED
  BY <1>1, <1>2, <1>3

LEMMA Order ==
  ASSUME NEW a \in Int, NEW b \in Int, NEW n \in Nat \ {0}, a * n < b * n
  PROVE  a < b
  OBVIOUS

LEMMA Quotients ==
  ASSUME NEW n \in Nat \ {0}, NEW q \in Nat, NEW d \in Nat, NEW r \in 0..n - 1, NEW m \in 0..n - 1,
         q * n + r <= d * n + m
  PROVE  q <= d
<1>1. (d + 1) * n = d * n + n /\ q * n \in Int /\ d * n \in Int
  OBVIOUS
<1>2. PICK a \in Int, b \in Int : a = q * n /\ b = d * n
  BY <1>1
<1>3. a < b + n
  BY <1>2
<1>4. q < d + 1
  BY <1>1, <1>2, <1>3, Order
<1> QED
  BY <1>4

-----------------------------------------------------------------------------

(* A block later is BlockSize bytes later. *)
LEMMA Distance ==
  ASSUME BytesAssumption, NEW n \in Int, NEW d \in Int, NEW p \in Int
  PROVE  At(n, p) \in Int /\ At(n + d, p) = At(n, p) + d * BlockSize /\ At(1, p) = p
<1>1. (n + d - 1) * BlockSize = (n - 1) * BlockSize + d * BlockSize /\ (1 - 1) * BlockSize = 0
  BY DEF BytesAssumption, BlockSizeAssumption
<1>2. (n - 1) * BlockSize \in Int /\ d * BlockSize \in Int /\ (n + d - 1) * BlockSize \in Int
  BY DEF BytesAssumption, BlockSizeAssumption
<1> QED
  BY <1>1, <1>2 DEF At

(* A cell that is not behind a place is in no later block. *)
LEMMA Before ==
  ASSUME BytesAssumption, NEW m \in Int, NEW n \in Int, NEW p \in Nat \ {0}, NEW q \in 0..BlockSize,
         At(m, p) <= At(n, q)
  PROVE  m <= n
<1>1. BlockSize \in Nat \ {0} /\ q \in Int /\ q <= BlockSize
  BY DEF BytesAssumption, BlockSizeAssumption
<1>2. (m - 1) * BlockSize \in Int /\ (n - 1) * BlockSize \in Int /\ n * BlockSize \in Int
  BY <1>1
<1>3. n * BlockSize = (n - 1) * BlockSize + BlockSize
  BY <1>1
<1>4. (m - 1) * BlockSize < n * BlockSize
  BY <1>1, <1>2, <1>3 DEF At
<1>5. m - 1 < n
  BY <1>1, <1>4, Order
<1> QED
  BY <1>5

(* The x-th byte from the beginning of a block on, as Write and Read find it *)
LEMMA Locate ==
  ASSUME BytesAssumption, NEW n \in Int, NEW x \in Nat
  PROVE  /\ x \div BlockSize \in Nat /\ x % BlockSize \in 0..BlockSize - 1
         /\ At(n + (x \div BlockSize), x % BlockSize) = At(n, x)
         /\ At(n + (x \div BlockSize), (x % BlockSize) + 1) = At(n, x) + 1
<1>1. BlockSize \in Nat \ {0}
  BY DEF BytesAssumption, BlockSizeAssumption
<1>2. PICK q \in Nat : q = x \div BlockSize
  BY <1>1, Division
<1>3. PICK r \in 0..BlockSize - 1 : r = x % BlockSize
  BY <1>1, Division
<1>4. x = q * BlockSize + r
  BY <1>1, <1>2, <1>3, Division
<1>5. q \in Int /\ r \in Int /\ q * BlockSize \in Int /\ (n - 1) * BlockSize \in Int
  BY <1>1
<1>6. At(n + q, r) = At(n, r) + q * BlockSize /\ At(n + q, r + 1) = At(n, r + 1) + q * BlockSize
  BY <1>5, Distance
<1>7. At(n + q, r) = At(n, x) /\ At(n + q, r + 1) = At(n, x) + 1
  BY <1>4, <1>5, <1>6 DEF At
<1> QED
  BY <1>2, <1>3, <1>7

-----------------------------------------------------------------------------

LEMMA BytesInitInvariant ==
  ASSUME BytesAssumption, BytesInit
  PROVE  BytesInv
<1>1. BlockSize \in Nat \ {0}
  BY DEF BytesAssumption, BlockSizeAssumption
<1>2. EmptyBlock \in Block /\ <<EmptyBlock>> \in Seq(Block) /\ Len(<<EmptyBlock>>) = 1
  BY DEF EmptyBlock, Block
<1>3. \A p \in Int : At(1, p) = p
  BY Distance
<1>7. \A p \in 1..BlockSize : EmptyBlock[p] = NoByte
  BY DEF EmptyBlock
<1>4. BytesTypeOK
  <2>1. {over, undefined} \subseteq BOOLEAN
    BY DEF BytesInit, BytesInv, BytesTypeOK
  <2> QED
    BY <1>1, <1>2, <1>7, <2>1 DEF BytesInit, BytesTypeOK, BytesAssumption
<1>5. result \in Seq(Byte) /\ Len(result) = 0
  BY DEF BytesInit
<1>6. Blocks /\ Reader
  BY <1>1, <1>2, <1>3, <1>5 DEF BytesInit, Blocks, Reader
<1> QED
  BY <1>4, <1>5, <1>6 DEF BytesInit, BytesInv, InOrder, Ended

LEMMA ClearInvariant ==
  ASSUME BytesAssumption, BytesInv, Clear
  PROVE  BytesInv'
<1>1. BlockSize \in Nat \ {0}
  BY DEF BytesAssumption, BlockSizeAssumption
<1>2. EmptyBlock \in Block /\ <<EmptyBlock>> \in Seq(Block) /\ Len(<<EmptyBlock>>) = 1
  BY DEF EmptyBlock, Block
<1>3. \A p \in Int : At(1, p) = p
  BY Distance
<1>7. \A p \in 1..BlockSize : EmptyBlock[p] = NoByte
  BY DEF EmptyBlock
<1>4. BytesTypeOK'
  <2>1. {over', undefined'} \subseteq BOOLEAN
    BY DEF Clear, BytesInv, BytesTypeOK
  <2> QED
    BY <1>1, <1>2, <1>7, <2>1 DEF Clear, BytesInv, BytesTypeOK, BytesAssumption
<1>5. result' \in Seq(Byte) /\ Len(result') = 0
  BY DEF Clear
<1>6. Blocks' /\ Reader'
  BY <1>1, <1>2, <1>3, <1>5 DEF Clear, Blocks, Reader, At
<1> QED
  BY <1>4, <1>5, <1>6 DEF Clear, BytesInv, InOrder, Ended

(* ensureWritableSize and write: the new bytes, in old blocks and new, are the   *)
(* next ones, and what was written stays.                                        *)
LEMMA WriteInBlocksInvariant ==
  ASSUME BytesAssumption, BytesInv, NEW size \in 1..MaxSize, WriteInBlocks(size),
         written + size <= MaxBytes, Allocated(lastNode, lastNodeBytesUsed, lastNodeBytesUsed + size)
  PROVE  BytesInv'
<1> DEFINE more == NodesNeeded(size)
           end == lastNodeBytesUsed + size
<1>1. /\ BlockSize \in Nat \ {0} /\ size \in Nat \ {0} /\ NoNode \notin Nat /\ MaxBytes \in Nat
      /\ lastNode \in Nat \ {0} /\ lastNodeBytesUsed \in 0..BlockSize /\ written \in Nat
      /\ end \in Nat \ {0} /\ nodes \in Seq(Block) /\ Len(nodes) = lastNode
      /\ written = At(lastNode, lastNodeBytesUsed)
  BY DEF BytesAssumption, BlockSizeAssumption, BytesInv, BytesTypeOK, Blocks
<1>2. /\ more \in Nat
      /\ end <= BlockSize => more = 0
      /\ end > BlockSize => more = (end - 1) \div BlockSize
  <2>1. size - (BlockSize - lastNodeBytesUsed) + BlockSize - 1 = end - 1
    BY <1>1
  <2>2. end - 1 \in Nat
    BY <1>1
  <2>3. (end - 1) \div BlockSize \in Nat
    BY <1>1, <2>2, Division
  <2>4. size <= BlockSize - lastNodeBytesUsed <=> end <= BlockSize
    BY <1>1
  <2>5. more = IF end <= BlockSize THEN 0 ELSE (end - 1) \div BlockSize
    BY <2>1, <2>4 DEF NodesNeeded
  <2> QED
    BY <1>1, <2>3, <2>5
<1>3. end - more * BlockSize \in 1..BlockSize
  <2>1. CASE end <= BlockSize
    BY <1>1, <1>2, <2>1
  <2>2. CASE end > BlockSize
    <3>1. end - 1 \in Nat
      BY <1>1
    <3>2. /\ end - 1 = more * BlockSize + ((end - 1) % BlockSize)
          /\ (end - 1) % BlockSize \in 0..BlockSize - 1
      BY <1>1, <1>2, <2>2, <3>1, Division
    <3>3. more * BlockSize \in Int
      BY <1>1, <1>2
    <3> QED
      BY <1>1, <3>2, <3>3
  <2> QED
    BY <1>1, <2>1, <2>2
<1>4. /\ written + size <= MaxBytes
      /\ lastNode' = lastNode + more /\ lastNodeBytesUsed' = end - more * BlockSize
      /\ written' = written + size
      /\ UNCHANGED <<firstSize, currentNode, currNodePosition, result, over, undefined>>
  <2>1. more = IF end <= BlockSize THEN 0 ELSE (end - 1) \div BlockSize
    BY <1>1, <1>2
  <2> HIDE DEF more
  <2> QED
    BY <2>1, Zenon DEF WriteInBlocks
<1> DEFINE all == nodes \o [n \in 1..more |-> EmptyBlock]
<1> HIDE DEF more
<1>5. /\ all \in Seq(Block) /\ Len(all) = lastNode + more
      /\ \A n \in 1..lastNode : all[n] = nodes[n]
  <2>1. EmptyBlock \in Block
    BY DEF EmptyBlock, Block
  <2>2. [n \in 1..more |-> EmptyBlock] \in Seq(Block) /\ Len([n \in 1..more |-> EmptyBlock]) = more
    BY <1>2, <2>1
  <2> QED
    BY <1>1, <1>2, <2>2
<1> DEFINE byte(n, p) == (n - lastNode) * BlockSize + p - lastNodeBytesUsed
<1> HIDE DEF all
<1>6. nodes' = [n \in 1..lastNode + more |-> [p \in 1..BlockSize |->
                  IF n >= lastNode /\ byte(n, p) \in 1..size THEN written + byte(n, p) ELSE all[n][p]]]
  <2>1. DOMAIN all = 1..lastNode + more
    BY <1>5
  <2> QED
    BY <2>1, Zenon DEF WriteInBlocks, more, all, byte
<1>7. \A n, p \in Int : byte(n, p) \in Int /\ written + byte(n, p) = At(n, p)
  <2> SUFFICES ASSUME NEW n \in Int, NEW p \in Int
               PROVE  byte(n, p) \in Int /\ written + byte(n, p) = At(n, p)
    OBVIOUS
  <2>1. n = lastNode + (n - lastNode) /\ n - lastNode \in Int
    BY <1>1
  <2>2. (n - lastNode) * BlockSize \in Int
    BY <1>1
  <2>3. (n - 1) * BlockSize = (lastNode - 1) * BlockSize + (n - lastNode) * BlockSize
    BY <1>1
  <2>4. (n - 1) * BlockSize \in Int /\ (lastNode - 1) * BlockSize \in Int
    BY <1>1
  <2> QED
    BY <1>1, <2>2, <2>3, <2>4 DEF At
<1> HIDE DEF byte
<1>8. nodes' \in Seq(Block) /\ Len(nodes') = lastNode + more
  <2>1. ASSUME NEW n \in 1..lastNode + more, NEW p \in 1..BlockSize
        PROVE  (IF n >= lastNode /\ byte(n, p) \in 1..size THEN written + byte(n, p) ELSE all[n][p])
                  \in {NoByte} \cup 1..MaxBytes
    <3>1. all[n][p] \in {NoByte} \cup 1..MaxBytes
      <4>1. all[n] \in Block
        BY <1>1, <1>2, <1>5
      <4> QED
        BY <4>1 DEF Block
    <3>2. byte(n, p) \in 1..size => written + byte(n, p) \in 1..MaxBytes
      BY <1>1, <1>4
    <3> QED
      BY <3>1, <3>2
  <2>2. ASSUME NEW n \in 1..lastNode + more PROVE nodes'[n] \in Block
    BY <1>6, <2>1 DEF Block
  <2>3. lastNode + more \in Nat
    BY <1>1, <1>2
  <2>4. nodes' \in [1..lastNode + more -> Block]
    BY <1>6, <2>2
  <2> QED
    BY <2>3, <2>4
<1>9. written' = At(lastNode', lastNodeBytesUsed')
  <2>1. At(lastNode + more, end - more * BlockSize)
          = At(lastNode, end - more * BlockSize) + more * BlockSize
    <3>1. ASSUME NEW p \in Int
          PROVE  At(lastNode + more, p) = At(lastNode, p) + more * BlockSize
      <4>1. lastNode \in Int /\ more \in Int
        BY <1>1, <1>2
      <4> QED
        BY <4>1, Distance, Zenon
    <3> QED
      BY <1>1, <1>3, <3>1
  <2>2. (lastNode - 1) * BlockSize \in Int /\ more * BlockSize \in Int
    BY <1>1, <1>2
  <2> QED
    BY <1>1, <1>2, <1>4, <2>1, <2>2 DEF At
<1>10. ASSUME NEW n \in 1..lastNode', NEW p \in 1..BlockSize, At(n, p) <= written'
       PROVE  nodes'[n][p] = At(n, p)
  <2>1. n \in 1..lastNode + more /\ n \in Int /\ p \in Int /\ p \in Nat \ {0}
    BY <1>1, <1>2, <1>4
  <2>2. nodes'[n][p] = IF n >= lastNode /\ byte(n, p) \in 1..size THEN written + byte(n, p)
                                                                  ELSE all[n][p]
    BY <1>6, <2>1
  <2>3. byte(n, p) \in Int /\ written + byte(n, p) = At(n, p)
    BY <1>7, <2>1
  <2>4. byte(n, p) <= size
    BY <1>1, <1>4, <1>10, <2>3
  <2>5. CASE n >= lastNode /\ byte(n, p) \in 1..size
    BY <2>2, <2>3, <2>5
  <2>6. CASE ~(n >= lastNode) /\ byte(n, p) >= 1
    <3>1. At(lastNode, lastNodeBytesUsed) < At(n, p)
      BY <1>1, <2>3, <2>6
    <3>2. PICK q \in Int : q = lastNodeBytesUsed /\ q >= 0
      BY <1>1
    <3>3. n + 1 <= lastNode /\ (n - 1) * BlockSize \in Int /\ n * BlockSize \in Int
          /\ (lastNode - 1) * BlockSize \in Int
      BY <1>1, <2>1, <2>6
    <3>4. n * BlockSize <= (lastNode - 1) * BlockSize
      BY <1>1, <2>1, <3>3
    <3>5. n * BlockSize = (n - 1) * BlockSize + BlockSize
      BY <1>1, <2>1
    <3> QED
      BY <1>1, <2>1, <3>1, <3>3, <3>4, <3>5 DEF At
  <2>7. CASE byte(n, p) < 1
    <3>1. At(n, p) <= written
      BY <1>1, <2>3, <2>7
    <3>2. n <= lastNode
      BY <1>1, <2>1, <3>1, Before
    <3>3. n \in 1..lastNode /\ nodes[n][p] = At(n, p) /\ all[n] = nodes[n]
      BY <1>1, <1>5, <2>1, <3>1, <3>2 DEF BytesInv, Blocks
    <3> QED
      BY <2>2, <2>3, <2>7, <3>3
  <2> QED
    BY <1>1, <2>3, <2>4, <2>5, <2>6, <2>7
<1>11. Blocks'
  BY <1>4, <1>8, <1>9, <1>10 DEF Blocks, At
<1>12. BytesTypeOK'
  <2>1. lastNode' \in DOMAIN nodes' /\ lastNodeBytesUsed' \in 0..BlockSize
    BY <1>1, <1>2, <1>3, <1>4, <1>8
  <2>2. currentNode' \in DOMAIN nodes' \cup {NoNode}
    BY <1>1, <1>2, <1>4, <1>8 DEF BytesInv, BytesTypeOK
  <2>3. written' \in 0..MaxBytes
    BY <1>1, <1>4
  <2>4. ASSUME NEW p \in firstSize + 1..BlockSize
        PROVE  nodes'[1][p] = NoByte
    <3>1. /\ firstSize \in 0..BlockSize /\ nodes[1][p] = NoByte
          /\ p \in 1..BlockSize /\ p > firstSize /\ p \in Int /\ 1 \in 1..lastNode + more
      BY <1>1, <1>2 DEF BytesInv, BytesTypeOK
    <3>2. nodes'[1][p] = IF 1 >= lastNode /\ byte(1, p) \in 1..size THEN written + byte(1, p)
                                                                    ELSE nodes[1][p]
      BY <1>1, <1>5, <1>6, <3>1
    <3>3. ASSUME lastNode = 1, byte(1, p) \in 1..size PROVE FALSE
      <4>1. written = lastNodeBytesUsed /\ written + byte(1, p) = p
        BY <1>1, <1>7, <3>1, <3>3, Distance
      <4>2. byte(1, p) = p - lastNodeBytesUsed
        BY <1>1, <3>3, <4>1
      <4>3. p <= end /\ lastNodeBytesUsed < BlockSize /\ lastNodeBytesUsed < p
        BY <1>1, <3>1, <3>3, <4>2
      <4>4. end <= firstSize \/ firstSize = BlockSize
        BY <1>1, <3>3, <4>3 DEF Allocated
      <4> QED
        BY <1>1, <3>1, <4>3, <4>4
    <3> QED
      BY <1>1, <3>1, <3>2, <3>3
  <2> QED
    BY <1>4, <1>8, <2>1, <2>2, <2>3, <2>4 DEF BytesInv, BytesTypeOK, Block
<1>13. Len(result) \in Nat /\ (InOrder /\ Reader /\ Ended)'
  BY <1>1, <1>4 DEF BytesInv, InOrder, Reader, Ended, At
<1> QED
  BY <1>4, <1>11, <1>12, <1>13 DEF BytesInv

(* write: in the blocks, or over the end of a first block that is too small. *)
LEMMA WriteInvariant ==
  ASSUME BytesAssumption, BytesInv, NEW size \in 1..MaxSize, Write(size)
  PROVE  BytesInv'
<1>1. CASE Allocated(lastNode, lastNodeBytesUsed, lastNodeBytesUsed + size)
  <2>1. WriteInBlocks(size) /\ written + size <= MaxBytes
    BY <1>1 DEF Write
  <2> QED
    BY <1>1, <2>1, WriteInBlocksInvariant
<1>2. CASE ~Allocated(lastNode, lastNodeBytesUsed, lastNodeBytesUsed + size)
  <2>1. Overrun
    BY <1>2 DEF Write
  <2>2. firstSize \in 0..BlockSize /\ firstSize # BlockSize /\ BlockSize \in Nat
    BY <1>2 DEF Allocated, BytesInv, BytesTypeOK, BytesAssumption, BlockSizeAssumption
  <2>3. Ended'
    BY <2>1, <2>2 DEF Overrun, Ended
  <2>4. BytesTypeOK'
    BY <2>1 DEF Overrun, BytesInv, BytesTypeOK, Block
  <2> QED
    BY <2>1, <2>3, <2>4 DEF Overrun, BytesInv, Blocks, At, Reader, InOrder
<1> QED
  BY <1>1, <1>2

(* read: the cells it copies are those of the next bytes.  A reader that asks for *)
(* no more than there is does not leave the list, but where it ends with a block. *)
LEMMA ReadInvariant ==
  ASSUME BytesAssumption, BytesInv, NEW size \in 1..MaxSize, Read(size)
  PROVE  BytesInv'
<1> DEFINE end == currNodePosition + size
           d == (end - 1) \div BlockSize
           L == Len(result)
           m == (end - 1) % BlockSize
<1>1. /\ BlockSize \in Nat \ {0} /\ size \in Nat \ {0} /\ NoNode \notin Nat
      /\ lastNode \in Nat \ {0} /\ lastNodeBytesUsed \in 0..BlockSize /\ written \in Nat
      /\ currNodePosition \in 0..BlockSize - 1 /\ end \in Nat \ {0}
      /\ nodes \in Seq(Block) /\ Len(nodes) = lastNode
      /\ result \in Seq(Byte) /\ L \in Nat /\ over \in BOOLEAN
      /\ currentNode # NoNode => currentNode \in 1..lastNode
  BY DEF BytesAssumption, BlockSizeAssumption, BytesInv, BytesTypeOK, Blocks
<1>2. /\ UNCHANGED <<nodes, firstSize, lastNode, lastNodeBytesUsed, written>>
      /\ over' = (over \/ L + size > written) /\ ~undefined
  BY DEF Read
<1>3. ~over' => ~over /\ L + size <= written
  <2>1. ~over' => ~over /\ ~(L + size > written)
    BY <1>2, Zenon
  <2>2. ~(L + size > written) => L + size <= written
    BY <1>1
  <2> QED
    BY <2>1, <2>2, Zenon
<1>4. Blocks'
  BY <1>2 DEF BytesInv, Blocks, At
<1>5. over' \in BOOLEAN
  BY <1>1, <1>2
<1>6. BlockSize \in Nat \ {0}
  BY <1>1
<1>7. /\ d \in Nat /\ m \in 0..BlockSize - 1 /\ end - 1 = d * BlockSize + m
      /\ \A n \in Int : At(n + d, m + 1) = At(n, end)
  <2>1. end - 1 \in Nat
    BY <1>1
  <2>2. PICK x \in Nat : x = end - 1
    BY <2>1
  <2>3. /\ x \div BlockSize \in Nat /\ x % BlockSize \in 0..BlockSize - 1
        /\ x = (x \div BlockSize) * BlockSize + (x % BlockSize)
    BY <1>6, Division
  <2>4. x \div BlockSize = d /\ x % BlockSize = m
    <3> HIDE DEF end
    <3>1. x \div BlockSize = d
      BY <2>2, Zenon
    <3>2. x % BlockSize = m
      BY <2>2, Zenon
    <3> QED
      BY <3>1, <3>2
  <2>5. d \in Nat /\ m \in 0..BlockSize - 1 /\ end - 1 = d * BlockSize + m
    <3> HIDE DEF d, m, end
    <3> QED
      BY <2>2, <2>3, <2>4
  <2>6. ASSUME NEW n \in Int PROVE At(n, end - 1) + 1 = At(n, end)
    <3>1. (n - 1) * BlockSize \in Int
      BY <1>1
    <3> QED
      BY <1>1, <3>1 DEF At
  <2>7. ASSUME NEW n \in Int PROVE At(n + d, m + 1) = At(n, end - 1) + 1
    <3>1. At(n + (x \div BlockSize), (x % BlockSize) + 1) = At(n, x) + 1
      BY Locate
    <3> QED
      <4> HIDE DEF d, m, end
      <4> QED
        BY <2>2, <2>4, <3>1
  <2> QED
    BY <2>6, <2>7, <2>5
<1>8. /\ Reachable(size) <=>
            currentNode # NoNode /\ currentNode + d <= Len(nodes)
              /\ Allocated(currentNode, currNodePosition, end)
      /\ ~Reachable(size) =>
            undefined' = TRUE /\ UNCHANGED <<currentNode, currNodePosition, result>>
      /\ Reachable(size) =>
            /\ result' = result \o [i \in 1..size |-> Cell(currNodePosition + i - 1)]
            /\ currentNode' = Place(currentNode + (end \div BlockSize))
            /\ currNodePosition' = end % BlockSize /\ UNCHANGED undefined
  <2>1. d = (currNodePosition + size - 1) \div BlockSize /\ end = currNodePosition + size
    <3>1. end - 1 = currNodePosition + size - 1
      BY <1>1
    <3> QED
      BY <3>1, Zenon
  <2> HIDE DEF d, end
  <2>2. Reachable(size) <=> currentNode # NoNode /\ currentNode + d <= Len(nodes)
                              /\ Allocated(currentNode, currNodePosition, end)
    BY <2>1, Zenon DEF Reachable
  <2>3. /\ ~Reachable(size) => undefined' = TRUE /\ UNCHANGED <<currentNode, currNodePosition, result>>
        /\ Reachable(size) =>
            /\ result' = result \o [i \in 1..size |-> Cell(currNodePosition + i - 1)]
            /\ currentNode' = Place(currentNode + (end \div BlockSize))
            /\ currNodePosition' = end % BlockSize /\ UNCHANGED undefined
    BY <2>1, Zenon DEF Read
  <2> QED
    BY <2>2, <2>3, Zenon
<1>9. end = currNodePosition + size /\ L = Len(result)
  OBVIOUS
<1> HIDE DEF d, m, end, L
<1>10. d \in Nat /\ m \in 0..BlockSize - 1 /\ m + 1 \in Nat \ {0}
  <2>1. d \in Nat /\ m \in 0..BlockSize - 1
    BY <1>7, Zenon
  <2> QED
    BY <1>6, <2>1
<1>11. CASE ~Reachable(size)
  <2>1. undefined' = TRUE /\ UNCHANGED <<currentNode, currNodePosition, result>>
    BY <1>11, <1>8
  <2>6. firstSize \in 0..BlockSize
    BY DEF BytesInv, BytesTypeOK
  <2>2. ASSUME ~over', currentNode # NoNode, ~(firstSize < BlockSize) PROVE FALSE
    <3>1. At(currentNode, end) <= At(lastNode, lastNodeBytesUsed)
      <4>1. L = At(currentNode, currNodePosition) /\ L + size <= written
            /\ written = At(lastNode, lastNodeBytesUsed)
        BY <1>9, <1>3, <2>2 DEF BytesInv, Reader, Blocks
      <4>2. (currentNode - 1) * BlockSize \in Int
        BY <1>1, <2>2
      <4>3. At(currentNode, end) = At(currentNode, currNodePosition) + size
        BY <1>1, <1>9, <4>2 DEF At
      <4> QED
        BY <4>1, <4>3
    <3>2. currentNode + d <= lastNode
      <4>1. currentNode + d \in Int /\ lastNode \in Int /\ m + 1 \in Nat \ {0}
        BY <1>1, <1>10, <2>2
      <4>2. At(currentNode + d, m + 1) <= At(lastNode, lastNodeBytesUsed)
        <5>1. currentNode \in Int
          BY <1>1, <2>2
        <5> QED
          BY <1>7, <3>1, <5>1
      <4> QED
        BY <1>1, <4>1, <4>2, Before, Zenon
    <3>3. Allocated(currentNode, currNodePosition, end)
      BY <1>1, <2>2, <2>6 DEF Allocated
    <3> QED
      BY <1>1, <1>8, <1>11, <2>2, <3>2, <3>3
  <2>3. BytesTypeOK'
    BY <1>2, <1>5, <2>1 DEF BytesInv, BytesTypeOK, Block
  <2>4. InOrder'
    BY <1>1, <1>2, <2>1 DEF BytesInv, InOrder
  <2>5. Reader' /\ Ended'
    BY <1>2, <2>1, <2>2 DEF BytesInv, Reader, Ended, At
  <2> QED
    BY <1>1, <1>4, <2>1, <2>3, <2>4, <2>5 DEF BytesInv
<1>12. CASE Reachable(size)
  <2> DEFINE more == [i \in 1..size |-> Cell(currNodePosition + i - 1)]
  <2>1. /\ result' = result \o more /\ currentNode' = Place(currentNode + (end \div BlockSize))
        /\ currNodePosition' = end % BlockSize /\ UNCHANGED undefined
    BY <1>12, <1>8
  <2>2. currentNode \in 1..lastNode /\ currentNode \in Int /\ currentNode + d <= lastNode
        /\ L = At(currentNode, currNodePosition)
    <3>1. currentNode # NoNode /\ currentNode \in 1..lastNode /\ currentNode + d <= lastNode
      BY <1>1, <1>8, <1>12
    <3> QED
      BY <1>1, <1>10, <1>9, <3>1 DEF BytesInv, Reader
  <2>3. \A i \in Int : At(currentNode, currNodePosition + i) = L + i
    <3>1. (currentNode - 1) * BlockSize \in Int
      BY <1>1, <2>2
    <3> QED
      BY <1>1, <2>2, <3>1 DEF At
  <2>4. ASSUME NEW i \in 1..size
        PROVE  /\ Cell(currNodePosition + i - 1) \in Byte
               /\ L + i <= written => Cell(currNodePosition + i - 1) = L + i
    <3>1. PICK x \in Nat : x = currNodePosition + i - 1 /\ x <= end - 1
      BY <1>1, <1>9
    <3>2. PICK q \in Nat, r \in 0..BlockSize - 1 : q = x \div BlockSize /\ r = x % BlockSize
      BY <1>1, Division
    <3>3. At(currentNode + q, r + 1) = At(currentNode, x) + 1
      BY <2>2, <3>2, Locate
    <3>4. At(currentNode, x) + 1 = L + i
      <4>1. x = currNodePosition + (i - 1) /\ i - 1 \in Int
        BY <1>1, <3>1
      <4>2. At(currentNode, x) = L + (i - 1)
        BY <2>3, <4>1
      <4> QED
        BY <1>1, <4>2
    <3>5. q <= d
      <4>1. x = q * BlockSize + r
        BY <1>1, <3>2, Division
      <4>2. q * BlockSize + r <= d * BlockSize + m
        BY <1>7, <3>1, <4>1
      <4> QED
        BY <1>6, <1>10, <4>2, Quotients
    <3>6. currentNode + q \in 1..lastNode /\ r + 1 \in 1..BlockSize
      BY <1>1, <1>7, <2>2, <3>5
    <3>7. Cell(currNodePosition + i - 1) = nodes[currentNode + q][r + 1]
      BY <3>1, <3>2 DEF Cell
    <3>8. nodes[currentNode + q] \in Block
      BY <1>1, <3>6
    <3>9. nodes[currentNode + q][r + 1] \in Byte
      BY <3>6, <3>8 DEF Block, Byte
    <3>10. L + i <= written => nodes[currentNode + q][r + 1] = L + i
      BY <3>3, <3>4, <3>6 DEF BytesInv, Blocks
    <3> QED
      BY <3>7, <3>9, <3>10
  <2>5. /\ more \in Seq(Byte) /\ Len(more) = size
        /\ \A i \in 1..size : more[i] = Cell(currNodePosition + i - 1)
    <3>1. more \in [1..size -> Byte]
      BY <2>4
    <3> HIDE DEF more
    <3>2. more \in Seq(Byte) /\ Len(more) = size
      BY <1>1, <3>1
    <3> QED
      BY <3>2 DEF more
  <2> HIDE DEF more
  <2>6. /\ result' \in Seq(Byte) /\ Len(result') = L + size
        /\ \A i \in 1..L : result'[i] = result[i]
        /\ \A i \in 1..size : result'[L + i] = more[i]
    BY <1>1, <1>9, <2>1, <2>5 DEF more
  <2>7. InOrder'
    <3> SUFFICES ASSUME ~over'
                 PROVE  L + size <= written /\ \A i \in 1..L + size : result'[i] = i
      BY <1>2, <2>6 DEF InOrder
    <3>1. ~over /\ L + size <= written
      BY <1>3
    <3>2. ASSUME NEW i \in 1..L + size PROVE result'[i] = i
      <4>1. CASE i <= L
        BY <1>1, <1>9, <2>6, <3>1, <4>1 DEF BytesInv, InOrder
      <4>2. CASE i > L
        <5>1. i - L \in 1..size /\ i = L + (i - L)
          BY <1>1, <4>2
        <5>2. more[i - L] = L + (i - L)
          <6>1. L + (i - L) <= written
            BY <1>1, <3>1
          <6> QED
            BY <2>4, <2>5, <5>1, <6>1, Zenon
        <5> QED
          BY <2>6, <5>1, <5>2
      <4> QED
        BY <1>1, <4>1, <4>2
    <3> QED
      BY <3>1, <3>2
  <2>8. /\ currNodePosition' \in 0..BlockSize - 1
        /\ currentNode' # NoNode =>
            currentNode' \in 1..lastNode /\ L + size = At(currentNode', currNodePosition')
    <3>1. PICK q \in Nat, r \in 0..BlockSize - 1 : q = end \div BlockSize /\ r = end % BlockSize
      BY <1>1, Division
    <3>2. At(currentNode + q, r) = At(currentNode, end)
      BY <1>1, <2>2, <3>1, Locate
    <3>3. At(currentNode, end) = L + size
      BY <1>1, <1>9, <2>3
    <3>4. currentNode' # NoNode => currentNode' = currentNode + q /\ currentNode + q \in 1..lastNode
      BY <1>1, <2>1, <3>1 DEF Place
    <3> QED
      BY <2>1, <3>1, <3>2, <3>3, <3>4
  <2>9. Reader' /\ Ended'
    BY <1>2, <2>1, <2>6, <2>8 DEF Reader, Ended, At
  <2>10. BytesTypeOK'
    BY <1>1, <1>2, <1>5, <2>1, <2>8 DEF BytesInv, BytesTypeOK, Block
  <2> QED
    BY <1>4, <2>6, <2>7, <2>9, <2>10 DEF BytesInv
<1> QED
  BY <1>11, <1>12

LEMMA BytesNextInvariant ==
  ASSUME BytesAssumption, BytesInv, [BytesNext]_bytesVars
  PROVE  BytesInv'
<1>1. CASE Clear
  BY <1>1, ClearInvariant
<1>2. ASSUME NEW size \in 1..MaxSize, Write(size)
      PROVE  BytesInv'
  BY <1>2, WriteInvariant
<1>3. ASSUME NEW size \in 1..MaxSize, Read(size)
      PROVE  BytesInv'
  BY <1>3, ReadInvariant
<1>4. CASE UNCHANGED bytesVars
  BY <1>4 DEF bytesVars, BytesInv, BytesTypeOK, Block, Blocks, At, Reader, InOrder, Ended
<1> QED
  BY <1>1, <1>2, <1>3, <1>4 DEF BytesNext

-----------------------------------------------------------------------------

(* The inductive invariant holds, for blocks and operations of any size. *)
THEOREM BytesInvariantHolds ==
  ASSUME BytesAssumption
  PROVE  BytesSpec => []BytesInv
<1>1. BytesInit => BytesInv
  BY BytesInitInvariant
<1>2. BytesInv /\ [BytesNext]_bytesVars => BytesInv'
  BY BytesNextInvariant
<1> QED
  BY <1>1, <1>2, PTL DEF BytesSpec

(* The variables keep their types: the writer's and the reader's places are      *)
(* in the list, or currentNode_ is nullptr, and no byte of the first block that  *)
(* malloc has not given is written.                                              *)
THEOREM BytesTypeCorrect ==
  ASSUME BytesAssumption
  PROVE  BytesSpec => []BytesTypeOK
<1>1. BytesInv => BytesTypeOK
  BY DEF BytesInv
<1> QED
  BY <1>1, BytesInvariantHolds, PTL

(* However writes and reads cut the bytes, a reader that asks for no more than   *)
(* is there gets every byte, in order; it is in undefined behaviour only behind  *)
(* the end of the list or where the first block is smaller than a block.         *)
THEOREM BytesAreReadBack ==
  ASSUME BytesAssumption
  PROVE  BytesSpec => []ReadBack
<1>1. BytesInv => ReadBack
  <2> SUFFICES ASSUME BytesInv, ~over
               PROVE  /\ result = [i \in 1..Len(result) |-> i]
                      /\ undefined => currentNode = NoNode \/ firstSize < BlockSize
    BY DEF ReadBack
  <2>1. result \in Seq(Byte) /\ \A i \in 1..Len(result) : result[i] = i
    BY DEF BytesInv, InOrder
  <2>2. result = [i \in 1..Len(result) |-> i]
    BY <2>1
  <2> QED
    BY <2>2 DEF BytesInv, Ended
<1> QED
  BY <1>1, BytesInvariantHolds, PTL
-----------------------------------------------------------------------------
(* The parts side by side: each keeps its invariant while it runs, and the *)
(* variables of the others do not change.                                  *)

\* What the theorem assumes of the constants.
PartsAssumption == LogAssumption /\ InitialAssumption /\ BytesAssumption

LibraryInv == part \in Parts /\ LogInv /\ ConfigInv /\ BytesInv

LEMMA LibraryInitInvariant ==
  ASSUME PartsAssumption, Init
  PROVE  LibraryInv
<1>1. LogInv
  BY LogInitInvariant DEF Init, PartsAssumption
<1>2. ConfigInv
  BY ConfigInitInvariant DEF Init, PartsAssumption
<1>3. BytesInv
  BY BytesInitInvariant DEF Init, PartsAssumption
<1> QED
  BY <1>1, <1>2, <1>3 DEF LibraryInv, Init

LEMMA LibraryNextInvariant ==
  ASSUME PartsAssumption, LibraryInv, [Next]_vars
  PROVE  LibraryInv'
<1>1. /\ part' = part
      /\ [LogNext]_logVars /\ [ConfigNext]_configVars /\ [BytesNext]_bytesVars
  <2>1. CASE part = "log" /\ LogNext /\ UNCHANGED <<part, configVars, bytesVars>>
    BY <2>1
  <2>2. CASE part = "config" /\ ConfigNext /\ UNCHANGED <<part, logVars, bytesVars>>
    BY <2>2
  <2>3. CASE part = "bytes" /\ BytesNext /\ UNCHANGED <<part, logVars, configVars>>
    BY <2>3
  <2>4. CASE UNCHANGED vars
    BY <2>4 DEF vars
  <2> QED
    BY <2>1, <2>2, <2>3, <2>4 DEF Next
<1>2. LogInv'
  BY <1>1, LogNextInvariant DEF LibraryInv, PartsAssumption
<1>3. ConfigInv'
  BY <1>1, ConfigNextInvariant DEF LibraryInv, PartsAssumption
<1>4. BytesInv'
  BY <1>1, BytesNextInvariant DEF LibraryInv, PartsAssumption
<1> QED
  BY <1>1, <1>2, <1>3, <1>4 DEF LibraryInv

(* The variables of each part keep their types, for as many producers,     *)
(* setters and listeners as there are, blocks of any size and, in a        *)
(* ByteArray, any first block that malloc may have given.                  *)
THEOREM LibraryTypeCorrect == ASSUME PartsAssumption PROVE Spec => []LibraryTypeOK
<1>1. Init => LibraryInv
  BY LibraryInitInvariant
<1>2. LibraryInv /\ [Next]_vars => LibraryInv'
  BY LibraryNextInvariant
<1>3. LibraryInv => LibraryTypeOK
  <2>1. LibraryInv => part \in Parts /\ LogTypeOK /\ ConfigTypeOK /\ BytesTypeOK
    BY DEF LibraryInv, LogInv, LogTypes, ConfigInv, BytesInv
  <2> QED
    BY <2>1 DEF LibraryTypeOK, Parts
<1> QED
  BY <1>1, <1>2, <1>3, PTL DEF Spec

=============================================================================
