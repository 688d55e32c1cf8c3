------------------------------ MODULE ByteArray ------------------------------
(***************************************************************************)
(* ByteArray (src/container/byte_array.cc): bytes in a list of blocks,     *)
(* written at the end of the last block and read from the current one.     *)
(* A byte is its number in the order of writing; a cell of a block that    *)
(* was not written holds NoByte.                                           *)
(*                                                                         *)
(* The constructor allocates the first block before it sets blockSize_     *)
(* (firstNode_ is declared first, byte_array.h:289-297), so the block has  *)
(* as many bytes as the indeterminate value of blockSize_ asks for.        *)
(***************************************************************************)
EXTENDS Integers, Sequences, SequencesExt, FiniteSetsExt

CONSTANTS
    BlockSize,   \* blockSize_
    NoByte,      \* what malloc leaves in a block
    NoNode,      \* nullptr
    MaxSize,     \* bound: bytes of one operation
    MaxBytes     \* bound: bytes that are written

BlockSizeAssumption == BlockSize \in Nat \ {0}

VARIABLES
    nodes,             \* the blocks from firstNode_ on
    firstSize,         \* how many bytes of the first block malloc has given, BlockSize at most
    lastNode,          \* the place of lastNode_ in the list
    lastNodeBytesUsed, \* lastNodeBytesUsed_
    currentNode,       \* the place of currentNode_
    currNodePosition,  \* currNodePosition_
    written,           \* how many bytes were written since clear()
    result,            \* the bytes that were read since then
    over,              \* whether a read got more than was written and not read
    undefined          \* whether a null pointer was followed or a block overrun

bytesVars == <<nodes, firstSize, lastNode, lastNodeBytesUsed, currentNode, currNodePosition, written, result,
              over, undefined>>

Block == [1..BlockSize -> {NoByte} \cup 1..MaxBytes]

EmptyBlock == [i \in 1..BlockSize |-> NoByte]

BytesTypeOK ==
    /\ nodes \in Seq(Block) /\ lastNode \in DOMAIN nodes
    /\ firstSize \in 0..BlockSize /\ \A p \in firstSize + 1..BlockSize : nodes[1][p] = NoByte
    /\ lastNodeBytesUsed \in 0..BlockSize
    /\ currentNode \in DOMAIN nodes \cup {NoNode} /\ currNodePosition \in 0..BlockSize - 1
    /\ written \in 0..MaxBytes
    /\ {over, undefined} \subseteq BOOLEAN

\* A larger first block is as good as one of BlockSize.
BytesInit ==
    /\ nodes = <<EmptyBlock>> /\ firstSize \in 0..BlockSize /\ lastNode = 1 /\ lastNodeBytesUsed = 0
    /\ currentNode = 1 /\ currNodePosition = 0
    /\ written = 0 /\ result = <<>> /\ over = FALSE /\ undefined = FALSE

\* getReadableBytes: nothing ever moves currNodeIndex_, so what was read still counts.
GetReadableBytes == (Len(nodes) - 1) * BlockSize + lastNodeBytesUsed

\* Rounded down.
NodesNeededDown(size) ==
    LET left == BlockSize - lastNodeBytesUsed IN
    IF size <= left THEN 0 ELSE (size - left) \div BlockSize

\* ensureWritableSize rounds up to whole blocks.
NodesNeeded(size) ==
    LET left == BlockSize - lastNodeBytesUsed IN
    IF size <= left THEN 0 ELSE (size - left + BlockSize - 1) \div BlockSize

\* The bytes from begin to end, counted from the beginning of block n, were allocated.
Allocated(n, begin, end) == n > 1 \/ begin >= BlockSize \/ end <= firstSize \/ firstSize = BlockSize

\* A last block that a write has filled stays the last block, with nothing free in it.
WriteInBlocks(size) ==
    /\ LET all == nodes \o [n \in 1..NodesNeeded(size) |-> EmptyBlock]
           end == lastNodeBytesUsed + size
           more == IF end <= BlockSize THEN 0 ELSE (end - 1) \div BlockSize
           byte(n, p) == (n - lastNode) * BlockSize + p - lastNodeBytesUsed
       IN /\ nodes' = [n \in DOMAIN all |-> [p \in 1..BlockSize |->
                IF n >= lastNode /\ byte(n, p) \in 1..size THEN written + byte(n, p)
                ELSE all[n][p]]]
          /\ lastNode' = lastNode + more
          /\ lastNodeBytesUsed' = end - more * BlockSize
    /\ written' = written + size
    /\ UNCHANGED <<firstSize, currentNode, currNodePosition, result, over, undefined>>

\* A write over the end of the first block: nothing is known after it.
Overrun ==
    /\ undefined' = TRUE
    /\ UNCHANGED <<nodes, firstSize, lastNode, lastNodeBytesUsed, currentNode, currNodePosition,
                   written, result, over>>

Write(size) ==
    /\ written + size <= MaxBytes /\ ~undefined
    /\ IF Allocated(lastNode, lastNodeBytesUsed, lastNodeBytesUsed + size)
       THEN WriteInBlocks(size)
       ELSE Overrun

\* The cell i places behind the beginning of the current block.
Cell(i) == nodes[currentNode + i \div BlockSize][(i % BlockSize) + 1]

\* The blocks that a read of size bytes goes through are in the list and large enough.
Reachable(size) ==
    /\ currentNode # NoNode
    /\ currentNode + (currNodePosition + size - 1) \div BlockSize <= Len(nodes)
    /\ Allocated(currentNode, currNodePosition, currNodePosition + size)

Place(n) == IF n \in DOMAIN nodes THEN n ELSE NoNode

\* A read that stays in a block it has read to the end.
ReadStays(size) ==
    /\ size <= GetReadableBytes /\ ~undefined
    /\ over' = (over \/ Len(result) + size > written)
    /\ IF ~Reachable(size)
       THEN undefined' = TRUE /\ UNCHANGED <<currentNode, currNodePosition, result>>
       ELSE LET end == currNodePosition + size
            IN /\ result' = result \o [i \in 1..size |-> Cell(currNodePosition + i - 1)]
               /\ currentNode' = currentNode + (end - 1) \div BlockSize
               /\ currNodePosition' = end % BlockSize
               /\ UNCHANGED undefined
    /\ UNCHANGED <<nodes, firstSize, lastNode, lastNodeBytesUsed, written>>

\* A read that ends at the end of a block moves on to the next at once, if there is none
\* yet to nullptr. One that asks for more than getReadableBytes throws and changes nothing.
Read(size) ==
    /\ size <= GetReadableBytes /\ ~undefined
    /\ over' = (over \/ Len(result) + size > written)
    /\ IF ~Reachable(size)
       THEN undefined' = TRUE /\ UNCHANGED <<currentNode, currNodePosition, result>>
       ELSE LET end == currNodePosition + size
            IN /\ result' = result \o [i \in 1..size |-> Cell(currNodePosition + i - 1)]
               /\ currentNode' = Place(currentNode + end \div BlockSize)
               /\ currNodePosition' = end % BlockSize
               /\ UNCHANGED undefined
    /\ UNCHANGED <<nodes, firstSize, lastNode, lastNodeBytesUsed, written>>

\* What is left in the first block is garbage.
Clear ==
    /\ ~undefined
    /\ nodes' = <<EmptyBlock>> /\ lastNode' = 1 /\ lastNodeBytesUsed' = 0
    /\ currentNode' = 1 /\ currNodePosition' = 0
    /\ written' = 0 /\ result' = <<>> /\ over' = FALSE
    /\ UNCHANGED <<firstSize, undefined>>

BytesNext == Clear \/ \E size \in 1..MaxSize : Write(size) \/ Read(size)

BytesSpec == BytesInit /\ [][BytesNext]_bytesVars

-----------------------------------------------------------------------------

\* A reader that asks for no more than is written and unread gets every byte, in order,
\* however writes and reads cut the blocks, also when a write fills a block exactly; and
\* nothing is undefined for it but in two ways.  The first block may be smaller than a block
\* (byte_array.cc:20 runs before :62) and be overrun.  And a reader that has caught up with the
\* writer at the very end of a block has let currentNode_ become nullptr for good: its next
\* read, which byte_array.h:179-186 says succeeds or throws out_of_range, follows it.
ReadBack ==
    ~over =>
        /\ result = [i \in 1..Len(result) |-> i]
        /\ undefined => currentNode = NoNode \/ firstSize < BlockSize
=============================================================================
