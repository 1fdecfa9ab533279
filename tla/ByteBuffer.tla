----------------------------- MODULE ByteBuffer -----------------------------
(***************************************************************************)
(* Buffer of libgenBuffer.h, which every frame, packet and message is held *)
(* in: a window in a piece of memory.  Bytes are appended at its end and   *)
(* consumed at its head; the memory is moved or allocated when the room    *)
(* behind the window is too small.                                         *)
(*                                                                         *)
(* mTail is mHead + mSize after every operation.  Left out are operations  *)
(* that end in a Panic, those of an adopted buffer among them, clear of    *)
(* an adopted buffer, and fill without a size, which nothing calls.        *)
(***************************************************************************)
EXTENDS Integers, Sequences, FiniteSetsExt

CONSTANTS
    Strings,           \* bound: what is written, sequences of bytes
    MaxAllocation   \* bound: the memory

ASSUME BufferAssumption ==
    /\ MaxAllocation \in Nat
    /\ \A d \in Strings : d \in Seq(Nat \ {0}) /\ Len(d) <= MaxAllocation

VARIABLES
    buf,        \* mStorage, mHead, mSize and mAdopted; mAllocation is the storage's length
    contents    \* what a user of the buffer expects in it

bufferVars == << buf, contents >>

Zeros(n) == [i \in 1 .. n |-> 0]

NewBuffer(storage) == [mStorage |-> storage, mHead |-> 0, mSize |-> Len(storage), mAdopted |-> FALSE]

mAllocation(b) == Len(b.mStorage)
Window(b) == SubSeq(b.mStorage, b.mHead + 1, b.mHead + b.mSize)

\* memcpy of d to a position.
Written(storage, at, d) ==
    [i \in DOMAIN storage |-> IF i - at \in DOMAIN d THEN d[i - at] ELSE storage[i]]

\* tidy( 0 )
Tidied(b) == IF b.mSize = 0 THEN [b EXCEPT !.mHead = 0] ELSE b

\* The window at the head of the old memory or of a new one, zeros behind it.
Moved(b, allocation) == [b EXCEPT !.mStorage = Window(b) \o Zeros(allocation - b.mSize), !.mHead = 0]

\* Mutant: the room before the window counts.
ExpandByAll(b, count) == IF mAllocation(b) - b.mSize > count THEN b ELSE Moved(b, mAllocation(b) + count)

Expand(b, count) ==
    LET spare == mAllocation(b) - b.mSize
    IN  IF spare <= count THEN Moved(b, mAllocation(b) + count)
        ELSE IF spare - b.mHead < count THEN Moved(b, mAllocation(b))
        ELSE b

Reserve(b, size) == IF b.mSize < size THEN Expand(b, size - b.mSize) ELSE b

-----------------------------------------------------------------------------
(* Operations *)

BufferInit ==
    /\ \E d \in Strings : buf = NewBuffer(d) /\ contents = d

\* A copy of the window, and of the bytes of a buffer that is not its own.
CopyConstruct ==
    /\ buf' = IF buf.mAdopted THEN [NewBuffer(Window(buf)) EXCEPT !.mAdopted = TRUE] ELSE NewBuffer(Window(buf))
    /\ UNCHANGED contents

\* size( size ): it takes all of new memory, and nothing happens at the size of the old one.
\* The buffers the server gives a size are not consumed from.
Resize ==
    /\ ~buf.mAdopted /\ buf.mHead = 0
    /\ \E size \in 0 .. MaxAllocation :
           IF size > mAllocation(buf)
           THEN LET b == Reserve(buf, size)
                IN  /\ mAllocation(b) <= MaxAllocation
                    /\ buf' = [b EXCEPT !.mSize = mAllocation(b)]
                    /\ contents' = contents \o Zeros(mAllocation(b) - Len(contents))
           ELSE /\ size <= Len(contents) /\ size < mAllocation(buf)
                /\ buf' = [buf EXCEPT !.mSize = size]
                /\ contents' = SubSeq(contents, 1, size)

ReserveRoom ==
    /\ ~buf.mAdopted
    /\ \E size \in 0 .. MaxAllocation :
           /\ buf' = Reserve(buf, size)
           /\ mAllocation(buf') <= MaxAllocation
    /\ UNCHANGED contents

Clear ==
    /\ ~buf.mAdopted
    /\ buf' = [buf EXCEPT !.mSize = 0, !.mHead = 0]
    /\ contents' = << >>

FillWith ==
    /\ ~buf.mAdopted
    /\ \E size \in 0 .. MaxAllocation :
           LET storage == IF mAllocation(buf) < size THEN Zeros(size) ELSE buf.mStorage
               ones == [i \in 1 .. size |-> 1]
           IN  /\ buf' = [buf EXCEPT !.mStorage = Written(storage, 0, ones), !.mHead = 0, !.mSize = size]
               /\ contents' = ones

\* Into its own memory, or that of the adopted buffer, if it is large enough.
Assign ==
    \E d \in Strings :
        LET storage == IF mAllocation(buf) < Len(d) THEN Zeros(Len(d)) ELSE buf.mStorage
        IN  /\ buf.mAdopted => Len(d) <= mAllocation(buf)
            /\ buf' = [buf EXCEPT !.mStorage = Written(storage, 0, d), !.mHead = 0, !.mSize = Len(d)]
            /\ contents' = d

Adopt ==
    \E d \in Strings : buf' = [NewBuffer(d) EXCEPT !.mAdopted = TRUE] /\ contents' = d

\* consume, and extract, which returns where the bytes are: no more than there are.
Consume ==
    \E n \in 0 .. MaxAllocation :
        LET count == Min({n, buf.mSize})
        IN  /\ buf' = Tidied([buf EXCEPT !.mHead = @ + count, !.mSize = @ - count])
            /\ contents' = SubSeq(contents, n + 1, Len(contents))

Shrink ==
    \E n \in 0 .. MaxAllocation :
        LET count == Min({n, buf.mSize})
        IN  /\ buf' = Tidied([buf EXCEPT !.mSize = @ - count])
            /\ contents' = SubSeq(contents, 1, Len(contents) - n)

AppendBytes ==
    /\ ~buf.mAdopted
    /\ \E d \in Strings :
           LET b == Expand(buf, Len(d))
           IN  /\ mAllocation(b) <= MaxAllocation
               /\ buf' = [b EXCEPT !.mStorage = Written(@, b.mHead + b.mSize, d), !.mSize = @ + Len(d)]
               /\ contents' = contents \o d

Insert ==
    /\ ~buf.mAdopted
    /\ \E d \in Strings :
           LET b == Expand(buf, Len(d))
               shifted == Written(b.mStorage, b.mHead + Len(d), Window(b))
           IN  /\ mAllocation(b) <= MaxAllocation
               /\ buf' = [b EXCEPT !.mStorage = Written(shifted, b.mHead, d), !.mSize = @ + Len(d)]
               /\ contents' = d \o contents

\* range: a buffer of its own of a part of the window.
RangeOf ==
    /\ \E index \in 0 .. buf.mSize - 1 :
           \E size \in 0 .. buf.mSize - index :
               /\ buf' = NewBuffer(SubSeq(buf.mStorage, buf.mHead + index + 1, buf.mHead + index + size))
               /\ contents' = SubSeq(contents, index + 1, index + size)

BufferNext ==
    \/ CopyConstruct \/ Resize \/ ReserveRoom \/ Clear \/ FillWith \/ Assign \/ Adopt
    \/ Consume \/ Shrink \/ AppendBytes \/ Insert \/ RangeOf

BufferSpec == BufferInit /\ [][BufferNext]_bufferVars

-----------------------------------------------------------------------------
\* The window lies in the memory and holds what was written, in order, less what was taken
\* from either end, however often the memory was moved, reused or replaced
\* (Buffer::expand, append, consume, tidy).
BufferIsQueue ==
    /\ buf.mHead + buf.mSize <= mAllocation(buf)
    /\ Window(buf) = contents

-----------------------------------------------------------------------------
(* The inductive invariant behind BufferIsQueue *)

BufferType == [mStorage : Seq(Nat), mHead : Nat, mSize : Nat, mAdopted : BOOLEAN]

\* The window lies in the memory, and each byte of it is the expected one.
Holds(b, d) ==
    /\ b \in BufferType
    /\ b.mHead + b.mSize <= mAllocation(b)
    /\ d \in Seq(Nat) /\ Len(d) = b.mSize
    /\ \A i \in 1 .. b.mSize : b.mStorage[b.mHead + i] = d[i]

\* The inductive invariant: the buffer and what is expected in it agree byte by byte (libgenBuffer.h).
BufferInv == Holds(buf, contents)
=============================================================================
