------------------------------- MODULE Buffer -------------------------------
(***************************************************************************)
(* Buffer (buffer/buffer.h, buffer/buffer.cc): bytes in a vector, between a *)
(* reader index and a writer index.  A buffer is a record, an operation is  *)
(* an operator that returns the buffer after the call; `content', the       *)
(* sequence of bytes its callers believe in, is kept beside it.  Sizes are   *)
(* size_t, but MakeSpace takes an int.                                       *)
(***************************************************************************)
EXTENDS Integers, Sequences

CONSTANTS
  CR, LF, Zero,     \* the bytes that are told apart; a vector is filled with Zero
  Data,             \* the sequences of bytes callers append and prepend
  kCheapPrepend, kInitialSize,
  ExtraSize,        \* sizeof(extrabuf) in ReadFd
  IntLimit,         \* 2^31, the first number an int cannot hold
  MaxContent,       \* bound: bytes in the buffer
  MaxArg            \* bound: arguments of Retrieve, EnsureWritable and Shrink

Bytes == {CR, LF, Zero}

ASSUME BytesAssumption == CR # LF /\ CR # Zero /\ LF # Zero
ASSUME DataAssumption == Data \subseteq Seq(Bytes)
ASSUME SizesAssumption ==
  /\ kCheapPrepend \in Nat /\ kInitialSize \in Nat /\ ExtraSize \in Nat
  /\ IntLimit \in Nat /\ ExtraSize < IntLimit
  /\ MaxContent \in Nat /\ MaxArg \in Nat

VARIABLES
  buf,          \* the buffer
  content,      \* history: what was put in and not yet taken out
  huge          \* history: a call asked for more room than an int can tell

vars == <<buf, content, huge>>

-----------------------------------------------------------------------------
(* The operations.  b.reader and b.writer are reader_index_, writer_index_;  *)
(* b.mem is buffer_, indexed from 0, and b.size its size().                  *)

Zeros(size) == [i \in 0..(size - 1) |-> Zero]

\* The constructor.
NewBuffer(initial) ==
  [size |-> kCheapPrepend + initial, mem |-> Zeros(kCheapPrepend + initial),
   reader |-> kCheapPrepend, writer |-> kCheapPrepend]

ReadableBytes(b)    == b.writer - b.reader
WritableBytes(b)    == b.size - b.writer
PrependableBytes(b) == b.reader

\* The readable bytes as a sequence (ContentToString).
ContentToString(b) ==
  [i \in 1..ReadableBytes(b) |-> b.mem[b.reader + i - 1]]

\* memory after std::copy of data to the place of index at.
Copied(mem, data, at) ==
  [i \in DOMAIN mem |->
     IF i \in at..(at + Len(data) - 1) THEN data[i - at + 1] ELSE mem[i]]

\* buffer_.resize(n)
Resized(mem, n) ==
  [i \in 0..(n - 1) |-> IF i \in DOMAIN mem THEN mem[i] ELSE Zero]

\* A size_t as an int.
ToInt(n) == ((n + IntLimit) % (2 * IntLimit)) - IntLimit

\* MakeSpace's test: is there enough room if the bytes move to the front?  A
\* negative sum is a huge size_t.
Moves(b, len) ==
  /\ len + kCheapPrepend >= 0
  /\ WritableBytes(b) + PrependableBytes(b) >= len + kCheapPrepend

MakeSpace(b, len) ==
  IF Moves(b, len)
    THEN [b EXCEPT !.mem = Copied(@, ContentToString(b), kCheapPrepend),
                   !.reader = kCheapPrepend,
                   !.writer = kCheapPrepend + ReadableBytes(b)]
    ELSE [b EXCEPT !.mem = Resized(@, b.writer + len),
                   !.size = b.writer + len]

EnsureWritableBytes(b, len) ==
  IF WritableBytes(b) < len THEN MakeSpace(b, ToInt(len)) ELSE b

\* resize(writer_index_ + len) with a negative sum, that is with more than a vector
\* can hold: std::length_error, before anything has changed.
Throws(b, len) ==
  /\ WritableBytes(b) < len
  /\ ~Moves(b, ToInt(len)) /\ b.writer + ToInt(len) < 0

AppendTo(b, data) ==
  LET e == EnsureWritableBytes(b, Len(data))
  IN [e EXCEPT !.mem = Copied(@, data, e.writer),
               !.writer = @ + Len(data)]

PrependTo(b, data) ==
  [b EXCEPT !.mem = Copied(@, data, b.reader - Len(data)),
            !.reader = @ - Len(data)]

RetrieveAll(b) ==
  [b EXCEPT !.reader = kCheapPrepend, !.writer = kCheapPrepend]

\* Retrieve of more than there is takes all.
RetrieveFrom(b, len) ==
  IF len < ReadableBytes(b) THEN [b EXCEPT !.reader = @ + len]
                            ELSE RetrieveAll(b)

\* Shrink: a new buffer is filled and swapped with this one.
Other(b, reserve) ==
  EnsureWritableBytes(NewBuffer(kInitialSize), ReadableBytes(b) + reserve)

Shrunk(b, reserve) == AppendTo(Other(b, reserve), ContentToString(b))

ShrinkThrows(b, reserve) ==
  \/ Throws(NewBuffer(kInitialSize), ReadableBytes(b) + reserve)
  \/ Throws(Other(b, reserve), ReadableBytes(b))

\* What readv can return: no more than fits into the buffer, and into extrabuf
\* where that is given too.
ReadLimit(b) ==
  WritableBytes(b) + (IF WritableBytes(b) < ExtraSize THEN ExtraSize ELSE 0)

\* Mutant: the writer index is not moved to the end before the rest is added.
ReadIntoOverlaps(b, data) ==
  LET first == SubSeq(data, 1, WritableBytes(b))
      rest  == SubSeq(data, WritableBytes(b) + 1, Len(data))
      filled == [b EXCEPT !.mem = Copied(@, first, b.writer)]
  IN IF Len(data) <= WritableBytes(b)
       THEN [b EXCEPT !.mem = Copied(@, data, b.writer),
                      !.writer = @ + Len(data)]
       ELSE AppendTo(filled, rest)

\* ReadFd, when readv returns data: the bytes that do not fit come by extrabuf.
ReadInto(b, data) ==
  LET first == SubSeq(data, 1, WritableBytes(b))
      rest  == SubSeq(data, WritableBytes(b) + 1, Len(data))
      filled == [b EXCEPT !.mem = Copied(@, first, b.writer),
                          !.writer = b.size]
  IN IF Len(data) <= WritableBytes(b)
       THEN [b EXCEPT !.mem = Copied(@, data, b.writer),
                      !.writer = @ + Len(data)]
       ELSE AppendTo(filled, rest)

\* Mutant: the search goes on into the bytes behind the writer index.
SearchEndOfMemory(b) == b.size

\* FindCRLF searches from Peek() to BeginWrite().
SearchEnd(b) == b.writer

CRLFs(b) ==
  {i \in b.reader..(SearchEnd(b) - 2) : b.mem[i] = CR /\ b.mem[i + 1] = LF}

\* The index FindCRLF returns; nullptr is -1.
FindCRLF(b) ==
  IF CRLFs(b) = {} THEN -1
  ELSE CHOOSE i \in CRLFs(b) : \A j \in CRLFs(b) : i <= j

-----------------------------------------------------------------------------
Init == buf = NewBuffer(kInitialSize) /\ content = <<>> /\ huge = FALSE

\* May n more bytes come in?
Fits(n) == Len(content) + n <= MaxContent

\* A call asks for room for n bytes.
Asks(n) == huge' = (huge \/ n >= IntLimit)

\* Append, AppendInt8 to AppendInt64.
AppendData(data) ==
  /\ Fits(Len(data)) /\ Asks(Len(data))
  /\ IF Throws(buf, Len(data)) THEN UNCHANGED <<buf, content>>
     ELSE buf' = AppendTo(buf, data) /\ content' = content \o data

\* Prepend, PrependInt8 to PrependInt64; the assert is the caller's duty.
PrependData(data) ==
  /\ Fits(Len(data)) /\ Len(data) <= PrependableBytes(buf)
  /\ buf' = PrependTo(buf, data)
  /\ content' = data \o content
  /\ UNCHANGED huge

ReadFd(data) ==
  /\ Fits(Len(data)) /\ Len(data) <= ReadLimit(buf)
  /\ buf' = ReadInto(buf, data)
  /\ content' = content \o data
  /\ UNCHANGED huge

EnsureWritable(len) ==
  /\ Asks(len)
  /\ buf' = IF Throws(buf, len) THEN buf ELSE EnsureWritableBytes(buf, len)
  /\ UNCHANGED content

Shrink(reserve) ==
  /\ Asks(ReadableBytes(buf) + reserve)
  /\ buf' = IF ShrinkThrows(buf, reserve) THEN buf ELSE Shrunk(buf, reserve)
  /\ UNCHANGED content

\* Retrieve, RetrieveAsString, ReadInt8 to ReadInt64, and the Retrieve of a
\* caller of WriteFd.
Retrieve(len) ==
  /\ buf' = RetrieveFrom(buf, len)
  /\ content' = SubSeq(content, len + 1, Len(content))
  /\ UNCHANGED huge

\* Where a CR LF begins in content.
LineEnds == {i \in 1..(Len(content) - 1) : content[i] = CR /\ content[i + 1] = LF}

\* RetrieveUntil(FindCRLF() + 2): a line is consumed.
RetrieveLine ==
  /\ FindCRLF(buf) # -1
  /\ buf' = RetrieveFrom(buf, FindCRLF(buf) + 2 - buf.reader)
  /\ \E i \in LineEnds :
       /\ \A j \in LineEnds : i <= j
       /\ content' = SubSeq(content, i + 2, Len(content))
  /\ UNCHANGED huge

\* The bytes are in the vector.  What a program does after it wrote behind the end,
\* or cut the vector short of the writer index, is undefined.
InBounds == buf.writer <= buf.size

Next ==
  \/ /\ InBounds
     /\ \/ \E data \in Data : AppendData(data) \/ PrependData(data) \/ ReadFd(data)
        \/ \E n \in 0..MaxArg : EnsureWritable(n) \/ Shrink(n) \/ Retrieve(n)
        \/ RetrieveLine
  \/ ~InBounds /\ UNCHANGED vars

Spec == Init /\ [][Next]_vars

-----------------------------------------------------------------------------
(* Properties.                                                              *)

\* The layout of the class comment, 0 <= readerIndex <= writerIndex <= size,
\* and kCheapPrepend <= writerIndex.
WellFormed(b) ==
  /\ b \in [size : Nat, mem : [0..(b.size - 1) -> Bytes],
            reader : Nat, writer : Nat]
  /\ b.reader <= b.writer /\ b.writer <= b.size /\ kCheapPrepend <= b.writer

\* Type invariant.
TypeOK ==
  /\ InBounds => WellFormed(buf)
  /\ content \in Seq(Bytes) /\ huge \in BOOLEAN

\* The readable bytes are those that were put in and not taken out, in their
\* order, however often they were moved, resized, swapped or read in two parts;
\* also when a call failed with std::length_error.  They are inside the vector,
\* unless a call asked for 2^31 bytes or more: then MakeSpace's int may lead to a
\* vector that is too short.
KeepsBytes ==
  /\ InBounds \/ huge
  /\ InBounds => ContentToString(buf) = content

\* EnsureWritableBytes gives the room it is asked for, when that is less than
\* 2^31 bytes: the copy that follows it in Append stays inside the vector.
EnsuresSpace ==
  InBounds => \A n \in 0..MaxArg :
                n < IntLimit => WritableBytes(EnsureWritableBytes(buf, n)) >= n

\* For every size_t, which TLC refutes; no run lists it.
AlwaysEnsuresSpace ==
  InBounds => \A n \in 0..MaxArg :
                ~Throws(buf, n) => WritableBytes(EnsureWritableBytes(buf, n)) >= n

\* Only Prepend takes from the kCheapPrepend bytes in front: a caller that
\* kept room for a header still has it after anything else was called.
CheapPrependKept ==
  [][\/ buf'.reader >= buf.reader \/ buf'.reader >= kCheapPrepend
     \/ \E data \in Data : PrependData(data)]_vars

\* FindCRLF finds the first line of content, and no line that is not there:
\* never one that ends in stale bytes behind the writer index.
FindsFirstLine ==
  InBounds =>
    IF LineEnds = {} THEN FindCRLF(buf) = -1
    ELSE \E i \in LineEnds :
           /\ \A j \in LineEnds : i <= j
           /\ FindCRLF(buf) = buf.reader + i - 1
=============================================================================
