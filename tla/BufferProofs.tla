---------------------------- MODULE BufferProofs ----------------------------
(***************************************************************************)
(* Theorems about Buffer, for every size of its areas, every sequence of   *)
(* bytes, every width of an int and every argument.                        *)
(***************************************************************************)
EXTENDS Buffer, HttpServer, SequenceTheorems, WellFoundedInduction, TLAPS

\* The parts of a well-formed buffer.
LEMMA Parts ==
  ASSUME NEW b, WellFormed(b)
  PROVE  /\ b.size \in Nat /\ b.reader \in Nat /\ b.writer \in Nat
         /\ b.mem \in [0..(b.size - 1) -> Bytes]
         /\ b.reader <= b.writer /\ b.writer <= b.size /\ kCheapPrepend <= b.writer
         /\ b = [size |-> b.size, mem |-> b.mem,
                 reader |-> b.reader, writer |-> b.writer]
BY DEF WellFormed

\* A record with the right parts is well formed.
LEMMA Builds ==
  ASSUME NEW size \in Nat, NEW mem \in [0..(size - 1) -> Bytes],
         NEW reader \in Nat, NEW writer \in Nat,
         reader <= writer, writer <= size, kCheapPrepend <= writer
  PROVE  WellFormed([size |-> size, mem |-> mem,
                     reader |-> reader, writer |-> writer])
BY DEF WellFormed

\* A function on 1..n is a sequence of length n.
LEMMA FunctionIsSeq ==
  ASSUME NEW n \in Nat, NEW f \in [1..n -> Bytes]
  PROVE  f \in Seq(Bytes) /\ Len(f) = n
OBVIOUS

\* Two sequences with the same length and the same elements are equal.
LEMMA SameSeq ==
  ASSUME NEW s \in Seq(Bytes), NEW t \in Seq(Bytes), Len(s) = Len(t),
         \A i \in 1..Len(s) : s[i] = t[i]
  PROVE  s = t
BY SeqEqual

\* The elements of a concatenation.
LEMMA ConcatParts ==
  ASSUME NEW s \in Seq(Bytes), NEW t \in Seq(Bytes)
  PROVE  /\ s \o t \in Seq(Bytes) /\ Len(s \o t) = Len(s) + Len(t)
         /\ \A i \in 1..(Len(s) + Len(t)) :
              /\ i <= Len(s) => (s \o t)[i] = s[i]
              /\ ~(i <= Len(s)) => (s \o t)[i] = t[i - Len(s)]
BY ONLY ConcatProperties, s \in Seq(Bytes), t \in Seq(Bytes)

\* The content is a sequence of bytes.
LEMMA ContentType ==
  ASSUME NEW b, WellFormed(b)
  PROVE  /\ ContentToString(b) \in Seq(Bytes)
         /\ Len(ContentToString(b)) = b.writer - b.reader
         /\ \A i \in 1..(b.writer - b.reader) :
              ContentToString(b)[i] = b.mem[b.reader + i - 1]
<1>1. /\ b.reader \in Nat /\ b.writer \in Nat /\ b.writer - b.reader \in Nat
      /\ \A i \in 1..(b.writer - b.reader) : b.reader + i - 1 \in 0..(b.size - 1)
      /\ b.mem \in [0..(b.size - 1) -> Bytes]
  BY Parts
<1>2. ContentToString(b) =
        [i \in 1..(b.writer - b.reader) |-> b.mem[b.reader + i - 1]]
  BY DEF ContentToString, ReadableBytes
<1>3. ContentToString(b) \in [1..(b.writer - b.reader) -> Bytes]
  BY <1>1, <1>2
<1>4. ContentToString(b) \in Seq(Bytes) /\ Len(ContentToString(b)) = b.writer - b.reader
  BY <1>1, <1>3, FunctionIsSeq
<1>5. \A i \in 1..(b.writer - b.reader) :
        ContentToString(b)[i] = b.mem[b.reader + i - 1]
  BY <1>2
<1> QED
  BY <1>4, <1>5

\* Copying into memory.
LEMMA CopiedType ==
  ASSUME NEW n \in Nat, NEW mem \in [0..(n - 1) -> Bytes],
         NEW data \in Seq(Bytes), NEW at \in Nat
  PROVE  /\ Copied(mem, data, at) \in [0..(n - 1) -> Bytes]
         /\ \A i \in 0..(n - 1) :
              /\ i < at \/ i >= at + Len(data) => Copied(mem, data, at)[i] = mem[i]
              /\ i >= at /\ i < at + Len(data) =>
                   Copied(mem, data, at)[i] = data[i - at + 1]
<1>1. Len(data) \in Nat /\ data \in [1..Len(data) -> Bytes]
  BY LenProperties
<1>2. DOMAIN mem = 0..(n - 1)
  OBVIOUS
<1>3. ASSUME NEW i \in 0..(n - 1)
      PROVE  /\ Copied(mem, data, at)[i] =
                  IF i \in at..(at + Len(data) - 1) THEN data[i - at + 1] ELSE mem[i]
             /\ Copied(mem, data, at)[i] \in Bytes
  <2>1. Copied(mem, data, at)[i] =
          IF i \in at..(at + Len(data) - 1) THEN data[i - at + 1] ELSE mem[i]
    BY <1>2 DEF Copied
  <2>2. CASE i \in at..(at + Len(data) - 1)
    <3>1. i - at + 1 \in 1..Len(data)
      BY <1>1, <2>2
    <3>2. data[i - at + 1] \in Bytes
      BY <1>1, <3>1
    <3> QED
      BY <2>1, <2>2, <3>2
  <2>3. CASE i \notin at..(at + Len(data) - 1)
    BY <2>1, <2>3
  <2> QED
    BY <2>1, <2>2, <2>3
<1>4. Copied(mem, data, at) \in [0..(n - 1) -> Bytes]
  BY <1>2, <1>3 DEF Copied
<1> QED
  BY <1>1, <1>3, <1>4

\* How to see that a buffer holds a content: byte by byte.
LEMMA HoldsContent ==
  ASSUME NEW b, WellFormed(b), NEW s \in Seq(Bytes),
         b.writer - b.reader = Len(s),
         \A i \in 1..Len(s) : b.mem[b.reader + i - 1] = s[i]
  PROVE  ContentToString(b) = s
<1>1. /\ ContentToString(b) \in Seq(Bytes)
      /\ Len(ContentToString(b)) = Len(s)
      /\ \A i \in 1..Len(s) : ContentToString(b)[i] = s[i]
  BY ContentType
<1> QED
  BY <1>1, SameSeq

\* What fits an int is not changed by the conversion.
LEMMA ToIntFits ==
  /\ \A n \in Nat : ToInt(n) \in Int
  /\ \A n \in Nat : n < IntLimit => ToInt(n) = n
<1>1. IntLimit \in Nat /\ IntLimit # 0
  BY SizesAssumption
<1>2. ASSUME NEW n \in Nat PROVE ToInt(n) \in Int
  BY <1>1 DEF ToInt
<1>3. ASSUME NEW n \in Nat, n < IntLimit PROVE ToInt(n) = n
  BY <1>1, <1>3 DEF ToInt
<1> QED
  BY <1>2, <1>3

\* What MakeSpace leaves is a buffer, whatever int it was called with.
LEMMA MakeSpaceShape ==
  ASSUME NEW b, WellFormed(b), NEW n \in Int, NEW e, e = MakeSpace(b, n)
  PROVE  /\ e = [size |-> e.size, mem |-> e.mem, reader |-> e.reader,
                 writer |-> e.writer]
         /\ e.size \in Int /\ e.writer \in Nat
         /\ e.reader = b.reader \/ e.reader = kCheapPrepend
<1>1. /\ b.size \in Nat /\ b.reader \in Nat /\ b.writer \in Nat
      /\ b.reader <= b.writer /\ kCheapPrepend \in Nat
      /\ b = [size |-> b.size, mem |-> b.mem,
              reader |-> b.reader, writer |-> b.writer]
  BY Parts, SizesAssumption
<1>2. CASE Moves(b, n)
  <2>1. e = [size |-> b.size, mem |-> Copied(b.mem, ContentToString(b), kCheapPrepend),
             reader |-> kCheapPrepend, writer |-> kCheapPrepend + (b.writer - b.reader)]
    BY <1>1, <1>2 DEF MakeSpace, ReadableBytes
  <2> QED
    BY <1>1, <2>1
<1>3. CASE ~Moves(b, n)
  <2>1. e = [size |-> b.writer + n, mem |-> Resized(b.mem, b.writer + n),
             reader |-> b.reader, writer |-> b.writer]
    BY <1>1, <1>3 DEF MakeSpace
  <2> QED
    BY <1>1, <2>1
<1> QED
  BY <1>2, <1>3

\* MakeSpace keeps the content, by moving or by resizing, if the vector is still
\* long enough for it; called with what is needed it gives the room.
LEMMA MakeSpaceKeeps ==
  ASSUME NEW b, WellFormed(b), NEW n \in Int, NEW e, e = MakeSpace(b, n),
         e.writer <= e.size \/ WritableBytes(b) < n
  PROVE  /\ WellFormed(e) /\ ContentToString(e) = ContentToString(b)
         /\ WritableBytes(b) < n => WritableBytes(e) >= n
<1> DEFINE c == ContentToString(b)
           w == kCheapPrepend + ReadableBytes(b)
<1>a. /\ b.size \in Nat /\ b.reader \in Nat /\ b.writer \in Nat
      /\ b.mem \in [0..(b.size - 1) -> Bytes]
      /\ b.reader <= b.writer /\ b.writer <= b.size /\ kCheapPrepend <= b.writer
      /\ b = [size |-> b.size, mem |-> b.mem,
              reader |-> b.reader, writer |-> b.writer]
  BY Parts
<1>b. /\ c \in Seq(Bytes) /\ Len(c) = b.writer - b.reader
      /\ \A i \in 1..(b.writer - b.reader) : c[i] = b.mem[b.reader + i - 1]
  BY ContentType
<1>c. kCheapPrepend \in Nat /\ WritableBytes(b) = b.size - b.writer
  BY SizesAssumption DEF WritableBytes
<1>1. CASE Moves(b, n)
  <2>1. b.size - b.writer + b.reader >= n + kCheapPrepend
    BY <1>1 DEF Moves, WritableBytes, PrependableBytes
  <2> DEFINE mem == Copied(b.mem, c, kCheapPrepend)
  <2>2. e = [size |-> b.size, mem |-> mem, reader |-> kCheapPrepend, writer |-> w]
    BY <1>1, <1>a DEF MakeSpace
  <2>3. w \in Nat /\ kCheapPrepend <= w /\ b.size - w >= n
        /\ w = kCheapPrepend + (b.writer - b.reader) /\ w <= b.size
    BY <1>a, <1>c, <2>1, <2>2 DEF ReadableBytes
  <2>4. /\ mem \in [0..(b.size - 1) -> Bytes]
        /\ \A i \in 0..(b.size - 1) :
             i >= kCheapPrepend /\ i < kCheapPrepend + Len(c) =>
               mem[i] = c[i - kCheapPrepend + 1]
    <3> HIDE DEF c
    <3>1. b.mem \in [0..(b.size - 1) -> Bytes] /\ c \in Seq(Bytes)
          /\ b.size \in Nat /\ kCheapPrepend \in Nat
      BY ONLY <1>a, <1>b, <1>c
    <3>2. mem \in [0..(b.size - 1) -> Bytes]
      BY ONLY <3>1, CopiedType
    <3>3. ASSUME NEW i \in 0..(b.size - 1),
                 i >= kCheapPrepend /\ i < kCheapPrepend + Len(c)
          PROVE  mem[i] = c[i - kCheapPrepend + 1]
      BY ONLY <3>1, <3>3, CopiedType
    <3> QED
      BY ONLY <3>2, <3>3
  <2> HIDE DEF c, w, mem
  <2>5. WellFormed(e)
    BY <1>a, <1>c, <2>2, <2>3, <2>4, Builds
  <2>6. ASSUME NEW i \in 1..Len(c) PROVE e.mem[e.reader + i - 1] = c[i]
    <3>1. /\ kCheapPrepend + i - 1 \in 0..(b.size - 1)
          /\ kCheapPrepend + i - 1 >= kCheapPrepend
          /\ kCheapPrepend + i - 1 < kCheapPrepend + Len(c)
          /\ (kCheapPrepend + i - 1) - kCheapPrepend + 1 = i
      <4>1. /\ kCheapPrepend \in Nat /\ b.size \in Nat /\ Len(c) \in Nat
            /\ i \in 1..Len(c)
        BY ONLY <1>a, <1>b, <1>c, i \in 1..Len(c), LenProperties
      <4>2. kCheapPrepend + Len(c) <= b.size
        BY ONLY <1>b, <2>3
      <4> QED
        BY ONLY <4>1, <4>2
    <3>2. mem[kCheapPrepend + i - 1] = c[(kCheapPrepend + i - 1) - kCheapPrepend + 1]
      BY <2>4, <3>1
    <3> QED
      BY <2>2, <3>1, <3>2
  <2>7. e.writer - e.reader = Len(c)
    BY <1>a, <1>b, <1>c, <2>2, <2>3
  <2>8. ContentToString(e) = c
    BY <1>b, <2>5, <2>6, <2>7, HoldsContent
  <2>9. WritableBytes(e) >= n
    BY <2>2, <2>3 DEF WritableBytes
  <2> QED
    BY <2>2, <2>5, <2>8, <2>9 DEF c
<1>2. CASE ~Moves(b, n)
  <2> DEFINE size == b.writer + n
             mem  == Resized(b.mem, size)
  <2>1. e = [size |-> size, mem |-> mem, reader |-> b.reader, writer |-> b.writer]
    BY <1>2, <1>a DEF MakeSpace
  <2>2. /\ size \in Nat /\ b.writer <= size /\ size - b.writer >= n
    BY <1>a, <1>c, <2>1
  <2>3. /\ mem \in [0..(size - 1) -> Bytes]
        /\ \A i \in 0..(b.writer - 1) : i \in 0..(size - 1) /\ mem[i] = b.mem[i]
    BY <1>a, <2>2 DEF Resized, Bytes
  <2> HIDE DEF c, mem, size
  <2>4. WellFormed(e)
    BY <1>a, <2>1, <2>2, <2>3, Builds
  <2>5. ASSUME NEW i \in 1..Len(c) PROVE e.mem[e.reader + i - 1] = c[i]
    <3>1. b.reader + i - 1 \in 0..(b.writer - 1)
      BY <1>a, <1>b
    <3> QED
      BY <1>b, <2>1, <2>3, <3>1
  <2>6. e.writer - e.reader = Len(c)
    BY <1>b, <2>1
  <2>7. ContentToString(e) = c
    BY <1>b, <2>4, <2>5, <2>6, HoldsContent
  <2>8. WritableBytes(e) >= n
    BY <2>1, <2>2 DEF WritableBytes
  <2> QED
    BY <2>1, <2>4, <2>7, <2>8 DEF c
<1> QED
  BY <1>1, <1>2

\* EnsureWritableBytes keeps the content, if the vector is still long enough for
\* it; asked for less than an int can hold it gives the room.
LEMMA EnsureKeeps ==
  ASSUME NEW b, WellFormed(b), NEW n \in Nat,
         NEW e, e = EnsureWritableBytes(b, n)
  PROVE  /\ e = [size |-> e.size, mem |-> e.mem, reader |-> e.reader,
                 writer |-> e.writer]
         /\ e.size \in Int /\ e.writer \in Nat
         /\ e.reader = b.reader \/ e.reader = kCheapPrepend
         /\ e.writer <= e.size =>
              WellFormed(e) /\ ContentToString(e) = ContentToString(b)
         /\ n < IntLimit => WellFormed(e) /\ WritableBytes(e) >= n
<1>1. /\ WritableBytes(b) \in Nat /\ b.size \in Int /\ b.writer \in Nat
      /\ b = [size |-> b.size, mem |-> b.mem, reader |-> b.reader,
              writer |-> b.writer]
  BY Parts DEF WritableBytes
<1>2. CASE WritableBytes(b) < n
  <2>1. e = MakeSpace(b, ToInt(n)) /\ ToInt(n) \in Int
    BY <1>2, ToIntFits DEF EnsureWritableBytes
  <2>2. /\ e = [size |-> e.size, mem |-> e.mem, reader |-> e.reader,
                writer |-> e.writer]
        /\ e.size \in Int /\ e.writer \in Nat
        /\ e.reader = b.reader \/ e.reader = kCheapPrepend
    BY ONLY WellFormed(b), <2>1, MakeSpaceShape
  <2>3. ASSUME e.writer <= e.size
        PROVE  WellFormed(e) /\ ContentToString(e) = ContentToString(b)
    BY ONLY WellFormed(b), <2>1, <2>3, MakeSpaceKeeps
  <2>4. ASSUME n < IntLimit PROVE WellFormed(e) /\ WritableBytes(e) >= n
    <3>1. ToInt(n) = n
      BY <2>4, ToIntFits
    <3> QED
      BY ONLY WellFormed(b), <1>2, <2>1, <3>1, MakeSpaceKeeps
  <2> QED
    BY <2>2, <2>3, <2>4
<1>3. CASE ~(WritableBytes(b) < n)
  <2>1. e = b
    BY <1>3 DEF EnsureWritableBytes
  <2> QED
    BY <1>1, <1>3, <2>1
<1> QED
  BY <1>2, <1>3

\* Bytes copied behind the writer index, where there is room, are appended.
LEMMA WriteAppends ==
  ASSUME NEW b, WellFormed(b), NEW data \in Seq(Bytes),
         Len(data) <= WritableBytes(b),
         NEW e, e = [b EXCEPT !.mem = Copied(@, data, b.writer),
                              !.writer = @ + Len(data)]
  PROVE  /\ WellFormed(e) /\ e.reader = b.reader
         /\ ContentToString(e) = ContentToString(b) \o data
<1> DEFINE c == ContentToString(b)
           mem == Copied(b.mem, data, b.writer)
<1>a. /\ b.size \in Nat /\ b.reader \in Nat /\ b.writer \in Nat
      /\ b.mem \in [0..(b.size - 1) -> Bytes]
      /\ b.reader <= b.writer /\ b.writer <= b.size /\ kCheapPrepend <= b.writer
      /\ b = [size |-> b.size, mem |-> b.mem,
              reader |-> b.reader, writer |-> b.writer]
  BY Parts
<1>b. /\ c \in Seq(Bytes) /\ Len(c) = b.writer - b.reader
      /\ \A i \in 1..(b.writer - b.reader) : c[i] = b.mem[b.reader + i - 1]
  BY ContentType
<1>c. Len(data) \in Nat /\ Len(data) <= b.size - b.writer
  BY LenProperties DEF WritableBytes
<1>1. e = [size |-> b.size, mem |-> mem, reader |-> b.reader,
           writer |-> b.writer + Len(data)]
  BY <1>a
<1>2. /\ mem \in [0..(b.size - 1) -> Bytes]
      /\ \A i \in 0..(b.size - 1) :
           /\ i < b.writer => mem[i] = b.mem[i]
           /\ i >= b.writer /\ i < b.writer + Len(data) =>
                mem[i] = data[i - b.writer + 1]
  BY ONLY <1>a, data \in Seq(Bytes), CopiedType
<1> HIDE DEF c, mem
<1>3. WellFormed(e)
  <2>1. WellFormed([size |-> b.size, mem |-> mem, reader |-> b.reader,
                    writer |-> b.writer + Len(data)])
    <3>1. /\ b.writer + Len(data) \in Nat /\ b.reader <= b.writer + Len(data)
          /\ b.writer + Len(data) <= b.size /\ kCheapPrepend <= b.writer + Len(data)
      BY ONLY <1>a, <1>c, SizesAssumption
    <3> QED
      BY ONLY <1>a, <1>2, <3>1, Builds
  <2> QED
    BY ONLY <1>1, <2>1
<1>4. /\ c \o data \in Seq(Bytes) /\ Len(c \o data) = Len(c) + Len(data)
      /\ \A i \in 1..(Len(c) + Len(data)) :
           /\ i <= Len(c) => (c \o data)[i] = c[i]
           /\ ~(i <= Len(c)) => (c \o data)[i] = data[i - Len(c)]
  BY ONLY <1>b, data \in Seq(Bytes), ConcatParts
<1>5. ASSUME NEW i \in 1..Len(c \o data)
      PROVE  e.mem[e.reader + i - 1] = (c \o data)[i]
  <2>1. /\ i \in 1..(Len(c) + Len(data))
        /\ b.reader + i - 1 \in 0..(b.size - 1)
    BY <1>a, <1>b, <1>c, <1>4
  <2>2. CASE i <= Len(c)
    <3>1. b.reader + i - 1 < b.writer /\ i \in 1..(b.writer - b.reader)
      BY <1>a, <1>b, <2>1, <2>2
    <3>2. mem[b.reader + i - 1] = b.mem[b.reader + i - 1]
      BY <1>2, <2>1, <3>1
    <3>3. b.mem[b.reader + i - 1] = c[i]
      BY <1>b, <3>1
    <3>4. (c \o data)[i] = c[i]
      BY <1>4, <2>1, <2>2
    <3>5. e.mem = mem /\ e.reader = b.reader
      BY ONLY <1>1
    <3> QED
      BY ONLY <3>2, <3>3, <3>4, <3>5
  <2>3. CASE ~(i <= Len(c))
    <3>1. /\ b.reader + i - 1 >= b.writer
          /\ b.reader + i - 1 < b.writer + Len(data)
          /\ (b.reader + i - 1) - b.writer + 1 = i - Len(c)
      <4>1. /\ b.reader \in Nat /\ b.writer \in Nat /\ Len(c) = b.writer - b.reader
            /\ Len(data) \in Nat /\ i \in Int /\ i <= Len(c) + Len(data)
        BY ONLY <1>a, <1>b, <1>c, <2>1
      <4> QED
        BY ONLY <4>1, <2>3
    <3>2. mem[b.reader + i - 1] = data[(b.reader + i - 1) - b.writer + 1]
      BY <1>2, <2>1, <3>1
    <3>3. (c \o data)[i] = data[i - Len(c)]
      BY <1>4, <2>1, <2>3
    <3>4. e.mem = mem /\ e.reader = b.reader
      BY ONLY <1>1
    <3> QED
      BY ONLY <3>1, <3>2, <3>3, <3>4
  <2> QED
    BY <2>2, <2>3
<1>6. e.writer - e.reader = Len(c \o data)
  BY <1>a, <1>b, <1>c, <1>1, <1>4
<1>7. ContentToString(e) = c \o data
  BY ONLY <1>3, <1>4, <1>5, <1>6, HoldsContent
<1>8. e.reader = b.reader
  BY ONLY <1>1
<1> QED
  BY <1>3, <1>7, <1>8 DEF c

\* Append appends, if it stays inside the vector; it does when it is given less
\* than an int can hold.
LEMMA AppendAppends ==
  ASSUME NEW b, WellFormed(b), NEW data \in Seq(Bytes),
         NEW a, a = AppendTo(b, data)
  PROVE  /\ a.writer <= a.size =>
              WellFormed(a) /\ ContentToString(a) = ContentToString(b) \o data
         /\ a.reader = b.reader \/ a.reader = kCheapPrepend
         /\ Len(data) < IntLimit => a.writer <= a.size
<1> DEFINE e == EnsureWritableBytes(b, Len(data))
<1>1. Len(data) \in Nat
  BY LenProperties
<1>2. /\ e = [size |-> e.size, mem |-> e.mem, reader |-> e.reader,
              writer |-> e.writer]
      /\ e.size \in Int /\ e.writer \in Nat
      /\ e.reader = b.reader \/ e.reader = kCheapPrepend
      /\ e.writer <= e.size =>
           WellFormed(e) /\ ContentToString(e) = ContentToString(b)
      /\ Len(data) < IntLimit => WellFormed(e) /\ WritableBytes(e) >= Len(data)
  BY <1>1, EnsureKeeps
<1>3. a = [e EXCEPT !.mem = Copied(@, data, e.writer), !.writer = @ + Len(data)]
  BY DEF AppendTo
<1> HIDE DEF e
<1>4. a.size = e.size /\ a.writer = e.writer + Len(data) /\ a.reader = e.reader
  BY <1>2, <1>3
<1>5. ASSUME a.writer <= a.size
      PROVE  WellFormed(a) /\ ContentToString(a) = ContentToString(b) \o data
  <2>1. e.writer <= e.size /\ Len(data) <= WritableBytes(e)
    BY <1>1, <1>2, <1>4, <1>5 DEF WritableBytes
  <2>2. WellFormed(e) /\ ContentToString(e) = ContentToString(b)
    BY <1>2, <2>1
  <2>3. WellFormed(a) /\ ContentToString(a) = ContentToString(e) \o data
    BY <1>3, <2>1, <2>2, WriteAppends
  <2> QED
    BY <2>2, <2>3
<1>6. ASSUME Len(data) < IntLimit PROVE a.writer <= a.size
  BY <1>1, <1>2, <1>4, <1>6 DEF WritableBytes
<1> QED
  BY <1>2, <1>4, <1>5, <1>6

\* Prepend prepends.
LEMMA PrependPrepends ==
  ASSUME NEW b, WellFormed(b), NEW data \in Seq(Bytes),
         Len(data) <= PrependableBytes(b),
         NEW e, e = PrependTo(b, data)
  PROVE  WellFormed(e) /\ ContentToString(e) = data \o ContentToString(b)
<1> DEFINE c == ContentToString(b)
           at == b.reader - Len(data)
           mem == Copied(b.mem, data, at)
<1>a. /\ b.size \in Nat /\ b.reader \in Nat /\ b.writer \in Nat
      /\ b.mem \in [0..(b.size - 1) -> Bytes]
      /\ b.reader <= b.writer /\ b.writer <= b.size /\ kCheapPrepend <= b.writer
      /\ b = [size |-> b.size, mem |-> b.mem,
              reader |-> b.reader, writer |-> b.writer]
  BY Parts
<1>b. /\ c \in Seq(Bytes) /\ Len(c) = b.writer - b.reader
      /\ \A i \in 1..(b.writer - b.reader) : c[i] = b.mem[b.reader + i - 1]
  BY ContentType
<1>c. Len(data) \in Nat /\ Len(data) <= b.reader
  BY LenProperties DEF PrependableBytes
<1>d. at \in Nat /\ at + Len(data) = b.reader /\ at <= b.writer
  BY ONLY <1>a, <1>c
<1>1. e = [size |-> b.size, mem |-> mem, reader |-> at, writer |-> b.writer]
  BY <1>a DEF PrependTo
<1> HIDE DEF c, at
<1>2. /\ mem \in [0..(b.size - 1) -> Bytes]
      /\ \A i \in 0..(b.size - 1) :
           /\ i >= at + Len(data) => mem[i] = b.mem[i]
           /\ i >= at /\ i < at + Len(data) => mem[i] = data[i - at + 1]
  BY ONLY <1>a, <1>d, data \in Seq(Bytes), CopiedType
<1> HIDE DEF mem
<1>3. WellFormed(e)
  <2>1. WellFormed([size |-> b.size, mem |-> mem, reader |-> at,
                    writer |-> b.writer])
    BY ONLY <1>a, <1>d, <1>2, Builds
  <2> QED
    BY ONLY <1>1, <2>1
<1>4. /\ data \o c \in Seq(Bytes) /\ Len(data \o c) = Len(data) + Len(c)
      /\ \A i \in 1..(Len(data) + Len(c)) :
           /\ i <= Len(data) => (data \o c)[i] = data[i]
           /\ ~(i <= Len(data)) => (data \o c)[i] = c[i - Len(data)]
  BY ONLY <1>b, data \in Seq(Bytes), ConcatParts
<1>5. ASSUME NEW i \in 1..Len(data \o c)
      PROVE  e.mem[e.reader + i - 1] = (data \o c)[i]
  <2>0. e.mem = mem /\ e.reader = at
    BY ONLY <1>1
  <2>1. /\ i \in 1..(Len(data) + Len(c))
        /\ at + i - 1 \in 0..(b.size - 1) /\ at + i - 1 >= at
    BY ONLY i \in 1..Len(data \o c), <1>a, <1>b, <1>c, <1>d, <1>4
  <2>2. CASE i <= Len(data)
    <3>1. at + i - 1 < at + Len(data) /\ (at + i - 1) - at + 1 = i
      BY ONLY <1>c, <1>d, <2>1, <2>2
    <3>2. mem[at + i - 1] = data[(at + i - 1) - at + 1]
      BY ONLY <1>2, <2>1, <3>1
    <3>3. (data \o c)[i] = data[i]
      BY ONLY <1>4, <2>1, <2>2
    <3> QED
      BY ONLY <2>0, <3>1, <3>2, <3>3
  <2>3. CASE ~(i <= Len(data))
    <3>a. i \in Nat /\ i > Len(data) /\ i <= Len(data) + Len(c) /\ Len(c) \in Nat
      BY ONLY <1>a, <1>b, <1>c, <2>1, <2>3
    <3>1. /\ at + i - 1 >= at + Len(data)
          /\ i - Len(data) \in 1..(b.writer - b.reader)
          /\ b.reader + (i - Len(data)) - 1 = at + i - 1
      <4>1. i - Len(data) \in Nat /\ 1 <= i - Len(data) /\ i - Len(data) <= Len(c)
        BY ONLY <1>c, <3>a
      <4>2. i - Len(data) \in 1..(b.writer - b.reader)
        BY ONLY <1>b, <3>a, <4>1
      <4>3. at + i - 1 >= at + Len(data)
        BY ONLY <1>c, <1>d, <3>a
      <4>4. b.reader + (i - Len(data)) - 1 = at + i - 1
        BY ONLY <1>a, <1>c, <1>d, <3>a
      <4> QED
        BY ONLY <4>2, <4>3, <4>4
    <3>2. mem[at + i - 1] = b.mem[at + i - 1]
      BY ONLY <1>2, <2>1, <3>1
    <3>3. c[i - Len(data)] = b.mem[b.reader + (i - Len(data)) - 1]
      BY ONLY <1>b, <3>1
    <3>4. (data \o c)[i] = c[i - Len(data)]
      BY ONLY <1>4, <2>1, <2>3
    <3> QED
      BY ONLY <2>0, <3>1, <3>2, <3>3, <3>4
  <2> QED
    BY ONLY <2>2, <2>3
<1>6. e.writer - e.reader = Len(data \o c)
  BY ONLY <1>a, <1>b, <1>c, <1>d, <1>1, <1>4
<1>7. ContentToString(e) = data \o c
  BY ONLY <1>3, <1>4, <1>5, <1>6, HoldsContent
<1> QED
  BY <1>3, <1>7 DEF c

LEMMA Associates ==
  ASSUME NEW x \in Seq(Bytes), NEW y \in Seq(Bytes), NEW z \in Seq(Bytes)
  PROVE  (x \o y) \o z = x \o (y \o z)
BY ConcatAssociative

\* The rest of a sequence behind its first n elements.
LEMMA RestParts ==
  ASSUME NEW s \in Seq(Bytes), NEW n \in Nat
  PROVE  /\ SubSeq(s, n + 1, Len(s)) \in Seq(Bytes)
         /\ Len(SubSeq(s, n + 1, Len(s))) = IF n < Len(s) THEN Len(s) - n ELSE 0
         /\ \A i \in 1..(Len(s) - n) : SubSeq(s, n + 1, Len(s))[i] = s[n + i]
<1>1. Len(s) \in Nat /\ s \in [1..Len(s) -> Bytes]
  BY LenProperties
<1>2. /\ n + 1 \in Int /\ Len(s) \in Int
      /\ \A i \in (n + 1)..Len(s) : s[i] \in Bytes
  BY <1>1
<1>3. /\ SubSeq(s, n + 1, Len(s)) \in Seq(Bytes)
      /\ Len(SubSeq(s, n + 1, Len(s))) =
           IF n + 1 <= Len(s) THEN Len(s) - (n + 1) + 1 ELSE 0
      /\ \A i \in 1..(Len(s) - (n + 1) + 1) :
           SubSeq(s, n + 1, Len(s))[i] = s[n + 1 + i - 1]
  BY ONLY <1>2, SubSeqProperties
<1>4. Len(s) - (n + 1) + 1 = Len(s) - n /\ (n + 1 <= Len(s) <=> n < Len(s))
  BY <1>1
<1>5. \A i \in 1..(Len(s) - n) : n + 1 + i - 1 = n + i
  BY <1>1
<1> QED
  BY <1>3, <1>4, <1>5

\* Retrieve drops what it is told to drop, and no more than there is.
LEMMA RetrieveDrops ==
  ASSUME NEW b, WellFormed(b), NEW n \in Nat,
         NEW e, e = RetrieveFrom(b, n)
  PROVE  /\ WellFormed(e)
         /\ ContentToString(e) =
              SubSeq(ContentToString(b), n + 1, Len(ContentToString(b)))
         /\ e.reader >= b.reader \/ e.reader = kCheapPrepend
<1> DEFINE c == ContentToString(b)
           s == SubSeq(c, n + 1, Len(c))
<1>a. /\ b.size \in Nat /\ b.reader \in Nat /\ b.writer \in Nat
      /\ b.mem \in [0..(b.size - 1) -> Bytes]
      /\ b.reader <= b.writer /\ b.writer <= b.size /\ kCheapPrepend <= b.writer
      /\ b = [size |-> b.size, mem |-> b.mem,
              reader |-> b.reader, writer |-> b.writer]
  BY Parts
<1>b. /\ c \in Seq(Bytes) /\ Len(c) = b.writer - b.reader
      /\ \A i \in 1..(b.writer - b.reader) : c[i] = b.mem[b.reader + i - 1]
  BY ContentType
<1> HIDE DEF c
<1>c. /\ s \in Seq(Bytes) /\ Len(s) = IF n < Len(c) THEN Len(c) - n ELSE 0
      /\ \A i \in 1..(Len(c) - n) : s[i] = c[n + i]
  BY <1>b, RestParts
<1> HIDE DEF s
<1>1. CASE n < b.writer - b.reader
  <2>1. e = [size |-> b.size, mem |-> b.mem, reader |-> b.reader + n,
             writer |-> b.writer]
    BY <1>a, <1>1 DEF RetrieveFrom, ReadableBytes
  <2>2. b.reader + n \in Nat /\ b.reader + n <= b.writer
    BY ONLY <1>a, <1>1, n \in Nat
  <2>3. WellFormed(e)
    BY ONLY <1>a, <2>1, <2>2, Builds
  <2>4. Len(s) = b.writer - (b.reader + n) /\ Len(s) = Len(c) - n
    BY ONLY <1>a, <1>b, <1>c, <1>1, n \in Nat
  <2>5. ASSUME NEW i \in 1..Len(s) PROVE e.mem[e.reader + i - 1] = s[i]
    <3>1. /\ n + i \in 1..(b.writer - b.reader)
          /\ b.reader + (n + i) - 1 = b.reader + n + i - 1
      BY ONLY <1>a, <2>4, i \in 1..Len(s), n \in Nat
    <3>2. s[i] = c[n + i]
      BY <1>c, <2>4
    <3>3. c[n + i] = b.mem[b.reader + (n + i) - 1]
      BY <1>b, <3>1
    <3> QED
      BY ONLY <2>1, <3>1, <3>2, <3>3
  <2>6. e.writer - e.reader = Len(s)
    BY ONLY <2>1, <2>4
  <2>7. ContentToString(e) = s
    BY ONLY <1>c, <2>3, <2>5, <2>6, HoldsContent
  <2>8. e.reader >= b.reader
    BY ONLY <1>a, <2>1, n \in Nat
  <2> QED
    BY <2>3, <2>7, <2>8 DEF s, c
<1>2. CASE ~(n < b.writer - b.reader)
  <2>1. e = RetrieveAll(b)
    BY <1>2 DEF RetrieveFrom, ReadableBytes
  <2>2. e = [size |-> b.size, mem |-> b.mem, reader |-> kCheapPrepend,
             writer |-> kCheapPrepend]
    BY ONLY <1>a, <2>1 DEF RetrieveAll
  <2>3. kCheapPrepend \in Nat /\ kCheapPrepend <= b.size
    BY <1>a, SizesAssumption
  <2>4. WellFormed(e)
    BY ONLY <1>a, <2>2, <2>3, Builds
  <2>5. Len(s) = 0 /\ e.writer - e.reader = Len(s)
    BY ONLY <1>a, <1>b, <1>c, <1>2, <2>2, <2>3, n \in Nat
  <2>6. \A i \in 1..Len(s) : e.mem[e.reader + i - 1] = s[i]
    BY ONLY <2>5
  <2>7. ContentToString(e) = s
    BY ONLY <1>c, <2>4, <2>5, <2>6, HoldsContent
  <2>8. e.reader = kCheapPrepend
    BY ONLY <2>2
  <2> QED
    BY <2>4, <2>7, <2>8 DEF s, c
<1> QED
  BY <1>1, <1>2

\* A new buffer is empty.
LEMMA NewBufferEmpty ==
  ASSUME NEW n \in Nat, NEW b, b = NewBuffer(n)
  PROVE  /\ WellFormed(b) /\ ContentToString(b) = <<>>
         /\ b.reader = kCheapPrepend
<1> DEFINE size == kCheapPrepend + n
<1>1. kCheapPrepend \in Nat /\ size \in Nat /\ kCheapPrepend <= size
  BY SizesAssumption
<1>2. Zeros(size) \in [0..(size - 1) -> Bytes]
  BY DEF Zeros, Bytes
<1>3. b = [size |-> size, mem |-> Zeros(size), reader |-> kCheapPrepend,
           writer |-> kCheapPrepend]
  BY DEF NewBuffer
<1> HIDE DEF size
<1>4. WellFormed(b)
  BY ONLY <1>1, <1>2, <1>3, Builds
<1>5. b.writer - b.reader = 0 /\ b.reader = kCheapPrepend
  BY ONLY <1>1, <1>3
<1>6. ContentToString(b) \in Seq(Bytes) /\ Len(ContentToString(b)) = 0
  BY ONLY <1>4, <1>5, ContentType
<1>7. ContentToString(b) = <<>>
  BY ONLY <1>6, EmptySeq
<1> QED
  BY <1>4, <1>5, <1>7

\* EnsureWritableBytes of a new buffer throws, or leaves the buffer in bounds.
LEMMA NewInBounds ==
  ASSUME NEW n \in Nat, NEW o, o = NewBuffer(kInitialSize), ~Throws(o, n)
  PROVE  EnsureWritableBytes(o, n).writer <= EnsureWritableBytes(o, n).size
<1> DEFINE len == ToInt(n)
           e == EnsureWritableBytes(o, n)
<1>1. /\ kCheapPrepend \in Nat /\ kInitialSize \in Nat /\ len \in Int
  BY SizesAssumption, ToIntFits
<1>2. o = [size |-> kCheapPrepend + kInitialSize,
           mem |-> Zeros(kCheapPrepend + kInitialSize),
           reader |-> kCheapPrepend, writer |-> kCheapPrepend]
  BY DEF NewBuffer
<1>3. CASE ~(WritableBytes(o) < n)
  BY <1>1, <1>2, <1>3 DEF EnsureWritableBytes
<1>4. CASE WritableBytes(o) < n /\ Moves(o, len)
  <2>1. /\ e.writer = kCheapPrepend + ReadableBytes(o)
        /\ e.size = kCheapPrepend + kInitialSize
    BY <1>2, <1>4 DEF EnsureWritableBytes, MakeSpace
  <2>2. ReadableBytes(o) = 0
    BY <1>1, <1>2 DEF ReadableBytes
  <2> QED
    BY <1>1, <2>1, <2>2
<1>5. CASE WritableBytes(o) < n /\ ~Moves(o, len)
  <2>1. e.writer = kCheapPrepend /\ e.size = kCheapPrepend + len
    BY <1>2, <1>5 DEF EnsureWritableBytes, MakeSpace
  <2>2. kCheapPrepend + len >= 0
    BY <1>1, <1>2, <1>5 DEF Throws
  <2>3. kCheapPrepend + kInitialSize < len + kCheapPrepend
    <3>1. WritableBytes(o) + PrependableBytes(o) = kCheapPrepend + kInitialSize
      BY <1>1, <1>2 DEF WritableBytes, PrependableBytes
    <3> QED
      BY <1>1, <1>5, <2>2, <3>1 DEF Moves
  <2>4. kCheapPrepend <= kCheapPrepend + len
    BY ONLY <1>1, <2>3
  <2> QED
    BY <2>1, <2>4
<1> QED
  BY <1>3, <1>4, <1>5

\* Shrink keeps the content, if the copy stays inside the vector; it does when
\* less than an int can hold is asked for.
LEMMA ShrinkKeeps ==
  ASSUME NEW b, WellFormed(b), NEW n \in Nat, ~ShrinkThrows(b, n),
         NEW a, a = Shrunk(b, n)
  PROVE  /\ a.writer <= a.size =>
              WellFormed(a) /\ ContentToString(a) = ContentToString(b)
         /\ a.reader = kCheapPrepend
         /\ ReadableBytes(b) + n < IntLimit => a.writer <= a.size
<1> DEFINE o == NewBuffer(kInitialSize)
           e == EnsureWritableBytes(o, ReadableBytes(b) + n)
           c == ContentToString(b)
<1>1. /\ WellFormed(o) /\ ContentToString(o) = <<>>
      /\ o.reader = kCheapPrepend
  BY SizesAssumption, NewBufferEmpty
<1>2. ReadableBytes(b) + n \in Nat /\ ReadableBytes(b) \in Nat
  BY Parts DEF ReadableBytes
<1>3. c \in Seq(Bytes) /\ Len(c) = ReadableBytes(b)
  BY ContentType DEF ReadableBytes
<1>4. a = AppendTo(e, c)
  BY DEF Shrunk, Other
<1>5. e.writer <= e.size
  BY <1>2, NewInBounds DEF ShrinkThrows
<1> HIDE DEF o, c
<1>6. /\ WellFormed(e) /\ ContentToString(e) = ContentToString(o)
      /\ e.reader = o.reader \/ e.reader = kCheapPrepend
  BY ONLY <1>1, <1>2, <1>5, EnsureKeeps
<1> HIDE DEF e
<1>7. /\ a.writer <= a.size =>
           WellFormed(a) /\ ContentToString(a) = ContentToString(e) \o c
      /\ a.reader = e.reader \/ a.reader = kCheapPrepend
      /\ Len(c) < IntLimit => a.writer <= a.size
  BY ONLY <1>3, <1>4, <1>6, AppendAppends
<1>8. <<>> \o c = c
  BY <1>3, ConcatEmptySeq
<1>9. ReadableBytes(b) + n < IntLimit => Len(c) < IntLimit
  BY <1>2, <1>3, SizesAssumption
<1> QED
  BY ONLY <1>1, <1>6, <1>7, <1>8, <1>9 DEF c

\* ReadFd appends what readv returns, whichever part comes by extrabuf.
LEMMA ReadAppends ==
  ASSUME NEW b, WellFormed(b), NEW data \in Seq(Bytes), Len(data) <= ReadLimit(b),
         NEW a, a = ReadInto(b, data)
  PROVE  /\ WellFormed(a) /\ ContentToString(a) = ContentToString(b) \o data
         /\ a.reader = b.reader \/ a.reader = kCheapPrepend
<1> DEFINE w == WritableBytes(b)
           first == SubSeq(data, 1, w)
           rest  == SubSeq(data, w + 1, Len(data))
           filled == [b EXCEPT !.mem = Copied(@, first, b.writer),
                               !.writer = b.size]
           c == ContentToString(b)
<1>a. /\ w \in Nat /\ b.writer + w = b.size
      /\ b.writer \in Nat /\ b.size \in Nat
  BY Parts DEF WritableBytes
<1>b. c \in Seq(Bytes)
  BY ContentType
<1>c. Len(data) \in Nat /\ data \in [1..Len(data) -> Bytes]
  BY LenProperties
<1>1. CASE Len(data) <= w
  <2>1. a = [b EXCEPT !.mem = Copied(@, data, b.writer), !.writer = @ + Len(data)]
    BY <1>1 DEF ReadInto
  <2> QED
    BY <1>1, <2>1, WriteAppends
<1>2. CASE ~(Len(data) <= w)
  <2>1. a = AppendTo(filled, rest)
    BY <1>2 DEF ReadInto
  <2> HIDE DEF w
  <2>2. first \in Seq(Bytes) /\ Len(first) = w
    <3>1. \A i \in 1..w : data[i] \in Bytes
      BY <1>a, <1>c, <1>2
    <3>2. /\ first \in Seq(Bytes)
          /\ Len(first) = IF 1 <= w THEN w - 1 + 1 ELSE 0
      BY <1>a, <3>1, SubSeqProperties
    <3> HIDE DEF first
    <3> QED
      BY ONLY <1>a, <3>2
  <2>3. rest \in Seq(Bytes) /\ Len(rest) < IntLimit
    <3>0. w \in Nat /\ w + 1 \in Nat /\ w < Len(data)
      BY ONLY <1>a, <1>c, <1>2
    <3>1. rest \in Seq(Bytes) /\ Len(rest) = Len(data) - w
      BY <3>0, <1>c, RestParts
    <3>2. Len(data) - w <= ExtraSize
      BY <1>a, <1>c, SizesAssumption DEF ReadLimit, w
    <3> HIDE DEF rest
    <3> QED
      BY <1>a, <1>c, <3>1, <3>2, SizesAssumption
  <2>4. first \o rest = data
    <3>1. 1 \in 1..(Len(data) + 1) /\ w \in (1 - 1)..Len(data)
          /\ Len(data) \in w..Len(data)
      BY <1>a, <1>c, <1>2
    <3>2. first \o rest = SubSeq(data, 1, Len(data))
      BY ONLY data \in Seq(Bytes), <3>1, ConcatAdjacentSubSeq
    <3>3. SubSeq(data, 1, Len(data)) = data
      BY SubSeqFull
    <3> QED
      BY <3>2, <3>3
  <2> HIDE DEF first, rest
  <2>5. filled = [b EXCEPT !.mem = Copied(@, first, b.writer),
                           !.writer = @ + Len(first)]
    BY <1>a, <2>2
  <2> HIDE DEF filled
  <2>6. Len(first) <= WritableBytes(b)
    BY <1>a, <2>2 DEF w
  <2>7. /\ WellFormed(filled) /\ filled.reader = b.reader
        /\ ContentToString(filled) = ContentToString(b) \o first
    BY ONLY WellFormed(b), <2>2, <2>5, <2>6, WriteAppends
  <2>8. /\ WellFormed(a) /\ ContentToString(a) = ContentToString(filled) \o rest
        /\ a.reader = filled.reader \/ a.reader = kCheapPrepend
    BY ONLY <2>1, <2>3, <2>7, AppendAppends
  <2> HIDE DEF c
  <2>9. (c \o first) \o rest = c \o (first \o rest)
    <3>1. c \in Seq(Bytes) /\ first \in Seq(Bytes) /\ rest \in Seq(Bytes)
      BY ONLY <1>b, <2>2, <2>3
    <3> QED
      BY ONLY <3>1, Associates
  <2>10. ContentToString(a) = (c \o first) \o rest
    BY ONLY <2>7, <2>8 DEF c
  <2>11. ContentToString(a) = ContentToString(b) \o data
    BY ONLY <2>4, <2>9, <2>10 DEF c
  <2> QED
    BY ONLY <2>7, <2>8, <2>11
<1> QED
  BY <1>1, <1>2

-----------------------------------------------------------------------------
(* Lines.                                                                    *)

\* The CR LF of the memory between the indices are those of the content.
LEMMA SameLines ==
  ASSUME TypeOK, KeepsBytes, InBounds, NEW i \in Int
  PROVE  i \in LineEnds <=> buf.reader + i - 1 \in CRLFs(buf)
<1>1. /\ buf.reader \in Nat /\ buf.writer \in Nat /\ buf.reader <= buf.writer
      /\ Len(content) = buf.writer - buf.reader
      /\ \A k \in 1..(buf.writer - buf.reader) :
           content[k] = buf.mem[buf.reader + k - 1]
  BY Parts, ContentType DEF TypeOK, KeepsBytes
<1>2. i \in LineEnds <=>
        /\ i \in 1..(buf.writer - buf.reader - 1)
        /\ content[i] = CR /\ content[i + 1] = LF
  BY <1>1 DEF LineEnds
<1>3. buf.reader + i - 1 \in CRLFs(buf) <=>
        /\ buf.reader + i - 1 \in buf.reader..(buf.writer - 2)
        /\ buf.mem[buf.reader + i - 1] = CR
        /\ buf.mem[(buf.reader + i - 1) + 1] = LF
  BY DEF CRLFs, SearchEnd
<1>4. buf.reader + i - 1 \in buf.reader..(buf.writer - 2)
        <=> i \in 1..(buf.writer - buf.reader - 1)
  BY <1>1
<1>5. ASSUME i \in 1..(buf.writer - buf.reader - 1)
      PROVE  /\ content[i] = buf.mem[buf.reader + i - 1]
             /\ content[i + 1] = buf.mem[(buf.reader + i - 1) + 1]
  <2>1. /\ i \in 1..(buf.writer - buf.reader)
        /\ i + 1 \in 1..(buf.writer - buf.reader)
        /\ buf.reader + (i + 1) - 1 = (buf.reader + i - 1) + 1
    BY <1>1, <1>5
  <2>2. content[i + 1] = buf.mem[buf.reader + (i + 1) - 1]
    BY <1>1, <2>1
  <2> QED
    BY <1>1, <2>1, <2>2
<1> QED
  BY <1>2, <1>3, <1>4, <1>5

\* FindCRLF returns the place of the first line's end.
LEMMA FindsIt ==
  ASSUME TypeOK, KeepsBytes, InBounds, NEW i \in LineEnds, \A j \in LineEnds : i <= j
  PROVE  FindCRLF(buf) = buf.reader + i - 1
<1> DEFINE x == buf.reader + i - 1
<1>1. buf.reader \in Nat /\ i \in Int
  BY Parts DEF TypeOK, LineEnds
<1>2. x \in CRLFs(buf)
  BY <1>1, SameLines
<1>3. ASSUME NEW y \in CRLFs(buf) PROVE x <= y
  <2>1. y \in Int
    BY DEF CRLFs
  <2> DEFINE j == y - buf.reader + 1
  <2>2. j \in Int /\ buf.reader + j - 1 = y
    BY <1>1, <2>1
  <2>3. j \in LineEnds
    BY <2>2, SameLines
  <2>4. i <= j
    BY <2>3
  <2> QED
    BY <1>1, <2>1, <2>4
<1> HIDE DEF x
<1>4. ASSUME NEW y \in CRLFs(buf), \A z \in CRLFs(buf) : y <= z PROVE y = x
  <2>1. y <= x /\ x <= y
    BY <1>2, <1>3, <1>4
  <2>2. x \in Int /\ y \in Int
    BY <1>2 DEF CRLFs
  <2> QED
    BY <2>1, <2>2
<1>5. FindCRLF(buf) = CHOOSE y \in CRLFs(buf) : \A z \in CRLFs(buf) : y <= z
  BY <1>2 DEF FindCRLF
<1>6. FindCRLF(buf) = x
  BY <1>2, <1>3, <1>4, <1>5
<1> QED
  BY <1>6 DEF x

\* A set of naturals has a least element.
LEMMA LeastElement ==
  ASSUME NEW T, T \subseteq Nat, T # {}
  PROVE  \E x \in T : \A y \in T : x <= y
<1>1. PICK x \in T : \A y \in T : ~(<<y, x>> \in OpToRel(<, Nat))
  BY NatLessThanWellFounded, WFMin
<1>2. ASSUME NEW y \in T PROVE x <= y
  <2>1. ~(<<y, x>> \in OpToRel(<, Nat)) /\ x \in Nat /\ y \in Nat
    BY <1>1
  <2>2. ~(y < x)
    BY <2>1 DEF OpToRel
  <2>3. x \in Nat /\ y \in Nat
    BY <2>1
  <2> QED
    BY ONLY <2>2, <2>3
<1> QED
  BY <1>2

\* What FindCRLF finds in a buffer that holds its content.
LEMMA LinesFound ==
  ASSUME TypeOK, KeepsBytes
  PROVE  FindsFirstLine
<1> SUFFICES ASSUME InBounds PROVE FindsFirstLine
  BY DEF FindsFirstLine
<1>1. CASE LineEnds = {}
  <2>1. ASSUME NEW y \in CRLFs(buf) PROVE FALSE
    <3>1. y \in Int /\ buf.reader \in Nat
      BY Parts DEF CRLFs, TypeOK
    <3>2. /\ y - buf.reader + 1 \in Int
          /\ buf.reader + (y - buf.reader + 1) - 1 = y
      BY <3>1
    <3>3. y - buf.reader + 1 \in LineEnds
      BY <3>2, SameLines
    <3> QED
      BY <1>1, <3>3
  <2>2. FindCRLF(buf) = -1
    BY <2>1 DEF FindCRLF
  <2> QED
    BY <1>1, <2>2 DEF FindsFirstLine
<1>2. CASE LineEnds # {}
  <2>1. LineEnds \subseteq Nat
    BY DEF LineEnds
  <2>2. PICK i \in LineEnds : \A j \in LineEnds : i <= j
    BY <1>2, <2>1, LeastElement
  <2>3. FindCRLF(buf) = buf.reader + i - 1
    BY <2>2, FindsIt
  <2> QED
    BY <1>2, <2>2, <2>3 DEF FindsFirstLine
<1> QED
  BY <1>1, <1>2

-----------------------------------------------------------------------------
(* The invariant and the theorems.                                           *)

\* The indices stay in order and the memory between them is the content, until a
\* call asks for more than an int can hold: inductive as it stands.
BufferInv == TypeOK /\ KeepsBytes

\* Only Prepend takes from the bytes in front.
FrontKept ==
  \/ buf'.reader >= buf.reader \/ buf'.reader >= kCheapPrepend
  \/ \E data \in Data : PrependData(data)

LEMMA InitHolds == Init => BufferInv
<1> SUFFICES ASSUME Init PROVE BufferInv
  OBVIOUS
<1>1. WellFormed(buf) /\ ContentToString(buf) = <<>>
  BY SizesAssumption, NewBufferEmpty DEF Init
<1>2. content = <<>> /\ content \in Seq(Bytes)
  BY EmptySeq DEF Init
<1>3. huge = FALSE /\ InBounds
  BY <1>1, Parts DEF Init, InBounds
<1> QED
  BY <1>1, <1>2, <1>3 DEF BufferInv, TypeOK, KeepsBytes

\* What every operation shows of the buffer it leaves behind.
LEMMA Concludes ==
  ASSUME TypeOK, InBounds, content' \in Seq(Bytes), huge' \in BOOLEAN,
         buf'.writer <= buf'.size \/ huge',
         buf'.writer <= buf'.size =>
           WellFormed(buf') /\ ContentToString(buf') = content',
         \/ buf'.reader >= buf.reader
         \/ buf'.reader = buf.reader
         \/ buf'.reader = kCheapPrepend
         \/ \E data \in Data : PrependData(data)
  PROVE  BufferInv' /\ FrontKept
<1>1. buf.reader \in Nat /\ kCheapPrepend \in Nat
  BY Parts, SizesAssumption DEF TypeOK
<1>2. BufferInv'
  BY DEF BufferInv, TypeOK, KeepsBytes, InBounds
<1>3. FrontKept
  BY <1>1 DEF FrontKept
<1> QED
  BY <1>2, <1>3

\* The calls that need no room.
LEMMA ConcludesQuietly ==
  ASSUME TypeOK, InBounds, WellFormed(buf'), ContentToString(buf') = content',
         UNCHANGED huge,
         \/ buf'.reader >= buf.reader
         \/ buf'.reader = buf.reader
         \/ buf'.reader = kCheapPrepend
         \/ \E data \in Data : PrependData(data)
  PROVE  BufferInv' /\ FrontKept
<1>1. content' \in Seq(Bytes)
  BY ContentType
<1>2. buf'.writer <= buf'.size /\ huge' \in BOOLEAN
  BY Parts DEF TypeOK
<1> QED
  BY <1>1, <1>2, Concludes

\* RetrieveLine: the buffer drops as many bytes as the content.
LEMMA LineDropped ==
  ASSUME BufferInv, InBounds, RetrieveLine
  PROVE  /\ WellFormed(buf') /\ ContentToString(buf') = content'
         /\ buf'.reader >= buf.reader \/ buf'.reader = kCheapPrepend
<1>a. TypeOK /\ KeepsBytes /\ WellFormed(buf) /\ ContentToString(buf) = content
  BY DEF BufferInv, TypeOK, KeepsBytes
<1>1. PICK i \in LineEnds : /\ \A j \in LineEnds : i <= j
                            /\ content' = SubSeq(content, i + 2, Len(content))
  BY DEF RetrieveLine
<1>2. FindCRLF(buf) = buf.reader + i - 1
  BY <1>a, <1>1, FindsIt
<1>3. i \in Nat /\ buf.reader \in Nat
  BY <1>a, Parts DEF LineEnds
<1>4. /\ FindCRLF(buf) + 2 - buf.reader = i + 1 /\ i + 1 \in Nat
      /\ (i + 1) + 1 = i + 2
  BY <1>2, <1>3
<1>5. buf' = RetrieveFrom(buf, i + 1)
  BY <1>4 DEF RetrieveLine
<1>6. /\ WellFormed(buf')
      /\ ContentToString(buf') = SubSeq(content, (i + 1) + 1, Len(content))
      /\ buf'.reader >= buf.reader \/ buf'.reader = kCheapPrepend
  BY ONLY <1>a, <1>4, <1>5, RetrieveDrops
<1> QED
  BY <1>1, <1>4, <1>6

LEMMA StepHolds == BufferInv /\ [Next]_vars => BufferInv' /\ [FrontKept]_vars
<1> SUFFICES ASSUME BufferInv, [Next]_vars PROVE BufferInv' /\ [FrontKept]_vars
  OBVIOUS
<1>1. CASE UNCHANGED vars
  BY <1>1 DEF BufferInv, TypeOK, KeepsBytes, InBounds, vars
<1>2. CASE InBounds /\ Next
  <2>a. /\ TypeOK /\ InBounds /\ WellFormed(buf) /\ ContentToString(buf) = content
        /\ content \in Seq(Bytes) /\ huge \in BOOLEAN /\ buf.writer <= buf.size
    BY <1>2 DEF BufferInv, TypeOK, KeepsBytes, InBounds
  <2>b. IntLimit \in Nat
    BY SizesAssumption
  <2>1. ASSUME NEW data \in Data, AppendData(data) PROVE BufferInv' /\ FrontKept
    <3>1. data \in Seq(Bytes) /\ Len(data) \in Nat /\ content \o data \in Seq(Bytes)
      BY <2>a, DataAssumption, LenProperties, ConcatParts
    <3>2. huge' \in BOOLEAN /\ (Len(data) < IntLimit \/ huge')
      <4>1. Len(data) >= IntLimit \/ Len(data) < IntLimit
        BY ONLY <2>b, <3>1
      <4>2. huge' = (huge \/ Len(data) >= IntLimit)
        BY <2>1 DEF AppendData, Asks
      <4> QED
        BY ONLY <2>a, <4>1, <4>2, Zenon
    <3>3. CASE Throws(buf, Len(data))
      BY <2>a, <2>1, <3>2, <3>3, Concludes DEF AppendData
    <3>4. CASE ~Throws(buf, Len(data))
      <4>1. buf' = AppendTo(buf, data) /\ content' = content \o data
        BY <2>1, <3>4 DEF AppendData
      <4>2. /\ buf'.writer <= buf'.size =>
                 WellFormed(buf') /\ ContentToString(buf') = content'
            /\ buf'.reader = buf.reader \/ buf'.reader = kCheapPrepend
            /\ Len(data) < IntLimit => buf'.writer <= buf'.size
        BY ONLY <2>a, <3>1, <4>1, AppendAppends
      <4> QED
        BY <2>a, <3>1, <3>2, <4>1, <4>2, Concludes
    <3> QED
      BY <3>3, <3>4
  <2>2. ASSUME NEW data \in Data, PrependData(data) PROVE BufferInv' /\ FrontKept
    BY <2>a, <2>2, DataAssumption, PrependPrepends, ConcludesQuietly DEF PrependData
  <2>3. ASSUME NEW data \in Data, ReadFd(data) PROVE BufferInv' /\ FrontKept
    BY <2>a, <2>3, DataAssumption, ReadAppends, ConcludesQuietly DEF ReadFd
  <2>4. ASSUME NEW n \in 0..MaxArg, EnsureWritable(n) PROVE BufferInv' /\ FrontKept
    <3>1. n \in Nat /\ content' = content
      BY <2>4, SizesAssumption DEF EnsureWritable
    <3>2. huge' \in BOOLEAN /\ (n < IntLimit \/ huge')
      <4>1. n >= IntLimit \/ n < IntLimit
        BY ONLY <2>b, <3>1
      <4>2. huge' = (huge \/ n >= IntLimit)
        BY <2>4 DEF EnsureWritable, Asks
      <4> QED
        BY ONLY <2>a, <4>1, <4>2, Zenon
    <3>3. CASE Throws(buf, n)
      BY <2>a, <2>4, <3>1, <3>2, <3>3, Concludes DEF EnsureWritable
    <3>4. CASE ~Throws(buf, n)
      <4>1. buf' = EnsureWritableBytes(buf, n)
        BY <2>4, <3>4 DEF EnsureWritable
      <4>2. /\ buf'.writer <= buf'.size =>
                 WellFormed(buf') /\ ContentToString(buf') = ContentToString(buf)
            /\ buf'.reader = buf.reader \/ buf'.reader = kCheapPrepend
            /\ n < IntLimit => WellFormed(buf')
        BY ONLY <2>a, <3>1, <4>1, EnsureKeeps
      <4>3. n < IntLimit => buf'.writer <= buf'.size
        BY <4>2, Parts
      <4> QED
        BY <2>a, <3>1, <3>2, <4>2, <4>3, Concludes
    <3> QED
      BY <3>3, <3>4
  <2>5. ASSUME NEW n \in 0..MaxArg, Shrink(n) PROVE BufferInv' /\ FrontKept
    <3>1. n \in Nat /\ content' = content /\ ReadableBytes(buf) + n \in Nat
      BY <2>a, <2>5, SizesAssumption, Parts DEF Shrink, ReadableBytes
    <3>2. huge' \in BOOLEAN /\ (ReadableBytes(buf) + n < IntLimit \/ huge')
      <4>1. ReadableBytes(buf) + n >= IntLimit \/ ReadableBytes(buf) + n < IntLimit
        BY ONLY <2>b, <3>1
      <4>2. huge' = (huge \/ ReadableBytes(buf) + n >= IntLimit)
        BY <2>5 DEF Shrink, Asks
      <4> QED
        BY ONLY <2>a, <4>1, <4>2, Zenon
    <3>3. CASE ShrinkThrows(buf, n)
      BY <2>a, <2>5, <3>1, <3>2, <3>3, Concludes DEF Shrink
    <3>4. CASE ~ShrinkThrows(buf, n)
      <4>1. buf' = Shrunk(buf, n)
        BY <2>5, <3>4 DEF Shrink
      <4>2. /\ buf'.writer <= buf'.size =>
                 WellFormed(buf') /\ ContentToString(buf') = ContentToString(buf)
            /\ buf'.reader = kCheapPrepend
            /\ ReadableBytes(buf) + n < IntLimit => buf'.writer <= buf'.size
        BY ONLY <2>a, <3>1, <3>4, <4>1, ShrinkKeeps
      <4> QED
        BY <2>a, <3>1, <3>2, <4>2, Concludes
    <3> QED
      BY <3>3, <3>4
  <2>6. ASSUME NEW n \in 0..MaxArg, Retrieve(n) PROVE BufferInv' /\ FrontKept
    <3>1. n \in Nat
      BY SizesAssumption
    <3> QED
      BY <2>a, <2>6, <3>1, RetrieveDrops, ConcludesQuietly DEF Retrieve
  <2>7. ASSUME RetrieveLine PROVE BufferInv' /\ FrontKept
    <3>1. UNCHANGED huge
      BY <2>7 DEF RetrieveLine
    <3> QED
      BY <2>a, <2>7, <3>1, LineDropped, ConcludesQuietly
  <2> QED
    BY <1>2, <2>1, <2>2, <2>3, <2>4, <2>5, <2>6, <2>7 DEF Next
<1> QED
  BY <1>1, <1>2 DEF Next

\* The indices never pass each other and the bytes of the vector are bytes, for
\* every size of the areas of a Buffer and every sequence of calls, as long as the
\* vector is not shorter than the writer index says.
THEOREM TypeCorrect == Spec => []TypeOK
<1>1. BufferInv => TypeOK
  BY DEF BufferInv
<1> QED
  BY <1>1, InitHolds, StepHolds, PTL DEF Spec

\* The readable bytes of a Buffer are inside the vector and are those put in and
\* not taken out, in order, through every move, resize, swap, split read and
\* std::length_error, as long as no call asked for 2^31 bytes or more.
THEOREM KeepsBytesHolds == Spec => []KeepsBytes
<1>1. BufferInv => KeepsBytes
  BY DEF BufferInv
<1> QED
  BY <1>1, InitHolds, StepHolds, PTL DEF Spec

\* EnsureWritableBytes gives the room it is asked for, for every argument below
\* 2^31; MakeSpace's int parameter gives no more than that (AlwaysEnsuresSpace).
THEOREM EnsuresSpaceHolds == Spec => []EnsuresSpace
<1>1. ASSUME TypeOK PROVE EnsuresSpace
  <2> SUFFICES ASSUME InBounds, NEW n \in 0..MaxArg, n < IntLimit
               PROVE  WritableBytes(EnsureWritableBytes(buf, n)) >= n
    BY DEF EnsuresSpace
  <2>1. n \in Nat /\ WellFormed(buf)
    BY <1>1, SizesAssumption DEF TypeOK
  <2> QED
    BY <2>1, EnsureKeeps
<1> QED
  BY <1>1, TypeCorrect, PTL

\* FindCRLF finds the first line of the content and never a stale one.
THEOREM FindsFirstLineHolds == Spec => []FindsFirstLine
<1> QED
  BY LinesFound, TypeCorrect, KeepsBytesHolds, PTL

\* No call but Prepend takes from the kCheapPrepend bytes in front, also one that
\* throws or asks for 2^31 bytes or more.
THEOREM CheapPrependHolds == Spec => CheapPrependKept
<1> QED
  BY InitHolds, StepHolds, PTL DEF Spec, CheapPrependKept, FrontKept

-----------------------------------------------------------------------------
(* HttpServer, the reader of a connection's input buffer.  The buffer's      *)
(* lines are taken in order, so a later request begins behind an earlier one. *)

\* A line is a record, and the stream is a sequence of them.
LEMMA StreamParts ==
  ASSUME stream \in Streams
  PROVE  /\ stream \in Seq(Lines) /\ Len(stream) \in Nat
         /\ DOMAIN stream = 1..Len(stream)
BY StreamsAssumption

\* ParseRequest takes nothing back, takes the request line and one more line
\* for a request it finds, and takes no line that has not arrived.
LEMMA RetrievedMoves ==
  ASSUME HttpTypeOK, NEW n \in 1..(2 * Len(stream))
  PROVE  /\ Retrieved(n) \in 0..Len(stream)
         /\ retrieved <= Retrieved(n)
         /\ GotAll(n) => retrieved + 1 <= Retrieved(n)
<1>1. /\ retrieved \in Nat /\ Len(stream) \in Nat /\ retrieved <= Len(stream)
      /\ n \in Nat /\ n <= 2 * Len(stream)
  BY StreamParts DEF HttpTypeOK
<1>2. n \div 2 \in Nat /\ n \div 2 <= Len(stream)
  BY <1>1
<1>3. ASSUME NEW j \in Complete(n)
      PROVE  j \in Nat /\ retrieved + 1 <= j /\ j <= n \div 2
  BY <1>1, <1>2, <1>3 DEF Complete
<1>4. CASE ~RequestLineOk(n)
  BY <1>1, <1>4 DEF Retrieved, GotAll
<1>5. CASE RequestLineOk(n) /\ HeaderEnds(n) = {}
  <2>1. PICK j : j \in Complete(n)
    BY <1>5 DEF RequestLineOk
  <2>2. Retrieved(n) = n \div 2 /\ ~GotAll(n)
    BY <1>5 DEF Retrieved, GotAll
  <2> QED
    BY <1>1, <1>2, <1>3, <2>1, <2>2
<1>6. CASE RequestLineOk(n) /\ HeaderEnds(n) # {}
  <2>1. HeaderEnds(n) \subseteq Complete(n)
    BY DEF HeaderEnds
  <2>2. HeaderEnds(n) \subseteq Nat
    BY <1>3, <2>1
  <2>3. \E j \in HeaderEnds(n) : \A k \in HeaderEnds(n) : j <= k
    BY ONLY <1>6, <2>2, LeastElement
  <2>4. Retrieved(n) = CHOOSE j \in HeaderEnds(n) : \A k \in HeaderEnds(n) : j <= k
    BY <1>6 DEF Retrieved
  <2>5. Retrieved(n) \in HeaderEnds(n)
    BY <2>3, <2>4
  <2>6. Retrieved(n) \in Complete(n)
    BY <2>1, <2>5
  <2> QED
    BY <1>1, <1>2, <1>3, <2>6
<1> QED
  BY <1>4, <1>5, <1>6

\* An appended sequence: its length, its old elements and the new one.
LEMMA AppendParts ==
  ASSUME NEW S, NEW s \in Seq(S), NEW e \in S
  PROVE  /\ Append(s, e) \in Seq(S)
         /\ Len(Append(s, e)) = Len(s) + 1 /\ Len(s) \in Nat
         /\ DOMAIN s = 1..Len(s)
         /\ DOMAIN Append(s, e) = 1..(Len(s) + 1)
         /\ \A i \in 1..Len(s) : Append(s, e)[i] = s[i]
         /\ Append(s, e)[Len(s) + 1] = e
OBVIOUS

\* The elements of a sequence.
LEMMA SeqElements ==
  ASSUME NEW S, NEW s \in Seq(S)
  PROVE  \A i \in 1..Len(s) : s[i] \in S
OBVIOUS

\* An interval from 1 on has one end.
LEMMA SameEnd ==
  ASSUME NEW m \in Nat, NEW k \in Nat, 1..m = 1..k
  PROVE  m = k
<1>1. CASE m < k
  <2>1. k \in 1..k /\ k \notin 1..m
    BY <1>1
  <2> QED
    BY <2>1
<1>2. CASE k < m
  <2>1. m \in 1..m /\ m \notin 1..k
    BY <1>2
  <2> QED
    BY <2>1
<1> QED
  BY <1>1, <1>2

\* The inductive invariant of the answers.  AnswersInOrder alone is not: that
\* the next request is a later one needs that those handled were taken out of
\* the buffer, and that the next response has a readable one before it needs
\* that an open connection has only sent responses with a length.
AnswersInv ==
  /\ HttpTypeOK
  /\ AnswersInOrder
  /\ state_ = "kConnected" => \A i \in DOMAIN output : output[i].len
  /\ \A i \in DOMAIN handled : handled[i] <= retrieved

\* Whatever a request is answered with, it is a later one than those before.
LEMMA RequestAnswered ==
  ASSUME AnswersInv, NEW n \in 1..(2 * Len(stream)), HandleRead(n), GotAll(n),
         OnRequest(retrieved + 1), retrieved' = Retrieved(n)
  PROVE  AnswersInv'
<1>1. /\ HttpTypeOK /\ retrieved \in Nat /\ handled \in Seq(Nat)
      /\ output \in Seq(Responses) /\ Len(handled) \in Nat /\ Len(output) \in Nat
      /\ DOMAIN handled = 1..Len(handled) /\ DOMAIN output = 1..Len(output)
      /\ state_ \in {"kConnected", "kDisconnecting"}
  BY DEF AnswersInv, HttpTypeOK
<1>2. /\ retrieved' \in 0..Len(stream) /\ retrieved <= retrieved'
      /\ retrieved + 1 <= retrieved' /\ stream' = stream
  BY <1>1, RetrievedMoves DEF HandleRead
<1>3. /\ handled' = Append(handled, retrieved + 1) /\ handled' \in Seq(Nat)
      /\ DOMAIN handled' = 1..(Len(handled) + 1)
      /\ \A i \in 1..Len(handled) : handled'[i] = handled[i]
      /\ handled'[Len(handled) + 1] = retrieved + 1
  <2>1. handled' = Append(handled, retrieved + 1) /\ retrieved + 1 \in Nat
    BY <1>1 DEF OnRequest
  <2> QED
    BY <1>1, <2>1, AppendParts
<1>4. /\ arrived' \in 0..(2 * Len(stream')) /\ whole' \in BOOLEAN
      /\ stream' \in Streams
  BY <1>1, <1>2, StreamParts DEF HandleRead, HttpTypeOK
<1>5. \A i \in 1..Len(handled) : handled[i] \in Nat /\ handled[i] <= retrieved
  <2>1. \A i \in DOMAIN handled : handled[i] <= retrieved
    BY DEF AnswersInv
  <2>2. \A i \in 1..Len(handled) : handled[i] \in Nat
    BY ONLY <1>1, SeqElements
  <2> QED
    BY ONLY <1>1, <2>1, <2>2
<1>6. \A i \in DOMAIN handled' : handled'[i] <= retrieved'
  BY <1>1, <1>2, <1>3, <1>5
<1>7. \A i, j \in DOMAIN handled' : i < j => handled'[i] < handled'[j]
  <2> SUFFICES ASSUME NEW i \in DOMAIN handled', NEW j \in DOMAIN handled', i < j
               PROVE  handled'[i] < handled'[j]
    OBVIOUS
  <2>1. /\ i \in 1..Len(handled) /\ handled'[i] = handled[i]
        /\ j \in 1..Len(handled) \/ j = Len(handled) + 1
    BY <1>1, <1>3
  <2>2. CASE j \in 1..Len(handled)
    BY <1>1, <1>3, <2>1, <2>2 DEF AnswersInv, AnswersInOrder
  <2>3. CASE j = Len(handled) + 1
    BY <1>1, <1>3, <1>5, <2>1, <2>3
  <2> QED
    BY <2>1, <2>2, <2>3
<1>8. PICK close \in BOOLEAN :
        /\ Send(Response(retrieved + 1, close))
        /\ state_' = IF close THEN "kDisconnecting" ELSE state_
  BY DEF OnRequest
<1> DEFINE r == Response(retrieved + 1, close)
<1>9. /\ r \in Responses /\ r.to = retrieved + 1 /\ r.len = ~close
      /\ r.len \in BOOLEAN
  BY <1>1 DEF Response, Responses
<1>10. CASE state_ = "kConnected"
  <2>1. /\ output' = Append(output, r) /\ output' \in Seq(Responses)
        /\ DOMAIN output' = 1..(Len(output) + 1)
        /\ \A i \in 1..Len(output) : output'[i] = output[i]
        /\ output'[Len(output) + 1] = r
    <3>1. output' = Append(output, r)
      BY <1>8, <1>10 DEF Send
    <3> HIDE DEF r
    <3> QED
      BY <1>1, <1>9, <3>1, AppendParts
  <2>2. /\ [i \in DOMAIN output |-> output[i].to] = handled
        /\ \A i \in 1..Len(output) : output[i].len
    BY <1>1, <1>10 DEF AnswersInv, AnswersInOrder
  <2>3. DOMAIN output = DOMAIN handled
    BY <2>2
  <2>4. Len(output) = Len(handled)
    BY ONLY <1>1, <2>3, SameEnd
  <2>5. \A i \in 1..Len(output) : output[i].to = handled[i]
    BY <1>1, <2>2
  <2> HIDE DEF r
  <2>6. ASSUME NEW i \in DOMAIN output', NEW j \in DOMAIN output', i < j
        PROVE  /\ output'[i].len
               /\ output'[i].to < output'[j].to \/ output'[j] = BadRequest
    <3>1. /\ i \in 1..Len(output) /\ output'[i] = output[i]
          /\ j \in 1..Len(output) \/ j = Len(output) + 1
      BY <1>1, <2>1, <2>6
    <3>2. output'[i].len
      BY <2>2, <3>1
    <3>3. CASE j \in 1..Len(output)
      BY <1>1, <2>1, <2>6, <3>1, <3>2, <3>3 DEF AnswersInv, AnswersInOrder
    <3>4. CASE j = Len(output) + 1
      <4>1. output'[i].to = handled[i] /\ output'[j].to = retrieved + 1
        BY <1>9, <2>1, <2>5, <3>1, <3>4
      <4>2. handled[i] \in Nat /\ handled[i] <= retrieved
        BY <1>5, <2>4, <3>1
      <4> QED
        BY <1>1, <3>2, <4>1, <4>2
    <3> QED
      BY <3>1, <3>3, <3>4
  <2>7. [i \in DOMAIN output' |-> output'[i].to] = handled'
    <3>1. handled' = [i \in 1..(Len(output) + 1) |-> handled'[i]]
      BY <1>3, <2>4
    <3>2. \A i \in 1..(Len(output) + 1) : output'[i].to = handled'[i]
      <4> TAKE i \in 1..(Len(output) + 1)
      <4>1. i \in 1..Len(output) \/ i = Len(output) + 1
        BY <1>1
      <4> QED
        BY <1>3, <1>9, <2>1, <2>4, <2>5, <4>1
    <3> QED
      BY ONLY <2>1, <3>1, <3>2
  <2>8. state_' = "kConnected" => \A i \in DOMAIN output' : output'[i].len
    <3> SUFFICES ASSUME state_' = "kConnected", NEW i \in DOMAIN output'
                 PROVE  output'[i].len
      OBVIOUS
    <3>1. ~close
      BY <1>8
    <3>2. i \in 1..Len(output) \/ i = Len(output) + 1
      BY <1>1, <2>1
    <3> QED
      BY <1>9, <2>1, <2>2, <3>1, <3>2
  <2>9. state_' \in {"kConnected", "kDisconnecting"}
    BY <1>8, <1>10
  <2>10. HttpTypeOK'
    BY <1>2, <1>3, <1>4, <2>1, <2>9 DEF HttpTypeOK
  <2> QED
    BY <1>6, <1>7, <2>6, <2>7, <2>8, <2>10 DEF AnswersInv, AnswersInOrder
<1>11. CASE state_ # "kConnected"
  <2>1. output' = output /\ state_' = "kDisconnecting"
    BY <1>1, <1>8, <1>11 DEF Send
  <2>2. HttpTypeOK'
    BY <1>1, <1>2, <1>3, <1>4, <2>1 DEF HttpTypeOK
  <2> QED
    BY <1>6, <1>7, <2>1, <2>2 DEF AnswersInv, AnswersInOrder
<1> QED
  BY <1>10, <1>11

\* A read that completes no request hands nothing on, and may end the answers
\* with a 400.
LEMMA NoRequestAnswered ==
  ASSUME AnswersInv, NEW n \in 1..(2 * Len(stream)), HandleRead(n),
         retrieved' = Retrieved(n), handled' = handled,
         \/ Send(BadRequest) /\ state_' = "kDisconnecting"
         \/ UNCHANGED <<output, state_>>
  PROVE  AnswersInv'
<1>1. /\ HttpTypeOK /\ retrieved \in Nat /\ handled \in Seq(Nat)
      /\ output \in Seq(Responses) /\ Len(output) \in Nat
      /\ DOMAIN handled = 1..Len(handled) /\ DOMAIN output = 1..Len(output)
      /\ state_ \in {"kConnected", "kDisconnecting"}
  BY DEF AnswersInv, HttpTypeOK
<1>2. /\ retrieved' \in 0..Len(stream) /\ retrieved <= retrieved'
      /\ stream' = stream
  BY <1>1, RetrievedMoves DEF HandleRead
<1>3. /\ arrived' \in 0..(2 * Len(stream')) /\ whole' \in BOOLEAN
      /\ stream' \in Streams
  BY <1>1, <1>2, StreamParts DEF HandleRead, HttpTypeOK
<1>4. \A i \in DOMAIN handled' : handled'[i] <= retrieved'
  <2>1. \A i \in DOMAIN handled : handled[i] <= retrieved
    BY DEF AnswersInv
  <2>2. \A i \in 1..Len(handled) : handled[i] \in Nat
    BY ONLY <1>1, SeqElements
  <2> QED
    BY <1>1, <1>2, <2>1, <2>2
<1>5. CASE UNCHANGED <<output, state_>>
  <2>1. HttpTypeOK'
    BY <1>1, <1>2, <1>3, <1>5 DEF HttpTypeOK
  <2> QED
    BY <1>4, <1>5, <2>1 DEF AnswersInv, AnswersInOrder
<1>6. CASE Send(BadRequest) /\ state_' = "kDisconnecting"
  <2>1. CASE state_ = "kConnected"
    <3>1. BadRequest \in Responses
      BY DEF BadRequest, Responses
    <3>2. output' = Append(output, BadRequest)
      BY <1>6, <2>1 DEF Send
    <3>3. /\ output' \in Seq(Responses)
          /\ DOMAIN output' = 1..(Len(output) + 1)
          /\ \A i \in 1..Len(output) : output'[i] = output[i]
          /\ output'[Len(output) + 1] = BadRequest
      BY ONLY <1>1, <3>1, <3>2, AppendParts
    <3>4. \A i \in 1..Len(output) : output[i].len
      BY <1>1, <2>1 DEF AnswersInv
    <3>5. ASSUME NEW i \in DOMAIN output', NEW j \in DOMAIN output', i < j
          PROVE  /\ output'[i].len
                 /\ output'[i].to < output'[j].to \/ output'[j] = BadRequest
      <4>1. /\ i \in 1..Len(output) /\ output'[i] = output[i]
            /\ j \in 1..Len(output) \/ j = Len(output) + 1
        BY <1>1, <3>3, <3>5
      <4>2. output'[i].len
        BY <3>4, <4>1
      <4>3. CASE j \in 1..Len(output)
        BY <1>1, <3>3, <3>5, <4>1, <4>2, <4>3 DEF AnswersInv, AnswersInOrder
      <4> QED
        BY <3>3, <4>1, <4>2, <4>3
    <3>6. HttpTypeOK'
      BY <1>1, <1>2, <1>3, <1>6, <3>3 DEF HttpTypeOK
    <3> QED
      BY <1>4, <1>6, <3>5, <3>6 DEF AnswersInv, AnswersInOrder
  <2>2. CASE state_ # "kConnected"
    <3>1. output' = output
      BY <1>6, <2>2 DEF Send
    <3>2. HttpTypeOK'
      BY <1>1, <1>2, <1>3, <1>6, <3>1 DEF HttpTypeOK
    <3> QED
      BY <1>4, <1>6, <3>1, <3>2 DEF AnswersInv, AnswersInOrder
  <2> QED
    BY <2>1, <2>2
<1> QED
  BY <1>5, <1>6

LEMMA AnswersInit == HttpInit => AnswersInv
<1> SUFFICES ASSUME HttpInit PROVE AnswersInv
  OBVIOUS
<1>1. HttpTypeOK
  BY StreamParts DEF HttpInit, HttpTypeOK
<1>2. output = <<>> /\ handled = <<>> /\ DOMAIN output = {} /\ DOMAIN handled = {}
  BY DEF HttpInit
<1>3. [i \in DOMAIN output |-> output[i].to] = handled
  BY <1>2
<1> QED
  BY <1>1, <1>2, <1>3 DEF AnswersInv, AnswersInOrder

LEMMA AnswersStep == AnswersInv /\ [HttpNext]_httpVars => AnswersInv'
<1> SUFFICES ASSUME AnswersInv, [HttpNext]_httpVars PROVE AnswersInv'
  OBVIOUS
<1>1. ASSUME NEW n \in 1..(2 * Len(stream)), HandleRead(n) PROVE AnswersInv'
  <2>1. OnMessage(n) /\ retrieved' = Retrieved(n)
    BY <1>1 DEF HandleRead, OnMessage
  <2>2. CASE /\ ~RequestLineOk(n) /\ Send(BadRequest)
             /\ state_' = "kDisconnecting" /\ UNCHANGED handled
    BY <1>1, <2>1, <2>2, NoRequestAnswered
  <2>3. CASE GotAll(n) /\ OnRequest(retrieved + 1)
    BY <1>1, <2>1, <2>3, RequestAnswered
  <2>4. CASE /\ RequestLineOk(n) /\ ~GotAll(n)
             /\ UNCHANGED <<handled, output, state_>>
    BY <1>1, <2>1, <2>4, NoRequestAnswered
  <2> QED
    BY <2>1, <2>2, <2>3, <2>4 DEF OnMessage
<1>2. CASE UNCHANGED httpVars
  BY <1>2 DEF httpVars, AnswersInv, AnswersInOrder, HttpTypeOK
<1> QED
  BY <1>1, <1>2 DEF HttpNext, Quiet

\* Whatever the peer sends and however its bytes are cut into reads, the
\* responses of HttpServer::OnRequest answer later and later requests, all but
\* the last can be told apart by their length, and a 400 is the last.
THEOREM AnswersInOrderHolds == HttpSpec => []AnswersInOrder
<1>1. AnswersInv => AnswersInOrder
  BY DEF AnswersInv
<1> QED
  BY <1>1, AnswersInit, AnswersStep, PTL DEF HttpSpec

-----------------------------------------------------------------------------
(* Good requests that arrive one per read.                                   *)

\* The inductive invariant: between two reads the buffer is empty and the next
\* line begins a request of the peer.  Without it the next read could parse
\* from the middle of a request.
WholeInv ==
  whole /\ GoodStream =>
    /\ arrived = 2 * retrieved
    /\ retrieved = 0 \/ stream[retrieved].last
    /\ {handled[i] : i \in DOMAIN handled} = ArrivedRequests
    /\ \A i \in DOMAIN output : output[i] # BadRequest

\* A read that brings the whole next request, which ends with line j: every
\* line before j is the request line or a header with a colon.
LEMMA WholeRead ==
  ASSUME HttpTypeOK, WholeInv, whole, GoodStream,
         NEW n \in 1..(2 * Len(stream)), HandleRead(n), whole'
  PROVE  /\ \E j \in DOMAIN stream :
              /\ n = 2 * j /\ stream[j].last /\ retrieved + 1 < j
              /\ \A k \in (retrieved + 1)..(j - 1) : ~stream[k].last
              /\ HeaderEnds(n) = {j}
         /\ retrieved + 1 \in Requests /\ RequestLineOk(n)
<1>1. /\ retrieved \in Nat /\ Len(stream) \in Nat /\ arrived = 2 * retrieved
      /\ retrieved <= Len(stream) /\ DOMAIN stream = 1..Len(stream)
      /\ retrieved = 0 \/ stream[retrieved].last
  BY StreamParts DEF HttpTypeOK, WholeInv
<1>2. /\ n \in RequestEnds /\ n > arrived
      /\ \A m \in RequestEnds : m > arrived => m >= n
  BY DEF HandleRead
<1>3. PICK j \in DOMAIN stream : n = 2 * j /\ stream[j].last
  BY <1>2 DEF RequestEnds
<1>4. j \in Nat /\ j <= Len(stream) /\ retrieved + 1 <= j
  BY <1>1, <1>2, <1>3
<1>5. ASSUME NEW k \in (retrieved + 1)..(j - 1) PROVE ~stream[k].last
  <2>1. k \in DOMAIN stream /\ k \in Nat /\ 2 * k > arrived /\ ~(2 * k >= n)
    BY <1>1, <1>3, <1>4, <1>5
  <2>2. stream[k].last => 2 * k \in RequestEnds
    BY <2>1 DEF RequestEnds
  <2> QED
    BY <1>2, <2>1, <2>2
<1>6. retrieved + 1 \in Requests
  <2>1. retrieved + 1 \in DOMAIN stream /\ (retrieved + 1) - 1 = retrieved
    BY <1>1, <1>4
  <2>2. retrieved = 0 => retrieved + 1 = 1
    BY <1>1
  <2> QED
    BY <1>1, <2>1, <2>2 DEF Requests
<1>7. /\ ProcessRequestLine(stream[retrieved + 1])
      /\ ~stream[retrieved + 1].last
  BY <1>6 DEF GoodStream, Requests
<1>8. retrieved + 1 < j
  <2>1. retrieved + 1 # j
    BY <1>3, <1>7
  <2> QED
    BY <1>1, <1>4, <2>1
<1>9. n \div 2 = j /\ Complete(n) = (retrieved + 1)..j
  BY <1>3, <1>4 DEF Complete
<1>10. RequestLineOk(n)
  <2>1. retrieved + 1 \in Complete(n)
    BY <1>1, <1>4, <1>9
  <2> QED
    BY <1>7, <2>1 DEF RequestLineOk
<1>11. ASSUME NEW k \in (retrieved + 2)..j PROVE k \notin Requests
  <2>1. k - 1 \in (retrieved + 1)..(j - 1) /\ k # 1
    BY <1>1, <1>4, <1>11
  <2>2. ~stream[k - 1].last
    BY <1>5, <2>1
  <2> QED
    BY <2>1, <2>2 DEF Requests
<1>12. ASSUME NEW k \in (retrieved + 2)..j PROVE stream[k].colon <=> ~stream[k].last
  <2>1. k \in DOMAIN stream
    BY <1>1, <1>4, <1>12
  <2> QED
    BY <1>11, <1>12, <2>1 DEF GoodStream
<1>13. HeaderEnds(n) \subseteq {j}
  <2> SUFFICES ASSUME NEW k \in HeaderEnds(n), k # j PROVE FALSE
    OBVIOUS
  <2>1. k \in (retrieved + 1)..j /\ k > retrieved + 1 /\ ~stream[k].colon
    BY <1>9 DEF HeaderEnds
  <2>2. k \in (retrieved + 2)..j /\ k \in (retrieved + 1)..(j - 1)
    BY <1>1, <1>4, <2>1
  <2> QED
    BY <1>5, <1>12, <2>1, <2>2
<1>14. j \in HeaderEnds(n)
  <2>1. j \in (retrieved + 2)..j /\ j \in (retrieved + 1)..j /\ j > retrieved + 1
    BY <1>1, <1>4, <1>8
  <2>2. ~stream[j].colon
    BY <1>3, <1>12, <2>1
  <2> QED
    BY <1>9, <2>1, <2>2 DEF HeaderEnds
<1>15. HeaderEnds(n) = {j}
  BY <1>13, <1>14
<1> QED
  BY <1>3, <1>5, <1>6, <1>8, <1>10, <1>15

\* After such a read the requests that arrived whole are those before and the
\* one it brought.
LEMMA WholeArrived ==
  ASSUME HttpTypeOK, arrived = 2 * retrieved,
         retrieved = 0 \/ stream[retrieved].last,
         retrieved + 1 \in Requests, stream' = stream,
         NEW j \in DOMAIN stream, arrived' = 2 * j, stream[j].last,
         retrieved + 1 < j,
         \A k \in (retrieved + 1)..(j - 1) : ~stream[k].last
  PROVE  ArrivedRequests' = ArrivedRequests \cup {retrieved + 1}
<1>1. /\ retrieved \in Nat /\ Len(stream) \in Nat /\ j \in Nat
      /\ DOMAIN stream = 1..Len(stream) /\ j <= Len(stream)
      /\ arrived \in Nat /\ arrived' \in Nat
  BY StreamParts DEF HttpTypeOK
<1>2. Requests' = Requests /\ Requests \subseteq DOMAIN stream
  BY DEF Requests
<1>3. ASSUME NEW i \in ArrivedRequests PROVE i \in ArrivedRequests'
  <2>1. PICK k \in DOMAIN stream : i <= k /\ stream[k].last /\ 2 * k <= arrived
    BY <1>3 DEF ArrivedRequests
  <2>2. 2 * k <= arrived'
    BY <1>1, <2>1
  <2> QED
    BY <1>2, <1>3, <2>1, <2>2 DEF ArrivedRequests
<1>4. retrieved + 1 \in ArrivedRequests'
  <2>1. retrieved + 1 <= j /\ 2 * j <= arrived'
    BY <1>1
  <2> QED
    BY <1>2, <2>1 DEF ArrivedRequests
<1>5. ASSUME NEW i \in ArrivedRequests', i # retrieved + 1
      PROVE  i \in ArrivedRequests
  <2>1. /\ i \in Requests
        /\ \E k \in DOMAIN stream : i <= k /\ stream[k].last /\ 2 * k <= arrived'
    BY <1>2, <1>5 DEF ArrivedRequests
  <2>2. PICK k \in DOMAIN stream : i <= k /\ stream[k].last /\ 2 * k <= arrived'
    BY <2>1
  <2>3. k \in Nat /\ i \in Nat /\ i >= 1 /\ k <= j
    BY <1>1, <1>2, <2>1, <2>2
  <2>4. CASE i <= retrieved
    <3>1. /\ retrieved \in DOMAIN stream /\ stream[retrieved].last
          /\ 2 * retrieved <= arrived
      BY <1>1, <2>3, <2>4
    <3> QED
      BY <2>1, <2>4, <3>1 DEF ArrivedRequests
  <2>5. CASE i > retrieved
    <3>1. i - 1 \in (retrieved + 1)..(j - 1) /\ i # 1
      BY <1>1, <1>5, <2>2, <2>3, <2>5
    <3>2. ~stream[i - 1].last
      BY <3>1
    <3> QED
      BY <2>1, <3>1, <3>2 DEF Requests
  <2> QED
    BY <1>1, <2>3, <2>4, <2>5
<1> QED
  BY <1>3, <1>4, <1>5

LEMMA WholeStep ==
  ASSUME AnswersInv, WholeInv, [HttpNext]_httpVars
  PROVE  WholeInv'
<1>1. CASE UNCHANGED httpVars
  BY <1>1 DEF httpVars, WholeInv, GoodStream, Requests, ArrivedRequests
<1>2. ASSUME NEW n \in 1..(2 * Len(stream)), HandleRead(n) PROVE WholeInv'
  <2> SUFFICES ASSUME whole', GoodStream'
               PROVE  /\ arrived' = 2 * retrieved'
                      /\ retrieved' = 0 \/ stream'[retrieved'].last
                      /\ {handled'[i] : i \in DOMAIN handled'} = ArrivedRequests'
                      /\ \A i \in DOMAIN output' : output'[i] # BadRequest
    BY DEF WholeInv
  <2>1. /\ stream' = stream /\ arrived' = n /\ whole /\ OnMessage(n)
        /\ HttpTypeOK /\ retrieved \in Nat /\ handled \in Seq(Nat)
        /\ output \in Seq(Responses)
    BY <1>2 DEF HandleRead, AnswersInv, HttpTypeOK
  <2>2. GoodStream
    BY <2>1 DEF GoodStream, Requests
  <2>3. /\ arrived = 2 * retrieved /\ (retrieved = 0 \/ stream[retrieved].last)
        /\ {handled[i] : i \in DOMAIN handled} = ArrivedRequests
        /\ \A i \in DOMAIN output : output[i] # BadRequest
    BY <2>1, <2>2 DEF WholeInv
  <2>4. PICK j \in DOMAIN stream :
          /\ n = 2 * j /\ stream[j].last /\ retrieved + 1 < j
          /\ \A k \in (retrieved + 1)..(j - 1) : ~stream[k].last
          /\ HeaderEnds(n) = {j}
    BY <1>2, <2>1, <2>2, WholeRead
  <2>5. retrieved + 1 \in Requests /\ RequestLineOk(n)
    BY <1>2, <2>1, <2>2, WholeRead
  <2>6. j \in Nat
    BY <2>1, StreamParts DEF HttpTypeOK
  <2>7. Retrieved(n) = j
    <3>1. Retrieved(n) = CHOOSE i \in {j} : \A k \in {j} : i <= k
      BY <2>4, <2>5 DEF Retrieved
    <3>2. \E i \in {j} : \A k \in {j} : i <= k
      BY <2>6
    <3> QED
      BY <3>1, <3>2
  <2>8. retrieved' = j /\ OnRequest(retrieved + 1)
    BY <2>1, <2>4, <2>5, <2>7 DEF OnMessage, GotAll
  <2>9. /\ arrived' = 2 * retrieved'
        /\ retrieved' = 0 \/ stream'[retrieved'].last
    BY <2>1, <2>4, <2>8
  <2>10. {handled'[i] : i \in DOMAIN handled'} = ArrivedRequests'
    <3>1. handled' = Append(handled, retrieved + 1) /\ retrieved + 1 \in Nat
      BY <2>1, <2>8 DEF OnRequest
    <3>2. {handled'[i] : i \in DOMAIN handled'} =
            {handled[i] : i \in DOMAIN handled} \cup {retrieved + 1}
      <4>1. /\ Len(handled) \in Nat /\ DOMAIN handled = 1..Len(handled)
            /\ DOMAIN handled' = 1..(Len(handled) + 1)
            /\ \A i \in 1..Len(handled) : handled'[i] = handled[i]
            /\ handled'[Len(handled) + 1] = retrieved + 1
        BY ONLY <2>1, <3>1, AppendParts
      <4>2. /\ \A i \in DOMAIN handled' :
                 i \in DOMAIN handled \/ i = Len(handled) + 1
            /\ \A i \in DOMAIN handled :
                 i \in DOMAIN handled' /\ handled'[i] = handled[i]
            /\ Len(handled) + 1 \in DOMAIN handled'
        BY ONLY <4>1
      <4> QED
        BY ONLY <4>1, <4>2
    <3>3. ArrivedRequests' = ArrivedRequests \cup {retrieved + 1}
      BY <2>1, <2>3, <2>4, <2>5, WholeArrived
    <3> QED
      BY <2>3, <3>2, <3>3
  <2>11. \A i \in DOMAIN output' : output'[i] # BadRequest
    <3>1. PICK close \in BOOLEAN : Send(Response(retrieved + 1, close))
      BY <2>8 DEF OnRequest
    <3> DEFINE r == Response(retrieved + 1, close)
    <3>2. r \in Responses /\ r.to = retrieved + 1 /\ BadRequest.to = 0
      BY <2>1 DEF Response, Responses, BadRequest
    <3>3. r # BadRequest
      BY <2>1, <3>2
    <3>4. output' = output \/ output' = Append(output, r)
      BY <3>1 DEF Send
    <3> HIDE DEF r
    <3>5. CASE output' = Append(output, r)
      <4>1. /\ Len(output) \in Nat /\ DOMAIN output = 1..Len(output)
            /\ DOMAIN output' = 1..(Len(output) + 1)
            /\ \A i \in 1..Len(output) : output'[i] = output[i]
            /\ output'[Len(output) + 1] = r
        BY ONLY <2>1, <3>2, <3>5, AppendParts
      <4>2. \A i \in DOMAIN output' : i \in DOMAIN output \/ i = Len(output) + 1
        BY <4>1
      <4> QED
        BY <2>3, <3>3, <4>1, <4>2
    <3> QED
      BY <2>3, <3>4, <3>5
  <2> QED
    BY <2>9, <2>10, <2>11
<1> QED
  BY <1>1, <1>2 DEF HttpNext, Quiet

LEMMA WholeInit == HttpInit => WholeInv
<1> SUFFICES ASSUME HttpInit PROVE WholeInv
  OBVIOUS
<1>1. /\ arrived = 0 /\ retrieved = 0 /\ stream \in Streams
      /\ DOMAIN handled = {} /\ DOMAIN output = {}
  BY DEF HttpInit
<1>2. ArrivedRequests = {}
  <2> SUFFICES ASSUME NEW k \in DOMAIN stream, 2 * k <= arrived PROVE FALSE
    BY DEF ArrivedRequests
  <2>1. k \in Nat /\ k >= 1
    BY <1>1, StreamParts
  <2> QED
    BY <1>1, <2>1
<1> QED
  BY <1>1, <1>2 DEF WholeInv

\* Whatever good requests a peer sends, if each read brings one whole request
\* then each is handed to the callback, none is answered 400, and an open
\* connection has sent as many responses as there were requests.
THEOREM WholeIsAnsweredHolds == HttpSpec => []WholeIsAnswered
<1>1. ASSUME AnswersInv, WholeInv PROVE WholeIsAnswered
  <2>1. state_ = "kConnected" => Len(output) = Len(handled)
    <3> SUFFICES ASSUME state_ = "kConnected" PROVE Len(output) = Len(handled)
      OBVIOUS
    <3>1. DOMAIN [i \in DOMAIN output |-> output[i].to] = DOMAIN handled
      BY <1>1 DEF AnswersInv, AnswersInOrder
    <3>2. DOMAIN output = DOMAIN handled
      BY <3>1
    <3>3. /\ Len(output) \in Nat /\ Len(handled) \in Nat
          /\ DOMAIN output = 1..Len(output) /\ DOMAIN handled = 1..Len(handled)
      BY <1>1 DEF AnswersInv, HttpTypeOK
    <3> QED
      BY ONLY <3>2, <3>3, SameEnd
  <2> QED
    BY <1>1, <2>1 DEF WholeInv, WholeIsAnswered
<1>2. HttpInit => AnswersInv /\ WholeInv
  BY AnswersInit, WholeInit
<1>3. AnswersInv /\ WholeInv /\ [HttpNext]_httpVars => AnswersInv' /\ WholeInv'
  BY AnswersStep, WholeStep
<1> QED
  BY <1>1, <1>2, <1>3, PTL DEF HttpSpec

\* The counters of HttpServer stay inside the peer's stream.
THEOREM HttpTypeCorrect == HttpSpec => []HttpTypeOK
<1>1. AnswersInv => HttpTypeOK
  BY DEF AnswersInv
<1> QED
  BY <1>1, AnswersInit, AnswersStep, PTL DEF HttpSpec
=============================================================================
