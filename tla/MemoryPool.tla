----------------------------- MODULE MemoryPool -----------------------------
(***************************************************************************)
(* MemoryPool (memory_pool/memory_pool.cc), used by one thread.            *)
(*                                                                         *)
(* Memory is counted in bytes.  A pointer into a page is the page's place  *)
(* in the list and an offset; the head page starts with the Pool record,   *)
(* every page with (or, the head, then) its SmallNode.  posix_memalign     *)
(* hands out pages and large areas until the system has none left, and     *)
(* what it hands out holds anything: CreatePool writes neither quote_ nor  *)
(* next_ of the head, MallocSmallNode neither quote_ nor failed_.          *)
(***************************************************************************)
EXTENDS Integers, Sequences, FiniteSets

CONSTANTS
  PAGE_SIZE, MP_ALIGNMENT,
  SizeofPool, SizeofSmallNode, SizeofLargeNode,
  MaxFailed,     \* 5 in the code (MallocSmallNode)
  MaxTries,      \* 5 in the code: the nodes MallocLargeNode looks at
  QuoteMod,      \* 2^32 in the code: quote_ is unsigned int
  Sizes,         \* the sizes malloc is called with
  MaxPages,      \* pages the system has
  Areas,         \* large areas the system has
  Garbage        \* what quote_ and failed_ of a fresh page may hold

NoArea == "nullptr"

\* The records fit into a page, the SmallNode ends aligned, and quote_ can count
\* the chunks of a page.
ASSUME PageAssumption ==
  /\ \A c \in {PAGE_SIZE, MP_ALIGNMENT, SizeofPool, SizeofSmallNode,
               SizeofLargeNode, QuoteMod, MaxFailed, MaxTries} : c \in Nat \ {0}
  /\ PAGE_SIZE % MP_ALIGNMENT = 0 /\ SizeofSmallNode % MP_ALIGNMENT = 0
  /\ SizeofPool + SizeofSmallNode <= PAGE_SIZE
  /\ SizeofLargeNode + SizeofSmallNode <= PAGE_SIZE
  /\ PAGE_SIZE < QuoteMod * MP_ALIGNMENT
  /\ Sizes \subseteq Nat \ {0} /\ MaxPages \in Nat /\ NoArea \notin Areas
  /\ 0 \in Garbage /\ Garbage \subseteq 0..QuoteMod - 1

VARIABLES
  pool_,        \* "none", "live", or "fault": a wild pointer was followed
  blocks,       \* the list of SmallNodes from head_ on
  next_,        \* next_ of the last of them: "null" or "wild"
  current_,     \* place of the page that malloc starts with
  large_list_,  \* the list of LargeNodes: their address_
  chunks,       \* what was given out of the pages and not taken back
  areas,        \* large areas not given back to the system
  pages,        \* pages not given back to the system
  sane          \* history: quote_ of every fresh page held zero

memVars == <<pool_, blocks, next_, current_, large_list_, chunks, areas, pages, sane>>

\* node: holds a LargeNode.
Chunks == [block : Nat \ {0}, from : Nat, to : Nat, node : BOOLEAN]

\* Type invariant.
MemTypeOK ==
  /\ pool_ \in {"none", "live", "fault"} /\ next_ \in {"null", "wild"}
  /\ blocks \in Seq([last : Nat, quote : 0..QuoteMod - 1, failed : Nat])
  /\ current_ \in Nat /\ large_list_ \in Seq(Areas \cup {NoArea})
  /\ chunks \subseteq Chunks /\ areas \subseteq Areas
  /\ pages \in 0..MaxPages /\ sane \in BOOLEAN

MemInit ==
  /\ pool_ = "none" /\ blocks = <<>> /\ next_ = "null" /\ current_ = 0
  /\ large_list_ = <<>> /\ chunks = {} /\ areas = {} /\ pages = 0 /\ sane = TRUE

-----------------------------------------------------------------------------
\* Where the first chunk of the i-th page may start.
FirstByte(i) == SizeofSmallNode + (IF i = 1 THEN SizeofPool ELSE 0)

\* mp_align_ptr; pages are aligned.
Align(p) == ((p + MP_ALIGNMENT - 1) \div MP_ALIGNMENT) * MP_ALIGNMENT

\* CreatePool.  When it fails pool_ stays as it was.
CreatePool ==
  /\ pool_ = "none" /\ pages < MaxPages
  /\ pages' = pages + 1
  /\ pool_' = "live" /\ current_' = 1
  /\ \E quote \in Garbage : \E next \in {"null", "wild"} :
       /\ blocks' = <<[last |-> FirstByte(1), quote |-> quote, failed |-> 0]>>
       /\ next_' = next
       /\ sane' = (sane /\ quote = 0)
  /\ UNCHANGED <<large_list_, chunks, areas>>

-----------------------------------------------------------------------------
(* malloc.  Each part says which chunk it gives out, if any.               *)

Chunk(i, from, size, node) ==
  [block |-> i, from |-> from, to |-> from + size, node |-> node]

\* Mutant: the room is measured from last_, before it is aligned.
HasRoomUnaligned(i, size) == PAGE_SIZE - blocks[i].last >= size

\* end_ - addr >= size.  size is unsigned, so a negative difference is large.
HasRoom(i, size) ==
  LET room == PAGE_SIZE - Align(blocks[i].last)
  IN  room >= size \/ room < 0

\* The pages from current_ on that have room.
WithRoom(size) == {i \in current_..Len(blocks) : HasRoom(i, size)}

\* A page that has room: the first.
MallocFromBlock(size, node) ==
  LET i    == CHOOSE j \in WithRoom(size) : \A k \in WithRoom(size) : j <= k
      addr == Align(blocks[i].last)
  IN  /\ WithRoom(size) # {}
      /\ blocks' = [blocks EXCEPT ![i].quote = (@ + 1) % QuoteMod,
                                  ![i].last = addr + size]
      /\ chunks' = chunks \cup {Chunk(i, addr, size, node)}
      /\ UNCHANGED <<next_, current_, pages, sane>>

\* The pages MallocSmallNode passes on its way to the last one.
Passed == current_..Len(blocks) - 1

\* MallocSmallNode: a new page at the end of the list.  Each page passed failed
\* once more; current_ moves behind those that had failed MaxFailed times.
MallocSmallNode(size, node) ==
  LET addr == Align(SizeofSmallNode)
      worn == {i \in Passed : blocks[i].failed >= MaxFailed}
  IN  /\ WithRoom(size) = {} /\ next_ = "null" /\ pages < MaxPages
      /\ pages' = pages + 1
      /\ \E quote, failed \in Garbage :
           /\ blocks' =
                Append([i \in DOMAIN blocks |->
                          IF i \in Passed THEN [blocks[i] EXCEPT !.failed = @ + 1]
                                          ELSE blocks[i]],
                       [last |-> addr + size, quote |-> (quote + 1) % QuoteMod,
                        failed |-> failed])
           /\ sane' = (sane /\ quote = 0)
      /\ current_' = IF worn = {} THEN current_
                     ELSE 1 + CHOOSE i \in worn : \A j \in worn : j <= i
      /\ chunks' = chunks \cup {Chunk(Len(blocks) + 1, addr, size, node)}
      /\ UNCHANGED next_

\* No page has room and the system has no more: nullptr.
NoMemory(size) == WithRoom(size) = {} /\ next_ = "null" /\ pages = MaxPages

\* next_ of the head was never written: the walk leaves the list.
FollowsWild(size) == WithRoom(size) = {} /\ next_ = "wild"

Fault == pool_' = "fault" /\ UNCHANGED <<blocks, next_, current_, large_list_,
                                         chunks, areas, pages, sane>>

\* malloc of at most PAGE_SIZE - sizeof(SmallNode), for the user.
MallocSmall(size) ==
  /\ pool_ = "live" /\ size <= PAGE_SIZE - SizeofSmallNode
  /\ \/ /\ MallocFromBlock(size, FALSE) \/ MallocSmallNode(size, FALSE)
        /\ UNCHANGED <<pool_, large_list_, areas>>
     \/ FollowsWild(size) /\ Fault

\* The nodes MallocLargeNode may use again: it looks at the first few.
FreeNodes == {i \in DOMAIN large_list_ : i <= MaxTries /\ large_list_[i] = NoArea}

\* malloc of more: MallocLargeNode.  The area comes first; then a node for it,
\* one without an area or a new one, itself from malloc.  Without a node the
\* area is given back.
MallocLarge(size) ==
  /\ pool_ = "live" /\ size > PAGE_SIZE - SizeofSmallNode
  /\ \E area \in Areas \ areas :
       \/ /\ FreeNodes # {}
          /\ large_list_' = [large_list_ EXCEPT
                ![CHOOSE i \in FreeNodes : \A j \in FreeNodes : i <= j] = area]
          /\ areas' = areas \cup {area}
          /\ UNCHANGED <<pool_, blocks, next_, current_, chunks, pages, sane>>
       \/ /\ FreeNodes = {}
          /\ \/ MallocFromBlock(SizeofLargeNode, TRUE)
             \/ MallocSmallNode(SizeofLargeNode, TRUE)
          /\ large_list_' = <<area>> \o large_list_
          /\ areas' = areas \cup {area}
          /\ UNCHANGED pool_
       \/ FreeNodes = {} /\ NoMemory(SizeofLargeNode) /\ UNCHANGED memVars
       \/ FreeNodes = {} /\ FollowsWild(SizeofLargeNode) /\ Fault

-----------------------------------------------------------------------------
(* Giving back.                                                            *)

\* FreeMemory of a large area: its node stays, without it.
FreeLarge(area) ==
  /\ pool_ = "live" /\ area \in areas
  /\ \E i \in DOMAIN large_list_ :
       /\ large_list_[i] = area
       /\ large_list_' = [large_list_ EXCEPT ![i] = NoArea]
  /\ areas' = areas \ {area}
  /\ UNCHANGED <<pool_, blocks, next_, current_, chunks, pages, sane>>

\* quote_ == 0: no chunk of the page is in use.
Reusable(quote) == quote = 0

\* FreeMemory of a chunk: its page is used again from the start when nothing of
\* it is left.
FreeSmall(c) ==
  LET quote == (blocks[c.block].quote + QuoteMod - 1) % QuoteMod
  IN  /\ pool_ = "live" /\ ~c.node
      /\ chunks' = chunks \ {c}
      /\ IF Reusable(quote)
           THEN /\ blocks' = [blocks EXCEPT ![c.block] =
                     [last |-> FirstByte(c.block), quote |-> quote, failed |-> 0]]
                /\ current_' = 1
           ELSE /\ blocks' = [blocks EXCEPT ![c.block].quote = quote]
                /\ UNCHANGED current_
      /\ UNCHANGED <<pool_, next_, large_list_, areas, pages, sane>>

\* Mutant: ResetPool keeps the list of LargeNodes.
ResetLargeListNot == UNCHANGED large_list_

ResetLargeList == large_list_' = <<>>

\* ResetPool takes everything back: what the user holds is gone.  The large
\* areas are freed before the walk over the pages.
ResetPool ==
  /\ pool_ = "live"
  /\ areas' = {} /\ ResetLargeList /\ current_' = 1 /\ chunks' = {}
  /\ blocks' = [i \in DOMAIN blocks |->
                  [last |-> FirstByte(i), quote |-> 0, failed |-> 0]]
  /\ pool_' = IF next_ = "wild" THEN "fault" ELSE "live"
  /\ UNCHANGED <<next_, pages, sane>>

\* DestroyPool: the large areas, the other pages, the head page.  The walk reads
\* next_ of the page it has just freed: it finds the next page, or nullptr (the
\* rest is never freed), or goes wild.
DestroyPool ==
  /\ pool_ = "live"
  /\ areas' = {} /\ large_list_' = <<>> /\ chunks' = {}
  /\ \/ /\ next_ = "null"
        /\ pages' = pages - Len(blocks)
        /\ pool_' = "none"
     \/ \E n \in 1..Len(blocks) - 2 :
          /\ pages' = pages - n - 1
          /\ pool_' = "none"
     \/ /\ next_ = "wild" \/ Len(blocks) > 1
        /\ pool_' = "fault" /\ UNCHANGED pages
  /\ blocks' = <<>> /\ next_' = "null" /\ current_' = 0
  /\ UNCHANGED sane

MemNext ==
  \/ CreatePool \/ ResetPool \/ DestroyPool
  \/ \E size \in Sizes : MallocSmall(size) \/ MallocLarge(size)
  \/ \E area \in areas : FreeLarge(area)
  \/ \E c \in chunks : FreeSmall(c)

MemSpec == MemInit /\ [][MemNext]_memVars

-----------------------------------------------------------------------------
(* Properties.  What quote_ counts, and so when a page is used again, is       *)
(* right only if quote_ of every fresh page held zero.  The code does not see  *)
(* to that: sane is an assumption on posix_memalign.                           *)

ChunksOf(i) == {c \in chunks : c.block = i}

\* If quote_ of every fresh page held zero: what malloc gave out and nobody gave
\* back (the pool's own LargeNodes, the Pool and the SmallNodes included) does
\* not overlap and ends with its page, through FreeMemory of other chunks, reuse
\* of pages, and ResetPool; whatever failed_ and next_ held.
ChunksApart ==
  sane =>
    /\ \A c, d \in chunks :
         c # d /\ c.block = d.block => c.to <= d.from \/ d.to <= c.from
    /\ \A c \in chunks :
         /\ c.block \in DOMAIN blocks
         /\ FirstByte(c.block) <= c.from /\ c.to <= PAGE_SIZE
         /\ c.from % MP_ALIGNMENT = 0

\* If quote_ of every fresh page held zero: quote_ counts the chunks of its page,
\* each large area is in exactly one LargeNode, and each LargeNode in a chunk of
\* its own, after any calls.
Accounted ==
  sane =>
    /\ \A i \in DOMAIN blocks : blocks[i].quote = Cardinality(ChunksOf(i)) % QuoteMod
    /\ \A a \in areas : Cardinality({i \in DOMAIN large_list_ : large_list_[i] = a}) = 1
    /\ \A i \in DOMAIN large_list_ : large_list_[i] \in areas \cup {NoArea}
    /\ Cardinality({c \in chunks : c.node}) = Len(large_list_)

\* What DestroyPool and the walks over next_ should come to, also if fresh pages
\* hold zeros: no wild pointer, and nothing left behind.  TLC refutes it; no run
\* lists it.
ReturnsAll == sane => pool_ # "fault" /\ (pool_ = "none" => pages = 0)
=============================================================================
