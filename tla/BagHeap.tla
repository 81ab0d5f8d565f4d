------------------------------ MODULE BagHeap ------------------------------
(***************************************************************************)
(* The memory of one MemoryManager: its global bags (one per size class,   *)
(* each on a mapping of its own), its individual bags (one per call site   *)
(* and size class, created on first use), the data pools the individual    *)
(* bags and every extension take chunks from, and the huge objects that    *)
(* are mapped and unmapped one by one.                                     *)
(*                                                                         *)
(* Malloc(b) is mallocMemory once the bag has been chosen (CsiTables says  *)
(* how), Free(b, a) is freeRegularMemory on an object of bag b.  mmap and  *)
(* munmap are external: mmap returns any range of free addresses, or       *)
(* fails, and the code never sees the failure (MAP_FAILED is not null), so *)
(* the next store through the pointer crashes.                             *)
(***************************************************************************)
EXTENDS SingleBIBOP, Functions

CONSTANTS
    GlobalBags,     \* bags of the GlobalBIBOP
    IndividualBags, \* (call site, size class) pairs
    ObjectSize,     \* bag -> bytes of an object, header included
    GlobalSize,     \* GLOBAL_SINGLE_BIBOP_SIZE
    ChunkSize,      \* INDIVIDUAL_BIBOP_SIZE
    PoolSize,       \* INDIVIDUAL_DATA_POOL_SIZE
    PoolN,          \* INDIVIDUAL_DATA_POOL_N
    PageSize,       \* PAGE_SIZE
    HugeSizes,      \* sizes requested of allocateHuge
    MapBases        \* addresses mmap may return

Bags == GlobalBags \cup IndividualBags

ASSUME BagsAssumption == GlobalBags \cap IndividualBags = {}

\* Every object is smaller than the chunks it is carved from (the largest is
\* BAG_THRESHOLD + HEADER_SIZE), and a pool holds at least one chunk.
ASSUME SizesAssumption ==
    /\ ObjectSize \in [Bags -> Nat \ {0}]
    /\ ChunkSize \in Nat /\ GlobalSize \in Nat /\ PoolSize \in Nat
    /\ ChunkSize <= PoolSize
    /\ \A b \in Bags : ObjectSize[b] < ChunkSize
    /\ \A b \in GlobalBags : ObjectSize[b] < GlobalSize
    /\ PoolN \in Nat \ {0}

ASSUME MapAssumption ==
    /\ MapBases \subseteq Nat \ {NULL}
    /\ PageSize \in Nat \ {0}
    /\ HugeSizes \subseteq Nat \ {0}

VARIABLES
    status,    \* "new" until InitMemoryManager; "run"; "exit"; "crash"
    mapped,    \* the bytes the process has mapped for objects
    pool,      \* individualDataPool[individualDatPoolBump]
    poolBump,  \* individualDatPoolBump
    bag,       \* bag -> its bibop, or NoBag
    taken,     \* bag -> objects handed out and not freed (the program's view)
    huge       \* huge objects handed out and not freed: address, header's size

vars == <<status, mapped, pool, poolBump, bag, taken, huge>>

NoBag == [bump |-> 0, base |-> 0, objectSize |-> 0, capacity |-> 0,
          freeList |-> <<>>]
NoPool == [base |-> 0, bump |-> 0, boundary |-> 0]

\* The bytes of a range.
Span(lo, size) == lo .. (lo + size - 1)

\* Results mmap may return for a length: a range clear of what is mapped.
mmap(length) == {base \in MapBases : Span(base, length) \cap mapped = {}}

-----------------------------------------------------------------------------
(* InitMemoryManager: the first data pool and the mapping of every global  *)
(* bag (the metadata pool holds no object and is left out).                *)

Init ==
    /\ status = "new"
    /\ mapped = {}
    /\ pool = NoPool /\ poolBump = 0
    /\ bag = [b \in Bags |-> NoBag]
    /\ taken = [b \in Bags |-> {}]
    /\ huge = {}

\* Where mmap may put the initial mappings: pairwise apart.
Placed(poolBase, place) ==
    /\ \A b \in GlobalBags :
          Span(place[b], GlobalSize) \cap Span(poolBase, PoolSize) = {}
    /\ \A b, c \in GlobalBags :
          b # c => Span(place[b], GlobalSize) \cap Span(place[c], GlobalSize) = {}

InitMemoryManager(poolBase, place) ==
    /\ status = "new"
    /\ Placed(poolBase, place)
    /\ status' = "run"
    /\ mapped' = Span(poolBase, PoolSize)
                    \cup UNION {Span(place[b], GlobalSize) : b \in GlobalBags}
    /\ pool' = AllocateMemoryPool(poolBase, PoolSize)
    /\ bag' = [b \in Bags |->
                 IF b \in GlobalBags
                 THEN InitBIBOP(place[b], ObjectSize[b], GlobalSize)
                 ELSE NoBag]
    /\ UNCHANGED <<poolBump, taken, huge>>

-----------------------------------------------------------------------------
(* acquireIndividualDataPool: a chunk from the current pool, or from a new *)
(* one; exit(1) when the table of pools is full; a crash when mmap fails.  *)

PoolHasChunk == allocateMemory(pool, ChunkSize).ptr # NULL

ChunkFromPool ==
    /\ PoolHasChunk
    /\ pool' = allocateMemory(pool, ChunkSize).pool
    /\ UNCHANGED <<mapped, poolBump>>

\* Here the chunk is the first of the pool, at its base.
ChunkFromNewPool(base) ==
    /\ ~PoolHasChunk
    /\ poolBump + 1 < PoolN
    /\ base \in mmap(PoolSize)
    /\ pool' = allocateMemory(AllocateMemoryPool(base, PoolSize), ChunkSize).pool
    /\ mapped' = mapped \cup Span(base, PoolSize)
    /\ poolBump' = poolBump + 1

PoolsExhausted ==
    /\ ~PoolHasChunk /\ poolBump + 1 >= PoolN
    /\ status' = "exit" /\ poolBump' = poolBump + 1

\* A plausible slip: the error is passed on, and the next try moves on again.
PoolMapFailsQuietly ==
    /\ ~PoolHasChunk /\ poolBump < PoolN
    /\ UNCHANGED status /\ poolBump' = poolBump + 1

PoolMapFails ==
    /\ ~PoolHasChunk /\ poolBump + 1 < PoolN
    /\ status' = "crash" /\ poolBump' = poolBump + 1

-----------------------------------------------------------------------------
(* mallocMemory with the bag b chosen.                                     *)

\* The bag serves the request itself.
MallocInBag(b) ==
    /\ status = "run" /\ bag[b] # NoBag
    /\ LET r == allocateObject(bag[b])
       IN /\ r.ptr # NULL
          /\ bag' = [bag EXCEPT ![b] = r.bibop]
          /\ taken' = [taken EXCEPT ![b] = @ \cup {r.ptr}]
    /\ UNCHANGED <<status, mapped, pool, poolBump, huge>>

NeedsChunk(b) ==
    /\ status = "run"
    /\ IF bag[b] = NoBag THEN b \in IndividualBags
                         ELSE allocateObject(bag[b]).ptr = NULL

\* The bag over its new chunk: created (AllocateIndividualBIBOP) or extended.
OnChunk(b, chunk) ==
    IF bag[b] = NoBag
    THEN InitBIBOP(chunk, ObjectSize[b], ChunkSize)
    ELSE ExtendSingleBIBOP(allocateObject(bag[b]).bibop, chunk, ChunkSize)

\* The allocation of the first object of that chunk.
FirstOfChunk(b, chunk) ==
    LET r == allocateObject(OnChunk(b, chunk))
    IN /\ bag' = [bag EXCEPT ![b] = r.bibop]
       /\ taken' = [taken EXCEPT ![b] = @ \cup {r.ptr}]

MallocOnPool(b) ==
    /\ NeedsChunk(b)
    /\ ChunkFromPool
    /\ FirstOfChunk(b, allocateMemory(pool, ChunkSize).ptr)
    /\ UNCHANGED <<status, huge>>

MallocOnNewPool(b, base) ==
    /\ NeedsChunk(b)
    /\ ChunkFromNewPool(base)
    /\ FirstOfChunk(b, base)
    /\ UNCHANGED <<status, huge>>

MallocFails(b) ==
    /\ NeedsChunk(b)
    /\ PoolsExhausted \/ PoolMapFails
    /\ UNCHANGED <<mapped, pool, bag, taken, huge>>

\* A plausible slip: the object is returned to the bag of another call site.
FreeToWrongBag(b, a) ==
    /\ status = "run" /\ a \in taken[b]
    /\ \E c \in Bags : /\ bag[c] # NoBag
                       /\ bag' = [bag EXCEPT ![c] = freeObject(@, a)]
    /\ taken' = [taken EXCEPT ![b] = @ \ {a}]
    /\ UNCHANGED <<status, mapped, pool, poolBump, huge>>

\* freeRegularMemory; global bags take this path too (the test is on T, not B).
Free(b, a) ==
    /\ status = "run" /\ a \in taken[b]
    /\ bag' = [bag EXCEPT ![b] = freeObject(@, a)]
    /\ taken' = [taken EXCEPT ![b] = @ \ {a}]
    /\ UNCHANGED <<status, mapped, pool, poolBump, huge>>

-----------------------------------------------------------------------------
(* Huge objects: a header page and the size rounded up to pages.           *)

RoundUp(size) == ((size + PageSize - 1) \div PageSize) * PageSize

allocateHuge(size, addr) ==
    /\ status = "run"
    /\ addr \in mmap(RoundUp(size) + PageSize)
    /\ mapped' = mapped \cup Span(addr, RoundUp(size) + PageSize)
    /\ huge' = huge \cup {[data |-> addr + PageSize, size |-> RoundUp(size)]}
    /\ UNCHANGED <<status, pool, poolBump, bag, taken>>

\* mmap failed: the store of the size into the header crashes.
allocateHugeFails ==
    /\ status = "run" /\ status' = "crash"
    /\ UNCHANGED <<mapped, pool, poolBump, bag, taken, huge>>

\* A plausible slip: the length counts the header page twice.
freeHugeMemoryTooLong(h) ==
    /\ status = "run" /\ h \in huge
    /\ mapped' = mapped \ Span(h.data - PageSize, h.size + 2 * PageSize)
    /\ huge' = huge \ {h}
    /\ UNCHANGED <<status, pool, poolBump, bag, taken>>

\* munmap(ptr - PAGE_SIZE, header->size + PAGE_SIZE).
freeHugeMemory(h) ==
    /\ status = "run" /\ h \in huge
    /\ mapped' = mapped \ Span(h.data - PageSize, h.size + PageSize)
    /\ huge' = huge \ {h}
    /\ UNCHANGED <<status, pool, poolBump, bag, taken>>

-----------------------------------------------------------------------------
\* The process is gone.
Ended == status \in {"exit", "crash"} /\ UNCHANGED vars

Next ==
    \/ \E poolBase \in MapBases, place \in [GlobalBags -> MapBases] :
          InitMemoryManager(poolBase, place)
    \/ \E b \in Bags : MallocInBag(b)
    \/ \E b \in Bags : MallocOnPool(b)
    \/ \E b \in Bags, base \in MapBases : MallocOnNewPool(b, base)
    \/ \E b \in Bags : MallocFails(b)
    \/ \E b \in Bags : \E a \in taken[b] : Free(b, a)
    \/ \E size \in HugeSizes, addr \in MapBases : allocateHuge(size, addr)
    \/ allocateHugeFails
    \/ \E h \in huge : freeHugeMemory(h)
    \/ Ended

Spec == Init /\ [][Next]_vars

-----------------------------------------------------------------------------
(* Properties.                                                             *)

HugeObject == [data : Nat, size : Nat]

\* Every variable keeps its shape, and the table of pools is never indexed past
\* its end while the process runs (acquireIndividualDataPool's exit(1)).
TypeOK ==
    /\ status \in {"new", "run", "exit", "crash"}
    /\ mapped \in SUBSET Nat
    /\ pool \in Pool
    /\ poolBump \in 0 .. PoolN
    /\ bag \in [Bags -> Bibop]
    /\ taken \in [Bags -> SUBSET Nat]
    /\ huge \in SUBSET HugeObject
    /\ status = "run" => poolBump < PoolN

FreeObjects(b) == Range(bag[b].freeList)

\* All the bag ever carved: its live objects and those on its free list.
Carved(b) == taken[b] \cup FreeObjects(b)

Bytes(b, a) == Span(a, ObjectSize[b])
HugeBytes(h) == Span(h.data - PageSize, h.size + PageSize)

\* Two objects the allocator has carved, live or waiting on a free list, of
\* one bag or of two, never share a byte; neither does a huge object share one
\* with them or with another huge object.
ObjectsDisjoint ==
    /\ \A b, c \in Bags : \A p \in Carved(b), q \in Carved(c) :
          (b # c \/ p # q) => Bytes(b, p) \cap Bytes(c, q) = {}
    /\ \A h \in huge : \A b \in Bags : \A p \in Carved(b) :
          HugeBytes(h) \cap Bytes(b, p) = {}
    /\ \A h, k \in huge : h # k => HugeBytes(h) \cap HugeBytes(k) = {}

\* Every byte of every carved object and of every live huge object is mapped:
\* no unmapping of a huge object takes memory away from another object.
ObjectsMapped ==
    /\ \A b \in Bags : \A p \in Carved(b) : Bytes(b, p) \subseteq mapped
    /\ \A h \in huge : HugeBytes(h) \subseteq mapped

\* A free list holds each object once and none that is still handed out, so
\* no later malloc returns an object twice.
FreeListSound ==
    \A b \in Bags :
        /\ FreeObjects(b) \cap taken[b] = {}
        /\ IsInjective(bag[b].freeList)

\* Memory carved for one call site and size class stays with that bag for
\* ever: with ObjectsDisjoint, a stale pointer of one bag can never alias an
\* object of another bag.
TypeStable == [][\A b \in Bags : Carved(b) \subseteq Carved(b)']_vars

=============================================================================
