----------------------------- MODULE ObjectApi -----------------------------
(***************************************************************************)
(* The malloc interface of one thread (semalloc.cc) over the headers it    *)
(* keeps in front of every object (HelperObjects.hh).  A block is a slot   *)
(* of a bag or a huge mapping; a pointer is a block and a shift: 0 for the *)
(* start of its data, Offset[block] for the aligned address css_memalign   *)
(* returns when the data is not aligned, with a second header inside the   *)
(* data.  The program is single threaded; it frees what it holds, and it   *)
(* may free a pointer a second time.                                       *)
(*                                                                         *)
(* A call passes the word of SizeWords, which its function takes apart.    *)
(*                                                                         *)
(* Left to other modules: whether a site has a bag of its own yet          *)
(* (CsiTables; here either may serve, and any of the free slots), where    *)
(* blocks lie and running out of memory (BagHeap), other threads           *)
(* (RemoteFree).                                                           *)
(***************************************************************************)
EXTENDS SizeWords, FiniteSets, FiniteSetsExt

CONSTANTS
    Slots,       \* slots of all bags: the bound on regular objects
    HugeBlocks,  \* the bound on huge objects that are mapped at once
    BagOf,       \* slot -> its bag
    BagSize,     \* bag -> bytes of data of its objects
    GlobalBags,  \* the bags of the global BIBOP
    SiteOf,      \* individual bag -> the call-site id it belongs to
    HeaderSize,  \* HEADER_SIZE
    PageSize,    \* PAGE_SIZE
    Alignment,   \* the alignment the program asks css_memalign for
    Offset,      \* block -> distance from its data to an aligned address
    Requests     \* the calls it makes: caller, size, nmemb (for calloc), and the
                 \* track variable, recursion hash and loop layer at the call

Bags == DOMAIN BagSize
Blocks == Slots \cup HugeBlocks

ASSUME ApiAssumption ==
    /\ Slots \cap HugeBlocks = {}
    /\ BagOf \in [Slots -> Bags] /\ GlobalBags \subseteq Bags
    /\ \A b \in Bags : BagSize[b] \in Nat \ {0}
    /\ \E last_class \in Bags : \A b \in Bags : BagSize[b] <= BagSize[last_class]
    /\ DOMAIN SiteOf = Bags \ GlobalBags
    /\ \A c \in Requests : /\ c.caller \in {"instrumented", "plain"} /\ c.size \in 0 .. HUGE_BIT - 1
                           /\ {c.nmemb, c.track, c.layer} \subseteq Nat /\ c.hash \in 0 .. RhMod - 1
    /\ PageSize \in Nat \ {0} /\ HeaderSize \in Nat \ {0}
    /\ Alignment \in Nat \ {0}

\* Data is aligned to the size of the header, so a shift leaves room for one.
ASSUME OffsetAssumption ==
    \A b \in Blocks : /\ Offset[b] \in 0 .. Alignment - 1
                      /\ Offset[b] # 0 => Offset[b] >= HeaderSize

VARIABLES
    heap,  \* the allocator: see Heap
    held,  \* what the program holds: see Handed; inPlace tells that realloc kept
           \* it at a shifted address
    stale, \* history: pointers it freed whose block was not handed out since
    last   \* history: what the last call that released memory or failed was given

vars == <<heap, held, stale, last>>

\* The bits of a header: A allocated, B global, and T, the byte css_free tests
\* for a huge object, which overlaps no field of a regular header.
Header == [A : BOOLEAN, B : BOOLEAN, T : BOOLEAN]
Zero == [A |-> FALSE, B |-> FALSE, T |-> FALSE]

Heap == [status : {"run", "exit", "crash"},
         header : [Blocks -> Header], \* the header in front of the data
         inner  : [Blocks -> Header], \* the bytes in front of the aligned address
         carved : SUBSET Slots,       \* slots that were ever handed out
         free   : SUBSET Slots,       \* slots on the free list of their bag
         mapped : [HugeBlocks -> Nat]] \* bytes of a huge block; 0: not mapped

Init ==
    /\ heap = [status |-> "run",
               header |-> [b \in Blocks |-> Zero],
               inner |-> [b \in Blocks |-> Zero],
               carved |-> {}, free |-> {},
               mapped |-> [h \in HugeBlocks |-> 0]]
    /\ held = {} /\ stale = {} /\ last = "none"

Pointer(x) == [block |-> x.block, shift |-> x.shift]
HeaderAt(p) == IF p.shift = 0 THEN heap.header[p.block] ELSE heap.inner[p.block]

-----------------------------------------------------------------------------
(* mallocMemory and allocateHuge.                                          *)

\* BAG_THRESHOLD is the size of the last class: at that size a request is huge.
Threshold == Max({BagSize[b] : b \in Bags})
IsHugeRequest(n) == n >= Threshold

\* computeSizeIndex: the smallest class that holds n bytes.
ClassSize(n) == Min({BagSize[b] : b \in {c \in Bags : BagSize[c] >= n}})

\* allocateObject: the free list first, then slots that were never used.
Candidates(bag) ==
    LET recycled == {s \in heap.free : BagOf[s] = bag}
    IN IF recycled # {} THEN recycled
       ELSE {s \in Slots \ heap.carved : BagOf[s] = bag}

\* The bag of the size class, global or the site's own; that one only with the
\* loop flag, and once the site is no longer lazy.
Serves(bag, r) ==
    BagSize[bag] = ClassSize(r.bytes) /\ (bag \in GlobalBags \/ (r.loop /\ SiteOf[bag] = r.CSI))

\* The blocks mallocMemory may return for the request r; none for zero bytes, it
\* returns null.
BlocksFor(r) ==
    IF r.huge \/ (r.bytes # 0 /\ IsHugeRequest(r.bytes)) THEN {h \in HugeBlocks : heap.mapped[h] = 0}
    ELSE IF r.bytes = 0 THEN {}
    ELSE UNION {Candidates(b) : b \in {c \in Bags : Serves(c, r)}}

RoundUp(n) == ((n + PageSize - 1) \div PageSize) * PageSize

\* A plausible slip: setAllocation is forgotten.
StampForgotten(h, bag) == [h EXCEPT !.B = bag \in GlobalBags /\ ~@]

\* setRegular, setGlobal or setIndividual, setAllocation: A and B are flipped,
\* not set, and the byte T is not written.
Stamp(h, bag) ==
    [h EXCEPT !.A = ~@, !.B = bag \in GlobalBags /\ ~@]

\* The heap once block b serves n bytes.  A new mapping is all zero.
Given(b, n) ==
    IF b \in Slots
    THEN [heap EXCEPT !.header[b] = Stamp(@, BagOf[b]),
                      !.carved = @ \cup {b}, !.free = @ \ {b}]
    ELSE [heap EXCEPT !.header[b] = [Zero EXCEPT !.T = TRUE],
                      !.inner[b] = Zero,
                      !.mapped[b] = RoundUp(n)]

\* While the program holds a block it may write any byte of it; the one that
\* a later css_memalign of the block leaves alone is the byte T.
ProgramWrites(hp, b) ==
    {[hp EXCEPT !.inner[b].T = t] : t \in IF Offset[b] = 0 THEN {FALSE} ELSE BOOLEAN}

-----------------------------------------------------------------------------
(* freeRegularMemory, freeHugeMemory and the end of css_free and           *)
(* css_realloc: the heap hp once pointer p is freed.                       *)

\* A plausible slip: the allocated bit is left set.
setFreeForgotten(hp, p) == hp

\* header->setFree(), on the header the pointer has in front of it.
setFree(hp, p) == IF p.shift = 0 THEN [hp EXCEPT !.header[p.block].A = FALSE]
                                 ELSE [hp EXCEPT !.inner[p.block].A = FALSE]

\* munmap of a shifted pointer has an address or a length the kernel refuses,
\* and the result is not looked at.
freeHugeMemory(hp, p) ==
    IF p.shift = 0 THEN [hp EXCEPT !.mapped[p.block] = 0] ELSE hp

\* The bag pointer of a shifted huge block is the block's size: a wild store.
Released(hp, p) ==
    IF p.block \in HugeBlocks /\ hp.mapped[p.block] = 0
    THEN [hp EXCEPT !.status = "crash"]
    ELSE IF HeaderAt(p).T THEN freeHugeMemory(hp, p)
    ELSE IF ~HeaderAt(p).A THEN [hp EXCEPT !.status = "exit"]
    ELSE IF p.block \in HugeBlocks THEN [hp EXCEPT !.status = "crash"]
    ELSE setFree([hp EXCEPT !.free = @ \cup {p.block}], p)

\* What the program did when it freed p.
Deed(p) == IF p.shift # 0 THEN "shifted"
           ELSE IF p \in stale THEN "double" ELSE "good"

Forget(b) == {p \in stale : p.block # b}

-----------------------------------------------------------------------------
(* The interface.                                                          *)

\* The calls the word's fields are wide enough for: a size that fits its field, a
\* product that does not wrap around, and any size of an instrumented malloc,
\* which the huge flag sets apart.
Covered(c, interface) ==
    \/ c.size <= MAX_SIZE /\ (interface = "calloc" => c.nmemb * c.size < WordMod)
    \/ c.caller = "instrumented" /\ interface = "malloc"

\* Two numbers that are no call-site ids: of a call that was not instrumented, and of
\* one whose size spills over the field of the id.
NoSite == CsiMod * RhMod
AnySite == NoSite + 1

\* Where the call is: instrumented ones with a size in the field have an id.
SiteId(c) == IF c.caller = "instrumented" THEN c.hash * CsiMod + (c.track % CsiMod) ELSE NoSite

\* What the program can count on when it asks for n bytes.
Promised(n, c, interface) == IF Covered(c, interface) THEN n ELSE 0

Individual(b) == b \in Slots /\ BagOf[b] \notin GlobalBags

\* What a call gets; for an object in an individual bag, site and layer are the ones
\* of the call that made it.
Handed(b, shift, n, c, interface) ==
    [block |-> b, shift |-> shift, size |-> Promised(n, c, interface), inPlace |-> FALSE,
     site |-> IF Individual(b) /\ c.size <= MAX_SIZE THEN SiteId(c) ELSE AnySite,
     layer |-> IF Individual(b) THEN c.layer ELSE 0]

\* Block b serves request r of call c, which asked for n bytes.
Allocate(r, b, n, c, interface) ==
    /\ heap.status = "run" /\ b \in BlocksFor(r)
    /\ heap' \in ProgramWrites(Given(b, r.bytes), b)
    /\ held' = held \cup {Handed(b, 0, n, c, interface)}
    /\ stale' = Forget(b)
    /\ UNCHANGED last

\* malloc, and realloc of the null pointer.
css_malloc(c, b) == Allocate(MallocRequest(WordOf(c)), b, c.size, c, "malloc")

css_calloc(c, b) ==
    Allocate(CallocRequest(c.nmemb, WordOf(c)), b, c.nmemb * c.size, c, "calloc")

AlignedSize(n) == ((n + HeaderSize) \div Alignment) * Alignment + 2 * Alignment

\* The header in front of the aligned address: the control byte is a copy in
\* which setAllocation flips A, T is what was there.
Moved(hp, b) ==
    LET old == hp.header[b]
    IN [hp EXCEPT !.inner[b].A = ~old.A, !.inner[b].B = old.B,
                  !.header[b].A = FALSE]

\* memalign, posix_memalign, aligned_alloc, for a power of two; no look at the huge
\* flag.
css_memalign(c, b) ==
    LET r == Regular(AlignedSize(GET_REAL_SIZE(WordOf(c))), WordOf(c))
    IN  /\ heap.status = "run" /\ b \in BlocksFor(r)
        /\ heap' \in IF Offset[b] = 0 THEN ProgramWrites(Given(b, r.bytes), b)
                     ELSE {Moved(Given(b, r.bytes), b)}
        /\ held' = held \cup {Handed(b, Offset[b], c.size, c, "memalign")}
        /\ stale' = Forget(b)
        /\ UNCHANGED last

\* Any other alignment: "Invalid alignment", exit(-1).
css_memalignRefuses ==
    /\ heap.status = "run"
    /\ heap' = [heap EXCEPT !.status = "exit"]
    /\ last' = "alignment"
    /\ UNCHANGED <<held, stale>>

\* Free, by a program that holds the pointer or did so before.
css_free(p) ==
    /\ heap.status = "run"
    /\ heap' = Released(heap, p)
    /\ held' = {x \in held : Pointer(x) # p}
    /\ stale' = stale \cup {p}
    /\ last' = Deed(p)

\* A plausible slip: the size of a regular object counts its header.
css_malloc_usable_sizeWithHeader(p) ==
    IF p.block \in Slots THEN BagSize[BagOf[p.block]] + HeaderSize
                         ELSE heap.mapped[p.block]

\* The size of the whole block, whatever the shift.
css_malloc_usable_size(p) ==
    IF p.block \in Slots THEN BagSize[BagOf[p.block]] ELSE heap.mapped[p.block]

\* A shifted pointer with a stale T byte reports its bag pointer as its size;
\* without it, a shifted huge block has no bag to ask.
FitsInPlace(p, n) ==
    (p.shift # 0 /\ HeaderAt(p).T) \/ n <= css_malloc_usable_size(p)

AsksBag(p) == p.shift = 0 \/ p.block \in Slots \/ HeaderAt(p).T

\* What the program holds after a realloc in place.
Kept(x, c) ==
    (held \ {x}) \cup {[x EXCEPT !.size = Promised(c.size, c, "realloc"), !.inPlace = x.shift # 0]}

\* realloc looks at the size field only: a flag that makes the word of size 0 no
\* zero keeps the object, and so does a huge size whose low bits fit.
StaysInPlace(x, c) == WordOf(c) # 0 /\ AsksBag(x) /\ FitsInPlace(Pointer(x), GET_REAL_SIZE(WordOf(c)))

\* A plausible slip: the old object is freed in every case.
reallocInPlaceFrees(x, c) ==
    /\ heap.status = "run" /\ StaysInPlace(x, c)
    /\ held' = Kept(x, c)
    /\ heap' = Released(heap, Pointer(x))
    /\ UNCHANGED <<stale, last>>

\* realloc, first case: the block is large enough.
reallocInPlace(x, c) ==
    /\ heap.status = "run" /\ StaysInPlace(x, c)
    /\ held' = Kept(x, c)
    /\ UNCHANGED <<heap, stale, last>>

\* Second case: allocate, copy, free the old object.
reallocMoves(x, c, b) ==
    LET r == MallocRequest(WordOf(c))
    IN  /\ heap.status = "run" /\ b \in BlocksFor(r)
        /\ AsksBag(x) /\ ~FitsInPlace(Pointer(x), GET_REAL_SIZE(WordOf(c)))
        /\ \E hp \in ProgramWrites(Given(b, r.bytes), b) : heap' = Released(hp, Pointer(x))
        /\ held' = (held \ {x}) \cup {Handed(b, 0, c.size, c, "malloc")}
        /\ stale' = Forget(b) \cup {Pointer(x)}
        /\ last' = Deed(Pointer(x))

\* usable_size reads the size of a shifted huge block through a wild pointer.
reallocCrashes(x, c) ==
    /\ heap.status = "run" /\ WordOf(c) # 0 /\ ~AsksBag(x)
    /\ heap' = [heap EXCEPT !.status = "crash"]
    /\ UNCHANGED <<held, stale, last>>

css_realloc(x, c) ==
    \/ WordOf(c) = 0 /\ css_free(Pointer(x))
    \/ reallocInPlace(x, c)
    \/ \E b \in Blocks : reallocMoves(x, c, b)
    \/ reallocCrashes(x, c)

Ended == heap.status # "run" /\ UNCHANGED vars

Next ==
    \/ \E c \in Requests, b \in Blocks : css_malloc(c, b) \/ css_calloc(c, b) \/ css_memalign(c, b)
    \/ css_memalignRefuses
    \/ \E p \in {Pointer(x) : x \in held} \cup stale : css_free(p)
    \/ \E x \in held, c \in Requests : css_realloc(x, c)
    \/ Ended

Spec == Init /\ [][Next]_vars

-----------------------------------------------------------------------------
(* Properties.                                                             *)

\* Every variable keeps its shape; only slots that were handed out are free.
TypeOK ==
    /\ heap \in Heap /\ heap.free \subseteq heap.carved
    /\ \A x \in held : /\ x.block \in Blocks /\ x.size \in Nat
                       /\ x.shift \in {0, Offset[x.block]} /\ x.inPlace \in BOOLEAN
    /\ \A p \in stale : p.block \in Blocks /\ p.shift \in {0, Offset[p.block]}
    /\ last \in {"none", "good", "double", "shifted", "alignment"}

\* While the process runs, the header in front of an unshifted object says what
\* the object is: allocated exactly while the program holds it, and huge
\* exactly when it is a mapping of its own, however often bits were flipped.
HeadersTell ==
    heap.status = "run" =>
        /\ \A s \in heap.free : ~heap.header[s].A
        /\ \A x \in held : x.shift = 0 =>
              /\ heap.header[x.block].T <=> x.block \in HugeBlocks
              /\ x.block \in Slots => heap.header[x.block].A

\* The process exits with an error only for a bad alignment, a second free, or
\* the free of a pointer that css_memalign shifted: the first free of any other
\* pointer is never taken for a double free.
ReportJustified ==
    heap.status = "exit" => last \in {"double", "shifted", "alignment"}

\* A program that frees an unshifted pointer a second time, before its block is
\* handed out again, does not get past that call.
DoubleFreeStops == last = "double" => heap.status # "run"

\* The bytes a block really has.
BytesOf(b) == IF b \in Slots THEN BagSize[BagOf[b]] ELSE heap.mapped[b]

\* From end to end: an object is at least as long as the program asked, over any
\* sequence of calls and reallocs, whatever the fields around its size hold and
\* whichever function it enters by, and shifts leave room: the masks of
\* UpdateHMFInterface and of the css_ functions agree.  Left out: calls the fields
\* are too narrow for, and a shifted object that realloc kept in place, whose
\* usable size counts the bytes before it.
HeldFits ==
    \A x \in held : (x.shift = 0 \/ ~x.inPlace) => x.shift + x.size <= BytesOf(x.block)

\* From end to end: an object lies in the bag of a call site only if the call that
\* made it was there, by its recursion hash and the low bits of its track variable;
\* calls that were not instrumented share the global bags.  Objects of sites whose
\* ids differ never mix, the point of the allocator.
SiteKept ==
    \A x \in held : Individual(x.block) =>
        x.site \in {SiteOf[BagOf[x.block]], AnySite}

\* A block is held through one pointer, and not while it is on a free list.
OneOwner ==
    \A x \in held : /\ x.block \notin heap.free
                    /\ \A y \in held : x.block = y.block => x = y

\* MemoryManager.cc: "not in loop, we don't need to allocate the identifier, just go
\* ahead and allocate": an object made outside every loop lies in a global bag.
OutsideLoopsGlobal ==
    \A x \in held : Individual(x.block) => x.layer # 0

\* HelperObjects.hh: "A: 0 not allocated; 1 allocated", of every object held.
AllocatedBit ==
    \A x \in held : x.block \in Slots => HeaderAt(x).A

=============================================================================
