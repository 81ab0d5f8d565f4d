# A verification project for SEMalloc

SEMalloc is a heap allocator that isolates objects by the *call path* of their
allocation. It has two halves:

* the **frontend** (`src/frontend`), an LLVM link-time pass, numbers the call
  paths that reach an allocation and rewrites the program so that each
  allocation passes its path's number in the upper bits of the size argument;
* the **backend** (`src/backend`), a malloc library, reads that number and
  serves every path and size class from a *bag* of pages of its own, which is
  never given back or reused for another path.

This directory holds TLA+ models of both, TLC runs that check them on small
instances, and TLAPS proofs for the parts whose correctness matters most.

## 1. Inventory

### Backend

| Part | State | Operations | Correct when |
|---|---|---|---|
| bump pools `MemoryPool` | `bump`, `boundary` | `AllocateMemoryPool`, `allocateMemory` | areas given out are apart |
| bags `SingleBIBOP`, `IndividualBIBOP`, `GlobalBIBOP` | base, bump, capacity, free list | `InitBIBOP`, `allocateObject`, `freeObject`, `ExtendSingleBIBOP` | every object is handed out once at a time and inside the bag |
| manager: objects, chunks, huge objects (`MemoryManager`) | pool, table of pools, bags, huge mappings | `InitMemoryManager`, `mallocMemory`, `freeRegularMemory`, `acquireIndividualDataPool`, `allocateHuge`, `freeHugeMemory` | objects never overlap, stay mapped, never change bag |
| manager: choice of the bag | `lazyIdentifiers`, `individualBIBOP`, both open-addressing tables | `tryPutToLazyPool`, `getIndividualBIBOPbyCSI` | a path keeps its own bag, through collisions |
| manager: remote frees | lock-free list `FreeList` | `freeOtherThreadMemory` (any thread), `handleFreeList` (owner) | nothing lost, repeated or falsely reported; everything comes back |
| malloc interface (`semalloc.cc`, `HelperObjects.hh`) | header bits of every object | `css_malloc`, `css_free`, `css_realloc`, `css_calloc`, `css_memalign`, `css_malloc_usable_size` | headers tell what an object is; errors are reported when due and only then |
| threads (`threads.h`) | `thread_bump`, `globalMemoryManager`, thread-local `thread_id` | `init_thread` | a manager's unsynchronised code is run by one thread |
| wrappers (`wrapper.cc`) | none | forward to `css_*` | - |

The parts interact by direct calls inside one thread. Threads share the table
of managers, the counters, and each manager's `FreeList`; everything else in a
manager is meant to be touched by its own thread only. What is hard here: the
lock-free list, threads that start at the same time, tables and pools at their
limits, header bits that are flipped rather than set, and long sequences of
legal calls.

### Interface between the halves

The size word: `HUGE | LOOP | recursion hash | track variable | size`. The code
inserted by `UpdateHMFInterface` packs it, `mallocMemory` and its relatives
unpack it.

### Frontend

| Part | State | Operations | Correct when |
|---|---|---|---|
| call graph (`CallGraph`, `ConstructCG`, `CallPath`) | one `CallPath` per call and callee | `ConstructCG::run` | every call that may reach an allocation is there |
| passes around the type analysis (`PreMLTA`, `PostMLTA`, `ReduceLibraryIndirectCall`, `Analyzer`) | the IR | lower and restore invokes, find calls through global pointers, copy landing pads | the IR is equivalent afterwards, every invoke has its own landing pad |
| type analysis (`MLTA`, `Common`) | per field of a type: functions confined to it, fields copied into it; escaped fields, capped types; a cache of lookups | `typeConfineInInitializer`, `typeConfineInFunction`, `typePropInFunction`, `findCalleesWithMLTA` | every function that a pointer can have when it is called is found, and a lookup ends |
| relevant functions and loops (`InstrumentIR`, steps 1 to 3) | mark sets, loop sets, the two call maps | `MarkOnlyRelevantFunctions`, `instrIsInaLoop`, `MarkLoopRelevantFunctions` | the graph left is acyclic and keeps every path to an allocation |
| path ids (`InstrumentIR`, steps 4 to 6) | weights, sort counts | `ConstructFinalCFG`, `ComputeEdgeWeight`, instrumenting | different paths, different ids |
| code at calls and recursion (`InstrumentIR`, `RecursiveHelper`) | run-time track variable, loop counter, recursion stack | the code around calls and invokes | the counters follow the calls in progress |

The frontend is sequential. What is hard here: its graph algorithms depend on
iteration orders and on visited sets shared between traversals; whether the ids
are distinct is a property of all paths of a graph at once; and whether the type
analysis is sound is a property of it and of every run of the analysed program.

## 2. Modules

| Module | Models | Remarks |
|---|---|---|
| `MemoryPool`, `SingleBIBOP` | the two data structures, as operators on records | used by `BagHeap` |
| `BagHeap` | one manager's heap over an address space | composes the two above; bags are chosen by a parameter |
| `CsiTables` | which bag a call site gets | the other half of `mallocMemory` |
| `PendingFrees` | abstract: an object is live, pending or in its bag | specification of remote frees |
| `RemoteFree` | `freeOtherThreadMemory` and `handleFreeList`, one action per atomic access | implements `PendingFrees` |
| `SizeWords` | packing and unpacking of the size word, as operators | spans both halves |
| `ObjectApi` | the malloc interface over header bits, called with these words | extends `SizeWords`; one thread |
| `ThreadManagers` | which manager each call of each thread works in | |
| `TypeAnalysis` | `MLTA` and the `CallGraph` pass that drives it | the program is a graph of values |
| `ProgramRuns` | the memory of the analysed program while it runs | extends `TypeAnalysis`; what the analysis is held against |
| `CallPaths` | how the list of calls is made: `Analyzer`, `PreMLTA`, `CallGraph`, `ConstructCG`, `ReduceLibraryIndirectCall`, `PostMLTA`, then the program's run | extends `ProgramRuns`; its result is the input of `RelevantFunctions`; its landing pads are assumed by `RuntimeTracking` |
| `RelevantFunctions` | which functions and calls the pass instruments (steps 1 to 3) | its result is the input of `EdgeWeights` |
| `EdgeWeights` | final call graph, sort, weights, instrumentation (steps 4 to 6) | |
| `RuntimeTracking` | what the inserted code does while the program runs, with exceptions | |
| `BagHeapProofs`, `RemoteFreeProofs`, `ObjectApiProofs`, `CallPathsProofs`, `RelevantFunctionsProofs`, `EdgeWeightsProofs`, `RuntimeTrackingProofs` | theorems and proofs about the module they are named after | each with the lemmas on data it needs, see section 4 |
| `ManagerProofs` | the same about `CsiTables` and `ThreadManagers`, the two parts of a memory manager that share no variable | |
| `MC*` | instances for TLC | |

How state and actions correspond to the code, per module:

**BagHeap.** `mapped` is the set of mapped addresses, `pool` and `poolBump` are
`individualDataPool` and its index, `bag[b]` a `SingleBIBOP`, `taken[b]` the
objects the program holds, `huge` the huge objects. `mmap` is external: any area
that is not mapped, among the bases `MapBases`. A malloc is one action per path
through the code: the bag serves it (`MallocInBag`), the bag is created or
extended from the current pool (`MallocOnPool`) or from a new pool
(`MallocOnNewPool`), or the table of pools is full or mmap fails
(`MallocFails`). The bump pointer of a bag moves before the capacity test and is
not moved back, as in `allocateObject`. A global bag that is used up continues
in a chunk of the pool, as in the code.

**CsiTables.** `lazyIdentifiers` and `individualBIBOP` are the two tables with
their linear probing; id 0 marks an empty lazy slot, as in the code. One action
per outcome of the lookup.

**RemoteFree.** The program counters are between the loads, stores and
compare-and-swaps on `FreeList` and the link field. The exchange is the weak
one: it may fail for no reason. `pending` is a history variable, the sequence of
pushed and not yet popped objects. The link field shares its memory with the
program's data, so `Junk` is there at first.

**ObjectApi.** A header is the three bits A (allocated), B (global) and T
(huge) and the shift that `css_memalign` writes in front of a shifted pointer;
`setAllocation` and `setGlobal` flip, `setFree` clears. `ProgramWrites` is the
program: it may leave anything in the bytes that a later `css_memalign` turns
into a header. A call is a record of what its caller knows (size, number of
elements, track variable, recursion hash, loop layer, and whether the caller was
instrumented); `WordOf` is what the inserted code makes of it, `MallocRequest`,
`CallocRequest` and `Regular` what the `css_` functions read back. What the
program may count on (`Promised`, `SiteId`) is kept beside each object, so that
`HeldFits` and `SiteKept` speak of both ends at once. A bag of its own serves a
site only with the loop flag; whether it does already is `CsiTables`' matter, and
here either way is possible.

**ThreadManagers.** `init_thread` step by step; a call has an entry into a
manager and a return, and what it does in between is not atomic.

**TypeAnalysis.** A value has an opcode, a type and operands; a function, a
global, a constant, an instruction and an argument are all values, as in LLVM
with typed pointers. `work` is the work list of `typeConfineInInitializer`, one
round per action (`ConfineUser`), global by global (`NextGlobal`).
`AnalyseFunctions` is the rest of `doInitialization`: its loops only add to sets,
so their order does not matter and they are one action. `look` is the locals of
`findCalleesWithMLTA`: one action per round of its outer loop, with FS1, FS2 and
the cache as the code leaves them, since they carry over from layer to layer and
from call to call. `getBaseType`, `nextLayerBaseType`, `getGEPLayerTypes` and
`getBaseTypeChain` are recursive functions on the graph, with the set `Visited`
as an argument. The data layout is in cells: an element that is no composite
takes one.

**ProgramRuns.** Memory is cells; every store or memcpy of the program may be the
next, any number of times: the analysis does not look at control flow, so it has
to be right for all of it. An index that is not constant may be any, a PHI node
any of its operands. `CalledAt` is what a pointer may be at its call.

**CallPaths.** An instruction is a site and an opcode; the twin that `PreMLTA`
makes of an invoke has the opcode "call". Each pass is one action, in the order
of `main`; the copies of landing pads are made one invoke at a time, in any
order, as `_Call2InvokeMap` is ordered by address. The type analysis drops
declarations at the end of `doInitialization` (`Actual`), which is why a heap
function can be found only by `ReduceLibraryIndirectCall`. A landing pad leads to a handler, whose PHI node
moves behind the copies. One module is loaded: `Modules.at(0)` is the
only one that all passes but two look at.

**RelevantFunctions.** Functions are numbers in name order; components of
recursive functions get negative numbers, since `CSSINTRA_n` sorts before the
names of C functions; a few names, such as those that begin with A, sort before
it, which would change only the loop function that comes first. `path[c]` holds the fields of the `CallPath` of a call,
`calledAt[c]` and `callsAt[c]` the keys of the two maps whose vectors contain
it: fields and keys are renamed at different times, which is what the code's own
consistency checks are about. Every graph over `Calls` is an initial state, each
call inside or outside a loop of its caller (LLVM's loop analysis is an input).
A traversal with a queue is one operator, `Traverse`: what is reached without
passing something visited before. Kosaraju's algorithm is the graph library's;
the order of its components is any.

**EdgeWeights.** Functions are numbers, `CallPath`s are numbered edges; every
graph of `EdgeN` calls, which may share an instruction, is an initial state. The
calls of one instruction have one path type; where a component was collapsed they
need not, but such an instruction has several callees, which `PathIdsDistinct`
leaves out (`HasOthers`). The sort picks any function whose count is zero, which
covers the order of the container in the code.

**RuntimeTracking.** `stack` is the sequence of calls in progress. `Call`,
`ReturnToCall`, `ReturnToInvoke` and `Land` run the code inserted before a call,
after a plain call, on the normal edge of an invoke and in its landing pad. A
thrown exception lands in the latest call if that is an invoke that takes it, or
leaves the caller as well (`UnwindPast`); after a landing the function runs on
and may throw again, which covers cleanups. The second decrement of an outbound
invoke is in the original normal destination, to which other branches may lead
(`Jump`); all other code is in blocks of its own. What is inserted is kept apart
from what the properties count: `ByModulePass`, `ByOutBound` and `OnBlock` are the
increments and decrements the two places of the pass put into the blocks around a
call, `Layers` is what a call in progress should count for. `lost` and `stray` are
history variables: the calls unwound past, and how often control came to the normal
destination of an outbound invoke other than by its return, whatever code is there. The
recursion stack is left out: `extendInLoopRecursiveCall` is called only for the
vectors of `FunctionMap` that `instrIsInaLoop` has emptied (`MergeMaps` of
`RelevantFunctions`), so the offset and with it the hash stay 0.

## 3. Runs

Passing runs:

| Run | What it shows |
|---|---|
| `bag_heap` | Objects of all bags and huge objects never overlap (`ObjectsDisjoint`), stay mapped (`ObjectsMapped`), are on a free list at most once and never while handed out (`FreeListSound`), and memory never changes its bag (`TypeStable`). |
| `remote_free` | The list is exactly what was pushed and not popped (`ListIntact`); every object has one home (`OneHome`); a correct program gets no double-free report (`NoFalseDoubleFree`); the owner's calls end (`HandleTerminates`); freed objects come back (`Reclaimed`); the whole implements `PendingFrees` (`ImplementsAtomic`). |
| `csi_tables` | At most `LAZY_OCCUR` lazy allocations per id other than 0 (`LazyBound`); bags and (id, size class) correspond one to one (`BagPerSite`); "full" is reported only when it is so (`ExitOnlyWhenFull`). |
| `object_api` | Header bits (`HeadersTell`), error reports in both directions (`ReportJustified`, `DoubleFreeStops`), ownership (`OneOwner`). From end to end, through the size word: an object is as long as its caller asked (`HeldFits`), and an object in the bag of a call site was made there (`SiteKept`). |
| `thread_managers` | Managers are private to threads that went through `init_thread` (`ManagersKept`); objects are freed where they came from (`FreedAtHome`); null managers are met only at start-up (`CrashOnlyAtStart`). |
| `call_paths` | No direct call, cast call or call through a global pointer to a heap function is missed, and no list entry or operand refers to a removed twin (`AllListed`); an instruction is listed once, and under one heap function, so that its size argument is tagged once (`ListedOnce`); every invoke has a landing pad of its own that leads to its old handler with the right PHI value (`LandsAlone`). Whatever the program has stored when it makes an indirect call, the function called is listed for that call (`CalledIsListed`, with the exceptions below); a lookup makes fewer rounds than `MAX_TYPE_LAYER` (`LookupEnds`). |
| `relevant_functions` | Step 1 marks exactly the callers, direct or not, of heap functions (`AncestorsMarked`); the consistency checks before the sort never stop the pass (`ChecksPass`) and the graph has no cycle (`FinalAcyclic`, so that with `FailsOnlyOnCycles` the sort never gives up); what is instrumented is related to a loop (`LoopRelated`), and nothing related to the first loop function is missed, unless that takes a call of another component of recursive functions (`FirstLoopComplete`). |
| `edge_weights` | Ids of paths from one entry differ, unless they are too many or a call on them has several callees (`PathIdsDistinct`); the sort fails only over cycles (`FailsOnlyOnCycles`) and orders callees first (`CalleesFirst`). |
| `runtime_tracking` | The track variable is the sum of the weights of the calls in progress and of those unwound past (`TrackAccounts`), the loop counter likewise, less one for each time control comes to the normal destination of an outbound invoke that did not just return (`LayerAccounts`); while nothing was unwound past, the value of `CSSSaveTrack` is the one `CSSCheckTrack` will find (`SavedIsCurrent`). |

Every module has a `TypeOK`, and it holds on the instance of the module's run.
The configurations list those of `BagHeap` and `RemoteFree`, which say more than the variables' shapes: that a table is not indexed past its
end and that what is dereferenced is not null.

Runs that are expected to find a violation; each states what a comment or test
of the repository says, and `PROJECT.json` quotes it:

| Run | What the counterexample shows |
|---|---|
| `object_allocated_bit` | `css_memalign` copies a header whose A bit is set and then flips it: the shifted object is handed out as not allocated, and its first free ends the process. |
| `object_loops` | The inserted code compares the address of the loop counter with 0, not its value: an object made outside every loop carries the loop flag and lies in its call site's bag, not in a global one. |
| `thread_shared` | The first `calloc` or `memalign` of a thread runs in manager 0 together with thread 0. |

Other deviations met while modelling, visible in the models but not stated as
runs: a failed `mmap` is compared with `nullptr` instead of `MAP_FAILED`
(`allocateHugeFails`, `PoolMapFails` end in "crash"); id 0 is also the mark of
an empty lazy slot, so it can be lazy more than `LAZY_OCCUR` times (`LazyBound`
leaves it out); the global bit is flipped on reuse, so recycled global objects
are marked individual (`HeadersTell` says nothing of B); a call that was not
instrumented gets the low 32 bits of its size, and a `calloc` whose product wraps
around gets the wrapped length (`Covered`); a `realloc` to size 0 by an
instrumented call keeps the object, as the word is not 0 (`StaysInPlace`); a caller of several heap functions that was visited by an earlier
climb marks only the first of them (`FirstHMFs`); a call from one component of
recursive functions to another becomes a call of the first by itself
(`MarkInner`), and so leaves the graph; step 3 misses functions that are related
to a later loop function, or across another component, although the comment of
`MarkLoopRelevantFunctions` speaks of all that are "relevant to the loops": in
2 → 3 → 4 → {1, 6} with the calls of 3 and of the heap function 1 in loops, the
climb from 1 visits 4, the descent from 3 then stops there, and the call of the
heap function 6 is not instrumented (`FirstLoopComplete` leaves these out);
`realloc`, `calloc` and `memalign` do
not look at the huge flag that the inserted code sets, and serve the low 32 bits
of a larger size (`Covered`); an indirect call with several callees is
instrumented with the weight of the first one only, so two paths may share an id
(`HasOthers` in `PathIdsDistinct`), whereas a comment there says that entries of
an instruction already handled can be skipped; an exception that passes a plain
call leaves the track variable and the loop counter too large for the rest of
the thread (`lost` in `TrackAccounts`), and `CSSCheckTrack` of the debug build
then ends the program at the next return it checks.

Where the type analysis misses a callee. `CalledIsListed` leaves these programs
out, each with a condition of its own that TLC showed to be needed:

* `AllContainers`: a constant that two fields of an initializer share is visited
  once, and `ContainersMap` keeps the last field only, so its functions are not
  recorded for the other, although a comment says that a function is added "to
  all containers".
* `Hidden`: a copy of all fields of a type (index -1) does not bring along what
  was copied into one of these fields. A stale FS2 usually covers this up; the
  cache of lookups takes that away when another call was looked up before.
* A method, whose first parameter is a class: its type is capped under the string
  without the class (`funcHash`) but looked up under the one with it (`typeHash`).

Other programs are outside the values the model has: a function pointer that is
the result of a `select`, a PHI node or a call and is then stored (the analysis
follows only the true value of a select, and intersects the alternatives of a
PHI), and a struct cast to another (the code that would propagate is commented
out). Two oddities do no harm: the value at the end of a chain is nearly always
null, so the outermost type of every chain is capped; and the counter of modules
is not reset after `doModulePass`, so `doFinalization` maps nothing.

### Bounds

* `bag_heap`: three bags, two object sizes, pools of two chunks, two pools, an
  address space of three areas. Every bag can be extended, a pool runs out while
  a bag still has room, the table of pools runs out, and a huge object comes and
  goes between pools. Chunks hold a remainder that no object fits in.
* `remote_free`: three objects and two freeing threads; with two, an owner's
  pop races two pushes and the popped element can be pushed again (the ABA
  pattern).
* `csi_tables`: four ids over two hash values: every probe sequence wraps and
  collides, and both tables can fill up.
* `object_api`: a slot of each kind (small global, large global, individual and
  shifted, huge); a size field of 4 bits, an id of 1 and a hash of 1. The calls
  have sizes on both sides of each limit, a track variable that wraps around to
  the bag's site and one that does not, products that fit, are huge and wrap.
  `object_loops` has one call outside every loop and one inside.
* `thread_managers`: three threads with three ids, three objects, with symmetry
  of threads and objects, which no definition tells apart.
* `relevant_functions`: all subsets of nine calls among six functions, each call
  in a loop or not: two components, one calling the other, and heap functions on
  both ends of the name order.
* `call_paths`: two families of programs. Around: three sites in two functions,
  five kinds of operand, two handlers, which all three invokes may share.
  Through: a call through one of ten pointers (in a struct, a struct of one
  field, a nested struct, an array at an unknown index, a list, a heap object,
  two loads away, a local) and a call that passes a function on, with any two of
  29 stores and memcpys and two sets of initializers, or with one of them and an
  initializer that holds the same constant twice; and two such calls with any
  subset of seven stores that copy from field to field, for the cache. The first
  site's handler is fixed, as no definition tells the handlers apart.
  `MAX_TYPE_LAYER` is 10, as in the code. Two stores and an argument are three
  steps of a pointer; longer chains are in the second part.
* `runtime_tracking`: one function calls another, which calls itself and, at two
  places, a third: all combinations of path types, calls and invokes, with
  normal destinations shared or not; three calls deep, two frames lost, two
  stray arrivals at blocks. A frame is lost and another landed in, in both orders.
* `edge_weights`: all graphs of four calls among five functions, parallel calls
  and cycles among them; ids of 2 bits, so that some graphs have more paths than
  ids.

### Fairness

Only `remote_free` has liveness. A thread inside a call keeps running: weak
fairness of `OwnerRuns` and of each `RemoteRuns`. Beginning a call is the
program's choice and has no fairness; `Reclaimed` assumes that the owner keeps
making calls. `compare_exchange_weak` may fail spuriously, but not for ever:
strong fairness of the owner's successful pop. A push of another thread can make
a pop fail only once per object, since an object freed remotely is not freed
again before it has come back.

## 4. Proofs

Nine of the modules have their theorems in eight modules of proofs. Each proof goes the same way: an
inductive invariant, one lemma per action, and the properties as consequences of
the invariant (or, where a property is inductive together with the rest, as one
of its parts). The invariants were checked by TLC on the instances of section 3
before they were proved. The theorems hold for every value of the constants that
the assumptions below admit.

`BagHeapProofs`: `TypeOK`, `ObjectsDisjoint`, `ObjectsMapped` and
`FreeListSound` are invariants and `TypeStable` holds. None is inductive alone:
that two carved objects are apart says nothing of what a bag or the pool will
carve next. `HeapInv` adds `RestApart`: the rest of each bag, the rest of the
pool, what was carved and the huge objects are pairwise apart and mapped; and
`Shape`: a bag's object size is its own, bump pointers are not behind their
base, null is never an object. The lemma `CarveKeepsLayout` states what carving
an object from an area that one bag owns does to the layout; every kind of
malloc is an instance of it.

`RemoteFreeProofs`: `TypeOK`, `ListIntact`, `OneHome`, `NoFalseDoubleFree` and
the refinement of `PendingFrees`. `ListInv` adds `InFlight` (what a thread
between its load and its exchange knows: the popped element is still on the list
and its link is unchanged, since only the owner removes elements) and
`BitsRight` (the A bit is set exactly on the objects that are not in the bag).

`ManagerProofs`, on `CsiTables`: `LazyBound`, `BagPerSite` and `ExitOnlyWhenFull`. What makes
a search find what an earlier one left is `LazyChains` and `TableChains`: in
front of an id's slot, on its probe sequence, no slot is empty and none has the
same id. `LazyCounts` ties the count in a slot to the allocations made, but not
for id 0, whose slot looks empty. `BagsPlaced` and `GivenPlaced` say that a bag
is at one place of the table and stays there. That a search which wraps around
meets every slot once is the lemma `ProbeFacts`.

`ManagerProofs`, on `ThreadManagers`: `ManagersKept`, `FreedAtHome` and `CrashOnlyAtStart`.
`IdsUnique` and `OwnIds` say that an id is fetched by one thread and used by no
other; `Places` what a thread knows between the steps of a call (an initialised
flag is set last, so a manager exists before anyone is sent to it); `Homes` that
a header names the manager of the object's bag.

`ObjectApiProofs`: `HeadersTell`, `OneOwner`, `ReportJustified`,
`DoubleFreeStops`, `HeldFits` and `SiteKept`. `ApiInv` is one predicate of a
heap, the objects held and the pointers freed (`Good`), so that a realloc, which
allocates, copies and frees within one action, goes through it in two steps. Its
parts say for each object held, each slot not held and each freed pointer what
its header bits are: bits are flipped, so they have to be right before to be
right after. The lemmas on the size word (`FieldFacts` and what builds on it)
say that unpacking what `UpdateHMFInterface` packed gives the fields back when
the size fits.

`EdgeWeightsProofs`: `CalleesFirst`, `FailsOnlyOnCycles` and `PathIdsDistinct`,
for call graphs of any size. The sort: `Counted` (a count is the number of calls
to functions that are left) and `CalleesBelow`. The ids: before anything is
carried on, the weight of a call (`Base`) leaves room for all paths of the calls
before it (`RoomAbove`), so the sums of base weights of two paths differ where
the paths part (`Diverge`, `Smaller`), as in positional notation, and stay below
the count of paths of the entry (`TotalFits`). `Carried` and `OnlyCall` say what
carrying does: an unmarked call is the only call of its callee, and each of the
calls below it has got its weight exactly once. So what is added along a path
lags behind the base weights by what the last call has handed on (`Telescopes`),
and at an allocation nothing is missing (`AddsBase`).

`RuntimeTrackingProofs`: `TrackAccounts`, `LayerAccounts` and `SavedIsCurrent`,
for stacks of any depth. The sums over the stack are sums over the next stack
plus or minus one call. The layer counter: the decrements that a returning invoke
meets, on its edge and in its normal destination, are its own layers and one for
each other outbound invoke that leads there (`NormalTakesBack`), which is what the
history variable counts. For `SavedIsCurrent` the invariant adds `Climbing`:
calls in progress go up in an order of the functions (`AcyclicAssumption`: there
is one that instrumented calls follow strictly and others weakly, which is what
the sort of `EdgeWeights` finds), so a function has one instrumented call in
progress and nobody overwrites what it saved.

`RelevantFunctionsProofs`: `ChecksPass`, `AncestorsMarked`, `LoopRelated`,
`FinalAcyclic` and `FirstLoopComplete`, for call graphs of any size. All rests on
the lemma `TraverseLeast`: a traversal visits the least set that has its start
and is closed under its steps, apart from what was visited before. `Climbing`
says that what the climbs of step 1 have visited is closed under callers, so that
stopping there loses nothing. `NamesOK` says which names the ends of a call and
its two keys have in each phase, `CyclesOK` that two marked functions have one
component name exactly when each reaches the other: a cycle among the names would
be a cycle of functions in different components (`EdgeReaches`, `SameNode`).
`Uphill` and `Downhill`, the nodes above and below a loop function in the
program's own graph, hold what a traversal of step 3 visits. `FirstOK` says what
the traversals from the first loop function have marked; later ones only add to
it. An earlier form of `FirstLoopComplete` had no exception for calls of other
components. It held on the instance, its proof failed, and a graph with three
components refutes it: a traversal does not start from a component's name, so
what is behind another component is reached only on a way around it, which an
earlier climb may have visited.

`CallPathsProofs`: `TypeOK`, `LandsAlone`, `ListedOnce`, `AllListed` and
`LookupEnds`, for every program over any graph of values. Three invariants stand
side by side.

* `PadsInv`, for `LandsAlone`: the invokes of a pad are all as they were
  (`Untouched`) or have each a pad of their own (`Split`), and an invoke that was
  visited is alone on its pad. `LandsAlone` is silent until the program runs, so
  it says nothing of the visits that lead there: one visit splits the pad for all
  its invokes, and the later visits of these have to find nothing left to do.
* `ListInv`, for `ListedOnce` and `AllListed`: in each phase, the list of a
  function has exactly the sites the passes so far have found (`Listed`), each
  once, as the instruction that is in the module in that phase. That no two
  passes find the same site (`SitesApart`) takes from the type analysis that the
  functions it finds have a body, while heap functions are declarations. That the
  list holds each site once, in order, needs that `InOrder` exists for every
  finite set of sites (`AscendingExists`).
* `LookupsInv`, for `LookupEnds`: the layer counter, which starts at 1 and stays
  within `MAX_TYPE_LAYER`, is ahead of the rounds made. A round begins only with
  a layer ahead and below the limit, and its first layer is counted on every path
  through the inner loop, also where that layer escapes and the loop is left
  (`MatchLayerKeeps`). The invariant also says which functions a lookup can find:
  functions with a body, at sites that call indirectly.

The next round goes on with the result of `nextLayerBaseType`, so `LookupsInv`
needs that this function has a result of the right type at all. The graph of
values may be cyclic (a PHI node of a loop), and the code's recursion ends only
because it remembers what it has seen. `NextLayerResults` proves that the
recursive definition has a solution and that all its values are typed: if
results are right wherever fewer than n values are left unseen, they can be made
right for n (`Solved`), since every call below is made with more values seen
(`BelowSame`, `LeftFacts`).

Induction over naturals is done by contradiction from a least counterexample
(`LeastNatural`); the lemmas on sums, chains of calls and traversals, whose
definitions are recursive functions, rest on it. Lemmas on lists, division with
remainder and searches around a ring stand in front of the proofs that use them.

Assumptions, all of which TLC evaluates on each instance:

* `BagHeap`: object sizes below the chunk size, null never mapped.
* `RemoteFree`: null and leftover data are not objects.
* `CsiTables`: ids are numbers and `NoCSI` (all ones) is none of those met;
  tables are not empty.
* `ThreadManagers`: no more threads than `MAX_THREAD`. The code does not check
  this: a further thread writes behind `globalMemoryManager`.
* `SizeWords`, `ObjectApi`: the fields of the word are not empty
  (`PowersAssumption`; that they are powers of two is not needed); the size
  classes have a largest one; a shift leaves room for a header.
* `RelevantFunctions`: there are finitely many calls and heap functions, function
  names are positive numbers, and heap functions are declarations and call
  nothing.
* `EdgeWeights`: the latter too.
* `RuntimeTracking`: `AcyclicAssumption`.
* `CallPaths`: a program has finitely many values and struct types, and finitely
  many call sites, which are positive numbers in functions with a body; the
  instructions that have operands in LLVM have them, a `getelementptr` at least
  its pointer and one index; heap functions are declarations; sites, stores and
  initializers are about values of the program; `MAX_TYPE_LAYER` is positive.

Only model-checked:

* `HandleTerminates` and `Reclaimed` of `RemoteFree`: liveness under fairness.
* `CalledIsListed` of `CallPaths`. It relates two recursive computations over
  the same graph of values, the memory that the program's stores build up and the
  sets of types that the analysis builds up in another order, and would need an
  induction over the contents of both, with the exceptions `AllContainers` and
  `Hidden` carried along.
* The three properties that the code violates.

## 5. Not modelled

* The wrappers: each forwards to the `css_` function of its name through a
  pointer that starts as that function. `mtrace_init`, which would change the
  pointers, is not called.
* Of the type analysis: fuzzy matching and one-layer matching (other values of a
  command-line option), loop unrolling (not compiled), `nextLayerBaseTypeWL` and
  the table of virtual tables (not used), structs without a name, several
  modules, and what is under `#if 0`.
* The recursion stack, for the reason given under `RuntimeTracking`.
* Logging, the statistics counters (only printed), the `madvise` of a freed
  object (contents only), the vendored graph library, the benchmark scripts.

Indirection through the LLVM API (instruction builders, casts) is reduced to
what the inserted instructions compute.

## 6. Plan

The order was: the heap and the lock-free list, whose failure corrupts memory,
with their proofs; then the tables, the interface, threads and the size word;
then the passes of the frontend and the code they insert; then the type analysis,
and the interface joined to the words that the inserted code passes; last, the
proofs about the list of calls, the landing pads and the lookups. Left:

1. `CalledIsListed` for programs without field-to-field copies, where the sets of
   types only grow, as a first step towards its proof.
2. A composition of `ThreadManagers` with `RemoteFree`: several managers, each
   with its list.
