----------------------------- MODULE CsiTables -----------------------------
(***************************************************************************)
(* How mallocMemory chooses the bag of an allocation that carries the loop *)
(* bit: the first LAZY_OCCUR of a call-site id (CSI) are lazy, they go to  *)
(* the global bag of their size class (tryPutToLazyPool); the later ones   *)
(* go to the individual bag of the id and size class, created on demand    *)
(* (getIndividualBIBOPbyCSI).  Both keep an open-addressing table with     *)
(* linear probing; the lazy table marks an empty slot with id 0, the       *)
(* table of bags with an id that no size word can hold.  Allocations       *)
(* without the loop bit go to the global bags and read neither table.      *)
(***************************************************************************)
EXTENDS Naturals, FiniteSets, FiniteSetsExt

CONSTANTS
    CSIs,        \* the call-site ids of the program, naturals
    SizeClasses, \* size class indices
    HashN,       \* 2^16, the range of hash
    LazyN,       \* INDIVIDUAL_DATA_POOL_N << 8, slots of lazyIdentifiers
    TableN,      \* INDIVIDUAL_BIBOP_MAX_N, slots of individualBIBOP
    LazyOccur,   \* LAZY_OCCUR
    NoCSI        \* 0xFFFFFFFFFFFFFFFF

ASSUME CsiAssumption == CSIs \subseteq Nat /\ NoCSI \notin CSIs
ASSUME TablesAssumption ==
    /\ HashN \in Nat \ {0} /\ LazyN \in Nat \ {0} /\ TableN \in Nat \ {0}
    /\ LazyOccur \in Nat \ {0}

VARIABLES
    status,          \* "run" or "exit"
    lazyIdentifiers, \* slot -> [CSI, occurCount]
    individualBIBOP, \* slot -> [CSI, ptr: size class -> bag or NoBag]
    bags,            \* individual bags created so far; the n-th has number n
    lazyGiven,       \* history: id -> lazy allocations so far
    bagGiven         \* history: <<id, size class, bag>> of the other allocations

vars == <<status, lazyIdentifiers, individualBIBOP, bags, lazyGiven, bagGiven>>

NoBag == 0 \* 0xFFFFFFFFFFFFFFFF in the array of bag pointers

Init ==
    /\ status = "run"
    /\ lazyIdentifiers = [i \in 0 .. LazyN - 1 |-> [CSI |-> 0, occurCount |-> 0]]
    /\ individualBIBOP = [i \in 0 .. TableN - 1 |->
                            [CSI |-> NoCSI, ptr |-> [sc \in SizeClasses |-> NoBag]]]
    /\ bags = 0
    /\ lazyGiven = [c \in CSIs |-> 0]
    /\ bagGiven = {}

hash(c) == c % HashN

\* Slot probed at an offset.
Slot(c, offset, size) == (hash(c) + offset) % size

-----------------------------------------------------------------------------
(* tryPutToLazyPool.                                                       *)

\* The offsets at which the search for c would stop: c itself, or id 0.
LazyStops(c) == {k \in 0 .. LazyN - 1 :
                    lazyIdentifiers[Slot(c, k, LazyN)].CSI \in {c, 0}}

LazySlot(c) == Slot(c, Min(LazyStops(c)), LazyN)

\* The slot after the call: counted up, or taken over from id 0.
Put(c, slot) == IF slot.CSI = c
                THEN [slot EXCEPT !.occurCount = @ + 1]
                ELSE [CSI |-> c, occurCount |-> 1]

\* A plausible slip: the count may pass the limit by one.
LazyRoomLoose(c) == LET slot == lazyIdentifiers[LazySlot(c)]
                    IN slot.CSI = c => slot.occurCount <= LazyOccur

\* A known id needs room for one more; a new one always has it.
LazyRoom(c) == LET slot == lazyIdentifiers[LazySlot(c)]
               IN slot.CSI = c => slot.occurCount < LazyOccur

\* It returns true: the global bag of the size class serves the request.
LazyMalloc(c) ==
    /\ status = "run" /\ LazyStops(c) # {} /\ LazyRoom(c)
    /\ lazyIdentifiers' = [lazyIdentifiers EXCEPT ![LazySlot(c)] = Put(c, @)]
    /\ lazyGiven' = [lazyGiven EXCEPT ![c] = @ + 1]
    /\ UNCHANGED <<status, individualBIBOP, bags, bagGiven>>

\* It finds no slot: "No enough space for CSI", exit(1).
LazyFull(c) ==
    /\ status = "run" /\ LazyStops(c) = {}
    /\ status' = "exit"
    /\ UNCHANGED <<lazyIdentifiers, individualBIBOP, bags, lazyGiven, bagGiven>>

-----------------------------------------------------------------------------
(* getIndividualBIBOPbyCSI, after tryPutToLazyPool returned false.         *)

PastLazy(c) == status = "run" /\ LazyStops(c) # {} /\ ~LazyRoom(c)

\* A plausible slip: the last probe is missed.
TableStopsShort(c) == {k \in 0 .. TableN - 2 :
                    individualBIBOP[Slot(c, k, TableN)].CSI \in {c, NoCSI}}

TableStops(c) == {k \in 0 .. TableN - 1 :
                    individualBIBOP[Slot(c, k, TableN)].CSI \in {c, NoCSI}}

TableSlot(c) == Slot(c, Min(TableStops(c)), TableN)

\* An existing bag of the id and size class.
BagFound(c, sc) ==
    /\ PastLazy(c) /\ TableStops(c) # {}
    /\ individualBIBOP[TableSlot(c)].CSI = c
    /\ individualBIBOP[TableSlot(c)].ptr[sc] # NoBag
    /\ bagGiven' = bagGiven \cup {<<c, sc, individualBIBOP[TableSlot(c)].ptr[sc]>>}
    /\ UNCHANGED <<status, lazyIdentifiers, individualBIBOP, bags, lazyGiven>>

\* A new bag, in the slot of the id or in a slot the id now takes.
NeedsBag(c, sc) ==
    LET slot == individualBIBOP[TableSlot(c)]
    IN slot.CSI = NoCSI \/ slot.ptr[sc] = NoBag

\* A plausible slip: taking a slot clears the bags that are in it.
BagCreatedDropsOthers(c, sc) ==
    /\ PastLazy(c) /\ TableStops(c) # {} /\ NeedsBag(c, sc)
    /\ individualBIBOP' =
         [individualBIBOP EXCEPT ![TableSlot(c)] =
            [CSI |-> c, ptr |-> [s \in SizeClasses |->
                                   IF s = sc THEN bags + 1 ELSE NoBag]]]
    /\ bags' = bags + 1
    /\ bagGiven' = bagGiven \cup {<<c, sc, bags + 1>>}
    /\ UNCHANGED <<status, lazyIdentifiers, lazyGiven>>

BagCreated(c, sc) ==
    /\ PastLazy(c) /\ TableStops(c) # {} /\ NeedsBag(c, sc)
    /\ individualBIBOP' =
         [individualBIBOP EXCEPT ![TableSlot(c)].CSI = c,
                                 ![TableSlot(c)].ptr[sc] = bags + 1]
    /\ bags' = bags + 1
    /\ bagGiven' = bagGiven \cup {<<c, sc, bags + 1>>}
    /\ UNCHANGED <<status, lazyIdentifiers, lazyGiven>>

\* "BIBOP max reached", exit(1).
TableFull(c) ==
    /\ PastLazy(c) /\ TableStops(c) = {}
    /\ status' = "exit"
    /\ UNCHANGED <<lazyIdentifiers, individualBIBOP, bags, lazyGiven, bagGiven>>

-----------------------------------------------------------------------------
Exited == status = "exit" /\ UNCHANGED vars

Next ==
    \/ \E c \in CSIs : LazyMalloc(c) \/ LazyFull(c) \/ TableFull(c)
    \/ \E c \in CSIs, sc \in SizeClasses : BagFound(c, sc) \/ BagCreated(c, sc)
    \/ Exited

Spec == Init /\ [][Next]_vars

-----------------------------------------------------------------------------
(* Properties.                                                             *)

\* Every variable keeps its shape; no count passes LAZY_OCCUR.
TypeOK ==
    /\ status \in {"run", "exit"}
    /\ lazyIdentifiers \in
         [0 .. LazyN - 1 -> [CSI : CSIs \cup {0}, occurCount : 0 .. LazyOccur]]
    /\ individualBIBOP \in
         [0 .. TableN - 1 -> [CSI : CSIs \cup {NoCSI}, ptr : [SizeClasses -> Nat]]]
    /\ bags \in Nat
    /\ lazyGiven \in [CSIs -> Nat]
    /\ bagGiven \in SUBSET (CSIs \X SizeClasses \X Nat)

\* An id other than 0 gets at most LAZY_OCCUR allocations from the global bags,
\* whatever ids collide with it in the lazy table, id 0 among them.
LazyBound == \A c \in CSIs \ {0} : lazyGiven[c] <= LazyOccur

\* Through every collision, two allocations past the lazy ones come from the
\* same bag exactly when they have the same id and size class: call sites are
\* isolated from each other, and a site finds its bag again.
BagPerSite ==
    \A x, y \in bagGiven : (x[3] = y[3]) <=> (x[1] = y[1] /\ x[2] = y[2])

\* The two exit(1) of the tables are never premature: the process stops only
\* when no slot of the bag table, or none of the lazy table, is unused, though
\* every search starts elsewhere and wraps around.
ExitOnlyWhenFull ==
    status = "exit" =>
        \/ \A i \in DOMAIN individualBIBOP : individualBIBOP[i].CSI # NoCSI
        \/ \A i \in DOMAIN lazyIdentifiers : lazyIdentifiers[i].occurCount > 0

=============================================================================
