----------------------------- MODULE RemoteFree -----------------------------
(***************************************************************************)
(* Freeing across threads.  A thread that frees an object of another       *)
(* thread's manager pushes it on that manager's FreeList, a lock-free list *)
(* linked through the first word of the freed object                       *)
(* (freeOtherThreadMemory); the owner takes the list apart at the start of *)
(* its next malloc or free (handleFreeList).  One action per atomic        *)
(* access.  compare_exchange_weak may fail without cause.                  *)
(*                                                                         *)
(* The program is correct: it frees an object once, from whatever thread,  *)
(* and writes to it only while it holds it.                                *)
(***************************************************************************)
EXTENDS Naturals, Sequences, Functions

CONSTANTS
    Objects, \* the objects of the owner's manager
    Remotes, \* the other threads
    Nil,     \* the null pointer
    Junk     \* a first word the program wrote, whatever it is

ASSUME PointersAssumption == Nil \notin Objects /\ Junk \notin Objects /\ Nil # Junk

VARIABLES
    status,  \* "run", or "exit" after a "Double free" report
    FreeList,\* head of the list
    nxt,     \* first word of each object's data
    isAllocation, \* the A bit of each object's header
    inBag,   \* the objects the bag can hand out, never used or on its free list
    live,    \* the objects the program holds (its own view)
    pc,      \* the owner's place in its current call
    arg,     \* the object the owner is freeing, Nil during malloc
    cur,     \* currentPtr of handleFreeList
    next,    \* nxt of handleFreeList
    rpc,     \* each remote's place in freeOtherThreadMemory
    robj,    \* currentFreeObject of each remote
    rhead,   \* curHead of each remote
    pending  \* history: the objects pushed and not yet popped, newest first

ownerVars == <<pc, arg, cur, next>>
remoteVars == <<rpc, robj, rhead>>
vars == <<status, FreeList, nxt, isAllocation, inBag, live, ownerVars,
          remoteVars, pending>>

Pointers == Objects \cup {Nil}

Init ==
    /\ status = "run"
    /\ FreeList = Nil
    /\ nxt = [o \in Objects |-> Junk]
    /\ isAllocation = [o \in Objects |-> FALSE]
    /\ inBag = Objects
    /\ live = {}
    /\ pc = "idle" /\ arg = Nil /\ cur = Nil /\ next = Nil
    /\ rpc = [r \in Remotes |-> "idle"]
    /\ robj = [r \in Remotes |-> Nil]
    /\ rhead = [r \in Remotes |-> Nil]
    /\ pending = <<>>

-----------------------------------------------------------------------------
(* freeOtherThreadMemory, by a thread r that is not the owner.             *)

\* css_free found another thread's id in the header.
RemoteBegin(r, o) ==
    /\ status = "run" /\ rpc[r] = "idle" /\ o \in live
    /\ live' = live \ {o}
    /\ rpc' = [rpc EXCEPT ![r] = "load"]
    /\ robj' = [robj EXCEPT ![r] = o]
    /\ UNCHANGED <<status, FreeList, nxt, isAllocation, inBag, ownerVars, rhead, pending>>

\* curHead = FreeList.load()
RemoteLoad(r) ==
    /\ status = "run" /\ rpc[r] = "load"
    /\ rhead' = [rhead EXCEPT ![r] = FreeList]
    /\ rpc' = [rpc EXCEPT ![r] = "link"]
    /\ UNCHANGED <<status, FreeList, nxt, isAllocation, inBag, live, ownerVars, robj, pending>>

\* currentFreeObject->nxt = curHead
RemoteLink(r) ==
    /\ status = "run" /\ rpc[r] = "link"
    /\ nxt' = [nxt EXCEPT ![robj[r]] = rhead[r]]
    /\ rpc' = [rpc EXCEPT ![r] = "cas"]
    /\ UNCHANGED <<status, FreeList, isAllocation, inBag, live, ownerVars, robj, rhead, pending>>

\* A plausible slip: the head is stored without a comparison.
RemotePushStore(r) ==
    /\ status = "run" /\ rpc[r] = "cas"
    /\ FreeList' = robj[r]
    /\ pending' = <<robj[r]>> \o pending
    /\ rpc' = [rpc EXCEPT ![r] = "idle"]
    /\ robj' = [robj EXCEPT ![r] = Nil]
    /\ UNCHANGED <<status, nxt, isAllocation, inBag, live, ownerVars, rhead>>

\* compare_exchange_weak(&FreeList, &curHead, currentFreeObject) succeeds.
RemotePush(r) ==
    /\ status = "run" /\ rpc[r] = "cas" /\ FreeList = rhead[r]
    /\ FreeList' = robj[r]
    /\ pending' = <<robj[r]>> \o pending
    /\ rpc' = [rpc EXCEPT ![r] = "idle"]
    /\ robj' = [robj EXCEPT ![r] = Nil]
    /\ UNCHANGED <<status, nxt, isAllocation, inBag, live, ownerVars, rhead>>

\* It fails, because the head moved or for no reason: load again.
RemoteRetry(r) ==
    /\ status = "run" /\ rpc[r] = "cas"
    /\ rpc' = [rpc EXCEPT ![r] = "load"]
    /\ UNCHANGED <<status, FreeList, nxt, isAllocation, inBag, live, ownerVars, robj, rhead, pending>>

-----------------------------------------------------------------------------
(* The owner: mallocMemory and freeRegularMemory, each begins with         *)
(* handleFreeList.                                                         *)

OwnerMalloc ==
    /\ status = "run" /\ pc = "idle"
    /\ pc' = "test" /\ arg' = Nil
    /\ UNCHANGED <<status, FreeList, nxt, isAllocation, inBag, live, cur, next, remoteVars, pending>>

OwnerFree(o) ==
    /\ status = "run" /\ pc = "idle" /\ o \in live
    /\ pc' = "test" /\ arg' = o
    /\ live' = live \ {o}
    /\ UNCHANGED <<status, FreeList, nxt, isAllocation, inBag, cur, next, remoteVars, pending>>

\* A plausible slip: do ... while, the list is popped before it is tested.
HandleTestLate ==
    /\ status = "run" /\ pc = "test"
    /\ pc' = "load"
    /\ UNCHANGED <<status, FreeList, nxt, isAllocation, inBag, live, arg, cur, next, remoteVars, pending>>

\* A plausible slip: malloc and free no longer take the list apart.
HandleTestSkips ==
    /\ status = "run" /\ pc = "test"
    /\ pc' = "body"
    /\ UNCHANGED <<status, FreeList, nxt, isAllocation, inBag, live, arg, cur, next, remoteVars, pending>>

\* while (FreeList != nullptr)
HandleTest ==
    /\ status = "run" /\ pc = "test"
    /\ pc' = IF FreeList # Nil THEN "load" ELSE "body"
    /\ UNCHANGED <<status, FreeList, nxt, isAllocation, inBag, live, arg, cur, next, remoteVars, pending>>

\* currentPtr = FreeList.load()
HandleLoad ==
    /\ status = "run" /\ pc = "load"
    /\ cur' = FreeList
    /\ pc' = "next"
    /\ UNCHANGED <<status, FreeList, nxt, isAllocation, inBag, live, arg, next, remoteVars, pending>>

\* nxt = currentPtr->nxt
HandleNext ==
    /\ status = "run" /\ pc = "next" /\ cur # Nil
    /\ next' = nxt[cur]
    /\ pc' = "cas"
    /\ UNCHANGED <<status, FreeList, nxt, isAllocation, inBag, live, arg, cur, remoteVars, pending>>

\* A plausible slip: the comparison is dropped, the list is overwritten.
HandlePopStore ==
    /\ status = "run" /\ pc = "cas"
    /\ FreeList' = next
    /\ pending' = Tail(pending)
    /\ pc' = "process"
    /\ UNCHANGED <<status, nxt, isAllocation, inBag, live, arg, cur, next, remoteVars>>

\* compare_exchange_weak(&FreeList, &currentPtr, nxt) succeeds.
HandlePop ==
    /\ status = "run" /\ pc = "cas" /\ FreeList = cur
    /\ FreeList' = next
    /\ pending' = Tail(pending)
    /\ pc' = "process"
    /\ UNCHANGED <<status, nxt, isAllocation, inBag, live, arg, cur, next, remoteVars>>

\* A plausible slip: the loop tries the exchange again with what it read first.
HandleRetryStale ==
    /\ status = "run" /\ pc = "cas"
    /\ UNCHANGED vars

HandleRetry ==
    /\ status = "run" /\ pc = "cas"
    /\ pc' = "load"
    /\ UNCHANGED <<status, FreeList, nxt, isAllocation, inBag, live, arg, cur, next, remoteVars, pending>>

\* Take o back into the bag, or stop the process: "Double free".
GiveBack(o) ==
    IF isAllocation[o]
    THEN /\ inBag' = inBag \cup {o}
         /\ isAllocation' = [isAllocation EXCEPT ![o] = FALSE]
         /\ UNCHANGED status
    ELSE /\ status' = "exit"
         /\ UNCHANGED <<inBag, isAllocation>>

\* A plausible slip: setFree is forgotten on this path.
HandleProcessKeepsBit ==
    /\ status = "run" /\ pc = "process"
    /\ inBag' = inBag \cup {cur}
    /\ pc' = "test"
    /\ UNCHANGED <<status, isAllocation, FreeList, nxt, live, arg, cur, next, remoteVars, pending>>

HandleProcess ==
    /\ status = "run" /\ pc = "process"
    /\ GiveBack(cur)
    /\ pc' = "test"
    /\ UNCHANGED <<FreeList, nxt, live, arg, cur, next, remoteVars, pending>>

\* The rest of mallocMemory: an object of the bag; setAllocation flips the bit,
\* and from here the program may write anything into the object.
MallocBody(o) ==
    /\ status = "run" /\ pc = "body" /\ arg = Nil /\ o \in inBag
    /\ inBag' = inBag \ {o}
    /\ isAllocation' = [isAllocation EXCEPT ![o] = ~@]
    /\ live' = live \cup {o}
    /\ nxt' = [nxt EXCEPT ![o] = Junk]
    /\ pc' = "idle"
    /\ UNCHANGED <<status, FreeList, arg, cur, next, remoteVars, pending>>

\* Bound of the model: all of Objects are in use, this malloc is served by
\* an object that is none of them.
MallocElsewhere ==
    /\ status = "run" /\ pc = "body" /\ arg = Nil /\ inBag = {}
    /\ pc' = "idle"
    /\ UNCHANGED <<status, FreeList, nxt, isAllocation, inBag, live, arg, cur, next, remoteVars, pending>>

\* The rest of freeRegularMemory.
FreeBody ==
    /\ status = "run" /\ pc = "body" /\ arg # Nil
    /\ GiveBack(arg)
    /\ pc' = "idle" /\ arg' = Nil
    /\ UNCHANGED <<FreeList, nxt, live, cur, next, remoteVars, pending>>

-----------------------------------------------------------------------------
OwnerBegin == OwnerMalloc \/ \E o \in live : OwnerFree(o)

OwnerRuns ==
    \/ HandleTest \/ HandleLoad \/ HandleNext \/ HandlePop \/ HandleRetry
    \/ HandleProcess
    \/ \E o \in inBag : MallocBody(o)
    \/ MallocElsewhere
    \/ FreeBody

RemoteRuns(r) == RemoteLoad(r) \/ RemoteLink(r) \/ RemotePush(r) \/ RemoteRetry(r)

Next ==
    \/ \E r \in Remotes : (\E o \in live : RemoteBegin(r, o)) \/ RemoteRuns(r)
    \/ OwnerBegin
    \/ OwnerRuns

Spec == Init /\ [][Next]_vars

\* A thread that is in a call keeps running; a compare_exchange_weak that could
\* succeed again and again does succeed.  No call has to begin.
Fairness ==
    /\ WF_vars(OwnerRuns)
    /\ SF_vars(HandlePop)
    /\ \A r \in Remotes : WF_vars(RemoteRuns(r))

FairSpec == Spec /\ Fairness

-----------------------------------------------------------------------------
(* Properties.                                                             *)

Freeing == {robj[r] : r \in {s \in Remotes : rpc[s] # "idle"}}
Processing == IF pc = "process" THEN {cur} ELSE {}
Returning == IF pc # "idle" /\ arg # Nil THEN {arg} ELSE {}

\* Every variable keeps its shape; the owner only follows pointers that are
\* objects (currentPtr is dereferenced without a null check).
TypeOK ==
    /\ status \in {"run", "exit"}
    /\ FreeList \in Pointers
    /\ nxt \in [Objects -> Pointers \cup {Junk}]
    /\ isAllocation \in [Objects -> BOOLEAN]
    /\ inBag \in SUBSET Objects /\ live \in SUBSET Objects
    /\ pc \in {"idle", "test", "load", "next", "cas", "process", "body"}
    /\ arg \in Pointers /\ cur \in Pointers /\ next \in Pointers \cup {Junk}
    /\ rpc \in [Remotes -> {"idle", "load", "link", "cas"}]
    /\ robj \in [Remotes -> Pointers] /\ rhead \in [Remotes -> Pointers]
    /\ pending \in Seq(Objects)
    /\ pc \in {"next", "cas", "process"} => cur \in Objects

\* Following nxt from FreeList visits exactly the pushed and not yet popped
\* objects, newest first, and ends in null: no push and no pop, however they
\* interleave, loses, repeats or cuts off an element.
ListIntact ==
    /\ FreeList = IF pending = <<>> THEN Nil ELSE Head(pending)
    /\ \A i \in DOMAIN pending :
          nxt[pending[i]] = IF i = Len(pending) THEN Nil ELSE pending[i + 1]

\* Every object is in exactly one place: with the program, in the bag, on the
\* list, or in the hands of one freeing thread.  None is lost, none is twice.
OneHome ==
    /\ IsInjective(pending)
    /\ \A r, s \in Remotes :
          rpc[r] # "idle" /\ rpc[s] # "idle" /\ robj[r] = robj[s] => r = s
    /\ live \cap inBag = {}
    /\ (live \cup inBag) \cap Range(pending) = {}
    /\ (live \cup inBag \cup Range(pending)) \cap Freeing = {}
    /\ (live \cup inBag \cup Range(pending) \cup Freeing) \cap Processing = {}
    /\ (live \cup inBag \cup Range(pending) \cup Freeing \cup Processing)
          \cap Returning = {}
    /\ live \cup inBag \cup Range(pending) \cup Freeing \cup Processing
          \cup Returning = Objects

\* The "Double free" report never hits a program that frees each object once.
NoFalseDoubleFree == status = "run"

\* handleFreeList always ends, so every malloc and free of the owner returns,
\* however the other threads keep freeing.
HandleTerminates == (pc # "idle") ~> (pc = "idle")

\* Every object freed by another thread comes back, as long as the owner keeps
\* calling malloc or free.
Reclaimed ==
    ([]<><<OwnerBegin>>_vars) =>
        \A o \in Objects : (o \in Range(pending)) ~> (o \notin Range(pending))

\* The atomic view: a remote free takes effect at its push, a reclaim when the
\* object is back in the bag.
Home == [o \in Objects |-> IF o \in inBag THEN "bag"
                           ELSE IF o \in Range(pending) \cup Processing THEN "pending"
                           ELSE "live"]

Atomic == INSTANCE PendingFrees WITH home <- Home

\* Each call takes effect at one step, as in PendingFrees: the push of a remote
\* free, the object's return to the bag, the allocation.
ImplementsAtomic == Atomic!PFSpec

=============================================================================
