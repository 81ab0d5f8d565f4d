--------------------------- MODULE ThreadManagers ---------------------------
(***************************************************************************)
(* Which manager a call works in.  A thread that has none yet gets one in  *)
(* init_thread (threads.h), which malloc, free and realloc call first;     *)
(* calloc, memalign and their relatives do not (semalloc.cc), and work in  *)
(* the manager thread_id names, which is 0 in a thread that is new.        *)
(*                                                                         *)
(* A call is some steps of init_thread, its entry into a manager and its   *)
(* return; in between it runs that manager's code, which is not atomic.    *)
(* free of another manager's object is one step, RemoteFree has its parts. *)
(* The build counts allocations (STAT) in pages that thread 0 maps.        *)
(***************************************************************************)
EXTENDS Naturals, FiniteSets

CONSTANTS
    Threads,
    Objects,   \* the bound on objects that are live at once
    MaxThread, \* MAX_THREAD
    Nobody     \* no object

ASSUME ThreadsAssumption ==
    /\ IsFiniteSet(Threads) /\ Cardinality(Threads) <= MaxThread
    /\ MaxThread \in Nat \ {0} /\ Nobody \notin Objects

VARIABLES
    process,      \* "run", or "crash" after a null pointer was used
    thread_bump, \* the next id
    managers,    \* ids whose globalMemoryManager entry is stored
    stats,       \* whether the pages of the counters are mapped
    thread_id,   \* per thread, 0 at first
    ready,       \* per thread: tid = get_thread_id()
    pc,          \* per thread: its place in the call
    newId,       \* per thread: currentThreadID of init_thread
    arg,         \* per thread: the object it frees; Nobody: it allocates
    serving,     \* per thread: the manager whose code it runs
    owner,       \* object -> thread_id in its header
    home,        \* history: object -> the manager whose bag it came from
    live         \* the objects the program holds

threadVars == <<process, thread_bump, managers, stats, thread_id, ready, pc, newId, arg,
          serving, owner, home, live>>

Ids == 0 .. MaxThread - 1

ThreadsInit ==
    /\ process = "run" /\ thread_bump = 0 /\ managers = {} /\ stats = FALSE
    /\ thread_id = [t \in Threads |-> 0]
    /\ ready = [t \in Threads |-> FALSE]
    /\ pc = [t \in Threads |-> "idle"]
    /\ newId = [t \in Threads |-> 0]
    /\ arg = [t \in Threads |-> Nobody]
    /\ serving = [t \in Threads |-> 0]
    /\ owner = [o \in Objects |-> 0] /\ home = [o \in Objects |-> 0]
    /\ live = {}

At(t, place) == process = "run" /\ pc[t] = place
Goto(t, place) == pc' = [pc EXCEPT ![t] = place]

-----------------------------------------------------------------------------
(* The calls begin.                                                        *)

Allocates(t) == arg[t] = Nobody
InUse(o) == o \in live \/ \E t \in Threads : arg[t] = o

\* The bound: every allocation under way has an object to return.
Room ==
    LET used == {o \in Objects : InUse(o)}
        underWay == {t \in Threads : pc[t] # "idle" /\ Allocates(t)}
    IN Cardinality(used) + Cardinality(underWay) < Cardinality(Objects)

\* malloc, realloc and free test for a manager first.
AfterTest(t) == IF ready[t] THEN "enter" ELSE "init"

css_malloc(t) ==
    /\ At(t, "idle") /\ Room /\ Goto(t, AfterTest(t))
    /\ arg' = [arg EXCEPT ![t] = Nobody]
    /\ UNCHANGED <<process, thread_bump, managers, stats, thread_id, ready, newId,
                   serving, owner, home, live>>

\* calloc, memalign, posix_memalign, aligned_alloc do not.
css_calloc(t) ==
    /\ At(t, "idle") /\ Room /\ Goto(t, "enter")
    /\ arg' = [arg EXCEPT ![t] = Nobody]
    /\ UNCHANGED <<process, thread_bump, managers, stats, thread_id, ready, newId,
                   serving, owner, home, live>>

\* The program frees an object once: it gives it up here.
css_free(t, o) ==
    /\ At(t, "idle") /\ o \in live /\ Goto(t, AfterTest(t))
    /\ arg' = [arg EXCEPT ![t] = o] /\ live' = live \ {o}
    /\ UNCHANGED <<process, thread_bump, managers, stats, thread_id, ready, newId,
                   serving, owner, home>>

-----------------------------------------------------------------------------
(* init_thread.                                                            *)

\* A plausible slip: the counter is not incremented atomically.
FetchAddLost(t) ==
    /\ At(t, "init") /\ Goto(t, "store")
    /\ newId' = [newId EXCEPT ![t] = thread_bump]
    /\ thread_bump' \in {thread_bump, thread_bump + 1}
    /\ UNCHANGED <<process, managers, stats, thread_id, ready, arg, serving, owner,
                   home, live>>

FetchAdd(t) ==
    /\ At(t, "init") /\ Goto(t, "store")
    /\ newId' = [newId EXCEPT ![t] = thread_bump]
    /\ thread_bump' = thread_bump + 1
    /\ UNCHANGED <<process, managers, stats, thread_id, ready, arg, serving, owner,
                   home, live>>

\* A plausible slip: thread_id is the index, and it is not assigned yet.
StoreManagerEarly(t) ==
    /\ At(t, "store") /\ Goto(t, "own")
    /\ managers' = managers \cup {thread_id[t]}
    /\ UNCHANGED <<process, thread_bump, stats, thread_id, ready, newId, arg,
                   serving, owner, home, live>>

\* AllocateMemoryManager, and the store of its address.
StoreManager(t) ==
    /\ At(t, "store") /\ Goto(t, "own")
    /\ managers' = managers \cup {newId[t]}
    /\ UNCHANGED <<process, thread_bump, stats, thread_id, ready, newId, arg,
                   serving, owner, home, live>>

\* A plausible slip: ids start at 1.
OwnManagerFromOne(t) ==
    /\ At(t, "own")
    /\ thread_id' = [thread_id EXCEPT ![t] = newId[t] + 1]
    /\ ready' = [ready EXCEPT ![t] = TRUE]
    /\ Goto(t, IF newId[t] = 0 THEN "stats" ELSE "enter")
    /\ UNCHANGED <<process, thread_bump, managers, stats, newId, arg, serving, owner,
                   home, live>>

\* thread_id and tid, which only the thread itself reads.
OwnManager(t) ==
    /\ At(t, "own")
    /\ thread_id' = [thread_id EXCEPT ![t] = newId[t]]
    /\ ready' = [ready EXCEPT ![t] = TRUE]
    /\ Goto(t, IF newId[t] = 0 THEN "stats" ELSE "enter")
    /\ UNCHANGED <<process, thread_bump, managers, stats, newId, arg, serving, owner,
                   home, live>>

\* Thread 0 maps the counters.
MapStats(t) ==
    /\ At(t, "stats") /\ Goto(t, "enter") /\ stats' = TRUE
    /\ UNCHANGED <<process, thread_bump, managers, thread_id, ready, newId, arg,
                   serving, owner, home, live>>

-----------------------------------------------------------------------------
(* The rest of the call.                                                   *)

\* A plausible slip: the manager's id is not compared.
IsLocalAlways(t) == TRUE

\* css_free: "current thread", against "other thread".
IsLocal(t) == owner[arg[t]] = thread_id[t]

\* An allocation, or a free of an object of the manager the thread works in.
EnterManager(t) ==
    /\ At(t, "enter") /\ (~Allocates(t) => IsLocal(t))
    /\ thread_id[t] \in managers /\ (Allocates(t) => stats)
    /\ Goto(t, "inside") /\ serving' = [serving EXCEPT ![t] = thread_id[t]]
    /\ UNCHANGED <<process, thread_bump, managers, stats, thread_id, ready, newId,
                   arg, owner, home, live>>

\* The manager, or the counter, is a null pointer.
EnterNull(t) ==
    /\ At(t, "enter") /\ (~Allocates(t) => IsLocal(t))
    /\ thread_id[t] \notin managers \/ (Allocates(t) /\ ~stats)
    /\ process' = "crash"
    /\ UNCHANGED <<thread_bump, managers, stats, thread_id, ready, pc, newId, arg,
                   serving, owner, home, live>>

\* freeOtherThreadMemory, the push on the other manager's list.
PushRemote(t) ==
    /\ At(t, "enter") /\ ~Allocates(t) /\ ~IsLocal(t)
    /\ Goto(t, "idle") /\ arg' = [arg EXCEPT ![t] = Nobody]
    /\ UNCHANGED <<process, thread_bump, managers, stats, thread_id, ready, newId,
                   serving, owner, home, live>>

\* mallocMemory returns an object; its header has the manager's own id.
ReturnObject(t, o) ==
    /\ At(t, "inside") /\ Allocates(t) /\ ~InUse(o) /\ Goto(t, "idle")
    /\ owner' = [owner EXCEPT ![o] = serving[t]]
    /\ home' = [home EXCEPT ![o] = serving[t]]
    /\ live' = live \cup {o}
    /\ UNCHANGED <<process, thread_bump, managers, stats, thread_id, ready, newId,
                   arg, serving>>

\* freeRegularMemory returns.
ReturnFree(t) ==
    /\ At(t, "inside") /\ ~Allocates(t) /\ Goto(t, "idle")
    /\ arg' = [arg EXCEPT ![t] = Nobody]
    /\ UNCHANGED <<process, thread_bump, managers, stats, thread_id, ready, newId,
                   serving, owner, home, live>>

Crashed == process = "crash" /\ UNCHANGED threadVars

ThreadsNext ==
    \/ \E t \in Threads :
         \/ css_malloc(t) \/ css_calloc(t)
         \/ FetchAdd(t) \/ StoreManager(t) \/ OwnManager(t) \/ MapStats(t)
         \/ EnterManager(t) \/ EnterNull(t) \/ PushRemote(t) \/ ReturnFree(t)
    \/ \E t \in Threads, o \in Objects : css_free(t, o) \/ ReturnObject(t, o)
    \/ Crashed

ThreadsSpec == ThreadsInit /\ [][ThreadsNext]_threadVars

-----------------------------------------------------------------------------
(* Properties.                                                             *)

\* Every variable keeps its shape; ids stay inside globalMemoryManager.
ThreadsTypeOK ==
    /\ process \in {"run", "crash"} /\ thread_bump \in 0 .. MaxThread
    /\ managers \subseteq Ids /\ stats \in BOOLEAN
    /\ thread_id \in [Threads -> Ids] /\ ready \in [Threads -> BOOLEAN]
    /\ pc \in [Threads -> {"idle", "init", "store", "own", "stats", "enter", "inside"}]
    /\ newId \in [Threads -> Ids] /\ arg \in [Threads -> Objects \cup {Nobody}]
    /\ serving \in [Threads -> Ids]
    /\ owner \in [Objects -> Ids] /\ home \in [Objects -> Ids]
    /\ live \subseteq Objects

Inside(t, m) == pc[t] = "inside" /\ serving[t] = m

\* Two threads that have been through init_thread are never inside the same
\* manager, and one that has not is never inside any manager but 0.
ManagersKept ==
    /\ \A t, u \in Threads : \A m \in Ids :
          t # u /\ Inside(t, m) /\ Inside(u, m) => ~ready[t] \/ ~ready[u]
    /\ \A t \in Threads, m \in Ids \ {0} : Inside(t, m) => ready[t]

\* An object is freed inside the manager whose bag it came from, or pushed to
\* that manager's list, whatever thread allocated it and through which call.
FreedAtHome ==
    \A t \in Threads :
        (process = "run" /\ ~Allocates(t) /\ pc[t] \in {"enter", "inside"}) =>
            /\ owner[arg[t]] = home[arg[t]] /\ owner[arg[t]] \in managers
            /\ pc[t] = "inside" => serving[t] = home[arg[t]]

\* A null manager or counter is met only before thread 0 has finished its
\* init_thread.
CrashOnlyAtStart == process = "crash" => ~(0 \in managers /\ stats)

\* A manager's code, which css_free reserves for the "current thread", is run
\* by one thread at a time.
OneThreadInside ==
    \A t, u \in Threads : \A m \in Ids : Inside(t, m) /\ Inside(u, m) => t = u

=============================================================================
