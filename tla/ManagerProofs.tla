---------------------------- MODULE ManagerProofs ----------------------------
(***************************************************************************)
(* Proofs about how a call finds its place.  ThreadManagers says which     *)
(* manager it works in: for every set of threads and objects, ids stay     *)
(* inside globalMemoryManager, no two threads that have been through       *)
(* init_thread work in one manager, objects are freed where they came      *)
(* from, and a null manager or counter is met only at the start.           *)
(* CsiTables says which bag of that manager it is served from: for every   *)
(* set of call-site ids and size classes, every hash range and every size  *)
(* of the two tables, an id stays within its lazy allocations, call sites  *)
(* are isolated, and the process stops only when a table is full.          *)
(***************************************************************************)
EXTENDS ThreadManagers, CsiTables, FiniteSetTheorems, WellFoundedInduction, TLAPS

-----------------------------------------------------------------------------
(* ThreadManagers: its inductive invariant.                                *)

\* The threads that have taken an id from thread_bump.
WithId == {t \in Threads : ready[t] \/ pc[t] \in {"store", "own"}}

\* thread_bump counts them, and no id was given twice.
IdsUnique ==
    /\ thread_bump = Cardinality(WithId)
    /\ \A t \in WithId : newId[t] < thread_bump
    /\ \A t, u \in WithId : newId[t] = newId[u] => t = u

\* A thread that is ready works under the id it took, and its manager is stored; one
\* that is not has id 0.
OwnIds ==
    \A t \in Threads :
        /\ ready[t] => thread_id[t] = newId[t] /\ thread_id[t] \in managers
        /\ ~ready[t] => thread_id[t] = 0

\* What a thread knows at its place.
Places ==
    \A t \in Threads :
        /\ pc[t] \in {"init", "store", "own"} => ~ready[t]
        /\ pc[t] = "own" => newId[t] \in managers
        /\ pc[t] = "inside" => serving[t] = thread_id[t] /\ serving[t] \in managers
        /\ pc[t] = "inside" /\ arg[t] # Nobody => serving[t] = owner[arg[t]]

\* A header names the manager of the object's bag, which is stored by the time the
\* object is used.
Homes ==
    \A o \in Objects : owner[o] = home[o] /\ (InUse(o) => owner[o] \in managers)

ManagersInv ==
    /\ ThreadsTypeOK /\ IdsUnique /\ OwnIds /\ Places /\ Homes /\ CrashOnlyAtStart

-----------------------------------------------------------------------------
(* The threads with an id.                                                 *)

LEMMA WithIdFinite ==
    ASSUME ThreadsTypeOK
    PROVE  /\ IsFiniteSet(WithId) /\ Cardinality(WithId) \in Nat
           /\ Cardinality(WithId) <= Cardinality(Threads)
           /\ Cardinality(Threads) \in Nat
<1>1. IsFiniteSet(Threads) /\ WithId \in SUBSET Threads
  BY ThreadsAssumption DEF WithId
<1>2. QED
  BY <1>1, FS_Subset, FS_CardinalityType

\* A thread without an id finds thread_bump below MAX_THREAD.
LEMMA RoomForId ==
    ASSUME ManagersInv, NEW t \in Threads, t \notin WithId
    PROVE  thread_bump \in Ids
<1>1. IsFiniteSet(Threads) /\ WithId \in SUBSET Threads /\ WithId # Threads
  BY ThreadsAssumption DEF WithId
<1>2. Cardinality(WithId) # Cardinality(Threads)
  BY <1>1, FS_Subset
<1>3. QED
  BY <1>2, WithIdFinite, ThreadsAssumption DEF ManagersInv, IdsUnique, Ids

-----------------------------------------------------------------------------
(* Initial state and steps.                                                *)

LEMMA ThreadsInitHolds == ThreadsInit => ManagersInv
<1> SUFFICES ASSUME ThreadsInit PROVE ManagersInv
  OBVIOUS
<1>1. WithId = {} /\ thread_bump = 0 /\ Cardinality({}) = 0
  BY FS_EmptySet DEF ThreadsInit, WithId
<1>2. ThreadsTypeOK
  <2>1. 0 \in Ids /\ 0 \in 0 .. MaxThread
    BY ThreadsAssumption DEF Ids
  <2>2. QED
    BY <2>1 DEF ThreadsInit, ThreadsTypeOK
<1>3. IdsUnique
  BY <1>1 DEF IdsUnique
<1>4. OwnIds /\ Places /\ Homes /\ CrashOnlyAtStart
  BY ThreadsAssumption DEF ThreadsInit, OwnIds, Places, Homes, InUse, CrashOnlyAtStart
<1>5. QED
  BY <1>2, <1>3, <1>4 DEF ManagersInv

\* A call begins or goes on, and nothing but its place and its argument changes; it
\* frees an object that was live, or allocates.
LEMMA CallStep ==
    ASSUME ManagersInv, NEW t \in Threads,
           css_malloc(t) \/ css_calloc(t) \/ \E o \in Objects : css_free(t, o)
    PROVE  ManagersInv'
<1> USE DEF ManagersInv
<1>1. /\ pc[t] = "idle" /\ pc' \in [Threads -> {"idle", "init", "store", "own", "stats", "enter", "inside"}]
      /\ pc'[t] \in {"init", "enter"} /\ (pc'[t] = "init" => ~ready[t])
      /\ \A u \in Threads : u # t => pc'[u] = pc[u]
      /\ arg' \in [Threads -> Objects \cup {Nobody}]
      /\ \A u \in Threads : u # t => arg'[u] = arg[u]
      /\ arg'[t] \in live \cup {Nobody} /\ live' \subseteq live
      /\ UNCHANGED <<process, thread_bump, managers, stats, thread_id, ready, newId,
                     serving, owner, home>>
  BY DEF css_malloc, css_calloc, css_free, At, Goto, AfterTest, ThreadsTypeOK
<1>2. WithId' = WithId
  BY <1>1 DEF WithId
<1>3. ThreadsTypeOK'
  BY <1>1 DEF ThreadsTypeOK
<1>4. IdsUnique'
  BY <1>1, <1>2 DEF IdsUnique
<1>5. OwnIds' /\ Places'
  BY <1>1 DEF OwnIds, Places
<1>6. Homes'
  <2>1. \A o \in Objects : InUse(o)' => InUse(o)
    BY <1>1, ThreadsAssumption DEF InUse
  <2>2. QED
    BY <2>1, <1>1 DEF Homes
<1>7. CrashOnlyAtStart'
  BY <1>1 DEF CrashOnlyAtStart
<1>8. QED
  BY <1>3, <1>4, <1>5, <1>6, <1>7

\* The id a thread gets is new.
LEMMA FetchAddStep ==
    ASSUME ManagersInv, NEW t \in Threads, FetchAdd(t)
    PROVE  ManagersInv'
<1> USE DEF ManagersInv
<1>1. /\ pc[t] = "init" /\ pc' = [pc EXCEPT ![t] = "store"]
      /\ newId' = [newId EXCEPT ![t] = thread_bump] /\ thread_bump' = thread_bump + 1
      /\ UNCHANGED <<process, managers, stats, thread_id, ready, arg, serving, owner,
                     home, live>>
  BY DEF FetchAdd, At, Goto
<1>2. ~ready[t] /\ t \notin WithId
  BY <1>1 DEF Places, WithId
<1>3. thread_bump \in Ids
  BY <1>2, RoomForId
<1>4. ThreadsTypeOK'
  BY <1>1, <1>3, ThreadsAssumption DEF ThreadsTypeOK, Ids
<1>5. WithId' = WithId \cup {t}
  BY <1>1 DEF WithId, ThreadsTypeOK
<1>6. IdsUnique'
  <2>1. Cardinality(WithId') = Cardinality(WithId) + 1
    BY <1>2, <1>5, WithIdFinite, FS_AddElement
  <2>2. \A u \in WithId : newId'[u] = newId[u] /\ newId[u] \in Nat /\ newId[u] < thread_bump
    BY <1>1, <1>2 DEF IdsUnique, ThreadsTypeOK, WithId, Ids
  <2>3. newId'[t] = thread_bump /\ thread_bump \in Nat
    BY <1>1 DEF ThreadsTypeOK
  <2>4. \A u \in WithId' : newId'[u] < thread_bump'
    BY <2>2, <2>3, <1>1, <1>5
  <2>5. \A u, v \in WithId' : newId'[u] = newId'[v] => u = v
    BY <2>2, <2>3, <1>5 DEF IdsUnique
  <2>6. QED
    BY <2>1, <2>4, <2>5, <1>1 DEF IdsUnique
<1>7. OwnIds' /\ Places'
  BY <1>1, <1>2 DEF OwnIds, Places, ThreadsTypeOK
<1>8. Homes' /\ CrashOnlyAtStart'
  BY <1>1 DEF Homes, InUse, CrashOnlyAtStart
<1>9. QED
  BY <1>4, <1>6, <1>7, <1>8

\* The manager is stored under the id.
LEMMA StoreManagerStep ==
    ASSUME ManagersInv, NEW t \in Threads, StoreManager(t)
    PROVE  ManagersInv'
<1> USE DEF ManagersInv
<1>1. /\ process = "run" /\ pc[t] = "store" /\ pc' = [pc EXCEPT ![t] = "own"]
      /\ managers' = managers \cup {newId[t]}
      /\ UNCHANGED <<process, thread_bump, stats, thread_id, ready, newId, arg,
                     serving, owner, home, live>>
  BY DEF StoreManager, At, Goto
<1>2. ThreadsTypeOK'
  BY <1>1 DEF ThreadsTypeOK
<1>3. WithId' = WithId
  BY <1>1 DEF WithId, ThreadsTypeOK
<1>4. IdsUnique'
  BY <1>1, <1>3 DEF IdsUnique
<1>5. OwnIds'
  BY <1>1 DEF OwnIds
<1>6. Places'
  BY <1>1 DEF Places, ThreadsTypeOK
<1>7. Homes' /\ CrashOnlyAtStart'
  BY <1>1 DEF Homes, InUse, CrashOnlyAtStart
<1>8. QED
  BY <1>2, <1>4, <1>5, <1>6, <1>7

\* The thread is ready, under its id.
LEMMA OwnManagerStep ==
    ASSUME ManagersInv, NEW t \in Threads, OwnManager(t)
    PROVE  ManagersInv'
<1> USE DEF ManagersInv
<1>1. /\ pc[t] = "own" /\ pc' \in [Threads -> {"idle", "init", "store", "own", "stats", "enter", "inside"}]
      /\ pc'[t] \in {"stats", "enter"} /\ \A u \in Threads : u # t => pc'[u] = pc[u]
      /\ thread_id' = [thread_id EXCEPT ![t] = newId[t]]
      /\ ready' = [ready EXCEPT ![t] = TRUE]
      /\ UNCHANGED <<process, thread_bump, managers, stats, newId, arg, serving, owner,
                     home, live>>
  BY DEF OwnManager, At, Goto, ThreadsTypeOK
<1>2. newId[t] \in managers
  BY <1>1 DEF Places
<1>3. ThreadsTypeOK'
  BY <1>1 DEF ThreadsTypeOK
<1>4. WithId' = WithId
  BY <1>1 DEF WithId, ThreadsTypeOK
<1>5. IdsUnique'
  BY <1>1, <1>4 DEF IdsUnique
<1>6. OwnIds'
  BY <1>1, <1>2 DEF OwnIds, ThreadsTypeOK
<1>7. Places'
  BY <1>1 DEF Places, ThreadsTypeOK
<1>8. Homes' /\ CrashOnlyAtStart'
  BY <1>1 DEF Homes, InUse, CrashOnlyAtStart
<1>9. QED
  BY <1>3, <1>5, <1>6, <1>7, <1>8

\* The counters are mapped.
LEMMA MapStatsStep ==
    ASSUME ManagersInv, NEW t \in Threads, MapStats(t)
    PROVE  ManagersInv'
<1> USE DEF ManagersInv
<1>1. /\ process = "run" /\ pc[t] = "stats" /\ pc' = [pc EXCEPT ![t] = "enter"] /\ stats' = TRUE
      /\ UNCHANGED <<process, thread_bump, managers, thread_id, ready, newId, arg,
                     serving, owner, home, live>>
  BY DEF MapStats, At, Goto
<1>2. WithId' = WithId
  BY <1>1 DEF WithId, ThreadsTypeOK
<1>3. ThreadsTypeOK' /\ IdsUnique' /\ OwnIds'
  BY <1>1, <1>2 DEF ThreadsTypeOK, IdsUnique, OwnIds
<1>4. Places' /\ Homes' /\ CrashOnlyAtStart'
  BY <1>1 DEF Places, Homes, InUse, CrashOnlyAtStart, ThreadsTypeOK
<1>5. QED
  BY <1>3, <1>4

\* A thread that enters a manager works under its own id, which is stored.
LEMMA EnterStep ==
    ASSUME ManagersInv, NEW t \in Threads, EnterManager(t)
    PROVE  ManagersInv'
<1> USE DEF ManagersInv
<1>1. /\ process = "run" /\ pc[t] = "enter" /\ pc' = [pc EXCEPT ![t] = "inside"]
      /\ thread_id[t] \in managers /\ serving' = [serving EXCEPT ![t] = thread_id[t]]
      /\ arg[t] # Nobody => owner[arg[t]] = thread_id[t]
      /\ UNCHANGED <<process, thread_bump, managers, stats, thread_id, ready, newId,
                     arg, owner, home, live>>
  BY DEF EnterManager, At, Goto, Allocates, IsLocal
<1>2. WithId' = WithId
  BY <1>1 DEF WithId, ThreadsTypeOK
<1>3. ThreadsTypeOK' /\ IdsUnique' /\ OwnIds'
  BY <1>1, <1>2 DEF ThreadsTypeOK, IdsUnique, OwnIds
<1>4. Places' /\ Homes' /\ CrashOnlyAtStart'
  BY <1>1 DEF Places, Homes, InUse, CrashOnlyAtStart, ThreadsTypeOK
<1>5. QED
  BY <1>3, <1>4

\* A null pointer is met: by a thread whose id has no manager, which is not ready
\* and has id 0, or before the counters are mapped.
LEMMA EnterNullStep ==
    ASSUME ManagersInv, NEW t \in Threads, EnterNull(t)
    PROVE  ManagersInv'
<1> USE DEF ManagersInv
<1>1. /\ process' = "crash" /\ (thread_id[t] \notin managers \/ ~stats)
      /\ UNCHANGED <<thread_bump, managers, stats, thread_id, ready, pc, newId, arg,
                     serving, owner, home, live>>
  BY DEF EnterNull
<1>2. WithId' = WithId
  BY <1>1 DEF WithId
<1>3. ThreadsTypeOK' /\ IdsUnique' /\ OwnIds' /\ Places' /\ Homes'
  BY <1>1, <1>2 DEF EnterNull, ThreadsTypeOK, IdsUnique, OwnIds, Places, Homes, InUse
<1>4. CrashOnlyAtStart'
  BY <1>1 DEF EnterNull, CrashOnlyAtStart, OwnIds
<1>5. QED
  BY <1>3, <1>4

\* A free returns, its object pushed to another manager or put back.
LEMMA FreedStep ==
    ASSUME ManagersInv, NEW t \in Threads, PushRemote(t) \/ ReturnFree(t)
    PROVE  ManagersInv'
<1> USE DEF ManagersInv
<1>1. /\ process = "run" /\ pc[t] \in {"enter", "inside"} /\ pc' = [pc EXCEPT ![t] = "idle"]
      /\ arg' = [arg EXCEPT ![t] = Nobody]
      /\ UNCHANGED <<process, thread_bump, managers, stats, thread_id, ready, newId,
                     serving, owner, home, live>>
  BY DEF PushRemote, ReturnFree, At, Goto
<1>2. WithId' = WithId
  BY <1>1 DEF WithId, ThreadsTypeOK
<1>3. ThreadsTypeOK' /\ IdsUnique' /\ OwnIds' /\ Places'
  BY <1>1, <1>2 DEF ThreadsTypeOK, IdsUnique, OwnIds, Places
<1>4. \A o \in Objects : InUse(o)' => InUse(o)
  BY <1>1, ThreadsAssumption DEF InUse, ThreadsTypeOK
<1>5. Homes' /\ CrashOnlyAtStart'
  BY <1>1, <1>4 DEF Homes, CrashOnlyAtStart
<1>6. QED
  BY <1>3, <1>5

\* The object returned is one that nobody had, so no thread is freeing it.
LEMMA ReturnObjectStep ==
    ASSUME ManagersInv, NEW t \in Threads, NEW o \in Objects, ReturnObject(t, o)
    PROVE  ManagersInv'
<1> USE DEF ManagersInv
<1>1. /\ process = "run" /\ pc[t] = "inside" /\ ~InUse(o) /\ pc' = [pc EXCEPT ![t] = "idle"]
      /\ owner' = [owner EXCEPT ![o] = serving[t]] /\ home' = [home EXCEPT ![o] = serving[t]]
      /\ live' = live \cup {o}
      /\ UNCHANGED <<process, thread_bump, managers, stats, thread_id, ready, newId,
                     arg, serving>>
  BY DEF ReturnObject, At, Goto
<1>2. WithId' = WithId
  BY <1>1 DEF WithId, ThreadsTypeOK
<1>3. ThreadsTypeOK' /\ IdsUnique' /\ OwnIds'
  BY <1>1, <1>2 DEF ThreadsTypeOK, IdsUnique, OwnIds
<1>4. \A u \in Threads : arg[u] # o
  BY <1>1 DEF InUse
<1>5. Places'
  BY <1>1, <1>4 DEF Places, ThreadsTypeOK
<1>6. \A x \in Objects : x # o => (InUse(x)' <=> InUse(x))
  BY <1>1 DEF InUse
<1>7. Homes'
  <2>1. serving[t] \in managers
    BY <1>1 DEF Places
  <2>2. QED
    BY <2>1, <1>1, <1>6 DEF Homes, ThreadsTypeOK
<1>8. CrashOnlyAtStart'
  BY <1>1 DEF CrashOnlyAtStart
<1>9. QED
  BY <1>3, <1>5, <1>7, <1>8

LEMMA ThreadsStepKeeps ==
    ASSUME ManagersInv, [ThreadsNext]_threadVars
    PROVE  ManagersInv'
<1>1. ASSUME NEW t \in Threads, css_malloc(t) \/ css_calloc(t) PROVE ManagersInv'
  BY <1>1, CallStep
<1>2. ASSUME NEW t \in Threads, NEW o \in Objects, css_free(t, o) PROVE ManagersInv'
  BY <1>2, CallStep
<1>3. CASE UNCHANGED threadVars
  BY <1>3 DEF threadVars, ManagersInv, ThreadsTypeOK, IdsUnique, WithId, OwnIds, Places, Homes, InUse,
             CrashOnlyAtStart
<1>4. QED
  BY <1>1, <1>2, <1>3, FetchAddStep, StoreManagerStep, OwnManagerStep, MapStatsStep, EnterStep,
     EnterNullStep, FreedStep, ReturnObjectStep DEF ThreadsNext, Crashed

-----------------------------------------------------------------------------
(* The theorems.                                                           *)

\* The inductive invariant of ThreadManagers holds.
THEOREM ManagersInvariant == ThreadsSpec => []ManagersInv
<1>1. QED
  BY ThreadsInitHolds, ThreadsStepKeeps, PTL DEF ThreadsSpec

\* As many threads as globalMemoryManager has entries never write behind it
\* (init_thread): every id is below MAX_THREAD.
THEOREM IdsInside == ThreadsSpec => []ThreadsTypeOK
<1>1. ManagersInv => ThreadsTypeOK
  BY DEF ManagersInv
<1>2. QED
  BY <1>1, ManagersInvariant, PTL

\* Threads that have been through init_thread never share a manager, and one that
\* has not only works in that of thread 0.
THEOREM ManagersApart == ThreadsSpec => []ManagersKept
<1>1. ASSUME ManagersInv PROVE ManagersKept
  <2>1. ASSUME NEW t \in Threads, NEW u \in Threads, NEW m \in Ids,
               t # u, Inside(t, m), Inside(u, m), ready[t], ready[u]
        PROVE  FALSE
    <3>1. newId[t] = m /\ newId[u] = m
      BY <2>1, <1>1 DEF ManagersInv, Places, OwnIds, Inside
    <3>2. QED
      BY <3>1, <2>1, <1>1 DEF ManagersInv, IdsUnique, WithId
  <2>2. ASSUME NEW t \in Threads, NEW m \in Ids \ {0}, Inside(t, m) PROVE ready[t]
    BY <2>2, <1>1 DEF ManagersInv, Places, OwnIds, Inside
  <2>3. QED
    BY <2>1, <2>2 DEF ManagersKept
<1>2. QED
  BY <1>1, ManagersInvariant, PTL

\* Every free ends at the manager the object came from (css_free).
THEOREM FreesGoHome == ThreadsSpec => []FreedAtHome
<1>1. ASSUME ManagersInv PROVE FreedAtHome
  <2>1. SUFFICES ASSUME NEW t \in Threads, arg[t] # Nobody, pc[t] \in {"enter", "inside"}
                 PROVE  /\ owner[arg[t]] = home[arg[t]] /\ owner[arg[t]] \in managers
                        /\ pc[t] = "inside" => serving[t] = home[arg[t]]
    BY DEF FreedAtHome, Allocates
  <2>2. arg[t] \in Objects /\ InUse(arg[t])
    BY <2>1, <1>1 DEF ManagersInv, ThreadsTypeOK, InUse
  <2>3. QED
    BY <2>1, <2>2, <1>1 DEF ManagersInv, Homes, Places
<1>2. QED
  BY <1>1, ManagersInvariant, PTL

\* A null manager or counter is met only before thread 0 is through init_thread.
THEOREM CrashesEarly == ThreadsSpec => []CrashOnlyAtStart
<1>1. ManagersInv => CrashOnlyAtStart
  BY DEF ManagersInv
<1>2. QED
  BY <1>1, ManagersInvariant, PTL

-----------------------------------------------------------------------------
(* CsiTables: naturals.                                                    *)

Less == {p \in Nat \X Nat : p[1] < p[2]}

LEMMA LessWF == IsWellFoundedOn(Less, Nat)
  BY NatLessThanWellFounded DEF OpToRel, Less

\* A nonempty set of naturals has a least element.
LEMMA LeastNatural ==
    ASSUME NEW S, S \subseteq Nat, S # {}
    PROVE  \E x \in S : \A y \in S : x <= y
<1>1. PICK x \in S : \A y \in S : ~ (<<y, x>> \in Less)
  BY LessWF, WFMin
<1>2. ASSUME NEW y \in S PROVE x <= y
  <2>1. x \in Nat /\ y \in Nat
    OBVIOUS
  <2>2. <<y, x>> \in Nat \X Nat /\ <<y, x>>[1] = y /\ <<y, x>>[2] = x
    BY <2>1
  <2>3. ~ (y < x)
    BY <2>2, <1>1 DEF Less
  <2>4. QED
    BY <2>1, <2>3
<1>3. QED
  BY <1>2

-----------------------------------------------------------------------------
(* Remainders: open addressing with linear probing.                        *)

\* A larger multiple is larger by at least one more of the number.
LEMMA ProductGrows ==
    ASSUME NEW p \in Nat, NEW q \in Nat, NEW n \in Nat, p < q
    PROVE  p * n + n <= q * n
<1>1. PICK d \in Nat : q = p + 1 + d
  <2>1. q - p - 1 \in Nat /\ q = p + 1 + (q - p - 1)
    OBVIOUS
  <2>2. QED
    BY <2>1
<1>2. q * n = p * n + n + d * n
  BY <1>1
<1>3. d * n \in Nat /\ p * n \in Nat
  OBVIOUS
<1>4. QED
  BY <1>2, <1>3

\* The remainder of a division is unique.
LEMMA ModUnique ==
    ASSUME NEW n \in Nat \ {0}, NEW p \in Nat, NEW q \in Nat,
           NEW r \in 0 .. n - 1, NEW s \in 0 .. n - 1, p * n + r = q * n + s
    PROVE  r = s
<1>1. p * n \in Nat /\ q * n \in Nat
  OBVIOUS
<1>2. CASE p < q
  BY <1>1, <1>2, ProductGrows
<1>3. CASE q < p
  BY <1>1, <1>3, ProductGrows
<1>4. CASE p = q
  BY <1>1, <1>4
<1>5. QED
  BY <1>2, <1>3, <1>4

\* Division with remainder, in the form the proofs below use.
LEMMA DivMod ==
    ASSUME NEW n \in Nat \ {0}, NEW a \in Nat
    PROVE  a \div n \in Nat /\ a % n \in 0 .. n - 1 /\ a = (a \div n) * n + (a % n)
OBVIOUS

\* The remainder of a number written as a multiple and a rest.
LEMMA ModIs ==
    ASSUME NEW n \in Nat \ {0}, NEW q \in Nat, NEW r \in 0 .. n - 1
    PROVE  (q * n + r) % n = r
<1> DEFINE a == q * n + r
<1>1. a \in Nat
  OBVIOUS
<1>2. a \div n \in Nat /\ a % n \in 0 .. n - 1 /\ a = (a \div n) * n + (a % n)
  BY <1>1, DivMod
<1>3. a = q * n + r
  OBVIOUS
<1> HIDE DEF a
<1>4. a % n = r
  BY <1>2, <1>3, ModUnique
<1>5. QED
  BY <1>4 DEF a

\* The slot that is k steps behind that of h in a ring of n slots.
LEMMA ProbeAt ==
    ASSUME NEW n \in Nat \ {0}, NEW h \in Nat, NEW k \in 0 .. n - 1
    PROVE  (h + k) % n = IF (h % n) + k < n THEN (h % n) + k ELSE (h % n) + k - n
<1> DEFINE q == h \div n
           r == h % n
<1>1. q \in Nat /\ r \in 0 .. n - 1 /\ h = q * n + r
  BY DivMod
<1> HIDE DEF q, r
<1>2. q * n \in Nat /\ (q + 1) * n = q * n + n
  BY <1>1
<1>3. CASE r + k < n
  <2>1. r + k \in 0 .. n - 1 /\ h + k = q * n + (r + k)
    BY <1>1, <1>2, <1>3
  <2>2. (h + k) % n = r + k
    BY <2>1, <1>1, ModIs
  <2>3. QED
    BY <2>2, <1>3 DEF r
<1>4. CASE ~ (r + k < n)
  <2>1. /\ q + 1 \in Nat /\ r + k - n \in 0 .. n - 1
        /\ h + k = (q + 1) * n + (r + k - n)
    BY <1>1, <1>2, <1>4
  <2>2. (h + k) % n = r + k - n
    BY <2>1, <1>1, ModIs
  <2>3. QED
    BY <2>2, <1>4 DEF r
<1>5. QED
  BY <1>3, <1>4

\* A search that starts anywhere in a ring and takes n steps sees every slot once.
LEMMA ProbeFacts ==
    ASSUME NEW n \in Nat \ {0}, NEW h \in Nat
    PROVE  /\ \A k \in 0 .. n - 1 : (h + k) % n \in 0 .. n - 1
           /\ \A j, k \in 0 .. n - 1 : (h + j) % n = (h + k) % n => j = k
           /\ \A i \in 0 .. n - 1 : \E k \in 0 .. n - 1 : (h + k) % n = i
<1> DEFINE r == h % n
           SlotAt(k) == IF r + k < n THEN r + k ELSE r + k - n
<1>1. r \in 0 .. n - 1
  BY DivMod
<1>2. \A k \in 0 .. n - 1 : (h + k) % n = SlotAt(k)
  BY ProbeAt
<1> HIDE DEF r
<1>3. \A k \in 0 .. n - 1 : SlotAt(k) \in 0 .. n - 1
  BY <1>1
<1>4. \A j, k \in 0 .. n - 1 : SlotAt(j) = SlotAt(k) => j = k
  BY <1>1
<1>5. ASSUME NEW i \in 0 .. n - 1 PROVE \E k \in 0 .. n - 1 : SlotAt(k) = i
  <2>1. CASE r <= i
    <3>1. i - r \in 0 .. n - 1 /\ SlotAt(i - r) = i
      BY <1>1, <2>1
    <3>2. QED
      BY <3>1
  <2>2. CASE i < r
    <3>1. i - r + n \in 0 .. n - 1 /\ SlotAt(i - r + n) = i
      BY <1>1, <2>2
    <3>2. QED
      BY <3>1
  <2>3. QED
    BY <1>1, <2>1, <2>2
<1> HIDE DEF SlotAt
<1>6. QED
  BY <1>2, <1>3, <1>4, <1>5

-----------------------------------------------------------------------------

LazyOffsets == 0 .. LazyN - 1
TableOffsets == 0 .. TableN - 1

\* The search for an id other than 0 that is in the lazy table ends at its slot: every
\* slot probed before holds another id, and none of them is empty.
LazyChains ==
    \A c \in CSIs \ {0}, k \in LazyOffsets :
        lazyIdentifiers[Slot(c, k, LazyN)].CSI = c =>
            \A j \in LazyOffsets : j < k => lazyIdentifiers[Slot(c, j, LazyN)].CSI \notin {0, c}

\* The slot of an id other than 0 counts its lazy allocations.  (The slot of id 0 can be
\* taken over by another id, and its count is lost.)
LazyCounts ==
    /\ \A i \in LazyOffsets :
         lazyIdentifiers[i].CSI # 0 =>
             /\ lazyIdentifiers[i].occurCount > 0
             /\ lazyIdentifiers[i].occurCount = lazyGiven[lazyIdentifiers[i].CSI]
    /\ \A c \in CSIs \ {0} :
         lazyGiven[c] # 0 => \E i \in LazyOffsets : lazyIdentifiers[i].CSI = c

\* The same of the table of bags, whose empty slots hold NoCSI.
TableChains ==
    \A c \in CSIs, k \in TableOffsets :
        individualBIBOP[Slot(c, k, TableN)].CSI = c =>
            \A j \in TableOffsets :
                j < k => individualBIBOP[Slot(c, j, TableN)].CSI \notin {NoCSI, c}

\* A bag is in one place of the table at most, and in no empty slot.
BagsPlaced ==
    /\ \A i \in TableOffsets, sc \in SizeClasses :
         /\ individualBIBOP[i].ptr[sc] <= bags
         /\ individualBIBOP[i].CSI = NoCSI => individualBIBOP[i].ptr[sc] = NoBag
    /\ \A i, j \in TableOffsets, s, u \in SizeClasses :
         /\ individualBIBOP[i].ptr[s] = individualBIBOP[j].ptr[u]
         /\ individualBIBOP[i].ptr[s] # NoBag
         => i = j /\ s = u

\* A bag that served an allocation is still where the table has its id and size class.
GivenPlaced ==
    \A x \in bagGiven :
        /\ x[3] # NoBag
        /\ \E i \in TableOffsets : /\ individualBIBOP[i].CSI = x[1]
                                   /\ individualBIBOP[i].ptr[x[2]] = x[3]

TablesInv ==
    /\ TypeOK /\ LazyChains /\ LazyCounts /\ TableChains /\ BagsPlaced /\ GivenPlaced
    /\ ExitOnlyWhenFull

-----------------------------------------------------------------------------
(* Probing.                                                                *)

\* The probes of an id visit every slot of a table once.
LEMMA SlotFacts ==
    ASSUME NEW c \in CSIs, NEW n \in Nat \ {0}
    PROVE  /\ \A k \in 0 .. n - 1 : Slot(c, k, n) \in 0 .. n - 1
           /\ \A j, k \in 0 .. n - 1 : Slot(c, j, n) = Slot(c, k, n) => j = k
           /\ \A i \in 0 .. n - 1 : \E k \in 0 .. n - 1 : Slot(c, k, n) = i
<1>1. hash(c) \in Nat
  <2>1. c % HashN \in 0 .. HashN - 1
    BY CsiAssumption, TablesAssumption, DivMod
  <2>2. QED
    BY <2>1, TablesAssumption DEF hash
<1>2. QED
  BY <1>1, ProbeFacts DEF Slot

\* A search stops at the first offset where it can.
LEMMA FirstStop ==
    ASSUME NEW n \in Nat, NEW S \in SUBSET (0 .. n), S # {}
    PROVE  Min(S) \in S /\ \A k \in S : Min(S) <= k
<1>1. S \subseteq Nat
  OBVIOUS
<1>2. \E x \in S : \A y \in S : x <= y
  BY <1>1, LeastNatural
<1>3. QED
  BY <1>2 DEF Min

\* The slot where the search for an id in the lazy table ends: it holds the id, or it is
\* empty and the id is nowhere.
LEMMA LazySlotFacts ==
    ASSUME TablesInv, NEW c \in CSIs, LazyStops(c) # {}
    PROVE  \E k \in LazyOffsets :
              /\ LazySlot(c) = Slot(c, k, LazyN) /\ LazySlot(c) \in LazyOffsets
              /\ lazyIdentifiers[LazySlot(c)].CSI \in {0, c}
              /\ \A j \in LazyOffsets :
                    j < k => lazyIdentifiers[Slot(c, j, LazyN)].CSI \notin {0, c}
              /\ \A i \in LazyOffsets :
                    c # 0 /\ lazyIdentifiers[i].CSI = c => i = LazySlot(c)
<1> DEFINE k == Min(LazyStops(c))
<1>1. LazyN - 1 \in Nat /\ LazyStops(c) \in SUBSET LazyOffsets
  BY TablesAssumption DEF LazyStops, LazyOffsets
<1>2. k \in LazyStops(c) /\ \A j \in LazyStops(c) : k <= j
  BY <1>1, FirstStop DEF LazyOffsets
<1>3. LazySlot(c) = Slot(c, k, LazyN)
  BY DEF LazySlot
<1> HIDE DEF k
<1>4. k \in LazyOffsets /\ lazyIdentifiers[LazySlot(c)].CSI \in {0, c}
  BY <1>2, <1>3 DEF LazyStops, LazyOffsets
<1>5. LazySlot(c) \in LazyOffsets
  BY <1>3, <1>4, SlotFacts, TablesAssumption DEF LazyOffsets
<1>6. ASSUME NEW j \in LazyOffsets, j < k
      PROVE  lazyIdentifiers[Slot(c, j, LazyN)].CSI \notin {0, c}
  <2>1. j \notin LazyStops(c)
    BY <1>2, <1>4, <1>6 DEF LazyOffsets
  <2>2. QED
    BY <2>1 DEF LazyStops, LazyOffsets
<1>7. ASSUME NEW i \in LazyOffsets, c # 0, lazyIdentifiers[i].CSI = c
      PROVE  i = LazySlot(c)
  <2>1. PICK m \in LazyOffsets : Slot(c, m, LazyN) = i
    BY SlotFacts, TablesAssumption DEF LazyOffsets
  <2>2. k <= m
    BY <2>1, <1>2, <1>7 DEF LazyStops, LazyOffsets
  <2>3. ~ (k < m)
    BY <2>1, <1>3, <1>4, <1>7 DEF TablesInv, LazyChains
  <2>4. k = m
    BY <2>2, <2>3, <1>4 DEF LazyOffsets
  <2>5. QED
    BY <2>1, <2>4, <1>3
<1>8. QED
  BY <1>3, <1>4, <1>5, <1>6, <1>7

\* The same of the table of bags.
LEMMA TableSlotFacts ==
    ASSUME TablesInv, NEW c \in CSIs, TableStops(c) # {}
    PROVE  \E k \in TableOffsets :
              /\ TableSlot(c) = Slot(c, k, TableN) /\ TableSlot(c) \in TableOffsets
              /\ individualBIBOP[TableSlot(c)].CSI \in {NoCSI, c}
              /\ \A j \in TableOffsets :
                    j < k => individualBIBOP[Slot(c, j, TableN)].CSI \notin {NoCSI, c}
              /\ \A i \in TableOffsets : individualBIBOP[i].CSI = c => i = TableSlot(c)
<1> DEFINE k == Min(TableStops(c))
<1>1. TableN - 1 \in Nat /\ TableStops(c) \in SUBSET TableOffsets
  BY TablesAssumption DEF TableStops, TableOffsets
<1>2. k \in TableStops(c) /\ \A j \in TableStops(c) : k <= j
  BY <1>1, FirstStop DEF TableOffsets
<1>3. TableSlot(c) = Slot(c, k, TableN)
  BY DEF TableSlot
<1> HIDE DEF k
<1>4. k \in TableOffsets /\ individualBIBOP[TableSlot(c)].CSI \in {NoCSI, c}
  BY <1>2, <1>3 DEF TableStops, TableOffsets
<1>5. TableSlot(c) \in TableOffsets
  BY <1>3, <1>4, SlotFacts, TablesAssumption DEF TableOffsets
<1>6. ASSUME NEW j \in TableOffsets, j < k
      PROVE  individualBIBOP[Slot(c, j, TableN)].CSI \notin {NoCSI, c}
  <2>1. j \notin TableStops(c)
    BY <1>2, <1>4, <1>6 DEF TableOffsets
  <2>2. QED
    BY <2>1 DEF TableStops, TableOffsets
<1>7. ASSUME NEW i \in TableOffsets, individualBIBOP[i].CSI = c
      PROVE  i = TableSlot(c)
  <2>1. PICK m \in TableOffsets : Slot(c, m, TableN) = i
    BY SlotFacts, TablesAssumption DEF TableOffsets
  <2>2. k <= m
    BY <2>1, <1>2, <1>7 DEF TableStops, TableOffsets
  <2>3. ~ (k < m)
    BY <2>1, <1>3, <1>4, <1>7 DEF TablesInv, TableChains
  <2>4. k = m
    BY <2>2, <2>3, <1>4 DEF TableOffsets
  <2>5. QED
    BY <2>1, <2>4, <1>3
<1>8. QED
  BY <1>3, <1>4, <1>5, <1>6, <1>7

-----------------------------------------------------------------------------
(* Initial state and steps.                                                *)

LEMMA InitHolds == Init => TablesInv
<1> SUFFICES ASSUME Init PROVE TablesInv
  OBVIOUS
<1>1. \A i \in LazyOffsets : lazyIdentifiers[i].CSI = 0 /\ lazyIdentifiers[i].occurCount = 0
  BY DEF Init, LazyOffsets
<1>2. \A i \in TableOffsets :
         individualBIBOP[i].CSI = NoCSI /\ \A sc \in SizeClasses : individualBIBOP[i].ptr[sc] = NoBag
  BY DEF Init, TableOffsets
<1>3. TypeOK
  BY TablesAssumption DEF Init, TypeOK, NoBag
<1>4. LazyChains
  BY <1>1, SlotFacts, TablesAssumption DEF LazyChains, LazyOffsets
<1>5. LazyCounts
  BY <1>1 DEF Init, LazyCounts
<1>6. TableChains
  BY <1>2, SlotFacts, TablesAssumption, CsiAssumption DEF TableChains, TableOffsets
<1>7. BagsPlaced
  <2>1. NoBag <= bags
    BY DEF Init, NoBag
  <2>2. QED
    BY <1>2, <2>1 DEF BagsPlaced
<1>8. GivenPlaced /\ ExitOnlyWhenFull
  BY DEF Init, GivenPlaced, ExitOnlyWhenFull
<1>9. QED
  BY <1>3, <1>4, <1>5, <1>6, <1>7, <1>8 DEF TablesInv

\* A lazy allocation counts up the slot of its id, or takes an empty slot for an id that
\* has none.
LEMMA LazyMallocStep ==
    ASSUME TablesInv, NEW c \in CSIs, LazyMalloc(c)
    PROVE  TablesInv'
<1> USE DEF TablesInv
<1>1. /\ status = "run" /\ LazyStops(c) # {} /\ LazyRoom(c)
      /\ lazyIdentifiers' = [lazyIdentifiers EXCEPT ![LazySlot(c)] = Put(c, @)]
      /\ lazyGiven' = [lazyGiven EXCEPT ![c] = @ + 1]
      /\ UNCHANGED <<status, individualBIBOP, bags, bagGiven>>
  BY DEF LazyMalloc
<1> DEFINE s == LazySlot(c)
<1>2. PICK k \in LazyOffsets :
              /\ s = Slot(c, k, LazyN) /\ s \in LazyOffsets
              /\ lazyIdentifiers[s].CSI \in {0, c}
              /\ \A j \in LazyOffsets :
                    j < k => lazyIdentifiers[Slot(c, j, LazyN)].CSI \notin {0, c}
              /\ \A i \in LazyOffsets : c # 0 /\ lazyIdentifiers[i].CSI = c => i = s
  BY <1>1, LazySlotFacts
<1> HIDE DEF s
<1>3. /\ lazyIdentifiers \in [LazyOffsets -> [CSI : CSIs \cup {0}, occurCount : 0 .. LazyOccur]]
      /\ lazyGiven \in [CSIs -> Nat]
  BY DEF TypeOK, LazyOffsets
<1>4. lazyIdentifiers' = [lazyIdentifiers EXCEPT ![s] = Put(c, lazyIdentifiers[s])]
  BY <1>1 DEF s
<1>5. /\ lazyIdentifiers'[s] = Put(c, lazyIdentifiers[s])
      /\ \A i \in LazyOffsets : i # s => lazyIdentifiers'[i] = lazyIdentifiers[i]
  BY <1>2, <1>3, <1>4
<1>6. /\ Put(c, lazyIdentifiers[s]) \in [CSI : CSIs \cup {0}, occurCount : 0 .. LazyOccur]
      /\ lazyIdentifiers'[s].CSI = c /\ lazyIdentifiers'[s].occurCount > 0
      /\ lazyIdentifiers[s].CSI = c =>
            lazyIdentifiers'[s].occurCount = lazyIdentifiers[s].occurCount + 1
      /\ lazyIdentifiers[s].CSI # c => lazyIdentifiers'[s].occurCount = 1
  <2>1. lazyIdentifiers[s] \in [CSI : CSIs \cup {0}, occurCount : 0 .. LazyOccur]
    BY <1>2, <1>3
  <2>2. CASE lazyIdentifiers[s].CSI = c
    <3>1. lazyIdentifiers[s].occurCount < LazyOccur
      BY <1>1, <2>2 DEF LazyRoom, s
    <3>2. Put(c, lazyIdentifiers[s]) =
             [lazyIdentifiers[s] EXCEPT !.occurCount = lazyIdentifiers[s].occurCount + 1]
      BY <2>2 DEF Put
    <3>3. lazyIdentifiers[s].occurCount + 1 \in 1 .. LazyOccur
      BY <2>1, <3>1, TablesAssumption
    <3>4. QED
      BY <2>1, <2>2, <3>2, <3>3, <1>5
  <2>3. CASE lazyIdentifiers[s].CSI # c
    <3>1. Put(c, lazyIdentifiers[s]) = [CSI |-> c, occurCount |-> 1]
      BY <2>3 DEF Put
    <3>2. 1 \in 0 .. LazyOccur
      BY TablesAssumption
    <3>3. QED
      BY <2>3, <3>1, <3>2, <1>5
  <2>4. QED
    BY <2>2, <2>3
<1>7. TypeOK'
  <2>1. lazyIdentifiers' \in [LazyOffsets -> [CSI : CSIs \cup {0}, occurCount : 0 .. LazyOccur]]
    BY <1>2, <1>3, <1>4, <1>6
  <2>2. lazyGiven' \in [CSIs -> Nat]
    BY <1>1, <1>3
  <2>3. QED
    BY <2>1, <2>2, <1>1 DEF TypeOK, LazyOffsets
<1>8. LazyChains'
  <2>1. SUFFICES ASSUME NEW d \in CSIs \ {0}, NEW m \in LazyOffsets, NEW j \in LazyOffsets,
                        lazyIdentifiers'[Slot(d, m, LazyN)].CSI = d, j < m
                 PROVE  lazyIdentifiers'[Slot(d, j, LazyN)].CSI \notin {0, d}
    BY DEF LazyChains
  <2>2. Slot(d, m, LazyN) \in LazyOffsets /\ Slot(d, j, LazyN) \in LazyOffsets
    BY SlotFacts, TablesAssumption DEF LazyOffsets
  <2>3. CASE d # c
    <3>1. lazyIdentifiers[Slot(d, m, LazyN)].CSI = d
      BY <2>1, <2>2, <2>3, <1>5, <1>6
    <3>2. lazyIdentifiers[Slot(d, j, LazyN)].CSI \notin {0, d}
      BY <3>1, <2>1 DEF LazyChains
    <3>3. Slot(d, j, LazyN) = s => c # 0
      BY <3>2, <1>2
    <3>4. QED
      BY <3>2, <3>3, <2>2, <2>3, <1>5, <1>6
  <2>4. CASE d = c
    <3>1. Slot(c, m, LazyN) = s
      BY <2>1, <2>2, <2>4, <1>2, <1>5
    <3>2. m = k
      BY <3>1, <1>2, SlotFacts, TablesAssumption DEF LazyOffsets
    <3>3. lazyIdentifiers[Slot(c, j, LazyN)].CSI \notin {0, c}
      BY <3>2, <2>1, <1>2
    <3>4. Slot(c, j, LazyN) # s
      BY <3>3, <1>2
    <3>5. QED
      BY <3>3, <3>4, <2>2, <2>4, <1>5
  <2>5. QED
    BY <2>3, <2>4
<1>9. LazyCounts'
  <2>1. ASSUME NEW i \in LazyOffsets, lazyIdentifiers'[i].CSI # 0
        PROVE  /\ lazyIdentifiers'[i].occurCount > 0
               /\ lazyIdentifiers'[i].occurCount = lazyGiven'[lazyIdentifiers'[i].CSI]
    <3>1. CASE i = s
      <4>1. c # 0 /\ lazyGiven'[c] = lazyGiven[c] + 1
        BY <2>1, <3>1, <1>1, <1>3, <1>6
      <4>2. lazyIdentifiers[s].CSI = c => lazyIdentifiers[s].occurCount = lazyGiven[c]
        BY <4>1, <1>2 DEF LazyCounts
      <4>3. lazyIdentifiers[s].CSI # c => lazyGiven[c] = 0
        BY <4>1, <1>2 DEF LazyCounts
      <4>4. QED
        BY <3>1, <4>1, <4>2, <4>3, <1>3, <1>6
    <3>2. CASE i # s
      <4>1. lazyIdentifiers'[i] = lazyIdentifiers[i] /\ lazyIdentifiers[i].CSI \in CSIs \cup {0}
        BY <3>2, <1>3, <1>5
      <4>2. lazyIdentifiers[i].CSI # c
        BY <4>1, <3>2, <2>1, <1>2
      <4>3. lazyGiven'[lazyIdentifiers[i].CSI] = lazyGiven[lazyIdentifiers[i].CSI]
        BY <4>1, <4>2, <2>1, <1>1, <1>3
      <4>4. QED
        BY <4>1, <4>3, <2>1 DEF LazyCounts
    <3>3. QED
      BY <3>1, <3>2
  <2>2. ASSUME NEW d \in CSIs \ {0}, lazyGiven'[d] # 0
        PROVE  \E i \in LazyOffsets : lazyIdentifiers'[i].CSI = d
    <3>1. CASE d = c
      BY <3>1, <1>2, <1>6
    <3>2. CASE d # c
      <4>1. PICK i \in LazyOffsets : lazyIdentifiers[i].CSI = d
        BY <2>2, <3>2, <1>1, <1>3 DEF LazyCounts
      <4>2. i # s
        BY <4>1, <3>2, <1>2
      <4>3. QED
        BY <4>1, <4>2, <1>5
    <3>3. QED
      BY <3>1, <3>2
  <2>3. QED
    BY <2>1, <2>2 DEF LazyCounts
<1>10. TableChains' /\ BagsPlaced' /\ GivenPlaced'
  BY <1>1 DEF TableChains, BagsPlaced, GivenPlaced
<1>11. ExitOnlyWhenFull'
  BY <1>1 DEF ExitOnlyWhenFull
<1>12. QED
  BY <1>7, <1>8, <1>9, <1>10, <1>11

\* A search that finds no slot has seen them all, and none was empty.
LEMMA FullStep ==
    ASSUME TablesInv, NEW c \in CSIs, LazyFull(c) \/ TableFull(c)
    PROVE  TablesInv'
<1> USE DEF TablesInv
<1>1. /\ status' = "exit" /\ (LazyStops(c) = {} \/ TableStops(c) = {})
      /\ UNCHANGED <<lazyIdentifiers, individualBIBOP, bags, lazyGiven, bagGiven>>
  BY DEF LazyFull, TableFull
<1>2. TypeOK' /\ LazyChains' /\ LazyCounts' /\ TableChains' /\ BagsPlaced' /\ GivenPlaced'
  BY <1>1 DEF TypeOK, LazyChains, LazyCounts, TableChains, BagsPlaced, GivenPlaced
<1>3. CASE LazyStops(c) = {}
  <2>1. ASSUME NEW i \in LazyOffsets PROVE lazyIdentifiers[i].occurCount > 0
    <3>1. PICK k \in LazyOffsets : Slot(c, k, LazyN) = i
      BY SlotFacts, TablesAssumption DEF LazyOffsets
    <3>2. lazyIdentifiers[i].CSI # 0
      BY <3>1, <1>3 DEF LazyStops, LazyOffsets
    <3>3. QED
      BY <3>2 DEF LazyCounts
  <2>2. DOMAIN lazyIdentifiers = LazyOffsets
    BY DEF TypeOK, LazyOffsets
  <2>3. QED
    BY <2>1, <2>2, <1>1, <1>2 DEF ExitOnlyWhenFull
<1>4. CASE TableStops(c) = {}
  <2>1. ASSUME NEW i \in TableOffsets PROVE individualBIBOP[i].CSI # NoCSI
    <3>1. PICK k \in TableOffsets : Slot(c, k, TableN) = i
      BY SlotFacts, TablesAssumption DEF TableOffsets
    <3>2. QED
      BY <3>1, <1>4 DEF TableStops, TableOffsets
  <2>2. DOMAIN individualBIBOP = TableOffsets
    BY DEF TypeOK, TableOffsets
  <2>3. QED
    BY <2>1, <2>2, <1>1, <1>2 DEF ExitOnlyWhenFull
<1>5. QED
  BY <1>1, <1>2, <1>3, <1>4

\* A bag that is found is the one the table has for the id and size class.
LEMMA BagFoundStep ==
    ASSUME TablesInv, NEW c \in CSIs, NEW sc \in SizeClasses, BagFound(c, sc)
    PROVE  TablesInv'
<1> USE DEF TablesInv
<1> DEFINE b == individualBIBOP[TableSlot(c)].ptr[sc]
<1>1. /\ status = "run" /\ TableStops(c) # {} /\ individualBIBOP[TableSlot(c)].CSI = c
      /\ b # NoBag /\ bagGiven' = bagGiven \cup {<<c, sc, b>>}
      /\ UNCHANGED <<status, lazyIdentifiers, individualBIBOP, bags, lazyGiven>>
  BY DEF BagFound, PastLazy
<1>2. TableSlot(c) \in TableOffsets
  BY <1>1, TableSlotFacts
<1>3. TypeOK'
  <2>1. b \in Nat
    BY <1>2 DEF TypeOK, TableOffsets
  <2>2. QED
    BY <2>1, <1>1 DEF TypeOK
<1>4. LazyChains' /\ LazyCounts' /\ TableChains' /\ BagsPlaced' /\ ExitOnlyWhenFull'
  BY <1>1 DEF LazyChains, LazyCounts, TableChains, BagsPlaced, ExitOnlyWhenFull
<1>5. GivenPlaced'
  <2>1. SUFFICES ASSUME NEW x \in bagGiven'
                 PROVE  /\ x[3] # NoBag
                        /\ \E i \in TableOffsets : /\ individualBIBOP[i].CSI = x[1]
                                                   /\ individualBIBOP[i].ptr[x[2]] = x[3]
    BY <1>1 DEF GivenPlaced
  <2>2. CASE x \in bagGiven
    BY <2>2 DEF GivenPlaced
  <2>3. CASE x = <<c, sc, b>>
    <3>1. x[1] = c /\ x[2] = sc /\ x[3] = b
      BY <2>3
    <3>2. QED
      BY <3>1, <1>1, <1>2
  <2>4. QED
    BY <2>1, <2>2, <2>3, <1>1
<1>6. QED
  BY <1>3, <1>4, <1>5

\* The bag that is created has a new number, and the place it takes held none.
LEMMA BagCreatedStep ==
    ASSUME TablesInv, NEW c \in CSIs, NEW sc \in SizeClasses, BagCreated(c, sc)
    PROVE  TablesInv'
<1> USE DEF TablesInv
<1> DEFINE s == TableSlot(c)
           b == bags + 1
<1>1. /\ TableStops(c) # {} /\ NeedsBag(c, sc)
      /\ individualBIBOP' = [individualBIBOP EXCEPT ![s].CSI = c, ![s].ptr[sc] = b]
      /\ bags' = b /\ bagGiven' = bagGiven \cup {<<c, sc, b>>}
      /\ UNCHANGED <<status, lazyIdentifiers, lazyGiven>>
  BY DEF BagCreated
<1>2. PICK k \in TableOffsets :
              /\ s = Slot(c, k, TableN) /\ s \in TableOffsets
              /\ individualBIBOP[s].CSI \in {NoCSI, c}
              /\ \A j \in TableOffsets :
                    j < k => individualBIBOP[Slot(c, j, TableN)].CSI \notin {NoCSI, c}
              /\ \A i \in TableOffsets : individualBIBOP[i].CSI = c => i = s
  BY <1>1, TableSlotFacts
<1>3. individualBIBOP[s].CSI = NoCSI \/ individualBIBOP[s].ptr[sc] = NoBag
  BY <1>1 DEF NeedsBag
<1> HIDE DEF s
<1>4. /\ individualBIBOP \in [TableOffsets -> [CSI : CSIs \cup {NoCSI}, ptr : [SizeClasses -> Nat]]]
      /\ bags \in Nat /\ b \in Nat /\ b = bags + 1 /\ b # NoBag
  BY DEF TypeOK, TableOffsets, NoBag
<1> HIDE DEF b
<1>5. individualBIBOP[s].ptr[sc] = NoBag
  BY <1>2, <1>3 DEF BagsPlaced
<1>6. /\ individualBIBOP' \in [TableOffsets -> [CSI : CSIs \cup {NoCSI}, ptr : [SizeClasses -> Nat]]]
      /\ individualBIBOP'[s].CSI = c /\ individualBIBOP'[s].ptr[sc] = b
      /\ \A u \in SizeClasses : u # sc => individualBIBOP'[s].ptr[u] = individualBIBOP[s].ptr[u]
      /\ \A i \in TableOffsets : i # s => individualBIBOP'[i] = individualBIBOP[i]
  BY <1>1, <1>2, <1>4
<1>7. TypeOK'
  <2>1. <<c, sc, b>> \in CSIs \X SizeClasses \X Nat
    BY <1>4
  <2>2. bagGiven' \in SUBSET (CSIs \X SizeClasses \X Nat)
    BY <2>1, <1>1 DEF TypeOK
  <2>3. QED
    BY <2>2, <1>1, <1>4, <1>6 DEF TypeOK, TableOffsets
<1>8. LazyChains' /\ LazyCounts'
  BY <1>1 DEF LazyChains, LazyCounts
<1>9. TableChains'
  <2>1. SUFFICES ASSUME NEW d \in CSIs, NEW m \in TableOffsets, NEW j \in TableOffsets,
                        individualBIBOP'[Slot(d, m, TableN)].CSI = d, j < m
                 PROVE  individualBIBOP'[Slot(d, j, TableN)].CSI \notin {NoCSI, d}
    BY DEF TableChains
  <2>2. Slot(d, m, TableN) \in TableOffsets /\ Slot(d, j, TableN) \in TableOffsets
    BY SlotFacts, TablesAssumption DEF TableOffsets
  <2>3. CASE d # c
    <3>1. individualBIBOP[Slot(d, m, TableN)].CSI = d
      BY <2>1, <2>2, <2>3, <1>6
    <3>2. individualBIBOP[Slot(d, j, TableN)].CSI \notin {NoCSI, d}
      BY <3>1, <2>1 DEF TableChains
    <3>3. QED
      BY <3>2, <2>2, <2>3, <1>6, CsiAssumption
  <2>4. CASE d = c
    <3>1. Slot(c, m, TableN) = s
      BY <2>1, <2>2, <2>4, <1>2, <1>6
    <3>2. m = k
      BY <3>1, <1>2, SlotFacts, TablesAssumption DEF TableOffsets
    <3>3. individualBIBOP[Slot(c, j, TableN)].CSI \notin {NoCSI, c}
      BY <3>2, <2>1, <1>2
    <3>4. Slot(c, j, TableN) # s
      BY <3>3, <1>2
    <3>5. QED
      BY <3>3, <3>4, <2>2, <2>4, <1>6
  <2>5. QED
    BY <2>3, <2>4
\* Every place but the new one holds the bag it held.
<1>10. \A i \in TableOffsets, u \in SizeClasses :
          \/ i = s /\ u = sc /\ individualBIBOP'[i].ptr[u] = b
          \/ /\ ~ (i = s /\ u = sc)
             /\ individualBIBOP'[i].ptr[u] = individualBIBOP[i].ptr[u]
             /\ individualBIBOP[i].ptr[u] # b /\ individualBIBOP[i].ptr[u] <= bags
  <2>1. SUFFICES ASSUME NEW i \in TableOffsets, NEW u \in SizeClasses, ~ (i = s /\ u = sc)
                 PROVE  /\ individualBIBOP'[i].ptr[u] = individualBIBOP[i].ptr[u]
                        /\ individualBIBOP[i].ptr[u] # b /\ individualBIBOP[i].ptr[u] <= bags
    BY <1>6
  <2>2. individualBIBOP'[i].ptr[u] = individualBIBOP[i].ptr[u]
    BY <2>1, <1>6
  <2>3. individualBIBOP[i].ptr[u] <= bags /\ individualBIBOP[i].ptr[u] \in Nat
    BY <1>4 DEF BagsPlaced
  <2>4. QED
    BY <2>2, <2>3, <1>4
<1>11. BagsPlaced'
  <2>1. ASSUME NEW i \in TableOffsets, NEW u \in SizeClasses
        PROVE  individualBIBOP'[i].ptr[u] <= b
    <3>1. individualBIBOP'[i].ptr[u] = b \/ individualBIBOP'[i].ptr[u] <= bags
      BY <1>10
    <3>2. individualBIBOP'[i].ptr[u] \in Nat
      BY <1>6
    <3>3. QED
      BY <3>1, <3>2, <1>4
  <2>2. ASSUME NEW i \in TableOffsets, NEW u \in SizeClasses, individualBIBOP'[i].CSI = NoCSI
        PROVE  individualBIBOP'[i].ptr[u] = NoBag
    <3>1. i # s
      BY <2>2, <1>6, CsiAssumption
    <3>2. QED
      BY <3>1, <2>2, <1>6 DEF BagsPlaced
  <2>3. ASSUME NEW i \in TableOffsets, NEW j \in TableOffsets,
               NEW v \in SizeClasses, NEW u \in SizeClasses,
               individualBIBOP'[i].ptr[v] = individualBIBOP'[j].ptr[u],
               individualBIBOP'[i].ptr[v] # NoBag
        PROVE  i = j /\ v = u
    BY <2>3, <1>10 DEF BagsPlaced
  <2>4. bags' = b
    BY <1>1
  <2>5. QED
    BY <2>1, <2>2, <2>3, <2>4 DEF BagsPlaced
<1>12. GivenPlaced'
  <2>1. SUFFICES ASSUME NEW x \in bagGiven'
                 PROVE  /\ x[3] # NoBag
                        /\ \E i \in TableOffsets : /\ individualBIBOP'[i].CSI = x[1]
                                                   /\ individualBIBOP'[i].ptr[x[2]] = x[3]
    BY DEF GivenPlaced
  <2>2. CASE x \in bagGiven
    <3>1. x[1] \in CSIs /\ x[2] \in SizeClasses /\ x[3] # NoBag
      BY <2>2 DEF TypeOK, GivenPlaced
    <3>2. PICK i \in TableOffsets : /\ individualBIBOP[i].CSI = x[1]
                                    /\ individualBIBOP[i].ptr[x[2]] = x[3]
      BY <2>2 DEF GivenPlaced
    <3>3. ~ (i = s /\ x[2] = sc)
      BY <3>1, <3>2, <1>5
    <3>4. individualBIBOP'[i].ptr[x[2]] = x[3]
      BY <3>1, <3>2, <3>3, <1>10
    <3>5. individualBIBOP'[i].CSI = x[1]
      BY <3>1, <3>2, <1>2, <1>6, CsiAssumption
    <3>6. QED
      BY <3>1, <3>4, <3>5
  <2>3. CASE x = <<c, sc, b>>
    <3>1. x[1] = c /\ x[2] = sc /\ x[3] = b
      BY <2>3
    <3>2. QED
      BY <3>1, <1>2, <1>4, <1>6
  <2>4. QED
    BY <2>1, <2>2, <2>3, <1>1
<1>13. ExitOnlyWhenFull'
  <2>1. status = "run"
    BY DEF BagCreated, PastLazy
  <2>2. QED
    BY <2>1, <1>1 DEF ExitOnlyWhenFull
<1>14. QED
  BY <1>7, <1>8, <1>9, <1>11, <1>12, <1>13

LEMMA StepKeeps ==
    ASSUME TablesInv, [Next]_vars
    PROVE  TablesInv'
<1>1. CASE UNCHANGED vars
  BY <1>1 DEF vars, TablesInv, TypeOK, LazyChains, LazyCounts, TableChains, BagsPlaced,
              GivenPlaced, ExitOnlyWhenFull
<1>2. QED
  BY <1>1, LazyMallocStep, FullStep, BagFoundStep, BagCreatedStep DEF Next, Exited

-----------------------------------------------------------------------------
(* The theorems.                                                           *)

\* The inductive invariant of CsiTables holds.
THEOREM TablesInvariant == Spec => []TablesInv
<1>1. QED
  BY InitHolds, StepKeeps, PTL DEF Spec

\* Every variable keeps its shape, and no count in lazyIdentifiers passes LAZY_OCCUR
\* (tryPutToLazyPool).
THEOREM CountsBounded == Spec => []TypeOK
<1>1. TablesInv => TypeOK
  BY DEF TablesInv
<1>2. QED
  BY <1>1, TablesInvariant, PTL

\* However ids collide in lazyIdentifiers, an id other than 0 gets at most LAZY_OCCUR
\* allocations from the global bags (tryPutToLazyPool).
THEOREM LazyBounded == Spec => []LazyBound
<1>1. ASSUME TablesInv PROVE LazyBound
  <2>1. SUFFICES ASSUME NEW c \in CSIs \ {0} PROVE lazyGiven[c] <= LazyOccur
    BY DEF LazyBound
  <2>2. CASE lazyGiven[c] = 0
    BY <2>2, TablesAssumption
  <2>3. CASE lazyGiven[c] # 0
    <3>1. PICK i \in LazyOffsets : lazyIdentifiers[i].CSI = c
      BY <2>3, <1>1 DEF TablesInv, LazyCounts
    <3>2. lazyIdentifiers[i].occurCount = lazyGiven[c]
      BY <3>1, <1>1 DEF TablesInv, LazyCounts
    <3>3. lazyIdentifiers[i].occurCount \in 0 .. LazyOccur
      BY <1>1 DEF TablesInv, TypeOK, LazyOffsets
    <3>4. QED
      BY <3>2, <3>3, TablesAssumption
  <2>4. QED
    BY <2>2, <2>3
<1>2. QED
  BY <1>1, TablesInvariant, PTL

\* However ids collide in individualBIBOP, two allocations past the lazy ones come from
\* one bag exactly when they have the same id and size class (getIndividualBIBOPbyCSI).
THEOREM SitesIsolated == Spec => []BagPerSite
<1>1. ASSUME TablesInv PROVE BagPerSite
  <2>1. SUFFICES ASSUME NEW x \in bagGiven, NEW y \in bagGiven
                 PROVE  (x[3] = y[3]) <=> (x[1] = y[1] /\ x[2] = y[2])
    BY DEF BagPerSite
  <2>2. PICK i \in TableOffsets : individualBIBOP[i].CSI = x[1] /\ individualBIBOP[i].ptr[x[2]] = x[3]
    BY <1>1 DEF TablesInv, GivenPlaced
  <2>3. PICK j \in TableOffsets : individualBIBOP[j].CSI = y[1] /\ individualBIBOP[j].ptr[y[2]] = y[3]
    BY <1>1 DEF TablesInv, GivenPlaced
  <2>4. /\ x[1] \in CSIs /\ x[2] \in SizeClasses /\ x[3] # NoBag
        /\ y[1] \in CSIs /\ y[2] \in SizeClasses
    BY <1>1 DEF TablesInv, GivenPlaced, TypeOK
  <2>5. ASSUME x[3] = y[3] PROVE x[1] = y[1] /\ x[2] = y[2]
    BY <2>2, <2>3, <2>4, <2>5, <1>1 DEF TablesInv, BagsPlaced
  <2>6. ASSUME x[1] = y[1], x[2] = y[2] PROVE x[3] = y[3]
    <3>1. TableStops(x[1]) # {}
      <4>1. PICK k \in TableOffsets : Slot(x[1], k, TableN) = i
        BY <2>4, SlotFacts, TablesAssumption DEF TableOffsets
      <4>2. QED
        BY <4>1, <2>2 DEF TableStops, TableOffsets
    <3>2. i = TableSlot(x[1]) /\ j = TableSlot(x[1])
      BY <3>1, <2>2, <2>3, <2>4, <2>6, <1>1, TableSlotFacts
    <3>3. QED
      BY <3>2, <2>2, <2>3, <2>6
  <2>7. QED
    BY <2>5, <2>6
<1>2. QED
  BY <1>1, TablesInvariant, PTL

\* The two exit(1) of the tables are never premature, wherever the searches start and
\* wrap around.
THEOREM ExitsOnlyWhenFull == Spec => []ExitOnlyWhenFull
<1>1. TablesInv => ExitOnlyWhenFull
  BY DEF TablesInv
<1>2. QED
  BY <1>1, TablesInvariant, PTL

=============================================================================
