-------------------------- MODULE RemoteFreeProofs --------------------------
(***************************************************************************)
(* Proofs about RemoteFree for every set of objects and threads: the list  *)
(* stays intact, no object is lost or duplicated, the double-free report   *)
(* never hits a correct program, and each call takes effect atomically.    *)
(***************************************************************************)
EXTENDS RemoteFree, TLAPS

-----------------------------------------------------------------------------
(* Linked lists: the sequence of their elements.                           *)

\* Popping takes the head off the list, and only the head.
LEMMA PopFacts ==
    ASSUME NEW S, NEW s \in Seq(S), s # <<>>
    PROVE  /\ Head(s) \in Range(s) /\ Head(s) \in S
           /\ Tail(s) \in Seq(S)
           /\ Range(s) = Range(Tail(s)) \cup {Head(s)}
           /\ IsInjective(s) => IsInjective(Tail(s)) /\ Head(s) \notin Range(Tail(s))
<1>1. Len(s) \in Nat /\ Len(s) > 0 /\ DOMAIN s = 1 .. Len(s)
  OBVIOUS
<1>2. Tail(s) \in Seq(S) /\ Len(Tail(s)) = Len(s) - 1
       /\ DOMAIN Tail(s) = 1 .. (Len(s) - 1)
  BY <1>1
<1>3. \A i \in 1 .. (Len(s) - 1) : Tail(s)[i] = s[i + 1]
  BY <1>1
<1>4. Head(s) = s[1] /\ Head(s) \in S
  BY <1>1
<1>5. Range(s) \subseteq Range(Tail(s)) \cup {Head(s)}
  <2>1. SUFFICES ASSUME NEW i \in DOMAIN s
                 PROVE  s[i] \in Range(Tail(s)) \cup {Head(s)}
    BY DEF Range
  <2>2. CASE i = 1
    BY <2>2, <1>4
  <2>3. CASE i # 1
    <3>1. i - 1 \in 1 .. (Len(s) - 1) /\ i - 1 + 1 = i
      BY <2>3, <1>1
    <3>2. Tail(s)[i - 1] = s[i] /\ i - 1 \in DOMAIN Tail(s)
      BY <3>1, <1>2, <1>3
    <3>3. QED
      BY <3>2 DEF Range
  <2>4. QED
    BY <2>2, <2>3
<1>6. Range(Tail(s)) \subseteq Range(s)
  BY <1>1, <1>2, <1>3 DEF Range
<1>7. Head(s) \in Range(s)
  BY <1>1, <1>4 DEF Range
<1>8. ASSUME IsInjective(s)
      PROVE  IsInjective(Tail(s)) /\ Head(s) \notin Range(Tail(s))
  <2>1. \A i \in DOMAIN Tail(s) : /\ i + 1 \in DOMAIN s /\ i + 1 # 1
                                  /\ Tail(s)[i] = s[i + 1]
    BY <1>1, <1>2, <1>3
  <2>2. Head(s) \notin Range(Tail(s))
    BY <2>1, <1>1, <1>4, <1>8 DEF IsInjective, Range
  <2>3. \A i, j \in DOMAIN Tail(s) : Tail(s)[i] = Tail(s)[j] => i + 1 = j + 1
    BY <2>1, <1>8 DEF IsInjective
  <2>4. \A i, j \in DOMAIN Tail(s) : i + 1 = j + 1 => i = j
    BY <1>1, <1>2
  <2>5. QED
    BY <2>2, <2>3, <2>4 DEF IsInjective
<1>9. QED
  BY <1>2, <1>4, <1>5, <1>6, <1>7, <1>8

\* Pushing adds one element; a new one keeps the list free of repeats.
LEMMA PushFacts ==
    ASSUME NEW S, NEW s \in Seq(S), NEW a \in S
    PROVE  /\ <<a>> \o s \in Seq(S)
           /\ Range(<<a>> \o s) = Range(s) \cup {a}
           /\ (IsInjective(s) /\ a \notin Range(s)) => IsInjective(<<a>> \o s)
<1> DEFINE t == <<a>> \o s
<1>1. Len(s) \in Nat /\ DOMAIN s = 1 .. Len(s)
  OBVIOUS
<1>2. t \in Seq(S) /\ Len(t) = Len(s) + 1 /\ DOMAIN t = 1 .. (Len(s) + 1)
  BY <1>1
<1>3. t[1] = a /\ \A i \in 1 .. Len(s) : t[i + 1] = s[i]
  BY <1>1
<1>4. \A i \in 2 .. (Len(s) + 1) : t[i] = s[i - 1] /\ i - 1 \in 1 .. Len(s)
  BY <1>1
<1> HIDE DEF t
<1>5. Range(t) \subseteq Range(s) \cup {a}
  <2>1. SUFFICES ASSUME NEW i \in DOMAIN t PROVE t[i] \in Range(s) \cup {a}
    BY DEF Range
  <2>2. i = 1 \/ i \in 2 .. (Len(s) + 1)
    BY <1>1, <1>2
  <2>3. QED
    BY <2>2, <1>1, <1>3, <1>4 DEF Range
<1>6. Range(s) \subseteq Range(t)
  <2>1. SUFFICES ASSUME NEW i \in DOMAIN s PROVE s[i] \in Range(t)
    BY DEF Range
  <2>2. i + 1 \in DOMAIN t /\ t[i + 1] = s[i]
    BY <1>1, <1>2, <1>3
  <2>3. QED
    BY <2>2 DEF Range
<1>7. a \in Range(t)
  <2>1. 1 \in DOMAIN t
    BY <1>1, <1>2
  <2>2. QED
    BY <2>1, <1>3 DEF Range
<1>8. ASSUME IsInjective(s), a \notin Range(s) PROVE IsInjective(t)
  <2>1. SUFFICES ASSUME NEW i \in DOMAIN t, NEW j \in DOMAIN t, t[i] = t[j]
                 PROVE  i = j
    BY DEF IsInjective
  <2>2. /\ i = 1 \/ i \in 2 .. (Len(s) + 1)
        /\ j = 1 \/ j \in 2 .. (Len(s) + 1)
    BY <1>1, <1>2
  <2>3. CASE i \in 2 .. (Len(s) + 1) /\ j \in 2 .. (Len(s) + 1)
    <3>1. i - 1 = j - 1
      BY <2>1, <2>3, <1>1, <1>4, <1>8 DEF IsInjective
    <3>2. QED
      BY <3>1, <2>3, <1>1
  <2>4. CASE i = 1 /\ j \in 2 .. (Len(s) + 1)
    BY <2>1, <2>4, <1>1, <1>3, <1>4, <1>8 DEF Range
  <2>5. CASE j = 1 /\ i \in 2 .. (Len(s) + 1)
    BY <2>1, <2>5, <1>1, <1>3, <1>4, <1>8 DEF Range
  <2>6. QED
    BY <2>2, <2>3, <2>4, <2>5
<1>9. QED
  BY <1>2, <1>5, <1>6, <1>7, <1>8 DEF t

\* Where the elements are after a push, and after a pop.
LEMMA PushIndex ==
    ASSUME NEW S, NEW s \in Seq(S), NEW a \in S
    PROVE  /\ Len(s) \in Nat /\ DOMAIN s = 1 .. Len(s)
           /\ Len(<<a>> \o s) = Len(s) + 1
           /\ DOMAIN (<<a>> \o s) = 1 .. (Len(s) + 1)
           /\ (<<a>> \o s)[1] = a
           /\ \A i \in 2 .. (Len(s) + 1) : (<<a>> \o s)[i] = s[i - 1]
OBVIOUS

LEMMA PopIndex ==
    ASSUME NEW S, NEW s \in Seq(S), s # <<>>
    PROVE  /\ Len(s) \in Nat \ {0} /\ DOMAIN s = 1 .. Len(s)
           /\ Head(s) = s[1]
           /\ Len(Tail(s)) = Len(s) - 1
           /\ DOMAIN Tail(s) = 1 .. (Len(s) - 1)
           /\ \A i \in 1 .. (Len(s) - 1) : Tail(s)[i] = s[i + 1]
OBVIOUS

-----------------------------------------------------------------------------

\* What a thread in the middle of a call knows.
InFlight ==
    /\ pc = "load" => pending # <<>>
    /\ pc \in {"next", "cas"} => cur \in Range(pending)
    /\ pc = "cas" => next = nxt[cur]
    /\ \A r \in Remotes : rpc[r] # "idle" => robj[r] \in Objects
    /\ \A r \in Remotes : rpc[r] = "cas" => nxt[robj[r]] = rhead[r]

\* The A bit is set exactly on the objects that are not in the bag: the exclusive
\* or of setAllocation then always sets it.
BitsRight == \A o \in Objects : isAllocation[o] = (o \notin inBag)

ListInv ==
    /\ TypeOK /\ ListIntact /\ OneHome /\ NoFalseDoubleFree
    /\ InFlight /\ BitsRight

-----------------------------------------------------------------------------
(* Initial state.                                                          *)

LEMMA InitHolds == Init => ListInv
<1> SUFFICES ASSUME Init PROVE ListInv
  OBVIOUS
<1>1. pending \in Seq(Objects) /\ DOMAIN pending = {} /\ Range(pending) = {}
  BY DEF Init, Range
<1>2. Freeing = {} /\ Processing = {} /\ Returning = {}
  BY DEF Init, Freeing, Processing, Returning
<1>3. TypeOK
  BY <1>1 DEF Init, TypeOK, Pointers
<1>4. ListIntact
  BY <1>1 DEF Init, ListIntact
<1>5. OneHome
  BY <1>1, <1>2 DEF Init, OneHome, IsInjective
<1>6. NoFalseDoubleFree /\ InFlight /\ BitsRight
  BY DEF Init, NoFalseDoubleFree, InFlight, BitsRight
<1>7. QED
  BY <1>3, <1>4, <1>5, <1>6 DEF ListInv

-----------------------------------------------------------------------------
(* The steps of freeOtherThreadMemory.                                     *)

\* The freed object passes from the program to the thread that frees it.
LEMMA RemoteBeginStep ==
    ASSUME ListInv, NEW r \in Remotes, NEW o \in live, RemoteBegin(r, o)
    PROVE  ListInv'
<1> USE DEF ListInv
<1>1. /\ rpc[r] = "idle" /\ o \in live /\ live' = live \ {o} /\ o \in Objects
      /\ rpc' = [rpc EXCEPT ![r] = "load"] /\ robj' = [robj EXCEPT ![r] = o]
      /\ UNCHANGED <<status, FreeList, nxt, isAllocation, inBag, pc, arg, cur,
                     next, rhead, pending>>
  BY DEF RemoteBegin, TypeOK, ownerVars
<1>2. /\ rpc \in [Remotes -> {"idle", "load", "link", "cas"}]
      /\ robj \in [Remotes -> Pointers]
      /\ rpc'[r] = "load" /\ robj'[r] = o
      /\ \A s \in Remotes : s # r => rpc'[s] = rpc[s] /\ robj'[s] = robj[s]
  BY <1>1 DEF TypeOK
<1>3. /\ Freeing' = Freeing \cup {o} /\ Processing' = Processing
      /\ Returning' = Returning /\ Range(pending)' = Range(pending)
  <2>1. Freeing' = Freeing \cup {o}
    BY <1>1, <1>2 DEF Freeing
  <2>2. QED
    BY <2>1, <1>1 DEF Processing, Returning
<1>4. TypeOK'
  BY <1>1, <1>2 DEF TypeOK, Pointers
<1>5. ListIntact'
  BY <1>1 DEF ListIntact
<1>6. OneHome'
  <2>1. \A s \in Remotes : rpc[s] # "idle" => robj[s] \in Freeing
    BY DEF Freeing
  <2>2. o \notin Freeing
    BY <1>1 DEF OneHome
  <2>3. \A q, s \in Remotes :
          rpc'[q] # "idle" /\ rpc'[s] # "idle" /\ robj'[q] = robj'[s] => q = s
    BY <2>1, <2>2, <1>2 DEF OneHome
  <2>4. QED
    BY <2>3, <1>1, <1>3 DEF OneHome
<1>7. InFlight' /\ BitsRight' /\ NoFalseDoubleFree'
  BY <1>1, <1>2 DEF InFlight, BitsRight, NoFalseDoubleFree
<1>8. QED
  BY <1>4, <1>5, <1>6, <1>7

\* Loads and failed exchanges change only the thread's own copy.
LEMMA RemoteLocalStep ==
    ASSUME ListInv, NEW r \in Remotes, RemoteLoad(r) \/ RemoteRetry(r)
    PROVE  ListInv'
<1> USE DEF ListInv
<1>1. /\ rpc[r] # "idle" /\ rpc' \in [Remotes -> {"idle", "load", "link", "cas"}]
      /\ rhead' \in [Remotes -> Pointers]
      /\ rpc'[r] \in {"load", "link"}
      /\ \A s \in Remotes : s # r => rpc'[s] = rpc[s] /\ rhead'[s] = rhead[s]
      /\ UNCHANGED <<status, FreeList, nxt, isAllocation, inBag, live, pc, arg,
                     cur, next, robj, pending>>
  BY DEF RemoteLoad, RemoteRetry, TypeOK, ownerVars
<1>2. /\ Freeing' = Freeing /\ Processing' = Processing
      /\ Returning' = Returning /\ Range(pending)' = Range(pending)
  <2>1. \A s \in Remotes : (rpc'[s] # "idle") = (rpc[s] # "idle")
    BY <1>1
  <2>2. Freeing' = Freeing
    BY <2>1, <1>1 DEF Freeing
  <2>3. QED
    BY <2>2, <1>1 DEF Processing, Returning
<1>3. TypeOK'
  BY <1>1 DEF TypeOK
<1>4. ListIntact'
  BY <1>1 DEF ListIntact
<1>5. OneHome'
  <2>1. \A q, s \in Remotes :
          rpc'[q] # "idle" /\ rpc'[s] # "idle" /\ robj'[q] = robj'[s] => q = s
    BY <1>1 DEF OneHome
  <2>2. QED
    BY <2>1, <1>1, <1>2 DEF OneHome
<1>6. InFlight' /\ BitsRight' /\ NoFalseDoubleFree'
  BY <1>1 DEF InFlight, BitsRight, NoFalseDoubleFree
<1>7. QED
  BY <1>3, <1>4, <1>5, <1>6

\* The link is written into an object that only this thread has.
LEMMA RemoteLinkStep ==
    ASSUME ListInv, NEW r \in Remotes, RemoteLink(r)
    PROVE  ListInv'
<1> USE DEF ListInv
<1>1. /\ rpc[r] = "link" /\ rpc' = [rpc EXCEPT ![r] = "cas"]
      /\ nxt' = [nxt EXCEPT ![robj[r]] = rhead[r]]
      /\ UNCHANGED <<status, FreeList, isAllocation, inBag, live, pc, arg,
                     cur, next, robj, rhead, pending>>
  BY DEF RemoteLink, ownerVars
<1>2. /\ rpc \in [Remotes -> {"idle", "load", "link", "cas"}]
      /\ nxt \in [Objects -> Pointers \cup {Junk}]
      /\ robj[r] \in Objects /\ rhead[r] \in Pointers
      /\ rpc'[r] = "cas" /\ nxt'[robj[r]] = rhead[r]
      /\ \A s \in Remotes : s # r => rpc'[s] = rpc[s]
      /\ \A o \in Objects : o # robj[r] => nxt'[o] = nxt[o]
  BY <1>1 DEF TypeOK, InFlight
<1>3. /\ Freeing' = Freeing /\ Processing' = Processing
      /\ Returning' = Returning /\ Range(pending)' = Range(pending)
  <2>1. \A s \in Remotes : (rpc'[s] # "idle") = (rpc[s] # "idle")
    BY <1>1, <1>2
  <2>2. Freeing' = Freeing
    BY <2>1, <1>1 DEF Freeing
  <2>3. QED
    BY <2>2, <1>1 DEF Processing, Returning
<1>4. robj[r] \notin Range(pending)
  BY <1>1 DEF OneHome, Freeing
<1>5. TypeOK'
  BY <1>1, <1>2 DEF TypeOK
<1>6. ListIntact'
  <2>1. \A i \in DOMAIN pending : pending[i] \in Range(pending) /\ pending[i] \in Objects
    BY DEF Range, TypeOK
  <2>2. \A i \in DOMAIN pending : nxt'[pending[i]] = nxt[pending[i]]
    BY <2>1, <1>2, <1>4
  <2>3. QED
    BY <2>2, <1>1 DEF ListIntact
<1>7. OneHome'
  <2>1. \A q, s \in Remotes :
          rpc'[q] # "idle" /\ rpc'[s] # "idle" /\ robj'[q] = robj'[s] => q = s
    BY <1>1, <1>2 DEF OneHome
  <2>2. QED
    BY <2>1, <1>1, <1>3 DEF OneHome
<1>8. InFlight'
  <2>1. pc = "cas" => nxt'[cur] = nxt[cur]
    BY <1>2, <1>4 DEF InFlight, TypeOK
  <2>2. \A s \in Remotes : rpc'[s] = "cas" => nxt'[robj[s]] = rhead[s]
    <3>1. SUFFICES ASSUME NEW s \in Remotes, rpc'[s] = "cas", s # r
                   PROVE  nxt'[robj[s]] = rhead[s]
      BY <1>2
    <3>2. robj[s] # robj[r] /\ robj[s] \in Objects /\ rpc[s] = "cas"
      BY <3>1, <1>1, <1>2 DEF OneHome, InFlight
    <3>3. QED
      BY <3>2, <1>2 DEF InFlight
  <2>3. QED
    BY <2>1, <2>2, <1>1, <1>2 DEF InFlight
<1>9. BitsRight' /\ NoFalseDoubleFree'
  BY <1>1 DEF BitsRight, NoFalseDoubleFree
<1>10. QED
  BY <1>5, <1>6, <1>7, <1>8, <1>9

\* The exchange succeeds: the object is linked in front of the current head.
LEMMA RemotePushStep ==
    ASSUME ListInv, NEW r \in Remotes, RemotePush(r)
    PROVE  ListInv'
<1> USE DEF ListInv
<1> DEFINE x == robj[r]
<1>1. /\ rpc[r] = "cas" /\ FreeList = rhead[r] /\ FreeList' = x
      /\ pending' = <<x>> \o pending
      /\ rpc' = [rpc EXCEPT ![r] = "idle"] /\ robj' = [robj EXCEPT ![r] = Nil]
      /\ UNCHANGED <<status, nxt, isAllocation, inBag, live, pc, arg, cur,
                     next, rhead>>
  BY DEF RemotePush, ownerVars
<1>2. /\ rpc \in [Remotes -> {"idle", "load", "link", "cas"}]
      /\ robj \in [Remotes -> Pointers] /\ pending \in Seq(Objects)
      /\ x \in Objects /\ nxt[x] = FreeList
      /\ rpc'[r] = "idle"
      /\ \A s \in Remotes : s # r => rpc'[s] = rpc[s] /\ robj'[s] = robj[s]
  BY <1>1 DEF TypeOK, InFlight
<1>3. x \in Freeing /\ x \notin Range(pending)
  <2>1. x \in Freeing
    BY <1>1 DEF Freeing
  <2>2. QED
    BY <2>1 DEF OneHome
<1>4. /\ pending' \in Seq(Objects) /\ Range(pending') = Range(pending) \cup {x}
      /\ IsInjective(pending')
  BY <1>1, <1>2, <1>3, PushFacts DEF OneHome
<1>5. Freeing' = Freeing \ {x}
  <2>1. \A s \in Remotes : rpc[s] # "idle" /\ s # r => robj[s] # x
    BY <1>1 DEF OneHome
  <2>2. Freeing' \subseteq Freeing \ {x}
    BY <2>1, <1>1, <1>2 DEF Freeing
  <2>3. Freeing \ {x} \subseteq Freeing'
    BY <2>1, <1>1, <1>2 DEF Freeing
  <2>4. QED
    BY <2>2, <2>3
<1>6. Processing' = Processing /\ Returning' = Returning
  BY <1>1 DEF Processing, Returning
<1>7. TypeOK'
  BY <1>1, <1>2, <1>4 DEF TypeOK, Pointers
<1>8. ListIntact'
  <2> DEFINE q == <<x>> \o pending
             n == Len(pending)
  <2>1. /\ n \in Nat /\ DOMAIN pending = 1 .. n /\ Len(q) = n + 1
        /\ DOMAIN q = 1 .. (n + 1) /\ q[1] = x
        /\ \A i \in 2 .. (n + 1) : q[i] = pending[i - 1]
    BY <1>2, PushIndex
  <2> HIDE DEF q
  <2>2. q # <<>> /\ Head(q) = x
    BY <2>1
  <2>3. nxt[q[1]] = IF 1 = Len(q) THEN Nil ELSE q[2]
    BY <2>1, <1>2 DEF ListIntact
  <2>4. \A i \in 2 .. (n + 1) : nxt[q[i]] = IF i = Len(q) THEN Nil ELSE q[i + 1]
    <3>1. SUFFICES ASSUME NEW i \in 2 .. (n + 1)
                   PROVE  nxt[q[i]] = IF i = Len(q) THEN Nil ELSE q[i + 1]
      OBVIOUS
    <3>2. /\ i - 1 \in DOMAIN pending /\ q[i] = pending[i - 1] /\ (i - 1) + 1 = i
          /\ (i = Len(q)) = (i - 1 = n)
          /\ i # Len(q) => q[i + 1] = pending[i]
      BY <2>1
    <3>3. nxt[pending[i - 1]] = IF i - 1 = n THEN Nil ELSE pending[i]
      BY <3>2 DEF ListIntact
    <3>4. QED
      BY <3>2, <3>3
  <2>5. \A i \in DOMAIN q : i = 1 \/ i \in 2 .. (n + 1)
    BY <2>1
  <2>6. pending' = q /\ nxt' = nxt /\ FreeList' = x
    BY <1>1 DEF q
  <2>7. \A i \in DOMAIN q : nxt[q[i]] = IF i = Len(q) THEN Nil ELSE q[i + 1]
    <3>1. 1 + 1 = 2
      OBVIOUS
    <3>2. QED
      BY <3>1, <2>3, <2>4, <2>5
  <2>8. QED
    BY <2>2, <2>6, <2>7 DEF ListIntact
<1>9. OneHome'
  <2>1. \A p, s \in Remotes :
          rpc'[p] # "idle" /\ rpc'[s] # "idle" /\ robj'[p] = robj'[s] => p = s
    BY <1>2 DEF OneHome
  <2>2. QED
    BY <2>1, <1>1, <1>3, <1>4, <1>5, <1>6 DEF OneHome
<1>10. InFlight'
  <2>1. pending' # <<>>
    BY <1>3, <1>4 DEF Range
  <2>2. QED
    BY <2>1, <1>1, <1>2, <1>4 DEF InFlight
<1>11. BitsRight' /\ NoFalseDoubleFree'
  BY <1>1 DEF BitsRight, NoFalseDoubleFree
<1>12. QED
  BY <1>7, <1>8, <1>9, <1>10, <1>11

-----------------------------------------------------------------------------
(* The owner.                                                              *)

\* Steps that only move the owner on, or load into its own variables.
LEMMA OwnerLocalStep ==
    ASSUME ListInv, \/ OwnerMalloc \/ HandleTest \/ HandleLoad \/ HandleNext
                    \/ HandleRetry \/ MallocElsewhere
    PROVE  ListInv'
<1> USE DEF ListInv
<1>1. UNCHANGED <<status, FreeList, nxt, isAllocation, inBag, live, rpc, robj,
                  rhead, pending>>
  BY DEF OwnerMalloc, HandleTest, HandleLoad, HandleNext, HandleRetry,
         MallocElsewhere, remoteVars
<1>2. pc # "process" /\ pc' # "process"
  BY DEF OwnerMalloc, HandleTest, HandleLoad, HandleNext, HandleRetry,
         MallocElsewhere
<1>3. Returning' = Returning
  BY DEF Returning, OwnerMalloc, HandleTest, HandleLoad, HandleNext, HandleRetry,
         MallocElsewhere
<1>4. Freeing' = Freeing /\ Processing' = Processing
  BY <1>1, <1>2 DEF Freeing, Processing
<1>5. FreeList # Nil => pending # <<>> /\ FreeList \in Range(pending)
  <2>1. pending # <<>> => Head(pending) \in Range(pending)
    BY PopFacts DEF TypeOK
  <2>2. QED
    BY <2>1 DEF ListIntact
<1>6. pc = "load" => FreeList \in Range(pending) /\ FreeList \in Objects
  <2>1. pc = "load" => pending # <<>>
    BY DEF InFlight
  <2>2. pending # <<>> => Head(pending) \in Range(pending) /\ Head(pending) \in Objects
    BY PopFacts DEF TypeOK
  <2>3. QED
    BY <2>1, <2>2 DEF ListIntact
<1>7. TypeOK'
  <2>1. CASE OwnerMalloc \/ HandleTest \/ HandleRetry \/ MallocElsewhere
    BY <2>1, <1>1 DEF TypeOK, Pointers, OwnerMalloc, HandleTest, HandleRetry,
                      MallocElsewhere
  <2>2. CASE HandleLoad
    BY <2>2, <1>1, <1>6 DEF TypeOK, HandleLoad
  <2>3. CASE HandleNext
    BY <2>3, <1>1 DEF TypeOK, Pointers, HandleNext
  <2>4. QED
    BY <2>1, <2>2, <2>3
<1>8. ListIntact'
  BY <1>1 DEF ListIntact
<1>9. OneHome'
  BY <1>1, <1>3, <1>4 DEF OneHome
<1>10. InFlight'
  <2>1. CASE OwnerMalloc \/ MallocElsewhere
    BY <2>1, <1>1 DEF InFlight, OwnerMalloc, MallocElsewhere
  <2>2. CASE HandleTest
    BY <2>2, <1>1, <1>5 DEF InFlight, HandleTest
  <2>3. CASE HandleLoad
    BY <2>3, <1>1, <1>6 DEF InFlight, HandleLoad
  <2>4. CASE HandleNext
    BY <2>4, <1>1 DEF InFlight, HandleNext
  <2>5. CASE HandleRetry
    <3>1. pending # <<>>
      BY <2>5 DEF InFlight, HandleRetry, Range
    <3>2. QED
      BY <2>5, <3>1, <1>1 DEF InFlight, HandleRetry
  <2>6. QED
    BY <2>1, <2>2, <2>3, <2>4, <2>5
<1>11. BitsRight' /\ NoFalseDoubleFree'
  BY <1>1 DEF BitsRight, NoFalseDoubleFree
<1>12. QED
  BY <1>7, <1>8, <1>9, <1>10, <1>11

\* The owner frees an object of its own.
LEMMA OwnerFreeStep ==
    ASSUME ListInv, NEW o \in live, OwnerFree(o)
    PROVE  ListInv'
<1> USE DEF ListInv
<1>1. /\ pc = "idle" /\ pc' = "test" /\ arg' = o /\ live' = live \ {o} /\ o \in Objects
      /\ UNCHANGED <<status, FreeList, nxt, isAllocation, inBag, cur, next, rpc,
                     robj, rhead, pending>>
  BY DEF OwnerFree, remoteVars, TypeOK
<1>2. /\ Returning = {} /\ Returning' = {o} /\ Processing = {} /\ Processing' = {}
      /\ Freeing' = Freeing
  BY <1>1, PointersAssumption DEF Returning, Processing, Freeing
<1>3. TypeOK'
  BY <1>1 DEF TypeOK, Pointers
<1>4. ListIntact' /\ BitsRight' /\ NoFalseDoubleFree'
  BY <1>1 DEF ListIntact, BitsRight, NoFalseDoubleFree
<1>5. OneHome'
  BY <1>1, <1>2 DEF OneHome
<1>6. InFlight'
  BY <1>1 DEF InFlight
<1>7. QED
  BY <1>3, <1>4, <1>5, <1>6

\* The owner's exchange succeeds: currentPtr is still the head and, since nobody
\* else pops, nxt is still its successor.
LEMMA HandlePopStep ==
    ASSUME ListInv, HandlePop
    PROVE  ListInv'
<1> USE DEF ListInv
<1>1. /\ pc = "cas" /\ FreeList = cur /\ FreeList' = next
      /\ pending' = Tail(pending) /\ pc' = "process"
      /\ UNCHANGED <<status, nxt, isAllocation, inBag, live, arg, cur, next, rpc,
                     robj, rhead>>
  BY DEF HandlePop, remoteVars
<1>2. /\ pending \in Seq(Objects) /\ cur \in Objects /\ next = nxt[cur]
      /\ cur \in Range(pending) /\ pending # <<>> /\ cur = Head(pending)
  <2>1. cur \in Objects /\ cur \in Range(pending) /\ next = nxt[cur]
    BY <1>1 DEF TypeOK, InFlight
  <2>2. pending # <<>>
    BY <2>1 DEF Range
  <2>3. QED
    BY <2>1, <2>2, <1>1 DEF TypeOK, ListIntact
<1>3. /\ pending' \in Seq(Objects) /\ IsInjective(pending')
      /\ cur \notin Range(pending') /\ Range(pending) = Range(pending') \cup {cur}
  BY <1>1, <1>2, PopFacts DEF OneHome
<1>4. /\ Processing = {} /\ Processing' = {cur} /\ Returning' = Returning
      /\ Freeing' = Freeing
  BY <1>1 DEF Processing, Returning, Freeing
<1>5. ListIntact'
  <2> DEFINE q == Tail(pending)
             n == Len(pending)
  <2>1. /\ n \in Nat \ {0} /\ DOMAIN pending = 1 .. n /\ Head(pending) = pending[1]
        /\ Len(q) = n - 1 /\ DOMAIN q = 1 .. (n - 1)
        /\ \A i \in 1 .. (n - 1) : q[i] = pending[i + 1]
    BY <1>2, PopIndex
  <2>2. nxt[pending[1]] = IF 1 = n THEN Nil ELSE pending[2]
    <3>1. 1 \in DOMAIN pending /\ 1 + 1 = 2
      BY <2>1
    <3>2. QED
      BY <3>1 DEF ListIntact
  <2>3. pending' = q /\ nxt' = nxt /\ FreeList' = nxt[pending[1]]
    BY <2>1, <1>1, <1>2
  <2>4. q \in Seq(Objects)
    BY <1>1, <1>3
  <2> HIDE DEF q
  <2>5. nxt[pending[1]] = IF q = <<>> THEN Nil ELSE Head(q)
    <3>1. (q = <<>>) = (n = 1)
      BY <2>1, <2>4
    <3>2. q # <<>> => Head(q) = pending[2]
      BY <2>1, <2>4
    <3>3. QED
      BY <3>1, <3>2, <2>2
  <2>6. \A i \in DOMAIN q : nxt[q[i]] = IF i = Len(q) THEN Nil ELSE q[i + 1]
    <3>1. SUFFICES ASSUME NEW i \in DOMAIN q
                   PROVE  nxt[q[i]] = IF i = Len(q) THEN Nil ELSE q[i + 1]
      OBVIOUS
    <3>2. /\ i + 1 \in DOMAIN pending /\ q[i] = pending[i + 1]
          /\ (i = Len(q)) = (i + 1 = n)
          /\ i # Len(q) => q[i + 1] = pending[(i + 1) + 1]
      BY <2>1
    <3>3. nxt[pending[i + 1]] = IF i + 1 = n THEN Nil ELSE pending[(i + 1) + 1]
      BY <3>2 DEF ListIntact
    <3>4. QED
      BY <3>2, <3>3
  <2>7. QED
    BY <2>3, <2>5, <2>6 DEF ListIntact
<1>6. TypeOK'
  <2>1. next \in Pointers
    BY <1>1, <1>3, <1>5, PopFacts DEF ListIntact, Pointers
  <2>2. QED
    BY <2>1, <1>1, <1>2, <1>3 DEF TypeOK
<1>7. OneHome'
  BY <1>1, <1>3, <1>4 DEF OneHome
<1>8. InFlight' /\ BitsRight' /\ NoFalseDoubleFree'
  BY <1>1 DEF InFlight, BitsRight, NoFalseDoubleFree
<1>9. QED
  BY <1>5, <1>6, <1>7, <1>8

\* What GiveBack does to an object that is neither in the bag nor pending: its
\* bit is set, so it goes to the bag.
LEMMA GiveBackFacts ==
    ASSUME ListInv, NEW o \in Objects, o \notin inBag, GiveBack(o)
    PROVE  /\ inBag' = inBag \cup {o} /\ status' = status
           /\ isAllocation' = [isAllocation EXCEPT ![o] = FALSE]
           /\ BitsRight' /\ isAllocation' \in [Objects -> BOOLEAN]
<1>1. isAllocation[o] = TRUE /\ isAllocation \in [Objects -> BOOLEAN]
  BY DEF ListInv, BitsRight, TypeOK
<1>2. /\ inBag' = inBag \cup {o} /\ status' = status
      /\ isAllocation' = [isAllocation EXCEPT ![o] = FALSE]
  BY <1>1 DEF GiveBack
<1>3. BitsRight'
  BY <1>1, <1>2 DEF BitsRight, ListInv
<1>4. QED
  BY <1>1, <1>2, <1>3

\* handleFreeList returns the object it popped to the bag.
LEMMA HandleProcessStep ==
    ASSUME ListInv, HandleProcess
    PROVE  ListInv'
<1> USE DEF ListInv
<1>1. /\ pc = "process" /\ GiveBack(cur) /\ pc' = "test"
      /\ UNCHANGED <<FreeList, nxt, live, arg, cur, next, rpc, robj, rhead, pending>>
  BY DEF HandleProcess, remoteVars
<1>2. cur \in Objects /\ Processing = {cur} /\ cur \notin inBag
  BY <1>1 DEF TypeOK, Processing, OneHome
<1>3. /\ inBag' = inBag \cup {cur} /\ status' = status
      /\ BitsRight' /\ isAllocation' \in [Objects -> BOOLEAN]
  BY <1>1, <1>2, GiveBackFacts
<1>4. Processing' = {} /\ Returning' = Returning /\ Freeing' = Freeing
  BY <1>1 DEF Processing, Returning, Freeing
<1>5. TypeOK'
  BY <1>1, <1>2, <1>3 DEF TypeOK
<1>6. ListIntact' /\ NoFalseDoubleFree' /\ InFlight'
  BY <1>1, <1>3 DEF ListIntact, NoFalseDoubleFree, InFlight
<1>7. OneHome'
  BY <1>1, <1>2, <1>3, <1>4 DEF OneHome
<1>8. QED
  BY <1>3, <1>5, <1>6, <1>7

\* The body of freeRegularMemory.
LEMMA FreeBodyStep ==
    ASSUME ListInv, FreeBody
    PROVE  ListInv'
<1> USE DEF ListInv
<1>1. /\ pc = "body" /\ arg # Nil /\ GiveBack(arg) /\ pc' = "idle" /\ arg' = Nil
      /\ UNCHANGED <<FreeList, nxt, live, cur, next, rpc, robj, rhead, pending>>
  BY DEF FreeBody, remoteVars
<1>2. arg \in Objects /\ Returning = {arg} /\ arg \notin inBag
  BY <1>1 DEF TypeOK, Pointers, Returning, OneHome
<1>3. /\ inBag' = inBag \cup {arg} /\ status' = status
      /\ BitsRight' /\ isAllocation' \in [Objects -> BOOLEAN]
  BY <1>1, <1>2, GiveBackFacts
<1>4. Processing' = Processing /\ Returning' = {} /\ Freeing' = Freeing
  BY <1>1 DEF Processing, Returning, Freeing
<1>5. TypeOK'
  BY <1>1, <1>2, <1>3 DEF TypeOK, Pointers
<1>6. ListIntact' /\ NoFalseDoubleFree' /\ InFlight'
  BY <1>1, <1>3 DEF ListIntact, NoFalseDoubleFree, InFlight
<1>7. OneHome'
  BY <1>1, <1>2, <1>3, <1>4 DEF OneHome
<1>8. QED
  BY <1>3, <1>5, <1>6, <1>7

\* The body of mallocMemory; the word the program may now write is in no list.
LEMMA MallocBodyStep ==
    ASSUME ListInv, NEW o \in inBag, MallocBody(o)
    PROVE  ListInv'
<1> USE DEF ListInv
<1>1. /\ pc = "body" /\ arg = Nil /\ pc' = "idle" /\ o \in Objects
      /\ inBag' = inBag \ {o} /\ live' = live \cup {o}
      /\ isAllocation' = [isAllocation EXCEPT ![o] = ~isAllocation[o]]
      /\ nxt' = [nxt EXCEPT ![o] = Junk]
      /\ UNCHANGED <<status, FreeList, arg, cur, next, rpc, robj, rhead, pending>>
  BY DEF MallocBody, remoteVars, TypeOK
<1>2. Processing' = Processing /\ Returning' = Returning /\ Freeing' = Freeing
  BY <1>1 DEF Processing, Returning, Freeing
<1>3. /\ isAllocation \in [Objects -> BOOLEAN] /\ nxt \in [Objects -> Pointers \cup {Junk}]
      /\ \A x \in Objects : x # o => nxt'[x] = nxt[x]
  BY <1>1 DEF TypeOK
<1>4. TypeOK'
  BY <1>1, <1>3 DEF TypeOK
<1>5. ListIntact'
  <2>1. \A i \in DOMAIN pending : pending[i] \in Range(pending) /\ pending[i] \in Objects
    BY DEF Range, TypeOK
  <2>2. \A i \in DOMAIN pending : nxt'[pending[i]] = nxt[pending[i]]
    BY <2>1, <1>1, <1>3 DEF OneHome
  <2>3. QED
    BY <2>2, <1>1 DEF ListIntact
<1>6. OneHome'
  BY <1>1, <1>2 DEF OneHome
<1>7. InFlight'
  <2>1. \A s \in Remotes : rpc[s] # "idle" => robj[s] # o
    BY DEF OneHome, Freeing
  <2>2. QED
    BY <2>1, <1>1, <1>3 DEF InFlight
<1>8. BitsRight'
  <2>1. isAllocation[o] = FALSE
    BY DEF BitsRight, TypeOK
  <2>2. QED
    BY <2>1, <1>1, <1>3 DEF BitsRight
<1>9. NoFalseDoubleFree'
  BY <1>1 DEF NoFalseDoubleFree
<1>10. QED
  BY <1>4, <1>5, <1>6, <1>7, <1>8, <1>9

LEMMA NextKeepsInv == ListInv /\ [Next]_vars => ListInv'
<1> SUFFICES ASSUME ListInv, [Next]_vars PROVE ListInv'
  OBVIOUS
<1>1. ASSUME NEW r \in Remotes, NEW o \in live, RemoteBegin(r, o) PROVE ListInv'
  BY <1>1, RemoteBeginStep
<1>2. ASSUME NEW r \in Remotes, RemoteRuns(r) PROVE ListInv'
  BY <1>2, RemoteLocalStep, RemoteLinkStep, RemotePushStep DEF RemoteRuns
<1>3. CASE OwnerBegin
  BY <1>3, OwnerLocalStep, OwnerFreeStep DEF OwnerBegin
<1>4. CASE OwnerRuns
  BY <1>4, OwnerLocalStep, HandlePopStep, HandleProcessStep, FreeBodyStep,
     MallocBodyStep DEF OwnerRuns
<1>5. CASE UNCHANGED vars
  <2>1. UNCHANGED <<status, FreeList, nxt, isAllocation, inBag, live, pc, arg,
                    cur, next, rpc, robj, rhead, pending>>
    BY <1>5 DEF vars, ownerVars, remoteVars
  <2>2. Freeing' = Freeing /\ Processing' = Processing /\ Returning' = Returning
    BY <2>1 DEF Freeing, Processing, Returning
  <2>3. TypeOK' /\ ListIntact' /\ NoFalseDoubleFree'
    BY <2>1 DEF ListInv, TypeOK, ListIntact, NoFalseDoubleFree
  <2>4. OneHome'
    BY <2>1, <2>2 DEF ListInv, OneHome
  <2>5. InFlight' /\ BitsRight'
    BY <2>1 DEF ListInv, InFlight, BitsRight
  <2>6. QED
    BY <2>3, <2>4, <2>5 DEF ListInv
<1>6. QED
  BY <1>1, <1>2, <1>3, <1>4, <1>5 DEF Next

\* The invariant of cross-thread freeing.
THEOREM ListInvariant == Spec => []ListInv
BY InitHolds, NextKeepsInv, PTL DEF Spec

\* Every variable keeps its shape: what a popped block is read as a list pointer is an
\* object of the heap or the end of the list (handleRemoteFree).
THEOREM ListTypes == Spec => []TypeOK
<1>1. ListInv => TypeOK
  BY DEF ListInv
<1>2. QED
  BY <1>1, ListInvariant, PTL

\* The free list is never cut, however pushes and pops interleave.
THEOREM ListStaysIntact == Spec => []ListIntact
<1>1. ListInv => ListIntact
  BY DEF ListInv
<1>2. QED
  BY <1>1, ListInvariant, PTL

\* No object is lost and none is in two places.
THEOREM NothingLost == Spec => []OneHome
<1>1. ListInv => OneHome
  BY DEF ListInv
<1>2. QED
  BY <1>1, ListInvariant, PTL

\* A program that frees each object once never gets the double-free report.
THEOREM NoFalseReport == Spec => []NoFalseDoubleFree
<1>1. ListInv => NoFalseDoubleFree
  BY DEF ListInv
<1>2. QED
  BY <1>1, ListInvariant, PTL

-----------------------------------------------------------------------------
(* Refinement: every step is one atomic operation on one object, or none.  *)

\* One object moves, the others stay.
LEMMA HomeMoves ==
    ASSUME NEW o \in Objects, NEW to, Home'[o] = to,
           \A x \in Objects : x # o => Home'[x] = Home[x]
    PROVE  Home' = [Home EXCEPT ![o] = to]
BY DEF Home

LEMMA HomeStays ==
    ASSUME \A x \in Objects : Home'[x] = Home[x]
    PROVE  Home' = Home
BY DEF Home

LEMMA StepRefines ==
    ASSUME ListInv, ListInv', [Next]_vars
    PROVE  [Atomic!PFNext]_Home
<1>1. \A x \in Objects :
        /\ Home[x] = IF x \in inBag THEN "bag"
                     ELSE IF x \in Range(pending) \cup Processing THEN "pending"
                     ELSE "live"
        /\ Home'[x] = IF x \in inBag' THEN "bag"
                      ELSE IF x \in Range(pending') \cup Processing' THEN "pending"
                      ELSE "live"
  BY DEF Home
<1>2. ASSUME inBag' = inBag,
             Range(pending') \cup Processing' = Range(pending) \cup Processing
      PROVE  Home' = Home
  BY <1>1, <1>2, HomeStays
<1>3. ASSUME NEW r \in Remotes, NEW o \in live, RemoteBegin(r, o) PROVE Home' = Home
  BY <1>2, <1>3 DEF RemoteBegin, ownerVars, Processing
<1>4. ASSUME NEW r \in Remotes, RemoteLoad(r) \/ RemoteLink(r) \/ RemoteRetry(r)
      PROVE  Home' = Home
  BY <1>2, <1>4 DEF RemoteLoad, RemoteLink, RemoteRetry, ownerVars, Processing
<1>5. ASSUME NEW r \in Remotes, RemotePush(r) PROVE Atomic!PFNext
  <2> DEFINE o == robj[r]
  <2>1. /\ rpc[r] = "cas" /\ pending' = <<o>> \o pending
        /\ inBag' = inBag /\ Processing' = Processing
        /\ o \in Objects /\ pending \in Seq(Objects)
    BY <1>5 DEF RemotePush, ownerVars, Processing, ListInv, InFlight, TypeOK
  <2>2. o \in Freeing
    BY <2>1 DEF Freeing
  <2>3. o \notin inBag /\ o \notin Range(pending) \cup Processing
    BY <2>2 DEF ListInv, OneHome
  <2>4. Range(pending') = Range(pending) \cup {o}
    BY <2>1, PushFacts
  <2>5. Home[o] = "live" /\ Home'[o] = "pending"
    BY <2>1, <2>3, <2>4, <1>1
  <2>6. \A x \in Objects : x # o => Home'[x] = Home[x]
    BY <2>1, <2>4, <1>1
  <2> HIDE DEF o
  <2>7. Home' = [Home EXCEPT ![o] = "pending"]
    BY <2>1, <2>5, <2>6, HomeMoves
  <2>8. QED
    BY <2>1, <2>5, <2>7 DEF Atomic!PFNext, Atomic!PFRemoteFree, Atomic!Move
<1>6. ASSUME OwnerBegin PROVE Home' = Home
  <2>1. /\ inBag' = inBag /\ pending' = pending /\ Processing' = Processing
    BY <1>6 DEF OwnerBegin, OwnerMalloc, OwnerFree, Processing
  <2>2. QED
    BY <2>1, <1>2
<1>7. ASSUME HandleTest \/ HandleLoad \/ HandleNext \/ HandleRetry \/ MallocElsewhere
      PROVE  Home' = Home
  <2>1. /\ inBag' = inBag /\ pending' = pending /\ Processing' = Processing
    BY <1>7 DEF HandleTest, HandleLoad, HandleNext, HandleRetry, MallocElsewhere,
                Processing
  <2>2. QED
    BY <2>1, <1>2
<1>8. ASSUME HandlePop PROVE Home' = Home
  <2>1. /\ pc = "cas" /\ pc' = "process" /\ FreeList = cur /\ inBag' = inBag
        /\ pending' = Tail(pending) /\ cur' = cur
    BY <1>8 DEF HandlePop
  <2>2. pending \in Seq(Objects) /\ cur \in Range(pending) /\ pending # <<>>
    <3>1. pending \in Seq(Objects) /\ cur \in Range(pending)
      BY <2>1 DEF ListInv, InFlight, TypeOK
    <3>2. QED
      BY <3>1 DEF Range
  <2>3. cur = Head(pending)
    BY <2>1, <2>2 DEF ListInv, ListIntact
  <2>4. Range(pending) = Range(pending') \cup {cur}
    BY <2>1, <2>2, <2>3, PopFacts
  <2>5. Processing = {} /\ Processing' = {cur}
    BY <2>1 DEF Processing
  <2>6. QED
    BY <2>1, <2>4, <2>5, <1>2
<1>9. ASSUME HandleProcess PROVE Atomic!PFNext
  <2>1. /\ pc = "process" /\ pc' = "test" /\ GiveBack(cur) /\ pending' = pending
    BY <1>9 DEF HandleProcess
  <2>2. Processing = {cur} /\ Processing' = {} /\ cur \in Objects
    BY <2>1 DEF Processing, ListInv, TypeOK
  <2>3. cur \notin inBag
    BY <2>2 DEF ListInv, OneHome
  <2>4. inBag' = inBag \cup {cur}
    BY <2>1, <2>2, <2>3, GiveBackFacts
  <2>5. Home[cur] = "pending" /\ Home'[cur] = "bag"
    BY <2>2, <2>3, <2>4, <1>1
  <2>6. \A x \in Objects : x # cur => Home'[x] = Home[x]
    BY <2>1, <2>2, <2>4, <1>1
  <2>7. Home' = [Home EXCEPT ![cur] = "bag"]
    BY <2>2, <2>5, <2>6, HomeMoves
  <2>8. QED
    BY <2>2, <2>5, <2>7 DEF Atomic!PFNext, Atomic!PFReclaim, Atomic!Move
<1>10. ASSUME FreeBody PROVE Atomic!PFNext
  <2>1. /\ pc = "body" /\ pc' = "idle" /\ arg # Nil /\ GiveBack(arg)
        /\ pending' = pending
    BY <1>10 DEF FreeBody
  <2>2. Returning = {arg} /\ Processing = {} /\ Processing' = {} /\ arg \in Objects
    BY <2>1 DEF Returning, Processing, ListInv, TypeOK, Pointers
  <2>3. arg \notin inBag /\ arg \notin Range(pending)
    BY <2>2 DEF ListInv, OneHome
  <2>4. inBag' = inBag \cup {arg}
    BY <2>1, <2>2, <2>3, GiveBackFacts
  <2>5. Home[arg] = "live" /\ Home'[arg] = "bag"
    BY <2>2, <2>3, <2>4, <1>1
  <2>6. \A x \in Objects : x # arg => Home'[x] = Home[x]
    BY <2>1, <2>2, <2>4, <1>1
  <2>7. Home' = [Home EXCEPT ![arg] = "bag"]
    BY <2>2, <2>5, <2>6, HomeMoves
  <2>8. QED
    BY <2>2, <2>5, <2>7 DEF Atomic!PFNext, Atomic!PFLocalFree, Atomic!Move
<1>11. ASSUME NEW o \in inBag, MallocBody(o) PROVE Atomic!PFNext
  <2>1. /\ pc = "body" /\ pc' = "idle" /\ inBag' = inBag \ {o} /\ pending' = pending
        /\ o \in Objects
    BY <1>11 DEF MallocBody, ListInv, TypeOK
  <2>2. Processing = {} /\ Processing' = {} /\ o \notin Range(pending)
    BY <2>1 DEF Processing, ListInv, OneHome
  <2>3. Home[o] = "bag" /\ Home'[o] = "live"
    BY <2>1, <2>2, <1>1
  <2>4. \A x \in Objects : x # o => Home'[x] = Home[x]
    BY <2>1, <2>2, <1>1
  <2>5. Home' = [Home EXCEPT ![o] = "live"]
    BY <2>1, <2>3, <2>4, HomeMoves
  <2>6. QED
    BY <2>1, <2>3, <2>5 DEF Atomic!PFNext, Atomic!PFMalloc, Atomic!Move
<1>12. ASSUME UNCHANGED vars PROVE Home' = Home
  <2>1. /\ inBag' = inBag /\ pending' = pending /\ Processing' = Processing
    BY <1>12 DEF vars, ownerVars, Processing
  <2>2. QED
    BY <2>1, <1>2
<1>13. QED
  BY <1>3, <1>4, <1>5, <1>6, <1>7, <1>8, <1>9, <1>10, <1>11, <1>12
  DEF Next, RemoteRuns, OwnerRuns

\* The lock-free list implements atomic cross-thread frees: each object leaves
\* the bag by one malloc and returns after one free.
THEOREM FreesAreAtomic == Spec => ImplementsAtomic
<1>1. Init => Atomic!PFInit
  <2>1. SUFFICES ASSUME Init PROVE \A o \in Objects : Home[o] = "bag"
    BY DEF Atomic!PFInit, Home
  <2>2. QED
    BY <2>1 DEF Init, Home
<1>2. ListInv /\ ListInv' /\ [Next]_vars => [Atomic!PFNext]_Home
  BY StepRefines
<1>3. QED
  BY <1>1, <1>2, ListInvariant, PTL DEF Spec, ImplementsAtomic, Atomic!PFSpec

=============================================================================
