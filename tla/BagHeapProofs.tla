--------------------------- MODULE BagHeapProofs ---------------------------
(***************************************************************************)
(* Proofs about BagHeap for every set of bags, every object size smaller   *)
(* than a chunk and every choice of mmap.                                  *)
(***************************************************************************)
EXTENDS BagHeap, TLAPS

-----------------------------------------------------------------------------
(* Linked lists: the sequence of their elements.                           *)

\* Popping takes the head off the list, and only the head.
LEMMA PopFacts ==
    ASSUME NEW S, NEW s \in Seq(S), s # <<>>
    PROVE  /\ Head(s) \in Range(s) /\ Head(s) \in S
           /\ Tail(s) \in Seq(S)
           /\ Range(s) = Range(Tail(s)) \cup {Head(s)}
           /\ IsInjective(s) => IsInjective(Tail(s)) /\ Head(s) \notin Range(Tail(s))
<1>1. Len(s) \in Nat /\ Len(s) > 0 /\ DOMAIN s = 1 .. Len(s)
  OBVIOUS
<1>2. Tail(s) \in Seq(S) /\ Len(Tail(s)) = Len(s) - 1
       /\ DOMAIN Tail(s) = 1 .. (Len(s) - 1)
  BY <1>1
<1>3. \A i \in 1 .. (Len(s) - 1) : Tail(s)[i] = s[i + 1]
  BY <1>1
<1>4. Head(s) = s[1] /\ Head(s) \in S
  BY <1>1
<1>5. Range(s) \subseteq Range(Tail(s)) \cup {Head(s)}
  <2>1. SUFFICES ASSUME NEW i \in DOMAIN s
                 PROVE  s[i] \in Range(Tail(s)) \cup {Head(s)}
    BY DEF Range
  <2>2. CASE i = 1
    BY <2>2, <1>4
  <2>3. CASE i # 1
    <3>1. i - 1 \in 1 .. (Len(s) - 1) /\ i - 1 + 1 = i
      BY <2>3, <1>1
    <3>2. Tail(s)[i - 1] = s[i] /\ i - 1 \in DOMAIN Tail(s)
      BY <3>1, <1>2, <1>3
    <3>3. QED
      BY <3>2 DEF Range
  <2>4. QED
    BY <2>2, <2>3
<1>6. Range(Tail(s)) \subseteq Range(s)
  BY <1>1, <1>2, <1>3 DEF Range
<1>7. Head(s) \in Range(s)
  BY <1>1, <1>4 DEF Range
<1>8. ASSUME IsInjective(s)
      PROVE  IsInjective(Tail(s)) /\ Head(s) \notin Range(Tail(s))
  <2>1. \A i \in DOMAIN Tail(s) : /\ i + 1 \in DOMAIN s /\ i + 1 # 1
                                  /\ Tail(s)[i] = s[i + 1]
    BY <1>1, <1>2, <1>3
  <2>2. Head(s) \notin Range(Tail(s))
    BY <2>1, <1>1, <1>4, <1>8 DEF IsInjective, Range
  <2>3. \A i, j \in DOMAIN Tail(s) : Tail(s)[i] = Tail(s)[j] => i + 1 = j + 1
    BY <2>1, <1>8 DEF IsInjective
  <2>4. \A i, j \in DOMAIN Tail(s) : i + 1 = j + 1 => i = j
    BY <1>1, <1>2
  <2>5. QED
    BY <2>2, <2>3, <2>4 DEF IsInjective
<1>9. QED
  BY <1>2, <1>4, <1>5, <1>6, <1>7, <1>8

\* Pushing adds one element; a new one keeps the list free of repeats.
LEMMA PushFacts ==
    ASSUME NEW S, NEW s \in Seq(S), NEW a \in S
    PROVE  /\ <<a>> \o s \in Seq(S)
           /\ Range(<<a>> \o s) = Range(s) \cup {a}
           /\ (IsInjective(s) /\ a \notin Range(s)) => IsInjective(<<a>> \o s)
<1> DEFINE t == <<a>> \o s
<1>1. Len(s) \in Nat /\ DOMAIN s = 1 .. Len(s)
  OBVIOUS
<1>2. t \in Seq(S) /\ Len(t) = Len(s) + 1 /\ DOMAIN t = 1 .. (Len(s) + 1)
  BY <1>1
<1>3. t[1] = a /\ \A i \in 1 .. Len(s) : t[i + 1] = s[i]
  BY <1>1
<1>4. \A i \in 2 .. (Len(s) + 1) : t[i] = s[i - 1] /\ i - 1 \in 1 .. Len(s)
  BY <1>1
<1> HIDE DEF t
<1>5. Range(t) \subseteq Range(s) \cup {a}
  <2>1. SUFFICES ASSUME NEW i \in DOMAIN t PROVE t[i] \in Range(s) \cup {a}
    BY DEF Range
  <2>2. i = 1 \/ i \in 2 .. (Len(s) + 1)
    BY <1>1, <1>2
  <2>3. QED
    BY <2>2, <1>1, <1>3, <1>4 DEF Range
<1>6. Range(s) \subseteq Range(t)
  <2>1. SUFFICES ASSUME NEW i \in DOMAIN s PROVE s[i] \in Range(t)
    BY DEF Range
  <2>2. i + 1 \in DOMAIN t /\ t[i + 1] = s[i]
    BY <1>1, <1>2, <1>3
  <2>3. QED
    BY <2>2 DEF Range
<1>7. a \in Range(t)
  <2>1. 1 \in DOMAIN t
    BY <1>1, <1>2
  <2>2. QED
    BY <2>1, <1>3 DEF Range
<1>8. ASSUME IsInjective(s), a \notin Range(s) PROVE IsInjective(t)
  <2>1. SUFFICES ASSUME NEW i \in DOMAIN t, NEW j \in DOMAIN t, t[i] = t[j]
                 PROVE  i = j
    BY DEF IsInjective
  <2>2. /\ i = 1 \/ i \in 2 .. (Len(s) + 1)
        /\ j = 1 \/ j \in 2 .. (Len(s) + 1)
    BY <1>1, <1>2
  <2>3. CASE i \in 2 .. (Len(s) + 1) /\ j \in 2 .. (Len(s) + 1)
    <3>1. i - 1 = j - 1
      BY <2>1, <2>3, <1>1, <1>4, <1>8 DEF IsInjective
    <3>2. QED
      BY <3>1, <2>3, <1>1
  <2>4. CASE i = 1 /\ j \in 2 .. (Len(s) + 1)
    BY <2>1, <2>4, <1>1, <1>3, <1>4, <1>8 DEF Range
  <2>5. CASE j = 1 /\ i \in 2 .. (Len(s) + 1)
    BY <2>1, <2>5, <1>1, <1>3, <1>4, <1>8 DEF Range
  <2>6. QED
    BY <2>2, <2>3, <2>4, <2>5
<1>9. QED
  BY <1>2, <1>5, <1>6, <1>7, <1>8 DEF t

-----------------------------------------------------------------------------
(* The inductive invariant: what has been carved, what each bag may still  *)
(* carve, what the pool may still give out and the huge objects are        *)
(* pairwise apart, and all of it is mapped.                                *)

BagRest(b) == bag[b].bump .. (bag[b].base + bag[b].capacity - 1)
PoolRest == pool.bump .. (pool.boundary - 1)

Shape ==
    /\ TypeOK
    /\ \A b \in Bags : bag[b] # NoBag => bag[b].objectSize = ObjectSize[b]
    /\ \A b \in Bags : bag[b].base <= bag[b].bump
    /\ \A b \in Bags : bag[b] # NoBag => bag[b].base # NULL
    /\ \A b \in Bags : NULL \notin Carved(b)
    /\ \A b \in Bags : bag[b] = NoBag => taken[b] = {}
    /\ status = "new" => /\ bag = [b \in Bags |-> NoBag]
                         /\ poolBump = 0
                         /\ huge = {}
    /\ \A h \in huge : h.data >= PageSize

RestApart ==
    /\ \A b, c \in Bags : b # c => BagRest(b) \cap BagRest(c) = {}
    /\ \A b \in Bags : BagRest(b) \cap PoolRest = {}
    /\ \A b, c \in Bags : \A p \in Carved(c) : BagRest(b) \cap Bytes(c, p) = {}
    /\ \A c \in Bags : \A p \in Carved(c) : PoolRest \cap Bytes(c, p) = {}
    /\ \A h \in huge : /\ \A b \in Bags : HugeBytes(h) \cap BagRest(b) = {}
                       /\ HugeBytes(h) \cap PoolRest = {}
    /\ \A b \in Bags : BagRest(b) \subseteq mapped
    /\ PoolRest \subseteq mapped

HeapInv == Shape /\ RestApart /\ ObjectsDisjoint /\ ObjectsMapped /\ FreeListSound

-----------------------------------------------------------------------------
(* What a step may do to the layout.                                       *)

\* Carving the object p for bag b out of an area A that only b owns, with the
\* rest of A as the bag's new rest, keeps the layout sound.
LEMMA CarveKeepsLayout ==
    ASSUME HeapInv, NEW b \in Bags, NEW p \in Nat \ {NULL}, NEW A \in SUBSET Nat,
           \A c \in Bags : c # b => A \cap BagRest(c) = {},
           \A c \in Bags : \A q \in Carved(c) : A \cap Bytes(c, q) = {},
           \A h \in huge : A \cap HugeBytes(h) = {},
           A \subseteq mapped', mapped \subseteq mapped',
           Bytes(b, p) \subseteq A, BagRest(b)' \subseteq A,
           Bytes(b, p) \cap BagRest(b)' = {},
           \A c \in Bags : c # b => BagRest(c)' = BagRest(c),
           \A c \in Bags : c # b => Carved(c)' = Carved(c),
           Carved(b)' = Carved(b) \cup {p},
           huge' = huge,
           PoolRest' \cap A = {},
           \A c \in Bags : c # b => PoolRest' \cap BagRest(c) = {},
           \A c \in Bags : \A q \in Carved(c) : PoolRest' \cap Bytes(c, q) = {},
           \A h \in huge : PoolRest' \cap HugeBytes(h) = {},
           PoolRest' \subseteq mapped'
    PROVE  RestApart' /\ ObjectsDisjoint' /\ ObjectsMapped'
<1> USE DEF HeapInv
<1>1. \A c \in Bags : \A q \in Carved(c)' : q \in Carved(c) \/ (c = b /\ q = p)
  OBVIOUS
<1>2. RestApart'
  <2>1. \A c, d \in Bags : c # d => BagRest(c)' \cap BagRest(d)' = {}
    BY DEF RestApart
  <2>2. ASSUME NEW c \in Bags PROVE BagRest(c)' \cap PoolRest' = {}
    <3>1. CASE c = b
      BY <3>1
    <3>2. CASE c # b
      <4>1. BagRest(c)' = BagRest(c) /\ PoolRest' \cap BagRest(c) = {}
        BY <3>2
      <4>2. QED
        BY <4>1
    <3>3. QED
      BY <3>1, <3>2
  <2>3. \A c, d \in Bags : \A q \in Carved(d)' : BagRest(c)' \cap Bytes(d, q) = {}
    BY <1>1 DEF RestApart
  <2>4. \A d \in Bags : \A q \in Carved(d)' : PoolRest' \cap Bytes(d, q) = {}
    BY <1>1
  <2>5. \A h \in huge' : /\ \A c \in Bags : HugeBytes(h) \cap BagRest(c)' = {}
                         /\ HugeBytes(h) \cap PoolRest' = {}
    BY DEF RestApart
  <2>6. \A c \in Bags : BagRest(c)' \subseteq mapped'
    BY DEF RestApart
  <2>7. QED
    BY <2>1, <2>2, <2>3, <2>4, <2>5, <2>6 DEF RestApart
<1>3. ObjectsDisjoint'
  <2>1. \A c, d \in Bags : \A r \in Carved(c)', q \in Carved(d)' :
           (c # d \/ r # q) => Bytes(c, r) \cap Bytes(d, q) = {}
    BY <1>1 DEF ObjectsDisjoint
  <2>2. \A h \in huge' : \A c \in Bags : \A q \in Carved(c)' :
           HugeBytes(h) \cap Bytes(c, q) = {}
    BY <1>1 DEF ObjectsDisjoint
  <2>3. \A h, k \in huge' : h # k => HugeBytes(h) \cap HugeBytes(k) = {}
    BY DEF ObjectsDisjoint
  <2>4. QED
    BY <2>1, <2>2, <2>3 DEF ObjectsDisjoint
<1>4. ObjectsMapped'
  BY <1>1 DEF ObjectsMapped
<1>5. QED
  BY <1>2, <1>3, <1>4

\* The first n bytes of an area and the rest of it are apart.
LEMMA SplitArea ==
    ASSUME NEW lo \in Nat, NEW n \in Nat, NEW end \in Nat, lo + n <= end
    PROVE  /\ lo .. (lo + n - 1) \subseteq lo .. (end - 1)
           /\ (lo + n) .. (end - 1) \subseteq lo .. (end - 1)
           /\ (lo .. (lo + n - 1)) \cap ((lo + n) .. (end - 1)) = {}
OBVIOUS

\* A step that carves nothing and gives no space away keeps the layout sound.
LEMMA SameLayout ==
    ASSUME HeapInv,
           \A c \in Bags : BagRest(c)' = BagRest(c) /\ Carved(c)' = Carved(c),
           PoolRest' = PoolRest, mapped' = mapped, huge' = huge
    PROVE  RestApart' /\ ObjectsDisjoint' /\ ObjectsMapped'
<1>1. RestApart'
  BY DEF HeapInv, RestApart
<1>2. ObjectsDisjoint'
  BY DEF HeapInv, ObjectsDisjoint
<1>3. ObjectsMapped'
  BY DEF HeapInv, ObjectsMapped
<1>4. QED
  BY <1>1, <1>2, <1>3

-----------------------------------------------------------------------------
(* Fields of a bibop after its bump was replaced.                          *)

LEMMA WithBump ==
    ASSUME NEW B \in Bibop, NEW n \in Nat, NEW C, C = [B EXCEPT !.bump = n]
    PROVE  /\ C \in Bibop /\ C.bump = n /\ C.freeList = B.freeList
           /\ C.base = B.base /\ C.capacity = B.capacity
           /\ C.objectSize = B.objectSize
BY DEF Bibop

-----------------------------------------------------------------------------
(* Each action.                                                            *)

\* A malloc the bag serves from its free list or its chunk.
LEMMA MallocInBagStep ==
    ASSUME HeapInv, NEW b \in Bags, MallocInBag(b)
    PROVE  HeapInv'
<1> USE DEF HeapInv
<1> DEFINE B == bag[b]
           r == allocateObject(B)
<1>1. /\ status = "run" /\ B # NoBag /\ r.ptr # NULL
      /\ bag' = [bag EXCEPT ![b] = r.bibop]
      /\ taken' = [taken EXCEPT ![b] = @ \cup {r.ptr}]
      /\ UNCHANGED <<status, mapped, pool, poolBump, huge>>
  BY DEF MallocInBag
<1>2. /\ bag \in [Bags -> Bibop] /\ taken \in [Bags -> SUBSET Nat]
      /\ B \in Bibop /\ B.freeList \in Seq(Nat) /\ taken[b] \in SUBSET Nat
      /\ B.objectSize = ObjectSize[b] /\ ObjectSize[b] \in Nat \ {0}
      /\ B.base # NULL /\ B.base <= B.bump
  BY <1>1, SizesAssumption DEF Shape, TypeOK, Bibop
<1>3. \A c \in Bags : c # b => bag'[c] = bag[c] /\ taken'[c] = taken[c]
  BY <1>1, <1>2
<1>4. bag'[b] = r.bibop /\ taken'[b] = taken[b] \cup {r.ptr}
  BY <1>1, <1>2
<1>5. \A c \in Bags : c # b => BagRest(c)' = BagRest(c) /\ Carved(c)' = Carved(c)
  BY <1>3 DEF BagRest, Carved, FreeObjects
<1>6. PoolRest' = PoolRest
  BY <1>1 DEF PoolRest
<1>7. CASE B.freeList # <<>>
  <2>1. r.ptr = Head(B.freeList) /\ r.bibop = [B EXCEPT !.freeList = Tail(@)]
    BY <1>7 DEF allocateObject
  <2>2. /\ r.bibop \in Bibop /\ r.bibop.freeList = Tail(B.freeList)
        /\ r.bibop.bump = B.bump /\ r.bibop.base = B.base
        /\ r.bibop.capacity = B.capacity /\ r.bibop.objectSize = B.objectSize
    <3>1. Tail(B.freeList) \in Seq(Nat)
      BY <1>2, <1>7, PopFacts
    <3>2. r.bibop = [B EXCEPT !.freeList = Tail(B.freeList)] /\ B \in Bibop
      BY <2>1, <1>2
    <3> HIDE DEF r, B
    <3>3. QED
      BY <3>1, <3>2 DEF Bibop
  <2>3. /\ FreeObjects(b) = Range(B.freeList)
        /\ FreeObjects(b)' = Range(Tail(B.freeList))
    BY <2>2, <1>4 DEF FreeObjects, Range
  <2>4. Carved(b)' = Carved(b)
    BY <2>1, <2>3, <1>2, <1>4, <1>7, PopFacts DEF Carved
  <2>5. BagRest(b)' = BagRest(b)
    BY <2>2, <1>4 DEF BagRest
  <2>6. RestApart' /\ ObjectsDisjoint' /\ ObjectsMapped'
    <3>1. \A c \in Bags : BagRest(c)' = BagRest(c) /\ Carved(c)' = Carved(c)
      BY <1>5, <2>4, <2>5
    <3>2. QED
      BY <3>1, <1>1, <1>6, SameLayout
  <2>7. FreeListSound'
    <3>1. /\ FreeObjects(b)' \cap taken'[b] = {}
          /\ IsInjective(bag'[b].freeList)
      <4>1. IsInjective(B.freeList) /\ FreeObjects(b) \cap taken[b] = {}
        BY DEF FreeListSound, IsInjective
      <4>2. QED
        BY <4>1, <2>1, <2>2, <2>3, <1>2, <1>4, <1>7, PopFacts
    <3>2. QED
      BY <3>1, <1>3 DEF FreeListSound, IsInjective, FreeObjects
  <2>8. Shape'
    <3>1. TypeOK'
      BY <2>2, <1>1, <1>2, <2>1, <1>7, PopFacts DEF Shape, TypeOK
    <3>2. \A c \in Bags : NULL \notin Carved(c)'
      BY <1>5, <2>4 DEF Shape
    <3>3. bag'[b] # NoBag
      BY <2>2, <1>2, <1>4 DEF NoBag, NULL
    <3>4. QED
      BY <3>1, <3>2, <3>3, <1>1, <1>2, <1>3, <1>4, <2>2 DEF Shape
  <2>9. QED
    BY <2>6, <2>7, <2>8
<1>8. CASE B.freeList = <<>>
  <2>1. /\ r.ptr = B.bump /\ B.bump + B.objectSize - B.base < B.capacity
        /\ r.bibop = [B EXCEPT !.bump = @ + B.objectSize]
    BY <1>1, <1>2, <1>8 DEF allocateObject, Bibop
  <2>2. /\ r.bibop \in Bibop /\ r.bibop.freeList = B.freeList
        /\ r.bibop.bump = B.bump + B.objectSize /\ r.bibop.base = B.base
        /\ r.bibop.capacity = B.capacity /\ r.bibop.objectSize = B.objectSize
        /\ B.bump \in Nat /\ B.base \in Nat /\ B.capacity \in Nat
    <3>1. B.bump \in Nat /\ B.base \in Nat /\ B.capacity \in Nat
      BY <1>2 DEF Bibop
    <3>2. B.bump + B.objectSize \in Nat
      BY <3>1, <1>2
    <3>3. QED
      BY <2>1, <3>1, <3>2, <1>2, WithBump
  <2>3. FreeObjects(b) = {} /\ FreeObjects(b)' = {}
    BY <2>2, <1>4, <1>8 DEF FreeObjects, Range
  <2>4. Carved(b)' = Carved(b) \cup {B.bump}
    BY <2>1, <2>3, <1>4 DEF Carved
  <2>5. /\ Bytes(b, B.bump) \subseteq BagRest(b)
        /\ BagRest(b)' \subseteq BagRest(b)
        /\ Bytes(b, B.bump) \cap BagRest(b)' = {}
    <3> DEFINE end == B.base + B.capacity
               object == B.bump .. (B.bump + B.objectSize - 1)
               rest == (B.bump + B.objectSize) .. (end - 1)
    <3>1. Bytes(b, B.bump) = object /\ BagRest(b) = B.bump .. (end - 1)
      <4>1. Bytes(b, B.bump) = B.bump .. (B.bump + ObjectSize[b] - 1)
        BY DEF Bytes, Span
      <4>2. BagRest(b) = B.bump .. (end - 1)
        BY <2>2 DEF BagRest
      <4>3. QED
        BY <4>1, <4>2, <1>2
    <3>2. BagRest(b)' = rest
      BY <2>2, <1>4 DEF BagRest
    <3>3. /\ B.bump \in Nat /\ B.objectSize \in Nat /\ end \in Nat
          /\ B.bump + B.objectSize <= end
      BY <2>1, <2>2, <1>2
    <3>4. /\ object \subseteq B.bump .. (end - 1) /\ rest \subseteq B.bump .. (end - 1)
          /\ object \cap rest = {}
      <4> HIDE DEF B, end
      <4>1. QED
        BY <3>3, SplitArea
    <3> HIDE DEF B, end, object, rest
    <3>5. QED
      BY <3>1, <3>2, <3>4
  <2>6. B.bump \in Nat \ {NULL} /\ BagRest(b) \in SUBSET Nat
    BY <2>2, <1>2 DEF NULL, BagRest
  <2>7. RestApart' /\ ObjectsDisjoint' /\ ObjectsMapped'
    <3>1. /\ \A c \in Bags : c # b => BagRest(b) \cap BagRest(c) = {}
          /\ \A c \in Bags : \A q \in Carved(c) : BagRest(b) \cap Bytes(c, q) = {}
          /\ \A h \in huge : BagRest(b) \cap HugeBytes(h) = {}
          /\ BagRest(b) \subseteq mapped' /\ mapped \subseteq mapped'
          /\ PoolRest' \cap BagRest(b) = {}
          /\ \A c \in Bags : c # b => PoolRest' \cap BagRest(c) = {}
          /\ \A c \in Bags : \A q \in Carved(c) : PoolRest' \cap Bytes(c, q) = {}
          /\ \A h \in huge : PoolRest' \cap HugeBytes(h) = {}
          /\ PoolRest' \subseteq mapped'
      BY <1>1, <1>6 DEF RestApart
    <3>2. QED
      BY <3>1, <2>4, <2>5, <2>6, <1>1, <1>5, CarveKeepsLayout
  <2>8. FreeListSound'
    BY <2>2, <2>3, <1>3, <1>4, <1>8 DEF FreeListSound, FreeObjects
  <2>9. Shape'
    <3>1. TypeOK'
      BY <2>1, <2>2, <1>1, <1>2 DEF Shape, TypeOK
    <3>2. \A c \in Bags : NULL \notin Carved(c)'
      BY <1>5, <2>4, <2>6 DEF Shape
    <3>3. bag'[b] # NoBag
      BY <2>2, <1>2, <1>4 DEF NoBag, NULL
    <3>4. QED
      BY <3>1, <3>2, <3>3, <1>1, <1>2, <1>3, <1>4, <2>2 DEF Shape
  <2>10. QED
    BY <2>7, <2>8, <2>9
<1>9. QED
  BY <1>7, <1>8

\* A bag that gets a chunk ends up as a fresh bibop on it, created or extended:
\* its free list was empty.
LEMMA OnChunkFacts ==
    ASSUME HeapInv, NEW b \in Bags, NeedsChunk(b), NEW chunk \in Nat
    PROVE  /\ OnChunk(b, chunk) = InitBIBOP(chunk, ObjectSize[b], ChunkSize)
           /\ FreeObjects(b) = {}
<1>1. bag[b] \in Bibop /\ bag[b].freeList \in Seq(Nat)
  BY DEF HeapInv, Shape, TypeOK, Bibop
<1>2. CASE bag[b] = NoBag
  BY <1>2 DEF OnChunk, FreeObjects, NoBag, Range
<1>3. CASE bag[b] # NoBag
  <2>1. allocateObject(bag[b]).ptr = NULL /\ bag[b].objectSize = ObjectSize[b]
    BY <1>3 DEF NeedsChunk, HeapInv, Shape
  <2>2. bag[b].freeList = <<>>
    <3>1. SUFFICES ASSUME bag[b].freeList # <<>> PROVE FALSE
      OBVIOUS
    <3>2. Head(bag[b].freeList) = NULL
      BY <2>1, <3>1 DEF allocateObject
    <3>3. Head(bag[b].freeList) \in Range(bag[b].freeList)
      BY <1>1, <3>1, PopFacts
    <3>4. NULL \in Carved(b)
      BY <3>2, <3>3 DEF Carved, FreeObjects, Range
    <3>5. QED
      BY <3>4 DEF HeapInv, Shape
  <2>3. allocateObject(bag[b]).bibop =
           [bag[b] EXCEPT !.bump = bag[b].bump + bag[b].objectSize]
    BY <2>2 DEF allocateObject
  <2>4. OnChunk(b, chunk) =
           ExtendSingleBIBOP([bag[b] EXCEPT !.bump = bag[b].bump + bag[b].objectSize],
                             chunk, ChunkSize)
    BY <1>3, <2>3 DEF OnChunk
  <2>5. OnChunk(b, chunk) = InitBIBOP(chunk, ObjectSize[b], ChunkSize)
    BY <2>1, <2>2, <2>4, <1>1 DEF ExtendSingleBIBOP, InitBIBOP, Bibop
  <2>6. QED
    BY <2>2, <2>5 DEF FreeObjects, Range
<1>4. QED
  BY <1>2, <1>3

\* Any chunk that nothing else uses may be given to a bag.
LEMMA FirstOfChunkStep ==
    ASSUME HeapInv, NEW b \in Bags, NEW chunk \in Nat \ {NULL},
           NeedsChunk(b), FirstOfChunk(b, chunk),
           UNCHANGED <<status, huge>>,
           pool' \in Pool, poolBump' \in 0 .. PoolN, poolBump' < PoolN,
           mapped' \in SUBSET Nat, mapped \subseteq mapped',
           \A c \in Bags : c # b => Span(chunk, ChunkSize) \cap BagRest(c) = {},
           \A c \in Bags : \A q \in Carved(c) :
               Span(chunk, ChunkSize) \cap Bytes(c, q) = {},
           \A h \in huge : Span(chunk, ChunkSize) \cap HugeBytes(h) = {},
           Span(chunk, ChunkSize) \subseteq mapped',
           PoolRest' \cap Span(chunk, ChunkSize) = {},
           \A c \in Bags : c # b => PoolRest' \cap BagRest(c) = {},
           \A c \in Bags : \A q \in Carved(c) : PoolRest' \cap Bytes(c, q) = {},
           \A h \in huge : PoolRest' \cap HugeBytes(h) = {},
           PoolRest' \subseteq mapped'
    PROVE  HeapInv'
<1> DEFINE F == InitBIBOP(chunk, ObjectSize[b], ChunkSize)
           r == allocateObject(F)
<1>1. /\ ObjectSize[b] \in Nat \ {0} /\ ObjectSize[b] < ChunkSize /\ ChunkSize \in Nat
      /\ bag \in [Bags -> Bibop] /\ taken \in [Bags -> SUBSET Nat]
  BY SizesAssumption DEF HeapInv, Shape, TypeOK
<1>2. bag' = [bag EXCEPT ![b] = r.bibop] /\ taken' = [taken EXCEPT ![b] = @ \cup {r.ptr}]
  BY OnChunkFacts DEF FirstOfChunk
<1>3. /\ F \in Bibop /\ F.freeList = <<>> /\ F.bump = chunk /\ F.base = chunk
      /\ F.objectSize = ObjectSize[b] /\ F.capacity = ChunkSize
  BY <1>1 DEF InitBIBOP, Bibop
<1>4. r.ptr = chunk /\ r.bibop = [F EXCEPT !.bump = chunk + ObjectSize[b]]
  <2> HIDE DEF F
  <2>1. ~(F.bump + F.objectSize - F.base >= F.capacity)
    BY <1>1, <1>3
  <2>2. QED
    BY <2>1, <1>3 DEF allocateObject
<1>5. /\ r.bibop \in Bibop /\ r.bibop.freeList = <<>> /\ r.bibop.base = chunk
      /\ r.bibop.bump = chunk + ObjectSize[b] /\ r.bibop.capacity = ChunkSize
      /\ r.bibop.objectSize = ObjectSize[b]
  <2>1. chunk + ObjectSize[b] \in Nat
    BY <1>1
  <2> HIDE DEF F, r
  <2>2. QED
    BY <2>1, <1>3, <1>4 DEF Bibop
<1> HIDE DEF r, F
<1>6. /\ bag'[b] = r.bibop /\ taken'[b] = taken[b] \cup {chunk}
      /\ \A c \in Bags : c # b => bag'[c] = bag[c] /\ taken'[c] = taken[c]
      /\ bag' \in [Bags -> Bibop] /\ taken' \in [Bags -> SUBSET Nat]
  BY <1>1, <1>2, <1>4, <1>5
<1>7. \A c \in Bags : c # b => /\ BagRest(c)' = BagRest(c)
                               /\ Carved(c)' = Carved(c)
                               /\ FreeObjects(c)' = FreeObjects(c)
  BY <1>6 DEF BagRest, Carved, FreeObjects
<1>8. FreeObjects(b)' = {} /\ Carved(b)' = Carved(b) \cup {chunk}
  <2>1. FreeObjects(b)' = {}
    BY <1>5, <1>6 DEF FreeObjects, Range
  <2>2. FreeObjects(b) = {}
    BY OnChunkFacts
  <2>3. QED
    BY <2>1, <2>2, <1>6 DEF Carved
<1>9. /\ Bytes(b, chunk) \subseteq Span(chunk, ChunkSize)
      /\ BagRest(b)' \subseteq Span(chunk, ChunkSize)
      /\ Bytes(b, chunk) \cap BagRest(b)' = {}
      /\ Span(chunk, ChunkSize) \in SUBSET Nat
  BY <1>1, <1>5, <1>6 DEF Bytes, BagRest, Span
<1>10. RestApart' /\ ObjectsDisjoint' /\ ObjectsMapped'
  BY <1>7, <1>8, <1>9, CarveKeepsLayout
<1>11. FreeListSound'
  BY <1>5, <1>6, <1>7, <1>8 DEF HeapInv, FreeListSound, Range, IsInjective
<1>12. Shape'
  <2>1. TypeOK'
    BY <1>6 DEF HeapInv, Shape, TypeOK
  <2>2. \A c \in Bags : NULL \notin Carved(c)'
    BY <1>7, <1>8 DEF HeapInv, Shape
  <2>3. bag'[b] # NoBag
    BY <1>5, <1>6 DEF NoBag, NULL
  <2>4. bag'[b].base <= bag'[b].bump
    BY <1>1, <1>5, <1>6
  <2>5. status' = "run" /\ huge' = huge
    BY DEF NeedsChunk
  <2>6. QED
    BY <1>5, <1>6, <2>1, <2>2, <2>3, <2>4, <2>5 DEF HeapInv, Shape
<1>13. QED
  BY <1>10, <1>11, <1>12 DEF HeapInv

\* A malloc on a chunk of the current pool: the chunk is the front of PoolRest.
LEMMA MallocOnPoolStep ==
    ASSUME HeapInv, NEW b \in Bags, MallocOnPool(b)
    PROVE  HeapInv'
<1> DEFINE chunk == allocateMemory(pool, ChunkSize).ptr
<1>1. /\ NeedsChunk(b) /\ FirstOfChunk(b, chunk) /\ chunk # NULL
      /\ pool' = allocateMemory(pool, ChunkSize).pool
      /\ UNCHANGED <<status, huge, mapped, poolBump>>
  BY DEF MallocOnPool, ChunkFromPool, PoolHasChunk
<1>2. /\ pool \in Pool /\ pool.bump \in Nat /\ pool.boundary \in Nat
      /\ ChunkSize \in Nat /\ poolBump \in 0 .. PoolN /\ poolBump < PoolN
      /\ mapped \in SUBSET Nat /\ PoolN \in Nat
  BY <1>1, SizesAssumption DEF HeapInv, Shape, TypeOK, Pool, NeedsChunk
<1>3. /\ pool.bump + ChunkSize <= pool.boundary
      /\ chunk = pool.bump /\ pool' = [pool EXCEPT !.bump = pool.bump + ChunkSize]
  BY <1>1, <1>2 DEF allocateMemory
<1>4. pool' \in Pool /\ pool'.bump = pool.bump + ChunkSize
      /\ pool'.boundary = pool.boundary
  BY <1>2, <1>3 DEF Pool
<1>5. /\ Span(chunk, ChunkSize) \subseteq PoolRest
      /\ PoolRest' \subseteq PoolRest
      /\ PoolRest' \cap Span(chunk, ChunkSize) = {}
  BY <1>2, <1>3, <1>4 DEF PoolRest, Span
<1>6. chunk \in Nat \ {NULL}
  BY <1>1, <1>2, <1>3
<1> HIDE DEF chunk
<1>7. /\ \A c \in Bags : PoolRest \cap BagRest(c) = {}
      /\ \A c \in Bags : \A q \in Carved(c) : PoolRest \cap Bytes(c, q) = {}
      /\ \A h \in huge : PoolRest \cap HugeBytes(h) = {}
      /\ PoolRest \subseteq mapped'
  BY <1>1 DEF HeapInv, RestApart
<1>8. /\ \A c \in Bags : Span(chunk, ChunkSize) \cap BagRest(c) = {}
      /\ \A c \in Bags : PoolRest' \cap BagRest(c) = {}
  BY <1>5, <1>7
<1>9. /\ \A c \in Bags : \A q \in Carved(c) :
             Span(chunk, ChunkSize) \cap Bytes(c, q) = {}
      /\ \A c \in Bags : \A q \in Carved(c) : PoolRest' \cap Bytes(c, q) = {}
  BY <1>5, <1>7
<1>10. /\ \A h \in huge : Span(chunk, ChunkSize) \cap HugeBytes(h) = {}
       /\ \A h \in huge : PoolRest' \cap HugeBytes(h) = {}
       /\ Span(chunk, ChunkSize) \subseteq mapped' /\ PoolRest' \subseteq mapped'
  BY <1>5, <1>7
<1>11. QED
  BY <1>1, <1>2, <1>4, <1>5, <1>6, <1>8, <1>9, <1>10, FirstOfChunkStep

\* A malloc on the first chunk of a new pool: the mapping was clear of all.
LEMMA MallocOnNewPoolStep ==
    ASSUME HeapInv, NEW b \in Bags, NEW base \in MapBases, MallocOnNewPool(b, base)
    PROVE  HeapInv'
<1> DEFINE R == Span(base, PoolSize)
           fresh == AllocateMemoryPool(base, PoolSize)
<1>1. /\ NeedsChunk(b) /\ FirstOfChunk(b, base) /\ poolBump + 1 < PoolN
      /\ R \cap mapped = {} /\ mapped' = mapped \cup R
      /\ pool' = allocateMemory(fresh, ChunkSize).pool
      /\ poolBump' = poolBump + 1
      /\ UNCHANGED <<status, huge>>
  BY DEF MallocOnNewPool, ChunkFromNewPool, mmap
<1>2. /\ base \in Nat \ {NULL} /\ PoolSize \in Nat /\ ChunkSize \in Nat
      /\ ChunkSize <= PoolSize /\ PoolN \in Nat /\ poolBump \in 0 .. PoolN
      /\ mapped \in SUBSET Nat
  BY SizesAssumption, MapAssumption DEF HeapInv, Shape, TypeOK
<1>3. /\ fresh \in Pool /\ fresh.bump = base /\ fresh.boundary = base + PoolSize
  BY <1>2 DEF AllocateMemoryPool, Pool
<1>4. /\ pool' \in Pool /\ pool'.bump = base + ChunkSize
      /\ pool'.boundary = base + PoolSize
  <2> HIDE DEF fresh
  <2>1. ~(fresh.bump + ChunkSize > fresh.boundary)
    BY <1>2, <1>3
  <2>2. pool' = [fresh EXCEPT !.bump = base + ChunkSize]
    BY <2>1, <1>1, <1>3 DEF allocateMemory
  <2>3. base + ChunkSize \in Nat
    BY <1>2
  <2>4. QED
    BY <2>2, <2>3, <1>3 DEF Pool
<1>5. /\ Span(base, ChunkSize) \subseteq R /\ PoolRest' \subseteq R
      /\ PoolRest' \cap Span(base, ChunkSize) = {} /\ R \in SUBSET Nat
  BY <1>2, <1>4 DEF PoolRest, Span
<1> HIDE DEF R, fresh
<1>6. /\ \A c \in Bags : BagRest(c) \subseteq mapped
      /\ \A c \in Bags : \A q \in Carved(c) : Bytes(c, q) \subseteq mapped
      /\ \A h \in huge : HugeBytes(h) \subseteq mapped
  BY DEF HeapInv, RestApart, ObjectsMapped
<1>7. /\ \A c \in Bags : Span(base, ChunkSize) \cap BagRest(c) = {}
      /\ \A c \in Bags : PoolRest' \cap BagRest(c) = {}
  BY <1>1, <1>5, <1>6
<1>8. /\ \A c \in Bags : \A q \in Carved(c) :
             Span(base, ChunkSize) \cap Bytes(c, q) = {}
      /\ \A c \in Bags : \A q \in Carved(c) : PoolRest' \cap Bytes(c, q) = {}
  BY <1>1, <1>5, <1>6
<1>9. /\ \A h \in huge : Span(base, ChunkSize) \cap HugeBytes(h) = {}
      /\ \A h \in huge : PoolRest' \cap HugeBytes(h) = {}
      /\ Span(base, ChunkSize) \subseteq mapped' /\ PoolRest' \subseteq mapped'
      /\ mapped' \in SUBSET Nat /\ mapped \subseteq mapped'
  BY <1>1, <1>2, <1>5, <1>6
<1>10. poolBump' \in 0 .. PoolN /\ poolBump' < PoolN
  BY <1>1, <1>2
<1>11. QED
  BY <1>1, <1>2, <1>4, <1>5, <1>7, <1>8, <1>9, <1>10, FirstOfChunkStep

\* A free moves the object from the program to the front of the free list.
LEMMA FreeStep ==
    ASSUME HeapInv, NEW b \in Bags, NEW a \in taken[b], Free(b, a)
    PROVE  HeapInv'
<1> DEFINE B == bag[b]
           f == <<a>> \o B.freeList
<1>1. /\ status = "run"
      /\ bag' = [bag EXCEPT ![b] = [B EXCEPT !.freeList = f]]
      /\ taken' = [taken EXCEPT ![b] = taken[b] \ {a}]
      /\ UNCHANGED <<status, mapped, pool, poolBump, huge>>
  BY DEF Free, freeObject
<1>2. /\ bag \in [Bags -> Bibop] /\ taken \in [Bags -> SUBSET Nat]
      /\ B \in Bibop /\ B.freeList \in Seq(Nat) /\ a \in Nat
      /\ B # NoBag /\ B.base # NULL
  BY <1>1 DEF HeapInv, Shape, TypeOK, Bibop
<1>3. /\ IsInjective(B.freeList) /\ FreeObjects(b) \cap taken[b] = {}
      /\ FreeObjects(b) = Range(B.freeList)
  BY DEF HeapInv, FreeListSound, IsInjective, FreeObjects, Range
<1>4. f \in Seq(Nat) /\ Range(f) = FreeObjects(b) \cup {a} /\ IsInjective(f)
  BY <1>2, <1>3, PushFacts
<1> DEFINE C == [B EXCEPT !.freeList = f]
<1>5. /\ C \in Bibop /\ C.freeList = f /\ C.bump = B.bump /\ C.base = B.base
      /\ C.capacity = B.capacity /\ C.objectSize = B.objectSize
  <2> HIDE DEF f, B
  <2>1. QED
    BY <1>2, <1>4 DEF Bibop
<1>6. /\ bag'[b] = C /\ taken'[b] = taken[b] \ {a}
      /\ \A c \in Bags : c # b => bag'[c] = bag[c] /\ taken'[c] = taken[c]
      /\ bag' \in [Bags -> Bibop] /\ taken' \in [Bags -> SUBSET Nat]
  <2> HIDE DEF f
  <2>1. QED
    BY <1>1, <1>2, <1>5
<1> HIDE DEF C, f
<1>7. FreeObjects(b)' = FreeObjects(b) \cup {a}
  BY <1>4, <1>5, <1>6 DEF FreeObjects, Range
<1>8. \A c \in Bags : BagRest(c)' = BagRest(c) /\ Carved(c)' = Carved(c)
  <2>1. BagRest(b)' = BagRest(b) /\ Carved(b)' = Carved(b)
    BY <1>5, <1>6, <1>7 DEF BagRest, Carved
  <2>2. \A c \in Bags : c # b => BagRest(c)' = BagRest(c) /\ Carved(c)' = Carved(c)
    BY <1>6 DEF BagRest, Carved, FreeObjects
  <2>3. QED
    BY <2>1, <2>2
<1>9. RestApart' /\ ObjectsDisjoint' /\ ObjectsMapped'
  <2>1. PoolRest' = PoolRest
    BY <1>1 DEF PoolRest
  <2>2. QED
    BY <2>1, <1>1, <1>8, SameLayout
<1>10. FreeListSound'
  <2>1. FreeObjects(b)' \cap taken'[b] = {} /\ IsInjective(bag'[b].freeList)
    BY <1>3, <1>4, <1>5, <1>6, <1>7
  <2>2. QED
    BY <2>1, <1>6 DEF HeapInv, FreeListSound, IsInjective, FreeObjects
<1>11. Shape'
  <2>1. TypeOK'
    BY <1>1, <1>6 DEF HeapInv, Shape, TypeOK
  <2>2. bag'[b] # NoBag
    BY <1>2, <1>5, <1>6 DEF NoBag, NULL
  <2>3. QED
    BY <2>1, <2>2, <1>1, <1>2, <1>5, <1>6, <1>8 DEF HeapInv, Shape
<1>12. QED
  BY <1>9, <1>10, <1>11 DEF HeapInv

\* Huge sizes are naturals after rounding.
LEMMA RoundUpType ==
    ASSUME NEW size \in HugeSizes PROVE RoundUp(size) \in Nat
<1>1. size \in Nat /\ PageSize \in Nat /\ PageSize > 0
  BY MapAssumption
<1>2. size + PageSize - 1 \in Nat
  BY <1>1
<1>3. ((size + PageSize - 1) \div PageSize) \in Nat
  BY <1>1, <1>2
<1>4. QED
  BY <1>1, <1>3 DEF RoundUp

\* A huge object is mapped clear of everything else.
LEMMA AllocateHugeStep ==
    ASSUME HeapInv, NEW size \in HugeSizes, NEW addr \in MapBases,
           allocateHuge(size, addr)
    PROVE  HeapInv'
<1> DEFINE h == [data |-> addr + PageSize, size |-> RoundUp(size)]
           R == Span(addr, RoundUp(size) + PageSize)
<1>1. /\ status = "run" /\ R \cap mapped = {} /\ mapped' = mapped \cup R
      /\ huge' = huge \cup {h}
      /\ UNCHANGED <<status, pool, poolBump, bag, taken>>
  BY DEF allocateHuge, mmap
<1>2. /\ addr \in Nat /\ PageSize \in Nat /\ RoundUp(size) \in Nat
      /\ h \in HugeObject /\ h.data >= PageSize
  BY MapAssumption, RoundUpType DEF HugeObject
<1>3. HugeBytes(h) = R /\ R \in SUBSET Nat
  <2>1. h.data - PageSize = addr /\ h.size + PageSize = RoundUp(size) + PageSize
    BY <1>2
  <2>2. R \in SUBSET Nat
    BY <1>2 DEF Span
  <2>3. QED
    BY <2>1, <2>2 DEF HugeBytes
<1> HIDE DEF h, R
<1>4. /\ PoolRest' = PoolRest
      /\ \A c \in Bags : /\ BagRest(c)' = BagRest(c) /\ Carved(c)' = Carved(c)
                         /\ FreeObjects(c)' = FreeObjects(c)
  BY <1>1 DEF PoolRest, BagRest, Carved, FreeObjects
<1>5. /\ \A c \in Bags : BagRest(c) \subseteq mapped /\ PoolRest \subseteq mapped
      /\ \A c \in Bags : \A q \in Carved(c) : Bytes(c, q) \subseteq mapped
      /\ \A k \in huge : HugeBytes(k) \subseteq mapped
      /\ PoolRest \subseteq mapped
  BY DEF HeapInv, RestApart, ObjectsMapped
<1>6. RestApart'
  <2>1. HugeBytes(h) \cap PoolRest = {}
    BY <1>1, <1>3, <1>5
  <2>2. \A c \in Bags : HugeBytes(h) \cap BagRest(c) = {}
    BY <1>1, <1>3, <1>5
  <2>3. QED
    BY <2>1, <2>2, <1>1, <1>4 DEF HeapInv, RestApart
<1>7. ObjectsDisjoint'
  <2>1. \A c \in Bags : \A q \in Carved(c) : HugeBytes(h) \cap Bytes(c, q) = {}
    BY <1>1, <1>3, <1>5
  <2>2. \A k \in huge : HugeBytes(h) \cap HugeBytes(k) = {}
    BY <1>1, <1>3, <1>5
  <2>3. QED
    BY <2>1, <2>2, <1>1, <1>4 DEF HeapInv, ObjectsDisjoint
<1>8. ObjectsMapped'
  BY <1>1, <1>3, <1>4, <1>5 DEF ObjectsMapped
<1>9. FreeListSound'
  BY <1>1, <1>4 DEF HeapInv, FreeListSound
<1>10. Shape'
  <2>1. TypeOK'
    BY <1>1, <1>2, <1>3 DEF HeapInv, Shape, TypeOK
  <2>2. QED
    BY <2>1, <1>1, <1>2, <1>4 DEF HeapInv, Shape
<1>11. QED
  BY <1>6, <1>7, <1>8, <1>9, <1>10 DEF HeapInv

\* Unmapping a huge object takes only its own bytes away.
LEMMA FreeHugeStep ==
    ASSUME HeapInv, NEW h \in huge, freeHugeMemory(h)
    PROVE  HeapInv'
<1>1. /\ status = "run" /\ mapped' = mapped \ HugeBytes(h) /\ huge' = huge \ {h}
      /\ UNCHANGED <<status, pool, poolBump, bag, taken>>
  BY DEF freeHugeMemory, HugeBytes
<1>2. /\ PoolRest' = PoolRest
      /\ \A c \in Bags : /\ BagRest(c)' = BagRest(c) /\ Carved(c)' = Carved(c)
                         /\ FreeObjects(c)' = FreeObjects(c)
  BY <1>1 DEF PoolRest, BagRest, Carved, FreeObjects
<1>3. /\ \A c \in Bags : HugeBytes(h) \cap BagRest(c) = {}
      /\ HugeBytes(h) \cap PoolRest = {}
      /\ \A c \in Bags : \A q \in Carved(c) : HugeBytes(h) \cap Bytes(c, q) = {}
      /\ \A k \in huge : h # k => HugeBytes(h) \cap HugeBytes(k) = {}
  BY DEF HeapInv, RestApart, ObjectsDisjoint
<1>4. RestApart'
  <2>1. PoolRest \subseteq mapped' /\ \A c \in Bags : BagRest(c) \subseteq mapped'
    BY <1>1, <1>3 DEF HeapInv, RestApart
  <2>2. QED
    BY <2>1, <1>1, <1>2 DEF HeapInv, RestApart
<1>5. ObjectsDisjoint'
  BY <1>1, <1>2 DEF HeapInv, ObjectsDisjoint
<1>6. ObjectsMapped'
  <2>1. \A c \in Bags : \A q \in Carved(c) : Bytes(c, q) \subseteq mapped'
    BY <1>1, <1>3 DEF HeapInv, ObjectsMapped
  <2>2. \A k \in huge' : HugeBytes(k) \subseteq mapped'
    BY <1>1, <1>3 DEF HeapInv, ObjectsMapped
  <2>3. QED
    BY <2>1, <2>2, <1>2 DEF ObjectsMapped
<1>7. FreeListSound'
  BY <1>1, <1>2 DEF HeapInv, FreeListSound
<1>8. Shape'
  <2>1. TypeOK'
    BY <1>1 DEF HeapInv, Shape, TypeOK
  <2>2. QED
    BY <2>1, <1>1, <1>2 DEF HeapInv, Shape
<1>9. QED
  BY <1>4, <1>5, <1>6, <1>7, <1>8 DEF HeapInv

\* Nothing is mapped, carved or given out before InitMemoryManager.
LEMMA InitHolds == Init => HeapInv
<1> SUFFICES ASSUME Init PROVE HeapInv
  OBVIOUS
<1>1. /\ NoBag \in Bibop /\ NoPool \in Pool /\ DOMAIN NoBag.freeList = {}
      /\ NoBag.bump = 0 /\ NoBag.base = 0 /\ NoBag.capacity = 0
  BY DEF NoBag, Bibop, NoPool, Pool
<1>2. \A b \in Bags : bag[b] = NoBag /\ taken[b] = {} /\ FreeObjects(b) = {}
                      /\ Carved(b) = {} /\ BagRest(b) = {}
  BY <1>1 DEF Init, FreeObjects, Carved, BagRest, Range
<1>3. PoolRest = {}
  BY DEF Init, NoPool, PoolRest
<1>4. Shape
  BY <1>1, <1>2, SizesAssumption DEF Init, Shape, TypeOK
<1>5. RestApart
  BY <1>2, <1>3 DEF Init, RestApart
<1>6. ObjectsDisjoint /\ ObjectsMapped
  BY <1>2 DEF Init, ObjectsDisjoint, ObjectsMapped
<1>7. FreeListSound
  BY <1>1, <1>2 DEF FreeListSound, Range, IsInjective
<1>8. QED
  BY <1>4, <1>5, <1>6, <1>7 DEF HeapInv

\* The first mappings become the rests of the global bags and of the pool.
LEMMA InitMemoryManagerStep ==
    ASSUME HeapInv, NEW poolBase \in MapBases,
           NEW place \in [GlobalBags -> MapBases],
           InitMemoryManager(poolBase, place)
    PROVE  HeapInv'
<1> DEFINE F(b) == InitBIBOP(place[b], ObjectSize[b], GlobalSize)
<1>1. /\ status = "new" /\ status' = "run" /\ Placed(poolBase, place)
      /\ mapped' = Span(poolBase, PoolSize)
                     \cup UNION {Span(place[b], GlobalSize) : b \in GlobalBags}
      /\ pool' = AllocateMemoryPool(poolBase, PoolSize)
      /\ bag' = [b \in Bags |-> IF b \in GlobalBags THEN F(b) ELSE NoBag]
      /\ UNCHANGED <<poolBump, taken, huge>>
  BY DEF InitMemoryManager
<1>2. /\ poolBase \in Nat /\ PoolSize \in Nat /\ GlobalSize \in Nat /\ PoolN \in Nat \ {0}
      /\ \A b \in GlobalBags : /\ b \in Bags /\ place[b] \in Nat \ {NULL}
                               /\ ObjectSize[b] \in Nat \ {0}
  BY SizesAssumption, MapAssumption DEF Bags
<1>3. /\ huge = {} /\ poolBump = 0 /\ taken \in [Bags -> SUBSET Nat]
      /\ \A b \in Bags : bag[b] = NoBag /\ taken[b] = {}
  BY <1>1 DEF HeapInv, Shape, TypeOK
<1>4. ASSUME NEW b \in GlobalBags
      PROVE  /\ F(b) \in Bibop /\ F(b).freeList = <<>> /\ F(b).base = place[b]
             /\ F(b).bump = place[b] /\ F(b).capacity = GlobalSize
             /\ F(b).objectSize = ObjectSize[b]
  <2>1. place[b] \in Nat /\ ObjectSize[b] \in Nat /\ GlobalSize \in Nat
    BY <1>2
  <2>2. QED
    BY <2>1 DEF InitBIBOP, Bibop
<1> HIDE DEF F
<1>5. \A b \in GlobalBags : bag'[b] = F(b)
  BY <1>1, <1>2
<1>6. \A b \in Bags : b \notin GlobalBags => bag'[b] = NoBag
  BY <1>1
<1>7. /\ NoBag \in Bibop /\ NoBag.freeList = <<>>
      /\ NoBag.bump = 0 /\ NoBag.base = 0 /\ NoBag.capacity = 0
  BY DEF NoBag, Bibop
<1>8. \A b \in Bags : bag'[b].freeList = <<>> /\ bag'[b] \in Bibop
  BY <1>4, <1>5, <1>6, <1>7
<1>9. \A b \in Bags : FreeObjects(b)' = {} /\ Carved(b)' = {}
  BY <1>1, <1>3, <1>8 DEF FreeObjects, Carved, Range
<1>10. /\ \A b \in GlobalBags : BagRest(b)' = Span(place[b], GlobalSize)
       /\ \A b \in Bags : b \notin GlobalBags => BagRest(b)' = {}
  BY <1>2, <1>4, <1>5, <1>6, <1>7 DEF BagRest, Span
<1>11. /\ pool' \in Pool /\ PoolRest' = Span(poolBase, PoolSize)
  BY <1>1, <1>2 DEF AllocateMemoryPool, Pool, PoolRest, Span
<1>12. \A b \in Bags : BagRest(b)' \subseteq mapped'
  BY <1>1, <1>10
<1>13. RestApart'
  <2>1. \A b, c \in Bags : b # c => BagRest(b)' \cap BagRest(c)' = {}
    BY <1>1, <1>10 DEF Placed
  <2>2. \A b \in Bags : BagRest(b)' \cap PoolRest' = {}
    BY <1>1, <1>10, <1>11 DEF Placed
  <2>3. PoolRest' \subseteq mapped'
    BY <1>1, <1>11
  <2>4. QED
    BY <2>1, <2>2, <2>3, <1>1, <1>3, <1>9, <1>12 DEF RestApart
<1>14. ObjectsDisjoint' /\ ObjectsMapped'
  BY <1>1, <1>3, <1>9 DEF ObjectsDisjoint, ObjectsMapped
<1>15. FreeListSound'
  BY <1>8, <1>9 DEF FreeListSound, Range, IsInjective
<1>16. mapped' \in SUBSET Nat
  <2>1. \A b \in GlobalBags : Span(place[b], GlobalSize) \subseteq Nat
    BY <1>2 DEF Span
  <2>2. Span(poolBase, PoolSize) \subseteq Nat
    BY <1>2 DEF Span
  <2>3. QED
    BY <2>1, <2>2, <1>1
<1>17. Shape'
  <2>1. TypeOK'
    <3>1. bag' \in [Bags -> Bibop]
      BY <1>1, <1>8
    <3>2. QED
      BY <3>1, <1>1, <1>2, <1>3, <1>11, <1>16 DEF HeapInv, Shape, TypeOK
  <2>2. \A b \in Bags : bag'[b] # NoBag => b \in GlobalBags
    BY <1>6
  <2>3. \A b \in Bags : bag'[b].base <= bag'[b].bump
    BY <1>2, <1>4, <1>5, <1>6, <1>7
  <2>4. QED
    BY <2>1, <2>2, <2>3, <1>1, <1>2, <1>3, <1>4, <1>5, <1>9 DEF Shape
<1>18. QED
  BY <1>13, <1>14, <1>15, <1>17 DEF HeapInv

\* The error paths and the stuttering steps move no memory.
LEMMA NoLayoutStep ==
    ASSUME HeapInv, \/ \E b \in Bags : MallocFails(b)
                    \/ allocateHugeFails
                    \/ UNCHANGED vars
    PROVE  HeapInv'
<1>1. UNCHANGED <<mapped, pool, bag, taken, huge>>
  BY DEF MallocFails, allocateHugeFails, vars
<1>2. /\ PoolRest' = PoolRest
      /\ \A c \in Bags : /\ BagRest(c)' = BagRest(c) /\ Carved(c)' = Carved(c)
                         /\ FreeObjects(c)' = FreeObjects(c)
  BY <1>1 DEF PoolRest, BagRest, Carved, FreeObjects
<1>3. RestApart' /\ ObjectsDisjoint' /\ ObjectsMapped'
  BY <1>1, <1>2, SameLayout
<1>4. FreeListSound'
  BY <1>1, <1>2 DEF HeapInv, FreeListSound
<1>5. /\ status' \in {"new", "run", "exit", "crash"}
      /\ poolBump' \in 0 .. PoolN
      /\ status' = "new" => status = "new" /\ poolBump' = poolBump
      /\ status' = "run" => poolBump' < PoolN
  <2>1. PoolN \in Nat /\ poolBump \in 0 .. PoolN
        /\ status \in {"new", "run", "exit", "crash"}
        /\ (status = "run" => poolBump < PoolN)
    BY SizesAssumption DEF HeapInv, Shape, TypeOK
  <2>2. CASE \E b \in Bags : MallocFails(b)
    BY <2>1, <2>2 DEF MallocFails, PoolsExhausted, PoolMapFails, NeedsChunk
  <2>3. CASE allocateHugeFails
    BY <2>1, <2>3 DEF allocateHugeFails
  <2>4. CASE UNCHANGED vars
    BY <2>1, <2>4 DEF vars
  <2>5. QED
    BY <2>2, <2>3, <2>4
<1>6. Shape'
  BY <1>1, <1>2, <1>5 DEF HeapInv, Shape, TypeOK
<1>7. QED
  BY <1>3, <1>4, <1>6 DEF HeapInv

LEMMA NextKeepsInv == HeapInv /\ [Next]_vars => HeapInv'
<1> SUFFICES ASSUME HeapInv, [Next]_vars PROVE HeapInv'
  OBVIOUS
<1>1. ASSUME NEW poolBase \in MapBases, NEW place \in [GlobalBags -> MapBases],
             InitMemoryManager(poolBase, place)
      PROVE  HeapInv'
  BY <1>1, InitMemoryManagerStep
<1>2. ASSUME NEW b \in Bags, MallocInBag(b) PROVE HeapInv'
  BY <1>2, MallocInBagStep
<1>3. ASSUME NEW b \in Bags, MallocOnPool(b) PROVE HeapInv'
  BY <1>3, MallocOnPoolStep
<1>4. ASSUME NEW b \in Bags, NEW base \in MapBases, MallocOnNewPool(b, base)
      PROVE  HeapInv'
  BY <1>4, MallocOnNewPoolStep
<1>5. ASSUME NEW b \in Bags, NEW a \in taken[b], Free(b, a) PROVE HeapInv'
  BY <1>5, FreeStep
<1>6. ASSUME NEW size \in HugeSizes, NEW addr \in MapBases, allocateHuge(size, addr)
      PROVE  HeapInv'
  BY <1>6, AllocateHugeStep
<1>7. ASSUME NEW h \in huge, freeHugeMemory(h) PROVE HeapInv'
  BY <1>7, FreeHugeStep
<1>8. CASE (\E b \in Bags : MallocFails(b)) \/ allocateHugeFails \/ UNCHANGED vars
  BY <1>8, NoLayoutStep
<1>9. QED
  BY <1>1, <1>2, <1>3, <1>4, <1>5, <1>6, <1>7, <1>8 DEF Next, Ended

\* The invariant of the heap: carved objects, rests and huge objects are apart.
THEOREM HeapInvariant == Spec => []HeapInv
BY InitHolds, NextKeepsInv, PTL DEF Spec

\* Every variable keeps its shape, whatever the bags, sizes and mappings.
THEOREM TypeCorrect == Spec => []TypeOK
<1>1. HeapInv => TypeOK
  BY DEF HeapInv, Shape
<1>2. QED
  BY <1>1, HeapInvariant, PTL

\* No two objects malloc has carved, of any bags, share a byte.
THEOREM Disjointness == Spec => []ObjectsDisjoint
<1>1. HeapInv => ObjectsDisjoint
  BY DEF HeapInv
<1>2. QED
  BY <1>1, HeapInvariant, PTL

\* Every object's bytes stay mapped as long as the bag or the program has it.
THEOREM Mapped == Spec => []ObjectsMapped
<1>1. HeapInv => ObjectsMapped
  BY DEF HeapInv
<1>2. QED
  BY <1>1, HeapInvariant, PTL

\* No object is on a free list twice, or while it is handed out.
THEOREM FreeListsSound == Spec => []FreeListSound
<1>1. HeapInv => FreeListSound
  BY DEF HeapInv
<1>2. QED
  BY <1>1, HeapInvariant, PTL

-----------------------------------------------------------------------------
(* Memory stays with the bag it was carved for.                            *)

LEMMA CarvedGrows ==
    ASSUME HeapInv, [Next]_vars, NEW c \in Bags
    PROVE  Carved(c) \subseteq Carved(c)'
<1>1. /\ bag \in [Bags -> Bibop] /\ taken \in [Bags -> SUBSET Nat]
      /\ bag[c] \in Bibop /\ bag[c].freeList \in Seq(Nat)
  BY DEF HeapInv, Shape, TypeOK, Bibop
<1>2. ASSUME bag'[c] = bag[c], taken[c] \subseteq taken'[c]
      PROVE  Carved(c) \subseteq Carved(c)'
  BY <1>2 DEF Carved, FreeObjects
<1>3. ASSUME NEW poolBase \in MapBases, NEW place \in [GlobalBags -> MapBases],
             InitMemoryManager(poolBase, place)
      PROVE  Carved(c) \subseteq Carved(c)'
  <2>1. bag[c] = NoBag /\ taken[c] = {}
    BY <1>3 DEF InitMemoryManager, HeapInv, Shape
  <2>2. QED
    BY <2>1 DEF Carved, FreeObjects, NoBag, Range
<1>4. ASSUME NEW b \in Bags, MallocInBag(b) PROVE Carved(c) \subseteq Carved(c)'
  <2> DEFINE r == allocateObject(bag[b])
  <2>1. /\ bag' = [bag EXCEPT ![b] = r.bibop]
        /\ taken' = [taken EXCEPT ![b] = @ \cup {r.ptr}]
    BY <1>4 DEF MallocInBag
  <2>2. CASE b # c
    BY <2>1, <2>2, <1>1, <1>2
  <2>3. CASE b = c /\ bag[c].freeList = <<>>
    BY <2>1, <2>3, <1>1 DEF Carved, FreeObjects, Range
  <2>4. CASE b = c /\ bag[c].freeList # <<>>
    <3>1. /\ bag'[c].freeList = Tail(bag[c].freeList)
          /\ taken'[c] = taken[c] \cup {Head(bag[c].freeList)}
      BY <2>1, <2>4, <1>1 DEF allocateObject, Bibop
    <3>2. Range(bag[c].freeList) =
            Range(Tail(bag[c].freeList)) \cup {Head(bag[c].freeList)}
      BY <2>4, <1>1, PopFacts
    <3>3. QED
      BY <3>1, <3>2 DEF Carved, FreeObjects, Range
  <2>5. QED
    BY <2>2, <2>3, <2>4
<1>5. ASSUME NEW b \in Bags, NEW chunk \in Nat, NeedsChunk(b), FirstOfChunk(b, chunk)
      PROVE  Carved(c) \subseteq Carved(c)'
  <2>1. CASE b # c
    BY <2>1, <1>1, <1>2, <1>5 DEF FirstOfChunk
  <2>2. CASE b = c
    <3>1. FreeObjects(c) = {}
      BY <2>2, <1>5, OnChunkFacts
    <3>2. taken[c] \subseteq taken'[c]
      BY <2>2, <1>1, <1>5 DEF FirstOfChunk
    <3>3. QED
      BY <3>1, <3>2 DEF Carved
  <2>3. QED
    BY <2>1, <2>2
<1>6. ASSUME NEW b \in Bags, MallocOnPool(b) PROVE Carved(c) \subseteq Carved(c)'
  <2>1. pool.bump \in Nat
    BY DEF HeapInv, Shape, TypeOK, Pool
  <2>2. allocateMemory(pool, ChunkSize).ptr \in Nat
    BY <2>1 DEF allocateMemory, NULL
  <2>3. QED
    BY <2>2, <1>5, <1>6 DEF MallocOnPool
<1>7. ASSUME NEW b \in Bags, NEW base \in MapBases, MallocOnNewPool(b, base)
      PROVE  Carved(c) \subseteq Carved(c)'
  BY <1>5, <1>7, MapAssumption DEF MallocOnNewPool
<1>8. ASSUME NEW b \in Bags, NEW a \in taken[b], Free(b, a)
      PROVE  Carved(c) \subseteq Carved(c)'
  <2>1. CASE b # c
    BY <2>1, <1>1, <1>2, <1>8 DEF Free
  <2>2. CASE b = c
    <3>1. /\ bag'[c].freeList = <<a>> \o bag[c].freeList
          /\ taken'[c] = taken[c] \ {a} /\ a \in Nat
      BY <2>2, <1>1, <1>8 DEF Free, freeObject, Bibop
    <3>2. Range(<<a>> \o bag[c].freeList) = Range(bag[c].freeList) \cup {a}
      BY <3>1, <1>1, PushFacts
    <3>3. QED
      BY <3>1, <3>2 DEF Carved, FreeObjects, Range
  <2>3. QED
    BY <2>1, <2>2
<1>9. CASE UNCHANGED <<bag, taken>>
  BY <1>2, <1>9
<1>10. QED
  BY <1>3, <1>4, <1>6, <1>7, <1>8, <1>9
  DEF Next, Ended, vars, MallocFails, allocateHuge, allocateHugeFails, freeHugeMemory

\* What a bag carved, for one call site and size class, is that bag's for ever.
THEOREM Stability == Spec => TypeStable
<1>1. HeapInv /\ [Next]_vars => [\A b \in Bags : Carved(b) \subseteq Carved(b)']_vars
  BY CarvedGrows
<1>2. QED
  BY <1>1, HeapInvariant, PTL DEF Spec, TypeStable

=============================================================================
