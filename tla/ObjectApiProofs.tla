-------------------------- MODULE ObjectApiProofs --------------------------
(***************************************************************************)
(* Proofs about ObjectApi for every set of slots, bags and requests and    *)
(* for all widths of the fields of a size word: headers tell what a block  *)
(* is, objects are long enough and lie in the bag of their call site, no   *)
(* block is held twice, and the process stops for a reason.                *)
(***************************************************************************)
EXTENDS ObjectApi, WellFoundedInduction, TLAPS

-----------------------------------------------------------------------------
(* Naturals: a least element, quotients and remainders.                    *)

Less == {p \in Nat \X Nat : p[1] < p[2]}

LEMMA LessWF == IsWellFoundedOn(Less, Nat)
  BY NatLessThanWellFounded DEF OpToRel, Less

\* A nonempty set of naturals has a least element.
LEMMA LeastNatural ==
    ASSUME NEW S, S \subseteq Nat, S # {}
    PROVE  \E x \in S : \A y \in S : x <= y
<1>1. PICK x \in S : \A y \in S : ~ (<<y, x>> \in Less)
  BY LessWF, WFMin
<1>2. ASSUME NEW y \in S PROVE x <= y
  <2>1. x \in Nat /\ y \in Nat
    OBVIOUS
  <2>2. <<y, x>> \in Nat \X Nat /\ <<y, x>>[1] = y /\ <<y, x>>[2] = x
    BY <2>1
  <2>3. ~ (y < x)
    BY <2>2, <1>1 DEF Less
  <2>4. QED
    BY <2>1, <2>3
<1>3. QED
  BY <1>2

\* A larger multiple is larger by at least one more of the number.
LEMMA ProductGrows ==
    ASSUME NEW p \in Nat, NEW q \in Nat, NEW n \in Nat, p < q
    PROVE  p * n + n <= q * n
<1>1. PICK d \in Nat : q = p + 1 + d
  <2>1. q - p - 1 \in Nat /\ q = p + 1 + (q - p - 1)
    OBVIOUS
  <2>2. QED
    BY <2>1
<1>2. q * n = p * n + n + d * n
  BY <1>1
<1>3. d * n \in Nat /\ p * n \in Nat
  OBVIOUS
<1>4. QED
  BY <1>2, <1>3

\* The remainder of a division is unique.
LEMMA ModUnique ==
    ASSUME NEW n \in Nat \ {0}, NEW p \in Nat, NEW q \in Nat,
           NEW r \in 0 .. n - 1, NEW s \in 0 .. n - 1, p * n + r = q * n + s
    PROVE  r = s
<1>1. p * n \in Nat /\ q * n \in Nat
  OBVIOUS
<1>2. CASE p < q
  BY <1>1, <1>2, ProductGrows
<1>3. CASE q < p
  BY <1>1, <1>3, ProductGrows
<1>4. CASE p = q
  BY <1>1, <1>4
<1>5. QED
  BY <1>2, <1>3, <1>4

\* Division with remainder, in the form the proofs below use.
LEMMA DivMod ==
    ASSUME NEW n \in Nat \ {0}, NEW a \in Nat
    PROVE  a \div n \in Nat /\ a % n \in 0 .. n - 1 /\ a = (a \div n) * n + (a % n)
OBVIOUS

\* The remainder of a number written as a multiple and a rest.
LEMMA ModIs ==
    ASSUME NEW n \in Nat \ {0}, NEW q \in Nat, NEW r \in 0 .. n - 1
    PROVE  (q * n + r) % n = r
<1> DEFINE a == q * n + r
<1>1. a \in Nat
  OBVIOUS
<1>2. a \div n \in Nat /\ a % n \in 0 .. n - 1 /\ a = (a \div n) * n + (a % n)
  BY <1>1, DivMod
<1>3. a = q * n + r
  OBVIOUS
<1> HIDE DEF a
<1>4. a % n = r
  BY <1>2, <1>3, ModUnique
<1>5. QED
  BY <1>4 DEF a

\* The quotient of such a number.
LEMMA DivIs ==
    ASSUME NEW n \in Nat \ {0}, NEW q \in Nat, NEW r \in 0 .. n - 1
    PROVE  (q * n + r) \div n = q
<1> DEFINE a == q * n + r
           p == a \div n
<1>1. a \in Nat /\ a % n = r
  BY ModIs
<1>2. p \in Nat /\ a = p * n + (a % n)
  BY <1>1, DivMod
<1>3. p * n + r = q * n + r
  BY <1>1, <1>2
<1> HIDE DEF p, a
<1>4. p * n \in Nat /\ q * n \in Nat /\ p * n = q * n
  BY <1>2, <1>3
<1>5. p = q
  BY <1>2, <1>4, ProductGrows
<1>6. QED
  BY <1>5 DEF p, a

-----------------------------------------------------------------------------

\* A slot nobody holds is not marked allocated, and no slot is marked huge.
HeapOk(hp) ==
    /\ hp \in Heap /\ hp.free \subseteq hp.carved
    /\ \A s \in Slots : /\ ~hp.header[s].T
                        /\ s \in hp.free \/ s \notin hp.carved => ~hp.header[s].A

BytesIn(hp, b) == IF b \in Slots THEN BagSize[BagOf[b]] ELSE hp.mapped[b]

Object == [block : Blocks, shift : Nat, size : Nat, inPlace : BOOLEAN, site : Nat, layer : Nat]

\* What the allocator knows of an object x the program holds.
ObjectOk(hp, x) ==
    /\ x \in Object /\ x.shift \in {0, Offset[x.block]}
    /\ x.block \in Slots => /\ x.block \in hp.carved \ hp.free
                            /\ hp.header[x.block].A <=> x.shift = 0
    /\ x.block \in HugeBlocks => /\ hp.mapped[x.block] # 0
                                 /\ x.shift = 0 => hp.header[x.block].T
    /\ (x.shift = 0 \/ ~x.inPlace) => x.shift + x.size <= BytesIn(hp, x.block)
    /\ Individual(x.block) => x.site \in {SiteOf[BagOf[x.block]], AnySite}

\* What it knows of a pointer p that was freed: a slot is not marked allocated, even
\* when p is shifted; a huge block freed by its start is not mapped.
StaleOk(hp, p) ==
    /\ p.block \in Blocks /\ p.shift \in {0, Offset[p.block]}
    /\ p.block \in Slots => p.block \in hp.carved /\ ~hp.header[p.block].A
    /\ p.block \in HugeBlocks /\ p.shift = 0 => hp.mapped[p.block] = 0

\* Each block is held once, or was freed, but not both.
Separate(hd, st) ==
    /\ \A x, y \in hd : x.block = y.block => x = y
    /\ \A x \in hd, p \in st : x.block # p.block

\* The invariant of a heap, the objects held and the pointers freed: allocating and
\* releasing keep it, one after the other within a realloc.
Good(hp, hd, st) ==
    /\ HeapOk(hp) /\ Separate(hd, st)
    /\ \A x \in hd : ObjectOk(hp, x)
    /\ \A p \in st : StaleOk(hp, p)

ApiInv ==
    /\ Good(heap, held, stale)
    /\ last \in {"none", "good", "double", "shifted", "alignment"}
    /\ ReportJustified /\ DoubleFreeStops

-----------------------------------------------------------------------------
(* The size word.                                                          *)

\* Bounds and divisions of the word, in one number for the id and one for the size.
LEMMA FieldFacts ==
    ASSUME NEW id \in 0 .. CsiMod * RhMod - 1, NEW n \in 0 .. SizeMod - 1
    PROVE  /\ id * SizeMod + n < LOOP_BIT
           /\ (id * SizeMod + n) % SizeMod = n
           /\ (id * SizeMod + n + LOOP_BIT) % SizeMod = n
           /\ ((id * SizeMod + n + LOOP_BIT) \div SizeMod) % (CsiMod * RhMod) = id
<1> DEFINE m == SizeMod
           k == CsiMod * RhMod
<1>1. m \in Nat \ {0} /\ CsiMod \in Nat \ {0} /\ RhMod \in Nat \ {0}
  BY PowersAssumption
<1>2. k \in Nat \ {0}
  BY <1>1
<1>3. LOOP_BIT = k * m
  BY <1>1 DEF LOOP_BIT
<1>4. id \in 0 .. k - 1 /\ n \in 0 .. m - 1
  OBVIOUS
<1> HIDE DEF m, k
<1>5. id \in Nat /\ id < k /\ id + k \in Nat
  BY <1>2, <1>4
<1>6. id * m + m <= k * m
  BY <1>1, <1>2, <1>5, ProductGrows
<1>7. id * m \in Nat /\ k * m \in Nat
  BY <1>1, <1>2, <1>5
<1>8. id * m + n < k * m
  BY <1>1, <1>4, <1>6, <1>7
<1>9. (id * m + n) % m = n
  BY <1>1, <1>4, <1>5, ModIs
<1>10. id * m + n + k * m = (id + k) * m + n
  BY <1>1, <1>2, <1>4, <1>5
<1>11. ((id + k) * m + n) % m = n /\ ((id + k) * m + n) \div m = id + k
  BY <1>1, <1>4, <1>5, ModIs, DivIs
<1>12. (id + k) % k = id
  <2>1. (1 * k + id) % k = id
    BY <1>2, <1>4, ModIs
  <2>2. 1 * k + id = id + k
    BY <1>2, <1>5
  <2>3. QED
    BY <2>1, <2>2
<1>13. QED
  BY <1>3, <1>8, <1>9, <1>10, <1>11, <1>12 DEF m, k

\* Ids of call sites are naturals.
LEMMA SiteIdType ==
    ASSUME NEW c \in Requests
    PROVE  SiteId(c) \in Nat /\ AnySite \in Nat /\ c.layer \in Nat
<1>1. CsiMod \in Nat \ {0} /\ RhMod \in Nat \ {0} /\ c.track \in Nat /\ c.hash \in Nat /\ c.layer \in Nat
  BY PowersAssumption, ApiAssumption
<1>2. c.track % CsiMod \in Nat
  BY <1>1, DivMod
<1>3. c.hash * CsiMod \in Nat /\ CsiMod * RhMod \in Nat
  BY <1>1
<1>4. QED
  BY <1>1, <1>2, <1>3 DEF SiteId, AnySite, NoSite

\* What the two sides of the word agree on.  A size that fits its field arrives, and with
\* the loop flag the id does; a huge size of an instrumented call arrives under the huge
\* flag, and no other word has that flag.
LEMMA WordFacts ==
    ASSUME NEW c \in Requests
    PROVE  /\ WordOf(c) \in Nat
           /\ c.size <= MAX_SIZE => GET_REAL_SIZE(WordOf(c)) = c.size
           /\ c.size <= MAX_SIZE /\ HasLoopBit(WordOf(c)) => CSIOf(WordOf(c)) = SiteId(c)
           /\ IF c.caller = "instrumented" /\ c.size > MAX_SIZE
              THEN HasHugeBit(WordOf(c)) /\ WordOf(c) % HUGE_BIT = c.size
              ELSE ~HasHugeBit(WordOf(c))
<1>1. /\ SizeMod \in Nat \ {0} /\ CsiMod \in Nat \ {0} /\ RhMod \in Nat \ {0}
      /\ LOOP_BIT \in Nat \ {0} /\ HUGE_BIT \in Nat \ {0} /\ HUGE_BIT = 2 * LOOP_BIT
      /\ CsiMod * RhMod \in Nat \ {0} /\ MAX_SIZE = SizeMod - 1
  BY PowersAssumption DEF LOOP_BIT, HUGE_BIT, MAX_SIZE
<1>2. /\ c.caller \in {"instrumented", "plain"} /\ c.size \in 0 .. HUGE_BIT - 1
      /\ c.size \in Nat /\ c.track \in Nat /\ c.hash \in 0 .. RhMod - 1
  BY <1>1, ApiAssumption
<1>3. SizeMod <= LOOP_BIT
  BY <1>1, FieldFacts, 0 \in 0 .. CsiMod * RhMod - 1, SizeMod - 1 \in 0 .. SizeMod - 1
<1>4. \A n \in 0 .. HUGE_BIT - 1 : n \div HUGE_BIT = 0 /\ n % HUGE_BIT = n
  BY <1>1
<1>5. CASE c.caller = "plain"
  <2>1. WordOf(c) = c.size
    BY <1>5 DEF WordOf
  <2>2. ~HasHugeBit(WordOf(c))
    BY <2>1, <1>2, <1>4 DEF HasHugeBit
  <2>3. ASSUME c.size <= MAX_SIZE
        PROVE  GET_REAL_SIZE(WordOf(c)) = c.size /\ ~HasLoopBit(WordOf(c))
    <3>1. c.size \in 0 .. SizeMod - 1
      BY <2>3, <1>1, <1>2
    <3>2. c.size % SizeMod = c.size
      BY <3>1, <1>1
    <3>3. c.size \div LOOP_BIT = 0
      BY <3>1, <1>1, <1>3
    <3>4. QED
      BY <3>2, <3>3, <2>1 DEF GET_REAL_SIZE, HasLoopBit
  <2>4. QED
    BY <2>1, <2>2, <2>3, <1>2, <1>5
<1>6. CASE c.caller = "instrumented" /\ c.size > MAX_SIZE
  <2>1. WordOf(c) = c.size + HUGE_BIT
    BY <1>6 DEF WordOf, Instrumented
  <2>2. (1 * HUGE_BIT + c.size) % HUGE_BIT = c.size /\ (1 * HUGE_BIT + c.size) \div HUGE_BIT = 1
    <3>1. 1 \in Nat /\ HUGE_BIT \in Nat \ {0} /\ c.size \in 0 .. HUGE_BIT - 1
      BY <1>1, <1>2
    <3>2. (1 * HUGE_BIT + c.size) % HUGE_BIT = c.size
      BY ONLY <3>1, ModIs
    <3>3. (1 * HUGE_BIT + c.size) \div HUGE_BIT = 1
      BY ONLY <3>1, DivIs
    <3>4. QED
      BY <3>2, <3>3
  <2>3. 1 * HUGE_BIT + c.size = WordOf(c)
    BY <2>1, <1>1, <1>2
  <2>4. QED
    BY <2>1, <2>2, <2>3, <1>1, <1>2, <1>6 DEF HasHugeBit
<1>7. CASE c.caller = "instrumented" /\ c.size <= MAX_SIZE
  <2> DEFINE t == c.track % CsiMod
             id == c.hash * CsiMod + t
  <2>1. t \in 0 .. CsiMod - 1
    BY <1>1, <1>2, DivMod
  <2>2. id \in 0 .. CsiMod * RhMod - 1
    <3> HIDE DEF t
    <3>1. c.hash * CsiMod + CsiMod <= RhMod * CsiMod
      BY <1>1, <1>2, ProductGrows
    <3>2. c.hash * CsiMod \in Nat
      BY <1>1, <1>2
    <3>3. QED
      BY <2>1, <3>1, <3>2, <1>1
  <2>3. c.size \in 0 .. SizeMod - 1
    BY <1>1, <1>2, <1>7
  <2>4. c.hash * SizeMod * CsiMod + maskCSTV(c.track) + c.size = id * SizeMod + c.size
    <3>1. maskCSTV(c.track) = t * SizeMod
      BY DEF maskCSTV
    <3> HIDE DEF t
    <3>2. c.hash * SizeMod * CsiMod + t * SizeMod = (c.hash * CsiMod + t) * SizeMod
      BY <1>1, <1>2, <2>1
    <3>3. QED
      BY <3>1, <3>2
  <2>5. SiteId(c) = id
    BY <1>7 DEF SiteId
  <2> HIDE DEF id, t
  <2> DEFINE sum == id * SizeMod + c.size
  <2>6. sum \in Nat /\ sum < LOOP_BIT
    <3>1. id \in Nat /\ c.size \in Nat
      BY <1>1, <2>2, <2>3
    <3>2. id * SizeMod \in Nat
      BY <1>1, <3>1
    <3>3. QED
      BY <3>1, <3>2, <2>2, <2>3, FieldFacts
  <2>7. sum \div LOOP_BIT = 0
    BY <1>1, <2>6
  <2>8. WordOf(c) = sum + LOOP_BIT
    <3> DEFINE e == c.hash * SizeMod * CsiMod + maskCSTV(c.track) + c.size
    <3>1. ~ (c.size > MAX_SIZE)
      BY <1>1, <1>2, <1>7
    <3>2. WordOf(c) = IF (e \div LOOP_BIT) % 2 = 0 THEN e + LOOP_BIT ELSE e
      BY <3>1, <1>7 DEF WordOf, Instrumented, LoopFlag
    <3>3. e = sum
      BY <2>4
    <3> HIDE DEF e, sum
    <3>4. (sum \div LOOP_BIT) % 2 = 0
      BY <2>7
    <3>5. QED
      BY <3>2, <3>3, <3>4
  <2>9. GET_REAL_SIZE(WordOf(c)) = c.size /\ CSIOf(WordOf(c)) = id
    BY <2>2, <2>3, <2>8, FieldFacts DEF GET_REAL_SIZE, CSIOf
  <2>10. sum + LOOP_BIT \in 0 .. HUGE_BIT - 1
    BY <2>6, <1>1
  <2> HIDE DEF sum
  <2>11. ~HasHugeBit(WordOf(c))
    BY <2>8, <2>10, <1>4 DEF HasHugeBit
  <2>12. QED
    BY <2>5, <2>8, <2>9, <2>10, <2>11, <1>1, <1>2, <1>7
<1>8. QED
  BY <1>1, <1>2, <1>5, <1>6, <1>7

\* The request r is as long as what the program was promised for n bytes, behind a shift,
\* and its id is that of the call if the loop flag lets it use the id.
Serving(r, shift, promised, c) ==
    /\ r.bytes \in Nat
    /\ r.huge => r.bytes # 0
    /\ shift + promised <= r.bytes
    /\ r.loop /\ c.size <= MAX_SIZE => r.CSI = SiteId(c)

LEMMA MallocServes ==
    ASSUME NEW c \in Requests
    PROVE  /\ Promised(c.size, c, "malloc") \in Nat
           /\ Serving(MallocRequest(WordOf(c)), 0, Promised(c.size, c, "malloc"), c)
<1> DEFINE w == WordOf(c)
           r == MallocRequest(w)
           n == Promised(c.size, c, "malloc")
<1>1. c.size \in Nat /\ MAX_SIZE \in Nat /\ SizeMod \in Nat \ {0} /\ c.caller \in {"instrumented", "plain"}
  BY PowersAssumption, ApiAssumption DEF LOOP_BIT, HUGE_BIT, MAX_SIZE
<1>2. n \in Nat /\ n \in {0, c.size}
  BY <1>1 DEF Promised
<1>3. CASE c.caller = "instrumented" /\ c.size > MAX_SIZE
  <2>1. r = [bytes |-> c.size, CSI |-> 0, loop |-> FALSE, huge |-> TRUE]
    BY <1>3, WordFacts DEF MallocRequest
  <2>2. r.bytes = c.size /\ ~r.loop /\ c.size # 0
    BY <2>1, <1>1, <1>3
  <2> HIDE DEF r, n
  <2>3. QED
    BY <2>2, <1>1, <1>2 DEF Serving, r, n
<1>4. CASE ~ (c.caller = "instrumented" /\ c.size > MAX_SIZE)
  <2>1. r = Regular(GET_REAL_SIZE(w), w)
    BY <1>4, WordFacts DEF MallocRequest
  <2>2. /\ r.bytes = GET_REAL_SIZE(w) /\ r.CSI = CSIOf(w) /\ r.loop = HasLoopBit(w) /\ ~r.huge
    BY <2>1 DEF Regular
  <2>3. r.bytes \in Nat
    <3>1. WordOf(c) % SizeMod \in 0 .. SizeMod - 1
      BY <1>1, WordFacts, DivMod
    <3>2. QED
      BY <3>1, <2>2, <1>1 DEF GET_REAL_SIZE
  <2>4. c.size <= MAX_SIZE => r.bytes = c.size
    BY <2>2, WordFacts
  <2>5. c.size > MAX_SIZE => n = 0
    BY <1>1, <1>4 DEF Promised, Covered
  <2>6. r.loop /\ c.size <= MAX_SIZE => r.CSI = SiteId(c)
    BY <2>2, WordFacts
  <2>7. n <= r.bytes
    <3> HIDE DEF r, n
    <3>1. QED
      BY <2>3, <2>4, <2>5, <1>1, <1>2
  <2> HIDE DEF r, n
  <2>8. QED
    BY <2>2, <2>3, <2>6, <2>7, <1>2 DEF Serving, r, n
<1>5. QED
  BY <1>3, <1>4

\* css_calloc: a product that does not wrap around arrives.
LEMMA CallocServes ==
    ASSUME NEW c \in Requests
    PROVE  /\ Promised(c.nmemb * c.size, c, "calloc") \in Nat
           /\ Serving(CallocRequest(c.nmemb, WordOf(c)), 0, Promised(c.nmemb * c.size, c, "calloc"), c)
<1> DEFINE w == WordOf(c)
           r == CallocRequest(c.nmemb, w)
           n == Promised(c.nmemb * c.size, c, "calloc")
           product == c.nmemb * GET_REAL_SIZE(w)
<1>1. /\ c.size \in Nat /\ c.nmemb \in Nat /\ SizeMod \in Nat \ {0} /\ WordMod \in Nat \ {0}
  BY PowersAssumption, ApiAssumption DEF LOOP_BIT, HUGE_BIT, WordMod
<1>2. GET_REAL_SIZE(w) \in Nat
  <2>1. WordOf(c) % SizeMod \in 0 .. SizeMod - 1
    BY <1>1, WordFacts, DivMod
  <2>2. QED
    BY <2>1, <1>1 DEF GET_REAL_SIZE
<1>3. c.nmemb * c.size \in Nat /\ product \in Nat
  BY <1>1, <1>2
<1>4. r.bytes = product % WordMod /\ r.CSI = CSIOf(w) /\ r.loop = HasLoopBit(w) /\ ~r.huge
  BY DEF CallocRequest, Regular
<1>5. r.bytes \in Nat
  <2> HIDE DEF product, r
  <2>1. product % WordMod \in 0 .. WordMod - 1
    BY <1>1, <1>3, DivMod
  <2>2. QED
    BY <2>1, <1>1, <1>4
<1>6. n \in Nat
  BY <1>3 DEF Promised
<1>7. n <= r.bytes
  <2>1. CASE ~Covered(c, "calloc")
    <3>1. n = 0
      BY <2>1 DEF Promised
    <3> HIDE DEF r, n
    <3>2. QED
      BY <3>1, <1>5
  <2>2. CASE Covered(c, "calloc")
    <3>1. c.size <= MAX_SIZE /\ c.nmemb * c.size < WordMod /\ n = c.nmemb * c.size
      BY <2>2 DEF Covered, Promised
    <3>2. product = c.nmemb * c.size
      BY <3>1, WordFacts
    <3>3. product \in 0 .. WordMod - 1
      BY <3>1, <3>2, <1>1, <1>3
    <3> HIDE DEF product, r, n
    <3>4. product % WordMod = product
      BY <3>3, <1>1
    <3>5. QED
      BY <3>1, <3>2, <3>4, <1>3, <1>4
  <2>3. QED
    BY <2>1, <2>2
<1>8. r.loop /\ c.size <= MAX_SIZE => r.CSI = SiteId(c)
  BY <1>4, WordFacts
<1> HIDE DEF r, n
<1>9. QED
  BY <1>4, <1>5, <1>6, <1>7, <1>8 DEF Serving, r, n

\* css_memalign: the shift and the size fit into the length it asks for.
LEMMA MemalignServes ==
    ASSUME NEW c \in Requests, NEW b \in Blocks
    PROVE  /\ Promised(c.size, c, "memalign") \in Nat
           /\ Serving(Regular(AlignedSize(GET_REAL_SIZE(WordOf(c))), WordOf(c)), Offset[b],
                      Promised(c.size, c, "memalign"), c)
<1> DEFINE w == WordOf(c)
           g == GET_REAL_SIZE(w)
           r == Regular(AlignedSize(g), w)
           n == Promised(c.size, c, "memalign")
<1>1. /\ c.size \in Nat /\ SizeMod \in Nat \ {0} /\ HeaderSize \in Nat \ {0}
      /\ Alignment \in Nat \ {0} /\ Offset[b] \in 0 .. Alignment - 1
  BY PowersAssumption, ApiAssumption, OffsetAssumption DEF LOOP_BIT, HUGE_BIT
<1>2. g \in Nat
  <2>1. WordOf(c) % SizeMod \in 0 .. SizeMod - 1
    BY <1>1, WordFacts, DivMod
  <2>2. QED
    BY <2>1, <1>1 DEF GET_REAL_SIZE
<1>3. r.bytes = AlignedSize(g) /\ r.CSI = CSIOf(w) /\ r.loop = HasLoopBit(w) /\ ~r.huge
  BY DEF Regular
<1>4. AlignedSize(g) \in Nat /\ Offset[b] + g <= AlignedSize(g)
  <2> HIDE DEF g
  <2>1. /\ (g + HeaderSize) \div Alignment \in Nat
        /\ (g + HeaderSize) % Alignment \in 0 .. Alignment - 1
        /\ g + HeaderSize = ((g + HeaderSize) \div Alignment) * Alignment + ((g + HeaderSize) % Alignment)
    BY <1>1, <1>2, g + HeaderSize \in Nat, DivMod
  <2>2. ((g + HeaderSize) \div Alignment) * Alignment \in Nat
    BY <2>1, <1>1
  <2>3. QED
    BY <2>1, <2>2, <1>1, <1>2 DEF AlignedSize
<1>5. n \in Nat /\ n <= g
  <2>1. CASE c.size <= MAX_SIZE
    <3>1. g = c.size
      BY <2>1, WordFacts
    <3>2. QED
      BY <3>1, <1>1 DEF Promised
  <2>2. CASE ~ (c.size <= MAX_SIZE)
    <3>1. n = 0
      BY <2>2 DEF Promised, Covered
    <3> HIDE DEF n, g
    <3>2. QED
      BY <3>1, <1>2
  <2>3. QED
    BY <2>1, <2>2
<1>6. r.loop /\ c.size <= MAX_SIZE => r.CSI = SiteId(c)
  BY <1>3, WordFacts
<1> HIDE DEF r, n, g
<1>7. Offset[b] + n <= r.bytes
  BY <1>1, <1>2, <1>3, <1>4, <1>5
<1>8. QED
  BY <1>3, <1>4, <1>5, <1>6, <1>7 DEF Serving, r, n, g

-----------------------------------------------------------------------------
(* Handing out a block.                                                    *)

\* A block that can serve r is used by nobody, long enough, and in a bag for its id.
LEMMA ServingBlock ==
    ASSUME heap \in Heap, NEW r, r.bytes \in Nat, r.huge => r.bytes # 0,
           NEW b \in Blocks, b \in BlocksFor(r)
    PROVE  /\ r.bytes # 0
           /\ b \in HugeBlocks => heap.mapped[b] = 0
           /\ b \in Slots => /\ b \in heap.free \/ b \notin heap.carved
                             /\ BagOf[b] \in Bags /\ r.bytes <= BagSize[BagOf[b]]
                             /\ BagOf[b] \in GlobalBags \/ (r.loop /\ SiteOf[BagOf[b]] = r.CSI)
<1>1. Slots \cap HugeBlocks = {} /\ \A d \in Bags : BagSize[d] \in Nat
  BY ApiAssumption
<1>2. r.bytes # 0
  BY DEF BlocksFor
<1>3. CASE b \in HugeBlocks
  <2>1. \A d \in Bags : Candidates(d) \subseteq Slots
    BY DEF Candidates, Heap
  <2>2. heap.mapped[b] = 0 \/ \E d \in Bags : b \in Candidates(d)
    BY DEF BlocksFor
  <2>3. QED
    BY <1>1, <1>2, <1>3, <2>1, <2>2
<1>4. CASE b \in Slots
  <2>1. /\ ~ (r.huge \/ IsHugeRequest(r.bytes))
        /\ \E d \in Bags : Serves(d, r) /\ b \in Candidates(d)
    BY <1>1, <1>2, <1>4 DEF BlocksFor
  <2>2. PICK d \in Bags : Serves(d, r) /\ b \in Candidates(d)
    BY <2>1
  <2>3. BagOf[b] = d /\ (b \in heap.free \/ b \notin heap.carved)
    BY <2>2 DEF Candidates
  <2>4. r.bytes < Threshold
    <3>1. \E x \in {BagSize[e] : e \in Bags} : \A y \in {BagSize[e] : e \in Bags} : x >= y
      BY <1>1, ApiAssumption
    <3>2. Threshold \in {BagSize[e] : e \in Bags}
      BY <3>1 DEF Threshold, Max
    <3>3. QED
      BY <3>2, <2>1, <1>1 DEF IsHugeRequest
  <2>5. r.bytes <= ClassSize(r.bytes)
    <3> DEFINE S == {BagSize[e] : e \in {f \in Bags : BagSize[f] >= r.bytes}}
    <3>1. \E e \in Bags : BagSize[e] >= r.bytes
      <4>1. PICK e \in Bags : \A f \in Bags : BagSize[f] <= BagSize[e]
        BY ApiAssumption
      <4>2. Threshold \in {BagSize[f] : f \in Bags}
        <5>1. \E x \in {BagSize[f] : f \in Bags} : \A y \in {BagSize[f] : f \in Bags} : x >= y
          BY <1>1, <4>1
        <5>2. QED
          BY <5>1 DEF Threshold, Max
      <4>3. QED
        BY <4>2, <2>4, <1>1
    <3>2. S \subseteq Nat /\ S # {}
      BY <3>1, <1>1
    <3>3. \E x \in S : \A y \in S : x <= y
      BY <3>2, LeastNatural
    <3>4. Min(S) \in S
      BY <3>3 DEF Min
    <3>5. QED
      BY <3>4 DEF ClassSize
  <2>6. QED
    BY <1>2, <2>2, <2>3, <2>5, <1>1, <1>4 DEF Serves
<1>5. QED
  BY <1>2, <1>3, <1>4 DEF Blocks

\* A mapping is a whole number of pages, long enough and not empty.
LEMMA RoundUpFacts ==
    ASSUME NEW n \in Nat
    PROVE  RoundUp(n) \in Nat /\ n <= RoundUp(n)
<1> DEFINE a == n + PageSize - 1
           q == a \div PageSize
<1>1. PageSize \in Nat \ {0}
  BY ApiAssumption
<1>2. a \in Nat
  BY <1>1
<1>3. q \in Nat /\ a % PageSize \in 0 .. PageSize - 1 /\ a = q * PageSize + (a % PageSize)
  BY <1>1, <1>2, DivMod
<1>4. a = n + PageSize - 1 /\ RoundUp(n) = q * PageSize
  BY DEF RoundUp
<1> HIDE DEF a, q
<1>5. q * PageSize \in Nat
  BY <1>1, <1>3
<1>6. QED
  BY <1>1, <1>3, <1>4, <1>5

\* The heap hp that hands out block b for n bytes, as an unshifted object, or shifted.
HandsOut(hp, b, n, shift) ==
    \/ shift = 0 /\ hp \in ProgramWrites(Given(b, n), b)
    \/ shift # 0 /\ hp = Moved(Given(b, n), b)

\* What preparing block b for n bytes does to the heap.
Prepared(g, b, n) ==
    /\ g \in Heap /\ g.status = heap.status
    /\ \A d \in Blocks : d # b => g.header[d] = heap.header[d] /\ g.inner[d] = heap.inner[d]
    /\ b \in Slots => /\ g.header[b].A = ~heap.header[b].A
                      /\ g.header[b].T = heap.header[b].T
                      /\ g.carved = heap.carved \cup {b} /\ g.free = heap.free \ {b}
                      /\ g.mapped = heap.mapped
    /\ b \in HugeBlocks => /\ g.header[b].T
                           /\ g.carved = heap.carved /\ g.free = heap.free
                           /\ g.mapped = [heap.mapped EXCEPT ![b] = RoundUp(n)]

LEMMA GivenFacts ==
    ASSUME heap \in Heap, NEW b \in Blocks, NEW n \in Nat
    PROVE  Prepared(Given(b, n), b, n)
<1>1. /\ Slots \cap HugeBlocks = {} /\ Zero \in Header
      /\ heap.header \in [Blocks -> Header] /\ heap.inner \in [Blocks -> Header]
      /\ heap.carved \in SUBSET Slots /\ heap.free \in SUBSET Slots
      /\ heap.mapped \in [HugeBlocks -> Nat] /\ heap.status \in {"run", "exit", "crash"}
  BY ApiAssumption DEF Heap, Zero, Header
<1>2. CASE b \in Slots
  <2> DEFINE g == Stamp(heap.header[b], BagOf[b])
  <2>1. heap.header[b] \in Header
    BY <1>1
  <2>2. g \in Header /\ g.A = ~heap.header[b].A /\ g.T = heap.header[b].T
    BY <2>1 DEF Stamp, Header
  <2> HIDE DEF g
  <2>3. Given(b, n) = [status |-> heap.status, header |-> [heap.header EXCEPT ![b] = g],
                       inner |-> heap.inner, carved |-> heap.carved \cup {b},
                       free |-> heap.free \ {b}, mapped |-> heap.mapped]
    BY <1>2 DEF Given, Heap, g
  <2>4. QED
    BY <1>1, <1>2, <2>2, <2>3 DEF Heap, Prepared
<1>3. CASE b \in HugeBlocks
  <2> DEFINE g == [Zero EXCEPT !.T = TRUE]
  <2>1. g \in Header /\ g.T
    BY DEF Zero, Header
  <2> HIDE DEF g
  <2>2. b \notin Slots
    BY <1>1, <1>3
  <2>3. Given(b, n) = [status |-> heap.status, header |-> [heap.header EXCEPT ![b] = g],
                       inner |-> [heap.inner EXCEPT ![b] = Zero], carved |-> heap.carved,
                       free |-> heap.free, mapped |-> [heap.mapped EXCEPT ![b] = RoundUp(n)]]
    BY <2>2 DEF Given, Heap, g
  <2>4. RoundUp(n) \in Nat
    BY RoundUpFacts
  <2>5. QED
    BY <1>1, <1>3, <2>1, <2>2, <2>3, <2>4 DEF Heap, Prepared
<1>4. QED
  BY <1>2, <1>3 DEF Blocks

LEMMA HandsOutFacts ==
    ASSUME heap \in Heap, NEW b \in Blocks, NEW n \in Nat, NEW shift, NEW hp,
           HandsOut(hp, b, n, shift)
    PROVE  /\ hp \in Heap
           /\ hp.status = heap.status
           /\ \A d \in Blocks : d # b => /\ hp.header[d] = heap.header[d]
                                         /\ hp.inner[d] = heap.inner[d]
           /\ hp.header[b].T = Given(b, n).header[b].T
           /\ hp.header[b].A = (shift = 0 /\ Given(b, n).header[b].A)
           /\ hp.carved = Given(b, n).carved /\ hp.free = Given(b, n).free
           /\ hp.mapped = Given(b, n).mapped
<1> DEFINE g == Given(b, n)
<1>1. /\ g \in Heap /\ g.status = heap.status
      /\ \A d \in Blocks : d # b => g.header[d] = heap.header[d] /\ g.inner[d] = heap.inner[d]
  <2>1. Prepared(g, b, n)
    BY GivenFacts
  <2> HIDE DEF g
  <2>2. QED
    BY <2>1 DEF Prepared
<1> HIDE DEF g
<1>2. /\ g.header \in [Blocks -> Header] /\ g.inner \in [Blocks -> Header]
      /\ g.header[b] \in Header /\ g.inner[b] \in Header
  BY <1>1 DEF Heap
<1>3. CASE shift = 0
  <2>1. PICK t \in BOOLEAN : hp = [g EXCEPT !.inner[b].T = t]
    BY <1>3 DEF HandsOut, ProgramWrites, g
  <2> DEFINE i == [g.inner[b] EXCEPT !.T = t]
  <2>2. i \in Header
    BY <1>2 DEF Header
  <2> HIDE DEF i
  <2>3. hp = [status |-> g.status, header |-> g.header, inner |-> [g.inner EXCEPT ![b] = i],
              carved |-> g.carved, free |-> g.free, mapped |-> g.mapped]
    BY <2>1, <1>1 DEF Heap, i
  <2>4. g.header[b].A \in BOOLEAN
    BY <1>2 DEF Header
  <2>5. QED
    BY <1>1, <1>2, <1>3, <2>2, <2>3, <2>4 DEF Heap, g
<1>4. CASE shift # 0
  <2>1. hp = Moved(g, b)
    BY <1>4 DEF HandsOut, g
  <2> DEFINE h == [g.header[b] EXCEPT !.A = FALSE]
             i == [g.inner[b] EXCEPT !.A = ~g.header[b].A, !.B = g.header[b].B]
  <2>2. h \in Header /\ i \in Header /\ h.A = FALSE /\ h.T = g.header[b].T
    BY <1>2 DEF Header
  <2>3. hp = [status |-> g.status, header |-> [g.header EXCEPT ![b] = h],
              inner |-> [g.inner EXCEPT ![b] = i],
              carved |-> g.carved, free |-> g.free, mapped |-> g.mapped]
    BY <2>1, <1>1 DEF Heap, Moved
  <2> HIDE DEF h, i
  <2>4. QED
    BY <1>1, <1>2, <1>4, <2>2, <2>3 DEF Heap, g
<1>5. QED
  BY <1>3, <1>4

\* A call that gets block b keeps the invariant.
LEMMA AllocationKeeps ==
    ASSUME Good(heap, held, stale), NEW c \in Requests, NEW b \in Blocks, NEW r,
           b \in BlocksFor(r), NEW shift \in {0, Offset[b]}, NEW n, NEW interface,
           Promised(n, c, interface) \in Nat,
           Serving(r, shift, Promised(n, c, interface), c),
           NEW hp, HandsOut(hp, b, r.bytes, shift)
    PROVE  Good(hp, held \cup {Handed(b, shift, n, c, interface)}, Forget(b))
<1> DEFINE h == Handed(b, shift, n, c, interface)
<1>1. /\ heap \in Heap /\ heap.free \subseteq heap.carved /\ r.bytes \in Nat /\ r.bytes # 0
      /\ Slots \cap HugeBlocks = {}
  <2>1. heap \in Heap /\ heap.free \subseteq heap.carved
    BY DEF Good, HeapOk
  <2>2. r.bytes \in Nat /\ (r.huge => r.bytes # 0)
    BY DEF Serving
  <2>3. r.bytes # 0
    BY <2>1, <2>2, ServingBlock
  <2>4. QED
    BY <2>1, <2>2, <2>3, ApiAssumption
<1>2. /\ b \in HugeBlocks => heap.mapped[b] = 0
      /\ b \in Slots => /\ b \in heap.free \/ b \notin heap.carved
                        /\ BagOf[b] \in Bags /\ r.bytes <= BagSize[BagOf[b]]
                        /\ BagOf[b] \in GlobalBags \/ (r.loop /\ SiteOf[BagOf[b]] = r.CSI)
  BY <1>1, ServingBlock DEF Serving
<1>3. /\ hp \in Heap
      /\ \A d \in Blocks : d # b => hp.header[d] = heap.header[d]
      /\ b \in Slots => /\ hp.header[b].A = (shift = 0 /\ ~heap.header[b].A)
                        /\ hp.header[b].T = heap.header[b].T
                        /\ hp.carved = heap.carved \cup {b}
                        /\ hp.free = heap.free \ {b}
                        /\ hp.mapped = heap.mapped
      /\ b \in HugeBlocks => /\ hp.header[b].T
                             /\ hp.carved = heap.carved
                             /\ hp.free = heap.free
                             /\ hp.mapped = [heap.mapped EXCEPT ![b] = RoundUp(r.bytes)]
  <2>1. /\ hp \in Heap
        /\ \A d \in Blocks : d # b => hp.header[d] = heap.header[d]
        /\ hp.header[b].T = Given(b, r.bytes).header[b].T
        /\ hp.header[b].A = (shift = 0 /\ Given(b, r.bytes).header[b].A)
        /\ hp.carved = Given(b, r.bytes).carved /\ hp.free = Given(b, r.bytes).free
        /\ hp.mapped = Given(b, r.bytes).mapped
    BY <1>1, HandsOutFacts
  <2>0. Prepared(Given(b, r.bytes), b, r.bytes)
    BY <1>1, GivenFacts
  <2>2. CASE b \in Slots
    <3>1. /\ Given(b, r.bytes).header[b].A = ~heap.header[b].A
          /\ Given(b, r.bytes).header[b].T = heap.header[b].T
          /\ Given(b, r.bytes).carved = heap.carved \cup {b}
          /\ Given(b, r.bytes).free = heap.free \ {b}
          /\ Given(b, r.bytes).mapped = heap.mapped
      BY <1>1, <2>2, <2>0 DEF Prepared
    <3>2. QED
      BY <2>1, <2>2, <3>1, <1>1
  <2>3. CASE b \in HugeBlocks
    <3>1. /\ Given(b, r.bytes).header[b].T
          /\ Given(b, r.bytes).carved = heap.carved
          /\ Given(b, r.bytes).free = heap.free
          /\ Given(b, r.bytes).mapped = [heap.mapped EXCEPT ![b] = RoundUp(r.bytes)]
      BY <1>1, <2>3, <2>0 DEF Prepared
    <3>2. QED
      BY <2>1, <2>3, <3>1, <1>1
  <2>4. QED
    BY <2>2, <2>3 DEF Blocks
<1>4. b \in Slots => ~heap.header[b].A /\ ~heap.header[b].T
  BY <1>2 DEF Good, HeapOk
<1>5. HeapOk(hp)
  <2>1. hp.free \subseteq hp.carved
    BY <1>1, <1>3 DEF Blocks
  <2>2. ASSUME NEW s \in Slots
        PROVE  ~hp.header[s].T /\ (s \in hp.free \/ s \notin hp.carved => ~hp.header[s].A)
    <3>1. s \in Blocks
      BY DEF Blocks
    <3>2. CASE s = b
      BY <3>2, <2>2, <1>3, <1>4
    <3>3. CASE s # b
      <4>1. /\ hp.header[s] = heap.header[s]
            /\ s \in hp.free => s \in heap.free
            /\ s \notin hp.carved => s \notin heap.carved
        BY <3>1, <3>3, <1>3 DEF Blocks
      <4>2. QED
        BY <4>1 DEF Good, HeapOk
    <3>4. QED
      BY <3>2, <3>3
  <2>3. QED
    BY <2>1, <2>2, <1>3 DEF HeapOk
<1>6. /\ h.block = b /\ h.shift = shift /\ h.size = Promised(n, c, interface) /\ h.inPlace = FALSE
      /\ h.site = IF Individual(b) /\ c.size <= MAX_SIZE THEN SiteId(c) ELSE AnySite
  BY DEF Handed
<1> HIDE DEF h
\* Nobody holds the block.
<1>7. \A x \in held : x.block \in Blocks /\ x.block # b
  <2>1. SUFFICES ASSUME NEW x \in held PROVE x.block \in Blocks /\ x.block # b
    OBVIOUS
  <2>2. ObjectOk(heap, x)
    BY DEF Good
  <2>3. QED
    BY <2>2, <1>2 DEF ObjectOk, Object, Blocks
<1>8. ObjectOk(hp, h)
  <2>1. b \in HugeBlocks => RoundUp(r.bytes) \in Nat /\ hp.mapped[b] = RoundUp(r.bytes)
    BY <1>1, <1>3, RoundUpFacts DEF Heap
  <2>2. r.bytes <= BytesIn(hp, b) /\ (b \in HugeBlocks => hp.mapped[b] # 0) /\ BytesIn(hp, b) \in Nat
    <3>1. CASE b \in Slots
      <4>1. BagSize[BagOf[b]] \in Nat
        BY <3>1, <1>2, ApiAssumption
      <4>2. QED
        BY <3>1, <4>1, <1>1, <1>2 DEF BytesIn
    <3>2. CASE b \in HugeBlocks
      <4>1. b \notin Slots
        BY <3>2, <1>1
      <4>2. QED
        BY <3>2, <4>1, <2>1, <1>1, RoundUpFacts DEF BytesIn
    <3>3. QED
      BY <3>1, <3>2 DEF Blocks
  <2>3. h.shift + h.size <= BytesIn(hp, h.block)
    <3>1. shift \in Nat
      <4>1. Offset[b] \in 0 .. Alignment - 1 /\ Alignment \in Nat
        BY ApiAssumption, OffsetAssumption
      <4>2. QED
        BY <4>1
    <3>2. shift + Promised(n, c, interface) <= r.bytes
      BY DEF Serving
    <3>3. QED
      BY <3>1, <3>2, <2>2, <1>1, <1>6
  <2>4. Individual(b) => h.site \in {SiteOf[BagOf[b]], AnySite}
    <3>1. CASE Individual(b) /\ c.size <= MAX_SIZE
      <4>1. r.loop /\ SiteOf[BagOf[b]] = r.CSI
        BY <3>1, <1>2 DEF Individual
      <4>2. QED
        BY <3>1, <4>1, <1>6 DEF Serving
    <3>2. CASE ~ (Individual(b) /\ c.size <= MAX_SIZE)
      BY <3>2, <1>6
    <3>3. QED
      BY <3>1, <3>2
  <2>5. b \in Slots => b \in hp.carved \ hp.free /\ (hp.header[b].A <=> shift = 0)
    BY <1>3, <1>4
  <2>6. shift \in Nat
    <3>1. Offset[b] \in 0 .. Alignment - 1 /\ Alignment \in Nat
      BY ApiAssumption, OffsetAssumption
    <3>2. QED
      BY <3>1
  <2>7. h \in Object
    <3>1. SiteId(c) \in Nat /\ AnySite \in Nat /\ c.layer \in Nat
      BY SiteIdType
    <3>2. QED
      BY <3>1, <2>6 DEF Handed, Object, h
  <2>8. QED
    BY <2>2, <2>3, <2>4, <2>5, <2>7, <1>3, <1>6 DEF ObjectOk
\* What the program already held, and freed, is as it was.
<1>9. ASSUME NEW x \in held PROVE ObjectOk(hp, x)
  <2>1. ObjectOk(heap, x) /\ x.block \in Blocks /\ x.block # b
    BY <1>7 DEF Good
  <2>2. /\ hp.header[x.block] = heap.header[x.block]
        /\ x.block \in HugeBlocks => hp.mapped[x.block] = heap.mapped[x.block]
        /\ x.block \in heap.carved \ heap.free => x.block \in hp.carved \ hp.free
    BY <2>1, <1>1, <1>3 DEF Blocks, Heap
  <2>3. BytesIn(hp, x.block) = BytesIn(heap, x.block)
    BY <2>1, <2>2 DEF BytesIn, Blocks
  <2>4. QED
    BY <2>1, <2>2, <2>3 DEF ObjectOk
<1>10. ASSUME NEW p \in Forget(b) PROVE StaleOk(hp, p)
  <2>1. StaleOk(heap, p) /\ p.block # b
    BY DEF Good, Forget
  <2>2. p.block \in Blocks
    BY <2>1 DEF StaleOk
  <2>3. /\ hp.header[p.block] = heap.header[p.block]
        /\ p.block \in HugeBlocks => hp.mapped[p.block] = heap.mapped[p.block]
        /\ p.block \in heap.carved => p.block \in hp.carved
    BY <2>1, <2>2, <1>1, <1>3 DEF Blocks, Heap
  <2>4. QED
    BY <2>1, <2>3 DEF StaleOk
<1>11. Separate(held \cup {h}, Forget(b))
  <2>1. \A x, y \in held \cup {h} : x.block = y.block => x = y
    BY <1>6, <1>7 DEF Good, Separate
  <2>2. \A x \in held \cup {h}, p \in Forget(b) : x.block # p.block
    BY <1>6 DEF Good, Separate, Forget
  <2>3. QED
    BY <2>1, <2>2 DEF Separate
<1>12. QED
  BY <1>5, <1>8, <1>9, <1>10, <1>11 DEF Good, h

-----------------------------------------------------------------------------
(* Releasing a pointer.                                                    *)

\* The heap r differs from hp in nothing but its status, and the bytes before aligned
\* addresses.
SameBlocks(hp, r) ==
    /\ r \in Heap
    /\ r.header = hp.header /\ r.carved = hp.carved /\ r.free = hp.free /\ r.mapped = hp.mapped

\* Its slot b went to the free list of its bag, not allocated any more.
SlotFreed(hp, r, b) ==
    /\ r \in Heap /\ b \in Slots
    /\ \A d \in Blocks : /\ d # b => r.header[d] = hp.header[d]
                         /\ r.header[d].T = hp.header[d].T
    /\ ~r.header[b].A
    /\ r.carved = hp.carved /\ r.free = hp.free \cup {b} /\ r.mapped = hp.mapped

Unmapped(hp, r, b) ==
    /\ r \in Heap /\ b \in HugeBlocks
    /\ r.header = hp.header /\ r.carved = hp.carved /\ r.free = hp.free
    /\ r.mapped = [hp.mapped EXCEPT ![b] = 0]

LEMMA setFreeFacts ==
    ASSUME NEW hp \in Heap, NEW p, p.block \in Slots,
           p.shift = 0 \/ ~hp.header[p.block].A
    PROVE  LET r == setFree([hp EXCEPT !.free = @ \cup {p.block}], p)
           IN  SlotFreed(hp, r, p.block) /\ r.status = hp.status
<1> DEFINE b == p.block
           free == hp.free \cup {b}
           g == [hp EXCEPT !.free = free]
           r == setFree(g, p)
<1>1. /\ hp.header \in [Blocks -> Header] /\ hp.inner \in [Blocks -> Header]
      /\ hp.carved \in SUBSET Slots /\ free \in SUBSET Slots
      /\ hp.mapped \in [HugeBlocks -> Nat] /\ hp.status \in {"run", "exit", "crash"}
      /\ b \in Slots /\ b \in Blocks
  BY DEF Heap, Blocks
<1>2. g = [status |-> hp.status, header |-> hp.header, inner |-> hp.inner,
           carved |-> hp.carved, free |-> free, mapped |-> hp.mapped]
  <2> HIDE DEF free
  <2>1. QED
    BY DEF Heap
<1> HIDE DEF g
<1>3. CASE p.shift = 0
  <2> DEFINE h == [hp.header[b] EXCEPT !.A = FALSE]
  <2>1. h \in Header /\ h.A = FALSE /\ h.T = hp.header[b].T
    <3>1. hp.header[b] \in Header
      BY <1>1
    <3> DEFINE header == hp.header[b]
    <3> HIDE DEF header, b
    <3>2. [header EXCEPT !.A = FALSE] \in Header
          /\ [header EXCEPT !.A = FALSE].A = FALSE /\ [header EXCEPT !.A = FALSE].T = header.T
      BY <3>1 DEF Header, header
    <3>3. QED
      BY <3>2 DEF header
  <2>2. r = [g EXCEPT !.header[b].A = FALSE]
    BY <1>3 DEF setFree
  <2>3. r = [status |-> hp.status, header |-> [hp.header EXCEPT ![b] = h], inner |-> hp.inner,
             carved |-> hp.carved, free |-> free, mapped |-> hp.mapped]
    BY <2>2, <1>2
  <2> HIDE DEF h, r, b
  <2>4. r \in Heap
    BY <2>1, <2>3, <1>1 DEF Heap
  <2>5. SlotFreed(hp, r, b) /\ r.status = hp.status
    BY <2>1, <2>3, <2>4, <1>1 DEF SlotFreed
  <2>6. QED
    BY <2>5 DEF r, b, g
<1>4. CASE p.shift # 0
  <2> DEFINE i == [hp.inner[b] EXCEPT !.A = FALSE]
  <2>1. i \in Header
    BY <1>1 DEF Header
  <2>2. r = [g EXCEPT !.inner[b].A = FALSE]
    BY <1>4 DEF setFree
  <2>3. r = [status |-> hp.status, header |-> hp.header, inner |-> [hp.inner EXCEPT ![b] = i],
             carved |-> hp.carved, free |-> free, mapped |-> hp.mapped]
    BY <2>2, <1>2
  <2>4. ~hp.header[b].A
    BY <1>4
  <2> HIDE DEF i, r, b
  <2>5. r \in Heap
    BY <2>1, <2>3, <1>1 DEF Heap
  <2>6. SlotFreed(hp, r, b) /\ r.status = hp.status
    BY <2>3, <2>4, <2>5, <1>1 DEF SlotFreed
  <2>7. QED
    BY <2>6 DEF r, b, g
<1>5. QED
  BY <1>3, <1>4

\* An object held at the start of its block is released for good; any other pointer
\* releases at most a slot, and when it is unshifted the process stops.
LEMMA ReleasedFacts ==
    ASSUME NEW hp, NEW p, HeapOk(hp), p.block \in Blocks,
           hp.header[p.block] = heap.header[p.block]
    PROVE  LET r == Released(hp, p)
           IN  /\ (/\ p.shift = 0
                   /\ p.block \in Slots => hp.header[p.block].A
                   /\ p.block \in HugeBlocks => hp.mapped[p.block] # 0 /\ hp.header[p.block].T)
                  => /\ SlotFreed(hp, r, p.block) \/ Unmapped(hp, r, p.block)
                     /\ r.status = hp.status
               /\ StaleOk(hp, p) => /\ SameBlocks(hp, r) \/ SlotFreed(hp, r, p.block)
                                    /\ p.shift = 0 => r.status # "run"
<1> DEFINE b == p.block
           r == Released(hp, p)
<1>1. /\ hp \in Heap /\ Slots \cap HugeBlocks = {}
      /\ hp.header \in [Blocks -> Header] /\ hp.inner \in [Blocks -> Header]
      /\ hp.carved \in SUBSET Slots /\ hp.free \in SUBSET Slots
      /\ hp.mapped \in [HugeBlocks -> Nat] /\ hp.status \in {"run", "exit", "crash"}
  BY ApiAssumption DEF HeapOk, Heap
<1>2. b \in Slots => ~hp.header[b].T
  BY DEF HeapOk
<1>3. p.shift = 0 => HeaderAt(p) = hp.header[b]
  BY DEF HeaderAt
<1>4. ASSUME NEW v \in {"exit", "crash"}
      PROVE  SameBlocks(hp, [hp EXCEPT !.status = v]) /\ [hp EXCEPT !.status = v].status # "run"
  BY <1>1, <1>4 DEF SameBlocks, Heap
<1>5. SameBlocks(hp, hp)
  BY <1>1 DEF SameBlocks
<1>6. ASSUME p.shift = 0,
             b \in Slots => hp.header[b].A,
             b \in HugeBlocks => hp.mapped[b] # 0 /\ hp.header[b].T
      PROVE  (SlotFreed(hp, r, b) \/ Unmapped(hp, r, b)) /\ r.status = hp.status
  <2>1. CASE b \in Slots
    <3>1. r = setFree([hp EXCEPT !.free = @ \cup {b}], p)
      BY <2>1, <1>1, <1>2, <1>3, <1>6 DEF Released
    <3>2. QED
      BY <3>1, <2>1, <1>1, <1>6, setFreeFacts
  <2>2. CASE b \in HugeBlocks
    <3>1. r = [hp EXCEPT !.mapped[b] = 0]
      BY <2>2, <1>1, <1>3, <1>6 DEF Released, freeHugeMemory
    <3>2. r = [status |-> hp.status, header |-> hp.header, inner |-> hp.inner,
               carved |-> hp.carved, free |-> hp.free, mapped |-> [hp.mapped EXCEPT ![b] = 0]]
      BY <3>1, <1>1 DEF Heap
    <3> HIDE DEF r, b
    <3>3. QED
      BY <3>2, <2>2, <1>1 DEF Unmapped, Heap
  <2>3. QED
    BY <2>1, <2>2 DEF Blocks
<1>7. ASSUME StaleOk(hp, p)
      PROVE  /\ SameBlocks(hp, r) \/ SlotFreed(hp, r, b)
             /\ p.shift = 0 => r.status # "run"
  <2>1. CASE b \in HugeBlocks
    <3>1. b \notin Slots /\ (p.shift = 0 => hp.mapped[b] = 0)
      BY <2>1, <1>1, <1>7 DEF StaleOk
    <3>2. \/ r = [hp EXCEPT !.status = "crash"] \/ r = [hp EXCEPT !.status = "exit"]
          \/ r = hp /\ p.shift # 0
      BY <3>1, <2>1 DEF Released, freeHugeMemory
    <3>3. QED
      BY <3>2, <1>4, <1>5
  <2>2. CASE b \in Slots
    <3>1. b \notin HugeBlocks /\ ~hp.header[b].A /\ ~hp.header[b].T
      BY <2>2, <1>1, <1>2, <1>7 DEF StaleOk
    <3>2. \/ r = [hp EXCEPT !.status = "exit"]
          \/ r = hp /\ p.shift # 0
          \/ r = setFree([hp EXCEPT !.free = @ \cup {b}], p) /\ p.shift # 0
      BY <3>1, <1>3 DEF Released, freeHugeMemory
    <3>3. CASE r = setFree([hp EXCEPT !.free = @ \cup {b}], p) /\ p.shift # 0
      <4>1. p.block \in Slots /\ ~hp.header[p.block].A
        BY <2>2, <3>1
      <4>2. SlotFreed(hp, setFree([hp EXCEPT !.free = @ \cup {p.block}], p), p.block)
        BY <4>1, <1>1, setFreeFacts
      <4>3. QED
        BY <4>2, <3>3
    <3>4. QED
      BY <3>2, <3>3, <1>4, <1>5
  <2>3. QED
    BY <2>1, <2>2 DEF Blocks
<1> HIDE DEF r
<1>8. QED
  BY <1>6, <1>7 DEF r

\* Releasing a pointer that is held, or was freed before, keeps the invariant.
LEMMA ReleaseKeeps ==
    ASSUME NEW hp, NEW hd, NEW st, Good(hp, hd, st),
           NEW p, p \in st \/ \E x \in hd : p = Pointer(x),
           hp.header[p.block] = heap.header[p.block]
    PROVE  /\ Good(Released(hp, p), {x \in hd : Pointer(x) # p}, st \cup {p})
           /\ p.shift = 0 /\ p \notin st => Released(hp, p).status = hp.status
           /\ p.shift = 0 /\ p \in st => Released(hp, p).status # "run"
<1> DEFINE b == p.block
           r == Released(hp, p)
           rest == {x \in hd : Pointer(x) # p}
           Mine == /\ p.shift = 0
                   /\ b \in Slots => hp.header[b].A
                   /\ b \in HugeBlocks => hp.mapped[b] # 0 /\ hp.header[b].T
<1>1. /\ HeapOk(hp) /\ hp \in Heap /\ Slots \cap HugeBlocks = {}
      /\ hp.mapped \in [HugeBlocks -> Nat]
  BY ApiAssumption DEF Good, HeapOk, Heap
<1>2. /\ b \in Blocks /\ p.shift \in {0, Offset[b]}
      /\ b \in Slots => b \in hp.carved
      /\ StaleOk(hp, p) \/ (Mine /\ p \notin st)
  <2>1. CASE p \in st
    BY <2>1 DEF Good, StaleOk
  <2>2. CASE p \notin st
    <3>1. PICK x \in hd : p = Pointer(x)
      BY <2>2
    <3>2. ObjectOk(hp, x) /\ b = x.block /\ p.shift = x.shift
      BY <3>1 DEF Good, Pointer
    <3>3. QED
      BY <3>2, <2>2 DEF ObjectOk, Object, StaleOk
  <2>3. QED
    BY <2>1, <2>2
<1>3. rest \subseteq hd /\ \A x \in rest : x.block # b
  <2>1. SUFFICES ASSUME NEW x \in hd, x.block = b PROVE Pointer(x) = p
    OBVIOUS
  <2>2. p \notin st
    BY <2>1 DEF Good, Separate
  <2>3. PICK y \in hd : p = Pointer(y)
    BY <2>2
  <2>4. x.block = y.block
    BY <2>1, <2>3 DEF Pointer
  <2>5. QED
    BY <2>3, <2>4 DEF Good, Separate
<1>4. /\ Mine => /\ SlotFreed(hp, r, b) \/ Unmapped(hp, r, b)
                 /\ r.status = hp.status
      /\ StaleOk(hp, p) => /\ SameBlocks(hp, r) \/ SlotFreed(hp, r, b)
                           /\ p.shift = 0 => r.status # "run"
  BY <1>1, <1>2, ReleasedFacts
<1> HIDE DEF r, rest
<1>5. SlotFreed(hp, r, b) \/ Unmapped(hp, r, b) \/ (SameBlocks(hp, r) /\ StaleOk(hp, p))
  BY <1>2, <1>4
<1> HIDE DEF Mine
\* What holds of the released block, and of all the others.
<1>6. /\ r \in Heap /\ r.carved = hp.carved /\ r.free \subseteq r.carved
      /\ b \in Slots => ~r.header[b].A
      /\ b \in HugeBlocks /\ p.shift = 0 => r.mapped[b] = 0
      /\ \A d \in Blocks : r.header[d].T = hp.header[d].T
      /\ \A d \in Blocks : d # b => /\ r.header[d] = hp.header[d]
                                    /\ d \in r.free <=> d \in hp.free
                                    /\ d \in HugeBlocks => r.mapped[d] = hp.mapped[d]
  <2>1. CASE SlotFreed(hp, r, b)
    BY <2>1, <1>1, <1>2 DEF SlotFreed, HeapOk
  <2>2. CASE Unmapped(hp, r, b)
    BY <2>2, <1>1, <1>2 DEF Unmapped, HeapOk
  <2>3. CASE SameBlocks(hp, r) /\ StaleOk(hp, p)
    BY <2>3, <1>1, <1>2 DEF SameBlocks, HeapOk, StaleOk
  <2>4. QED
    BY <1>5, <2>1, <2>2, <2>3
<1>7. HeapOk(r)
  <2>1. ASSUME NEW s \in Slots
        PROVE  ~r.header[s].T /\ (s \in r.free \/ s \notin r.carved => ~r.header[s].A)
    <3>1. s \in Blocks
      BY DEF Blocks
    <3>2. QED
      BY <3>1, <1>1, <1>6 DEF HeapOk
  <2>2. QED
    BY <2>1, <1>6 DEF HeapOk
<1>8. ASSUME NEW x \in rest PROVE ObjectOk(r, x)
  <2>1. ObjectOk(hp, x) /\ x.block # b
    BY <1>3 DEF Good
  <2>2. x.block \in Blocks
    BY <2>1 DEF ObjectOk, Object
  <2>3. BytesIn(r, x.block) = BytesIn(hp, x.block)
    BY <2>1, <2>2, <1>6 DEF BytesIn, Blocks
  <2>4. QED
    BY <2>1, <2>2, <2>3, <1>6 DEF ObjectOk
<1>9. ASSUME NEW q \in st \cup {p} PROVE StaleOk(r, q)
  <2>1. CASE q.block = b
    <3>1. q \in st => StaleOk(hp, q)
      BY DEF Good
    <3>2. /\ q.shift \in {0, Offset[b]}
          /\ q \in st /\ q.shift = 0 /\ b \in HugeBlocks => hp.mapped[b] = 0
      BY <3>1, <2>1, <1>2 DEF StaleOk
    <3>3. b \in HugeBlocks => r.mapped[b] = 0 \/ r.mapped[b] = hp.mapped[b]
      BY <1>1, <1>5 DEF SlotFreed, Unmapped, SameBlocks
    <3>4. b \in HugeBlocks /\ q.shift = 0 => r.mapped[b] = 0
      <4>1. CASE q \in st
        BY <4>1, <3>2, <3>3
      <4>2. CASE q = p
        BY <4>2, <1>6
      <4>3. QED
        BY <4>1, <4>2
    <3>5. QED
      BY <2>1, <3>2, <3>4, <1>2, <1>6 DEF StaleOk
  <2>2. CASE q.block # b
    <3>1. StaleOk(hp, q) /\ q.block \in Blocks
      BY <2>2 DEF Good, StaleOk
    <3>2. QED
      BY <3>1, <2>2, <1>6 DEF StaleOk
  <2>3. QED
    BY <2>1, <2>2
<1>10. Separate(rest, st \cup {p})
  BY <1>3 DEF Good, Separate
<1>11. Good(r, rest, st \cup {p})
  BY <1>7, <1>8, <1>9, <1>10 DEF Good
<1>12. /\ p.shift = 0 /\ p \notin st => r.status = hp.status
       /\ p.shift = 0 /\ p \in st => r.status # "run"
  <2>1. p \in st => StaleOk(hp, p)
    BY DEF Good
  <2>2. p \notin st /\ p.shift = 0 => Mine
    <3>1. SUFFICES ASSUME p \notin st, p.shift = 0 PROVE Mine
      OBVIOUS
    <3>2. PICK x \in hd : p = Pointer(x)
      BY <3>1
    <3>3. ObjectOk(hp, x) /\ b = x.block /\ x.shift = 0
      BY <3>1, <3>2 DEF Good, Pointer
    <3>4. QED
      BY <3>1, <3>3 DEF ObjectOk, Mine
  <2>3. QED
    BY <2>1, <2>2, <1>4
<1>13. QED
  BY <1>11, <1>12 DEF r, rest

-----------------------------------------------------------------------------
(* Initial state and steps.                                                *)

LEMMA SameBlocksGood ==
    ASSUME NEW hp, NEW r, NEW hd, NEW st, Good(hp, hd, st), SameBlocks(hp, r)
    PROVE  Good(r, hd, st)
<1>1. HeapOk(r)
  BY DEF Good, HeapOk, SameBlocks
<1>2. \A x \in hd : ObjectOk(r, x)
  BY DEF Good, ObjectOk, SameBlocks, BytesIn
<1>3. \A p \in st : StaleOk(r, p)
  BY DEF Good, StaleOk, SameBlocks
<1>4. QED
  BY <1>1, <1>2, <1>3 DEF Good

\* A call that stops the process without touching a block.
LEMMA StopGood ==
    ASSUME Good(heap, held, stale), NEW v \in {"exit", "crash"},
           heap' = [heap EXCEPT !.status = v], UNCHANGED <<held, stale>>
    PROVE  Good(heap, held, stale)' /\ heap'.status = v
<1>1. SameBlocks(heap, heap') /\ heap'.status = v
  BY DEF Good, HeapOk, Heap, SameBlocks
<1>2. Good(heap', held, stale)
  BY <1>1, SameBlocksGood
<1>3. QED
  BY <1>1, <1>2

LEMMA InitHolds == Init => ApiInv
<1> SUFFICES ASSUME Init PROVE ApiInv
  OBVIOUS
<1>1. /\ heap = [status |-> "run", header |-> [b \in Blocks |-> Zero],
                 inner |-> [b \in Blocks |-> Zero], carved |-> {}, free |-> {},
                 mapped |-> [h \in HugeBlocks |-> 0]]
      /\ held = {} /\ stale = {} /\ last = "none"
  BY DEF Init
<1>2. Zero \in Header /\ ~Zero.A /\ ~Zero.T
  BY DEF Zero, Header
<1>3. heap \in Heap
  BY <1>1, <1>2 DEF Heap
<1>4. \A s \in Slots : heap.header[s] = Zero
  BY <1>1 DEF Blocks
<1>5. HeapOk(heap)
  BY <1>1, <1>2, <1>3, <1>4 DEF HeapOk
<1>6. Good(heap, held, stale)
  BY <1>1, <1>5 DEF Good, Separate
<1>7. QED
  BY <1>1, <1>6 DEF ApiInv, ReportJustified, DoubleFreeStops

\* A call that allocates.
LEMMA AllocateStep ==
    ASSUME ApiInv, NEW c \in Requests, NEW b \in Blocks,
           css_malloc(c, b) \/ css_calloc(c, b) \/ css_memalign(c, b)
    PROVE  ApiInv'
<1>1. /\ Good(heap, held, stale) /\ heap \in Heap /\ heap.status = "run"
      /\ last' = last /\ stale' = Forget(b)
  BY DEF ApiInv, Good, HeapOk, css_malloc, css_calloc, css_memalign, Allocate
<1>2. ASSUME NEW r, b \in BlocksFor(r), NEW shift \in {0, Offset[b]}, NEW n, NEW interface,
             Promised(n, c, interface) \in Nat,
             Serving(r, shift, Promised(n, c, interface), c),
             HandsOut(heap', b, r.bytes, shift),
             held' = held \cup {Handed(b, shift, n, c, interface)}
      PROVE  ApiInv'
  <2>1. Good(heap', held \cup {Handed(b, shift, n, c, interface)}, Forget(b))
    BY <1>1, <1>2, AllocationKeeps
  <2>2. Good(heap, held, stale)'
    BY <2>1, <1>1, <1>2
  <2>3. r.bytes \in Nat
    BY <1>2 DEF Serving
  <2>4. heap'.status = "run"
    BY <2>3, <1>1, <1>2, HandsOutFacts
  <2>5. QED
    BY <2>2, <2>4, <1>1 DEF ApiInv, ReportJustified, DoubleFreeStops
<1>3. CASE css_malloc(c, b)
  <2> DEFINE r == MallocRequest(WordOf(c))
  <2>1. /\ b \in BlocksFor(r) /\ HandsOut(heap', b, r.bytes, 0)
        /\ held' = held \cup {Handed(b, 0, c.size, c, "malloc")}
    BY <1>3 DEF css_malloc, Allocate, HandsOut
  <2>2. Promised(c.size, c, "malloc") \in Nat /\ Serving(r, 0, Promised(c.size, c, "malloc"), c)
    BY MallocServes
  <2> HIDE DEF r
  <2>3. QED
    BY <2>1, <2>2, <1>2
<1>4. CASE css_calloc(c, b)
  <2> DEFINE r == CallocRequest(c.nmemb, WordOf(c))
             n == c.nmemb * c.size
  <2>1. /\ b \in BlocksFor(r) /\ HandsOut(heap', b, r.bytes, 0)
        /\ held' = held \cup {Handed(b, 0, n, c, "calloc")}
    BY <1>4 DEF css_calloc, Allocate, HandsOut
  <2>2. Promised(n, c, "calloc") \in Nat /\ Serving(r, 0, Promised(n, c, "calloc"), c)
    BY CallocServes
  <2> HIDE DEF r, n
  <2>3. QED
    BY <2>1, <2>2, <1>2
<1>5. CASE css_memalign(c, b)
  <2> DEFINE r == Regular(AlignedSize(GET_REAL_SIZE(WordOf(c))), WordOf(c))
  <2>1. /\ b \in BlocksFor(r) /\ HandsOut(heap', b, r.bytes, Offset[b])
        /\ held' = held \cup {Handed(b, Offset[b], c.size, c, "memalign")}
    BY <1>5 DEF css_memalign, HandsOut
  <2>2. /\ Promised(c.size, c, "memalign") \in Nat
        /\ Serving(r, Offset[b], Promised(c.size, c, "memalign"), c)
    BY MemalignServes
  <2> HIDE DEF r
  <2>3. QED
    BY <2>1, <2>2, <1>2
<1>6. QED
  BY <1>3, <1>4, <1>5

\* A free: of a pointer that is held, or a second one.
LEMMA FreeStep ==
    ASSUME ApiInv, NEW p, p \in stale \/ \E x \in held : p = Pointer(x), css_free(p)
    PROVE  ApiInv'
<1>1. /\ Good(heap, held, stale) /\ heap.status = "run" /\ heap' = Released(heap, p)
      /\ held' = {x \in held : Pointer(x) # p} /\ stale' = stale \cup {p} /\ last' = Deed(p)
  BY DEF ApiInv, css_free
<1>2. /\ Good(Released(heap, p), {x \in held : Pointer(x) # p}, stale \cup {p})
      /\ p.shift = 0 /\ p \notin stale => Released(heap, p).status = heap.status
      /\ p.shift = 0 /\ p \in stale => Released(heap, p).status # "run"
  BY <1>1, ReleaseKeeps
<1>3. Good(heap, held, stale)'
  BY <1>1, <1>2
<1>4. last' \in {"none", "good", "double", "shifted", "alignment"}
  BY <1>1 DEF Deed
<1>5. ReportJustified' /\ DoubleFreeStops'
  BY <1>1, <1>2 DEF Deed, ReportJustified, DoubleFreeStops
<1>6. QED
  BY <1>3, <1>4, <1>5 DEF ApiInv

\* realloc in place changes the size the program may use.
LEMMA InPlaceStep ==
    ASSUME ApiInv, NEW x \in held, NEW c \in Requests, reallocInPlace(x, c)
    PROVE  ApiInv'
<1> DEFINE n == Promised(c.size, c, "realloc")
           y == [x EXCEPT !.size = n, !.inPlace = x.shift # 0]
<1>1. /\ Good(heap, held, stale) /\ StaysInPlace(x, c)
      /\ held' = (held \ {x}) \cup {y} /\ UNCHANGED <<heap, stale, last>>
  BY DEF ApiInv, reallocInPlace, Kept
<1>2. ObjectOk(heap, x)
  BY <1>1 DEF Good
<1>3. /\ n \in Nat /\ n <= GET_REAL_SIZE(WordOf(c)) /\ GET_REAL_SIZE(WordOf(c)) \in Nat
  <2>1. c.size \in Nat /\ SizeMod \in Nat \ {0}
    BY ApiAssumption, PowersAssumption DEF HUGE_BIT, LOOP_BIT
  <2>2. GET_REAL_SIZE(WordOf(c)) \in Nat
    <3>1. WordOf(c) % SizeMod \in 0 .. SizeMod - 1
      BY <2>1, WordFacts, DivMod
    <3>2. QED
      BY <3>1, <2>1 DEF GET_REAL_SIZE
  <2>3. CASE c.size <= MAX_SIZE
    BY <2>1, <2>2, <2>3, WordFacts DEF Promised
  <2>4. CASE ~ (c.size <= MAX_SIZE)
    BY <2>2, <2>4 DEF Promised, Covered
  <2>5. QED
    BY <2>3, <2>4, <2>2
<1>4. x.shift = 0 => GET_REAL_SIZE(WordOf(c)) <= BytesIn(heap, x.block)
  BY <1>1 DEF StaysInPlace, FitsInPlace, Pointer, css_malloc_usable_size, BytesIn
<1>5. x.shift = 0 => BytesIn(heap, x.block) \in Nat
  <2>1. x.block \in Blocks /\ heap.mapped \in [HugeBlocks -> Nat]
    BY <1>1, <1>2 DEF ObjectOk, Object, Good, HeapOk, Heap
  <2>2. \A s \in Slots : BagSize[BagOf[s]] \in Nat
    BY ApiAssumption
  <2>3. QED
    BY <2>1, <2>2 DEF BytesIn, Blocks
<1> HIDE DEF n
<1>6. /\ y.block = x.block /\ y.shift = x.shift /\ y.size = n
      /\ y.inPlace = (x.shift # 0) /\ y.site = x.site /\ y.layer = x.layer
  BY <1>2 DEF ObjectOk, Object
<1> HIDE DEF y
<1>7. ObjectOk(heap, y)
  <2>1. y \in Object
    BY <1>2, <1>3 DEF ObjectOk, Object, y
  <2>2. x.shift = 0 => y.shift + y.size <= BytesIn(heap, y.block)
    BY <1>3, <1>4, <1>5, <1>6
  <2>3. QED
    BY <2>1, <2>2, <1>2, <1>3, <1>6 DEF ObjectOk
<1>8. Separate((held \ {x}) \cup {y}, stale)
  BY <1>1, <1>6 DEF Good, Separate
<1>9. Good(heap, (held \ {x}) \cup {y}, stale)
  BY <1>1, <1>7, <1>8 DEF Good
<1>10. Good(heap, held, stale)'
  BY <1>1, <1>9
<1>11. QED
  BY <1>1, <1>10 DEF ApiInv, ReportJustified, DoubleFreeStops

\* realloc that moves: an allocation, and the release of the old block.
LEMMA MovesStep ==
    ASSUME ApiInv, NEW x \in held, NEW c \in Requests, NEW b \in Blocks, reallocMoves(x, c, b)
    PROVE  ApiInv'
<1> DEFINE r == MallocRequest(WordOf(c))
           h == Handed(b, 0, c.size, c, "malloc")
           p == Pointer(x)
<1>1. PICK hp \in ProgramWrites(Given(b, r.bytes), b) :
        /\ heap.status = "run" /\ b \in BlocksFor(r)
        /\ heap' = Released(hp, p)
        /\ held' = (held \ {x}) \cup {h} /\ stale' = Forget(b) \cup {p} /\ last' = Deed(p)
  BY DEF reallocMoves
<1>2. Good(heap, held, stale) /\ heap \in Heap
  BY DEF ApiInv, Good, HeapOk
<1>3. /\ Promised(c.size, c, "malloc") \in Nat /\ Serving(r, 0, Promised(c.size, c, "malloc"), c)
      /\ HandsOut(hp, b, r.bytes, 0)
  BY <1>1, MallocServes DEF HandsOut
<1> HIDE DEF r
<1>4. Good(hp, held \cup {h}, Forget(b))
  BY <1>1, <1>2, <1>3, AllocationKeeps
<1>5. r.bytes \in Nat
  BY <1>3 DEF Serving
<1>6. hp.status = "run" /\ \A d \in Blocks : d # b => hp.header[d] = heap.header[d]
  BY <1>1, <1>2, <1>3, <1>5, HandsOutFacts
<1>7. h.block = b /\ p.block = x.block /\ p.shift = x.shift
  BY DEF Handed, Pointer
<1> HIDE DEF h
<1>8. x.block \in Blocks /\ x.block # b
  <2>1. ObjectOk(heap, x)
    BY <1>2 DEF Good
  <2>2. b \in HugeBlocks => heap.mapped[b] = 0
    BY <1>1, <1>2, <1>3, <1>5, ServingBlock DEF Serving
  <2>3. b \in Slots => b \in heap.free \/ b \notin heap.carved
    BY <1>1, <1>2, <1>3, <1>5, ServingBlock DEF Serving
  <2>4. QED
    BY <2>1, <2>2, <2>3 DEF ObjectOk, Object, Blocks
<1>9. hp.header[p.block] = heap.header[p.block]
  BY <1>6, <1>7, <1>8
<1>10. p \notin stale /\ p \notin Forget(b)
  BY <1>2, <1>7 DEF Good, Separate, Forget
<1>11. (held \ {x}) \cup {h} = {z \in held \cup {h} : Pointer(z) # p}
  <2>1. Pointer(h) # p
    BY <1>7, <1>8 DEF Pointer
  <2>2. \A z \in held : Pointer(z) = p => z = x
    BY <1>2 DEF Good, Separate, Pointer
  <2>3. QED
    BY <2>1, <2>2, <1>7, <1>8
<1>12. \E z \in held \cup {h} : p = Pointer(z)
  OBVIOUS
<1> HIDE DEF p
<1>13. /\ Good(Released(hp, p), {z \in held \cup {h} : Pointer(z) # p}, Forget(b) \cup {p})
       /\ p.shift = 0 => Released(hp, p).status = hp.status
  BY <1>4, <1>9, <1>10, <1>12, ReleaseKeeps
<1>14. Good(heap, held, stale)'
  BY <1>1, <1>11, <1>13
<1>15. last' = (IF p.shift # 0 THEN "shifted" ELSE "good")
  BY <1>1, <1>10 DEF Deed
<1>16. QED
  BY <1>1, <1>6, <1>13, <1>14, <1>15 DEF ApiInv, ReportJustified, DoubleFreeStops

LEMMA StepKeeps ==
    ASSUME ApiInv, [Next]_vars
    PROVE  ApiInv'
<1>1. CASE css_memalignRefuses
  <2>1. Good(heap, held, stale)' /\ heap'.status = "exit" /\ last' = "alignment"
    BY <1>1, StopGood DEF ApiInv, css_memalignRefuses
  <2>2. QED
    BY <2>1 DEF ApiInv, ReportJustified, DoubleFreeStops
<1>2. ASSUME NEW x \in held, NEW c \in Requests, css_realloc(x, c) PROVE ApiInv'
  <2>1. CASE css_free(Pointer(x))
    BY <2>1, FreeStep
  <2>2. CASE reallocCrashes(x, c)
    <3>1. /\ Good(heap, held, stale)' /\ heap'.status = "crash" /\ last' = last
          /\ heap.status = "run"
      BY <2>2, StopGood DEF ApiInv, reallocCrashes
    <3>2. QED
      BY <3>1 DEF ApiInv, ReportJustified, DoubleFreeStops
  <2>3. QED
    BY <1>2, <2>1, <2>2, InPlaceStep, MovesStep DEF css_realloc
<1>3. CASE UNCHANGED vars
  <2>1. Good(heap, held, stale)'
    BY <1>3 DEF vars, ApiInv
  <2>2. QED
    BY <2>1, <1>3 DEF vars, ApiInv, ReportJustified, DoubleFreeStops
<1>4. ASSUME NEW p \in {Pointer(x) : x \in held} \cup stale, css_free(p) PROVE ApiInv'
  BY <1>4, FreeStep
<1>5. QED
  BY <1>1, <1>2, <1>3, <1>4, AllocateStep DEF Next, Ended

-----------------------------------------------------------------------------
(* The theorems.                                                           *)

\* The inductive invariant of ObjectApi holds.
THEOREM ApiInvariant == Spec => []ApiInv
<1>1. QED
  BY InitHolds, StepKeeps, PTL DEF Spec

\* Every variable keeps its shape, and only slots that were handed out are free.
THEOREM ApiTypes == Spec => []TypeOK
<1>1. ApiInv => TypeOK
  BY DEF ApiInv, Good, HeapOk, ObjectOk, Object, StaleOk, TypeOK
<1>2. QED
  BY <1>1, ApiInvariant, PTL

\* However often the bits of a header are flipped (setAllocation, setGlobal), it tells
\* css_free and css_realloc what the object is.
THEOREM HeadersRight == Spec => []HeadersTell
<1>1. ASSUME ApiInv PROVE HeadersTell
  <2>1. Slots \cap HugeBlocks = {} /\ HeapOk(heap)
    BY <1>1, ApiAssumption DEF ApiInv, Good
  <2>2. \A s \in heap.free : ~heap.header[s].A
    BY <2>1 DEF HeapOk, Heap
  <2>3. ASSUME NEW x \in held, x.shift = 0
        PROVE  /\ heap.header[x.block].T <=> x.block \in HugeBlocks
               /\ x.block \in Slots => heap.header[x.block].A
    <3>1. ObjectOk(heap, x)
      BY <1>1 DEF ApiInv, Good
    <3>2. QED
      BY <3>1, <2>1, <2>3 DEF ObjectOk, Object, HeapOk, Blocks
  <2>4. QED
    BY <2>2, <2>3 DEF HeadersTell
<1>2. QED
  BY <1>1, ApiInvariant, PTL

\* No block is handed out while the program holds it (mallocMemory, css_realloc).
THEOREM OwnersUnique == Spec => []OneOwner
<1>1. ASSUME ApiInv PROVE OneOwner
  <2>1. ASSUME NEW x \in held PROVE x.block \notin heap.free
    BY <1>1, ApiAssumption DEF ApiInv, Good, ObjectOk, Object, HeapOk, Heap
  <2>2. QED
    BY <2>1, <1>1 DEF ApiInv, Good, Separate, OneOwner
<1>2. QED
  BY <1>1, ApiInvariant, PTL

\* The first free of an unshifted pointer is never reported as a double free (css_free).
THEOREM ReportsJustified == Spec => []ReportJustified
<1>1. ApiInv => ReportJustified
  BY DEF ApiInv
<1>2. QED
  BY <1>1, ApiInvariant, PTL

\* The second free of an unshifted pointer stops the process (css_free).
THEOREM SecondFreeStops == Spec => []DoubleFreeStops
<1>1. ApiInv => DoubleFreeStops
  BY DEF ApiInv
<1>2. QED
  BY <1>1, ApiInvariant, PTL

\* Objects are as long as the program asked for, from the word UpdateHMFInterface builds
\* to the block mallocMemory returns, for all widths of its fields.
THEOREM HeldLongEnough == Spec => []HeldFits
<1>1. ASSUME ApiInv PROVE HeldFits
  BY <1>1 DEF ApiInv, Good, ObjectOk, HeldFits, BytesOf, BytesIn
<1>2. QED
  BY <1>1, ApiInvariant, PTL

\* An object lies in the bag of a call site only if the call was made there.
THEOREM SitesKept == Spec => []SiteKept
<1>1. ASSUME ApiInv PROVE SiteKept
  BY <1>1 DEF ApiInv, Good, ObjectOk, SiteKept
<1>2. QED
  BY <1>1, ApiInvariant, PTL

=============================================================================
