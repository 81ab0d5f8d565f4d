----------------------- MODULE RuntimeTrackingProofs -----------------------
(***************************************************************************)
(* Proofs about RuntimeTracking for every acyclic call graph, all weights  *)
(* and path types, and any depth of the stack: the track variable and the  *)
(* loop layer counter are what the calls make them, and what the debug     *)
(* build saved is current.                                                 *)
(***************************************************************************)
EXTENDS RuntimeTracking, FiniteSetTheorems, SequenceTheorems, WellFoundedInduction, TLAPS

-----------------------------------------------------------------------------
(* Naturals.                                                               *)

Less == {p \in Nat \X Nat : p[1] < p[2]}

LEMMA LessWF == IsWellFoundedOn(Less, Nat)
  BY NatLessThanWellFounded DEF OpToRel, Less

\* A nonempty set of naturals has a least element.
LEMMA LeastNatural ==
    ASSUME NEW S, S \subseteq Nat, S # {}
    PROVE  \E x \in S : \A y \in S : x <= y
<1>1. PICK x \in S : \A y \in S : ~ (<<y, x>> \in Less)
  BY LessWF, WFMin
<1>2. ASSUME NEW y \in S PROVE x <= y
  <2>1. x \in Nat /\ y \in Nat
    OBVIOUS
  <2>2. <<y, x>> \in Nat \X Nat /\ <<y, x>>[1] = y /\ <<y, x>>[2] = x
    BY <2>1
  <2>3. ~ (y < x)
    BY <2>2, <1>1 DEF Less
  <2>4. QED
    BY <2>1, <2>3
<1>3. QED
  BY <1>2

-----------------------------------------------------------------------------
(* Sums over sequences of calls.                                           *)

\* S holds the sums of val over the first calls of seq, up to k of them.
SumsTo(S, seq, val, k) ==
    S = [n \in 0 .. k |-> IF n = 0 THEN 0 ELSE S[n - 1] + val[seq[n]]]

\* The sums exist: one more call extends the function by its value.
LEMMA SumsExist ==
    ASSUME NEW seq, NEW val, NEW k \in Nat
    PROVE  \E S : SumsTo(S, seq, val, k)
<1> DEFINE Bad == {n \in Nat : ~ \E S : SumsTo(S, seq, val, n)}
<1>1. SUFFICES ASSUME Bad # {} PROVE FALSE
  OBVIOUS
<1>2. PICK n \in Bad : \A m \in Bad : n <= m
  <2>1. Bad \subseteq Nat
    OBVIOUS
  <2> HIDE DEF Bad
  <2>2. QED
    BY <1>1, <2>1, LeastNatural
<1>3. n \in Nat /\ n # 0
  <2>1. SumsTo([i \in 0 .. 0 |-> 0], seq, val, 0)
    BY DEF SumsTo
  <2>2. QED
    BY <2>1
<1>4. n - 1 \in Nat /\ n - 1 \notin Bad
  BY <1>2, <1>3
<1>5. PICK S : SumsTo(S, seq, val, n - 1)
  BY <1>4
<1> DEFINE T == [i \in 0 .. n |-> IF i = n THEN S[n - 1] + val[seq[n]] ELSE S[i]]
<1>6. ASSUME NEW i \in 0 .. n
      PROVE  T[i] = IF i = 0 THEN 0 ELSE T[i - 1] + val[seq[i]]
  <2>1. CASE i = n
    <3>1. i - 1 \in 0 .. n /\ i - 1 # n
      BY <2>1, <1>3
    <3>2. QED
      BY <3>1, <2>1, <1>3
  <2>2. CASE i # n
    <3>1. i \in 0 .. n - 1 /\ (i # 0 => i - 1 \in 0 .. n /\ i - 1 # n)
      BY <2>2, <1>3
    <3>2. S[i] = IF i = 0 THEN 0 ELSE S[i - 1] + val[seq[i]]
      BY <3>1, <1>5 DEF SumsTo
    <3>3. QED
      BY <3>1, <3>2, <2>2
  <2>3. QED
    BY <2>1, <2>2
<1>7. SumsTo(T, seq, val, n)
  BY <1>6 DEF SumsTo
<1>8. QED
  BY <1>7

\* Sums of two sequences with the same first calls agree on them.
LEMMA SumsAgree ==
    ASSUME NEW s, NEW t, NEW val, NEW k \in Nat, NEW l \in Nat, NEW S, NEW T,
           SumsTo(S, s, val, k), SumsTo(T, t, val, l),
           NEW j \in 0 .. k, j <= l, \A i \in 1 .. j : s[i] = t[i]
    PROVE  S[j] = T[j]
<1> DEFINE Bad == {i \in 0 .. j : S[i] # T[i]}
<1>1. SUFFICES ASSUME Bad # {} PROVE FALSE
  OBVIOUS
<1>2. PICK n \in Bad : \A m \in Bad : n <= m
  <2>1. Bad \subseteq Nat
    OBVIOUS
  <2> HIDE DEF Bad
  <2>2. QED
    BY <1>1, <2>1, LeastNatural
<1>3. n \in 0 .. k /\ n \in 0 .. l /\ n \in 0 .. j /\ n \in Nat
  BY <1>2
<1>4. /\ S[n] = IF n = 0 THEN 0 ELSE S[n - 1] + val[s[n]]
      /\ T[n] = IF n = 0 THEN 0 ELSE T[n - 1] + val[t[n]]
  BY <1>3 DEF SumsTo
<1>5. n # 0
  BY <1>2, <1>4
<1>6. n - 1 \in 0 .. j /\ n - 1 \notin Bad /\ n \in 1 .. j
  BY <1>2, <1>3, <1>5
<1>7. S[n - 1] = T[n - 1] /\ s[n] = t[n]
  BY <1>6
<1>8. QED
  BY <1>2, <1>4, <1>5, <1>7

\* A sum of integers is an integer, one of naturals is not negative.
LEMMA SumsType ==
    ASSUME NEW s \in Seq(Sites), NEW V \in {Nat, Int}, NEW val \in [Sites -> V],
           NEW S, SumsTo(S, s, val, Len(s))
    PROVE  \A i \in 0 .. Len(s) : S[i] \in V
<1> DEFINE Bad == {i \in 0 .. Len(s) : S[i] \notin V}
<1>1. SUFFICES ASSUME Bad # {} PROVE FALSE
  OBVIOUS
<1>2. PICK n \in Bad : \A m \in Bad : n <= m
  <2>1. Bad \subseteq Nat
    OBVIOUS
  <2> HIDE DEF Bad
  <2>2. QED
    BY <1>1, <2>1, LeastNatural
<1>3. n \in 0 .. Len(s) /\ Len(s) \in Nat
  BY <1>2
<1>4. S[n] = IF n = 0 THEN 0 ELSE S[n - 1] + val[s[n]]
  BY <1>3 DEF SumsTo
<1>5. n # 0
  BY <1>2, <1>4
<1>6. n - 1 \in 0 .. Len(s) /\ n - 1 \notin Bad /\ n \in 1 .. Len(s)
  BY <1>2, <1>3, <1>5
<1>7. S[n - 1] \in V /\ val[s[n]] \in V
  BY <1>6
<1>8. S[n] = S[n - 1] + val[s[n]] /\ S[n] \notin V
  BY <1>2, <1>4, <1>5
<1>9. ASSUME NEW a \in V, NEW b \in V PROVE a + b \in V
  BY <1>9
<1> HIDE DEF Bad
<1>10. QED
  BY <1>7, <1>8, <1>9

\* Total is the last of the sums.
LEMMA TotalIs ==
    ASSUME NEW s \in Seq(Sites), NEW val
    PROVE  \E S : SumsTo(S, s, val, Len(s)) /\ Total(s, val) = S[Len(s)]
<1>1. Total(s, val) = (CHOOSE S : SumsTo(S, s, val, Len(s)))[Len(s)]
  BY DEF Total, SumsTo
<1>2. Len(s) \in Nat
  OBVIOUS
<1>3. \E S : SumsTo(S, s, val, Len(s))
  BY <1>2, SumsExist
<1>4. QED
  BY <1>1, <1>3

\* What a call adds to a sum, and what the end of the last call takes from it.
LEMMA TotalEmpty ==
    ASSUME NEW val PROVE Total(<<>>, val) = 0
<1>1. <<>> \in Seq(Sites) /\ Len(<<>>) = 0
  OBVIOUS
<1>2. PICK S : SumsTo(S, <<>>, val, 0) /\ Total(<<>>, val) = S[0]
  BY <1>1, TotalIs
<1>3. QED
  BY <1>2 DEF SumsTo

LEMMA TotalAppend ==
    ASSUME NEW s \in Seq(Sites), NEW x \in Sites, NEW val
    PROVE  Total(Append(s, x), val) = Total(s, val) + val[x]
<1> DEFINE t == Append(s, x)
           n == Len(s)
<1>1. /\ t \in Seq(Sites) /\ Len(t) = n + 1 /\ n \in Nat
      /\ t[n + 1] = x /\ \A i \in 1 .. n : s[i] = t[i]
  OBVIOUS
<1> HIDE DEF t
<1>2. PICK S : SumsTo(S, s, val, n) /\ Total(s, val) = S[n]
  BY TotalIs
<1>3. PICK T : SumsTo(T, t, val, n + 1) /\ Total(t, val) = T[n + 1]
  BY <1>1, TotalIs
<1> HIDE DEF n
<1>4. T[n + 1] = T[n] + val[t[n + 1]]
  <2> DEFINE m == n + 1
  <2>1. m \in 0 .. m /\ m # 0 /\ m - 1 = n
    BY <1>1
  <2>2. SumsTo(T, t, val, m)
    BY <1>3
  <2> HIDE DEF m
  <2>3. T[m] = T[m - 1] + val[t[m]]
    BY <2>1, <2>2 DEF SumsTo
  <2>4. QED
    BY <2>1, <2>3 DEF m
<1>5. S[n] = T[n]
  BY <1>1, <1>2, <1>3, SumsAgree
<1>6. QED
  BY <1>1, <1>2, <1>3, <1>4, <1>5 DEF t

LEMMA TotalType ==
    ASSUME NEW s \in Seq(Sites), NEW V \in {Nat, Int}, NEW val \in [Sites -> V]
    PROVE  Total(s, val) \in V
<1>1. PICK S : SumsTo(S, s, val, Len(s)) /\ Total(s, val) = S[Len(s)]
  BY TotalIs
<1>2. Len(s) \in 0 .. Len(s)
  OBVIOUS
<1>3. QED
  BY <1>1, <1>2, SumsType

\* The first calls of a stack.
LEMMA Prefix ==
    ASSUME NEW s \in Seq(Sites), NEW n \in 0 .. Len(s)
    PROVE  /\ SubSeq(s, 1, n) \in Seq(Sites) /\ Len(SubSeq(s, 1, n)) = n
           /\ \A i \in 1 .. n : SubSeq(s, 1, n)[i] = s[i]
<1>1. n \in Nat /\ \A i \in 1 .. n : s[i] \in Sites
  OBVIOUS
<1>2. /\ SubSeq(s, 1, n) \in Seq(Sites)
      /\ Len(SubSeq(s, 1, n)) = IF 1 <= n THEN n - 1 + 1 ELSE 0
      /\ \A i \in 1 .. n - 1 + 1 : SubSeq(s, 1, n)[i] = s[1 + i - 1]
  BY <1>1, SubSeqProperties
<1>3. (IF 1 <= n THEN n - 1 + 1 ELSE 0) = n /\ n - 1 + 1 = n
  BY <1>1
<1>4. \A i \in 1 .. n : 1 + i - 1 = i
  BY <1>1
<1>5. QED
  BY <1>2, <1>3, <1>4

\* A stack without its last call.
LEMMA PopStack ==
    ASSUME NEW s \in Seq(Sites), s # <<>>
    PROVE  /\ Len(s) \in Nat \ {0} /\ s[Len(s)] \in Sites
           /\ SubSeq(s, 1, Len(s) - 1) \in Seq(Sites)
           /\ Len(SubSeq(s, 1, Len(s) - 1)) = Len(s) - 1
           /\ \A i \in 1 .. Len(s) - 1 : SubSeq(s, 1, Len(s) - 1)[i] = s[i]
<1>1. Len(s) \in Nat \ {0} /\ \A i \in 1 .. Len(s) : s[i] \in Sites
  OBVIOUS
<1>2. Len(s) \in 1 .. Len(s) /\ Len(s) - 1 \in 0 .. Len(s)
  BY <1>1
<1>3. QED
  BY <1>1, <1>2, Prefix

LEMMA TotalPop ==
    ASSUME NEW s \in Seq(Sites), s # <<>>, NEW val \in [Sites -> Int]
    PROVE  Total(SubSeq(s, 1, Len(s) - 1), val) = Total(s, val) - val[s[Len(s)]]
<1> DEFINE t == SubSeq(s, 1, Len(s) - 1)
           n == Len(s)
<1>1. /\ n \in Nat \ {0} /\ s[n] \in Sites /\ t \in Seq(Sites) /\ Len(t) = n - 1
      /\ \A i \in 1 .. n - 1 : t[i] = s[i]
  BY PopStack
<1> HIDE DEF t
<1>2. s = Append(t, s[n])
  <2> DEFINE r == Append(t, s[n])
  <2>1. /\ r \in Seq(Sites) /\ Len(r) = Len(t) + 1 /\ r[Len(t) + 1] = s[n]
        /\ \A i \in 1 .. Len(t) : r[i] = t[i]
    BY <1>1
  <2>2. Len(r) = Len(s) /\ r[n] = s[n]
    BY <2>1, <1>1
  <2>3. \A i \in 1 .. n : r[i] = s[i]
    BY <2>1, <2>2, <1>1
  <2> HIDE DEF r
  <2>4. s = r
    BY <2>1, <2>2, <2>3, SeqEqual
  <2>5. QED
    BY <2>4 DEF r
<1>3. Total(s, val) = Total(t, val) + val[s[n]]
  <2> DEFINE x == s[n]
  <2>1. t \in Seq(Sites) /\ x \in Sites /\ s = Append(t, x)
    BY <1>1, <1>2
  <2> HIDE DEF x, n
  <2>2. Total(Append(t, x), val) = Total(t, val) + val[x]
    BY ONLY <2>1, TotalAppend
  <2>3. QED
    BY <2>1, <2>2 DEF x
<1>4. Total(t, val) \in Int /\ val[s[n]] \in Int
  BY <1>1, TotalType
<1>5. QED
  BY <1>3, <1>4 DEF t

\* The first calls of a stack do not change when it grows or shrinks behind them.
LEMMA SamePrefix ==
    ASSUME NEW s \in Seq(Sites), NEW t \in Seq(Sites), NEW n \in 0 .. Len(s), n <= Len(t),
           \A i \in 1 .. n : t[i] = s[i]
    PROVE  SubSeq(t, 1, n) = SubSeq(s, 1, n)
<1>1. n \in 0 .. Len(t)
  OBVIOUS
<1> DEFINE p == SubSeq(s, 1, n)
           q == SubSeq(t, 1, n)
<1>2. p \in Seq(Sites) /\ Len(p) = n /\ \A i \in 1 .. n : p[i] = s[i]
  BY Prefix
<1>3. q \in Seq(Sites) /\ Len(q) = n /\ \A i \in 1 .. n : q[i] = t[i]
  BY <1>1, Prefix
<1> HIDE DEF p, q
<1>4. Len(p) = Len(q) /\ \A i \in 1 .. Len(p) : p[i] = q[i]
  BY <1>2, <1>3
<1>5. p = q
  BY <1>2, <1>3, <1>4, SeqEqual
<1>6. QED
  BY <1>5 DEF p, q

-----------------------------------------------------------------------------
(* The invariant.                                                          *)

\* An order of the functions that calls follow.
Level == CHOOSE level \in [Functions -> 0 .. Cardinality(Functions)] : Ordered(level)

\* The passes gave every call one of the types it may have.
TypesGiven == \A s \in Sites : type[s] \in TypesOf[s]

\* The calls in progress go up in that order, so only one of them can be the
\* instrumented call of its function.
Climbing ==
    \A j \in 1 .. Len(stack) : \A i \in 1 .. j - 1 :
        Level[To[stack[i]]] <= Level[From[stack[j]]]

TrackingInv ==
    /\ TypeOK /\ TypesGiven /\ Climbing
    /\ TrackAccounts /\ LayerAccounts /\ SavedIsCurrent

\* What the assumptions on the program say about that order.
LEMMA LevelFacts ==
    /\ \A f \in Functions : Level[f] \in Nat
    /\ Ordered(Level)
    /\ \A s \in Sites : From[s] \in Functions /\ To[s] \in Functions
<1>1. Level \in [Functions -> 0 .. Cardinality(Functions)] /\ Ordered(Level)
  BY AcyclicAssumption DEF Level
<1> DEFINE range == 0 .. Cardinality(Functions)
<1>2. range \subseteq Nat /\ Level \in [Functions -> range]
  BY <1>1
<1> HIDE DEF range
<1>3. \A f \in Functions : Level[f] \in Nat
  BY <1>2
<1>4. \A s \in Sites : From[s] \in Functions /\ To[s] \in Functions
  BY DEF Functions
<1>5. QED
  BY <1>1, <1>3, <1>4

\* Weights and loop layers are natural numbers.
LEMMA WeightFacts ==
    /\ Weights \in [Sites -> Nat] /\ Weights \in [Sites -> Int]
    /\ \A s \in Sites : Weights[s] = EdgeWeight(s) /\ EdgeWeight(s) \in Nat
<1>1. \A s \in Sites : EdgeWeight(s) \in Nat
  BY ProgramAssumption DEF EdgeWeight
<1>2. QED
  BY <1>1 DEF Weights

LEMMA LayerFacts ==
    /\ LoopLayers \in [Sites -> Nat] /\ LoopLayers \in [Sites -> Int]
    /\ \A s \in Sites : LoopLayers[s] = Layers(s) /\ Layers(s) \in Nat
<1>1. \A s \in Sites : Layers(s) \in Nat
  BY DEF Layers
<1>2. QED
  BY <1>1 DEF LoopLayers

\* The two pairs of increments and decrements around a call are its layers.
LEMMA PairsFacts ==
    ASSUME NEW s \in Sites
    PROVE  /\ ByModulePass(s) \in Nat /\ ByOutBound(s) \in Nat
           /\ ByModulePass(s) + ByOutBound(s) = Layers(s)
  BY DEF ByModulePass, ByOutBound, Layers, Instrumented, Uninstrumented

\* The calls that share a block are finitely many.
LEMMA OutboundFacts ==
    ASSUME NEW f, NEW b
    PROVE  IsFiniteSet(OutboundTo(f, b)) /\ OnBlock(f, b) \in Nat
<1>1. OutboundTo(f, b) \subseteq Sites
  BY DEF OutboundTo
<1>2. QED
  BY <1>1, ProgramAssumption, FS_Subset, FS_CardinalityType DEF OnBlock

\* On its normal edge an invoke meets its own decrements, one of them in the block if
\* it is outbound, and one for each other outbound invoke that leads there.
LEMMA NormalTakesBack ==
    ASSUME NEW s \in Sites, op[s] = "invoke"
    PROVE  LET others == Cardinality(OutboundTo(From[s], normal[s]) \ {s})
           IN  /\ others \in Nat
               /\ ByModulePass(s) + OnBlock(From[s], normal[s]) = Layers(s) + others
<1> DEFINE all == OutboundTo(From[s], normal[s])
           others == Cardinality(all \ {s})
<1>1. IsFiniteSet(all) /\ Cardinality(all) \in Nat
  BY OutboundFacts DEF OnBlock
<1>2. /\ others = IF s \in all THEN Cardinality(all) - 1 ELSE Cardinality(all)
      /\ others \in Nat
  <2>1. IsFiniteSet(all \ {s})
    BY <1>1, FS_RemoveElement
  <2>2. QED
    BY <1>1, <2>1, FS_RemoveElement, FS_CardinalityType
<1>3. s \in all <=> type[s] = "MarkOutbound"
  BY DEF OutboundTo
<1>4. ByOutBound(s) = IF s \in all THEN 1 ELSE 0
  BY <1>3 DEF ByOutBound
<1>5. OnBlock(From[s], normal[s]) = Cardinality(all)
  BY DEF OnBlock
<1> HIDE DEF all, others
<1>6. ByModulePass(s) + Cardinality(all) = Layers(s) + others
  BY <1>1, <1>2, <1>4, PairsFacts
<1>7. QED
  BY <1>2, <1>5, <1>6 DEF all, others

\* What is said of a stack holds of a stack without its last call.
LEMMA PopKeeps ==
    ASSUME TypeOK, Climbing, stack # <<>>, stack' = Pop, UNCHANGED program
    PROVE  /\ stack' \in Seq(Sites) /\ Len(stack') = Len(stack) - 1 /\ Top \in Sites
           /\ Climbing'
           /\ (lost' = <<>> => lost = <<>>) /\ saved' = saved /\ SavedIsCurrent => SavedIsCurrent'
           /\ Total(stack', Weights') = Total(stack, Weights) - EdgeWeight(Top)
           /\ Total(stack', LoopLayers') = Total(stack, LoopLayers) - Layers(Top)
<1> DEFINE n == Len(stack)
<1>1. /\ n \in Nat \ {0} /\ Top \in Sites /\ stack' \in Seq(Sites) /\ Len(stack') = n - 1
      /\ \A i \in 1 .. n - 1 : stack'[i] = stack[i]
  BY PopStack DEF TypeOK, Pop, Top
<1>2. Weights' = Weights /\ LoopLayers' = LoopLayers
  BY DEF program, Weights, LoopLayers, EdgeWeight, Layers, Instrumented
<1>3. \A i \in 1 .. n - 1 : i \in 1 .. n
  BY <1>1
<1>4. Climbing'
  <2> SUFFICES ASSUME NEW j \in 1 .. Len(stack'), NEW i \in 1 .. j - 1
               PROVE  Level[To[stack'[i]]] <= Level[From[stack'[j]]]
    BY DEF Climbing
  <2>1. i \in 1 .. n - 1 /\ j \in 1 .. n - 1
    BY <1>1
  <2>2. QED
    BY <2>1, <1>1, <1>3 DEF Climbing
<1>5. ASSUME lost' = <<>> => lost = <<>>, saved' = saved, SavedIsCurrent
      PROVE  SavedIsCurrent'
  <2> SUFFICES ASSUME lost' = <<>>, NEW i \in 1 .. Len(stack'), Instrumented(stack[i])'
               PROVE  saved'[From[stack'[i]]] = Total(SubSeq(stack', 1, i), Weights')
    BY DEF SavedIsCurrent
  <2>1. i \in 1 .. n - 1 /\ i \in 1 .. n /\ stack'[i] = stack[i]
    BY <1>1
  <2>2. Instrumented(stack[i])
    BY <2>1 DEF Instrumented, program
  <2>3. saved[From[stack[i]]] = Total(SubSeq(stack, 1, i), Weights)
    BY <2>1, <2>2, <1>5 DEF SavedIsCurrent
  <2>4. SubSeq(stack', 1, i) = SubSeq(stack, 1, i)
    <3>1. i \in 0 .. Len(stack) /\ i <= Len(stack') /\ \A k \in 1 .. i : stack'[k] = stack[k]
      BY <2>1, <1>1
    <3>2. stack \in Seq(Sites)
      BY DEF TypeOK
    <3>3. QED
      BY <3>1, <3>2, <1>1, SamePrefix
  <2>5. QED
    BY <2>1, <2>3, <2>4, <1>2, <1>5
<1>6. Total(stack', Weights) = Total(stack, Weights) - EdgeWeight(Top)
  <2>1. Total(Pop, Weights) = Total(stack, Weights) - Weights[Top]
    BY TotalPop, WeightFacts DEF TypeOK, Pop, Top
  <2>2. QED
    BY <2>1, <1>1, WeightFacts
<1>7. Total(stack', LoopLayers) = Total(stack, LoopLayers) - Layers(Top)
  <2>1. Total(Pop, LoopLayers) = Total(stack, LoopLayers) - LoopLayers[Top]
    BY TotalPop, LayerFacts DEF TypeOK, Pop, Top
  <2>2. QED
    BY <2>1, <1>1, LayerFacts
<1>8. QED
  BY <1>1, <1>2, <1>4, <1>5, <1>6, <1>7

\* The sums the accounts are made of are natural numbers.
LEMMA SumsNatural ==
    ASSUME TypeOK
    PROVE  /\ Total(stack, Weights) \in Nat /\ Total(lost, Weights) \in Nat
           /\ Total(stack, LoopLayers) \in Nat /\ Total(lost, LoopLayers) \in Nat
BY TotalType, WeightFacts, LayerFacts DEF TypeOK

\* The types of the calls, and with them the weights, never change.
LEMMA ProgramFixed ==
    ASSUME UNCHANGED program
    PROVE  /\ type' = type /\ op' = op /\ normal' = normal
           /\ Weights' = Weights /\ LoopLayers' = LoopLayers
BY DEF program, Weights, LoopLayers, EdgeWeight, Layers, Instrumented

LEMMA TrackingInit == Init => TrackingInv
<1> SUFFICES ASSUME Init PROVE TrackingInv
  OBVIOUS
<1>1. TypeOK
  BY ProgramAssumption DEF Init, TypeOK
<1>2. TypesGiven /\ Climbing /\ SavedIsCurrent
  BY DEF Init, TypesGiven, Climbing, SavedIsCurrent
<1>3. TrackAccounts /\ LayerAccounts
  BY TotalEmpty DEF Init, TrackAccounts, LayerAccounts
<1>4. QED
  BY <1>1, <1>2, <1>3 DEF TrackingInv

\* A call adds its weight and layers, climbs, and saves the track variable where
\* no call in progress has saved its own.
LEMMA CallTracks ==
    ASSUME TrackingInv, NEW s \in Sites, Call(s)
    PROVE  TrackingInv'
<1> USE DEF TrackingInv
<1> DEFINE n == Len(stack)
<1>1. /\ n \in Nat /\ stack \in Seq(Sites) /\ \A i \in 1 .. n : stack[i] \in Sites
      /\ stack' = Append(stack, s) /\ stack' \in Seq(Sites) /\ Len(stack') = n + 1
      /\ stack'[n + 1] = s /\ \A i \in 1 .. n : stack'[i] = stack[i]
  BY DEF TypeOK, Call
<1>2. UNCHANGED program /\ lost' = lost /\ stray' = stray /\ mode' = mode
  BY DEF Call
<1>3. /\ type' = type /\ op' = op /\ normal' = normal
      /\ Weights' = Weights /\ LoopLayers' = LoopLayers
  BY <1>2, ProgramFixed
<1>4. EdgeWeight(s) \in Nat /\ Layers(s) \in Nat
  BY WeightFacts, LayerFacts
<1>5. track' = track + EdgeWeight(s) /\ layer' = layer + Layers(s)
  <2>1. /\ track' = track + EdgeWeight(s)
        /\ layer' = layer + ByModulePass(s) + ByOutBound(s) /\ layer \in Int
    BY DEF Call, TypeOK
  <2>2. QED
    BY <2>1, PairsFacts
<1>6. TypeOK'
  <2>1. track' \in Nat /\ layer' \in Int
    BY <1>4, <1>5 DEF TypeOK
  <2>2. saved' \in [Functions -> Nat]
    BY <2>1 DEF Call, CSSSaveTrack, TypeOK
  <2>3. Len(stack') <= MaxDepth
    BY <1>1, ProgramAssumption DEF Call
  <2>4. QED
    BY <1>1, <1>2, <1>3, <2>1, <2>2, <2>3 DEF TypeOK
<1>7. TypesGiven'
  BY <1>3 DEF TypesGiven
<1>8. ASSUME NEW i \in 1 .. n PROVE Level[To[stack[i]]] <= Level[From[s]]
  <2>1. n \in 1 .. n /\ Top = stack[n] /\ From[s] = To[Top]
    BY <1>1 DEF Call, Running, Top
  <2>2. CASE i = n
    BY <2>1, <2>2, LevelFacts, <1>1
  <2>3. CASE i # n
    <3>1. i \in 1 .. n - 1
      BY <2>3, <1>1
    <3>2. Level[To[stack[i]]] <= Level[From[Top]]
      BY <3>1, <2>1 DEF Climbing
    <3>3. Level[From[Top]] <= Level[To[Top]]
      BY <2>1, <1>1, LevelFacts DEF Ordered
    <3>4. /\ Level[To[stack[i]]] \in Nat /\ Level[From[Top]] \in Nat
          /\ Level[To[Top]] \in Nat
      BY <2>1, <1>1, LevelFacts
    <3>5. QED
      BY <2>1, <3>2, <3>3, <3>4
  <2>4. QED
    BY <2>2, <2>3
<1>9. Climbing'
  <2> SUFFICES ASSUME NEW j \in 1 .. n + 1, NEW i \in 1 .. j - 1
               PROVE  Level[To[stack'[i]]] <= Level[From[stack'[j]]]
    BY <1>1 DEF Climbing
  <2>1. i \in 1 .. n /\ stack'[i] = stack[i]
    BY <1>1
  <2>2. CASE j = n + 1
    BY <2>1, <2>2, <1>1, <1>8
  <2>3. CASE j # n + 1
    <3>1. j \in 1 .. n /\ stack'[j] = stack[j]
      BY <2>3, <1>1
    <3>2. QED
      BY <2>1, <3>1 DEF Climbing
  <2>4. QED
    BY <2>2, <2>3
<1>10. TrackAccounts'
  <2>1. Total(stack', Weights') = Total(stack, Weights) + EdgeWeight(s)
    BY <1>1, <1>3, TotalAppend, WeightFacts
  <2>2. QED
    BY <2>1, <1>2, <1>3, <1>4, <1>5, SumsNatural DEF TrackAccounts
<1>11. LayerAccounts'
  <2>1. Total(stack', LoopLayers') = Total(stack, LoopLayers) + Layers(s)
    BY <1>1, <1>3, TotalAppend, LayerFacts
  <2>2. stray \in Nat
    BY DEF TypeOK
  <2>3. QED
    BY <2>1, <2>2, <1>2, <1>3, <1>4, <1>5, SumsNatural DEF LayerAccounts
<1>12. SavedIsCurrent'
  <2> SUFFICES ASSUME lost' = <<>>, NEW i \in 1 .. n + 1, Instrumented(stack'[i])
               PROVE  saved'[From[stack'[i]]] = Total(SubSeq(stack', 1, i), Weights')
    BY <1>1, <1>3 DEF SavedIsCurrent, Instrumented
  <2>1. CASE i = n + 1
    <3>1. SubSeq(stack', 1, i) = stack'
      <4>1. \A k \in 1 .. n + 1 : stack'[k] = stack'[k]
        OBVIOUS
      <4>2. Len(stack') \in 0 .. Len(stack')
        BY <1>1
      <4>3. /\ SubSeq(stack', 1, Len(stack')) \in Seq(Sites)
            /\ Len(SubSeq(stack', 1, Len(stack'))) = Len(stack')
            /\ \A k \in 1 .. Len(stack') : SubSeq(stack', 1, Len(stack'))[k] = stack'[k]
        BY <4>2, <1>1, Prefix
      <4>4. SubSeq(stack', 1, Len(stack')) = stack'
        BY <4>3, <1>1, SeqEqual
      <4>5. QED
        BY <4>4, <2>1, <1>1
    <3>2. Total(stack', Weights') = track'
      <4>1. Total(lost', Weights') = 0
        BY TotalEmpty
      <4>2. Total(stack', Weights') \in Nat
        BY <1>6, <1>1, <1>3, WeightFacts, TotalType
      <4>3. QED
        BY <4>1, <4>2, <1>10 DEF TrackAccounts
    <3>3. saved' = [saved EXCEPT ![From[s]] = track']
      BY <2>1, <1>1 DEF Call, CSSSaveTrack
    <3>4. From[s] \in Functions /\ saved \in [Functions -> Nat]
      BY LevelFacts DEF TypeOK
    <3>5. QED
      BY <3>1, <3>2, <3>3, <3>4, <2>1, <1>1
  <2>2. CASE i # n + 1
    <3>1. i \in 1 .. n /\ stack'[i] = stack[i] /\ stack[i] \in Sites
      BY <2>2, <1>1
    <3>2. Level[From[stack[i]]] < Level[To[stack[i]]]
      <4>1. ~ (TypesOf[stack[i]] \subseteq Uninstrumented)
        BY <3>1 DEF Instrumented, TypesGiven
      <4>2. QED
        BY <4>1, <3>1, LevelFacts DEF Ordered
    <3>3. From[stack[i]] # From[s]
      <4>1. /\ Level[From[stack[i]]] \in Nat /\ Level[To[stack[i]]] \in Nat
            /\ Level[From[s]] \in Nat /\ Level[To[stack[i]]] <= Level[From[s]]
        BY <3>1, <1>8, LevelFacts
      <4>2. Level[From[stack[i]]] # Level[From[s]]
        BY <4>1, <3>2
      <4>3. QED
        BY <4>2
    <3>4. From[stack[i]] \in Functions /\ saved \in [Functions -> Nat]
      BY <3>1, LevelFacts DEF TypeOK
    <3>5. saved'[From[stack[i]]] = saved[From[stack[i]]]
      BY <3>3, <3>4 DEF Call, CSSSaveTrack
    <3>6. saved[From[stack[i]]] = Total(SubSeq(stack, 1, i), Weights)
      BY <3>1, <1>2 DEF SavedIsCurrent
    <3>7. SubSeq(stack', 1, i) = SubSeq(stack, 1, i)
      <4>1. i \in 0 .. Len(stack) /\ i <= Len(stack') /\ \A k \in 1 .. i : stack'[k] = stack[k]
        BY <3>1, <1>1
      <4>2. QED
        BY <4>1, <1>1, SamePrefix
    <3>8. QED
      BY <3>1, <3>5, <3>6, <3>7, <1>3
  <2>3. QED
    BY <2>1, <2>2
<1>13. QED
  BY <1>6, <1>7, <1>9, <1>10, <1>11, <1>12

\* The end of a call, by a return or by an exception that a landing pad takes,
\* takes back what the call added, and one more for each invoke that stray counts.
LEMMA EndTracks ==
    ASSUME TrackingInv, stack # <<>>, stack' = Pop, UNCHANGED <<program, saved, lost>>,
           mode' \in {"run", "throw", "exit"}, stray' \in 0 .. MaxSkips,
           track' = track - EdgeWeight(Top),
           layer' = layer - Layers(Top) - (stray' - stray)
    PROVE  TrackingInv'
<1> USE DEF TrackingInv
<1>1. /\ type' = type /\ op' = op /\ normal' = normal
      /\ Weights' = Weights /\ LoopLayers' = LoopLayers
  BY ProgramFixed
<1>2. /\ stack' \in Seq(Sites) /\ Len(stack') = Len(stack) - 1 /\ Top \in Sites
      /\ Climbing' /\ SavedIsCurrent'
      /\ Total(stack', Weights') = Total(stack, Weights) - EdgeWeight(Top)
      /\ Total(stack', LoopLayers') = Total(stack, LoopLayers) - Layers(Top)
  BY PopKeeps
<1>3. EdgeWeight(Top) \in Nat /\ Layers(Top) \in Nat
  BY <1>2, WeightFacts, LayerFacts
<1>4. stray \in Nat /\ stray' \in Nat
  BY ProgramAssumption DEF TypeOK
<1>5. TrackAccounts'
  BY <1>1, <1>2, <1>3, SumsNatural DEF TrackAccounts
<1>6. LayerAccounts'
  <2>1. lost' = lost /\ LayerAccounts
    OBVIOUS
  <2>2. Total(stack, LoopLayers) \in Nat /\ Total(lost, LoopLayers) \in Nat
    BY SumsNatural
  <2>3. layer = Total(stack, LoopLayers) + Total(lost, LoopLayers) - stray
    BY <2>1 DEF LayerAccounts
  <2>4. layer' = layer - Layers(Top) - (stray' - stray)
    OBVIOUS
  <2>5. Total(stack', LoopLayers') = Total(stack, LoopLayers) - Layers(Top)
    BY <1>2
  <2>6. layer' = Total(stack', LoopLayers') + Total(lost, LoopLayers) - stray'
    BY ONLY <1>3, <1>4, <2>2, <2>3, <2>4, <2>5
  <2>7. QED
    BY <1>1, <2>1, <2>6 DEF LayerAccounts
<1>7. TypeOK'
  <2>1. Total(stack', Weights') \in Nat /\ Total(lost', Weights') \in Nat
    BY <1>1, <1>2, SumsNatural, TotalType, WeightFacts
  <2>2. track' \in Nat
    BY <2>1, <1>5 DEF TrackAccounts
  <2>3. layer' \in Int
    BY <1>3, <1>4 DEF TypeOK
  <2>4. Len(stack') <= MaxDepth
    BY <1>2, ProgramAssumption DEF TypeOK
  <2>5. QED
    BY <1>1, <1>2, <2>2, <2>3, <2>4 DEF TypeOK
<1>8. TypesGiven'
  BY <1>1 DEF TypesGiven
<1>9. QED
  BY <1>2, <1>5, <1>6, <1>7, <1>8

\* An exception that unwinds past a call leaves its weight and layers behind.
LEMMA UnwindTracks ==
    ASSUME TrackingInv, UnwindPast
    PROVE  TrackingInv'
<1> USE DEF TrackingInv
<1>1. /\ stack # <<>> /\ stack' = Pop /\ UNCHANGED program /\ saved' = saved /\ mode' = mode
      /\ track' = track /\ layer' = layer /\ stray' = stray
      /\ lost' = IF Instrumented(Top) THEN Append(lost, Top) ELSE lost
  BY DEF UnwindPast
<1>2. /\ type' = type /\ op' = op /\ normal' = normal
      /\ Weights' = Weights /\ LoopLayers' = LoopLayers
  BY <1>1, ProgramFixed
<1>3. lost \in Seq(Sites)
  BY DEF TypeOK
<1>4. /\ stack' \in Seq(Sites) /\ Len(stack') = Len(stack) - 1 /\ Top \in Sites /\ Climbing'
      /\ Total(stack', Weights') = Total(stack, Weights) - EdgeWeight(Top)
      /\ Total(stack', LoopLayers') = Total(stack, LoopLayers) - Layers(Top)
  BY <1>1, PopKeeps
<1>5. SavedIsCurrent'
  <2>1. lost' = <<>> => lost = <<>>
    <3>1. Append(lost, Top) # <<>>
      BY <1>3, <1>4
    <3>2. QED
      BY <3>1, <1>1
  <2>2. QED
    BY <2>1, <1>1, PopKeeps
<1>6. EdgeWeight(Top) \in Nat /\ Layers(Top) \in Nat
  BY <1>4, WeightFacts, LayerFacts
<1>7. /\ lost' \in Seq(Sites) /\ Len(lost') <= MaxSkips
      /\ Total(lost', Weights') = Total(lost, Weights) + EdgeWeight(Top)
      /\ Total(lost', LoopLayers') = Total(lost, LoopLayers) + Layers(Top)
  <2>1. CASE Instrumented(Top)
    <3>1. lost' = Append(lost, Top) /\ Len(lost) < MaxSkips
      BY <1>1, <2>1 DEF UnwindPast
    <3>2. lost' \in Seq(Sites) /\ Len(lost') <= MaxSkips
      BY <3>1, <1>3, <1>4, ProgramAssumption
    <3>3. Total(Append(lost, Top), Weights) = Total(lost, Weights) + Weights[Top]
      BY <1>3, <1>4, TotalAppend
    <3>4. Total(Append(lost, Top), LoopLayers) = Total(lost, LoopLayers) + LoopLayers[Top]
      BY <1>3, <1>4, TotalAppend
    <3>5. QED
      BY <3>1, <3>2, <3>3, <3>4, <1>2, <1>4, WeightFacts, LayerFacts
  <2>2. CASE ~ Instrumented(Top)
    <3>1. EdgeWeight(Top) = 0 /\ lost' = lost
      BY <1>1, <2>2 DEF EdgeWeight
    <3>2. Layers(Top) = 0
      BY <2>2 DEF Layers, Instrumented, Uninstrumented
    <3>3. QED
      BY <3>1, <3>2, <1>2, SumsNatural DEF TypeOK
  <2>3. QED
    BY <2>1, <2>2
<1>8. TrackAccounts'
  BY <1>1, <1>4, <1>6, <1>7, SumsNatural DEF TrackAccounts
<1>9. LayerAccounts'
  <2>1. stray \in Nat
    BY DEF TypeOK
  <2>2. QED
    BY <2>1, <1>1, <1>4, <1>6, <1>7, SumsNatural DEF LayerAccounts
<1>10. TypeOK'
  <2>1. Len(stack') <= MaxDepth
    BY <1>4, ProgramAssumption DEF TypeOK
  <2>2. QED
    BY <1>1, <1>2, <1>4, <1>7, <2>1 DEF TypeOK
<1>11. TypesGiven'
  BY <1>2 DEF TypesGiven
<1>12. QED
  BY <1>4, <1>5, <1>8, <1>9, <1>10, <1>11

\* Every step keeps the invariant.
LEMMA TrackingStep == TrackingInv /\ [Next]_vars => TrackingInv'
<1> SUFFICES ASSUME TrackingInv, [Next]_vars PROVE TrackingInv'
  OBVIOUS
<1> USE DEF TrackingInv
<1>0. mode \in {"run", "throw", "exit"} /\ stray \in 0 .. MaxSkips /\ layer \in Int
  BY DEF TypeOK
<1>1. ASSUME NEW s \in Sites, Call(s) PROVE TrackingInv'
  BY <1>1, CallTracks
<1>2. CASE ReturnToCall
  <2>1. stack # <<>> /\ Top \in Sites
    BY <1>2, PopStack DEF ReturnToCall, TypeOK, Top
  <2>2. layer' = layer - Layers(Top) - (stray' - stray)
    BY <1>0, <1>2, <2>1, PairsFacts DEF ReturnToCall
  <2>3. QED
    BY <1>0, <1>2, <2>1, <2>2, EndTracks DEF ReturnToCall
<1>3. CASE ReturnToInvoke
  <2> DEFINE block == normal[Top]
             c == Cardinality(OutboundTo(From[Top], block) \ {Top})
  <2>1. /\ stack # <<>> /\ Top \in Sites /\ op[Top] = "invoke"
        /\ layer' = layer - ByModulePass(Top) - OnBlock(From[Top], block)
        /\ stray' = stray + c /\ stray' <= MaxSkips
    BY <1>3, PopStack DEF ReturnToInvoke, TypeOK, Top
  <2>2. c \in Nat /\ ByModulePass(Top) + OnBlock(From[Top], block) = Layers(Top) + c
    BY <2>1, NormalTakesBack
  <2>3. /\ ByModulePass(Top) \in Nat /\ OnBlock(From[Top], block) \in Nat
        /\ Layers(Top) \in Nat
    BY <2>1, PairsFacts, OutboundFacts, LayerFacts
  <2> HIDE DEF block, c
  <2>4. stray' \in 0 .. MaxSkips /\ layer' = layer - Layers(Top) - (stray' - stray)
    BY <1>0, <2>1, <2>2, <2>3
  <2>5. QED
    BY <1>0, <1>3, <2>1, <2>4, EndTracks DEF ReturnToInvoke
<1>4. CASE Jump
  <2> DEFINE c == Cardinality(OutboundTo(Running, 0))
  <2>1. c \in Nat /\ OnBlock(Running, 0) = c
    BY OutboundFacts DEF OnBlock
  <2>2. /\ stray' = stray + c /\ layer' = layer - c /\ stray' <= MaxSkips
        /\ UNCHANGED <<program, mode, stack, track, saved, lost>>
    BY <1>4, <2>1 DEF Jump
  <2>3. /\ type' = type /\ op' = op /\ normal' = normal
        /\ Weights' = Weights /\ LoopLayers' = LoopLayers
    BY <2>2, ProgramFixed
  <2> HIDE DEF c
  <2>4. stray' \in 0 .. MaxSkips /\ layer' \in Int
    BY <1>0, <2>1, <2>2
  <2>5. TypeOK' /\ TypesGiven' /\ Climbing'
    BY <2>2, <2>3, <2>4 DEF TypeOK, TypesGiven, Climbing
  <2>6. TrackAccounts'
    BY <2>2, <2>3 DEF TrackAccounts
  <2>7. LayerAccounts'
    BY <1>0, <2>1, <2>2, <2>3, SumsNatural DEF LayerAccounts
  <2>8. SavedIsCurrent'
    BY <2>2, <2>3 DEF SavedIsCurrent, Instrumented
  <2>9. QED
    BY <2>5, <2>6, <2>7, <2>8
<1>5. ASSUME UNCHANGED <<program, stack, track, layer, saved, lost, stray>>,
             mode' \in {"run", "throw", "exit"}
      PROVE  TrackingInv'
  <2>1. /\ type' = type /\ op' = op /\ normal' = normal
        /\ Weights' = Weights /\ LoopLayers' = LoopLayers
    BY <1>5, ProgramFixed
  <2>2. TypeOK' /\ TypesGiven' /\ Climbing'
    BY <1>5, <2>1 DEF TypeOK, TypesGiven, Climbing
  <2>3. TrackAccounts' /\ LayerAccounts'
    BY <1>5, <2>1 DEF TrackAccounts, LayerAccounts
  <2>4. SavedIsCurrent'
    BY <1>5, <2>1 DEF SavedIsCurrent, Instrumented
  <2>5. QED
    BY <2>2, <2>3, <2>4
<1>6. CASE Throw
  BY <1>5, <1>6 DEF Throw
<1>7. CASE Land
  <2>1. stack # <<>> /\ Top \in Sites
    BY <1>7, PopStack DEF Land, TypeOK, Top
  <2>2. layer' = layer - Layers(Top) - (stray' - stray)
    BY <1>0, <1>7, <2>1, PairsFacts DEF Land
  <2>3. QED
    BY <1>0, <1>7, <2>1, <2>2, EndTracks DEF Land
<1>8. CASE UnwindPast
  BY <1>8, UnwindTracks
<1>9. CASE Exit
  BY <1>5, <1>9 DEF Exit
<1>10. CASE UNCHANGED vars
  BY <1>0, <1>5, <1>10 DEF vars
<1>11. QED
  BY <1>1, <1>2, <1>3, <1>4, <1>6, <1>7, <1>8, <1>9, <1>10 DEF Next

-----------------------------------------------------------------------------
(* The theorems.                                                           *)

THEOREM TrackingInvariant == Spec => []TrackingInv
<1>1. QED
  BY TrackingInit, TrackingStep, PTL DEF Spec

\* The variables of the inserted code stay in their domains.
THEOREM TrackingTypes == Spec => []TypeOK
<1>1. TrackingInv => TypeOK
  BY DEF TrackingInv
<1>2. QED
  BY <1>1, TrackingInvariant, PTL

\* Whatever calls, returns and exceptions do, in any order, the track variable is
\* the sum of the weights of the calls in progress and of those unwound past.
THEOREM TrackIsSum == Spec => []TrackAccounts
<1>1. TrackingInv => TrackAccounts
  BY DEF TrackingInv
<1>2. QED
  BY <1>1, TrackingInvariant, PTL

\* The pairs around calls cancel out on every way out of a call: the loop layer
\* counter is off by the calls unwound past, and by one for each time that control
\* came to the normal destination of an outbound invoke which had not returned
\* (RecursiveHelper.cc), and by nothing else.
THEOREM LayerIsSum == Spec => []LayerAccounts
<1>1. TrackingInv => LayerAccounts
  BY DEF TrackingInv
<1>2. QED
  BY <1>1, TrackingInvariant, PTL

\* What CSSSaveTrack stored for a function with a call in progress is the value
\* that CSSCheckTrack expects after it, as long as no call was unwound past.
THEOREM SavedStaysCurrent == Spec => []SavedIsCurrent
<1>1. TrackingInv => SavedIsCurrent
  BY DEF TrackingInv
<1>2. QED
  BY <1>1, TrackingInvariant, PTL

=============================================================================
