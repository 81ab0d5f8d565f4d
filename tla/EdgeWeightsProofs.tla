------------------------- MODULE EdgeWeightsProofs -------------------------
(***************************************************************************)
(* Proofs about EdgeWeights for every call graph, of any size: the sort    *)
(* puts callees first and fails only over cycles, and different call paths *)
(* to an allocation have different ids.                                    *)
(***************************************************************************)
EXTENDS EdgeWeights, FiniteSetTheorems, SequenceTheorems, WellFoundedInduction, TLAPS

-----------------------------------------------------------------------------
(* Naturals.                                                               *)

Less == {p \in Nat \X Nat : p[1] < p[2]}

LEMMA LessWF == IsWellFoundedOn(Less, Nat)
  BY NatLessThanWellFounded DEF OpToRel, Less

\* A nonempty set of naturals has a least element.
LEMMA LeastNatural ==
    ASSUME NEW S, S \subseteq Nat, S # {}
    PROVE  \E x \in S : \A y \in S : x <= y
<1>1. PICK x \in S : \A y \in S : ~ (<<y, x>> \in Less)
  BY LessWF, WFMin
<1>2. ASSUME NEW y \in S PROVE x <= y
  <2>1. x \in Nat /\ y \in Nat
    OBVIOUS
  <2>2. <<y, x>> \in Nat \X Nat /\ <<y, x>>[1] = y /\ <<y, x>>[2] = x
    BY <2>1
  <2>3. ~ (y < x)
    BY <2>2, <1>1 DEF Less
  <2>4. QED
    BY <2>1, <2>3
<1>3. QED
  BY <1>2

-----------------------------------------------------------------------------
(* Sums over finite sets.                                                  *)

Pick(s) == CHOOSE x \in s : TRUE

\* F holds the sum of w over every set in D, one picked element at a time.
SumsOf(F, w, D) ==
    F = [s \in D |-> IF s = {} THEN 0 ELSE w[Pick(s)] + F[s \ {Pick(s)}]]

LEMMA PickIn == ASSUME NEW s, s # {} PROVE Pick(s) \in s
BY DEF Pick

LEMMA SumDef ==
    ASSUME NEW w, NEW S
    PROVE  SumFunctionOnSet(w, S) = (CHOOSE F : SumsOf(F, w, SUBSET S))[S]
BY DEF SumFunctionOnSet, FoldFunctionOnSet, MapThenFoldSet, SumsOf, Pick

\* Taking an element out of a finite set.
LEMMA Without ==
    ASSUME NEW S, IsFiniteSet(S), NEW x \in S
    PROVE  /\ IsFiniteSet(S \ {x}) /\ Cardinality(S) \in Nat \ {0}
           /\ Cardinality(S \ {x}) = Cardinality(S) - 1
<1>1. IsFiniteSet(S \ {x}) /\ Cardinality(S \ {x}) = Cardinality(S) - 1
  BY FS_RemoveElement
<1>2. Cardinality(S) \in Nat /\ Cardinality(S \ {x}) \in Nat
  BY <1>1, FS_CardinalityType
<1>3. QED
  BY <1>1, <1>2

\* The sums exist: the larger sets add to those of the smaller ones.
LEMMA SumsExist ==
    ASSUME NEW w, NEW S, IsFiniteSet(S)
    PROVE  \E F : SumsOf(F, w, SUBSET S)
<1> DEFINE Upto(n) == {s \in SUBSET S : Cardinality(s) <= n}
           Bad == {n \in Nat : ~ \E F : SumsOf(F, w, Upto(n))}
<1>0. \A s \in SUBSET S : IsFiniteSet(s) /\ Cardinality(s) \in Nat
  BY FS_Subset, FS_CardinalityType
<1>1. ASSUME Bad # {} PROVE FALSE
  <2>1. PICK n \in Bad : \A m \in Bad : n <= m
    <3>1. Bad \subseteq Nat
      OBVIOUS
    <3> HIDE DEF Bad
    <3>2. QED
      BY <1>1, <3>1, LeastNatural
  <2>2. n \in Nat /\ n # 0
    <3>1. \A s \in Upto(0) : s = {}
      BY <1>0, FS_EmptySet
    <3>2. SumsOf([s \in Upto(0) |-> 0], w, Upto(0))
      BY <3>1 DEF SumsOf
    <3>3. QED
      BY <2>1, <3>2
  <2>3. PICK F : SumsOf(F, w, Upto(n - 1))
    <3>1. n - 1 \in Nat /\ ~ (n <= n - 1)
      BY <2>2
    <3> HIDE DEF Bad
    <3>2. n - 1 \notin Bad
      BY <2>1, <3>1
    <3> USE DEF Bad
    <3>3. QED
      BY <3>1, <3>2
  <2> DEFINE G == [s \in Upto(n) |->
                     IF Cardinality(s) = n THEN w[Pick(s)] + F[s \ {Pick(s)}] ELSE F[s]]
  <2>4. ASSUME NEW s \in Upto(n)
        PROVE  G[s] = IF s = {} THEN 0 ELSE w[Pick(s)] + G[s \ {Pick(s)}]
    <3>1. CASE s = {}
      <4>1. Cardinality(s) = 0 /\ s \in Upto(n - 1)
        BY <3>1, <2>2, FS_EmptySet
      <4>2. F[s] = 0
        BY <4>1, <3>1, <2>3 DEF SumsOf
      <4>3. QED
        BY <4>1, <4>2, <3>1, <2>2
    <3>2. CASE s # {}
      <4> DEFINE r == s \ {Pick(s)}
      <4>1. Cardinality(r) = Cardinality(s) - 1 /\ Cardinality(s) \in Nat \ {0}
        BY <3>2, <1>0, PickIn, Without
      <4>2. r \in Upto(n) /\ Cardinality(r) # n /\ G[r] = F[r]
        BY <4>1, <2>2
      <4>3. CASE Cardinality(s) = n
        BY <4>2, <4>3, <3>2
      <4>4. CASE Cardinality(s) # n
        <5>1. s \in Upto(n - 1)
          BY <4>1, <4>4, <2>2
        <5>2. F[s] = w[Pick(s)] + F[r]
          BY <5>1, <3>2, <2>3 DEF SumsOf
        <5>3. QED
          BY <5>2, <4>2, <4>4, <3>2
      <4>5. QED
        BY <4>3, <4>4
    <3>3. QED
      BY <3>1, <3>2
  <2>5. SumsOf(G, w, Upto(n))
    BY <2>4 DEF SumsOf
  <2>6. QED
    BY <2>1, <2>5
<1>2. Cardinality(S) \in Nat /\ Cardinality(S) \notin Bad
  BY <1>0, <1>1
<1>3. Upto(Cardinality(S)) = SUBSET S
  BY <1>0, FS_Subset
<1>4. QED
  BY <1>2, <1>3

\* Sums over subsets of two sets agree on what is a subset of both.
LEMMA SumsAgree ==
    ASSUME NEW w, NEW S, NEW T, IsFiniteSet(S), NEW F, NEW G,
           SumsOf(F, w, SUBSET S), SumsOf(G, w, SUBSET T),
           NEW r \in SUBSET S, r \in SUBSET T
    PROVE  F[r] = G[r]
<1> DEFINE Wrong(s) == s \in SUBSET S /\ s \in SUBSET T /\ F[s] # G[s]
           Bad == {n \in Nat : \E s : Wrong(s) /\ Cardinality(s) = n}
<1>0. \A s \in SUBSET S : IsFiniteSet(s) /\ Cardinality(s) \in Nat
  BY FS_Subset, FS_CardinalityType
<1>1. ASSUME Bad # {} PROVE FALSE
  <2>1. PICK n \in Bad : \A m \in Bad : n <= m
    <3>1. Bad \subseteq Nat
      OBVIOUS
    <3> HIDE DEF Bad
    <3>2. QED
      BY <1>1, <3>1, LeastNatural
  <2>2. PICK s : Wrong(s) /\ Cardinality(s) = n
    BY <2>1
  <2>3. /\ F[s] = IF s = {} THEN 0 ELSE w[Pick(s)] + F[s \ {Pick(s)}]
        /\ G[s] = IF s = {} THEN 0 ELSE w[Pick(s)] + G[s \ {Pick(s)}]
    BY <2>2 DEF SumsOf
  <2>4. s # {}
    BY <2>2, <2>3
  <2>5. /\ Cardinality(s \ {Pick(s)}) = n - 1 /\ n - 1 \in Nat
        /\ s \ {Pick(s)} \in SUBSET S /\ s \ {Pick(s)} \in SUBSET T
    BY <2>2, <2>4, <1>0, PickIn, Without
  <2>6. n - 1 \notin Bad
    BY <2>1, <2>5
  <2>7. F[s \ {Pick(s)}] = G[s \ {Pick(s)}]
    BY <2>5, <2>6
  <2>8. QED
    BY <2>2, <2>3, <2>4, <2>7
<1>2. QED
  BY <1>0, <1>1

\* A sum takes the picked element first.
LEMMA SumStep ==
    ASSUME NEW w, NEW S, IsFiniteSet(S)
    PROVE  SumFunctionOnSet(w, S) =
             IF S = {} THEN 0
             ELSE w[Pick(S)] + SumFunctionOnSet(w, S \ {Pick(S)})
<1> DEFINE F == CHOOSE H : SumsOf(H, w, SUBSET S)
           T == S \ {Pick(S)}
           G == CHOOSE H : SumsOf(H, w, SUBSET T)
<1>1. IsFiniteSet(T)
  BY FS_Subset
<1>2. SumsOf(F, w, SUBSET S) /\ SumFunctionOnSet(w, S) = F[S]
  BY SumsExist, SumDef
<1>3. SumsOf(G, w, SUBSET T) /\ SumFunctionOnSet(w, T) = G[T]
  BY <1>1, SumsExist, SumDef
<1> HIDE DEF F, G
<1>4. F[S] = IF S = {} THEN 0 ELSE w[Pick(S)] + F[T]
  BY <1>2 DEF SumsOf
<1>5. F[T] = G[T]
  <2>1. T \in SUBSET S /\ T \in SUBSET T
    OBVIOUS
  <2> HIDE DEF T
  <2>2. QED
    BY <2>1, <1>2, <1>3, SumsAgree
<1>6. QED
  BY <1>2, <1>3, <1>4, <1>5

\* It does not matter which element is taken out: the sum is the same.
LEMMA SumRemove ==
    ASSUME NEW w, NEW S, IsFiniteSet(S), \A y \in S : w[y] \in Nat, NEW x \in S
    PROVE  /\ SumFunctionOnSet(w, S) \in Nat
           /\ SumFunctionOnSet(w, S) = w[x] + SumFunctionOnSet(w, S \ {x})
<1> DEFINE Sum(s) == SumFunctionOnSet(w, s)
           Good(s) == Sum(s) \in Nat /\ \A y \in s : Sum(s) = w[y] + Sum(s \ {y})
           Bad == {n \in Nat : \E s \in SUBSET S : Cardinality(s) = n /\ ~ Good(s)}
<1>0. \A s \in SUBSET S : IsFiniteSet(s) /\ Cardinality(s) \in Nat
  BY FS_Subset, FS_CardinalityType
<1>1. ASSUME Bad # {} PROVE FALSE
  <2>1. PICK n \in Bad : \A m \in Bad : n <= m
    <3>1. Bad \subseteq Nat
      OBVIOUS
    <3> HIDE DEF Bad
    <3>2. QED
      BY <1>1, <3>1, LeastNatural
  <2>2. PICK s \in SUBSET S : Cardinality(s) = n /\ ~ Good(s)
    BY <2>1
  <2>3. Sum(s) = IF s = {} THEN 0 ELSE w[Pick(s)] + Sum(s \ {Pick(s)})
    BY <1>0, SumStep
  <2>4. s # {}
    BY <2>2, <2>3
  <2>5. ASSUME NEW y \in s PROVE Good(s \ {y})
    <3>1. Cardinality(s \ {y}) = n - 1 /\ n - 1 \in Nat /\ ~ (n <= n - 1)
      BY <1>0, <2>2, Without
    <3> HIDE DEF Good
    <3>2. n - 1 \notin Bad
      <4> HIDE DEF Bad
      <4>1. QED
        BY <2>1, <3>1
    <3>3. s \ {y} \in SUBSET S
      OBVIOUS
    <3>4. QED
      BY <3>1, <3>2, <3>3
  <2> DEFINE c == Pick(s)
  <2>6. c \in s /\ w[c] \in Nat /\ Sum(s) = w[c] + Sum(s \ {c})
    BY <2>3, <2>4, PickIn
  <2> HIDE DEF c
  <2>7. Sum(s) \in Nat
    <3>1. Sum(s \ {c}) \in Nat
      BY <2>5, <2>6
    <3> HIDE DEF Sum
    <3>2. QED
      BY <2>6, <3>1
  <2>8. ASSUME NEW y \in s PROVE Sum(s) = w[y] + Sum(s \ {y})
    <3>1. CASE y = c
      BY <3>1, <2>6
    <3>2. CASE y # c
      <4>1. y \in s \ {c} /\ c \in s \ {y} /\ w[y] \in Nat
        BY <3>2, <2>6
      <4>2. Sum(s \ {c}) = w[y] + Sum((s \ {c}) \ {y})
        BY <4>1, <2>5, <2>6
      <4>3. Sum(s \ {y}) = w[c] + Sum((s \ {y}) \ {c})
        BY <4>1, <2>5
      <4>4. (s \ {c}) \ {y} = (s \ {y}) \ {c}
        OBVIOUS
      <4> DEFINE r == (s \ {c}) \ {y}
      <4>5. Sum(r) \in Nat
        <5>1. r \in SUBSET S /\ Cardinality(r) = n - 2 /\ n - 2 \in Nat /\ ~ (n <= n - 2)
          <6>1. IsFiniteSet(s \ {c}) /\ Cardinality(s \ {c}) = n - 1 /\ n \in Nat
            BY <1>0, <2>2, <2>6, Without
          <6>2. Cardinality(r) = n - 1 - 1 /\ Cardinality(s \ {c}) \in Nat \ {0}
            BY <6>1, <4>1, Without
          <6>3. QED
            BY <6>1, <6>2
        <5> HIDE DEF Good, r
        <5>2. n - 2 \notin Bad
          <6> HIDE DEF Bad
          <6>1. QED
            BY <2>1, <5>1
        <5>3. Good(r)
          BY <5>1, <5>2
        <5> USE DEF Good
        <5>4. QED
          BY <5>3
      <4> HIDE DEF Sum
      <4>6. Sum(s \ {c}) = w[y] + Sum(r) /\ Sum(s \ {y}) = w[c] + Sum(r)
        BY <4>2, <4>3, <4>4
      <4> HIDE DEF r
      <4>7. QED
        BY <4>1, <4>5, <4>6, <2>6
    <3>3. QED
      BY <3>1, <3>2
  <2>9. QED
    BY <2>2, <2>7, <2>8
<1>2. Good(S)
  <2> HIDE DEF Good
  <2>1. QED
    BY <1>0, <1>1
<1>3. QED
  BY <1>2

LEMMA SumEmpty == ASSUME NEW w PROVE SumFunctionOnSet(w, {}) = 0
BY SumStep, FS_EmptySet

LEMMA SumType ==
    ASSUME NEW w, NEW S, IsFiniteSet(S), \A y \in S : w[y] \in Nat
    PROVE  SumFunctionOnSet(w, S) \in Nat
<1>1. CASE S = {}
  BY <1>1, SumEmpty
<1>2. CASE S # {}
  BY <1>2, SumRemove
<1>3. QED
  BY <1>1, <1>2

\* One more element adds its value.
LEMMA SumAdd ==
    ASSUME NEW w, NEW S, IsFiniteSet(S), NEW x, x \notin S,
           \A y \in S \cup {x} : w[y] \in Nat
    PROVE  SumFunctionOnSet(w, S \cup {x}) = SumFunctionOnSet(w, S) + w[x]
<1> DEFINE T == S \cup {x}
<1>1. IsFiniteSet(T) /\ x \in T /\ T \ {x} = S
  BY FS_AddElement
<1>2. SumFunctionOnSet(w, S) \in Nat /\ w[x] \in Nat
  BY SumType
<1> HIDE DEF T
<1>3. SumFunctionOnSet(w, T) = w[x] + SumFunctionOnSet(w, S)
  <2>1. \A y \in T : w[y] \in Nat
    BY DEF T
  <2>2. SumFunctionOnSet(w, T) = w[x] + SumFunctionOnSet(w, T \ {x})
    BY <1>1, <2>1, SumRemove
  <2>3. QED
    BY <1>1, <2>2
<1>4. QED
  BY <1>2, <1>3 DEF T

\* Only the values in the set matter.
LEMMA SumSame ==
    ASSUME NEW w, NEW v, NEW S, IsFiniteSet(S), \A y \in S : w[y] = v[y]
    PROVE  SumFunctionOnSet(w, S) = SumFunctionOnSet(v, S)
<1> DEFINE Same(s) == SumFunctionOnSet(w, s) = SumFunctionOnSet(v, s)
           Bad == {n \in Nat : \E s \in SUBSET S : Cardinality(s) = n /\ ~ Same(s)}
<1>0. \A s \in SUBSET S : IsFiniteSet(s) /\ Cardinality(s) \in Nat
  BY FS_Subset, FS_CardinalityType
<1>1. ASSUME Bad # {} PROVE FALSE
  <2>1. PICK n \in Bad : \A m \in Bad : n <= m
    <3>1. Bad \subseteq Nat
      OBVIOUS
    <3> HIDE DEF Bad
    <3>2. QED
      BY <1>1, <3>1, LeastNatural
  <2>2. PICK s \in SUBSET S : Cardinality(s) = n /\ ~ Same(s)
    BY <2>1
  <2>3. /\ SumFunctionOnSet(w, s) = IF s = {} THEN 0 ELSE w[Pick(s)] + SumFunctionOnSet(w, s \ {Pick(s)})
        /\ SumFunctionOnSet(v, s) = IF s = {} THEN 0 ELSE v[Pick(s)] + SumFunctionOnSet(v, s \ {Pick(s)})
    BY <1>0, SumStep
  <2>4. s # {} /\ Pick(s) \in s
    <3>1. s # {}
      BY <2>2, <2>3
    <3>2. QED
      BY <3>1, PickIn
  <2>5. Cardinality(s \ {Pick(s)}) = n - 1 /\ n - 1 \in Nat /\ ~ (n <= n - 1)
    BY <2>2, <2>4, <1>0, Without
  <2>6. n - 1 \notin Bad /\ s \ {Pick(s)} \in SUBSET S
    <3> HIDE DEF Bad
    <3>1. QED
      BY <2>1, <2>5
  <2>7. Same(s \ {Pick(s)})
    <3> HIDE DEF Same
    <3>1. QED
      BY <2>5, <2>6
  <2>8. w[Pick(s)] = v[Pick(s)]
    BY <2>4
  <2>9. QED
    BY <2>2, <2>3, <2>4, <2>7, <2>8
<1>2. Same(S)
  <2> HIDE DEF Same
  <2>1. QED
    BY <1>0, <1>1
<1>3. QED
  BY <1>2

\* A larger set has no smaller sum.
LEMMA SumMonotone ==
    ASSUME NEW w, NEW T, IsFiniteSet(T), \A y \in T : w[y] \in Nat, NEW S \in SUBSET T
    PROVE  SumFunctionOnSet(w, S) <= SumFunctionOnSet(w, T)
<1> DEFINE Sum(s) == SumFunctionOnSet(w, s)
           Fits(s) == S \subseteq s => Sum(S) <= Sum(s)
           Bad == {n \in Nat : \E s \in SUBSET T : Cardinality(s) = n /\ ~ Fits(s)}
<1>0. \A s \in SUBSET T : /\ IsFiniteSet(s) /\ Cardinality(s) \in Nat /\ Sum(s) \in Nat
                          /\ \A y \in s : w[y] \in Nat
  <2>1. \A s \in SUBSET T : IsFiniteSet(s)
    BY FS_Subset
  <2>2. QED
    BY <2>1, FS_CardinalityType, SumType
<1>1. ASSUME Bad # {} PROVE FALSE
  <2>1. PICK n \in Bad : \A m \in Bad : n <= m
    <3>1. Bad \subseteq Nat
      OBVIOUS
    <3> HIDE DEF Bad
    <3>2. QED
      BY <1>1, <3>1, LeastNatural
  <2>2. PICK s \in SUBSET T : Cardinality(s) = n /\ ~ Fits(s)
    BY <2>1
  <2>3. S \subseteq s /\ S # s
    <3> HIDE DEF Sum
    <3>1. S \subseteq s /\ ~ (Sum(S) <= Sum(s))
      BY <2>2
    <3>2. Sum(s) \in Nat
      BY <1>0
    <3>3. QED
      BY <3>1, <3>2
  <2>4. PICK x \in s : x \notin S
    BY <2>3
  <2>5. Cardinality(s \ {x}) = n - 1 /\ n - 1 \in Nat /\ ~ (n <= n - 1)
    BY <2>2, <1>0, Without
  <2>6. n - 1 \notin Bad /\ s \ {x} \in SUBSET T
    <3> HIDE DEF Bad
    <3>1. QED
      BY <2>1, <2>5
  <2>7. Sum(S) <= Sum(s \ {x})
    <3>1. Fits(s \ {x})
      <4> HIDE DEF Fits
      <4>1. QED
        BY <2>5, <2>6
    <3>2. QED
      BY <3>1, <2>3, <2>4
  <2>8. Sum(s) = w[x] + Sum(s \ {x})
    BY <1>0, SumRemove
  <2>9. Sum(S) \in Nat /\ Sum(s \ {x}) \in Nat /\ w[x] \in Nat
    BY <1>0, <2>6
  <2> HIDE DEF Sum
  <2>10. QED
    BY <2>2, <2>7, <2>8, <2>9
<1>2. Fits(T)
  <2> HIDE DEF Fits
  <2>1. QED
    BY <1>0, <1>1
<1>3. QED
  BY <1>2

-----------------------------------------------------------------------------
(* The invariant.                                                          *)

\* The calls of the program; the heap functions call nothing.
CallsGiven ==
    /\ call \in [Edges -> [Caller : Nat, Callee : Nat, call_inst : Edges]]
    /\ \A e \in Edges : call[e].Caller \notin HMFs

\* The order holds every eliminated function once.
OrderOnce ==
    /\ leftFunctions = {f \in Relevant : \A i \in 1 .. Len(order) : order[i] # f}
    /\ \A i, j \in 1 .. Len(order) : order[i] = order[j] => i = j

\* What a function's count is.
CallsLeft(f) == {e \in FinalCalleeMap(f) : call[e].Callee \in leftFunctions}
Counted == phase # "cfg" => \A f \in leftFunctions : count[f] = Cardinality(CallsLeft(f))

\* The callees of a function in the order come before it.
CalleesBelow ==
    \A i \in 1 .. Len(order) : \A e \in FinalCalleeMap(order[i]) :
        \E j \in 1 .. i - 1 : order[j] = call[e].Callee

\* What the phases have finished.
Weighing == {"weigh", "carry", "instrument", "done"}
Carrying == {"carry", "instrument", "done"}
Stages ==
    /\ phase = "cfg" => order = <<>>
    /\ phase = "exit" => \A f \in leftFunctions : count[f] # 0
    /\ phase \in Weighing => leftFunctions = {}
    /\ phase \in {"instrument", "done"} => place = 0

\* The weight of a call before any is carried on: room for the paths of the calls
\* before it.
Before(e) == {d \in FinalCalleeMap(call[e].Caller) : d < e}
Base(e) == SumFunctionOnSet(Rooms, Before(e))

Weighed ==
    /\ phase = "weigh" => \A i \in 1 .. place :
         /\ outbound[order[i]] = SumFunctionOnSet(Rooms, FinalCalleeMap(order[i]))
         /\ \A e \in FinalCalleeMap(order[i]) : edgeWeight[e] = Base(e)
    /\ phase \in Carrying => \A f \in Relevant :
         outbound[f] = SumFunctionOnSet(Rooms, FinalCalleeMap(f))

\* An unmarked call is the only one of its callee.
OnlyCall ==
    phase # "cfg" => \A d, e \in Final :
        pathType[d] = "Default" /\ call[d].Callee = call[e].Callee => d = e

\* The walk over the order backwards has done f.
Walked(f) == \E i \in place + 1 .. Len(order) : order[i] = f

\* d has handed its weight on to e.
Handed(d, e) ==
    /\ d \in Final /\ pathType[d] = "Default" /\ call[d].Callee = call[e].Caller
    /\ Walked(call[d].Caller)

Carried ==
    phase \in Carrying =>
        /\ \A e \in Final : (\A d \in Final : ~ Handed(d, e)) => edgeWeight[e] = Base(e)
        /\ \A d, e \in Final : Handed(d, e) => edgeWeight[e] = Base(e) + edgeWeight[d]
        /\ \A d \in Final : Walked(call[d].Caller) /\ IsLeaf(call[d].Callee)
                              => pathType[d] # "Default"

\* An instruction with one callee adds the weight of its call if that is marked.
AddedOnce ==
    phase = "done" => \A e \in Final : ~ HasOthers(e) =>
        added[call[e].call_inst] = IF pathType[e] = "Default" THEN 0 ELSE edgeWeight[e]

WeightsInv ==
    /\ TypeOK /\ CallsGiven /\ OrderOnce /\ Counted /\ CalleesBelow /\ Stages
    /\ Weighed /\ OnlyCall /\ Carried /\ AddedOnce

\* Sets of calls are finite; the calls of the final graph join different functions.
LEMMA CallFacts ==
    /\ Edges \subseteq Nat /\ \A S \in SUBSET Edges : IsFiniteSet(S)
    /\ Final \subseteq Edges
    /\ \A e \in Final : /\ call[e].Caller \in Relevant /\ call[e].Callee \in Relevant
                        /\ call[e].Caller # call[e].Callee
                        /\ e \in FinalCalleeMap(call[e].Caller)
                        /\ e \in FinalCallerMap(call[e].Callee)
    /\ \A f : /\ FinalCalleeMap(f) \subseteq Final /\ IsFiniteSet(FinalCalleeMap(f))
              /\ FinalCallerMap(f) \subseteq Final /\ IsFiniteSet(FinalCallerMap(f))
    /\ \A f : \A e \in FinalCalleeMap(f) : call[e].Caller = f
    /\ \A f : \A e \in FinalCallerMap(f) : call[e].Callee = f
<1>1. EdgeN \in Nat /\ Edges = 1 .. EdgeN
  BY WeightsAssumption DEF Edges
<1>2. Edges \subseteq Nat /\ IsFiniteSet(Edges)
  BY <1>1, FS_Interval
<1>3. \A S \in SUBSET Edges : IsFiniteSet(S)
  BY <1>2, FS_Subset
<1>4. Final \subseteq Edges
  BY DEF Final
<1>5. \A f : FinalCalleeMap(f) \subseteq Final /\ FinalCallerMap(f) \subseteq Final
  BY DEF FinalCalleeMap, FinalCallerMap
<1>6. \A f : FinalCalleeMap(f) \in SUBSET Edges /\ FinalCallerMap(f) \in SUBSET Edges
  BY <1>4, <1>5
<1>7. \A e \in Final : /\ call[e].Caller \in Relevant /\ call[e].Callee \in Relevant
                       /\ call[e].Caller # call[e].Callee
  BY DEF Final
<1>8. QED
  BY <1>2, <1>3, <1>4, <1>5, <1>6, <1>7 DEF FinalCalleeMap, FinalCallerMap

\* The call graph never changes.
LEMMA SameCalls ==
    ASSUME call' = call
    PROVE  /\ Final' = Final
           /\ \A f : /\ FinalCalleeMap(f)' = FinalCalleeMap(f)
                     /\ FinalCallerMap(f)' = FinalCallerMap(f)
                     /\ IsLeaf(f)' = IsLeaf(f)
           /\ \A e : HasOthers(e)' = HasOthers(e) /\ Before(e)' = Before(e)
           /\ (CallsGiven => CallsGiven')
<1>1. Final' = Final
  BY DEF Final
<1>2. \A f : FinalCalleeMap(f)' = FinalCalleeMap(f) /\ FinalCallerMap(f)' = FinalCallerMap(f)
  BY <1>1 DEF FinalCalleeMap, FinalCallerMap
<1>3. \A f : IsLeaf(f)' = IsLeaf(f)
  BY <1>2 DEF IsLeaf
<1>4. \A e : HasOthers(e)' = HasOthers(e)
  BY DEF HasOthers
<1>5. \A e : Before(e)' = Before(e)
  BY <1>2 DEF Before
<1>6. CallsGiven => CallsGiven'
  BY DEF CallsGiven
<1>7. QED
  BY <1>1, <1>2, <1>3, <1>4, <1>5, <1>6

\* Two elements make a cardinality above 1.
LEMMA TwoElements ==
    ASSUME NEW S, IsFiniteSet(S), NEW x \in S, NEW y \in S, x # y
    PROVE  Cardinality(S) > 1
<1>1. IsFiniteSet(S \ {x}) /\ Cardinality(S \ {x}) = Cardinality(S) - 1 /\ Cardinality(S) \in Nat
  BY Without
<1>2. Cardinality(S \ {x}) \in Nat \ {0}
  BY <1>1, Without
<1>3. QED
  BY <1>1, <1>2

\* Taking a part out of a finite set.
LEMMA Minus ==
    ASSUME NEW S, IsFiniteSet(S), NEW T \in SUBSET S
    PROVE  /\ Cardinality(S) \in Nat /\ Cardinality(S) - Cardinality(T) \in Nat
           /\ Cardinality(S \ T) = Cardinality(S) - Cardinality(T)
<1>1. IsFiniteSet(T) /\ IsFiniteSet(S \ T) /\ (S \ T) \cup T = S /\ (S \ T) \cap T = {}
  BY FS_Subset
<1>2. Cardinality(S) = Cardinality(S \ T) + Cardinality(T) - 0
  <2> DEFINE U == S \ T
  <2>1. IsFiniteSet(U) /\ U \cup T = S /\ U \cap T = {}
    BY <1>1
  <2> HIDE DEF U
  <2>2. Cardinality(U \cup T) = Cardinality(U) + Cardinality(T) - Cardinality(U \cap T)
    BY <2>1, <1>1, FS_Union
  <2>3. Cardinality(U \cap T) = 0
    BY <2>1, FS_EmptySet
  <2>4. QED
    BY <2>1, <2>2, <2>3 DEF U
<1>3. Cardinality(S) \in Nat /\ Cardinality(T) \in Nat /\ Cardinality(S \ T) \in Nat
  BY <1>1, FS_CardinalityType
<1>4. QED
  BY <1>2, <1>3

-----------------------------------------------------------------------------
(* The steps.                                                              *)

LEMMA WeightsInit == Init => WeightsInv
<1> SUFFICES ASSUME Init PROVE WeightsInv
  OBVIOUS
<1>1. CallsGiven
  <2>1. PICK pair \in [Edges -> Calls], inst \in [Edges -> Edges] :
          call = [e \in Edges |-> [Caller |-> pair[e][1], Callee |-> pair[e][2],
                                   call_inst |-> inst[e]]]
    BY DEF Init
  <2>2. \A e \in Edges : /\ pair[e] \in Calls /\ pair[e][1] \in Nat /\ pair[e][2] \in Nat
                         /\ pair[e][1] \notin HMFs /\ inst[e] \in Edges
    BY <2>1, WeightsAssumption
  <2>3. \A e \in Edges : call[e] \in [Caller : Nat, Callee : Nat, call_inst : Edges]
    BY <2>1, <2>2
  <2>4. call \in [Edges -> [Caller : Nat, Callee : Nat, call_inst : Edges]]
    BY <2>1, <2>3
  <2>5. QED
    BY <2>1, <2>2, <2>4 DEF CallsGiven
<1>2. TypeOK
  <2>1. /\ phase = "cfg" /\ pathType \in [Edges -> {"Default", "MarkLoop"}]
        /\ edgeWeight = [e \in Edges |-> 0] /\ leftFunctions = Relevant
        /\ count = [f \in Relevant |-> 0] /\ order = <<>> /\ place = 0
        /\ outbound = [f \in Relevant |-> 0] /\ added = [e \in Edges |-> 0]
    BY DEF Init
  <2>2. pathType \in [Edges -> PathTypes]
    BY <2>1 DEF PathTypes
  <2>3. QED
    BY <2>1, <2>2 DEF TypeOK, Phases
<1>3. OrderOnce /\ Counted /\ CalleesBelow /\ Stages
  BY DEF Init, OrderOnce, Counted, CalleesBelow, Stages, Weighing
<1>4. Weighed /\ OnlyCall /\ Carried /\ AddedOnce
  BY DEF Init, Weighed, OnlyCall, Carried, AddedOnce, Carrying
<1>5. QED
  BY <1>1, <1>2, <1>3, <1>4 DEF WeightsInv

\* Marking leaves only calls unmarked that are alone.
LEMMA CfgStep ==
    ASSUME WeightsInv, ConstructFinalCFG
    PROVE  WeightsInv'
<1> USE DEF WeightsInv
<1>1. /\ phase = "cfg" /\ phase' = "sort" /\ call' = call /\ order' = order /\ place' = place
      /\ leftFunctions' = leftFunctions /\ edgeWeight' = edgeWeight
      /\ outbound' = outbound /\ added' = added
  BY DEF ConstructFinalCFG
<1>2. order = <<>>
  BY <1>1 DEF Stages
<1>3. leftFunctions = Relevant
  BY <1>2 DEF OrderOnce
<1>4. pathType' \in [Edges -> PathTypes] /\ count' \in [Relevant -> Nat]
  <2>1. \A f \in Relevant : Cardinality(FinalCalleeMap(f)) \in Nat
    BY CallFacts, FS_CardinalityType
  <2>2. QED
    BY <2>1 DEF ConstructFinalCFG, TypeOK, PathTypes
<1>5. TypeOK'
  BY <1>1, <1>4 DEF TypeOK, Phases
<1>6. CallsGiven' /\ OrderOnce' /\ CalleesBelow' /\ Stages'
  BY <1>1, <1>2, SameCalls DEF OrderOnce, CalleesBelow, Stages, Weighing
<1>7. Counted'
  <2> SUFFICES ASSUME NEW f \in leftFunctions PROVE count'[f] = Cardinality(CallsLeft(f))
    BY <1>1, SameCalls DEF Counted, CallsLeft
  <2>1. CallsLeft(f) = FinalCalleeMap(f)
    BY <1>3, CallFacts DEF CallsLeft
  <2>2. QED
    BY <1>3, <2>1 DEF ConstructFinalCFG
<1>8. OnlyCall'
  <2> SUFFICES ASSUME NEW d \in Final, NEW e \in Final, pathType'[d] = "Default",
                      call[d].Callee = call[e].Callee, d # e
               PROVE  FALSE
    BY <1>1, SameCalls DEF OnlyCall
  <2>1. Cardinality(FinalCallerMap(call[d].Callee)) > 1
    BY CallFacts, TwoElements
  <2>2. QED
    BY <2>1, CallFacts DEF ConstructFinalCFG
<1>9. Weighed' /\ Carried' /\ AddedOnce'
  BY <1>1 DEF Weighed, Carried, AddedOnce, Carrying
<1>10. QED
  BY <1>5, <1>6, <1>7, <1>8, <1>9

\* Eliminating a function whose count is zero: all its callees are in the order.
LEMMA EliminateStep ==
    ASSUME WeightsInv, NEW f \in Relevant, Eliminate(f)
    PROVE  WeightsInv'
<1> USE DEF WeightsInv
<1> DEFINE n == Len(order)
<1>1. /\ phase = "sort" /\ phase' = "sort" /\ f \in leftFunctions /\ count[f] = 0
      /\ order' = Append(order, f) /\ leftFunctions' = leftFunctions \ {f}
      /\ count' = CountAfter(f) /\ call' = call /\ pathType' = pathType
      /\ edgeWeight' = edgeWeight /\ place' = place /\ outbound' = outbound /\ added' = added
  BY DEF Eliminate
<1>2. /\ order \in Seq(Relevant) /\ n \in Nat /\ order' \in Seq(Relevant) /\ Len(order') = n + 1
      /\ order'[n + 1] = f /\ \A i \in 1 .. n : order'[i] = order[i] /\ order[i] \in Relevant
  BY <1>1 DEF TypeOK
<1>3. \A i \in 1 .. n + 1 : i \in 1 .. n \/ i = n + 1
  BY <1>2
<1>4. \A i \in 1 .. n : order[i] # f /\ i \in 1 .. n + 1
  BY <1>1, <1>2 DEF OrderOnce
<1>5. OrderOnce'
  <2>1. leftFunctions' = {g \in Relevant : \A i \in 1 .. n + 1 : order'[i] # g}
    <3>1. n + 1 \in 1 .. n + 1
      BY <1>2
    <3>2. leftFunctions = {g \in Relevant : \A i \in 1 .. n : order[i] # g}
      BY DEF OrderOnce
    <3>3. QED
      BY <1>1, <1>2, <1>3, <1>4, <3>1, <3>2
  <2>2. \A i, j \in 1 .. n + 1 : order'[i] = order'[j] => i = j
    BY <1>2, <1>3, <1>4 DEF OrderOnce
  <2>3. QED
    BY <2>1, <2>2, <1>2 DEF OrderOnce
<1>6. ASSUME NEW g \in leftFunctions'
      PROVE  count'[g] = Cardinality(CallsLeft(g)') /\ count'[g] \in Nat
  <2> DEFINE S == CallsLeft(g)
             T == {e \in FinalCalleeMap(g) : call[e].Callee = f}
  <2>1. IsFiniteSet(S) /\ T \in SUBSET S
    <3>1. S \in SUBSET FinalCalleeMap(g) /\ T \in SUBSET S
      BY <1>1 DEF CallsLeft
    <3>2. QED
      BY <3>1, CallFacts, FS_Subset
  <2>2. CallsLeft(g)' = S \ T
    BY <1>1, SameCalls DEF CallsLeft
  <2>3. count[g] = Cardinality(S)
    BY <1>1 DEF Counted
  <2>4. count'[g] = count[g] - Cardinality(T)
    BY <1>1 DEF CountAfter, TypeOK
  <2> HIDE DEF S, T
  <2>5. QED
    BY <2>1, <2>2, <2>3, <2>4, Minus
<1>7. Counted'
  BY <1>1, <1>6 DEF Counted
<1>8. count' \in [Relevant -> Nat]
  <2>1. \A g \in Relevant : count'[g] \in Nat
    <3> SUFFICES ASSUME NEW g \in Relevant PROVE count'[g] \in Nat
      OBVIOUS
    <3>1. CASE g \in leftFunctions'
      BY <3>1, <1>6
    <3>2. CASE g \notin leftFunctions'
      BY <3>2, <1>1 DEF CountAfter, TypeOK
    <3>3. QED
      BY <3>1, <3>2
  <2>2. QED
    BY <2>1, <1>1 DEF CountAfter
<1>9. TypeOK'
  <2>1. place' \in 0 .. Len(order')
    BY <1>1, <1>2 DEF TypeOK
  <2>2. QED
    BY <1>1, <1>2, <1>8, <2>1 DEF TypeOK
<1>10. CalleesBelow'
  <2> SUFFICES ASSUME NEW i \in 1 .. n + 1, NEW e \in FinalCalleeMap(order'[i])
               PROVE  \E j \in 1 .. i - 1 : order'[j] = call[e].Callee
    BY <1>1, <1>2, SameCalls DEF CalleesBelow, FinalCalleeMap
  <2>1. CASE i \in 1 .. n
    <3>1. PICK j \in 1 .. i - 1 : order[j] = call[e].Callee
      BY <2>1, <1>2 DEF CalleesBelow
    <3>2. j \in 1 .. n
      BY <2>1, <3>1, <1>2
    <3>3. QED
      BY <3>1, <3>2, <1>2
  <2>2. CASE i = n + 1
    <3>1. CallsLeft(f) = {}
      <4>1. CallsLeft(f) \in SUBSET FinalCalleeMap(f)
        BY DEF CallsLeft
      <4>2. IsFiniteSet(CallsLeft(f)) /\ Cardinality(CallsLeft(f)) = 0
        BY <4>1, <1>1, CallFacts, FS_Subset DEF Counted
      <4>3. QED
        BY <4>2, FS_EmptySet
    <3>2. call[e].Callee \in Relevant /\ call[e].Callee \notin leftFunctions
      BY <2>2, <1>2, <3>1, CallFacts DEF CallsLeft
    <3>3. PICK j \in 1 .. n : order[j] = call[e].Callee
      BY <3>2 DEF OrderOnce
    <3>4. j \in 1 .. i - 1
      BY <3>3, <2>2, <1>2
    <3>5. QED
      BY <3>3, <3>4, <1>2
  <2>3. QED
    BY <1>3, <2>1, <2>2
<1>11. CallsGiven' /\ OnlyCall'
  BY <1>1, SameCalls DEF OnlyCall
<1>12. Stages' /\ Weighed' /\ Carried' /\ AddedOnce'
  BY <1>1 DEF Stages, Weighed, Carried, AddedOnce, Weighing, Carrying
<1>13. QED
  BY <1>5, <1>7, <1>9, <1>10, <1>11, <1>12

\* Steps that leave the calls, the order and its counts alone.
LEMMA SortedStays ==
    ASSUME WeightsInv, call' = call, order' = order, leftFunctions' = leftFunctions,
           count' = count, phase # "cfg"
    PROVE  CallsGiven' /\ OrderOnce' /\ Counted' /\ CalleesBelow'
<1> USE DEF WeightsInv
<1>1. CallsGiven' /\ OrderOnce'
  BY SameCalls DEF OrderOnce
<1>2. Counted'
  BY SameCalls DEF Counted, CallsLeft, FinalCalleeMap
<1>3. CalleesBelow'
  BY SameCalls DEF CalleesBelow, FinalCalleeMap
<1>4. QED
  BY <1>1, <1>2, <1>3

LEMMA SortFailsStep ==
    ASSUME WeightsInv, SortFails
    PROVE  WeightsInv'
<1> USE DEF WeightsInv
<1>1. /\ phase = "sort" /\ phase' = "exit" /\ \A f \in leftFunctions : count[f] # 0
      /\ UNCHANGED <<call, pathType, edgeWeight, leftFunctions, count, order, place,
                     outbound, added>>
  BY DEF SortFails
<1>2. TypeOK'
  BY <1>1 DEF TypeOK, Phases
<1>3. CallsGiven' /\ OrderOnce' /\ Counted' /\ CalleesBelow'
  BY <1>1, SortedStays
<1>4. Stages' /\ Weighed' /\ Carried' /\ AddedOnce'
  BY <1>1 DEF Stages, Weighed, Carried, AddedOnce, Weighing, Carrying
<1>5. OnlyCall'
  BY <1>1, SameCalls DEF OnlyCall
<1>6. QED
  BY <1>2, <1>3, <1>4, <1>5

LEMMA SortDoneStep ==
    ASSUME WeightsInv, SortDone
    PROVE  WeightsInv'
<1> USE DEF WeightsInv
<1>1. /\ phase = "sort" /\ phase' = "weigh" /\ leftFunctions = {} /\ place' = 0
      /\ UNCHANGED <<call, pathType, edgeWeight, leftFunctions, count, order, outbound, added>>
  BY DEF SortDone
<1>2. TypeOK'
  <2>1. place' \in 0 .. Len(order')
    BY <1>1 DEF TypeOK
  <2>2. QED
    BY <1>1, <2>1 DEF TypeOK, Phases
<1>3. CallsGiven' /\ OrderOnce' /\ Counted' /\ CalleesBelow'
  BY <1>1, SortedStays
<1>4. Stages' /\ Weighed' /\ Carried' /\ AddedOnce'
  BY <1>1 DEF Stages, Weighed, Carried, AddedOnce, Weighing, Carrying
<1>5. OnlyCall'
  BY <1>1, SameCalls DEF OnlyCall
<1>6. QED
  BY <1>2, <1>3, <1>4, <1>5

\* Every relevant function is in the order once the sort is done.
LEMMA AllOrdered ==
    ASSUME OrderOnce, leftFunctions = {}
    PROVE  \A f \in Relevant : \E i \in 1 .. Len(order) : order[i] = f
BY DEF OrderOnce

\* The room of a call is a positive number.
LEMMA RoomFacts ==
    ASSUME TypeOK
    PROVE  /\ \A e \in Final : Rooms[e] \in Nat \ {0} /\ Rooms[e] > outbound[call[e].Callee]
           /\ \A f : SumFunctionOnSet(Rooms, FinalCalleeMap(f)) \in Nat
           /\ \A e \in Edges : Before(e) \in SUBSET FinalCalleeMap(call[e].Caller)
           /\ \A e \in Edges : Base(e) \in Nat
<1>1. ASSUME NEW e \in Final
      PROVE  Rooms[e] \in Nat \ {0} /\ Rooms[e] > outbound[call[e].Callee]
  <2>1. outbound[call[e].Callee] \in Nat
    BY CallFacts DEF TypeOK
  <2>2. e \in Edges
    BY CallFacts
  <2>3. QED
    BY <2>1, <2>2 DEF Rooms
<1>2. \A f : SumFunctionOnSet(Rooms, FinalCalleeMap(f)) \in Nat
  <2> TAKE f
  <2>1. IsFiniteSet(FinalCalleeMap(f)) /\ \A e \in FinalCalleeMap(f) : Rooms[e] \in Nat
    BY <1>1, CallFacts
  <2>2. QED
    BY <2>1, SumType
<1>3. \A e \in Edges : Before(e) \in SUBSET FinalCalleeMap(call[e].Caller)
  BY DEF Before
<1>4. \A e \in Edges : Base(e) \in Nat
  <2> TAKE e \in Edges
  <2>1. Before(e) \in SUBSET Edges /\ \A d \in Before(e) : Rooms[d] \in Nat
    BY <1>1, <1>3, CallFacts
  <2>2. QED
    BY <2>1, CallFacts, SumType DEF Base
<1>5. QED
  BY <1>1, <1>2, <1>3, <1>4

\* The next function of the order: its callees have their weights.
LEMMA WeighStep ==
    ASSUME WeightsInv, Weigh
    PROVE  WeightsInv'
<1> USE DEF WeightsInv
<1> DEFINE n == Len(order)
           p == place + 1
           f == order[p]
<1>1. /\ phase = "weigh" /\ phase' = "weigh" /\ place < n /\ place' = p
      /\ UNCHANGED <<call, pathType, leftFunctions, count, order, added>>
      /\ outbound' = [outbound EXCEPT ![f] = SumFunctionOnSet(Rooms, FinalCalleeMap(f))]
  BY DEF Weigh
<1>2. /\ order \in Seq(Relevant) /\ n \in Nat /\ place \in Nat /\ p \in 1 .. n
      /\ f \in Relevant /\ \A i \in 1 .. place : i \in 1 .. n /\ order[i] \in Relevant
      /\ \A i \in 1 .. p : i \in 1 .. place \/ i = p
  BY <1>1 DEF TypeOK
<1>3. \A e \in Edges : edgeWeight'[e] =
          IF e \in FinalCalleeMap(f) THEN Base(e) ELSE edgeWeight[e]
  <2> SUFFICES ASSUME NEW e \in Edges, e \in FinalCalleeMap(f)
               PROVE  edgeWeight'[e] = Base(e)
    BY DEF Weigh
  <2>1. Before(e) = {d \in FinalCalleeMap(f) : d < e}
    BY CallFacts DEF Before
  <2>2. QED
    BY <2>1 DEF Weigh, Base
<1>4. /\ outbound'[f] = SumFunctionOnSet(Rooms, FinalCalleeMap(f))
      /\ \A g \in Relevant \ {f} : outbound'[g] = outbound[g]
      /\ outbound' \in [Relevant -> Nat]
  BY <1>1, <1>2, RoomFacts DEF TypeOK
<1>5. TypeOK'
  <2>1. DOMAIN edgeWeight' = Edges /\ edgeWeight' = [e \in Edges |-> edgeWeight'[e]]
    BY DEF Weigh
  <2>2. edgeWeight' \in [Edges -> Nat]
    BY <1>3, <2>1, RoomFacts DEF TypeOK
  <2>3. place' \in 0 .. Len(order')
    BY <1>1, <1>2
  <2>4. QED
    BY <1>1, <1>4, <2>2, <2>3 DEF TypeOK
<1>6. CallsGiven' /\ OrderOnce' /\ Counted' /\ CalleesBelow'
  BY <1>1, SortedStays
<1>7. Stages' /\ Carried' /\ AddedOnce'
  BY <1>1 DEF Stages, Carried, AddedOnce, Weighing, Carrying
<1>8. OnlyCall'
  BY <1>1, SameCalls DEF OnlyCall
<1>9. ASSUME NEW i \in 1 .. p
      PROVE  \A e \in FinalCalleeMap(order[i]) : Rooms'[e] = Rooms[e]
  <2> TAKE e \in FinalCalleeMap(order[i])
  <2>1. i \in 1 .. n
    BY <1>2
  <2>2. PICK j \in 1 .. i - 1 : order[j] = call[e].Callee
    BY <2>1 DEF CalleesBelow
  <2>3. j \in 1 .. n /\ j # p
    BY <1>2, <2>2
  <2>4. call[e].Callee # f
    BY <1>2, <2>2, <2>3 DEF OrderOnce
  <2>5. e \in Edges /\ call[e].Callee \in Relevant
    BY CallFacts
  <2>6. outbound'[call[e].Callee] = outbound[call[e].Callee]
    BY <1>4, <2>4, <2>5
  <2>7. QED
    BY <1>1, <2>5, <2>6 DEF Rooms
<1>10. ASSUME NEW i \in 1 .. p
       PROVE  /\ SumFunctionOnSet(Rooms', FinalCalleeMap(order[i]))
                   = SumFunctionOnSet(Rooms, FinalCalleeMap(order[i]))
              /\ \A e \in FinalCalleeMap(order[i]) : Base(e)' = Base(e)
  <2>1. IsFiniteSet(FinalCalleeMap(order[i]))
    BY CallFacts
  <2>2. SumFunctionOnSet(Rooms', FinalCalleeMap(order[i]))
          = SumFunctionOnSet(Rooms, FinalCalleeMap(order[i]))
    BY <1>9, <2>1, SumSame
  <2>3. ASSUME NEW e \in FinalCalleeMap(order[i]) PROVE Base(e)' = Base(e)
    <3>1. Before(e) \in SUBSET FinalCalleeMap(order[i]) /\ Before(e)' = Before(e)
      BY <1>1, SameCalls, CallFacts DEF Before
    <3>2. IsFiniteSet(Before(e)) /\ \A d \in Before(e) : Rooms'[d] = Rooms[d]
      BY <1>9, <2>1, <3>1, FS_Subset
    <3>3. SumFunctionOnSet(Rooms', Before(e)) = SumFunctionOnSet(Rooms, Before(e))
      BY <3>2, SumSame
    <3>4. QED
      BY <3>1, <3>3 DEF Base
  <2>4. QED
    BY <2>2, <2>3
<1>11. Weighed'
  <2> SUFFICES ASSUME NEW i \in 1 .. p
               PROVE  /\ outbound'[order[i]]
                           = SumFunctionOnSet(Rooms', FinalCalleeMap(order[i]))
                      /\ \A e \in FinalCalleeMap(order[i]) : edgeWeight'[e] = Base(e)'
    BY <1>1, SameCalls DEF Weighed, Carrying, FinalCalleeMap
  <2>1. CASE i = p
    <3>1. outbound'[order[i]] = SumFunctionOnSet(Rooms', FinalCalleeMap(order[i]))
      BY <2>1, <1>4, <1>10
    <3>2. \A e \in FinalCalleeMap(order[i]) : edgeWeight'[e] = Base(e)'
      BY <2>1, <1>3, <1>10, CallFacts
    <3>3. QED
      BY <3>1, <3>2
  <2>2. CASE i \in 1 .. place
    <3>1. order[i] # f /\ order[i] \in Relevant
      <4>1. i \in 1 .. n /\ i # p
        BY <2>2, <1>2
      <4>2. QED
        BY <4>1, <1>2 DEF OrderOnce
    <3>2. outbound'[order[i]] = SumFunctionOnSet(Rooms', FinalCalleeMap(order[i]))
      BY <2>2, <3>1, <1>1, <1>4, <1>10 DEF Weighed
    <3>3. ASSUME NEW e \in FinalCalleeMap(order[i]) PROVE edgeWeight'[e] = Base(e)'
      <4>1. e \in Edges /\ e \notin FinalCalleeMap(f)
        BY <3>1, CallFacts
      <4>2. edgeWeight[e] = Base(e)
        BY <2>2, <1>1 DEF Weighed
      <4>3. QED
        BY <4>1, <4>2, <1>3, <1>10
    <3>4. QED
      BY <3>2, <3>3
  <2>3. QED
    BY <1>2, <2>1, <2>2
<1>12. QED
  BY <1>5, <1>6, <1>7, <1>8, <1>11

\* Every call has its weight, none has been carried on.
LEMMA WeighDoneStep ==
    ASSUME WeightsInv, WeighDone
    PROVE  WeightsInv'
<1> USE DEF WeightsInv
<1>1. /\ phase = "weigh" /\ phase' = "carry" /\ place = Len(order)
      /\ UNCHANGED <<call, pathType, edgeWeight, leftFunctions, count, order, place,
                     outbound, added>>
  BY DEF WeighDone
<1>2. TypeOK'
  BY <1>1 DEF TypeOK, Phases
<1>3. CallsGiven' /\ OrderOnce' /\ Counted' /\ CalleesBelow'
  BY <1>1, SortedStays
<1>4. Stages' /\ AddedOnce'
  BY <1>1 DEF Stages, AddedOnce, Weighing
<1>5. OnlyCall'
  BY <1>1, SameCalls DEF OnlyCall
<1>6. leftFunctions = {}
  BY <1>1 DEF Stages, Weighing
<1>7. Rooms' = Rooms /\ \A e : Base(e)' = Base(e)
  BY <1>1, SameCalls DEF Rooms, Base
<1>8. \A f \in Relevant :
          /\ outbound[f] = SumFunctionOnSet(Rooms, FinalCalleeMap(f))
          /\ \A e \in FinalCalleeMap(f) : edgeWeight[e] = Base(e)
  BY <1>1, <1>6, AllOrdered DEF Weighed
<1>9. Weighed'
  BY <1>1, <1>7, <1>8, SameCalls DEF Weighed
<1>10. \A f : ~ Walked(f)'
  BY <1>1 DEF Walked, TypeOK
<1>11. Carried'
  <2>1. \A d, e : ~ Handed(d, e)'
    BY <1>1, <1>10 DEF Handed
  <2>2. \A e \in Final : edgeWeight[e] = Base(e)
    BY <1>8, CallFacts
  <2>3. Final' = Final /\ edgeWeight' = edgeWeight
    BY <1>1, SameCalls
  <2>4. \A e \in Final' : edgeWeight'[e] = Base(e)'
    BY <2>2, <2>3, <1>7
  <2>5. \A d \in Final' : ~ Walked(call[d].Caller)'
    BY <1>1, <1>10 DEF Walked
  <2>6. QED
    BY <2>1, <2>4, <2>5 DEF Carried
<1>12. QED
  BY <1>2, <1>3, <1>4, <1>5, <1>9, <1>11

\* The next function backwards hands the weights of its unmarked calls on: each
\* arrives at calls that nothing was handed to before and nothing will be after.
LEMMA CarryStep ==
    ASSUME WeightsInv, Carry
    PROVE  WeightsInv'
<1> USE DEF WeightsInv
<1> DEFINE n == Len(order)
           f == order[place]
           Above(e) == {d \in Unmarked(f) : call[d].Callee = call[e].Caller}
<1>1. /\ phase = "carry" /\ phase' = "carry" /\ place > 0 /\ place' = place - 1
      /\ UNCHANGED <<call, leftFunctions, count, order, outbound, added>>
  BY DEF Carry
<1>2. /\ order \in Seq(Relevant) /\ n \in Nat /\ place \in 1 .. n /\ f \in Relevant
  BY <1>1 DEF TypeOK
<1>3. /\ DOMAIN edgeWeight' = Edges /\ edgeWeight' = [e \in Edges |-> edgeWeight'[e]]
      /\ \A e \in Edges : edgeWeight'[e] =
           IF e \in Final THEN edgeWeight[e] + SumFunctionOnSet(edgeWeight, Above(e))
           ELSE edgeWeight[e]
  BY DEF Carry, CarriedFrom
<1>4. /\ pathType' \in [Edges -> PathTypes]
      /\ \A e \in Edges : pathType'[e] = IF e \in Unmarked(f) /\ IsLeaf(call[e].Callee)
                                         THEN "MarkBranch" ELSE pathType[e]
  BY DEF Carry, CarriedFrom, TypeOK, PathTypes
<1>5. \A d : d \in Unmarked(f) <=>
          d \in Final /\ pathType[d] = "Default" /\ call[d].Caller = f
  BY DEF Unmarked, FinalCalleeMap
<1>6. \A e : IsFiniteSet(Above(e)) /\ Above(e) \in SUBSET Edges
  <2> TAKE e
  <2>1. Above(e) \in SUBSET Edges
    BY <1>5, CallFacts
  <2>2. QED
    BY <2>1, CallFacts
<1>7. TypeOK'
  <2>1. \A e \in Edges : SumFunctionOnSet(edgeWeight, Above(e)) \in Nat
    <3> TAKE e \in Edges
    <3>1. \A d \in Above(e) : edgeWeight[d] \in Nat
      BY <1>6 DEF TypeOK
    <3> HIDE DEF Above
    <3>2. QED
      BY <3>1, <1>6, SumType
  <2>2. \A e \in Edges : edgeWeight'[e] \in Nat
    <3> TAKE e \in Edges
    <3>1. edgeWeight[e] \in Nat /\ SumFunctionOnSet(edgeWeight, Above(e)) \in Nat
      BY <2>1 DEF TypeOK
    <3>2. edgeWeight'[e] = edgeWeight[e] + SumFunctionOnSet(edgeWeight, Above(e))
            \/ edgeWeight'[e] = edgeWeight[e]
      BY <1>3
    <3> HIDE DEF Above
    <3>3. QED
      BY <3>1, <3>2
  <2>3. edgeWeight' \in [Edges -> Nat]
    BY <2>2, <1>3
  <2>4. place' \in 0 .. Len(order')
    BY <1>1, <1>2
  <2>5. QED
    BY <1>1, <1>4, <2>3, <2>4 DEF TypeOK
<1>8. CallsGiven' /\ OrderOnce' /\ Counted' /\ CalleesBelow'
  BY <1>1, SortedStays
<1>9. Stages' /\ AddedOnce'
  BY <1>1 DEF Stages, AddedOnce, Weighing
<1>10. \A e \in Edges : pathType'[e] = "Default" => pathType[e] = "Default"
  BY <1>4
<1>11. OnlyCall'
  BY <1>1, <1>10, SameCalls, CallFacts DEF OnlyCall
<1>12. Rooms' = Rooms /\ \A e : Base(e)' = Base(e)
  BY <1>1, SameCalls DEF Rooms, Base
<1>13. Weighed'
  BY <1>1, <1>12, SameCalls DEF Weighed, Carrying
<1>14. \A d, e \in Final :
           pathType[d] = "Default" /\ call[d].Callee = call[e].Callee => d = e
  BY <1>1 DEF OnlyCall
<1>15. \A g : Walked(g)' <=> Walked(g) \/ g = f
  <2> TAKE g
  <2>1. Walked(g)' <=> \E i \in place .. n : order[i] = g
    BY <1>1, <1>2 DEF Walked
  <2>2. Walked(g) <=> \E i \in place + 1 .. n : order[i] = g
    BY DEF Walked
  <2>3. \A i \in place .. n : i = place \/ i \in place + 1 .. n
    BY <1>2
  <2>4. place \in place .. n /\ \A i \in place + 1 .. n : i \in place .. n
    BY <1>2
  <2>5. QED
    BY <2>1, <2>2, <2>3, <2>4
<1>16. ~ Walked(f)
  BY <1>2 DEF Walked, OrderOnce
\* What f calls has not been walked either.
<1>17. \A d \in Final : call[d].Caller = f => ~ Walked(call[d].Callee)
  <2> SUFFICES ASSUME NEW d \in Final, call[d].Caller = f,
                      NEW i \in place + 1 .. n, order[i] = call[d].Callee
               PROVE  FALSE
    BY DEF Walked
  <2>1. PICK j \in 1 .. place - 1 : order[j] = call[d].Callee
    BY <1>2, CallFacts DEF CalleesBelow
  <2>2. i \in 1 .. n /\ j \in 1 .. n /\ i # j
    BY <1>2, <2>1
  <2>3. QED
    BY <2>1, <2>2 DEF OrderOnce
\* A call with callees below it keeps its type.
<1>18. \A d, e \in Final : call[d].Callee = call[e].Caller => pathType'[d] = pathType[d]
  <2> SUFFICES ASSUME NEW d \in Final, NEW e \in Final, call[d].Callee = call[e].Caller
               PROVE  pathType'[d] = pathType[d]
    OBVIOUS
  <2>1. ~ IsLeaf(call[d].Callee)
    BY CallFacts DEF IsLeaf
  <2>2. QED
    BY <2>1, <1>4, CallFacts
<1>19. \A d, e \in Final : Handed(d, e)' <=>
           /\ pathType[d] = "Default" /\ call[d].Callee = call[e].Caller
           /\ Walked(call[d].Caller) \/ call[d].Caller = f
  <2> TAKE d \in Final, e \in Final
  <2>1. Handed(d, e)' <=> /\ pathType'[d] = "Default" /\ call[d].Callee = call[e].Caller
                          /\ Walked(call[d].Caller)'
    BY <1>1, SameCalls DEF Handed, Walked
  <2>2. Walked(call[d].Caller)' <=> Walked(call[d].Caller) \/ call[d].Caller = f
    BY <1>1, <1>15 DEF Walked
  <2>3. QED
    BY <2>1, <2>2, <1>18
\* The weight of a call whose caller has been walked does not move.
<1>20. \A d \in Final : Walked(call[d].Caller) \/ call[d].Caller = f
                          => edgeWeight'[d] = edgeWeight[d]
  <2> SUFFICES ASSUME NEW d \in Final, Walked(call[d].Caller) \/ call[d].Caller = f
               PROVE  edgeWeight'[d] = edgeWeight[d]
    OBVIOUS
  <2>1. Above(d) = {}
    <3> SUFFICES ASSUME NEW c \in Above(d) PROVE FALSE
      OBVIOUS
    <3>1. c \in Final /\ call[c].Caller = f /\ call[c].Callee = call[d].Caller
      BY <1>5
    <3>2. ~ Walked(call[d].Caller) /\ call[d].Caller # f
      BY <3>1, <1>17, CallFacts
    <3>3. QED
      BY <3>2
  <2>2. edgeWeight'[d] = edgeWeight[d] + 0 /\ edgeWeight[d] \in Nat
    <3>1. d \in Edges
      BY CallFacts
    <3>2. edgeWeight[d] \in Nat
      BY <3>1 DEF TypeOK
    <3>3. SumFunctionOnSet(edgeWeight, Above(d)) = 0
      BY <2>1, SumEmpty
    <3> HIDE DEF Above
    <3>4. QED
      BY <3>1, <3>2, <3>3, <1>3
  <2>3. QED
    BY <2>2
<1>21. Carried'
  <2>1. ASSUME NEW e \in Final, \A d \in Final : ~ Handed(d, e)'
        PROVE  edgeWeight'[e] = Base(e)
    <3>1. \A d \in Final : ~ Handed(d, e)
      BY <2>1, <1>19 DEF Handed
    <3>2. Above(e) = {}
      BY <2>1, <1>5, <1>19
    <3>3. edgeWeight[e] = Base(e)
      BY <3>1, <1>1 DEF Carried, Carrying
    <3>4. edgeWeight'[e] = edgeWeight[e] + 0 /\ edgeWeight[e] \in Nat
      <4>1. e \in Edges
        BY CallFacts
      <4>2. edgeWeight[e] \in Nat
        BY <4>1 DEF TypeOK
      <4>3. SumFunctionOnSet(edgeWeight, Above(e)) = 0
        BY <3>2, SumEmpty
      <4> HIDE DEF Above
      <4>4. QED
        BY <4>1, <4>2, <4>3, <1>3
    <3>5. QED
      BY <3>3, <3>4
  <2>2. ASSUME NEW d \in Final, NEW e \in Final, Handed(d, e)'
        PROVE  edgeWeight'[e] = Base(e) + edgeWeight'[d]
    <3>1. /\ pathType[d] = "Default" /\ call[d].Callee = call[e].Caller
          /\ Walked(call[d].Caller) \/ call[d].Caller = f
      BY <2>2, <1>19
    <3>2. edgeWeight'[d] = edgeWeight[d]
      BY <3>1, <1>20
    <3>3. edgeWeight[d] \in Nat /\ edgeWeight[e] \in Nat /\ Base(e) \in Nat /\ e \in Edges
      BY CallFacts, RoomFacts DEF TypeOK
    \* No other unmarked call has this callee.
    <3>4. \A c \in Final : pathType[c] = "Default" /\ call[c].Callee = call[e].Caller => c = d
      BY <3>1, <1>14
    <3>5. CASE call[d].Caller = f
      <4>1. Above(e) = {d}
        BY <3>1, <3>4, <3>5, <1>5
      <4>2. SumFunctionOnSet(edgeWeight, {d}) = edgeWeight[d]
        <5>1. d \in {d} /\ IsFiniteSet({d}) /\ {d} \ {d} = {} /\ \A y \in {d} : edgeWeight[y] \in Nat
          BY <3>3, FS_Singleton
        <5>2. SumFunctionOnSet(edgeWeight, {d}) = edgeWeight[d] + SumFunctionOnSet(edgeWeight, {d} \ {d})
          BY <5>1, SumRemove
        <5>3. QED
          BY <5>1, <5>2, <3>3, SumEmpty
      <4>3. \A c \in Final : ~ Handed(c, e)
        BY <3>4, <3>5, <1>16 DEF Handed
      <4>4. edgeWeight[e] = Base(e)
        BY <4>3, <1>1 DEF Carried, Carrying
      <4>5. QED
        BY <4>1, <4>2, <4>4, <3>2, <1>3, <3>3
    <3>6. CASE call[d].Caller # f
      <4>1. Above(e) = {}
        BY <3>4, <3>6, <1>5
      <4>2. Handed(d, e)
        BY <3>1, <3>6 DEF Handed
      <4>3. edgeWeight[e] = Base(e) + edgeWeight[d]
        BY <4>2, <1>1 DEF Carried, Carrying
      <4>4. edgeWeight'[e] = edgeWeight[e] + 0
        BY <4>1, <1>3, <3>3, SumEmpty
      <4>5. QED
        BY <4>3, <4>4, <3>2, <3>3
    <3>7. QED
      BY <3>5, <3>6
  <2>3. ASSUME NEW d \in Final, Walked(call[d].Caller)', IsLeaf(call[d].Callee)
        PROVE  pathType'[d] # "Default"
    <3>1. d \in Edges
      BY CallFacts
    <3>2. Walked(call[d].Caller) \/ call[d].Caller = f
      BY <2>3, <1>1, <1>15 DEF Walked
    <3>3. CASE Walked(call[d].Caller)
      BY <3>1, <3>3, <2>3, <1>1, <1>10 DEF Carried, Carrying
    <3>4. CASE call[d].Caller = f
      BY <3>1, <3>4, <2>3, <1>4, <1>5
    <3>5. QED
      BY <3>2, <3>3, <3>4
  <2>4. /\ Final' = Final
        /\ \A d \in Final : IsLeaf(call[d].Callee)' <=> IsLeaf(call[d].Callee)
    BY <1>1, SameCalls DEF IsLeaf, FinalCalleeMap
  <2>5. /\ \A e \in Final : (\A d \in Final : ~ Handed(d, e)') => edgeWeight'[e] = Base(e)'
        /\ \A d, e \in Final : Handed(d, e)' => edgeWeight'[e] = Base(e)' + edgeWeight'[d]
        /\ \A d \in Final : Walked(call[d].Caller)' /\ IsLeaf(call[d].Callee)'
                              => pathType'[d] # "Default"
    BY <1>12, <2>1, <2>2, <2>3, <2>4
  <2>6. QED
    BY <2>4, <2>5 DEF Carried
<1>22. QED
  BY <1>7, <1>8, <1>9, <1>11, <1>13, <1>21

LEMMA CarryDoneStep ==
    ASSUME WeightsInv, CarryDone
    PROVE  WeightsInv'
<1> USE DEF WeightsInv
<1>1. /\ phase = "carry" /\ phase' = "instrument" /\ place = 0
      /\ UNCHANGED <<call, pathType, edgeWeight, leftFunctions, count, order, place,
                     outbound, added>>
  BY DEF CarryDone
<1>2. TypeOK'
  BY <1>1 DEF TypeOK, Phases
<1>3. CallsGiven' /\ OrderOnce' /\ Counted' /\ CalleesBelow'
  BY <1>1, SortedStays
<1>4. Stages' /\ AddedOnce'
  BY <1>1 DEF Stages, AddedOnce, Weighing
<1>5. OnlyCall'
  BY <1>1, SameCalls DEF OnlyCall
<1>6. Weighed'
  BY <1>1, SameCalls DEF Weighed, Carrying, Rooms
<1>7. Carried'
  BY <1>1, SameCalls
     DEF Carried, Carrying, Handed, Walked, IsLeaf, FinalCalleeMap, Base, Rooms
<1>8. QED
  BY <1>2, <1>3, <1>4, <1>5, <1>6, <1>7

\* An instruction adds the weight of its first marked call.
LEMMA InstrumentStep ==
    ASSUME WeightsInv, Instrument
    PROVE  WeightsInv'
<1> USE DEF WeightsInv
<1>1. /\ phase = "instrument" /\ phase' = "done" /\ place' = 0 /\ place = 0
      /\ UNCHANGED <<call, pathType, edgeWeight, leftFunctions, count, order, place, outbound>>
      /\ added' = [i \in Edges |-> IF Instrumented(i) = {} THEN 0
                                   ELSE edgeWeight[Min(Instrumented(i))]]
  BY DEF Instrument, Stages
<1>2. \A i : Instrumented(i) # {} => Min(Instrumented(i)) \in Instrumented(i)
  <2> TAKE i
  <2> SUFFICES ASSUME Instrumented(i) # {} PROVE Min(Instrumented(i)) \in Instrumented(i)
    OBVIOUS
  <2>1. Instrumented(i) \subseteq Nat
    BY CallFacts DEF Instrumented
  <2>2. \E x \in Instrumented(i) : \A y \in Instrumented(i) : x <= y
    BY <2>1, LeastNatural
  <2>3. QED
    BY <2>2 DEF Min
<1>3. TypeOK'
  <2>1. \A i \in Edges : added'[i] \in Nat
    <3> TAKE i \in Edges
    <3>1. Instrumented(i) # {} => Min(Instrumented(i)) \in Edges
      BY <1>2, CallFacts DEF Instrumented
    <3>2. Instrumented(i) # {} => edgeWeight[Min(Instrumented(i))] \in Nat
      BY <3>1 DEF TypeOK
    <3>3. QED
      BY <3>2, <1>1
  <2>2. added' \in [Edges -> Nat]
    BY <2>1, <1>1
  <2>3. QED
    BY <1>1, <2>2 DEF TypeOK, Phases
<1>4. CallsGiven' /\ OrderOnce' /\ Counted' /\ CalleesBelow'
  BY <1>1, SortedStays
<1>5. Stages'
  BY <1>1 DEF Stages, Weighing
<1>6. OnlyCall'
  BY <1>1, SameCalls DEF OnlyCall
<1>7. Weighed'
  BY <1>1, SameCalls DEF Weighed, Carrying, Rooms
<1>8. Carried'
  BY <1>1, SameCalls
     DEF Carried, Carrying, Handed, Walked, IsLeaf, FinalCalleeMap, Base, Rooms
<1>9. AddedOnce'
  <2> SUFFICES ASSUME NEW e \in Final, ~ HasOthers(e)
               PROVE  added'[call[e].call_inst] =
                        IF pathType[e] = "Default" THEN 0 ELSE edgeWeight[e]
    BY <1>1, SameCalls DEF AddedOnce
  <2> DEFINE i == call[e].call_inst
  <2>1. i \in Edges
    BY CallFacts DEF CallsGiven
  <2>2. Instrumented(i) \subseteq {e}
    BY CallFacts DEF Instrumented, HasOthers
  <2>3. e \in Instrumented(i) <=> pathType[e] # "Default"
    BY DEF Instrumented
  <2>4. CASE pathType[e] = "Default"
    BY <2>1, <2>2, <2>3, <2>4, <1>1
  <2>5. CASE pathType[e] # "Default"
    <3>1. Min(Instrumented(i)) = e /\ Instrumented(i) # {}
      BY <2>2, <2>3, <2>5, <1>2
    <3>2. QED
      BY <3>1, <2>1, <2>5, <1>1
  <2>6. QED
    BY <2>4, <2>5
<1>10. QED
  BY <1>3, <1>4, <1>5, <1>6, <1>7, <1>8, <1>9

\* Every step keeps the invariant.
LEMMA WeightsStep == WeightsInv /\ [Next]_vars => WeightsInv'
<1> SUFFICES ASSUME WeightsInv, [Next]_vars PROVE WeightsInv'
  OBVIOUS
<1>1. CASE ConstructFinalCFG
  BY <1>1, CfgStep
<1>2. ASSUME NEW f \in Relevant, Eliminate(f) PROVE WeightsInv'
  BY <1>2, EliminateStep
<1>3. CASE SortFails
  BY <1>3, SortFailsStep
<1>4. CASE SortDone
  BY <1>4, SortDoneStep
<1>5. CASE Weigh
  BY <1>5, WeighStep
<1>6. CASE WeighDone
  BY <1>6, WeighDoneStep
<1>7. CASE Carry
  BY <1>7, CarryStep
<1>8. CASE CarryDone
  BY <1>8, CarryDoneStep
<1>9. CASE Instrument
  BY <1>9, InstrumentStep
<1>10. CASE UNCHANGED vars
  <2> USE DEF WeightsInv
  <2>1. UNCHANGED <<phase, call, pathType, edgeWeight, leftFunctions, count, order, place,
                    outbound, added>>
    BY <1>10 DEF vars
  <2>2. TypeOK' /\ CallsGiven' /\ OrderOnce' /\ Counted' /\ Stages'
    BY <2>1, SameCalls DEF TypeOK, OrderOnce, Counted, CallsLeft, FinalCalleeMap, Stages
  <2>3. CalleesBelow' /\ OnlyCall' /\ AddedOnce'
    BY <2>1, SameCalls DEF CalleesBelow, FinalCalleeMap, OnlyCall, AddedOnce
  <2>4. Weighed'
    <3>1. Rooms' = Rooms /\ \A e : Base(e)' = Base(e)
      BY <2>1, SameCalls DEF Rooms, Base
    <3>2. QED
      BY <2>1, <3>1, SameCalls DEF Weighed, FinalCalleeMap
  <2>5. Carried'
    BY <2>1, SameCalls
       DEF Carried, Carrying, Handed, Walked, IsLeaf, FinalCalleeMap, Base, Rooms
  <2>6. QED
    BY <2>2, <2>3, <2>4, <2>5
<1>11. QED
  BY <1>1, <1>2, <1>3, <1>4, <1>5, <1>6, <1>7, <1>8, <1>9, <1>10 DEF Next, Ended

-----------------------------------------------------------------------------
(* The theorems about the sort.                                            *)

THEOREM WeightsInvariant == Spec => []WeightsInv
<1>1. QED
  BY WeightsInit, WeightsStep, PTL DEF Spec

\* Every variable of the pass keeps its shape.
THEOREM WeightsTypes == Spec => []TypeOK
<1>1. WeightsInv => TypeOK
  BY DEF WeightsInv
<1>2. QED
  BY <1>1, WeightsInvariant, PTL

\* ComputeEdgeWeight weighs a function after all it calls, whatever function with
\* count zero it takes next.
THEOREM OrderedCalleesFirst == Spec => []CalleesFirst
<1>1. WeightsInv => CalleesFirst
  <2> SUFFICES ASSUME WeightsInv, NEW i \in DOMAIN order, NEW j \in DOMAIN order,
                      NEW e \in Final, call[e].Caller = order[i], call[e].Callee = order[j]
               PROVE  j < i
    BY DEF CalleesFirst
  <2> USE DEF WeightsInv
  <2>1. i \in 1 .. Len(order) /\ j \in 1 .. Len(order) /\ Len(order) \in Nat
    BY DEF TypeOK
  <2>2. PICK k \in 1 .. i - 1 : order[k] = call[e].Callee
    BY <2>1, CallFacts DEF CalleesBelow
  <2>3. k \in 1 .. Len(order) /\ k < i
    BY <2>1, <2>2
  <2>4. k = j
    BY <2>1, <2>2, <2>3 DEF OrderOnce
  <2>5. QED
    BY <2>3, <2>4
<1>2. QED
  BY <1>1, WeightsInvariant, PTL

\* The error exit of ComputeEdgeWeight is taken only when every function left
\* calls another one that is left.
THEOREM SortFailsOnCycles == Spec => []FailsOnlyOnCycles
<1>1. WeightsInv => FailsOnlyOnCycles
  <2> SUFFICES ASSUME WeightsInv, phase = "exit", NEW f \in leftFunctions
               PROVE  \E e \in FinalCalleeMap(f) : call[e].Callee \in leftFunctions
    BY DEF FailsOnlyOnCycles
  <2> USE DEF WeightsInv
  <2>1. count[f] # 0 /\ count[f] = Cardinality(CallsLeft(f))
    BY DEF Stages, Counted
  <2>2. CallsLeft(f) # {}
    BY <2>1, FS_EmptySet
  <2>3. QED
    BY <2>2 DEF CallsLeft
<1>2. QED
  BY <1>1, WeightsInvariant, PTL

-----------------------------------------------------------------------------
(* Call paths and their ids.                                               *)

\* A chain of calls from a function without callers, and one to an allocation.
IsChain(p) ==
    /\ p \in Seq(Final) /\ p # <<>> /\ FinalCallerMap(call[p[1]].Caller) = {}
    /\ \A k \in 1 .. Len(p) - 1 : call[p[k + 1]].Caller = call[p[k]].Callee
IsPath(p) == IsChain(p) /\ call[p[Len(p)]].Callee \in HMFs

\* The chains with up to k more calls than one.
Roots == {f \in Relevant : FinalCallerMap(f) = {}}
Longer(p) == {Append(p, e) : e \in FinalCalleeMap(call[Last(p)].Callee)}
ChainsTo(C, k) ==
    C = [n \in 0 .. k |->
           IF n = 0 THEN {<<e>> : e \in {d \in Final : call[d].Caller \in Roots}}
           ELSE C[n - 1] \cup UNION {Longer(p) : p \in C[n - 1]}]

LEMMA ChainsExist == ASSUME NEW k \in Nat PROVE \E C : ChainsTo(C, k)
<1> DEFINE Bad == {n \in Nat : ~ \E C : ChainsTo(C, n)}
<1>1. SUFFICES ASSUME Bad # {} PROVE FALSE
  OBVIOUS
<1>2. PICK n \in Bad : \A m \in Bad : n <= m
  <2>1. Bad \subseteq Nat
    OBVIOUS
  <2> HIDE DEF Bad
  <2>2. QED
    BY <1>1, <2>1, LeastNatural
<1>3. n \in Nat /\ n # 0
  <2> DEFINE First == {<<e>> : e \in {d \in Final : call[d].Caller \in Roots}}
  <2>1. ChainsTo([i \in 0 .. 0 |-> First], 0)
    BY DEF ChainsTo
  <2>2. QED
    BY <1>2, <2>1
<1>4. n - 1 \in Nat /\ ~ (n <= n - 1)
  BY <1>3
<1>5. PICK C : ChainsTo(C, n - 1)
  <2>1. n - 1 \notin Bad
    <3> HIDE DEF Bad
    <3>1. QED
      BY <1>2, <1>4
  <2>2. QED
    BY <2>1, <1>4
<1> DEFINE D == [i \in 0 .. n |-> IF i = n THEN C[n - 1] \cup UNION {Longer(p) : p \in C[n - 1]}
                                  ELSE C[i]]
           First == {<<e>> : e \in {d \in Final : call[d].Caller \in Roots}}
<1>6. ASSUME NEW i \in 0 .. n
      PROVE  D[i] = IF i = 0 THEN First ELSE D[i - 1] \cup UNION {Longer(p) : p \in D[i - 1]}
  <2> HIDE DEF First
  <2>1. CASE i = n
    <3>1. i - 1 \in 0 .. n /\ i - 1 # n /\ i # 0
      BY <2>1, <1>3
    <3>2. D[i - 1] = C[n - 1]
      BY <3>1, <2>1
    <3>3. QED
      BY <3>1, <3>2, <2>1
  <2>2. CASE i # n
    <3>1. i \in 0 .. n - 1 /\ (i # 0 => i - 1 \in 0 .. n /\ i - 1 # n)
      BY <2>2, <1>3
    <3>2. C[i] = IF i = 0 THEN First ELSE C[i - 1] \cup UNION {Longer(p) : p \in C[i - 1]}
      BY <3>1, <1>5 DEF ChainsTo, First
    <3>3. D[i] = C[i] /\ (i # 0 => D[i - 1] = C[i - 1])
      BY <3>1, <2>2
    <3>4. QED
      BY <3>2, <3>3
  <2>3. QED
    BY <2>1, <2>2
<1>7. ChainsTo(D, n)
  BY <1>6 DEF ChainsTo
<1>8. QED
  BY <1>2, <1>7

\* One more call makes a chain longer.
LEMMA ChainExtends ==
    ASSUME NEW p, IsChain(p), NEW e \in FinalCalleeMap(call[Last(p)].Callee)
    PROVE  IsChain(Append(p, e))
<1> DEFINE n == Len(p)
           q == Append(p, e)
<1>1. p \in Seq(Final) /\ n \in Nat \ {0} /\ e \in Final /\ Last(p) = p[n]
  BY CallFacts DEF IsChain, Last
<1>2. /\ q \in Seq(Final) /\ Len(q) = n + 1 /\ q[n + 1] = e
      /\ \A i \in 1 .. n : q[i] = p[i]
  BY <1>1
<1> HIDE DEF q
<1>3. q # <<>> /\ q[1] = p[1]
  BY <1>1, <1>2
<1>4. ASSUME NEW k \in 1 .. n PROVE call[q[k + 1]].Caller = call[q[k]].Callee
  <2>1. CASE k = n
    BY <2>1, <1>1, <1>2, CallFacts
  <2>2. CASE k # n
    <3>1. k \in 1 .. n - 1 /\ k + 1 \in 1 .. n /\ k \in 1 .. n
      BY <2>2, <1>1
    <3>2. QED
      BY <3>1, <1>2 DEF IsChain
  <2>3. QED
    BY <2>1, <2>2
<1>5. \A k \in 1 .. Len(q) - 1 : k \in 1 .. n
  BY <1>1, <1>2
<1>6. QED
  BY <1>2, <1>3, <1>4, <1>5 DEF IsChain, q

\* Chains holds such chains, and Paths such paths.
LEMMA PathFacts == \A p \in Paths : IsPath(p)
<1>0. EdgeN \in Nat
  BY WeightsAssumption
<1>1. Chains = (CHOOSE C : ChainsTo(C, EdgeN))[EdgeN]
  BY DEF Chains, ChainsTo, Roots, Longer
<1>2. PICK C : ChainsTo(C, EdgeN) /\ Chains = C[EdgeN]
  BY <1>0, <1>1, ChainsExist
<1> DEFINE Bad == {n \in Nat : n <= EdgeN /\ ~ \A p \in C[n] : IsChain(p)}
<1>3. ASSUME Bad # {} PROVE FALSE
  <2>1. PICK n \in Bad : \A m \in Bad : n <= m
    <3>1. Bad \subseteq Nat
      OBVIOUS
    <3> HIDE DEF Bad
    <3>2. QED
      BY <1>3, <3>1, LeastNatural
  <2>2. n \in 0 .. EdgeN /\ n \in Nat
    BY <1>0, <2>1
  <2>3. PICK p \in C[n] : ~ IsChain(p)
    BY <2>1
  <2>4. C[n] = IF n = 0 THEN {<<e>> : e \in {d \in Final : call[d].Caller \in Roots}}
               ELSE C[n - 1] \cup UNION {Longer(q) : q \in C[n - 1]}
    BY <1>2, <2>2 DEF ChainsTo
  <2>5. CASE n = 0
    <3>1. PICK e \in Final : call[e].Caller \in Roots /\ p = <<e>>
      BY <2>3, <2>4, <2>5
    <3>2. p \in Seq(Final) /\ p # <<>> /\ Len(p) = 1 /\ p[1] = e
      BY <3>1
    <3>3. IsChain(p)
      BY <3>1, <3>2 DEF IsChain, Roots
    <3>4. QED
      BY <2>3, <3>3
  <2>6. CASE n # 0
    <3>1. n - 1 \in Nat /\ n - 1 <= EdgeN /\ ~ (n <= n - 1)
      BY <2>2, <2>6, <1>0
    <3>2. \A q \in C[n - 1] : IsChain(q)
      <4>1. n - 1 \notin Bad
        <5> HIDE DEF Bad
        <5>1. QED
          BY <2>1, <3>1
      <4>2. QED
        BY <3>1, <4>1
    <3>3. PICK q \in C[n - 1] : p \in Longer(q)
      BY <2>3, <2>4, <2>6, <3>2
    <3>4. IsChain(p)
      BY <3>2, <3>3, ChainExtends DEF Longer
    <3>5. QED
      BY <2>3, <3>4
  <2>7. QED
    BY <2>5, <2>6
<1>4. EdgeN \notin Bad
  <2> HIDE DEF Bad
  <2>1. QED
    BY <1>3
<1>5. \A p \in Chains : IsChain(p)
  BY <1>0, <1>2, <1>4
<1>6. QED
  BY <1>5 DEF Paths, IsPath, Last

\* The sum of the first k values, for the sums along a path.
LEMMA SumUpto ==
    ASSUME NEW w, NEW k \in Nat, \A i \in 1 .. k + 1 : w[i] \in Nat
    PROVE  /\ SumFunctionOnSet(w, 1 .. k) \in Nat
           /\ SumFunctionOnSet(w, 1 .. k + 1) = SumFunctionOnSet(w, 1 .. k) + w[k + 1]
<1> DEFINE S == 1 .. k
           x == k + 1
<1>1. IsFiniteSet(S)
  BY FS_Interval
<1>2. x \notin S /\ S \cup {x} = 1 .. k + 1
  OBVIOUS
<1>3. \A y \in S \cup {x} : w[y] \in Nat
  BY <1>2
<1>4. SumFunctionOnSet(w, S) \in Nat
  BY <1>1, <1>3, SumType
<1> HIDE DEF S, x
<1>5. SumFunctionOnSet(w, S \cup {x}) = SumFunctionOnSet(w, S) + w[x]
  BY <1>1, <1>2, <1>3, SumAdd
<1>6. QED
  BY <1>2, <1>4, <1>5 DEF S, x

\* What the pass ends with, for a state of the invariant.
Ready ==
    WeightsInv /\ phase = "done"

\* Base weights along a path, and what its instructions add.
Bases(p) == [k \in 1 .. Len(p) |-> Base(p[k])]
Adds(p) == [k \in 1 .. Len(p) |-> added[call[p[k]].call_inst]]
UptoBase(p, k) == SumFunctionOnSet(Bases(p), 1 .. k)
UptoAdded(p, k) == SumFunctionOnSet(Adds(p), 1 .. k)

LEMMA ReadyFacts ==
    ASSUME Ready
    PROVE  /\ \A f \in Relevant : Walked(f)
           /\ \A f \in Relevant : outbound[f] = SumFunctionOnSet(Rooms, FinalCalleeMap(f))
           /\ \A e \in Final : edgeWeight[e] \in Nat /\ Base(e) \in Nat
           /\ \A e \in Final : added[call[e].call_inst] \in Nat
<1> USE DEF Ready, WeightsInv
<1>1. leftFunctions = {} /\ place = 0
  BY DEF Stages, Weighing
<1>2. \A f \in Relevant : Walked(f)
  BY <1>1, AllOrdered DEF Walked
<1>3. \A f \in Relevant : outbound[f] = SumFunctionOnSet(Rooms, FinalCalleeMap(f))
  BY DEF Weighed, Carrying
<1>4. \A e \in Final : edgeWeight[e] \in Nat /\ Base(e) \in Nat
  BY CallFacts, RoomFacts DEF TypeOK
<1>5. \A e \in Final : call[e].call_inst \in Edges
  BY CallFacts DEF CallsGiven
<1>6. \A e \in Final : added[call[e].call_inst] \in Nat
  BY <1>5 DEF TypeOK
<1>7. QED
  BY <1>2, <1>3, <1>4, <1>6

LEMMA ChainFacts ==
    ASSUME Ready, NEW p, IsChain(p)
    PROVE  /\ Len(p) \in Nat \ {0} /\ \A k \in 1 .. Len(p) : p[k] \in Final /\ k \in Nat
           /\ \A k \in 1 .. Len(p) : Bases(p)[k] = Base(p[k]) /\ Bases(p)[k] \in Nat
           /\ \A k \in 1 .. Len(p) : /\ Adds(p)[k] = added[call[p[k]].call_inst]
                                     /\ Adds(p)[k] \in Nat
           /\ UptoBase(p, 0) = 0 /\ UptoAdded(p, 0) = 0
           /\ \A k \in 1 .. Len(p) :
                /\ UptoBase(p, k - 1) \in Nat /\ UptoAdded(p, k - 1) \in Nat
                /\ UptoBase(p, k) = UptoBase(p, k - 1) + Base(p[k])
                /\ UptoAdded(p, k) = UptoAdded(p, k - 1) + added[call[p[k]].call_inst]
<1>1. p \in Seq(Final) /\ p # <<>>
  BY DEF IsChain
<1>2. Len(p) \in Nat \ {0} /\ \A k \in 1 .. Len(p) : p[k] \in Final /\ k \in Nat
  BY <1>1
<1>3. \A k \in 1 .. Len(p) : Bases(p)[k] = Base(p[k]) /\ Bases(p)[k] \in Nat
  BY <1>2, ReadyFacts DEF Bases
<1>4. \A k \in 1 .. Len(p) : /\ Adds(p)[k] = added[call[p[k]].call_inst]
                             /\ Adds(p)[k] \in Nat
  BY <1>2, ReadyFacts DEF Adds
<1>5. UptoBase(p, 0) = 0 /\ UptoAdded(p, 0) = 0
  <2>1. 1 .. 0 = {}
    OBVIOUS
  <2>2. QED
    BY <2>1, SumEmpty DEF UptoBase, UptoAdded
<1>6. ASSUME NEW k \in 1 .. Len(p)
      PROVE  /\ UptoBase(p, k - 1) \in Nat /\ UptoAdded(p, k - 1) \in Nat
             /\ UptoBase(p, k) = UptoBase(p, k - 1) + Base(p[k])
             /\ UptoAdded(p, k) = UptoAdded(p, k - 1) + added[call[p[k]].call_inst]
  <2> DEFINE m == k - 1
             b == Bases(p)
             a == Adds(p)
  <2>1. m \in Nat /\ m + 1 = k /\ \A i \in 1 .. m + 1 : i \in 1 .. Len(p)
    BY <1>2
  <2>2. \A i \in 1 .. m + 1 : b[i] \in Nat /\ a[i] \in Nat
    BY <2>1, <1>3, <1>4
  <2> HIDE DEF m, b, a
  <2>3. /\ SumFunctionOnSet(b, 1 .. m) \in Nat
        /\ SumFunctionOnSet(b, 1 .. m + 1) = SumFunctionOnSet(b, 1 .. m) + b[m + 1]
    BY <2>1, <2>2, SumUpto
  <2>4. /\ SumFunctionOnSet(a, 1 .. m) \in Nat
        /\ SumFunctionOnSet(a, 1 .. m + 1) = SumFunctionOnSet(a, 1 .. m) + a[m + 1]
    BY <2>1, <2>2, SumUpto
  <2>5. b[k] = Base(p[k]) /\ a[k] = added[call[p[k]].call_inst]
    BY <1>3, <1>4 DEF a, b
  <2>6. /\ SumFunctionOnSet(b, 1 .. k) = SumFunctionOnSet(b, 1 .. m) + Base(p[k])
        /\ SumFunctionOnSet(a, 1 .. k) = SumFunctionOnSet(a, 1 .. m) + added[call[p[k]].call_inst]
    BY <2>1, <2>3, <2>4, <2>5
  <2>7. QED
    BY <2>3, <2>4, <2>6 DEF m, b, a, UptoBase, UptoAdded
<1>7. QED
  BY <1>2, <1>3, <1>4, <1>5, <1>6

\* Carrying weights on changes where they are added, not what a path adds up to:
\* what is missing after k calls is the weight the next call was handed.
LEMMA Telescopes ==
    ASSUME Ready, NEW p, IsChain(p), \A k \in 1 .. Len(p) : ~ HasOthers(p[k])
    PROVE  \A k \in 1 .. Len(p) :
             UptoBase(p, k) = UptoAdded(p, k) +
                 (IF pathType[p[k]] = "Default" THEN edgeWeight[p[k]] ELSE 0)
<1> DEFINE Missing(k) == IF pathType[p[k]] = "Default" THEN edgeWeight[p[k]] ELSE 0
           Fits(k) == UptoBase(p, k) = UptoAdded(p, k) + Missing(k)
           n == Len(p)
           Bad == {k \in 1 .. n : ~ Fits(k)}
<1>1. /\ n \in Nat \ {0} /\ \A k \in 1 .. n : p[k] \in Final /\ k \in Nat
      /\ UptoBase(p, 0) = 0 /\ UptoAdded(p, 0) = 0
      /\ \A k \in 1 .. n :
           /\ UptoBase(p, k - 1) \in Nat /\ UptoAdded(p, k - 1) \in Nat
           /\ UptoBase(p, k) = UptoBase(p, k - 1) + Base(p[k])
           /\ UptoAdded(p, k) = UptoAdded(p, k - 1) + added[call[p[k]].call_inst]
  BY ChainFacts
<1> HIDE DEF n
<1>2. \A k \in 1 .. n : added[call[p[k]].call_inst] =
          IF pathType[p[k]] = "Default" THEN 0 ELSE edgeWeight[p[k]]
  BY <1>1 DEF Ready, WeightsInv, AddedOnce, n
<1>3. \A k \in 1 .. n : edgeWeight[p[k]] \in Nat /\ Base(p[k]) \in Nat
  BY <1>1, ReadyFacts
\* What a call adds and what it hands on is its weight.
<1>4. ASSUME NEW k \in 1 .. n
      PROVE  UptoAdded(p, k) + Missing(k) = UptoAdded(p, k - 1) + edgeWeight[p[k]]
  BY <1>1, <1>2, <1>3
<1>5. SUFFICES ASSUME Bad # {} PROVE FALSE
  BY DEF n
<1>6. PICK k \in Bad : \A m \in Bad : k <= m
  <2>1. Bad \subseteq Nat
    BY <1>1
  <2> HIDE DEF Bad
  <2>2. QED
    BY <1>5, <2>1, LeastNatural
<1>7. k \in 1 .. n /\ k \in Nat /\ ~ Fits(k)
  BY <1>1, <1>6
<1>8. CASE k = 1
  <2>1. p[k] \in Final /\ FinalCallerMap(call[p[k]].Caller) = {}
    BY <1>1, <1>7, <1>8 DEF IsChain
  <2>2. \A d \in Final : ~ Handed(d, p[k])
    BY <2>1, CallFacts DEF Handed
  <2>3. edgeWeight[p[k]] = Base(p[k])
    BY <2>1, <2>2 DEF Ready, WeightsInv, Carried, Carrying
  <2>4. k - 1 = 0
    BY <1>8
  <2>5. QED
    BY <2>3, <2>4, <1>1, <1>4, <1>7
<1>9. CASE k # 1
  <2> DEFINE j == k - 1
  <2>1. /\ j \in 1 .. n /\ ~ (k <= j) /\ j + 1 = k /\ j \in 1 .. n - 1
        /\ p[j] \in Final /\ p[k] \in Final
    BY <1>1, <1>7, <1>9
  <2>2. Fits(j)
    <3> HIDE DEF Fits
    <3>1. j \notin Bad
      <4> HIDE DEF Bad
      <4>1. QED
        BY <1>6, <2>1
    <3>2. QED
      BY <3>1, <2>1
  <2>3. call[p[k]].Caller = call[p[j]].Callee
    BY <2>1 DEF IsChain, n
  <2>4. edgeWeight[p[k]] = Base(p[k]) + Missing(j)
    <3>1. CASE pathType[p[j]] = "Default"
      <4>1. Handed(p[j], p[k])
        BY <2>1, <2>3, <3>1, CallFacts, ReadyFacts DEF Handed
      <4>2. edgeWeight[p[k]] = Base(p[k]) + edgeWeight[p[j]]
        BY <2>1, <4>1 DEF Ready, WeightsInv, Carried, Carrying
      <4>3. QED
        BY <4>2, <3>1
    <3>2. CASE pathType[p[j]] # "Default"
      <4>1. \A d \in Final : ~ Handed(d, p[k])
        BY <2>1, <2>3, <3>2 DEF Handed, Ready, WeightsInv, OnlyCall
      <4>2. edgeWeight[p[k]] = Base(p[k])
        BY <2>1, <4>1 DEF Ready, WeightsInv, Carried, Carrying
      <4>3. QED
        BY <4>2, <3>2, <2>1, <1>3, <1>7
    <3>3. QED
      BY <3>1, <3>2
  <2>5. Missing(j) \in Nat
    BY <2>1, <1>3
  <2>6. UptoBase(p, j) = UptoAdded(p, j) + Missing(j)
    BY <2>2
  <2>7. /\ UptoBase(p, k) = UptoBase(p, j) + Base(p[k])
        /\ UptoAdded(p, k) + Missing(k) = UptoAdded(p, j) + edgeWeight[p[k]]
        /\ UptoAdded(p, j) \in Nat /\ UptoBase(p, j) \in Nat /\ Base(p[k]) \in Nat
    BY <1>1, <1>3, <1>4, <1>7
  <2> HIDE DEF j, Missing
  <2>8. UptoBase(p, k) = UptoAdded(p, k) + Missing(k)
    BY <2>4, <2>5, <2>6, <2>7
  <2>9. QED
    BY <2>8, <1>7 DEF Missing
<1>10. QED
  BY <1>8, <1>9

\* At the end of a path to an allocation nothing is missing.
LEMMA AddsBase ==
    ASSUME Ready, NEW p, IsPath(p), \A k \in 1 .. Len(p) : ~ HasOthers(p[k])
    PROVE  UptoAdded(p, Len(p)) = UptoBase(p, Len(p))
<1> DEFINE n == Len(p)
<1>1. IsChain(p) /\ n \in 1 .. n /\ p[n] \in Final /\ call[p[n]].Callee \in HMFs
  BY ChainFacts DEF IsPath
<1>2. IsLeaf(call[p[n]].Callee)
  <2>1. \A e \in Final : call[e].Caller \notin HMFs
    BY CallFacts DEF Ready, WeightsInv, CallsGiven
  <2> HIDE DEF n
  <2>2. QED
    BY <1>1, <2>1 DEF IsLeaf, FinalCalleeMap
<1>3. pathType[p[n]] # "Default"
  BY <1>1, <1>2, CallFacts, ReadyFacts DEF Ready, WeightsInv, Carried, Carrying
<1>4. UptoBase(p, n) = UptoAdded(p, n) + 0
  BY <1>1, <1>3, Telescopes
<1>5. UptoAdded(p, n) \in Nat
  <2>1. UptoAdded(p, n) = UptoAdded(p, n - 1) + added[call[p[n]].call_inst]
        /\ UptoAdded(p, n - 1) \in Nat /\ added[call[p[n]].call_inst] \in Nat
    BY <1>1, ChainFacts, ReadyFacts
  <2>2. QED
    BY <2>1
<1>6. QED
  BY <1>4, <1>5

\* The weights of a function's calls leave room for each other's paths.
LEMMA RoomAbove ==
    ASSUME Ready, NEW d \in Final
    PROVE  /\ Rooms[d] \in Nat \ {0} /\ Rooms[d] > outbound[call[d].Callee]
           /\ outbound[call[d].Callee] \in Nat
           /\ Base(d) + Rooms[d] <= outbound[call[d].Caller]
           /\ \A e \in Final : call[e].Caller = call[d].Caller /\ d < e
                                 => Base(d) + Rooms[d] <= Base(e)
<1> DEFINE f == call[d].Caller
           S == Before(d)
<1>1. f \in Relevant /\ call[d].Callee \in Relevant /\ d \in FinalCalleeMap(f) /\ d \in Edges
  BY CallFacts
<1>2. IsFiniteSet(FinalCalleeMap(f)) /\ \A e \in FinalCalleeMap(f) : Rooms[e] \in Nat
  BY CallFacts, RoomFacts DEF Ready, WeightsInv
<1>3. S \subseteq FinalCalleeMap(f) /\ d \notin S /\ IsFiniteSet(S)
  <2>1. S \in SUBSET FinalCalleeMap(f)
    BY DEF Before
  <2>2. d \notin S
    BY <1>1, CallFacts DEF Before
  <2>3. QED
    BY <1>2, <2>1, <2>2, FS_Subset
<1>4. SumFunctionOnSet(Rooms, S \cup {d}) = Base(d) + Rooms[d]
  <2>1. \A e \in S \cup {d} : Rooms[e] \in Nat
    BY <1>1, <1>2, <1>3
  <2> HIDE DEF S
  <2>2. SumFunctionOnSet(Rooms, S \cup {d}) = SumFunctionOnSet(Rooms, S) + Rooms[d]
    BY <1>3, <2>1, SumAdd
  <2>3. QED
    BY <2>2 DEF Base, S
<1>5. Base(d) + Rooms[d] <= outbound[f]
  <2>1. S \cup {d} \in SUBSET FinalCalleeMap(f)
    BY <1>1, <1>3
  <2>2. SumFunctionOnSet(Rooms, S \cup {d}) <= SumFunctionOnSet(Rooms, FinalCalleeMap(f))
    BY <1>2, <2>1, SumMonotone
  <2>3. QED
    BY <1>1, <1>4, <2>2, ReadyFacts
<1>6. ASSUME NEW e \in Final, call[e].Caller = f, d < e
      PROVE  Base(d) + Rooms[d] <= Base(e)
  <2>1. IsFiniteSet(Before(e)) /\ Before(e) \in SUBSET FinalCalleeMap(f)
    <3>1. Before(e) \in SUBSET FinalCalleeMap(f)
      BY <1>6 DEF Before
    <3>2. QED
      BY <1>2, <3>1, FS_Subset
  <2>2. S \cup {d} \in SUBSET Before(e)
    <3>1. \A c \in S : c < e
      <4>1. \A c \in S : c \in Nat /\ c < d
        BY <1>3, CallFacts DEF Before
      <4>2. d \in Nat /\ e \in Nat
        BY CallFacts
      <4>3. QED
        BY <4>1, <4>2, <1>6
    <3>2. QED
      BY <3>1, <1>1, <1>3, <1>6 DEF Before
  <2>3. \A c \in Before(e) : Rooms[c] \in Nat
    BY <1>2, <2>1
  <2>4. SumFunctionOnSet(Rooms, S \cup {d}) <= SumFunctionOnSet(Rooms, Before(e))
    BY <2>1, <2>2, <2>3, SumMonotone
  <2>5. QED
    BY <2>4, <1>4 DEF Base
<1>7. Rooms[d] \in Nat \ {0} /\ Rooms[d] > outbound[call[d].Callee]
  BY RoomFacts DEF Ready, WeightsInv
<1>8. outbound[call[d].Callee] \in Nat
  BY <1>1 DEF Ready, WeightsInv, TypeOK
<1>9. QED
  BY <1>5, <1>6, <1>7, <1>8

\* From any call of a chain on, the weights stay below what that call has room for.
LEMMA TailFits ==
    ASSUME Ready, NEW p, IsChain(p)
    PROVE  \A k \in 1 .. Len(p) :
             UptoBase(p, Len(p)) < UptoBase(p, k - 1) + Base(p[k]) + Rooms[p[k]]
<1> DEFINE n == Len(p)
           Fits(k) == UptoBase(p, n) < UptoBase(p, k - 1) + Base(p[k]) + Rooms[p[k]]
           Bad == {m \in 0 .. n - 1 : ~ Fits(n - m)}
<1>1. /\ n \in Nat \ {0} /\ \A k \in 1 .. n : p[k] \in Final /\ k \in Nat
      /\ \A k \in 1 .. n : /\ UptoBase(p, k - 1) \in Nat
                           /\ UptoBase(p, k) = UptoBase(p, k - 1) + Base(p[k])
  BY ChainFacts
<1>2. \A k \in 1 .. n : /\ Base(p[k]) \in Nat /\ Rooms[p[k]] \in Nat \ {0}
                        /\ Rooms[p[k]] > outbound[call[p[k]].Callee]
                        /\ outbound[call[p[k]].Callee] \in Nat
                        /\ Base(p[k]) + Rooms[p[k]] <= outbound[call[p[k]].Caller]
  BY <1>1, RoomAbove, ReadyFacts
<1>3. \A k \in 1 .. n - 1 : call[p[k + 1]].Caller = call[p[k]].Callee
  BY DEF IsChain
<1> HIDE DEF n
<1>4. ASSUME Bad # {} PROVE FALSE
  <2>1. PICK m \in Bad : \A l \in Bad : m <= l
    <3>1. Bad \subseteq Nat
      BY <1>1
    <3> HIDE DEF Bad
    <3>2. QED
      BY <1>4, <3>1, LeastNatural
  <2> DEFINE k == n - m
  <2>2. m \in 0 .. n - 1 /\ k \in 1 .. n /\ ~ Fits(k)
    BY <1>1, <2>1
  <2>3. CASE m = 0
    <3>1. k = n
      BY <2>3, <1>1
    <3>2. /\ UptoBase(p, n) = UptoBase(p, n - 1) + Base(p[n]) /\ UptoBase(p, n - 1) \in Nat
          /\ Base(p[n]) \in Nat /\ Rooms[p[n]] \in Nat \ {0}
      BY <2>2, <3>1, <1>1, <1>2
    <3>3. Fits(n)
      BY <3>2
    <3> HIDE DEF Fits
    <3>4. QED
      BY <2>2, <3>1, <3>3
  <2>4. CASE m # 0
    <3> DEFINE l == k + 1
    <3>1. m - 1 \in 0 .. n - 1 /\ n - (m - 1) = l /\ ~ (m <= m - 1)
      BY <2>2, <2>4, <1>1
    <3>2. Fits(l)
      <4>1. m - 1 \notin Bad
        <5> HIDE DEF Bad
        <5>1. QED
          BY <2>1, <3>1
      <4> HIDE DEF Fits, k, l
      <4>2. QED
        BY <4>1, <3>1
    <3>3. k \in 1 .. n - 1 /\ l \in 1 .. n /\ l - 1 = k
      BY <2>2, <2>4, <1>1
    <3>4. call[p[l]].Caller = call[p[k]].Callee
      BY <3>3, <1>3
    <3>5. UptoBase(p, n) < UptoBase(p, k) + Base(p[l]) + Rooms[p[l]]
      BY <3>2, <3>3
    <3>6. /\ Base(p[l]) \in Nat /\ Rooms[p[l]] \in Nat
          /\ Base(p[l]) + Rooms[p[l]] <= outbound[call[p[k]].Callee]
      BY <3>3, <3>4, <1>2
    <3>7. /\ outbound[call[p[k]].Callee] \in Nat /\ Rooms[p[k]] \in Nat
          /\ outbound[call[p[k]].Callee] < Rooms[p[k]] /\ Base(p[k]) \in Nat
          /\ UptoBase(p, k) = UptoBase(p, k - 1) + Base(p[k]) /\ UptoBase(p, k - 1) \in Nat
      BY <2>2, <1>1, <1>2
    <3>8. UptoBase(p, n) \in Nat
      <4>1. n \in 1 .. n
        BY <1>1
      <4>2. UptoBase(p, n - 1) \in Nat /\ Base(p[n]) \in Nat
            /\ UptoBase(p, n) = UptoBase(p, n - 1) + Base(p[n])
        BY <4>1, <1>1, <1>2
      <4>3. QED
        BY <4>2
    <3> HIDE DEF k, l
    <3>9. UptoBase(p, n) < UptoBase(p, k - 1) + Base(p[k]) + Rooms[p[k]]
      BY <3>5, <3>6, <3>7, <3>8
    <3>10. QED
      BY <2>2, <3>9
  <2>5. QED
    BY <2>3, <2>4
<1>5. ASSUME NEW k \in 1 .. n PROVE Fits(k)
  <2>1. n - k \in 0 .. n - 1 /\ n - (n - k) = k
    BY <1>1
  <2>2. n - k \notin Bad
    <3> HIDE DEF Bad
    <3>1. QED
      BY <1>4
  <2> HIDE DEF Fits
  <2>3. QED
    BY <2>1, <2>2
<1>6. QED
  BY <1>5 DEF n

\* A path's weights stay below the count of paths of its first function.
LEMMA TotalFits ==
    ASSUME Ready, NEW p, IsChain(p)
    PROVE  UptoBase(p, Len(p)) \in Nat /\ UptoBase(p, Len(p)) < outbound[call[p[1]].Caller]
<1> DEFINE n == Len(p)
<1>1. /\ n \in Nat \ {0} /\ 1 \in 1 .. n /\ n \in 1 .. n /\ p[1] \in Final /\ p[n] \in Final
      /\ UptoBase(p, 0) = 0 /\ UptoBase(p, n - 1) \in Nat
      /\ UptoBase(p, n) = UptoBase(p, n - 1) + Base(p[n])
  BY ChainFacts
<1>2. UptoBase(p, n) < UptoBase(p, 0) + Base(p[1]) + Rooms[p[1]]
  <2>1. \A k \in 1 .. n : UptoBase(p, n) < UptoBase(p, k - 1) + Base(p[k]) + Rooms[p[k]]
    BY TailFits
  <2>2. UptoBase(p, n) < UptoBase(p, 1 - 1) + Base(p[1]) + Rooms[p[1]]
    BY <1>1, <2>1
  <2>3. 1 - 1 = 0
    OBVIOUS
  <2>4. QED
    BY <2>2, <2>3
<1>3. /\ Base(p[1]) \in Nat /\ Base(p[n]) \in Nat /\ Rooms[p[1]] \in Nat
      /\ Base(p[1]) + Rooms[p[1]] <= outbound[call[p[1]].Caller]
  BY <1>1, ReadyFacts, RoomAbove
<1>4. outbound[call[p[1]].Caller] \in Nat
  BY <1>1, CallFacts DEF Ready, WeightsInv, TypeOK
<1> HIDE DEF n
<1>5. UptoBase(p, n) \in Nat /\ UptoBase(p, n) < outbound[call[p[1]].Caller]
  BY <1>1, <1>2, <1>3, <1>4
<1>6. QED
  BY <1>5 DEF n

\* Two paths from one function part at some call: no path continues another,
\* since the heap function a path ends in calls nothing.
LEMMA Diverge ==
    ASSUME Ready, NEW p, NEW q, IsPath(p), IsPath(q), p # q
    PROVE  \E k \in 1 .. Len(p) : /\ k \in 1 .. Len(q) /\ p[k] # q[k]
                                  /\ \A i \in 1 .. k - 1 : p[i] = q[i]
<1> DEFINE Parted == {k \in 1 .. Len(p) : k \in 1 .. Len(q) /\ p[k] # q[k]}
<1>1. /\ IsChain(p) /\ IsChain(q) /\ p \in Seq(Final) /\ q \in Seq(Final)
      /\ Len(p) \in Nat \ {0} /\ Len(q) \in Nat \ {0}
      /\ \A k \in 1 .. Len(p) : p[k] \in Final
      /\ \A k \in 1 .. Len(q) : q[k] \in Final
  BY ChainFacts DEF IsPath, IsChain
<1>2. \A e \in Final : call[e].Caller \notin HMFs
  BY CallFacts DEF Ready, WeightsInv, CallsGiven
\* The longer one would call something from where the other ended.
<1>3. ASSUME NEW r, NEW s, IsPath(r), IsChain(s), Len(r) \in Nat \ {0}, Len(s) \in Nat,
             Len(r) < Len(s), \A k \in 1 .. Len(s) : s[k] \in Final,
             r[Len(r)] = s[Len(r)]
      PROVE  FALSE
  <2>1. Len(r) \in 1 .. Len(s) - 1 /\ Len(r) + 1 \in 1 .. Len(s)
    BY <1>3
  <2>2. call[s[Len(r) + 1]].Caller = call[r[Len(r)]].Callee
    BY <2>1, <1>3 DEF IsChain
  <2>3. QED
    BY <2>1, <2>2, <1>2, <1>3 DEF IsPath
<1>4. Parted # {}
  <2>1. SUFFICES ASSUME \A k \in 1 .. Len(p) : k \in 1 .. Len(q) => p[k] = q[k] PROVE FALSE
    OBVIOUS
  <2>2. CASE Len(p) = Len(q)
    <3>1. p = q
      BY <1>1, <2>1, <2>2, SeqEqual
    <3>2. QED
      BY <3>1
  <2>3. CASE Len(p) < Len(q)
    <3>1. p[Len(p)] = q[Len(p)]
      BY <1>1, <2>1, <2>3
    <3>2. QED
      BY <1>1, <1>3, <2>3, <3>1
  <2>4. CASE Len(q) < Len(p)
    <3>1. q[Len(q)] = p[Len(q)]
      BY <1>1, <2>1, <2>4
    <3>2. QED
      BY <1>1, <1>3, <2>4, <3>1
  <2>5. QED
    BY <1>1, <2>2, <2>3, <2>4
<1>5. PICK k \in Parted : \A i \in Parted : k <= i
  <2>1. Parted \subseteq Nat
    BY <1>1
  <2> HIDE DEF Parted
  <2>2. QED
    BY <1>4, <2>1, LeastNatural
<1>6. k \in 1 .. Len(p) /\ k \in 1 .. Len(q) /\ p[k] # q[k]
  BY <1>5
<1>7. ASSUME NEW i \in 1 .. k - 1 PROVE p[i] = q[i]
  <2>1. i \in 1 .. Len(p) /\ i \in 1 .. Len(q) /\ ~ (k <= i)
    BY <1>1, <1>6
  <2>2. i \notin Parted
    <3> HIDE DEF Parted
    <3>1. QED
      BY <1>5, <2>1
  <2>3. QED
    BY <2>1, <2>2
<1>8. QED
  BY <1>6, <1>7

\* The path that takes the smaller call where they part has the smaller sum.
LEMMA Smaller ==
    ASSUME Ready, NEW p, NEW q, IsChain(p), IsChain(q),
           call[p[1]].Caller = call[q[1]].Caller,
           NEW k \in 1 .. Len(p), k \in 1 .. Len(q), p[k] < q[k],
           \A i \in 1 .. k - 1 : p[i] = q[i]
    PROVE  UptoBase(p, Len(p)) < UptoBase(q, Len(q))
<1>1. /\ Len(p) \in Nat \ {0} /\ Len(q) \in Nat \ {0} /\ k \in Nat \ {0}
      /\ p[k] \in Final /\ q[k] \in Final
      /\ UptoBase(p, k - 1) \in Nat /\ UptoBase(q, k - 1) \in Nat
      /\ UptoBase(q, k) = UptoBase(q, k - 1) + Base(q[k])
  BY ChainFacts
<1>2. call[p[k]].Caller = call[q[k]].Caller
  <2>1. CASE k = 1
    BY <2>1
  <2>2. CASE k # 1
    <3>1. /\ k - 1 \in 1 .. Len(p) - 1 /\ k - 1 \in 1 .. Len(q) - 1
          /\ k - 1 \in 1 .. k - 1 /\ (k - 1) + 1 = k
      BY <1>1, <2>2
    <3> DEFINE j == k - 1
    <3> HIDE DEF j
    <3>2. /\ j \in 1 .. Len(p) - 1 /\ j \in 1 .. Len(q) - 1 /\ p[j] = q[j] /\ j + 1 = k
      BY <3>1 DEF j
    <3>3. /\ call[p[j + 1]].Caller = call[p[j]].Callee
          /\ call[q[j + 1]].Caller = call[q[j]].Callee
      BY <3>2 DEF IsChain
    <3>4. QED
      BY <3>2, <3>3
  <2>3. QED
    BY <2>1, <2>2
<1>3. UptoBase(p, k - 1) = UptoBase(q, k - 1)
  <2>1. \A i \in 1 .. k - 1 : Bases(p)[i] = Bases(q)[i]
    <3>1. \A i \in 1 .. k - 1 : i \in 1 .. Len(p) /\ i \in 1 .. Len(q)
      BY <1>1
    <3>2. QED
      BY <3>1, ChainFacts
  <2>2. IsFiniteSet(1 .. k - 1)
    BY <1>1, FS_Interval
  <2>3. QED
    BY <2>1, <2>2, SumSame DEF UptoBase
<1>4. UptoBase(p, Len(p)) < UptoBase(p, k - 1) + Base(p[k]) + Rooms[p[k]]
  BY TailFits
<1>5. Base(p[k]) + Rooms[p[k]] <= Base(q[k])
  BY <1>1, <1>2, RoomAbove
<1>6. UptoBase(q, k) <= UptoBase(q, Len(q))
  <2>1. \A i \in 1 .. Len(q) : Bases(q)[i] \in Nat
    BY ChainFacts
  <2>2. IsFiniteSet(1 .. Len(q)) /\ 1 .. k \in SUBSET (1 .. Len(q))
    BY <1>1, FS_Interval
  <2>3. QED
    BY <2>1, <2>2, SumMonotone DEF UptoBase
<1>7. /\ UptoBase(p, Len(p)) \in Nat /\ UptoBase(q, Len(q)) \in Nat
      /\ Base(p[k]) \in Nat /\ Base(q[k]) \in Nat /\ Rooms[p[k]] \in Nat
  BY <1>1, TotalFits, ReadyFacts, RoomAbove
<1>8. QED
  BY <1>1, <1>3, <1>4, <1>5, <1>6, <1>7

\* Where the count of paths fits, the id is the sum itself.
LEMMA IdIsSum ==
    ASSUME Ready, NEW p, IsPath(p), \A k \in DOMAIN p : ~ HasOthers(p[k]),
           outbound[call[p[1]].Caller] <= CsiMod
    PROVE  CSI(p) = UptoBase(p, Len(p))
<1> DEFINE s == UptoBase(p, Len(p))
<1>1. IsChain(p) /\ DOMAIN p = 1 .. Len(p) /\ p[1] \in Final
  <2>1. IsChain(p) /\ p \in Seq(Final)
    BY DEF IsPath, IsChain
  <2>2. Len(p) \in Nat \ {0} /\ \A k \in 1 .. Len(p) : p[k] \in Final
    BY <2>1, ChainFacts
  <2>3. QED
    BY <2>1, <2>2
<1>2. UptoAdded(p, Len(p)) = s
  BY <1>1, AddsBase
<1>3. CSI(p) = UptoAdded(p, Len(p)) % CsiMod
  BY <1>1 DEF CSI, SumFunction, UptoAdded, Adds
<1>4. CsiMod \in Nat \ {0} /\ outbound[call[p[1]].Caller] \in Nat
  BY <1>1, CallFacts, WeightsAssumption DEF Ready, WeightsInv, TypeOK
<1>5. s \in Nat /\ s < outbound[call[p[1]].Caller]
  BY <1>1, TotalFits
<1> HIDE DEF s
<1>6. s \in 0 .. CsiMod - 1
  BY <1>4, <1>5
<1>7. s % CsiMod = s
  BY <1>4, <1>6
<1>8. QED
  BY <1>2, <1>3, <1>7 DEF s

\* Two call paths from one entry function to an allocation get different ids
\* (InstrumentIR: ComputeEdgeWeight and doModulePass), whatever the call graph,
\* its size and the order of the sort, as long as the entry's count of paths
\* fits the id and no call on the paths has several callees.
THEOREM PathIdsAreDistinct == Spec => []PathIdsDistinct
<1>1. WeightsInv => PathIdsDistinct
  <2>1. SUFFICES ASSUME Ready, NEW p \in Paths, NEW q \in Paths, Collide(p, q),
                        outbound[call[p[1]].Caller] <= CsiMod,
                        \A k \in DOMAIN p : ~ HasOthers(p[k]),
                        \A k \in DOMAIN q : ~ HasOthers(q[k])
                 PROVE  FALSE
    <3>1. ASSUME Ready, NEW p \in Paths
          PROVE  outbound[call[p[1]].Caller] \in Nat
      <4>1. IsChain(p)
        BY <3>1, PathFacts DEF IsPath
      <4>2. p[1] \in Final
        BY <3>1, <4>1, ChainFacts
      <4>3. QED
        BY <3>1, <4>2, CallFacts DEF Ready, WeightsInv, TypeOK
    <3>2. CsiMod \in Nat
      BY WeightsAssumption
    <3>3. \A m, n \in Nat : ~ (m > n) => m <= n
      OBVIOUS
    <3>4. QED
      BY <3>1, <3>2, <3>3 DEF PathIdsDistinct, Ready
  <2>2. IsPath(p) /\ IsPath(q) /\ IsChain(p) /\ IsChain(q)
    BY PathFacts DEF IsPath
  <2>3. p # q /\ call[p[1]].Caller = call[q[1]].Caller /\ CSI(p) = CSI(q)
    BY <2>1 DEF Collide
  <2>4. UptoBase(p, Len(p)) = UptoBase(q, Len(q))
    <3>1. CSI(p) = UptoBase(p, Len(p))
      BY <2>1, <2>2, IdIsSum
    <3>2. CSI(q) = UptoBase(q, Len(q))
      BY <2>1, <2>2, <2>3, IdIsSum
    <3>3. QED
      BY <2>3, <3>1, <3>2
  <2>5. PICK k \in 1 .. Len(p) : /\ k \in 1 .. Len(q) /\ p[k] # q[k]
                                 /\ \A i \in 1 .. k - 1 : p[i] = q[i]
    BY <2>1, <2>2, <2>3, Diverge
  <2>6. p[k] \in Nat /\ q[k] \in Nat
    BY <2>1, <2>2, <2>5, ChainFacts, CallFacts
  <2>7. UptoBase(p, Len(p)) \in Nat /\ UptoBase(q, Len(q)) \in Nat
    BY <2>1, <2>2, TotalFits
  <2>8. CASE p[k] < q[k]
    <3>1. UptoBase(p, Len(p)) < UptoBase(q, Len(q))
      BY <2>1, <2>2, <2>3, <2>5, <2>8, Smaller
    <3>2. QED
      BY <2>4, <2>7, <3>1
  <2>9. CASE q[k] < p[k]
    <3>1. UptoBase(q, Len(q)) < UptoBase(p, Len(p))
      BY <2>1, <2>2, <2>3, <2>5, <2>9, Smaller
    <3>2. QED
      BY <2>4, <2>7, <3>1
  <2>10. QED
    BY <2>5, <2>6, <2>8, <2>9
<1>2. QED
  BY WeightsInvariant, <1>1, PTL

=============================================================================
