---------------------- MODULE RelevantFunctionsProofs ----------------------
(***************************************************************************)
(* Proofs about RelevantFunctions for every call graph, of any size: what  *)
(* a traversal visits, which functions step 1 marks, and what the passes   *)
(* after it may rely on.                                                   *)
(***************************************************************************)
EXTENDS RelevantFunctions, FiniteSetTheorems, WellFoundedInduction, TLAPS

-----------------------------------------------------------------------------
(* Naturals.                                                               *)

Less == {p \in Nat \X Nat : p[1] < p[2]}

LEMMA LessWF == IsWellFoundedOn(Less, Nat)
  BY NatLessThanWellFounded DEF OpToRel, Less

\* A nonempty set of naturals has a least element.
LEMMA LeastNatural ==
    ASSUME NEW S, S \subseteq Nat, S # {}
    PROVE  \E x \in S : \A y \in S : x <= y
<1>1. PICK x \in S : \A y \in S : ~ (<<y, x>> \in Less)
  BY LessWF, WFMin
<1>2. ASSUME NEW y \in S PROVE x <= y
  <2>1. x \in Nat /\ y \in Nat
    OBVIOUS
  <2>2. <<y, x>> \in Nat \X Nat /\ <<y, x>>[1] = y /\ <<y, x>>[2] = x
    BY <2>1
  <2>3. ~ (y < x)
    BY <2>2, <1>1 DEF Less
  <2>4. QED
    BY <2>1, <2>3
<1>3. QED
  BY <1>2

\* What holds of 0 and goes on from each number to the next holds of all of them.
LEMMA Climb ==
    ASSUME NEW good, 0 \in good, \A n \in Nat : n \in good => n + 1 \in good
    PROVE  Nat \subseteq good
<1> DEFINE Bad == Nat \ good
<1>1. ASSUME Bad # {} PROVE FALSE
  <2>1. PICK n \in Bad : \A m \in Bad : n <= m
    <3>1. Bad \subseteq Nat
      OBVIOUS
    <3> HIDE DEF Bad
    <3>2. QED
      BY <1>1, <3>1, LeastNatural
  <2>2. n \in Nat \ {0} /\ n - 1 \in Nat /\ ~ (n <= n - 1) /\ n - 1 + 1 = n
    BY <2>1
  <2>3. n - 1 \in good
    BY <2>1, <2>2
  <2>4. QED
    BY <2>1, <2>2, <2>3
<1>2. QED
  BY <1>1

-----------------------------------------------------------------------------
(* What a traversal visits.                                                *)

\* One more round of a traversal.
Round(seen, before, steps) == seen \cup (After(steps, seen) \ before)

\* g holds what the first rounds of a traversal have seen, up to the top.
SeenUpTo(g, top, start, before, steps) ==
    g = [n \in 0 .. top |-> IF n = 0 THEN start \ before
                            ELSE Round(g[n - 1], before, steps)]

LEMMA TraverseDef ==
    ASSUME NEW start, NEW before, NEW steps
    PROVE  Traverse(start, before, steps) =
              (CHOOSE g : SeenUpTo(g, Cardinality(steps), start, before, steps))
                  [Cardinality(steps)]
BY DEF Traverse, SeenUpTo, Round

\* The rounds can be counted up to any number.
LEMMA SeenExists ==
    ASSUME NEW start, NEW before, NEW steps, NEW top \in Nat
    PROVE  \E g : SeenUpTo(g, top, start, before, steps)
<1> DEFINE Good == {n \in Nat : \E g : SeenUpTo(g, n, start, before, steps)}
<1>1. 0 \in Good
  <2> DEFINE g == [n \in 0 .. 0 |-> start \ before]
  <2>1. SeenUpTo(g, 0, start, before, steps)
    BY DEF SeenUpTo
  <2>2. QED
    BY <2>1
<1>2. ASSUME NEW n \in Nat, n \in Good PROVE n + 1 \in Good
  <2>1. PICK g : SeenUpTo(g, n, start, before, steps)
    BY <1>2
  <2> DEFINE h == [m \in 0 .. n + 1 |-> IF m = n + 1 THEN Round(g[n], before, steps)
                                        ELSE g[m]]
  <2>2. ASSUME NEW m \in 0 .. n + 1
        PROVE  h[m] = IF m = 0 THEN start \ before ELSE Round(h[m - 1], before, steps)
    <3>1. CASE m = n + 1
      <4>1. m # 0 /\ m - 1 \in 0 .. n + 1 /\ m - 1 = n /\ m - 1 # n + 1
        BY <3>1
      <4>2. QED
        BY <3>1, <4>1
    <3>2. CASE m # n + 1
      <4>1. m \in 0 .. n /\ (m # 0 => m - 1 \in 0 .. n + 1 /\ m - 1 # n + 1)
        BY <3>2
      <4>2. g[m] = IF m = 0 THEN start \ before ELSE Round(g[m - 1], before, steps)
        BY <4>1, <2>1 DEF SeenUpTo
      <4>3. QED
        BY <3>2, <4>1, <4>2
    <3>3. QED
      BY <3>1, <3>2
  <2>3. SeenUpTo(h, n + 1, start, before, steps)
    BY <2>2 DEF SeenUpTo
  <2>4. QED
    BY <2>3
<1> HIDE DEF Good
<1>3. top \in Good
  BY <1>1, <1>2, Climb
<1>4. QED
  BY <1>3 DEF Good

\* The targets of finitely many steps are finitely many.
LEMMA TargetsFinite ==
    ASSUME NEW steps, IsFiniteSet(steps)
    PROVE  /\ IsFiniteSet({s[2] : s \in steps})
           /\ Cardinality({s[2] : s \in steps}) <= Cardinality(steps)
           /\ Cardinality(steps) \in Nat /\ Cardinality({s[2] : s \in steps}) \in Nat
<1> DEFINE T == {s[2] : s \in steps}
           f == [s \in steps |-> s[2]]
<1>1. f \in Surjection(steps, T)
  BY DEF Surjection
<1> HIDE DEF T, f
<1>2. IsFiniteSet(T) /\ Cardinality(T) <= Cardinality(steps)
  BY <1>1, FS_Surjection
<1>3. QED
  BY <1>2, FS_CardinalityType DEF T

\* A traversal visits the least set that has its start and is closed under its
\* steps, both without what was visited before.
LEMMA TraverseLeast ==
    ASSUME NEW start, NEW before, NEW steps, IsFiniteSet(steps)
    PROVE  LET T == Traverse(start, before, steps)
           IN /\ start \ before \subseteq T
              /\ T \cap before = {}
              /\ After(steps, T) \ before \subseteq T
              /\ \A X : start \ before \subseteq X /\ After(steps, X) \ before \subseteq X
                           => T \subseteq X
<1> DEFINE N == Cardinality(steps)
           T == Traverse(start, before, steps)
           targets == {s[2] : s \in steps}
<1>1. N \in Nat /\ IsFiniteSet(targets) /\ Cardinality(targets) \in Nat
       /\ Cardinality(targets) <= N
  BY TargetsFinite
<1>2. PICK g : SeenUpTo(g, N, start, before, steps) /\ T = g[N]
  <2>1. \E g : SeenUpTo(g, N, start, before, steps)
    BY <1>1, SeenExists
  <2>2. QED
    BY <2>1, TraverseDef
<1> HIDE DEF T, N
<1>3. g[0] = start \ before
  BY <1>1, <1>2 DEF SeenUpTo
<1>4. ASSUME NEW n \in Nat, n + 1 <= N PROVE g[n + 1] = Round(g[n], before, steps)
  <2>1. n + 1 \in 0 .. N /\ n + 1 # 0 /\ n + 1 - 1 = n
    BY <1>1, <1>4
  <2>2. \A m \in 0 .. N : m # 0 => g[m] = Round(g[m - 1], before, steps)
    BY <1>2 DEF SeenUpTo
  <2>3. g[n + 1] = Round(g[n + 1 - 1], before, steps)
    BY <2>1, <2>2
  <2>4. QED
    BY <2>1, <2>3
<1>5. start \ before \subseteq T /\ T \cap before = {}
  <2> DEFINE Good == {n \in Nat : n <= N => /\ start \ before \subseteq g[n]
                                            /\ g[n] \cap before = {}}
  <2>1. 0 \in Good
    BY <1>3
  <2>2. ASSUME NEW n \in Nat, n \in Good PROVE n + 1 \in Good
    BY <2>2, <1>1, <1>4 DEF Round
  <2> HIDE DEF Good
  <2>3. N \in Good
    BY <2>1, <2>2, <1>1, Climb
  <2>4. QED
    BY <2>3, <1>1, <1>2 DEF Good
<1>6. ASSUME NEW X, start \ before \subseteq X, After(steps, X) \ before \subseteq X
      PROVE  T \subseteq X
  <2> DEFINE Good == {n \in Nat : n <= N => g[n] \subseteq X}
  <2>1. 0 \in Good
    BY <1>3, <1>6
  <2>2. ASSUME NEW n \in Nat, n \in Good PROVE n + 1 \in Good
    <3>1. SUFFICES ASSUME n + 1 <= N PROVE g[n + 1] \subseteq X
      OBVIOUS
    <3>2. g[n] \subseteq X
      BY <3>1, <2>2, <1>1
    <3>3. After(steps, g[n]) \subseteq After(steps, X)
      BY <3>2 DEF After
    <3>4. QED
      BY <3>1, <3>2, <3>3, <1>4, <1>6 DEF Round
  <2> HIDE DEF Good
  <2>3. N \in Good
    BY <2>1, <2>2, <1>1, Climb
  <2>4. QED
    BY <2>3, <1>1, <1>2 DEF Good
<1>7. After(steps, T) \ before \subseteq T
  <2> DEFINE Closed(n) == After(steps, g[n]) \ before \subseteq g[n]
             Met(n) == g[n] \cap targets
             Good == {n \in Nat : n <= N => Closed(n) \/ Cardinality(Met(n)) >= n}
  <2>1. \A n : IsFiniteSet(Met(n)) /\ Cardinality(Met(n)) \in Nat
    BY <1>1, FS_Intersection, FS_CardinalityType
  <2>2. 0 \in Good
    <3> HIDE DEF Closed, Met
    <3>1. QED
      BY <2>1
  <2>3. ASSUME NEW n \in Nat, n \in Good, n + 1 <= N
        PROVE  Closed(n + 1) \/ Cardinality(Met(n + 1)) >= n + 1
    <3>1. Closed(n) \/ Cardinality(Met(n)) >= n
      BY <2>3, <1>1
    <3>2. g[n + 1] = Round(g[n], before, steps)
      BY <2>3, <1>4
    <3>3. CASE Closed(n)
      <4>1. g[n + 1] = g[n]
        BY <3>2, <3>3 DEF Round
      <4>2. QED
        BY <4>1, <3>3
    <3>4. CASE ~ Closed(n)
      <4>1. PICK x \in After(steps, g[n]) : x \notin before /\ x \notin g[n]
        BY <3>4
      <4>2. x \in targets /\ x \in g[n + 1]
        BY <4>1, <3>2 DEF After, Round
      <4>3. x \in Met(n + 1) /\ x \notin Met(n) /\ Met(n) \subseteq Met(n + 1)
        BY <4>1, <4>2, <3>2 DEF Round
      <4>4. Met(n) \in SUBSET Met(n + 1) /\ Met(n) # Met(n + 1)
        BY <4>3
      <4> HIDE DEF Met
      <4>5. Cardinality(Met(n)) < Cardinality(Met(n + 1))
        BY <4>4, <2>1, FS_Subset
      <4>6. QED
        BY <4>5, <3>1, <3>4, <2>1
    <3>5. QED
      BY <3>3, <3>4
  <2>4. N \in Good
    <3>1. \A n \in Nat : n \in Good => n + 1 \in Good
      <4> HIDE DEF Closed, Met
      <4>1. QED
        BY <2>3
    <3> HIDE DEF Good
    <3>2. QED
      BY <2>2, <3>1, <1>1, Climb
  <2>5. CASE Closed(N)
    BY <2>5, <1>2
  <2>6. CASE ~ Closed(N)
    <3>1. Cardinality(Met(N)) >= N
      BY <2>4, <2>6, <1>1
    <3>2. Met(N) \in SUBSET targets
      OBVIOUS
    <3>3. Met(N) = targets
      <4> HIDE DEF Met, targets
      <4>1. QED
        BY <3>1, <3>2, <2>1, <1>1, FS_Subset
    <3>4. After(steps, g[N]) \subseteq targets
      BY DEF After
    <3>5. QED
      BY <3>3, <3>4, <1>2
  <2>7. QED
    BY <2>5, <2>6
<1>8. QED
  BY <1>5, <1>6, <1>7 DEF T

\* A traversal from a set visits the set and what is reached from its elements.
\* From is what is reached from one function by at least one step.
From(steps, f) == Traverse(After(steps, {f}), {}, steps)

LEMMA FromFacts ==
    ASSUME NEW steps, IsFiniteSet(steps), NEW f
    PROVE  /\ \A s \in steps : s[1] = f \/ s[1] \in From(steps, f)
                               => s[2] \in From(steps, f)
           /\ \A X : (\A s \in steps : s[1] = f \/ s[1] \in X => s[2] \in X)
                     => From(steps, f) \subseteq X
<1> DEFINE start == After(steps, {f})
           T == Traverse(start, {}, steps)
<1>1. /\ start \subseteq T /\ After(steps, T) \subseteq T
      /\ \A X : start \subseteq X /\ After(steps, X) \subseteq X => T \subseteq X
  <2> HIDE DEF start
  <2>1. QED
    BY TraverseLeast
<1>2. T = From(steps, f)
  BY DEF From
<1> HIDE DEF T
<1>3. \A s \in steps : s[1] = f \/ s[1] \in T => s[2] \in T
  BY <1>1 DEF After
<1>4. ASSUME NEW X, \A s \in steps : s[1] = f \/ s[1] \in X => s[2] \in X
      PROVE  T \subseteq X
  <2>1. start \subseteq X /\ After(steps, X) \subseteq X
    BY <1>4 DEF After
  <2>2. QED
    BY <2>1, <1>1
<1>5. QED
  BY <1>2, <1>3, <1>4

\* What is reached from something reached is reached.
LEMMA FromTransitive ==
    ASSUME NEW steps, IsFiniteSet(steps), NEW f, NEW g \in From(steps, f)
    PROVE  From(steps, g) \subseteq From(steps, f)
<1>1. \A s \in steps : s[1] = g \/ s[1] \in From(steps, f) => s[2] \in From(steps, f)
  BY FromFacts
<1>2. QED
  BY <1>1, FromFacts

\* Fewer steps reach less.
LEMMA FromMonotone ==
    ASSUME NEW steps, IsFiniteSet(steps), NEW fewer \in SUBSET steps, NEW f
    PROVE  From(fewer, f) \subseteq From(steps, f)
<1>1. IsFiniteSet(fewer)
  BY FS_Subset
<1>2. \A s \in fewer : s[1] = f \/ s[1] \in From(steps, f) => s[2] \in From(steps, f)
  BY FromFacts
<1>3. QED
  BY <1>1, <1>2, FromFacts

\* A set with all that steps into it or into the goal has all that reaches the goal.
LEMMA BackFrom ==
    ASSUME NEW steps, IsFiniteSet(steps), NEW f, NEW goal, NEW X,
           \A s \in steps : s[2] \in X \/ s[2] \in goal => s[1] \in X,
           From(steps, f) \cap goal # {}
    PROVE  f \in X
<1>1. SUFFICES ASSUME f \notin X PROVE FALSE
  OBVIOUS
<1> DEFINE Y == From(steps, f) \ (X \cup goal)
<1>2. ASSUME NEW s \in steps, s[1] = f \/ s[1] \in Y PROVE s[2] \in Y
  <2>1. s[1] \notin X
    BY <1>1, <1>2
  <2>2. s[2] \in From(steps, f)
    BY <1>2, FromFacts
  <2>3. QED
    BY <2>1, <2>2
<1>3. From(steps, f) \subseteq Y
  <2> HIDE DEF Y
  <2>1. QED
    BY <1>2, FromFacts
<1>4. QED
  BY <1>3

\* The same for a traversal from one function: itself, and what it reaches.
LEMMA TraverseOne ==
    ASSUME NEW steps, IsFiniteSet(steps), NEW f
    PROVE  Traverse({f}, {}, steps) = {f} \cup From(steps, f)
<1> DEFINE T == Traverse({f}, {}, steps)
<1>1. /\ {f} \subseteq T /\ After(steps, T) \subseteq T
      /\ \A X : {f} \subseteq X /\ After(steps, X) \subseteq X => T \subseteq X
  BY TraverseLeast
<1> HIDE DEF T
<1>2. From(steps, f) \subseteq T
  <2>1. \A s \in steps : s[1] = f \/ s[1] \in T => s[2] \in T
    BY <1>1 DEF After
  <2>2. QED
    BY <2>1, FromFacts
<1>3. T \subseteq {f} \cup From(steps, f)
  <2> DEFINE X == {f} \cup From(steps, f)
  <2>1. After(steps, X) \subseteq X
    BY FromFacts DEF After
  <2> HIDE DEF X
  <2>2. {f} \subseteq X
    BY DEF X
  <2>3. T \subseteq X
    BY <2>1, <2>2, <1>1
  <2>4. QED
    BY <2>3 DEF X
<1>4. QED
  BY <1>1, <1>2, <1>3 DEF T

-----------------------------------------------------------------------------
(* The program's call graph, and the names on its calls.                   *)

GraphOK == calls \subseteq Calls /\ inLoop \subseteq calls

\* The names of components are bounded below, so that the first one is found.
NumbersOK == \E k \in Nat : \A f \in Members : intra[f] \in Int /\ -k <= intra[f]

\* Which names the calls carry after each step of the pass.
NamesOK ==
    /\ phase \in {"start", "mark", "loops", "cycles"} => intra = <<>>
    /\ phase \in {"start", "mark", "loops", "cycles", "inner"} =>
          \A c \in calls : path[c].Caller = c[1] /\ path[c].Callee = c[2]
    /\ phase = "inbound" =>
          \A c \in calls : /\ path[c].Caller = NodeOf(c[1])
                           /\ path[c].Callee = IF c[1] \in Members /\ c[2] \in Members
                                               THEN NodeOf(c[1]) ELSE c[2]
    /\ phase \in {"merge", "relate", "done"} =>
          \A c \in calls : /\ path[c].Caller = NodeOf(c[1])
                           /\ path[c].Callee = IF c[1] \in Members /\ c[2] \in Members
                                               THEN NodeOf(c[1]) ELSE NodeOf(c[2])
    /\ phase \notin {"relate", "done"} =>
          \A c \in calls : calledAt[c] = c[2] /\ callsAt[c] = c[1]
    /\ phase \in {"relate", "done"} =>
          \A c \in calls : calledAt[c] = NodeOf(c[2]) /\ callsAt[c] = NodeOf(c[1])
    /\ phase = "done" => relevant = {NodeOf(f) : f \in final}

BasicInv == TypeOK /\ GraphOK /\ NumbersOK /\ NamesOK

\* The graph and the steps of the traversals are finite.
LEMMA GraphFacts ==
    ASSUME GraphOK
    PROVE  /\ IsFiniteSet(calls) /\ IsFiniteSet(Up) /\ IsFiniteSet(Down)
           /\ calls \subseteq Functions \X Functions
           /\ \A c \in calls : c[1] \notin HMFs
           /\ Functions \subseteq Nat \ {0}
<1>1. IsFiniteSet(calls)
  BY GraphAssumption, FS_Subset DEF GraphOK
<1>2. IsFiniteSet(Up)
  <2> DEFINE f == [c \in calls |-> <<calledAt[c], path[c].Caller>>]
  <2>1. f \in Surjection(calls, Up)
    BY DEF Surjection, Up
  <2> HIDE DEF f
  <2>2. QED
    BY <2>1, <1>1, FS_Surjection
<1>3. IsFiniteSet(Down)
  <2> DEFINE f == [c \in calls |-> <<callsAt[c], path[c].Callee>>]
  <2>1. f \in Surjection(calls, Down)
    BY DEF Surjection, Down
  <2> HIDE DEF f
  <2>2. QED
    BY <2>1, <1>1, FS_Surjection
<1>4. ASSUME NEW c \in calls PROVE c \in Functions \X Functions /\ c[1] \notin HMFs
  <2>1. c \in Calls /\ c \in Nat \X Nat
    BY GraphAssumption DEF GraphOK
  <2>2. c[1] \in Functions /\ c[2] \in Functions
    BY <2>1 DEF Functions
  <2>3. QED
    BY <2>1, <2>2, GraphAssumption
<1>5. QED
  BY <1>1, <1>2, <1>3, <1>4, GraphAssumption


\* A traversal along the calls from nodes of the graph visits nodes of the graph.
LEMMA StaysInNodes ==
    ASSUME TypeOK, GraphOK, NEW start, start \subseteq Nodes, NEW before
    PROVE  /\ Traverse(start, before, Up) \subseteq Nodes
           /\ Traverse(start, before, Down) \subseteq Nodes
<1>1. ASSUME NEW c \in calls PROVE path[c].Caller \in Nodes /\ path[c].Callee \in Nodes
  BY <1>1 DEF TypeOK
<1>2. After(Up, Nodes) \subseteq Nodes /\ After(Down, Nodes) \subseteq Nodes
  BY <1>1 DEF After, Up, Down
<1>3. IsFiniteSet(Up) /\ IsFiniteSet(Down)
  BY GraphFacts
<1>4. QED
  BY <1>2, <1>3, TraverseLeast

LEMMA NeighboursInNodes ==
    ASSUME TypeOK, NEW f
    PROVE  Parents(f) \subseteq Nodes /\ Children(f) \subseteq Nodes
<1>1. ASSUME NEW c \in calls PROVE path[c].Caller \in Nodes /\ path[c].Callee \in Nodes
  BY <1>1 DEF TypeOK
<1>2. QED
  BY <1>1 DEF Parents, Children, After, Up, Down

LEMMA NodeOfInNodes ==
    ASSUME TypeOK, NEW f \in Nodes
    PROVE  NodeOf(f) \in Nodes
BY DEF TypeOK, NodeOf, Nodes

\* The first of the functions that a loop has still to visit is one of them.
LEMMA FirstFound ==
    ASSUME TypeOK, NumbersOK, NEW S, S \subseteq Nodes, S # {}
    PROVE  Min(S) \in S /\ \A n \in S : Min(S) <= n
<1>1. PICK k \in Nat : \A f \in Members : intra[f] \in Int /\ -k <= intra[f]
  BY DEF NumbersOK
<1>2. ASSUME NEW n \in S PROVE n \in Int /\ n + k \in Nat
  <2>1. CASE n \in Functions
    BY <2>1, GraphAssumption
  <2>2. CASE n \notin Functions
    <3>1. PICK f \in Members : n = intra[f]
      BY <2>2, <1>2 DEF Nodes
    <3>2. QED
      BY <3>1, <1>1
  <2>3. QED
    BY <2>1, <2>2
<1> DEFINE R == {n + k : n \in S}
<1>3. R \subseteq Nat /\ R # {}
  BY <1>2
<1>4. PICK r \in R : \A q \in R : r <= q
  <2> HIDE DEF R
  <2>1. QED
    BY <1>3, LeastNatural
<1>5. PICK m \in S : r = m + k
  BY <1>4
<1>6. \A n \in S : m <= n
  <2>1. SUFFICES ASSUME NEW n \in S PROVE m <= n
    OBVIOUS
  <2>2. m + k <= n + k
    BY <1>4, <1>5
  <2>3. QED
    BY <2>2, <1>2
<1>7. QED
  BY <1>6 DEF Min

-----------------------------------------------------------------------------
(* The basic invariant holds.                                              *)

LEMMA BasicInit == Init => BasicInv
<1> SUFFICES ASSUME Init PROVE BasicInv
  OBVIOUS
<1> USE DEF Init
<1>1. GraphOK
  BY DEF GraphOK
<1>2. Members = {} /\ Nodes = Functions
  BY DEF Members, Nodes
<1>3. \A c \in calls : c[1] \in Functions /\ c[2] \in Functions
  BY <1>1, GraphFacts
<1>4. TypeOK
  <2>1. path \in [calls -> [Caller : Nodes, Callee : Nodes, type : PathTypes]]
    BY <1>2, <1>3 DEF PathTypes
  <2>2. calledAt \in [calls -> Nodes] /\ callsAt \in [calls -> Nodes]
    BY <1>2, <1>3
  <2>3. QED
    BY <1>2, <2>1, <2>2 DEF TypeOK, Phases
<1>5. NumbersOK
  BY <1>2 DEF NumbersOK
<1>6. NamesOK
  BY DEF NamesOK
<1>7. QED
  BY <1>1, <1>4, <1>5, <1>6 DEF BasicInv

\* The steps that leave the graph and its names alone.
LEMMA BasicTraversals ==
    ASSUME BasicInv, doInitialization \/ MarkEntry \/ MarkDone \/ Relate \/ RelateDone
    PROVE  BasicInv'
<1> USE DEF BasicInv
<1>1. UNCHANGED <<graph, intra>>
  BY DEF doInitialization, MarkEntry, MarkDone, Relate, RelateDone
<1>2. Members' = Members /\ Nodes' = Nodes
  BY <1>1 DEF Members, Nodes
<1>3. GraphOK' /\ NumbersOK'
  BY <1>1, <1>2 DEF GraphOK, NumbersOK, graph
<1>4. phase' \in Phases /\ mark' \subseteq Functions /\ loopSet' \subseteq Nodes
       /\ relevant' \subseteq Nodes /\ todo' \subseteq Nodes /\ visited' \subseteq Nodes
       /\ final' \subseteq Nodes
  <2>1. CASE doInitialization
    <3>1. mark' \subseteq Functions
      BY <2>1, GraphFacts DEF doInitialization
    <3>2. QED
      BY <2>1, <3>1 DEF doInitialization, TypeOK, Phases, Nodes
  <2>2. CASE MarkEntry
    <3> DEFINE f == Min(todo)
               up == Traverse(Parents(f), visited, Up)
    <3>1. up \subseteq Nodes
      BY NeighboursInNodes, StaysInNodes
    <3>2. FirstHMFs(f, 1) \subseteq HMFs /\ FirstHMFs(f, 2) \subseteq HMFs
      BY DEF FirstHMFs
    <3>3. HMFs \subseteq Nodes
      BY DEF Nodes, Functions
    <3> HIDE DEF f, up
    <3>4. PICK climbed, heap : /\ climbed \subseteq up /\ heap \subseteq HMFs
                               /\ visited' = visited \cup climbed
                               /\ final' = final \cup climbed \cup heap
      BY <2>2, <3>2 DEF MarkEntry, f, up
    <3>5. todo' \subseteq todo
      BY <2>2 DEF MarkEntry
    <3>6. QED
      BY <2>2, <3>1, <3>3, <3>4, <3>5 DEF MarkEntry, TypeOK
  <2>3. CASE MarkDone
    <3>1. final \subseteq Functions
      BY <2>3 DEF MarkDone, NamesOK, TypeOK, Nodes, Members
    <3>2. QED
      BY <2>3, <3>1 DEF MarkDone, TypeOK, Phases
  <2>4. CASE Relate
    <3> DEFINE f == Min(todo)
               up == Traverse(Parents(f) \cap mark, visited \cup {f}, Up)
               down == Traverse(Children(f) \cap mark, visited \cup {f} \cup up, Down)
    <3>1. up \subseteq Nodes /\ down \subseteq Nodes
      BY NeighboursInNodes, StaysInNodes
    <3>2. f \in Nodes
      BY <2>4, FirstFound DEF Relate, TypeOK
    <3> HIDE DEF f, up, down
    <3>3. /\ visited' = visited \cup {f} \cup up \cup down
          /\ final' = final \cup ((up \cup down) \cap mark)
          /\ todo' \subseteq todo
      BY <2>4 DEF Relate, f, up, down
    <3>4. QED
      BY <2>4, <3>1, <3>2, <3>3 DEF Relate, TypeOK
  <2>5. CASE RelateDone
    <3>1. relevant' \subseteq Nodes
      BY <2>5, NodeOfInNodes DEF RelateDone, TypeOK
    <3>2. QED
      BY <2>5, <3>1 DEF RelateDone, TypeOK, Phases
  <2>6. QED
    BY <2>1, <2>2, <2>3, <2>4, <2>5
<1>5. TypeOK'
  BY <1>1, <1>2, <1>4 DEF TypeOK, graph
<1>6. NamesOK'
  <2>1. \A f : NodeOf(f)' = NodeOf(f)
    BY <1>1, <1>2 DEF NodeOf
  <2>2. \/ phase = "start" /\ phase' = "mark"
        \/ phase = "mark" /\ phase' \in {"mark", "loops"}
        \/ phase = "relate" /\ phase' = "relate"
        \/ /\ phase = "relate" /\ phase' = "done" /\ final' = final
           /\ relevant' = {NodeOf(f) : f \in final}
    BY DEF doInitialization, MarkEntry, MarkDone, Relate, RelateDone
  <2>3. phase' = "done" => relevant' = {NodeOf(f)' : f \in final'}
    BY <2>1, <2>2
  <2>4. QED
    BY <1>1, <1>2, <2>1, <2>2, <2>3 DEF NamesOK, graph
<1>7. QED
  BY <1>3, <1>5, <1>6


LEMMA FunctionsFinite == IsFiniteSet(Functions)
<1> DEFINE f == [c \in Calls |-> c[1]]
           g == [c \in Calls |-> c[2]]
<1>1. f \in Surjection(Calls, {c[1] : c \in Calls})
      /\ g \in Surjection(Calls, {c[2] : c \in Calls})
  BY DEF Surjection
<1> HIDE DEF f, g
<1>2. IsFiniteSet({c[1] : c \in Calls}) /\ IsFiniteSet({c[2] : c \in Calls})
  BY <1>1, GraphAssumption, FS_Surjection
<1>3. QED
  BY <1>2, GraphAssumption, FS_Union DEF Functions

\* Each component that is merged is a set of marked functions, and they are finitely many.
LEMMA CyclesFinite ==
    ASSUME TypeOK
    PROVE  /\ FunctionCycles \subseteq SUBSET mark /\ UNION FunctionCycles \subseteq mark
           /\ IsFiniteSet(FunctionCycles) /\ Cardinality(FunctionCycles) \in Nat
<1>1. FunctionCycles \subseteq SUBSET mark
  BY DEF FunctionCycles, Components
<1>2. IsFiniteSet(SUBSET mark)
  BY FunctionsFinite, FS_Subset, FS_SUBSET DEF TypeOK
<1>3. IsFiniteSet(FunctionCycles)
  BY <1>1, <1>2, FS_Subset
<1>4. QED
  BY <1>1, <1>3, FS_CardinalityType

LEMMA BasicSimpleLoops == BasicInv /\ MarkSimpleLoops => BasicInv'
<1> SUFFICES ASSUME BasicInv, MarkSimpleLoops PROVE BasicInv'
  OBVIOUS
<1> USE DEF BasicInv
<1>1. UNCHANGED <<calls, inLoop, calledAt, callsAt, intra>> /\ phase = "loops"
  BY DEF MarkSimpleLoops
<1>2. Members' = Members /\ Nodes' = Nodes
  BY <1>1 DEF Members, Nodes
<1>3. \A f : NodeOf(f)' = NodeOf(f)
  BY <1>1, <1>2 DEF NodeOf
<1>4. GraphOK' /\ NumbersOK'
  BY <1>1, <1>2 DEF GraphOK, NumbersOK
<1>5. loopSet' \subseteq Nodes
  BY DEF MarkSimpleLoops, TypeOK, GraphOK
<1>6. /\ path' \in [calls -> [Caller : Nodes, Callee : Nodes, type : PathTypes]]
      /\ \A c \in calls : /\ path'[c].Caller = path[c].Caller
                          /\ path'[c].Callee = path[c].Callee
  <2> DEFINE looped == {c \in inLoop : calledAt[c] \in mark}
             looping(c) == [path[c] EXCEPT !.type = "MarkSimpleLoop"]
  <2>1. path' = [c \in calls |-> IF c \in looped THEN looping(c) ELSE path[c]]
    BY DEF MarkSimpleLoops
  <2>2. ASSUME NEW c \in calls
        PROVE  /\ path[c] \in [Caller : Nodes, Callee : Nodes, type : PathTypes]
               /\ looping(c) \in [Caller : Nodes, Callee : Nodes, type : PathTypes]
               /\ looping(c).Caller = path[c].Caller /\ looping(c).Callee = path[c].Callee
    BY DEF TypeOK, PathTypes
  <2> HIDE DEF looped, looping
  <2>3. QED
    BY <2>1, <2>2
<1>7. TypeOK'
  BY <1>1, <1>2, <1>5, <1>6 DEF TypeOK, MarkSimpleLoops, Phases
<1>8. NamesOK'
  BY <1>1, <1>3, <1>6 DEF NamesOK, MarkSimpleLoops
<1>9. QED
  BY <1>4, <1>7, <1>8

LEMMA BasicNameCycles == BasicInv /\ NameCycles => BasicInv'
<1> SUFFICES ASSUME BasicInv, NameCycles PROVE BasicInv'
  OBVIOUS
<1> USE DEF BasicInv
<1> DEFINE cycles == FunctionCycles
<1>1. PICK order \in [cycles -> 1 .. Cardinality(cycles)] :
         intra' = [f \in UNION cycles |->
                     IntraName(order[CHOOSE C \in cycles : f \in C])]
  BY DEF NameCycles
<1>2. Cardinality(cycles) \in Nat /\ UNION cycles \subseteq mark
  BY CyclesFinite
<1>3. ASSUME NEW f \in UNION cycles
      PROVE  /\ intra'[f] \in Int /\ intra'[f] < 0
             /\ -Cardinality(cycles) <= intra'[f]
  <2> DEFINE C == CHOOSE D \in cycles : f \in D
  <2>1. C \in cycles
    OBVIOUS
  <2>2. intra'[f] = -order[C]
    BY <1>1 DEF IntraName
  <2> HIDE DEF C, cycles
  <2>3. order[C] \in 1 .. Cardinality(cycles)
    BY <1>1, <2>1
  <2>4. QED
    BY <1>2, <2>2, <2>3
<1> HIDE DEF cycles
<1>4. Members' = UNION cycles
  BY <1>1 DEF Members
<1>5. Members = {} /\ Nodes = Functions
  BY DEF NameCycles, NamesOK, Members, Nodes
<1>6. Functions \subseteq Nodes'
  BY DEF Nodes
<1>7. NumbersOK'
  BY <1>2, <1>3, <1>4 DEF NumbersOK
<1>8. GraphOK'
  BY DEF NameCycles, GraphOK, graph
<1>9. TypeOK'
  <2>1. loopSet' \subseteq Functions
    BY <1>2, <1>5 DEF NameCycles, TypeOK, cycles
  <2>2. Members' \subseteq Functions /\ \A f \in Members' : intra'[f] < 0
    BY <1>2, <1>3, <1>4 DEF TypeOK
  <2>3. path' \in [calls' -> [Caller : Nodes', Callee : Nodes', type : PathTypes]]
        /\ calledAt' \in [calls' -> Nodes'] /\ callsAt' \in [calls' -> Nodes']
    <3>1. UNCHANGED graph
      BY DEF NameCycles
    <3>2. ASSUME NEW c \in calls
          PROVE  path[c] \in [Caller : Nodes', Callee : Nodes', type : PathTypes]
      BY <1>5, <1>6 DEF TypeOK
    <3>3. QED
      BY <1>5, <1>6, <3>1, <3>2 DEF TypeOK, graph
  <2>4. QED
    BY <1>5, <1>6, <2>1, <2>2, <2>3 DEF TypeOK, NameCycles, Phases
<1>10. NamesOK'
  BY DEF NamesOK, NameCycles, graph
<1>11. QED
  BY <1>7, <1>8, <1>9, <1>10


\* A step that gives calls new ends and types, and changes nothing else but the phase.
LEMMA BasicRenaming ==
    ASSUME BasicInv, phase' \in Phases,
           UNCHANGED <<calls, inLoop, calledAt, callsAt, mark, loopSet, relevant, intra,
                       todo, visited, final>>,
           path' \in [calls -> [Caller : Nodes, Callee : Nodes, type : PathTypes]]
    PROVE  TypeOK' /\ GraphOK' /\ NumbersOK' /\ \A f : NodeOf(f)' = NodeOf(f)
<1> USE DEF BasicInv
<1>1. Members' = Members /\ Nodes' = Nodes
  BY DEF Members, Nodes
<1>2. TypeOK'
  BY <1>1 DEF TypeOK
<1>3. GraphOK' /\ NumbersOK' /\ \A f : NodeOf(f)' = NodeOf(f)
  BY <1>1 DEF GraphOK, NumbersOK, NodeOf
<1>4. QED
  BY <1>2, <1>3

LEMMA BasicInner == BasicInv /\ MarkInner => BasicInv'
<1> SUFFICES ASSUME BasicInv, MarkInner PROVE BasicInv'
  OBVIOUS
<1> USE DEF BasicInv
<1>1. ASSUME NEW c \in calls
      PROVE  /\ path[c] \in [Caller : Nodes, Callee : Nodes, type : PathTypes]
             /\ path[c].Caller = c[1] /\ path[c].Callee = c[2]
             /\ NodeOf(c[1]) \in Nodes /\ c[2] \in Nodes
  <2>1. c[1] \in Nodes /\ c[2] \in Nodes
    BY GraphFacts DEF Nodes
  <2>2. QED
    BY <2>1, NodeOfInNodes DEF MarkInner, NamesOK, TypeOK
<1>2. ASSUME NEW c \in calls
      PROVE  /\ path'[c] \in [Caller : Nodes, Callee : Nodes, type : PathTypes]
             /\ path'[c].Caller = NodeOf(c[1])
             /\ path'[c].Callee = IF c[1] \in Members /\ c[2] \in Members
                                  THEN NodeOf(c[1]) ELSE c[2]
  <2>1. CASE c[1] \notin Members
    <3>1. path'[c] = path[c]
      BY <2>1 DEF MarkInner
    <3>2. QED
      BY <2>1, <3>1, <1>1 DEF NodeOf
  <2>2. CASE c[1] \in Members /\ c[2] \in Members
    <3>1. path'[c] = [Caller |-> intra[c[1]], Callee |-> intra[c[1]],
                      type |-> "MarkSimpleInner"]
      BY <2>2 DEF MarkInner
    <3>2. QED
      BY <2>2, <3>1, <1>1 DEF NodeOf, PathTypes
  <2>3. CASE c[1] \in Members /\ c[2] \notin Members
    <3>1. path'[c] = [Caller |-> intra[c[1]], Callee |-> c[2], type |-> "MarkOutbound"]
      BY <2>3 DEF MarkInner
    <3>2. QED
      BY <2>3, <3>1, <1>1 DEF NodeOf, PathTypes
  <2>4. QED
    BY <2>1, <2>2, <2>3
<1>3. path' \in [calls -> [Caller : Nodes, Callee : Nodes, type : PathTypes]]
  <2>1. path' = [c \in calls |-> path'[c]]
    BY DEF MarkInner
  <2>2. QED
    BY <2>1, <1>2
<1>4. TypeOK' /\ GraphOK' /\ NumbersOK' /\ \A f : NodeOf(f)' = NodeOf(f)
  <2>1. phase' \in Phases
    BY DEF MarkInner, Phases
  <2>2. QED
    BY <2>1, <1>3, BasicRenaming DEF MarkInner
<1>5. Members' = Members
  BY DEF MarkInner, Members
<1>6. NamesOK'
  BY <1>2, <1>4, <1>5 DEF MarkInner, NamesOK
<1>7. QED
  BY <1>4, <1>6

LEMMA BasicInbound == BasicInv /\ MarkInbound => BasicInv'
<1> SUFFICES ASSUME BasicInv, MarkInbound PROVE BasicInv'
  OBVIOUS
<1> USE DEF BasicInv
<1>1. ASSUME NEW c \in calls
      PROVE  /\ path[c] \in [Caller : Nodes, Callee : Nodes, type : PathTypes]
             /\ path[c].Caller = NodeOf(c[1])
             /\ path[c].Callee = IF c[1] \in Members /\ c[2] \in Members
                                 THEN NodeOf(c[1]) ELSE c[2]
             /\ NodeOf(c[2]) \in Nodes
  <2>1. c[2] \in Nodes
    BY GraphFacts DEF Nodes
  <2>2. QED
    BY <2>1, NodeOfInNodes DEF MarkInbound, NamesOK, TypeOK
<1>2. ASSUME NEW c \in calls
      PROVE  /\ path'[c] \in [Caller : Nodes, Callee : Nodes, type : PathTypes]
             /\ path'[c].Caller = NodeOf(c[1])
             /\ path'[c].Callee = IF c[1] \in Members /\ c[2] \in Members
                                  THEN NodeOf(c[1]) ELSE NodeOf(c[2])
  <2>1. CASE c[2] \notin Members
    <3>1. path'[c] = path[c]
      BY <2>1 DEF MarkInbound
    <3>2. QED
      BY <2>1, <3>1, <1>1 DEF NodeOf
  <2>2. CASE c[2] \in Members /\ path[c].Caller = path[c].Callee
    <3>1. PICK t \in PathTypes : path'[c] = [path[c] EXCEPT !.type = t]
      BY <2>2 DEF MarkInbound, PathTypes
    <3>2. /\ path'[c] \in [Caller : Nodes, Callee : Nodes, type : PathTypes]
          /\ path'[c].Caller = path[c].Caller /\ path'[c].Callee = path[c].Callee
      BY <3>1, <1>1
    <3>3. c[1] \in Members
      BY <2>2, <1>1 DEF NodeOf
    <3>4. QED
      BY <2>2, <3>2, <3>3, <1>1
  <2>3. CASE c[2] \in Members /\ path[c].Caller # path[c].Callee
    <3>1. path'[c] = [path[c] EXCEPT !.Callee = intra[c[2]], !.type = "MarkInbound"]
      BY <2>3 DEF MarkInbound
    <3>2. /\ path'[c] \in [Caller : Nodes, Callee : Nodes, type : PathTypes]
          /\ path'[c].Caller = path[c].Caller /\ path'[c].Callee = NodeOf(c[2])
      BY <2>3, <3>1, <1>1 DEF NodeOf, PathTypes
    <3>3. QED
      BY <2>3, <3>2, <1>1
  <2>4. QED
    BY <2>1, <2>2, <2>3
<1>3. path' \in [calls -> [Caller : Nodes, Callee : Nodes, type : PathTypes]]
  <2>1. path' = [c \in calls |-> path'[c]]
    BY DEF MarkInbound
  <2>2. QED
    BY <2>1, <1>2
<1>4. TypeOK' /\ GraphOK' /\ NumbersOK' /\ \A f : NodeOf(f)' = NodeOf(f)
  <2>1. phase' \in Phases
    BY DEF MarkInbound, Phases
  <2>2. QED
    BY <2>1, <1>3, BasicRenaming DEF MarkInbound
<1>5. Members' = Members
  BY DEF MarkInbound, Members
<1>6. NamesOK'
  <2>1. /\ phase = "inbound" /\ phase' = "merge"
        /\ UNCHANGED <<calls, calledAt, callsAt>>
    BY DEF MarkInbound
  <2>2. \A c \in calls : calledAt[c] = c[2] /\ callsAt[c] = c[1]
    BY <2>1 DEF NamesOK
  <2>3. QED
    BY ONLY <1>2, <1>4, <1>5, <2>1, <2>2 DEF NamesOK
<1>7. QED
  BY <1>4, <1>6

LEMMA BasicMerge == BasicInv /\ MergeMaps => BasicInv'
<1> SUFFICES ASSUME BasicInv, MergeMaps PROVE BasicInv'
  OBVIOUS
<1> USE DEF BasicInv
<1>1. UNCHANGED <<calls, inLoop, path, mark, relevant, intra>>
  BY DEF MergeMaps
<1>2. Members' = Members /\ Nodes' = Nodes /\ \A f : NodeOf(f)' = NodeOf(f)
  BY <1>1 DEF Members, Nodes, NodeOf
<1>3. GraphOK' /\ NumbersOK'
  BY <1>1, <1>2 DEF GraphOK, NumbersOK
<1>4. \A c \in calls : /\ calledAt'[c] = NodeOf(c[2]) /\ callsAt'[c] = NodeOf(c[1])
                       /\ calledAt'[c] \in Nodes /\ callsAt'[c] \in Nodes
  <2>1. \A c \in calls : c[1] \in Nodes /\ c[2] \in Nodes
    BY GraphFacts DEF Nodes
  <2>2. QED
    BY <2>1, NodeOfInNodes DEF MergeMaps, NamesOK
<1>5. loopSet' \subseteq Nodes
  BY NodeOfInNodes DEF MergeMaps, TypeOK
<1>6. TypeOK'
  BY <1>1, <1>2, <1>4, <1>5 DEF MergeMaps, TypeOK, Phases
<1>7. NamesOK'
  BY <1>1, <1>2, <1>4 DEF MergeMaps, NamesOK
<1>8. QED
  BY <1>3, <1>6, <1>7

LEMMA BasicStutter == BasicInv /\ UNCHANGED vars => BasicInv'
<1> SUFFICES ASSUME BasicInv, UNCHANGED vars PROVE BasicInv'
  OBVIOUS
<1> USE DEF BasicInv, vars
<1>1. Members' = Members /\ Nodes' = Nodes /\ \A f : NodeOf(f)' = NodeOf(f)
  BY DEF Members, Nodes, NodeOf
<1>2. TypeOK'
  BY <1>1 DEF TypeOK
<1>3. GraphOK' /\ NumbersOK'
  BY <1>1 DEF GraphOK, NumbersOK
<1>4. NamesOK'
  BY <1>1 DEF NamesOK
<1>5. QED
  BY <1>2, <1>3, <1>4

LEMMA BasicNext == BasicInv /\ [Next]_vars => BasicInv'
<1> SUFFICES ASSUME BasicInv, [Next]_vars PROVE BasicInv'
  OBVIOUS
<1>1. CASE doInitialization \/ MarkEntry \/ MarkDone \/ Relate \/ RelateDone
  BY <1>1, BasicTraversals
<1>2. CASE MarkSimpleLoops
  BY <1>2, BasicSimpleLoops
<1>3. CASE NameCycles
  BY <1>3, BasicNameCycles
<1>4. CASE MarkInner
  BY <1>4, BasicInner
<1>5. CASE MarkInbound
  BY <1>5, BasicInbound
<1>6. CASE MergeMaps
  BY <1>6, BasicMerge
<1>7. CASE Done \/ UNCHANGED vars
  BY <1>7, BasicStutter DEF Done
<1>8. QED
  BY <1>1, <1>2, <1>3, <1>4, <1>5, <1>6, <1>7 DEF Next

\* The basic invariant: shapes, and the names on the calls after each step of the
\* pass (instrIsInaLoop).
THEOREM BasicInvariant == Spec => []BasicInv
<1>1. Init => BasicInv
  BY BasicInit
<1>2. BasicInv /\ [Next]_vars => BasicInv'
  BY BasicNext
<1>3. QED
  BY <1>1, <1>2, PTL DEF Spec

\* Every variable keeps its shape, and no name of a component is a function's.
THEOREM RelevantTypes == Spec => []TypeOK
<1>1. BasicInv => TypeOK
  BY DEF BasicInv
<1>2. QED
  BY <1>1, BasicInvariant, PTL

-----------------------------------------------------------------------------
(* The checks before the sort.                                             *)

\* The name of a node is no member of a component.
LEMMA NodeNames ==
    ASSUME TypeOK, NEW f \in Functions
    PROVE  NodeOf(f) \notin Members
<1>1. CASE f \in Members
  <2>1. NodeOf(f) = intra[f] /\ intra[f] < 0
    BY <1>1 DEF NodeOf, TypeOK
  <2>2. \A g \in Members : g \in Nat /\ ~ (g < 0)
    BY GraphAssumption DEF TypeOK
  <2>3. QED
    BY <2>1, <2>2
<1>2. CASE f \notin Members
  BY <1>2 DEF NodeOf
<1>3. QED
  BY <1>1, <1>2

\* None of the checks of ComputeEdgeWeight stops the pass: MarkInner, MarkInbound
\* and MergeMaps leave both maps and both ends of each call with the same names.
THEOREM ChecksNeverStop == Spec => []ChecksPass
<1>1. BasicInv => ChecksPass
  <2> SUFFICES ASSUME BasicInv, phase = "done", NEW f \in relevant
               PROVE  /\ \A c \in FinalCallees(f) :
                            /\ path[c].Callee \notin Members /\ path[c].Caller = f
                            /\ c \in FinalCallers(path[c].Callee)
                      /\ \A c \in FinalCallers(f) :
                            /\ path[c].Caller \notin Members /\ path[c].Callee = f
                            /\ c \in FinalCallees(path[c].Caller)
    BY DEF ChecksPass
  <2>1. ASSUME NEW c \in calls, path[c].Caller # path[c].Callee
        PROVE  /\ path[c].Caller = NodeOf(c[1]) /\ path[c].Callee = NodeOf(c[2])
               /\ calledAt[c] = NodeOf(c[2]) /\ callsAt[c] = NodeOf(c[1])
               /\ NodeOf(c[1]) \notin Members /\ NodeOf(c[2]) \notin Members
    <3>1. c[1] \in Functions /\ c[2] \in Functions
      BY GraphFacts DEF BasicInv
    <3>2. QED
      BY <2>1, <3>1, NodeNames DEF BasicInv, NamesOK
  <2>2. QED
    BY <2>1 DEF FinalCallees, FinalCallers
<1>2. QED
  BY <1>1, BasicInvariant, PTL


-----------------------------------------------------------------------------
(* Step 1 marks the functions from which a heap function is reached.       *)

\* The functions, heap functions left out, from which a heap function is reached.
Ancestors == {f \in Functions \ HMFs : Below(f) \cap HMFs # {}}

\* The callers of heap functions, with which step 1 starts.
HMFCallers == {c[1] : c \in {d \in calls : d[2] \in HMFs}}

\* While step 1 climbs: what is visited is closed under the callers of its functions,
\* the entries that are done have their callers visited, and all of it is justified.
Climbing ==
    /\ mark = HMFCallers /\ todo \subseteq mark /\ visited \subseteq Ancestors
    /\ \A c \in calls : c[2] \in visited => c[1] \in visited
    /\ \A c \in calls : c[2] \in mark \ todo => c[1] \in visited
    /\ mark \cup visited \subseteq final /\ final \subseteq mark \cup visited \cup HMFs

MarkedOK ==
    /\ phase = "start" => visited = {}
    /\ phase = "mark" => Climbing
    /\ phase \notin {"start", "mark"} => mark \ HMFs = Ancestors

LEMMA BelowIsFrom == \A f : Below(f) = From(calls, f)
BY DEF Below, From

\* A caller of a heap function or of an ancestor is an ancestor, and there are no others.
LEMMA AncestorFacts ==
    ASSUME GraphOK
    PROVE  /\ HMFCallers \subseteq Ancestors
           /\ \A c \in calls : c[2] \in Ancestors => c[1] \in Ancestors
           /\ \A X : HMFCallers \subseteq X /\ (\A c \in calls : c[2] \in X => c[1] \in X)
                     => Ancestors \subseteq X
<1>1. IsFiniteSet(calls) /\ \A c \in calls : c[1] \in Functions \ HMFs
  BY GraphFacts
<1>2. ASSUME NEW c \in calls, c[2] \in HMFs PROVE c[1] \in Ancestors
  <2>1. c[2] \in Below(c[1])
    BY <1>1, FromFacts, BelowIsFrom
  <2>2. QED
    BY <2>1, <1>1, <1>2 DEF Ancestors
<1>3. ASSUME NEW c \in calls, c[2] \in Ancestors PROVE c[1] \in Ancestors
  <2>1. c[2] \in From(calls, c[1])
    BY <1>1, FromFacts
  <2>2. Below(c[2]) \subseteq Below(c[1])
    BY <2>1, <1>1, FromTransitive, BelowIsFrom
  <2>3. QED
    BY <2>2, <1>1, <1>3 DEF Ancestors
<1>4. ASSUME NEW X, HMFCallers \subseteq X, \A c \in calls : c[2] \in X => c[1] \in X,
             NEW f \in Ancestors
      PROVE  f \in X
  <2>1. \A c \in calls : c[2] \in X \/ c[2] \in HMFs => c[1] \in X
    BY <1>4 DEF HMFCallers
  <2>2. From(calls, f) \cap HMFs # {}
    BY BelowIsFrom DEF Ancestors
  <2>3. QED
    BY <2>1, <2>2, <1>1, BackFrom
<1>5. QED
  BY <1>2, <1>3, <1>4 DEF HMFCallers

\* While the maps hold the program's calls, the parents of a function are its callers.
LEMMA UpIsCallers ==
    ASSUME BasicInv, phase \in {"start", "mark"}
    PROVE  \A F : After(Up, F) = {c[1] : c \in {d \in calls : d[2] \in F}}
<1>1. \A c \in calls : calledAt[c] = c[2] /\ path[c].Caller = c[1]
  BY DEF BasicInv, NamesOK
<1>2. Up = {<<c[2], c[1]>> : c \in calls}
  BY <1>1 DEF Up
<1>3. ASSUME NEW F PROVE After(Up, F) = {c[1] : c \in {d \in calls : d[2] \in F}}
  <2>1. \A s \in Up : s[1] \in F => s[2] \in {c[1] : c \in {d \in calls : d[2] \in F}}
    BY <1>2
  <2>2. \A c \in calls : c[2] \in F => c[1] \in After(Up, F)
    <3>1. SUFFICES ASSUME NEW c \in calls, c[2] \in F PROVE c[1] \in After(Up, F)
      OBVIOUS
    <3>2. <<c[2], c[1]>> \in Up /\ <<c[2], c[1]>>[1] \in F /\ <<c[2], c[1]>>[2] = c[1]
      BY <1>2, <3>1
    <3>3. QED
      BY <3>2 DEF After
  <2>3. QED
    BY <2>1, <2>2 DEF After
<1>4. QED
  BY <1>3

LEMMA MarkedInit == Init => MarkedOK
BY DEF Init, MarkedOK

\* What the conjuncts about one phase are about does not change after it.
LEMMA AncestorsKept == ASSUME UNCHANGED calls
                       PROVE  Ancestors' = Ancestors /\ HMFCallers' = HMFCallers
BY DEF Ancestors, HMFCallers, Below

LEMMA MarkedStart == BasicInv /\ MarkedOK /\ doInitialization => MarkedOK'
<1> SUFFICES ASSUME BasicInv, MarkedOK, doInitialization PROVE MarkedOK'
  OBVIOUS
<1>1. Ancestors' = Ancestors /\ HMFCallers' = HMFCallers
  BY AncestorsKept DEF doInitialization, graph
<1>2. mark' = HMFCallers /\ todo' = mark' /\ final' = mark' /\ visited' = {}
  BY DEF doInitialization, MarkedOK, HMFCallers
<1>3. Climbing'
  BY <1>1, <1>2 DEF Climbing
<1>4. QED
  BY <1>3 DEF MarkedOK, doInitialization

LEMMA MarkedEntry == BasicInv /\ MarkedOK /\ MarkEntry => MarkedOK'
<1> SUFFICES ASSUME BasicInv, MarkedOK, MarkEntry PROVE MarkedOK'
  OBVIOUS
<1> DEFINE f == Min(todo)
           up == Traverse(Parents(f), visited, Up)
           climbed == IF f \in visited THEN {} ELSE up
<1>1. Ancestors' = Ancestors /\ HMFCallers' = HMFCallers
  BY AncestorsKept DEF MarkEntry, graph
<1>2. Climbing /\ GraphOK /\ UNCHANGED <<calls, mark, phase>> /\ phase = "mark"
  BY DEF MarkedOK, MarkEntry, BasicInv, graph
<1>3. f \in todo
  BY FirstFound DEF BasicInv, MarkEntry, TypeOK
<1>4. /\ Parents(f) \ visited \subseteq up
      /\ After(Up, up) \ visited \subseteq up
      /\ \A X : Parents(f) \ visited \subseteq X /\ After(Up, X) \ visited \subseteq X
                   => up \subseteq X
  BY <1>2, GraphFacts, TraverseLeast
<1>5. FirstHMFs(f, 1) \subseteq HMFs /\ FirstHMFs(f, 2) \subseteq HMFs
  BY DEF FirstHMFs
<1>6. \A F : After(Up, F) = {c[1] : c \in {d \in calls : d[2] \in F}}
  BY <1>2, UpIsCallers
<1>7. Parents(f) = {c[1] : c \in {d \in calls : d[2] = f}}
  BY <1>6 DEF Parents
<1> HIDE DEF f, up, climbed
<1>8. PICK heap \in SUBSET HMFs : /\ visited' = visited \cup climbed
                                  /\ final' = final \cup climbed \cup heap
                                  /\ todo' = todo \ {f}
  BY <1>5 DEF MarkEntry, f, up, climbed
<1>9. up \subseteq Ancestors
  <2>1. Parents(f) \subseteq Ancestors
    BY <1>2, <1>3, <1>7, AncestorFacts DEF Climbing
  <2>2. After(Up, Ancestors) \subseteq Ancestors
    BY <1>2, <1>6, AncestorFacts
  <2>3. QED
    BY <2>1, <2>2, <1>4
<1>10. \A c \in calls : c[2] \in visited' => c[1] \in visited'
  <2>1. ASSUME NEW c \in calls, c[2] \in up PROVE c[1] \in visited \cup up
    BY <2>1, <1>4, <1>6
  <2>2. QED
    BY <2>1, <1>2, <1>8 DEF Climbing, climbed
<1>11. \A c \in calls : c[2] = f => c[1] \in visited'
  BY <1>2, <1>4, <1>7, <1>8 DEF Climbing, climbed
<1>12. Climbing'
  <2>1. visited' \subseteq Ancestors
    BY <1>2, <1>8, <1>9 DEF Climbing, climbed
  <2>2. \A c \in calls : c[2] \in mark \ todo' => c[1] \in visited'
    BY <1>2, <1>8, <1>11 DEF Climbing
  <2>3. mark \cup visited' \subseteq final' /\ final' \subseteq mark \cup visited' \cup HMFs
    BY <1>2, <1>8 DEF Climbing
  <2>4. QED
    BY <2>1, <2>2, <2>3, <1>1, <1>2, <1>8, <1>10 DEF Climbing
<1>13. QED
  BY <1>2, <1>12 DEF MarkedOK

LEMMA MarkedDone == BasicInv /\ MarkedOK /\ MarkDone => MarkedOK'
<1> SUFFICES ASSUME BasicInv, MarkedOK, MarkDone PROVE MarkedOK'
  OBVIOUS
<1>1. Ancestors' = Ancestors
  BY AncestorsKept DEF MarkDone, graph
<1>2. Climbing /\ GraphOK /\ todo = {}
  BY DEF MarkedOK, MarkDone, BasicInv
<1>3. mark' \ HMFs = (mark \cup visited) \ HMFs
  BY <1>2 DEF MarkDone, Climbing
<1>4. mark \cup visited \subseteq Ancestors
  BY <1>2, AncestorFacts DEF Climbing
<1>5. Ancestors \subseteq mark \cup visited
  <2>1. \A c \in calls : c[2] \in mark \cup visited => c[1] \in mark \cup visited
    BY <1>2 DEF Climbing
  <2>2. HMFCallers \subseteq mark \cup visited
    BY <1>2 DEF Climbing
  <2>3. QED
    BY <2>1, <2>2, <1>2, AncestorFacts
<1>6. Ancestors \cap HMFs = {}
  BY DEF Ancestors
<1>7. QED
  BY <1>1, <1>3, <1>4, <1>5, <1>6 DEF MarkedOK, MarkDone

LEMMA MarkedNext == BasicInv /\ MarkedOK /\ [Next]_vars => MarkedOK'
<1> SUFFICES ASSUME BasicInv, MarkedOK, [Next]_vars PROVE MarkedOK'
  OBVIOUS
<1>1. CASE doInitialization
  BY <1>1, MarkedStart
<1>2. CASE MarkEntry
  BY <1>2, MarkedEntry
<1>3. CASE MarkDone
  BY <1>3, MarkedDone
<1>4. CASE UNCHANGED vars
  BY <1>4, AncestorsKept DEF MarkedOK, Climbing, vars
<1>5. CASE \/ MarkSimpleLoops \/ NameCycles \/ MarkInner \/ MarkInbound \/ MergeMaps
           \/ Relate \/ RelateDone
  <2>1. UNCHANGED <<calls, mark>> /\ phase \notin {"start", "mark"}
        /\ phase' \notin {"start", "mark"}
    BY <1>5 DEF MarkSimpleLoops, NameCycles, MarkInner, MarkInbound, MergeMaps, Relate,
                RelateDone, graph
  <2>2. QED
    BY <2>1, AncestorsKept DEF MarkedOK
<1>6. QED
  BY <1>1, <1>2, <1>3, <1>4, <1>5 DEF Next, Done

\* Step 1 marks exactly the functions from which a heap function is reached, though
\* each entry's climb stops at what earlier ones have visited.
THEOREM AllAncestorsMarked == Spec => []AncestorsMarked
<1>1. Init => MarkedOK
  BY MarkedInit
<1>2. BasicInv /\ MarkedOK /\ [Next]_vars => MarkedOK'
  BY MarkedNext
<1>3. BasicInv /\ MarkedOK => AncestorsMarked
  BY DEF MarkedOK, AncestorsMarked, Ancestors
<1>4. QED
  BY <1>1, <1>2, <1>3, BasicInvariant, PTL DEF Spec


-----------------------------------------------------------------------------
(* The components of mutually recursive functions.                         *)

\* The calls between marked functions, of which Kosaraju's algorithm is told.
Within == calls \cap (mark \X mark)

Mutual(f, g) == g \in From(Within, f) /\ f \in From(Within, g)

\* Functions have the same name of a component just if they call each other.
CyclesOK ==
    phase \in {"inner", "inbound", "merge", "relate", "done"} =>
        /\ Members \subseteq mark
        /\ \A f, g \in mark :
              f # g => (Mutual(f, g) <=> /\ f \in Members /\ g \in Members
                                         /\ intra[f] = intra[g])

LEMMA WithinFacts ==
    ASSUME GraphOK
    PROVE  /\ IsFiniteSet(Within) /\ Within \subseteq calls
           /\ \A c \in calls : c[1] \in mark /\ c[2] \in mark => c \in Within
           /\ \A f : From(Within, f) \subseteq From(calls, f)
<1>1. IsFiniteSet(calls) /\ Within \subseteq calls /\ IsFiniteSet(Within)
  BY GraphFacts, FS_Subset DEF Within
<1>2. \A c \in calls : c[1] \in mark /\ c[2] \in mark => c \in Within
  BY GraphFacts DEF Within
<1>3. \A f : From(Within, f) \subseteq From(calls, f)
  BY <1>1, FromMonotone
<1>4. QED
  BY <1>1, <1>2, <1>3

LEMMA MutualTransitive ==
    ASSUME GraphOK, NEW f, NEW g, NEW h, Mutual(f, g), Mutual(g, h)
    PROVE  Mutual(f, h)
BY WithinFacts, FromTransitive DEF Mutual

\* The component of a marked function.
Knot(f) == {g \in mark : g = f \/ Mutual(f, g)}

LEMMA KnotFacts ==
    ASSUME GraphOK
    PROVE  /\ Components = {Knot(f) : f \in mark}
           /\ \A f, g \in mark : g \in Knot(f) <=> Knot(g) = Knot(f)
<1>1. \A f \in mark : Traverse({f}, {}, Within) = {f} \cup From(Within, f)
  BY WithinFacts, TraverseOne
<1>2. Components = {Knot(f) : f \in mark}
  <2> DEFINE below == [f \in mark |-> Traverse({f}, {}, Within)]
  <2>1. Components = {{g \in mark : g \in below[f] /\ f \in below[g]} : f \in mark}
    BY DEF Components, Within
  <2>2. \A f \in mark : {g \in mark : g \in below[f] /\ f \in below[g]} = Knot(f)
    BY <1>1 DEF Knot, Mutual
  <2>3. QED
    BY <2>1, <2>2
<1>3. ASSUME NEW f \in mark, NEW g \in mark, g \in Knot(f) PROVE Knot(g) = Knot(f)
  <2>1. CASE g = f
    BY <2>1
  <2>2. CASE Mutual(f, g)
    <3>1. Mutual(g, f)
      BY <2>2 DEF Mutual
    <3>2. \A h : Mutual(f, h) => Mutual(g, h)
      BY <3>1, MutualTransitive
    <3>3. \A h : Mutual(g, h) => Mutual(f, h)
      BY <2>2, MutualTransitive
    <3>4. QED
      BY <2>2, <3>1, <3>2, <3>3 DEF Knot
  <2>3. QED
    BY <1>3, <2>1, <2>2 DEF Knot
<1>4. \A f \in mark : f \in Knot(f)
  BY DEF Knot
<1>5. QED
  BY <1>2, <1>3, <1>4

LEMMA CyclesNamed == BasicInv /\ NameCycles => CyclesOK'
<1> SUFFICES ASSUME BasicInv, NameCycles PROVE CyclesOK'
  OBVIOUS
<1> DEFINE cycles == FunctionCycles
           home(f) == CHOOSE C \in cycles : f \in C
<1>1. GraphOK /\ TypeOK
  BY DEF BasicInv
<1>2. PICK order \in [cycles -> 1 .. Cardinality(cycles)] :
         /\ \A C, D \in cycles : order[C] = order[D] => C = D
         /\ intra' = [f \in UNION cycles |-> IntraName(order[home(f)])]
  BY DEF NameCycles
<1>3. Cardinality(cycles) \in Nat /\ UNION cycles \subseteq mark
  BY <1>1, CyclesFinite
<1>4. cycles \subseteq {Knot(f) : f \in mark}
  BY <1>1, KnotFacts DEF FunctionCycles
<1>5. \A f \in mark : Knot(f) \in cycles <=> \E g \in mark : g # f /\ Mutual(f, g)
  <2> SUFFICES ASSUME NEW f \in mark
               PROVE  Knot(f) \in cycles <=> \E g \in mark : g # f /\ Mutual(f, g)
    OBVIOUS
  <2>1. Knot(f) \in Components /\ f \in Knot(f)
    BY <1>1, KnotFacts
  <2>2. IsFiniteSet(Knot(f)) /\ Cardinality(Knot(f)) \in Nat
    <3>1. IsFiniteSet(mark)
      BY <1>1, FunctionsFinite, FS_Subset DEF TypeOK
    <3>2. Knot(f) \in SUBSET mark
      BY DEF Knot
    <3>3. QED
      BY <3>1, <3>2, FS_Subset, FS_CardinalityType
  <2>3. Cardinality(Knot(f)) # 0
    BY <2>1, <2>2, FS_EmptySet
  <2>4. Cardinality(Knot(f)) = 1 <=> Knot(f) = {f}
    BY <2>1, <2>2, FS_Singleton
  <2>5. Cardinality(Knot(f)) > 1 <=> Knot(f) # {f}
    BY <2>2, <2>3, <2>4
  <2>6. Knot(f) # {f} <=> \E g \in mark : g # f /\ Mutual(f, g)
    BY DEF Knot
  <2>7. QED
    BY <2>1, <2>5, <2>6 DEF FunctionCycles
<1>6. \A f \in UNION cycles : home(f) = Knot(f) /\ Knot(f) \in cycles
  <2> SUFFICES ASSUME NEW f \in UNION cycles
               PROVE  home(f) = Knot(f) /\ Knot(f) \in cycles
    OBVIOUS
  <2>1. home(f) \in cycles /\ f \in home(f)
    OBVIOUS
  <2> HIDE DEF cycles, home
  <2>2. PICK g \in mark : home(f) = Knot(g)
    BY <2>1, <1>4
  <2>3. f \in mark /\ f \in Knot(g)
    BY <2>1, <2>2, <1>3
  <2>4. QED
    BY <2>1, <2>2, <2>3, <1>1, KnotFacts
<1> HIDE DEF cycles, home
<1>7. Members' = UNION cycles
  BY <1>2 DEF Members
<1>8. \A f \in UNION cycles : intra'[f] = -order[Knot(f)]
  BY <1>2, <1>6 DEF IntraName
<1>9. \A f, g \in UNION cycles : intra'[f] = intra'[g] <=> Knot(f) = Knot(g)
  <2> SUFFICES ASSUME NEW f \in UNION cycles, NEW g \in UNION cycles
               PROVE  intra'[f] = intra'[g] <=> Knot(f) = Knot(g)
    OBVIOUS
  <2>1. order[Knot(f)] \in Int /\ order[Knot(g)] \in Int
    BY <1>2, <1>3, <1>6
  <2>2. -order[Knot(f)] = -order[Knot(g)] <=> order[Knot(f)] = order[Knot(g)]
    BY <2>1
  <2>3. QED
    BY <2>2, <1>2, <1>6, <1>8
<1>10. ASSUME NEW f \in mark, NEW g \in mark, f # g
       PROVE  Mutual(f, g) <=> /\ f \in UNION cycles /\ g \in UNION cycles
                               /\ intra'[f] = intra'[g]
  <2>1. ASSUME Mutual(f, g)
        PROVE  f \in UNION cycles /\ g \in UNION cycles /\ intra'[f] = intra'[g]
    <3>1. Mutual(g, f)
      BY <2>1 DEF Mutual
    <3>2. Knot(f) \in cycles /\ Knot(g) \in cycles
      BY <2>1, <3>1, <1>5, <1>10
    <3>3. f \in Knot(f) /\ g \in Knot(g) /\ g \in Knot(f)
      BY <2>1 DEF Knot
    <3>4. Knot(g) = Knot(f)
      BY <3>3, <1>1, KnotFacts
    <3>5. QED
      BY <3>2, <3>3, <3>4, <1>9
  <2>2. ASSUME f \in UNION cycles, g \in UNION cycles, intra'[f] = intra'[g]
        PROVE  Mutual(f, g)
    <3>1. Knot(g) = Knot(f)
      BY <2>2, <1>9
    <3>2. g \in Knot(f)
      BY <3>1, <1>1, KnotFacts
    <3>3. QED
      BY <3>2, <1>10 DEF Knot
  <2>3. QED
    BY <2>1, <2>2
<1>11. mark' = mark /\ \A f, g : Mutual(f, g)' <=> Mutual(f, g)
  BY DEF NameCycles, graph, Mutual, Within
<1>12. QED
  BY <1>3, <1>7, <1>10, <1>11 DEF CyclesOK

LEMMA CyclesNext == BasicInv /\ CyclesOK /\ [Next]_vars => CyclesOK'
<1> SUFFICES ASSUME BasicInv, CyclesOK, [Next]_vars PROVE CyclesOK'
  OBVIOUS
<1>1. CASE NameCycles
  BY <1>1, CyclesNamed
<1>2. CASE doInitialization \/ MarkEntry \/ MarkDone \/ MarkSimpleLoops
  BY <1>2 DEF doInitialization, MarkEntry, MarkDone, MarkSimpleLoops, CyclesOK
<1>3. CASE MarkInner \/ MarkInbound \/ MergeMaps \/ Relate \/ RelateDone \/ UNCHANGED vars
  <2>1. UNCHANGED <<calls, mark, intra>>
        /\ (phase' \in {"inner", "inbound", "merge", "relate", "done"}
              => phase \in {"inner", "inbound", "merge", "relate", "done"})
    BY <1>3 DEF MarkInner, MarkInbound, MergeMaps, Relate, RelateDone, graph, vars
  <2>2. Members' = Members /\ \A f, g : Mutual(f, g)' <=> Mutual(f, g)
    BY <2>1 DEF Members, Mutual, Within
  <2>3. QED
    BY <2>1, <2>2 DEF CyclesOK
<1>4. QED
  BY <1>1, <1>2, <1>3 DEF Next, Done

THEOREM CyclesInvariant == Spec => [](BasicInv /\ MarkedOK /\ CyclesOK)
<1>1. Init => CyclesOK
  BY DEF Init, CyclesOK
<1>2. BasicInv /\ CyclesOK /\ [Next]_vars => CyclesOK'
  BY CyclesNext
<1>3. Init => MarkedOK
  BY MarkedInit
<1>4. BasicInv /\ MarkedOK /\ [Next]_vars => MarkedOK'
  BY MarkedNext
<1>5. QED
  BY <1>1, <1>2, <1>3, <1>4, BasicInvariant, PTL DEF Spec


-----------------------------------------------------------------------------
(* The loop functions, and the steps of the traversals of step 3.          *)

Late == {"relate", "done"}

\* The nodes of the marked functions.
MarkNodes == {NodeOf(f) : f \in mark}

LoopsOK ==
    /\ phase = "cycles" => loopSet \subseteq mark
    /\ phase \in {"inner", "inbound", "merge"} =>
          Members \subseteq loopSet /\ loopSet \subseteq mark
    /\ phase \in Late =>
          /\ loopSet \subseteq MarkNodes /\ \A f \in Members : intra[f] \in loopSet
          /\ todo \subseteq loopSet /\ loopSet \subseteq final /\ final \subseteq MarkNodes

CycleInv == BasicInv /\ MarkedOK /\ CyclesOK

\* The names the maps have in step 3.
LEMMA LateNames ==
    ASSUME CycleInv, phase \in Late
    PROVE  /\ \A c \in calls : /\ c[1] \in Functions /\ c[2] \in Functions
                               /\ calledAt[c] = NodeOf(c[2]) /\ callsAt[c] = NodeOf(c[1])
                               /\ path[c].Caller = NodeOf(c[1])
                               /\ path[c].Callee =
                                     IF c[1] \in Members /\ c[2] \in Members
                                     THEN NodeOf(c[1]) ELSE NodeOf(c[2])
           /\ \A f \in Functions : NodeOf(f) \notin Members
           /\ \A c \in calls : path[c].Caller \notin Members /\ path[c].Callee \notin Members
           /\ Members \subseteq mark /\ mark \subseteq Functions
<1>1. \A c \in calls : c[1] \in Functions /\ c[2] \in Functions
  BY GraphFacts DEF CycleInv, BasicInv
<1>2. \A f \in Functions : NodeOf(f) \notin Members
  BY NodeNames DEF CycleInv, BasicInv
<1>3. QED
  BY <1>1, <1>2 DEF CycleInv, BasicInv, NamesOK, CyclesOK, TypeOK, Late

\* Every step leads to the name of a node, never to a member of a component.
LEMMA VisitsNodes ==
    ASSUME CycleInv, phase \in Late, NEW f, NEW seen
    PROVE  /\ Traverse(Parents(f) \cap mark, seen, Up) \cap Members = {}
           /\ Traverse(Children(f) \cap mark, seen, Down) \cap Members = {}
<1> DEFINE X == Nodes \ Members
<1>1. GraphOK /\ IsFiniteSet(Up) /\ IsFiniteSet(Down)
  BY GraphFacts DEF CycleInv, BasicInv
<1>2. \A c \in calls : path[c].Caller \in X /\ path[c].Callee \in X
  BY LateNames DEF CycleInv, BasicInv, TypeOK
<1> HIDE DEF X
<1>3. \A F : After(Up, F) \subseteq X /\ After(Down, F) \subseteq X
  BY <1>2 DEF After, Up, Down
<1>4. /\ Traverse(Parents(f) \cap mark, seen, Up) \subseteq X
      /\ Traverse(Children(f) \cap mark, seen, Down) \subseteq X
  <2> DEFINE ps == Parents(f) \cap mark
             cs == Children(f) \cap mark
  <2>1. ps \subseteq X /\ cs \subseteq X
    BY <1>3 DEF Parents, Children
  <2> HIDE DEF ps, cs
  <2>2. Traverse(ps, seen, Up) \subseteq X /\ Traverse(cs, seen, Down) \subseteq X
    BY <2>1, <1>1, <1>3, TraverseLeast
  <2>3. QED
    BY <2>2 DEF ps, cs
<1>5. QED
  BY <1>4 DEF X

LEMMA LoopsNext == CycleInv /\ LoopsOK /\ [Next]_vars => LoopsOK'
<1> SUFFICES ASSUME CycleInv, LoopsOK, [Next]_vars PROVE LoopsOK'
  OBVIOUS
<1>1. CASE doInitialization \/ MarkEntry \/ MarkDone
  BY <1>1 DEF doInitialization, MarkEntry, MarkDone, LoopsOK, Late
<1>2. CASE MarkSimpleLoops
  BY <1>2 DEF MarkSimpleLoops, LoopsOK, Late
<1>3. CASE NameCycles
  <2>1. Members' = UNION FunctionCycles
    BY <1>3 DEF NameCycles, Members
  <2>2. UNION FunctionCycles \subseteq mark
    BY CyclesFinite DEF CycleInv, BasicInv
  <2>3. QED
    BY <1>3, <2>1, <2>2 DEF NameCycles, LoopsOK, Late
<1>4. CASE MarkInner \/ MarkInbound
  <2>1. Members' = Members
    BY <1>4 DEF MarkInner, MarkInbound, Members
  <2>2. QED
    BY <1>4, <2>1 DEF MarkInner, MarkInbound, LoopsOK, Late
<1>5. CASE MergeMaps
  <2>1. Members' = Members /\ intra' = intra /\ mark' = mark
        /\ loopSet' = {NodeOf(f) : f \in loopSet} /\ final' = loopSet' /\ todo' = loopSet'
    BY <1>5 DEF MergeMaps, Members
  <2>2. MarkNodes' = MarkNodes
    BY <2>1 DEF MarkNodes, NodeOf
  <2>3. Members \subseteq loopSet /\ loopSet \subseteq mark
    BY <1>5 DEF MergeMaps, LoopsOK
  <2>4. loopSet' \subseteq MarkNodes
    BY <2>1, <2>3 DEF MarkNodes
  <2>5. \A f \in Members : intra[f] \in loopSet'
    BY <2>1, <2>3 DEF NodeOf
  <2>6. QED
    BY <1>5, <2>1, <2>2, <2>4, <2>5 DEF LoopsOK, Late, MergeMaps
<1>6. CASE Relate \/ RelateDone \/ UNCHANGED vars
  <2>1. UNCHANGED <<intra, mark, loopSet>> /\ phase' \in {phase, "done"}
        /\ (phase' # phase => phase = "relate")
    BY <1>6 DEF Relate, RelateDone, vars
  <2>2. Members' = Members /\ MarkNodes' = MarkNodes
    BY <2>1 DEF Members, MarkNodes, NodeOf
  <2>3. CASE RelateDone \/ UNCHANGED vars
    BY <2>1, <2>2, <2>3 DEF LoopsOK, Late, RelateDone, vars
  <2>4. CASE Relate
    <3> DEFINE f == Min(todo)
               up == Traverse(Parents(f) \cap mark, visited \cup {f}, Up)
               down == Traverse(Children(f) \cap mark, visited \cup {f} \cup up, Down)
    <3>1. phase \in Late
      BY <2>4 DEF Relate, Late
    <3>2. up \cap Members = {} /\ down \cap Members = {}
      BY <3>1, VisitsNodes
    <3> HIDE DEF f, up, down
    <3>3. /\ phase' = phase /\ todo' \subseteq todo
          /\ final' = final \cup ((up \cup down) \cap mark)
      BY <2>4 DEF Relate, f, up, down
    <3>4. (up \cup down) \cap mark \subseteq MarkNodes
      BY <3>2 DEF MarkNodes, NodeOf
    <3>5. QED
      BY <2>1, <2>2, <3>1, <3>3, <3>4 DEF LoopsOK, Late
  <2>5. QED
    BY <1>6, <2>3, <2>4
<1>7. QED
  BY <1>1, <1>2, <1>3, <1>4, <1>5, <1>6 DEF Next, Done

LoopInv == CycleInv /\ LoopsOK

\* What is relevant in the end is what step 3 has collected.
LEMMA RelevantIsFinal ==
    ASSUME LoopInv, phase = "done"
    PROVE  relevant = final
<1>1. \A n \in final : NodeOf(n) = n
  <2> SUFFICES ASSUME NEW n \in final PROVE NodeOf(n) = n
    OBVIOUS
  <2>1. PICK f \in mark : n = NodeOf(f)
    BY DEF LoopInv, LoopsOK, MarkNodes, Late
  <2>2. n \notin Members
    BY <2>1, LateNames DEF LoopInv, Late
  <2>3. QED
    BY <2>2 DEF NodeOf
<1>2. relevant = {NodeOf(n) : n \in final}
  BY DEF LoopInv, CycleInv, BasicInv, NamesOK
<1>3. QED
  BY <1>1, <1>2

-----------------------------------------------------------------------------
(* Nodes and the functions they stand for.                                 *)

\* Two functions of one node reach each other.
LEMMA SameNode ==
    ASSUME CycleInv, phase \in Late, NEW f \in Functions, NEW g \in Functions,
           NodeOf(f) = NodeOf(g), f # g
    PROVE  /\ f \in mark /\ g \in mark /\ f \in Members /\ g \in Members
           /\ g \in From(Within, f) /\ f \in From(Within, g)
<1>1. f \in Members /\ g \in Members
  <2> DEFINE below(n) == n < 0
  <2>0. /\ \A h \in Members : below(intra[h])
        /\ \A h \in Functions : ~ below(h)
    BY GraphAssumption DEF CycleInv, BasicInv, TypeOK
  <2> HIDE DEF below
  <2>1. CASE f \in Members /\ g \notin Members
    BY <2>0, <2>1 DEF NodeOf
  <2>2. CASE f \notin Members /\ g \in Members
    BY <2>0, <2>2 DEF NodeOf
  <2>3. CASE f \notin Members /\ g \notin Members
    BY <2>3 DEF NodeOf
  <2>4. QED
    BY <2>1, <2>2, <2>3
<1>2. intra[f] = intra[g]
  BY <1>1 DEF NodeOf
<1>3. QED
  BY <1>1, <1>2 DEF CycleInv, CyclesOK, Late, Mutual

\* Marked functions that reach each other have one node.
LEMMA MutualSameNode ==
    ASSUME CycleInv, phase \in Late, NEW f \in mark, NEW g \in mark,
           f # g, g \in From(Within, f), f \in From(Within, g)
    PROVE  f \in Members /\ g \in Members /\ NodeOf(f) = NodeOf(g)
BY DEF CycleInv, CyclesOK, Late, Mutual, NodeOf

\* A marked function has its callers marked.
LEMMA MarkClosed ==
    ASSUME CycleInv, phase \in Late
    PROVE  \A c \in calls : c[2] \in mark => c[1] \in mark /\ c \in Within
<1>1. SUFFICES ASSUME NEW c \in calls, c[2] \in mark PROVE c[1] \in mark /\ c \in Within
  OBVIOUS
<1>2. GraphOK /\ mark \ HMFs = Ancestors
  BY DEF CycleInv, BasicInv, MarkedOK, Late
<1>3. c[1] \in Ancestors
  <2>1. CASE c[2] \in HMFs
    BY <2>1, <1>2, AncestorFacts DEF HMFCallers
  <2>2. CASE c[2] \notin HMFs
    BY <2>2, <1>1, <1>2, AncestorFacts
  <2>3. QED
    BY <2>1, <2>2
<1>4. QED
  BY <1>1, <1>2, <1>3, WithinFacts

\* The functions of a marked node are marked, and there is one.
LEMMA StandsMarked ==
    ASSUME CycleInv, phase \in Late, NEW n \in MarkNodes
    PROVE  Stands(n) \subseteq mark /\ Stands(n) # {}
<1>1. PICK f \in mark : n = NodeOf(f)
  BY DEF MarkNodes
<1>2. f \in Stands(n)
  BY <1>1, LateNames DEF Stands
<1>3. ASSUME NEW g \in Stands(n) PROVE g \in mark
  <2>1. g \in Functions /\ f \in Functions /\ NodeOf(g) = NodeOf(f)
    BY <1>1, <1>2 DEF Stands
  <2>2. QED
    BY <2>1, SameNode
<1>4. QED
  BY <1>2, <1>3


\* A call leads from every function of its caller's node to every one of its callee's.
LEMMA CallReaches ==
    ASSUME CycleInv, phase \in Late, NEW steps, IsFiniteSet(steps), Within \subseteq steps,
           NEW c \in calls, c \in steps,
           NEW x \in Functions, NodeOf(x) = NodeOf(c[1]),
           NEW y \in Functions, NodeOf(y) = NodeOf(c[2])
    PROVE  y \in From(steps, x)
<1>1. c[1] \in Functions /\ c[2] \in Functions
  BY LateNames
<1>2. \A f : From(Within, f) \subseteq From(steps, f)
  BY FromMonotone
<1>3. c[1] = x \/ c[1] \in From(steps, x)
  BY <1>1, <1>2, SameNode
<1>4. c[2] \in From(steps, x)
  BY <1>3, FromFacts
<1>5. y = c[2] \/ y \in From(steps, c[2])
  BY <1>1, <1>2, SameNode
<1>6. QED
  BY <1>4, <1>5, FromTransitive

\* The nodes all of whose functions are marked and reach one of node l.
Uphill(l) == {n \in Nodes : /\ Stands(n) \subseteq mark
                            /\ \A x \in Stands(n) : \E g \in Stands(l) :
                                  g \in From(Within, x)}

\* The traversal of the callers of a loop function visits only nodes that reach it.
LEMMA UpReaches ==
    ASSUME LoopInv, phase \in Late, NEW l \in MarkNodes, NEW seen
    PROVE  Traverse(Parents(l) \cap mark, seen, Up) \subseteq Uphill(l)
<1> USE DEF LoopInv
<1>1. GraphOK /\ IsFiniteSet(Up) /\ IsFiniteSet(Within)
  BY GraphFacts, WithinFacts DEF CycleInv, BasicInv
<1>2. ASSUME NEW c \in calls, NodeOf(c[2]) = l \/ NodeOf(c[2]) \in Uphill(l)
      PROVE  NodeOf(c[1]) \in Uphill(l)
  <2>1. c[1] \in Functions /\ c[2] \in Functions /\ c[2] \in Stands(NodeOf(c[2]))
    BY LateNames DEF Stands
  <2>2. c[2] \in mark
    BY <1>2, <2>1, StandsMarked DEF Uphill
  <2>3. c[1] \in mark /\ c \in Within
    BY <2>2, MarkClosed
  <2>4. NodeOf(c[1]) \in MarkNodes /\ NodeOf(c[1]) \in Nodes
    BY <2>1, <2>3, NodeOfInNodes DEF MarkNodes, CycleInv, BasicInv, Nodes
  <2>5. Stands(NodeOf(c[1])) \subseteq mark
    BY <2>4, StandsMarked
  <2>6. ASSUME NEW x \in Stands(NodeOf(c[1]))
        PROVE  \E g \in Stands(l) : g \in From(Within, x)
    <3>1. c[2] \in From(Within, x)
      BY <1>1, <2>1, <2>3, <2>6, CallReaches DEF Stands
    <3>2. c[2] \in Stands(l) \/ \E g \in Stands(l) : g \in From(Within, c[2])
      BY <1>2, <2>1 DEF Uphill
    <3>3. QED
      BY <3>1, <3>2, <1>1, FromTransitive
  <2>7. QED
    BY <2>4, <2>5, <2>6 DEF Uphill
<1>3. \A c \in calls : calledAt[c] = NodeOf(c[2]) /\ path[c].Caller = NodeOf(c[1])
  BY LateNames
<1>4. Parents(l) \subseteq Uphill(l) /\ After(Up, Uphill(l)) \subseteq Uphill(l)
  BY <1>2, <1>3 DEF Parents, After, Up
<1>5. QED
  <2> DEFINE start == Parents(l) \cap mark
             Y == Uphill(l)
  <2>1. start \subseteq Y /\ After(Up, Y) \subseteq Y
    BY <1>4
  <2> HIDE DEF start, Y
  <2>2. Traverse(start, seen, Up) \subseteq Y
    BY <2>1, <1>1, TraverseLeast
  <2>3. QED
    BY <2>2 DEF start, Y

\* The nodes all of whose functions are of node l or reached from one of them.
Downhill(l) == {n \in Nodes : \A x \in Stands(n) : \E g \in Stands(l) :
                                 x = g \/ x \in From(calls, g)}

\* The traversal of the callees visits only nodes that are reached from it.
LEMMA DownReaches ==
    ASSUME LoopInv, phase \in Late, NEW l \in MarkNodes, NEW seen
    PROVE  Traverse(Children(l) \cap mark, seen, Down) \subseteq Downhill(l)
<1> USE DEF LoopInv
<1>1. GraphOK /\ IsFiniteSet(Down) /\ IsFiniteSet(calls) /\ Within \subseteq calls
  BY GraphFacts, WithinFacts DEF CycleInv, BasicInv
<1>2. l \in Nodes /\ l \in Downhill(l)
  <2>1. l \in Nodes
    BY LateNames, NodeOfInNodes DEF MarkNodes, CycleInv, BasicInv, Nodes
  <2>2. QED
    BY <2>1 DEF Downhill
<1>3. ASSUME NEW c \in calls, NodeOf(c[1]) \in Downhill(l)
      PROVE  path[c].Callee \in Downhill(l)
  <2>1. c[1] \in Functions /\ c[2] \in Functions /\ c[1] \in Stands(NodeOf(c[1]))
    BY LateNames DEF Stands
  <2>2. CASE path[c].Callee = NodeOf(c[1])
    BY <1>3, <2>2
  <2>3. CASE path[c].Callee = NodeOf(c[2])
    <3>1. NodeOf(c[2]) \in Nodes
      BY <2>1, NodeOfInNodes DEF CycleInv, BasicInv, Nodes
    <3>2. ASSUME NEW x \in Stands(NodeOf(c[2]))
          PROVE  \E g \in Stands(l) : x \in From(calls, g)
      <4>1. x \in From(calls, c[1])
        BY <1>1, <2>1, <3>2, CallReaches DEF Stands
      <4>2. PICK g \in Stands(l) : c[1] = g \/ c[1] \in From(calls, g)
        BY <1>3, <2>1 DEF Downhill
      <4>3. QED
        BY <4>1, <4>2, <1>1, FromTransitive
    <3>3. QED
      BY <2>3, <3>1, <3>2 DEF Downhill
  <2>4. QED
    BY <2>2, <2>3, LateNames
<1>4. \A c \in calls : callsAt[c] = NodeOf(c[1])
  BY LateNames
<1>5. Children(l) \subseteq Downhill(l) /\ After(Down, Downhill(l)) \subseteq Downhill(l)
  BY <1>2, <1>3, <1>4 DEF Children, After, Down
<1>6. QED
  <2> DEFINE start == Children(l) \cap mark
             Y == Downhill(l)
  <2>1. start \subseteq Y /\ After(Down, Y) \subseteq Y
    BY <1>5
  <2> HIDE DEF start, Y
  <2>2. Traverse(start, seen, Down) \subseteq Y
    BY <2>1, <1>1, TraverseLeast
  <2>3. QED
    BY <2>2 DEF start, Y

-----------------------------------------------------------------------------
(* What is relevant is related to a loop.                                  *)

RelatedOK ==
    phase \in Late => \A n \in final : \A f \in Stands(n) : \E l \in loopSet : Related(f, l)

LEMMA HillsRelated ==
    ASSUME LoopInv, phase \in Late, NEW l \in MarkNodes,
           NEW n \in Uphill(l) \cup Downhill(l), NEW f \in Stands(n)
    PROVE  Related(f, l)
<1>1. \A x : From(Within, x) \subseteq From(calls, x)
  BY WithinFacts DEF LoopInv, CycleInv, BasicInv
<1>2. QED
  BY <1>1, BelowIsFrom DEF Uphill, Downhill, Related

LEMMA RelatedNext == LoopInv /\ RelatedOK /\ [Next]_vars => RelatedOK'
<1> SUFFICES ASSUME LoopInv, RelatedOK, [Next]_vars PROVE RelatedOK'
  OBVIOUS
<1>1. CASE \/ doInitialization \/ MarkEntry \/ MarkDone \/ MarkSimpleLoops \/ NameCycles
           \/ MarkInner \/ MarkInbound
  BY <1>1 DEF doInitialization, MarkEntry, MarkDone, MarkSimpleLoops, NameCycles,
              MarkInner, MarkInbound, RelatedOK, Late
<1>2. CASE MergeMaps
  BY <1>2 DEF MergeMaps, RelatedOK, Related, Stands, NodeOf, Members
<1>3. CASE Relate \/ RelateDone \/ UNCHANGED vars
  <2>1. UNCHANGED <<calls, intra, loopSet>> /\ (phase' \in Late => phase \in Late)
    BY <1>3 DEF Relate, RelateDone, graph, vars, Late
  <2>2. /\ \A n : Stands(n)' = Stands(n)
        /\ \A f, l : Related(f, l)' <=> Related(f, l)
    BY <2>1 DEF Stands, Related, Below, NodeOf, Members
  <2>3. CASE RelateDone \/ UNCHANGED vars
    <3>1. final' = final
      BY <2>3 DEF RelateDone, vars
    <3>2. QED
      BY <2>1, <2>2, <3>1 DEF RelatedOK
  <2>4. CASE Relate
    <3> DEFINE l == Min(todo)
               up == Traverse(Parents(l) \cap mark, visited \cup {l}, Up)
               down == Traverse(Children(l) \cap mark, visited \cup {l} \cup up, Down)
    <3>1. phase \in Late
      BY <2>4 DEF Relate, Late
    <3>2. l \in todo
      BY <2>4, FirstFound DEF LoopInv, CycleInv, BasicInv, Relate, TypeOK
    <3>3. l \in loopSet /\ l \in MarkNodes
      BY <3>1, <3>2 DEF LoopInv, LoopsOK
    <3>4. up \subseteq Uphill(l) /\ down \subseteq Downhill(l)
      BY <3>1, <3>3, UpReaches, DownReaches
    <3> HIDE DEF l, up, down
    <3>5. final' \subseteq final \cup up \cup down
      BY <2>4 DEF Relate, l, up, down
    <3>6. \A n \in up \cup down : \A f \in Stands(n) : Related(f, l)
      BY <3>1, <3>3, <3>4, HillsRelated
    <3>7. QED
      BY <2>1, <2>2, <3>1, <3>3, <3>5, <3>6 DEF RelatedOK
  <2>5. QED
    BY <1>3, <2>3, <2>4
<1>4. QED
  BY <1>1, <1>2, <1>3 DEF Next, Done

THEOREM LoopInvariant == Spec => [](LoopInv /\ RelatedOK)
<1>1. Init => LoopsOK /\ RelatedOK
  BY DEF Init, LoopsOK, RelatedOK, Late
<1>2. CycleInv /\ LoopsOK /\ [Next]_vars => LoopsOK'
  BY LoopsNext
<1>3. LoopInv /\ RelatedOK /\ [Next]_vars => RelatedOK'
  BY RelatedNext
<1>4. Spec => []CycleInv
  BY CyclesInvariant, PTL DEF CycleInv
<1>5. QED
  BY <1>1, <1>2, <1>3, <1>4, PTL DEF Spec, LoopInv

\* Every relevant function reaches a loop function, is reached from one or is one,
\* though traversals of later loop functions stop at what earlier ones visited.
THEOREM RelevantIsRelated == Spec => []LoopRelated
<1>1. LoopInv /\ RelatedOK => LoopRelated
  <2> SUFFICES ASSUME LoopInv, RelatedOK, phase = "done"
               PROVE  \A n \in relevant, f \in Functions :
                         f \in Stands(n) => \E l \in loopSet : Related(f, l)
    BY DEF LoopRelated
  <2>1. relevant = final
    BY RelevantIsFinal
  <2>2. QED
    BY <2>1 DEF RelatedOK, Late
<1>2. QED
  BY <1>1, LoopInvariant, PTL


-----------------------------------------------------------------------------
(* The graph handed to the sort.                                           *)

\* An edge of it leads from all functions of its tail to all of its head, within the
\* marked functions.
LEMMA EdgeReaches ==
    ASSUME LoopInv, phase = "done", NEW e \in FinalGraph
    PROVE  /\ e[1] \in relevant /\ e[2] \in relevant /\ e[1] # e[2]
           /\ \A x \in Stands(e[1]), y \in Stands(e[2]) : y \in From(Within, x)
<1> USE DEF LoopInv
<1>1. PICK f \in relevant : \E c \in FinalCallees(f) : e = <<f, path[c].Callee>>
  BY DEF FinalGraph
<1>2. PICK c \in FinalCallees(f) : e = <<f, path[c].Callee>>
  BY <1>1
<1>3. /\ c \in calls /\ callsAt[c] = f /\ path[c].Caller # path[c].Callee
      /\ path[c].Callee \in relevant
  BY <1>2 DEF FinalCallees
<1>4. /\ f = NodeOf(c[1]) /\ path[c].Caller = f /\ path[c].Callee = NodeOf(c[2])
      /\ c[1] \in Functions /\ c[2] \in Functions
  BY <1>3, LateNames DEF Late
<1>5. NodeOf(c[2]) \in MarkNodes
  BY <1>3, <1>4, RelevantIsFinal DEF LoopsOK, Late
<1>6. c \in Within
  <2>1. c[2] \in Stands(NodeOf(c[2]))
    BY <1>4 DEF Stands
  <2>2. c[2] \in mark
    BY <2>1, <1>5, StandsMarked DEF Late
  <2>3. QED
    BY <2>2, <1>3, MarkClosed DEF Late
<1>7. IsFiniteSet(Within)
  BY WithinFacts DEF CycleInv, BasicInv
<1>8. \A x \in Stands(f), y \in Stands(NodeOf(c[2])) : y \in From(Within, x)
  BY <1>3, <1>4, <1>6, <1>7, CallReaches DEF Stands, Late
<1>9. QED
  BY <1>2, <1>3, <1>4, <1>8

\* The graph handed to the sort has no cycle: a cycle of nodes would be a cycle of
\* marked functions, and these are one node since NameCycles.
THEOREM FinalGraphAcyclic == Spec => []FinalAcyclic
<1>1. LoopInv => FinalAcyclic
  <2> SUFFICES ASSUME LoopInv, phase = "done", NEW f \in relevant,
                      f \in From(FinalGraph, f)
               PROVE  FALSE
    BY DEF FinalAcyclic, From
  <2>1. IsFiniteSet(FinalGraph) /\ IsFiniteSet(Within)
    <3>1. GraphOK
      BY DEF LoopInv, CycleInv, BasicInv
    <3>2. FinalGraph \subseteq Down
      BY DEF FinalGraph, FinalCallees, Down
    <3>3. QED
      BY <3>1, <3>2, GraphFacts, WithinFacts, FS_Subset
  <2>2. \A n \in relevant : n \in MarkNodes /\ Stands(n) \subseteq mark /\ Stands(n) # {}
    BY RelevantIsFinal, StandsMarked DEF LoopInv, LoopsOK, Late
  <2>3. PICK e \in FinalGraph : e[2] = f /\ (e[1] = f \/ e[1] \in From(FinalGraph, f))
    <3>1. SUFFICES ASSUME \A e \in FinalGraph :
                             e[2] = f => e[1] # f /\ e[1] \notin From(FinalGraph, f)
                   PROVE  FALSE
      OBVIOUS
    <3> DEFINE X == From(FinalGraph, f) \ {f}
    <3>2. \A e \in FinalGraph : e[1] = f \/ e[1] \in X => e[2] \in X
      BY <3>1, <2>1, FromFacts
    <3> HIDE DEF X
    <3>3. From(FinalGraph, f) \subseteq X
      BY <3>2, <2>1, FromFacts
    <3>4. QED
      BY <3>3 DEF X
  <2> DEFINE k == e[1]
  <2>4. k \in relevant /\ k # f /\ k \in From(FinalGraph, f)
    BY <2>3, EdgeReaches
  <2>5. PICK x : x \in Stands(k)
    BY <2>2, <2>4
  <2>6. PICK y : y \in Stands(f)
    BY <2>2
  <2>7. y \in From(Within, x)
    BY <2>3, <2>5, <2>6, EdgeReaches
  <2>8. x \in From(Within, y)
    <3> DEFINE X == {n \in relevant : \A z \in Stands(n) : z \in From(Within, y)}
    <3>1. ASSUME NEW d \in FinalGraph, d[1] = f \/ d[1] \in X PROVE d[2] \in X
      <4>1. d[1] \in relevant /\ d[2] \in relevant
        BY EdgeReaches
      <4>2. SUFFICES ASSUME NEW z \in Stands(d[2]) PROVE z \in From(Within, y)
        BY <4>1
      <4>3. CASE d[1] = f
        BY <4>3, <2>6, EdgeReaches
      <4>4. CASE d[1] \in X
        <5>1. PICK w : w \in Stands(d[1]) /\ w \in From(Within, y)
          BY <4>1, <4>4, <2>2
        <5>2. z \in From(Within, w)
          BY <5>1, EdgeReaches
        <5>3. QED
          BY <5>1, <5>2, <2>1, FromTransitive
      <4>5. QED
        BY <3>1, <4>3, <4>4
    <3> HIDE DEF X
    <3>2. From(FinalGraph, f) \subseteq X
      BY <3>1, <2>1, FromFacts
    <3>3. QED
      BY <3>2, <2>4, <2>5 DEF X
  <2>9. x \in mark /\ y \in mark /\ NodeOf(x) = k /\ NodeOf(y) = f
    BY <2>2, <2>4, <2>5, <2>6 DEF Stands
  <2>10. NodeOf(x) = NodeOf(y)
    BY <2>4, <2>7, <2>8, <2>9, MutualSameNode DEF LoopInv, Late
  <2>11. QED
    BY <2>4, <2>9, <2>10
<1>2. LoopInv /\ RelatedOK => FinalAcyclic
  BY <1>1
<1>3. QED
  BY <1>2, LoopInvariant, PTL

-----------------------------------------------------------------------------
(* The first loop function.                                                *)

\* Marked functions that calls of no other component lead to or from node l.
DirectlyRelated(f, l) ==
    \/ \E g \in Stands(l) :
          g \in Traverse(After(DirectCalls(l), {f}), {}, DirectCalls(l))
    \/ f \in Traverse(After(DirectCalls(l), Stands(l)), {}, DirectCalls(l))

\* Before the first loop function is done all are still to be visited; then what is
\* directly related to it has been found.
FirstOK ==
    (phase \in Late /\ loopSet # {}) =>
        \/ phase = "relate" /\ todo = loopSet /\ visited = {}
        \/ \A f \in mark : DirectlyRelated(f, Min(loopSet)) => NodeOf(f) \in final

LEMMA DirectFacts ==
    ASSUME LoopInv, phase \in Late, NEW l
    PROVE  /\ IsFiniteSet(DirectCalls(l)) /\ DirectCalls(l) \subseteq calls
           /\ \A c \in DirectCalls(l) : /\ c[1] \in Members => c[1] \in Stands(l)
                                        /\ c[2] \in Members => c[2] \in Stands(l)
<1>1. IsFiniteSet(calls) /\ DirectCalls(l) \subseteq calls
  BY GraphFacts DEF LoopInv, CycleInv, BasicInv, DirectCalls
<1>2. IsFiniteSet(DirectCalls(l))
  BY <1>1, FS_Subset
<1>3. QED
  BY <1>1, <1>2 DEF DirectCalls

\* The first loop function's turn finds what calls it: a caller that is no member of
\* a component is a parent, and it is marked as its callee is.
LEMMA FirstUp ==
    ASSUME LoopInv, phase \in Late, NEW l \in loopSet, NEW f \in mark,
           NEW g \in Stands(l),
           g \in Traverse(After(DirectCalls(l), {f}), {}, DirectCalls(l))
    PROVE  f \in Stands(l) \cup Traverse(Parents(l) \cap mark, {l}, Up)
<1> USE DEF LoopInv
<1> DEFINE up == Traverse(Parents(l) \cap mark, {l}, Up)
           D == DirectCalls(l)
           X == mark \cap (Stands(l) \cup up)
<1>1. (Parents(l) \cap mark) \ {l} \subseteq up /\ After(Up, up) \ {l} \subseteq up
  BY GraphFacts, TraverseLeast DEF CycleInv, BasicInv
<1>2. IsFiniteSet(D) /\ D \subseteq calls
       /\ \A c \in D : /\ c[1] \in Members => c[1] \in Stands(l)
                       /\ c[2] \in Members => c[2] \in Stands(l)
  BY DirectFacts
<1>3. Stands(l) \subseteq mark
  BY StandsMarked DEF LoopsOK
<1> HIDE DEF up, D
<1>4. ASSUME NEW c \in D, c[2] \in X \/ c[2] \in Stands(l) PROVE c[1] \in X
  <2>1. c[1] \in mark
    BY <1>2, <1>3, <1>4, MarkClosed
  <2>2. SUFFICES ASSUME c[1] \notin Stands(l) PROVE c[1] \in up
    BY <2>1
  <2>3. NodeOf(c[1]) = c[1] /\ c[1] \in Functions
    BY <1>2, <2>2, LateNames DEF NodeOf
  <2>4. c[1] # l
    BY <2>2, <2>3 DEF Stands
  <2>5. calledAt[c] = NodeOf(c[2]) /\ path[c].Caller = c[1]
    BY <1>2, <2>3, LateNames
  <2>6. \A F : NodeOf(c[2]) \in F => c[1] \in After(Up, F)
    <3>1. <<NodeOf(c[2]), c[1]>> \in Up
      BY <1>2, <2>5 DEF Up
    <3>2. QED
      BY <3>1 DEF After
  <2>7. CASE c[2] \in Stands(l)
    <3>1. c[1] \in Parents(l)
      BY <2>6, <2>7 DEF Parents, Stands
    <3>2. QED
      BY <3>1, <2>1, <2>4, <1>1
  <2>8. CASE c[2] \notin Stands(l)
    <3>1. c[2] \in up /\ NodeOf(c[2]) = c[2]
      BY <1>2, <1>4, <2>8 DEF NodeOf
    <3>2. QED
      BY <3>1, <2>4, <2>6, <1>1
  <2>9. QED
    BY <2>7, <2>8
<1>5. From(D, f) \cap Stands(l) # {}
  BY DEF From, D
<1>6. f \in X
  <2> HIDE DEF X
  <2>1. QED
    BY <1>2, <1>4, <1>5, BackFrom
<1>7. QED
  BY <1>6 DEF up

\* It finds what it calls: the traversal of the callees stops at nothing that the
\* traversal of the callers has visited, as that would be in its component.
LEMMA FirstDown ==
    ASSUME LoopInv, phase \in Late, NEW l \in loopSet, NEW f \in mark,
           f \in Traverse(After(DirectCalls(l), Stands(l)), {}, DirectCalls(l))
    PROVE  LET up == Traverse(Parents(l) \cap mark, {l}, Up)
               down == Traverse(Children(l) \cap mark, {l} \cup up, Down)
           IN f \in Stands(l) \cup down
<1> USE DEF LoopInv
<1> DEFINE up == Traverse(Parents(l) \cap mark, {l}, Up)
           down == Traverse(Children(l) \cap mark, {l} \cup up, Down)
           D == DirectCalls(l)
           X == {x \in Functions : x \in mark =>
                    \/ x \in Stands(l)
                    \/ x \in down /\ \E g \in Stands(l) : x \in From(Within, g)}
<1>1. /\ (Children(l) \cap mark) \ ({l} \cup up) \subseteq down
      /\ After(Down, down) \ ({l} \cup up) \subseteq down
  <2> HIDE DEF up
  <2>1. QED
    BY GraphFacts, TraverseLeast DEF CycleInv, BasicInv
<1>2. IsFiniteSet(D) /\ D \subseteq calls
       /\ \A c \in D : /\ c[1] \in Members => c[1] \in Stands(l)
                       /\ c[2] \in Members => c[2] \in Stands(l)
  BY DirectFacts
<1>3. l \in MarkNodes /\ Stands(l) \subseteq mark
  BY StandsMarked DEF LoopsOK
<1>4. up \subseteq Uphill(l)
  BY <1>3, UpReaches
<1>5. IsFiniteSet(Within)
  BY WithinFacts DEF CycleInv, BasicInv
<1> HIDE DEF up, down, D
<1>6. ASSUME NEW c \in D, c[1] \in Stands(l) \/ c[1] \in X PROVE c[2] \in X
  <2>1. c[1] \in Functions /\ c[2] \in Functions
    BY <1>2, LateNames
  <2>2. SUFFICES ASSUME c[2] \in mark, c[2] \notin Stands(l)
                 PROVE  c[2] \in down /\ \E g \in Stands(l) : c[2] \in From(Within, g)
    BY <2>1
  <2>3. c[1] \in mark /\ c \in Within
    BY <1>2, <2>2, MarkClosed
  <2>4. c[2] \notin Members /\ NodeOf(c[2]) = c[2]
    BY <1>2, <2>2 DEF NodeOf
  <2>5. callsAt[c] = NodeOf(c[1]) /\ path[c].Callee = c[2]
    BY <1>2, <2>4, LateNames
  <2>6. c[1] \in Stands(l) \/ (c[1] \in down /\ c[1] \notin Stands(l))
    BY <1>6, <2>3
  <2>7. PICK g \in Stands(l) : c[2] \in From(Within, g)
    <3>1. c[1] \in Stands(l) \/ \E g \in Stands(l) : c[1] \in From(Within, g)
      BY <1>6, <2>3
    <3>2. QED
      BY <3>1, <2>3, <1>5, FromFacts
  <2>8. c[2] \notin {l} \cup up
    <3>1. c[2] # l
      BY <2>1, <2>2, <2>4 DEF Stands
    <3>2. ASSUME c[2] \in up PROVE FALSE
      <4>1. c[2] \in Stands(c[2])
        BY <2>1, <2>4 DEF Stands
      <4>2. PICK h \in Stands(l) : h \in From(Within, c[2])
        BY <1>4, <3>2, <4>1 DEF Uphill
      <4>3. h = g \/ g \in From(Within, h)
        BY SameNode DEF Stands
      <4>4. g \in From(Within, c[2])
        BY <4>2, <4>3, <1>5, FromTransitive
      <4>5. g # c[2] /\ g \in mark
        BY <1>3, <2>2
      <4>6. QED
        BY <2>2, <2>4, <2>7, <4>4, <4>5, MutualSameNode
    <3>3. QED
      BY <3>1, <3>2
  <2>9. \A F : NodeOf(c[1]) \in F => c[2] \in After(Down, F)
    <3>1. <<NodeOf(c[1]), c[2]>> \in Down
      BY <1>2, <2>5 DEF Down
    <3>2. QED
      BY <3>1 DEF After
  <2>10. CASE c[1] \in Stands(l)
    <3>1. c[2] \in Children(l)
      BY <2>9, <2>10 DEF Children, Stands
    <3>2. QED
      BY <3>1, <2>2, <2>7, <2>8, <1>1
  <2>11. CASE c[1] \in down /\ c[1] \notin Stands(l)
    <3>1. NodeOf(c[1]) = c[1]
      BY <1>2, <2>11 DEF NodeOf
    <3>2. QED
      BY <3>1, <2>7, <2>8, <2>9, <2>11, <1>1
  <2>12. QED
    BY <2>6, <2>10, <2>11
<1>7. Traverse(After(D, Stands(l)), {}, D) \subseteq X
  <2> DEFINE start == After(D, Stands(l))
  <2>1. start \subseteq X /\ After(D, X) \subseteq X
    BY <1>6 DEF After
  <2> HIDE DEF start, X
  <2>2. Traverse(start, {}, D) \subseteq X
    BY <2>1, <1>2, TraverseLeast
  <2>3. QED
    BY <2>2 DEF start
<1>8. f \in X
  BY <1>7 DEF D
<1>9. QED
  BY <1>8 DEF up, down


LEMMA FirstTurn ==
    ASSUME LoopInv, Relate, loopSet # {}, todo = loopSet, visited = {},
           NEW f \in mark, DirectlyRelated(f, Min(loopSet))
    PROVE  NodeOf(f) \in final'
<1> USE DEF LoopInv
<1> DEFINE l == Min(loopSet)
           up == Traverse(Parents(l) \cap mark, {l}, Up)
           down == Traverse(Children(l) \cap mark, {l} \cup up, Down)
<1>1. phase \in Late /\ final' = final \cup ((up \cup down) \cap mark)
  BY DEF Relate, Late
<1>2. l \in loopSet
  BY FirstFound DEF CycleInv, BasicInv, TypeOK
<1>3. f \in Stands(l) \cup up \cup down
  BY <1>1, <1>2, FirstUp, FirstDown DEF DirectlyRelated
<1> HIDE DEF l, up, down
<1>4. loopSet \subseteq final /\ \A g \in Members : intra[g] \in loopSet
  BY <1>1 DEF LoopsOK
<1>5. CASE f \in Members
  BY <1>1, <1>4, <1>5 DEF NodeOf
<1>6. CASE f \notin Members
  <2>1. CASE f \in Stands(l)
    BY <1>1, <1>2, <1>4, <2>1 DEF Stands
  <2>2. CASE f \in up \cup down
    BY <1>1, <1>6, <2>2 DEF NodeOf
  <2>3. QED
    BY <1>3, <2>1, <2>2
<1>7. QED
  BY <1>5, <1>6

LEMMA FirstNext == LoopInv /\ FirstOK /\ [Next]_vars => FirstOK'
<1> SUFFICES ASSUME LoopInv, FirstOK, [Next]_vars PROVE FirstOK'
  OBVIOUS
<1>1. CASE \/ doInitialization \/ MarkEntry \/ MarkDone \/ MarkSimpleLoops \/ NameCycles
           \/ MarkInner \/ MarkInbound
  BY <1>1 DEF doInitialization, MarkEntry, MarkDone, MarkSimpleLoops, NameCycles,
              MarkInner, MarkInbound, FirstOK, Late
<1>2. CASE MergeMaps
  BY <1>2 DEF MergeMaps, FirstOK
<1>3. CASE Relate \/ RelateDone \/ UNCHANGED vars
  <2>1. UNCHANGED <<calls, intra, mark, loopSet>> /\ (phase' \in Late => phase \in Late)
    BY <1>3 DEF Relate, RelateDone, graph, vars, Late
  <2>2. /\ \A f : NodeOf(f)' = NodeOf(f)
        /\ \A f : DirectlyRelated(f, Min(loopSet))' <=> DirectlyRelated(f, Min(loopSet))
    BY <2>1 DEF NodeOf, Members, DirectlyRelated, DirectCalls, Stands
  <2> SUFFICES ASSUME phase' \in Late, loopSet' # {}
               PROVE  \/ phase' = "relate" /\ todo' = loopSet' /\ visited' = {}
                      \/ \A f \in mark : DirectlyRelated(f, Min(loopSet))
                                         => NodeOf(f) \in final'
    BY <2>1, <2>2 DEF FirstOK
  <2>3. \/ phase = "relate" /\ todo = loopSet /\ visited = {}
        \/ \A f \in mark : DirectlyRelated(f, Min(loopSet)) => NodeOf(f) \in final
    BY <2>1 DEF FirstOK
  <2>4. CASE Relate
    <3>1. final \subseteq final'
      BY <2>4 DEF Relate
    <3>2. CASE todo = loopSet /\ visited = {}
      BY <2>1, <2>4, <3>2, FirstTurn
    <3>3. CASE \A f \in mark : DirectlyRelated(f, Min(loopSet)) => NodeOf(f) \in final
      BY <3>1, <3>3
    <3>4. QED
      BY <2>3, <3>2, <3>3
  <2>5. CASE RelateDone
    BY <2>1, <2>3, <2>5 DEF RelateDone
  <2>6. CASE UNCHANGED vars
    BY <2>3, <2>6 DEF vars
  <2>7. QED
    BY <1>3, <2>4, <2>5, <2>6
<1>4. QED
  BY <1>1, <1>2, <1>3 DEF Next, Done

\* Of the first loop function nothing is missed that is related to it without a call
\* of another component.
THEOREM FirstLoopIsComplete == Spec => []FirstLoopComplete
<1>1. Init => FirstOK
  BY DEF Init, FirstOK, Late
<1>2. LoopInv /\ FirstOK /\ [Next]_vars => FirstOK'
  BY FirstNext
<1>3. LoopInv /\ FirstOK => FirstLoopComplete
  <2> SUFFICES ASSUME LoopInv, FirstOK, phase = "done", loopSet # {}
               PROVE  \A f \in mark : DirectlyRelated(f, Min(loopSet))
                                      => NodeOf(f) \in relevant
    BY DEF FirstLoopComplete, DirectlyRelated
  <2>1. relevant = final
    BY RelevantIsFinal
  <2>2. QED
    BY <2>1 DEF FirstOK, Late
<1>4. QED
  BY <1>1, <1>2, <1>3, LoopInvariant, PTL DEF Spec

=============================================================================
