--------------------------- MODULE CallPathsProofs ---------------------------
(***************************************************************************)
(* Proofs about CallPaths for every program of every module: what the list *)
(* of calls holds when the passes are done, the landing pads of invokes,   *)
(* and the end of a lookup of the type analysis.                           *)
(***************************************************************************)
EXTENDS CallPaths, FiniteSetTheorems, SequenceTheorems, WellFoundedInduction, TLAPS

-----------------------------------------------------------------------------
(* Naturals.                                                               *)

Less == {p \in Nat \X Nat : p[1] < p[2]}

LEMMA LessWF == IsWellFoundedOn(Less, Nat)
  BY NatLessThanWellFounded DEF OpToRel, Less

\* A nonempty set of naturals has a least element.
LEMMA LeastNatural ==
    ASSUME NEW S, S \subseteq Nat, S # {}
    PROVE  \E x \in S : \A y \in S : x <= y
<1>1. PICK x \in S : \A y \in S : ~ (<<y, x>> \in Less)
  BY LessWF, WFMin
<1>2. ASSUME NEW y \in S PROVE x <= y
  <2>1. x \in Nat /\ y \in Nat
    OBVIOUS
  <2>2. <<y, x>> \in Nat \X Nat /\ <<y, x>>[1] = y /\ <<y, x>>[2] = x
    BY <2>1
  <2>3. ~ (y < x)
    BY <2>2, <1>1 DEF Less
  <2>4. QED
    BY <2>1, <2>3
<1>3. QED
  BY <1>2

\* What holds of 0 and goes on from each number to the next holds of all of them.
LEMMA Climb ==
    ASSUME NEW good, 0 \in good, \A n \in Nat : n \in good => n + 1 \in good
    PROVE  Nat \subseteq good
<1> DEFINE Bad == Nat \ good
<1>1. ASSUME Bad # {} PROVE FALSE
  <2>1. PICK n \in Bad : \A m \in Bad : n <= m
    <3>1. Bad \subseteq Nat
      OBVIOUS
    <3> HIDE DEF Bad
    <3>2. QED
      BY <1>1, <3>1, LeastNatural
  <2>2. n \in Nat \ {0} /\ n - 1 \in Nat /\ ~ (n <= n - 1) /\ n - 1 + 1 = n
    BY <2>1
  <2>3. n - 1 \in good
    BY <2>1, <2>2
  <2>4. QED
    BY <2>1, <2>2, <2>3
<1>2. QED
  BY <1>1

-----------------------------------------------------------------------------
(* The phases, and the landing pads.                                       *)

BeforePads == {"pre", "globals", "mlta", "finalize", "merge", "direct", "reduce", "recover"}
Phases == BeforePads \cup {"duplicate", "run"}

\* No other invoke lands where s does.
Alone(s) == \A t \in Invokes : unwind[t] = unwind[s] => t = s

\* The invokes of a pad as they were, and with a pad each.
Untouched(p) ==
    /\ \A s \in Invokes : inst[s].pad = p => unwind[s] = <<p, 0>>
    /\ phi[p] = [s \in {i \in Invokes : inst[i].pad = p} |-> s]
Split(p) ==
    \A s \in Invokes : inst[s].pad = p =>
        /\ unwind[s] \in {<<p, 0>>, <<p, s>>} /\ Alone(s)
        /\ unwind[s] \in DOMAIN phi[p] /\ phi[p][unwind[s]] = s

\* A visit splits all invokes of a pad, or finds one alone.
PadsInv ==
    /\ prog \in Inputs /\ phase \in Phases
    /\ todo \subseteq Invokes
    /\ DOMAIN phi = Pads /\ phi = [p \in Pads |-> phi[p]]
    /\ unwind = [s \in Invokes |-> unwind[s]]
    /\ \A p \in Pads : Untouched(p) \/ (Split(p) /\ phase \notin BeforePads)
    /\ phase \notin BeforePads => \A s \in Invokes \ todo : Alone(s)
    /\ phase = "run" => todo = {}

LEMMA SiteFacts ==
    ASSUME NEW p \in Inputs, NEW s \in DOMAIN p.inst
    PROVE  /\ s \in Nat \ {0} /\ Caller[s] \in Defined
           /\ p.inst[s].op \in {"call", "invoke"} /\ p.inst[s].pad \in Pads
  BY SitesAssumption, InputsAssumption

LEMMA PadsInit == Init => PadsInv
<1> SUFFICES ASSUME Init PROVE PadsInv
  OBVIOUS
<1>1. \A s \in Invokes : inst[s].pad \in Pads
  BY SiteFacts DEF Init, Invokes, Sites, inst
<1>2. ASSUME NEW p \in Pads PROVE Untouched(p)
  BY DEF Init, Untouched
<1>3. QED
  BY <1>2 DEF Init, PadsInv, Phases, BeforePads

\* The steps that are not about landing pads.
LEMMA PadsElsewhere ==
    ASSUME PadsInv, UNCHANGED <<prog, unwind, phi>>, phase' \in Phases,
           \/ phase \in BeforePads /\ phase' \in BeforePads /\ UNCHANGED todo
           \/ phase \in BeforePads /\ phase' = "duplicate" /\ todo' = Invokes
           \/ /\ phase \notin BeforePads /\ phase' \notin BeforePads
              /\ UNCHANGED todo /\ (phase' = "run" => todo = {})
    PROVE  PadsInv'
<1>1. Invokes' = Invokes /\ inst' = inst
  BY DEF Invokes, Sites, inst
<1>2. \A p \in Pads : Untouched(p)' = Untouched(p) /\ Split(p)' = Split(p)
  BY <1>1 DEF Untouched, Split, Alone
<1>3. \A s \in Invokes : Alone(s)' = Alone(s)
  BY <1>1 DEF Alone
<1>4. todo' \subseteq Invokes'
  BY <1>1 DEF PadsInv
<1>5. phase' \notin BeforePads => \A s \in Invokes' \ todo' : Alone(s)'
  BY <1>1, <1>3 DEF PadsInv
<1>6. phase' = "run" => todo' = {}
  BY DEF PadsInv, BeforePads
<1>7. \A p \in Pads : Untouched(p)' \/ (Split(p)' /\ phase' \notin BeforePads)
  BY <1>2 DEF PadsInv
<1>8. QED
  BY <1>1, <1>4, <1>5, <1>6, <1>7 DEF PadsInv

\* The visit of an invoke that shares its pad.
LEMMA PadsSplit ==
    ASSUME PadsInv, NEW s \in Sites, NEW first \in predecessors(unwind[s]),
           phase = "duplicate", phase' = "duplicate", s \in todo, todo' = todo \ {s},
           UNCHANGED prog, predecessors(unwind[s]) # {s},
           unwind' = [i \in Invokes |-> IF i \in predecessors(unwind[s])
                                        THEN Duplicated(unwind[s], predecessors(unwind[s]), first)[i]
                                        ELSE unwind[i]],
           phi' = [phi EXCEPT ![unwind[s][1]] =
                     MovedPhi(@, Duplicated(unwind[s], predecessors(unwind[s]), first))]
    PROVE  PadsInv'
<1> DEFINE p == inst[s].pad
           preds == predecessors(unwind[s])
           new == Duplicated(unwind[s], preds, first)
           node == phi[p]
<1>1. Invokes' = Invokes /\ inst' = inst
  BY DEF Invokes, Sites, inst
<1>2. s \in Invokes /\ p \in Pads /\ Invokes \subseteq Nat \ {0}
  BY SiteFacts DEF PadsInv, Invokes, Sites, inst
<1>3. Untouched(p)
  <2>1. ASSUME Split(p) PROVE FALSE
    <3>1. \A t \in Invokes : unwind[t] = unwind[s] => t = s
      BY <2>1, <1>2 DEF Split, Alone
    <3>2. QED
      BY <3>1, <1>2 DEF predecessors
  <2>2. QED
    BY <2>1, <1>2 DEF PadsInv
<1>4. unwind[s] = <<p, 0>> /\ unwind[s][1] = p
  BY <1>2, <1>3 DEF Untouched
<1>5. ASSUME NEW t \in Invokes, inst[t].pad # p PROVE unwind[t][1] = inst[t].pad /\ unwind[t][1] # p
  <2>1. inst[t].pad \in Pads
    BY SiteFacts DEF PadsInv, Invokes, Sites, inst
  <2>2. Untouched(inst[t].pad) \/ Split(inst[t].pad)
    BY <2>1 DEF PadsInv
  <2>3. unwind[t] = <<inst[t].pad, 0>> \/ unwind[t] = <<inst[t].pad, t>>
    BY <2>2 DEF Untouched, Split
  <2> HIDE DEF p
  <2>4. QED
    BY <2>3, <1>5
<1>6. preds = {t \in Invokes : inst[t].pad = p}
  <2>1. \A t \in Invokes : inst[t].pad = p => unwind[t] = <<p, 0>>
    BY <1>3 DEF Untouched
  <2>2. QED
    BY <2>1, <1>4, <1>5 DEF predecessors
<1>7. \A t \in preds : new[t] = IF t = first THEN <<p, 0>> ELSE <<p, t>>
  BY <1>4 DEF Duplicated
<1>8. ASSUME NEW t \in preds, NEW u \in preds, new[t] = new[u] PROVE t = u
  <2>1. t # 0 /\ u # 0
    BY <1>2, <1>6
  <2>2. /\ new[t] = IF t = first THEN <<p, 0>> ELSE <<p, t>>
        /\ new[u] = IF u = first THEN <<p, 0>> ELSE <<p, u>>
    BY <1>7
  <2> HIDE DEF p, new, preds
  <2>3. QED
    BY <2>1, <2>2, <1>8
<1>9. node = [t \in preds |-> t]
  BY <1>3, <1>6 DEF Untouched
<1>10. DOMAIN new = preds
  BY DEF Duplicated
<1>11. ASSUME NEW t \in preds
       PROVE  new[t] \in DOMAIN MovedPhi(node, new) /\ MovedPhi(node, new)[new[t]] = t
  <2>1. (CHOOSE i \in DOMAIN new : new[i] = new[t]) = t
    BY <1>8, <1>10
  <2>2. QED
    BY <2>1, <1>9, <1>10 DEF MovedPhi
<1> HIDE DEF new, node, preds
<1>12. \A t \in Invokes : unwind'[t] = IF t \in preds THEN new[t] ELSE unwind[t]
  BY DEF preds, new
<1>13. ASSUME NEW t \in Invokes PROVE unwind'[t][1] = inst[t].pad
  <2>1. CASE inst[t].pad = p
    <3>1. unwind'[t] = <<p, 0>> \/ unwind'[t] = <<p, t>>
      BY <2>1, <1>12, <1>7, <1>6
    <3>2. QED
      BY <3>1, <2>1
  <2>2. CASE inst[t].pad # p
    BY <2>2, <1>12, <1>6, <1>5
  <2>3. QED
    BY <2>1, <2>2
<1>14. phi' = [phi EXCEPT ![p] = MovedPhi(node, new)]
  BY <1>4 DEF preds, new, node
<1>15. phi'[p] = MovedPhi(node, new) /\ \A q \in Pads : q # p => phi'[q] = phi[q]
  BY <1>14, <1>2 DEF PadsInv
<1>16. DOMAIN phi' = Pads /\ phi' = [q \in Pads |-> phi'[q]]
  BY <1>14 DEF PadsInv
<1>17. Split(p)'
  <2>1. ASSUME NEW t \in Invokes, inst[t].pad = p PROVE Alone(t)'
    <3>1. ASSUME NEW u \in Invokes, unwind'[u] = unwind'[t] PROVE u = t
      <4>1. inst[u].pad = p
        BY <3>1, <2>1, <1>13
      <4>2. QED
        BY <4>1, <2>1, <3>1, <1>12, <1>6, <1>8
    <3>2. QED
      BY <3>1, <1>1 DEF Alone
  <2>2. ASSUME NEW t \in Invokes, inst[t].pad = p
        PROVE  /\ unwind'[t] \in {<<p, 0>>, <<p, t>>}
               /\ unwind'[t] \in DOMAIN phi'[p] /\ phi'[p][unwind'[t]] = t
    BY <2>2, <1>6, <1>7, <1>11, <1>12, <1>15
  <2>3. QED
    BY <2>1, <2>2, <1>1 DEF Split
<1>18. ASSUME NEW t \in Invokes, inst[t].pad # p, Alone(t) PROVE Alone(t)'
  <2>1. ASSUME NEW u \in Invokes, unwind'[u] = unwind'[t] PROVE u = t
    <3>1. inst[u].pad # p
      BY <1>18, <2>1, <1>13
    <3>2. QED
      BY <3>1, <1>18, <2>1, <1>12, <1>6 DEF Alone
  <2>2. QED
    BY <2>1, <1>1 DEF Alone
<1>19. ASSUME NEW q \in Pads, q # p PROVE Untouched(q)' \/ Split(q)'
  <2>1. \A t \in Invokes : inst[t].pad = q => unwind'[t] = unwind[t]
    BY <1>19, <1>12, <1>6
  <2>2. CASE Untouched(q)
    BY <2>1, <2>2, <1>1, <1>15, <1>19 DEF Untouched
  <2>3. CASE Split(q)
    BY <2>1, <2>3, <1>1, <1>15, <1>18, <1>19 DEF Split
  <2>4. QED
    BY <2>2, <2>3 DEF PadsInv
<1>20. ASSUME NEW t \in Invokes \ todo' PROVE Alone(t)'
  <2>1. CASE inst[t].pad = p
    BY <2>1, <1>17, <1>1 DEF Split
  <2>2. CASE inst[t].pad # p
    <3>1. t \notin todo
      BY <2>2, <1>20
    <3>2. Alone(t)
      BY <3>1 DEF PadsInv, BeforePads
    <3>3. QED
      BY <3>2, <2>2, <1>18
  <2>3. QED
    BY <2>1, <2>2
<1>21. unwind' = [t \in Invokes' |-> unwind'[t]]
  BY <1>1
<1>22. todo' \subseteq Invokes'
  BY <1>1 DEF PadsInv
<1>23. ASSUME NEW q \in Pads PROVE Untouched(q)' \/ (Split(q)' /\ phase' \notin BeforePads)
  <2>1. CASE q = p
    <3>1. Split(q)' = Split(p)'
      BY <2>1, <1>1 DEF Split
    <3>2. QED
      BY <3>1, <1>17 DEF BeforePads
  <2>2. CASE q # p
    BY <2>2, <1>19 DEF BeforePads
  <2>3. QED
    BY <2>1, <2>2
<1>24. QED
  BY <1>1, <1>16, <1>20, <1>21, <1>22, <1>23 DEF PadsInv, Phases, BeforePads

\* What the type analysis leaves alone, and where it takes the phase.
LEMMA CallGraphKeeps ==
    ASSUME CallGraph
    PROVE  /\ UNCHANGED <<prog, module, mem, pathVars>>
           /\ phase \in {"globals", "mlta", "finalize"}
           /\ phase' \in {"globals", "mlta", "finalize", "merge"}
           /\ phase' # phase => /\ <<phase, phase'>> \in {<<"globals", "mlta">>, <<"mlta", "finalize">>,
                                                          <<"finalize", "merge">>}
  BY DEF CallGraph, TypeNext, NextGlobal, ConfineUser, AnalyseFunctions, FindCallees, FindInLayer,
         FoundCallees, doModulePass, doFinalization, typeVars, tables

LEMMA RunKeeps ==
    ASSUME Run
    PROVE  phase = "run" /\ UNCHANGED <<phase, prog, module, typeVars, pathVars>>
  BY Zenon DEF Run

LEMMA PadsStep == PadsInv /\ [Next]_vars => PadsInv'
<1> SUFFICES ASSUME PadsInv, [Next]_vars PROVE PadsInv'
  OBVIOUS
<1> USE DEF pathVars, vars
<1>1. CASE LowerInvokeCalls
  BY <1>1, PadsElsewhere DEF LowerInvokeCalls, BeforePads, Phases
<1>2. CASE CallGraph
  <2>1. phase \in BeforePads /\ phase' \in BeforePads
    BY <1>2, CallGraphKeeps DEF BeforePads
  <2>2. QED
    BY <2>1, <1>2, CallGraphKeeps, PadsElsewhere DEF Phases
<1>3. CASE MergeIndirectFunctionCalls
  BY <1>3, PadsElsewhere DEF MergeIndirectFunctionCalls, BeforePads, Phases
<1>4. CASE AnalyzeDirectFunctionCalls
  BY <1>4, PadsElsewhere DEF AnalyzeDirectFunctionCalls, BeforePads, Phases
<1>5. CASE UpdateCFGWithIndirectCalls
  BY <1>5, PadsElsewhere DEF UpdateCFGWithIndirectCalls, BeforePads, Phases
<1>6. CASE RecoverInvokeCalls
  BY <1>6, PadsElsewhere DEF RecoverInvokeCalls, BeforePads, Phases
<1>7. ASSUME NEW s \in Sites, DuplicateInvokeUnwinds(s) PROVE PadsInv'
  <2>1. /\ phase = "duplicate" /\ phase' = "duplicate" /\ s \in todo /\ todo' = todo \ {s}
        /\ UNCHANGED prog
    BY <1>7 DEF DuplicateInvokeUnwinds
  <2>2. CASE predecessors(unwind[s]) = {s} /\ UNCHANGED <<unwind, phi>>
    <3>1. Invokes' = Invokes /\ inst' = inst
      BY <2>1 DEF Invokes, Sites, inst
    <3>2. ASSUME NEW t \in Invokes \ todo' PROVE Alone(t)'
      <4>1. CASE t = s
        BY <4>1, <2>2, <3>1 DEF Alone, predecessors
      <4>2. CASE t # s
        <5>1. Alone(t)
          BY <4>2, <2>1 DEF PadsInv, BeforePads
        <5>2. QED
          BY <5>1, <2>2, <3>1 DEF Alone
      <4>3. QED
        BY <4>1, <4>2
    <3>3. \A q \in Pads : Untouched(q)' = Untouched(q) /\ Split(q)' = Split(q)
      BY <2>2, <3>1 DEF Untouched, Split, Alone
    <3>4. todo' \subseteq Invokes'
      BY <2>1, <3>1 DEF PadsInv
    <3>5. \A q \in Pads : Untouched(q)' \/ (Split(q)' /\ phase' \notin BeforePads)
      BY <3>3, <2>1 DEF PadsInv
    <3>6. QED
      BY <2>1, <2>2, <3>1, <3>2, <3>4, <3>5 DEF PadsInv, BeforePads
  <2>3. CASE /\ predecessors(unwind[s]) # {s}
             /\ \E first \in predecessors(unwind[s]) :
                   LET new == Duplicated(unwind[s], predecessors(unwind[s]), first)
                   IN  /\ unwind' = [i \in Invokes |-> IF i \in predecessors(unwind[s]) THEN new[i]
                                                       ELSE unwind[i]]
                       /\ phi' = [phi EXCEPT ![unwind[s][1]] = MovedPhi(@, new)]
    BY <2>1, <2>3, PadsSplit
  <2>4. QED
    BY <1>7, <2>2, <2>3 DEF DuplicateInvokeUnwinds
<1>8. CASE DuplicateDone
  BY <1>8, PadsElsewhere DEF DuplicateDone, BeforePads, Phases
<1>9. CASE Run
  BY <1>9, RunKeeps, PadsElsewhere DEF BeforePads, Phases, PadsInv
<1>10. CASE UNCHANGED vars
  BY <1>10, PadsElsewhere DEF PadsInv, Phases
<1>11. QED
  BY <1>1, <1>2, <1>3, <1>4, <1>5, <1>6, <1>7, <1>8, <1>9, <1>10 DEF Next

\* In every reachable state the invokes of a pad all land as they did, or each on
\* a pad of its own that the PHI node knows, and a visited invoke is alone
\* (DuplicateInvokeUnwinds).
THEOREM PadsAlways == Spec => []PadsInv
  BY PadsInit, PadsStep, PTL DEF Spec

\* When all invokes are visited, every one has a landing pad of its own, which
\* leads to its handler and brings its value there (DuplicateInvokeUnwinds).
THEOREM LandsAloneHolds == Spec => []LandsAlone
<1>1. PadsInv => LandsAlone
  <2> SUFFICES ASSUME PadsInv, phase = "run", NEW s \in Invokes
               PROVE  LET p == inst[s].pad
                      IN  /\ predecessors(unwind[s]) = {s} /\ unwind[s][1] = p
                          /\ \/ DOMAIN phi[p] = {s} /\ phi[p][s] = s
                             \/ unwind[s] \in DOMAIN phi[p] /\ phi[p][unwind[s]] = s
    BY DEF LandsAlone
  <2> DEFINE p == inst[s].pad
  <2>1. p \in Pads
    BY SiteFacts DEF PadsInv, Invokes, Sites, inst
  <2>2. \A t \in Invokes : unwind[t] = unwind[s] => t = s
    BY DEF PadsInv, BeforePads, Alone
  <2>3. predecessors(unwind[s]) = {s}
    BY <2>2 DEF predecessors
  <2>4. CASE Untouched(p)
    <3>1. \A t \in Invokes : inst[t].pad = p => unwind[t] = <<p, 0>>
      BY <2>4 DEF Untouched
    <3>2. {i \in Invokes : inst[i].pad = p} = {s}
      BY <3>1, <2>2
    <3>3. phi[p] = [t \in {s} |-> t]
      BY <3>2, <2>4 DEF Untouched
    <3>4. QED
      BY <2>3, <3>1, <3>3
  <2>5. CASE Split(p)
    BY <2>3, <2>5 DEF Split
  <2>6. QED
    BY <2>1, <2>4, <2>5 DEF PadsInv
<1>2. QED
  BY <1>1, PadsAlways, PTL

-----------------------------------------------------------------------------
(* Sites in order.                                                         *)

Ascending(order, S) ==
    /\ order \in [1 .. Cardinality(S) -> S]
    /\ \A i, j \in DOMAIN order : i < j => order[i] < order[j]

\* A finite set of naturals can be put in order.
LEMMA AscendingExists ==
    ASSUME NEW S \in SUBSET Nat, IsFiniteSet(S)
    PROVE  \E order : Ascending(order, S)
<1> DEFINE Good == {n \in Nat : \A T \in SUBSET Nat : IsFiniteSet(T) /\ Cardinality(T) = n =>
                                  \E order : Ascending(order, T)}
<1>1. 0 \in Good
  <2>1. ASSUME NEW T \in SUBSET Nat, IsFiniteSet(T), Cardinality(T) = 0
        PROVE  \E order : Ascending(order, T)
    <3>1. 1 .. Cardinality(T) = {}
      BY <2>1
    <3> DEFINE order == [i \in 1 .. Cardinality(T) |-> 0]
    <3>2. Ascending(order, T)
      BY <3>1 DEF Ascending
    <3>3. QED
      BY <3>2
  <2>2. QED
    BY <2>1
<1>2. ASSUME NEW n \in Nat, n \in Good PROVE n + 1 \in Good
  <2>1. ASSUME NEW T \in SUBSET Nat, IsFiniteSet(T), Cardinality(T) = n + 1
        PROVE  \E order : Ascending(order, T)
    <3>1. T # {}
      BY <2>1, FS_EmptySet
    <3>2. PICK least \in T : \A x \in T : least <= x
      BY <3>1, LeastNatural
    <3>3. IsFiniteSet(T \ {least}) /\ Cardinality(T \ {least}) = n
      BY <2>1, FS_RemoveElement
    <3>4. PICK rest : Ascending(rest, T \ {least})
      BY <3>3, <1>2
    <3>5. rest \in [1 .. n -> T \ {least}] /\ \A i, j \in 1 .. n : i < j => rest[i] < rest[j]
      BY <3>3, <3>4 DEF Ascending
    <3> DEFINE order == [i \in 1 .. n + 1 |-> IF i = 1 THEN least ELSE rest[i - 1]]
    <3>6. ASSUME NEW i \in 1 .. n + 1 PROVE order[i] \in T
      <4>1. CASE i = 1
        BY <4>1
      <4>2. CASE i # 1
        <5>1. i - 1 \in 1 .. n
          BY <4>2
        <5>2. QED
          BY <5>1, <4>2, <3>5
      <4>3. QED
        BY <4>1, <4>2
    <3>7. ASSUME NEW i \in 1 .. n + 1, NEW j \in 1 .. n + 1, i < j PROVE order[i] < order[j]
      <4>1. j # 1 /\ j - 1 \in 1 .. n /\ order[j] = rest[j - 1]
        BY <3>7
      <4>2. CASE i = 1
        <5>1. rest[j - 1] \in T \ {least} /\ order[i] = least
          BY <4>1, <4>2, <3>5
        <5>2. least <= rest[j - 1] /\ least \in Nat /\ rest[j - 1] \in Nat /\ rest[j - 1] # least
          BY <5>1, <3>2
        <5> HIDE DEF order
        <5>3. QED
          BY <5>1, <5>2, <4>1
      <4>3. CASE i # 1
        <5>1. i - 1 \in 1 .. n /\ i - 1 < j - 1 /\ order[i] = rest[i - 1]
          BY <4>3, <3>7
        <5>2. QED
          BY <5>1, <4>1, <3>5
      <4>4. QED
        BY <4>2, <4>3
    <3>8. Ascending(order, T)
      BY <3>6, <3>7, <2>1 DEF Ascending
    <3>9. QED
      BY <3>8
  <2>2. QED
    BY <2>1
<1> HIDE DEF Good
<1>3. Nat \subseteq Good
  BY <1>1, <1>2, Climb
<1>4. Cardinality(S) \in Good
  BY <1>3, FS_CardinalityType
<1>5. QED
  BY <1>4 DEF Good

\* InOrder lists every site once.
LEMMA InOrderLists ==
    ASSUME NEW S \in SUBSET Nat, IsFiniteSet(S)
    PROVE  /\ InOrder(S) \in [1 .. Cardinality(S) -> S]
           /\ \A i, j \in 1 .. Cardinality(S) : InOrder(S)[i] = InOrder(S)[j] => i = j
           /\ \A x \in S : \E i \in 1 .. Cardinality(S) : InOrder(S)[i] = x
           /\ Cardinality(S) \in Nat
<1> DEFINE order == InOrder(S)
           n == Cardinality(S)
<1>1. n \in Nat
  BY FS_CardinalityType
<1>2. order \in [1 .. n -> S] /\ \A i, j \in DOMAIN order : i < j => order[i] < order[j]
  BY AscendingExists DEF Ascending, InOrder
<1>3. ASSUME NEW i \in 1 .. n, NEW j \in 1 .. n, order[i] = order[j] PROVE i = j
  <2>1. order[i] \in Nat
    BY <1>2
  <2> HIDE DEF order, n
  <2>2. ~ (i < j) /\ ~ (j < i)
    BY <2>1, <1>2, <1>3, <1>1
  <2>3. QED
    BY <2>2, <1>1
<1>4. IsFiniteSet(1 .. n) /\ Cardinality(1 .. n) = n
  BY <1>1, FS_Interval
<1> HIDE DEF order, n
<1>5. order \in Injection(1 .. n, S)
  BY <1>2, <1>3 DEF Injection, IsInjective
<1>6. order \in Surjection(1 .. n, S)
  BY <1>4, <1>5, FS_Injection DEF n
<1>7. \A x \in S : \E i \in 1 .. n : order[i] = x
  BY <1>6 DEF Surjection
<1>8. QED
  BY <1>1, <1>2, <1>3, <1>7 DEF order, n

-----------------------------------------------------------------------------
(* The layers below a value.                                               *)

\* A function on 1 .. n is a sequence of its values.
LEMMA FunctionIsSeq ==
    ASSUME NEW n \in Nat, NEW s, s = [i \in 1 .. n |-> s[i]]
    PROVE  s \in Seq({s[i] : i \in 1 .. n})
<1>1. s \in [1 .. n -> {s[i] : i \in 1 .. n}]
  OBVIOUS
<1>2. QED
  BY <1>1

\* Two sequences in a row are a sequence.
LEMMA ConcatIsSeq ==
    ASSUME NEW A, NEW s \in Seq(A), NEW B, NEW t \in Seq(B)
    PROVE  \E C : s \o t \in Seq(C)
<1>1. s \in Seq(A \cup B) /\ t \in Seq(A \cup B)
  BY SeqMonotonic
<1>2. s \o t \in Seq(A \cup B)
  BY <1>1
<1>3. QED
  BY <1>2

\* One level down in getGEPIndicesForOffset.
DownIndex(at) ==
    Max({j \in 0 .. Len(Elements[at.ty]) - 1 : ElementOffset(at.ty, j) <= at.rest})
DownStep(at) ==
    IF at.rest = 0 \/ at.ty \notin Composite THEN at
    ELSE [path |-> Append(at.path, DownIndex(at)), ty |-> Elements[at.ty][DownIndex(at) + 1],
          rest |-> at.rest - ElementOffset(at.ty, DownIndex(at))]

DownUpTo(a, top, ty, offset) ==
    a = [n \in 0 .. top |-> IF n = 0 THEN [path |-> <<>>, ty |-> ty, rest |-> offset % SizeOf[ty]]
                            ELSE DownStep(a[n - 1])]

LEMMA IndicesDef ==
    ASSUME NEW ty, NEW offset
    PROVE  IndicesForOffset(ty, offset) =
             (CHOOSE a : DownUpTo(a, Cardinality(Composite), ty, offset))[Cardinality(Composite)].path
BY DEF IndicesForOffset, DownUpTo, DownStep, DownIndex

LEMMA DownExists ==
    ASSUME NEW ty, NEW offset, NEW top \in Nat
    PROVE  \E a : DownUpTo(a, top, ty, offset)
<1> DEFINE Start == [path |-> <<>>, ty |-> ty, rest |-> offset % SizeOf[ty]]
           Good == {n \in Nat : \E a : DownUpTo(a, n, ty, offset)}
<1>1. 0 \in Good
  <2> DEFINE a == [n \in 0 .. 0 |-> Start]
  <2>1. DownUpTo(a, 0, ty, offset)
    BY DEF DownUpTo
  <2>2. QED
    BY <2>1
<1>2. ASSUME NEW n \in Nat, n \in Good PROVE n + 1 \in Good
  <2>1. PICK a : DownUpTo(a, n, ty, offset)
    BY <1>2
  <2> DEFINE b == [m \in 0 .. n + 1 |-> IF m = n + 1 THEN DownStep(a[n]) ELSE a[m]]
  <2>2. ASSUME NEW m \in 0 .. n + 1
        PROVE  b[m] = IF m = 0 THEN Start ELSE DownStep(b[m - 1])
    <3>1. CASE m = n + 1
      <4>1. m # 0 /\ m - 1 \in 0 .. n + 1 /\ m - 1 = n /\ m - 1 # n + 1
        BY <3>1
      <4>2. QED
        BY <3>1, <4>1
    <3>2. CASE m # n + 1
      <4>1. m \in 0 .. n /\ (m # 0 => m - 1 \in 0 .. n + 1 /\ m - 1 # n + 1)
        BY <3>2
      <4>2. a[m] = IF m = 0 THEN Start ELSE DownStep(a[m - 1])
        BY <4>1, <2>1 DEF DownUpTo
      <4>3. QED
        BY <3>2, <4>1, <4>2
    <3>3. QED
      BY <3>1, <3>2
  <2>3. DownUpTo(b, n + 1, ty, offset)
    BY <2>2 DEF DownUpTo
  <2>4. QED
    BY <2>3
<1> HIDE DEF Good
<1>3. top \in Good
  BY <1>1, <1>2, Climb
<1>4. QED
  BY <1>3 DEF Good

\* The path to an offset is a sequence.
LEMMA IndicesAreSeq ==
    ASSUME NEW ty, NEW offset
    PROVE  \E I : IndicesForOffset(ty, offset) \in Seq(I)
<1> DEFINE top == Cardinality(Composite)
           a == CHOOSE x : DownUpTo(x, top, ty, offset)
<1>1. top \in Nat
  BY ValuesAssumption, FS_CardinalityType
<1>2. DownUpTo(a, top, ty, offset)
  BY <1>1, DownExists
<1>3. IndicesForOffset(ty, offset) = a[top].path
  BY IndicesDef
<1> HIDE DEF top, a
<1>4. a[0].path = <<>> /\ \A n \in 1 .. top : a[n] = DownStep(a[n - 1])
  BY <1>1, <1>2 DEF DownUpTo
<1> DEFINE Good == {n \in Nat : n <= top => \E I : a[n].path \in Seq(I)}
<1>5. 0 \in Good
  <2>1. a[0].path \in Seq({})
    BY <1>4
  <2>2. QED
    BY <2>1
<1>6. ASSUME NEW n \in Nat, n \in Good, n + 1 <= top PROVE \E I : a[n + 1].path \in Seq(I)
  <2>1. PICK I : a[n].path \in Seq(I)
    BY <1>6, <1>1
  <2>2. a[n + 1] = DownStep(a[n])
    <3>1. n + 1 \in 1 .. top /\ n + 1 - 1 = n
      BY <1>6, <1>1
    <3>2. QED
      BY <3>1, <1>4
  <2>3. PICK i : a[n + 1].path \in {a[n].path, Append(a[n].path, i)}
    BY <2>2 DEF DownStep
  <2>4. a[n].path \in Seq(I \cup {i})
    BY <2>1, SeqMonotonic
  <2>5. Append(a[n].path, i) \in Seq(I \cup {i})
    BY <2>4
  <2>6. QED
    BY <2>3, <2>4, <2>5
<1> HIDE DEF Good
<1>7. \A n \in Nat : n \in Good => n + 1 \in Good
  BY <1>6 DEF Good
<1>8. top \in Good
  BY <1>1, <1>5, <1>7, Climb
<1>9. QED
  BY <1>1, <1>3, <1>8 DEF Good

\* The types along a path of indices.
PathTypes(src, path) ==
    LET ty[i \in 0 .. Len(path)] == IF i = 0 THEN src ELSE ElementType(ty[i - 1], path[i])
    IN ty

LEMMA PathLayersDef ==
    ASSUME NEW src, NEW path
    PROVE  PathLayers(src, path) =
             [list |-> [k \in 1 .. Len(path) |->
                          <<PathTypes(src, path)[Len(path) - k], path[Len(path) - k + 1]>>],
              ty |-> PathTypes(src, path)[Len(path)]]
BY DEF PathLayers, PathTypes

LEMMA PathLayersAreSeq ==
    ASSUME NEW src, NEW I, NEW path \in Seq(I)
    PROVE  \E L : PathLayers(src, path).list \in Seq(L)
<1> DEFINE list == PathLayers(src, path).list
<1>1. Len(path) \in Nat
  BY LenProperties
<1>2. list = [k \in 1 .. Len(path) |-> list[k]]
  BY PathLayersDef
<1> HIDE DEF list
<1>3. list \in Seq({list[k] : k \in 1 .. Len(path)})
  BY <1>1, <1>2, FunctionIsSeq
<1>4. QED
  BY <1>3 DEF list

LEMMA FirstFieldsAreSeq ==
    ASSUME NEW gep, NEW layers, NEW L, layers.list \in Seq(L)
    PROVE  \E M : WithFirstField(gep, layers) \in Seq(M)
<1> DEFINE first == {c \in CastsOf(gep) : /\ layers.ty \in Structs
                                          /\ Pointee(Values[c].ty) = ElementType(layers.ty, 0)}
           s == [i \in 1 .. Cardinality(first) |-> <<layers.ty, 0>>]
<1>1. first \subseteq Vals
  BY DEF CastsOf
<1>2. Cardinality(first) \in Nat
  BY <1>1, ValuesAssumption, FS_Subset, FS_CardinalityType
<1>3. s \in Seq({<<layers.ty, 0>>})
  BY <1>2
<1>4. WithFirstField(gep, layers) = s \o layers.list
  BY DEF WithFirstField
<1> HIDE DEF s
<1>5. QED
  BY <1>3, <1>4, ConcatIsSeq

LEMMA GEPLayersAreSeq ==
    ASSUME NEW v \in Vals, Op(v) = "gep"
    PROVE  \E L : getGEPLayerTypes(v) \in Seq(L)
<1> DEFINE g == Values[v]
           alias == recoverBaseType(g.of[1])
           ty == Pointee(Values[alias].ty)
           path == IndicesForOffset(ty, g.idx[1])
<1>1. \/ getGEPLayerTypes(v) = WithFirstField(v, PathLayers(ty, path))
      \/ getGEPLayerTypes(v) = <<>>
      \/ getGEPLayerTypes(v) = WithFirstField(v, PathLayers(g.src, Tail(g.idx)))
  BY DEF getGEPLayerTypes
<1>2. \E I : path \in Seq(I)
  BY IndicesAreSeq
<1>3. \E M : WithFirstField(v, PathLayers(ty, path)) \in Seq(M)
  <2> HIDE DEF path, ty
  <2>1. QED
    BY <1>2, PathLayersAreSeq, FirstFieldsAreSeq
<1>4. \E M : WithFirstField(v, PathLayers(g.src, Tail(g.idx))) \in Seq(M)
  <2>1. Tail(g.idx) \in Seq(Int)
    BY ValuesAssumption, HeadTailProperties
  <2>2. QED
    BY <2>1, PathLayersAreSeq, FirstFieldsAreSeq
<1>5. <<>> \in Seq({})
  OBVIOUS
<1>6. QED
  BY <1>1, <1>3, <1>4, <1>5

\* All layers of GEPs, and what nextLayerBaseType may return.
Layers == UNION {Range(getGEPLayerTypes(v)) : v \in {w \in Vals : Op(w) = "gep"}}
Results == [ret : BOOLEAN, TyList : Seq(Layers), NextV : Vals \cup {NULL}, seen : SUBSET Vals]
Stopped(next, visited) == [ret |-> FALSE, TyList |-> <<>>, NextV |-> next, seen |-> visited]

LEMMA GEPLayersTyped ==
    ASSUME NEW v \in Vals, Op(v) = "gep"
    PROVE  getGEPLayerTypes(v) \in Seq(Layers)
<1>1. PICK L : getGEPLayerTypes(v) \in Seq(L)
  BY GEPLayersAreSeq
<1>2. getGEPLayerTypes(v) \in Seq(Range(getGEPLayerTypes(v)))
  BY <1>1, SeqOfRange
<1>3. Range(getGEPLayerTypes(v)) \subseteq Layers
  BY DEF Layers
<1>4. QED
  BY <1>2, <1>3, SeqMonotonic

\* One operand of a PHI node: g has the results for the operands.
PhiStep(g, acc, o) ==
    LET n == g[<<o, acc.seen>>]
    IN [n EXCEPT !.ret = @ \/ acc.ret, !.TyList = acc.TyList \o @]

PhiUpTo(a, top, g, values, seen) ==
    a = [i \in 0 .. top |-> IF i = 0 THEN Stopped(NULL, seen) ELSE PhiStep(g, a[i - 1], values[i])]

PhiResult(g, values, seen) == (CHOOSE a : PhiUpTo(a, Len(values), g, values, seen))[Len(values)]

\* nextLayerBaseType for x, from the results g for what is below.
Below(g, x) ==
    LET v == x[1]
        seen == x[2] \cup {v}
    IN IF v = NULL \/ Op(v) = "argument" \/ v \in x[2] THEN Stopped(v, x[2])
       ELSE IF Op(v) = "gep" THEN BelowGEP(v, getGEPLayerTypes(v), seen)
       ELSE IF Op(v) \in {"load", "bitcast", "select", "unary"} THEN g[<<Values[v].of[1], seen>>]
       ELSE IF Op(v) = "phi" THEN PhiResult(g, Values[v].of, seen)
       ELSE Stopped(NULL, seen)

Visits == (Vals \cup {NULL}) \X SUBSET Vals

LEMMA NextLayerDef ==
    nextLayerBaseType = CHOOSE g : g = [x \in Visits |-> Below(g, x)]
BY DEF nextLayerBaseType, Below, Visits, PhiResult, PhiUpTo, PhiStep, Stopped

LEMMA PhiExists ==
    ASSUME NEW g, NEW values, NEW seen, NEW top \in Nat
    PROVE  \E a : PhiUpTo(a, top, g, values, seen)
<1> DEFINE Start == Stopped(NULL, seen)
           Good == {n \in Nat : \E a : PhiUpTo(a, n, g, values, seen)}
<1>1. 0 \in Good
  <2> DEFINE a == [n \in 0 .. 0 |-> Start]
  <2>1. PhiUpTo(a, 0, g, values, seen)
    BY DEF PhiUpTo
  <2>2. QED
    BY <2>1
<1>2. ASSUME NEW n \in Nat, n \in Good PROVE n + 1 \in Good
  <2>1. PICK a : PhiUpTo(a, n, g, values, seen)
    BY <1>2
  <2> DEFINE b == [m \in 0 .. n + 1 |-> IF m = n + 1 THEN PhiStep(g, a[n], values[n + 1]) ELSE a[m]]
  <2>2. ASSUME NEW m \in 0 .. n + 1
        PROVE  b[m] = IF m = 0 THEN Start ELSE PhiStep(g, b[m - 1], values[m])
    <3>1. CASE m = n + 1
      <4>1. m # 0 /\ m - 1 \in 0 .. n + 1 /\ m - 1 = n /\ m - 1 # n + 1
        BY <3>1
      <4>2. QED
        BY <3>1, <4>1
    <3>2. CASE m # n + 1
      <4>1. m \in 0 .. n /\ (m # 0 => m - 1 \in 0 .. n + 1 /\ m - 1 # n + 1)
        BY <3>2
      <4>2. a[m] = IF m = 0 THEN Start ELSE PhiStep(g, a[m - 1], values[m])
        BY <4>1, <2>1 DEF PhiUpTo
      <4>3. QED
        BY <3>2, <4>1, <4>2
    <3>3. QED
      BY <3>1, <3>2
  <2>3. PhiUpTo(b, n + 1, g, values, seen)
    BY <2>2 DEF PhiUpTo
  <2>4. QED
    BY <2>3
<1> HIDE DEF Good
<1>3. top \in Good
  BY <1>1, <1>2, Climb
<1>4. QED
  BY <1>3 DEF Good

\* The rounds of a PHI node.
PhiRun(a, g, values, seen) ==
    /\ PhiResult(g, values, seen) = a[Len(values)] /\ a[0] = Stopped(NULL, seen)
    /\ \A i \in 1 .. Len(values) : a[i] = PhiStep(g, a[i - 1], values[i])

LEMMA PhiRounds ==
    ASSUME NEW g, NEW values \in Seq(Vals), NEW seen
    PROVE  \E a : PhiRun(a, g, values, seen)
<1> DEFINE top == Len(values)
           a == CHOOSE b : PhiUpTo(b, top, g, values, seen)
<1>1. top \in Nat
  BY LenProperties
<1>2. PhiUpTo(a, top, g, values, seen)
  BY <1>1, PhiExists
<1>3. PhiResult(g, values, seen) = a[top]
  BY DEF PhiResult
<1> HIDE DEF a, top
<1>4. a[0] = Stopped(NULL, seen) /\ \A i \in 1 .. top : a[i] = PhiStep(g, a[i - 1], values[i])
  BY <1>1, <1>2 DEF PhiUpTo
<1>5. QED
  BY <1>3, <1>4 DEF top, PhiRun

\* One operand keeps to the results, and what was visited.
LEMMA PhiStepTyped ==
    ASSUME NEW g \in [Visits -> Results], NEW acc \in Results, NEW o \in Vals
    PROVE  /\ PhiStep(g, acc, o) \in Results
           /\ <<o, acc.seen>> \in Visits /\ PhiStep(g, acc, o).seen = g[<<o, acc.seen>>].seen
<1> DEFINE n == g[<<o, acc.seen>>]
<1>1. <<o, acc.seen>> \in Visits
  BY DEF Visits, Results
<1>2. n \in Results
  BY <1>1
<1>3. PhiStep(g, acc, o) = [n EXCEPT !.ret = @ \/ acc.ret, !.TyList = acc.TyList \o @]
  BY DEF PhiStep
<1> HIDE DEF n
<1>4. (n.ret \/ acc.ret) \in BOOLEAN /\ acc.TyList \o n.TyList \in Seq(Layers)
  BY <1>2, ConcatProperties DEF Results
<1>5. PhiStep(g, acc, o) = [ret |-> n.ret \/ acc.ret, TyList |-> acc.TyList \o n.TyList,
                            NextV |-> n.NextV, seen |-> n.seen]
  BY <1>2, <1>3 DEF Results
<1>6. n.NextV \in Vals \cup {NULL} /\ n.seen \in SUBSET Vals
  BY <1>2 DEF Results
<1>7. PhiStep(g, acc, o) \in Results
  BY <1>4, <1>5, <1>6 DEF Results
<1>8. PhiStep(g, acc, o).seen = n.seen
  BY <1>5
<1>9. QED
  BY <1>1, <1>7, <1>8 DEF n

LEMMA StoppedTyped ==
    ASSUME NEW next \in Vals \cup {NULL}, NEW visited \in SUBSET Vals
    PROVE  Stopped(next, visited) \in Results /\ Stopped(next, visited).seen = visited
<1>1. <<>> \in Seq(Layers)
  OBVIOUS
<1>2. QED
  BY <1>1 DEF Stopped, Results

LEMMA PhiTyped ==
    ASSUME NEW g \in [Visits -> Results], NEW values \in Seq(Vals), NEW seen \in SUBSET Vals
    PROVE  PhiResult(g, values, seen) \in Results
<1>0. PICK a : PhiRun(a, g, values, seen)
  BY PhiRounds
<1>1. /\ PhiResult(g, values, seen) = a[Len(values)] /\ a[0] = Stopped(NULL, seen)
      /\ \A i \in 1 .. Len(values) : a[i] = PhiStep(g, a[i - 1], values[i])
  BY <1>0 DEF PhiRun
<1> DEFINE Good == {n \in Nat : n <= Len(values) => a[n] \in Results}
<1>2. 0 \in Good
  BY <1>1, StoppedTyped
<1>3. ASSUME NEW n \in Nat, n \in Good, n + 1 <= Len(values) PROVE a[n + 1] \in Results
  <2>1. n + 1 \in 1 .. Len(values) /\ n + 1 - 1 = n /\ a[n] \in Results
    BY <1>3, LenProperties
  <2>2. values[n + 1] \in Vals
    BY <2>1, ElementOfSeq
  <2>3. a[n + 1] = PhiStep(g, a[n], values[n + 1])
    BY <2>1, <1>1
  <2>4. QED
    BY <2>1, <2>2, <2>3, PhiStepTyped
<1> HIDE DEF Good
<1>4. \A n \in Nat : n \in Good => n + 1 \in Good
  BY <1>3 DEF Good
<1>5. Len(values) \in Good /\ Len(values) \in Nat
  BY <1>2, <1>4, Climb, LenProperties
<1>6. QED
  BY <1>1, <1>5 DEF Good

\* g and h agree below what was visited, where g only visits more.
AgreeFrom(g, h, seen) ==
    \A y \in Visits : seen \subseteq y[2] => h[y] = g[y] /\ y[2] \subseteq g[y].seen

LEMMA PhiSame ==
    ASSUME NEW g \in [Visits -> Results], NEW h, NEW values \in Seq(Vals), NEW seen \in SUBSET Vals,
           AgreeFrom(g, h, seen)
    PROVE  PhiResult(h, values, seen) = PhiResult(g, values, seen)
           /\ seen \subseteq PhiResult(g, values, seen).seen
<1>0. PICK a : PhiRun(a, g, values, seen)
  BY PhiRounds
<1>1. /\ PhiResult(g, values, seen) = a[Len(values)] /\ a[0] = Stopped(NULL, seen)
      /\ \A i \in 1 .. Len(values) : a[i] = PhiStep(g, a[i - 1], values[i])
  BY <1>0 DEF PhiRun
<1>10. PICK b : PhiRun(b, h, values, seen)
  BY PhiRounds
<1>2. /\ PhiResult(h, values, seen) = b[Len(values)] /\ b[0] = Stopped(NULL, seen)
      /\ \A i \in 1 .. Len(values) : b[i] = PhiStep(h, b[i - 1], values[i])
  BY <1>10 DEF PhiRun
<1> DEFINE Good == {n \in Nat : n <= Len(values) =>
                      a[n] \in Results /\ b[n] = a[n] /\ seen \subseteq a[n].seen}
<1>3. 0 \in Good
  <2>1. Stopped(NULL, seen) \in Results /\ seen \subseteq Stopped(NULL, seen).seen
    BY StoppedTyped
  <2>2. QED
    BY <1>1, <1>2, <2>1
<1>4. ASSUME NEW n \in Nat, n \in Good, n + 1 <= Len(values)
      PROVE  a[n + 1] \in Results /\ b[n + 1] = a[n + 1] /\ seen \subseteq a[n + 1].seen
  <2>1. /\ n + 1 \in 1 .. Len(values) /\ n + 1 - 1 = n
        /\ a[n] \in Results /\ b[n] = a[n] /\ seen \subseteq a[n].seen
    BY <1>4, LenProperties
  <2> DEFINE o == values[n + 1]
             y == <<o, a[n].seen>>
  <2>2. o \in Vals
    BY <2>1, ElementOfSeq
  <2>3. a[n + 1] = PhiStep(g, a[n], o) /\ b[n + 1] = PhiStep(h, a[n], o)
    BY <2>1, <1>1, <1>2
  <2>4. PhiStep(g, a[n], o) \in Results /\ y \in Visits /\ PhiStep(g, a[n], o).seen = g[y].seen
    BY <2>1, <2>2, PhiStepTyped
  <2>5. h[y] = g[y] /\ a[n].seen \subseteq g[y].seen
    BY <2>1, <2>4 DEF AgreeFrom
  <2>6. PhiStep(h, a[n], o) = PhiStep(g, a[n], o)
    BY <2>5 DEF PhiStep
  <2>7. QED
    BY <2>1, <2>3, <2>4, <2>5, <2>6
<1> HIDE DEF Good
<1>5. \A n \in Nat : n \in Good => n + 1 \in Good
  BY <1>4 DEF Good
<1>6. Len(values) \in Good /\ Len(values) \in Nat
  BY <1>3, <1>5, Climb, LenProperties
<1>7. QED
  BY <1>1, <1>2, <1>6 DEF Good

LEMMA VisitFacts ==
    ASSUME NEW v \in Vals
    PROVE  /\ Values[v].of \in Seq(Vals) /\ v # NULL
           /\ Op(v) \in {"load", "bitcast", "select", "unary", "gep"} => Values[v].of[1] \in Vals
<1>1. Values[v].of \in Seq(Vals) /\ v # NULL
  BY ValuesAssumption
<1>2. ASSUME Values[v].of # <<>> PROVE Values[v].of[1] \in Vals
  <2>1. 1 \in 1 .. Len(Values[v].of)
    BY <1>1, <1>2, EmptySeq
  <2>2. QED
    BY <1>1, <2>1, ElementOfSeq
<1>3. QED
  BY <1>1, <1>2, ValuesAssumption

\* The results are of their type.
LEMMA BelowTyped ==
    ASSUME NEW g \in [Visits -> Results], NEW x \in Visits
    PROVE  Below(g, x) \in Results
<1> DEFINE v == x[1]
           seen == x[2] \cup {v}
<1>1. v \in Vals \cup {NULL} /\ x[2] \in SUBSET Vals
  BY DEF Visits
<1>2. CASE v = NULL \/ Op(v) = "argument" \/ v \in x[2]
  BY <1>1, <1>2, StoppedTyped DEF Below
<1>3. CASE ~(v = NULL \/ Op(v) = "argument" \/ v \in x[2])
  <2>1. v \in Vals /\ seen \in SUBSET Vals
    BY <1>1, <1>3
  <2>2. CASE Op(v) = "gep"
    <3>1. getGEPLayerTypes(v) \in Seq(Layers) /\ Values[v].of[1] \in Vals
      BY <2>1, <2>2, GEPLayersTyped, VisitFacts
    <3>2. Below(g, x) = BelowGEP(v, getGEPLayerTypes(v), seen)
      BY <1>3, <2>2 DEF Below
    <3> HIDE DEF v, seen
    <3>3. QED
      BY <3>1, <3>2, <2>1 DEF BelowGEP, Results
  <2>3. CASE Op(v) \in {"load", "bitcast", "select", "unary"}
    <3>1. <<Values[v].of[1], seen>> \in Visits
      BY <2>1, <2>3, VisitFacts DEF Visits
    <3>2. Below(g, x) = g[<<Values[v].of[1], seen>>]
      BY <1>3, <2>3 DEF Below
    <3>3. QED
      BY <3>1, <3>2
  <2>4. CASE Op(v) = "phi"
    <3>1. Below(g, x) = PhiResult(g, Values[v].of, seen)
      BY <1>3, <2>4 DEF Below
    <3>2. QED
      BY <3>1, <2>1, VisitFacts, PhiTyped
  <2>5. CASE Op(v) \notin {"gep", "load", "bitcast", "select", "unary", "phi"}
    <3>1. Below(g, x) = Stopped(NULL, seen)
      BY <1>3, <2>5 DEF Below
    <3>2. QED
      BY <3>1, <2>1, StoppedTyped
  <2>6. QED
    BY <2>2, <2>3, <2>4, <2>5
<1>4. QED
  BY <1>2, <1>3

\* The results for x follow from those for visits that have seen more.
LEMMA BelowSame ==
    ASSUME NEW g \in [Visits -> Results], NEW h, NEW x \in Visits,
           x[1] \in Vals /\ x[1] \notin x[2] => AgreeFrom(g, h, x[2] \cup {x[1]})
    PROVE  Below(h, x) = Below(g, x) /\ x[2] \subseteq Below(g, x).seen
<1> DEFINE v == x[1]
           seen == x[2] \cup {v}
<1>1. v \in Vals \cup {NULL} /\ x[2] \in SUBSET Vals
  BY DEF Visits
<1>2. CASE v = NULL \/ Op(v) = "argument" \/ v \in x[2]
  BY <1>1, <1>2, StoppedTyped DEF Below
<1>3. CASE ~(v = NULL \/ Op(v) = "argument" \/ v \in x[2])
  <2>1. v \in Vals /\ seen \in SUBSET Vals /\ AgreeFrom(g, h, seen)
    BY <1>1, <1>3
  <2>2. CASE Op(v) = "gep"
    BY <1>3, <2>2 DEF Below, BelowGEP
  <2>3. CASE Op(v) \in {"load", "bitcast", "select", "unary"}
    <3> DEFINE y == <<Values[v].of[1], seen>>
    <3>1. y \in Visits /\ y[2] = seen
      BY <2>1, <2>3, VisitFacts DEF Visits
    <3>2. Below(g, x) = g[y] /\ Below(h, x) = h[y]
      BY <1>3, <2>3 DEF Below
    <3>3. h[y] = g[y] /\ seen \subseteq g[y].seen
      BY <2>1, <3>1 DEF AgreeFrom
    <3>4. QED
      BY <3>2, <3>3
  <2>4. CASE Op(v) = "phi"
    <3>1. /\ Below(g, x) = PhiResult(g, Values[v].of, seen)
          /\ Below(h, x) = PhiResult(h, Values[v].of, seen)
      BY <1>3, <2>4 DEF Below
    <3>2. Values[v].of \in Seq(Vals)
      BY <2>1, VisitFacts
    <3> HIDE DEF seen, v
    <3>3. /\ PhiResult(h, Values[v].of, seen) = PhiResult(g, Values[v].of, seen)
          /\ seen \subseteq PhiResult(g, Values[v].of, seen).seen
      BY <2>1, <3>2, PhiSame
    <3>4. QED
      BY <3>1, <3>3 DEF seen
  <2>5. CASE Op(v) \notin {"gep", "load", "bitcast", "select", "unary", "phi"}
    <3>1. Below(g, x) = Stopped(NULL, seen) /\ Below(h, x) = Stopped(NULL, seen)
      BY <1>3, <2>5 DEF Below
    <3>2. QED
      BY <3>1, <2>1, StoppedTyped
  <2>6. QED
    BY <2>2, <2>3, <2>4, <2>5
<1>4. QED
  BY <1>2, <1>3

\* What is left to visit, and results that are right where less than n is left.
Left(x) == Cardinality(Vals \ x[2])
Solved(g, n) ==
    /\ g \in [Visits -> Results]
    /\ \A x \in Visits : Left(x) < n => g[x] = Below(g, x) /\ x[2] \subseteq g[x].seen

LEMMA LeftFacts ==
    ASSUME NEW x \in Visits
    PROVE  /\ Left(x) \in Nat /\ Left(x) < Cardinality(Vals) + 1
           /\ \A y \in Visits : x[1] \in Vals /\ x[1] \notin x[2] /\ x[2] \cup {x[1]} \subseteq y[2]
                 => Left(y) \in Nat /\ Left(y) < Left(x)
<1>1. \A S \in SUBSET Vals : /\ IsFiniteSet(S) /\ Cardinality(S) \in Nat
                             /\ Cardinality(S) <= Cardinality(Vals)
  BY ValuesAssumption, FS_Subset, FS_CardinalityType
<1>2. Cardinality(Vals) \in Nat
  BY <1>1
<1>3. ASSUME NEW y \in Visits, x[1] \in Vals, x[1] \notin x[2], x[2] \cup {x[1]} \subseteq y[2]
      PROVE  Left(y) < Left(x)
  <2> DEFINE S == Vals \ x[2]
             T == Vals \ y[2]
  <2>1. T \in SUBSET S /\ T # S /\ IsFiniteSet(S) /\ S \in SUBSET Vals /\ T \in SUBSET Vals
    BY <1>1, <1>3
  <2> HIDE DEF S, T
  <2>2. Cardinality(T) <= Cardinality(S) /\ Cardinality(T) # Cardinality(S)
    BY <2>1, FS_Subset
  <2>3. QED
    BY <1>1, <2>1, <2>2 DEF Left, S, T
<1>4. \A y \in Visits : Left(y) \in Nat /\ Left(y) <= Cardinality(Vals)
  BY <1>1 DEF Left
<1>5. QED
  BY <1>2, <1>3, <1>4

\* Results that are right as far as n can be taken one step further.
LEMMA SolvedExists ==
    ASSUME NEW top \in Nat
    PROVE  \E g : Solved(g, top)
<1> DEFINE Good == {n \in Nat : \E g : Solved(g, n)}
<1>1. 0 \in Good
  <2> DEFINE g == [x \in Visits |-> Stopped(NULL, {})]
  <2>1. g \in [Visits -> Results]
    BY StoppedTyped
  <2>2. \A x \in Visits : ~ (Left(x) < 0)
    BY LeftFacts
  <2> HIDE DEF g
  <2>3. Solved(g, 0)
    BY <2>1, <2>2 DEF Solved
  <2>4. QED
    BY <2>3
<1>2. ASSUME NEW n \in Nat, n \in Good PROVE n + 1 \in Good
  <2>1. PICK g : Solved(g, n)
    BY <1>2
  <2> DEFINE h == [x \in Visits |-> Below(g, x)]
  <2>2. g \in [Visits -> Results]
    BY <2>1 DEF Solved
  <2>3. h \in [Visits -> Results] /\ \A x \in Visits : h[x] = Below(g, x)
    BY <2>2, BelowTyped
  <2> HIDE DEF h
  <2>4. ASSUME NEW x \in Visits, Left(x) < n + 1
        PROVE  h[x] = Below(h, x) /\ x[2] \subseteq h[x].seen
    <3>1. ASSUME x[1] \in Vals, x[1] \notin x[2] PROVE AgreeFrom(g, h, x[2] \cup {x[1]})
      <4>1. ASSUME NEW y \in Visits, x[2] \cup {x[1]} \subseteq y[2]
            PROVE  h[y] = g[y] /\ y[2] \subseteq g[y].seen
        <5>1. Left(y) < n
          BY <3>1, <4>1, <2>4, LeftFacts
        <5>2. QED
          BY <5>1, <2>1, <2>3 DEF Solved
      <4>2. QED
        BY <4>1 DEF AgreeFrom
    <3>2. QED
      BY <3>1, <2>2, <2>3, BelowSame
  <2>5. Solved(h, n + 1)
    BY <2>3, <2>4 DEF Solved
  <2>6. QED
    BY <2>5
<1> HIDE DEF Good
<1>3. top \in Good
  BY <1>1, <1>2, Climb
<1>4. QED
  BY <1>3 DEF Good

\* The search for the layers below a value ends whatever cycles PHI nodes make: it has
\* a result for every value and every set of values visited before, a sequence of the
\* layers of GEPs and a value to go on from (nextLayerBaseType, getGEPLayerTypes).
THEOREM NextLayerResults == nextLayerBaseType \in [Visits -> Results]
<1> DEFINE all == Cardinality(Vals) + 1
           h == nextLayerBaseType
<1>1. all \in Nat
  BY ValuesAssumption, FS_CardinalityType
<1>2. PICK g : Solved(g, all)
  BY <1>1, SolvedExists
<1>3. \A x \in Visits : g[x] = Below(g, x) /\ x[2] \subseteq g[x].seen
  BY <1>2, LeftFacts DEF Solved
<1>4. g \in [Visits -> Results]
  BY <1>2 DEF Solved
<1>5. g = [x \in Visits |-> Below(g, x)]
  BY <1>3, <1>4
<1>6. h = [x \in Visits |-> Below(h, x)]
  BY <1>5, NextLayerDef
<1> HIDE DEF h
<1>7. \A x \in Visits : h[x] = Below(h, x)
  BY <1>6
<1> DEFINE Good == {n \in Nat : \A x \in Visits : Left(x) < n => h[x] = g[x]}
<1>8. 0 \in Good
  BY LeftFacts
<1>9. ASSUME NEW n \in Nat, n \in Good PROVE n + 1 \in Good
  <2>1. ASSUME NEW x \in Visits, Left(x) < n + 1 PROVE h[x] = g[x]
    <3>1. ASSUME x[1] \in Vals, x[1] \notin x[2] PROVE AgreeFrom(g, h, x[2] \cup {x[1]})
      <4>1. ASSUME NEW y \in Visits, x[2] \cup {x[1]} \subseteq y[2]
            PROVE  h[y] = g[y] /\ y[2] \subseteq g[y].seen
        <5>1. Left(y) < n
          BY <3>1, <4>1, <2>1, LeftFacts
        <5>2. QED
          BY <5>1, <1>9, <1>3
      <4>2. QED
        BY <4>1 DEF AgreeFrom
    <3>2. Below(h, x) = Below(g, x)
      BY <3>1, <1>4, BelowSame
    <3>3. QED
      BY <3>2, <1>3, <1>7
  <2>2. QED
    BY <2>1
<1> HIDE DEF Good
<1>10. all \in Good
  BY <1>1, <1>8, <1>9, Climb
<1>11. \A x \in Visits : h[x] = g[x]
  BY <1>10, LeftFacts DEF Good
<1>12. h = g
  BY <1>5, <1>6, <1>11, <1>3, <1>7
<1>13. QED
  BY <1>4, <1>12 DEF h

LEMMA NextLayerTyped ==
    ASSUME NEW v \in Vals \cup {NULL}
    PROVE  /\ NextLayer[v].NextV \in Vals \cup {NULL}
           /\ \E L : NextLayer[v].TyList \in Seq(L)
<1>1. <<v, {}>> \in Visits
  BY DEF Visits
<1>2. NextLayer[v] \in Results
  BY <1>1, NextLayerResults DEF NextLayer
<1>3. QED
  BY <1>2 DEF Results

-----------------------------------------------------------------------------
(* A lookup of the type analysis.                                          *)

LookFields == {"site", "FS", "FS1", "FS2", "LayerNo", "PrevLayerTy", "CV", "ContinueNextLayer",
               "over", "rounds"}

\* The locals of a lookup.
LookOK(l) ==
    /\ l = [k \in LookFields |-> l[k]]
    /\ l.site \in Sites /\ l.site # 0 /\ Indirect(l.site)
    /\ l.FS \subseteq Defined
    /\ l.LayerNo \in 1 .. MAX_TYPE_LAYER /\ l.rounds \in Nat
    /\ l.CV \in Vals \cup {NULL}

\* The layers met grow with the rounds, and the functions come from the tables.
LookupsInv ==
    /\ prog \in Inputs
    /\ \A x \in sigFuncsMap : x[2] \in Defined
    /\ Callees = [s \in DOMAIN Callees |-> Callees[s]]
    /\ \A s \in DOMAIN Callees : s \in Sites /\ Indirect(s) /\ Callees[s] \subseteq Defined
    /\ look.site # 0 => LookOK(look) /\ look.rounds + 1 <= look.LayerNo

\* One layer: it is counted unless the inner loop is over.
LEMMA MatchLayerKeeps ==
    ASSUME NEW l, NEW cache, NEW t, NEW NextV \in Vals \cup {NULL}, LookOK(l)
    PROVE  LET m == MatchLayer(l, cache, t, NextV).look
           IN  /\ LookOK(m) /\ m.rounds = l.rounds /\ m.LayerNo >= l.LayerNo
               /\ ~l.over /\ l.LayerNo < MAX_TYPE_LAYER => m.LayerNo = l.LayerNo + 1
<1> DEFINE m == MatchLayer(l, cache, t, NextV).look
           FS1 == IF t \in DOMAIN cache THEN cache[t] ELSE LayerTargets(t, l.FS1, l.FS2).FS1
           capped == t[1] \in typeCapSet
<1>0. MAX_TYPE_LAYER \in Nat
  BY ValuesAssumption
<1>1. CASE l.over \/ l.LayerNo >= MAX_TYPE_LAYER
  <2>1. m = [l EXCEPT !.over = TRUE]
    BY <1>1 DEF MatchLayer
  <2>2. m = [k \in LookFields |-> IF k = "over" THEN TRUE ELSE l[k]]
    BY <2>1 DEF LookOK, LookFields
  <2> HIDE DEF m
  <2>3. /\ m = [k \in LookFields |-> m[k]] /\ m.site = l.site /\ m.rounds = l.rounds
        /\ m.LayerNo = l.LayerNo /\ m.FS = l.FS /\ m.CV = l.CV
    BY <2>2 DEF LookFields
  <2>4. QED
    BY <2>3, <1>0, <1>1 DEF LookOK, m
<1>2. CASE ~(l.over \/ l.LayerNo >= MAX_TYPE_LAYER) /\ t \notin DOMAIN cache /\ Escaped(t)
  <2>1. m = [l EXCEPT !.LayerNo = @ + 1, !.over = TRUE]
    BY <1>2 DEF MatchLayer, Skip
  <2>2. m = [k \in LookFields |-> IF k = "over" THEN TRUE
                                  ELSE IF k = "LayerNo" THEN l.LayerNo + 1 ELSE l[k]]
    BY <2>1 DEF LookOK, LookFields
  <2> HIDE DEF m
  <2>3. /\ m = [k \in LookFields |-> m[k]] /\ m.site = l.site /\ m.rounds = l.rounds
        /\ m.LayerNo = l.LayerNo + 1 /\ m.FS = l.FS /\ m.CV = l.CV
    BY <2>2 DEF LookFields
  <2>4. QED
    BY <2>3, <1>0, <1>2 DEF LookOK, m
<1>3. CASE ~(l.over \/ l.LayerNo >= MAX_TYPE_LAYER) /\ ~(t \notin DOMAIN cache /\ Escaped(t))
  <2>1. m = Matched(l, t, NextV, capped, FS1)
    BY <1>3 DEF MatchLayer
  <2> HIDE DEF m, FS1, capped
  <2>2. PICK more, prev : m = [l EXCEPT !.LayerNo = @ + 1,
              !.FS1 = FS1, !.FS2 = FS1 \cap l.FS, !.FS = FS1 \cap l.FS,
              !.CV = NextV, !.over = capped, !.ContinueNextLayer = more,
              !.PrevLayerTy = prev]
    BY <2>1 DEF Matched
  <2>3. /\ m = [k \in LookFields |-> m[k]] /\ m.site = l.site /\ m.rounds = l.rounds
        /\ m.LayerNo = l.LayerNo + 1 /\ m.FS = FS1 \cap l.FS /\ m.CV = NextV
    BY <2>2 DEF LookOK, LookFields
  <2>4. QED
    BY <2>3, <1>0, <1>3 DEF LookOK, m
<1>4. QED
  BY <1>1, <1>2, <1>3

\* a holds the locals and the cache after the first layers, up to the top.
MatchedUpTo(a, top, l, cache, next) ==
    a = [n \in 0 .. top |->
           IF n = 0 THEN [look |-> l, cache |-> cache]
           ELSE MatchLayer(a[n - 1].look, a[n - 1].cache, next.TyList[n], next.NextV)]

LEMMA MatchLayersDef ==
    ASSUME NEW l, NEW cache, NEW next
    PROVE  MatchLayers(l, cache, next) =
             (CHOOSE a : MatchedUpTo(a, Len(next.TyList), l, cache, next))[Len(next.TyList)]
BY DEF MatchLayers, MatchedUpTo

\* The layers can be counted up to any number.
LEMMA MatchedExists ==
    ASSUME NEW l, NEW cache, NEW next, NEW top \in Nat
    PROVE  \E a : MatchedUpTo(a, top, l, cache, next)
<1> DEFINE Step(a, n) == MatchLayer(a[n - 1].look, a[n - 1].cache, next.TyList[n], next.NextV)
           Good == {n \in Nat : \E a : MatchedUpTo(a, n, l, cache, next)}
<1>1. 0 \in Good
  <2> DEFINE a == [n \in 0 .. 0 |-> [look |-> l, cache |-> cache]]
  <2>1. MatchedUpTo(a, 0, l, cache, next)
    BY DEF MatchedUpTo
  <2>2. QED
    BY <2>1
<1>2. ASSUME NEW n \in Nat, n \in Good PROVE n + 1 \in Good
  <2>1. PICK a : MatchedUpTo(a, n, l, cache, next)
    BY <1>2
  <2> DEFINE b == [m \in 0 .. n + 1 |-> IF m = n + 1 THEN Step(a, n + 1) ELSE a[m]]
  <2>2. ASSUME NEW m \in 0 .. n + 1
        PROVE  b[m] = IF m = 0 THEN [look |-> l, cache |-> cache] ELSE Step(b, m)
    <3>1. CASE m = n + 1
      <4>1. m # 0 /\ m - 1 \in 0 .. n + 1 /\ m - 1 = n /\ m - 1 # n + 1 /\ n + 1 - 1 = n
        BY <3>1
      <4>2. QED
        BY <3>1, <4>1
    <3>2. CASE m # n + 1
      <4>1. m \in 0 .. n /\ (m # 0 => m - 1 \in 0 .. n + 1 /\ m - 1 # n + 1)
        BY <3>2
      <4>2. a[m] = IF m = 0 THEN [look |-> l, cache |-> cache] ELSE Step(a, m)
        BY <4>1, <2>1 DEF MatchedUpTo
      <4>3. QED
        BY <3>2, <4>1, <4>2
    <3>3. QED
      BY <3>1, <3>2
  <2>3. MatchedUpTo(b, n + 1, l, cache, next)
    BY <2>2 DEF MatchedUpTo
  <2>4. QED
    BY <2>3
<1> HIDE DEF Good
<1>3. top \in Good
  BY <1>1, <1>2, Climb
<1>4. QED
  BY <1>3 DEF Good

\* A round counts its first layer, and keeps the rest in bounds.
LEMMA MatchLayersKeep ==
    ASSUME NEW l, NEW cache, NEW next, next.NextV \in Vals \cup {NULL},
           NEW L, next.TyList \in Seq(L), next.TyList # <<>>,
           LookOK(l), ~l.over, l.LayerNo < MAX_TYPE_LAYER
    PROVE  LET m == MatchLayers(l, cache, next).look
           IN  LookOK(m) /\ m.rounds = l.rounds /\ m.LayerNo >= l.LayerNo + 1
<1> DEFINE top == Len(next.TyList)
           a == CHOOSE x : MatchedUpTo(x, top, l, cache, next)
<1>1. top \in Nat \ {0}
  BY EmptySeq, LenProperties
<1>2. MatchedUpTo(a, top, l, cache, next)
  BY <1>1, MatchedExists
<1>3. MatchLayers(l, cache, next) = a[top]
  BY MatchLayersDef
<1> HIDE DEF top, a
<1>4. a[0].look = l /\ \A n \in 1 .. top :
        a[n] = MatchLayer(a[n - 1].look, a[n - 1].cache, next.TyList[n], next.NextV)
  BY <1>1, <1>2 DEF MatchedUpTo
<1> DEFINE Good == {n \in Nat : n <= top =>
                      /\ LookOK(a[n].look) /\ a[n].look.rounds = l.rounds
                      /\ n = 0 => a[n].look = l
                      /\ n # 0 => a[n].look.LayerNo >= l.LayerNo + 1}
<1>5. 0 \in Good
  BY <1>4
<1>6. ASSUME NEW n \in Nat, n \in Good PROVE n + 1 \in Good
  <2>1. SUFFICES ASSUME n + 1 <= top
                 PROVE  /\ LookOK(a[n + 1].look) /\ a[n + 1].look.rounds = l.rounds
                        /\ a[n + 1].look.LayerNo >= l.LayerNo + 1
    OBVIOUS
  <2> DEFINE k == a[n].look
             m == MatchLayer(k, a[n].cache, next.TyList[n + 1], next.NextV).look
  <2>2. LookOK(k) /\ k.rounds = l.rounds /\ (n = 0 => k = l) /\ (n # 0 => k.LayerNo >= l.LayerNo + 1)
    BY <1>6, <1>1, <2>1
  <2>3. a[n + 1].look = m
    <3>1. n + 1 \in 1 .. top /\ n + 1 - 1 = n
      BY <1>1, <2>1
    <3>2. QED
      BY <3>1, <1>4
  <2>4. /\ LookOK(m) /\ m.rounds = k.rounds /\ m.LayerNo >= k.LayerNo
        /\ ~k.over /\ k.LayerNo < MAX_TYPE_LAYER => m.LayerNo = k.LayerNo + 1
    BY <2>2, MatchLayerKeeps
  <2> HIDE DEF m, k
  <2>5. m.LayerNo \in Nat /\ k.LayerNo \in Nat /\ l.LayerNo \in Nat
    BY <2>2, <2>4, ValuesAssumption DEF LookOK
  <2>6. m.LayerNo >= l.LayerNo + 1
    BY <2>2, <2>4, <2>5
  <2>7. QED
    BY <2>2, <2>3, <2>4, <2>6
<1> HIDE DEF Good
<1>7. top \in Good
  BY <1>1, <1>5, <1>6, Climb
<1>8. QED
  BY <1>7, <1>1, <1>3 DEF Good

LEMMA LookupsInit == Init => LookupsInv
  BY DEF Init, TypeInit, LookupsInv, NoLook

\* What is found for a call is kept with the rest.
LEMMA CalleesGrow ==
    ASSUME LookupsInv, NEW s \in Sites, Indirect(s), NEW FS \in SUBSET Defined
    PROVE  /\ Put(Callees, s, FS) = [z \in DOMAIN Put(Callees, s, FS) |-> Put(Callees, s, FS)[z]]
           /\ \A z \in DOMAIN Put(Callees, s, FS) :
                z \in Sites /\ Indirect(z) /\ Put(Callees, s, FS)[z] \subseteq Defined
<1> DEFINE new == Put(Callees, s, FS)
<1>1. new = [z \in DOMAIN Callees \cup {s} |-> IF z = s THEN FS ELSE Callees[z]]
  BY DEF Put
<1> HIDE DEF new
<1>2. DOMAIN new = DOMAIN Callees \cup {s} /\ new = [z \in DOMAIN new |-> new[z]]
  BY <1>1
<1>3. ASSUME NEW z \in DOMAIN new PROVE z \in Sites /\ Indirect(z) /\ new[z] \subseteq Defined
  <2>1. CASE z = s
    <3>1. new[z] = FS
      BY <1>1, <1>2, <1>3, <2>1
    <3>2. QED
      BY <3>1, <2>1
  <2>2. CASE z # s
    <3>1. z \in DOMAIN Callees /\ new[z] = Callees[z]
      BY <1>1, <1>2, <1>3, <2>2
    <3>2. QED
      BY <3>1 DEF LookupsInv
  <2>3. QED
    BY <2>1, <2>2
<1>4. QED
  BY <1>2, <1>3 DEF new

\* The lowest number of a nonempty set of sites.
LEMMA MinOfSites ==
    ASSUME NEW S, S \subseteq Nat, S # {}
    PROVE  Min(S) \in S
<1>1. \E x \in S : \A y \in S : x <= y
  BY LeastNatural
<1>2. QED
  BY <1>1 DEF Min

\* A step looks on, or keeps what was found.
LEMMA LookupsStepKeeps ==
    ASSUME LookupsInv, [Next]_vars
    PROVE  LookupsInv'
<1>1. ASSUME UNCHANGED <<prog, sigFuncsMap, Callees, look>> PROVE LookupsInv'
  <2>1. Sites' = Sites /\ \A s \in Sites : Indirect(s)' = Indirect(s)
    BY <1>1 DEF Sites, Indirect
  <2>2. LookOK(look)' = LookOK(look)
    BY <1>1, <2>1 DEF LookOK
  <2>3. QED
    BY <1>1, <2>1, <2>2 DEF LookupsInv
<1>2. CASE CallGraph
  <2>10. UNCHANGED prog
    BY <1>2, CallGraphKeeps
  <2>11. Sites' = Sites /\ \A s \in Sites : Indirect(s)' = Indirect(s)
    BY <2>10 DEF Sites, Indirect
  <2>12. look' = look => LookOK(look)' = LookOK(look)
    BY <2>10, <2>11 DEF LookOK
  <2>0. CASE NextGlobal \/ ConfineUser \/ doModulePass
    BY <2>0, <1>1 DEF NextGlobal, ConfineUser, doModulePass, tables
  <2>1. CASE AnalyseFunctions
    <3>1. sigFuncsMap' = {x \in {<<funcHash(f), f>> : f \in Taken} : Last(x) \in Defined}
      BY <2>1 DEF AnalyseFunctions, Actual
    <3>2. \A x \in sigFuncsMap' : x[2] \in Defined
      BY <3>1 DEF Last
    <3>3. UNCHANGED <<look, Callees>>
      BY <2>1 DEF AnalyseFunctions
    <3>4. QED
      BY <2>10, <2>11, <2>12, <3>2, <3>3 DEF LookupsInv
  <2>2. CASE FindCallees
    <3> DEFINE s == Min(Unresolved)
               FS == {x[2] : x \in {y \in sigFuncsMap : y[1] = Cleaned[CallType(s)]}}
    <3>1. /\ Unresolved # {} /\ UNCHANGED sigFuncsMap /\ look.site = 0
          /\ IF FS = {} THEN Callees' = Put(Callees, s, {}) /\ UNCHANGED look
             ELSE /\ look' = [site |-> s, FS |-> FS, FS1 |-> {}, FS2 |-> {}, LayerNo |-> 1,
                              PrevLayerTy |-> CallType(s), CV |-> prog.inst[s].callee,
                              ContinueNextLayer |-> TRUE, over |-> FALSE, rounds |-> 0]
                  /\ UNCHANGED Callees
      BY <2>2 DEF FindCallees, tables
    <3>2. Unresolved \subseteq Sites /\ \A x \in Unresolved : Indirect(x)
      BY DEF Unresolved, CallInsts
    <3>3. Sites \subseteq Nat \ {0}
      BY SiteFacts DEF LookupsInv, Sites
    <3>4. s \in Unresolved
      BY <3>1, <3>2, <3>3, MinOfSites
    <3>5. s \in Sites /\ s # 0 /\ Indirect(s) /\ prog.inst[s].callee \in Vals
      BY <3>2, <3>3, <3>4, InputsAssumption DEF LookupsInv, Sites
    <3>6. FS \subseteq Defined
      BY DEF LookupsInv
    <3> HIDE DEF s, FS
    <3>7. CASE FS = {}
      <4>1. Callees' = Put(Callees, s, {}) /\ look' = look
        BY <3>1, <3>7
      <4>2. /\ Callees' = [z \in DOMAIN Callees' |-> Callees'[z]]
            /\ \A z \in DOMAIN Callees' : z \in Sites /\ Indirect(z) /\ Callees'[z] \subseteq Defined
        BY <4>1, <3>5, <3>6, <3>7, CalleesGrow
      <4>3. QED
        BY <4>1, <4>2, <3>1, <2>10, <2>11 DEF LookupsInv
    <3>8. CASE FS # {}
      <4>1. /\ look' = [site |-> s, FS |-> FS, FS1 |-> {}, FS2 |-> {}, LayerNo |-> 1,
                        PrevLayerTy |-> CallType(s), CV |-> prog.inst[s].callee,
                        ContinueNextLayer |-> TRUE, over |-> FALSE, rounds |-> 0]
            /\ Callees' = Callees
        BY <3>1, <3>8
      <4>2. /\ look' = [k \in LookFields |-> look'[k]]
            /\ look'.site = s /\ look'.FS = FS /\ look'.LayerNo = 1 /\ look'.rounds = 0
            /\ look'.CV = prog.inst[s].callee
        BY <4>1 DEF LookFields
      <4>3. LookOK(look)'
        BY <4>2, <3>5, <3>6, <2>11, ValuesAssumption DEF LookOK
      <4>4. QED
        BY <4>1, <4>2, <4>3, <3>1, <2>10, <2>11 DEF LookupsInv
    <3>9. QED
      BY <3>7, <3>8
  <2>3. CASE FindInLayer
    <3> DEFINE l == [look EXCEPT !.rounds = @ + 1, !.over = FALSE]
               next == NextLayer[look.CV]
    <3>1. look.site # 0 /\ ~AtEnd /\ UNCHANGED <<sigFuncsMap, Callees>>
      BY <2>3 DEF FindInLayer, tables
    <3>2. LookOK(look) /\ look.rounds + 1 <= look.LayerNo
      BY <3>1 DEF LookupsInv
    <3>3. look.LayerNo < MAX_TYPE_LAYER /\ next.TyList # <<>>
      BY <3>1, <3>2, ValuesAssumption DEF AtEnd, LookOK
    <3>4. look' = MatchLayers(l, MatchedFuncsMap, next).look
      BY <2>3 DEF FindInLayer
    <3>5. /\ l = [k \in LookFields |-> l[k]] /\ l.site = look.site /\ l.FS = look.FS
          /\ l.LayerNo = look.LayerNo /\ l.CV = look.CV /\ l.rounds = look.rounds + 1
          /\ ~l.over
      BY <3>2 DEF LookOK, LookFields
    <3> HIDE DEF l
    <3>6. LookOK(l)
      BY <3>2, <3>5 DEF LookOK
    <3>7. next.NextV \in Vals \cup {NULL} /\ \E L : next.TyList \in Seq(L)
      BY <3>2, NextLayerTyped DEF LookOK
    <3> HIDE DEF next
    <3>8. LookOK(look') /\ look'.rounds = look.rounds + 1 /\ look'.LayerNo >= look.LayerNo + 1
      BY <3>3, <3>4, <3>5, <3>6, <3>7, MatchLayersKeep
    <3>9. LookOK(look)'
      BY <3>8, <2>11 DEF LookOK
    <3>10. look'.LayerNo \in Nat /\ look.LayerNo \in Nat /\ look.rounds \in Nat
      BY <3>2, <3>8, ValuesAssumption DEF LookOK
    <3>11. look'.rounds + 1 <= look'.LayerNo
      BY <3>2, <3>8, <3>10
    <3>12. QED
      BY <3>1, <3>9, <3>11, <2>10, <2>11 DEF LookupsInv
  <2>4. CASE FoundCallees
    <3>1. /\ look.site # 0 /\ Callees' = Put(Callees, look.site, look.FS)
          /\ look'.site = 0 /\ UNCHANGED sigFuncsMap
      BY <2>4 DEF FoundCallees, NoLook, tables
    <3>2. look.site \in Sites /\ Indirect(look.site) /\ look.FS \subseteq Defined
      BY <3>1 DEF LookupsInv, LookOK
    <3>3. /\ Callees' = [z \in DOMAIN Callees' |-> Callees'[z]]
          /\ \A z \in DOMAIN Callees' : z \in Sites /\ Indirect(z) /\ Callees'[z] \subseteq Defined
      BY <3>1, <3>2, CalleesGrow
    <3>4. QED
      BY <3>1, <3>3, <2>10, <2>11 DEF LookupsInv
  <2>5. CASE doFinalization
    <3>1. /\ UNCHANGED <<sigFuncsMap, look>>
          /\ Callees' = [s \in DOMAIN Callees |-> Callees[s] \cap Defined] \/ Callees' = Callees
      BY <2>5 DEF doFinalization, tables
    <3>2. QED
      BY <3>1, <2>10, <2>11, <2>12 DEF LookupsInv
  <2>6. QED
    BY <1>2, <2>0, <2>1, <2>2, <2>3, <2>4, <2>5 DEF CallGraph, TypeNext
<1>3. CASE \/ LowerInvokeCalls \/ MergeIndirectFunctionCalls
           \/ AnalyzeDirectFunctionCalls \/ UpdateCFGWithIndirectCalls \/ RecoverInvokeCalls
           \/ DuplicateDone
  BY <1>3, <1>1 DEF LowerInvokeCalls, MergeIndirectFunctionCalls, AnalyzeDirectFunctionCalls,
       UpdateCFGWithIndirectCalls, RecoverInvokeCalls, DuplicateDone, typeVars, tables
<1>4. CASE \E s \in Sites : DuplicateInvokeUnwinds(s)
  BY <1>4, <1>1 DEF DuplicateInvokeUnwinds, typeVars, tables
<1>5. CASE Run
  BY <1>5, RunKeeps, <1>1 DEF typeVars, tables
<1>6. CASE UNCHANGED vars
  BY <1>6, <1>1 DEF vars, typeVars, tables
<1>7. QED
  BY <1>2, <1>3, <1>4, <1>5, <1>6 DEF Next

\* In every reachable state the functions found are functions with a body, found
\* for indirect calls, and a lookup has counted a layer for each of its rounds
\* (findCalleesWithMLTA).
THEOREM LookupsAlways == Spec => []LookupsInv
<1>1. LookupsInv /\ [Next]_vars => LookupsInv'
  BY LookupsStepKeeps
<1>2. QED
  BY LookupsInit, <1>1, PTL DEF Spec

\* A lookup has fewer rounds than layers may be counted, however the layers escape,
\* are capped or were met before (findCalleesWithMLTA).
THEOREM LookupEndsHolds == Spec => []LookupEnds
<1>1. LookupsInv => LookupEnds
  BY ValuesAssumption DEF LookupsInv, LookOK, LookupEnds
<1>2. QED
  BY <1>1, LookupsAlways, PTL

-----------------------------------------------------------------------------
(* The list of calls.                                                      *)

Paths(f) == [call_inst : Sites \X {"call", "invoke"}, call_type : {"IndirectCall", "DirectCall"},
             Callee : {f}, Caller : Defined]

\* No site twice, and the sites of a vector of paths.
Distinct(list) == \A i, j \in DOMAIN list : list[i].call_inst[1] = list[j].call_inst[1] => i = j
SitesOf(list) == {list[i].call_inst[1] : i \in DOMAIN list}
AllTwins(list) == \A i \in DOMAIN list : list[i].call_inst[2] = "call"

\* Adding paths for new sites to a vector of paths.
LEMMA PathsAdded ==
    ASSUME prog \in Inputs, NEW f \in Names, NEW type \in {"IndirectCall", "DirectCall"},
           NEW list \in Seq(Paths(f)), Distinct(list), AllTwins(list),
           NEW S \in SUBSET Sites, SitesOf(list) \cap S = {}
    PROVE  LET order == InOrder(S)
               new == list \o [i \in DOMAIN order |-> CallPath(order[i], type, f)]
           IN  new \in Seq(Paths(f)) /\ Distinct(new) /\ AllTwins(new) /\ SitesOf(new) = SitesOf(list) \cup S
<1> DEFINE order == InOrder(S)
           added == [i \in DOMAIN order |-> CallPath(order[i], type, f)]
           new == list \o added
           n == Len(list)
           m == Cardinality(S)
<1>1. \A s \in Sites : s \in Nat /\ Caller[s] \in Defined
  BY SiteFacts DEF Sites
<1>2. S \in SUBSET Nat /\ IsFiniteSet(S)
  <2>1. IsFiniteSet(Sites)
    BY SitesAssumption, InputsAssumption, FS_Subset DEF Sites
  <2>2. QED
    BY <1>1, <2>1, FS_Subset
<1>3. /\ order \in [1 .. m -> S] /\ \A i, j \in 1 .. m : order[i] = order[j] => i = j
      /\ \A s \in S : \E i \in 1 .. m : order[i] = s
      /\ m \in Nat
  BY <1>2, InOrderLists
<1> HIDE DEF order, m
<1>4. ASSUME NEW i \in 1 .. m
      PROVE  added[i] \in Paths(f) /\ added[i].call_inst[1] = order[i] /\ added[i].call_inst[2] = "call"
  <2>1. order[i] \in S /\ order[i] \in Sites /\ i \in DOMAIN order
    BY <1>3
  <2>2. added[i] = CallPath(order[i], type, f)
    BY <2>1
  <2> HIDE DEF added
  <2>3. QED
    BY <1>1, <2>1, <2>2 DEF CallPath, Paths
<1>5. DOMAIN added = 1 .. m
  BY <1>3
<1> HIDE DEF added
<1>6. added \in [1 .. m -> Paths(f)]
  <2>1. added = [i \in 1 .. m |-> added[i]]
    BY <1>5 DEF added
  <2>2. QED
    BY <1>4, <2>1
<1>7. added \in Seq(Paths(f)) /\ Len(added) = m
  BY <1>3, <1>6
<1>8. n \in Nat /\ DOMAIN list = 1 .. n
  BY LenProperties
<1>9. new \in Seq(Paths(f)) /\ DOMAIN new = 1 .. n + m
  BY <1>7, <1>8, <1>3, ConcatProperties, LenProperties
<1>10. /\ \A i \in 1 .. n : new[i] = list[i]
       /\ \A i \in 1 .. m : n + i \in 1 .. n + m /\ new[n + i] = added[i]
       /\ \A k \in 1 .. n + m : k \in 1 .. n \/ (k - n \in 1 .. m /\ new[k] = added[k - n])
  BY <1>7, <1>8, <1>3
<1> HIDE DEF new, n
<1>11. AllTwins(new)
  BY <1>4, <1>8, <1>9, <1>10 DEF AllTwins
<1>12. ASSUME NEW k \in 1 .. n + m
       PROVE  \/ k \in 1 .. n /\ new[k].call_inst[1] = list[k].call_inst[1]
                 /\ new[k].call_inst[1] \in SitesOf(list)
              \/ k - n \in 1 .. m /\ new[k].call_inst[1] = order[k - n] /\ new[k].call_inst[1] \in S
  BY <1>3, <1>4, <1>8, <1>10 DEF SitesOf
<1>13. Distinct(new)
  <2>1. ASSUME NEW i \in 1 .. n + m, NEW j \in 1 .. n + m,
               new[i].call_inst[1] = new[j].call_inst[1]
        PROVE  i = j
    <3>1. CASE i \in 1 .. n /\ j \in 1 .. n
      BY <2>1, <3>1, <1>8, <1>10 DEF Distinct
    <3>2. CASE i \notin 1 .. n /\ j \notin 1 .. n
      <4>1. i - n = j - n
        BY <2>1, <3>2, <1>12, <1>3
      <4>2. QED
        BY <4>1, <1>3, <1>8
    <3>3. CASE i \in 1 .. n /\ j \notin 1 .. n
      <4>1. new[i].call_inst[1] \in SitesOf(list) \/ i - n \in 1 .. m
        BY <1>12
      <4>2. new[j].call_inst[1] \in S
        BY <3>3, <1>12
      <4>3. ~ (i - n \in 1 .. m)
        BY <3>3, <1>3, <1>8
      <4>4. QED
        BY <2>1, <4>1, <4>2, <4>3
    <3>4. CASE i \notin 1 .. n /\ j \in 1 .. n
      <4>1. new[j].call_inst[1] \in SitesOf(list) \/ j - n \in 1 .. m
        BY <1>12
      <4>2. new[i].call_inst[1] \in S
        BY <3>4, <1>12
      <4>3. ~ (j - n \in 1 .. m)
        BY <3>4, <1>3, <1>8
      <4>4. QED
        BY <2>1, <4>1, <4>2, <4>3
    <3>5. QED
      BY <3>1, <3>2, <3>3, <3>4
  <2>2. QED
    BY <2>1, <1>9 DEF Distinct
<1>14. SitesOf(new) = SitesOf(list) \cup S
  <2>1. SitesOf(new) \subseteq SitesOf(list) \cup S
    BY <1>9, <1>12 DEF SitesOf
  <2>2. SitesOf(list) \subseteq SitesOf(new)
    <3>1. 1 .. n \subseteq 1 .. n + m
      BY <1>3, <1>8
    <3>2. QED
      BY <3>1, <1>8, <1>9, <1>10 DEF SitesOf
  <2>3. ASSUME NEW s \in S PROVE s \in SitesOf(new)
    <3>1. PICK i \in 1 .. m : order[i] = s
      BY <1>3
    <3>2. n + i \in DOMAIN new /\ new[n + i].call_inst[1] = s
      BY <3>1, <1>4, <1>9, <1>10
    <3>3. QED
      BY <3>2 DEF SitesOf
  <2>4. QED
    BY <2>1, <2>2, <2>3
<1>15. QED
  BY <1>9, <1>11, <1>13, <1>14 DEF new, added, order

\* What each pass looks for.
IndirectSites(f) == {s \in DOMAIN Callees : f \in Callees[s]}
DirectSites(f) == {s \in Sites : NamesFunction(s, f)}
HeapSites(f) == {s \in Sites : LoadsHMF(s, f)}

\* The passes that have run by now, and the sites they have listed.
BeforeMerge == {"pre", "globals", "mlta", "finalize", "merge"}
Listed(f) ==
    CASE phase \in BeforeMerge -> {}
      [] phase = "direct"      -> IndirectSites(f)
      [] phase = "reduce"      -> IndirectSites(f) \cup DirectSites(f)
      [] OTHER                 -> IndirectSites(f) \cup DirectSites(f) \cup HeapSites(f)

\* The invokes have twins, and the list and the results are about them.
Lowered == BeforePads \ {"pre"}
Recovery == phase \in {"duplicate", "run"}
OpNow(s) == IF Recovery THEN inst[s].op ELSE "call"

Entries(f) ==
    /\ FunctionMap[f] \in Seq(Paths(f)) /\ Distinct(FunctionMap[f])
    /\ SitesOf(FunctionMap[f]) = Listed(f)
    /\ \A i \in DOMAIN FunctionMap[f] :
         FunctionMap[f][i].call_inst[2] = OpNow(FunctionMap[f][i].call_inst[1])

Originals == {<<s, inst[s].op>> : s \in Sites}
Twins == {<<s, "call">> : s \in Invokes}

\* The list of every function holds each site found so far once, as the instruction
\* that is in the module now.
ListInv ==
    /\ prog \in Inputs /\ phase \in Phases
    /\ module = IF phase \in Lowered THEN Originals \cup Twins ELSE Originals
    /\ result = [s \in Sites |-> IF phase \in Lowered THEN <<s, "call">> ELSE <<s, inst[s].op>>]
    /\ FunctionMap = [f \in Names |-> FunctionMap[f]]
    /\ \A f \in Names : Entries(f)

LEMMA CallInstsLowered ==
    ASSUME ListInv, phase \in Lowered
    PROVE  CallInsts = Sites
<1>1. ASSUME NEW s \in Sites PROVE <<s, "call">> \in Originals \cup Twins
  <2>1. CASE inst[s].op = "call"
    BY <2>1 DEF Originals
  <2>2. CASE inst[s].op = "invoke"
    BY <2>2 DEF Twins, Invokes
  <2>3. QED
    BY <2>1, <2>2, SiteFacts DEF ListInv, Sites, inst
<1>2. QED
  BY <1>1 DEF CallInsts, ListInv

\* No pass finds what another one found.
LEMMA SitesApart ==
    ASSUME LookupsInv, NEW f \in Names
    PROVE  /\ IndirectSites(f) \subseteq Sites
           /\ IndirectSites(f) \cap DirectSites(f) = {}
           /\ (IndirectSites(f) \cup DirectSites(f)) \cap HeapSites(f) = {}
<1>1. IndirectSites(f) \subseteq {s \in Sites : Indirect(s)}
  BY DEF IndirectSites, LookupsInv
<1>2. IndirectSites(f) # {} => f \in Defined
  BY DEF IndirectSites, LookupsInv
<1>3. \A s \in DirectSites(f) : ~ Indirect(s)
  BY DEF DirectSites, NamesFunction
<1>4. \A s \in HeapSites(f) : Indirect(s) /\ f \in HMFs
  BY DEF HeapSites, LoadsHMF, Indirect, inst
<1>5. Defined \cap HMFs = {}
  BY ValuesAssumption
<1>6. QED
  BY <1>1, <1>2, <1>3, <1>4, <1>5

LEMMA ListInit == Init => ListInv
<1> SUFFICES ASSUME Init PROVE ListInv
  OBVIOUS
<1>1. phase = "pre" /\ prog \in Inputs
  BY DEF Init
<1>2. ASSUME NEW f \in Names PROVE Entries(f)
  <2>1. FunctionMap[f] = <<>>
    BY <1>2 DEF Init
  <2>2. Listed(f) = {}
    BY <1>1 DEF Listed, BeforeMerge
  <2>3. <<>> \in Seq(Paths(f)) /\ DOMAIN <<>> = {}
    OBVIOUS
  <2>4. QED
    BY <2>1, <2>2, <2>3 DEF Entries, Distinct, SitesOf
<1>3. QED
  BY <1>1, <1>2 DEF Init, ListInv, Phases, BeforePads, Lowered, Originals

\* One pass adds the sites it finds to the list.
LEMMA PassAdds ==
    ASSUME ListInv, NEW type \in {"IndirectCall", "DirectCall"}, NEW calls,
           phase \in Lowered, phase' \in Lowered,
           FunctionMap' = WithPaths(type, calls),
           \A f \in Names : calls[f] \in SUBSET Sites /\ Listed(f) \cap calls[f] = {},
           \A f \in Names : Listed(f)' = Listed(f) \cup calls[f],
           UNCHANGED <<prog, module, result>>
    PROVE  ListInv'
<1>1. Sites' = Sites /\ inst' = inst /\ Invokes' = Invokes
  BY DEF Sites, inst, Invokes
<1>2. Originals' = Originals /\ Twins' = Twins
  BY <1>1 DEF Originals, Twins
<1>3. ~ Recovery /\ ~ Recovery'
  BY DEF Lowered, BeforePads, Recovery
<1>4. ASSUME NEW f \in Names PROVE Entries(f)'
  <2> DEFINE order == InOrder(calls[f])
             new == FunctionMap[f] \o [i \in DOMAIN order |-> CallPath(order[i], type, f)]
  <2>1. FunctionMap'[f] = new
    BY DEF WithPaths
  <2>2. /\ FunctionMap[f] \in Seq(Paths(f)) /\ Distinct(FunctionMap[f])
        /\ SitesOf(FunctionMap[f]) = Listed(f) /\ AllTwins(FunctionMap[f])
    BY <1>3 DEF ListInv, Entries, AllTwins, OpNow
  <2>3. /\ new \in Seq(Paths(f)) /\ Distinct(new) /\ AllTwins(new)
        /\ SitesOf(new) = Listed(f) \cup calls[f]
    BY <2>2, PathsAdded DEF ListInv
  <2> HIDE DEF new
  <2>4. Paths(f)' = Paths(f)
    BY <1>1 DEF Paths
  <2>5. FunctionMap'[f] \in Seq(Paths(f)') /\ Distinct(FunctionMap[f])'
    BY <2>1, <2>3, <2>4 DEF Distinct
  <2>6. SitesOf(FunctionMap[f])' = Listed(f)'
    BY <2>1, <2>3 DEF SitesOf
  <2>7. \A i \in DOMAIN FunctionMap'[f] : FunctionMap'[f][i].call_inst[2] = "call"
    BY <2>1, <2>3 DEF AllTwins
  <2>8. QED
    BY <2>5, <2>6, <2>7, <1>3 DEF Entries, OpNow
<1>5. FunctionMap' = [f \in Names |-> FunctionMap'[f]]
  BY DEF WithPaths
<1>6. phase' \in Phases
  BY DEF Lowered, Phases
<1>7. QED
  BY <1>1, <1>2, <1>4, <1>5, <1>6 DEF ListInv

\* A step that leaves the list and the module alone.
LEMMA ListElsewhere ==
    ASSUME ListInv, UNCHANGED <<prog, module, result, FunctionMap>>, phase' \in Phases,
           phase \in Lowered <=> phase' \in Lowered, Recovery' = Recovery,
           \A f \in Names : Listed(f)' = Listed(f)
    PROVE  ListInv'
<1>1. Sites' = Sites /\ inst' = inst /\ Invokes' = Invokes
  BY DEF Sites, inst, Invokes
<1>2. Originals' = Originals /\ Twins' = Twins
  BY <1>1 DEF Originals, Twins
<1>3. ASSUME NEW f \in Names PROVE Entries(f)'
  <2>1. Paths(f)' = Paths(f)
    BY <1>1 DEF Paths
  <2>2. \A s : OpNow(s)' = OpNow(s)
    BY <1>1 DEF OpNow
  <2>3. /\ SitesOf(FunctionMap[f])' = SitesOf(FunctionMap[f])
        /\ Distinct(FunctionMap[f])' = Distinct(FunctionMap[f])
    BY DEF SitesOf, Distinct
  <2>4. QED
    BY <1>3, <2>1, <2>2, <2>3 DEF ListInv, Entries
<1>4. QED
  BY <1>1, <1>2, <1>3 DEF ListInv

\* PostMLTA takes the twins out of the module and of the list.
LEMMA ListRecovered ==
    ASSUME ListInv, LookupsInv, RecoverInvokeCalls
    PROVE  ListInv'
<1>1. Sites' = Sites /\ inst' = inst /\ Invokes' = Invokes /\ Callees' = Callees
  BY DEF RecoverInvokeCalls, Sites, inst, Invokes, typeVars
<1>2. Originals' = Originals /\ Twins' = Twins
  BY <1>1 DEF Originals, Twins
<1>3. /\ phase = "recover" /\ phase' = "duplicate" /\ phase \in Lowered /\ phase' \notin Lowered
      /\ ~ Recovery /\ Recovery'
  BY DEF RecoverInvokeCalls, Lowered, BeforePads, Recovery
<1>4. module' = Originals'
  <2>1. module = Originals \cup Twins /\ module' = module \ Twins
    BY <1>3 DEF ListInv, RecoverInvokeCalls, Twins
  <2>2. Originals \cap Twins = {}
    BY DEF Originals, Twins, Invokes
  <2>3. QED
    BY <2>1, <2>2, <1>2
<1>5. ASSUME NEW f \in Names PROVE Entries(f)'
  <2> DEFINE old == FunctionMap[f]
             new == FunctionMap'[f]
  <2>1. /\ old \in Seq(Paths(f)) /\ Distinct(old) /\ SitesOf(old) = Listed(f)
        /\ \A i \in DOMAIN old : old[i].call_inst[2] = "call"
    BY <1>3 DEF ListInv, Entries, OpNow
  <2>2. new = [i \in DOMAIN old |-> Recovered(old[i])]
    BY DEF RecoverInvokeCalls
  <2>3. DOMAIN old = 1 .. Len(old) /\ Len(old) \in Nat /\ \A i \in DOMAIN old : old[i] \in Paths(f)
    BY <2>1, LenProperties
  <2> HIDE DEF new, old
  <2>4. ASSUME NEW path \in Paths(f), path.call_inst[2] = "call"
        PROVE  /\ Recovered(path) \in Paths(f) /\ Recovered(path).call_inst[1] = path.call_inst[1]
               /\ Recovered(path).call_inst[2] = inst[path.call_inst[1]].op
    <3>1. path.call_inst[1] \in Sites /\ path.call_inst = <<path.call_inst[1], "call">>
      BY <2>4 DEF Paths
    <3>2. CASE path.call_inst[1] \in Invokes
      <4>1. Recovered(path) = [path EXCEPT !.call_inst[2] = "invoke"]
        BY <3>2 DEF Recovered
      <4>2. Recovered(path) = [call_inst |-> <<path.call_inst[1], "invoke">>, call_type |-> path.call_type,
                               Callee |-> path.Callee, Caller |-> path.Caller]
        BY <4>1, <3>1 DEF Paths
      <4>3. inst[path.call_inst[1]].op = "invoke"
        BY <3>2 DEF Invokes
      <4>4. QED
        BY <4>2, <4>3, <3>1 DEF Paths
    <3>3. CASE path.call_inst[1] \notin Invokes
      <4>1. Recovered(path) = path
        BY <3>3 DEF Recovered
      <4>2. inst[path.call_inst[1]].op = "call"
        BY <3>1, <3>3, SiteFacts DEF ListInv, Invokes, Sites, inst
      <4>3. QED
        BY <4>1, <4>2, <2>4
    <3>4. QED
      BY <3>2, <3>3
  <2>5. ASSUME NEW i \in DOMAIN old
        PROVE  /\ new[i] \in Paths(f) /\ new[i].call_inst[1] = old[i].call_inst[1]
               /\ new[i].call_inst[2] = inst[new[i].call_inst[1]].op
    <3>1. new[i] = Recovered(old[i])
      BY <2>2
    <3>2. QED
      BY <3>1, <2>1, <2>3, <2>4
  <2>6. DOMAIN new = DOMAIN old
    BY <2>2
  <2>7. new \in Seq(Paths(f))
    <3>1. new \in [1 .. Len(old) -> Paths(f)]
      BY <2>2, <2>3, <2>5
    <3>2. QED
      BY <3>1, <2>3
  <2>8. Distinct(new) /\ SitesOf(new) = SitesOf(old)
    BY <2>1, <2>5, <2>6 DEF Distinct, SitesOf
  <2>9. Listed(f)' = Listed(f)
    <3>1. IndirectSites(f)' = IndirectSites(f) /\ DirectSites(f)' = DirectSites(f)
          /\ HeapSites(f)' = HeapSites(f)
      BY <1>1 DEF IndirectSites, DirectSites, HeapSites, NamesFunction, LoadsHMF, Indirect,
                  RecoverInvokeCalls
    <3>2. QED
      BY <3>1, <1>3 DEF Listed, BeforeMerge
  <2>10. Paths(f)' = Paths(f) /\ \A s : OpNow(s)' = inst[s].op
    BY <1>1, <1>3 DEF Paths, OpNow
  <2>11. FunctionMap'[f] = new
    BY DEF new
  <2>12. Distinct(FunctionMap[f])' /\ SitesOf(FunctionMap[f])' = Listed(f)'
    BY <2>1, <2>8, <2>9, <2>11 DEF Distinct, SitesOf
  <2>13. QED
    BY <2>5, <2>6, <2>7, <2>10, <2>11, <2>12 DEF Entries
<1>6. /\ FunctionMap' = [f \in Names |-> FunctionMap'[f]]
      /\ result' = [s \in Sites' |-> <<s, inst'[s].op>>] /\ prog' = prog
  BY <1>1 DEF RecoverInvokeCalls
<1>7. QED
  BY <1>3, <1>4, <1>5, <1>6 DEF ListInv, Phases

LEMMA ListStep ==
    ASSUME ListInv, LookupsInv, [Next]_vars
    PROVE  ListInv'
<1>1. CASE LowerInvokeCalls
  <2>1. Sites' = Sites /\ inst' = inst /\ Invokes' = Invokes
    BY <1>1 DEF LowerInvokeCalls, Sites, inst, Invokes
  <2>2. /\ phase = "pre" /\ phase' = "globals" /\ phase \notin Lowered /\ phase' \in Lowered
        /\ Recovery' = Recovery
    BY <1>1 DEF LowerInvokeCalls, Lowered, BeforePads, Recovery
  <2>3. module' = Originals' \cup Twins'
    BY <1>1, <2>1, <2>2 DEF LowerInvokeCalls, ListInv, Originals, Twins
  <2>4. ASSUME NEW f \in Names PROVE Entries(f)'
    <3>1. Listed(f) = {} /\ Listed(f)' = {}
      BY <2>2 DEF Listed, BeforeMerge
    <3>2. FunctionMap' = FunctionMap
      BY <1>1 DEF LowerInvokeCalls
    <3>3. Paths(f)' = Paths(f)
      BY <2>1 DEF Paths
    <3>4. DOMAIN FunctionMap[f] = {}
      <4>1. SitesOf(FunctionMap[f]) = {}
        BY <2>4, <3>1 DEF ListInv, Entries
      <4>2. \A i \in DOMAIN FunctionMap[f] : FunctionMap[f][i].call_inst[1] \in SitesOf(FunctionMap[f])
        BY DEF SitesOf
      <4>3. QED
        BY <4>1, <4>2
    <3>5. /\ SitesOf(FunctionMap[f])' = SitesOf(FunctionMap[f])
          /\ Distinct(FunctionMap[f])' = Distinct(FunctionMap[f])
      BY <3>2 DEF SitesOf, Distinct
    <3>6. QED
      BY <2>4, <3>1, <3>2, <3>3, <3>4, <3>5 DEF ListInv, Entries
  <2>5. QED
    BY <1>1, <2>1, <2>2, <2>3, <2>4 DEF LowerInvokeCalls, ListInv, Phases, BeforePads
<1>2. CASE CallGraph
  <2>1. phase \in BeforeMerge /\ phase' \in BeforeMerge /\ phase \in Lowered /\ phase' \in Lowered
    BY <1>2, CallGraphKeeps DEF BeforeMerge, Lowered, BeforePads
  <2>2. phase' \in Phases /\ Recovery' = Recovery
    BY <2>1 DEF BeforeMerge, Phases, BeforePads, Recovery
  <2>3. \A f \in Names : Listed(f)' = Listed(f)
    BY <2>1 DEF Listed, BeforeMerge
  <2>4. QED
    BY <1>2, <2>1, <2>2, <2>3, CallGraphKeeps, ListElsewhere DEF pathVars
<1>3. CASE MergeIndirectFunctionCalls
  <2> DEFINE calls == [f \in Names |-> {s \in DOMAIN Callees : f \in Callees[s]}]
  <2>1. /\ phase = "merge" /\ phase' = "direct" /\ phase \in Lowered /\ phase' \in Lowered
        /\ UNCHANGED <<prog, module, result, Callees>> /\ FunctionMap' = WithPaths("IndirectCall", calls)
    BY <1>3 DEF MergeIndirectFunctionCalls, Lowered, BeforePads, typeVars
  <2>2. ASSUME NEW f \in Names
        PROVE  /\ calls[f] \in SUBSET Sites /\ Listed(f) \cap calls[f] = {}
               /\ Listed(f)' = Listed(f) \cup calls[f]
    <3>1. Listed(f) = {} /\ Listed(f)' = IndirectSites(f)'
      BY <2>1 DEF Listed, BeforeMerge
    <3>2. calls[f] = IndirectSites(f) /\ IndirectSites(f)' = IndirectSites(f)
      BY <2>1 DEF IndirectSites
    <3>3. QED
      BY <3>1, <3>2, SitesApart
  <2> HIDE DEF calls
  <2>3. QED
    BY <2>1, <2>2, PassAdds
<1>4. CASE AnalyzeDirectFunctionCalls
  <2> DEFINE calls == [f \in Names |-> {s \in CallInsts : NamesFunction(s, f)}]
  <2>1. /\ phase = "direct" /\ phase' = "reduce" /\ phase \in Lowered /\ phase' \in Lowered
        /\ UNCHANGED <<prog, module, result, Callees>> /\ FunctionMap' = WithPaths("DirectCall", calls)
    BY <1>4 DEF AnalyzeDirectFunctionCalls, Lowered, BeforePads, typeVars
  <2>2. ASSUME NEW f \in Names
        PROVE  /\ calls[f] \in SUBSET Sites /\ Listed(f) \cap calls[f] = {}
               /\ Listed(f)' = Listed(f) \cup calls[f]
    <3>1. Listed(f) = IndirectSites(f) /\ Listed(f)' = IndirectSites(f)' \cup DirectSites(f)'
      BY <2>1 DEF Listed, BeforeMerge
    <3>2. calls[f] = DirectSites(f)
      BY <2>1, CallInstsLowered DEF DirectSites
    <3>3. IndirectSites(f)' = IndirectSites(f) /\ DirectSites(f)' = DirectSites(f)
      BY <2>1 DEF IndirectSites, DirectSites, NamesFunction, Indirect, Sites, inst
    <3>4. DirectSites(f) \subseteq Sites
      BY DEF DirectSites
    <3>5. QED
      BY <3>1, <3>2, <3>3, <3>4, SitesApart
  <2> HIDE DEF calls
  <2>3. QED
    BY <2>1, <2>2, PassAdds
<1>5. CASE UpdateCFGWithIndirectCalls
  <2> DEFINE calls == [f \in Names |-> {s \in CallInsts : LoadsHMF(s, f)}]
  <2>1. /\ phase = "reduce" /\ phase' = "recover" /\ phase \in Lowered /\ phase' \in Lowered
        /\ UNCHANGED <<prog, module, result, Callees>> /\ FunctionMap' = WithPaths("IndirectCall", calls)
    BY <1>5 DEF UpdateCFGWithIndirectCalls, Lowered, BeforePads, typeVars
  <2>2. ASSUME NEW f \in Names
        PROVE  /\ calls[f] \in SUBSET Sites /\ Listed(f) \cap calls[f] = {}
               /\ Listed(f)' = Listed(f) \cup calls[f]
    <3>1. /\ Listed(f) = IndirectSites(f) \cup DirectSites(f)
          /\ Listed(f)' = IndirectSites(f)' \cup DirectSites(f)' \cup HeapSites(f)'
      BY <2>1 DEF Listed, BeforeMerge
    <3>2. calls[f] = HeapSites(f)
      BY <2>1, CallInstsLowered DEF HeapSites
    <3>3. /\ IndirectSites(f)' = IndirectSites(f) /\ DirectSites(f)' = DirectSites(f)
          /\ HeapSites(f)' = HeapSites(f)
      BY <2>1 DEF IndirectSites, DirectSites, HeapSites, NamesFunction, LoadsHMF, Indirect, Sites, inst
    <3>4. HeapSites(f) \subseteq Sites
      BY DEF HeapSites
    <3>5. QED
      BY <3>1, <3>2, <3>3, <3>4, SitesApart
  <2> HIDE DEF calls
  <2>3. QED
    BY <2>1, <2>2, PassAdds
<1>6. CASE RecoverInvokeCalls
  BY <1>6, ListRecovered
<1>7. CASE (\E s \in Sites : DuplicateInvokeUnwinds(s)) \/ DuplicateDone \/ Run \/ UNCHANGED vars
  <2>1. /\ UNCHANGED <<prog, module, result, FunctionMap, Callees>>
        /\ phase' = phase \/ (phase = "duplicate" /\ phase' = "run")
    <3>1. ASSUME NEW s \in Sites, DuplicateInvokeUnwinds(s)
          PROVE  UNCHANGED <<prog, module, result, FunctionMap, Callees, phase>>
      BY <3>1 DEF DuplicateInvokeUnwinds, typeVars
    <3>2. QED
      BY <1>7, <3>1, RunKeeps DEF DuplicateDone, vars, typeVars, pathVars
  <2>2. /\ phase' \in Phases /\ (phase \in Lowered <=> phase' \in Lowered) /\ Recovery' = Recovery
    BY <2>1 DEF ListInv, Phases, Lowered, BeforePads, Recovery
  <2>3. ASSUME NEW f \in Names PROVE Listed(f)' = Listed(f)
    <3>1. /\ IndirectSites(f)' = IndirectSites(f) /\ DirectSites(f)' = DirectSites(f)
          /\ HeapSites(f)' = HeapSites(f)
      BY <2>1 DEF IndirectSites, DirectSites, HeapSites, NamesFunction, LoadsHMF, Indirect, Sites, inst
    <3>2. QED
      BY <2>1, <3>1 DEF Listed, BeforeMerge
  <2>4. QED
    BY <2>1, <2>2, <2>3, ListElsewhere
<1>8. QED
  BY <1>1, <1>2, <1>3, <1>4, <1>5, <1>6, <1>7 DEF Next

\* In every reachable state the list holds every site the passes so far look for,
\* once, as the instruction that is in the module (ConstructCG,
\* ReduceLibraryIndirectCall, PreMLTA, PostMLTA).
THEOREM ListAlways == Spec => []ListInv
<1>1. LookupsInv /\ ListInv /\ [Next]_vars => ListInv'
  BY ListStep
<1>2. QED
  BY ListInit, <1>1, LookupsAlways, PTL DEF Spec

\* What the list holds in the end.
LEMMA AtTheEnd ==
    ASSUME ListInv, phase = "run", NEW f \in Names
    PROVE  /\ Distinct(FunctionMap[f])
           /\ SitesOf(FunctionMap[f]) = IndirectSites(f) \cup DirectSites(f) \cup HeapSites(f)
           /\ \A i \in DOMAIN FunctionMap[f] :
                /\ FunctionMap[f][i].call_inst[1] \in Sites
                /\ FunctionMap[f][i].call_inst
                     = <<FunctionMap[f][i].call_inst[1], inst[FunctionMap[f][i].call_inst[1]].op>>
<1>1. /\ FunctionMap[f] \in Seq(Paths(f)) /\ Distinct(FunctionMap[f])
      /\ SitesOf(FunctionMap[f]) = Listed(f)
  BY DEF ListInv, Entries
<1>2. Listed(f) = IndirectSites(f) \cup DirectSites(f) \cup HeapSites(f)
  BY DEF Listed, BeforeMerge
<1>3. ASSUME NEW i \in DOMAIN FunctionMap[f]
      PROVE  /\ FunctionMap[f][i].call_inst[1] \in Sites
             /\ FunctionMap[f][i].call_inst
                  = <<FunctionMap[f][i].call_inst[1], inst[FunctionMap[f][i].call_inst[1]].op>>
  <2> DEFINE path == FunctionMap[f][i]
  <2>1. path \in Paths(f)
    BY <1>1, LenProperties
  <2>2. path.call_inst[2] = inst[path.call_inst[1]].op
    BY DEF ListInv, Entries, OpNow, Recovery
  <2> HIDE DEF path
  <2>3. path.call_inst[1] \in Sites /\ path.call_inst = <<path.call_inst[1], path.call_inst[2]>>
    BY <2>1 DEF Paths
  <2>4. path.call_inst = <<path.call_inst[1], inst[path.call_inst[1]].op>>
    BY <2>2, <2>3
  <2>5. QED
    BY <2>3, <2>4 DEF path
<1>4. QED
  BY <1>1, <1>2, <1>3

\* No call of a known function is missed, and no instruction that was taken out is
\* left in the list or as an operand (PreMLTA, PostMLTA, the passes between them).
THEOREM AllListedHolds == Spec => []AllListed
<1>1. ListInv => AllListed
  <2> SUFFICES ASSUME ListInv, phase = "run" PROVE
        /\ \A s \in Sites, f \in Names : NamesFunction(s, f) \/ LoadsHMF(s, f) =>
              \E path \in PathsOf(f) : path.call_inst = <<s, inst[s].op>>
        /\ \A s \in Sites : result[s] \in module
        /\ \A f \in Names : \A path \in PathsOf(f) : path.call_inst \in module
    BY DEF AllListed
  <2>1. ASSUME NEW s \in Sites, NEW f \in Names, NamesFunction(s, f) \/ LoadsHMF(s, f)
        PROVE  \E path \in PathsOf(f) : path.call_inst = <<s, inst[s].op>>
    <3>1. s \in SitesOf(FunctionMap[f])
      BY <2>1, AtTheEnd DEF DirectSites, HeapSites
    <3>2. PICK i \in DOMAIN FunctionMap[f] : FunctionMap[f][i].call_inst[1] = s
      BY <3>1 DEF SitesOf
    <3>3. FunctionMap[f][i].call_inst = <<s, inst[s].op>>
      BY <3>2, AtTheEnd
    <3>4. QED
      BY <3>3 DEF PathsOf
  <2>2. module = Originals /\ result = [s \in Sites |-> <<s, inst[s].op>>]
    BY DEF ListInv, Lowered, BeforePads
  <2>3. \A s \in Sites : <<s, inst[s].op>> \in module
    BY <2>2 DEF Originals
  <2>4. ASSUME NEW f \in Names, NEW path \in PathsOf(f) PROVE path.call_inst \in module
    <3>1. PICK i \in DOMAIN FunctionMap[f] : path = FunctionMap[f][i]
      BY <2>4 DEF PathsOf
    <3>2. path.call_inst[1] \in Sites /\ path.call_inst = <<path.call_inst[1], inst[path.call_inst[1]].op>>
      BY <3>1, AtTheEnd
    <3>3. <<path.call_inst[1], inst[path.call_inst[1]].op>> \in module
      BY <2>3, <3>2
    <3>4. QED
      BY <3>2, <3>3
  <2>5. QED
    BY <2>1, <2>2, <2>3, <2>4
<1>2. QED
  BY <1>1, ListAlways, PTL

\* An instruction is in the list of a function once, and in that of one heap function
\* at most (MergeIndirectFunctionCalls, AnalyzeDirectFunctionCalls,
\* UpdateCFGWithIndirectCalls).
THEOREM ListedOnceHolds == Spec => []ListedOnce
<1>1. ListInv /\ LookupsInv => ListedOnce
  <2> SUFFICES ASSUME ListInv, LookupsInv, phase = "run", NEW f \in Names, NEW g \in Names,
                      NEW i \in DOMAIN FunctionMap[f], NEW j \in DOMAIN FunctionMap[g],
                      FunctionMap[f][i].call_inst = FunctionMap[g][j].call_inst,
                      f = g \/ {f, g} \subseteq HMFs
               PROVE  f = g /\ i = j
    BY DEF ListedOnce
  <2> DEFINE s == FunctionMap[f][i].call_inst[1]
  <2>1. s \in SitesOf(FunctionMap[f]) /\ s \in SitesOf(FunctionMap[g])
    BY DEF SitesOf
  <2>2. ASSUME NEW h \in HMFs \cap Names PROVE IndirectSites(h) = {}
    BY ValuesAssumption DEF IndirectSites, LookupsInv
  <2>3. ASSUME f # g PROVE FALSE
    <3>1. f \in HMFs /\ g \in HMFs
      BY <2>3
    <3>2. s \in DirectSites(f) \cup HeapSites(f) /\ s \in DirectSites(g) \cup HeapSites(g)
      BY <2>1, <2>2, <3>1, AtTheEnd
    <3> HIDE DEF s
    <3>3. CASE s \in DirectSites(f) /\ s \in DirectSites(g)
      BY <2>3, <3>3 DEF DirectSites, NamesFunction
    <3>4. CASE s \in HeapSites(f) /\ s \in HeapSites(g)
      <4>1. PICK a : Values[inst[s].callee].of = <<a>> /\ prog.init[a] = f
        BY <3>4 DEF HeapSites, LoadsHMF
      <4>2. PICK b : Values[inst[s].callee].of = <<b>> /\ prog.init[b] = g
        BY <3>4 DEF HeapSites, LoadsHMF
      <4>3. QED
        BY <4>1, <4>2, <2>3
    <3>5. DirectSites(f) \cap HeapSites(g) = {} /\ DirectSites(g) \cap HeapSites(f) = {}
      BY DEF DirectSites, HeapSites, NamesFunction, LoadsHMF, Indirect, inst
    <3>6. QED
      BY <3>2, <3>3, <3>4, <3>5
  <2>4. Distinct(FunctionMap[f])
    BY AtTheEnd
  <2>5. QED
    BY <2>3, <2>4 DEF Distinct
<1>2. QED
  BY <1>1, ListAlways, LookupsAlways, PTL

\* The variables stay in their domains through all passes.
THEOREM TypeOKHolds == Spec => []TypeOK
<1>1. ListInv /\ PadsInv => TypeOK
  <2> SUFFICES ASSUME ListInv, PadsInv PROVE TypeOK
    OBVIOUS
  <2>1. \A s \in Sites : inst[s].op \in {"call", "invoke"} /\ inst[s].pad \in Pads
    BY SiteFacts DEF ListInv, Sites, inst
  <2>2. module \subseteq Sites \X {"call", "invoke"} /\ result \in [Sites -> Sites \X {"call", "invoke"}]
    BY <2>1 DEF ListInv, Originals, Twins, Invokes
  <2>3. ASSUME NEW f \in Names, NEW path \in PathsOf(f)
        PROVE  path.Callee = f /\ path.Caller \in Defined /\ path.call_inst[1] \in Sites
    <3>1. FunctionMap[f] \in Seq(Paths(f))
      BY DEF ListInv, Entries
    <3>2. path \in Paths(f)
      BY <2>3, <3>1, LenProperties DEF PathsOf
    <3>3. QED
      BY <3>2 DEF Paths
  <2>4. ASSUME NEW s \in Invokes PROVE unwind[s] \in Pads \X ({0} \cup Sites)
    <3>1. s \in Sites /\ inst[s].pad \in Pads
      BY <2>1 DEF Invokes
    <3>2. Untouched(inst[s].pad) \/ Split(inst[s].pad)
      BY <3>1 DEF PadsInv
    <3>3. unwind[s] = <<inst[s].pad, 0>> \/ unwind[s] = <<inst[s].pad, s>>
      BY <3>2 DEF Untouched, Split
    <3>4. QED
      BY <3>1, <3>3
  <2>5. unwind \in [Invokes -> Pads \X ({0} \cup Sites)] /\ todo \subseteq Sites
    BY <2>4 DEF PadsInv, Invokes
  <2>6. QED
    BY <2>2, <2>3, <2>5 DEF TypeOK
<1>2. QED
  BY <1>1, ListAlways, PadsAlways, PTL

=============================================================================
