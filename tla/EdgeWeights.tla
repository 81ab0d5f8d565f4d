---------------------------- MODULE EdgeWeights ----------------------------
(***************************************************************************)
(* How the compiler pass gives every call path to an allocation an id of   *)
(* its own (InstrumentIR.cc): the final call graph, its topological order, *)
(* a weight for each call, the weights of unmarked calls carried on to the *)
(* calls below them, and the call instructions instrumented with an        *)
(* addition.  The id of an allocation (CSI) is the sum of what was added   *)
(* on the way to it, cut to 16 bits.                                       *)
(*                                                                         *)
(* The input is the call graph after recursion has been collapsed: acyclic *)
(* but for calls of a function itself.  The sort has an error exit for a   *)
(* cycle that was missed, so graphs with one are inputs here too.          *)
(* The path type is reduced to what these steps tell apart: Default,       *)
(* MarkBranch, or marked before as part of a loop.                         *)
(***************************************************************************)
EXTENDS Naturals, FiniteSets, SequencesExt

CONSTANTS
    EdgeN,    \* the number of CallPaths, in the order of the callee vectors
    Calls,    \* the <<caller, callee>> pairs a CallPath may have
    Relevant, \* RelevantAllFunctionSet
    HMFs,     \* the heap functions among them, declarations only
    CsiMod    \* 2^CSI_BIT

ASSUME WeightsAssumption ==
    /\ EdgeN \in Nat /\ HMFs \subseteq Relevant
    /\ Calls \subseteq Nat \X Nat /\ \A c \in Calls : c[1] \notin HMFs
    /\ CsiMod \in Nat \ {0}

Edges == 1 .. EdgeN
PathTypes == {"Default", "MarkBranch", "MarkLoop"}

VARIABLES
    phase,         \* the step of the pass: see Phases
    call,          \* CallPath -> [Caller, Callee, call_inst]
    pathType,      \* CallPath -> path_type
    edgeWeight,    \* CallPath -> edgeWeight
    leftFunctions, \* LeftFunctions of the sort
    count,         \* TopologicalCount
    order,         \* TopologicalOrder
    place,         \* how much of the order the current step has done
    outbound,      \* ComprehensiveOutboundMap; 0 where it has no entry
    added          \* instruction -> what is added to the track variable around it

vars == <<phase, call, pathType, edgeWeight, leftFunctions, count, order, place,
          outbound, added>>

Phases == {"cfg", "sort", "weigh", "carry", "instrument", "done", "exit"}

\* Calls of one instruction have one caller, lie in the same loop and differ in
\* their callee.
SharedInstructions(c, t) ==
    /\ \A e \in Edges : LET i == c[e].call_inst
                        IN c[i].Caller = c[e].Caller /\ c[i].call_inst = i /\ t[i] = t[e]
    /\ \A d, e \in Edges : d # e /\ c[d].call_inst = c[e].call_inst
                              => c[d].Callee # c[e].Callee

\* The callee vectors are per caller, so the order of callers is immaterial.
Init ==
    /\ phase = "cfg"
    /\ \E pair \in [Edges -> Calls], inst \in [Edges -> Edges] :
          /\ \A e \in Edges : inst[e] <= e
          /\ \A e \in Edges : e > 1 => pair[e - 1][1] <= pair[e][1]
          /\ call = [e \in Edges |-> [Caller |-> pair[e][1], Callee |-> pair[e][2],
                                      call_inst |-> inst[e]]]
    /\ pathType \in [Edges -> {"Default", "MarkLoop"}]
    /\ SharedInstructions(call, pathType)
    /\ edgeWeight = [e \in Edges |-> 0]
    /\ leftFunctions = Relevant
    /\ count = [f \in Relevant |-> 0]
    /\ order = <<>> /\ place = 0
    /\ outbound = [f \in Relevant |-> 0]
    /\ added = [e \in Edges |-> 0]

-----------------------------------------------------------------------------
(* ConstructFinalCFG.                                                      *)

\* The calls between different relevant functions.
Final == {e \in Edges : /\ call[e].Caller # call[e].Callee
                        /\ call[e].Caller \in Relevant /\ call[e].Callee \in Relevant}
FinalCalleeMap(f) == {e \in Final : call[e].Caller = f}
FinalCallerMap(f) == {e \in Final : call[e].Callee = f}

\* Calls of a function with several callers are marked.
ConstructFinalCFG ==
    /\ phase = "cfg" /\ phase' = "sort"
    /\ pathType' = [e \in Edges |->
         IF /\ e \in Final /\ Cardinality(FinalCallerMap(call[e].Callee)) > 1
            /\ pathType[e] = "Default"
         THEN "MarkBranch" ELSE pathType[e]]
    /\ count' = [f \in Relevant |-> Cardinality(FinalCalleeMap(f))]
    /\ UNCHANGED <<call, edgeWeight, leftFunctions, order, place, outbound, added>>

-----------------------------------------------------------------------------
(* ComputeEdgeWeight: the sort, then the weights.                          *)

\* A plausible slip: a function is counted down once for all its calls.
CountAfterOnce(f) ==
    [g \in Relevant |->
       IF /\ g \in leftFunctions \ {f}
          /\ \E e \in FinalCalleeMap(g) : call[e].Callee = f
       THEN count[g] - 1 ELSE count[g]]

\* The count of calls to functions that are left, once f is eliminated.
CountAfter(f) ==
    [g \in Relevant |->
       IF g \in leftFunctions \ {f}
       THEN count[g] - Cardinality({e \in FinalCalleeMap(g) : call[e].Callee = f})
       ELSE count[g]]

\* A plausible slip: the count is not looked at.
EliminateAny(f) ==
    /\ phase = "sort" /\ f \in leftFunctions
    /\ order' = Append(order, f)
    /\ leftFunctions' = leftFunctions \ {f}
    /\ count' = CountAfter(f)
    /\ UNCHANGED <<phase, call, pathType, edgeWeight, place, outbound, added>>

Eliminate(f) ==
    /\ phase = "sort" /\ f \in leftFunctions /\ count[f] = 0
    /\ order' = Append(order, f)
    /\ leftFunctions' = leftFunctions \ {f}
    /\ count' = CountAfter(f)
    /\ UNCHANGED <<phase, call, pathType, edgeWeight, place, outbound, added>>

\* "ERROR: Cannot run t-sort", exit(-1).
SortFails ==
    /\ phase = "sort" /\ leftFunctions # {}
    /\ \A f \in leftFunctions : count[f] # 0
    /\ phase' = "exit"
    /\ UNCHANGED <<call, pathType, edgeWeight, leftFunctions, count, order, place,
                   outbound, added>>

SortDone ==
    /\ phase = "sort" /\ leftFunctions = {} /\ phase' = "weigh" /\ place' = 0
    /\ UNCHANGED <<call, pathType, edgeWeight, leftFunctions, count, order,
                   outbound, added>>

\* What the weight grows by after each call.
Rooms == [e \in Edges |-> IF outbound[call[e].Callee] # 0
                         THEN outbound[call[e].Callee] + 1 ELSE 1]

\* The next function of the order gets the weights of its calls.
Weigh ==
    /\ phase = "weigh" /\ place < Len(order)
    /\ LET f == order[place + 1]
           Before(e) == {d \in FinalCalleeMap(f) : d < e}
       IN /\ edgeWeight' = [e \in Edges |->
                              IF e \in FinalCalleeMap(f)
                              THEN SumFunctionOnSet(Rooms, Before(e)) ELSE edgeWeight[e]]
          /\ outbound' = [outbound EXCEPT ![f] = SumFunctionOnSet(Rooms, FinalCalleeMap(f))]
    /\ place' = place + 1
    /\ UNCHANGED <<phase, call, pathType, leftFunctions, count, order, added>>

WeighDone ==
    /\ phase = "weigh" /\ place = Len(order) /\ phase' = "carry"
    /\ UNCHANGED <<call, pathType, edgeWeight, leftFunctions, count, order, place,
                   outbound, added>>

-----------------------------------------------------------------------------
(* doModulePass: callers first, an unmarked call hands its weight on to    *)
(* the calls of its callee, or is marked when there are none.              *)

Unmarked(f) == {e \in FinalCalleeMap(f) : pathType[e] = "Default"}
IsLeaf(f) == FinalCalleeMap(f) = {}

\* A plausible slip: the walk starts at the callees.
CarriedFromBelow == order[Len(order) - place + 1]

\* The order backwards: place counts down.
CarriedFrom == order[place]

Carry ==
    /\ phase = "carry" /\ place > 0
    /\ LET f == CarriedFrom
           Above(e) == {d \in Unmarked(f) : call[d].Callee = call[e].Caller}
       IN /\ edgeWeight' = [e \in Edges |->
                              IF e \in Final
                              THEN edgeWeight[e] + SumFunctionOnSet(edgeWeight, Above(e))
                              ELSE edgeWeight[e]]
          /\ pathType' = [e \in Edges |->
                            IF e \in Unmarked(f) /\ IsLeaf(call[e].Callee)
                            THEN "MarkBranch" ELSE pathType[e]]
    /\ place' = place - 1
    /\ UNCHANGED <<phase, call, leftFunctions, count, order, outbound, added>>

CarryDone ==
    /\ phase = "carry" /\ place = 0 /\ phase' = "instrument"
    /\ UNCHANGED <<call, pathType, edgeWeight, leftFunctions, count, order, place,
                   outbound, added>>

\* Of the marked calls of an instruction, the first one is instrumented.
Instrumented(i) == {e \in Final : call[e].call_inst = i /\ pathType[e] # "Default"}

Instrument ==
    /\ phase = "instrument" /\ phase' = "done"
    /\ added' = [i \in Edges |-> IF Instrumented(i) = {} THEN 0
                                 ELSE edgeWeight[Min(Instrumented(i))]]
    /\ UNCHANGED <<call, pathType, edgeWeight, leftFunctions, count, order, place,
                   outbound>>

Ended == phase \in {"done", "exit"} /\ UNCHANGED vars

Next ==
    \/ ConstructFinalCFG
    \/ \E f \in Relevant : Eliminate(f)
    \/ SortFails \/ SortDone
    \/ Weigh \/ WeighDone
    \/ Carry \/ CarryDone
    \/ Instrument
    \/ Ended

Spec == Init /\ [][Next]_vars

-----------------------------------------------------------------------------
(* Properties.                                                             *)

\* Every variable keeps its shape; no count of calls goes below zero.
TypeOK ==
    /\ phase \in Phases
    /\ pathType \in [Edges -> PathTypes] /\ edgeWeight \in [Edges -> Nat]
    /\ leftFunctions \subseteq Relevant /\ count \in [Relevant -> Nat]
    /\ order \in Seq(Relevant) /\ place \in 0 .. Len(order)
    /\ outbound \in [Relevant -> Nat] /\ added \in [Edges -> Nat]

\* Chains of calls, by length, from a function that no relevant one calls.
Chains ==
    LET Roots == {f \in Relevant : FinalCallerMap(f) = {}}
        Longer(p) == {Append(p, e) : e \in FinalCalleeMap(call[Last(p)].Callee)}
        Chain[n \in 0 .. EdgeN] ==
            IF n = 0 THEN {<<e>> : e \in {d \in Final : call[d].Caller \in Roots}}
            ELSE Chain[n - 1] \cup UNION {Longer(p) : p \in Chain[n - 1]}
    IN Chain[EdgeN]

\* The call paths that end in an allocation.
Paths == {p \in Chains : call[Last(p)].Callee \in HMFs}

\* The id the allocation at the end of the path carries at run time.
CSI(p) == SumFunction([k \in DOMAIN p |-> added[call[p[k]].call_inst]]) % CsiMod

Collide(p, q) == p # q /\ call[p[1]].Caller = call[q[1]].Caller /\ CSI(p) = CSI(q)

\* The call is indirect and has several callees.
HasOthers(e) == \E d \in Edges : d # e /\ call[d].call_inst = call[e].call_inst

\* Call paths from one entry function to an allocation have different ids, as
\* long as the entry's count of paths fits the 16 bits of the id and no call on
\* them has several callees: doModulePass then adds the weight of the first one,
\* whichever is called.
PathIdsDistinct ==
    phase = "done" =>
        \A p, q \in Paths :
            Collide(p, q) => \/ outbound[call[p[1]].Caller] > CsiMod
                             \/ \E k \in DOMAIN p : HasOthers(p[k])
                             \/ \E k \in DOMAIN q : HasOthers(q[k])

\* The sort gives up ("Cannot run t-sort") only over a cycle: every function it
\* could not eliminate calls another one of them.  Several calls between the
\* same two functions do not confuse its counts.
FailsOnlyOnCycles ==
    phase = "exit" => \A f \in leftFunctions :
                         \E e \in FinalCalleeMap(f) : call[e].Callee \in leftFunctions

\* When the weights of a function are computed, those of every function it
\* calls are final, whatever zero-count function the sort picked each time.
CalleesFirst ==
    \A i, j \in DOMAIN order :
        (\E e \in Final : call[e].Caller = order[i] /\ call[e].Callee = order[j])
            => j < i

=============================================================================
