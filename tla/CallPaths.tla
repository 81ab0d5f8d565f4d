----------------------------- MODULE CallPaths -----------------------------
(***************************************************************************)
(* How the compiler pass gets its list of calls (Analyzer.cc): PreMLTA     *)
(* puts a twin call before every invoke, the analyses that know only call  *)
(* instructions run (CallGraph, ConstructCG, ReduceLibraryIndirectCall),   *)
(* PostMLTA puts the invokes back into the list, removes the twins and     *)
(* gives every invoke a landing pad of its own.  RelevantFunctions and     *)
(* EdgeWeights start from the list, RuntimeTracking from the landing pads. *)
(*                                                                         *)
(* One module is loaded.  Call sites are numbers in the order of the       *)
(* module; site s is a call or the invoke that ends block s.  The type     *)
(* analysis is TypeAnalysis's; when the passes are done, the program runs  *)
(* as in ProgramRuns, and what it calls can be held against the list.      *)
(***************************************************************************)
EXTENDS ProgramRuns

CONSTANTS
    Caller,   \* the function each site is in
    HMFs,     \* the heap functions: declarations only
    Pads      \* landing pads, one per handler

Names == Defined \cup HMFs

ASSUME ValuesAssumption ==
    /\ IsFiniteSet(Vals)
    /\ \A v \in Vals :
         /\ Values[v].ty \in Range(TypeOrder) /\ Values[v].of \in Seq(Vals)
         /\ Op(v) \in {"load", "bitcast", "select", "unary", "gep"} => Values[v].of # <<>>
         /\ Op(v) = "gep" => Values[v].idx \in Seq(Int) \ {<<>>}
    /\ Names = {v \in Vals : Op(v) = "function"} /\ Defined \cap HMFs = {}
    /\ Taken \subseteq Names
    /\ IsFiniteSet(Composite) /\ Arrays \subseteq Composite
    /\ MAX_TYPE_LAYER \in Nat \ {0} /\ NULL \notin Vals \cup Range(TypeOrder)

\* The sites of all programs.
ASSUME SitesAssumption ==
    /\ DOMAIN Caller \subseteq Nat \ {0} /\ IsFiniteSet(DOMAIN Caller)
    /\ \A s \in DOMAIN Caller : Caller[s] \in Defined

\* A program: the sites with opcode, called value, arguments and landing pad; the
\* stores; the global variables in order, and their initializers.
ASSUME InputsAssumption ==
    \A p \in Inputs :
        /\ DOMAIN p.inst \subseteq DOMAIN Caller
        /\ \A s \in DOMAIN p.inst : /\ p.inst[s].op \in {"call", "invoke"}
                                    /\ p.inst[s].callee \in Vals /\ p.inst[s].pad \in Pads
                                    /\ Range(p.inst[s].args) \subseteq Vals
        /\ \A st \in p.stores : {st.val, st.ptr} \subseteq Vals /\ st.op \in {"store", "memcpy"}
        /\ DOMAIN p.init = Range(p.globals) /\ Range(p.init) \subseteq Vals

VARIABLES
    result,      \* site -> the instruction its result is read from
    FunctionMap, \* function -> its vector of CallPaths
    todo,        \* the entries of _Call2InvokeMap still to visit
    unwind,      \* invoke -> its unwind destination
    phi          \* handler -> its PHI node: predecessor -> the value from there

pathVars == <<result, FunctionMap, todo, unwind, phi>>
vars == <<phase, prog, module, typeVars, mem, pathVars>>

\* The twin of an invoke is <<s, "call">>.  A block that starts with a landing pad
\* is <<handler, n>>: n = 0 for the original, the invoke it was made for if it is
\* a copy.
inst == prog.inst
Invokes == {s \in Sites : inst[s].op = "invoke"}

Init ==
    /\ prog \in Inputs
    /\ phase = "pre"
    /\ module = {<<s, inst[s].op>> : s \in Sites}
    /\ TypeInit
    /\ mem = <<>>
    /\ result = [s \in Sites |-> <<s, inst[s].op>>]
    /\ FunctionMap = [f \in Names |-> <<>>]
    /\ todo = {}
    /\ unwind = [s \in Invokes |-> <<inst[s].pad, 0>>]
    /\ phi = [p \in Pads |-> [s \in {i \in Invokes : inst[i].pad = p} |-> s]]

-----------------------------------------------------------------------------
(* The analyses.                                                           *)

\* PreMLTA
LowerInvokeCalls ==
    /\ phase = "pre" /\ phase' = "globals"
    /\ module' = module \cup {<<s, "call">> : s \in Invokes}
    /\ result' = [s \in Sites |-> <<s, "call">>]
    /\ UNCHANGED <<prog, typeVars, mem, FunctionMap, todo, unwind, phi>>

\* CallGraph
CallGraph == TypeNext /\ UNCHANGED <<mem, pathVars>>

CallPath(s, type, f) ==
    [call_inst |-> <<s, "call">>, call_type |-> type, Callee |-> f, Caller |-> Caller[s]]

\* Sites in module order.
InOrder(sites) ==
    CHOOSE order \in [1 .. Cardinality(sites) -> sites] :
        \A i, j \in DOMAIN order : i < j => order[i] < order[j]

\* FunctionMap with a path for each f and each of its calls, in module order.
WithPaths(type, calls) ==
    [f \in Names |->
        LET order == InOrder(calls[f])
        IN FunctionMap[f] \o [i \in DOMAIN order |-> CallPath(order[i], type, f)]]

\* ConstructCG
MergeIndirectFunctionCalls ==
    /\ phase = "merge" /\ phase' = "direct"
    /\ FunctionMap' =
         WithPaths("IndirectCall", [f \in Names |-> {s \in DOMAIN Callees : f \in Callees[s]}])
    /\ UNCHANGED <<prog, module, typeVars, mem, result, todo, unwind, phi>>

\* Indirect calls, assembly, operands that are no function even without their
\* casts, and intrinsics are skipped.
NamesFunction(s, f) == ~Indirect(s) /\ Strip[inst[s].callee] = f

AnalyzeDirectFunctionCalls ==
    /\ phase = "direct" /\ phase' = "reduce"
    /\ FunctionMap' =
         WithPaths("DirectCall", [f \in Names |-> {s \in CallInsts : NamesFunction(s, f)}])
    /\ UNCHANGED <<prog, module, typeVars, mem, result, todo, unwind, phi>>

\* ReduceLibraryIndirectCall: calls through a global that starts as a heap
\* function.
LoadsHMF(s, f) ==
    /\ f \in HMFs /\ Op(inst[s].callee) = "load"
    /\ \E g \in DOMAIN prog.init : Values[inst[s].callee].of = <<g>> /\ prog.init[g] = f

UpdateCFGWithIndirectCalls ==
    /\ phase = "reduce" /\ phase' = "recover"
    /\ FunctionMap' =
         WithPaths("IndirectCall",
             [f \in Names |-> {s \in CallInsts : LoadsHMF(s, f)}])
    /\ UNCHANGED <<prog, module, typeVars, mem, result, todo, unwind, phi>>

-----------------------------------------------------------------------------
(* PostMLTA.                                                               *)

\* A plausible slip: only direct calls are put back.
RecoveredDirect(path) ==
    IF path.call_inst[1] \in Invokes /\ path.call_type = "DirectCall"
    THEN [path EXCEPT !.call_inst[2] = "invoke"] ELSE path

Recovered(path) ==
    IF path.call_inst[1] \in Invokes THEN [path EXCEPT !.call_inst[2] = "invoke"] ELSE path

RecoverInvokeCalls ==
    /\ phase = "recover" /\ phase' = "duplicate"
    /\ FunctionMap' =
         [f \in Names |-> [i \in DOMAIN FunctionMap[f] |-> Recovered(FunctionMap[f][i])]]
    /\ result' = [s \in Sites |-> <<s, inst[s].op>>]
    /\ module' = module \ {<<s, "call">> : s \in Invokes}
    /\ todo' = Invokes
    /\ UNCHANGED <<prog, typeVars, mem, unwind, phi>>

predecessors(block) == {s \in Invokes : unwind[s] = block}

\* The first predecessor keeps the block, the others get copies.
Duplicated(block, preds, first) ==
    [s \in preds |-> IF s = first THEN block ELSE <<block[1], s>>]

\* A plausible slip: every pad brings the value of the block that kept its own.
MovedPhiKept(node, new) ==
    [b \in {new[i] : i \in DOMAIN new} |-> node[CHOOSE i \in DOMAIN new : new[i][2] = 0]]

\* The PHI node behind the pads: its values now come from the new pads of the
\* blocks they came from.
MovedPhi(node, new) ==
    [b \in {new[i] : i \in DOMAIN new} |-> node[CHOOSE i \in DOMAIN new : new[i] = b]]

\* The map of invokes is ordered by address and the predecessors are in no order
\* of the program's, so any may be next and first.  What follows the landing pad
\* is split off, and the PHI node moves there.
DuplicateInvokeUnwinds(s) ==
    LET block == unwind[s]
        preds == predecessors(block)
    IN  /\ phase = "duplicate" /\ s \in todo
        /\ todo' = todo \ {s}
        /\ \/ preds = {s} /\ UNCHANGED <<unwind, phi>>
           \/ /\ preds # {s}
              /\ \E first \in preds :
                   LET new == Duplicated(block, preds, first)
                   IN  /\ unwind' = [i \in Invokes |-> IF i \in preds THEN new[i] ELSE unwind[i]]
                       /\ phi' = [phi EXCEPT ![block[1]] = MovedPhi(@, new)]
        /\ UNCHANGED <<phase, prog, module, typeVars, mem, result, FunctionMap>>

DuplicateDone ==
    /\ phase = "duplicate" /\ todo = {} /\ phase' = "run"
    /\ mem' = InitialMemory
    /\ UNCHANGED <<prog, module, typeVars, pathVars>>

\* The program is built and runs: a store, or anything else.
Run ==
    /\ phase = "run" /\ (UNCHANGED mem \/ \E st \in prog.stores : Execute(st))
    /\ UNCHANGED <<phase, prog, module, typeVars, pathVars>>

Next ==
    \/ LowerInvokeCalls \/ CallGraph \/ MergeIndirectFunctionCalls
    \/ AnalyzeDirectFunctionCalls \/ UpdateCFGWithIndirectCalls \/ RecoverInvokeCalls
    \/ \E s \in Sites : DuplicateInvokeUnwinds(s)
    \/ DuplicateDone \/ Run

Spec == Init /\ [][Next]_vars

-----------------------------------------------------------------------------
(* Properties.                                                             *)

PathsOf(f) == {FunctionMap[f][i] : i \in DOMAIN FunctionMap[f]}

\* The aggregates that make up a constant, and the functions in it.
Nested[v \in Vals] ==
    IF Op(v) = "aggregate" THEN {v} \cup UNION {Nested[o] : o \in Range(Values[v].of)} ELSE {}
Inside[v \in Vals] ==
    IF Op(v) = "aggregate" THEN UNION {Inside[o] : o \in Range(Values[v].of)} ELSE {FoundF(v)} \ {NULL}

\* The variables stay in their domains.
TypeOK ==
    /\ module \subseteq Sites \X {"call", "invoke"} /\ result \in [Sites -> Sites \X {"call", "invoke"}]
    /\ \A f \in Names : \A path \in PathsOf(f) :
         path.Callee = f /\ path.Caller \in Defined /\ path.call_inst[1] \in Sites
    /\ todo \subseteq Sites /\ unwind \in [Invokes -> Pads \X ({0} \cup Sites)]

\* Every function of an initializer is recorded for all fields that contain it;
\* ContainersMap keeps only the last field a shared constant was met in.
AllContainers ==
    phase \notin {"pre", "globals"} =>
        \A g \in DOMAIN prog.init : \A c \in Nested[prog.init[g]] : \A i \in DOMAIN Values[c].of :
            \A f \in Inside[Values[c].of[i]] \cap Defined : <<Values[c].ty, i - 1, f>> \in typeIdxFuncsMap

\* A field that has all fields of a type copied into it misses what is copied into
\* one of these.
Hidden ==
    \E p, q \in typeIdxPropMap :
        /\ p[4] = ANY /\ q[1] = p[3] /\ q[2] # ANY /\ q[3] # q[1]
        /\ <<q[3], q[4]>> \notin getDependentTypes(<<p[1], p[2]>>)

\* The type analysis is sound: whatever the program has stored so far, the functions
\* it can call through a pointer are listed for that call (findCalleesWithMLTA, over
\* what typeConfineInInitializer, typeConfineInFunction and typePropInFunction have
\* collected).  It is not where a constant is shared by two fields (AllContainers),
\* where copies are Hidden, and for methods, whose signature cleanString changes.
CalledIsListed ==
    phase = "run" /\ AllContainers /\ ~Hidden =>
        \A s \in Sites : Indirect(s) /\ Cleaned[CallType(s)] = CallType(s) =>
            \A f \in CalledAt(s) \cap Defined :
                \E path \in PathsOf(f) : path.call_inst = <<s, inst[s].op>>

\* A lookup ends: its layers are counted also when the break at one that escapes
\* only leaves the inner loop, and the next round starts again from the same value
\* (findCalleesWithMLTA).
LookupEnds == look.site # 0 => look.rounds < MAX_TYPE_LAYER

\* At the end an instruction is listed at most once for a function, and for one
\* heap function at most: the type analysis and ReduceLibraryIndirectCall never
\* both find malloc, a twin and its invoke are never both found.  UpdateHMFInterface
\* rewrites the size argument once per entry, so a second entry would have a size
\* that already carries an id tagged again.
ListedOnce ==
    phase = "run" =>
        \A f, g \in Names : \A i \in DOMAIN FunctionMap[f], j \in DOMAIN FunctionMap[g] :
            /\ FunctionMap[f][i].call_inst = FunctionMap[g][j].call_inst
            /\ f = g \/ {f, g} \subseteq HMFs
            => f = g /\ i = j

\* At the end no call of a known function is missed, whether call or invoke, with
\* a cast or without, and neither a list entry nor an operand is left with an
\* instruction that was taken out of the module (PreMLTA, PostMLTA).
AllListed ==
    phase = "run" =>
        /\ \A s \in Sites, f \in Names : NamesFunction(s, f) \/ LoadsHMF(s, f) =>
              \E path \in PathsOf(f) : path.call_inst = <<s, inst[s].op>>
        /\ \A s \in Sites : result[s] \in module
        /\ \A f \in Names : \A path \in PathsOf(f) : path.call_inst \in module

\* DuplicateInvokeUnwinds, in any order of the invokes: at the end every one
\* has a landing pad of its own, which leads to the same handler as before, and
\* the handler's PHI node still gives the value of that invoke's block.
LandsAlone ==
    phase = "run" =>
        \A s \in Invokes :
            LET p == inst[s].pad
            IN  /\ predecessors(unwind[s]) = {s} /\ unwind[s][1] = p
                /\ \/ DOMAIN phi[p] = {s} /\ phi[p][s] = s
                   \/ unwind[s] \in DOMAIN phi[p] /\ phi[p][unwind[s]] = s

=============================================================================
