------------------------- MODULE RelevantFunctions -------------------------
(***************************************************************************)
(* Which functions the compiler pass instruments (InstrumentIR.cc, steps 1 *)
(* to 3): the functions that reach a heap function, the calls in loops,    *)
(* the components of mutually recursive functions, each made one node of   *)
(* the graph, and the functions related to a loop.  What is left feeds     *)
(* ConstructFinalCFG, see EdgeWeights.                                     *)
(*                                                                         *)
(* Functions are numbers in the order of their names, which is the order   *)
(* std::set iterates in.  The names CSSINTRA_n of the components are       *)
(* negative numbers: upper case sorts before the names of C functions.     *)
(* Every graph over Calls is an input, with at most one call per pair.     *)
(* isRelevant is set by the code and never read, and is left out.          *)
(***************************************************************************)
EXTENDS Integers, FiniteSets, FiniteSetsExt

CONSTANTS
    Calls, \* the calls there may be: <<caller, callee>>
    HMFs   \* InitialHeapFunctions

Functions == HMFs \cup {c[1] : c \in Calls} \cup {c[2] : c \in Calls}

ASSUME GraphAssumption ==
    /\ Calls \subseteq Nat \X Nat /\ Functions \subseteq Nat \ {0}
    /\ IsFiniteSet(Calls) /\ IsFiniteSet(HMFs)
    /\ \A c \in Calls : c[1] \notin HMFs

VARIABLES
    phase,    \* the step of the pass
    calls,    \* input: the calls of the program
    inLoop,   \* input: those in a loop of their caller
    mark,     \* FunctionMarkSet
    loopSet,  \* RelevantLoopFunctionSet
    relevant, \* RelevantAllFunctionSet
    intra,    \* FlippedIntraFunctionMap: member of a component -> its name
    path,     \* call -> Caller, Callee and path_type of its CallPath
    calledAt, \* call -> the key of FunctionMap whose vector has it
    callsAt,  \* call -> the key of FlippedFunctionMap whose vector has it
    todo,     \* the functions the current loop has still to visit
    visited,  \* GlobalVisited
    final     \* finalFunctionMarkSet, finalMarkSet

vars == <<phase, calls, inLoop, mark, loopSet, relevant, intra, path, calledAt,
          callsAt, todo, visited, final>>

graph == <<calls, inLoop, path, calledAt, callsAt>>

Init ==
    /\ calls \in SUBSET Calls /\ inLoop \in SUBSET calls
    /\ phase = "start" /\ mark = {} /\ loopSet = {} /\ relevant = {}
    /\ intra = <<>>
    /\ path = [c \in calls |-> [Caller |-> c[1], Callee |-> c[2], type |-> "Default"]]
    /\ calledAt = [c \in calls |-> c[2]] /\ callsAt = [c \in calls |-> c[1]]
    /\ todo = {} /\ visited = {} /\ final = {}

\* The steps from a function to the callers in its vector of FunctionMap, and to the
\* callees in its vector of FlippedFunctionMap.
Up == {<<calledAt[c], path[c].Caller>> : c \in calls}
Down == {<<callsAt[c], path[c].Callee>> : c \in calls}

\* Where one step leads from a set of functions.
After(steps, from) == {s[2] : s \in {e \in steps : e[1] \in from}}
Parents(f) == After(Up, {f})
Children(f) == After(Down, {f})

\* What a traversal with a queue visits: everything from the start on that is
\* reached without passing a function that was visited before.
Traverse(start, before, steps) ==
    LET Seen[n \in 0 .. Cardinality(steps)] ==
            IF n = 0 THEN start \ before
            ELSE LET seen == Seen[n - 1]
                 IN seen \cup (After(steps, seen) \ before)
    IN Seen[Cardinality(steps)]

-----------------------------------------------------------------------------
(* Step 1, doInitialization and MarkOnlyRelevantFunctions.                 *)

doInitialization ==
    /\ phase = "start" /\ phase' = "mark"
    /\ mark' = {c[1] : c \in {d \in calls : d[2] \in HMFs}}
    /\ final' = mark' /\ todo' = mark'
    /\ UNCHANGED <<graph, loopSet, relevant, intra, visited>>

\* The heap functions f calls, up to the k-th call in the order of the vector.
FirstHMFs(f, k) ==
    LET called == Children(f) \cap HMFs
    IN {h \in called : Cardinality({g \in called : g < h}) < k}

\* A plausible slip: the caller counts as visited once its parents are queued.
MarkEntrySkipsVisited ==
    /\ phase = "mark" /\ todo # {}
    /\ LET f == Min(todo)
           climbed == IF f \in visited THEN {} ELSE Parents(f) \ visited
       IN /\ visited' = visited \cup climbed \cup {f}
          /\ final' = final \cup climbed \cup (Children(f) \cap HMFs)
          /\ todo' = todo \ {f}
    /\ UNCHANGED <<phase, graph, mark, loopSet, relevant, intra>>

\* One caller of heap functions.  The loop over its calls adds a heap function,
\* then ends if the caller is visited, by now or by its own first climb.
MarkEntry ==
    /\ phase = "mark" /\ todo # {}
    /\ LET f == Min(todo)
           climbed == IF f \in visited THEN {} ELSE Traverse(Parents(f), visited, Up)
           heap == CASE f \in visited -> FirstHMFs(f, 1)
                     [] f \in climbed -> FirstHMFs(f, 2)
                     [] OTHER         -> Children(f) \cap HMFs
       IN /\ visited' = visited \cup climbed
          /\ final' = final \cup climbed \cup heap
          /\ todo' = todo \ {f}
    /\ UNCHANGED <<phase, graph, mark, loopSet, relevant, intra>>

MarkDone ==
    /\ phase = "mark" /\ todo = {} /\ phase' = "loops"
    /\ mark' = mark \cup final
    /\ UNCHANGED <<graph, loopSet, relevant, intra, todo, visited, final>>

-----------------------------------------------------------------------------
(* Step 2, instrIsInaLoop.                                                 *)

MarkSimpleLoops ==
    /\ phase = "loops" /\ phase' = "cycles"
    /\ LET looped == {c \in inLoop : calledAt[c] \in mark}
       IN /\ path' = [c \in calls |-> IF c \in looped
                                      THEN [path[c] EXCEPT !.type = "MarkSimpleLoop"]
                                      ELSE path[c]]
          /\ loopSet' = {calledAt[c] : c \in looped}
    /\ UNCHANGED <<calls, inLoop, calledAt, callsAt, mark, relevant, intra, todo,
                   visited, final>>

\* Kosaraju's strongly connected components of the marked functions.
Components ==
    LET below == [f \in mark |-> Traverse({f}, {}, calls \cap (mark \X mark))]
    IN {{g \in mark : g \in below[f] /\ f \in below[g]} : f \in mark}

\* A plausible slip: a pair of functions that call each other is overlooked.
FunctionCyclesOfThree == {C \in Components : Cardinality(C) > 2}

\* Those of two functions or more.
FunctionCycles == {C \in Components : Cardinality(C) > 1}

\* CSSINTRA_n.
IntraName(n) == -n

\* The components get their names in the order Kosaraju found them in.
NameCycles ==
    /\ phase = "cycles" /\ phase' = "inner"
    /\ LET cycles == FunctionCycles
       IN /\ \E order \in [cycles -> 1 .. Cardinality(cycles)] :
                /\ \A C, D \in cycles : order[C] = order[D] => C = D
                /\ intra' = [f \in UNION cycles |->
                                IntraName(order[CHOOSE C \in cycles : f \in C])]
          /\ loopSet' = loopSet \cup UNION cycles
    /\ UNCHANGED <<graph, mark, relevant, todo, visited, final>>

Members == DOMAIN intra

\* The calls that members make.  A call of any member, of another component
\* too, becomes a call of the caller's component by itself.
MarkInner ==
    /\ phase = "inner" /\ phase' = "inbound"
    /\ path' = [c \in calls |->
          CASE c[1] \notin Members -> path[c]
            [] c[1] \in Members /\ c[2] \in Members ->
                 [Caller |-> intra[c[1]], Callee |-> intra[c[1]], type |-> "MarkSimpleInner"]
            [] OTHER ->
                 [Caller |-> intra[c[1]], Callee |-> c[2], type |-> "MarkOutbound"]]
    /\ UNCHANGED <<calls, inLoop, calledAt, callsAt, mark, loopSet, relevant, intra,
                   todo, visited, final>>

CallCount(f) == Cardinality({c \in calls : calledAt[c] = f})

\* A plausible slip: a call from outside keeps the member's name.
MarkInboundKeepsName ==
    /\ phase = "inbound" /\ phase' = "merge"
    /\ path' = [c \in calls |->
          IF c[2] \in Members /\ path[c].Caller # path[c].Callee
          THEN [path[c] EXCEPT !.type = "MarkInbound"] ELSE path[c]]
    /\ UNCHANGED <<calls, inLoop, calledAt, callsAt, mark, loopSet, relevant, intra,
                   todo, visited, final>>

\* The calls of members.  A call by a member has been renamed already; the
\* code's other case of one is never met.
MarkInbound ==
    /\ phase = "inbound" /\ phase' = "merge"
    /\ path' = [c \in calls |->
          CASE c[2] \notin Members -> path[c]
            [] c[2] \in Members /\ path[c].Caller = path[c].Callee ->
                 [path[c] EXCEPT !.type = IF CallCount(c[2]) > 1 THEN "MarkInnerBranch"
                                                                ELSE "MarkSimpleInner"]
            [] OTHER ->
                 [path[c] EXCEPT !.Callee = intra[c[2]], !.type = "MarkInbound"]]
    /\ UNCHANGED <<calls, inLoop, calledAt, callsAt, mark, loopSet, relevant, intra,
                   todo, visited, final>>

NodeOf(f) == IF f \in Members THEN intra[f] ELSE f

\* The vectors of a component's members move under its name, and so do the
\* members in the set of loop functions; step 3 starts with its copy of it.
MergeMaps ==
    /\ phase = "merge" /\ phase' = "relate"
    /\ calledAt' = [c \in calls |-> NodeOf(calledAt[c])]
    /\ callsAt' = [c \in calls |-> NodeOf(callsAt[c])]
    /\ loopSet' = {NodeOf(f) : f \in loopSet}
    /\ final' = loopSet' /\ todo' = loopSet' /\ visited' = {}
    /\ UNCHANGED <<calls, inLoop, path, mark, relevant, intra>>

-----------------------------------------------------------------------------
(* Step 3, MarkLoopRelevantFunctions.                                      *)

\* A plausible slip: the second traversal starts again from the callers.
RelateUpTwice ==
    /\ phase = "relate" /\ todo # {}
    /\ LET f == Min(todo)
           up == Traverse(Parents(f) \cap mark, visited \cup {f}, Up)
       IN /\ visited' = visited \cup {f} \cup up
          /\ final' = final \cup (up \cap mark)
          /\ todo' = todo \ {f}
    /\ UNCHANGED <<phase, graph, mark, loopSet, relevant, intra>>

\* A plausible slip: the second traversal starts from all the first one met.
RelateAny ==
    /\ phase = "relate" /\ todo # {}
    /\ LET f == Min(todo)
           up == Traverse(Parents(f) \cap mark, visited \cup {f}, Up)
           start == UNION {Children(g) : g \in up \cup {f}}
           down == Traverse(start \cap mark, visited \cup {f} \cup up, Down)
       IN /\ visited' = visited \cup {f} \cup up \cup down
          /\ final' = final \cup ((up \cup down) \cap mark)
          /\ todo' = todo \ {f}
    /\ UNCHANGED <<phase, graph, mark, loopSet, relevant, intra>>

\* One loop function: up, then down, with one set of visited functions.
Relate ==
    /\ phase = "relate" /\ todo # {}
    /\ LET f == Min(todo)
           up == Traverse(Parents(f) \cap mark, visited \cup {f}, Up)
           down == Traverse(Children(f) \cap mark, visited \cup {f} \cup up, Down)
       IN /\ visited' = visited \cup {f} \cup up \cup down
          /\ final' = final \cup ((up \cup down) \cap mark)
          /\ todo' = todo \ {f}
    /\ UNCHANGED <<phase, graph, mark, loopSet, relevant, intra>>

RelateDone ==
    /\ phase = "relate" /\ todo = {} /\ phase' = "done"
    /\ relevant' = {NodeOf(f) : f \in final}
    /\ UNCHANGED <<graph, mark, loopSet, intra, todo, visited, final>>

Done == phase = "done" /\ UNCHANGED vars

Next ==
    \/ doInitialization \/ MarkEntry \/ MarkDone
    \/ MarkSimpleLoops \/ NameCycles \/ MarkInner \/ MarkInbound \/ MergeMaps
    \/ Relate \/ RelateDone \/ Done

Spec == Init /\ [][Next]_vars

-----------------------------------------------------------------------------
(* Properties.                                                             *)

Nodes == Functions \cup {intra[f] : f \in Members}
Phases == {"start", "mark", "loops", "cycles", "inner", "inbound", "merge", "relate", "done"}
PathTypes == {"Default", "MarkSimpleLoop", "MarkSimpleInner", "MarkInnerBranch",
              "MarkInbound", "MarkOutbound"}

\* Every variable keeps its shape; no name of a component is a function's.
TypeOK ==
    /\ phase \in Phases
    /\ mark \subseteq Functions /\ loopSet \subseteq Nodes /\ relevant \subseteq Nodes
    /\ Members \subseteq Functions /\ \A f \in Members : intra[f] < 0
    /\ path \in [calls -> [Caller : Nodes, Callee : Nodes, type : PathTypes]]
    /\ calledAt \in [calls -> Nodes] /\ callsAt \in [calls -> Nodes]
    /\ todo \subseteq Nodes /\ visited \subseteq Nodes /\ final \subseteq Nodes

\* Reachability in the program's own call graph.
Below(f) == Traverse(After(calls, {f}), {}, calls)

\* Step 1 marks exactly the functions from which a heap function is reached,
\* though each entry's climb stops at what earlier ones have visited.
AncestorsMarked ==
    phase = "loops" =>
        \A f \in Functions \ HMFs : f \in mark <=> Below(f) \cap HMFs # {}

\* The calls ConstructFinalCFG will use: in the vectors of a relevant function,
\* to or from a relevant one, not of itself.
FinalCallees(f) == {c \in calls : /\ callsAt[c] = f /\ path[c].Caller # path[c].Callee
                                  /\ path[c].Callee \in relevant}
FinalCallers(f) == {c \in calls : /\ calledAt[c] = f /\ path[c].Caller # path[c].Callee
                                  /\ path[c].Caller \in relevant}

\* None of the "Debug" checks of ComputeEdgeWeight stops the pass: ends of the
\* calls carry the names of components, and the two maps agree.
ChecksPass ==
    phase = "done" => \A f \in relevant :
        /\ \A c \in FinalCallees(f) : /\ path[c].Callee \notin Members
                                      /\ path[c].Caller = f
                                      /\ c \in FinalCallers(path[c].Callee)
        /\ \A c \in FinalCallers(f) : /\ path[c].Caller \notin Members
                                      /\ path[c].Callee = f
                                      /\ c \in FinalCallees(path[c].Caller)

\* The graph handed to the sort has no cycle, so it never gives up.
FinalGraph == UNION {{<<f, path[c].Callee>> : c \in FinalCallees(f)} : f \in relevant}
FinalAcyclic ==
    phase = "done" =>
        \A f \in relevant : f \notin Traverse(After(FinalGraph, {f}), {}, FinalGraph)

\* The program's functions that a node stands for.
Stands(n) == {f \in Functions : NodeOf(f) = n}

Related(f, n) == \E g \in Stands(n) : f = g \/ g \in Below(f) \/ f \in Below(g)

\* Every relevant function reaches a loop function, is reached from one or is
\* one, in the program's call graph.
LoopRelated ==
    phase = "done" =>
        \A n \in relevant, f \in Functions : f \in Stands(n) => \E l \in loopSet : Related(f, l)

\* The calls that touch no component but the one n stands for.
DirectCalls(n) ==
    LET others == Members \ Stands(n)
    IN {c \in calls : c[1] \notin others /\ c[2] \notin others}

\* Every marked function that calls the first loop function or is called by it,
\* directly or not, is relevant, unless that takes a call of another component.
\* Past another component or a later loop function this does not hold, although the
\* comment of MarkLoopRelevantFunctions says so of all: a traversal does not start
\* from the name of a component, and stops at what earlier ones visited in the
\* other direction.
FirstLoopComplete ==
    (phase = "done" /\ loopSet # {}) =>
        LET first == Stands(Min(loopSet))
            direct == DirectCalls(Min(loopSet))
        IN \A f \in mark :
              (\/ \E g \in first : g \in Traverse(After(direct, {f}), {}, direct)
               \/ f \in Traverse(After(direct, first), {}, direct))
              => NodeOf(f) \in relevant

=============================================================================
