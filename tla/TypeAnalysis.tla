---------------------------- MODULE TypeAnalysis ----------------------------
(***************************************************************************)
(* The multi-layer type analysis (MLTA.cc) that gives every indirect call  *)
(* its possible callees, and the CallGraph pass that drives it.            *)
(*                                                                         *)
(* doInitialization collects, for each field of a composite type, the      *)
(* functions put there (confinement), the fields copied there              *)
(* (propagation), the fields and types nothing is known about (escape,     *)
(* cap).  findCalleesWithMLTA starts from the functions of the call's      *)
(* signature and intersects them, layer by layer, with the functions of    *)
(* the fields the called pointer was loaded through.                       *)
(*                                                                         *)
(* The program is a graph of values, as in LLVM with typed pointers; a     *)
(* type is its own hash.  One module is loaded, and its structs are named. *)
(***************************************************************************)
EXTENDS Integers, Sequences, SequencesExt, FiniteSets

CONSTANTS
    Values,         \* value -> [op, ty, of: operands, src, idx]
    PointsTo,       \* pointer type -> the type pointed to
    Elements,       \* composite type -> its element types
    Arrays,         \* the composite types that are arrays, not structs
    Cleaned,        \* function type -> its string after cleanString
    TypeOrder,      \* the types in the order of their hashes
    Defined,        \* functions with a body; the others are declarations
    Taken,          \* functions whose address is taken
    MAX_TYPE_LAYER,
    Inputs,         \* the programs: see prog
    NULL            \* no value, no type

VARIABLES
    phase,           \* the pass that runs next
    prog,            \* input: the call sites (inst), the stores and memcpys
                     \* (stores) and the initializers (init) of the module
    module,          \* the call and invoke instructions: <<site, opcode>>
    MIdx,            \* modules seen by the current function of the pass
    work,            \* typeConfineInInitializer: LU, Visited, ContainersMap
    typeIdxFuncsMap, \* <<type, index, function>>
    typeIdxPropMap,  \* <<type, index, from type, from index>>
    typeEscapeSet,   \* <<type, index>>
    typeCapSet,      \* types
    sigFuncsMap,     \* <<signature, function>>
    MatchedFuncsMap, \* cache: <<type, index>> -> functions
    look,            \* the locals of findCalleesWithMLTA; site 0: not running
                     \* (over, the break of its inner loop, and rounds, of its
                     \* outer loop, are no variables of the code)
    Callees          \* indirect call site -> functions

tables == <<typeIdxFuncsMap, typeIdxPropMap, typeEscapeSet, typeCapSet, sigFuncsMap>>
typeVars == <<MIdx, work, tables, MatchedFuncsMap, look, Callees>>

Vals == DOMAIN Values
Op(v) == IF v = NULL THEN "none" ELSE Values[v].op
Composite == DOMAIN Elements
Structs == Composite \ Arrays
Pointee(ty) == IF ty \in DOMAIN PointsTo THEN PointsTo[ty] ELSE NULL

\* What a value has as operands; a global variable has its initializer.
Operands(v) ==
    CASE Op(v) # "global"            -> Values[v].of
      [] v \in DOMAIN prog.init      -> <<prog.init[v]>>
      [] OTHER                       -> <<>>

\* An array index that is not constant.
ANY == -1

\* The table f with y for x.
Put(f, x, y) == [z \in DOMAIN f \cup {x} |-> IF z = x THEN y ELSE f[z]]

funcHash(f) == Cleaned[PointsTo[Values[f].ty]]

-----------------------------------------------------------------------------
(* Types of values.                                                        *)

\* collectAliasStructPtr, recoverBaseType: the struct pointer that a general
\* pointer returned by a call is cast to, if it is cast to one only.
recoverBaseType(v) ==
    LET casts == {c \in Vals : /\ Op(c) = "bitcast" /\ Values[c].of = <<v>>
                               /\ Pointee(Values[c].ty) \in Composite}
    IN IF Op(v) = "call" /\ Values[v].ty = "i8*" /\ Cardinality(casts) = 1
       THEN CHOOSE c \in casts : TRUE ELSE NULL

\* The base type of v in its own layer.  x is v and the set Visited.
getBaseType[x \in (Vals \cup {NULL}) \X SUBSET Vals] ==
    LET v == x[1]
        seen == x[2] \cup {v}
        Result(ty) == [ty |-> ty, seen |-> seen]
        ty0 == Values[v].ty
    IN IF v = NULL \/ v \in x[2] THEN [ty |-> NULL, seen |-> x[2]]
       ELSE IF ty0 \in Composite THEN Result(ty0)
       ELSE IF Pointee(ty0) \in Composite THEN Result(Pointee(ty0))
       ELSE IF recoverBaseType(v) # NULL
            THEN Result(Pointee(Values[recoverBaseType(v)].ty))
       ELSE IF Op(v) \in {"bitcast", "select", "load"}
            THEN getBaseType[<<Values[v].of[1], seen>>]
       ELSE IF Op(v) = "phi"
            THEN FoldLeft(LAMBDA acc, i :
                            IF acc.ty # NULL THEN acc ELSE getBaseType[<<i, acc.seen>>],
                          Result(NULL), Values[v].of)
       ELSE Result(NULL)

BaseType == [v \in Vals \cup {NULL} |-> getBaseType[<<v, {}>>].ty]

\* The type of an element; every element of an array has the same.
ElementType(ty, i) == Elements[ty][IF i = ANY THEN 1 ELSE i + 1]

\* The layers of a path of indices, the innermost first.
PathLayers(src, path) ==
    LET n == Len(path)
        ty[i \in 0 .. n] == IF i = 0 THEN src ELSE ElementType(ty[i - 1], path[i])
    IN [list |-> [k \in 1 .. n |-> <<ty[n - k], path[n - k + 1]>>], ty |-> ty[n]]

\* The data layout of LLVM, in cells: what is no composite takes one.
SizeOf[ty \in Range(TypeOrder)] ==
    IF ty \in Composite THEN FoldLeft(LAMBDA sum, e : sum + SizeOf[e], 0, Elements[ty]) ELSE 1

\* The cells from the start of a composite to its i-th element.
ElementOffset(ty, i) == FoldLeft(LAMBDA sum, e : sum + SizeOf[e], 0, SubSeq(Elements[ty], 1, i))

\* getGEPIndicesForOffset: the path to the element at an offset, a level at a time;
\* there are no more levels than composite types.
IndicesForOffset(ty, offset) ==
    LET depth == Cardinality(Composite)
        down[n \in 0 .. depth] ==
            IF n = 0 THEN [path |-> <<>>, ty |-> ty, rest |-> offset % SizeOf[ty]]
            ELSE LET at == down[n - 1]
                     i == Max({j \in 0 .. Len(Elements[at.ty]) - 1 :
                                 ElementOffset(at.ty, j) <= at.rest})
                 IN IF at.rest = 0 \/ at.ty \notin Composite THEN at
                    ELSE [path |-> Append(at.path, i), ty |-> Elements[at.ty][i + 1],
                          rest |-> at.rest - ElementOffset(at.ty, i)]
    IN down[depth].path

CastsOf(gep) == {c \in Vals : Op(c) = "bitcast" /\ Values[c].of = <<gep>>}

\* A pointer to a struct that is cast to one to its first field stands for both.
WithFirstField(gep, layers) ==
    LET first == {c \in CastsOf(gep) : /\ layers.ty \in Structs
                                       /\ Pointee(Values[c].ty) = ElementType(layers.ty, 0)}
    IN [i \in 1 .. Cardinality(first) |-> <<layers.ty, 0>>] \o layers.list

\* With a first index that is not 0, a general pointer (to bytes) is taken into the
\* struct it is known to be, and a pointer to a struct that is cast is given up.
getGEPLayerTypes(gep) ==
    LET g == Values[gep]
        outOfBase == g.idx[1] \notin {0, ANY}
        alias == recoverBaseType(g.of[1])
        ty == Pointee(Values[alias].ty)
    IN IF outOfBase /\ alias # NULL
       THEN WithFirstField(gep, PathLayers(ty, IndicesForOffset(ty, g.idx[1])))
       ELSE IF outOfBase /\ g.src \in Structs /\ CastsOf(gep) # {} THEN <<>>
       ELSE WithFirstField(gep, PathLayers(g.src, Tail(g.idx)))

\* The result for a GEP: without layers there is nowhere to go on.
BelowGEP(gep, list, seen) ==
    [ret |-> list # <<>>, TyList |-> list, seen |-> seen,
     NextV |-> IF list = <<>> THEN NULL ELSE Values[gep].of[1]]

\* nextLayerBaseType: the layers of the next GEP below v, TyList, and where to
\* go on, NextV.  x is v and the set Visited.
nextLayerBaseType[x \in (Vals \cup {NULL}) \X SUBSET Vals] ==
    LET v == x[1]
        seen == x[2] \cup {v}
        Stop(next, visited) == [ret |-> FALSE, TyList |-> <<>>, NextV |-> next, seen |-> visited]
    IN IF v = NULL \/ Op(v) = "argument" \/ v \in x[2] THEN Stop(v, x[2])
       ELSE IF Op(v) = "gep"
            THEN BelowGEP(v, getGEPLayerTypes(v), seen)
       ELSE IF Op(v) \in {"load", "bitcast", "select", "unary"}
            THEN nextLayerBaseType[<<Values[v].of[1], seen>>]
       ELSE IF Op(v) = "phi"
            THEN LET values == Values[v].of
                     after[i \in 0 .. Len(values)] ==
                         IF i = 0 THEN Stop(NULL, seen)
                         ELSE LET acc == after[i - 1]
                                  n == nextLayerBaseType[<<values[i], acc.seen>>]
                              IN [n EXCEPT !.ret = @ \/ acc.ret, !.TyList = acc.TyList \o @]
                 IN after[Len(values)]
       ELSE Stop(NULL, seen)

NextLayer == [v \in Vals \cup {NULL} |-> nextLayerBaseType[<<v, {}>>]]

\* From the layers n on, with all, which gives what is below.
Onward(n, all) == IF n.ret THEN [all[<<n.NextV, n.seen>>] EXCEPT !.TyList = n.TyList \o @] ELSE n

\* All layers below v, and the value at their end.
AllLayers[x \in (Vals \cup {NULL}) \X SUBSET Vals] == Onward(nextLayerBaseType[x], AllLayers)

\* getBaseTypeChain: the types that hold what v points to, and the end of the chain.
Chain(ty, layers) ==
    [types |-> (IF ty # NULL THEN <<<<ty, 0>>>> ELSE <<>>) \o layers.TyList, end |-> layers.NextV]

TypeChain == [v \in Vals \cup {NULL} |-> Chain(BaseType[v], AllLayers[<<v, {}>>])]

\* Whether a chain that ends at this value is known not to go further.
Complete(end) ==
    /\ end # NULL
    /\ ~(Op(end) = "argument" /\ Values[end].ty \in DOMAIN PointsTo)
    /\ \A st \in prog.stores : st.op = "store" => st.ptr # end

\* What is capped for a chain; without layers, the type of the function put there.
ChainCaps(chain, hashes) ==
    IF Complete(chain.end) THEN {}
    ELSE IF chain.types # <<>> THEN {Last(chain.types)[1]} ELSE hashes

-----------------------------------------------------------------------------
(* doInitialization: global variables.                                     *)

IsFunction(v) == Op(v) = "function"

\* NextGlobal: the work list starts with the initializer of the next one.
NextGlobal ==
    /\ phase = "globals" /\ work.LU = <<>> /\ work.globals # <<>>
    /\ LET ini == prog.init[Head(work.globals)]
       IN work' = [globals |-> Tail(work.globals), visited |-> {}, containers |-> <<>>,
                   LU |-> IF Op(ini) = "aggregate" THEN <<ini>> ELSE <<>>]
    /\ UNCHANGED <<phase, prog, module, MIdx, tables, MatchedFuncsMap, look, Callees>>

\* The function an operand of an initializer is, under a cast if need be.
FoundF(o) ==
    CASE IsFunction(o) -> o
      [] Op(o) \in {"bitcast", "ptrtoint"} /\ IsFunction(Values[o].of[1]) -> Values[o].of[1]
      [] OTHER -> NULL

\* What the work list gets for an operand.
Pushed(o) ==
    CASE FoundF(o) # NULL                       -> <<>>
      [] Values[o].ty \in Composite             -> <<o>>
      [] Op(o) \in {"bitcast", "ptrtoint"}      -> <<Values[o].of[1]>>
      [] Op(o) # "null" /\ Values[o].ty \in DOMAIN PointsTo -> <<o>>
      [] OTHER                                  -> <<>>

\* The types and indices that contain o, up to a container met before.
ContainersOf(map, o) ==
    LET up[x \in Vals \X SUBSET Vals] ==
            LET in == map[x[1]]
                seen == x[2] \cup {x[1]}
            IN IF x[1] \notin DOMAIN map THEN {}
               ELSE {<<Values[in[1]].ty, in[2]>>}
                    \cup (IF in[1] \in seen THEN {} ELSE up[<<in[1], seen>>])
    IN up[<<o, {}>>]

\* One operand of the user u: acc is what the loop over them has changed so far.
ConfineOperand(u, acc, i) ==
    LET o == Operands(u)[i]
        map == Put(acc.containers, o, <<u, i - 1>>)
    IN [containers |-> map,
        LU |-> acc.LU \o Pushed(o),
        funcs |-> acc.funcs \cup (IF FoundF(o) = NULL THEN {}
                                  ELSE {Append(c, FoundF(o)) : c \in ContainersOf(map, o)}),
        caps |-> acc.caps \cup (IF Op(o) = "global" THEN {Pointee(Values[o].ty)} \cap Structs
                                                    ELSE {})]

\* One round of the loop of typeConfineInInitializer.
ConfineUser ==
    /\ phase = "globals" /\ work.LU # <<>>
    /\ LET u == Head(work.LU)
           start == [containers |-> work.containers, LU |-> Tail(work.LU),
                     funcs |-> typeIdxFuncsMap, caps |-> typeCapSet]
           end == IF u \in work.visited THEN start
                  ELSE FoldLeft(LAMBDA acc, i : ConfineOperand(u, acc, i), start,
                                [i \in DOMAIN Operands(u) |-> i])
       IN  /\ work' = [work EXCEPT !.LU = end.LU, !.containers = end.containers,
                                   !.visited = @ \cup {u}]
           /\ typeIdxFuncsMap' = end.funcs /\ typeCapSet' = end.caps
    /\ UNCHANGED <<phase, prog, module, MIdx, typeIdxPropMap, typeEscapeSet, sigFuncsMap,
                   MatchedFuncsMap, look, Callees>>

-----------------------------------------------------------------------------
(* doInitialization: functions.                                            *)

\* stripPointerCasts
Strip[v \in Vals] == IF Op(v) = "bitcast" THEN Strip[Values[v].of[1]] ELSE v

\* Inline assembly and constants are not indirect calls.
Indirect(s) == Op(prog.inst[s].callee) \in {"load", "argument", "phi", "select", "call"}
Sites == DOMAIN prog.inst
CallInsts == {s \in Sites : <<s, "call">> \in module}

\* The places where a function stores or casts its parameter p; a store has no
\* type and no operands to follow.
UsesOf(p) ==
    {b \in Vals : Op(b) = "bitcast" /\ Values[b].of = <<p>>}
    \cup {NULL : st \in {x \in prog.stores : x.op = "store" /\ p \in {x.val, x.ptr}}}

\* Where the n-th argument of call s is taken to go: of an indirect call nothing
\* is known; a call to a function with a body leads to its parameter.
ArgumentGoes(s, n) ==
    IF Indirect(s) THEN {prog.inst[s].args[n]}
    ELSE UNION {UsesOf(p) : p \in {q \in Vals : /\ Op(q) = "argument"
                                                /\ Values[q].src = prog.inst[s].callee
                                                /\ Values[q].idx = <<n>>}}

\* typeConfineInFunction: the calls confineTargetFunction(v, f), as <<v, f>>.
Confined ==
    {<<st.ptr, Strip[st.val]>> : st \in {x \in prog.stores : x.op = "store" /\ IsFunction(Strip[x.val])}}
    \cup UNION {UNION {ArgumentGoes(s, n) \X {prog.inst[s].args[n]} :
                         n \in {i \in DOMAIN prog.inst[s].args : IsFunction(prog.inst[s].args[i])}} :
                  s \in CallInsts}

\* What a store or memcpy of val brings along: the fields it is loaded from, else all
\* fields of its type, else what its function type has.
SourcesIn(val, fields, base) ==
    LET ty == Pointee(Values[Strip[val]].ty)
    IN IF Op(val) \in {"aggregate", "null"} THEN {}
       ELSE IF fields # {} THEN fields
       ELSE IF base # NULL THEN {<<base, ANY>>}
       ELSE IF ty \in DOMAIN Cleaned /\ ~IsFunction(Strip[val]) THEN {<<ty, ANY>>}
       ELSE {}

Sources(val) == SourcesIn(val, Range(NextLayer[val].TyList), BaseType[val])

\* A pointer of which nothing is known: its destination escapes.
Escaping(val) ==
    /\ Sources(val) = {} /\ Op(val) \notin {"aggregate", "null"}
    /\ Pointee(Values[Strip[val]].ty) \notin DOMAIN Cleaned
    /\ Values[val].ty \in DOMAIN PointsTo

Escapes == {st.ptr : st \in {x \in prog.stores : Escaping(x.val)}}
Propagated == {st.ptr : st \in {x \in prog.stores : Sources(x.val) # {}}}

\* A field is not copied into itself.
propagateType(chain, sources) == {x[1] \o x[2] : x \in {y \in chain \X sources : y[1] # y[2]}}

\* A plausible slip: declarations stay.
DeclarationsKept(funcs) == funcs

\* The end of the last module maps declarations to the functions other modules
\* define: there are none, and the declarations go.
Actual(funcs) == {x \in funcs : Last(x) \in Defined}

\* The functions: AnalyseFunctions confines, propagates and escapes for every store
\* and call, and collects the functions whose address is taken.
AnalyseFunctions ==
    /\ phase = "globals" /\ work.LU = <<>> /\ work.globals = <<>>
    /\ phase' = "mlta" /\ MIdx' = 0
    /\ typeIdxFuncsMap' =
         Actual(typeIdxFuncsMap \cup UNION {{Append(t, cf[2]) : t \in Range(TypeChain[cf[1]].types)} :
                                               cf \in Confined})
    /\ typeIdxPropMap' =
         UNION {propagateType(Range(TypeChain[st.ptr].types), Sources(st.val)) : st \in prog.stores}
    /\ typeEscapeSet' = UNION {Range(TypeChain[p].types) : p \in Escapes}
    /\ typeCapSet' =
         typeCapSet
         \cup UNION {ChainCaps(TypeChain[p], {}) : p \in Escapes \cup Propagated}
         \cup UNION {ChainCaps(TypeChain[cf[1]], {funcHash(cf[2])}) : cf \in Confined}
    /\ sigFuncsMap' = Actual({<<funcHash(f), f>> : f \in Taken})
    /\ UNCHANGED <<prog, module, work, MatchedFuncsMap, look, Callees>>

-----------------------------------------------------------------------------
(* doModulePass: findCalleesWithMLTA.                                      *)

CallType(s) == PointsTo[Values[prog.inst[s].callee].ty]

\* getTargetsWithLayerType adds to what FS holds, or replaces it.
getTargetsWithLayerType(ty, idx, FS) ==
    IF idx = ANY THEN FS \cup {x[3] : x \in {y \in typeIdxFuncsMap : y[1] = ty}}
    ELSE {x[3] : x \in {y \in typeIdxFuncsMap : y[1] = ty /\ y[2] \in {idx, ANY}}}

\* The fields copied into a field, or into any field of its type.
CopiedInto(t) ==
    {<<p[3], p[4]>> : p \in {q \in typeIdxPropMap : q[1] = t[1] /\ q[2] \in {t[2], ANY}}}

\* A plausible slip: copies of copies are not followed.
getDependentTypesDirect(t) == CopiedInto(t)

getDependentTypes(t) ==
    LET reach[n \in Nat] ==
            IF n = 0 THEN CopiedInto(t)
            ELSE LET before == reach[n - 1]
                 IN before \cup UNION {CopiedInto(d) : d \in before}
    IN reach[Cardinality(typeIdxPropMap)]

Rank(ty) == CHOOSE i \in DOMAIN TypeOrder : TypeOrder[i] = ty
HashOrder(d, e) == Rank(d[1]) < Rank(e[1]) \/ (d[1] = e[1] /\ d[2] < e[2])

\* The functions of field t and of the fields copied into it; FS1 and FS2 are
\* the variables of the caller, which keep what they hold.
LayerTargets(t, FS1, FS2) ==
    FoldLeft(LAMBDA acc, d :
                LET targets == getTargetsWithLayerType(d[1], d[2], acc.FS2)
                IN [FS1 |-> acc.FS1 \cup targets, FS2 |-> targets],
             [FS1 |-> getTargetsWithLayerType(t[1], t[2], FS1), FS2 |-> FS2],
             SetToSortSeq(getDependentTypes(t), HashOrder))

Escaped(t) == {t, <<t[1], ANY>>} \cap typeEscapeSet # {}

Matched(l, t, NextV, capped, FS1) ==
    [l EXCEPT !.LayerNo = @ + 1,
              !.FS1 = FS1, !.FS2 = FS1 \cap l.FS, !.FS = FS1 \cap l.FS,
              !.CV = NextV, !.over = capped, !.ContinueNextLayer = ~capped,
              !.PrevLayerTy = IF capped THEN @ ELSE t[1]]

\* A plausible slip: a layer that escapes is not counted.
SkipUncounted(l) == [l EXCEPT !.over = TRUE]

\* The break at a layer that escapes: the outer loop goes on, from the same value.
Skip(l) == [l EXCEPT !.LayerNo = @ + 1, !.over = TRUE]

\* One round of the inner loop, for the locals l and the cache.
MatchLayer(l, cache, t, NextV) ==
    LET FS1 == IF t \in DOMAIN cache THEN cache[t] ELSE LayerTargets(t, l.FS1, l.FS2).FS1
    IN IF l.over \/ l.LayerNo >= MAX_TYPE_LAYER
       THEN [look |-> [l EXCEPT !.over = TRUE], cache |-> cache]
       ELSE IF t \notin DOMAIN cache /\ Escaped(t)
       THEN [look |-> Skip(l), cache |-> cache]
       ELSE [look |-> Matched(l, t, NextV, t[1] \in typeCapSet, FS1), cache |-> Put(cache, t, FS1)]

NoLook == [site |-> 0]
Unresolved == {s \in CallInsts : Indirect(s)} \ DOMAIN Callees

\* The next indirect call starts from the functions of its signature.
FindCallees ==
    /\ phase = "mlta" /\ look.site = 0 /\ Unresolved # {}
    /\ LET s == Min(Unresolved)
           FS == {x[2] : x \in {y \in sigFuncsMap : y[1] = Cleaned[CallType(s)]}}
       IN IF FS = {} THEN Callees' = Put(Callees, s, {}) /\ UNCHANGED look
          ELSE /\ look' = [site |-> s, FS |-> FS, FS1 |-> {}, FS2 |-> {}, LayerNo |-> 1,
                           PrevLayerTy |-> CallType(s), CV |-> prog.inst[s].callee,
                           ContinueNextLayer |-> TRUE, over |-> FALSE, rounds |-> 0]
               /\ UNCHANGED Callees
    /\ UNCHANGED <<phase, prog, module, MIdx, work, tables, MatchedFuncsMap>>

AtEnd ==
    \/ ~look.ContinueNextLayer \/ look.LayerNo >= MAX_TYPE_LAYER
    \/ look.PrevLayerTy \in typeCapSet \/ NextLayer[look.CV].TyList = <<>>

\* The inner loop, over the layers of the next GEP.
MatchLayers(l, cache, next) ==
    LET after[n \in 0 .. Len(next.TyList)] ==
            IF n = 0 THEN [look |-> l, cache |-> cache]
            ELSE MatchLayer(after[n - 1].look, after[n - 1].cache, next.TyList[n], next.NextV)
    IN after[Len(next.TyList)]

\* One round of the outer loop.
FindInLayer ==
    /\ phase = "mlta" /\ look.site # 0 /\ ~AtEnd
    /\ LET found == MatchLayers([look EXCEPT !.rounds = @ + 1, !.over = FALSE], MatchedFuncsMap,
                                NextLayer[look.CV])
       IN look' = found.look /\ MatchedFuncsMap' = found.cache
    /\ UNCHANGED <<phase, prog, module, MIdx, work, tables, Callees>>

FoundCallees ==
    /\ phase = "mlta" /\ look.site # 0 /\ AtEnd
    /\ Callees' = Put(Callees, look.site, look.FS) /\ look' = NoLook
    /\ UNCHANGED <<phase, prog, module, MIdx, work, tables, MatchedFuncsMap>>

doModulePass ==
    /\ phase = "mlta" /\ look.site = 0 /\ Unresolved = {}
    /\ phase' = "finalize" /\ MIdx' = MIdx + 1
    /\ UNCHANGED <<prog, module, work, tables, MatchedFuncsMap, look, Callees>>

\* The counter of modules was not reset after doModulePass: with one module it
\* is 2 here, and the mapping of declarations is not done.
doFinalization ==
    /\ phase = "finalize" /\ phase' = "merge" /\ MIdx' = MIdx + 1
    /\ Callees' = IF MIdx' = 1 THEN [s \in DOMAIN Callees |-> Callees[s] \cap Defined] ELSE Callees
    /\ UNCHANGED <<prog, module, work, tables, MatchedFuncsMap, look>>

TypeInit ==
    /\ MIdx = 0
    /\ work = [globals |-> prog.globals, LU |-> <<>>, visited |-> {}, containers |-> <<>>]
    /\ typeIdxFuncsMap = {} /\ typeIdxPropMap = {} /\ typeEscapeSet = {} /\ typeCapSet = {}
    /\ sigFuncsMap = {} /\ MatchedFuncsMap = <<>> /\ look = NoLook /\ Callees = <<>>

TypeNext ==
    \/ NextGlobal \/ ConfineUser \/ AnalyseFunctions
    \/ FindCallees \/ FindInLayer \/ FoundCallees \/ doModulePass \/ doFinalization

=============================================================================
