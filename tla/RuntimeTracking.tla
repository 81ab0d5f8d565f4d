-------------------------- MODULE RuntimeTracking --------------------------
(***************************************************************************)
(* What the code inserted around the calls of a program does while the     *)
(* program runs (doModulePass of InstrumentIR.cc with RecursiveHelper.cc): *)
(* the thread-local track variable, whose value becomes the call-site id   *)
(* of an allocation, and the loop layer counter follow the stack of calls. *)
(* Calls return, or an exception unwinds them: an invoke may have a        *)
(* landing pad that takes it, a plain call never has.                      *)
(*                                                                         *)
(* Every invoke has a landing pad of its own (see CallPaths); normal       *)
(* destinations may be shared, and other branches may lead there.  The     *)
(* variables are thread local, so one thread is enough.                    *)
(*                                                                         *)
(* The recursion hash is left out.  extendInLoopRecursiveCall, the only    *)
(* code that moves its offset, is called for what FunctionMap has for the  *)
(* members of components, and instrIsInaLoop has emptied those entries     *)
(* (see RelevantFunctions): the hash is always that of no entries, 0.      *)
(***************************************************************************)
EXTENDS Integers, Sequences, FiniteSets

CONSTANTS
    Sites,     \* the call instructions of the final graph, numbers
    From, To,  \* their caller and callee, numbers; the program starts in 1
    Weight,    \* their edgeWeight
    TypesOf,   \* the path types each may have
    MaxDepth,  \* bound: calls on the stack
    MaxSkips   \* bound: frames unwound past, and stray arrivals at blocks

PathTypes == {"Default", "MarkSimpleInner", "MarkInnerBranch", "MarkBranch",
              "MarkSimpleLoop", "MarkInbound", "MarkOutbound"}

ASSUME ProgramAssumption ==
    /\ From \in [Sites -> Nat] /\ To \in [Sites -> Nat] /\ Weight \in [Sites -> Nat]
    /\ TypesOf \in [Sites -> SUBSET PathTypes] /\ IsFiniteSet(Sites)
    /\ MaxDepth \in Nat /\ MaxSkips \in Nat

VARIABLES
    type,     \* the path_type of every call
    op,       \* "call" or "invoke"
    normal,   \* normal destination of an invoke: its own block, or the
              \* function's block 0, to which other branches lead too
    mode,     \* "run", "throw" or "exit"
    stack,    \* the calls in progress, the latest one last
    track,    \* semallocCSTrack
    layer,    \* CSSLoopLayerTrack
    saved,    \* CSSDebugArray: function -> what CSSSaveTrack stored
    lost,     \* the calls that exceptions have unwound past, in order
    stray     \* how often control came to the normal destination of an outbound
              \* invoke other than by its return

program == <<type, op, normal>>
vars == <<program, mode, stack, track, layer, saved, lost, stray>>

Functions == {1} \cup {From[s] : s \in Sites} \cup {To[s] : s \in Sites}

Init ==
    /\ type \in {t \in [Sites -> PathTypes] : \A s \in Sites : t[s] \in TypesOf[s]}
    /\ op \in [Sites -> {"call", "invoke"}]
    /\ normal \in {n \in [Sites -> {0} \cup Sites] :
                     \A s \in Sites : n[s] = s \/ (n[s] = 0 /\ op[s] = "invoke")}
    /\ mode = "run" /\ stack = <<>> /\ track = 0 /\ layer = 0
    /\ saved = [f \in Functions |-> 0] /\ lost = <<>> /\ stray = 0

Top == stack[Len(stack)]
Pop == SubSeq(stack, 1, Len(stack) - 1)
Running == IF stack = <<>> THEN 1 ELSE To[Top]

-----------------------------------------------------------------------------
(* The inserted code.                                                      *)

Uninstrumented == {"Default", "MarkSimpleInner", "MarkInnerBranch"}
Instrumented(s) == type[s] \notin Uninstrumented

\* The final graph is free of cycles: there is an order of the functions that no call
\* leaves downwards, and instrumented ones go strictly up (RelevantFunctions, where
\* the calls inside a component become inner ones).
Ordered(level) ==
    \A s \in Sites : /\ level[From[s]] <= level[To[s]]
                     /\ ~ (TypesOf[s] \subseteq Uninstrumented) => level[From[s]] < level[To[s]]

ASSUME AcyclicAssumption ==
    \E level \in [Functions -> 0 .. Cardinality(Functions)] : Ordered(level)

EdgeWeight(s) == IF Instrumented(s) THEN Weight[s] ELSE 0

\* The pairs of insertIncreaseLoopLayerLogic and insertDecreaseLoopLayerLogic around
\* a call: doModulePass inserts one, extendOutBoundRecursiveCall one more.
ByModulePass(s) == IF Instrumented(s) /\ type[s] # "MarkBranch" THEN 1 ELSE 0
ByOutBound(s) == IF type[s] = "MarkOutbound" THEN 1 ELSE 0

\* The outbound invokes of f that lead to block b.
OutboundTo(f, b) ==
    {s \in Sites : /\ From[s] = f /\ op[s] = "invoke"
                   /\ normal[s] = b /\ type[s] = "MarkOutbound"}

\* A plausible slip: a block that has the decrement gets no second one.
OnBlockOnce(f, b) == IF OutboundTo(f, b) = {} THEN 0 ELSE 1

\* The decrements in block b itself, where extendOutBoundRecursiveCall puts that of
\* the normal edge.  The one of doModulePass is in a new block on the edge.
OnBlock(f, b) == Cardinality(OutboundTo(f, b))

-----------------------------------------------------------------------------
(* The program.                                                            *)

\* One place per function, in the debug build.
CSSSaveTrack(s, value) ==
    IF Instrumented(s) THEN [saved EXCEPT ![From[s]] = value] ELSE saved

\* A plausible slip: the track variable is saved before the weight is added.
CallSavesEarly(s) ==
    /\ mode = "run" /\ From[s] = Running /\ Len(stack) < MaxDepth
    /\ stack' = Append(stack, s)
    /\ track' = track + EdgeWeight(s)
    /\ layer' = layer + ByModulePass(s) + ByOutBound(s)
    /\ saved' = CSSSaveTrack(s, track)
    /\ UNCHANGED <<program, mode, lost, stray>>

\* The code before a call.
Call(s) ==
    /\ mode = "run" /\ From[s] = Running /\ Len(stack) < MaxDepth
    /\ stack' = Append(stack, s)
    /\ track' = track + EdgeWeight(s)
    /\ layer' = layer + ByModulePass(s) + ByOutBound(s)
    /\ saved' = CSSSaveTrack(s, track')
    /\ UNCHANGED <<program, mode, lost, stray>>

\* A plain call returns: its code follows it.
ReturnToCall ==
    /\ mode = "run" /\ stack # <<>> /\ op[Top] = "call"
    /\ stack' = Pop
    /\ track' = track - EdgeWeight(Top)
    /\ layer' = layer - ByModulePass(Top) - ByOutBound(Top)
    /\ UNCHANGED <<program, mode, saved, lost, stray>>

\* An invoke returns: through its new block to its normal destination, where the
\* code of all outbound invokes that lead there runs.
ReturnToInvoke ==
    LET block == normal[Top]
        others == OutboundTo(From[Top], block) \ {Top}
    IN  /\ mode = "run" /\ stack # <<>> /\ op[Top] = "invoke"
        /\ stray + Cardinality(others) <= MaxSkips
        /\ stack' = Pop
        /\ track' = track - EdgeWeight(Top)
        /\ layer' = layer - ByModulePass(Top) - OnBlock(From[Top], block)
        /\ stray' = stray + Cardinality(others)
        /\ UNCHANGED <<program, mode, saved, lost>>

\* Another branch of the running function leads to its shared block.
Jump ==
    LET others == OutboundTo(Running, 0)
    IN  /\ mode = "run" /\ others # {} /\ stray + Cardinality(others) <= MaxSkips
        /\ layer' = layer - OnBlock(Running, 0)
        /\ stray' = stray + Cardinality(others)
        /\ UNCHANGED <<program, mode, stack, track, saved, lost>>

Throw ==
    /\ mode = "run" /\ mode' = "throw"
    /\ UNCHANGED <<program, stack, track, layer, saved, lost, stray>>

\* A plausible slip: the landing pad takes the weight back only where it also
\* takes back a loop layer.
LandLoopsOnly ==
    /\ mode = "throw" /\ stack # <<>> /\ op[Top] = "invoke"
    /\ mode' = "run" /\ stack' = Pop
    /\ track' = IF ByModulePass(Top) > 0 THEN track - EdgeWeight(Top) ELSE track
    /\ layer' = layer - ByModulePass(Top) - ByOutBound(Top)
    /\ UNCHANGED <<program, saved, lost, stray>>

\* The landing pad of an invoke takes the exception; its code runs, then a
\* handler or a cleanup, after which the exception may be thrown on.
Land ==
    /\ mode = "throw" /\ stack # <<>> /\ op[Top] = "invoke"
    /\ mode' = "run" /\ stack' = Pop
    /\ track' = track - EdgeWeight(Top)
    /\ layer' = layer - ByModulePass(Top) - ByOutBound(Top)
    /\ UNCHANGED <<program, saved, lost, stray>>

\* An exception leaves the caller too: a plain call has no landing pad, and
\* that of an invoke need not want this exception.
UnwindPast ==
    /\ mode = "throw" /\ stack # <<>>
    /\ Instrumented(Top) => Len(lost) < MaxSkips
    /\ stack' = Pop
    /\ lost' = IF Instrumented(Top) THEN Append(lost, Top) ELSE lost
    /\ UNCHANGED <<program, mode, track, layer, saved, stray>>

\* main returns, or nobody takes the exception.
Exit ==
    /\ mode \in {"run", "throw"} /\ stack = <<>> /\ mode' = "exit"
    /\ UNCHANGED <<program, stack, track, layer, saved, lost, stray>>

Next ==
    \/ \E s \in Sites : Call(s)
    \/ ReturnToCall \/ ReturnToInvoke \/ Jump
    \/ Throw \/ Land \/ UnwindPast \/ Exit

Spec == Init /\ [][Next]_vars

-----------------------------------------------------------------------------
(* Properties.                                                             *)

\* The variables stay in their domains.
TypeOK ==
    /\ type \in [Sites -> PathTypes] /\ op \in [Sites -> {"call", "invoke"}]
    /\ normal \in [Sites -> {0} \cup Sites]
    /\ mode \in {"run", "throw", "exit"}
    /\ stack \in Seq(Sites) /\ Len(stack) <= MaxDepth
    /\ track \in Nat /\ layer \in Int /\ saved \in [Functions -> Nat]
    /\ lost \in Seq(Sites) /\ Len(lost) <= MaxSkips /\ stray \in 0 .. MaxSkips

\* Sum of val over a sequence of calls.
Total(seq, val) ==
    LET Sum[n \in 0 .. Len(seq)] == IF n = 0 THEN 0 ELSE Sum[n - 1] + val[seq[n]]
    IN Sum[Len(seq)]

\* What a call counts for while it is in progress: an outbound one for two layers,
\* others for one, except for branches.
Layers(s) ==
    CASE ~Instrumented(s) \/ type[s] = "MarkBranch" -> 0
      [] type[s] = "MarkOutbound" -> 2
      [] OTHER -> 1

Weights == [s \in Sites |-> EdgeWeight(s)]
LoopLayers == [s \in Sites |-> Layers(s)]

\* The track variable is the sum of the weights of the calls in progress, plus
\* those of the calls an exception has unwound past (CSTrackVariable in
\* doModulePass).  Returns of calls, returns of invokes and landing pads, in any
\* order, lose nothing: only a frame left without running code of its caller does.
TrackAccounts == track = Total(stack, Weights) + Total(lost, Weights)

\* The loop layer counter is the sum over the calls in progress, plus the calls
\* unwound past, less one for each time that control came to the normal destination
\* of an outbound invoke other than by its return: by that of an invoke which shares
\* the block, or by a branch (RecursiveHelper.cc).  So the pairs that two places of
\* the pass insert, in up to four blocks, cancel out on every other way.
LayerAccounts == layer = Total(stack, LoopLayers) + Total(lost, LoopLayers) - stray

\* The final graph is free of cycles, so a function has one instrumented call in
\* progress at most, and what CSSSaveTrack stored for it is not overwritten: as
\* long as no exception was lost it is the sum of the weights down to that call.
\* With TrackAccounts, CSSCheckTrack (helper.cc) after a call then finds the
\* value it expects; once a call was unwound past, it need not.
SavedIsCurrent ==
    lost = <<>> =>
        \A i \in 1 .. Len(stack) :
            Instrumented(stack[i]) =>
                saved[From[stack[i]]] = Total(SubSeq(stack, 1, i), Weights)

=============================================================================
