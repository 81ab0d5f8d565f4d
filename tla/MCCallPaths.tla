---------------------------- MODULE MCCallPaths ----------------------------
(***************************************************************************)
(* Two families of programs.  Around: three sites, each a call or an       *)
(* invoke of everything the passes around the analysis tell apart.         *)
(* Through: calls through pointers that are kept in fields, arrays, heap   *)
(* objects and locals, with some of the stores that fill them.             *)
(***************************************************************************)
EXTENDS CallPaths

\* fn, fm and mal are signatures; a method (fm) has its class in its string.  W, X
\* hold one pointer, U and the array A two, M two Us, T pointers to U, L a list.
MCPointsTo ==
    [t \in {"fn*", "fn**", "fm*", "fm**", "mal*", "mal**", "W*", "X*", "U*", "U**", "T*", "M*", "A*",
             "L*", "i8*", "i8**"} |->
        CASE t = "fn*" -> "fn" [] t = "fn**" -> "fn*" [] t = "fm*" -> "fm" [] t = "fm**" -> "fm*"
          [] t = "mal*" -> "mal" [] t = "mal**" -> "mal*" [] t = "W*" -> "W" [] t = "X*" -> "X"
          [] t = "U*" -> "U" [] t = "U**" -> "U*" [] t = "T*" -> "T" [] t = "M*" -> "M"
          [] t = "A*" -> "A" [] t = "L*" -> "L" [] t = "i8*" -> "i8" [] t = "i8**" -> "i8*"]
MCElements ==
    [t \in {"W", "X", "U", "T", "M", "A", "L"} |->
        CASE t = "W" -> <<"fn*">> [] t = "X" -> <<"fm*">> [] t \in {"U", "A"} -> <<"fn*", "fn*">>
          [] t = "T" -> <<"U*", "U*">> [] t = "M" -> <<"U", "U">> [] t = "L" -> <<"L*", "fn*">>]
MCCleaned == [t \in {"fn", "fm", "mal"} |-> IF t = "fm" THEN "fm without class" ELSE t]
MCTypeOrder ==
    <<"A", "T", "U", "M", "W", "fn", "X", "fm", "L", "mal", "i8", "fn*", "fn**", "fm*", "fm**", "mal*",
      "mal**", "W*", "X*", "U*", "U**", "T*", "M*", "A*", "L*", "i8*", "i8**">>

Value(op, ty, of) == [op |-> op, ty |-> ty, of |-> of, src |-> NULL, idx |-> <<>>]
Gep(ty, of, src, idx) == [op |-> "gep", ty |-> ty, of |-> <<of>>, src |-> src, idx |-> idx]
Load(ty, from) == Value("load", ty, <<from>>)
Cast(ty, from) == Value("bitcast", ty, <<from>>)
Global(ty) == Value("global", ty, <<>>)
Constant(ty, of) == Value("aggregate", ty, of)

Objects ==
    [v \in {"f", "g", "h", "k"} |-> Value("function", "fn*", <<>>)]
    @@ "m" :> Value("function", "fm*", <<>>)
    @@ [v \in {"malloc", "_Znwm"} |-> Value("function", "mal*", <<>>)]
    @@ "gm" :> Global("mal**") @@ "gw" :> Global("W*") @@ "gx" :> Global("X*") @@ "gu" :> Global("U*")
    @@ "gt" :> Global("T*") @@ "gmm" :> Global("M*") @@ "ga" :> Global("A*") @@ "gl" :> Global("L*")
    @@ "local" :> Value("alloca", "fn**", <<>>) @@ "localm" :> Value("alloca", "fm**", <<>>)
    @@ "new" :> Value("call", "i8*", <<>>) @@ "newU" :> Cast("U*", "new")
    @@ "blob" :> Value("call", "i8*", <<>>) @@ "asm" :> Value("asm", "fn*", <<>>) @@ "null" :> Value("null", "fn*", <<>>)
    @@ "pk" :> [op |-> "argument", ty |-> "fn*", of |-> <<>>, src |-> "k", idx |-> <<1>>]
    @@ "cGH" :> Constant("U", <<"g", "h">>) @@ "cH0" :> Constant("U", <<"h", "null">>)
    @@ "cM" :> Constant("M", <<"cGH", "cH0">>) @@ "cMM" :> Constant("M", <<"cGH", "cGH">>)
    @@ "cT" :> Constant("T", <<"gu", "null">>) @@ "cL" :> Constant("L", <<"gl", "h">>)
    @@ "cA" :> Constant("A", <<"g", "h8">>)

Instructions ==
    "malloc'" :> Cast("fn*", "malloc") @@ "h8" :> Cast("i8*", "h")
    @@ "gm*" :> Load("mal*", "gm") @@ "local*" :> Load("fn*", "local") @@ "localm*" :> Load("fm*", "localm")
    @@ "&w0" :> Gep("fn**", "gw", "W", <<0, 0>>) @@ "w0" :> Load("fn*", "&w0") @@ "&w0'" :> Cast("i8**", "&w0")
    @@ "&x0" :> Gep("fm**", "gx", "X", <<0, 0>>) @@ "x0" :> Load("fm*", "&x0")
    @@ "&u0" :> Gep("fn**", "gu", "U", <<0, 0>>) @@ "u0" :> Load("fn*", "&u0")
    @@ "&u1" :> Gep("fn**", "gu", "U", <<0, 1>>) @@ "u1" :> Load("fn*", "&u1")
    @@ "&l1" :> Gep("fn**", "gl", "L", <<0, 1>>) @@ "l1" :> Load("fn*", "&l1")
    @@ "&w0|&l1" :> Value("phi", "fn**", <<"&w0", "&l1">>)
    @@ "&ai" :> Gep("fn**", "ga", "A", <<0, ANY>>) @@ "ai" :> Load("fn*", "&ai")
    @@ "&t0" :> Gep("U**", "gt", "T", <<0, 0>>) @@ "t0" :> Load("U*", "&t0")
    @@ "&t1" :> Gep("U**", "gt", "T", <<0, 1>>) @@ "t1" :> Load("U*", "&t1")
    @@ "&t01" :> Gep("fn**", "t0", "U", <<0, 1>>) @@ "t01" :> Load("fn*", "&t01")
    @@ "&t11" :> Gep("fn**", "t1", "U", <<0, 1>>) @@ "t11" :> Load("fn*", "&t11")
    @@ "&t10" :> Gep("fn**", "t1", "U", <<0, 0>>) @@ "t10" :> Load("fn*", "&t10")
    @@ "&m0" :> Gep("U*", "gmm", "M", <<0, 0>>) @@ "&m0'" :> Cast("fn**", "&m0")
    @@ "&m00" :> Gep("fn**", "gmm", "M", <<0, 0, 0>>) @@ "m00" :> Load("fn*", "&m00")
    @@ "&m10" :> Gep("fn**", "gmm", "M", <<0, 1, 0>>) @@ "m10" :> Load("fn*", "&m10")
    @@ "&m0+1" :> Gep("fn**", "&m0", "U", <<1, 0>>) @@ "&m0+1'" :> Cast("i8**", "&m0+1")
    @@ "&new1" :> Gep("i8*", "new", "i8", <<1>>) @@ "&new1'" :> Cast("fn**", "&new1")
    @@ "&newU1" :> Gep("fn**", "newU", "U", <<0, 1>>) @@ "newU1" :> Load("fn*", "&newU1")
    @@ "gu8" :> Cast("i8*", "gu") @@ "m08" :> Cast("i8*", "&m0")

\* TLC evaluates a definition of its own once, but what stands for a constant at
\* every use: hence the detour.
AllValues == Objects @@ Instructions
MCValues == AllValues

Site(op, callee, args, pad) == [op |-> op, callee |-> callee, args |-> args, pad |-> pad]
Program(sites, stores, order, init) == [inst |-> sites, stores |-> stores, globals |-> order, init |-> init]
Store(val, ptr) == [op |-> "store", val |-> val, ptr |-> ptr]
Memcpy(val, ptr) == [op |-> "memcpy", val |-> val, ptr |-> ptr]

Around ==
    LET callees == {"g", "malloc'", "asm", "local*", "gm*"}
        sites == {Site("call", c, <<>>, "p1") : c \in callees}
                 \cup {Site("invoke", c, <<>>, p) : c \in callees, p \in Pads}
    IN {Program(i, {Store("g", "local")}, <<"gm">>, "gm" :> "malloc") :
          i \in {j \in [1 .. 3 -> sites] : j[1].pad = "p1"}}

\* What may be called, and stores that lead there.
Called == {"w0", "x0", "u1", "t11", "m00", "m10", "ai", "l1", "local*", "newU1"}

Pool ==
    {Store("g", "&w0"), Store("h", "&u1"), Store("g", "&u0"), Store("g", "&ai"), Store("h", "&t01"),
     Store("h", "local"), Store("m", "localm"), Store("m", "&x0"), Store("g", "&m0'"), Store("h8", "&m0+1'"),
     Store("g", "&l1"), Store("g", "&w0|&l1"), Store("g", "&new1'"),
     Store("u1", "&w0"), Store("u0", "&u1"), Store("w0", "&u1"), Store("ai", "&w0"), Store("w0", "&ai"),
     Store("local*", "&w0"), Store("localm*", "&x0"), Store("pk", "&w0"), Store("w0", "local"),
     Store("gu", "&t0"), Store("gu", "&t1"), Store("newU", "&t1"), Store("&m0", "&t1"), Store("blob", "&w0'"),
     Memcpy("gu8", "m08"), Memcpy("m08", "gu8")}

Chains ==
    {Store("g", "&w0"), Store("w0", "&t01"), Store("gu", "&t0"), Store("gu", "&t1"), Store("u1", "&l1"),
     Store("ai", "&u1"), Memcpy("gu8", "m08")}

Initial ==
    {Program(<<>>, {}, <<"gu", "gmm">>, "gu" :> "cGH" @@ "gmm" :> "cM"),
     Program(<<>>, {}, <<"gl", "ga", "gt", "gu">>,
             "gl" :> "cL" @@ "ga" :> "cA" @@ "gt" :> "cT" @@ "gu" :> "cGH")}

Call(c) == Site("call", c, <<>>, "p1")
PassH == Site("call", "k", <<"h">>, "p1")
Through ==
    {[p EXCEPT !.inst = <<Call(c), PassH>>, !.stores = {a, b}] : c \in Called, a, b \in Pool, p \in Initial}
    \cup {[p EXCEPT !.inst = <<Call(c), Call(d)>>, !.stores = st] :
             c, d \in {"t10", "t11", "l1", "m00"}, st \in SUBSET Chains,
             p \in {Program(<<>>, {}, <<"gl", "ga">>, "gl" :> "cL" @@ "ga" :> "cA")}}
    \cup {Program(<<Call(c), PassH>>, {st}, <<"gmm">>, "gmm" :> "cMM") : c \in {"m00", "m10", "u1"}, st \in Pool}

MCCaller == <<"f", "f", "g">>
MCInputs == Around \cup Through

=============================================================================
