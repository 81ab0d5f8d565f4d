---------------------------- MODULE ProgramRuns ----------------------------
(***************************************************************************)
(* The program that TypeAnalysis analyses, as it runs: what its pointers   *)
(* really point to.  Its functions may run any number of times and in any  *)
(* order, so any store may be the next.  An object is a global variable, a *)
(* local one or what an external call returns; its memory is cells, one    *)
(* per element that is no composite.                                       *)
(***************************************************************************)
EXTENDS TypeAnalysis

VARIABLE mem  \* cell <<object, offset>> -> the cell or function it points to

\* The offsets of a path of indices; an index that is not constant may be any.
PathOffsets(src, path) ==
    LET IndexChoices(ty, i) == IF i = ANY THEN 0 .. Len(Elements[ty]) - 1 ELSE {i}
        end == FoldLeft(LAMBDA acc, i :
                            [at |-> {o + ElementOffset(acc.ty, j) : o \in acc.at, j \in IndexChoices(acc.ty, i)},
                             ty |-> ElementType(acc.ty, i)],
                        [at |-> {0}, ty |-> src], path)
    IN end.at

\* What each value may be while the memory is m.
ValueIn(m) ==
    LET value[v \in Vals] ==
            LET x == Values[v]
            IN CASE x.op \in {"function", "global", "alloca", "call"} -> {<<v, 0>>}
                 [] x.op = "bitcast" -> value[x.of[1]]
                 [] x.op = "gep" ->
                      {<<c[1], c[2] + x.idx[1] * SizeOf[x.src] + o>> :
                          c \in value[x.of[1]], o \in PathOffsets(x.src, Tail(x.idx))}
                 [] x.op = "load" -> {m[c] : c \in value[x.of[1]] \cap DOMAIN m}
                 [] x.op \in {"phi", "select"} -> UNION {value[i] : i \in Range(x.of)}
                 [] x.op = "argument" ->
                      UNION {value[prog.inst[s].args[x.idx[1]]] :
                               s \in {t \in Sites : prog.inst[t].callee = x.src}}
                 [] OTHER -> {}
    IN value

\* The cells an initializer fills in, from an offset on.
InitialCells(g) ==
    LET cells[x \in Vals \X Nat] ==
            LET v == Strip[x[1]]
                ty == Values[v].ty
            IN IF Op(v) = "aggregate"
               THEN UNION {cells[<<Values[v].of[i], x[2] + ElementOffset(ty, i - 1)>>] :
                             i \in DOMAIN Values[v].of}
               ELSE {<<<<g, x[2]>>, c>> : c \in ValueIn(<<>>)[v]}
    IN cells[<<prog.init[g], 0>>]

InitialMemory ==
    LET cells == UNION {InitialCells(g) : g \in DOMAIN prog.init}
    IN [c \in {x[1] : x \in cells} |-> (CHOOSE x \in cells : x[1] = c)[2]]

\* The cells a memcpy of a struct copies.
Copied(from, to, ty) ==
    LET cells == {k \in 0 .. SizeOf[ty] - 1 : <<from[1], from[2] + k>> \in DOMAIN mem}
    IN [c \in {<<to[1], to[2] + k>> : k \in cells} |-> mem[<<from[1], from[2] + c[2] - to[2]>>]]

Execute(st) ==
    LET value == ValueIn(mem)
    IN \E to \in value[st.ptr], x \in value[st.val] :
         mem' = (IF st.op = "store" THEN to :> x
                 ELSE Copied(x, to, Pointee(Values[Strip[st.val]].ty))) @@ mem

\* The functions site s may call now.
CalledAt(s) == {c[1] : c \in ValueIn(mem)[prog.inst[s].callee]}

=============================================================================
