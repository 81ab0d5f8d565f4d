--------------------------- MODULE MCEdgeWeights ---------------------------
(* EdgeWeights for TLC: every graph of four calls among an entry function 1, *)
(* two functions 2 and 3, which may call themselves or each other, a heap   *)
(* function 4, and a function 0 that is not relevant.                       *)
EXTENDS EdgeWeights

MCCalls == {<<0, 2>>, <<1, 2>>, <<1, 3>>, <<1, 4>>, <<2, 2>>, <<2, 3>>,
            <<2, 4>>, <<3, 2>>, <<3, 4>>}
MCRelevant == 1 .. 4
MCHMFs == {4}
=============================================================================
