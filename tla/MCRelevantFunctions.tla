------------------------ MODULE MCRelevantFunctions ------------------------
(* RelevantFunctions for TLC: every graph over nine calls, in loops or not.  *)
(* 2 and 3 may call each other, and so may 4 and 5; 3 calls 4.  The heap     *)
(* functions 1 and 6 come before and after the others in name order.        *)
EXTENDS RelevantFunctions

MCCalls == {<<2, 3>>, <<3, 2>>, <<3, 4>>, <<4, 5>>, <<5, 4>>,
            <<4, 1>>, <<5, 1>>, <<4, 6>>, <<5, 6>>}
MCHMFs == {1, 6}
=============================================================================
