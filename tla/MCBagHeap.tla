----------------------------- MODULE MCBagHeap -----------------------------
(* BagHeap for TLC: one global bag, two individual ones of different object *)
(* size, pools of two chunks, and an address space that is too small for    *)
(* everything that can be asked for.                                        *)
EXTENDS BagHeap, TLC

CONSTANTS g, i1, i2

MCGlobalBags == {g}
MCIndividualBags == {i1, i2}
MCObjectSize == (g :> 3) @@ (i1 :> 3) @@ (i2 :> 4)
=============================================================================
