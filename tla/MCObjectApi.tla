---------------------------- MODULE MCObjectApi ----------------------------
(* ObjectApi for TLC: a global bag of 2 bytes, one of 8, and an individual  *)
(* bag of 8 whose slot an aligned request shifts; one huge block, which a   *)
(* large alignment shifts.  The size field has four bits, the whole word    *)
(* eight: the calls are on both sides of each limit.                        *)
EXTENDS ObjectApi, TLC

CONSTANTS s2, g8, i8, h

MCSlots == {s2, g8, i8}
MCHugeBlocks == {h}
MCBagOf == (s2 :> "global 2") @@ (g8 :> "global 8") @@ (i8 :> "site 8")
MCBagSize == ("global 2" :> 2) @@ ("global 8" :> 8) @@ ("site 8" :> 8)
MCGlobalBags == {"global 2", "global 8"}
MCSiteOf == "site 8" :> 3
MCOffset == (s2 :> 0) @@ (g8 :> 0) @@ (i8 :> 1) @@ (h :> 1)

Plain(size, nmemb) == [caller |-> "plain", size |-> size, nmemb |-> nmemb, track |-> 0, hash |-> 0, layer |-> 0]
At(hash, track, size, nmemb) ==
    [caller |-> "instrumented", size |-> size, nmemb |-> nmemb, track |-> track, hash |-> hash, layer |-> 1]

\* Sizes of both classes, huge ones with and without the flag, and one whose low
\* bits are small; a track that wraps to the bag's site, and another; products
\* in the bag, huge, and wrapped around.
MCRequests ==
    {Plain(0, 1), Plain(2, 1), Plain(3, 1), Plain(9, 32), Plain(18, 1),
     At(0, 1, 0, 1), At(1, 1, 2, 1), At(1, 3, 3, 1), At(0, 3, 3, 3), At(1, 1, 18, 1)}

\* One call outside every loop, one inside.
MCLoopRequests == {[At(1, 1, 3, 1) EXCEPT !.layer = 0], At(1, 1, 3, 1)}
=============================================================================
