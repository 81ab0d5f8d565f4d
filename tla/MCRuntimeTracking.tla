------------------------- MODULE MCRuntimeTracking -------------------------
(* 1 calls 2, which calls itself and, at two places, 3. *)
EXTENDS RuntimeTracking

MCSites == 1 .. 4
MCFrom == <<1, 2, 2, 2>>
MCTo == <<2, 3, 3, 2>>
MCWeight == <<1, 2, 4, 8>>
Kinds == {"Default", "MarkBranch", "MarkInbound", "MarkOutbound"}
MCTypesOf == <<Kinds, Kinds, Kinds, {"MarkInnerBranch"}>>

=============================================================================
