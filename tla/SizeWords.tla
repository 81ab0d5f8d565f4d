----------------------------- MODULE SizeWords -----------------------------
(***************************************************************************)
(* The word that carries an allocation's size, its call-site id and two    *)
(* flags from the instrumented program to the allocator:                   *)
(*                                                                         *)
(*     HUGE | LOOP | recursion hash | track variable | size                *)
(*                                                                         *)
(* UpdateHMFInterface puts the code that builds it in front of every call  *)
(* of a heap function; mallocMemory, css_calloc and css_memalign take it   *)
(* apart.  A call that was not instrumented passes its size as it is.  The *)
(* widths are parameters.                                                  *)
(***************************************************************************)
EXTENDS Naturals

CONSTANTS
    SizeBits,  \* SIZE_BIT
    CsiBits,   \* CSI_BIT
    RhBits     \* RH_BIT

ASSUME WidthsAssumption == SizeBits \in Nat /\ CsiBits \in Nat /\ RhBits \in Nat

SizeMod == 2 ^ SizeBits
CsiMod == 2 ^ CsiBits
RhMod == 2 ^ RhBits
MAX_SIZE == SizeMod - 1
LOOP_BIT == SizeMod * CsiMod * RhMod
HUGE_BIT == 2 * LOOP_BIT
WordMod == 2 * HUGE_BIT

\* Of powers, the proofs use no more than this.
ASSUME PowersAssumption == {SizeMod, CsiMod, RhMod} \subseteq Nat \ {0}

-----------------------------------------------------------------------------
(* UpdateHMFInterface: what the inserted code computes.                    *)

\* A plausible slip: the track variable is added without its mask.
maskCSTVNone(track) == track * SizeMod

\* Shifted over the size and cut to its field.
maskCSTV(track) == (track % CsiMod) * SizeMod

\* The branch tests the address of the loop counter, not its value.
LoopFlag(layer) == TRUE

\* The sizes are below HUGE_BIT, so the or is a sum.
Instrumented(c) ==
    IF c.size > MAX_SIZE THEN c.size + HUGE_BIT
    ELSE LET sum == c.hash * SizeMod * CsiMod + maskCSTV(c.track) + c.size
         IN IF LoopFlag(c.layer) /\ (sum \div LOOP_BIT) % 2 = 0 THEN sum + LOOP_BIT ELSE sum

WordOf(c) == IF c.caller = "instrumented" THEN Instrumented(c) ELSE c.size

-----------------------------------------------------------------------------
(* The allocator's side: a request is the bytes, the call-site id and the  *)
(* loop flag, and whether the huge flag sends it to allocateHuge.          *)

GET_REAL_SIZE(w) == w % SizeMod

CSIOf(w) == (w \div SizeMod) % (CsiMod * RhMod)
HasLoopBit(w) == (w \div LOOP_BIT) % 2 = 1
HasHugeBit(w) == w \div HUGE_BIT = 1

Regular(bytes, w) == [bytes |-> bytes, CSI |-> CSIOf(w), loop |-> HasLoopBit(w), huge |-> FALSE]

\* mallocMemory(size): a huge word carries nothing but its size.
MallocRequest(w) ==
    IF HasHugeBit(w) THEN [bytes |-> w % HUGE_BIT, CSI |-> 0, loop |-> FALSE, huge |-> TRUE]
    ELSE Regular(GET_REAL_SIZE(w), w)

\* css_calloc: the product has the width of size_t; no look at the huge flag.
CallocRequest(nmemb, w) == Regular((nmemb * GET_REAL_SIZE(w)) % WordMod, w)

=============================================================================
