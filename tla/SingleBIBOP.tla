----------------------------- MODULE SingleBIBOP -----------------------------
(***************************************************************************)
(* A bag of pages (class SingleBIBOP, and IndividualBIBOP, which only adds *)
(* an initialiser): objects of one size, carved off a chunk by a bump      *)
(* pointer and recycled through a LIFO free list.  The intrusive free list *)
(* is the sequence of its addresses, its head first.                       *)
(***************************************************************************)
EXTENDS MemoryPool, Sequences

Bibop == [bump : Nat, base : Nat, objectSize : Nat, capacity : Nat,
          freeList : Seq(Nat)]

\* InitSingleBIBOP / InitIndividualBIBOP: objectSize already counts the header.
InitBIBOP(base, objectSize, capacity) ==
    [bump |-> base, base |-> base, objectSize |-> objectSize,
     capacity |-> capacity, freeList |-> <<>>]

\* A plausible slip: the capacity is compared with the bump before it moves.
allocateObjectStaleBump(b) ==
    IF b.freeList # <<>>
    THEN [ptr |-> Head(b.freeList), bibop |-> [b EXCEPT !.freeList = Tail(@)]]
    ELSE [ptr |-> IF b.bump - b.base >= b.capacity THEN NULL ELSE b.bump,
          bibop |-> [b EXCEPT !.bump = @ + b.objectSize]]

\* A plausible slip: the head is returned and left on the free list.
allocateObjectKeepsHead(b) ==
    IF b.freeList # <<>>
    THEN [ptr |-> Head(b.freeList), bibop |-> b]
    ELSE [ptr |-> IF b.bump + b.objectSize - b.base >= b.capacity
                  THEN NULL ELSE b.bump,
          bibop |-> [b EXCEPT !.bump = @ + b.objectSize]]

\* Pop the free list, or bump.  A failed bump is NOT rolled back.
allocateObject(b) ==
    IF b.freeList # <<>>
    THEN [ptr |-> Head(b.freeList), bibop |-> [b EXCEPT !.freeList = Tail(@)]]
    ELSE [ptr |-> IF b.bump + b.objectSize - b.base >= b.capacity
                  THEN NULL ELSE b.bump,
          bibop |-> [b EXCEPT !.bump = @ + b.objectSize]]

\* Push on the front of the free list.
freeObject(b, ptr) == [b EXCEPT !.freeList = <<ptr>> \o @]

\* Continue on a new chunk; the free list, and what was carved, are kept.
ExtendSingleBIBOP(b, base, capacity) ==
    [b EXCEPT !.bump = base, !.base = base, !.capacity = capacity]

=============================================================================
