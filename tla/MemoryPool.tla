----------------------------- MODULE MemoryPool -----------------------------
(***************************************************************************)
(* The bump pool behind every chunk of bag memory (class MemoryPool).  A   *)
(* pool is a record of the three pointers of the class; an operation is an *)
(* operator from a pool to its result and the pool it leaves behind.       *)
(* Addresses are naturals and the null pointer is 0.                       *)
(***************************************************************************)
EXTENDS Naturals

NULL == 0

Pool == [base : Nat, bump : Nat, boundary : Nat]

\* The pool over the mapping [base, base + InitSize) that mmap returned.
AllocateMemoryPool(base, InitSize) ==
    [base |-> base, bump |-> base, boundary |-> base + InitSize]

\* Bump, and roll the bump back when it passed the boundary.
allocateMemory(pool, size) ==
    IF pool.bump + size > pool.boundary
    THEN [ptr |-> NULL, pool |-> pool]
    ELSE [ptr |-> pool.bump, pool |-> [pool EXCEPT !.bump = @ + size]]

=============================================================================
