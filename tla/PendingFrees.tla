---------------------------- MODULE PendingFrees ----------------------------
(***************************************************************************)
(* What cross-thread freeing promises, with every operation atomic.  An    *)
(* object of a manager is in its bag, held by the program, or pending: a   *)
(* thread other than the owner freed it and the owner has not yet taken it *)
(* back.  It leaves the bag only through malloc and comes back only after  *)
(* one free.                                                               *)
(***************************************************************************)
CONSTANT Objects

VARIABLE home \* Objects -> {"bag", "live", "pending"}

PFInit == home = [o \in Objects |-> "bag"]

Move(o, from, to) == home[o] = from /\ home' = [home EXCEPT ![o] = to]

PFMalloc(o) == Move(o, "bag", "live")
PFLocalFree(o) == Move(o, "live", "bag")
PFRemoteFree(o) == Move(o, "live", "pending")
PFReclaim(o) == Move(o, "pending", "bag")

PFNext == \E o \in Objects :
    PFMalloc(o) \/ PFLocalFree(o) \/ PFRemoteFree(o) \/ PFReclaim(o)

PFSpec == PFInit /\ [][PFNext]_home

=============================================================================
