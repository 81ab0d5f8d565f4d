-------------------------- MODULE MCThreadManagers --------------------------
(* ThreadManagers for TLC: three threads, as many as there are managers, and *)
(* three objects.                                                           *)
EXTENDS ThreadManagers, TLC

CONSTANTS t1, t2, t3, o1, o2, o3

MCThreads == {t1, t2, t3}
MCObjects == {o1, o2, o3}
Symmetric == Permutations(MCThreads) \cup Permutations(MCObjects)
=============================================================================
