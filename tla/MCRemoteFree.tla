---------------------------- MODULE MCRemoteFree ----------------------------
(* RemoteFree for TLC: three objects, two threads that free them remotely.  *)
EXTENDS RemoteFree

CONSTANTS o1, o2, o3, r1, r2

MCObjects == {o1, o2, o3}
MCRemotes == {r1, r2}
=============================================================================
