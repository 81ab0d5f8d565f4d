---------------------------- MODULE MCCsiTables ----------------------------
(* CsiTables for TLC: ids 0 to 3 that hash to two values, so that every id  *)
(* collides, in a lazy table of three slots and a bag table of two.         *)
EXTENDS CsiTables

MCCSIs == 0 .. 3
MCSizeClasses == {0, 1}
=============================================================================
