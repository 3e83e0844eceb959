---------------------------- MODULE MCAccountPages ----------------------------
(* Instances of AccountPages for TLC.                                      *)
EXTENDS AccountPages

CONSTANTS d1, d2

OpensPage == [profile |-> 1, connections |-> 3, register |-> 0, factor |-> 2]
SendsMore == [profile |-> 2, connections |-> 2, register |-> 2, factor |-> 0]

AnyOrder == Permutations(Devices)
=============================================================================
