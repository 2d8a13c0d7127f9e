---------------------------- MODULE MCNetInterest ----------------------------
(***************************************************************************)
(* Instances of NetInterest for TLC.  ids 0 .. Capacity-1 have entries; -1 *)
(* and Capacity do not.                                                    *)
(***************************************************************************)
EXTENDS NetInterest, TLC

OneTable == {<<"outgoing", "fast">>}
TwoTables == {<<"outgoing", "fast">>, <<"user", "serialized">>}
RouteTables == {<<"incoming", "fast">>, <<"outgoing", "fast">>, <<"user", "serialized">>}

IdsAndOutside == -1 .. Capacity
IdsOnly == 0 .. Capacity - 1

Symmetry == Permutations(Controllers)
=============================================================================
