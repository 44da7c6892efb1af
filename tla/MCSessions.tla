------------------------------ MODULE MCSessions ------------------------------
(* Small instances of Sessions for TLC.                                    *)
EXTENDS Sessions, TLC

CONSTANTS c1, c2, c3, c4

AnyOrder == Permutations(Calls)
===============================================================================
