--------------------------- MODULE MCOneTimeCode ---------------------------
(* Small instances of OneTimeCode for TLC.                                 *)
EXTENDS OneTimeCode, TLC

CONSTANTS c1, c2, c3, t1, t2, n1, n2

AnyOrder == Permutations(Calls) \cup Permutations(Tokens) \cup Permutations(Codes)
============================================================================
