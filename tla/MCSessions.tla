----------------------------- MODULE MCSessions -----------------------------
(***************************************************************************)
(* Sessions with a cache of one entry, a database clock that may run ahead *)
(* or behind, and interchangeable requests and tokens.                     *)
(***************************************************************************)
EXTENDS Sessions, TLC

MCSkews == {-1, 0, 1}
MCNoSkew == {0}

Interchangeable == Permutations(Request) \cup Permutations(Token)
=============================================================================
