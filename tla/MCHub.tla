------------------------------- MODULE MCHub -------------------------------
(***************************************************************************)
(* Hub with two tabs, enough for one to be slow while the other comes and  *)
(* goes.                                                                   *)
(***************************************************************************)
EXTENDS Hub
=============================================================================
