------------------------------ MODULE MCServer ------------------------------
(***************************************************************************)
(* The process with three connections: one in a statement, one that stalls *)
(* and one that arrives late.                                              *)
(***************************************************************************)
EXTENDS Server
=============================================================================
