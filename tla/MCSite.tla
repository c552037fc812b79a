------------------------------- MODULE MCSite -------------------------------
(***************************************************************************)
(* Two tabs, so that one logs in or out under the other; one session may   *)
(* be opened, so that a tab that has lost it finds out; the database fails *)
(* and the process restarts any number of times.                           *)
(***************************************************************************)
EXTENDS Site
=============================================================================
