---------------------------- MODULE MCMigrations ----------------------------
(***************************************************************************)
(* Migrations with an older and a newer release, and a session more than   *)
(* replicas, so that one may start again while its abandoned session is    *)
(* still open.                                                             *)
(***************************************************************************)
EXTENDS Migrations

MCReleases == {{1}, {1, 2}}
=============================================================================
