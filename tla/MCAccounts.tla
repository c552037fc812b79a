----------------------------- MODULE MCAccounts -----------------------------
(***************************************************************************)
(* Accounts with two spellings of one address, the second being normal,    *)
(* and the forms that can interfere: registrations under both spellings,   *)
(* one of them with the dummy password and one that is not acceptable, and *)
(* a login.                                                                *)
(***************************************************************************)
EXTENDS Accounts

MCNormal(e) == "ana"

MCLower(e) == "ana"

MCAcceptable == {f \in Form : f.password # "short"}

MCSent ==
    {[kind |-> "register", email |-> "Ana", password |-> "dummy"],
     [kind |-> "register", email |-> "ana", password |-> "short"],
     [kind |-> "register", email |-> "ana", password |-> "other"],
     [kind |-> "login",    email |-> "Ana", password |-> "dummy"]}
=============================================================================
