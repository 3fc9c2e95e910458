------------------------------ MODULE MCUsers ------------------------------
(***************************************************************************)
(* Values for the constants of Users: two accounts whose emails begin with *)
(* the same name, one of them the administrator's, which is also the name  *)
(* of an owner.                                                            *)
(***************************************************************************)
EXTENDS Users, TLC

MCEmails == {"joe@x", "joe@y"}
MCNames == {"joe", "root"}
MCNameOf == [e \in MCEmails |-> "joe"]
MCSymmetry == Permutations(Handlers)
=============================================================================
