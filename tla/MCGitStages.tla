----------------------------- MODULE MCGitStages -----------------------------
(***************************************************************************)
(* Values for the constants of GitStages: the check and the test of one    *)
(* repository, and the check of another one of the same name.              *)
(***************************************************************************)
EXTENDS GitStages

CONSTANTS check, test, other, ann, bob, lib

MCCmds == {check, test, other}
MCRepoOf == [c \in MCCmds |-> IF c = other THEN bob ELSE ann]
MCForkOf == [c \in MCCmds |-> lib]
MCKindOf == [c \in MCCmds |-> IF c = test THEN "test" ELSE "check"]
=============================================================================
