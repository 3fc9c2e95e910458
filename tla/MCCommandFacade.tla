---------------------------- MODULE MCCommandFacade ----------------------------
(***************************************************************************)
(* Values for the constants of CommandFacade.                              *)
(***************************************************************************)
EXTENDS CommandFacade, TLC

MCSameKey == [id \in Cmds |-> 1]
MCOwnKeys == [id \in Cmds |-> id]

MCFacadeOps == {"createAndRun", "unlock"}

MCRenderFaults == {"render"}

HandlerSymmetry == Permutations(Handlers)

===============================================================================
