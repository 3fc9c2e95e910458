--------------------------- MODULE MCCommandService ---------------------------
(***************************************************************************)
(* Values for the constants of CommandService.  KeyOf says which ids are   *)
(* of the same repository and command, so that only one of them may have   *)
(* a row at a time.                                                        *)
(***************************************************************************)
EXTENDS CommandRefinement, TLC

MCSameKey == [id \in Cmds |-> 1]

MCAllOps == AllOps
\* without lock, unlock and a plain update, which save a stale status back
MCRunOps == {"createAndRun", "updateAndRun", "restart", "resume", "stop"}

MCStageFaults == {"BatchAIExecuted"}
MCSomeFaults == {"SyncRepo", "BatchAIExecuted", "ChangesPushed", "prepare", "render", "remove"}

HandlerSymmetry == Permutations(Handlers)
===============================================================================
