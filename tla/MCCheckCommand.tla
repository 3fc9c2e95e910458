--------------------------- MODULE MCCheckCommand ---------------------------
(***************************************************************************)
(* Values for the constants of CheckCommand.                               *)
(***************************************************************************)
EXTENDS CheckCommand, TLC

CONSTANTS f1, f2

MCFiles == {f1, f2}
MCOneFile == {f1}

\* two files, and one listed twice: itself and its directory
MCLists == {<<f1, f2>>, <<f1, f1>>}
MCAgainLists == {<<f1>>, <<f1, f1>>}

MCAllFaults == {"read", "chat", "write", "report"}
MCChatFaults == {"chat"}
=============================================================================
