--------------------------- MODULE MCTestCommand ---------------------------
(***************************************************************************)
(* Values for the constants of TestCommand.                                *)
(***************************************************************************)
EXTENDS TestCommand, TLC

CONSTANTS p1, p2, c1, c2, t1

MCPaths == {p1, p2}

Invocation(targets, force, symbols, concurrent) ==
  [targets |-> targets, force |-> force, symbols |-> symbols, concurrent |-> concurrent]

\* one file with the symbols of both, and both files without
MCInvocations == {Invocation(<<p1>>, FALSE, TRUE, FALSE), Invocation(<<p1, p2>>, FALSE, FALSE, TRUE)}

\* two files that differ
MCRepositories == {r \in [MCPaths -> {c1, c2}] : r[p1] # r[p2]}
MCEdited == {p1}

\* of "read" and "report" there is more in CheckCommand
MCFaults == {"chat", "write"}

MCCode == {c1, c2}
MCTests == {t1}
MCTexts == MCCode \cup MCTests
\* nothing tells two codes apart
MCSymmetry == Permutations(MCCode)
=============================================================================
