---------------------------- MODULE MCSqliteAccess ----------------------------
(* Constants of the SqliteAccess models.                                    *)
EXTENDS SqliteAccess, TLC

CONSTANTS t1, t2, p1

MCThreads == {t1, t2}
MCPeers == {p1}
MCOwing == {1}
Symmetry == Permutations(MCThreads)

=============================================================================
