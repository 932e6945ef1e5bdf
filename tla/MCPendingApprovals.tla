------------------------- MODULE MCPendingApprovals -------------------------
\* PendingApprovals with one process of the user and one live cycle; the ids
\* are interchangeable.
EXTENDS PendingApprovals, TLC

Symmetry == Permutations(Ids)
=============================================================================
