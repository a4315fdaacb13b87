------------------------------ MODULE MCQueries ------------------------------
\* Small instances of Queries for TLC.
EXTENDS Queries, TLC

CONSTANTS c1, c2, cl1

MCContracts == {c1, c2}
MCClients == {cl1}
MCCapAmounts == {0, 2}
MCAmounts == {1, 2}
Symmetry == Permutations(MCContracts)
=============================================================================
