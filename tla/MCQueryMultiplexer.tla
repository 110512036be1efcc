------------------------- MODULE MCQueryMultiplexer -------------------------
EXTENDS QueryMultiplexer, TLC

Symmetry == Permutations(Queries)
=============================================================================
