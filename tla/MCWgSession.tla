----------------------------- MODULE MCWgSession -----------------------------
EXTENDS WgSession, TLC

CONSTANTS a, b, w1, w2, w3

MCWorkers == [d \in {a, b} |-> IF d = a THEN {w1, w2} ELSE {w3}]

Symmetry == Permutations({w1, w2}) \union Permutations(Indices)
=============================================================================
