----------------------------- MODULE MCWgOutbound -----------------------------
(* WgOutbound for TLC: callers and packets are interchangeable. *)
EXTENDS WgOutbound, TLC

Symmetry == Permutations(Callers) \union Permutations(Packets)
=============================================================================
