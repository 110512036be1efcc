----------------------------- MODULE MCDnsClient -----------------------------
EXTENDS DnsClient, TLC

Symmetry == Permutations(Calls)
=============================================================================
