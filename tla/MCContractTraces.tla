------------------------- MODULE MCContractTraces -------------------------
EXTENDS ContractTraces, TLC

CONSTANTS r1, r2, u1, u2, t1, t2, k1, v1

Symmetric == Permutations({r1, r2}) \cup Permutations({u1, u2}) \cup Permutations({t1, t2})
=============================================================================
