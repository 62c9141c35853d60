----------------------------- MODULE MCSessions -----------------------------
EXTENDS Sessions, TLC

Symmetric == Permutations(Sid) \union Permutations(Op)
=============================================================================
