---------------------------- MODULE MCTokenService ----------------------------
EXTENDS TokenService, TLC

Symmetric == Permutations(Pods) \cup Permutations(Users)
===============================================================================
