---------------------------- MODULE MCConfigLedger ----------------------------
EXTENDS ConfigLedger, TLC

Symmetric == Permutations(Puts) \cup Permutations(Types) \cup Permutations(Codes)
               \cup Permutations(Admins)
===============================================================================
