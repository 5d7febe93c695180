--------------------------- MODULE MCEnvInheritance ---------------------------
EXTENDS EnvInheritance, TLC

Symmetric == Permutations(Projects)
===============================================================================
