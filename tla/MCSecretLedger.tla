---------------------------- MODULE MCSecretLedger ----------------------------
EXTENDS SecretLedger, TLC

ClientSymmetry == Permutations(Clients)
===============================================================================
