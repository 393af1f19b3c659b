----------------------------- MODULE MCAccounts -----------------------------
EXTENDS Accounts, TLC
Symmetry == Permutations(Pool) \cup Permutations(SignIns)
=============================================================================
