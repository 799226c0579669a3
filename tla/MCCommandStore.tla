----------------------------- MODULE MCCommandStore -----------------------------
EXTENDS CommandStore, TLC
Symmetry == Permutations(Requests) \cup Permutations(Keys) \cup Permutations(Identities)
================================================================================
