-------------------------- MODULE MCReadingAccess --------------------------
EXTENDS ReadingAccessInvariant, TLC

Symmetry == Permutations(User) \cup Permutations(Token) \cup Permutations(Task)
=============================================================================
