-------------------------- MODULE MCSubscriptions --------------------------
EXTENDS SubscriptionsInvariant, TLC

Symmetry == Permutations(User) \cup Permutations(SubId) \cup Permutations(ExtSub)
            \cup Permutations(PayId) \cup Permutations(Task)
=============================================================================
