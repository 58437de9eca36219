----------------------------- MODULE MCLifecycle -----------------------------
EXTENDS LifecycleProperties, TLC

\* With two ticks in a second, 2 and 3 have the same score.
MCTimes == 2 .. 3

\* with one tick in a second: a single score
MCSeconds == {1}

Symmetric == Permutations(Auctions) \cup Permutations(Items) \cup Permutations(Instances)
=============================================================================
