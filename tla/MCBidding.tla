------------------------------ MODULE MCBidding ------------------------------
EXTENDS BiddingProperties, TLC

\* In units of half a cent, with a column that keeps whole cents: 4 and 6 are
\* stored as they are and 3 is rounded down to 2.
MCStored == (2 :> 2) @@ (3 :> 2) @@ (4 :> 4) @@ (6 :> 6)

MCAmounts == DOMAIN MCStored

\* the same column, with one bid of each kind: refused, rounded, exact
MCFewStored == (2 :> 2) @@ (3 :> 2) @@ (4 :> 4)

MCFewAmounts == DOMAIN MCFewStored

Symmetric == Permutations(Requests) \cup Permutations(EndCalls)
=============================================================================
