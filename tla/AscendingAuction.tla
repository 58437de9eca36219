-------------------------- MODULE AscendingAuction --------------------------
(***************************************************************************)
(* What the service promises about one auction, with the database, the     *)
(* transactions and the callers abstracted away: while the auction is open *)
(* every accepted bid offers more than the standing price; once it is      *)
(* closed only the bids that were already in flight at that moment may     *)
(* still be accepted, each at most once, and nobody can join them.         *)
(***************************************************************************)
EXTENDS Integers, Sequences

CONSTANTS Requests,       \* the calls of PlaceBid
          Amounts,        \* what a caller may offer
          Stored,         \* what the price column keeps of an offer
          StartingPrice

VARIABLES open,           \* bids are invited
          accepted,       \* the accepted bids, in the order of acceptance
          inFlight        \* once closed: the bids that may still be accepted

vars == <<open, accepted, inFlight>>

Standing == IF accepted = <<>> THEN StartingPrice ELSE accepted[Len(accepted)].amount

HasBid(r) == \E i \in DOMAIN accepted : accepted[i].req = r

Init ==
  /\ open = TRUE
  /\ accepted = <<>>
  /\ inFlight = {}

Accept(r, a) ==
  /\ open
  /\ a > Standing
  /\ ~ HasBid(r)
  /\ accepted' = Append(accepted, [req |-> r, amount |-> Stored[a]])
  /\ UNCHANGED <<open, inFlight>>

Close ==
  /\ open
  /\ open' = FALSE
  /\ inFlight' \in SUBSET {r \in Requests : ~ HasBid(r)}
  /\ UNCHANGED accepted

AcceptLate(r, a) ==
  /\ ~ open
  /\ r \in inFlight
  /\ inFlight' = inFlight \ {r}
  /\ accepted' = Append(accepted, [req |-> r, amount |-> Stored[a]])
  /\ UNCHANGED open

Withdraw(r) ==
  /\ ~ open
  /\ r \in inFlight
  /\ inFlight' = inFlight \ {r}
  /\ UNCHANGED <<open, accepted>>

Next ==
  \/ Close
  \/ \E r \in Requests :
       \/ Withdraw(r)
       \/ \E a \in Amounts : Accept(r, a) \/ AcceptLate(r, a)

Spec == Init /\ [][Next]_vars
=============================================================================
