-------------------------- MODULE BiddingProperties --------------------------
(***************************************************************************)
(* What PlaceBid and endAuctionWithResult guarantee together (the first    *)
(* part), and what the documentation says of them but the code does not    *)
(* do (the second).                                                        *)
(***************************************************************************)
EXTENDS Bidding

PCs == {"idle", "read", "highest", "txread", "update", "commit", "publish",
        "accepted", "rejected", "conflict", "failed"}

EPCs == {"idle", "highest", "update", "publish", "announced", "stopped"}

\* Types.  The price column holds only what DECIMAL(10,2) can hold: the raw
\* float of a request never reaches a row.
TypeOK ==
  /\ now \in Nat
  /\ auction \in [status : {"active", "ended"}, currentPrice : Amounts]
  /\ bids \in Seq(Bid)
  /\ \A i \in DOMAIN bids : Stored[bids[i].amount] = bids[i].amount
  /\ rowLock \in Requests \cup {NoOne}
  /\ pc \in [Requests -> PCs]
  /\ amount \in [Requests -> Amounts]
  /\ seen \in [Requests -> Amounts]
  /\ createdAt \in [Requests -> Nat]
  /\ epc \in [EndCalls -> EPCs]
  /\ snap \in [EndCalls -> Amounts]
  /\ winner \in [EndCalls -> Requests \cup {NoOne}]
  /\ final \in [EndCalls -> Amounts]
  /\ unread \in SUBSET EndCalls
  /\ known \in [EndCalls -> Nat]
  /\ published \in SUBSET Requests

\* The price the i-th committed bid was placed over, had it been the last one:
\* the amount of the bid before it, or the starting price.
PriceBefore(i) == IF i = 1 THEN StartingPrice ELSE bids[i - 1].amount

Price == PriceBefore(Len(bids) + 1)

\* While the auction is active the row and the table bids tell the same story:
\* current_price is the last committed bid, and no committed bid is above it.
\* (PlaceBid never writes one without the other, and no call that ends the
\* auction has written yet.)
PriceTracksHighest ==
  auction.status = "active" =>
    /\ auction.currentPrice = Price
    /\ \A i \in DOMAIN bids : bids[i].amount <= auction.currentPrice

\* The optimistic check does its work while the auction is active: every
\* committed bid was decided against the very price it was committed over (no
\* bid that raised the price slipped in between), and offered more than that.
BidsChain ==
  auction.status = "active" =>
    \A i \in DOMAIN bids :
      /\ seen[bids[i].req] = PriceBefore(i)
      /\ amount[bids[i].req] > PriceBefore(i)

\* A bid_placed event is published only for a bid that is in the table, and
\* that is there once, whatever failed, was rolled back or lost its answer.
PublishedBidsAreCommitted ==
  \A r \in published :
    \E i \in DOMAIN bids :
      /\ bids[i].req = r
      /\ \A j \in DOMAIN bids : bids[j].req = r => j = i

\* a bid above the price that r was decided against has been committed
Overtaken(r) == \E i \in DOMAIN bids : bids[i].amount > seen[r]

\* the ender has written its row
HasWritten(e) == epc[e] \in {"publish", "announced"}

\* Also after the auction has ended, a bid overwrites no price but the one it was
\* decided against, and never lowers it.  That is not to say that nobody overtook
\* it: a bid below one of the table is written, for an ender that wrote an older
\* price back over the higher bid makes the check match again.  The property
\* says that this is the only way.
BidsOverwriteWhatTheyRead ==
  [][bids' # bids =>
       /\ auction.currentPrice <= auction'.currentPrice
       /\ \E r \in Requests :
            /\ bids' = Append(bids, [req |-> r, amount |-> auction'.currentPrice])
            /\ auction.currentPrice = seen[r] /\ amount[r] > seen[r]
            /\ Overtaken(r) => \E e \in EndCalls : HasWritten(e) /\ snap[e] <= seen[r]]_vars

\* While the auction is active, a bid refused as a conflict lost to a rival:
\* another request committed a bid over the price this one was decided
\* against, and raised it.  The check never refuses a bid that had no rival.
ConflictImpliesRival ==
  auction.status = "active" =>
    \A r \in Requests : pc[r] = "conflict" =>
      \E i \in DOMAIN bids :
        /\ bids[i].req # r
        /\ PriceBefore(i) = seen[r]
        /\ bids[i].amount > seen[r]

\* The winner an ender announces is a committed bid at its own amount, and none
\* that was in the table when the ender read the row is above it, however many
\* bids and other enders run at the same time.  Bids that commit after the
\* ender's queries, up to its UPDATE (and the late ones after it), are accepted
\* and may be higher: the code does not look at them and neither does this.
AnnouncedWinnerSound ==
  \A e \in EndCalls :
    epc[e] = "announced" /\ winner[e] # NoOne =>
      /\ \E i \in DOMAIN bids : bids[i].req = winner[e] /\ bids[i].amount = final[e]
      /\ \A i \in DOMAIN bids : i <= known[e] => bids[i].amount <= final[e]

\* An ender announces that nobody won only if there was no bid when it read the
\* row, or if GetHighestBid failed, which the code logs and forgets.  A bid that
\* was there then does not lose the auction to nobody, whatever runs at the same
\* time; a first bid that commits between the ender's GetHighestBid and its
\* UPDATE is accepted on an active auction and does.
WinnerlessHasCause ==
  \A e \in EndCalls :
    epc[e] = "announced" /\ winner[e] = NoOne => e \in unread \/ known[e] = 0

-----------------------------------------------------------------------------
(* The abstract auction: a request is in flight once its transaction found *)
(* the auction active.                                                     *)

inFlight ==
  IF auction.status = "active" THEN {}
  ELSE {r \in Requests : pc[r] \in {"update", "commit"}}

Abstract == INSTANCE AscendingAuction
              WITH open <- auction.status = "active", accepted <- bids

\* Bids and enders together implement AscendingAuction: no bid joins an
\* auction after its row said "ended", whatever the interleaving.
AbstractSpec == Abstract!Spec

\* Every call that was made ends: no request and no ender waits for the row
\* for ever, also when other calls fail in the middle of a transaction.
AllSettle ==
  /\ \A r \in Requests :
       pc[r] = "read" ~> pc[r] \in {"accepted", "rejected", "conflict", "failed"}
  /\ \A e \in EndCalls :
       epc[e] = "highest" ~> epc[e] \in {"announced", "stopped"}

-----------------------------------------------------------------------------
(* Statements of the documentation that the code does not keep.            *)

\* README: "Bids are only accepted during auction active periods".
BidsOnlyWhileActive ==
  [][bids' # bids => auction.status = "active"]_vars

\* README: "Bids must exceed the current highest bid amount", for the bids
\* accepted while the auction is active.
BidsExceedHighest ==
  auction.status = "active" =>
    \A i, j \in DOMAIN bids : i < j => bids[i].amount < bids[j].amount

\* README, on concurrent updates: "ensures we don't overwrite a more recent
\* bid"; the price of the row never goes back below a bid it already showed.
PriceNeverFalls ==
  [][auction'.currentPrice >= auction.currentPrice]_vars
=============================================================================
