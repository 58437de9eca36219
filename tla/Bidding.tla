------------------------------- MODULE Bidding -------------------------------
(***************************************************************************)
(* One auction row, the calls of BidService.PlaceBid that bid on it and    *)
(* the calls of AuctionService.endAuctionWithResult that end it.  Every    *)
(* step is one statement sent to PostgreSQL (READ COMMITTED, so each       *)
(* statement sees the rows committed when it starts) with the local checks *)
(* that follow it, or one publication.                                     *)
(*                                                                         *)
(* A request is one call: a client that tries again is another request.   *)
(* What the database, the network or a crash can do to a call between two  *)
(* steps is the action Fail: an open transaction is rolled back.           *)
(***************************************************************************)
EXTENDS Integers, Sequences

CONSTANTS Requests,       \* calls of PlaceBid
          EndCalls,       \* calls of endAuctionWithResult
          Amounts,        \* amounts a client may send (float64)
          Stored,         \* what DECIMAL(10,2) keeps of an amount
          StartingPrice,  \* starting_price of the row
          StartTime,      \* start_time of the row
          MaxNow,         \* bound on the clock
          NoOne           \* no request

ASSUME AmountsAssumption == Amounts \subseteq Int

\* Rounding to the column's scale lands in the column, keeps the order of two
\* amounts and leaves a stored price alone.
ASSUME StoredAssumption ==
  /\ Stored \in [Amounts -> Amounts]
  /\ \A a, b \in Amounts : a <= b => Stored[a] <= Stored[b]
  /\ \A a \in Amounts : Stored[Stored[a]] = Stored[a]

ASSUME StartingPriceAssumption ==
  /\ StartingPrice \in Amounts
  /\ Stored[StartingPrice] = StartingPrice
  /\ StartingPrice > 0

ASSUME ClockAssumption == StartTime \in Nat /\ MaxNow \in Nat

ASSUME NoOneAssumption == NoOne \notin Requests

VARIABLES
  now,        \* the clock
  auction,    \* the row: status and current_price
  bids,       \* committed rows of table bids, in commit order
  rowLock,    \* the request whose transaction holds the auction's row
  pc,         \* where each request is
  amount,     \* req.Amount
  seen,       \* auction.CurrentPrice as PlaceBid read it
  createdAt,  \* newBid.CreatedAt
  epc,        \* where each ender is
  snap,       \* auction.CurrentPrice as the ender read it
  winner,     \* the winning request the ender put in its result
  final,      \* the FinalPrice the ender put in its result
  unread,     \* history: enders whose GetHighestBid failed
  known,      \* history: how many bids there were when the ender read the row
  published   \* requests whose bid_placed event was published

reqVars == <<pc, amount, seen, createdAt, published>>
endVars == <<epc, snap, winner, final, unread, known>>
dbVars  == <<auction, bids, rowLock>>
vars    == <<now, reqVars, endVars, dbVars>>

-----------------------------------------------------------------------------
(* The database as the calls see it.                                       *)

\* a row of bids; its created_at is the createdAt of its request
Bid == [req : Requests, amount : Amounts]

BidRows == {bids[i] : i \in DOMAIN bids}

\* mutant: ORDER BY amount ASC
SortsBeforeAscending(b, c) == b.amount < c.amount

\* ORDER BY amount DESC, created_at ASC; LIMIT 1 then takes one of TopBids
SortsBefore(b, c) ==
  \/ b.amount > c.amount
  \/ b.amount = c.amount /\ createdAt[b.req] < createdAt[c.req]

TopBids == {b \in BidRows : \A c \in BidRows : ~ SortsBefore(c, b)}

\* mutants: no price in the WHERE clause; a row that is merely cheaper than the
\* offer; a row that nobody has locked (NOWAIT)
RowMatchesById(r) == TRUE
RowIsCheaper(r) == auction.currentPrice < Stored[amount[r]]
RowMatchesNoWait(r) == auction.currentPrice = seen[r] /\ rowLock = NoOne

\* the WHERE clause of the price update, on the committed row
RowMatches(r) == auction.currentPrice = seen[r]

\* the row is locked until the transaction that updated it ends
RowFree == rowLock = NoOne

-----------------------------------------------------------------------------
Init ==
  /\ now = 0
  /\ auction = [status |-> "active", currentPrice |-> StartingPrice]
  /\ bids = <<>>
  /\ rowLock = NoOne
  /\ pc = [r \in Requests |-> "idle"]
  /\ amount = [r \in Requests |-> StartingPrice]
  /\ seen = [r \in Requests |-> StartingPrice]
  /\ createdAt = [r \in Requests |-> 0]
  /\ epc = [e \in EndCalls |-> "idle"]
  /\ snap = [e \in EndCalls |-> StartingPrice]
  /\ winner = [e \in EndCalls |-> NoOne]
  /\ final = [e \in EndCalls |-> StartingPrice]
  /\ unread = {}
  /\ known = [e \in EndCalls |-> 0]
  /\ published = {}

Goto(r, label) == pc' = [pc EXCEPT ![r] = label]

-----------------------------------------------------------------------------
(* PlaceBid                                                                *)

\* A client sends a bid; the broadcaster says whether it is subscribed.
Submit(r, a) ==
  /\ pc[r] = "idle"
  /\ amount' = [amount EXCEPT ![r] = a]
  /\ \E subscribed \in BOOLEAN : Goto(r, IF subscribed THEN "read" ELSE "rejected")
  /\ UNCHANGED <<now, seen, createdAt, published, endVars, dbVars>>

CanBid == auction.status = "active"

AuctionStarted == StartTime < now

\* auctionRepo.GetByID and the checks on the row it returns
ReadAuction(r) ==
  /\ pc[r] = "read"
  /\ seen' = [seen EXCEPT ![r] = auction.currentPrice]
  /\ Goto(r, IF CanBid /\ AuctionStarted THEN "highest" ELSE "rejected")
  /\ UNCHANGED <<now, amount, createdAt, published, endVars, dbVars>>

\* above zero, and above the highest bid or, without one, above the start
Outbids(a) ==
  /\ a > 0
  /\ \A b \in TopBids : a > b.amount
  /\ TopBids = {} => a > StartingPrice

\* bidRepo.GetHighestBid, the checks against it, and the new bid object
ReadHighest(r) ==
  /\ pc[r] = "highest"
  /\ \/ /\ Outbids(amount[r])
        /\ createdAt' = [createdAt EXCEPT ![r] = now]
        /\ Goto(r, "txread")
     \/ /\ ~ Outbids(amount[r])
        /\ UNCHANGED createdAt
        /\ Goto(r, "rejected")
  /\ UNCHANGED <<now, amount, seen, published, endVars, dbVars>>

\* mutant: the status is not tested again in the transaction
StillActiveUnchecked == TRUE

\* the transaction's SELECT found the auction open
StillActive == auction.status = "active"

\* PlaceBidWithOCC: BEGIN, SELECT current_price, status and its three checks
TxRead(r) ==
  /\ pc[r] = "txread"
  /\ \/ ~ StillActive /\ Goto(r, "rejected")
     \/ StillActive /\ auction.currentPrice # seen[r] /\ Goto(r, "conflict")
     \/ /\ StillActive /\ auction.currentPrice = seen[r]
        /\ Goto(r, IF amount[r] <= auction.currentPrice THEN "rejected" ELSE "update")
  /\ UNCHANGED <<now, amount, seen, createdAt, published, endVars, dbVars>>

\* INSERT INTO bids, then UPDATE auctions ... WHERE current_price = expected.
\* A row locked by another transaction is waited for, and its new version is
\* tested again; the status is not tested.  A row that does not match rolls
\* the insert back.
TxUpdate(r) ==
  /\ pc[r] = "update"
  /\ \/ /\ RowMatches(r) /\ RowFree
        /\ rowLock' = r
        /\ Goto(r, "commit")
     \/ /\ ~ RowMatches(r)
        /\ UNCHANGED rowLock
        /\ Goto(r, "conflict")
  /\ UNCHANGED <<now, auction, bids, amount, seen, createdAt, published, endVars>>

\* mutant: a column without a scale
CommitRawRows(r) ==
  /\ bids' = Append(bids, [req |-> r, amount |-> amount[r]])
  /\ auction' = [auction EXCEPT !.currentPrice = amount[r]]

\* what COMMIT makes visible
CommitRows(r) ==
  /\ bids' = Append(bids, [req |-> r, amount |-> Stored[amount[r]]])
  /\ auction' = [auction EXCEPT !.currentPrice = Stored[amount[r]]]

\* mutant: the transaction is left open
UnlockNever == UNCHANGED rowLock

Unlock == rowLock' = NoOne

\* COMMIT.  When its answer is lost the caller is told the bid failed.
Commit(r) ==
  /\ pc[r] = "commit"
  /\ CommitRows(r)
  /\ Unlock
  /\ \E answered \in BOOLEAN : Goto(r, IF answered THEN "publish" ELSE "failed")
  /\ UNCHANGED <<now, amount, seen, createdAt, published, endVars>>

\* broadcaster.Publish of bid_placed; a failure is logged and the bid stands.
Publish(r) ==
  /\ pc[r] = "publish"
  /\ \E delivered \in BOOLEAN :
       published' = IF delivered THEN published \cup {r} ELSE published
  /\ Goto(r, "accepted")
  /\ UNCHANGED <<now, amount, seen, createdAt, endVars, dbVars>>

\* mutant: PlaceBid logs the error of placeBidWithOCC and goes on
FailUnnoticed(r) ==
  /\ pc[r] \in {"update", "commit"}
  /\ rowLock' = IF rowLock = r THEN NoOne ELSE rowLock
  /\ Goto(r, "publish")
  /\ UNCHANGED <<now, auction, bids, amount, seen, createdAt, published, endVars>>

\* A statement fails, the user is unknown, or the process dies: whatever the
\* transaction did is rolled back.
Fail(r) ==
  /\ pc[r] \in {"read", "highest", "txread", "update", "commit"}
  /\ rowLock' = IF rowLock = r THEN NoOne ELSE rowLock
  /\ Goto(r, "failed")
  /\ UNCHANGED <<now, auction, bids, amount, seen, createdAt, published, endVars>>

-----------------------------------------------------------------------------
(* endAuctionWithResult and the announcement its caller makes              *)

EGoto(e, label) == epc' = [epc EXCEPT ![e] = label]

IsEnded == auction.status = "ended"

\* auctionRepo.GetByID: the whole row is kept, to be written back later.
EndRead(e) ==
  /\ epc[e] = "idle"
  /\ snap' = [snap EXCEPT ![e] = auction.currentPrice]
  /\ known' = [known EXCEPT ![e] = Len(bids)]
  /\ EGoto(e, IF IsEnded THEN "stopped" ELSE "highest")
  /\ UNCHANGED <<now, winner, final, unread, reqVars, dbVars>>

\* mutant: only a bid above the price read first makes a winner
TakeHighestAbove(e) ==
  \/ \E b \in TopBids : /\ b.amount > snap[e]
                       /\ winner' = [winner EXCEPT ![e] = b.req]
                       /\ final' = [final EXCEPT ![e] = b.amount]
  \/ /\ \A b \in TopBids : b.amount <= snap[e]
     /\ UNCHANGED <<winner, final>>

\* The highest bid, if there is one, is the winner and its amount the final
\* price.
TakeHighest(e) ==
  \/ \E b \in TopBids : /\ winner' = [winner EXCEPT ![e] = b.req]
                       /\ final' = [final EXCEPT ![e] = b.amount]
  \/ TopBids = {} /\ UNCHANGED <<winner, final>>

\* bidRepo.GetHighestBid; its error is only logged, and the auction ends
\* without a winner.
EndHighest(e) ==
  /\ epc[e] = "highest"
  /\ \/ TakeHighest(e) /\ UNCHANGED unread
     \/ unread' = unread \cup {e} /\ UNCHANGED <<winner, final>>
  /\ EGoto(e, "update")
  /\ UNCHANGED <<now, snap, known, reqVars, dbVars>>

\* auctionRepo.Update: every column, the price read earlier included.
EndUpdate(e) ==
  /\ epc[e] = "update"
  /\ RowFree
  /\ auction' = [status |-> "ended", currentPrice |-> snap[e]]
  /\ EGoto(e, "publish")
  /\ UNCHANGED <<now, bids, rowLock, snap, winner, final, unread, known, reqVars>>

\* The scheduler publishes auction_ended with the result, and is done whether or
\* not that fails: a failure is only logged.
EndPublish(e) ==
  /\ epc[e] = "publish"
  /\ EGoto(e, "announced")
  /\ UNCHANGED <<now, snap, winner, final, unread, known, reqVars, dbVars>>

\* a statement of the ender fails, or its process dies
EndFail(e) ==
  /\ epc[e] \in {"highest", "update"}
  /\ EGoto(e, "stopped")
  /\ UNCHANGED <<now, snap, winner, final, unread, known, reqVars, dbVars>>

-----------------------------------------------------------------------------
Tick ==
  /\ now < MaxNow
  /\ now' = now + 1
  /\ UNCHANGED <<reqVars, endVars, dbVars>>

PlaceBidStep(r) ==
  \/ ReadAuction(r) \/ ReadHighest(r) \/ TxRead(r) \/ TxUpdate(r)
  \/ Commit(r) \/ Publish(r)

EndStep(e) == EndHighest(e) \/ EndUpdate(e) \/ EndPublish(e)

Next ==
  \/ Tick
  \/ \E r \in Requests :
       PlaceBidStep(r) \/ Fail(r) \/ \E a \in Amounts : Submit(r, a)
  \/ \E e \in EndCalls : EndRead(e) \/ EndStep(e) \/ EndFail(e)

Spec == Init /\ [][Next]_vars

\* A call that was made is run by its goroutine and its connection to the end:
\* every blocked UPDATE is waiting for a transaction that itself goes on.
\* Nothing makes a client send a bid, the scheduler end the auction, or a call
\* that waits fail.
Fairness ==
  /\ \A r \in Requests : WF_vars(PlaceBidStep(r))
  /\ \A e \in EndCalls : WF_vars(EndStep(e))

FairSpec == Spec /\ Fairness
=============================================================================
