--------------------------- MODULE Bidding_proofs ---------------------------
(***************************************************************************)
(* Theorems about Bidding, for every set of requests, enders and amounts.  *)
(* The inductive invariant is built up in layers, each proved with the     *)
(* ones below it: types, the row lock, the rows of bids, the price.        *)
(***************************************************************************)
EXTENDS BiddingProperties, TLAPS

ConstantsOK ==
  /\ Amounts \subseteq Int
  /\ Stored \in [Amounts -> Amounts]
  /\ \A a, b \in Amounts : a <= b => Stored[a] <= Stored[b]
  /\ \A a \in Amounts : Stored[Stored[a]] = Stored[a]
  /\ StartingPrice \in Amounts
  /\ Stored[StartingPrice] = StartingPrice
  /\ NoOne \notin Requests
  /\ MaxNow \in Nat

\* The assumptions of Bidding in one place.
LEMMA Constants == ConstantsOK
BY AmountsAssumption, StoredAssumption, StartingPriceAssumption,
   ClockAssumption, NoOneAssumption DEF ConstantsOK

-----------------------------------------------------------------------------
(* Types                                                                   *)

LEMMA TypeInit == Init => TypeOK
BY Constants DEF ConstantsOK, Init, TypeOK, PCs, EPCs

\* Every row of bids is a bid, and so is the one GetHighestBid picks.
LEMMA RowsTyped ==
  TypeOK => /\ \A i \in DOMAIN bids : bids[i] \in Bid
            /\ BidRows \subseteq Bid
            /\ \A b \in TopBids : b.req \in Requests /\ b.amount \in Amounts
<1> SUFFICES ASSUME TypeOK PROVE /\ \A i \in DOMAIN bids : bids[i] \in Bid
                                 /\ BidRows \subseteq Bid
                                 /\ TopBids \subseteq Bid
  BY DEF Bid
<1>1. \A i \in DOMAIN bids : bids[i] \in Bid
  BY DEF TypeOK
<1>2. BidRows \subseteq Bid
  BY <1>1 DEF BidRows
<1> QED
  BY <1>1, <1>2 DEF TopBids

LEMMA TypeStep == TypeOK /\ [Next]_vars => TypeOK'
<1> SUFFICES ASSUME TypeOK, [Next]_vars PROVE TypeOK'
  OBVIOUS
<1> USE Constants DEF ConstantsOK, TypeOK, PCs, EPCs, reqVars, endVars, dbVars
<1>1. CASE Tick
  BY <1>1 DEF Tick
<1>2. ASSUME NEW r \in Requests, NEW a \in Amounts, Submit(r, a) PROVE TypeOK'
  BY <1>2 DEF Submit, Goto
<1>3. ASSUME NEW r \in Requests, ReadAuction(r) PROVE TypeOK'
  BY <1>3 DEF ReadAuction, CanBid, AuctionStarted, Goto
<1>4. ASSUME NEW r \in Requests, ReadHighest(r) PROVE TypeOK'
  <2>1. createdAt' \in [Requests -> Nat]
    BY <1>4 DEF ReadHighest
  <2>2. pc' \in [Requests -> PCs]
    BY <1>4 DEF ReadHighest, Goto
  <2> QED
    BY <1>4, <2>1, <2>2 DEF ReadHighest
<1>5. ASSUME NEW r \in Requests, TxRead(r) PROVE TypeOK'
  BY <1>5 DEF TxRead, Goto
<1>6. ASSUME NEW r \in Requests, TxUpdate(r) PROVE TypeOK'
  BY <1>6 DEF TxUpdate, Goto
<1>7. ASSUME NEW r \in Requests, Commit(r) PROVE TypeOK'
  <2> DEFINE row == [req |-> r, amount |-> Stored[amount[r]]]
  <2>1. row \in Bid /\ Stored[row.amount] = row.amount
    BY DEF Bid
  <2>2. bids' = Append(bids, row)
    BY <1>7 DEF Commit, CommitRows
  <2>3. bids' \in Seq(Bid)
    BY <2>1, <2>2
  <2>4. \A i \in DOMAIN bids' : Stored[bids'[i].amount] = bids'[i].amount
    BY <2>1, <2>2
  <2> QED
    BY <1>7, <2>3, <2>4 DEF Commit, CommitRows, Unlock, Goto
<1>8. ASSUME NEW r \in Requests, Publish(r) PROVE TypeOK'
  BY <1>8 DEF Publish, Goto
<1>9. ASSUME NEW r \in Requests, Fail(r) PROVE TypeOK'
  BY <1>9 DEF Fail, Goto
<1>10. ASSUME NEW e \in EndCalls, EndRead(e) PROVE TypeOK'
  BY <1>10 DEF EndRead, EGoto
<1>11. ASSUME NEW e \in EndCalls, EndHighest(e) PROVE TypeOK'
  <2>1. winner' \in [EndCalls -> Requests \cup {NoOne}] /\ final' \in [EndCalls -> Amounts]
    <3>1. \A b \in TopBids : b.req \in Requests /\ b.amount \in Amounts
      BY RowsTyped
    <3>2. CASE UNCHANGED <<winner, final>>
      BY <3>2
    <3>3. CASE \E b \in TopBids : /\ winner' = [winner EXCEPT ![e] = b.req]
                                 /\ final' = [final EXCEPT ![e] = b.amount]
      BY <3>1, <3>3
    <3> QED
      BY <1>11, <3>2, <3>3 DEF EndHighest, TakeHighest
  <2>2. unread' \in SUBSET EndCalls
    BY <1>11 DEF EndHighest
  <2> QED
    BY <1>11, <2>1, <2>2 DEF EndHighest, EGoto
<1>12. ASSUME NEW e \in EndCalls, EndUpdate(e) PROVE TypeOK'
  BY <1>12 DEF EndUpdate, EGoto
<1>13. ASSUME NEW e \in EndCalls, EndPublish(e) PROVE TypeOK'
  BY <1>13 DEF EndPublish, EGoto
<1>14. ASSUME NEW e \in EndCalls, EndFail(e) PROVE TypeOK'
  BY <1>14 DEF EndFail, EGoto
<1>15. CASE UNCHANGED vars
  BY <1>15 DEF vars
<1> QED
  BY <1>1, <1>2, <1>3, <1>4, <1>5, <1>6, <1>7, <1>8, <1>9, <1>10, <1>11, <1>12,
     <1>13, <1>14, <1>15 DEF Next, PlaceBidStep, EndStep

\* Every reachable state is well typed; in particular no row ever holds an
\* amount that the price column would round.
THEOREM TypeInvariant == Spec => []TypeOK
BY TypeInit, TypeStep, PTL DEF Spec
-----------------------------------------------------------------------------
(* The row lock                                                            *)

\* A transaction that waits for its COMMIT owns the row, which still holds the
\* price it expects; and it offers more than that price.
LockInv ==
  /\ \A r \in Requests : rowLock = r <=> pc[r] = "commit"
  /\ \A r \in Requests : pc[r] = "commit" => auction.currentPrice = seen[r]
  /\ \A r \in Requests : pc[r] \in {"update", "commit"} => amount[r] > seen[r]

LEMMA LockInit == Init => LockInv
BY Constants DEF ConstantsOK, Init, LockInv

LEMMA LockStep == TypeOK /\ LockInv /\ [Next]_vars => LockInv'
<1> SUFFICES ASSUME TypeOK, LockInv, [Next]_vars PROVE LockInv'
  OBVIOUS
<1> USE Constants DEF ConstantsOK, TypeOK, LockInv, PCs, reqVars, endVars, dbVars
<1>1. CASE Tick
  BY <1>1 DEF Tick
<1>2. ASSUME NEW r \in Requests, NEW a \in Amounts, Submit(r, a) PROVE LockInv'
  BY <1>2 DEF Submit, Goto
<1>3. ASSUME NEW r \in Requests, ReadAuction(r) PROVE LockInv'
  BY <1>3 DEF ReadAuction, Goto
<1>4. ASSUME NEW r \in Requests, ReadHighest(r) PROVE LockInv'
  BY <1>4 DEF ReadHighest, Goto
<1>5. ASSUME NEW r \in Requests, TxRead(r) PROVE LockInv'
  <2>1. CASE pc'[r] = "update"
    <3>1. amount[r] > seen[r]
      <4>1. /\ auction.currentPrice = seen[r]
            /\ ~ (amount[r] <= auction.currentPrice)
        BY <1>5, <2>1 DEF TxRead, Goto
      <4>2. amount[r] \in Int /\ seen[r] \in Int
        OBVIOUS
      <4> QED
        BY <4>1, <4>2
    <3> QED
      BY <1>5, <2>1, <3>1 DEF TxRead, Goto
  <2>2. CASE pc'[r] # "update"
    <3>1. pc'[r] # "commit" /\ \A q \in Requests \ {r} : pc'[q] = pc[q]
      BY <1>5 DEF TxRead, Goto
    <3> QED
      BY <1>5, <2>2, <3>1 DEF TxRead
  <2> QED
    BY <2>1, <2>2
<1>6. ASSUME NEW r \in Requests, TxUpdate(r) PROVE LockInv'
  BY <1>6 DEF TxUpdate, Goto, RowMatches, RowFree
<1>7. ASSUME NEW r \in Requests, Commit(r) PROVE LockInv'
  BY <1>7 DEF Commit, CommitRows, Unlock, Goto
<1>8. ASSUME NEW r \in Requests, Publish(r) PROVE LockInv'
  BY <1>8 DEF Publish, Goto
<1>9. ASSUME NEW r \in Requests, Fail(r) PROVE LockInv'
  BY <1>9 DEF Fail, Goto
<1>10. ASSUME NEW e \in EndCalls, EndRead(e) PROVE LockInv'
  BY <1>10 DEF EndRead, EGoto
<1>11. ASSUME NEW e \in EndCalls, EndHighest(e) PROVE LockInv'
  BY <1>11 DEF EndHighest, EGoto
<1>12. ASSUME NEW e \in EndCalls, EndUpdate(e) PROVE LockInv'
  BY <1>12 DEF EndUpdate, EGoto, RowFree
<1>13. ASSUME NEW e \in EndCalls, EndPublish(e) PROVE LockInv'
  BY <1>13 DEF EndPublish, EGoto
<1>14. ASSUME NEW e \in EndCalls, EndFail(e) PROVE LockInv'
  BY <1>14 DEF EndFail, EGoto
<1>15. CASE UNCHANGED vars
  BY <1>15 DEF vars
<1> QED
  BY <1>1, <1>2, <1>3, <1>4, <1>5, <1>6, <1>7, <1>8,
     <1>9, <1>10, <1>11, <1>12, <1>13, <1>14, <1>15
     DEF Next, PlaceBidStep, EndStep

THEOREM LockInvariant == Spec => []LockInv
BY TypeInvariant, LockInit, LockStep, PTL DEF Spec

-----------------------------------------------------------------------------
(* The rows of bids                                                        *)

\* A request has at most one row, which outlives it; a request that is about
\* to publish, or has been accepted, has one.
RowsInv ==
  /\ \A i \in DOMAIN bids : pc[bids[i].req] \in {"publish", "accepted", "failed"}
  /\ \A i, j \in DOMAIN bids : bids[i].req = bids[j].req => i = j
  /\ \A r \in Requests : pc[r] \in {"publish", "accepted"} =>
       \E i \in DOMAIN bids : bids[i].req = r
  /\ \A r \in published : \E i \in DOMAIN bids : bids[i].req = r

LEMMA RowsInit == Init => RowsInv
BY DEF Init, RowsInv

\* Steps that write no bid and publish nothing keep RowsInv, when the requests
\* they move are neither committed before nor accepted after.
LEMMA RowsFrame ==
  ASSUME TypeOK, RowsInv, bids' = bids, published' = published,
         \A q \in Requests :
           \/ pc'[q] = pc[q]
           \/ /\ pc[q] \notin {"publish", "accepted", "failed"}
              /\ pc'[q] \notin {"publish", "accepted"}
  PROVE  RowsInv'
<1>1. \A i \in DOMAIN bids : bids[i].req \in Requests
  BY RowsTyped DEF Bid
<1> QED
  BY <1>1 DEF RowsInv

LEMMA RowsStep == TypeOK /\ RowsInv /\ [Next]_vars => RowsInv'
<1> SUFFICES ASSUME TypeOK, RowsInv, [Next]_vars PROVE RowsInv'
  OBVIOUS
<1>0. \A i \in DOMAIN bids : bids[i].req \in Requests
  BY RowsTyped DEF Bid
<1> USE <1>0 DEF RowsInv, TypeOK, PCs, reqVars, endVars, dbVars
<1>1. CASE Tick
  BY <1>1 DEF Tick
<1>2. ASSUME NEW r \in Requests, NEW a \in Amounts, Submit(r, a) PROVE RowsInv'
  BY <1>2 DEF Submit, Goto
<1>3. ASSUME NEW r \in Requests, ReadAuction(r) PROVE RowsInv'
  BY <1>3 DEF ReadAuction, Goto
<1>4. ASSUME NEW r \in Requests, ReadHighest(r) PROVE RowsInv'
  <2>1. \A q \in Requests : pc'[q] = pc[q] \/
          (q = r /\ pc[q] \in {"highest", "txread", "update"}
                 /\ pc'[q] \notin {"publish", "accepted"})
    BY <1>4 DEF ReadHighest, Goto
  <2> QED
    BY <1>4, <2>1, RowsFrame DEF ReadHighest
<1>5. ASSUME NEW r \in Requests, TxRead(r) PROVE RowsInv'
  <2>1. \A q \in Requests : pc'[q] = pc[q] \/
          (q = r /\ pc[q] \in {"highest", "txread", "update"}
                 /\ pc'[q] \notin {"publish", "accepted"})
    BY <1>5 DEF TxRead, Goto
  <2> QED
    BY <1>5, <2>1, RowsFrame DEF TxRead
<1>6. ASSUME NEW r \in Requests, TxUpdate(r) PROVE RowsInv'
  <2>1. \A q \in Requests : pc'[q] = pc[q] \/
          (q = r /\ pc[q] \in {"highest", "txread", "update"}
                 /\ pc'[q] \notin {"publish", "accepted"})
    BY <1>6 DEF TxUpdate, Goto
  <2> QED
    BY <1>6, <2>1, RowsFrame DEF TxUpdate
<1>7. ASSUME NEW r \in Requests, Commit(r) PROVE RowsInv'
  <2> DEFINE row == [req |-> r, amount |-> Stored[amount[r]]]
  <2>1. bids' = Append(bids, row) /\ bids \in Seq(Bid)
    BY <1>7 DEF Commit, CommitRows
  <2>2. /\ DOMAIN bids' = DOMAIN bids \cup {Len(bids) + 1}
        /\ Len(bids) + 1 \notin DOMAIN bids
        /\ \A i \in DOMAIN bids : bids'[i] = bids[i]
        /\ bids'[Len(bids) + 1] = row
    BY <2>1
  <2>3. pc[r] = "commit" /\ pc'[r] \in {"publish", "failed"} /\ published' = published
        /\ \A q \in Requests \ {r} : pc'[q] = pc[q]
    BY <1>7 DEF Commit, Goto
  <2> HIDE DEF row
  <2>4. row.req = r
    BY DEF row
  <2>5. \A i \in DOMAIN bids : bids[i].req # r
    BY <2>3
  <2>6. \A i \in DOMAIN bids' : pc'[bids'[i].req] \in {"publish", "accepted", "failed"}
    BY <2>2, <2>3, <2>4, <2>5
  <2>7. \A i, j \in DOMAIN bids' : bids'[i].req = bids'[j].req => i = j
    BY <2>2, <2>4, <2>5
  <2>8. \A q \in Requests : pc'[q] \in {"publish", "accepted"} =>
          \E i \in DOMAIN bids' : bids'[i].req = q
    <3>1. bids'[Len(bids) + 1].req = r
      BY <2>2, <2>4
    <3>2. ASSUME NEW q \in Requests \ {r}, pc'[q] \in {"publish", "accepted"}
          PROVE  \E i \in DOMAIN bids' : bids'[i].req = q
      <4>1. PICK i \in DOMAIN bids : bids[i].req = q
        BY <2>3, <3>2
      <4> QED
        BY <2>2, <4>1
    <3> QED
      BY <2>2, <3>1, <3>2
  <2> QED
    BY <2>2, <2>3, <2>6, <2>7, <2>8
<1>8. ASSUME NEW r \in Requests, Publish(r) PROVE RowsInv'
  <2>1. /\ pc[r] = "publish" /\ pc' = [pc EXCEPT ![r] = "accepted"] /\ bids' = bids
        /\ published' \subseteq published \cup {r}
    BY <1>8 DEF Publish, Goto
  <2>2. \A q \in published' : \E i \in DOMAIN bids : bids[i].req = q
    <3>1. \E i \in DOMAIN bids : bids[i].req = r
      BY <2>1
    <3>2. \A q \in published : \E i \in DOMAIN bids : bids[i].req = q
      OBVIOUS
    <3> QED
      BY <2>1, <3>1, <3>2
  <2> QED
    BY <2>1, <2>2
<1>9. ASSUME NEW r \in Requests, Fail(r) PROVE RowsInv'
  BY <1>9 DEF Fail, Goto
<1>10. ASSUME NEW e \in EndCalls, EndRead(e) PROVE RowsInv'
  BY <1>10 DEF EndRead, EGoto
<1>11. ASSUME NEW e \in EndCalls, EndHighest(e) PROVE RowsInv'
  BY <1>11 DEF EndHighest, EGoto
<1>12. ASSUME NEW e \in EndCalls, EndUpdate(e) PROVE RowsInv'
  BY <1>12 DEF EndUpdate, EGoto, RowFree
<1>13. ASSUME NEW e \in EndCalls, EndPublish(e) PROVE RowsInv'
  BY <1>13 DEF EndPublish, EGoto
<1>14. ASSUME NEW e \in EndCalls, EndFail(e) PROVE RowsInv'
  BY <1>14 DEF EndFail, EGoto
<1>15. CASE UNCHANGED vars
  BY <1>15 DEF vars
<1> QED
  BY <1>1, <1>2, <1>3, <1>4, <1>5, <1>6, <1>7, <1>8,
     <1>9, <1>10, <1>11, <1>12, <1>13, <1>14, <1>15
     DEF Next, PlaceBidStep, EndStep

LEMMA RowsInvariant == Spec => []RowsInv
BY TypeInvariant, RowsInit, RowsStep, PTL DEF Spec

\* Nothing is announced to the subscribers that is not in the table, and no
\* request ever has two rows.
THEOREM PublishedInvariant == Spec => []PublishedBidsAreCommitted
<1>1. RowsInv => PublishedBidsAreCommitted
  <2> SUFFICES ASSUME RowsInv, NEW r \in published
               PROVE  \E i \in DOMAIN bids :
                        /\ bids[i].req = r
                        /\ \A j \in DOMAIN bids : bids[j].req = r => j = i
    BY DEF PublishedBidsAreCommitted
  <2>1. PICK i \in DOMAIN bids : bids[i].req = r
    BY DEF RowsInv
  <2> QED
    BY <2>1 DEF RowsInv
<1> QED
  BY <1>1, RowsInvariant, PTL
-----------------------------------------------------------------------------
(* The price                                                               *)

\* Another request raised the price that r was decided against.
Rival(r) ==
  \E i \in DOMAIN bids :
    /\ bids[i].req # r
    /\ PriceBefore(i) = seen[r]
    /\ bids[i].amount > seen[r]

Deciding == {"highest", "txread", "update", "commit"}

\* While the auction is active, a request that is being decided either holds
\* the current price or has a rival; one refused as a conflict has a rival.
RivalInv ==
  auction.status = "active" =>
    \A r \in Requests :
      /\ pc[r] \in Deciding => seen[r] = auction.currentPrice \/ Rival(r)
      /\ pc[r] = "conflict" => Rival(r)

PriceInv == PriceTracksHighest /\ BidsChain /\ RivalInv

LEMMA PriceInit == Init => PriceInv
BY Constants DEF ConstantsOK, Init, PriceInv, PriceTracksHighest, BidsChain, RivalInv,
                 Price, PriceBefore, Deciding

\* What a commit does to the prices that bids were placed over.
LEMMA AppendPrices ==
  ASSUME TypeOK, NEW row, bids' = Append(bids, row)
  PROVE  /\ DOMAIN bids' = DOMAIN bids \cup {Len(bids) + 1}
         /\ Len(bids) + 1 \notin DOMAIN bids
         /\ \A i \in DOMAIN bids : bids'[i] = bids[i] /\ PriceBefore(i)' = PriceBefore(i)
         /\ bids'[Len(bids) + 1] = row
         /\ \A k : k = Len(bids) + 1 => PriceBefore(k)' = Price
         /\ Price' = row.amount
<1>1. bids \in Seq(Bid)
  BY DEF TypeOK
<1>2. /\ DOMAIN bids = 1 .. Len(bids) /\ Len(bids) \in Nat
      /\ DOMAIN bids' = 1 .. Len(bids) + 1 /\ Len(bids') = Len(bids) + 1
      /\ \A i \in 1 .. Len(bids) : bids'[i] = bids[i]
      /\ bids'[Len(bids) + 1] = row
  BY <1>1
<1>3. \A i \in DOMAIN bids : PriceBefore(i)' = PriceBefore(i)
  BY <1>2 DEF PriceBefore
<1>4. ASSUME NEW k, k = Len(bids) + 1 PROVE PriceBefore(k)' = Price
  <2>1. CASE Len(bids) = 0
    BY <1>4, <2>1 DEF PriceBefore, Price
  <2>2. CASE Len(bids) # 0
    <3>1. /\ k # 1 /\ k - 1 = Len(bids) /\ Len(bids) + 1 - 1 = Len(bids)
          /\ Len(bids) \in 1 .. Len(bids)
      BY <1>2, <1>4, <2>2
    <3>2. Price = bids[Len(bids)].amount
      BY <1>4, <3>1 DEF PriceBefore, Price
    <3>3. PriceBefore(k)' = bids'[Len(bids)].amount
      BY <3>1 DEF PriceBefore
    <3> QED
      BY <1>2, <3>1, <3>2, <3>3
  <2> QED
    BY <2>1, <2>2
<1>5. Price' = row.amount
  BY <1>2 DEF PriceBefore, Price
<1> QED
  BY <1>2, <1>3, <1>4, <1>5

\* Steps that leave the row and the bids alone keep PriceInv, when a request
\* that enters a decision has just read the price and one refused as a
\* conflict found another price than the one it held.
LEMMA PriceFrame ==
  ASSUME TypeOK, RowsInv, PriceInv, bids' = bids, auction' = auction,
         \A q \in Requests :
           /\ pc[q] \in {"publish", "accepted", "failed"} =>
                seen'[q] = seen[q] /\ amount'[q] = amount[q]
           /\ pc'[q] \in Deciding =>
                \/ pc[q] \in Deciding /\ seen'[q] = seen[q]
                \/ seen'[q] = auction.currentPrice
           /\ pc'[q] = "conflict" =>
                /\ seen'[q] = seen[q]
                /\ \/ pc[q] = "conflict"
                   \/ pc[q] \in Deciding /\ seen[q] # auction.currentPrice
  PROVE  PriceInv'
<1>1. \A i : PriceBefore(i)' = PriceBefore(i)
  BY DEF PriceBefore
<1>2. PriceTracksHighest'
  BY <1>1 DEF PriceInv, PriceTracksHighest, Price, PriceBefore
<1>3. \A i \in DOMAIN bids : bids[i].req \in Requests
  BY RowsTyped DEF Bid
<1>4. BidsChain'
  BY <1>1, <1>3 DEF PriceInv, BidsChain, RowsInv
<1>5. \A q \in Requests : Rival(q) /\ seen'[q] = seen[q] => Rival(q)'
  BY <1>1 DEF Rival
<1>6. RivalInv'
  BY <1>5 DEF PriceInv, RivalInv
<1> QED
  BY <1>2, <1>4, <1>6 DEF PriceInv

\* A commit appends the bid that beats all others, over the current price.
LEMMA PriceCommit ==
  ASSUME TypeOK, LockInv, RowsInv, PriceInv, NEW r \in Requests, Commit(r)
  PROVE  PriceInv'
<1> DEFINE row == [req |-> r, amount |-> Stored[amount[r]]]
<1> SUFFICES ASSUME auction.status = "active" PROVE PriceInv'
  BY DEF PriceInv, PriceTracksHighest, BidsChain, RivalInv, Commit, CommitRows, TypeOK
<1>1. /\ bids' = Append(bids, row)
      /\ auction'.currentPrice = row.amount /\ auction'.status = "active"
      /\ seen' = seen /\ amount' = amount
      /\ pc[r] = "commit" /\ pc'[r] \notin Deciding \cup {"conflict"}
      /\ \A q \in Requests \ {r} : pc'[q] = pc[q]
  BY DEF Commit, CommitRows, Goto, TypeOK, Deciding
<1>2. seen[r] = auction.currentPrice /\ amount[r] > seen[r]
  BY <1>1 DEF LockInv
<1>3. auction.currentPrice = Price /\ \A i \in DOMAIN bids : bids[i].amount <= Price
  BY DEF PriceInv, PriceTracksHighest
<1>4. \A i \in DOMAIN bids : /\ bids[i].req \in Requests /\ bids[i].amount \in Amounts
                            /\ Stored[bids[i].amount] = bids[i].amount
                            /\ bids[i].req # r
  BY <1>1, RowsTyped DEF Bid, TypeOK, RowsInv
<1>5. /\ amount[r] \in Amounts /\ seen[r] \in Amounts /\ row.amount \in Amounts
      /\ amount[r] \in Int /\ seen[r] \in Int /\ row.amount \in Int
      /\ \A i \in DOMAIN bids : bids[i].amount \in Int
  <2>1. amount[r] \in Amounts /\ seen[r] \in Amounts /\ row.amount \in Amounts
    BY Constants DEF ConstantsOK, TypeOK
  <2>2. Amounts \subseteq Int
    BY Constants DEF ConstantsOK
  <2> QED
    BY <1>4, <2>1, <2>2
<1>6. \A i \in DOMAIN bids : bids[i].amount <= row.amount
  <2> SUFFICES ASSUME NEW i \in DOMAIN bids PROVE bids[i].amount <= Stored[amount[r]]
    OBVIOUS
  <2>1. bids[i].amount <= amount[r]
    BY <1>2, <1>3, <1>4, <1>5
  <2> QED
    BY <2>1, <1>4, <1>5, Constants DEF ConstantsOK
<1>7. row.req = r
  OBVIOUS
<1> HIDE DEF row
<1>8. PriceTracksHighest'
  <2>1. row.amount <= row.amount
    BY <1>5
  <2> QED
    BY <1>1, <1>6, <2>1, AppendPrices DEF PriceTracksHighest
<1>9. BidsChain'
  <2> SUFFICES ASSUME NEW i \in DOMAIN bids'
               PROVE  /\ seen[bids'[i].req] = PriceBefore(i)'
                      /\ amount[bids'[i].req] > PriceBefore(i)'
    BY <1>1 DEF BidsChain
  <2>1. CASE i \in DOMAIN bids
    BY <1>1, <2>1, AppendPrices DEF PriceInv, BidsChain
  <2>2. CASE i = Len(bids) + 1
    <3>1. bids'[i].req = r /\ PriceBefore(i)' = Price
      BY <1>1, <1>7, <2>2, AppendPrices
    <3> QED
      BY <3>1, <1>2, <1>3
  <2> QED
    BY <1>1, <2>1, <2>2, AppendPrices
<1>10. \A q \in Requests : Rival(q) => Rival(q)'
  BY <1>1, AppendPrices DEF Rival
<1>11. ASSUME NEW q \in Requests \ {r}, seen[q] = auction.currentPrice
       PROVE  seen[q] = row.amount \/ Rival(q)'
  <2>1. row.amount >= seen[q]
    <3>1. Stored[seen[r]] <= Stored[amount[r]]
      <4>1. seen[r] <= amount[r]
        BY <1>2, <1>5
      <4> QED
        BY <4>1, <1>5, Constants DEF ConstantsOK
    <3>2. Stored[seen[r]] = seen[r]
      <4>1. CASE Len(bids) = 0
        BY <4>1, <1>2, <1>3, Constants DEF ConstantsOK, Price, PriceBefore
      <4>2. CASE Len(bids) # 0
        <5>1. Len(bids) \in DOMAIN bids /\ Price = bids[Len(bids)].amount
          BY <4>2 DEF Price, PriceBefore, TypeOK
        <5> QED
          BY <5>1, <1>2, <1>3, <1>4
      <4> QED
        BY <4>1, <4>2
    <3> QED
      BY <3>1, <3>2, <1>2, <1>11 DEF row
  <2>2. CASE row.amount # seen[q]
    <3>1. row.amount > seen[q]
      <4>1. seen[q] \in Int
        BY <1>2, <1>5, <1>11
      <4> QED
        BY <2>1, <2>2, <1>5, <4>1
    <3>2. PICK k : k = Len(bids) + 1
      OBVIOUS
    <3>3. /\ k \in DOMAIN bids'
          /\ bids'[k].req # q
          /\ PriceBefore(k)' = seen'[q]
          /\ bids'[k].amount > seen'[q]
      BY <1>1, <1>3, <1>7, <1>11, <3>1, <3>2, AppendPrices
    <3> QED
      BY <3>3 DEF Rival
  <2> QED
    BY <2>2
<1>12. RivalInv'
  BY <1>1, <1>10, <1>11 DEF PriceInv, RivalInv
<1> QED
  BY <1>8, <1>9, <1>12 DEF PriceInv
LEMMA PriceStep ==
  TypeOK /\ LockInv /\ RowsInv /\ PriceInv /\ [Next]_vars => PriceInv'
<1> SUFFICES ASSUME TypeOK, LockInv, RowsInv, PriceInv, [Next]_vars PROVE PriceInv'
  OBVIOUS
<1> USE DEF TypeOK, Deciding, PCs, reqVars, endVars, dbVars
<1>1. CASE Tick
  BY <1>1, PriceFrame DEF Tick
<1>2. ASSUME NEW r \in Requests, NEW a \in Amounts, Submit(r, a) PROVE PriceInv'
  <2>1. \A q \in Requests :
          /\ pc[q] \in {"publish", "accepted", "failed"} =>
               seen'[q] = seen[q] /\ amount'[q] = amount[q]
          /\ pc'[q] \in Deciding =>
               (pc[q] \in Deciding /\ seen'[q] = seen[q]) \/ seen'[q] = auction.currentPrice
          /\ pc'[q] = "conflict" =>
               /\ seen'[q] = seen[q]
               /\ pc[q] = "conflict" \/ (pc[q] \in Deciding /\ seen[q] # auction.currentPrice)
    BY <1>2 DEF Submit, Goto
  <2> QED
    BY <1>2, <2>1, PriceFrame DEF Submit
<1>3. ASSUME NEW r \in Requests, ReadAuction(r) PROVE PriceInv'
  <2>1. \A q \in Requests :
          /\ pc[q] \in {"publish", "accepted", "failed"} =>
               seen'[q] = seen[q] /\ amount'[q] = amount[q]
          /\ pc'[q] \in Deciding =>
               (pc[q] \in Deciding /\ seen'[q] = seen[q]) \/ seen'[q] = auction.currentPrice
          /\ pc'[q] = "conflict" =>
               /\ seen'[q] = seen[q]
               /\ pc[q] = "conflict" \/ (pc[q] \in Deciding /\ seen[q] # auction.currentPrice)
    BY <1>3 DEF ReadAuction, CanBid, AuctionStarted, Goto
  <2> QED
    BY <1>3, <2>1, PriceFrame DEF ReadAuction
<1>4. ASSUME NEW r \in Requests, ReadHighest(r) PROVE PriceInv'
  <2>1. \A q \in Requests :
          /\ pc[q] \in {"publish", "accepted", "failed"} =>
               seen'[q] = seen[q] /\ amount'[q] = amount[q]
          /\ pc'[q] \in Deciding =>
               (pc[q] \in Deciding /\ seen'[q] = seen[q]) \/ seen'[q] = auction.currentPrice
          /\ pc'[q] = "conflict" =>
               /\ seen'[q] = seen[q]
               /\ pc[q] = "conflict" \/ (pc[q] \in Deciding /\ seen[q] # auction.currentPrice)
    BY <1>4 DEF ReadHighest, Goto
  <2> QED
    BY <1>4, <2>1, PriceFrame DEF ReadHighest
<1>5. ASSUME NEW r \in Requests, TxRead(r) PROVE PriceInv'
  <2>1. \A q \in Requests :
          /\ pc[q] \in {"publish", "accepted", "failed"} =>
               seen'[q] = seen[q] /\ amount'[q] = amount[q]
          /\ pc'[q] \in Deciding =>
               (pc[q] \in Deciding /\ seen'[q] = seen[q]) \/ seen'[q] = auction.currentPrice
          /\ pc'[q] = "conflict" =>
               /\ seen'[q] = seen[q]
               /\ pc[q] = "conflict" \/ (pc[q] \in Deciding /\ seen[q] # auction.currentPrice)
    BY <1>5 DEF TxRead, Goto
  <2> QED
    BY <1>5, <2>1, PriceFrame DEF TxRead
<1>6. ASSUME NEW r \in Requests, TxUpdate(r) PROVE PriceInv'
  <2>1. \A q \in Requests :
          /\ pc[q] \in {"publish", "accepted", "failed"} =>
               seen'[q] = seen[q] /\ amount'[q] = amount[q]
          /\ pc'[q] \in Deciding =>
               (pc[q] \in Deciding /\ seen'[q] = seen[q]) \/ seen'[q] = auction.currentPrice
          /\ pc'[q] = "conflict" =>
               /\ seen'[q] = seen[q]
               /\ pc[q] = "conflict" \/ (pc[q] \in Deciding /\ seen[q] # auction.currentPrice)
    BY <1>6 DEF TxUpdate, Goto, RowMatches, RowFree
  <2> QED
    BY <1>6, <2>1, PriceFrame DEF TxUpdate
<1>7. ASSUME NEW r \in Requests, Commit(r) PROVE PriceInv'
  BY <1>7, PriceCommit
<1>8. ASSUME NEW r \in Requests, Publish(r) PROVE PriceInv'
  <2>1. \A q \in Requests :
          /\ pc[q] \in {"publish", "accepted", "failed"} =>
               seen'[q] = seen[q] /\ amount'[q] = amount[q]
          /\ pc'[q] \in Deciding =>
               (pc[q] \in Deciding /\ seen'[q] = seen[q]) \/ seen'[q] = auction.currentPrice
          /\ pc'[q] = "conflict" =>
               /\ seen'[q] = seen[q]
               /\ pc[q] = "conflict" \/ (pc[q] \in Deciding /\ seen[q] # auction.currentPrice)
    BY <1>8 DEF Publish, Goto
  <2> QED
    BY <1>8, <2>1, PriceFrame DEF Publish
<1>9. ASSUME NEW r \in Requests, Fail(r) PROVE PriceInv'
  <2>1. \A q \in Requests :
          /\ pc[q] \in {"publish", "accepted", "failed"} =>
               seen'[q] = seen[q] /\ amount'[q] = amount[q]
          /\ pc'[q] \in Deciding =>
               (pc[q] \in Deciding /\ seen'[q] = seen[q]) \/ seen'[q] = auction.currentPrice
          /\ pc'[q] = "conflict" =>
               /\ seen'[q] = seen[q]
               /\ pc[q] = "conflict" \/ (pc[q] \in Deciding /\ seen[q] # auction.currentPrice)
    BY <1>9 DEF Fail, Goto
  <2> QED
    BY <1>9, <2>1, PriceFrame DEF Fail
<1>10. ASSUME NEW e \in EndCalls, EndRead(e) PROVE PriceInv'
  BY <1>10, PriceFrame DEF EndRead
<1>11. ASSUME NEW e \in EndCalls, EndHighest(e) PROVE PriceInv'
  BY <1>11, PriceFrame DEF EndHighest
<1>12. ASSUME NEW e \in EndCalls, EndUpdate(e) PROVE PriceInv'
  BY <1>12 DEF EndUpdate, PriceInv, PriceTracksHighest, BidsChain, RivalInv
<1>13. ASSUME NEW e \in EndCalls, EndPublish(e) PROVE PriceInv'
  BY <1>13, PriceFrame DEF EndPublish
<1>14. ASSUME NEW e \in EndCalls, EndFail(e) PROVE PriceInv'
  BY <1>14, PriceFrame DEF EndFail
<1>15. CASE UNCHANGED vars
  BY <1>15, PriceFrame DEF vars
<1> QED
  BY <1>1, <1>2, <1>3, <1>4, <1>5, <1>6, <1>7, <1>8,
     <1>9, <1>10, <1>11, <1>12, <1>13, <1>14, <1>15
     DEF Next, PlaceBidStep, EndStep

LEMMA PriceInvariant == Spec => []PriceInv
BY TypeInvariant, LockInvariant, RowsInvariant, PriceInit, PriceStep, PTL DEF Spec

\* While the auction is active its row shows the highest committed bid, for
\* any number of concurrent requests, failures and lost answers.
THEOREM PriceTracksHighestInvariant == Spec => []PriceTracksHighest
<1>1. PriceInv => PriceTracksHighest
  BY DEF PriceInv
<1> QED
  BY <1>1, PriceInvariant, PTL

\* While the auction is active no bid that raises the price slips between the
\* price a committed bid was decided against and the bid itself.
THEOREM BidsChainInvariant == Spec => []BidsChain
<1>1. PriceInv => BidsChain
  BY DEF PriceInv
<1> QED
  BY <1>1, PriceInvariant, PTL

\* The optimistic check refuses a bid as a conflict only if a rival raised the
\* price it was decided against.
THEOREM ConflictInvariant == Spec => []ConflictImpliesRival
<1>1. PriceInv => ConflictImpliesRival
  BY DEF PriceInv, RivalInv, Rival, ConflictImpliesRival
<1> QED
  BY <1>1, PriceInvariant, PTL
-----------------------------------------------------------------------------
(* What a bid overwrites                                                   *)

\* A price that is in the row, or that an ender is to write there, is one the
\* column can hold.
RoundedInv ==
  /\ Stored[auction.currentPrice] = auction.currentPrice
  /\ \A e \in EndCalls : Stored[snap[e]] = snap[e]

LEMMA RoundedStep == TypeOK /\ RoundedInv /\ [Next]_vars => RoundedInv'
<1> SUFFICES ASSUME TypeOK, RoundedInv, [Next]_vars PROVE RoundedInv'
  OBVIOUS
<1>1. UNCHANGED <<auction, snap>> => RoundedInv'
  BY DEF RoundedInv
<1>2. ASSUME NEW r \in Requests, Commit(r) PROVE RoundedInv'
  <2>1. Stored[Stored[amount[r]]] = Stored[amount[r]]
    BY Constants DEF ConstantsOK, TypeOK
  <2>2. auction'.currentPrice = Stored[amount[r]] /\ snap' = snap
    BY <1>2 DEF TypeOK, Commit, CommitRows, endVars
  <2> QED
    BY <2>1, <2>2 DEF RoundedInv
<1>3. ASSUME NEW e \in EndCalls, EndRead(e) PROVE RoundedInv'
  <2>1. snap' = [snap EXCEPT ![e] = auction.currentPrice] /\ auction' = auction
    BY <1>3 DEF EndRead, dbVars
  <2> QED
    BY <2>1 DEF TypeOK, RoundedInv
<1>4. ASSUME NEW e \in EndCalls, EndUpdate(e) PROVE RoundedInv'
  BY <1>4 DEF RoundedInv, EndUpdate
<1>5. ASSUME NEW r \in Requests, PlaceBidStep(r) \/ Fail(r) \/ \E a \in Amounts : Submit(r, a),
             ~Commit(r)
      PROVE  UNCHANGED <<auction, snap>>
  BY <1>5 DEF PlaceBidStep, Submit, ReadAuction, ReadHighest, TxRead, TxUpdate, Publish, Fail,
              endVars, dbVars
<1>6. ASSUME NEW e \in EndCalls, EndHighest(e) \/ EndPublish(e) \/ EndFail(e)
      PROVE  UNCHANGED <<auction, snap>>
  BY <1>6 DEF EndHighest, EndPublish, EndFail, dbVars
<1>7. Tick \/ UNCHANGED vars => UNCHANGED <<auction, snap>>
  BY DEF Tick, vars, endVars, dbVars
<1> QED
  BY <1>1, <1>2, <1>3, <1>4, <1>5, <1>6, <1>7 DEF Next, EndStep

\* Nothing but a COMMIT adds a row to bids.
LEMMA OnlyCommitsAdd ==
  ASSUME Next, bids' # bids
  PROVE  \E r \in Requests : Commit(r)
<1>1. ASSUME NEW r \in Requests, PlaceBidStep(r) \/ Fail(r) \/ \E a \in Amounts : Submit(r, a),
             ~Commit(r)
      PROVE  bids' = bids
  BY <1>1 DEF PlaceBidStep, Submit, ReadAuction, ReadHighest, TxRead, TxUpdate, Publish, Fail, dbVars
<1>2. ASSUME NEW e \in EndCalls, EndRead(e) \/ EndStep(e) \/ EndFail(e)
      PROVE  bids' = bids
  BY <1>2 DEF EndStep, EndRead, EndHighest, EndUpdate, EndPublish, EndFail, dbVars
<1>3. Tick => bids' = bids
  BY DEF Tick, dbVars
<1> QED
  BY <1>1, <1>2, <1>3 DEF Next

\* A COMMIT writes no price below the one it overwrites.
LEMMA CommitRaises ==
  ASSUME TypeOK, LockInv, RoundedInv, NEW r \in Requests, Commit(r)
  PROVE  auction.currentPrice <= auction'.currentPrice
<1>1. auction.currentPrice = seen[r] /\ amount[r] > seen[r]
  BY DEF LockInv, Commit
<1>2. auction'.currentPrice = Stored[amount[r]]
  BY DEF TypeOK, Commit, CommitRows
<1>3. seen[r] \in Amounts /\ amount[r] \in Amounts /\ Amounts \subseteq Int
  BY Constants DEF ConstantsOK, TypeOK
<1>4. seen[r] <= amount[r]
  <2>1. seen[r] \in Int /\ amount[r] \in Int
    BY <1>3
  <2> QED
    BY <1>1, <2>1
<1>5. Stored[seen[r]] <= Stored[amount[r]]
  BY <1>3, <1>4, Constants DEF ConstantsOK
<1>6. Stored[seen[r]] = auction.currentPrice
  BY <1>1 DEF RoundedInv
<1> QED
  BY <1>2, <1>5, <1>6

\* The row shows a price below a bid of the table only since an ender wrote a
\* price back, and none below that one.
OvertakenInv ==
  \A i \in DOMAIN bids : bids[i].amount > auction.currentPrice =>
    \E e \in EndCalls : HasWritten(e) /\ snap[e] <= auction.currentPrice

\* Steps that leave the row and the bids alone, and let no ender that has written
\* change what it wrote, keep OvertakenInv.
LEMMA OvertakenFrame ==
  ASSUME OvertakenInv, bids' = bids, auction' = auction,
         \A e \in EndCalls : HasWritten(e) => HasWritten(e)' /\ snap'[e] = snap[e]
  PROVE  OvertakenInv'
BY DEF OvertakenInv

LEMMA OvertakenStep ==
  TypeOK /\ LockInv /\ RoundedInv /\ OvertakenInv /\ [Next]_vars => OvertakenInv'
<1> SUFFICES ASSUME TypeOK, LockInv, RoundedInv, OvertakenInv, [Next]_vars PROVE OvertakenInv'
  OBVIOUS
<1>1. UNCHANGED <<auction, bids, epc, snap>> => OvertakenInv'
  BY OvertakenFrame DEF HasWritten
<1>2. ASSUME NEW r \in Requests, Commit(r) PROVE OvertakenInv'
  <2>1. /\ auction'.currentPrice = Stored[amount[r]] /\ epc' = epc /\ snap' = snap
        /\ bids' = Append(bids, [req |-> r, amount |-> Stored[amount[r]]])
    BY <1>2 DEF TypeOK, Commit, CommitRows, endVars
  <2>2. auction.currentPrice <= auction'.currentPrice
    BY <1>2, CommitRaises
  <2>3. /\ auction.currentPrice \in Int /\ auction'.currentPrice \in Int
        /\ \A e \in EndCalls : snap[e] \in Int
    <3>1. /\ auction.currentPrice \in Amounts /\ Stored[amount[r]] \in Amounts
          /\ \A e \in EndCalls : snap[e] \in Amounts
      BY Constants DEF ConstantsOK, TypeOK
    <3> QED
      BY <2>1, <3>1, Constants DEF ConstantsOK
  <2>4. ASSUME NEW i \in DOMAIN bids', bids'[i].amount > auction'.currentPrice
        PROVE  i \in DOMAIN bids /\ bids[i].amount > auction.currentPrice
    <3>1. bids \in Seq(Bid)
      BY DEF TypeOK
    <3>2. i \in DOMAIN bids /\ bids'[i] = bids[i]
      BY <2>1, <2>3, <2>4, <3>1
    <3>3. bids[i].amount \in Int
      BY <3>2, RowsTyped, Constants DEF Bid, ConstantsOK
    <3> QED
      BY <2>2, <2>3, <2>4, <3>2, <3>3
  <2>5. ASSUME NEW e \in EndCalls, snap[e] <= auction.currentPrice
        PROVE  snap[e] <= auction'.currentPrice
    BY <2>2, <2>3, <2>5
  <2> QED
    BY <2>1, <2>4, <2>5 DEF OvertakenInv, HasWritten
<1>3. ASSUME NEW e \in EndCalls, EndRead(e) PROVE OvertakenInv'
  <2>1. \A f \in EndCalls : HasWritten(f) => HasWritten(f)' /\ snap'[f] = snap[f]
    BY <1>3 DEF EndRead, EGoto, HasWritten, TypeOK
  <2> QED
    BY <1>3, <2>1, OvertakenFrame DEF EndRead, dbVars
<1>4. ASSUME NEW e \in EndCalls, EndUpdate(e) PROVE OvertakenInv'
  <2>1. /\ auction'.currentPrice = snap[e] /\ snap' = snap /\ epc'[e] = "publish"
    BY <1>4 DEF EndUpdate, EGoto, TypeOK
  <2>2. snap[e] \in Int
    <3>1. snap[e] \in Amounts
      BY DEF TypeOK
    <3> QED
      BY <3>1, Constants DEF ConstantsOK
  <2> QED
    BY <2>1, <2>2 DEF OvertakenInv, HasWritten
<1>5. ASSUME NEW e \in EndCalls, EndHighest(e) \/ EndPublish(e) \/ EndFail(e)
      PROVE  OvertakenInv'
  <2>1. \A f \in EndCalls : HasWritten(f) => HasWritten(f)'
    BY <1>5 DEF EndHighest, EndPublish, EndFail, EGoto, HasWritten, TypeOK
  <2> QED
    BY <1>5, <2>1, OvertakenFrame DEF EndHighest, EndPublish, EndFail, dbVars
<1>6. ASSUME NEW r \in Requests, PlaceBidStep(r) \/ Fail(r) \/ \E a \in Amounts : Submit(r, a),
             ~Commit(r)
      PROVE  UNCHANGED <<auction, bids, epc, snap>>
  BY <1>6 DEF PlaceBidStep, Submit, ReadAuction, ReadHighest, TxRead, TxUpdate, Publish, Fail,
              endVars, dbVars
<1>7. Tick \/ UNCHANGED vars => UNCHANGED <<auction, bids, epc, snap>>
  BY DEF Tick, vars, endVars, dbVars
<1> QED
  BY <1>1, <1>2, <1>3, <1>4, <1>5, <1>6, <1>7 DEF Next, EndStep

\* What a COMMIT adds, and what it overwrites.
LEMMA CommitOverwrites ==
  ASSUME TypeOK, LockInv, RoundedInv, OvertakenInv, NEW r \in Requests, Commit(r)
  PROVE  /\ auction.currentPrice <= auction'.currentPrice
         /\ bids' = Append(bids, [req |-> r, amount |-> auction'.currentPrice])
         /\ auction.currentPrice = seen[r] /\ amount[r] > seen[r]
         /\ Overtaken(r) => \E e \in EndCalls : HasWritten(e) /\ snap[e] <= seen[r]
<1>1. auction.currentPrice = seen[r] /\ amount[r] > seen[r]
  BY DEF LockInv, Commit
<1>2. /\ auction'.currentPrice = Stored[amount[r]]
      /\ bids' = Append(bids, [req |-> r, amount |-> Stored[amount[r]]])
  BY DEF TypeOK, Commit, CommitRows
<1>3. auction.currentPrice <= auction'.currentPrice
  BY CommitRaises
<1>4. Overtaken(r) => \E e \in EndCalls : HasWritten(e) /\ snap[e] <= seen[r]
  BY <1>1 DEF OvertakenInv, Overtaken
<1> QED
  BY <1>1, <1>2, <1>3, <1>4

\* Also once the auction has ended, a bid is written over the price it was
\* decided against, and lowers nothing; it is below a bid of the table only when
\* an ender has written an older price back.
THEOREM OverwriteProperty == Spec => BidsOverwriteWhatTheyRead
<1>1. TypeOK /\ LockInv /\ RoundedInv /\ OvertakenInv /\ [Next]_vars =>
        [bids' # bids =>
           /\ auction.currentPrice <= auction'.currentPrice
           /\ \E r \in Requests :
                /\ bids' = Append(bids, [req |-> r, amount |-> auction'.currentPrice])
                /\ auction.currentPrice = seen[r] /\ amount[r] > seen[r]
                /\ Overtaken(r) => \E e \in EndCalls : HasWritten(e) /\ snap[e] <= seen[r]]_vars
  BY OnlyCommitsAdd, CommitOverwrites DEF vars, dbVars
<1>2. Init => RoundedInv /\ OvertakenInv
  BY Constants DEF ConstantsOK, Init, RoundedInv, OvertakenInv
<1> QED
  BY <1>1, <1>2, RoundedStep, OvertakenStep, TypeInvariant, LockInvariant,
     PTL DEF Spec, BidsOverwriteWhatTheyRead

-----------------------------------------------------------------------------
(* A sentence of the README that the code does not keep: what it keeps     *)
(* of it                                                                   *)

\* The appended bid is above the ones before it, as long as the price column
\* stores every offer as it is.
LEMMA ExceedStep ==
  ASSUME \A a \in Amounts : Stored[a] = a
  PROVE  TypeOK /\ LockInv /\ PriceTracksHighest /\ BidsExceedHighest /\ [Next]_vars
           => BidsExceedHighest'
<1> SUFFICES ASSUME TypeOK, LockInv, PriceTracksHighest, BidsExceedHighest, [Next]_vars,
                    auction'.status = "active"
             PROVE  \A i, j \in DOMAIN bids' : i < j => bids'[i].amount < bids'[j].amount
  BY DEF BidsExceedHighest
<1>1. auction.status = "active"
  <2>1. ASSUME NEW r \in Requests, Commit(r) PROVE auction'.status = auction.status
    BY <2>1 DEF TypeOK, Commit, CommitRows
  <2>2. ASSUME NEW r \in Requests, PlaceBidStep(r) \/ Fail(r) \/ \E a \in Amounts : Submit(r, a),
               ~Commit(r)
        PROVE  auction' = auction
    BY <2>2 DEF PlaceBidStep, Submit, ReadAuction, ReadHighest, TxRead, TxUpdate, Publish, Fail,
                dbVars
  <2>3. ASSUME NEW e \in EndCalls, EndRead(e) \/ EndStep(e) \/ EndFail(e)
        PROVE  auction' = auction
    BY <2>3 DEF EndStep, EndRead, EndHighest, EndUpdate, EndPublish, EndFail, dbVars
  <2>4. Tick \/ UNCHANGED vars => auction' = auction
    BY DEF Tick, vars, dbVars
  <2> QED
    BY <2>1, <2>2, <2>3, <2>4 DEF Next
<1>2. \A i, j \in DOMAIN bids : i < j => bids[i].amount < bids[j].amount
  BY <1>1 DEF BidsExceedHighest
<1>3. CASE bids' = bids
  BY <1>2, <1>3
<1>4. CASE bids' # bids
  <2>1. PICK r \in Requests : Commit(r)
    BY <1>4, OnlyCommitsAdd DEF vars, dbVars
  <2>2. /\ auction.currentPrice = seen[r] /\ amount[r] > seen[r]
        /\ bids' = Append(bids, [req |-> r, amount |-> Stored[amount[r]]])
    BY <2>1 DEF LockInv, Commit, CommitRows
  <2>3. Stored[amount[r]] = amount[r]
    BY DEF TypeOK
  <2> DEFINE row == [req |-> r, amount |-> amount[r]]
  <2>4. bids' = Append(bids, row) /\ row.amount = amount[r]
    BY <2>2, <2>3
  <2>5. amount[r] \in Int /\ seen[r] \in Int
    <3>1. amount[r] \in Amounts /\ seen[r] \in Amounts
      BY DEF TypeOK
    <3> QED
      BY <3>1, Constants DEF ConstantsOK
  <2>6. ASSUME NEW i \in DOMAIN bids PROVE bids[i].amount < row.amount
    <3>1. bids[i].amount \in Int /\ bids[i].amount <= seen[r]
      BY <1>1, <2>2, RowsTyped, Constants DEF PriceTracksHighest, Bid, ConstantsOK
    <3> QED
      BY <2>2, <2>4, <2>5, <3>1
  <2> HIDE DEF row
  <2>7. /\ DOMAIN bids = 1 .. Len(bids) /\ Len(bids) \in Nat
        /\ DOMAIN bids' = 1 .. Len(bids) + 1
        /\ \A i \in DOMAIN bids : bids'[i] = bids[i]
        /\ bids'[Len(bids) + 1] = row
    <3>1. bids \in Seq(Bid)
      BY DEF TypeOK
    <3> QED
      BY <2>4, <3>1
  <2>8. ASSUME NEW i \in DOMAIN bids', NEW j \in DOMAIN bids', i < j
        PROVE  bids'[i].amount < bids'[j].amount
    <3>1. i \in DOMAIN bids /\ (j \in DOMAIN bids \/ j = Len(bids) + 1)
      BY <2>7, <2>8
    <3> QED
      BY <1>2, <2>6, <2>7, <2>8, <3>1
  <2> QED
    BY <2>8
<1> QED
  BY <1>3, <1>4

\* While the auction is active each accepted bid exceeds all earlier ones, if no
\* offer has more decimals than DECIMAL(10,2) keeps: rounding is all there is to
\* the bids that do not (the run BidsExceedHighest).
THEOREM ExceedInvariant ==
  ASSUME \A a \in Amounts : Stored[a] = a
  PROVE  Spec => []BidsExceedHighest
<1>1. Init => BidsExceedHighest
  BY DEF Init, BidsExceedHighest
<1>2. TypeOK /\ LockInv /\ PriceTracksHighest /\ BidsExceedHighest /\ [Next]_vars
        => BidsExceedHighest'
  BY ExceedStep
<1> QED
  BY <1>1, <1>2, TypeInvariant, LockInvariant, PriceTracksHighestInvariant, PTL DEF Spec

-----------------------------------------------------------------------------
(* The winner                                                              *)

\* A row of bids is the winner and the final price of the ender's result.
WinnerIsRow(e) ==
  /\ \E i \in DOMAIN bids : bids[i].req = winner[e] /\ bids[i].amount = final[e]
  /\ \A i \in DOMAIN bids : i <= known[e] => bids[i].amount <= final[e]

\* What an ender relies on.  Without a winner it was not told of the bids, or
\* there were none when it read the row.
EnderInv ==
  \A e \in EndCalls :
    /\ epc[e] \in {"idle", "highest"} => winner[e] = NoOne
    /\ known[e] <= Len(bids)
    /\ winner[e] # NoOne => WinnerIsRow(e)
    /\ epc[e] \in {"update", "publish", "announced"} /\ winner[e] = NoOne =>
         e \in unread \/ known[e] = 0

LEMMA EnderInit == Init => EnderInv
BY DEF Init, EnderInv

\* Bids are never taken back: what an ender relies on stays there.
LEMMA EnderFrame ==
  ASSUME TypeOK, EnderInv,
         bids' = bids \/ \E row \in Bid : bids' = Append(bids, row),
         UNCHANGED <<winner, final, unread, known>>,
         \A e \in EndCalls : \/ epc'[e] = epc[e]
                             \/ epc'[e] = "stopped"
                             \/ /\ epc[e] \in {"update", "publish"}
                                /\ epc'[e] \in {"publish", "announced"}
  PROVE  EnderInv'
<1>1. /\ \A i \in DOMAIN bids : i \in DOMAIN bids' /\ bids'[i] = bids[i]
      /\ \A i \in DOMAIN bids' : i \in DOMAIN bids \/ i = Len(bids) + 1
      /\ Len(bids) \in Nat /\ Len(bids') \in Nat /\ Len(bids) <= Len(bids')
  <2>1. bids \in Seq(Bid)
    BY DEF TypeOK
  <2>2. CASE bids' = bids
    BY <2>1, <2>2
  <2>3. ASSUME NEW row \in Bid, bids' = Append(bids, row)
        PROVE  /\ \A i \in DOMAIN bids : i \in DOMAIN bids' /\ bids'[i] = bids[i]
               /\ \A i \in DOMAIN bids' : i \in DOMAIN bids \/ i = Len(bids) + 1
               /\ Len(bids) \in Nat /\ Len(bids') \in Nat /\ Len(bids) <= Len(bids')
    BY <2>1, <2>3
  <2> QED
    BY <2>2, <2>3
<1>2. \A e \in EndCalls : known[e] <= Len(bids) /\ known[e] \in Nat
  BY DEF EnderInv, TypeOK
<1>3. \A e \in EndCalls : WinnerIsRow(e) => WinnerIsRow(e)'
  BY <1>1, <1>2 DEF WinnerIsRow
<1>4. \A e \in EndCalls : known'[e] <= Len(bids')
  BY <1>1, <1>2
<1> QED
  BY <1>3, <1>4 DEF EnderInv

\* The row GetHighestBid picks is no lower than any other.
LEMMA TopIsHighest ==
  ASSUME TypeOK, NEW b \in TopBids, NEW i \in DOMAIN bids
  PROVE  b.amount >= bids[i].amount
<1>1. bids[i] \in BidRows /\ bids[i].amount \in Int /\ b.amount \in Int
  BY RowsTyped, Constants DEF BidRows, Bid, ConstantsOK
<1>2. ~ (bids[i].amount > b.amount)
  BY <1>1 DEF TopBids, SortsBefore
<1> QED
  BY <1>1, <1>2

\* While there are bids GetHighestBid finds one.
TopInv == BidRows # {} => TopBids # {}

LEMMA TopInit == Init => TopInv
BY DEF Init, TopInv, BidRows

\* The order of the query is that of the amounts first and of the times next.
LEMMA OrderFacts ==
  ASSUME TypeOK, NEW b \in Bid, NEW c \in Bid, NEW d \in Bid
  PROVE  /\ ~ SortsBefore(b, b)
         /\ SortsBefore(b, c) /\ SortsBefore(d, b) => SortsBefore(d, c)
<1>1. createdAt \in [Requests -> Nat] /\ Amounts \subseteq Int
  BY Constants DEF ConstantsOK, TypeOK
<1>2. ASSUME NEW x \in Bid PROVE x.amount \in Int /\ createdAt[x.req] \in Int
  <2>1. x.amount \in Amounts /\ x.req \in Requests
    BY DEF Bid
  <2>2. createdAt[x.req] \in Int
    BY <1>1, <2>1
  <2>3. x.amount \in Int
    BY <1>1, <2>1
  <2> QED
    BY <2>2, <2>3
<1>3. /\ b.amount \in Int /\ c.amount \in Int /\ d.amount \in Int
      /\ createdAt[b.req] \in Int /\ createdAt[c.req] \in Int /\ createdAt[d.req] \in Int
  BY <1>2
<1> QED
  BY <1>3 DEF SortsBefore

\* The time of a request that has a row is never written again.
LEMMA TopFrame ==
  ASSUME TypeOK, TopInv, bids' = bids,
         \A i \in DOMAIN bids : createdAt'[bids[i].req] = createdAt[bids[i].req]
  PROVE  TopInv'
<1>1. BidRows' = BidRows
  BY DEF BidRows
<1>2. \A b \in BidRows : createdAt'[b.req] = createdAt[b.req]
  BY DEF BidRows
<1>3. \A b, c \in BidRows : SortsBefore(b, c)' <=> SortsBefore(b, c)
  BY <1>2 DEF SortsBefore
<1> QED
  BY <1>1, <1>3 DEF TopInv, TopBids

\* A new row comes first, or leaves the first row where it is.
LEMMA TopAppend ==
  ASSUME TypeOK, TopInv, NEW row \in Bid, bids' = Append(bids, row), createdAt' = createdAt
  PROVE  TopInv'
<1>1. BidRows' = BidRows \cup {row}
  <2>1. bids \in Seq(Bid)
    BY DEF TypeOK
  <2>2. /\ DOMAIN bids' = DOMAIN bids \cup {Len(bids) + 1}
        /\ \A i \in DOMAIN bids : bids'[i] = bids[i]
        /\ bids'[Len(bids) + 1] = row
    BY <2>1
  <2> QED
    BY <2>2 DEF BidRows
<1>2. \A b, c : SortsBefore(b, c)' <=> SortsBefore(b, c)
  BY DEF SortsBefore
<1>3. BidRows \subseteq Bid
  BY RowsTyped
<1>4. CASE \A c \in BidRows : ~ SortsBefore(c, row)
  <2>1. ~ SortsBefore(row, row)
    BY OrderFacts
  <2>2. row \in TopBids'
    BY <1>1, <1>2, <1>4, <2>1 DEF TopBids
  <2> QED
    BY <2>2 DEF TopInv
<1>5. CASE \E c \in BidRows : SortsBefore(c, row)
  <2>1. PICK c \in BidRows : SortsBefore(c, row)
    BY <1>5
  <2>2. PICK b \in TopBids : TRUE
    BY <2>1 DEF TopInv
  <2>3. b \in BidRows /\ \A d \in BidRows : ~ SortsBefore(d, b)
    BY DEF TopBids
  <2>4. ~ SortsBefore(row, b)
    BY <1>3, <2>1, <2>3, OrderFacts
  <2>5. b \in TopBids'
    BY <1>1, <1>2, <2>3, <2>4 DEF TopBids
  <2> QED
    BY <2>5 DEF TopInv
<1> QED
  BY <1>4, <1>5

LEMMA TopStep == TypeOK /\ RowsInv /\ TopInv /\ [Next]_vars => TopInv'
<1> SUFFICES ASSUME TypeOK, RowsInv, TopInv, [Next]_vars PROVE TopInv'
  OBVIOUS
<1>1. CASE bids' = bids /\ createdAt' = createdAt
  BY <1>1, TopFrame
<1>2. ASSUME NEW r \in Requests, ReadHighest(r) PROVE TopInv'
  <2>1. /\ pc[r] = "highest" /\ bids' = bids
        /\ createdAt' = createdAt \/ createdAt' = [createdAt EXCEPT ![r] = now]
    BY <1>2 DEF ReadHighest, dbVars
  <2>2. \A i \in DOMAIN bids : bids[i].req \in Requests /\ bids[i].req # r
    BY <2>1, RowsTyped DEF RowsInv, Bid
  <2>3. createdAt \in [Requests -> Nat]
    BY DEF TypeOK
  <2>4. \A i \in DOMAIN bids : createdAt'[bids[i].req] = createdAt[bids[i].req]
    BY <2>1, <2>2, <2>3
  <2> QED
    BY <2>1, <2>4, TopFrame
<1>3. ASSUME NEW r \in Requests, Commit(r) PROVE TopInv'
  <2>1. [req |-> r, amount |-> Stored[amount[r]]] \in Bid
    BY Constants DEF ConstantsOK, Bid, TypeOK
  <2> QED
    BY <1>3, <2>1, TopAppend DEF Commit, CommitRows
<1>4. ASSUME NEW r \in Requests,
             ReadAuction(r) \/ TxRead(r) \/ TxUpdate(r) \/ Publish(r) \/ Fail(r)
      PROVE  TopInv'
  BY <1>1, <1>4 DEF ReadAuction, TxRead, TxUpdate, Publish, Fail, dbVars
<1>5. ASSUME NEW r \in Requests, NEW a \in Amounts, Submit(r, a) PROVE TopInv'
  BY <1>1, <1>5 DEF Submit, dbVars
<1>6. ASSUME NEW e \in EndCalls, EndRead(e) \/ EndStep(e) \/ EndFail(e) PROVE TopInv'
  BY <1>1, <1>6 DEF EndRead, EndStep, EndHighest, EndUpdate, EndPublish, EndFail,
                    reqVars, dbVars
<1>7. CASE Tick \/ UNCHANGED vars
  BY <1>1, <1>7 DEF Tick, vars, reqVars, dbVars
<1> QED
  BY <1>2, <1>3, <1>4, <1>5, <1>6, <1>7 DEF Next, PlaceBidStep

LEMMA TopInvariant == Spec => []TopInv
BY TypeInvariant, RowsInvariant, TopInit, TopStep, PTL DEF Spec

LEMMA EnderStep ==
  TypeOK /\ TopInv /\ EnderInv /\ [Next]_vars => EnderInv'
<1> SUFFICES ASSUME TypeOK, TopInv, EnderInv, [Next]_vars
             PROVE  EnderInv'
  OBVIOUS
<1> USE DEF reqVars, endVars, dbVars
<1>1. CASE Tick
  BY <1>1, EnderFrame DEF Tick
<1>2. ASSUME NEW r \in Requests, NEW a \in Amounts, Submit(r, a) PROVE EnderInv'
  BY <1>2, EnderFrame DEF Submit
<1>3. ASSUME NEW r \in Requests, ReadAuction(r) PROVE EnderInv'
  BY <1>3, EnderFrame DEF ReadAuction
<1>4. ASSUME NEW r \in Requests, ReadHighest(r) PROVE EnderInv'
  BY <1>4, EnderFrame DEF ReadHighest
<1>5. ASSUME NEW r \in Requests, TxRead(r) PROVE EnderInv'
  BY <1>5, EnderFrame DEF TxRead
<1>6. ASSUME NEW r \in Requests, TxUpdate(r) PROVE EnderInv'
  BY <1>6, EnderFrame DEF TxUpdate
<1>7. ASSUME NEW r \in Requests, Commit(r) PROVE EnderInv'
  <2>1. [req |-> r, amount |-> Stored[amount[r]]] \in Bid
    BY Constants DEF ConstantsOK, Bid, TypeOK
  <2> QED
    BY <1>7, <2>1, EnderFrame DEF Commit, CommitRows
<1>8. ASSUME NEW r \in Requests, Publish(r) PROVE EnderInv'
  BY <1>8, EnderFrame DEF Publish
<1>9. ASSUME NEW r \in Requests, Fail(r) PROVE EnderInv'
  BY <1>9, EnderFrame DEF Fail
<1>10. ASSUME NEW e \in EndCalls, EndRead(e) PROVE EnderInv'
  <2>1. /\ known' = [known EXCEPT ![e] = Len(bids)]
        /\ bids' = bids /\ winner' = winner /\ final' = final /\ unread' = unread
        /\ epc[e] = "idle"
        /\ epc' = [epc EXCEPT ![e] = IF IsEnded THEN "stopped" ELSE "highest"]
    BY <1>10 DEF EndRead, EGoto
  <2>2. winner[e] = NoOne /\ known'[e] = Len(bids) /\ Len(bids) \in Nat
    BY <2>1 DEF EnderInv, TypeOK
  <2>3. epc'[e] \in {"highest", "stopped"}
    BY <2>1 DEF TypeOK
  <2>4. \A f \in EndCalls \ {e} : epc'[f] = epc[f] /\ known'[f] = known[f]
    BY <2>1 DEF TypeOK
  <2>5. \A f \in EndCalls \ {e} : WinnerIsRow(f)' = WinnerIsRow(f)
    BY <2>1, <2>4 DEF WinnerIsRow
  <2> QED
    BY <2>1, <2>2, <2>3, <2>4, <2>5 DEF EnderInv
<1>11. ASSUME NEW e \in EndCalls, EndHighest(e) PROVE EnderInv'
  <2>1. /\ known' = known /\ bids' = bids /\ epc[e] = "highest"
        /\ epc' = [epc EXCEPT ![e] = "update"]
    BY <1>11 DEF EndHighest, EGoto
  <2>2. epc'[e] = "update" /\ \A f \in EndCalls \ {e} : epc'[f] = epc[f]
    BY <2>1 DEF TypeOK
  <2>3. ASSUME winner' = winner, final' = final, unread \subseteq unread',
               e \in unread' \/ known[e] = 0
        PROVE  EnderInv'
    <3>1. \A f \in EndCalls : WinnerIsRow(f)' = WinnerIsRow(f)
      BY <2>1, <2>3 DEF WinnerIsRow
    <3> QED
      BY <2>1, <2>2, <2>3, <3>1 DEF EnderInv
  <2>4. ASSUME TopBids = {} PROVE known[e] = 0
    <3>1. BidRows = {}
      BY <2>4 DEF TopInv
    <3>2. Len(bids) = 0
      <4>1. Len(bids) \in Nat /\ DOMAIN bids = 1 .. Len(bids)
        BY DEF TypeOK
      <4>2. 1 \notin 1 .. Len(bids)
        BY <3>1, <4>1 DEF BidRows
      <4> QED
        BY <4>1, <4>2
    <3> QED
      BY <3>2 DEF EnderInv, TypeOK
  <2>5. ASSUME NEW b \in TopBids, winner' = [winner EXCEPT ![e] = b.req],
               final' = [final EXCEPT ![e] = b.amount], unread' = unread
        PROVE  EnderInv'
    <3>1. PICK i \in DOMAIN bids : b = bids[i]
      BY DEF TopBids, BidRows
    <3>2. \A j \in DOMAIN bids : bids[j].amount <= b.amount
      <4>1. ASSUME NEW j \in DOMAIN bids PROVE bids[j].amount <= b.amount
        <5>1. b.amount \in Int /\ bids[j].amount \in Int
          BY RowsTyped, Constants DEF Bid, ConstantsOK
        <5> QED
          BY <5>1, TopIsHighest
      <4> QED
        BY <4>1
    <3>3. WinnerIsRow(e)'
      BY <2>1, <2>5, <3>1, <3>2 DEF WinnerIsRow, TypeOK
    <3>4. \A f \in EndCalls \ {e} : WinnerIsRow(f)' = WinnerIsRow(f)
      BY <2>1, <2>5 DEF WinnerIsRow, TypeOK
    <3>5. \A f \in EndCalls \ {e} : winner'[f] = winner[f]
      BY <2>5 DEF TypeOK
    <3>6. winner'[e] # NoOne
      <4>1. winner'[e] = b.req /\ b.req \in Requests
        BY <2>5, RowsTyped DEF TypeOK
      <4> QED
        BY <4>1, Constants DEF ConstantsOK
    <3> QED
      BY <2>1, <2>2, <2>5, <3>3, <3>4, <3>5, <3>6 DEF EnderInv
  <2>6. CASE TakeHighest(e) /\ UNCHANGED unread
    BY <2>3, <2>4, <2>5, <2>6 DEF TakeHighest
  <2>7. CASE unread' = unread \cup {e} /\ UNCHANGED <<winner, final>>
    BY <2>3, <2>7
  <2> QED
    BY <1>11, <2>6, <2>7 DEF EndHighest
<1>12. ASSUME NEW e \in EndCalls, EndUpdate(e) PROVE EnderInv'
  <2>1. epc \in [EndCalls -> EPCs] /\ epc[e] = "update" /\ epc' = [epc EXCEPT ![e] = "publish"]
    BY <1>12 DEF EndUpdate, EGoto, TypeOK
  <2> QED
    BY <1>12, <2>1, EnderFrame DEF EndUpdate
<1>13. ASSUME NEW e \in EndCalls, EndPublish(e) PROVE EnderInv'
  <2>1. /\ epc \in [EndCalls -> EPCs] /\ epc[e] = "publish"
        /\ epc' = [epc EXCEPT ![e] = "announced"]
    BY <1>13 DEF EndPublish, EGoto, TypeOK
  <2> QED
    BY <1>13, <2>1, EnderFrame DEF EndPublish
<1>14. ASSUME NEW e \in EndCalls, EndFail(e) PROVE EnderInv'
  <2>1. epc \in [EndCalls -> EPCs] /\ epc' = [epc EXCEPT ![e] = "stopped"]
    BY <1>14 DEF EndFail, EGoto, TypeOK
  <2> QED
    BY <1>14, <2>1, EnderFrame DEF EndFail
<1>15. CASE UNCHANGED vars
  BY <1>15, EnderFrame DEF vars
<1> QED
  BY <1>1, <1>2, <1>3, <1>4, <1>5, <1>6, <1>7, <1>8,
     <1>9, <1>10, <1>11, <1>12, <1>13, <1>14, <1>15
     DEF Next, PlaceBidStep, EndStep

LEMMA EnderInvariant == Spec => []EnderInv
BY TypeInvariant, TopInvariant, EnderInit, EnderStep, PTL DEF Spec

\* Whatever bids and enders run at the same time, an announced winner is a bid of
\* the table, and none that was there when the ender read the row is above it.
THEOREM WinnerInvariant == Spec => []AnnouncedWinnerSound
<1>1. EnderInv => AnnouncedWinnerSound
  BY DEF EnderInv, WinnerIsRow, AnnouncedWinnerSound
<1> QED
  BY <1>1, EnderInvariant, PTL

\* An auction that had a bid when the ender read its row is announced without a
\* winner only when the query for the highest bid failed: GetHighestBid always
\* finds one (TopInvariant), and bids are never taken back.
THEOREM WinnerlessInvariant == Spec => []WinnerlessHasCause
<1>1. EnderInv => WinnerlessHasCause
  BY DEF EnderInv, WinnerlessHasCause
<1> QED
  BY <1>1, EnderInvariant, PTL

-----------------------------------------------------------------------------
(* What the code keeps of the third sentence: the price falls to a price   *)
(* that a call has read before ending the auction, and to no other         *)

\* No price is below the starting price.
FloorInv ==
  /\ auction.currentPrice >= StartingPrice
  /\ \A r \in Requests : seen[r] >= StartingPrice
  /\ \A e \in EndCalls : snap[e] >= StartingPrice
  /\ \A i \in DOMAIN bids : bids[i].amount >= StartingPrice

LEMMA FloorInit == Init => FloorInv
BY Constants DEF ConstantsOK, Init, FloorInv

LEMMA FloorStep == TypeOK /\ LockInv /\ FloorInv /\ [Next]_vars => FloorInv'
<1> SUFFICES ASSUME TypeOK, LockInv, FloorInv, [Next]_vars PROVE FloorInv'
  OBVIOUS
<1> USE DEF TypeOK, FloorInv, reqVars, endVars, dbVars
<1>1. CASE Tick
  BY <1>1 DEF Tick
<1>2. ASSUME NEW r \in Requests, NEW a \in Amounts, Submit(r, a) PROVE FloorInv'
  BY <1>2 DEF Submit
<1>3. ASSUME NEW r \in Requests, ReadAuction(r) PROVE FloorInv'
  BY <1>3 DEF ReadAuction
<1>4. ASSUME NEW r \in Requests, ReadHighest(r) PROVE FloorInv'
  BY <1>4 DEF ReadHighest
<1>5. ASSUME NEW r \in Requests, TxRead(r) PROVE FloorInv'
  BY <1>5 DEF TxRead
<1>6. ASSUME NEW r \in Requests, TxUpdate(r) PROVE FloorInv'
  BY <1>6 DEF TxUpdate
<1>7. ASSUME NEW r \in Requests, Commit(r) PROVE FloorInv'
  <2>1. amount[r] > seen[r] /\ seen[r] >= StartingPrice
    BY <1>7 DEF LockInv, Commit
  <2>2. /\ amount[r] \in Amounts /\ Stored[amount[r]] \in Amounts /\ StartingPrice \in Amounts
        /\ amount[r] \in Int /\ seen[r] \in Int
        /\ StartingPrice \in Int /\ Stored[amount[r]] \in Int
    <3>1. /\ amount[r] \in Amounts /\ Stored[amount[r]] \in Amounts
          /\ StartingPrice \in Amounts /\ seen[r] \in Amounts
      BY Constants DEF ConstantsOK
    <3>2. Amounts \subseteq Int
      BY Constants DEF ConstantsOK
    <3> QED
      BY <3>1, <3>2
  <2>3. Stored[amount[r]] >= StartingPrice
    <3>1. StartingPrice <= amount[r]
      BY <2>1, <2>2
    <3>2. Stored[StartingPrice] <= Stored[amount[r]]
      BY <2>2, <3>1, Constants DEF ConstantsOK
    <3> QED
      BY <2>2, <3>2, Constants DEF ConstantsOK
  <2>4. /\ auction'.currentPrice = Stored[amount[r]] /\ bids \in Seq(Bid)
        /\ bids' = Append(bids, [req |-> r, amount |-> Stored[amount[r]]])
        /\ seen' = seen /\ snap' = snap
    BY <1>7 DEF Commit, CommitRows
  <2>5. \A i \in DOMAIN bids' : bids'[i].amount >= StartingPrice
    BY <2>3, <2>4
  <2> QED
    BY <2>3, <2>4, <2>5
<1>8. ASSUME NEW r \in Requests, Publish(r) PROVE FloorInv'
  BY <1>8 DEF Publish
<1>9. ASSUME NEW r \in Requests, Fail(r) PROVE FloorInv'
  BY <1>9 DEF Fail
<1>10. ASSUME NEW e \in EndCalls, EndRead(e) PROVE FloorInv'
  BY <1>10 DEF EndRead
<1>11. ASSUME NEW e \in EndCalls, EndHighest(e) PROVE FloorInv'
  BY <1>11 DEF EndHighest
<1>12. ASSUME NEW e \in EndCalls, EndUpdate(e) PROVE FloorInv'
  BY <1>12 DEF EndUpdate
<1>13. ASSUME NEW e \in EndCalls, EndPublish(e) PROVE FloorInv'
  BY <1>13 DEF EndPublish
<1>14. ASSUME NEW e \in EndCalls, EndFail(e) PROVE FloorInv'
  BY <1>14 DEF EndFail
<1>15. CASE UNCHANGED vars
  BY <1>15 DEF vars
<1> QED
  BY <1>1, <1>2, <1>3, <1>4, <1>5, <1>6, <1>7, <1>8,
     <1>9, <1>10, <1>11, <1>12, <1>13, <1>14, <1>15
     DEF Next, PlaceBidStep, EndStep

LEMMA FloorInvariant == Spec => []FloorInv
BY TypeInvariant, LockInvariant, FloorInit, FloorStep, PTL DEF Spec

\* A bid at least as high as what the ender read first, if that was a bid.
Covered(e) ==
  \/ snap[e] = StartingPrice
  \/ \E i \in DOMAIN bids : bids[i].amount >= snap[e]

\* A price that is in the row, or that an ender has read, is the starting price
\* or no more than a bid of the table.
BackedInv ==
  /\ \/ auction.currentPrice = StartingPrice
     \/ \E i \in DOMAIN bids : bids[i].amount >= auction.currentPrice
  /\ \A e \in EndCalls : Covered(e)

\* Bids are never taken back: what backs a price stays.
LEMMA BackedFrame ==
  ASSUME BackedInv, bids' = bids,
         UNCHANGED auction \/ \E e \in EndCalls : auction'.currentPrice = snap[e],
         \A e \in EndCalls : snap'[e] \in {snap[e], auction.currentPrice}
  PROVE  BackedInv'
BY DEF BackedInv, Covered

LEMMA BackedStep == TypeOK /\ BackedInv /\ [Next]_vars => BackedInv'
<1> SUFFICES ASSUME TypeOK, BackedInv, [Next]_vars PROVE BackedInv'
  OBVIOUS
<1>1. UNCHANGED <<auction, snap, bids>> => BackedInv'
  BY BackedFrame
<1>2. ASSUME NEW r \in Requests, Commit(r) PROVE BackedInv'
  <2>1. /\ auction'.currentPrice = Stored[amount[r]] /\ snap' = snap
        /\ bids' = Append(bids, [req |-> r, amount |-> Stored[amount[r]]])
    BY <1>2 DEF TypeOK, Commit, CommitRows, endVars
  <2>2. Stored[amount[r]] \in Int
    <3>1. Stored[amount[r]] \in Amounts
      BY Constants DEF ConstantsOK, TypeOK
    <3> QED
      BY <3>1, Constants DEF ConstantsOK
  <2>3. /\ \A i \in DOMAIN bids : i \in DOMAIN bids' /\ bids'[i] = bids[i]
        /\ Len(bids) + 1 \in DOMAIN bids'
        /\ bids'[Len(bids) + 1].amount = Stored[amount[r]]
    <3>1. bids \in Seq(Bid)
      BY DEF TypeOK
    <3> QED
      BY <2>1, <3>1
  <2>4. \A e \in EndCalls : Covered(e)'
    BY <2>1, <2>3 DEF BackedInv, Covered
  <2>5. \E i \in DOMAIN bids' : bids'[i].amount >= auction'.currentPrice
    BY <2>1, <2>2, <2>3
  <2> QED
    BY <2>4, <2>5 DEF BackedInv
<1>3. ASSUME NEW e \in EndCalls, EndRead(e) PROVE BackedInv'
  <2>1. /\ snap' = [snap EXCEPT ![e] = auction.currentPrice]
        /\ auction' = auction /\ bids' = bids
    BY <1>3 DEF EndRead, dbVars
  <2>2. \A f \in EndCalls : snap'[f] \in {snap[f], auction.currentPrice}
    BY <2>1 DEF TypeOK
  <2> QED
    BY <2>1, <2>2, BackedFrame
<1>4. ASSUME NEW e \in EndCalls, EndUpdate(e) PROVE BackedInv'
  <2>1. auction'.currentPrice = snap[e] /\ bids' = bids /\ snap' = snap
    BY <1>4 DEF EndUpdate
  <2> QED
    BY <2>1, BackedFrame
<1>5. ASSUME NEW r \in Requests, PlaceBidStep(r) \/ Fail(r) \/ \E a \in Amounts : Submit(r, a),
             ~Commit(r)
      PROVE  UNCHANGED <<auction, snap, bids>>
  BY <1>5 DEF PlaceBidStep, Submit, ReadAuction, ReadHighest, TxRead, TxUpdate, Publish, Fail,
              endVars, dbVars
<1>6. ASSUME NEW e \in EndCalls, EndHighest(e) \/ EndPublish(e) \/ EndFail(e)
      PROVE  UNCHANGED <<auction, snap, bids>>
  BY <1>6 DEF EndHighest, EndPublish, EndFail, dbVars
<1>7. Tick \/ UNCHANGED vars => UNCHANGED <<auction, snap, bids>>
  BY DEF Tick, vars, endVars, dbVars
<1> QED
  BY <1>1, <1>2, <1>3, <1>4, <1>5, <1>6, <1>7 DEF Next, EndStep

\* The price is lowered only by a call that ends the auction: it writes back what
\* it read before a bid that is in the table by now.
FallsOnlyToStale ==
  [][auction'.currentPrice < auction.currentPrice =>
       \E e \in EndCalls, i \in DOMAIN bids :
         /\ auction' = [status |-> "ended", currentPrice |-> snap[e]]
         /\ snap[e] < bids[i].amount]_vars

\* Every fall of the price (the run PriceNeverFalls) is one lost update: the
\* UPDATE of a call that ends the auction, which writes all columns, over a bid
\* committed since that call read the row.
THEOREM FallProperty == Spec => FallsOnlyToStale
<1>1. TypeOK /\ LockInv /\ RoundedInv /\ FloorInv /\ BackedInv /\ [Next]_vars =>
        [auction'.currentPrice < auction.currentPrice =>
           \E e \in EndCalls, i \in DOMAIN bids :
             /\ auction' = [status |-> "ended", currentPrice |-> snap[e]]
             /\ snap[e] < bids[i].amount]_vars
  <2> SUFFICES ASSUME TypeOK, LockInv, RoundedInv, FloorInv, BackedInv, Next,
                      auction'.currentPrice < auction.currentPrice
               PROVE  \E e \in EndCalls, i \in DOMAIN bids :
                        /\ auction' = [status |-> "ended", currentPrice |-> snap[e]]
                        /\ snap[e] < bids[i].amount
    OBVIOUS
  <2>1. auction.currentPrice \in Int /\ StartingPrice \in Int
    <3>1. auction.currentPrice \in Amounts /\ StartingPrice \in Amounts
      BY Constants DEF ConstantsOK, TypeOK
    <3> QED
      BY <3>1, Constants DEF ConstantsOK
  <2>2. auction' # auction
    BY <2>1
  <2>3. ASSUME NEW r \in Requests PROVE ~Commit(r)
    <3>1. SUFFICES ASSUME Commit(r) PROVE FALSE
      OBVIOUS
    <3>2. auction'.currentPrice = Stored[amount[r]] /\ Stored[amount[r]] \in Amounts
      BY <3>1, Constants DEF ConstantsOK, TypeOK, Commit, CommitRows
    <3>3. auction'.currentPrice \in Int
      BY <3>2, Constants DEF ConstantsOK
    <3> QED
      BY <2>1, <3>1, <3>3, CommitRaises
  <2>4. PICK e \in EndCalls : EndUpdate(e)
    <3>1. ASSUME NEW r \in Requests, PlaceBidStep(r) \/ Fail(r) \/ \E a \in Amounts : Submit(r, a)
          PROVE  auction' = auction
      BY <2>3, <3>1 DEF PlaceBidStep, Submit, ReadAuction, ReadHighest, TxRead, TxUpdate, Publish,
                        Fail, dbVars
    <3>2. ASSUME NEW e \in EndCalls,
                 EndRead(e) \/ EndHighest(e) \/ EndPublish(e) \/ EndFail(e)
          PROVE  auction' = auction
      BY <3>2 DEF EndRead, EndHighest, EndPublish, EndFail, dbVars
    <3>3. Tick => auction' = auction
      BY DEF Tick, dbVars
    <3> QED
      BY <2>2, <3>1, <3>2, <3>3 DEF Next, EndStep
  <2>5. auction' = [status |-> "ended", currentPrice |-> snap[e]]
    BY <2>4 DEF EndUpdate
  <2>6. snap[e] \in Int /\ snap[e] >= StartingPrice /\ snap[e] < auction.currentPrice
    <3>1. snap[e] \in Int
      BY Constants DEF ConstantsOK, TypeOK
    <3> QED
      BY <2>5, <3>1 DEF FloorInv
  <2>7. PICK i \in DOMAIN bids : bids[i].amount >= auction.currentPrice
    BY <2>1, <2>6 DEF BackedInv
  <2>8. bids[i].amount \in Int
    BY RowsTyped, Constants DEF Bid, ConstantsOK
  <2>9. snap[e] < bids[i].amount
    BY <2>1, <2>6, <2>7, <2>8
  <2> QED
    BY <2>5, <2>9
<1>2. Init => RoundedInv /\ BackedInv
  BY Constants DEF ConstantsOK, Init, RoundedInv, BackedInv, Covered
<1> QED
  BY <1>1, <1>2, RoundedStep, BackedStep, TypeInvariant, LockInvariant, FloorInvariant,
     PTL DEF Spec, FallsOnlyToStale

-----------------------------------------------------------------------------
(* The refinement                                                          *)

\* The abstract bids, the mapping applied.
LEMMA AbstractHasBid == \A r : Abstract!HasBid(r) <=> \E i \in DOMAIN bids : bids[i].req = r
BY DEF Abstract!HasBid

LEMMA AbstractInit == Init => Abstract!Init
BY DEF Init, Abstract!Init, inFlight

\* A step that moves only requests outside the transaction, or enders before
\* they write, is invisible.
LEMMA AbstractStutter ==
  ASSUME auction' = auction, bids' = bids,
         \A r \in Requests : pc'[r] \in {"update", "commit"} <=> pc[r] \in {"update", "commit"}
  PROVE  UNCHANGED Abstract!vars
BY DEF Abstract!vars, inFlight

\* A request that leaves the transaction without a bid withdraws, if the auction
\* has ended meanwhile.
LEMMA AbstractLeave ==
  ASSUME NEW r \in Requests, auction' = auction, bids' = bids,
         pc[r] \in {"update", "commit"}, pc'[r] \notin {"update", "commit"},
         \A q \in Requests \ {r} : pc'[q] = pc[q]
  PROVE  [Abstract!Next]_(Abstract!vars)
<1>1. CASE auction.status = "active"
  BY <1>1 DEF inFlight, Abstract!vars
<1>2. CASE auction.status # "active"
  <2>1. r \in inFlight /\ inFlight' = inFlight \ {r}
    BY <1>2 DEF inFlight
  <2>2. Abstract!Withdraw(r)
    BY <1>2, <2>1 DEF Abstract!Withdraw
  <2> QED
    BY <2>2 DEF Abstract!Next
<1> QED
  BY <1>1, <1>2

LEMMA AbstractStep ==
  TypeOK /\ LockInv /\ RowsInv /\ PriceInv /\ [Next]_vars => [Abstract!Next]_(Abstract!vars)
<1> SUFFICES ASSUME TypeOK, LockInv, RowsInv, PriceInv, [Next]_vars
             PROVE  [Abstract!Next]_(Abstract!vars)
  OBVIOUS
<1> USE DEF reqVars, endVars, dbVars
<1>1. CASE Tick
  BY <1>1, AbstractStutter DEF Tick
<1>2. ASSUME NEW r \in Requests, NEW a \in Amounts, Submit(r, a) PROVE [Abstract!Next]_(Abstract!vars)
  <2>1. \A q \in Requests : pc'[q] \in {"update", "commit"} <=> pc[q] \in {"update", "commit"}
    BY <1>2 DEF Submit, Goto, TypeOK
  <2> QED
    BY <1>2, <2>1, AbstractStutter DEF Submit
<1>3. ASSUME NEW r \in Requests, ReadAuction(r) PROVE [Abstract!Next]_(Abstract!vars)
  <2>1. \A q \in Requests : pc'[q] \in {"update", "commit"} <=> pc[q] \in {"update", "commit"}
    BY <1>3 DEF ReadAuction, CanBid, AuctionStarted, Goto, TypeOK
  <2> QED
    BY <1>3, <2>1, AbstractStutter DEF ReadAuction
<1>4. ASSUME NEW r \in Requests, ReadHighest(r) PROVE [Abstract!Next]_(Abstract!vars)
  <2>1. \A q \in Requests : pc'[q] \in {"update", "commit"} <=> pc[q] \in {"update", "commit"}
    BY <1>4 DEF ReadHighest, Goto, TypeOK
  <2> QED
    BY <1>4, <2>1, AbstractStutter DEF ReadHighest
<1>5. ASSUME NEW r \in Requests, TxRead(r) PROVE [Abstract!Next]_(Abstract!vars)
  <2>1. CASE pc'[r] = "update"
    <3>1. auction.status = "active" /\ auction' = auction /\ bids' = bids
      BY <1>5, <2>1 DEF TxRead, StillActive, Goto, TypeOK
    <3> QED
      BY <3>1 DEF inFlight, Abstract!vars
  <2>2. CASE pc'[r] # "update"
    <3>1. \A q \in Requests : pc'[q] \in {"update", "commit"} <=> pc[q] \in {"update", "commit"}
      BY <1>5, <2>2 DEF TxRead, Goto, TypeOK
    <3> QED
      BY <1>5, <3>1, AbstractStutter DEF TxRead
  <2> QED
    BY <2>1, <2>2
<1>6. ASSUME NEW r \in Requests, TxUpdate(r) PROVE [Abstract!Next]_(Abstract!vars)
  <2>1. CASE pc'[r] = "commit"
    <3>1. \A q \in Requests : pc'[q] \in {"update", "commit"} <=> pc[q] \in {"update", "commit"}
      BY <1>6, <2>1 DEF TxUpdate, Goto, TypeOK
    <3> QED
      BY <1>6, <3>1, AbstractStutter DEF TxUpdate
  <2>2. CASE pc'[r] # "commit"
    <3>1. /\ pc[r] = "update" /\ pc'[r] = "conflict" /\ auction' = auction /\ bids' = bids
          /\ \A q \in Requests \ {r} : pc'[q] = pc[q]
      BY <1>6, <2>2 DEF TxUpdate, Goto, TypeOK
    <3> QED
      BY <3>1, AbstractLeave
  <2> QED
    BY <2>1, <2>2
<1>7. ASSUME NEW r \in Requests, Commit(r) PROVE [Abstract!Next]_(Abstract!vars)
  <2>1. /\ bids' = Append(bids, [req |-> r, amount |-> Stored[amount[r]]])
        /\ auction'.status = auction.status
        /\ pc[r] = "commit" /\ pc'[r] \in {"publish", "failed"}
        /\ \A q \in Requests \ {r} : pc'[q] = pc[q]
        /\ amount[r] \in Amounts
    BY <1>7 DEF Commit, CommitRows, Goto, TypeOK
  <2>2. CASE auction.status = "active"
    <3>1. amount[r] > Abstract!Standing
      <4>1. amount[r] > Price
        BY <2>1, <2>2 DEF LockInv, PriceInv, PriceTracksHighest
      <4>2. Abstract!Standing = Price
        <5>1. CASE Len(bids) = 0
          BY <5>1 DEF Abstract!Standing, Price, PriceBefore, TypeOK
        <5>2. CASE Len(bids) # 0
          BY <5>2 DEF Abstract!Standing, Price, PriceBefore, TypeOK
        <5> QED
          BY <5>1, <5>2
      <4> QED
        BY <4>1, <4>2
    <3>2. ~ Abstract!HasBid(r)
      BY <2>1, AbstractHasBid DEF RowsInv
    <3>3. inFlight' = inFlight
      BY <2>1, <2>2 DEF inFlight
    <3>4. Abstract!Accept(r, amount[r])
      BY <2>1, <2>2, <3>1, <3>2, <3>3 DEF Abstract!Accept
    <3> QED
      BY <2>1, <3>4 DEF Abstract!Next
  <2>3. CASE auction.status # "active"
    <3>1. r \in inFlight /\ inFlight' = inFlight \ {r}
      BY <2>1, <2>3 DEF inFlight
    <3>2. Abstract!AcceptLate(r, amount[r])
      BY <2>1, <2>3, <3>1 DEF Abstract!AcceptLate
    <3> QED
      BY <2>1, <3>2 DEF Abstract!Next
  <2> QED
    BY <2>2, <2>3
<1>8. ASSUME NEW r \in Requests, Publish(r) PROVE [Abstract!Next]_(Abstract!vars)
  <2>1. \A q \in Requests : pc'[q] \in {"update", "commit"} <=> pc[q] \in {"update", "commit"}
    BY <1>8 DEF Publish, Goto, TypeOK
  <2> QED
    BY <1>8, <2>1, AbstractStutter DEF Publish
<1>9. ASSUME NEW r \in Requests, Fail(r) PROVE [Abstract!Next]_(Abstract!vars)
  <2>1. /\ auction' = auction /\ bids' = bids /\ pc'[r] = "failed"
        /\ \A q \in Requests \ {r} : pc'[q] = pc[q]
    BY <1>9 DEF Fail, Goto, TypeOK
  <2>2. CASE pc[r] \in {"update", "commit"}
    BY <2>1, <2>2, AbstractLeave
  <2>3. CASE pc[r] \notin {"update", "commit"}
    BY <2>1, <2>3, AbstractStutter
  <2> QED
    BY <2>2, <2>3
<1>10. ASSUME NEW e \in EndCalls, EndRead(e) PROVE [Abstract!Next]_(Abstract!vars)
  BY <1>10, AbstractStutter DEF EndRead
<1>11. ASSUME NEW e \in EndCalls, EndHighest(e) PROVE [Abstract!Next]_(Abstract!vars)
  BY <1>11, AbstractStutter DEF EndHighest
<1>12. ASSUME NEW e \in EndCalls, EndUpdate(e) PROVE [Abstract!Next]_(Abstract!vars)
  <2>1. /\ auction'.status = "ended" /\ pc' = pc /\ bids' = bids
    BY <1>12 DEF EndUpdate
  <2>2. CASE auction.status = "active"
    <3>1. \A q \in inFlight' : q \in Requests /\ ~ Abstract!HasBid(q)
      BY <2>1, AbstractHasBid DEF inFlight, RowsInv
    <3>2. Abstract!Close
      BY <2>1, <2>2, <3>1 DEF Abstract!Close
    <3> QED
      BY <3>2 DEF Abstract!Next
  <2>3. CASE auction.status # "active"
    BY <2>1, <2>3 DEF inFlight, Abstract!vars
  <2> QED
    BY <2>2, <2>3
<1>13. ASSUME NEW e \in EndCalls, EndPublish(e) PROVE [Abstract!Next]_(Abstract!vars)
  BY <1>13, AbstractStutter DEF EndPublish
<1>14. ASSUME NEW e \in EndCalls, EndFail(e) PROVE [Abstract!Next]_(Abstract!vars)
  BY <1>14, AbstractStutter DEF EndFail
<1>15. CASE UNCHANGED vars
  BY <1>15, AbstractStutter DEF vars
<1> QED
  BY <1>1, <1>2, <1>3, <1>4, <1>5, <1>6, <1>7, <1>8,
     <1>9, <1>10, <1>11, <1>12, <1>13, <1>14, <1>15
     DEF Next, PlaceBidStep, EndStep

\* PlaceBid and endAuctionWithResult implement the abstract auction: once the
\* row says "ended" no request joins those that were already past the check.
THEOREM Refinement == Spec => AbstractSpec
<1>1. Spec => Abstract!Init /\ [][Abstract!Next]_(Abstract!vars)
  BY TypeInvariant, LockInvariant, RowsInvariant, PriceInvariant,
     AbstractInit, AbstractStep, PTL DEF Spec
<1> QED
  BY <1>1 DEF AbstractSpec, Abstract!Spec
=============================================================================
