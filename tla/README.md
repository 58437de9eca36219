# Verification of the real-time auction service

TLA+ models of the auction service in `src/`, checked by TLC on small instances
and, for their safety properties, proved by TLAPS for every value of the
constants. Paths below are relative to `src/`.

Contents: 1 the system; 2 the modules and the code; 3 the properties and what
they are for; 4 the runs; 5 fairness; 6 the proofs; 7 where the code departs
from its documentation; 8 what is left out; 9 plan.

## 1. The system

A Go service in which users bid over a WebSocket. PostgreSQL keeps users, items,
auctions and bids; Redis carries the events to subscribers (pub/sub) and the
schedule of the auctions that must end (a sorted set). Several instances of the
service may run on the same two databases.

| Component | Source | State | Operations |
|---|---|---|---|
| BidService | `internal/app/bid.go` | none of its own | `PlaceBid`, `GetBids`, `GetHighestBid` |
| Bid repository | `internal/adapters/db/bid_repository.go` | table `bids`; `auctions.current_price` | `PlaceBidWithOCC`, `GetHighestBid` and reads |
| Connection | `internal/adapters/db/connection.go` | the open transaction | `WithTransaction`: BEGIN, body, COMMIT or ROLLBACK |
| AuctionService | `internal/app/auction.go` | none of its own | `CreateAuction`, `EndAuctionForScheduler`, `GetAuction`, `ListAuctions` |
| Auction repository | `internal/adapters/db/auction_repository.go` | table `auctions` | `Create`, `GetByID`, `GetActiveByItemID`, `Update`, `List` |
| AuctionScheduler | `internal/adapters/scheduler/auction_scheduler.go` | sorted set `auction:expirations`; a goroutine per auction being ended | `ScheduleAuction`, `Start`, `Stop`, `checkExpiredAuctions`, `endAuction` |
| RedisBroadcaster | `internal/adapters/broadcaster/redis_broadcaster.go` | `subscribers`, `pubsubs`, `clientsToAuction`; a listener per client | `Subscribe`, `Unsubscribe`, `Publish`, reads |
| WsHandler | `internal/adapters/ws/handler.go` | `clients`, `eventChannels` | connect, disconnect, one handler per message |
| WsClient | `internal/adapters/ws/client.go` | `stopped`, `sendChan`, worker pool | `Send`, `Stop`, `messageReceiver`, `messageSender` |
| Server, messages | `internal/adapters/ws/server.go`, `messages.go` | none | JSON, validation, the HTTP listener |
| Users, items | `internal/adapters/db/user_repository.go`, `item_repository.go` | their tables | lookups |
| Domain types | `internal/domain/` | none | declarations |
| Wiring | `cmd/auction-service/main.go`, `internal/config`, `internal/adapters/redis` | none | start, graceful shutdown |
| Schema | `scripts/schema.sql` | column types, constraints | none |

How they interact:

- A client's message is read by `messageReceiver`, which gives it to a worker of
  the client's pool. The workers of one client run concurrently: its messages
  may be handled in another order than they were sent.
- `PlaceBid` asks the broadcaster whether the client is subscribed, reads the
  auction and its highest bid in separate statements, and then calls
  `PlaceBidWithOCC`, a transaction that reads the auction again, inserts the bid
  and updates `current_price` where it still is the price read. It publishes
  `bid_placed` after the commit.
- `CreateAuction` looks for an active auction of the item, inserts the row and
  adds it to the sorted set, three calls without a transaction.
- Each instance's scheduler reads at most ten due members per tick and starts a
  goroutine for each. That goroutine reads the row, reads the highest bid, writes
  the row back as ended, publishes `auction_ended`, and removes the member from
  the set on every way out.
- Redis hands published events to the pubsub of each subscribed client. The
  client's listener puts them in the event channel that the *handler* created,
  and another goroutine of the handler takes them out and sends them. Both the
  handler, on a disconnect, and the broadcaster, on the last unsubscription,
  close that channel.

What is hard, and what makes each part correct:

- **Bids.** No lock is held between reading the auction and updating it; the
  update's WHERE clause is the only protection, and it tests the price alone.
  Correct means: each accepted bid raised the price it was decided against, the
  row and the table agree, nothing is published that is not committed, and
  nobody is refused as outbid without having been outbid.
- **Ending.** The ender reads the row, reads the winner and writes the *whole*
  row back with no transaction around it, while bids commit and other enders do
  the same. Correct means: bids stop, and the announced winner is the highest of
  the bids that the ender could know of.
- **Schedule.** An entry must survive everything that can happen between its
  discovery and the end of its auction, and nothing may end early.
- **Delivery.** One channel has two owners, and a subscription lives in five
  places (three maps, Redis and a goroutine). Correct means: no panic, no event
  sent twice or out of order, the broadcaster and Redis agree, and an event that
  reached a client's pubsub is sent to it.
- **The connection.** Five kinds of goroutine share `sendChan` and the connection:
  one may close the channel another is about to send on, two may write at once,
  and any of them may stop while the others wait. Correct means: a message is
  answered once, what was accepted is written in order, the process survives,
  and a client that left is cleaned up.

`PROJECT.json` lists under `hazards` every place where one of these can go
wrong, with the properties that speak of it.

## 2. The modules and the code

| Module | What it is |
|---|---|
| `AscendingAuction` | abstract specification of one auction: open, accepted bids, bids in flight at the close |
| `Bidding` | one auction row, the calls that bid on it and the calls that end it, a step per SQL statement or publication |
| `BiddingProperties` | its properties and the refinement mapping to `AscendingAuction` |
| `Bidding_proofs` | theorems about it |
| `Lifecycle` | creation, scheduling and ending of several auctions by several instances that crash and restart |
| `AuctionHouse` | abstract specification of the auctions of all items: listed, ended when due, announced, never back |
| `LifecycleProperties`, `Lifecycle_proofs` | its properties, the refinement mapping to `AuctionHouse`, its theorems |
| `Delivery` | handler, broadcaster, Redis pub/sub and the goroutines that move events to clients |
| `Feed`, `Feed_proofs` | abstract specification of what a client is sent of the auctions it follows; what follows from it |
| `DeliveryProperties`, `Delivery_proofs` | its properties, the refinement mapping to `Feed`, its theorems |
| `DeliveryFeed_proofs` | that it implements `Feed`, and what it therefore promises |
| `Listing` | the arithmetic of `list_auctions`, from limit and offset over pages to rows |
| `Outbox`, `Outbox_proofs` | abstract specification of `WsClient.Send`: what it accepts is written in order; what follows from it |
| `Client` | one connection: its goroutines, worker pool, `sendChan` and writers |
| `ClientProperties`, `Client_proofs` | its properties, the refinement mapping to `Outbox`, its theorems |
| `MCBidding`, `MCLifecycle`, `MCDelivery`, `MCClient` | the instances TLC checks |

Definitions whose comment begins with "mutant" are plausible mistakes
(a dropped guard, an off-by-one, a swapped order). No behaviour specification
uses them: they show that each property can be broken by the code it is about.

### Bidding

Constants: `Requests` are calls of `PlaceBid`, `EndCalls` calls of
`endAuctionWithResult`. A request is one call; a client that tries again is
another request. `Amounts` are what a client may send (a `float64`) and `Stored`
is what `DECIMAL(10,2)` keeps of it; the assumptions on `Stored` say that
rounding is monotone and idempotent, which is all that is used.

| Actions | Code |
|---|---|
| `Submit` | the subscription test at the start of `PlaceBid` |
| `ReadAuction` | `auctionRepo.GetByID`, `CanBid`, the start time |
| `ReadHighest` | `GetHighestBid`, the comparisons, the new bid object |
| `TxRead` | BEGIN and SELECT of `PlaceBidWithOCC` with its three checks |
| `TxUpdate` | INSERT and UPDATE with `current_price = expected` |
| `Commit`, `Publish` | COMMIT, whose answer may be lost; `bid_placed` |
| `Fail` | a failing statement, an unknown user or a crash, with the rollback |
| `EndRead`, `EndHighest`, `EndUpdate`, `EndPublish`, `EndFail` | `endAuctionWithResult` and its announcement |

PostgreSQL is modelled as READ COMMITTED: a statement sees what is committed when
it starts, `rowLock` is the transaction that has updated the auction's row, and
an UPDATE that waited for the row tests the new version again. Nothing else of
the database is assumed. A transaction that has not committed is visible only
as `rowLock`, so `bids` and `auction` change at `Commit`. `unread` and `known` are history
variables: the enders whose query for the highest bid failed, and how many bids were
in the table when an ender read the row. An ender is done after its publication,
whether or not that failed: `EndPublish` leads to "announced" either way.

### Lifecycle

`Auctions` are calls of `CreateAuction`, each with the row it may insert; `host`
is the instance that runs the call. A row here is its item, its end time and its
status. `zset` is the sorted set. The goroutines of `endAuction` carry nothing but
their auction and the statement they are at, so `jobs[i][a][s]` counts them.
`existed` is a history variable: the rows there were when a call looked for
active ones. A statement that fails may have been executed, only its answer being
lost: so a refused call may have left an active row that is in no schedule
(`CreateError` at the INSERT), a ZADD that "failed" may have added its member, and an
UPDATE that "failed" may have ended the row (`JobError`).

| Actions | Code |
|---|---|
| `Request`, `CheckItem`, `Insert`, `Schedule`, `CreateError` | `CreateAuction` up to `ScheduleAuction` |
| `CheckExpired` | one tick of the loop: ZRANGEBYSCORE with its limit, a goroutine for each member |
| `ReadRow`, `UpdateRow`, `PublishEnded`, `Remove` | `endAuction` with the deferred ZREM |
| `JobError`, `RemoveError` | any of its statements fails, or the answer of the UPDATE is lost |
| `Crash`, `Restart` | a crash or `Stop`, which cancels the context of every statement and waits for the loop only; `main` |
| `Tick` | time passes |

### Delivery

One instance and its clients. `channel` and `buffer` are the event channel of a
client, `subs`, `listed` and `listening` are `clientsToAuction`,
`subscribers`/`pubsubs` and the listener goroutine; `redis` is what the pubsub is
subscribed to and `wire` what Redis has handed it. Events are numbered in the order
of their publication, by any instance. `hand` is the event that
`listenForClientEvents` is sending. `handed` (the events Redis has put on the client's
wire), `dropped`, `gaveUp` and `failed` (the auctions whose last SUBSCRIBE or
UNSUBSCRIBE failed) are history.

| Actions | Code |
|---|---|
| `Connect`, `Disconnect`, `Unregister` | `HandleWebSocket`, `messageReceiver`, `unregisterClient` with `removeEventChannel` |
| `Receive` | a worker takes a message; several are handled at a time |
| `FindChannel`, `Subscribe` | `handleSubscribe` before and in `RedisBroadcaster.Subscribe`, which runs under its mutex |
| `Unsubscribe` | `RedisBroadcaster.Unsubscribe`; `GiveUp` is its branch for the last subscription, with the panic when the channel is closed already |
| `Publish`, `Lose` | Redis |
| `Listen` | one turn of `listenForRedisMessages`, its drop and its recovered panic |
| `Take`, `Send`, `ForwardEmpty` | `listenForClientEvents`: an event is taken and sent, two steps between which the client may be stopped; a closed channel yields empty events |

A panic in a worker is recovered by the pool. One in the goroutine that
unregisters a client or in the one that sends its events is not, and ends the
process: `panicked`.

### Client

One connection, from `HandleWebSocket` to the end of `unregisterClient`. `receiver`, `sender` and
`listener` are where `messageReceiver`, `messageSender` and
`listenForClientEvents` are; `mpc` is where each message is, in the queue of the
pool, with a worker or past it. `content` is what a message turns out to say
when it is parsed, `page` the rows of the answer to a `list_auctions`. What `Send`
has accepted is in `sendChan`, then in the sender's `hand`, then `written`; `direct`
are the messages a worker answered itself. `cancelled` and `stopped` are the
client's context and its flag, `unregistered` says that `unregisterClient` has
returned. Of the client's subscriptions *Client* keeps what its death depends on:
`subscribed` is whether the broadcaster has any, `eventChan` whether the channel in
`eventChannels` is open; the rest is *Delivery*'s.

| Actions | Code |
|---|---|
| `Read`, `Submit`, `ReadError` | `messageReceiver`: a message is read and given to the pool, which may make it wait; a read error cancels the context |
| `Start`, `Drop` | the pool: a free worker takes a message from the queue, or leaves it there when the context is cancelled |
| `Handle` | `handleMessage`, by content: `RefuseInvalid`, `HandleSubscribe`, `HandleUnsubscribe` (with the recovered panic on a channel that is closed already), `HandlePlaceBid`, `HandleRequest`, `HandleListAuctions` |
| `Check`, `SendAnswer` | `Send`, before and after its test of `stopped` |
| `Reply`, `EndReply` | the worker writes the error itself, from begin to end |
| `TakeEvent`, `SendEvent`, `EndListener` | `listenForClientEvents` and its `Send` |
| `TakeMessage`, `Written`, `WriteError`, `WritePanic`, `EndSender` | `messageSender`; also the empty message of a closed channel, and the death of the sender on an error |
| `Leave` | the other end goes away |
| `Stop`, `RemoveEventChannel` | `unregisterClient`: first it stops the client, then it closes the event channel, which panics when that is closed already |

`Listing` translates the arithmetic of three layers (`handleListAuctions`,
`ListAuctions`, `List`) with Go's division, which rounds towards zero.

*Client* and *Delivery* meet in `listenForClientEvents`: *Delivery* has the event up to
the call of `Send`, *Client* what becomes of it then. Each has the panic of a `Send`
to a stopped client, and that of closing a closed event channel, seen from its side.

Two libraries are taken from how the code uses them. The pool (`pond`) recovers the
panics of its workers, panics in `Submit` once it is stopped or its context is
cancelled, and does not run what is then still queued. The WebSocket library
allows one writer at a time and *may* panic on a second.

## 3. The properties

A property earns its place when several steps, usually of several actors, are
needed to break it. Each module has one type invariant (`TypeOK`), which also says
what a type alone does not: that no unrounded price is stored, that a call of
`CreateAuction` has no row before its INSERT and one from its success on, that a subscribed client is in both maps and has a
channel.

| Property | Says | Hazard it is for |
|---|---|---|
| `PriceTracksHighest` | while the auction is active the row shows the last and highest committed bid | two updates of one price, rollbacks, rounding |
| `BidsChain` | every bid was committed over the very price it was decided against, and offered more | the gap between SELECT and UPDATE |
| `PublishedBidsAreCommitted` | `bid_placed` only for a bid in the table, once | failures and lost COMMIT answers |
| `BidsOverwriteWhatTheyRead` | a bid overwrites the price it was decided against, and never lowers it, also once the auction has ended; one that another bid has overtaken is written only because an ender wrote an older price back | the price that matches again: a COMMIT over a price an ender has written back |
| `ConflictImpliesRival` | a bid refused as a conflict was overtaken by a rival | a spurious refusal |
| `AnnouncedWinnerSound` | an announced winner is a committed bid, and none that was there when the ender read the row is above it | a winner read apart from the row, racing enders |
| `WinnerlessHasCause` | an auction that had a bid when the ender read the row has no winner only if the query for it failed | an error that is ignored; bids and enders at the same time |
| `AbstractSpec` | bids and enders implement `AscendingAuction` | everything after the close: only bids then in flight may still land, once each |
| `AllSettle` | every call ends | waits for a row whose transaction failed |
| `EndedOnlyWhenDue` | no auction ends before the second of its end time | scores in whole seconds |
| `AnnouncedOnlyIfEnded` | `auction_ended` only for a row that says so | a failing UPDATE |
| `DoubleListingOnlyByOverlap` | an item is listed twice only by calls neither of which could see the other's row | check and insert apart |
| `HouseSpec` | creation and the schedulers of all instances implement `AuctionHouse` | goroutines and instances that race, crash and come back; whole rows written back |
| `TrackedUntilEnded` | without failing statements an active row is in the schedule or about to be, unless a crash cut its call short before the ZADD | crashes between INSERT and ZADD, crashes and shutdowns between ZRANGEBYSCORE and ZREM |
| `ScheduledEnds` | without failing statements each scheduled auction ends | an instance that stops half way, a batch full of others |
| `EndedIsAnnounced` | without failing statements and crashes each end is announced | goroutines and instances racing for one auction |
| `EndIsOnItsWay` | while nothing crashes or fails, an ended auction is announced or a goroutine is at the publication | a rival that finds the row ended and removes the entry before the event is out |
| `DeliveredInOrder` | a client is sent events in order, none twice | drops, listeners that die, resubscription |
| `HarmHasCause` | an instance dies only after a client was unregistered that had given up its last subscription or was being sent an event; only the first is sent empty events | a channel with two owners, workers that overtake each other |
| `SubscriptionsAgree` | what the broadcaster holds a client subscribed to and what Redis sends it differ only in auctions whose last call failed | a subscription recorded before the call that may fail |
| `FeedSpec` | handler, broadcaster, Redis and the client's goroutines implement `Feed` | messages of a client handled at once, drops, failing calls, listeners that die, disconnects |
| `SentOnlyDue` | a client is sent only events that Redis handed to its pubsub, of auctions it asked for | subscriptions in five places that change one after the other |
| `NothingForgotten` | each event handed to a client that stays was sent, is on its way or was dropped with a record | a subscribe or unsubscribe that replaces a channel or a listener |
| `KeptSubscriptionsDeliver` | an event handed to a client that keeps a subscription is sent or dropped for want of room | subscriptions that change meanwhile |
| `AnsweredOnce` | a message is answered at most once, and once when it was handled to its end and is no bid | a `Send` that fails is followed by an answer of the worker |
| `DeathHasCause` | a connection kills the process in three ways only: an event sent while the client is stopped, two writers, the unregistering of a client that gave up its last subscription | `Stop` against `Send`, `Submit` to a stopped pool, an event channel closed twice |
| `ListedWindow` | a list is the aligned window of `limit` rows in which the offset lies | limit and offset become a page and its size, and these a limit and offset again |
| `OutboxSpec` | `Send`, `sendChan` and `messageSender` implement `Outbox` | a sender that dies, a channel that is closed |
| `NobodyIsStuck` | once the other end is gone, some goroutine can go on until all have ended | receiver, pool, worker and sender that wait for each other |
| `GoneIsCleanedUp` | when the other end goes away every goroutine ends and the client is unregistered | a full queue, busy workers, a full channel, a dead sender |

`AscendingAuction` is the promise of the service for one auction. While it is
open an accepted bid exceeds the standing price and is the only one of its
request; the close picks the bids that are in flight, and from then on these
may be accepted or withdrawn and nothing else happens. That late bids exist at
all is the first divergence of section 7; the refinement says how far it goes.

The mapping is `open <- auction.status = "active"`, `accepted <- bids`, and
`inFlight` the requests at their UPDATE or COMMIT, once the auction is closed.

`AuctionHouse` is the promise for all auctions together: each is listed, ends and
is announced in this order and never goes back, whichever goroutine of whichever
instance does it; it ends no sooner than its end time, which does not change
once it is listed; and before it is listed somebody looks, and of what was seen
then nothing of its item is still active. A row whose INSERT was refused for want of
an answer is listed like any other. The mapping takes the row's status as it
is, the clock and the end times in whole seconds, as the scores are, and
`seen <- existed`.

`Feed` is the promise to each client: it follows auctions it has asked for, each event
of these is pending for it when it is published, the oldest pending event is sent
next, and one that is not sent is recorded as lost. Only once the client is not steady
any more may events be forgotten without a record, or auctions be followed no longer
that it did not ask to leave. The mapping takes `redis` as what the client follows,
every place between Redis and the end of `Send` (`wire`, `buffer`, `hand`) as
pending, `dropped` as lost, and every subscribe and unsubscribe message that a worker
has taken as asked for. A client is steady until it disconnects or gives up its last
subscription: the sixth divergence of section 7 is what happens then.

`Outbox` is the promise of `Send`: it accepts nothing twice and nothing after the
client is stopped, and what is written is a prefix of what was accepted. The
mapping is `open <- ~stopped` and `accepted <- written \o hand \o sendChan`; `hand`
keeps a message whose writing failed, which is accepted and never written.

## 4. The runs

`tlc -config <cfg> <module>`; every run takes less than three minutes with two
workers. Deadlock is not checked: these systems may stop, when every call has
returned, every counter is at its bound, or the process has died of a panic.

| Run | Instance | Shows |
|---|---|---|
| `MCBidding_safety` | 3 bids, 1 ender, amounts 2, 3, 4, 6 half-cents with 3 stored as 2, clock to 1 | the six safety properties, with failures at each step |
| `MCBidding_refines` | 2 bids, 2 enders, amounts 2, 3, 4 | `AbstractSpec`, `AnnouncedWinnerSound`, `WinnerlessHasCause`, `AllSettle` |
| `MCLifecycle_faults` | 2 auctions, 2 items, 2 instances, 2 ticks a second, end times 2 and 3, clock to 2, batch of 1, one crash, failing statements and lost answers | types, `EndedOnlyWhenDue`, `AnnouncedOnlyIfEnded`, `DoubleListingOnlyByOverlap`, `HouseSpec` |
| `MCLifecycle_crashes` | 2 auctions of an item, 2 instances, one crash, no failing statement | `TrackedUntilEnded`, `EndIsOnItsWay`, `ScheduledEnds`, `EndedIsAnnounced` |
| `MCDelivery_keeps` | 1 client, 2 auctions, 3 messages, channel of 1, 2 events, failing calls | the eight properties of delivery |
| `MCClient_session` | 2 messages, 1 worker, no queue, `sendChan` of 1, 1 event, limits 0 and 2 with offset 3 over 5 rows, failing reads and writes | the seven properties of a connection |
| `MCBidding_BidsOnlyWhileActive`, `MCBidding_BidsExceedHighest`, `MCBidding_PriceNeverFalls`, `MCLifecycle_OneActivePerItem`, `MCLifecycle_AuctionsEnd`, `MCDelivery_SubscribersReceive` | smaller instances | a counterexample each, section 7 |

Why these bounds are enough to be interesting:

- *Bidding.* A lost update needs two bids; a bid that meets a rival which itself
  had a rival, or finds its expected price restored, needs three. The price must
  be able to rise twice above the start (4, then 6), and one amount must change
  when stored (3). Two enders are needed for a stale write over a stale write.
  `now` matters only for the start time and for the order of equal amounts, for
  which two instants do. `Symmetric` permutes requests and enders, which no
  definition tells apart; it is used in the runs without liveness only.
- *Lifecycle.* With a batch of one, two due auctions compete for it, which is the
  limit of ten in the code. `MaxJobs` = 1 goroutine per auction *and instance*, so
  two instances give two racing goroutines for one auction. Two ticks per second
  put two end times in one second and one of them early: at tick 2 both are due by
  their score, and later ticks bring nothing new. One crash of one of two
  instances leaves the other to take over, and the crashed one may come back.
- *Delivery.* A client has its own entry in every map, so clients interact only
  by the panic of the process: one is enough for the properties of a
  client, and the proofs are for any number. Three messages make it possible to
  subscribe, give up and subscribe again, or to give up while another message
  is in flight; two events overflow a channel of one and can come out of order.
- *Client.* With one worker and no queue the second message blocks
  `messageReceiver`, as the full pool does in the code. An event and two answers
  compete for a channel of one, which is full while the sender writes, so each kind of
  `Send` can fail, wait, or meet a closed channel. Two messages are a subscription and
  its unsubscription, which closes the event channel before the client is
  unregistered. The limit of zero panics, the limit
  of 2 with offset 3 is a window that begins before its offset. One worker and
  the sender are two writers; that two *workers* write at once is in the model but
  needs a second worker, which only the theorems cover.

Every property of a passing run has at least one mutant in `PROJECT.json`, a
definition of the model changed as a plausible bug would, for which TLC finds
that property violated on the same instance.

## 5. Fairness

- *Bidding.* `PlaceBidStep` and `EndStep` are weakly fair for each call: a call
  that has begun runs in a goroutine with a database connection, and nothing but
  a row lock can hold it up. `Submit`, `EndRead`, `Fail` and `EndFail` are not
  fair: nobody need bid, end an auction, or fail.
- *Lifecycle.* `Tick`, `CreateStep`, `CheckExpired` and `JobStep` are weakly fair:
  time passes, the loop has a ticker, a goroutine or call goes on while its
  instance is up (a crash removes the goroutine). `Request`, `Crash`, `Restart`
  and all errors are not: `ScheduledEnds` therefore allows for every instance being
  down, and one that never comes back.
- *Delivery.* `Listen`, `Take` and `Send` only: the two goroutines that move events,
  `Take` as long as the client is connected, since its `select` may choose the
  cancelled context then. Whether a client reads, a worker is scheduled or Redis
  answers is left open.
- *Client.* The goroutines go on: submitting, handling, sending, stopping and
  unregistering, taking from `sendChan`. A write has no deadline, so it is fair only when it cannot block for
  ever, which is once the other end has gone or the connection is closed
  (`Unblocked`); a read must fail only once the other end has gone. The client
  owes nothing: it need not send, read or leave, and no event need arrive.

## 6. The proofs

`tlapm <module>` checks each with no time limit raised. Everything holds for any
sets of requests, enders, auctions, items, instances, clients and messages and any
bounds, under the named assumptions on constants at the head of each module; no
theorem has a hypothesis besides, except three: `TrackedInvariant` and
`OnItsWayInvariant` (no failing statement, `~Errors`, which is the properties' own
condition) and `ExceedInvariant` (`Stored[a] = a`, see below).

**`Bidding_proofs`.** The safety properties are not inductive: each layer adds
what the next needs.

1. `TypeInvariant`.
2. `LockInvariant`: the row is locked exactly by the request at its COMMIT, the
   row then still holds the price it expects, and it offers more. This is why
   the WHERE clause suffices without testing again.
3. `RowsInv`: a request has at most one row, there from its COMMIT on. It gives
   `PublishedInvariant`.
4. `PriceInv`, the conjunction of `PriceTracksHighest`, `BidsChain` and `RivalInv`:
   a request that is being decided holds the current price or has a rival. The
   step that matters is `Commit` (`PriceCommit`), where an active row's price
   passes from one bid to the next and every other pending request gets that bid
   as its rival. It gives `PriceTracksHighestInvariant`, `BidsChainInvariant` and
   `ConflictInvariant`. Here the assumption that rounding is monotone is used: an
   offer above a stored price is not stored below it.
5. `TopInv` and `EnderInv`: the highest bids exist when there are bids (`TopInv`, kept
   over each commit because there is no induction over sequences to derive it from), so an
   ender that asks for the winner gets one no lower than any of the `known` bids, or
   failed to read, or there was none; no bid is ever taken back. It gives
   `WinnerInvariant` and `WinnerlessInvariant`, whatever other enders write.
6. `RoundedInv`: the price of the row, and each price an ender is to write back, is one the
   column can hold. With `LockInv` and the monotone rounding a `Commit` does not lower
   the price, whatever enders wrote meanwhile. `OvertakenInv`: when
   a bid of the table is above the row's price, some ender has written back a price that is
   no higher than it is now, for no `Commit` lowers it. A bid that was overtaken and yet finds
   its price in the row therefore owes that to an ender. Gives `OverwriteProperty`,
   `Spec => BidsOverwriteWhatTheyRead`.
7. How far the second and third divergence of section 7 go. `ExceedInvariant`: if the
   price column stores every offer as it is (`\A a \in Amounts : Stored[a] = a`, so no
   offer has more than two decimals), each bid accepted while the auction is active does
   exceed all earlier ones, so rounding alone breaks that rule. `FallProperty`: every fall
   of the price is the UPDATE of an ender that writes back a price below a bid of
   the table. It rests on `FloorInv` (no price is below the start) and `BackedInv`: the price of the row, and each price an ender
   has read, is the starting price or no higher than some bid; so the price that
   falls was backed by a bid, which that ender has not seen.
8. `Refinement`, `Spec => AbstractSpec`: a `Commit` on an open auction is `Accept`
   (by 2 and 4), on a closed one `AcceptLate`; `Fail` and a conflict on a closed
   auction are `Withdraw`; the first `EndUpdate` is `Close`; the rest stutter.

**`Lifecycle_proofs`.**

1. `TypeOK` with `ScheduleInv`: only completed creations are in the set; goroutines
   exist only for those, and only when due. Gives `LifeTypeInvariant`.
2. `EndedInv`: a goroutine at its publication has written the row. Gives
   `DueInvariant` and `AnnouncedInvariant`.
3. `TrackedInv`: without failing statements, a goroutine at its ZREM leaves an ended
   row. Gives `TrackedInvariant`, over any number of crashes and instances.
4. `ListingInv`: of the rows a call found, those of its item had ended and stay so, for
   every call that passed the check, also one that was refused when its row was
   there (`Found`). Gives `ListingInvariant`.
5. `OnItsWayInvariant`: `EndIsOnItsWay` is inductive with the types alone. `UpdateRow` leaves
   a goroutine at the publication, and a goroutine goes on, ends or is started without
   moving another (`AdvanceKeeps`, `DropKeeps`, `SpawnKeeps`); the rivals that find the row
   ended go to their ZREM past it. It is what `EndedIsAnnounced` needs besides fairness.
6. `LifecycleImplementsHouse`, `Spec => HouseSpec`: `CheckItem` is `Look`, `Insert`, or
   the `CreateError` that leaves a row, is `List` (by 4), the first `UpdateRow`, or `JobError` that
   ends the row, is `End` (by 1 and 2, when due), the first
   `PublishEnded` is `Announce`, `Tick` is `Pass` when it completes a second; every
   later goroutine for the same auction, each crash and every other error stutters.

**`Delivery_proofs`.**

1. `TypeOK`, `ChannelInv` (a channel is closed for a reason) and `HarmHasCause`
   together. Give `DeliveryTypeInvariant` and `HarmInvariant`.
2. `SubscriptionsAgree` on top of these. Gives `AgreeInvariant`.
3. `OrderInv`: what a client has received, what is being sent to it, what is in its
   channel and what is on the wire are, one after the other, in the order of
   publication, and nothing is yet numbered beyond the last event. Gives
   `OrderInvariant`.

**`Feed_proofs`.** `FeedPromise`: what an abstract feed sends is in order, was due, and
nothing due to a steady client is forgotten. The inductive invariant says that what
is followed was asked for, what is due was published and followed, what is pending is
due, and what was sent is older than all that is pending.

**`DeliveryFeed_proofs`.**

1. `HandlingInv`: a worker handles the message it has taken, and at most one event is
   being sent to a client. With `OrderInv`, which makes the head of the chain
   `hand`, `buffer`, `wire` the oldest pending event, and the invariants of
   `Delivery_proofs` it is what the mapping needs.
2. `DeliveryImplementsFeed`, `Spec => FeedSpec`, one lemma per action, with one lemma
   `MapsTo...` per abstract step that says what of the state has to change, and
   what has to stay, to be that step. `Receive` is `Ask`, `Subscribe` `Follow`, an
   `Unsubscribe` that leaves others `Unfollow`, one that gives up, a disconnect and a
   listener that dies `Leave`, a `Send` with success `Deliver`; a full channel, an
   event refused by `Send` and `Lose` are `Lose`; a `Listen` that finds room and a `Take`
   that goes on move an event from one place of `Pending` to another and stutter.
3. The theorem of `Feed_proofs` is then used for the mapped variables
   (`INSTANCE Feed_proofs WITH ...`): what every feed promises, *Delivery* promises. Gives
   `SentOnlyDueInvariant` and `NothingForgottenInvariant` with no induction over
   *Delivery* of their own.

**`Client_proofs`.**

1. `TypeOK` with `ControlInv` and `HandInv`. The receiver has ended once the context is
   cancelled, which is why `Submit` never meets a stopped pool; the sender holds
   at most one message, none while it waits. `ChannelInv`: the event channel of a client
   that is not unregistered was closed by an unsubscribe that found a subscription,
   which there is only after a subscribe. Gives `ClientTypeInvariant` and, with
   the steps that panic, `KillInvariant`.
2. `AnsweredOnce` is inductive on top of 1: a message is past its `Send` when its answer
   is accepted, and past its worker's answer when that is written. Gives `AnswerInvariant`.
3. `PageInv`: the page of a list is what `Listing` makes of its limit and offset. The
   lemma `ListedRowsAreAligned` shows, for every positive limit, offset and number of
   rows, that these are the aligned window. Gives `ListingInvariant`.
4. `FreshInv`: no event is accepted before it arrived, and the one being sent is not yet
   accepted. With `AnsweredOnce`, which says the same of answers, whatever `Send` accepts
   is new.
5. `ClientImplementsOutbox`, `Spec => OutboxSpec`: `SendAnswer` and `SendEvent` that find
   room are `Accept` (new by 4), `Written` is `Write`, `Stop` is `Close`; what moves a
   message from `sendChan` to `hand` leaves `accepted` as it is and stutters, as does
   the rest.

6. `ReceiverInv`: a receiver that submits has read a message, and one that has ended has
   cancelled the context. `StuckInvariant` follows along the chain of who waits for whom
   (`GoesOn`): with no worker busy there is room in the pool, so nothing is queued and
   nothing waits to be submitted; then the receiver goes on or has ended; then the
   context is cancelled and everybody leaves. It holds for every number of workers and
   capacity, and is what `GoneIsCleanedUp` needs besides fairness.
7. `WrittenOnceInvariant`: of the promise of every outbox (`OutboxPromise` in
   `Outbox_proofs`, by the invariant that what is accepted is there once and what is
   written is the first of it), that nothing is accepted or written twice, for the
   mapped variables of *Client*.

Model-checked only: the liveness properties `AllSettle`, `ScheduledEnds`,
`EndedIsAnnounced`, `KeptSubscriptionsDeliver` and `GoneIsCleanedUp`, which depend on
fairness and so are outside what TLAPS proves, and the counterexamples of
section 7.

## 7. Where the code departs from its documentation

Each is a run that TLC refutes with a behaviour of the code; the README quoted is
the service's.

1. *"Bids are only accepted during auction active periods"* (README.md:23). The
   price update tests the price and not the status: a bid whose transaction read
   "active" commits after the auction was ended, as the end does not change the
   price it expects. Run `bidding_late_bid`.
2. *"Bids must exceed the current highest bid amount"* (README.md:24). Amounts are
   compared as `float64` and stored in `DECIMAL(10,2)`: a bid higher by less than half
   a cent is accepted and stored equal to the highest. Run `bidding_rounding`.
3. *"ensures we don't overwrite a more recent bid"* (README.md:122). The ender writes
   back every column it read, `current_price` included. Run
   `bidding_price_overwritten`.
4. *"Only one active auction per item at any time"* (README.md:26). The check and the
   insert are two statements and the schema has no constraint. Run
   `lifecycle_double_listing`.
5. *"Auctions automatically end at their scheduled time"* (README.md:27). The ZREM is
   deferred before the error of the ending is looked at, so one failing statement
   removes the auction from the schedule for good. Run `lifecycle_never_ends`.
6. *"All successful bids are broadcasted to subscribed users"* (README.md:25). Giving
   up the last subscription closes the channel that the handler passes again with
   the next one; its listener dies on the first event. Run `delivery_resubscribed`.

Two more are plain from the code and need no run. The comment *"Redis will clean up
when client disconnects"* (`internal/adapters/ws/handler.go:149-150`): the pubsub
connection belongs to the service, and nothing closes it or removes the
client from the broadcaster's maps (`Unregister` of *Delivery* leaves them). And the
diagram of `README.md:169-170` ends a bid with *"Success Response"* to the client: an
accepted bid is not answered (`HandlePlaceBid` of *Client*), its bidder sees the
`bid_placed` event only.

## 8. What is left out, and why

- In *Bidding*: other auctions (no statement of one touches another's row); the
  identity of users, whose lookup is one more way to `Fail`; the subscription of the
  bidder's user id after the commit (`bid.go:143-160`), a key no client has and a
  channel nobody reads; the *order* of published bids (the set is kept).
- In *Lifecycle*: the bids on an auction and its winner (they are in *Bidding*); end
  times are kept, start times only where `CreateAuction` checks them. `Crash` stands
  for shutdown as well, since `Stop` leaves goroutines of `endAuction` where they are
  and cancels the context of their statements.
- In *Delivery*: `Close` of the broadcaster, which has no caller; its reads
  (`IsSubscribed`, `GetSubscribers`, `GetEventChannel`); the listener of a closed
  pubsub, which can only find the channel closed and end. A SUBSCRIBE takes effect at
  once: taking effect later is the same as the events in between being published
  before it. That the pool recovers a worker's panic is the pool library's doing.
- In *Client*: what an answer says, and which error it is; the log. The 100 ms that
  `Send` waits for room are the choice between room and none. There is no read or
  write timeout: the code that sets the read deadline is commented out
  (`client.go:123-129`), and a `ping` is a message like others.
- The PUBLISH that go-redis repeats when its answer is late (`MaxRetries`,
  `internal/adapters/redis/redis.go:22`) is one more event of *Delivery*, which counts
  what Redis receives. "None twice" of `DeliveredInOrder` therefore does not say that
  a client hears of one bid once.
- No property forbids what the code does not protect from: a bid that commits between the
  ender's query for the winner and its UPDATE (`auction.go:238`, `:266`) is accepted and not
  considered; a crash or a lost answer between INSERT and ZADD leaves an active auction
  that nothing ends; a crash between UPDATE and publication leaves an end that nobody hears
  of; a subscription whose SUBSCRIBE failed is recorded as made. The models contain these
  behaviours, and `hazards` in `PROJECT.json` says where.
- The reconnection that go-redis does on its own is not modelled: it subscribes again
  to what the pubsub was subscribed to, and what was published meanwhile is lost
  (`Lose`).
- *Server, message parsing, user and item lookups, configuration, connection set-up*:
  input and output or validation without state.

## 9. Plan

Done: `AscendingAuction`, `Bidding`, `AuctionHouse`, `Lifecycle`, `Delivery`, `Listing`,
`Feed`, `Outbox`, `Client`, each with its runs and proofs.

Left, in this order:

1. The order of `bid_placed` events: *Bidding* with the queue that *Delivery* moves, and
   how the order of commits and the order a client sees may differ (the publication
   is outside the transaction, `bid.go:174`).
2. *Bidding* with *Lifecycle*: the moment an auction ends is the scheduler's, so bids
   are accepted between the end time and the end of the row.
3. What follows from `AscendingAuction` and `AuctionHouse` alone, proved once and used for
   *Bidding* and *Lifecycle* as that of `Feed` and `Outbox` is.
4. The subscription of a bidder's user id in *Delivery* (`bid.go:143-160`), with the
   pubsub connections that nothing closes.
