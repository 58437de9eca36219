------------------------------- MODULE Delivery -------------------------------
(***************************************************************************)
(* How events reach the clients of one instance: WsHandler, the workers    *)
(* that run the messages of its clients, RedisBroadcaster, Redis pub/sub.  *)
(*                                                                         *)
(* An event takes three hops: Redis hands it to the pubsub connection of   *)
(* the client (wire), listenForRedisMessages moves it to the event channel *)
(* of the client (buffer), listenForClientEvents sends it to the client    *)
(* (hand, received).  The handler and the broadcaster share the event      *)
(* channel, each may close it, and Go kills a goroutine that closes it     *)
(* again or sends on it after that, as it does one that sends an event on  *)
(* when the client is stopped: the listener of Redis and the workers       *)
(* recover, the goroutines of the handler take the process down.           *)
(* (What happens to an event after Send has taken it is module Client.)    *)
(***************************************************************************)
EXTENDS Naturals, Sequences

CONSTANTS Clients,     \* connections; each has an id of its own
          Auctions,
          Messages,    \* subscribe and unsubscribe messages of the clients
          NoMessage,
          Capacity,    \* of the event channel of a client
          Errors,      \* whether calls of Redis and Send may fail
          MaxEvents    \* bound on the events published

ASSUME DeliveryAssumption ==
  /\ Capacity \in Nat \ {0}
  /\ MaxEvents \in Nat
  /\ Errors \in BOOLEAN

VARIABLES
  conn,        \* "new", "connected", "cancelled" (its context), "gone"
  channel,     \* the event channel of each client: "none", "open", "closed"
  buffer,      \* the events in it
  hand,        \* the event listenForClientEvents is sending
  subs,        \* clientsToAuction
  listed,      \* whether subscribers and pubsubs hold the client
  listening,   \* whether a goroutine listens to the pubsub in pubsubs
  redis,       \* the auctions that pubsub is subscribed to in Redis
  wire,        \* the events on their way from Redis to the listener
  message,     \* the messages sent by clients
  mpc,         \* where the worker that handles each of them is
  panicked,    \* whether the process has died of a panic
  published,   \* the auctions of the events published so far, here or elsewhere
  received,    \* the events sent to each client, by their number
  empty,       \* the clients that were sent an event that is none
  handed,      \* history: events that Redis handed to the client's pubsub
  dropped,     \* history: events that were lost on the way to a client
  gaveUp,      \* history: clients that gave up their last subscription
  failed       \* history: auctions whose last (UN)SUBSCRIBE Redis failed

brokerVars == <<subs, listed, listening, redis, gaveUp, failed>>
eventVars == <<published, received, empty, handed, dropped>>
vars == <<conn, channel, buffer, hand, brokerVars, wire, message, mpc, panicked, eventVars>>

Requests == [client : Clients, kind : {"subscribe", "unsubscribe"}, auction : Auctions]

-----------------------------------------------------------------------------
Init ==
  /\ conn = [c \in Clients |-> "new"]
  /\ channel = [c \in Clients |-> "none"]
  /\ buffer = [c \in Clients |-> <<>>]
  /\ hand = [c \in Clients |-> <<>>]
  /\ subs = [c \in Clients |-> {}]
  /\ listed = [c \in Clients |-> FALSE]
  /\ listening = [c \in Clients |-> FALSE]
  /\ redis = [c \in Clients |-> {}]
  /\ wire = [c \in Clients |-> <<>>]
  /\ message = [m \in Messages |-> NoMessage]
  /\ mpc = [m \in Messages |-> "idle"]
  /\ panicked = FALSE
  /\ published = <<>>
  /\ received = [c \in Clients |-> <<>>]
  /\ empty = [c \in Clients |-> FALSE]
  /\ handed = [c \in Clients |-> {}]
  /\ dropped = [c \in Clients |-> {}]
  /\ gaveUp = [c \in Clients |-> FALSE]
  /\ failed = [c \in Clients |-> {}]

-----------------------------------------------------------------------------
(* WsHandler                                                               *)

\* HandleWebSocket: the client is registered, its event channel created.
Connect(c) ==
  /\ ~panicked
  /\ conn[c] = "new"
  /\ conn' = [conn EXCEPT ![c] = "connected"]
  /\ channel' = [channel EXCEPT ![c] = "open"]
  /\ UNCHANGED <<buffer, hand, brokerVars, wire, message, mpc, panicked, eventVars>>

\* A read of the connection fails: messageReceiver cancels the context.
Disconnect(c) ==
  /\ ~panicked
  /\ conn[c] = "connected"
  /\ conn' = [conn EXCEPT ![c] = "cancelled"]
  /\ UNCHANGED <<channel, buffer, hand, brokerVars, wire, message, mpc, panicked, eventVars>>

\* getEventChannel(clientID) # nil
Registered(c) == conn[c] \in {"connected", "cancelled"}

\* mutant: the client is unsubscribed first, which closes its channel
UnregisterUnsubscribed(c) ==
  /\ ~panicked
  /\ conn[c] = "cancelled"
  /\ conn' = [conn EXCEPT ![c] = "gone"]
  /\ channel' = [channel EXCEPT ![c] = "closed"]
  /\ panicked' = (listed[c] \/ channel[c] = "closed")
  /\ UNCHANGED <<buffer, hand, brokerVars, wire, message, mpc, eventVars>>

\* unregisterClient, with removeEventChannel; the broadcaster is not told.
Unregister(c) ==
  /\ ~panicked
  /\ conn[c] = "cancelled"
  /\ conn' = [conn EXCEPT ![c] = "gone"]
  /\ channel' = [channel EXCEPT ![c] = "closed"]
  /\ panicked' = (channel[c] = "closed")
  /\ UNCHANGED <<buffer, hand, brokerVars, wire, message, mpc, eventVars>>

\* A message comes in and a worker takes it, while others handle the ones
\* before it.
Receive(m, r) ==
  /\ ~panicked
  /\ mpc[m] = "idle" /\ conn[r.client] = "connected"
  /\ message' = [message EXCEPT ![m] = r]
  /\ mpc' = [mpc EXCEPT ![m] = IF r.kind = "subscribe" THEN "find" ELSE "unsubscribe"]
  /\ UNCHANGED <<conn, channel, buffer, hand, brokerVars, wire, panicked, eventVars>>

\* handleSubscribe up to its call of the broadcaster
FindChannel(m) ==
  /\ ~panicked
  /\ mpc[m] = "find"
  /\ mpc' = [mpc EXCEPT ![m] = IF Registered(message[m].client) THEN "subscribe" ELSE "done"]
  /\ UNCHANGED <<conn, channel, buffer, hand, brokerVars, wire, message, panicked, eventVars>>

-----------------------------------------------------------------------------
(* RedisBroadcaster                                                        *)

\* What Redis says to SUBSCRIBE or UNSUBSCRIBE
Outcome == {TRUE, ~Errors}

RecordOutcome(c, a, ok) ==
  failed' = [failed EXCEPT ![c] = IF ok THEN @ \ {a} ELSE @ \cup {a}]

\* mutant: SUBSCRIBE is sent when the pubsub is made, and only then
SubscribeFirstOnly(m) ==
  LET c == message[m].client
      a == message[m].auction
  IN /\ ~panicked
     /\ mpc[m] = "subscribe"
     /\ mpc' = [mpc EXCEPT ![m] = "done"]
     /\ IF a \in subs[c] THEN UNCHANGED brokerVars
        ELSE /\ subs' = [subs EXCEPT ![c] = @ \cup {a}]
             /\ listed' = [listed EXCEPT ![c] = TRUE]
             /\ listening' = [listening EXCEPT ![c] = @ \/ ~listed[c]]
             /\ \E ok \in Outcome :
                  /\ redis' = [redis EXCEPT ![c] = IF ok /\ ~listed[c] THEN {a} ELSE @]
                  /\ RecordOutcome(c, a, ok)
             /\ UNCHANGED gaveUp
     /\ UNCHANGED <<conn, channel, buffer, hand, wire, message, panicked, eventVars>>

\* mutant: a pubsub of its own for every auction, in the one place of the map
SubscribeAnew(m) ==
  LET c == message[m].client
      a == message[m].auction
  IN /\ ~panicked
     /\ mpc[m] = "subscribe"
     /\ mpc' = [mpc EXCEPT ![m] = "done"]
     /\ IF a \in subs[c] THEN UNCHANGED <<brokerVars, wire>>
        ELSE /\ subs' = [subs EXCEPT ![c] = @ \cup {a}]
             /\ listed' = [listed EXCEPT ![c] = TRUE]
             /\ listening' = [listening EXCEPT ![c] = TRUE]
             /\ redis' = [redis EXCEPT ![c] = {a}]
             /\ wire' = [wire EXCEPT ![c] = <<>>]
             /\ UNCHANGED <<gaveUp, failed>>
     /\ UNCHANGED <<conn, channel, buffer, hand, message, panicked, eventVars>>

\* Subscribe: the subscription is recorded, whether Redis accepts it or not.
\* The first one starts a listener on a new pubsub.
Subscribe(m) ==
  LET c == message[m].client
      a == message[m].auction
  IN /\ ~panicked
     /\ mpc[m] = "subscribe"
     /\ mpc' = [mpc EXCEPT ![m] = "done"]
     /\ IF a \in subs[c] THEN UNCHANGED brokerVars
        ELSE /\ subs' = [subs EXCEPT ![c] = @ \cup {a}]
             /\ listed' = [listed EXCEPT ![c] = TRUE]
             /\ listening' = [listening EXCEPT ![c] = @ \/ ~listed[c]]
             /\ \E ok \in Outcome :
                  /\ redis' = [redis EXCEPT ![c] = IF ok THEN @ \cup {a} ELSE @]
                  /\ RecordOutcome(c, a, ok)
             /\ UNCHANGED gaveUp
     /\ UNCHANGED <<conn, channel, buffer, hand, wire, message, panicked, eventVars>>

\* The last subscription goes, and with it the channel and the pubsub, unless
\* the channel is closed already: that panic leaves both where they are.  (The
\* listener of a closed pubsub finds the channel closed and ends as well.)
GiveUp(c) ==
  /\ gaveUp' = [gaveUp EXCEPT ![c] = TRUE]
  /\ channel' = [channel EXCEPT ![c] = "closed"]
  /\ IF channel[c] = "closed" THEN UNCHANGED <<listed, listening, redis, failed, wire>>
     ELSE /\ listed' = [listed EXCEPT ![c] = FALSE]
          /\ listening' = [listening EXCEPT ![c] = FALSE]
          /\ redis' = [redis EXCEPT ![c] = {}]
          /\ failed' = [failed EXCEPT ![c] = {}]
          /\ wire' = [wire EXCEPT ![c] = <<>>]

\* mutant: off by one
OneLeft(rest) == \A a, b \in rest : a = b

\* len(clientAuctions) == 0
NoneLeft(rest) == rest = {}

\* Unsubscribe: nothing for a client without subscriptions.
Unsubscribe(m) ==
  LET c == message[m].client
      a == message[m].auction
      rest == subs[c] \ {a}
  IN /\ ~panicked
     /\ mpc[m] = "unsubscribe"
     /\ mpc' = [mpc EXCEPT ![m] = "done"]
     /\ subs' = [subs EXCEPT ![c] = rest]
     /\ \/ /\ subs[c] = {}
           /\ UNCHANGED <<channel, listed, listening, redis, gaveUp, failed, wire>>
        \/ /\ subs[c] # {} /\ NoneLeft(rest)
           /\ GiveUp(c)
        \/ /\ ~NoneLeft(rest)
           /\ \E ok \in Outcome :
                /\ redis' = [redis EXCEPT ![c] = IF ok THEN @ \ {a} ELSE @]
                /\ RecordOutcome(c, a, ok)
           /\ UNCHANGED <<channel, listed, listening, gaveUp, wire>>
     /\ UNCHANGED <<conn, buffer, hand, message, panicked, eventVars>>

\* mutant: every pubsub is subscribed to the events of all auctions
PublishToAll(a) ==
  /\ ~panicked
  /\ Len(published) < MaxEvents
  /\ published' = Append(published, a)
  /\ wire' = [c \in Clients |-> IF listed[c] THEN Append(wire[c], Len(published) + 1) ELSE wire[c]]
  /\ handed' = [c \in Clients |-> IF listed[c] THEN handed[c] \cup {Len(published) + 1}
                                               ELSE handed[c]]
  /\ UNCHANGED <<conn, channel, buffer, hand, brokerVars, message, mpc, panicked,
                 received, empty, dropped>>

\* Redis hands an event to every pubsub subscribed to its auction's channel.  An
\* event is one PUBLISH as Redis receives it: go-redis may repeat that of one call
\* whose answer is lost, which then are two events.
Publish(a) ==
  /\ ~panicked
  /\ Len(published) < MaxEvents
  /\ published' = Append(published, a)
  /\ wire' = [c \in Clients |-> IF a \in redis[c] THEN Append(wire[c], Len(published) + 1)
                                                  ELSE wire[c]]
  /\ handed' = [c \in Clients |-> IF a \in redis[c] THEN handed[c] \cup {Len(published) + 1}
                                                    ELSE handed[c]]
  /\ UNCHANGED <<conn, channel, buffer, hand, brokerVars, message, mpc, panicked,
                 received, empty, dropped>>

\* what Redis or its connection loses
Lose(c) ==
  /\ ~panicked
  /\ Errors
  /\ wire[c] # <<>>
  /\ wire' = [wire EXCEPT ![c] = Tail(@)]
  /\ dropped' = [dropped EXCEPT ![c] = @ \cup {Head(wire[c])}]
  /\ UNCHANGED <<conn, channel, buffer, hand, brokerVars, message, mpc, panicked,
                 published, received, empty, handed>>

\* mutant: every message is handed on by a goroutine of its own
ListenConcurrently(c) ==
  /\ ~panicked
  /\ listening[c]
  /\ channel[c] = "open" /\ Len(buffer[c]) < Capacity
  /\ \E k \in 1 .. Len(wire[c]) :
       /\ buffer' = [buffer EXCEPT ![c] = Append(@, wire[c][k])]
       /\ wire' = [wire EXCEPT ![c] = SubSeq(@, 1, k - 1) \o SubSeq(@, k + 1, Len(@))]
  /\ UNCHANGED <<conn, channel, hand, brokerVars, message, mpc, panicked, eventVars>>

\* One turn of listenForRedisMessages: a full channel drops the event, a closed
\* one ends the listener, which recovers from that panic.
Listen(c) ==
  /\ ~panicked
  /\ listening[c] /\ wire[c] # <<>>
  /\ wire' = [wire EXCEPT ![c] = Tail(@)]
  /\ LET n == Head(wire[c]) IN
       \/ /\ channel[c] = "open" /\ Len(buffer[c]) < Capacity
          /\ buffer' = [buffer EXCEPT ![c] = Append(@, n)]
          /\ UNCHANGED <<listening, dropped>>
       \/ /\ channel[c] = "open" /\ Len(buffer[c]) = Capacity
          /\ dropped' = [dropped EXCEPT ![c] = @ \cup {n}]
          /\ UNCHANGED <<buffer, listening>>
       \/ /\ channel[c] = "closed"
          /\ listening' = [listening EXCEPT ![c] = FALSE]
          /\ UNCHANGED <<buffer, dropped>>
  /\ UNCHANGED <<conn, channel, hand, subs, listed, redis, gaveUp, failed, message, mpc,
                 panicked, published, received, empty, handed>>

-----------------------------------------------------------------------------
(* listenForClientEvents                                                   *)

\* An event comes out of the channel, and Send tests whether the client is
\* stopped: then it is refused.
Take(c) ==
  /\ ~panicked
  /\ hand[c] = <<>> /\ buffer[c] # <<>>
  /\ buffer' = [buffer EXCEPT ![c] = Tail(@)]
  /\ LET n == Head(buffer[c]) IN
       \/ /\ Registered(c)
          /\ hand' = [hand EXCEPT ![c] = <<n>>]
          /\ UNCHANGED dropped
       \/ /\ ~Registered(c)
          /\ dropped' = [dropped EXCEPT ![c] = @ \cup {n}]
          /\ UNCHANGED hand
  /\ UNCHANGED <<conn, channel, brokerVars, wire, message, mpc, panicked,
                 published, received, empty, handed>>

\* The rest of Send: it takes the event, or gives up because the client does not
\* read; a client that was stopped meanwhile makes it panic.
Send(c) ==
  /\ ~panicked
  /\ hand[c] # <<>>
  /\ \/ /\ Registered(c)
        /\ received' = [received EXCEPT ![c] = Append(@, Head(hand[c]))]
        /\ hand' = [hand EXCEPT ![c] = <<>>]
        /\ UNCHANGED <<dropped, panicked>>
     \/ /\ Registered(c) /\ Errors
        /\ dropped' = [dropped EXCEPT ![c] = @ \cup {Head(hand[c])}]
        /\ hand' = [hand EXCEPT ![c] = <<>>]
        /\ UNCHANGED <<received, panicked>>
     \/ /\ ~Registered(c)
        /\ panicked' = TRUE
        /\ UNCHANGED <<hand, received, dropped>>
  /\ UNCHANGED <<conn, channel, buffer, brokerVars, wire, message, mpc, published, empty,
                 handed>>

\* A closed channel that is empty yields an event without content, again and
\* again, and each is sent on.  (Such a client cannot be unregistered any more.)
ForwardEmpty(c) ==
  /\ ~panicked
  /\ Registered(c) /\ channel[c] = "closed" /\ buffer[c] = <<>> /\ hand[c] = <<>>
  /\ ~empty[c]
  /\ empty' = [empty EXCEPT ![c] = TRUE]
  /\ UNCHANGED <<conn, channel, buffer, hand, brokerVars, wire, message, mpc, panicked,
                 published, received, handed, dropped>>

-----------------------------------------------------------------------------
Next ==
  \/ \E c \in Clients :
       \/ Connect(c) \/ Disconnect(c) \/ Unregister(c)
       \/ Listen(c) \/ Lose(c) \/ Take(c) \/ Send(c) \/ ForwardEmpty(c)
  \/ \E m \in Messages :
       \/ FindChannel(m) \/ Subscribe(m) \/ Unsubscribe(m)
       \/ \E r \in Requests : Receive(m, r)
  \/ \E a \in Auctions : Publish(a)

Spec == Init /\ [][Next]_vars

\* The two goroutines that move events go on, listenForClientEvents as long as
\* the context of the client is not cancelled; clients, workers and Redis need
\* not do anything.
Fairness ==
  \A c \in Clients :
    /\ WF_vars(Listen(c))
    /\ WF_vars(conn[c] = "connected" /\ Take(c))
    /\ WF_vars(Send(c))

FairSpec == Spec /\ Fairness
=============================================================================
