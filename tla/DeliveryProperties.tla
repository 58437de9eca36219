-------------------------- MODULE DeliveryProperties --------------------------
(***************************************************************************)
(* What the handler and the broadcaster guarantee to a client, and the     *)
(* requirement of the README that they do not keep.                        *)
(***************************************************************************)
EXTENDS Delivery, SequencesExt

Events == 1 .. MaxEvents

\* Types; a client with subscriptions has a channel, and is in both maps of the
\* broadcaster, also after a panic half way through Unsubscribe.
TypeOK ==
  /\ conn \in [Clients -> {"new", "connected", "cancelled", "gone"}]
  /\ channel \in [Clients -> {"none", "open", "closed"}]
  /\ buffer \in [Clients -> Seq(Events)]
  /\ hand \in [Clients -> Seq(Events)]
  /\ subs \in [Clients -> SUBSET Auctions]
  /\ listed \in [Clients -> BOOLEAN]
  /\ listening \in [Clients -> BOOLEAN]
  /\ redis \in [Clients -> SUBSET Auctions]
  /\ wire \in [Clients -> Seq(Events)]
  /\ message \in [Messages -> Requests \cup {NoMessage}]
  /\ mpc \in [Messages -> {"idle", "find", "subscribe", "unsubscribe", "done"}]
  /\ panicked \in BOOLEAN
  /\ published \in Seq(Auctions)
  /\ received \in [Clients -> Seq(Events)]
  /\ empty \in [Clients -> BOOLEAN]
  /\ handed \in [Clients -> SUBSET Events]
  /\ dropped \in [Clients -> SUBSET Events]
  /\ gaveUp \in [Clients -> BOOLEAN]
  /\ failed \in [Clients -> SUBSET Auctions]
  /\ \A c \in Clients : subs[c] # {} => listed[c] /\ channel[c] # "none"

\* A client is sent each event that Redis received at most once, and in the order
\* of publication, over all its subscriptions, drops and listeners.  (A PUBLISH
\* that go-redis repeats is received twice.)
DeliveredInOrder ==
  \A c \in Clients : \A j, k \in DOMAIN received[c] :
    j < k => received[c][j] < received[c][k]

\* Subscribing, unsubscribing and disconnecting in any order kills no instance
\* and confuses no client, unless a client gives up its last subscription, or is
\* unregistered at the very moment an event is sent to it.
HarmHasCause ==
  /\ panicked => \E c \in Clients : conn[c] = "gone" /\ (gaveUp[c] \/ hand[c] # <<>>)
  /\ \A c \in Clients : empty[c] => gaveUp[c]

\* What the broadcaster believes a client is subscribed to is what Redis sends
\* it, over workers that overtake each other and panics half way, except for
\* the auctions whose last SUBSCRIBE or UNSUBSCRIBE failed: those stay apart,
\* for the broadcaster does not try again.  (A client that gave up with its
\* channel closed keeps what Redis has.)
SubscriptionsAgree ==
  \A c \in Clients :
    /\ subs[c] \ redis[c] \subseteq failed[c]
    /\ gaveUp[c] \/ redis[c] \ subs[c] \subseteq failed[c]

\* Client by client, Delivery implements Feed.  A wish is a message a worker has
\* taken; what Redis has of a client's subscriptions is what it follows; an event
\* is pending wherever it is between Redis and the end of Send; and a client is
\* steady until it disconnects or gives up its last subscription.
Wished(c) ==
  {[kind |-> message[m].kind, auction |-> message[m].auction] :
     m \in {m \in Messages : mpc[m] # "idle" /\ message[m].client = c}}

Pending(c) == ToSet(hand[c]) \cup ToSet(buffer[c]) \cup ToSet(wire[c])

Steady(c) == conn[c] \in {"new", "connected"} /\ ~gaveUp[c]

Abstract == INSTANCE Feed
              WITH asked <- [c \in Clients |-> Wished(c)], follows <- redis, due <- handed,
                   pending <- [c \in Clients |-> Pending(c)], lost <- dropped,
                   steady <- [c \in Clients |-> Steady(c)]

\* Whatever the workers, the listeners and Redis do in whatever order, a client
\* is sent the oldest of its events first, none of an auction it did not ask
\* for, and while it stays no event disappears without a record and no
\* subscription without a message that asks for it.
FeedSpec == Abstract!Spec

\* A client is sent only events of auctions it has asked for that Redis handed
\* to it, so nothing of a listener, a channel or a pubsub of somebody else.
SentOnlyDue == Abstract!SentOnlyDue

\* Of the events handed to a client that has stayed, each is sent, on its way or
\* dropped with a record.
NothingForgotten == Abstract!NothingForgotten

\* An event that Redis hands to a client that keeps at least one subscription,
\* and stays, is sent to it or dropped for want of room, however the client's
\* subscriptions to other auctions change meanwhile.
KeptSubscriptionsDeliver ==
  \A c \in Clients, n \in Events :
    n \in ToSet(wire[c]) ~>
      \/ n \in ToSet(received[c]) \cup dropped[c]
      \/ conn[c] # "connected" \/ gaveUp[c] \/ panicked

-----------------------------------------------------------------------------
(* A requirement of the README that the code does not keep.                *)

\* README: "All successful bids are broadcasted to subscribed users": an event
\* on its way to a client that is and stays subscribed to its auction arrives.
SubscribersReceive ==
  \A c \in Clients, n \in Events :
    n \in ToSet(wire[c]) ~>
      \/ n \in ToSet(received[c]) \cup dropped[c]
      \/ conn[c] # "connected" \/ panicked
      \/ ~ \E a \in subs[c] : n \in DOMAIN published /\ published[n] = a
=============================================================================
