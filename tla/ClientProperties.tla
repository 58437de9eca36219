--------------------------- MODULE ClientProperties ---------------------------
(***************************************************************************)
(* What a connection guarantees while its goroutines race with each other  *)
(* and with the end of the connection.                                     *)
(***************************************************************************)
EXTENDS Client

MessagePCs == {"idle", "read", "queued", "handling", "check", "send", "reply", "writing",
               "done", "failed", "panicked", "dropped"}

Items == {Answer(m) : m \in Messages} \cup {Event(n) : n \in 1 .. MaxEvents}

\* Types; sendChan holds no more than it has room for, and the receiver submits
\* one message at a time.
TypeOK ==
  /\ peer \in {"there", "gone"}
  /\ receiver \in {"reading", "submitting", "ended"}
  /\ content \in [Messages -> Contents]
  /\ mpc \in [Messages -> MessagePCs]
  /\ page \in [Messages -> SUBSET (1 .. RowCount)]
  /\ direct \in SUBSET Messages
  /\ listener \in {"waiting", "sending", "ended"}
  /\ events \in 0 .. MaxEvents
  /\ subscribed \in BOOLEAN /\ eventChan \in {"open", "closed"}
  /\ sendChan \in Seq(Items) /\ Len(sendChan) <= SendCapacity
  /\ sender \in {"waiting", "writing", "ended"}
  /\ hand \in Seq(Items)
  /\ written \in Seq(Items)
  /\ cancelled \in BOOLEAN /\ stopped \in BOOLEAN /\ unregistered \in BOOLEAN
  /\ panicked \in BOOLEAN
  /\ \A m, q \in Messages : mpc[m] = "read" /\ mpc[q] = "read" => m = q

\* all that Send has accepted
accepted == written \o hand \o sendChan

\* A message is answered at most once, through Send or by its worker, although
\* a Send that fails is followed by an answer of the worker; and a message that
\* was handled to its end is answered, unless it is a bid, was cut short by a
\* panic, or its answer could not be written.
AnsweredOnce ==
  \A m \in Messages :
    LET sent == \E i \in DOMAIN accepted : accepted[i] = Answer(m)
    IN /\ sent \/ m \in direct => mpc[m] = "done"
       /\ ~(sent /\ m \in direct)
       /\ mpc[m] = "done" /\ content[m].kind # "bid" => sent \/ m \in direct

\* the client has unsubscribed from something it had subscribed to
GaveUp ==
  \E m, q \in Messages : content[m].kind = "subscribe" /\ content[q].kind = "unsubscribe"

\* A connection takes the process down in three ways only: an event is being sent
\* when the client is stopped; messageSender writes while a worker writes; or
\* the client is unregistered after it gave up its last subscription, which had
\* closed its event channel.  No order of messages, errors and disconnects makes
\* the receiver submit to a stopped pool, and a client that never unsubscribes
\* is unregistered without harm.
DeathHasCause ==
  panicked =>
    \/ listener = "sending" /\ stopped
    \/ sender = "writing" /\ Replying
    \/ stopped /\ ~unregistered /\ eventChan = "closed" /\ GaveUp

\* A list_auctions with a positive limit is answered with the aligned window of
\* that many rows in which its offset lies: a client that walks a list that
\* does not change by multiples of its limit sees every row once.  (What a
\* negative limit or offset gives is not stated.)
ListedWindow ==
  \A m \in Messages :
    LET limit == content[m].limit
        offset == content[m].offset
    IN mpc[m] = "done" /\ content[m].kind = "list" /\ limit > 0 /\ offset >= 0 =>
         page[m] = {k \in 1 .. RowCount : (k - 1) \div limit = offset \div limit}

\* What Send accepts is written in order and once, and nothing is accepted once
\* the client is stopped, whichever goroutines call Send while it is.
Abstract == INSTANCE Outbox WITH open <- ~stopped

OutboxSpec == Abstract!Spec

\* When the other end goes away, every goroutine of the connection ends and the
\* client is unregistered, whatever it was doing: no worker, full queue or full
\* channel keeps the receiver from noticing, and nobody waits for ever.  (Or
\* the process dies, see DeathHasCause.)
AllEnded ==
  /\ unregistered
  /\ receiver = "ended" /\ sender = "ended" /\ listener = "ended"
  /\ \A m \in Messages : mpc[m] \in {"idle", "done", "failed", "panicked", "dropped"}

GoneIsCleanedUp == peer = "gone" ~> AllEnded \/ panicked

\* Once the other end is gone, a goroutine that has something to do waits for
\* nothing but another one that can go on: the receiver for room in the pool, the
\* pool for a worker, a worker for nobody, the others for the context.
ReceiverGoesOn ==
  \/ receiver = "reading"
  \/ \E m \in Messages :
       /\ mpc[m] = "read"
       /\ cancelled \/ Cardinality(Busy) < Workers \/ Cardinality(Queued) < QueueCapacity

PoolGoesOn == Busy # {} \/ (Queued # {} /\ (cancelled \/ Cardinality(Busy) < Workers))

ListenerGoesOn == listener = "sending" \/ (listener = "waiting" /\ cancelled)

SenderGoesOn ==
  sender = "writing" \/ (sender = "waiting" /\ (sendChan # <<>> \/ stopped \/ cancelled))

\* The goroutines of a connection whose other end is gone never wait for each
\* other in a circle: until all have ended, one of them can go on.
NobodyIsStuck ==
  peer = "gone" /\ ~panicked /\ ~AllEnded =>
    \/ ReceiverGoesOn \/ PoolGoesOn \/ ListenerGoesOn \/ SenderGoesOn
    \/ cancelled /\ ~unregistered
=============================================================================
