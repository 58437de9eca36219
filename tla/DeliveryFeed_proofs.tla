-------------------------- MODULE DeliveryFeed_proofs --------------------------
(***************************************************************************)
(* Delivery implements Feed, and keeps what Feed promises: for any number  *)
(* of clients, auctions, messages and events, any capacity of the          *)
(* channels, with and without errors.                                      *)
(***************************************************************************)
EXTENDS Delivery_proofs

-----------------------------------------------------------------------------
(* What the mapping needs besides the invariants of Delivery_proofs        *)

\* A message is handled as its kind says, and at most one event is being sent.
HandlingInv ==
  /\ \A m \in Messages :
       /\ mpc[m] \in {"find", "subscribe"} => message[m].kind = "subscribe"
       /\ mpc[m] = "unsubscribe" => message[m].kind = "unsubscribe"
  /\ \A c \in Clients : hand[c] = <<>> \/ \E n \in Events : hand[c] = <<n>>

LEMMA HandlingStep == TypeOK /\ HandlingInv /\ [Next]_vars => HandlingInv'
<1> SUFFICES ASSUME TypeOK, HandlingInv, [Next]_vars PROVE HandlingInv'
  OBVIOUS
<1> USE DEF HandlingInv
<1>1. ASSUME NEW c \in Clients, Connect(c)
      PROVE  HandlingInv'
  BY <1>1 DEF Connect
<1>2. ASSUME NEW c \in Clients, Disconnect(c)
      PROVE  HandlingInv'
  BY <1>2 DEF Disconnect
<1>3. ASSUME NEW c \in Clients, Unregister(c)
      PROVE  HandlingInv'
  BY <1>3 DEF Unregister
<1>4. ASSUME NEW c \in Clients, Listen(c)
      PROVE  HandlingInv'
  BY <1>4 DEF Listen
<1>5. ASSUME NEW c \in Clients, Lose(c)
      PROVE  HandlingInv'
  BY <1>5 DEF Lose
<1>6. ASSUME NEW c \in Clients, Take(c)
      PROVE  HandlingInv'
  <2>1. buffer[c] # <<>> /\ buffer[c] \in Seq(Events)
    BY <1>6 DEF TypeOK, Take
  <2>2. Head(buffer[c]) \in Events
    BY <2>1
  <2>3. hand' = hand \/ hand' = [hand EXCEPT ![c] = <<Head(buffer[c])>>]
    BY <1>6 DEF Take
  <2>4. \A d \in Clients : hand'[d] = hand[d] \/ hand'[d] = <<Head(buffer[c])>>
    BY <2>3 DEF TypeOK
  <2>5. UNCHANGED <<message, mpc>>
    BY <1>6 DEF Take
  <2> QED
    BY <2>2, <2>4, <2>5
<1>7. ASSUME NEW c \in Clients, Send(c)
      PROVE  HandlingInv'
  <2>1. hand' = hand \/ hand' = [hand EXCEPT ![c] = <<>>]
    BY <1>7 DEF Send
  <2>2. \A d \in Clients : hand'[d] = hand[d] \/ hand'[d] = <<>>
    BY <2>1 DEF TypeOK
  <2>3. UNCHANGED <<message, mpc>>
    BY <1>7 DEF Send
  <2> QED
    BY <2>2, <2>3
<1>8. ASSUME NEW c \in Clients, ForwardEmpty(c)
      PROVE  HandlingInv'
  BY <1>8 DEF ForwardEmpty
<1>9. ASSUME NEW m \in Messages, FindChannel(m)
      PROVE  HandlingInv'
  BY <1>9 DEF TypeOK, FindChannel
<1>10. ASSUME NEW m \in Messages, Subscribe(m)
       PROVE  HandlingInv'
  BY <1>10 DEF TypeOK, Subscribe
<1>11. ASSUME NEW m \in Messages, Unsubscribe(m)
       PROVE  HandlingInv'
  <2>1. UNCHANGED <<message, hand>> /\ mpc' = [mpc EXCEPT ![m] = "done"]
    BY <1>11 DEF Unsubscribe
  <2> QED
    BY <2>1 DEF TypeOK
<1>12. ASSUME NEW m \in Messages, NEW r \in Requests, Receive(m, r)
       PROVE  HandlingInv'
  <2>1. r.kind \in {"subscribe", "unsubscribe"}
    BY DEF Requests
  <2>2. /\ message'[m] = r
        /\ mpc'[m] = IF r.kind = "subscribe" THEN "find" ELSE "unsubscribe"
        /\ \A k \in Messages \ {m} : message'[k] = message[k] /\ mpc'[k] = mpc[k]
        /\ hand' = hand
    BY <1>12 DEF TypeOK, Receive
  <2> QED
    BY <2>1, <2>2
<1>13. ASSUME NEW a \in Auctions, Publish(a)
       PROVE  HandlingInv'
  BY <1>13 DEF Publish
<1>14. CASE UNCHANGED vars
  BY <1>14 DEF vars
<1> QED
  BY <1>1, <1>2, <1>3, <1>4, <1>5, <1>6, <1>7, <1>8,
     <1>9, <1>10, <1>11, <1>12, <1>13, <1>14
     DEF Next

\* All that the steps of the mapping start from
MapInv == TypeOK /\ ChannelInv /\ OrderInv /\ HandlingInv

LEMMA MapInvariant == Spec => []MapInv
<1>1. Init => HandlingInv
  BY DEF Init, HandlingInv
<1> QED
  BY <1>1, OrderInit, DeliveryInvariant, OrderStep, HandlingStep, PTL DEF Spec, MapInv

-----------------------------------------------------------------------------
(* The steps of Feed in terms of the mapping                               *)

\* A step leaves what a client asked for, what is pending for it, whether it is
\* steady as they are.
WishesStay(c) == Wished(c)' = Wished(c)
PendingStays(c) == Pending(c)' = Pending(c)
SteadyStays(c) == Steady(c)' = Steady(c)

LEMMA MapsToStutter ==
  ASSUME UNCHANGED <<published, redis, handed, received, dropped>>,
         \A c \in Clients : WishesStay(c) /\ PendingStays(c) /\ SteadyStays(c)
  PROVE  UNCHANGED Abstract!vars
BY DEF WishesStay, PendingStays, SteadyStays, Abstract!vars

LEMMA MapsToAsk ==
  ASSUME NEW c \in Clients, NEW wish \in Abstract!Wishes,
         UNCHANGED <<published, redis, handed, received, dropped>>,
         Wished(c)' = Wished(c) \cup {wish},
         \A d \in Clients \ {c} : WishesStay(d),
         \A d \in Clients : PendingStays(d) /\ SteadyStays(d)
  PROVE  Abstract!Next
<1>1. [d \in Clients |-> Wished(d)]' = [[d \in Clients |-> Wished(d)] EXCEPT ![c] = @ \cup {wish}]
  BY DEF WishesStay
<1>2. UNCHANGED <<published, redis, handed, [d \in Clients |-> Pending(d)], received, dropped,
                  [d \in Clients |-> Steady(d)]>>
  BY DEF PendingStays, SteadyStays
<1>3. Abstract!Ask(c, wish)
  BY <1>1, <1>2 DEF Abstract!Ask
<1> QED
  BY <1>3 DEF Abstract!Next

LEMMA MapsToFollow ==
  ASSUME NEW c \in Clients, NEW a \in Auctions,
         [kind |-> "subscribe", auction |-> a] \in Wished(c),
         redis' = [redis EXCEPT ![c] = @ \cup {a}],
         UNCHANGED <<published, handed, received, dropped>>,
         \A d \in Clients : WishesStay(d) /\ PendingStays(d) /\ SteadyStays(d)
  PROVE  Abstract!Next
<1>1. UNCHANGED <<published, [d \in Clients |-> Wished(d)], handed,
                  [d \in Clients |-> Pending(d)], received, dropped,
                  [d \in Clients |-> Steady(d)]>>
  BY DEF WishesStay, PendingStays, SteadyStays
<1>2. Abstract!Follow(c, a)
  BY <1>1 DEF Abstract!Follow
<1> QED
  BY <1>2 DEF Abstract!Next

LEMMA MapsToUnfollow ==
  ASSUME NEW c \in Clients, NEW a \in Auctions,
         [kind |-> "unsubscribe", auction |-> a] \in Wished(c),
         redis' = [redis EXCEPT ![c] = @ \ {a}],
         UNCHANGED <<published, handed, received, dropped>>,
         \A d \in Clients : WishesStay(d) /\ PendingStays(d) /\ SteadyStays(d)
  PROVE  Abstract!Next
<1>1. UNCHANGED <<published, [d \in Clients |-> Wished(d)], handed,
                  [d \in Clients |-> Pending(d)], received, dropped,
                  [d \in Clients |-> Steady(d)]>>
  BY DEF WishesStay, PendingStays, SteadyStays
<1>2. Abstract!Unfollow(c, a)
  BY <1>1 DEF Abstract!Unfollow
<1> QED
  BY <1>2 DEF Abstract!Next

LEMMA MapsToDeliver ==
  ASSUME NEW c \in Clients, NEW n \in Pending(c), \A k \in Pending(c) : n <= k,
         Pending(c)' = Pending(c) \ {n}, \A d \in Clients \ {c} : PendingStays(d),
         received' = [received EXCEPT ![c] = Append(@, n)],
         UNCHANGED <<published, redis, handed, dropped>>,
         \A d \in Clients : WishesStay(d) /\ SteadyStays(d)
  PROVE  Abstract!Next
<1>1. [d \in Clients |-> Pending(d)]' = [[d \in Clients |-> Pending(d)] EXCEPT ![c] = @ \ {n}]
  BY DEF PendingStays
<1>2. UNCHANGED <<published, [d \in Clients |-> Wished(d)], redis, handed, dropped,
                  [d \in Clients |-> Steady(d)]>>
  BY DEF WishesStay, SteadyStays
<1>3. [d \in Clients |-> Pending(d)][c] = Pending(c)
  OBVIOUS
<1>4. Abstract!Deliver(c, n)
  BY <1>1, <1>2, <1>3 DEF Abstract!Deliver
<1> QED
  BY <1>3, <1>4 DEF Abstract!Next

LEMMA MapsToLose ==
  ASSUME NEW c \in Clients, NEW n \in Pending(c),
         Pending(c)' = Pending(c) \ {n}, \A d \in Clients \ {c} : PendingStays(d),
         dropped' = [dropped EXCEPT ![c] = @ \cup {n}],
         UNCHANGED <<published, redis, handed, received>>,
         \A d \in Clients : WishesStay(d) /\ SteadyStays(d)
  PROVE  Abstract!Next
<1>1. [d \in Clients |-> Pending(d)]' = [[d \in Clients |-> Pending(d)] EXCEPT ![c] = @ \ {n}]
  BY DEF PendingStays
<1>2. UNCHANGED <<published, [d \in Clients |-> Wished(d)], redis, handed, received,
                  [d \in Clients |-> Steady(d)]>>
  BY DEF WishesStay, SteadyStays
<1>3. [d \in Clients |-> Pending(d)][c] = Pending(c)
  OBVIOUS
<1>4. Abstract!Lose(c, n)
  BY <1>1, <1>2, <1>3 DEF Abstract!Lose
<1> QED
  BY <1>3, <1>4 DEF Abstract!Next

LEMMA MapsToLeave ==
  ASSUME TypeOK, NEW c \in Clients, Steady(c)' = FALSE,
         redis'[c] \subseteq redis[c], redis' = [redis EXCEPT ![c] = redis'[c]],
         Pending(c)' \subseteq Pending(c), \A d \in Clients \ {c} : PendingStays(d),
         UNCHANGED <<published, handed, received, dropped>>,
         \A d \in Clients : WishesStay(d),
         \A d \in Clients \ {c} : SteadyStays(d)
  PROVE  Abstract!Next
<1>1. [d \in Clients |-> Steady(d)]' = [[d \in Clients |-> Steady(d)] EXCEPT ![c] = FALSE]
  BY DEF SteadyStays
<1>2. [d \in Clients |-> Pending(d)]' =
        [[d \in Clients |-> Pending(d)] EXCEPT ![c] = Pending(c)']
  BY DEF PendingStays
<1>3. UNCHANGED <<published, [d \in Clients |-> Wished(d)], handed, received, dropped>>
  BY DEF WishesStay
<1>4. [d \in Clients |-> Pending(d)][c] = Pending(c)
  OBVIOUS
<1>5. Abstract!Leave(c)
  BY <1>1, <1>2, <1>3, <1>4 DEF Abstract!Leave
<1> QED
  BY <1>5 DEF Abstract!Next

LEMMA MapsToPublish ==
  ASSUME NEW a \in Auctions, published' = Append(published, a),
         \A c \in Clients :
           /\ Pending(c)' = Pending(c) \cup (IF a \in redis[c] THEN {Len(published) + 1} ELSE {})
           /\ handed'[c] = handed[c] \cup (IF a \in redis[c] THEN {Len(published) + 1} ELSE {}),
         handed' = [c \in Clients |-> handed'[c]],
         UNCHANGED <<redis, received, dropped>>,
         \A c \in Clients : WishesStay(c) /\ SteadyStays(c)
  PROVE  Abstract!Next
<1>1. [c \in Clients |-> Pending(c)]' =
        [c \in Clients |-> [d \in Clients |-> Pending(d)][c] \cup
                             (IF a \in redis[c] THEN {Len(published) + 1} ELSE {})]
  OBVIOUS
<1>2. UNCHANGED <<[c \in Clients |-> Wished(c)], redis, received, dropped,
                  [c \in Clients |-> Steady(c)]>>
  BY DEF WishesStay, SteadyStays
<1>3. Abstract!Publish(a)
  BY <1>1, <1>2 DEF Abstract!Publish
<1> QED
  BY <1>3 DEF Abstract!Next

-----------------------------------------------------------------------------
(* What the three hops of an event do to what is pending                   *)

LEMMA WishesFrame ==
  ASSUME message' = message, \A m \in Messages : mpc'[m] = "idle" <=> mpc[m] = "idle"
  PROVE  \A c \in Clients : WishesStay(c)
<1> SUFFICES ASSUME NEW c \in Clients PROVE WishesStay(c)
  OBVIOUS
<1>1. {m \in Messages : mpc'[m] # "idle" /\ message'[m].client = c} =
      {m \in Messages : mpc[m] # "idle" /\ message[m].client = c}
  OBVIOUS
<1> QED
  BY <1>1 DEF WishesStay, Wished

LEMMA PendingFrame ==
  ASSUME NEW c \in Clients, hand'[c] = hand[c], buffer'[c] = buffer[c], wire'[c] = wire[c]
  PROVE  PendingStays(c)
BY DEF PendingStays, Pending

LEMMA SteadyFrame ==
  ASSUME UNCHANGED <<conn, gaveUp>>
  PROVE  \A c \in Clients : SteadyStays(c)
BY DEF SteadyStays, Steady

\* The elements of a sequence that grows at its end or shrinks at its head
LEMMA Elements ==
  ASSUME NEW s \in Seq(Events)
  PROVE  /\ \A n \in Events : ToSet(Append(s, n)) = ToSet(s) \cup {n}
         /\ s # <<>> => Head(s) \in Events /\ ToSet(s) = {Head(s)} \cup ToSet(Tail(s))
<1>1. ASSUME NEW n \in Events PROVE ToSet(Append(s, n)) = ToSet(s) \cup {n}
  <2>1. /\ DOMAIN Append(s, n) = DOMAIN s \cup {Len(s) + 1}
        /\ Append(s, n)[Len(s) + 1] = n
        /\ \A k \in DOMAIN s : Append(s, n)[k] = s[k]
    OBVIOUS
  <2> QED
    BY <2>1 DEF ToSet
<1>2. ASSUME s # <<>> PROVE Head(s) \in Events /\ ToSet(s) = {Head(s)} \cup ToSet(Tail(s))
  <2>1. /\ Len(s) \in Nat /\ Len(s) # 0 /\ Head(s) = s[1] /\ 1 \in DOMAIN s
        /\ Len(Tail(s)) = Len(s) - 1 /\ DOMAIN s = 1 .. Len(s) /\ Head(s) \in Events
        /\ DOMAIN Tail(s) = 1 .. Len(s) - 1
        /\ \A k \in DOMAIN Tail(s) : Tail(s)[k] = s[k + 1]
    BY <1>2
  <2>2. \A k \in DOMAIN Tail(s) : k + 1 \in DOMAIN s
    BY <2>1
  <2>3. \A k \in DOMAIN s : k = 1 \/ (k - 1 \in DOMAIN Tail(s) /\ Tail(s)[k - 1] = s[k])
    BY <2>1
  <2>4. ToSet(s) \subseteq {Head(s)} \cup ToSet(Tail(s))
    <3> SUFFICES ASSUME NEW k \in DOMAIN s PROVE s[k] \in {Head(s)} \cup ToSet(Tail(s))
      BY DEF ToSet
    <3>1. CASE k = 1
      BY <2>1, <3>1
    <3>2. CASE k - 1 \in DOMAIN Tail(s) /\ Tail(s)[k - 1] = s[k]
      BY <3>2 DEF ToSet
    <3> QED
      BY <2>3, <3>1, <3>2
  <2>5. {Head(s)} \cup ToSet(Tail(s)) \subseteq ToSet(s)
    <3>1. \A k \in DOMAIN Tail(s) : k + 1 \in DOMAIN s /\ Tail(s)[k] = s[k + 1]
      BY <2>1, <2>2
    <3>2. Head(s) \in ToSet(s)
      BY <2>1 DEF ToSet
    <3> QED
      BY <3>1, <3>2 DEF ToSet
  <2> QED
    BY <2>1, <2>4, <2>5
<1> QED
  BY <1>1, <1>2

\* Each event that is pending is in one place, and the event being sent is older
\* than the others.
LEMMA OnePlace ==
  ASSUME MapInv, NEW c \in Clients
  PROVE  /\ hand[c] # <<>> =>
              /\ Head(hand[c]) \in Events /\ ToSet(hand[c]) = {Head(hand[c])}
              /\ \A k \in ToSet(buffer[c]) \cup ToSet(wire[c]) : Head(hand[c]) < k
         /\ buffer[c] # <<>> =>
              /\ Head(buffer[c]) \in Events
              /\ ToSet(buffer[c]) = {Head(buffer[c])} \cup ToSet(Tail(buffer[c]))
              /\ Head(buffer[c]) \notin ToSet(hand[c]) \cup ToSet(Tail(buffer[c])) \cup ToSet(wire[c])
         /\ wire[c] # <<>> =>
              /\ Head(wire[c]) \in Events
              /\ ToSet(wire[c]) = {Head(wire[c])} \cup ToSet(Tail(wire[c]))
              /\ Head(wire[c]) \notin ToSet(hand[c]) \cup ToSet(buffer[c]) \cup ToSet(Tail(wire[c]))
<1> DEFINE h == hand[c]
           b == buffer[c]
           w == wire[c]
<1>1. Ordered(c, Len(published) + 1)
  BY DEF MapInv, OrderInv
<1>2. /\ h \in Seq(Nat) /\ b \in Seq(Nat) /\ w \in Seq(Nat)
      /\ h \in Seq(Events) /\ b \in Seq(Events) /\ w \in Seq(Events)
  BY OrderTypes DEF MapInv, TypeOK
<1>3. /\ Rising(b) /\ Rising(w) /\ Before(h, b) /\ Before(h, w) /\ Before(b, w)
  BY <1>1 DEF Ordered
<1>4. \A s \in Seq(Nat) : DOMAIN s = 1 .. Len(s) /\ \A n \in ToSet(s) : n \in Nat
  BY DEF ToSet
<1>5. ASSUME h # <<>>
      PROVE  /\ Head(h) \in Events /\ ToSet(h) = {Head(h)}
             /\ \A k \in ToSet(b) \cup ToSet(w) : Head(h) < k
  <2>1. PICK n \in Events : h = <<n>>
    BY <1>5 DEF MapInv, HandlingInv
  <2>2. Head(h) = n
    BY <2>1
  <2>3. ToSet(h) = {n} /\ 1 \in DOMAIN h /\ h[1] = n
    BY <2>1 DEF ToSet
  <2>4. \A k \in ToSet(b) \cup ToSet(w) : n < k
    BY <1>3, <2>3 DEF Before, ToSet
  <2> QED
    BY <2>2, <2>3, <2>4
<1>6. ASSUME b # <<>>
      PROVE  /\ Head(b) \in Events /\ ToSet(b) = {Head(b)} \cup ToSet(Tail(b))
             /\ Head(b) \notin ToSet(h) \cup ToSet(Tail(b)) \cup ToSet(w)
  <2>1. Head(b) \in Events /\ ToSet(b) = {Head(b)} \cup ToSet(Tail(b))
    BY <1>2, <1>6, Elements
  <2>2. Head(b) \in Nat /\ 1 \in DOMAIN b /\ b[1] = Head(b)
    BY <1>2, <1>6
  <2>3. Over(Tail(b), Head(b))
    BY <1>2, <1>3, <1>6, TailRises
  <2>4. Head(b) \notin ToSet(Tail(b))
    BY <2>2, <2>3 DEF Over, ToSet
  <2>5. Head(b) \notin ToSet(h)
    BY <1>3, <2>2 DEF Before, ToSet
  <2>6. Head(b) \notin ToSet(w)
    BY <1>3, <2>2 DEF Before, ToSet
  <2> QED
    BY <2>1, <2>4, <2>5, <2>6
<1>7. ASSUME w # <<>>
      PROVE  /\ Head(w) \in Events /\ ToSet(w) = {Head(w)} \cup ToSet(Tail(w))
             /\ Head(w) \notin ToSet(h) \cup ToSet(b) \cup ToSet(Tail(w))
  <2>1. Head(w) \in Events /\ ToSet(w) = {Head(w)} \cup ToSet(Tail(w))
    BY <1>2, <1>7, Elements
  <2>2. Head(w) \in Nat /\ 1 \in DOMAIN w /\ w[1] = Head(w)
    BY <1>2, <1>7
  <2>3. Over(Tail(w), Head(w))
    BY <1>2, <1>3, <1>7, TailRises
  <2>4. Head(w) \notin ToSet(Tail(w))
    BY <2>2, <2>3 DEF Over, ToSet
  <2>5. Head(w) \notin ToSet(h)
    BY <1>3, <2>2 DEF Before, ToSet
  <2>6. Head(w) \notin ToSet(b)
    BY <1>3, <2>2 DEF Before, ToSet
  <2> QED
    BY <2>1, <2>4, <2>5, <2>6
<1> QED
  BY <1>5, <1>6, <1>7

-----------------------------------------------------------------------------
(* Every step of Delivery is a step of Feed or none                        *)

\* An event that Redis or its connection loses, that finds the channel full, or
\* that the listener takes down with it
LEMMA ListenMaps ==
  ASSUME MapInv, NEW c \in Clients, Listen(c) \/ Lose(c)
  PROVE  Abstract!Next \/ UNCHANGED Abstract!vars
<1> DEFINE n == Head(wire[c])
<1>1. wire[c] # <<>> /\ wire' = [wire EXCEPT ![c] = Tail(wire[c])]
  BY DEF Listen, Lose
<1>2. wire'[c] = Tail(wire[c]) /\ \A d \in Clients \ {c} : wire'[d] = wire[d]
  BY <1>1 DEF MapInv, TypeOK
<1>3. UNCHANGED <<conn, gaveUp, hand, message, mpc, published, redis, handed, received>>
  BY DEF Listen, Lose, brokerVars
<1>4. \A d \in Clients : WishesStay(d) /\ SteadyStays(d)
  BY <1>3, WishesFrame, SteadyFrame
<1>5. /\ n \in Events /\ ToSet(wire[c]) = {n} \cup ToSet(Tail(wire[c]))
      /\ n \notin ToSet(hand[c]) \cup ToSet(buffer[c]) \cup ToSet(Tail(wire[c]))
  BY <1>1, OnePlace
<1> HIDE DEF n
<1>6. \/ buffer' = buffer /\ dropped' = [dropped EXCEPT ![c] = @ \cup {n}]
      \/ buffer' = buffer /\ dropped' = dropped /\ channel[c] = "closed"
      \/ buffer' = [buffer EXCEPT ![c] = Append(buffer[c], n)] /\ dropped' = dropped
  BY DEF Listen, Lose, n
<1>7. ASSUME buffer' = buffer
      PROVE  /\ n \in Pending(c) /\ Pending(c)' = Pending(c) \ {n}
             /\ \A d \in Clients \ {c} : PendingStays(d)
  <2>1. n \in Pending(c)
    BY <1>5 DEF Pending
  <2>2. Pending(c)' = Pending(c) \ {n}
    BY <1>2, <1>3, <1>5, <1>7 DEF Pending
  <2>3. \A d \in Clients \ {c} : PendingStays(d)
    BY <1>2, <1>3, <1>7, PendingFrame
  <2> QED
    BY <2>1, <2>2, <2>3
<1>8. CASE buffer' = buffer /\ dropped' = [dropped EXCEPT ![c] = @ \cup {n}]
  BY <1>3, <1>4, <1>7, <1>8, MapsToLose
<1>9. CASE buffer' = buffer /\ dropped' = dropped /\ channel[c] = "closed"
  <2>1. Steady(c)' = FALSE
    BY <1>3, <1>9 DEF MapInv, ChannelInv, Steady
  <2>2. redis' = [redis EXCEPT ![c] = redis'[c]]
    BY <1>3 DEF MapInv, TypeOK
  <2> QED
    BY <1>3, <1>4, <1>7, <1>9, <2>1, <2>2, MapsToLeave DEF MapInv
<1>10. CASE buffer' = [buffer EXCEPT ![c] = Append(buffer[c], n)] /\ dropped' = dropped
  <2>1. buffer'[c] = Append(buffer[c], n) /\ \A d \in Clients \ {c} : buffer'[d] = buffer[d]
    BY <1>10 DEF MapInv, TypeOK
  <2>2. buffer[c] \in Seq(Events)
    BY DEF MapInv, TypeOK
  <2>3. \A e \in Events : ToSet(Append(buffer[c], e)) = ToSet(buffer[c]) \cup {e}
    BY <2>2, Elements
  <2>4. ToSet(Append(buffer[c], n)) = ToSet(buffer[c]) \cup {n}
    BY <1>5, <2>3
  <2>5. PendingStays(c)
    BY <1>2, <1>3, <1>5, <2>1, <2>4 DEF PendingStays, Pending
  <2>6. \A d \in Clients \ {c} : PendingStays(d)
    BY <1>2, <1>3, <2>1, PendingFrame
  <2> QED
    BY <1>3, <1>4, <1>10, <2>5, <2>6, MapsToStutter
<1> QED
  BY <1>6, <1>8, <1>9, <1>10

LEMMA TakeMaps ==
  ASSUME MapInv, NEW c \in Clients, Take(c)
  PROVE  Abstract!Next \/ UNCHANGED Abstract!vars
<1> DEFINE n == Head(buffer[c])
<1>1. /\ hand[c] = <<>> /\ buffer[c] # <<>>
      /\ buffer' = [buffer EXCEPT ![c] = Tail(buffer[c])]
  BY DEF Take
<1>2. buffer'[c] = Tail(buffer[c]) /\ \A d \in Clients \ {c} : buffer'[d] = buffer[d]
  BY <1>1 DEF MapInv, TypeOK
<1>3. UNCHANGED <<conn, gaveUp, wire, message, mpc, published, redis, handed, received>>
  BY DEF Take, brokerVars
<1>4. \A d \in Clients : WishesStay(d) /\ SteadyStays(d)
  BY <1>3, WishesFrame, SteadyFrame
<1>5. /\ n \in Events /\ ToSet(buffer[c]) = {n} \cup ToSet(Tail(buffer[c]))
      /\ n \notin ToSet(hand[c]) \cup ToSet(Tail(buffer[c])) \cup ToSet(wire[c])
  BY <1>1, OnePlace
<1>6. \/ hand' = [hand EXCEPT ![c] = <<n>>] /\ dropped' = dropped
      \/ hand' = hand /\ dropped' = [dropped EXCEPT ![c] = @ \cup {n}]
  BY DEF Take
<1> HIDE DEF n
<1>7. CASE hand' = [hand EXCEPT ![c] = <<n>>] /\ dropped' = dropped
  <2>1. hand'[c] = <<n>> /\ \A d \in Clients \ {c} : hand'[d] = hand[d]
    BY <1>7 DEF MapInv, TypeOK
  <2>2. ToSet(<<n>>) = {n} /\ ToSet(hand[c]) = {}
    BY <1>1 DEF ToSet
  <2>3. PendingStays(c)
    BY <1>2, <1>3, <1>5, <2>1, <2>2 DEF PendingStays, Pending
  <2>4. \A d \in Clients \ {c} : PendingStays(d)
    BY <1>2, <1>3, <2>1, PendingFrame
  <2> QED
    BY <1>3, <1>4, <1>7, <2>3, <2>4, MapsToStutter
<1>8. CASE hand' = hand /\ dropped' = [dropped EXCEPT ![c] = @ \cup {n}]
  <2>1. n \in Pending(c)
    BY <1>5 DEF Pending
  <2>2. Pending(c)' = Pending(c) \ {n}
    BY <1>2, <1>3, <1>5, <1>8 DEF Pending
  <2>3. \A d \in Clients \ {c} : PendingStays(d)
    BY <1>2, <1>3, <1>8, PendingFrame
  <2> QED
    BY <1>3, <1>4, <1>8, <2>1, <2>2, <2>3, MapsToLose
<1> QED
  BY <1>6, <1>7, <1>8

LEMMA SendMaps ==
  ASSUME MapInv, NEW c \in Clients, Send(c)
  PROVE  Abstract!Next \/ UNCHANGED Abstract!vars
<1> DEFINE n == Head(hand[c])
<1>1. hand[c] # <<>>
  BY DEF Send
<1>2. UNCHANGED <<conn, gaveUp, wire, buffer, message, mpc, published, redis, handed>>
  BY DEF Send, brokerVars
<1>3. \A d \in Clients : WishesStay(d) /\ SteadyStays(d)
  BY <1>2, WishesFrame, SteadyFrame
<1>4. /\ n \in Events /\ ToSet(hand[c]) = {n}
      /\ \A k \in ToSet(buffer[c]) \cup ToSet(wire[c]) : n < k
  BY <1>1, OnePlace
<1>5. \/ hand' = hand /\ received' = received /\ dropped' = dropped
      \/ /\ hand' = [hand EXCEPT ![c] = <<>>] /\ dropped' = dropped
         /\ received' = [received EXCEPT ![c] = Append(@, n)]
      \/ /\ hand' = [hand EXCEPT ![c] = <<>>] /\ received' = received
         /\ dropped' = [dropped EXCEPT ![c] = @ \cup {n}]
  BY DEF Send
<1>6. n \in Nat
  BY <1>4 DEF Events
<1> HIDE DEF n
<1>7. n \in Pending(c) /\ \A k \in Pending(c) : n <= k
  <2>1. \A k \in Pending(c) : k = n \/ n < k
    BY <1>4 DEF Pending
  <2>2. \A k \in ToSet(buffer[c]) \cup ToSet(wire[c]) : k \in Nat
    <3>1. buffer[c] \in Seq(Nat) /\ wire[c] \in Seq(Nat)
      BY OrderTypes DEF MapInv
    <3> QED
      BY <3>1 DEF ToSet
  <2>3. \A k \in Pending(c) : k \in Nat
    BY <1>4, <1>6, <2>2 DEF Pending
  <2>4. n \in Pending(c)
    BY <1>4 DEF Pending
  <2> QED
    BY <1>6, <2>1, <2>3, <2>4
<1>8. CASE hand' = hand /\ received' = received /\ dropped' = dropped
  BY <1>2, <1>3, <1>8, PendingFrame, MapsToStutter
<1>9. ASSUME hand' = [hand EXCEPT ![c] = <<>>]
      PROVE  Pending(c)' = Pending(c) \ {n} /\ \A d \in Clients \ {c} : PendingStays(d)
  <2>1. hand'[c] = <<>> /\ \A d \in Clients \ {c} : hand'[d] = hand[d]
    BY <1>9 DEF MapInv, TypeOK
  <2>2. \A d \in Clients \ {c} : PendingStays(d)
    BY <1>2, <2>1, PendingFrame
  <2>3. n \notin ToSet(buffer[c]) \cup ToSet(wire[c])
    BY <1>4, <1>6
  <2>4. ToSet(<<>>) = {}
    BY DEF ToSet
  <2>5. Pending(c)' = Pending(c) \ {n}
    BY <1>2, <1>4, <2>1, <2>3, <2>4 DEF Pending
  <2> QED
    BY <2>2, <2>5
<1>10. CASE /\ hand' = [hand EXCEPT ![c] = <<>>] /\ dropped' = dropped
            /\ received' = [received EXCEPT ![c] = Append(@, n)]
  BY <1>2, <1>3, <1>7, <1>9, <1>10, MapsToDeliver
<1>11. CASE /\ hand' = [hand EXCEPT ![c] = <<>>] /\ received' = received
            /\ dropped' = [dropped EXCEPT ![c] = @ \cup {n}]
  BY <1>2, <1>3, <1>7, <1>9, <1>11, MapsToLose
<1> QED
  BY <1>5, <1>8, <1>10, <1>11

LEMMA PublishMaps ==
  ASSUME MapInv, NEW a \in Auctions, Publish(a)
  PROVE  Abstract!Next
<1> DEFINE n == Len(published) + 1
           new(c) == IF a \in redis[c] THEN {n} ELSE {}
<1>1. UNCHANGED <<conn, gaveUp, hand, buffer, message, mpc, redis, received, dropped>>
  BY DEF Publish, brokerVars
<1>2. \A c \in Clients : WishesStay(c) /\ SteadyStays(c)
  BY <1>1, WishesFrame, SteadyFrame
<1>3. published' = Append(published, a) /\ n \in Events
  <2>1. Len(published) \in Nat
    BY DEF MapInv, TypeOK
  <2>2. published' = Append(published, a) /\ Len(published) < MaxEvents
    BY DEF Publish
  <2> QED
    BY <2>1, <2>2, DeliveryAssumption DEF Events
<1>4. handed' = [c \in Clients |-> handed'[c]]
  BY DEF Publish
<1>5. ASSUME NEW c \in Clients
      PROVE  Pending(c)' = Pending(c) \cup new(c) /\ handed'[c] = handed[c] \cup new(c)
  <2>1. CASE a \in redis[c]
    <3>1. wire'[c] = Append(wire[c], n) /\ handed'[c] = handed[c] \cup {n}
      BY <2>1 DEF Publish
    <3>2. wire[c] \in Seq(Events)
      BY DEF MapInv, TypeOK
    <3>3. \A e \in Events : ToSet(Append(wire[c], e)) = ToSet(wire[c]) \cup {e}
      BY <3>2, Elements
    <3>4. ToSet(wire'[c]) = ToSet(wire[c]) \cup {n}
      BY <1>3, <3>1, <3>3
    <3> QED
      BY <1>1, <2>1, <3>1, <3>4 DEF Pending
  <2>2. CASE a \notin redis[c]
    <3>1. wire'[c] = wire[c] /\ handed'[c] = handed[c]
      BY <2>2 DEF Publish
    <3> QED
      BY <1>1, <2>2, <3>1 DEF Pending
  <2> QED
    BY <2>1, <2>2
<1> QED
  BY <1>1, <1>2, <1>3, <1>4, <1>5, MapsToPublish

LEMMA ReceiveMaps ==
  ASSUME MapInv, NEW m \in Messages, NEW r \in Requests, Receive(m, r)
  PROVE  Abstract!Next
<1> DEFINE c == r.client
           wish == [kind |-> r.kind, auction |-> r.auction]
<1>1. c \in Clients /\ wish \in Abstract!Wishes
  BY DEF Requests, Abstract!Wishes
<1>2. UNCHANGED <<conn, gaveUp, hand, buffer, wire, published, redis, handed, received, dropped>>
  BY DEF Receive, brokerVars, eventVars
<1>3. \A d \in Clients : PendingStays(d) /\ SteadyStays(d)
  BY <1>2, PendingFrame, SteadyFrame
<1>4. /\ mpc[m] = "idle" /\ mpc'[m] # "idle" /\ message'[m] = r
      /\ \A k \in Messages \ {m} : mpc'[k] = mpc[k] /\ message'[k] = message[k]
  BY DEF MapInv, TypeOK, Receive
<1>5. {k \in Messages : mpc'[k] # "idle" /\ message'[k].client = c} =
      {k \in Messages : mpc[k] # "idle" /\ message[k].client = c} \cup {m}
  BY <1>4
<1>6. Wished(c)' = Wished(c) \cup {wish}
  <2>1. \A k \in {k \in Messages : mpc[k] # "idle" /\ message[k].client = c} :
          message'[k] = message[k]
    BY <1>4
  <2> QED
    BY <1>4, <1>5, <2>1 DEF Wished
<1>7. ASSUME NEW d \in Clients \ {c}
      PROVE  WishesStay(d)
  <2>1. {k \in Messages : mpc'[k] # "idle" /\ message'[k].client = d} =
        {k \in Messages : mpc[k] # "idle" /\ message[k].client = d}
    BY <1>4
  <2>2. \A k \in {k \in Messages : mpc[k] # "idle" /\ message[k].client = d} :
          message'[k] = message[k]
    BY <1>4
  <2> QED
    BY <2>1, <2>2 DEF WishesStay, Wished
<1> HIDE DEF c, wish
<1> QED
  BY <1>1, <1>2, <1>3, <1>6, <1>7, MapsToAsk

LEMMA SubscribeMaps ==
  ASSUME MapInv, NEW m \in Messages, Subscribe(m)
  PROVE  Abstract!Next \/ UNCHANGED Abstract!vars
<1>1. mpc[m] = "subscribe" /\ message[m] \in Requests
  BY DEF MapInv, ChannelInv, Subscribe
<1>2. PICK c \in Clients, a \in Auctions : message[m].client = c /\ message[m].auction = a
  BY <1>1 DEF Requests
<1>3. [kind |-> "subscribe", auction |-> a] \in Wished(c)
  <2>1. message[m].kind = "subscribe"
    BY <1>1 DEF MapInv, HandlingInv
  <2> QED
    BY <1>1, <1>2, <2>1 DEF Wished
<1>4. /\ UNCHANGED <<conn, gaveUp, hand, buffer, wire, message,
                    published, handed, received, dropped>>
      /\ mpc' = [mpc EXCEPT ![m] = "done"]
  BY DEF Subscribe, brokerVars, eventVars
<1>5. \A k \in Messages : mpc'[k] = "idle" <=> mpc[k] = "idle"
  BY <1>1, <1>4 DEF MapInv, TypeOK
<1>6. \A d \in Clients : WishesStay(d) /\ PendingStays(d) /\ SteadyStays(d)
  BY <1>4, <1>5, WishesFrame, PendingFrame, SteadyFrame
<1>7. \/ redis' = redis
      \/ redis' = [redis EXCEPT ![c] = @ \cup {a}]
      \/ redis' = [redis EXCEPT ![c] = redis[c]]
  BY <1>2 DEF Subscribe, brokerVars
<1>8. redis' = redis \/ redis' = [redis EXCEPT ![c] = @ \cup {a}]
  BY <1>7 DEF MapInv, TypeOK
<1>9. CASE redis' = redis
  BY <1>4, <1>6, <1>9, MapsToStutter
<1>10. CASE redis' = [redis EXCEPT ![c] = @ \cup {a}]
  BY <1>3, <1>4, <1>6, <1>10, MapsToFollow
<1> QED
  BY <1>8, <1>9, <1>10

LEMMA UnsubscribeMaps ==
  ASSUME MapInv, NEW m \in Messages, Unsubscribe(m)
  PROVE  Abstract!Next \/ UNCHANGED Abstract!vars
<1>1. mpc[m] = "unsubscribe" /\ message[m] \in Requests
  BY DEF MapInv, ChannelInv, Unsubscribe
<1>2. PICK c \in Clients, a \in Auctions : message[m].client = c /\ message[m].auction = a
  BY <1>1 DEF Requests
<1>3. [kind |-> "unsubscribe", auction |-> a] \in Wished(c)
  <2>1. message[m].kind = "unsubscribe"
    BY <1>1 DEF MapInv, HandlingInv
  <2> QED
    BY <1>1, <1>2, <2>1 DEF Wished
<1>4. /\ UNCHANGED <<conn, hand, buffer, message, published, handed, received, dropped>>
      /\ mpc' = [mpc EXCEPT ![m] = "done"]
  BY DEF Unsubscribe, eventVars
<1>5. \A k \in Messages : mpc'[k] = "idle" <=> mpc[k] = "idle"
  BY <1>1, <1>4 DEF MapInv, TypeOK
<1>6. \A d \in Clients : WishesStay(d)
  BY <1>4, <1>5, WishesFrame
<1>7. \/ gaveUp' = gaveUp /\ wire' = wire /\ redis' = redis
      \/ gaveUp' = gaveUp /\ wire' = wire /\ redis' = [redis EXCEPT ![c] = @ \ {a}]
      \/ gaveUp' = gaveUp /\ wire' = wire /\ redis' = [redis EXCEPT ![c] = redis[c]]
      \/ /\ gaveUp' = [gaveUp EXCEPT ![c] = TRUE]
         /\ \/ wire' = wire /\ redis' = redis
            \/ wire' = [wire EXCEPT ![c] = <<>>] /\ redis' = [redis EXCEPT ![c] = {}]
  BY <1>2 DEF Unsubscribe, GiveUp
<1>8. redis' = [redis EXCEPT ![c] = redis[c]] => redis' = redis
  BY DEF MapInv, TypeOK
<1>9. CASE /\ gaveUp' = gaveUp /\ wire' = wire
           /\ redis' = redis \/ redis' = [redis EXCEPT ![c] = @ \ {a}]
  <2>1. \A d \in Clients : PendingStays(d) /\ SteadyStays(d)
    BY <1>4, <1>9, PendingFrame, SteadyFrame
  <2>2. CASE redis' = redis
    BY <1>4, <1>6, <2>1, <2>2, MapsToStutter
  <2>3. CASE redis' = [redis EXCEPT ![c] = @ \ {a}]
    BY <1>3, <1>4, <1>6, <2>1, <2>3, MapsToUnfollow
  <2> QED
    BY <1>9, <2>2, <2>3
<1>10. CASE /\ gaveUp' = [gaveUp EXCEPT ![c] = TRUE]
            /\ \/ wire' = wire /\ redis' = redis
               \/ wire' = [wire EXCEPT ![c] = <<>>] /\ redis' = [redis EXCEPT ![c] = {}]
  <2>1. gaveUp'[c] = TRUE /\ \A d \in Clients \ {c} : gaveUp'[d] = gaveUp[d]
    BY <1>10 DEF MapInv, TypeOK
  <2>2. Steady(c)' = FALSE /\ \A d \in Clients \ {c} : SteadyStays(d)
    BY <1>4, <2>1 DEF Steady, SteadyStays
  <2>3. /\ wire'[c] = wire[c] \/ wire'[c] = <<>>
        /\ \A d \in Clients \ {c} : wire'[d] = wire[d]
    BY <1>10 DEF MapInv, TypeOK
  <2>4. \A d \in Clients \ {c} : PendingStays(d)
    BY <1>4, <2>3, PendingFrame
  <2>5. Pending(c)' \subseteq Pending(c)
    <3>1. ToSet(<<>>) = {}
      BY DEF ToSet
    <3> QED
      BY <1>4, <2>3, <3>1 DEF Pending
  <2>6. redis' = [redis EXCEPT ![c] = redis'[c]] /\ redis'[c] \subseteq redis[c]
    BY <1>10 DEF MapInv, TypeOK
  <2> QED
    BY <1>4, <1>6, <2>2, <2>4, <2>5, <2>6, MapsToLeave DEF MapInv
<1> QED
  BY <1>7, <1>8, <1>9, <1>10

\* Steps of the handler that no event and no subscription takes part in
LEMMA HandlerMaps ==
  ASSUME MapInv, UNCHANGED <<published, redis, handed, received, dropped, hand, buffer, wire>>,
         UNCHANGED <<conn, gaveUp, message>>,
         \A m \in Messages : mpc'[m] = "idle" <=> mpc[m] = "idle"
  PROVE  UNCHANGED Abstract!vars
BY WishesFrame, PendingFrame, SteadyFrame, MapsToStutter

LEMMA ConnectionMaps ==
  ASSUME MapInv, NEW c \in Clients, Connect(c) \/ Disconnect(c) \/ Unregister(c)
  PROVE  Abstract!Next \/ UNCHANGED Abstract!vars
<1>1. UNCHANGED <<published, redis, handed, received, dropped, hand, buffer, wire,
                  gaveUp, message, mpc>>
  BY DEF Connect, Disconnect, Unregister, brokerVars, eventVars
<1>2. \A d \in Clients : WishesStay(d) /\ PendingStays(d)
  BY <1>1, WishesFrame, PendingFrame
<1>3. /\ \/ conn[c] = "new" /\ conn'[c] = "connected"
         \/ conn[c] = "connected" /\ conn'[c] = "cancelled"
         \/ conn[c] = "cancelled" /\ conn'[c] = "gone"
      /\ \A d \in Clients \ {c} : conn'[d] = conn[d]
  BY DEF MapInv, TypeOK, Connect, Disconnect, Unregister
<1>4. \A d \in Clients \ {c} : SteadyStays(d)
  BY <1>1, <1>3 DEF SteadyStays, Steady
<1>5. SteadyStays(c) \/ Steady(c)' = FALSE
  BY <1>1, <1>3 DEF SteadyStays, Steady
<1>6. CASE SteadyStays(c)
  BY <1>1, <1>2, <1>4, <1>6, MapsToStutter
<1>7. CASE Steady(c)' = FALSE
  <2>1. redis' = [redis EXCEPT ![c] = redis'[c]] /\ redis'[c] \subseteq redis[c]
    BY <1>1 DEF MapInv, TypeOK
  <2> QED
    BY <1>1, <1>2, <1>4, <1>7, <2>1, MapsToLeave DEF MapInv, PendingStays
<1> QED
  BY <1>5, <1>6, <1>7

LEMMA DeliveryStepMaps == MapInv /\ [Next]_vars => [Abstract!Next]_(Abstract!vars)
<1> SUFFICES ASSUME MapInv, [Next]_vars PROVE Abstract!Next \/ UNCHANGED Abstract!vars
  OBVIOUS
<1>1. ASSUME NEW c \in Clients, Connect(c) \/ Disconnect(c) \/ Unregister(c)
      PROVE  Abstract!Next \/ UNCHANGED Abstract!vars
  BY <1>1, ConnectionMaps
<1>2. ASSUME NEW c \in Clients, Listen(c) \/ Lose(c)
      PROVE  Abstract!Next \/ UNCHANGED Abstract!vars
  BY <1>2, ListenMaps
<1>3. ASSUME NEW c \in Clients, Take(c)
      PROVE  Abstract!Next \/ UNCHANGED Abstract!vars
  BY <1>3, TakeMaps
<1>4. ASSUME NEW c \in Clients, Send(c)
      PROVE  Abstract!Next \/ UNCHANGED Abstract!vars
  BY <1>4, SendMaps
<1>5. ASSUME NEW c \in Clients, ForwardEmpty(c)
      PROVE  Abstract!Next \/ UNCHANGED Abstract!vars
  BY <1>5, HandlerMaps DEF ForwardEmpty, brokerVars
<1>6. ASSUME NEW m \in Messages, FindChannel(m)
      PROVE  Abstract!Next \/ UNCHANGED Abstract!vars
  <2>1. \A k \in Messages : mpc'[k] = "idle" <=> mpc[k] = "idle"
    BY <1>6 DEF MapInv, TypeOK, FindChannel
  <2>2. UNCHANGED <<published, redis, handed, received, dropped, hand, buffer, wire,
                    conn, gaveUp, message>>
    BY <1>6 DEF FindChannel, brokerVars, eventVars
  <2> QED
    BY <2>1, <2>2, HandlerMaps
<1>7. ASSUME NEW m \in Messages, Subscribe(m)
      PROVE  Abstract!Next \/ UNCHANGED Abstract!vars
  BY <1>7, SubscribeMaps
<1>8. ASSUME NEW m \in Messages, Unsubscribe(m)
      PROVE  Abstract!Next \/ UNCHANGED Abstract!vars
  BY <1>8, UnsubscribeMaps
<1>9. ASSUME NEW m \in Messages, NEW r \in Requests, Receive(m, r)
      PROVE  Abstract!Next \/ UNCHANGED Abstract!vars
  BY <1>9, ReceiveMaps
<1>10. ASSUME NEW a \in Auctions, Publish(a)
       PROVE  Abstract!Next \/ UNCHANGED Abstract!vars
  BY <1>10, PublishMaps
<1>11. CASE UNCHANGED vars
  BY <1>11, HandlerMaps DEF vars, brokerVars, eventVars
<1> QED
  BY <1>1, <1>2, <1>3, <1>4, <1>5, <1>6, <1>7, <1>8, <1>9, <1>10, <1>11 DEF Next

LEMMA DeliveryInitMaps == Init => Abstract!Init
<1> SUFFICES ASSUME Init PROVE Abstract!Init
  OBVIOUS
<1>1. ToSet(<<>>) = {}
  BY DEF ToSet
<1>2. \A c \in Clients : Wished(c) = {} /\ Pending(c) = {} /\ Steady(c) = TRUE
  BY <1>1 DEF Init, Wished, Pending, Steady
<1> QED
  BY <1>2 DEF Init, Abstract!Init

\* Workers that overtake each other, panics half way, full and closed channels,
\* calls of Redis that fail and clients that come and go: handler, broadcaster
\* and Redis together are a feed.
THEOREM DeliveryImplementsFeed == Spec => FeedSpec
BY MapInvariant, DeliveryInitMaps, DeliveryStepMaps, PTL DEF Spec, FeedSpec, Abstract!Spec

-----------------------------------------------------------------------------
(* What every feed promises, Delivery promises                             *)

Feeds == INSTANCE Feed_proofs
           WITH asked <- [c \in Clients |-> Wished(c)], follows <- redis, due <- handed,
                pending <- [c \in Clients |-> Pending(c)], lost <- dropped,
                steady <- [c \in Clients |-> Steady(c)]

LEMMA FeedKeepsPromise ==
  FeedSpec => [](Abstract!SentInOrder /\ SentOnlyDue /\ NothingForgotten)
<1>1. FeedSpec => Feeds!Spec
  BY PTL DEF FeedSpec, Abstract!Spec, Feeds!Spec, Abstract!Init, Feeds!Init,
             Abstract!Next, Feeds!Next, Abstract!vars, Feeds!vars,
             Abstract!Wishes, Feeds!Wishes,
             Abstract!Ask, Feeds!Ask, Abstract!Follow, Feeds!Follow,
             Abstract!Unfollow, Feeds!Unfollow, Abstract!Publish, Feeds!Publish,
             Abstract!Deliver, Feeds!Deliver, Abstract!Lose, Feeds!Lose,
             Abstract!Leave, Feeds!Leave
<1>2. Feeds!Spec => [](Feeds!SentInOrder /\ Feeds!SentOnlyDue /\ Feeds!NothingForgotten)
  BY Feeds!FeedPromise
<1>3. /\ Feeds!SentInOrder <=> Abstract!SentInOrder
      /\ Feeds!SentOnlyDue <=> SentOnlyDue
      /\ Feeds!NothingForgotten <=> NothingForgotten
  BY DEF Feeds!SentInOrder, Abstract!SentInOrder, Feeds!Sent, Abstract!Sent,
         SentOnlyDue, Feeds!SentOnlyDue, Abstract!SentOnlyDue,
         NothingForgotten, Feeds!NothingForgotten, Abstract!NothingForgotten
<1> QED
  BY <1>1, <1>2, <1>3, PTL

\* A client is sent no event that Redis did not hand to its own pubsub, and none
\* of an auction it has not asked for.
THEOREM SentOnlyDueInvariant == Spec => []SentOnlyDue
BY DeliveryImplementsFeed, FeedKeepsPromise, PTL

\* Of the events Redis hands to a client that stays and keeps a subscription, none
\* disappears between the pubsub, the channel and Send without a record.
THEOREM NothingForgottenInvariant == Spec => []NothingForgotten
BY DeliveryImplementsFeed, FeedKeepsPromise, PTL
================================================================================
