------------------------------ MODULE Feed_proofs ------------------------------
(***************************************************************************)
(* What follows from the abstract specification Feed, for any clients and  *)
(* auctions and any number of events.                                      *)
(***************************************************************************)
EXTENDS Feed, TLAPS

FeedTypes ==
  /\ published \in Seq(Auctions)
  /\ asked \in [Clients -> SUBSET Wishes]
  /\ follows \in [Clients -> SUBSET Auctions]
  /\ due \in [Clients -> SUBSET Nat]
  /\ pending \in [Clients -> SUBSET Nat]
  /\ received \in [Clients -> Seq(Nat)]
  /\ lost \in [Clients -> SUBSET Nat]
  /\ steady \in [Clients -> BOOLEAN]

\* What a client follows it has asked for; what is due to it was published, for
\* an auction it has asked for; what it was sent or is to be sent was due; and
\* what it was sent is older than what is pending.
FeedInv ==
  \A c \in Clients :
    /\ \A a \in follows[c] : [kind |-> "subscribe", auction |-> a] \in asked[c]
    /\ \A n \in due[c] :
         /\ n \in 1 .. Len(published)
         /\ [kind |-> "subscribe", auction |-> published[n]] \in asked[c]
    /\ pending[c] \subseteq due[c]
    /\ \A k \in DOMAIN received[c] :
         received[c][k] \in due[c] /\ \A n \in pending[c] : received[c][k] < n

LEMMA FeedInit == Init => FeedTypes /\ FeedInv /\ SentInOrder /\ NothingForgotten
<1> SUFFICES ASSUME Init PROVE FeedTypes /\ FeedInv /\ SentInOrder /\ NothingForgotten
  OBVIOUS
<1>1. <<>> \in Seq(Auctions) /\ <<>> \in Seq(Nat)
  OBVIOUS
<1>2. /\ due \in [Clients -> SUBSET Nat] /\ pending \in [Clients -> SUBSET Nat]
      /\ lost \in [Clients -> SUBSET Nat] /\ steady \in [Clients -> BOOLEAN]
      /\ asked \in [Clients -> SUBSET Wishes] /\ follows \in [Clients -> SUBSET Auctions]
  BY DEF Init
<1>3. received \in [Clients -> Seq(Nat)]
  BY <1>1 DEF Init
<1> QED
  BY <1>1, <1>2, <1>3 DEF Init, FeedTypes, FeedInv, SentInOrder, NothingForgotten

LEMMA FeedTypesStep == FeedTypes /\ [Next]_vars => FeedTypes'
<1> SUFFICES ASSUME FeedTypes, [Next]_vars PROVE FeedTypes'
  OBVIOUS
<1>1. ASSUME NEW a \in Auctions, Publish(a)
      PROVE  FeedTypes'
  <2>1. published' \in Seq(Auctions) /\ Len(published) + 1 \in Nat
    BY <1>1 DEF FeedTypes, Publish
  <2>2. \A c \in Clients : due'[c] \in SUBSET Nat /\ pending'[c] \in SUBSET Nat
    BY <1>1, <2>1 DEF FeedTypes, Publish
  <2> QED
    BY <1>1, <2>1, <2>2 DEF FeedTypes, Publish
<1>2. ASSUME NEW c \in Clients, Leave(c)
      PROVE  FeedTypes'
  BY <1>2 DEF FeedTypes, Leave
<1>3. ASSUME NEW c \in Clients, NEW wish \in Wishes, Ask(c, wish)
      PROVE  FeedTypes'
  BY <1>3 DEF FeedTypes, Ask
<1>4. ASSUME NEW c \in Clients, NEW a \in Auctions, Follow(c, a)
      PROVE  FeedTypes'
  BY <1>4 DEF FeedTypes, Follow
<1>5. ASSUME NEW c \in Clients, NEW a \in Auctions, Unfollow(c, a)
      PROVE  FeedTypes'
  BY <1>5 DEF FeedTypes, Unfollow
<1>6. ASSUME NEW c \in Clients, NEW n \in pending[c], Deliver(c, n)
      PROVE  FeedTypes'
  <2>1. n \in Nat /\ received[c] \in Seq(Nat)
    BY DEF FeedTypes
  <2>2. Append(received[c], n) \in Seq(Nat)
    BY <2>1
  <2> QED
    BY <1>6, <2>2 DEF FeedTypes, Deliver
<1>7. ASSUME NEW c \in Clients, NEW n \in pending[c], Lose(c, n)
      PROVE  FeedTypes'
  <2>1. n \in Nat
    BY DEF FeedTypes
  <2> QED
    BY <1>7, <2>1 DEF FeedTypes, Lose
<1>8. CASE UNCHANGED vars
  BY <1>8 DEF FeedTypes, vars
<1> QED
  BY <1>1, <1>2, <1>3, <1>4, <1>5, <1>6, <1>7, <1>8 DEF Next

\* Steps that send and publish nothing keep the invariant when what a client
\* follows stays among what it has asked for and nothing becomes pending.
LEMMA FeedFrame ==
  ASSUME FeedInv, SentInOrder,
         UNCHANGED <<published, due, received>>,
         \A c \in Clients :
           /\ asked[c] \subseteq asked'[c] /\ pending'[c] \subseteq pending[c]
           /\ \A a \in follows'[c] : [kind |-> "subscribe", auction |-> a] \in asked'[c]
  PROVE  FeedInv' /\ SentInOrder'
BY DEF FeedInv, SentInOrder

LEMMA FeedStep ==
  FeedTypes /\ FeedInv /\ SentInOrder /\ [Next]_vars => FeedInv' /\ SentInOrder'
<1> SUFFICES ASSUME FeedTypes, FeedInv, SentInOrder, [Next]_vars
             PROVE  FeedInv' /\ SentInOrder'
  OBVIOUS
<1>1. ASSUME NEW a \in Auctions, Publish(a)
      PROVE  FeedInv' /\ SentInOrder'
  <2> DEFINE n == Len(published) + 1
  <2>1. /\ n \in Nat /\ Len(published) \in Nat /\ Len(published') = n /\ published'[n] = a
        /\ \A k \in 1 .. Len(published) : published'[k] = published[k]
    BY <1>1 DEF FeedTypes, Publish
  <2>2. UNCHANGED <<asked, follows, received, lost, steady>>
    BY <1>1 DEF Publish
  <2> SUFFICES ASSUME NEW c \in Clients
               PROVE  /\ \A k \in due'[c] :
                           /\ k \in 1 .. Len(published')
                           /\ [kind |-> "subscribe", auction |-> published'[k]] \in asked[c]
                      /\ pending'[c] \subseteq due'[c]
                      /\ \A k \in DOMAIN received[c] :
                           received[c][k] \in due'[c] /\ \A j \in pending'[c] : received[c][k] < j
    BY <2>2 DEF FeedInv, SentInOrder
  <2>3. \/ due'[c] = due[c] /\ pending'[c] = pending[c]
        \/ due'[c] = due[c] \cup {n} /\ pending'[c] = pending[c] \cup {n} /\ a \in follows[c]
    BY <1>1 DEF Publish
  <2>4. \A k \in due[c] : k \in 1 .. Len(published) /\ k < n
    <3>1. \A k \in due[c] : k \in 1 .. Len(published)
      BY DEF FeedInv
    <3> QED
      BY <2>1, <3>1
  <2>5. \A k \in due[c] : [kind |-> "subscribe", auction |-> published'[k]] \in asked[c]
    <3> SUFFICES ASSUME NEW k \in due[c]
                 PROVE  [kind |-> "subscribe", auction |-> published'[k]] \in asked[c]
      OBVIOUS
    <3>1. published'[k] = published[k]
      BY <2>1, <2>4
    <3>2. [kind |-> "subscribe", auction |-> published[k]] \in asked[c]
      BY DEF FeedInv
    <3> QED
      BY <3>1, <3>2
  <2>6. \A k \in DOMAIN received[c] : received[c][k] < n
    BY <2>4 DEF FeedInv
  <2>7. a \in follows[c] => [kind |-> "subscribe", auction |-> published'[n]] \in asked[c]
    BY <2>1 DEF FeedInv
  <2>8. 1 .. Len(published') = 1 .. Len(published) \cup {n}
    BY <2>1
  <2> HIDE DEF n
  <2>9. \A k \in due'[c] :
          /\ k \in 1 .. Len(published')
          /\ [kind |-> "subscribe", auction |-> published'[k]] \in asked[c]
    BY <2>3, <2>4, <2>5, <2>7, <2>8
  <2>10. pending'[c] \subseteq due'[c]
    BY <2>3 DEF FeedInv
  <2>11. \A k \in DOMAIN received[c] :
           received[c][k] \in due'[c] /\ \A j \in pending'[c] : received[c][k] < j
    BY <2>3, <2>6 DEF FeedInv
  <2> QED
    BY <2>9, <2>10, <2>11
<1>2. ASSUME NEW c \in Clients, Leave(c)
      PROVE  FeedInv' /\ SentInOrder'
  <2>1. \A d \in Clients : follows'[d] \subseteq follows[d] /\ pending'[d] \subseteq pending[d]
    BY <1>2 DEF FeedTypes, Leave
  <2>2. UNCHANGED <<published, asked, due, received>>
    BY <1>2 DEF Leave
  <2> QED
    BY <2>1, <2>2, FeedFrame DEF FeedInv
<1>3. ASSUME NEW c \in Clients, NEW wish \in Wishes, Ask(c, wish)
      PROVE  FeedInv' /\ SentInOrder'
  <2>1. \A d \in Clients : asked[d] \subseteq asked'[d]
    BY <1>3 DEF FeedTypes, Ask
  <2>2. UNCHANGED <<published, follows, due, received, pending>>
    BY <1>3 DEF Ask
  <2> QED
    BY <2>1, <2>2, FeedFrame DEF FeedInv
<1>4. ASSUME NEW c \in Clients, NEW a \in Auctions, Follow(c, a)
      PROVE  FeedInv' /\ SentInOrder'
  <2>1. /\ follows'[c] = follows[c] \cup {a}
        /\ \A d \in Clients \ {c} : follows'[d] = follows[d]
    BY <1>4 DEF FeedTypes, Follow
  <2>2. /\ UNCHANGED <<published, asked, due, received, pending>>
        /\ [kind |-> "subscribe", auction |-> a] \in asked[c]
    BY <1>4 DEF Follow
  <2>3. \A d \in Clients : \A b \in follows'[d] :
          [kind |-> "subscribe", auction |-> b] \in asked[d]
    BY <2>1, <2>2 DEF FeedInv
  <2> QED
    BY <2>2, <2>3, FeedFrame
<1>5. ASSUME NEW c \in Clients, NEW a \in Auctions, Unfollow(c, a)
      PROVE  FeedInv' /\ SentInOrder'
  <2>1. \A d \in Clients : follows'[d] \subseteq follows[d]
    BY <1>5 DEF FeedTypes, Unfollow
  <2>2. UNCHANGED <<published, asked, due, received, pending>>
    BY <1>5 DEF Unfollow
  <2> QED
    BY <2>1, <2>2, FeedFrame DEF FeedInv
<1>6. ASSUME NEW c \in Clients, NEW n \in pending[c], Deliver(c, n)
      PROVE  FeedInv' /\ SentInOrder'
  <2> DEFINE r == received[c]
             s == Append(r, n)
  <2>1. n \in Nat /\ r \in Seq(Nat) /\ pending[c] \subseteq Nat
    BY DEF FeedTypes
  <2>2. UNCHANGED <<published, asked, follows, due>>
    BY <1>6 DEF Deliver
  <2>3. /\ received'[c] = s /\ pending'[c] = pending[c] \ {n}
        /\ \A d \in Clients \ {c} : received'[d] = received[d] /\ pending'[d] = pending[d]
    BY <1>6 DEF FeedTypes, Deliver
  <2>4. /\ Len(r) \in Nat /\ DOMAIN r = 1 .. Len(r) /\ DOMAIN s = 1 .. Len(r) + 1
        /\ s[Len(r) + 1] = n /\ \A k \in DOMAIN r : s[k] = r[k]
    BY <2>1
  <2>5. \A k \in DOMAIN s : k \in DOMAIN r \/ k = Len(r) + 1
    BY <2>4
  <2>6. \A k \in DOMAIN r : r[k] \in due[c] /\ \A j \in pending[c] : r[k] < j
    BY DEF FeedInv
  <2>7. \A k \in DOMAIN s : s[k] \in due[c] /\ \A j \in pending[c] \ {n} : s[k] < j
    <3>1. n \in due[c] /\ \A j \in pending[c] \ {n} : n < j
      BY <1>6, <2>1 DEF FeedInv, Deliver
    <3> QED
      BY <2>4, <2>5, <2>6, <3>1
  <2>8. \A j, k \in DOMAIN s : j < k => s[j] < s[k]
    <3> SUFFICES ASSUME NEW j \in DOMAIN s, NEW k \in DOMAIN s, j < k PROVE s[j] < s[k]
      OBVIOUS
    <3>1. j \in DOMAIN r
      BY <2>4, <2>5
    <3>2. CASE k \in DOMAIN r
      <4>1. r[j] < r[k]
        BY <3>1, <3>2 DEF SentInOrder
      <4> QED
        BY <2>4, <3>1, <3>2, <4>1
    <3>3. CASE k = Len(r) + 1
      BY <2>4, <2>6, <3>1, <3>3
    <3> QED
      BY <2>5, <3>2, <3>3
  <2> HIDE DEF s, r
  <2>9. FeedInv'
    BY <2>2, <2>3, <2>7 DEF FeedInv
  <2>10. SentInOrder'
    BY <2>3, <2>8 DEF SentInOrder
  <2> QED
    BY <2>9, <2>10
<1>7. ASSUME NEW c \in Clients, NEW n \in pending[c], Lose(c, n)
      PROVE  FeedInv' /\ SentInOrder'
  <2>1. \A d \in Clients : pending'[d] \subseteq pending[d]
    BY <1>7 DEF FeedTypes, Lose
  <2>2. UNCHANGED <<published, asked, follows, due, received>>
    BY <1>7 DEF Lose
  <2> QED
    BY <2>1, <2>2, FeedFrame DEF FeedInv
<1>8. CASE UNCHANGED vars
  BY <1>8 DEF FeedInv, SentInOrder, vars
<1> QED
  BY <1>1, <1>2, <1>3, <1>4, <1>5, <1>6, <1>7, <1>8 DEF Next

LEMMA NothingForgottenStep ==
  FeedTypes /\ NothingForgotten /\ [Next]_vars => NothingForgotten'
<1> SUFFICES ASSUME FeedTypes, NothingForgotten, [Next]_vars, NEW c \in Clients, steady'[c]
             PROVE  due'[c] \subseteq Sent(c)' \cup pending'[c] \cup lost'[c]
  BY DEF NothingForgotten
<1>1. ASSUME NEW a \in Auctions, Publish(a)
      PROVE  due'[c] \subseteq Sent(c)' \cup pending'[c] \cup lost'[c]
  BY <1>1 DEF NothingForgotten, Publish, Sent
<1>2. ASSUME NEW d \in Clients, Leave(d)
      PROVE  due'[c] \subseteq Sent(c)' \cup pending'[c] \cup lost'[c]
  <2>1. c # d /\ steady[c] /\ pending'[c] = pending[c]
    BY <1>2 DEF FeedTypes, Leave
  <2> QED
    BY <1>2, <2>1 DEF NothingForgotten, Leave, Sent
<1>3. ASSUME NEW d \in Clients, NEW wish \in Wishes, Ask(d, wish)
      PROVE  due'[c] \subseteq Sent(c)' \cup pending'[c] \cup lost'[c]
  BY <1>3 DEF NothingForgotten, Ask, Sent
<1>4. ASSUME NEW d \in Clients, NEW a \in Auctions, Follow(d, a) \/ Unfollow(d, a)
      PROVE  due'[c] \subseteq Sent(c)' \cup pending'[c] \cup lost'[c]
  BY <1>4 DEF NothingForgotten, Follow, Unfollow, Sent
<1>5. ASSUME NEW d \in Clients, NEW n \in pending[d], Deliver(d, n)
      PROVE  due'[c] \subseteq Sent(c)' \cup pending'[c] \cup lost'[c]
  <2>1. due' = due /\ lost' = lost /\ steady[c]
    BY <1>5 DEF Deliver
  <2>2. CASE c # d
    BY <1>5, <2>1, <2>2 DEF FeedTypes, NothingForgotten, Deliver, Sent
  <2>3. CASE c = d
    <3>1. received'[c] = Append(received[c], n) /\ pending'[c] = pending[c] \ {n}
      BY <1>5, <2>3 DEF FeedTypes, Deliver
    <3>2. received[c] \in Seq(Nat) /\ n \in Nat
      BY <2>3 DEF FeedTypes
    <3>3. Sent(c)' = Sent(c) \cup {n}
      <4>1. /\ Len(received[c]) \in Nat /\ DOMAIN received[c] = 1 .. Len(received[c])
            /\ DOMAIN received'[c] = 1 .. Len(received[c]) + 1
            /\ received'[c][Len(received[c]) + 1] = n
            /\ \A k \in DOMAIN received[c] : received'[c][k] = received[c][k]
        BY <3>1, <3>2
      <4>2. DOMAIN received'[c] = DOMAIN received[c] \cup {Len(received[c]) + 1}
        BY <4>1
      <4> QED
        BY <4>1, <4>2 DEF Sent
    <3> QED
      BY <2>1, <3>1, <3>3 DEF NothingForgotten
  <2> QED
    BY <2>2, <2>3
<1>6. ASSUME NEW d \in Clients, NEW n \in pending[d], Lose(d, n)
      PROVE  due'[c] \subseteq Sent(c)' \cup pending'[c] \cup lost'[c]
  <2>1. due' = due /\ received' = received /\ steady[c]
    BY <1>6 DEF Lose
  <2>2. pending[c] \cup lost[c] \subseteq pending'[c] \cup lost'[c]
    BY <1>6 DEF FeedTypes, Lose
  <2> QED
    BY <2>1, <2>2 DEF NothingForgotten, Sent
<1>7. CASE UNCHANGED vars
  BY <1>7 DEF NothingForgotten, vars, Sent
<1> QED
  BY <1>1, <1>2, <1>3, <1>4, <1>5, <1>6, <1>7 DEF Next

LEMMA SentWasDue == FeedInv => SentOnlyDue
<1> SUFFICES ASSUME FeedInv, NEW c \in Clients, NEW n \in Sent(c)
             PROVE  /\ n \in due[c]
                    /\ n \in DOMAIN published
                    /\ [kind |-> "subscribe", auction |-> published[n]] \in asked[c]
  BY DEF SentOnlyDue
<1> QED
  BY DEF FeedInv, Sent

\* A feed sends each client the events that are due to it, oldest first, and
\* forgets none of them as long as the client stays.
THEOREM FeedPromise == Spec => [](SentInOrder /\ SentOnlyDue /\ NothingForgotten)
<1>1. FeedTypes /\ FeedInv /\ SentInOrder /\ NothingForgotten /\ [Next]_vars =>
        (FeedTypes /\ FeedInv /\ SentInOrder /\ NothingForgotten)'
  BY FeedTypesStep, FeedStep, NothingForgottenStep
<1> QED
  BY <1>1, FeedInit, SentWasDue, PTL DEF Spec
===============================================================================
