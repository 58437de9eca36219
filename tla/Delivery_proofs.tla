---------------------------- MODULE Delivery_proofs ----------------------------
(***************************************************************************)
(* Theorems about Delivery, for any number of clients, auctions, messages  *)
(* and events, any capacity of the channels, with and without errors.      *)
(***************************************************************************)
EXTENDS DeliveryProperties, TLAPS

-----------------------------------------------------------------------------
(* Types, and the state of channels                                        *)

\* A client whose message a worker handles, or that an event is sent to, has
\* connected; only a client that has not connected has no channel, and a channel
\* is closed for a reason.
ChannelInv ==
  /\ \A m \in Messages : mpc[m] # "idle" =>
       message[m] \in Requests /\ conn[message[m].client] # "new"
  /\ \A c \in Clients :
       /\ channel[c] = "none" <=> conn[c] = "new"
       /\ channel[c] = "closed" => conn[c] = "gone" \/ gaveUp[c]
       /\ hand[c] # <<>> => conn[c] # "new"

LEMMA DeliveryInit == Init => TypeOK /\ ChannelInv /\ HarmHasCause /\ SubscriptionsAgree
<1> SUFFICES ASSUME Init PROVE TypeOK /\ ChannelInv /\ HarmHasCause /\ SubscriptionsAgree
  OBVIOUS
<1>1. /\ listed \in [Clients -> BOOLEAN] /\ listening \in [Clients -> BOOLEAN]
      /\ empty \in [Clients -> BOOLEAN] /\ gaveUp \in [Clients -> BOOLEAN]
  BY DEF Init
<1>2. <<>> \in Seq(Events) /\ <<>> \in Seq(Auctions)
  OBVIOUS
<1>3. /\ buffer \in [Clients -> Seq(Events)] /\ wire \in [Clients -> Seq(Events)]
      /\ received \in [Clients -> Seq(Events)] /\ hand \in [Clients -> Seq(Events)]
  BY <1>2 DEF Init
<1>4. TypeOK
  BY <1>1, <1>2, <1>3 DEF Init, TypeOK
<1> QED
  BY <1>4 DEF Init, ChannelInv, HarmHasCause, SubscriptionsAgree

LEMMA DeliveryTypeStep == TypeOK /\ ChannelInv /\ [Next]_vars => TypeOK'
<1> SUFFICES ASSUME TypeOK, ChannelInv, [Next]_vars PROVE TypeOK'
  OBVIOUS
<1> USE DEF brokerVars, eventVars
<1>1. ASSUME NEW c \in Clients, Connect(c)
      PROVE  TypeOK'
  BY <1>1 DEF TypeOK, Connect
<1>2. ASSUME NEW c \in Clients, Disconnect(c)
      PROVE  TypeOK'
  BY <1>2 DEF TypeOK, Disconnect
<1>3. ASSUME NEW c \in Clients, Unregister(c)
      PROVE  TypeOK'
  BY <1>3 DEF TypeOK, Unregister
<1>4. ASSUME NEW c \in Clients, Listen(c)
      PROVE  TypeOK'
  <2>1. wire[c] # <<>> /\ wire[c] \in Seq(Events)
    BY <1>4 DEF TypeOK, Listen
  <2>2. Head(wire[c]) \in Events /\ Tail(wire[c]) \in Seq(Events)
    BY <2>1
  <2>3. Append(buffer[c], Head(wire[c])) \in Seq(Events)
    BY <2>2 DEF TypeOK
  <2>4. wire' = [wire EXCEPT ![c] = Tail(wire[c])]
    BY <1>4 DEF Listen
  <2>5. buffer' = buffer \/ buffer' = [buffer EXCEPT ![c] = Append(buffer[c], Head(wire[c]))]
    BY <1>4 DEF Listen
  <2>6. dropped' = dropped \/ dropped' = [dropped EXCEPT ![c] = dropped[c] \cup {Head(wire[c])}]
    BY <1>4 DEF Listen
  <2>7. listening' = listening \/ listening' = [listening EXCEPT ![c] = FALSE]
    BY <1>4 DEF Listen
  <2>8. wire' \in [Clients -> Seq(Events)]
    <3>1. wire \in [Clients -> Seq(Events)]
      BY DEF TypeOK
    <3> QED
      BY <2>2, <2>4, <3>1
  <2>9. buffer' \in [Clients -> Seq(Events)]
    <3>1. buffer \in [Clients -> Seq(Events)]
      BY DEF TypeOK
    <3> QED
      BY <2>3, <2>5, <3>1
  <2>10. dropped' \in [Clients -> SUBSET Events]
    <3>1. dropped[c] \cup {Head(wire[c])} \in SUBSET Events
      BY <2>2 DEF TypeOK
    <3>5. dropped \in [Clients -> SUBSET Events]
      BY DEF TypeOK
    <3> QED
      BY <2>6, <3>1, <3>5
  <2>11. listening' \in [Clients -> BOOLEAN]
    <3>1. listening \in [Clients -> BOOLEAN]
      BY DEF TypeOK
    <3> QED
      BY <2>7, <3>1
  <2> QED
    BY <1>4, <2>8, <2>9, <2>10, <2>11 DEF TypeOK, Listen
<1>5. ASSUME NEW c \in Clients, Lose(c)
      PROVE  TypeOK'
  <2>1. wire[c] # <<>> /\ wire[c] \in Seq(Events)
    BY <1>5 DEF TypeOK, Lose
  <2>2. Head(wire[c]) \in Events /\ Tail(wire[c]) \in Seq(Events)
    BY <2>1
  <2> QED
    BY <1>5, <2>2 DEF TypeOK, Lose
<1>6. ASSUME NEW c \in Clients, Take(c)
      PROVE  TypeOK'
  <2>1. buffer[c] # <<>> /\ buffer[c] \in Seq(Events)
    BY <1>6 DEF TypeOK, Take
  <2>2. Head(buffer[c]) \in Events /\ Tail(buffer[c]) \in Seq(Events)
    BY <2>1
  <2>3. <<Head(buffer[c])>> \in Seq(Events)
    BY <2>2
  <2>4. buffer' = [buffer EXCEPT ![c] = Tail(buffer[c])]
    BY <1>6 DEF Take
  <2>5. hand' = hand \/ hand' = [hand EXCEPT ![c] = <<Head(buffer[c])>>]
    BY <1>6 DEF Take
  <2>6. dropped' = dropped \/ dropped' = [dropped EXCEPT ![c] = dropped[c] \cup {Head(buffer[c])}]
    BY <1>6 DEF Take
  <2>7. buffer' \in [Clients -> Seq(Events)]
    <3>1. buffer \in [Clients -> Seq(Events)]
      BY DEF TypeOK
    <3> QED
      BY <2>2, <2>4, <3>1
  <2>8. hand' \in [Clients -> Seq(Events)]
    <3>1. hand \in [Clients -> Seq(Events)]
      BY DEF TypeOK
    <3> QED
      BY <2>3, <2>5, <3>1
  <2>9. dropped' \in [Clients -> SUBSET Events]
    <3>1. dropped[c] \cup {Head(buffer[c])} \in SUBSET Events
      BY <2>2 DEF TypeOK
    <3>5. dropped \in [Clients -> SUBSET Events]
      BY DEF TypeOK
    <3> QED
      BY <2>6, <3>1, <3>5
  <2> QED
    BY <1>6, <2>7, <2>8, <2>9 DEF TypeOK, Take
<1>14. ASSUME NEW c \in Clients, Send(c)
      PROVE  TypeOK'
  <2>1. hand[c] # <<>> /\ hand[c] \in Seq(Events)
    BY <1>14 DEF TypeOK, Send
  <2>2. Head(hand[c]) \in Events /\ <<>> \in Seq(Events)
    BY <2>1
  <2>3. Append(received[c], Head(hand[c])) \in Seq(Events)
    BY <2>2 DEF TypeOK
  <2>4. hand' = hand \/ hand' = [hand EXCEPT ![c] = <<>>]
    BY <1>14 DEF Send
  <2>5. received' = received \/ received' = [received EXCEPT ![c] = Append(received[c], Head(hand[c]))]
    BY <1>14 DEF Send
  <2>6. dropped' = dropped \/ dropped' = [dropped EXCEPT ![c] = dropped[c] \cup {Head(hand[c])}]
    BY <1>14 DEF Send
  <2>7. hand' \in [Clients -> Seq(Events)]
    <3>1. hand \in [Clients -> Seq(Events)]
      BY DEF TypeOK
    <3> QED
      BY <2>2, <2>4, <3>1
  <2>8. received' \in [Clients -> Seq(Events)]
    <3>1. received \in [Clients -> Seq(Events)]
      BY DEF TypeOK
    <3> QED
      BY <2>3, <2>5, <3>1
  <2>9. dropped' \in [Clients -> SUBSET Events]
    <3>1. dropped[c] \cup {Head(hand[c])} \in SUBSET Events
      BY <2>2 DEF TypeOK
    <3>5. dropped \in [Clients -> SUBSET Events]
      BY DEF TypeOK
    <3> QED
      BY <2>6, <3>1, <3>5
  <2>10. panicked' \in BOOLEAN
    BY <1>14 DEF TypeOK, Send
  <2> QED
    BY <1>14, <2>7, <2>8, <2>9, <2>10 DEF TypeOK, Send
<1>7. ASSUME NEW c \in Clients, ForwardEmpty(c)
      PROVE  TypeOK'
  BY <1>7 DEF TypeOK, ForwardEmpty, Registered
<1>8. ASSUME NEW m \in Messages, FindChannel(m)
      PROVE  TypeOK'
  BY <1>8 DEF TypeOK, FindChannel, Registered
<1>9. ASSUME NEW m \in Messages, Subscribe(m)
      PROVE  TypeOK'
  <2>1. message[m] \in Requests /\ conn[message[m].client] # "new"
    BY <1>9 DEF ChannelInv, Subscribe
  <2>2. message[m].client \in Clients /\ message[m].auction \in Auctions
    BY <2>1 DEF Requests
  <2>3. channel[message[m].client] # "none"
    BY <2>1, <2>2 DEF ChannelInv
  <2>4. subs' \in [Clients -> SUBSET Auctions]
    <3>1. subs' = subs \/ subs' = [subs EXCEPT ![message[m].client] =
                                     subs[message[m].client] \cup {message[m].auction}]
      BY <1>9 DEF Subscribe
    <3>2. subs[message[m].client] \cup {message[m].auction} \in SUBSET Auctions
      BY <2>2 DEF TypeOK
    <3>5. subs \in [Clients -> SUBSET Auctions]
      BY DEF TypeOK
    <3> QED
      BY <2>2, <3>1, <3>2, <3>5
  <2>5. /\ redis' \in [Clients -> SUBSET Auctions]
        /\ listed' \in [Clients -> BOOLEAN] /\ listening' \in [Clients -> BOOLEAN]
    <3> DEFINE c == message[m].client
               r == redis[c] \cup {message[m].auction}
               w == listening[c] \/ ~listed[c]
    <3>1. redis' = redis \/ redis' = [redis EXCEPT ![c] = r] \/ redis' = [redis EXCEPT ![c] = redis[c]]
      BY <1>9 DEF Subscribe
    <3>2. redis' \in [Clients -> SUBSET Auctions]
      <4>1. redis \in [Clients -> SUBSET Auctions]
        BY DEF TypeOK
      <4> QED
        BY <2>2, <3>1, <4>1
    <3>3. listed' = listed \/ listed' = [listed EXCEPT ![c] = TRUE]
      BY <1>9 DEF Subscribe
    <3>4. listed' \in [Clients -> BOOLEAN]
      <4>1. TRUE \in BOOLEAN
        OBVIOUS
      <4>5. listed \in [Clients -> BOOLEAN]
        BY DEF TypeOK
      <4> QED
        BY <2>2, <3>3, <4>1, <4>5
    <3>5. listening' = listening \/ listening' = [listening EXCEPT ![c] = w]
      BY <1>9, Zenon DEF Subscribe
    <3>6. w \in BOOLEAN
      OBVIOUS
    <3> HIDE DEF w
    <3>7. listening' \in [Clients -> BOOLEAN]
      <4>1. listening \in [Clients -> BOOLEAN]
        BY DEF TypeOK
      <4> QED
        BY <2>2, <3>5, <3>6, <4>1
    <3> QED
      BY <3>2, <3>4, <3>7
  <2>6. \A c \in Clients : subs'[c] # {} => listed'[c] /\ channel'[c] # "none"
    <3> DEFINE c == message[m].client
               a == message[m].auction
    <3>1. CASE a \in subs[c]
      BY <1>9, <3>1 DEF TypeOK, Subscribe
    <3>2. CASE a \notin subs[c]
      <4>1. listed'[c] /\ channel' = channel
        BY <1>9, <2>2, <3>2 DEF TypeOK, Subscribe
      <4>2. \A d \in Clients \ {c} : subs'[d] = subs[d] /\ listed'[d] = listed[d]
        BY <1>9, <2>2, <3>2 DEF TypeOK, Subscribe
      <4> QED
        BY <2>2, <2>3, <4>1, <4>2 DEF TypeOK
    <3> QED
      BY <3>1, <3>2
  <2>7. UNCHANGED <<conn, channel, buffer, hand, wire, message, panicked, eventVars, gaveUp>>
    BY <1>9 DEF Subscribe
  <2>8. mpc' \in [Messages -> {"idle", "find", "subscribe", "unsubscribe", "done"}]
    BY <1>9 DEF TypeOK, Subscribe
  <2>9. failed' \in [Clients -> SUBSET Auctions]
    <3>1. \/ failed' = failed
          \/ failed' = [failed EXCEPT ![message[m].client] =
                         failed[message[m].client] \ {message[m].auction}]
          \/ failed' = [failed EXCEPT ![message[m].client] =
                         failed[message[m].client] \cup {message[m].auction}]
      BY <1>9 DEF Subscribe, RecordOutcome
    <3>2. failed \in [Clients -> SUBSET Auctions]
      BY DEF TypeOK
    <3> QED
      BY <2>2, <3>1, <3>2
  <2> QED
    BY <2>4, <2>5, <2>6, <2>7, <2>8, <2>9 DEF TypeOK
<1>10. ASSUME NEW m \in Messages, Unsubscribe(m)
      PROVE  TypeOK'
  <2>1. message[m] \in Requests
    BY <1>10 DEF ChannelInv, Unsubscribe
  <2>2. message[m].client \in Clients
    BY <2>1 DEF Requests
  <2>3. channel' \in [Clients -> {"none", "open", "closed"}]
    BY <1>10, <2>2 DEF TypeOK, Unsubscribe, GiveUp
  <2>4. wire' \in [Clients -> Seq(Events)]
    <3>1. wire' = wire \/ wire' = [wire EXCEPT ![message[m].client] = <<>>]
      BY <1>10 DEF Unsubscribe, GiveUp
    <3>2. <<>> \in Seq(Events)
      OBVIOUS
    <3>5. wire \in [Clients -> Seq(Events)]
      BY DEF TypeOK
    <3> QED
      BY <2>2, <3>1, <3>2, <3>5
  <2>5. subs' \in [Clients -> SUBSET Auctions]
    BY <1>10, <2>2 DEF TypeOK, Unsubscribe
  <2>6. /\ redis' \in [Clients -> SUBSET Auctions]
        /\ listed' \in [Clients -> BOOLEAN] /\ listening' \in [Clients -> BOOLEAN]
    <3> DEFINE c == message[m].client
               r == redis[c] \ {message[m].auction}
    <3>1. \/ redis' = redis
          \/ redis' = [redis EXCEPT ![c] = {}]
          \/ redis' = [redis EXCEPT ![c] = r]
          \/ redis' = [redis EXCEPT ![c] = redis[c]]
      BY <1>10 DEF Unsubscribe, GiveUp
    <3>2. redis' \in [Clients -> SUBSET Auctions]
      <4>1. redis \in [Clients -> SUBSET Auctions]
        BY DEF TypeOK
      <4> QED
        BY <2>2, <3>1, <4>1
    <3>3. listed' = listed \/ listed' = [listed EXCEPT ![c] = FALSE]
      BY <1>10 DEF Unsubscribe, GiveUp
    <3>4. listening' = listening \/ listening' = [listening EXCEPT ![c] = FALSE]
      BY <1>10 DEF Unsubscribe, GiveUp
    <3>5. listed' \in [Clients -> BOOLEAN]
      <4>1. listed \in [Clients -> BOOLEAN]
        BY DEF TypeOK
      <4> QED
        BY <2>2, <3>3, <4>1
    <3>6. listening' \in [Clients -> BOOLEAN]
      <4>1. listening \in [Clients -> BOOLEAN]
        BY DEF TypeOK
      <4> QED
        BY <2>2, <3>4, <4>1
    <3> QED
      BY <3>2, <3>5, <3>6
  <2>7. gaveUp' \in [Clients -> BOOLEAN]
    BY <1>10, <2>2 DEF TypeOK, Unsubscribe, GiveUp
  <2>8. \A c \in Clients : subs'[c] # {} => listed'[c] /\ channel'[c] # "none"
    <3> DEFINE c == message[m].client
    <3>1. /\ subs'[c] = subs[c] \ {message[m].auction}
          /\ \A d \in Clients \ {c} : subs'[d] = subs[d]
      BY <1>10, <2>2 DEF TypeOK, Unsubscribe
    <3>2. \A d \in Clients \ {c} : listed'[d] = listed[d] /\ channel'[d] = channel[d]
      BY <1>10, <2>2 DEF TypeOK, Unsubscribe, GiveUp
    <3>3. subs'[c] = {} \/ (listed'[c] = listed[c] /\ channel'[c] = channel[c])
      BY <1>10, <2>2, <3>1 DEF Unsubscribe, NoneLeft
    <3>4. subs'[c] # {} => listed'[c] /\ channel'[c] # "none"
      BY <2>2, <3>1, <3>3 DEF TypeOK
    <3> QED
      BY <3>1, <3>2, <3>4 DEF TypeOK
  <2>9. mpc' \in [Messages -> {"idle", "find", "subscribe", "unsubscribe", "done"}]
    BY <1>10 DEF TypeOK, Unsubscribe
  <2>10. UNCHANGED <<conn, buffer, hand, message, panicked, eventVars>>
    BY <1>10 DEF Unsubscribe
  <2>11. failed' \in [Clients -> SUBSET Auctions]
    <3> DEFINE c == message[m].client
               a == message[m].auction
    <3>1. \/ failed' = failed
          \/ failed' = [failed EXCEPT ![c] = {}]
          \/ failed' = [failed EXCEPT ![c] = failed[c] \ {a}]
          \/ failed' = [failed EXCEPT ![c] = failed[c] \cup {a}]
      BY <1>10 DEF Unsubscribe, GiveUp, RecordOutcome
    <3>2. failed \in [Clients -> SUBSET Auctions] /\ a \in Auctions
      BY <2>1 DEF TypeOK, Requests
    <3> QED
      BY <2>2, <3>1, <3>2
  <2> QED
    BY <2>3, <2>4, <2>5, <2>6, <2>7, <2>8, <2>9, <2>10, <2>11 DEF TypeOK
<1>11. ASSUME NEW m \in Messages, NEW r \in Requests, Receive(m, r)
      PROVE  TypeOK'
  BY <1>11 DEF TypeOK, Receive
<1>12. ASSUME NEW a \in Auctions, Publish(a)
      PROVE  TypeOK'
  <2>1. Len(published) + 1 \in Events
    BY <1>12, DeliveryAssumption DEF Publish, Events
  <2>2. \A c \in Clients : wire'[c] \in Seq(Events)
    BY <1>12, <2>1 DEF TypeOK, Publish
  <2>3. wire' \in [Clients -> Seq(Events)]
    BY <1>12, <2>2 DEF Publish
  <2>4. handed' \in [Clients -> SUBSET Events]
    <3>1. \A c \in Clients : handed'[c] \subseteq Events
      BY <1>12, <2>1 DEF TypeOK, Publish
    <3> QED
      BY <1>12, <3>1 DEF Publish
  <2> QED
    BY <1>12, <2>3, <2>4 DEF TypeOK, Publish
<1>13. CASE UNCHANGED vars
  BY <1>13 DEF TypeOK, vars
<1> QED
  BY <1>1, <1>2, <1>3, <1>4, <1>5, <1>6, <1>7, <1>8,
     <1>9, <1>10, <1>11, <1>12, <1>13, <1>14
     DEF Next

LEMMA ChannelStep == TypeOK /\ ChannelInv /\ [Next]_vars => ChannelInv'
<1> SUFFICES ASSUME TypeOK, ChannelInv, [Next]_vars PROVE ChannelInv'
  OBVIOUS
<1> USE DEF TypeOK, ChannelInv, brokerVars, eventVars
<1>1. ASSUME NEW c \in Clients, Connect(c)
      PROVE  ChannelInv'
  BY <1>1 DEF Connect
<1>2. ASSUME NEW c \in Clients, Disconnect(c)
      PROVE  ChannelInv'
  BY <1>2 DEF Disconnect
<1>3. ASSUME NEW c \in Clients, Unregister(c)
      PROVE  ChannelInv'
  BY <1>3 DEF Unregister
<1>4. ASSUME NEW c \in Clients, Listen(c)
      PROVE  ChannelInv'
  BY <1>4 DEF Listen
<1>5. ASSUME NEW c \in Clients, Lose(c)
      PROVE  ChannelInv'
  BY <1>5 DEF Lose
<1>6. ASSUME NEW c \in Clients, Take(c)
      PROVE  ChannelInv'
  BY <1>6 DEF Take, Registered
<1>14. ASSUME NEW c \in Clients, Send(c)
      PROVE  ChannelInv'
  BY <1>14 DEF Send, Registered
<1>7. ASSUME NEW c \in Clients, ForwardEmpty(c)
      PROVE  ChannelInv'
  BY <1>7 DEF ForwardEmpty, Registered
<1>8. ASSUME NEW m \in Messages, FindChannel(m)
      PROVE  ChannelInv'
  BY <1>8 DEF FindChannel, Registered
<1>9. ASSUME NEW m \in Messages, Subscribe(m)
      PROVE  ChannelInv'
  <2>1. message[m] \in Requests
    BY <1>9 DEF Subscribe
  <2>2. message[m].client \in Clients
    BY <2>1 DEF Requests
  <2> QED
    BY <1>9, <2>2 DEF Subscribe
<1>10. ASSUME NEW m \in Messages, Unsubscribe(m)
      PROVE  ChannelInv'
  <2>1. message[m] \in Requests
    BY <1>10 DEF Unsubscribe
  <2>2. message[m].client \in Clients
    BY <2>1 DEF Requests
  <2>3. /\ \A q \in Messages : mpc'[q] # "idle" => mpc[q] # "idle"
        /\ UNCHANGED <<conn, message, hand>>
    BY <1>10 DEF Unsubscribe
  <2>4. \A c \in Clients :
          \/ channel'[c] = channel[c] /\ gaveUp'[c] = gaveUp[c]
          \/ channel'[c] = "closed" /\ gaveUp'[c] /\ channel[c] # "none"
    <3>1. CASE UNCHANGED <<channel, gaveUp>>
      BY <3>1
    <3>2. CASE subs[message[m].client] # {} /\ GiveUp(message[m].client)
      BY <2>2, <3>2 DEF GiveUp
    <3> QED
      BY <1>10, <3>1, <3>2 DEF Unsubscribe
  <2> QED
    BY <2>3, <2>4
<1>11. ASSUME NEW m \in Messages, NEW r \in Requests, Receive(m, r)
      PROVE  ChannelInv'
  <2>1. r.client \in Clients
    BY DEF Requests
  <2> QED
    BY <1>11, <2>1 DEF Receive
<1>12. ASSUME NEW a \in Auctions, Publish(a)
      PROVE  ChannelInv'
  BY <1>12 DEF Publish
<1>13. CASE UNCHANGED vars
  BY <1>13 DEF vars
<1> QED
  BY <1>1, <1>2, <1>3, <1>4, <1>5, <1>6, <1>7, <1>8,
     <1>9, <1>10, <1>11, <1>12, <1>13, <1>14
     DEF Next

LEMMA HarmStep == TypeOK /\ ChannelInv /\ HarmHasCause /\ [Next]_vars => HarmHasCause'
<1> SUFFICES ASSUME TypeOK, ChannelInv, HarmHasCause, [Next]_vars PROVE HarmHasCause'
  OBVIOUS
<1> USE DEF TypeOK, ChannelInv, HarmHasCause, brokerVars, eventVars
<1>1. ASSUME NEW c \in Clients, Connect(c)
      PROVE  HarmHasCause'
  BY <1>1 DEF Connect
<1>2. ASSUME NEW c \in Clients, Disconnect(c)
      PROVE  HarmHasCause'
  BY <1>2 DEF Disconnect
<1>3. ASSUME NEW c \in Clients, Unregister(c)
      PROVE  HarmHasCause'
  BY <1>3 DEF Unregister
<1>4. ASSUME NEW c \in Clients, Listen(c)
      PROVE  HarmHasCause'
  BY <1>4 DEF Listen
<1>5. ASSUME NEW c \in Clients, Lose(c)
      PROVE  HarmHasCause'
  BY <1>5 DEF Lose
<1>6. ASSUME NEW c \in Clients, Take(c)
      PROVE  HarmHasCause'
  BY <1>6 DEF Take, Registered
<1>14. ASSUME NEW c \in Clients, Send(c)
      PROVE  HarmHasCause'
  BY <1>14 DEF Send, Registered
<1>7. ASSUME NEW c \in Clients, ForwardEmpty(c)
      PROVE  HarmHasCause'
  BY <1>7 DEF ForwardEmpty, Registered
<1>8. ASSUME NEW m \in Messages, FindChannel(m)
      PROVE  HarmHasCause'
  BY <1>8 DEF FindChannel, Registered
<1>9. ASSUME NEW m \in Messages, Subscribe(m)
      PROVE  HarmHasCause'
  <2>1. message[m] \in Requests
    BY <1>9 DEF Subscribe
  <2>2. message[m].client \in Clients
    BY <2>1 DEF Requests
  <2> QED
    BY <1>9, <2>2 DEF Subscribe
<1>10. ASSUME NEW m \in Messages, Unsubscribe(m)
      PROVE  HarmHasCause'
  <2>1. message[m] \in Requests
    BY <1>10 DEF Unsubscribe
  <2>2. message[m].client \in Clients
    BY <2>1 DEF Requests
  <2>3. UNCHANGED <<conn, hand, panicked, empty>>
    BY <1>10 DEF Unsubscribe, eventVars
  <2>4. \A c \in Clients : gaveUp[c] => gaveUp'[c]
    BY <1>10, <2>2 DEF Unsubscribe, GiveUp
  <2> QED
    BY <2>3, <2>4
<1>11. ASSUME NEW m \in Messages, NEW r \in Requests, Receive(m, r)
      PROVE  HarmHasCause'
  <2>1. r.client \in Clients
    BY DEF Requests
  <2> QED
    BY <1>11, <2>1 DEF Receive
<1>12. ASSUME NEW a \in Auctions, Publish(a)
      PROVE  HarmHasCause'
  BY <1>12 DEF Publish
<1>13. CASE UNCHANGED vars
  BY <1>13 DEF vars
<1> QED
  BY <1>1, <1>2, <1>3, <1>4, <1>5, <1>6, <1>7, <1>8,
     <1>9, <1>10, <1>11, <1>12, <1>13, <1>14
     DEF Next

LEMMA AgreeStep == TypeOK /\ ChannelInv /\ SubscriptionsAgree /\ [Next]_vars => SubscriptionsAgree'
<1> SUFFICES ASSUME TypeOK, ChannelInv, SubscriptionsAgree, [Next]_vars PROVE SubscriptionsAgree'
  OBVIOUS
<1>1. ASSUME NEW c \in Clients, Connect(c)
      PROVE  SubscriptionsAgree'
  BY <1>1 DEF SubscriptionsAgree, Connect, brokerVars
<1>2. ASSUME NEW c \in Clients, Disconnect(c)
      PROVE  SubscriptionsAgree'
  BY <1>2 DEF SubscriptionsAgree, Disconnect, brokerVars
<1>3. ASSUME NEW c \in Clients, Unregister(c)
      PROVE  SubscriptionsAgree'
  BY <1>3 DEF SubscriptionsAgree, Unregister, brokerVars
<1>4. ASSUME NEW c \in Clients, Listen(c)
      PROVE  SubscriptionsAgree'
  BY <1>4 DEF SubscriptionsAgree, Listen, brokerVars
<1>5. ASSUME NEW c \in Clients, Lose(c)
      PROVE  SubscriptionsAgree'
  BY <1>5 DEF SubscriptionsAgree, Lose, brokerVars
<1>6. ASSUME NEW c \in Clients, Take(c)
      PROVE  SubscriptionsAgree'
  BY <1>6 DEF SubscriptionsAgree, Take, brokerVars
<1>7. ASSUME NEW c \in Clients, Send(c)
      PROVE  SubscriptionsAgree'
  BY <1>7 DEF SubscriptionsAgree, Send, brokerVars
<1>8. ASSUME NEW c \in Clients, ForwardEmpty(c)
      PROVE  SubscriptionsAgree'
  BY <1>8 DEF SubscriptionsAgree, ForwardEmpty, brokerVars
<1>9. ASSUME NEW m \in Messages, FindChannel(m)
      PROVE  SubscriptionsAgree'
  BY <1>9 DEF SubscriptionsAgree, FindChannel, brokerVars
<1>10. ASSUME NEW m \in Messages, Subscribe(m)
      PROVE  SubscriptionsAgree'
  <2> DEFINE c == message[m].client
             a == message[m].auction
  <2>1. c \in Clients /\ a \in Auctions
    BY <1>10 DEF ChannelInv, Subscribe, Requests
  <2>2. CASE a \in subs[c]
    BY <1>10, <2>2 DEF SubscriptionsAgree, Subscribe, brokerVars
  <2>3. CASE a \notin subs[c]
    <3>1. PICK ok \in Outcome :
            /\ subs' = [subs EXCEPT ![c] = subs[c] \cup {a}]
            /\ redis' = [redis EXCEPT ![c] = IF ok THEN redis[c] \cup {a} ELSE redis[c]]
            /\ failed' = [failed EXCEPT ![c] = IF ok THEN failed[c] \ {a} ELSE failed[c] \cup {a}]
            /\ gaveUp' = gaveUp
      BY <1>10, <2>3 DEF Subscribe, RecordOutcome
    <3>2. /\ subs \in [Clients -> SUBSET Auctions] /\ redis \in [Clients -> SUBSET Auctions]
          /\ failed \in [Clients -> SUBSET Auctions]
      BY DEF TypeOK
    <3> HIDE DEF c, a
    <3>3. /\ subs'[c] = subs[c] \cup {a}
          /\ \/ redis'[c] = redis[c] \cup {a} /\ failed'[c] = failed[c] \ {a}
             \/ redis'[c] = redis[c] /\ failed'[c] = failed[c] \cup {a}
      BY <2>1, <3>1, <3>2
    <3>4. \A d \in Clients \ {c} : subs'[d] = subs[d] /\ redis'[d] = redis[d] /\ failed'[d] = failed[d]
      BY <3>1, <3>2
    <3> QED
      BY <3>1, <3>3, <3>4 DEF SubscriptionsAgree
  <2> QED
    BY <2>2, <2>3
<1>11. ASSUME NEW m \in Messages, Unsubscribe(m)
      PROVE  SubscriptionsAgree'
  <2> DEFINE c == message[m].client
             a == message[m].auction
             rest == subs[c] \ {a}
  <2>1. c \in Clients
    BY <1>11 DEF ChannelInv, Unsubscribe, Requests
  <2>2. /\ subs \in [Clients -> SUBSET Auctions] /\ redis \in [Clients -> SUBSET Auctions]
        /\ failed \in [Clients -> SUBSET Auctions] /\ gaveUp \in [Clients -> BOOLEAN]
    BY DEF TypeOK
  <2>3. subs' = [subs EXCEPT ![c] = rest]
    BY <1>11 DEF Unsubscribe
  <2>4. CASE subs[c] = {} /\ UNCHANGED <<redis, gaveUp, failed>>
    BY <2>1, <2>2, <2>3, <2>4 DEF SubscriptionsAgree
  <2>5. CASE /\ rest = {} /\ gaveUp' = [gaveUp EXCEPT ![c] = TRUE]
             /\ \/ UNCHANGED <<redis, failed>>
                \/ /\ redis' = [redis EXCEPT ![c] = {}]
                   /\ failed' = [failed EXCEPT ![c] = {}]
    <3>1. subs'[c] = {} /\ gaveUp'[c] = TRUE
      BY <2>1, <2>2, <2>3, <2>5
    <3>2. \A d \in Clients \ {c} : /\ subs'[d] = subs[d] /\ redis'[d] = redis[d]
                                   /\ failed'[d] = failed[d] /\ gaveUp'[d] = gaveUp[d]
      BY <2>1, <2>2, <2>3, <2>5
    <3> QED
      BY <3>1, <3>2 DEF SubscriptionsAgree
  <2>6. CASE /\ gaveUp' = gaveUp
             /\ \E ok \in Outcome :
                  /\ redis' = [redis EXCEPT ![c] = IF ok THEN redis[c] \ {a} ELSE redis[c]]
                  /\ failed' = [failed EXCEPT ![c] = IF ok THEN failed[c] \ {a}
                                                          ELSE failed[c] \cup {a}]
    <3>1. /\ subs'[c] = subs[c] \ {a}
          /\ \/ redis'[c] = redis[c] \ {a} /\ failed'[c] = failed[c] \ {a}
             \/ redis'[c] = redis[c] /\ failed'[c] = failed[c] \cup {a}
      BY <2>1, <2>2, <2>3, <2>6
    <3>2. \A d \in Clients \ {c} : subs'[d] = subs[d] /\ redis'[d] = redis[d] /\ failed'[d] = failed[d]
      BY <2>2, <2>3, <2>6
    <3> QED
      BY <2>6, <3>1, <3>2 DEF SubscriptionsAgree
  <2> QED
    BY <1>11, <2>4, <2>5, <2>6 DEF Unsubscribe, NoneLeft, GiveUp, RecordOutcome
<1>12. ASSUME NEW m \in Messages, NEW r \in Requests, Receive(m, r)
      PROVE  SubscriptionsAgree'
  BY <1>12 DEF SubscriptionsAgree, Receive, brokerVars
<1>13. ASSUME NEW a \in Auctions, Publish(a)
      PROVE  SubscriptionsAgree'
  BY <1>13 DEF SubscriptionsAgree, Publish, brokerVars
<1>14. CASE UNCHANGED vars
  BY <1>14 DEF SubscriptionsAgree, vars, brokerVars
<1> QED
  BY <1>1, <1>2, <1>3, <1>4, <1>5, <1>6, <1>7, <1>8,
     <1>9, <1>10, <1>11, <1>12, <1>13, <1>14
     DEF Next

LEMMA DeliveryInvariant == Spec => [](TypeOK /\ ChannelInv /\ HarmHasCause /\ SubscriptionsAgree)
BY DeliveryInit, DeliveryTypeStep, ChannelStep, HarmStep, AgreeStep, PTL DEF Spec

\* The handler and the broadcaster keep their maps well typed, and a client with
\* subscriptions in both maps with a channel, over panics half way through.
THEOREM DeliveryTypeInvariant == Spec => []TypeOK
BY DeliveryInvariant, PTL

\* No order of subscribing, unsubscribing and disconnecting kills an instance or
\* sends empty events, unless a client gives up its last subscription, or is
\* unregistered while an event is being sent to it.
THEOREM HarmInvariant == Spec => []HarmHasCause
BY DeliveryInvariant, PTL

\* The broadcaster and Redis disagree on the subscriptions of a client only about
\* auctions whose last call of Redis failed, in whatever order the workers run
\* the messages of a client.
THEOREM AgreeInvariant == Spec => []SubscriptionsAgree
BY DeliveryInvariant, PTL

-----------------------------------------------------------------------------
(* The order of events                                                     *)

Rising(s) == \A j, k \in DOMAIN s : j < k => s[j] < s[k]

Under(s, n) == \A j \in DOMAIN s : s[j] < n

Over(s, n) == \A j \in DOMAIN s : n < s[j]

Before(s, t) == \A j \in DOMAIN s, k \in DOMAIN t : s[j] < t[k]

\* Whatever leaves a rising sequence at its head is below what stays.
LEMMA TailRises ==
  ASSUME NEW s \in Seq(Nat), s # <<>>, Rising(s)
  PROVE  Rising(Tail(s)) /\ Over(Tail(s), Head(s))
<1>1. Len(s) \in Nat /\ Len(s) # 0 /\ Len(Tail(s)) = Len(s) - 1 /\ Head(s) = s[1]
  OBVIOUS
<1>2. ASSUME NEW j \in DOMAIN Tail(s)
      PROVE  /\ j \in 1 .. Len(s) - 1 /\ j + 1 \in DOMAIN s /\ 1 \in DOMAIN s /\ 1 < j + 1
             /\ Tail(s)[j] = s[j + 1]
  BY <1>1
<1>3. Over(Tail(s), Head(s))
  BY <1>1, <1>2 DEF Rising, Over
<1>4. ASSUME NEW j \in DOMAIN Tail(s), NEW k \in DOMAIN Tail(s), j < k
      PROVE  Tail(s)[j] < Tail(s)[k]
  <2>1. j + 1 \in DOMAIN s /\ k + 1 \in DOMAIN s /\ j + 1 < k + 1
    BY <1>2, <1>4
  <2>2. s[j + 1] < s[k + 1]
    BY <2>1 DEF Rising
  <2> QED
    BY <1>2, <2>2
<1> QED
  BY <1>3, <1>4 DEF Rising

LEMMA AppendRises ==
  ASSUME NEW s \in Seq(Nat), NEW n \in Nat, Rising(s), Under(s, n)
  PROVE  Rising(Append(s, n))
BY DEF Rising, Under

LEMMA TailBehind ==
  ASSUME NEW s \in Seq(Nat), NEW t \in Seq(Nat), t # <<>>, Before(s, t)
  PROVE  Before(s, Tail(t)) /\ Under(s, Head(t))
BY DEF Before, Under

LEMMA TailAhead ==
  ASSUME NEW s \in Seq(Nat), NEW t \in Seq(Nat), s # <<>>, Before(s, t)
  PROVE  Before(Tail(s), t) /\ Over(t, Head(s))
BY DEF Before, Over

LEMMA AppendAhead ==
  ASSUME NEW s \in Seq(Nat), NEW t \in Seq(Nat), NEW n \in Nat, Before(s, t), Over(t, n)
  PROVE  Before(Append(s, n), t)
BY DEF Before, Over

LEMMA AppendBehind ==
  ASSUME NEW s \in Seq(Nat), NEW t \in Seq(Nat), NEW n \in Nat, Before(s, t), Under(s, n)
  PROVE  Before(s, Append(t, n))
BY DEF Before, Under

\* What Under and Over say of sequences that change at one end
LEMMA Bounds ==
  ASSUME NEW s \in Seq(Nat), NEW n \in Nat
  PROVE  /\ Under(s, n) => Under(s, n + 1) /\ Under(Append(s, n), n + 1)
         /\ s # <<>> /\ Under(s, n) => Under(Tail(s), n) /\ Head(s) < n
         /\ \A h \in Nat : Under(s, n) /\ h < n => Under(Append(s, h), n)
BY DEF Under

\* What a client has received, what is being sent to it, what is in its channel
\* and what is on the wire are, one after the other, events in the order of their
\* publication.
Ordered(c, end) ==
  /\ Rising(received[c]) /\ Rising(hand[c]) /\ Rising(buffer[c]) /\ Rising(wire[c])
  /\ Before(received[c], hand[c]) /\ Before(received[c], buffer[c])
  /\ Before(received[c], wire[c]) /\ Before(hand[c], buffer[c])
  /\ Before(hand[c], wire[c]) /\ Before(buffer[c], wire[c])
  /\ Under(received[c], end) /\ Under(hand[c], end)
  /\ Under(buffer[c], end) /\ Under(wire[c], end)

OrderInv == \A c \in Clients : Ordered(c, Len(published) + 1)

LEMMA OrderTypes ==
  ASSUME TypeOK, NEW c \in Clients
  PROVE  /\ received[c] \in Seq(Nat) /\ hand[c] \in Seq(Nat)
         /\ buffer[c] \in Seq(Nat) /\ wire[c] \in Seq(Nat)
         /\ Len(published) + 1 \in Nat
<1>1. Events \subseteq Nat
  BY DEF Events
<1>2. \A s \in Seq(Events) : s \in Seq(Nat)
  <2> SUFFICES ASSUME NEW s \in Seq(Events) PROVE s \in Seq(Nat)
    OBVIOUS
  <2>1. Len(s) \in Nat /\ s \in [1 .. Len(s) -> Events]
    OBVIOUS
  <2>2. s \in [1 .. Len(s) -> Nat]
    BY <1>1, <2>1
  <2> QED
    BY <2>1, <2>2
<1>3. Len(published) \in Nat
  BY DEF TypeOK
<1> QED
  BY <1>2, <1>3 DEF TypeOK

\* Steps that leave the sequences of a client alone, or empty its wire
LEMMA OrderFrame ==
  ASSUME OrderInv, published' = published, received' = received, buffer' = buffer, hand' = hand,
         \A c \in Clients : wire'[c] = wire[c] \/ wire'[c] = <<>>
  PROVE  OrderInv'
<1> SUFFICES ASSUME NEW c \in Clients PROVE Ordered(c, Len(published) + 1)'
  BY DEF OrderInv
<1>1. Ordered(c, Len(published) + 1)
  BY DEF OrderInv
<1>2. CASE wire'[c] = wire[c]
  BY <1>1, <1>2 DEF Ordered
<1>3. CASE wire'[c] = <<>>
  BY <1>1, <1>3 DEF Ordered, Rising, Before, Under
<1> QED
  BY <1>2, <1>3

\* Steps that change the sequences of one client only
LEMMA OrderOne ==
  ASSUME OrderInv, NEW c \in Clients, published' = published, Ordered(c, Len(published) + 1)',
         \A d \in Clients \ {c} :
           /\ received'[d] = received[d] /\ hand'[d] = hand[d]
           /\ buffer'[d] = buffer[d] /\ wire'[d] = wire[d]
  PROVE  OrderInv'
<1> SUFFICES ASSUME NEW d \in Clients, d # c PROVE Ordered(d, Len(published) + 1)'
  BY DEF OrderInv
<1>1. Ordered(d, Len(published) + 1)
  BY DEF OrderInv
<1> QED
  BY <1>1 DEF Ordered

LEMMA ListenOrders ==
  ASSUME TypeOK, OrderInv, NEW c \in Clients, Listen(c) \/ Lose(c)
  PROVE  OrderInv'
<1> DEFINE end == Len(published) + 1
           w == wire[c]
           b == buffer[c]
           r == received[c]
           h == hand[c]
<1>1. Ordered(c, end)
  BY DEF OrderInv
<1>2. r \in Seq(Nat) /\ h \in Seq(Nat) /\ b \in Seq(Nat) /\ w \in Seq(Nat) /\ end \in Nat /\ w # <<>>
  BY OrderTypes DEF Listen, Lose
<1>3. Head(w) \in Nat /\ Tail(w) \in Seq(Nat)
  BY <1>2
<1>4. published' = published /\ received' = received /\ hand' = hand
  BY DEF Listen, Lose, eventVars
<1>5. wire' = [wire EXCEPT ![c] = Tail(w)]
  BY DEF Listen, Lose
<1>6. wire'[c] = Tail(w) /\ \A d \in Clients \ {c} : wire'[d] = wire[d]
  BY <1>5 DEF TypeOK
<1>7. buffer' = buffer \/ buffer' = [buffer EXCEPT ![c] = Append(b, Head(w))]
  BY DEF Listen, Lose
<1>8. /\ buffer'[c] = b \/ buffer'[c] = Append(b, Head(w))
      /\ \A d \in Clients \ {c} : buffer'[d] = buffer[d]
  BY <1>7 DEF TypeOK
<1>9. /\ Rising(Tail(w)) /\ Over(Tail(w), Head(w))
      /\ Before(r, Tail(w)) /\ Under(r, Head(w))
      /\ Before(h, Tail(w)) /\ Under(h, Head(w))
      /\ Before(b, Tail(w)) /\ Under(b, Head(w))
      /\ Under(Tail(w), end) /\ Head(w) < end
  BY <1>1, <1>2, TailRises, TailBehind, Bounds DEF Ordered
<1>10. Ordered(c, end)'
  <2>1. CASE buffer'[c] = b
    BY <1>1, <1>4, <1>6, <1>9, <2>1 DEF Ordered
  <2>2. CASE buffer'[c] = Append(b, Head(w))
    <3>1. Rising(Append(b, Head(w)))
      BY <1>1, <1>2, <1>3, <1>9, AppendRises DEF Ordered
    <3>2. Before(r, Append(b, Head(w))) /\ Before(h, Append(b, Head(w)))
      BY <1>1, <1>2, <1>3, <1>9, AppendBehind DEF Ordered
    <3>3. Before(Append(b, Head(w)), Tail(w))
      BY <1>2, <1>3, <1>9, AppendAhead
    <3>4. Under(Append(b, Head(w)), end)
      BY <1>1, <1>2, <1>3, <1>9, Bounds DEF Ordered
    <3> QED
      BY <1>1, <1>4, <1>6, <1>9, <2>2, <3>1, <3>2, <3>3, <3>4 DEF Ordered
  <2> QED
    BY <1>8, <2>1, <2>2
<1> QED
  BY <1>4, <1>6, <1>8, <1>10, OrderOne

LEMMA TakeOrders ==
  ASSUME TypeOK, OrderInv, NEW c \in Clients, Take(c)
  PROVE  OrderInv'
<1> DEFINE end == Len(published) + 1
           w == wire[c]
           b == buffer[c]
           r == received[c]
<1>1. Ordered(c, end)
  BY DEF OrderInv
<1>2. r \in Seq(Nat) /\ b \in Seq(Nat) /\ w \in Seq(Nat) /\ end \in Nat /\ b # <<>>
  BY OrderTypes DEF Take
<1>3. Head(b) \in Nat /\ Tail(b) \in Seq(Nat)
  BY <1>2
<1>4. published' = published /\ wire' = wire /\ received' = received /\ hand[c] = <<>>
  BY DEF Take
<1>5. buffer' = [buffer EXCEPT ![c] = Tail(b)]
  BY DEF Take
<1>6. buffer'[c] = Tail(b) /\ \A d \in Clients \ {c} : buffer'[d] = buffer[d]
  BY <1>5 DEF TypeOK
<1>7. hand' = hand \/ hand' = [hand EXCEPT ![c] = <<Head(b)>>]
  BY DEF Take
<1>8. /\ hand'[c] = <<>> \/ hand'[c] = <<Head(b)>>
      /\ \A d \in Clients \ {c} : hand'[d] = hand[d]
  BY <1>4, <1>7 DEF TypeOK
<1>9. /\ Rising(Tail(b)) /\ Over(Tail(b), Head(b))
      /\ Before(r, Tail(b)) /\ Under(r, Head(b))
      /\ Before(Tail(b), w) /\ Over(w, Head(b))
      /\ Under(Tail(b), end) /\ Head(b) < end
  BY <1>1, <1>2, TailRises, TailBehind, TailAhead, Bounds DEF Ordered
<1>10. ASSUME NEW h, h = <<>> \/ h = <<Head(b)>>
       PROVE  /\ Rising(h) /\ Before(r, h) /\ Before(h, Tail(b))
              /\ Before(h, w) /\ Under(h, end)
  <2>1. DOMAIN h \subseteq {1} /\ \A j \in DOMAIN h : h[j] = Head(b)
    BY <1>10
  <2> QED
    BY <1>3, <1>9, <2>1 DEF Rising, Before, Under, Over
<1>11. Ordered(c, end)'
  BY <1>1, <1>4, <1>6, <1>8, <1>9, <1>10 DEF Ordered
<1> QED
  BY <1>4, <1>6, <1>8, <1>11, OrderOne

LEMMA SendOrders ==
  ASSUME TypeOK, OrderInv, NEW c \in Clients, Send(c)
  PROVE  OrderInv'
<1> DEFINE end == Len(published) + 1
           w == wire[c]
           b == buffer[c]
           r == received[c]
           h == hand[c]
<1>1. Ordered(c, end)
  BY DEF OrderInv
<1>2. /\ r \in Seq(Nat) /\ h \in Seq(Nat) /\ b \in Seq(Nat) /\ w \in Seq(Nat)
      /\ end \in Nat /\ h # <<>>
  BY OrderTypes DEF Send
<1>3. Head(h) \in Nat
  BY <1>2
<1>4. published' = published /\ wire' = wire /\ buffer' = buffer
  BY DEF Send
<1>5. \/ received' = received /\ hand' = hand
      \/ received' = received /\ hand' = [hand EXCEPT ![c] = <<>>]
      \/ /\ received' = [received EXCEPT ![c] = Append(r, Head(h))]
         /\ hand' = [hand EXCEPT ![c] = <<>>]
  BY DEF Send
<1>6. \A d \in Clients \ {c} : received'[d] = received[d] /\ hand'[d] = hand[d]
  BY <1>5 DEF TypeOK
<1>7. \/ received'[c] = r /\ hand'[c] = h
      \/ received'[c] = r /\ hand'[c] = <<>>
      \/ received'[c] = Append(r, Head(h)) /\ hand'[c] = <<>>
  BY <1>5 DEF TypeOK
<1>8. Under(r, Head(h)) /\ Over(b, Head(h)) /\ Over(w, Head(h)) /\ Head(h) < end
  BY <1>1, <1>2, TailBehind, TailAhead, Bounds DEF Ordered
<1>9. /\ Rising(<<>>) /\ Under(<<>>, end)
      /\ \A s : Before(s, <<>>) /\ Before(<<>>, s)
  BY DEF Rising, Under, Before
<1>10. Ordered(c, end)'
  <2>1. CASE received'[c] = r /\ hand'[c] = h
    BY <1>1, <1>4, <2>1 DEF Ordered
  <2>2. CASE received'[c] = r /\ hand'[c] = <<>>
    BY <1>1, <1>4, <1>9, <2>2 DEF Ordered
  <2>3. CASE received'[c] = Append(r, Head(h)) /\ hand'[c] = <<>>
    <3>1. Rising(Append(r, Head(h)))
      BY <1>1, <1>2, <1>3, <1>8, AppendRises DEF Ordered
    <3>2. Before(Append(r, Head(h)), b) /\ Before(Append(r, Head(h)), w)
      BY <1>1, <1>2, <1>3, <1>8, AppendAhead DEF Ordered
    <3>3. Under(Append(r, Head(h)), end)
      BY <1>1, <1>2, <1>3, <1>8, Bounds DEF Ordered
    <3> QED
      BY <1>1, <1>4, <1>9, <2>3, <3>1, <3>2, <3>3 DEF Ordered
  <2> QED
    BY <1>7, <2>1, <2>2, <2>3
<1> QED
  BY <1>4, <1>6, <1>10, OrderOne

LEMMA PublishOrders ==
  ASSUME TypeOK, OrderInv, NEW a \in Auctions, Publish(a)
  PROVE  OrderInv'
<1> DEFINE n == Len(published) + 1
<1>1. /\ published' = Append(published, a) /\ received' = received
      /\ buffer' = buffer /\ hand' = hand
  BY DEF Publish
<1>2. Len(published') + 1 = n + 1
  BY <1>1 DEF TypeOK
<1> SUFFICES ASSUME NEW c \in Clients PROVE Ordered(c, Len(published) + 1)'
  BY DEF OrderInv
<1> DEFINE w == wire[c]
<1>3. Ordered(c, n)
  BY DEF OrderInv
<1>4. /\ received[c] \in Seq(Nat) /\ hand[c] \in Seq(Nat) /\ buffer[c] \in Seq(Nat)
      /\ w \in Seq(Nat) /\ n \in Nat
  BY OrderTypes
<1>5. wire'[c] = w \/ wire'[c] = Append(w, n)
  BY DEF Publish
<1>6. /\ Under(received[c], n + 1) /\ Under(hand[c], n + 1)
      /\ Under(buffer[c], n + 1) /\ Under(w, n + 1)
  BY <1>3, <1>4, Bounds DEF Ordered
<1>7. /\ Rising(Append(w, n)) /\ Under(Append(w, n), n + 1)
      /\ Before(received[c], Append(w, n)) /\ Before(hand[c], Append(w, n))
      /\ Before(buffer[c], Append(w, n))
  BY <1>3, <1>4, AppendRises, AppendBehind, Bounds DEF Ordered
<1> HIDE DEF n
<1> QED
  BY <1>1, <1>2, <1>3, <1>5, <1>6, <1>7 DEF Ordered

LEMMA OrderInit == Init => OrderInv
<1> SUFFICES ASSUME Init, NEW c \in Clients PROVE Ordered(c, Len(published) + 1)
  BY DEF OrderInv
<1>1. received[c] = <<>> /\ hand[c] = <<>> /\ buffer[c] = <<>> /\ wire[c] = <<>>
  BY DEF Init
<1> QED
  BY <1>1 DEF Ordered, Rising, Before, Under

LEMMA OrderStep == TypeOK /\ ChannelInv /\ OrderInv /\ [Next]_vars => OrderInv'
<1> SUFFICES ASSUME TypeOK, ChannelInv, OrderInv, [Next]_vars PROVE OrderInv'
  OBVIOUS
<1> USE DEF eventVars
<1>1. ASSUME NEW c \in Clients, Connect(c)
      PROVE  OrderInv'
  BY <1>1, OrderFrame DEF Connect
<1>2. ASSUME NEW c \in Clients, Disconnect(c)
      PROVE  OrderInv'
  BY <1>2, OrderFrame DEF Disconnect
<1>3. ASSUME NEW c \in Clients, Unregister(c)
      PROVE  OrderInv'
  BY <1>3, OrderFrame DEF Unregister
<1>4. ASSUME NEW c \in Clients, Listen(c)
      PROVE  OrderInv'
  BY <1>4, ListenOrders
<1>5. ASSUME NEW c \in Clients, Lose(c)
      PROVE  OrderInv'
  BY <1>5, ListenOrders
<1>6. ASSUME NEW c \in Clients, Take(c)
      PROVE  OrderInv'
  BY <1>6, TakeOrders
<1>14. ASSUME NEW c \in Clients, Send(c)
      PROVE  OrderInv'
  BY <1>14, SendOrders
<1>7. ASSUME NEW c \in Clients, ForwardEmpty(c)
      PROVE  OrderInv'
  BY <1>7, OrderFrame DEF ForwardEmpty
<1>8. ASSUME NEW m \in Messages, FindChannel(m)
      PROVE  OrderInv'
  BY <1>8, OrderFrame DEF FindChannel
<1>9. ASSUME NEW m \in Messages, Subscribe(m)
      PROVE  OrderInv'
  BY <1>9, OrderFrame DEF Subscribe
<1>10. ASSUME NEW m \in Messages, Unsubscribe(m)
      PROVE  OrderInv'
  <2>1. /\ published' = published /\ received' = received
        /\ buffer' = buffer /\ hand' = hand
    BY <1>10 DEF Unsubscribe
  <2>2. wire' = wire \/ wire' = [wire EXCEPT ![message[m].client] = <<>>]
    BY <1>10 DEF Unsubscribe, GiveUp
  <2>3. \A c \in Clients : wire'[c] = wire[c] \/ wire'[c] = <<>>
    BY <2>2 DEF TypeOK
  <2> QED
    BY <2>1, <2>3, OrderFrame
<1>11. ASSUME NEW m \in Messages, NEW r \in Requests, Receive(m, r)
      PROVE  OrderInv'
  BY <1>11, OrderFrame DEF Receive
<1>12. ASSUME NEW a \in Auctions, Publish(a)
      PROVE  OrderInv'
  BY <1>12, PublishOrders
<1>13. CASE UNCHANGED vars
  BY <1>13, OrderFrame DEF vars
<1> QED
  BY <1>1, <1>2, <1>3, <1>4, <1>5, <1>6, <1>7, <1>8,
     <1>9, <1>10, <1>11, <1>12, <1>13, <1>14
     DEF Next

\* A client is sent the events of all its auctions in the order of publication,
\* none of them twice, whatever is dropped, lost or resubscribed on the way.
THEOREM OrderInvariant == Spec => []DeliveredInOrder
<1>1. OrderInv => DeliveredInOrder
  BY DEF OrderInv, Ordered, Rising, DeliveredInOrder
<1> QED
  BY <1>1, OrderInit, OrderStep, DeliveryInvariant, PTL DEF Spec
================================================================================
