----------------------------- MODULE Client_proofs -----------------------------
(***************************************************************************)
(* Theorems about Client, for any number of messages, workers and events,  *)
(* any capacity of the queue and of sendChan, any table and any page that  *)
(* is asked for, with and without errors.                                  *)
(***************************************************************************)
EXTENDS ClientProperties, SequenceTheorems, FiniteSetTheorems, TLAPS

-----------------------------------------------------------------------------
(* Types, and how the connection ends                                      *)

LEMMA ClientItems ==
  /\ \A m \in Messages : Answer(m) \in Items
  /\ \A n \in 1 .. MaxEvents : Event(n) \in Items
  /\ \A m \in Messages, n \in Nat : Answer(m) # Event(n)
  /\ \A m, q \in Messages : Answer(m) = Answer(q) => m = q
  /\ \A n, k \in Nat : Event(n) = Event(k) => n = k
BY DEF Items, Answer, Event

\* The event that is being sent has been taken; a client is stopped only after
\* its context is cancelled, and by then the receiver submits no more.
ControlInv ==
  /\ listener = "sending" => events > 0
  /\ \A m \in Messages : mpc[m] = "read" => receiver = "submitting"
  /\ cancelled => receiver = "ended"
  /\ stopped => cancelled

\* What the sender does not write it does not hold, and it holds one message.
HandInv ==
  /\ sender = "waiting" => hand = <<>>
  /\ hand # <<>> => \E x \in Items : hand = <<x>>

\* A message has its content when it is handled; there are subscriptions only
\* after a subscribe, and while the client is not unregistered, its event channel
\* was closed by an unsubscribe that found one.
ChannelInv ==
  /\ \A m \in Messages : mpc[m] \in {"idle", "read", "queued", "handling"} =>
                           content[m].kind = "request"
  /\ subscribed => \E m \in Messages : content[m].kind = "subscribe"
  /\ eventChan = "closed" => unregistered \/ GaveUp

\* What there was room for fits.
LEMMA RoomForOne ==
  ASSUME TypeOK, NEW x \in Items,
         sendChan' = sendChan \/ (HasRoom /\ sendChan' = Append(sendChan, x))
  PROVE  sendChan' \in Seq(Items) /\ Len(sendChan') <= SendCapacity
<1>1. sendChan \in Seq(Items) /\ Len(sendChan) \in Nat /\ Len(sendChan) <= SendCapacity
  BY DEF TypeOK
<1>2. Append(sendChan, x) \in Seq(Items) /\ Len(Append(sendChan, x)) = Len(sendChan) + 1
  BY <1>1
<1>3. SendCapacity \in Nat
  BY ClientAssumption
<1>4. CASE sendChan' = sendChan
  BY <1>1, <1>4
<1>5. CASE HasRoom /\ sendChan' = Append(sendChan, x)
  BY <1>1, <1>2, <1>3, <1>5 DEF HasRoom
<1> QED
  BY <1>4, <1>5

LEMMA ClientInit == Init => TypeOK /\ ControlInv /\ HandInv /\ ChannelInv /\ DeathHasCause
<1> SUFFICES ASSUME Init PROVE TypeOK /\ ControlInv /\ HandInv /\ ChannelInv /\ DeathHasCause
  OBVIOUS
<1>1. <<>> \in Seq(Items) /\ Len(<<>>) = 0
  OBVIOUS
<1>2. content \in [Messages -> Contents]
  BY DEF Init, Contents
<1>3. SendCapacity \in Nat /\ MaxEvents \in Nat
  BY ClientAssumption
<1>4. mpc \in [Messages -> MessagePCs] /\ \A m \in Messages : mpc[m] = "idle"
  BY DEF Init, MessagePCs
<1>5. page \in [Messages -> SUBSET (1 .. RowCount)]
  BY DEF Init
<1>6. TypeOK
  <2>1. /\ sendChan \in Seq(Items) /\ Len(sendChan) <= SendCapacity
        /\ hand \in Seq(Items) /\ written \in Seq(Items)
    BY <1>1, <1>3 DEF Init
  <2>2. direct \in SUBSET Messages /\ events \in 0 .. MaxEvents
    BY <1>3 DEF Init
  <2>3. \A m, q \in Messages : ~(mpc[m] = "read" /\ mpc[q] = "read")
    BY <1>4
  <2> QED
    BY <1>2, <1>4, <1>5, <2>1, <2>2, <2>3 DEF Init, TypeOK
<1> QED
  BY <1>4, <1>6 DEF Init, ControlInv, HandInv, ChannelInv, DeathHasCause

LEMMA ClientTypeStep == TypeOK /\ ControlInv /\ HandInv /\ [Next]_vars => TypeOK'
<1> SUFFICES ASSUME TypeOK, ControlInv, HandInv, [Next]_vars PROVE TypeOK'
  OBVIOUS
<1> USE DEF messageVars, eventVars, subscriptionVars, sendVars, stopVars
<1>1. ASSUME ReadError
      PROVE  TypeOK'
  BY <1>1 DEF TypeOK, ReadError
<1>2. ASSUME TakeEvent
      PROVE  TypeOK'
  BY <1>2, ClientAssumption DEF TypeOK, TakeEvent
<1>3. ASSUME SendEvent
      PROVE  TypeOK'
  <2>1. Event(events) \in Items
    BY <1>3, ClientItems DEF TypeOK, ControlInv, SendEvent
  <2>2. sendChan' = sendChan \/ (HasRoom /\ sendChan' = Append(sendChan, Event(events)))
    BY <1>3 DEF SendEvent
  <2>3. sendChan' \in Seq(Items) /\ Len(sendChan') <= SendCapacity
    BY <2>1, <2>2, RoomForOne
  <2>4. panicked' \in BOOLEAN /\ listener' \in {"waiting", "sending", "ended"}
    BY <1>3 DEF TypeOK, SendEvent
  <2> QED
    BY <1>3, <2>3, <2>4 DEF TypeOK, SendEvent
<1>4. ASSUME EndListener
      PROVE  TypeOK'
  BY <1>4 DEF TypeOK, EndListener
<1>5. ASSUME TakeMessage
      PROVE  TypeOK'
  <2>1. \/ /\ sendChan # <<>> /\ hand' = <<Head(sendChan)>>
           /\ sendChan' = Tail(sendChan)
        \/ hand' = hand /\ sendChan' = sendChan
    BY <1>5 DEF TakeMessage
  <2>2. sendChan \in Seq(Items) /\ Len(sendChan) <= SendCapacity /\ hand \in Seq(Items)
    BY DEF TypeOK
  <2>3. sendChan # <<>> =>
          /\ Head(sendChan) \in Items /\ Tail(sendChan) \in Seq(Items)
          /\ Len(Tail(sendChan)) = Len(sendChan) - 1
    BY <2>2
  <2>4. sendChan # <<>> => <<Head(sendChan)>> \in Seq(Items)
    BY <2>3
  <2>5. sendChan' \in Seq(Items) /\ hand' \in Seq(Items)
    BY <2>1, <2>2, <2>3, <2>4
  <2>6. Len(sendChan') <= SendCapacity
    <3>1. SendCapacity \in Nat /\ Len(sendChan) \in Nat
      BY <2>2, ClientAssumption
    <3> QED
      BY <2>1, <2>2, <2>3, <3>1
  <2>7. panicked' \in BOOLEAN
    BY <1>5, Zenon DEF TakeMessage, Replying
  <2> QED
    BY <1>5, <2>5, <2>6, <2>7 DEF TypeOK, TakeMessage
<1>6. ASSUME Written
      PROVE  TypeOK'
  <2>1. written' \in Seq(Items) /\ hand' \in Seq(Items)
    BY <1>6 DEF TypeOK, Written
  <2> QED
    BY <1>6, <2>1 DEF TypeOK, Written
<1>7. ASSUME WriteError
      PROVE  TypeOK'
  BY <1>7 DEF TypeOK, WriteError
<1>8. ASSUME WritePanic
      PROVE  TypeOK'
  BY <1>8 DEF TypeOK, WritePanic
<1>9. ASSUME EndSender
      PROVE  TypeOK'
  BY <1>9 DEF TypeOK, EndSender
<1>10. ASSUME Leave
      PROVE  TypeOK'
  BY <1>10 DEF TypeOK, Leave
<1>11. ASSUME Stop
      PROVE  TypeOK'
  BY <1>11 DEF TypeOK, Stop
<1>12. ASSUME NEW m \in Messages, Read(m)
      PROVE  TypeOK'
  BY <1>12 DEF TypeOK, ControlInv, Read, Goto, MessagePCs
<1>13. ASSUME NEW m \in Messages, Submit(m)
      PROVE  TypeOK'
  <2>1. panicked' \in BOOLEAN
    BY <1>13 DEF TypeOK, Submit
  <2> QED
    BY <1>13, <2>1 DEF TypeOK, ControlInv, Submit, Goto, MessagePCs
<1>14. ASSUME NEW m \in Messages, Start(m)
      PROVE  TypeOK'
  BY <1>14 DEF TypeOK, Start, Goto, MessagePCs
<1>15. ASSUME NEW m \in Messages, Drop(m)
      PROVE  TypeOK'
  BY <1>15 DEF TypeOK, Drop, Goto, MessagePCs
<1>16. ASSUME NEW m \in Messages, Handle(m)
      PROVE  TypeOK'
  <2>1. PICK c \in Contents :
          /\ content' = [content EXCEPT ![m] = c]
          /\ \/ mpc' = [mpc EXCEPT ![m] = "reply"]
             \/ mpc' = [mpc EXCEPT ![m] = "check"]
             \/ mpc' = [mpc EXCEPT ![m] = "done"]
             \/ mpc' = [mpc EXCEPT ![m] = "panicked"]
          /\ \/ page' = page
             \/ page' = [page EXCEPT ![m] = ListedRows(RowCount, c.offset, c.limit)]
    BY <1>16 DEF Handle, RefuseInvalid, HandleSubscribe,
       HandleUnsubscribe, HandlePlaceBid, HandleRequest, HandleListAuctions, Goto
  <2>2. ListedRows(RowCount, c.offset, c.limit) \in SUBSET (1 .. RowCount)
    BY DEF ListedRows, SelectRows
  <2>3. page' \in [Messages -> SUBSET (1 .. RowCount)]
    BY <2>1, <2>2 DEF TypeOK
  <2>4. mpc' \in [Messages -> MessagePCs]
    BY <2>1 DEF TypeOK, MessagePCs
  <2>5. \A q \in Messages : mpc'[q] = "read" => mpc[q] = "read"
    BY <2>1 DEF TypeOK
  <2>6. content' \in [Messages -> Contents]
    BY <2>1 DEF TypeOK
  <2>7. subscribed' \in BOOLEAN /\ eventChan' \in {"open", "closed"}
    <3>1. PICK c1 \in Contents :
            \/ RefuseInvalid(m, c1) \/ HandleSubscribe(m, c1) \/ HandleUnsubscribe(m, c1)
            \/ HandlePlaceBid(m, c1) \/ HandleRequest(m, c1) \/ HandleListAuctions(m, c1)
      BY <1>16 DEF Handle
    <3>2. subscribed' \in {subscribed, TRUE, FALSE} /\ eventChan' \in {eventChan, "closed"}
      BY <3>1 DEF RefuseInvalid, HandleSubscribe, HandleUnsubscribe,
         HandlePlaceBid, HandleRequest, HandleListAuctions
    <3> QED
      BY <3>2 DEF TypeOK
  <2> QED
    BY <1>16, <2>3, <2>4, <2>5, <2>6, <2>7 DEF TypeOK, Handle
<1>17. ASSUME NEW m \in Messages, Check(m)
      PROVE  TypeOK'
  BY <1>17 DEF TypeOK, Check, Goto, MessagePCs
<1>18. ASSUME NEW m \in Messages, SendAnswer(m)
      PROVE  TypeOK'
  <2>1. Answer(m) \in Items
    BY ClientItems
  <2>2. sendChan' = sendChan \/ (HasRoom /\ sendChan' = Append(sendChan, Answer(m)))
    BY <1>18 DEF SendAnswer
  <2>3. sendChan' \in Seq(Items) /\ Len(sendChan') <= SendCapacity
    BY <2>1, <2>2, RoomForOne
  <2>4. /\ mpc' \in [Messages -> MessagePCs]
        /\ \A q \in Messages : mpc'[q] = "read" => mpc[q] = "read"
    BY <1>18 DEF TypeOK, SendAnswer, Goto, MessagePCs
  <2> QED
    BY <1>18, <2>3, <2>4 DEF TypeOK, SendAnswer
<1>19. ASSUME NEW m \in Messages, Reply(m)
      PROVE  TypeOK'
  BY <1>19 DEF TypeOK, Reply, Goto, MessagePCs
<1>20. ASSUME NEW m \in Messages, EndReply(m)
      PROVE  TypeOK'
  BY <1>20 DEF TypeOK, EndReply, Goto, MessagePCs
<1>21. ASSUME RemoveEventChannel
      PROVE  TypeOK'
  BY <1>21 DEF TypeOK, RemoveEventChannel
<1>22. CASE UNCHANGED vars
  BY <1>22 DEF TypeOK, vars
<1> QED
  BY <1>1, <1>2, <1>3, <1>4, <1>5, <1>6, <1>7, <1>8, <1>9, <1>10,
     <1>11, <1>12, <1>13, <1>14, <1>15, <1>16, <1>17, <1>18, <1>19, <1>20,
     <1>21, <1>22
     DEF Next, WorkerStep, EndWrite

LEMMA ControlStep == TypeOK /\ ControlInv /\ [Next]_vars => ControlInv'
<1> SUFFICES ASSUME TypeOK, ControlInv, [Next]_vars PROVE ControlInv'
  OBVIOUS
<1> USE DEF messageVars, eventVars, subscriptionVars, sendVars, stopVars
<1>1. ASSUME ReadError
      PROVE  ControlInv'
  BY <1>1 DEF TypeOK, ControlInv, ReadError
<1>2. ASSUME TakeEvent
      PROVE  ControlInv'
  BY <1>2 DEF TypeOK, ControlInv, TakeEvent
<1>3. ASSUME SendEvent
      PROVE  ControlInv'
  BY <1>3 DEF TypeOK, ControlInv, SendEvent
<1>4. ASSUME EndListener
      PROVE  ControlInv'
  BY <1>4 DEF TypeOK, ControlInv, EndListener
<1>5. ASSUME TakeMessage
      PROVE  ControlInv'
  BY <1>5 DEF TypeOK, ControlInv, TakeMessage
<1>6. ASSUME Written
      PROVE  ControlInv'
  BY <1>6 DEF TypeOK, ControlInv, Written
<1>7. ASSUME WriteError
      PROVE  ControlInv'
  BY <1>7 DEF TypeOK, ControlInv, WriteError
<1>8. ASSUME WritePanic
      PROVE  ControlInv'
  BY <1>8 DEF TypeOK, ControlInv, WritePanic
<1>9. ASSUME EndSender
      PROVE  ControlInv'
  BY <1>9 DEF TypeOK, ControlInv, EndSender
<1>10. ASSUME Leave
      PROVE  ControlInv'
  BY <1>10 DEF TypeOK, ControlInv, Leave
<1>11. ASSUME Stop
      PROVE  ControlInv'
  BY <1>11 DEF TypeOK, ControlInv, Stop
<1>12. ASSUME NEW m \in Messages, Read(m)
      PROVE  ControlInv'
  BY <1>12 DEF TypeOK, ControlInv, Read, Goto
<1>13. ASSUME NEW m \in Messages, Submit(m)
      PROVE  ControlInv'
  BY <1>13 DEF TypeOK, ControlInv, Submit, Goto
<1>14. ASSUME NEW m \in Messages, Start(m)
      PROVE  ControlInv'
  BY <1>14 DEF TypeOK, ControlInv, Start, Goto
<1>15. ASSUME NEW m \in Messages, Drop(m)
      PROVE  ControlInv'
  BY <1>15 DEF TypeOK, ControlInv, Drop, Goto
<1>16. ASSUME NEW m \in Messages, Handle(m)
      PROVE  ControlInv'
  BY <1>16 DEF TypeOK, ControlInv, Handle, RefuseInvalid, HandleSubscribe,
       HandleUnsubscribe, HandlePlaceBid, HandleRequest, HandleListAuctions, Goto
<1>17. ASSUME NEW m \in Messages, Check(m)
      PROVE  ControlInv'
  BY <1>17 DEF TypeOK, ControlInv, Check, Goto
<1>18. ASSUME NEW m \in Messages, SendAnswer(m)
      PROVE  ControlInv'
  BY <1>18 DEF TypeOK, ControlInv, SendAnswer, Goto
<1>19. ASSUME NEW m \in Messages, Reply(m)
      PROVE  ControlInv'
  BY <1>19 DEF TypeOK, ControlInv, Reply, Goto
<1>20. ASSUME NEW m \in Messages, EndReply(m)
      PROVE  ControlInv'
  BY <1>20 DEF TypeOK, ControlInv, EndReply, Goto
<1>21. ASSUME RemoveEventChannel
      PROVE  ControlInv'
  BY <1>21 DEF TypeOK, ControlInv, RemoveEventChannel
<1>22. CASE UNCHANGED vars
  BY <1>22 DEF ControlInv, vars
<1> QED
  BY <1>1, <1>2, <1>3, <1>4, <1>5, <1>6, <1>7, <1>8, <1>9, <1>10,
     <1>11, <1>12, <1>13, <1>14, <1>15, <1>16, <1>17, <1>18, <1>19, <1>20,
     <1>21, <1>22
     DEF Next, WorkerStep, EndWrite

LEMMA HandStep == TypeOK /\ HandInv /\ [Next]_vars => HandInv'
<1> SUFFICES ASSUME TypeOK, HandInv, [Next]_vars PROVE HandInv'
  OBVIOUS
<1> USE DEF messageVars, eventVars, subscriptionVars, sendVars, stopVars
<1>1. ASSUME ReadError
      PROVE  HandInv'
  BY <1>1 DEF HandInv, ReadError
<1>2. ASSUME TakeEvent
      PROVE  HandInv'
  BY <1>2 DEF HandInv, TakeEvent
<1>3. ASSUME SendEvent
      PROVE  HandInv'
  BY <1>3 DEF HandInv, SendEvent
<1>4. ASSUME EndListener
      PROVE  HandInv'
  BY <1>4 DEF HandInv, EndListener
<1>5. ASSUME TakeMessage
      PROVE  HandInv'
  <2>1. \/ sendChan # <<>> /\ hand' = <<Head(sendChan)>>
        \/ hand' = hand
    BY <1>5 DEF TakeMessage
  <2>2. sendChan # <<>> => Head(sendChan) \in Items
    BY DEF TypeOK
  <2> QED
    BY <1>5, <2>1, <2>2 DEF HandInv, TakeMessage
<1>6. ASSUME Written
      PROVE  HandInv'
  BY <1>6 DEF HandInv, Written
<1>7. ASSUME WriteError
      PROVE  HandInv'
  BY <1>7 DEF HandInv, WriteError
<1>8. ASSUME WritePanic
      PROVE  HandInv'
  BY <1>8 DEF HandInv, WritePanic
<1>9. ASSUME EndSender
      PROVE  HandInv'
  BY <1>9 DEF HandInv, EndSender
<1>10. ASSUME Leave
      PROVE  HandInv'
  BY <1>10 DEF HandInv, Leave
<1>11. ASSUME Stop
      PROVE  HandInv'
  BY <1>11 DEF HandInv, Stop
<1>12. ASSUME NEW m \in Messages, Read(m)
      PROVE  HandInv'
  BY <1>12 DEF HandInv, Read
<1>13. ASSUME NEW m \in Messages, Submit(m)
      PROVE  HandInv'
  BY <1>13 DEF HandInv, Submit
<1>14. ASSUME NEW m \in Messages, Start(m)
      PROVE  HandInv'
  BY <1>14 DEF HandInv, Start
<1>15. ASSUME NEW m \in Messages, Drop(m)
      PROVE  HandInv'
  BY <1>15 DEF HandInv, Drop
<1>16. ASSUME NEW m \in Messages, Handle(m)
      PROVE  HandInv'
  BY <1>16 DEF HandInv, Handle
<1>17. ASSUME NEW m \in Messages, Check(m)
      PROVE  HandInv'
  BY <1>17 DEF HandInv, Check
<1>18. ASSUME NEW m \in Messages, SendAnswer(m)
      PROVE  HandInv'
  BY <1>18 DEF HandInv, SendAnswer
<1>19. ASSUME NEW m \in Messages, Reply(m)
      PROVE  HandInv'
  BY <1>19 DEF HandInv, Reply
<1>20. ASSUME NEW m \in Messages, EndReply(m)
      PROVE  HandInv'
  BY <1>20 DEF HandInv, EndReply
<1>21. ASSUME RemoveEventChannel
      PROVE  HandInv'
  BY <1>21 DEF HandInv, RemoveEventChannel
<1>22. CASE UNCHANGED vars
  BY <1>22 DEF HandInv, vars
<1> QED
  BY <1>1, <1>2, <1>3, <1>4, <1>5, <1>6, <1>7, <1>8, <1>9, <1>10,
     <1>11, <1>12, <1>13, <1>14, <1>15, <1>16, <1>17, <1>18, <1>19, <1>20,
     <1>21, <1>22
     DEF Next, WorkerStep, EndWrite

\* A step that leaves the event channel and the subscriptions alone, and takes no
\* message back from its handler.
LEMMA ChannelFrame ==
  ASSUME ChannelInv, UNCHANGED <<content, subscribed, eventChan, unregistered>>,
         \A m \in Messages :
           mpc'[m] \in {"idle", "read", "queued", "handling"} =>
             mpc[m] \in {"idle", "read", "queued", "handling"}
  PROVE  ChannelInv'
BY DEF ChannelInv, GaveUp

LEMMA ChannelStep == TypeOK /\ ChannelInv /\ [Next]_vars => ChannelInv'
<1> SUFFICES ASSUME TypeOK, ChannelInv, [Next]_vars PROVE ChannelInv'
  OBVIOUS
<1>0. mpc \in [Messages -> MessagePCs] /\ content \in [Messages -> Contents]
  BY DEF TypeOK
<1> USE DEF messageVars, eventVars, subscriptionVars, stopVars
<1>1. ASSUME ReadError
      PROVE  ChannelInv'
  BY <1>1, ChannelFrame DEF ReadError
<1>2. ASSUME TakeEvent
      PROVE  ChannelInv'
  BY <1>2, ChannelFrame DEF TakeEvent
<1>3. ASSUME SendEvent
      PROVE  ChannelInv'
  BY <1>3, ChannelFrame DEF SendEvent
<1>4. ASSUME EndListener
      PROVE  ChannelInv'
  BY <1>4, ChannelFrame DEF EndListener
<1>5. ASSUME TakeMessage
      PROVE  ChannelInv'
  BY <1>5, ChannelFrame DEF TakeMessage
<1>6. ASSUME Written
      PROVE  ChannelInv'
  BY <1>6, ChannelFrame DEF Written
<1>7. ASSUME WriteError
      PROVE  ChannelInv'
  BY <1>7, ChannelFrame DEF WriteError
<1>8. ASSUME WritePanic
      PROVE  ChannelInv'
  BY <1>8, ChannelFrame DEF WritePanic
<1>9. ASSUME EndSender
      PROVE  ChannelInv'
  BY <1>9, ChannelFrame DEF EndSender
<1>10. ASSUME Leave
      PROVE  ChannelInv'
  BY <1>10, ChannelFrame DEF Leave
<1>11. ASSUME Stop
      PROVE  ChannelInv'
  BY <1>11, ChannelFrame DEF Stop
<1>12. ASSUME NEW m \in Messages, Read(m)
      PROVE  ChannelInv'
  <2>1. \A q \in Messages : mpc'[q] \in {"idle", "read", "queued", "handling"} =>
                            mpc[q] \in {"idle", "read", "queued", "handling"}
    BY <1>0, <1>12 DEF Read, Goto
  <2> QED
    BY <1>12, <2>1, ChannelFrame DEF Read
<1>13. ASSUME NEW m \in Messages, Submit(m)
      PROVE  ChannelInv'
  <2>1. \A q \in Messages : mpc'[q] \in {"idle", "read", "queued", "handling"} =>
                            mpc[q] \in {"idle", "read", "queued", "handling"}
    BY <1>0, <1>13 DEF Submit, Goto
  <2> QED
    BY <1>13, <2>1, ChannelFrame DEF Submit
<1>14. ASSUME NEW m \in Messages, Start(m)
      PROVE  ChannelInv'
  <2>1. \A q \in Messages : mpc'[q] \in {"idle", "read", "queued", "handling"} =>
                            mpc[q] \in {"idle", "read", "queued", "handling"}
    BY <1>0, <1>14 DEF Start, Goto
  <2> QED
    BY <1>14, <2>1, ChannelFrame DEF Start
<1>15. ASSUME NEW m \in Messages, Drop(m)
      PROVE  ChannelInv'
  <2>1. \A q \in Messages : mpc'[q] \in {"idle", "read", "queued", "handling"} =>
                            mpc[q] \in {"idle", "read", "queued", "handling"}
    BY <1>0, <1>15 DEF Drop, Goto
  <2> QED
    BY <1>15, <2>1, ChannelFrame DEF Drop
<1>16. ASSUME NEW m \in Messages, Handle(m)
      PROVE  ChannelInv'
  <2>0. PICK c \in Contents :
          /\ content' = [content EXCEPT ![m] = c]
          /\ \/ RefuseInvalid(m, c) \/ HandleSubscribe(m, c) \/ HandleUnsubscribe(m, c)
             \/ HandlePlaceBid(m, c) \/ HandleRequest(m, c) \/ HandleListAuctions(m, c)
    BY <1>16 DEF Handle
  <2>1. /\ content' = [content EXCEPT ![m] = c]
        /\ \E label \in {"reply", "check", "done", "panicked"} : mpc' = [mpc EXCEPT ![m] = label]
        /\ subscribed' = subscribed \/ subscribed' = FALSE \/ c.kind = "subscribe"
        /\ eventChan' # eventChan => subscribed /\ c.kind = "unsubscribe"
    BY <2>0 DEF RefuseInvalid, HandleSubscribe,
       HandleUnsubscribe, HandlePlaceBid, HandleRequest, HandleListAuctions, Goto
  <2>2. mpc[m] = "handling" /\ content[m].kind = "request" /\ unregistered' = unregistered
    BY <1>16 DEF Handle, ChannelInv
  <2>3. /\ content'[m] = c /\ mpc'[m] \in {"reply", "check", "done", "panicked"}
        /\ \A q \in Messages \ {m} : content'[q] = content[q] /\ mpc'[q] = mpc[q]
    BY <1>0, <2>1
  <2>4. \A q \in Messages : content[q].kind # "request" => content'[q] = content[q]
    BY <2>2, <2>3
  <2>5. ASSUME subscribed'
        PROVE  \E q \in Messages : content'[q].kind = "subscribe"
    <3>1. CASE subscribed
      <4>1. PICK q \in Messages : content[q].kind = "subscribe"
        BY <3>1 DEF ChannelInv
      <4>2. content'[q].kind = "subscribe"
        BY <2>4, <4>1
      <4> QED
        BY <4>2
    <3>2. CASE c.kind = "subscribe"
      BY <2>3, <3>2
    <3> QED
      BY <2>1, <2>5, <3>1, <3>2
  <2>6. GaveUp => GaveUp'
    BY <2>4 DEF GaveUp
  <2>7. eventChan' # eventChan => GaveUp'
    <3>1. SUFFICES ASSUME subscribed, c.kind = "unsubscribe" PROVE GaveUp'
      BY <2>1
    <3>2. PICK q \in Messages : content[q].kind = "subscribe"
      BY <3>1 DEF ChannelInv
    <3>3. content'[q].kind = "subscribe" /\ content'[m].kind = "unsubscribe"
      BY <2>3, <2>4, <3>1, <3>2
    <3> QED
      BY <3>3 DEF GaveUp
  <2>8. eventChan' = "closed" => unregistered' \/ GaveUp'
    BY <2>2, <2>6, <2>7 DEF ChannelInv
  <2> QED
    BY <2>3, <2>5, <2>8 DEF ChannelInv
<1>17. ASSUME NEW m \in Messages, Check(m)
      PROVE  ChannelInv'
  <2>1. \A q \in Messages : mpc'[q] \in {"idle", "read", "queued", "handling"} =>
                            mpc[q] \in {"idle", "read", "queued", "handling"}
    BY <1>0, <1>17 DEF Check, Goto
  <2> QED
    BY <1>17, <2>1, ChannelFrame DEF Check
<1>18. ASSUME NEW m \in Messages, SendAnswer(m)
      PROVE  ChannelInv'
  <2>1. \A q \in Messages : mpc'[q] \in {"idle", "read", "queued", "handling"} =>
                            mpc[q] \in {"idle", "read", "queued", "handling"}
    BY <1>0, <1>18 DEF SendAnswer, Goto
  <2> QED
    BY <1>18, <2>1, ChannelFrame DEF SendAnswer
<1>19. ASSUME NEW m \in Messages, Reply(m)
      PROVE  ChannelInv'
  <2>1. \A q \in Messages : mpc'[q] \in {"idle", "read", "queued", "handling"} =>
                            mpc[q] \in {"idle", "read", "queued", "handling"}
    BY <1>0, <1>19 DEF Reply, Goto
  <2> QED
    BY <1>19, <2>1, ChannelFrame DEF Reply
<1>20. ASSUME NEW m \in Messages, EndReply(m)
      PROVE  ChannelInv'
  <2>1. \A q \in Messages : mpc'[q] \in {"idle", "read", "queued", "handling"} =>
                            mpc[q] \in {"idle", "read", "queued", "handling"}
    BY <1>0, <1>20 DEF EndReply, Goto
  <2> QED
    BY <1>20, <2>1, ChannelFrame DEF EndReply
<1>21. ASSUME RemoveEventChannel
      PROVE  ChannelInv'
  BY <1>21 DEF TypeOK, ChannelInv, GaveUp, RemoveEventChannel
<1>22. CASE UNCHANGED vars
  BY <1>22, ChannelFrame DEF vars
<1> QED
  BY <1>1, <1>2, <1>3, <1>4, <1>5, <1>6, <1>7, <1>8, <1>9, <1>10,
     <1>11, <1>12, <1>13, <1>14, <1>15, <1>16, <1>17, <1>18, <1>19, <1>20,
     <1>21, <1>22
     DEF Next, WorkerStep, EndWrite

LEMMA KillStep ==
  TypeOK /\ ControlInv /\ ChannelInv /\ DeathHasCause /\ [Next]_vars => DeathHasCause'
<1> SUFFICES ASSUME TypeOK, ControlInv, ChannelInv, DeathHasCause, [Next]_vars
             PROVE  DeathHasCause'
  OBVIOUS
<1> USE DEF messageVars, eventVars, subscriptionVars, sendVars, stopVars
<1>1. ASSUME ~panicked, ReadError
      PROVE  DeathHasCause'
  BY <1>1 DEF ReadError, DeathHasCause, ControlInv, Replying
<1>2. ASSUME ~panicked, TakeEvent
      PROVE  DeathHasCause'
  BY <1>2 DEF TakeEvent, DeathHasCause, ControlInv, Replying
<1>3. ASSUME ~panicked, SendEvent
      PROVE  DeathHasCause'
  BY <1>3 DEF SendEvent, DeathHasCause, ControlInv, Replying
<1>4. ASSUME ~panicked, EndListener
      PROVE  DeathHasCause'
  BY <1>4 DEF EndListener, DeathHasCause, ControlInv, Replying
<1>5. ASSUME ~panicked, TakeMessage
      PROVE  DeathHasCause'
  BY <1>5 DEF DeathHasCause, TakeMessage, Replying
<1>6. ASSUME ~panicked, Written
      PROVE  DeathHasCause'
  BY <1>6 DEF Written, DeathHasCause, ControlInv, Replying
<1>7. ASSUME ~panicked, WriteError
      PROVE  DeathHasCause'
  BY <1>7 DEF WriteError, DeathHasCause, ControlInv, Replying
<1>8. ASSUME ~panicked, WritePanic
      PROVE  DeathHasCause'
  BY <1>8 DEF WritePanic, DeathHasCause, ControlInv, Replying
<1>9. ASSUME ~panicked, EndSender
      PROVE  DeathHasCause'
  BY <1>9 DEF EndSender, DeathHasCause, ControlInv, Replying
<1>10. ASSUME ~panicked, Leave
      PROVE  DeathHasCause'
  BY <1>10 DEF Leave, DeathHasCause, ControlInv, Replying
<1>11. ASSUME ~panicked, Stop
      PROVE  DeathHasCause'
  BY <1>11 DEF Stop, DeathHasCause, ControlInv, Replying
<1>12. ASSUME ~panicked, NEW m \in Messages, Read(m)
      PROVE  DeathHasCause'
  BY <1>12 DEF Read, DeathHasCause, ControlInv, Replying
<1>13. ASSUME ~panicked, NEW m \in Messages, Submit(m)
      PROVE  DeathHasCause'
  BY <1>13 DEF Submit, DeathHasCause, ControlInv, Replying
<1>14. ASSUME ~panicked, NEW m \in Messages, Start(m)
      PROVE  DeathHasCause'
  BY <1>14 DEF Start, DeathHasCause, ControlInv, Replying
<1>15. ASSUME ~panicked, NEW m \in Messages, Drop(m)
      PROVE  DeathHasCause'
  BY <1>15 DEF Drop, DeathHasCause, ControlInv, Replying
<1>16. ASSUME ~panicked, NEW m \in Messages, Handle(m)
      PROVE  DeathHasCause'
  BY <1>16 DEF Handle, DeathHasCause, ControlInv, Replying
<1>17. ASSUME ~panicked, NEW m \in Messages, Check(m)
      PROVE  DeathHasCause'
  BY <1>17 DEF Check, DeathHasCause, ControlInv, Replying
<1>18. ASSUME ~panicked, NEW m \in Messages, SendAnswer(m)
      PROVE  DeathHasCause'
  BY <1>18 DEF SendAnswer, DeathHasCause, ControlInv, Replying
<1>19. ASSUME ~panicked, NEW m \in Messages, Reply(m)
      PROVE  DeathHasCause'
  BY <1>19 DEF Reply, DeathHasCause, ControlInv, Replying
<1>20. ASSUME ~panicked, NEW m \in Messages, EndReply(m)
      PROVE  DeathHasCause'
  BY <1>20 DEF EndReply, DeathHasCause, ControlInv, Replying
<1>21. ASSUME ~panicked, RemoveEventChannel
      PROVE  DeathHasCause'
  BY <1>21 DEF RemoveEventChannel, DeathHasCause, ChannelInv, GaveUp
<1>22. CASE UNCHANGED vars
  BY <1>22 DEF DeathHasCause, GaveUp, Replying, vars
<1> QED
  BY <1>1, <1>2, <1>3, <1>4, <1>5, <1>6, <1>7, <1>8, <1>9, <1>10,
     <1>11, <1>12, <1>13, <1>14, <1>15, <1>16, <1>17, <1>18, <1>19, <1>20,
     <1>21, <1>22
     DEF Next, WorkerStep, EndWrite

-----------------------------------------------------------------------------
(* What Send accepts                                                       *)

Sent(x) == \E i \in DOMAIN accepted : accepted[i] = x

LEMMA AcceptedType == TypeOK => accepted \in Seq(Items)
BY DEF TypeOK, accepted

LEMMA AcceptedSame ==
  ASSUME UNCHANGED <<written, hand, sendChan>>
  PROVE  accepted' = accepted
BY DEF accepted

\* Send adds to the end of what is accepted.
LEMMA AcceptedAppend ==
  ASSUME TypeOK, NEW x \in Items, UNCHANGED <<written, hand>>,
         sendChan' = Append(sendChan, x)
  PROVE  accepted' = Append(accepted, x)
<1> DEFINE w == written \o hand
<1>1. w \in Seq(Items) /\ sendChan \in Seq(Items) /\ <<x>> \in Seq(Items)
  BY DEF TypeOK
<1>2. sendChan' = sendChan \o <<x>> /\ w \o sendChan \in Seq(Items)
  BY <1>1, AppendIsConcat
<1>3. w \o (sendChan \o <<x>>) = (w \o sendChan) \o <<x>>
  BY <1>1, ConcatAssociative
<1>4. Append(w \o sendChan, x) = (w \o sendChan) \o <<x>>
  BY <1>2, AppendIsConcat
<1>5. accepted = w \o sendChan /\ accepted' = w \o sendChan'
  BY DEF accepted
<1> HIDE DEF w
<1> QED
  BY <1>2, <1>3, <1>4, <1>5

\* What the sender takes and writes stays what it was and where it was.
LEMMA AcceptedMoves ==
  ASSUME TypeOK, HandInv, TakeMessage \/ Written
  PROVE  accepted' = accepted
<1> DEFINE w == written \o hand
<1>1. w \in Seq(Items) /\ sendChan \in Seq(Items) /\ written \in Seq(Items) /\ hand \in Seq(Items)
  BY DEF TypeOK
<1>2. CASE Written
  <2>1. written' = w /\ hand' = <<>> /\ sendChan' = sendChan
    BY <1>2 DEF Written
  <2>2. w \o <<>> = w
    BY <1>1, ConcatEmptySeq
  <2> QED
    BY <2>1, <2>2 DEF accepted
<1>3. CASE TakeMessage
  <2>1. hand = <<>> /\ written' = written
    BY <1>3 DEF TakeMessage, HandInv
  <2>2. CASE sendChan # <<>> /\ hand' = <<Head(sendChan)>> /\ sendChan' = Tail(sendChan)
    <3>1. Head(sendChan) \in Items /\ Tail(sendChan) \in Seq(Items)
      BY <1>1, <2>2
    <3>2. <<Head(sendChan)>> \in Seq(Items)
      BY <3>1
    <3>3. sendChan = <<Head(sendChan)>> \o Tail(sendChan)
      BY <1>1, <2>2, <3>1, <3>2
    <3>4. written \o (<<Head(sendChan)>> \o Tail(sendChan)) =
          (written \o <<Head(sendChan)>>) \o Tail(sendChan)
      BY <1>1, <3>1, <3>2, ConcatAssociative
    <3>5. written \o <<>> = written
      BY <1>1, ConcatEmptySeq
    <3>6. accepted = written \o sendChan
      BY <2>1, <3>5 DEF accepted
    <3>7. accepted' = (written \o <<Head(sendChan)>>) \o Tail(sendChan)
      BY <2>1, <2>2 DEF accepted
    <3> QED
      BY <3>3, <3>4, <3>6, <3>7
  <2>3. CASE UNCHANGED <<hand, sendChan>>
    BY <2>1, <2>3, AcceptedSame
  <2> QED
    BY <1>3, <2>2, <2>3 DEF TakeMessage
<1> QED
  BY <1>2, <1>3

LEMMA SentAppend ==
  ASSUME TypeOK, NEW x \in Items, accepted' = Append(accepted, x), NEW y
  PROVE  Sent(y)' <=> Sent(y) \/ y = x
<1> DEFINE s == accepted
<1>1. s \in Seq(Items)
  BY AcceptedType
<1>2. /\ DOMAIN Append(s, x) = 1 .. Len(s) + 1 /\ DOMAIN s = 1 .. Len(s) /\ Len(s) \in Nat
      /\ \A i \in 1 .. Len(s) : Append(s, x)[i] = s[i]
      /\ Append(s, x)[Len(s) + 1] = x
  BY <1>1
<1> HIDE DEF s
<1>3. (\E i \in DOMAIN Append(s, x) : Append(s, x)[i] = y) <=> (\E i \in DOMAIN s : s[i] = y) \/ y = x
  BY <1>2
<1> QED
  BY <1>3 DEF Sent, s

-----------------------------------------------------------------------------
(* Answers                                                                 *)

\* Steps that answer nothing and end the handling of no message
LEMMA SameAnswers ==
  ASSUME AnsweredOnce, accepted' = accepted, direct' = direct,
         \A m \in Messages :
           \/ mpc'[m] = mpc[m] /\ content'[m] = content[m]
           \/ mpc[m] # "done" /\ mpc'[m] # "done"
  PROVE  AnsweredOnce'
BY DEF AnsweredOnce

LEMMA AnsweredStep == TypeOK /\ ControlInv /\ HandInv /\ AnsweredOnce /\ [Next]_vars => AnsweredOnce'
<1> SUFFICES ASSUME TypeOK, ControlInv, HandInv, AnsweredOnce, [Next]_vars PROVE AnsweredOnce'
  OBVIOUS
<1>1. ASSUME ReadError
      PROVE  AnsweredOnce'
  BY <1>1, AcceptedSame, SameAnswers DEF ReadError, sendVars, messageVars
<1>2. ASSUME TakeEvent
      PROVE  AnsweredOnce'
  BY <1>2, AcceptedSame, SameAnswers DEF TakeEvent, sendVars, messageVars
<1>3. ASSUME SendEvent
      PROVE  AnsweredOnce'
  <2>1. Event(events) \in Items /\ \A m \in Messages : Answer(m) # Event(events)
    BY <1>3, ClientItems DEF TypeOK, ControlInv, SendEvent
  <2>2. CASE sendChan' = Append(sendChan, Event(events))
    <3>1. accepted' = Append(accepted, Event(events))
      BY <1>3, <2>1, <2>2, AcceptedAppend DEF SendEvent
    <3>2. \A m \in Messages : Sent(Answer(m))' <=> Sent(Answer(m))
      BY <2>1, <3>1, SentAppend
    <3> QED
      BY <1>3, <3>2 DEF AnsweredOnce, Sent, SendEvent, messageVars
  <2>3. CASE sendChan' = sendChan
    <3>1. accepted' = accepted
      BY <1>3, <2>3, AcceptedSame DEF SendEvent
    <3> QED
      BY <1>3, <3>1, SameAnswers DEF SendEvent, messageVars
  <2> QED
    BY <1>3, <2>2, <2>3 DEF SendEvent
<1>4. ASSUME EndListener
      PROVE  AnsweredOnce'
  BY <1>4, AcceptedSame, SameAnswers DEF EndListener, sendVars, messageVars
<1>5. ASSUME TakeMessage
      PROVE  AnsweredOnce'
  <2>1. accepted' = accepted
    BY <1>5, AcceptedMoves
  <2> QED
    BY <1>5, <2>1, SameAnswers DEF TakeMessage, messageVars
<1>6. ASSUME Written
      PROVE  AnsweredOnce'
  <2>1. accepted' = accepted
    BY <1>6, AcceptedMoves
  <2> QED
    BY <1>6, <2>1, SameAnswers DEF Written, messageVars
<1>7. ASSUME WriteError
      PROVE  AnsweredOnce'
  BY <1>7, AcceptedSame, SameAnswers DEF WriteError, sendVars, messageVars
<1>8. ASSUME WritePanic
      PROVE  AnsweredOnce'
  BY <1>8, AcceptedSame, SameAnswers DEF WritePanic, sendVars, messageVars
<1>9. ASSUME EndSender
      PROVE  AnsweredOnce'
  BY <1>9, AcceptedSame, SameAnswers DEF EndSender, sendVars, messageVars
<1>10. ASSUME Leave
      PROVE  AnsweredOnce'
  BY <1>10, AcceptedSame, SameAnswers DEF Leave, sendVars, messageVars
<1>11. ASSUME Stop
      PROVE  AnsweredOnce'
  BY <1>11, AcceptedSame, SameAnswers DEF Stop, sendVars, messageVars
<1>12. ASSUME NEW m \in Messages, Read(m)
      PROVE  AnsweredOnce'
  <2>1. accepted' = accepted /\ direct' = direct /\ content' = content
    BY <1>12, AcceptedSame DEF Read, sendVars
  <2>2. mpc[m] # "done" /\ \E l \in MessagePCs \ {"done"} : mpc' = [mpc EXCEPT ![m] = l]
    BY <1>12 DEF Read, Goto, MessagePCs
  <2>3. \A q \in Messages : mpc'[q] = mpc[q] \/ (mpc[q] # "done" /\ mpc'[q] # "done")
    BY <2>2 DEF TypeOK
  <2> QED
    BY <2>1, <2>3, SameAnswers
<1>13. ASSUME NEW m \in Messages, Submit(m)
      PROVE  AnsweredOnce'
  <2>1. accepted' = accepted /\ direct' = direct /\ content' = content
    BY <1>13, AcceptedSame DEF Submit, sendVars
  <2>2. mpc[m] # "done" /\ \E l \in MessagePCs \ {"done"} : mpc' = [mpc EXCEPT ![m] = l]
    BY <1>13 DEF Submit, Goto, MessagePCs
  <2>3. \A q \in Messages : mpc'[q] = mpc[q] \/ (mpc[q] # "done" /\ mpc'[q] # "done")
    BY <2>2 DEF TypeOK
  <2> QED
    BY <2>1, <2>3, SameAnswers
<1>14. ASSUME NEW m \in Messages, Start(m)
      PROVE  AnsweredOnce'
  <2>1. accepted' = accepted /\ direct' = direct /\ content' = content
    BY <1>14, AcceptedSame DEF Start, sendVars
  <2>2. mpc[m] # "done" /\ \E l \in MessagePCs \ {"done"} : mpc' = [mpc EXCEPT ![m] = l]
    BY <1>14 DEF Start, Goto, MessagePCs
  <2>3. \A q \in Messages : mpc'[q] = mpc[q] \/ (mpc[q] # "done" /\ mpc'[q] # "done")
    BY <2>2 DEF TypeOK
  <2> QED
    BY <2>1, <2>3, SameAnswers
<1>15. ASSUME NEW m \in Messages, Drop(m)
      PROVE  AnsweredOnce'
  <2>1. accepted' = accepted /\ direct' = direct /\ content' = content
    BY <1>15, AcceptedSame DEF Drop, sendVars
  <2>2. mpc[m] # "done" /\ \E l \in MessagePCs \ {"done"} : mpc' = [mpc EXCEPT ![m] = l]
    BY <1>15 DEF Drop, Goto, MessagePCs
  <2>3. \A q \in Messages : mpc'[q] = mpc[q] \/ (mpc[q] # "done" /\ mpc'[q] # "done")
    BY <2>2 DEF TypeOK
  <2> QED
    BY <2>1, <2>3, SameAnswers
<1>16. ASSUME NEW m \in Messages, Handle(m)
      PROVE  AnsweredOnce'
  <2>1. accepted' = accepted /\ direct' = direct
    BY <1>16, AcceptedSame DEF Handle, sendVars
  <2>2. PICK c \in Contents :
          /\ content' = [content EXCEPT ![m] = c]
          /\ \/ \E l \in {"reply", "check", "panicked"} : mpc' = [mpc EXCEPT ![m] = l]
             \/ c.kind = "bid" /\ mpc' = [mpc EXCEPT ![m] = "done"]
    BY <1>16 DEF Handle, RefuseInvalid, HandleSubscribe,
       HandleUnsubscribe, HandlePlaceBid, HandleRequest, HandleListAuctions, Goto
  <2>3. mpc[m] = "handling"
    BY <1>16 DEF Handle
  <2>4. ~Sent(Answer(m)) /\ m \notin direct
    BY <2>3 DEF AnsweredOnce, Sent
  <2>5. \A q \in Messages : Sent(Answer(q))' <=> Sent(Answer(q))
    BY <2>1 DEF Sent
  <2>6. /\ \A q \in Messages \ {m} : mpc'[q] = mpc[q] /\ content'[q] = content[q]
        /\ mpc'[m] = "done" => content'[m].kind = "bid"
    BY <2>2 DEF TypeOK
  <2> QED
    BY <2>1, <2>4, <2>5, <2>6 DEF AnsweredOnce, Sent
<1>17. ASSUME NEW m \in Messages, Check(m)
      PROVE  AnsweredOnce'
  <2>1. accepted' = accepted /\ direct' = direct /\ content' = content
    BY <1>17, AcceptedSame DEF Check, sendVars
  <2>2. mpc[m] # "done" /\ \E l \in MessagePCs \ {"done"} : mpc' = [mpc EXCEPT ![m] = l]
    BY <1>17 DEF Check, Goto, MessagePCs
  <2>3. \A q \in Messages : mpc'[q] = mpc[q] \/ (mpc[q] # "done" /\ mpc'[q] # "done")
    BY <2>2 DEF TypeOK
  <2> QED
    BY <2>1, <2>3, SameAnswers
<1>18. ASSUME NEW m \in Messages, SendAnswer(m)
      PROVE  AnsweredOnce'
  <2>1. mpc[m] = "send" /\ Answer(m) \in Items /\ direct' = direct /\ content' = content
    BY <1>18, ClientItems DEF SendAnswer
  <2>2. ~Sent(Answer(m)) /\ m \notin direct
    BY <2>1 DEF AnsweredOnce, Sent
  <2>3. CASE sendChan' = Append(sendChan, Answer(m)) /\ mpc' = [mpc EXCEPT ![m] = "done"]
    <3>1. accepted' = Append(accepted, Answer(m))
      BY <1>18, <2>1, <2>3, AcceptedAppend DEF SendAnswer
    <3>2. \A q \in Messages : Sent(Answer(q))' <=> Sent(Answer(q)) \/ q = m
      BY <2>1, <3>1, SentAppend, ClientItems
    <3>3. mpc'[m] = "done" /\ \A q \in Messages \ {m} : mpc'[q] = mpc[q]
      BY <2>3 DEF TypeOK
    <3> QED
      BY <2>1, <2>2, <3>2, <3>3 DEF AnsweredOnce, Sent
  <2>4. CASE sendChan' = sendChan /\ \E l \in {"panicked", "reply"} : mpc' = [mpc EXCEPT ![m] = l]
    <3>1. accepted' = accepted
      BY <1>18, <2>4, AcceptedSame DEF SendAnswer
    <3>2. \A q \in Messages : mpc'[q] = mpc[q] \/ (mpc[q] # "done" /\ mpc'[q] # "done")
      BY <2>1, <2>4 DEF TypeOK
    <3> QED
      BY <2>1, <3>1, <3>2, SameAnswers
  <2> QED
    BY <1>18, <2>3, <2>4 DEF SendAnswer, Goto
<1>19. ASSUME NEW m \in Messages, Reply(m)
      PROVE  AnsweredOnce'
  <2>1. accepted' = accepted /\ direct' = direct /\ content' = content
    BY <1>19, AcceptedSame DEF Reply, sendVars
  <2>2. mpc[m] # "done" /\ \E l \in MessagePCs \ {"done"} : mpc' = [mpc EXCEPT ![m] = l]
    BY <1>19 DEF Reply, Goto, MessagePCs
  <2>3. \A q \in Messages : mpc'[q] = mpc[q] \/ (mpc[q] # "done" /\ mpc'[q] # "done")
    BY <2>2 DEF TypeOK
  <2> QED
    BY <2>1, <2>3, SameAnswers
<1>20. ASSUME NEW m \in Messages, EndReply(m)
      PROVE  AnsweredOnce'
  <2>1. accepted' = accepted /\ content' = content /\ mpc[m] = "writing"
    BY <1>20, AcceptedSame DEF EndReply, sendVars
  <2>2. ~Sent(Answer(m)) /\ m \notin direct
    BY <2>1 DEF AnsweredOnce, Sent
  <2>3. CASE direct' = direct \cup {m} /\ mpc' = [mpc EXCEPT ![m] = "done"]
    <3>1. mpc'[m] = "done" /\ \A q \in Messages \ {m} : mpc'[q] = mpc[q]
      BY <2>3 DEF TypeOK
    <3>2. \A q \in Messages : Sent(Answer(q))' <=> Sent(Answer(q))
      BY <2>1 DEF Sent
    <3> QED
      BY <2>1, <2>2, <2>3, <3>1, <3>2 DEF AnsweredOnce, Sent
  <2>4. CASE direct' = direct /\ \E l \in {"panicked", "failed"} : mpc' = [mpc EXCEPT ![m] = l]
    <3>1. \A q \in Messages : mpc'[q] = mpc[q] \/ (mpc[q] # "done" /\ mpc'[q] # "done")
      BY <2>1, <2>4 DEF TypeOK
    <3> QED
      BY <2>1, <2>4, <3>1, SameAnswers
  <2> QED
    BY <1>20, <2>3, <2>4 DEF EndReply, Goto
<1>21. ASSUME RemoveEventChannel
      PROVE  AnsweredOnce'
  BY <1>21, AcceptedSame, SameAnswers DEF RemoveEventChannel, sendVars, messageVars
<1>22. CASE UNCHANGED vars
  BY <1>22, AcceptedSame, SameAnswers DEF vars, sendVars, messageVars
<1> QED
  BY <1>1, <1>2, <1>3, <1>4, <1>5, <1>6, <1>7, <1>8, <1>9, <1>10,
     <1>11, <1>12, <1>13, <1>14, <1>15, <1>16, <1>17, <1>18, <1>19, <1>20,
     <1>21, <1>22
     DEF Next, WorkerStep, EndWrite

-----------------------------------------------------------------------------
(* Pages                                                                   *)

LEMMA DivisionBounds ==
  ASSUME NEW x \in Int, NEW d \in Nat \ {0}
  PROVE  /\ x \div d \in Int
         /\ (x \div d) * d <= x /\ x < (x \div d) * d + d
OBVIOUS

LEMMA MultiplesApart ==
  ASSUME NEW p \in Int, NEW q \in Int, NEW d \in Nat \ {0}, p < q
  PROVE  p * d + d <= q * d
<1>1. q - p \in Nat /\ 1 <= q - p
  OBVIOUS
<1>2. d <= (q - p) * d
  BY <1>1
<1>3. (q - p) * d = q * d - p * d
  OBVIOUS
<1> QED
  BY <1>2, <1>3

LEMMA QuotientUnique ==
  ASSUME NEW x \in Int, NEW d \in Nat \ {0}, NEW q \in Int
  PROVE  x \div d = q <=> q * d <= x /\ x < q * d + d
<1> DEFINE p == x \div d
<1>1. p \in Int /\ p * d <= x /\ x < p * d + d
  BY DivisionBounds
<1>2. p * d \in Int /\ q * d \in Int
  BY <1>1
<1>3. CASE p < q
  BY <1>1, <1>2, <1>3, MultiplesApart
<1>4. CASE q < p
  BY <1>1, <1>2, <1>4, MultiplesApart
<1> HIDE DEF p
<1>5. CASE p = q
  BY <1>1, <1>5
<1> QED
  BY <1>1, <1>3, <1>4, <1>5 DEF p

\* The handler's page, the service's corrections and the query's LIMIT and OFFSET
\* together select the aligned window around the offset.
LEMMA ListedRowsAreAligned ==
  ASSUME NEW count \in Nat, NEW offset \in Nat, NEW limit \in Nat \ {0}
  PROVE  ListedRows(count, offset, limit) =
           {k \in 1 .. count : (k - 1) \div limit = offset \div limit}
<1> DEFINE q == offset \div limit
<1>1. q \in Int /\ 0 <= q
  <2>1. q \in Int /\ offset < q * limit + limit
    BY DivisionBounds
  <2>2. CASE q < 0
    <3>1. q * limit + limit <= 0 * limit
      BY <2>1, <2>2, MultiplesApart
    <3> QED
      BY <2>1, <3>1
  <2> QED
    BY <2>1, <2>2
<1>2. Page(offset, limit) = q + 1
  BY <1>1 DEF Page, Quotient, Abs
<1> HIDE DEF q
<1>3. PageNumber(q + 1) = q + 1 /\ PageSize(limit) = limit
  BY <1>1 DEF PageNumber, PageSize
<1>4. ListedRows(count, offset, limit) = SelectRows(count, q + 1, limit)
  BY <1>2, <1>3 DEF ListedRows
<1>5. /\ (q + 1 - 1) * limit = q * limit
      /\ (q + 1) * limit = q * limit + limit
      /\ q * limit \in Int
  BY <1>1
<1>6. ASSUME NEW k \in 1 .. count
      PROVE  (k - 1) \div limit = q <=> q * limit < k /\ k <= q * limit + limit
  <2>1. (k - 1) \div limit = q <=> q * limit <= k - 1 /\ k - 1 < q * limit + limit
    BY <1>1, QuotientUnique
  <2> QED
    BY <1>5, <2>1
<1> QED
  BY <1>4, <1>5, <1>6 DEF q, SelectRows

\* The page of a list_auctions that was handled is the one it asked for.
PageInv ==
  \A m \in Messages :
    /\ content[m].kind = "list" /\ content[m].limit # 0 =>
         page[m] = ListedRows(RowCount, content[m].offset, content[m].limit)

LEMMA PageStep == TypeOK /\ PageInv /\ [Next]_vars => PageInv'
<1> SUFFICES ASSUME TypeOK, PageInv, [Next]_vars PROVE PageInv'
  OBVIOUS
<1>1. ASSUME ReadError
      PROVE  PageInv'
  BY <1>1 DEF PageInv, ReadError, messageVars
<1>2. ASSUME TakeEvent
      PROVE  PageInv'
  BY <1>2 DEF PageInv, TakeEvent, messageVars
<1>3. ASSUME SendEvent
      PROVE  PageInv'
  BY <1>3 DEF PageInv, SendEvent, messageVars
<1>4. ASSUME EndListener
      PROVE  PageInv'
  BY <1>4 DEF PageInv, EndListener, messageVars
<1>5. ASSUME TakeMessage
      PROVE  PageInv'
  BY <1>5 DEF PageInv, TakeMessage, messageVars
<1>6. ASSUME Written
      PROVE  PageInv'
  BY <1>6 DEF PageInv, Written, messageVars
<1>7. ASSUME WriteError
      PROVE  PageInv'
  BY <1>7 DEF PageInv, WriteError, messageVars
<1>8. ASSUME WritePanic
      PROVE  PageInv'
  BY <1>8 DEF PageInv, WritePanic, messageVars
<1>9. ASSUME EndSender
      PROVE  PageInv'
  BY <1>9 DEF PageInv, EndSender, messageVars
<1>10. ASSUME Leave
      PROVE  PageInv'
  BY <1>10 DEF PageInv, Leave, messageVars
<1>11. ASSUME Stop
      PROVE  PageInv'
  BY <1>11 DEF PageInv, Stop, messageVars
<1>12. ASSUME NEW m \in Messages, Read(m)
      PROVE  PageInv'
  BY <1>12 DEF PageInv, Read, messageVars
<1>13. ASSUME NEW m \in Messages, Submit(m)
      PROVE  PageInv'
  BY <1>13 DEF PageInv, Submit, messageVars
<1>14. ASSUME NEW m \in Messages, Start(m)
      PROVE  PageInv'
  BY <1>14 DEF PageInv, Start, messageVars
<1>15. ASSUME NEW m \in Messages, Drop(m)
      PROVE  PageInv'
  BY <1>15 DEF PageInv, Drop, messageVars
<1>16. ASSUME NEW m \in Messages, Handle(m)
      PROVE  PageInv'
  <2>1. PICK c \in Contents :
          /\ content' = [content EXCEPT ![m] = c]
          /\ page' = IF c.kind = "list" /\ c.limit # 0
                     THEN [page EXCEPT ![m] = ListedRows(RowCount, c.offset, c.limit)]
                     ELSE page
    BY <1>16 DEF Handle, RefuseInvalid, HandleSubscribe,
       HandleUnsubscribe, HandlePlaceBid, HandleRequest, HandleListAuctions
  <2>2. content'[m] = c /\ \A q \in Messages \ {m} : content'[q] = content[q] /\ page'[q] = page[q]
    BY <2>1 DEF TypeOK
  <2>3. c.kind = "list" /\ c.limit # 0 => page'[m] = ListedRows(RowCount, c.offset, c.limit)
    BY <2>1 DEF TypeOK
  <2> QED
    BY <2>2, <2>3 DEF PageInv
<1>17. ASSUME NEW m \in Messages, Check(m)
      PROVE  PageInv'
  BY <1>17 DEF PageInv, Check, messageVars
<1>18. ASSUME NEW m \in Messages, SendAnswer(m)
      PROVE  PageInv'
  BY <1>18 DEF PageInv, SendAnswer, messageVars
<1>19. ASSUME NEW m \in Messages, Reply(m)
      PROVE  PageInv'
  BY <1>19 DEF PageInv, Reply, messageVars
<1>20. ASSUME NEW m \in Messages, EndReply(m)
      PROVE  PageInv'
  BY <1>20 DEF PageInv, EndReply, messageVars
<1>21. ASSUME RemoveEventChannel
      PROVE  PageInv'
  BY <1>21 DEF PageInv, RemoveEventChannel, messageVars
<1>22. CASE UNCHANGED vars
  BY <1>22 DEF PageInv, vars, messageVars
<1> QED
  BY <1>1, <1>2, <1>3, <1>4, <1>5, <1>6, <1>7, <1>8, <1>9, <1>10,
     <1>11, <1>12, <1>13, <1>14, <1>15, <1>16, <1>17, <1>18, <1>19, <1>20,
     <1>21, <1>22
     DEF Next, WorkerStep, EndWrite

LEMMA ListedFromPage == TypeOK /\ PageInv => ListedWindow
<1> SUFFICES ASSUME TypeOK, PageInv, NEW m \in Messages, content[m].kind = "list",
                    content[m].limit > 0, content[m].offset >= 0
             PROVE  page[m] = {k \in 1 .. RowCount :
                       (k - 1) \div content[m].limit = content[m].offset \div content[m].limit}
  BY DEF ListedWindow
<1>1. content[m] \in Contents
  BY DEF TypeOK
<1>2. content[m].limit \in Nat \ {0} /\ content[m].offset \in Nat /\ RowCount \in Nat
  <2>1. content[m] \in [kind : {"list"}, limit : Limits, offset : Offsets]
    BY <1>1 DEF Contents
  <2>2. content[m].limit \in Int /\ content[m].offset \in Int
    BY <2>1, ClientAssumption
  <2> QED
    BY <2>2, ClientAssumption
<1>3. page[m] = ListedRows(RowCount, content[m].offset, content[m].limit)
  BY <1>2 DEF PageInv
<1> QED
  BY <1>2, <1>3, ListedRowsAreAligned

-----------------------------------------------------------------------------
(* Refinement of Outbox                                                    *)

\* Send is never called again for an answer or an event that it has accepted.
FreshInv ==
  \A n \in Nat : Sent(Event(n)) => n <= events /\ (listener = "sending" => n < events)

LEMMA FreshFrame ==
  ASSUME FreshInv, accepted' = accepted, UNCHANGED <<listener, events>>
  PROVE  FreshInv'
BY DEF FreshInv, Sent

LEMMA FreshStep == TypeOK /\ ControlInv /\ HandInv /\ FreshInv /\ [Next]_vars => FreshInv'
<1> SUFFICES ASSUME TypeOK, ControlInv, HandInv, FreshInv, [Next]_vars PROVE FreshInv'
  OBVIOUS
<1>1. ASSUME ReadError
      PROVE  FreshInv'
  BY <1>1, FreshFrame, AcceptedSame DEF ReadError, eventVars, sendVars
<1>2. ASSUME TakeEvent
      PROVE  FreshInv'
  <2>1. accepted' = accepted
    BY <1>2, AcceptedSame DEF TakeEvent, sendVars
  <2>2. events' = events + 1 /\ events \in Nat
    BY <1>2 DEF TakeEvent, TypeOK
  <2> QED
    BY <2>1, <2>2 DEF FreshInv, Sent
<1>3. ASSUME SendEvent
      PROVE  FreshInv'
  <2>1. Event(events) \in Items /\ events \in Nat
    BY <1>3, ClientItems DEF TypeOK, ControlInv, SendEvent
  <2>2. listener = "sending" /\ events' = events
    BY <1>3 DEF SendEvent
  <2>3. CASE sendChan' = Append(sendChan, Event(events)) /\ listener' = "waiting"
    <3>1. accepted' = Append(accepted, Event(events))
      BY <1>3, <2>1, <2>3, AcceptedAppend DEF SendEvent
    <3>2. \A n \in Nat : Sent(Event(n))' <=> Sent(Event(n)) \/ n = events
      BY <2>1, <3>1, SentAppend, ClientItems
    <3> QED
      BY <2>1, <2>2, <2>3, <3>2 DEF FreshInv
  <2>4. CASE sendChan' = sendChan
    <3>1. accepted' = accepted
      BY <1>3, <2>4, AcceptedSame DEF SendEvent
    <3> QED
      BY <2>2, <3>1 DEF FreshInv, Sent
  <2> QED
    BY <1>3, <2>3, <2>4 DEF SendEvent
<1>4. ASSUME EndListener
      PROVE  FreshInv'
  <2>1. accepted' = accepted
    BY <1>4, AcceptedSame DEF EndListener, sendVars
  <2> QED
    BY <1>4, <2>1 DEF FreshInv, Sent, EndListener
<1>5. ASSUME TakeMessage
      PROVE  FreshInv'
  <2>1. accepted' = accepted
    BY <1>5, AcceptedMoves
  <2> QED
    BY <1>5, <2>1, FreshFrame DEF TakeMessage, eventVars
<1>6. ASSUME Written
      PROVE  FreshInv'
  <2>1. accepted' = accepted
    BY <1>6, AcceptedMoves
  <2> QED
    BY <1>6, <2>1, FreshFrame DEF Written, eventVars
<1>7. ASSUME WriteError
      PROVE  FreshInv'
  BY <1>7, FreshFrame, AcceptedSame DEF WriteError, eventVars, sendVars
<1>8. ASSUME WritePanic
      PROVE  FreshInv'
  BY <1>8, FreshFrame, AcceptedSame DEF WritePanic, eventVars, sendVars
<1>9. ASSUME EndSender
      PROVE  FreshInv'
  BY <1>9, FreshFrame, AcceptedSame DEF EndSender, eventVars, sendVars
<1>10. ASSUME Leave
      PROVE  FreshInv'
  BY <1>10, FreshFrame, AcceptedSame DEF Leave, eventVars, sendVars
<1>11. ASSUME Stop
      PROVE  FreshInv'
  BY <1>11, FreshFrame, AcceptedSame DEF Stop, eventVars, sendVars
<1>12. ASSUME NEW m \in Messages, Read(m)
      PROVE  FreshInv'
  BY <1>12, FreshFrame, AcceptedSame DEF Read, eventVars, sendVars
<1>13. ASSUME NEW m \in Messages, Submit(m)
      PROVE  FreshInv'
  BY <1>13, FreshFrame, AcceptedSame DEF Submit, eventVars, sendVars
<1>14. ASSUME NEW m \in Messages, Start(m)
      PROVE  FreshInv'
  BY <1>14, FreshFrame, AcceptedSame DEF Start, eventVars, sendVars
<1>15. ASSUME NEW m \in Messages, Drop(m)
      PROVE  FreshInv'
  BY <1>15, FreshFrame, AcceptedSame DEF Drop, eventVars, sendVars
<1>16. ASSUME NEW m \in Messages, Handle(m)
      PROVE  FreshInv'
  BY <1>16, FreshFrame, AcceptedSame DEF Handle, eventVars, sendVars
<1>17. ASSUME NEW m \in Messages, Check(m)
      PROVE  FreshInv'
  BY <1>17, FreshFrame, AcceptedSame DEF Check, eventVars, sendVars
<1>18. ASSUME NEW m \in Messages, SendAnswer(m)
      PROVE  FreshInv'
  <2>1. Answer(m) \in Items /\ \A n \in Nat : Event(n) # Answer(m)
    BY ClientItems
  <2>2. CASE sendChan' = Append(sendChan, Answer(m))
    <3>1. accepted' = Append(accepted, Answer(m))
      BY <1>18, <2>1, <2>2, AcceptedAppend DEF SendAnswer
    <3>2. \A n \in Nat : Sent(Event(n))' <=> Sent(Event(n))
      BY <2>1, <3>1, SentAppend
    <3> QED
      BY <1>18, <3>2 DEF FreshInv, SendAnswer, eventVars
  <2>3. CASE sendChan' = sendChan
    BY <1>18, <2>3, FreshFrame, AcceptedSame DEF SendAnswer, eventVars
  <2> QED
    BY <1>18, <2>2, <2>3 DEF SendAnswer
<1>19. ASSUME NEW m \in Messages, Reply(m)
      PROVE  FreshInv'
  BY <1>19, FreshFrame, AcceptedSame DEF Reply, eventVars, sendVars
<1>20. ASSUME NEW m \in Messages, EndReply(m)
      PROVE  FreshInv'
  BY <1>20, FreshFrame, AcceptedSame DEF EndReply, eventVars, sendVars
<1>21. ASSUME RemoveEventChannel
      PROVE  FreshInv'
  BY <1>21, FreshFrame, AcceptedSame DEF RemoveEventChannel, sendVars
<1>22. CASE UNCHANGED vars
  BY <1>22, FreshFrame, AcceptedSame DEF vars, eventVars, sendVars
<1> QED
  BY <1>1, <1>2, <1>3, <1>4, <1>5, <1>6, <1>7, <1>8, <1>9, <1>10,
     <1>11, <1>12, <1>13, <1>14, <1>15, <1>16, <1>17, <1>18, <1>19, <1>20,
     <1>21, <1>22
     DEF Next, WorkerStep, EndWrite

\* All that holds in every state
ClientInv ==
  /\ TypeOK /\ ControlInv /\ HandInv /\ ChannelInv /\ DeathHasCause
  /\ AnsweredOnce /\ FreshInv /\ PageInv

LEMMA ClientInvariants == Spec => []ClientInv
<1>1. Init => ClientInv
  <2> SUFFICES ASSUME Init PROVE ClientInv
    OBVIOUS
  <2>1. accepted = <<>>
    BY DEF Init, accepted
  <2>2. \A x : ~Sent(x)
    BY <2>1 DEF Sent
  <2>3. AnsweredOnce
    BY <2>2 DEF Init, AnsweredOnce, Sent
  <2>4. FreshInv
    BY <2>2 DEF FreshInv
  <2>5. PageInv
    BY DEF Init, PageInv
  <2> QED
    BY <2>3, <2>4, <2>5, ClientInit DEF ClientInv
<1>2. ClientInv /\ [Next]_vars => ClientInv'
  BY ClientTypeStep, ControlStep, HandStep, ChannelStep, KillStep, AnsweredStep,
     FreshStep, PageStep
     DEF ClientInv
<1> QED
  BY <1>1, <1>2, PTL DEF Spec

\* No interleaving of a connection's goroutines overfills sendChan, makes the
\* receiver submit two messages at once or loses track of where a message is.
THEOREM ClientTypeInvariant == Spec => []TypeOK
BY ClientInvariants, PTL DEF ClientInv

\* However Send fails, and whatever its caller does then, no message is answered
\* twice, and none that was handled is left unanswered for no reason.
THEOREM AnswerInvariant == Spec => []AnsweredOnce
BY ClientInvariants, PTL DEF ClientInv

\* The receiver never submits to a stopped pool: only an event that is sent while
\* the client is stopped, two writers at once, and the unregistering of a client
\* that had given up its last subscription can take the process down.
THEOREM KillInvariant == Spec => []DeathHasCause
BY ClientInvariants, PTL DEF ClientInv

\* Every list_auctions with a positive limit is answered with the aligned window
\* of the table in which its offset lies, for every limit, offset and table.
THEOREM ListingInvariant == Spec => []ListedWindow
BY ClientInvariants, ListedFromPage, PTL DEF ClientInv

-----------------------------------------------------------------------------
(* The goroutines do not wait for each other in a circle                   *)

\* What the receiver is doing shows: it submits a message it has read, and when
\* it has ended it has cancelled the context.
ReceiverInv ==
  /\ receiver = "submitting" => \E m \in Messages : mpc[m] = "read"
  /\ receiver = "ended" => cancelled

\* A step that moves neither the receiver nor a message it has read.
LEMMA ReceiverFrame ==
  ASSUME ReceiverInv, receiver' = receiver, cancelled' = cancelled,
         \A m \in Messages : mpc[m] = "read" => mpc'[m] = "read"
  PROVE  ReceiverInv'
BY DEF ReceiverInv

LEMMA ReceiverStep == TypeOK /\ ControlInv /\ ReceiverInv /\ [Next]_vars => ReceiverInv'
<1> SUFFICES ASSUME TypeOK, ControlInv, ReceiverInv, [Next]_vars PROVE ReceiverInv'
  OBVIOUS
<1>0. mpc \in [Messages -> MessagePCs]
  BY DEF TypeOK
<1> USE DEF messageVars, eventVars, subscriptionVars, sendVars, stopVars
<1>1. ASSUME ReadError
      PROVE  ReceiverInv'
  BY <1>1 DEF ReadError, ReceiverInv
<1>2. ASSUME TakeEvent
      PROVE  ReceiverInv'
  BY <1>2, ReceiverFrame DEF TakeEvent
<1>3. ASSUME SendEvent
      PROVE  ReceiverInv'
  BY <1>3, ReceiverFrame DEF SendEvent
<1>4. ASSUME EndListener
      PROVE  ReceiverInv'
  BY <1>4, ReceiverFrame DEF EndListener
<1>5. ASSUME TakeMessage
      PROVE  ReceiverInv'
  BY <1>5, ReceiverFrame DEF TakeMessage
<1>6. ASSUME Written
      PROVE  ReceiverInv'
  BY <1>6, ReceiverFrame DEF Written
<1>7. ASSUME WriteError
      PROVE  ReceiverInv'
  BY <1>7, ReceiverFrame DEF WriteError
<1>8. ASSUME WritePanic
      PROVE  ReceiverInv'
  BY <1>8, ReceiverFrame DEF WritePanic
<1>9. ASSUME EndSender
      PROVE  ReceiverInv'
  BY <1>9, ReceiverFrame DEF EndSender
<1>10. ASSUME Leave
      PROVE  ReceiverInv'
  BY <1>10, ReceiverFrame DEF Leave
<1>11. ASSUME Stop
      PROVE  ReceiverInv'
  BY <1>11, ReceiverFrame DEF Stop
<1>12. ASSUME NEW m \in Messages, Read(m)
      PROVE  ReceiverInv'
  <2>1. mpc'[m] = "read" /\ receiver' = "submitting"
    BY <1>0, <1>12 DEF Read, Goto
  <2> QED
    BY <2>1 DEF ReceiverInv
<1>13. ASSUME NEW m \in Messages, Submit(m)
      PROVE  ReceiverInv'
  BY <1>13 DEF Submit, ReceiverInv
<1>14. ASSUME NEW m \in Messages, Start(m)
      PROVE  ReceiverInv'
  <2>1. \A q \in Messages : mpc[q] = "read" => mpc'[q] = "read"
    BY <1>0, <1>14 DEF Start, Goto
  <2> QED
    BY <1>14, <2>1, ReceiverFrame DEF Start
<1>15. ASSUME NEW m \in Messages, Drop(m)
      PROVE  ReceiverInv'
  <2>1. \A q \in Messages : mpc[q] = "read" => mpc'[q] = "read"
    BY <1>0, <1>15 DEF Drop, Goto
  <2> QED
    BY <1>15, <2>1, ReceiverFrame DEF Drop
<1>16. ASSUME NEW m \in Messages, Handle(m)
      PROVE  ReceiverInv'
  <2>1. PICK label : mpc' = [mpc EXCEPT ![m] = label] /\ mpc[m] = "handling"
    BY <1>16 DEF Handle, RefuseInvalid, HandleSubscribe,
       HandleUnsubscribe, HandlePlaceBid, HandleRequest, HandleListAuctions, Goto
  <2>2. \A q \in Messages : mpc[q] = "read" => mpc'[q] = "read"
    BY <1>0, <2>1
  <2> QED
    BY <1>16, <2>2, ReceiverFrame DEF Handle
<1>17. ASSUME NEW m \in Messages, Check(m)
      PROVE  ReceiverInv'
  <2>1. \A q \in Messages : mpc[q] = "read" => mpc'[q] = "read"
    BY <1>0, <1>17 DEF Check, Goto
  <2> QED
    BY <1>17, <2>1, ReceiverFrame DEF Check
<1>18. ASSUME NEW m \in Messages, SendAnswer(m)
      PROVE  ReceiverInv'
  <2>1. \A q \in Messages : mpc[q] = "read" => mpc'[q] = "read"
    BY <1>0, <1>18 DEF SendAnswer, Goto
  <2> QED
    BY <1>18, <2>1, ReceiverFrame DEF SendAnswer
<1>19. ASSUME NEW m \in Messages, Reply(m)
      PROVE  ReceiverInv'
  <2>1. \A q \in Messages : mpc[q] = "read" => mpc'[q] = "read"
    BY <1>0, <1>19 DEF Reply, Goto
  <2> QED
    BY <1>19, <2>1, ReceiverFrame DEF Reply
<1>20. ASSUME NEW m \in Messages, EndReply(m)
      PROVE  ReceiverInv'
  <2>1. \A q \in Messages : mpc[q] = "read" => mpc'[q] = "read"
    BY <1>0, <1>20 DEF EndReply, Goto
  <2> QED
    BY <1>20, <2>1, ReceiverFrame DEF EndReply
<1>21. ASSUME RemoveEventChannel
      PROVE  ReceiverInv'
  BY <1>21, ReceiverFrame DEF RemoveEventChannel
<1>22. CASE UNCHANGED vars
  BY <1>22, ReceiverFrame DEF vars
<1> QED
  BY <1>1, <1>2, <1>3, <1>4, <1>5, <1>6, <1>7, <1>8, <1>9, <1>10,
     <1>11, <1>12, <1>13, <1>14, <1>15, <1>16, <1>17, <1>18, <1>19, <1>20,
     <1>21, <1>22
     DEF Next, WorkerStep, EndWrite

\* Along the chain of who waits for whom: with every worker idle there is room
\* in the pool, so the receiver goes on; once it has ended the context is
\* cancelled, and everybody else leaves.
LEMMA GoesOn == TypeOK /\ ControlInv /\ ReceiverInv => NobodyIsStuck
<1> SUFFICES ASSUME TypeOK, ControlInv, ReceiverInv,
                    ~ReceiverGoesOn, ~PoolGoesOn, ~ListenerGoesOn, ~SenderGoesOn,
                    ~(cancelled /\ ~unregistered)
             PROVE  AllEnded
  BY DEF NobodyIsStuck
<1>1. Busy = {}
  BY DEF PoolGoesOn
<1>2. Cardinality(Busy) < Workers
  <2>1. Cardinality(Busy) = 0
    BY <1>1, FS_EmptySet
  <2> QED
    BY <2>1, ClientAssumption
<1>3. Queued = {}
  BY <1>2 DEF PoolGoesOn
<1>4. \A m \in Messages : mpc[m] # "read"
  BY <1>2 DEF ReceiverGoesOn
<1>5. receiver = "ended"
  BY <1>4 DEF ReceiverGoesOn, ReceiverInv, TypeOK
<1>6. cancelled /\ unregistered
  BY <1>5 DEF ReceiverInv
<1>7. listener = "ended" /\ sender = "ended"
  BY <1>6 DEF ListenerGoesOn, SenderGoesOn, TypeOK
<1>8. \A m \in Messages : mpc[m] \in {"idle", "done", "failed", "panicked", "dropped"}
  BY <1>1, <1>3, <1>4 DEF Busy, Queued, TypeOK, MessagePCs
<1> QED
  BY <1>5, <1>6, <1>7, <1>8 DEF AllEnded

\* When the other end is gone, some goroutine of the connection can go on until
\* all have ended: no number of workers, no capacity of the queue and of
\* sendChan, and no order of messages makes them wait for each other for ever.
THEOREM StuckInvariant == Spec => []NobodyIsStuck
<1>1. Init => ReceiverInv
  BY DEF Init, ReceiverInv
<1>2. ClientInv /\ ReceiverInv /\ [Next]_vars => ReceiverInv'
  BY ReceiverStep DEF ClientInv
<1>3. ClientInv /\ ReceiverInv => NobodyIsStuck
  BY GoesOn DEF ClientInv
<1> QED
  BY <1>1, <1>2, <1>3, ClientInvariants, PTL DEF Spec

-----------------------------------------------------------------------------
(* Every step is one of Outbox, or changes nothing that Outbox sees.       *)

LEMMA OutboxFrame ==
  ASSUME accepted' = accepted, UNCHANGED <<stopped, written>>
  PROVE  UNCHANGED Abstract!vars
BY DEF Abstract!vars, accepted

LEMMA OutboxAccept ==
  ASSUME TypeOK, NEW x \in Items, ~stopped, ~Sent(x), UNCHANGED <<stopped, written, hand>>,
         sendChan' = Append(sendChan, x)
  PROVE  Abstract!Next
<1>1. accepted' = Append(accepted, x)
  BY AcceptedAppend
<1>2. Abstract!Accept(x)
  BY <1>1 DEF Abstract!Accept, Sent, accepted
<1> QED
  BY <1>2 DEF Abstract!Next

LEMMA OutboxWrite ==
  ASSUME TypeOK, HandInv, Written
  PROVE  Abstract!Next \/ UNCHANGED Abstract!vars
<1>1. accepted' = accepted /\ stopped' = stopped /\ written' = written \o hand
  BY AcceptedMoves DEF Written, stopVars
<1>2. /\ written \in Seq(Items) /\ hand \in Seq(Items) /\ sendChan \in Seq(Items)
      /\ Len(written) \in Nat
  BY DEF TypeOK
<1>3. CASE hand = <<>>
  <2>1. written' = written
    BY <1>1, <1>2, <1>3, ConcatEmptySeq
  <2> QED
    BY <1>1, <2>1, OutboxFrame
<1>4. CASE hand # <<>>
  <2>1. PICK x \in Items : hand = <<x>>
    BY <1>4 DEF HandInv
  <2> DEFINE w == written \o <<x>>
             n == Len(written) + 1
  <2>2. w \in Seq(Items) /\ Len(w) = n /\ w[n] = x /\ w = Append(written, x)
    BY <1>2, <2>1
  <2>3. accepted = w \o sendChan /\ written' = w
    BY <1>1, <2>1 DEF accepted
  <2> HIDE DEF w
  <2>4. Len(accepted) >= n /\ accepted[n] = w[n]
    BY <1>2, <2>2, <2>3
  <2>5. Len(written) < Len(accepted) /\ written' = Append(written, accepted[Len(written) + 1])
    BY <1>2, <2>2, <2>3, <2>4
  <2>6. Abstract!Write
    BY <1>1, <2>5 DEF Abstract!Write, accepted
  <2> QED
    BY <2>6 DEF Abstract!Next
<1> QED
  BY <1>3, <1>4

LEMMA OutboxStep == ClientInv /\ [Next]_vars => (Abstract!Next \/ UNCHANGED Abstract!vars)
<1> SUFFICES ASSUME ClientInv, [Next]_vars PROVE (Abstract!Next \/ UNCHANGED Abstract!vars)
  OBVIOUS
<1>1. ASSUME ReadError
      PROVE  (Abstract!Next \/ UNCHANGED Abstract!vars)
  BY <1>1, AcceptedSame, OutboxFrame DEF ReadError, sendVars, stopVars
<1>2. ASSUME TakeEvent
      PROVE  (Abstract!Next \/ UNCHANGED Abstract!vars)
  BY <1>2, AcceptedSame, OutboxFrame DEF TakeEvent, sendVars, stopVars
<1>3. ASSUME SendEvent
      PROVE  (Abstract!Next \/ UNCHANGED Abstract!vars)
  <2>1. Event(events) \in Items /\ ~Sent(Event(events)) /\ events \in Nat
    BY <1>3, ClientItems DEF ClientInv, TypeOK, ControlInv, FreshInv, SendEvent
  <2>2. CASE sendChan' = Append(sendChan, Event(events)) /\ ~stopped
    BY <1>3, <2>1, <2>2, OutboxAccept DEF ClientInv, SendEvent, stopVars
  <2>3. CASE sendChan' = sendChan
    BY <1>3, <2>3, AcceptedSame, OutboxFrame DEF SendEvent, stopVars
  <2> QED
    BY <1>3, <2>2, <2>3 DEF SendEvent
<1>4. ASSUME EndListener
      PROVE  (Abstract!Next \/ UNCHANGED Abstract!vars)
  BY <1>4, AcceptedSame, OutboxFrame DEF EndListener, sendVars, stopVars
<1>5. ASSUME TakeMessage
      PROVE  (Abstract!Next \/ UNCHANGED Abstract!vars)
  <2>1. accepted' = accepted
    BY <1>5, AcceptedMoves DEF ClientInv
  <2> QED
    BY <1>5, <2>1, OutboxFrame DEF TakeMessage, stopVars
<1>6. ASSUME Written
      PROVE  (Abstract!Next \/ UNCHANGED Abstract!vars)
  BY <1>6, OutboxWrite DEF ClientInv
<1>7. ASSUME WriteError
      PROVE  (Abstract!Next \/ UNCHANGED Abstract!vars)
  BY <1>7, AcceptedSame, OutboxFrame DEF WriteError, sendVars, stopVars
<1>8. ASSUME WritePanic
      PROVE  (Abstract!Next \/ UNCHANGED Abstract!vars)
  BY <1>8, AcceptedSame, OutboxFrame DEF WritePanic, sendVars, stopVars
<1>9. ASSUME EndSender
      PROVE  (Abstract!Next \/ UNCHANGED Abstract!vars)
  BY <1>9, AcceptedSame, OutboxFrame DEF EndSender, sendVars, stopVars
<1>10. ASSUME Leave
      PROVE  (Abstract!Next \/ UNCHANGED Abstract!vars)
  BY <1>10, AcceptedSame, OutboxFrame DEF Leave, sendVars, stopVars
<1>11. ASSUME Stop
      PROVE  (Abstract!Next \/ UNCHANGED Abstract!vars)
  <2>1. accepted' = accepted
    BY <1>11, AcceptedSame DEF Stop, sendVars
  <2>2. Abstract!Close
    BY <1>11, <2>1 DEF Abstract!Close, accepted, Stop, sendVars
  <2> QED
    BY <2>2 DEF Abstract!Next
<1>12. ASSUME NEW m \in Messages, Read(m)
      PROVE  (Abstract!Next \/ UNCHANGED Abstract!vars)
  BY <1>12, AcceptedSame, OutboxFrame DEF Read, sendVars, stopVars
<1>13. ASSUME NEW m \in Messages, Submit(m)
      PROVE  (Abstract!Next \/ UNCHANGED Abstract!vars)
  BY <1>13, AcceptedSame, OutboxFrame DEF Submit, sendVars, stopVars
<1>14. ASSUME NEW m \in Messages, Start(m)
      PROVE  (Abstract!Next \/ UNCHANGED Abstract!vars)
  BY <1>14, AcceptedSame, OutboxFrame DEF Start, sendVars, stopVars
<1>15. ASSUME NEW m \in Messages, Drop(m)
      PROVE  (Abstract!Next \/ UNCHANGED Abstract!vars)
  BY <1>15, AcceptedSame, OutboxFrame DEF Drop, sendVars, stopVars
<1>16. ASSUME NEW m \in Messages, Handle(m)
      PROVE  (Abstract!Next \/ UNCHANGED Abstract!vars)
  BY <1>16, AcceptedSame, OutboxFrame DEF Handle, sendVars, stopVars
<1>17. ASSUME NEW m \in Messages, Check(m)
      PROVE  (Abstract!Next \/ UNCHANGED Abstract!vars)
  BY <1>17, AcceptedSame, OutboxFrame DEF Check, sendVars, stopVars
<1>18. ASSUME NEW m \in Messages, SendAnswer(m)
      PROVE  (Abstract!Next \/ UNCHANGED Abstract!vars)
  <2>1. Answer(m) \in Items
    BY ClientItems
  <2>2. ~Sent(Answer(m))
    BY <1>18 DEF ClientInv, AnsweredOnce, Sent, SendAnswer
  <2>3. CASE sendChan' = Append(sendChan, Answer(m)) /\ ~stopped
    BY <1>18, <2>1, <2>2, <2>3, OutboxAccept DEF ClientInv, SendAnswer, stopVars
  <2>4. CASE sendChan' = sendChan
    BY <1>18, <2>4, AcceptedSame, OutboxFrame DEF SendAnswer, stopVars
  <2> QED
    BY <1>18, <2>3, <2>4 DEF SendAnswer
<1>19. ASSUME NEW m \in Messages, Reply(m)
      PROVE  (Abstract!Next \/ UNCHANGED Abstract!vars)
  BY <1>19, AcceptedSame, OutboxFrame DEF Reply, sendVars, stopVars
<1>20. ASSUME NEW m \in Messages, EndReply(m)
      PROVE  (Abstract!Next \/ UNCHANGED Abstract!vars)
  BY <1>20, AcceptedSame, OutboxFrame DEF EndReply, sendVars, stopVars
<1>21. ASSUME RemoveEventChannel
      PROVE  (Abstract!Next \/ UNCHANGED Abstract!vars)
  BY <1>21, AcceptedSame, OutboxFrame DEF RemoveEventChannel, sendVars
<1>22. CASE UNCHANGED vars
  BY <1>22, AcceptedSame, OutboxFrame DEF vars, sendVars, stopVars
<1> QED
  BY <1>1, <1>2, <1>3, <1>4, <1>5, <1>6, <1>7, <1>8, <1>9, <1>10,
     <1>11, <1>12, <1>13, <1>14, <1>15, <1>16, <1>17, <1>18, <1>19, <1>20,
     <1>21, <1>22
     DEF Next, WorkerStep, EndWrite

\* The channel, the sender and the connection together keep the promise of Send,
\* whichever goroutines call it while the client is stopped.
THEOREM ClientImplementsOutbox == Spec => OutboxSpec
<1>1. Init => Abstract!Init
  <2> SUFFICES ASSUME Init PROVE Abstract!Init
    OBVIOUS
  <2>1. accepted = <<>> /\ written = <<>> /\ (~stopped) = TRUE
    BY DEF Init, accepted
  <2> QED
    BY <2>1 DEF Abstract!Init, accepted
<1>2. ClientInv /\ [Next]_vars => [Abstract!Next]_(Abstract!vars)
  BY OutboxStep
<1> QED
  BY <1>1, <1>2, ClientInvariants, PTL DEF Spec, OutboxSpec, Abstract!Spec

-----------------------------------------------------------------------------
(* What every outbox promises, a connection promises                       *)

Outboxes == INSTANCE Outbox_proofs WITH open <- ~stopped

LEMMA OutboxKeepsPromise ==
  OutboxSpec => [](Abstract!AcceptedOnce /\ Abstract!WrittenFromFirst /\ Abstract!WrittenOnce)
<1>1. OutboxSpec => Outboxes!Spec
  BY PTL DEF OutboxSpec, Abstract!Spec, Outboxes!Spec, Abstract!Init, Outboxes!Init,
             Abstract!Next, Outboxes!Next, Abstract!vars, Outboxes!vars,
             Abstract!Accept, Outboxes!Accept, Abstract!Write, Outboxes!Write,
             Abstract!Close, Outboxes!Close
<1>2. Outboxes!Spec =>
        [](Outboxes!AcceptedOnce /\ Outboxes!WrittenFromFirst /\ Outboxes!WrittenOnce)
  BY Outboxes!OutboxPromise
<1>3. /\ Outboxes!AcceptedOnce <=> Abstract!AcceptedOnce
      /\ Outboxes!WrittenFromFirst <=> Abstract!WrittenFromFirst
      /\ Outboxes!WrittenOnce <=> Abstract!WrittenOnce
  BY DEF Outboxes!AcceptedOnce, Abstract!AcceptedOnce,
         Outboxes!WrittenFromFirst, Abstract!WrittenFromFirst,
         Outboxes!WrittenOnce, Abstract!WrittenOnce
<1> QED
  BY <1>1, <1>2, <1>3, PTL

\* However listener, workers and sender interleave with each other and with the
\* end of the connection, no answer and no event goes through sendChan twice or
\* is written twice by messageSender.
THEOREM WrittenOnceInvariant == Spec => [](Abstract!AcceptedOnce /\ Abstract!WrittenOnce)
BY ClientImplementsOutbox, OutboxKeepsPromise, PTL
================================================================================
