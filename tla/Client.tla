-------------------------------- MODULE Client --------------------------------
(***************************************************************************)
(* One WebSocket connection: the goroutines of WsClient (messageReceiver,  *)
(* messageSender, the workers of its pool) and the two that WsHandler adds *)
(* (listenForClientEvents and the one that unregisters the client).        *)
(*                                                                         *)
(* They share the channel sendChan and the connection itself.  Stop closes *)
(* the channel while a Send may be between its test of stopped and its     *)
(* send, which panics; and the connection is written by messageSender and, *)
(* when a message fails, by its worker, while the WebSocket library allows *)
(* one writer at a time and may panic on a second.  The pool recovers the  *)
(* panics of its workers, nobody recovers those of the other goroutines.   *)
(* The goroutine that unregisters the client is one of these, and closes   *)
(* the client's event channel, which Unsubscribe of the last subscription  *)
(* has closed already.  What subscriptions deliver is the subject of       *)
(* Delivery; here there are some or none.                                  *)
(***************************************************************************)
EXTENDS Listing, Sequences, FiniteSets

CONSTANTS MaxMessages,     \* bound on the messages the client sends
          Workers,         \* WSMaxWorkers
          QueueCapacity,   \* WSMaxCapacity
          SendCapacity,    \* of sendChan
          MaxEvents,       \* bound on the events that arrive
          Limits, Offsets, \* what a list_auctions may ask for
          RowCount,        \* rows there are to list
          Errors           \* whether a read or a write may fail for no reason

ASSUME ClientAssumption ==
  /\ Workers \in Nat \ {0} /\ QueueCapacity \in Nat /\ SendCapacity \in Nat \ {0}
  /\ MaxMessages \in Nat /\ MaxEvents \in Nat /\ RowCount \in Nat
  /\ Limits \subseteq Int /\ Offsets \subseteq Int
  /\ Errors \in BOOLEAN

VARIABLES
  peer,       \* the other end of the connection: "there", "gone"
  receiver,   \* messageReceiver: "reading", "submitting", "ended"
  content,    \* what each message says, once it is parsed
  mpc,        \* where each message is
  page,       \* the rows in the answer to a list_auctions
  direct,     \* messages answered by their worker itself
  listener,   \* listenForClientEvents: "waiting", "sending", "ended"
  events,     \* the number of events it has taken
  subscribed, \* whether the broadcaster has subscriptions of the client
  eventChan,  \* eventChannels[client.id]: "open", "closed"
  sendChan,
  sender,     \* messageSender: "waiting", "writing", "ended"
  hand,       \* what it writes, or failed to write
  written,    \* what it has written
  cancelled,  \* the context of the client
  stopped,    \* client.stopped; the connection and sendChan are closed
  unregistered, \* unregisterClient has returned
  panicked    \* whether the process has died of a panic

messageVars == <<content, mpc, page, direct>>
subscriptionVars == <<subscribed, eventChan>>
eventVars == <<listener, events, subscriptionVars>>
sendVars == <<sendChan, sender, hand, written>>
stopVars == <<peer, cancelled, stopped, unregistered>>
vars == <<receiver, messageVars, eventVars, sendVars, stopVars, panicked>>

\* messages are numbered in the order they are read
Messages == 1 .. MaxMessages

\* "invalid": what cannot be parsed or does not validate; "request": every other
\* message, a list_auctions whose query fails included
Contents ==
  [kind : {"invalid", "subscribe", "unsubscribe", "bid", "request"}, limit : {0}, offset : {0}]
    \cup [kind : {"list"}, limit : Limits, offset : Offsets]

\* what goes through sendChan: answers to messages, and events
Answer(m) == <<"answer", m>>
Event(n) == <<"event", n>>

-----------------------------------------------------------------------------
Init ==
  /\ peer = "there" /\ receiver = "reading"
  /\ content = [m \in Messages |-> [kind |-> "request", limit |-> 0, offset |-> 0]]
  /\ mpc = [m \in Messages |-> "idle"]
  /\ page = [m \in Messages |-> {}]
  /\ direct = {}
  /\ listener = "waiting" /\ events = 0
  /\ subscribed = FALSE /\ eventChan = "open"
  /\ sendChan = <<>> /\ sender = "waiting" /\ hand = <<>> /\ written = <<>>
  /\ cancelled = FALSE /\ stopped = FALSE /\ unregistered = FALSE
  /\ panicked = FALSE

-----------------------------------------------------------------------------
(* messageReceiver and the pool                                            *)

Goto(m, label) == mpc' = [mpc EXCEPT ![m] = label]

Queued == {m \in Messages : mpc[m] = "queued"}
Busy == {m \in Messages : mpc[m] \in {"handling", "check", "send", "reply", "writing"}}

\* ReadMessage returns the next message.
Read(m) ==
  /\ receiver = "reading" /\ mpc[m] = "idle"
  /\ \A q \in 1 .. m - 1 : mpc[q] # "idle"
  /\ receiver' = "submitting"
  /\ Goto(m, "read")
  /\ UNCHANGED <<content, page, direct, eventVars, sendVars, stopVars, panicked>>

\* Submit waits while every worker is busy and the queue full.  It panics when
\* the pool is stopped, or its context cancelled.
Submit(m) ==
  /\ mpc[m] = "read"
  /\ \/ cancelled
     \/ Cardinality(Busy) < Workers
     \/ Cardinality(Queued) < QueueCapacity
  /\ panicked' = cancelled
  /\ receiver' = "reading"
  /\ Goto(m, "queued")
  /\ UNCHANGED <<content, page, direct, eventVars, sendVars, stopVars>>

\* mutant: the loop goes on after an error
ReadErrorGoesOn ==
  /\ receiver = "reading"
  /\ peer = "gone" \/ Errors
  /\ cancelled' = TRUE
  /\ UNCHANGED <<receiver, peer, stopped, unregistered, messageVars, eventVars, sendVars, panicked>>

\* mutant: nobody is notified
ReadErrorUnnoticed ==
  /\ receiver = "reading"
  /\ peer = "gone" \/ Errors
  /\ receiver' = "ended"
  /\ UNCHANGED <<stopVars, messageVars, eventVars, sendVars, panicked>>

\* ReadMessage returns an error: the context is cancelled.
ReadError ==
  /\ receiver = "reading"
  /\ peer = "gone" \/ Errors
  /\ receiver' = "ended"
  /\ cancelled' = TRUE
  /\ UNCHANGED <<peer, stopped, unregistered, messageVars, eventVars, sendVars, panicked>>

\* a worker takes a message
Start(m) ==
  /\ mpc[m] = "queued"
  /\ Cardinality(Busy) < Workers
  /\ Goto(m, "handling")
  /\ UNCHANGED <<receiver, content, page, direct, eventVars, sendVars, stopVars, panicked>>

\* the workers end and leave the queue as it is
Drop(m) ==
  /\ mpc[m] = "queued" /\ cancelled
  /\ Goto(m, "dropped")
  /\ UNCHANGED <<receiver, content, page, direct, eventVars, sendVars, stopVars, panicked>>

-----------------------------------------------------------------------------
(* handleMessage                                                           *)

\* An error that handleMessage returns is answered by the worker itself, what it
\* gives to Send by messageSender.
RefuseInvalid(m, c) ==
  /\ c.kind = "invalid"
  /\ Goto(m, "reply")
  /\ UNCHANGED <<page, subscriptionVars>>

\* Subscribe records the subscription before it fails; before that, the message
\* may have no auction or the client no event channel any more.
HandleSubscribe(m, c) ==
  /\ c.kind = "subscribe"
  /\ \/ Goto(m, "check") /\ subscribed' = TRUE
     \/ Goto(m, "reply") /\ subscribed' \in {subscribed, TRUE}
  /\ UNCHANGED <<page, eventChan>>

\* Unsubscribe of the last auction closes the event channel, which panics in the
\* worker when that is closed; of another one it changes nothing here.
HandleUnsubscribe(m, c) ==
  /\ c.kind = "unsubscribe"
  /\ \/ /\ Goto(m, "check") \/ Goto(m, "reply")
        /\ UNCHANGED subscriptionVars
     \/ /\ subscribed
        /\ Goto(m, IF eventChan = "open" THEN "check" ELSE "panicked")
        /\ subscribed' = FALSE /\ eventChan' = "closed"
  /\ UNCHANGED page

\* An accepted bid is not answered.
HandlePlaceBid(m, c) ==
  /\ c.kind = "bid"
  /\ Goto(m, "check") \/ Goto(m, "done")
  /\ UNCHANGED <<page, subscriptionVars>>

\* Creating and reading an auction: errors of the services and all good answers
\* go through Send; what the handler refuses is returned.
HandleRequest(m, c) ==
  /\ c.kind = "request"
  /\ Goto(m, "check") \/ Goto(m, "reply")
  /\ UNCHANGED <<page, subscriptionVars>>

\* The division by a limit of zero panics.
HandleListAuctions(m, c) ==
  /\ c.kind = "list"
  /\ \/ c.limit = 0 /\ Goto(m, "panicked") /\ UNCHANGED page
     \/ /\ c.limit # 0
        /\ page' = [page EXCEPT ![m] = ListedRows(RowCount, c.offset, c.limit)]
        /\ Goto(m, "check")
  /\ UNCHANGED subscriptionVars

Handle(m) ==
  /\ mpc[m] = "handling"
  /\ \E c \in Contents :
       /\ content' = [content EXCEPT ![m] = c]
       /\ \/ RefuseInvalid(m, c) \/ HandleSubscribe(m, c) \/ HandleUnsubscribe(m, c)
          \/ HandlePlaceBid(m, c) \/ HandleRequest(m, c) \/ HandleListAuctions(m, c)
  /\ UNCHANGED <<receiver, direct, listener, events, sendVars, stopVars, panicked>>

\* mutant: off by one
HasRoomAndOne == Len(sendChan) <= SendCapacity

HasRoom == Len(sendChan) < SendCapacity

\* Send, up to its test of stopped
Check(m) ==
  /\ mpc[m] = "check"
  /\ Goto(m, IF stopped THEN "reply" ELSE "send")
  /\ UNCHANGED <<receiver, content, page, direct, eventVars, sendVars, stopVars, panicked>>

\* mutant: the handler returns the error it has sent
SendAnswerTwice(m) ==
  /\ mpc[m] = "send"
  /\ \/ stopped /\ Goto(m, "panicked") /\ UNCHANGED sendChan
     \/ ~stopped /\ HasRoom /\ sendChan' = Append(sendChan, Answer(m)) /\ Goto(m, "reply")
     \/ ~stopped /\ ~HasRoom /\ Goto(m, "reply") /\ UNCHANGED sendChan
  /\ UNCHANGED <<receiver, content, page, direct, eventVars, sender, hand, written,
                 stopVars, panicked>>

\* mutant: sendChan is never closed
SendAnswerAnyway(m) ==
  /\ mpc[m] = "send"
  /\ \/ HasRoom /\ sendChan' = Append(sendChan, Answer(m)) /\ Goto(m, "done")
     \/ ~HasRoom /\ Goto(m, "reply") /\ UNCHANGED sendChan
  /\ UNCHANGED <<receiver, content, page, direct, eventVars, sender, hand, written,
                 stopVars, panicked>>

\* The rest of Send: after 100 ms without room it is an error, which the worker
\* writes itself.  A closed channel panics, also while Send waits for room.
SendAnswer(m) ==
  /\ mpc[m] = "send"
  /\ \/ stopped /\ Goto(m, "panicked") /\ UNCHANGED sendChan
     \/ ~stopped /\ HasRoom /\ sendChan' = Append(sendChan, Answer(m)) /\ Goto(m, "done")
     \/ ~stopped /\ ~HasRoom /\ Goto(m, "reply") /\ UNCHANGED sendChan
  /\ UNCHANGED <<receiver, content, page, direct, eventVars, sender, hand, written,
                 stopVars, panicked>>

\* the other workers that write to the connection
WritersBut(m) == {q \in Messages \ {m} : mpc[q] = "writing"}

\* sendMessage in the worker; beside another writer it may panic.
Reply(m) ==
  /\ mpc[m] = "reply"
  /\ \/ Goto(m, "writing")
     \/ (sender = "writing" \/ WritersBut(m) # {}) /\ Goto(m, "panicked")
  /\ UNCHANGED <<receiver, content, page, direct, eventVars, sendVars, stopVars, panicked>>

WriteMayFail == stopped \/ peer = "gone" \/ Errors

\* Its error is not looked at.
EndReply(m) ==
  /\ mpc[m] = "writing"
  /\ \/ ~stopped /\ direct' = direct \cup {m} /\ Goto(m, "done")
     \/ WriteMayFail /\ Goto(m, "failed") /\ UNCHANGED direct
     \/ (sender = "writing" \/ WritersBut(m) # {}) /\ Goto(m, "panicked") /\ UNCHANGED direct
  /\ UNCHANGED <<receiver, content, page, eventVars, sendVars, stopVars, panicked>>

-----------------------------------------------------------------------------
(* listenForClientEvents                                                   *)

\* An event arrives, or the empty one that a closed channel gives whenever it is
\* asked; Send refuses it when the client is stopped.
TakeEvent ==
  /\ listener = "waiting" /\ events < MaxEvents
  /\ events' = events + 1
  /\ listener' = IF stopped THEN "waiting" ELSE "sending"
  /\ UNCHANGED <<receiver, messageVars, subscriptionVars, sendVars, stopVars, panicked>>

\* The rest of Send, as for an answer; what it refuses is logged.
SendEvent ==
  /\ listener = "sending"
  /\ panicked' = stopped
  /\ listener' = IF stopped THEN "sending" ELSE "waiting"
  /\ sendChan' = IF ~stopped /\ HasRoom THEN Append(sendChan, Event(events)) ELSE sendChan
  /\ UNCHANGED <<receiver, messageVars, events, subscriptionVars, sender, hand, written, stopVars>>

EndListener ==
  /\ listener = "waiting" /\ cancelled
  /\ listener' = "ended"
  /\ UNCHANGED <<receiver, messageVars, events, subscriptionVars, sendVars, stopVars, panicked>>

-----------------------------------------------------------------------------
(* messageSender                                                           *)

Replying == \E m \in Messages : mpc[m] = "writing"

\* A message comes out of sendChan, or nil when that is closed and empty, and
\* its writing begins; beside a worker that writes it may panic.
TakeMessage ==
  /\ sender = "waiting"
  /\ \/ sendChan # <<>> /\ hand' = <<Head(sendChan)>> /\ sendChan' = Tail(sendChan)
     \/ sendChan = <<>> /\ stopped /\ UNCHANGED <<hand, sendChan>>
  /\ sender' = "writing"
  /\ panicked' \in {FALSE, Replying}
  /\ UNCHANGED <<receiver, messageVars, eventVars, written, stopVars>>

Written ==
  /\ sender = "writing" /\ ~stopped
  /\ written' = written \o hand
  /\ hand' = <<>>
  /\ sender' = "waiting"
  /\ UNCHANGED <<receiver, messageVars, eventVars, sendChan, stopVars, panicked>>

\* A write error ends messageSender; nobody is told.
WriteError ==
  /\ sender = "writing" /\ WriteMayFail
  /\ sender' = "ended"
  /\ UNCHANGED <<receiver, messageVars, eventVars, sendChan, hand, written, stopVars, panicked>>

WritePanic ==
  /\ sender = "writing" /\ Replying
  /\ panicked' = TRUE
  /\ UNCHANGED <<receiver, messageVars, eventVars, sendVars, stopVars>>

EndSender ==
  /\ sender = "waiting" /\ cancelled
  /\ sender' = "ended"
  /\ UNCHANGED <<receiver, messageVars, eventVars, sendChan, hand, written, stopVars, panicked>>

-----------------------------------------------------------------------------
(* The connection                                                          *)

Leave ==
  /\ peer = "there"
  /\ peer' = "gone"
  /\ UNCHANGED <<receiver, messageVars, eventVars, sendVars, cancelled, stopped, unregistered, panicked>>

\* The goroutine that waits for the context unregisters the client.  First it
\* calls Stop; all that Stop does is done under the mutex that Send tests stopped
\* with.
Stop ==
  /\ cancelled /\ ~stopped
  /\ stopped' = TRUE
  /\ UNCHANGED <<receiver, messageVars, eventVars, sendVars, peer, cancelled, unregistered,
                 panicked>>

\* Then it closes the event channel; a closed one panics, and nobody recovers.
RemoveEventChannel ==
  /\ stopped /\ ~unregistered
  /\ panicked' = (eventChan = "closed")
  /\ unregistered' = (eventChan = "open")
  /\ eventChan' = "closed"
  /\ UNCHANGED <<receiver, messageVars, listener, events, subscribed, sendVars, peer, cancelled,
                 stopped>>

-----------------------------------------------------------------------------
WorkerStep(m) == Start(m) \/ Drop(m) \/ Handle(m) \/ Check(m) \/ SendAnswer(m) \/ Reply(m)

EndWrite == Written \/ WriteError \/ WritePanic

Next ==
  /\ ~panicked
  /\ \/ ReadError \/ TakeEvent \/ SendEvent \/ EndListener
     \/ TakeMessage \/ EndWrite \/ EndSender \/ Leave \/ Stop \/ RemoveEventChannel
     \/ \E m \in Messages :
          Read(m) \/ Submit(m) \/ WorkerStep(m) \/ EndReply(m)

Spec == Init /\ [][Next]_vars

\* Goroutines go on.  A write has no deadline and may wait for the peer as long
\* as the peer is there and the connection open; the peer owes nothing.
Unblocked == peer = "gone" \/ stopped

Fairness ==
  /\ WF_vars(~panicked /\ peer = "gone" /\ ReadError)
  /\ WF_vars(~panicked /\ (SendEvent \/ EndListener))
  /\ WF_vars(~panicked /\ (TakeMessage \/ EndSender))
  /\ WF_vars(~panicked /\ Unblocked /\ EndWrite)
  /\ WF_vars(~panicked /\ (Stop \/ RemoveEventChannel))
  /\ \A m \in Messages :
       /\ WF_vars(~panicked /\ (Submit(m) \/ WorkerStep(m)))
       /\ WF_vars(~panicked /\ Unblocked /\ EndReply(m))

FairSpec == Spec /\ Fairness
=============================================================================
