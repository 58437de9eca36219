--------------------------------- MODULE Feed ---------------------------------
(***************************************************************************)
(* What handler, broadcaster and Redis promise about the events of the     *)
(* auctions, with the maps, channels, goroutines and connections           *)
(* abstracted away.  A client follows the auctions it has asked for.  Each *)
(* event of an auction it follows is pending for it, until it is sent, the *)
(* oldest first, or recorded as lost.  Without a record events are only    *)
(* forgotten, and auctions no longer followed that the client did not ask  *)
(* to leave, once the client is not steady any more; nothing makes it      *)
(* steady again.                                                           *)
(***************************************************************************)
EXTENDS Naturals, Sequences

CONSTANTS Clients, Auctions

VARIABLES published,   \* the auctions of the events, in the order of publication
          asked,       \* what each client has asked for
          follows,     \* the auctions whose events it is to get
          due,         \* the events published of these, by their number
          pending,     \* those on their way
          received,    \* those sent to it, in that order
          lost,        \* those known to be lost
          steady       \* whether the client has stayed

vars == <<published, asked, follows, due, pending, received, lost, steady>>

Wishes == [kind : {"subscribe", "unsubscribe"}, auction : Auctions]

Init ==
  /\ published = <<>>
  /\ asked = [c \in Clients |-> {}]
  /\ follows = [c \in Clients |-> {}]
  /\ due = [c \in Clients |-> {}]
  /\ pending = [c \in Clients |-> {}]
  /\ received = [c \in Clients |-> <<>>]
  /\ lost = [c \in Clients |-> {}]
  /\ steady = [c \in Clients |-> TRUE]

Ask(c, wish) ==
  /\ asked' = [asked EXCEPT ![c] = @ \cup {wish}]
  /\ UNCHANGED <<published, follows, due, pending, received, lost, steady>>

Follow(c, a) ==
  /\ [kind |-> "subscribe", auction |-> a] \in asked[c]
  /\ follows' = [follows EXCEPT ![c] = @ \cup {a}]
  /\ UNCHANGED <<published, asked, due, pending, received, lost, steady>>

Unfollow(c, a) ==
  /\ [kind |-> "unsubscribe", auction |-> a] \in asked[c]
  /\ follows' = [follows EXCEPT ![c] = @ \ {a}]
  /\ UNCHANGED <<published, asked, due, pending, received, lost, steady>>

Publish(a) ==
  LET n == Len(published) + 1
      new(c) == IF a \in follows[c] THEN {n} ELSE {}
  IN /\ published' = Append(published, a)
     /\ due' = [c \in Clients |-> due[c] \cup new(c)]
     /\ pending' = [c \in Clients |-> pending[c] \cup new(c)]
     /\ UNCHANGED <<asked, follows, received, lost, steady>>

Deliver(c, n) ==
  /\ n \in pending[c] /\ \A k \in pending[c] : n <= k
  /\ pending' = [pending EXCEPT ![c] = @ \ {n}]
  /\ received' = [received EXCEPT ![c] = Append(@, n)]
  /\ UNCHANGED <<published, asked, follows, due, lost, steady>>

Lose(c, n) ==
  /\ n \in pending[c]
  /\ pending' = [pending EXCEPT ![c] = @ \ {n}]
  /\ lost' = [lost EXCEPT ![c] = @ \cup {n}]
  /\ UNCHANGED <<published, asked, follows, due, received, steady>>

Leave(c) ==
  /\ steady' = [steady EXCEPT ![c] = FALSE]
  /\ \E S \in SUBSET follows[c] : follows' = [follows EXCEPT ![c] = S]
  /\ \E S \in SUBSET pending[c] : pending' = [pending EXCEPT ![c] = S]
  /\ UNCHANGED <<published, asked, due, received, lost>>

Next ==
  \/ \E a \in Auctions : Publish(a)
  \/ \E c \in Clients :
       \/ Leave(c)
       \/ \E wish \in Wishes : Ask(c, wish)
       \/ \E a \in Auctions : Follow(c, a) \/ Unfollow(c, a)
       \/ \E n \in pending[c] : Deliver(c, n) \/ Lose(c, n)

Spec == Init /\ [][Next]_vars

-----------------------------------------------------------------------------
(* What follows from it                                                    *)

Sent(c) == {received[c][k] : k \in DOMAIN received[c]}

\* A client is sent events in the order of their publication, none twice.
SentInOrder ==
  \A c \in Clients : \A j, k \in DOMAIN received[c] :
    j < k => received[c][j] < received[c][k]

\* A client is sent only events of auctions it has asked for, and was following
\* when they were published.
SentOnlyDue ==
  \A c \in Clients : \A n \in Sent(c) :
    /\ n \in due[c]
    /\ n \in DOMAIN published
    /\ [kind |-> "subscribe", auction |-> published[n]] \in asked[c]

\* Of the events that are due to a client that has stayed, each is sent, on its
\* way or known to be lost.
NothingForgotten ==
  \A c \in Clients : steady[c] => due[c] \subseteq Sent(c) \cup pending[c] \cup lost[c]
=============================================================================
