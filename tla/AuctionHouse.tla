----------------------------- MODULE AuctionHouse -----------------------------
(***************************************************************************)
(* What creation and scheduling promise about the auctions of all items,   *)
(* with the instances, the sorted set and the goroutines abstracted away.  *)
(* An auction is listed, ends and is announced, one after the other and    *)
(* never back; it ends no sooner than promised, and the promise does not   *)
(* change once it is listed.  Before it is listed somebody looks, and what *)
(* was seen then of its item has ended: an item is listed twice only if    *)
(* neither saw the other.                                                  *)
(***************************************************************************)
EXTENDS Naturals

CONSTANTS Auctions, Items,
          Seconds     \* when an auction may be promised to end

VARIABLES clock,      \* in seconds
          item,       \* of each auction
          due,        \* when it is to end, in seconds
          seen,       \* the auctions listed when somebody last looked for it
          status,     \* "none", "active", "ended"
          announced   \* auctions whose end is announced

vars == <<clock, item, due, seen, status, announced>>

Listed == {b \in Auctions : status[b] # "none"}

Init ==
  /\ clock = 0
  /\ item \in [Auctions -> Items]
  /\ due = [a \in Auctions |-> 0]
  /\ seen = [a \in Auctions |-> {}]
  /\ status = [a \in Auctions |-> "none"]
  /\ announced = {}

Pass ==
  /\ clock' > clock
  /\ UNCHANGED <<item, due, seen, status, announced>>

Propose(a, end) ==
  /\ status[a] = "none"
  /\ due' = [due EXCEPT ![a] = end]
  /\ UNCHANGED <<clock, item, seen, status, announced>>

Look(a) ==
  /\ status[a] = "none"
  /\ seen' = [seen EXCEPT ![a] = Listed]
  /\ UNCHANGED <<clock, item, due, status, announced>>

List(a) ==
  /\ status[a] = "none"
  /\ \A b \in seen[a] : item[b] = item[a] => status[b] = "ended"
  /\ status' = [status EXCEPT ![a] = "active"]
  /\ UNCHANGED <<clock, item, due, seen, announced>>

End(a) ==
  /\ status[a] = "active" /\ due[a] <= clock
  /\ status' = [status EXCEPT ![a] = "ended"]
  /\ UNCHANGED <<clock, item, due, seen, announced>>

Announce(a) ==
  /\ status[a] = "ended" /\ a \notin announced
  /\ announced' = announced \cup {a}
  /\ UNCHANGED <<clock, item, due, seen, status>>

Next ==
  \/ Pass
  \/ \E a \in Auctions :
       \/ Look(a) \/ List(a) \/ End(a) \/ Announce(a)
       \/ \E t \in Seconds : Propose(a, t)

Spec == Init /\ [][Next]_vars
=============================================================================
