-------------------------- MODULE LifecycleProperties --------------------------
(***************************************************************************)
(* What creation, scheduling and ending guarantee over crashes and several *)
(* instances, and two requirements of the README they do not keep.         *)
(***************************************************************************)
EXTENDS Lifecycle

CPCs == {"idle", "check", "insert", "schedule", "scheduled", "unscheduled", "refused"}

\* Types.  A call has no row before its INSERT and has one from its success on; a
\* call that was refused may have one, for the answer of the INSERT can be lost.
TypeOK ==
  /\ now \in Nat
  /\ cpc \in [Auctions -> CPCs]
  /\ host \in [Auctions -> Instances]
  /\ item \in [Auctions -> Items]
  /\ ends \in [Auctions -> Nat]
  /\ existed \in [Auctions -> SUBSET Auctions]
  /\ status \in [Auctions -> {"none", "active", "ended"}]
  /\ zset \in SUBSET Auctions
  /\ up \in SUBSET Instances
  /\ crashes \in Nat
  /\ jobs \in [Instances -> [Auctions -> [Stages -> Nat]]]
  /\ announced \in SUBSET Auctions
  /\ \A a \in Auctions :
       /\ cpc[a] \in {"idle", "check", "insert"} => status[a] = "none"
       /\ cpc[a] \in {"schedule", "scheduled", "unscheduled"} => status[a] # "none"

\* An auction never ends before the second of its end time, whichever instance
\* ends it and however often instances restart.  (Within that second it may end
\* early: the score is the end time in whole seconds.)
EndedOnlyWhenDue ==
  \A a \in Auctions : status[a] = "ended" => Unix(ends[a]) <= Unix(now)

\* What subscribers are told is so: an auction_ended event goes out only for a
\* row that says "ended", also when the statement that should say so fails.
AnnouncedOnlyIfEnded ==
  \A a \in announced : status[a] = "ended"

\* Two auctions of one item are active together only if neither row was there
\* when the call of the other one looked: calls one after the other never list
\* an item twice.
DoubleListingOnlyByOverlap ==
  \A a, b \in Auctions :
    /\ a # b
    /\ status[a] = "active" /\ status[b] = "active"
    /\ item[a] = item[b]
    => a \notin existed[b] /\ b \notin existed[a]

\* All of it together, for several items, over crashes, failing statements and
\* instances that race: the rows implement AuctionHouse.  No row is ever made
\* active again, no end time changes once its row is there, and every step
\* changes one auction, which is due, was looked for, or is announced after its
\* row was written.
House == INSTANCE AuctionHouse
           WITH clock <- Unix(now), due <- [a \in Auctions |-> Unix(ends[a])],
                seen <- existed, Seconds <- {Unix(t) : t \in Times}

HouseSpec == House!Spec

\* As long as no statement fails, an active row is in the schedule or about to
\* be, unless a crash cut its call short between the INSERT and the ZADD: that is
\* the one way to lose an auction.  No crash, shutdown or rival goroutine between
\* the ZRANGEBYSCORE and the ZREM takes one out before its row says "ended".
TrackedUntilEnded ==
  \A a \in Auctions : status[a] = "active" =>
    \/ a \in zset
    \/ cpc[a] = "schedule"
    \/ cpc[a] = "unscheduled" /\ crashes > 0

\* As long as no statement fails, a scheduled auction ends, also when the
\* instance that was ending it stops half way and another one has to take over.
ScheduledEnds ==
  \A a \in Auctions : cpc[a] = "scheduled" ~> status[a] = "ended" \/ up = {}

\* As long as no statement fails and no instance crashes, the end of an auction
\* is announced: of the goroutines that race for it, one publishes.
EndedIsAnnounced ==
  \A a \in Auctions : status[a] = "ended" ~> (a \in announced \/ crashes > 0)

\* What that rests on, at every moment: while nothing crashes or fails, the end
\* of an auction whose row says so is announced, or a goroutine is about to do
\* it.  A rival that finds the row ended, and takes the auction out of the
\* schedule, does not keep the event back.
EndIsOnItsWay ==
  crashes = 0 =>
    \A a \in Auctions : status[a] = "ended" =>
      a \in announced \/ \E i \in Instances : jobs[i][a]["publish"] > 0

-----------------------------------------------------------------------------
(* Requirements of the README that the code does not keep.                 *)

\* README: "Only one active auction per item at any time".
OneActivePerItem ==
  \A a, b \in Auctions :
    status[a] = "active" /\ status[b] = "active" /\ item[a] = item[b] => a = b

\* README: "Auctions automatically end at their scheduled time", for an auction
\* that is in the schedule.
AuctionsEnd ==
  \A a \in Auctions : a \in zset ~> status[a] = "ended"
=============================================================================
