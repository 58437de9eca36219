------------------------------ MODULE Lifecycle ------------------------------
(***************************************************************************)
(* The life of auctions: AuctionService.CreateAuction inserts the row and  *)
(* schedules it in Redis (the sorted set auction:expirations), and the     *)
(* AuctionScheduler of every running instance of the service ends what is  *)
(* due.  Instances crash, stop and restart; the rows and the sorted set    *)
(* survive.  What the bids do to a row is the subject of Bidding; here a   *)
(* row is its item, its end time and its status.                           *)
(*                                                                         *)
(* The goroutines of AuctionScheduler.endAuction carry nothing but their   *)
(* auction and the statement they are at, so they are counted:             *)
(* jobs[i][a][s] goroutines of instance i are at stage s of ending a.      *)
(***************************************************************************)
EXTENDS Integers, FiniteSets

CONSTANTS Auctions,         \* calls of CreateAuction, each with its row's id
          Items,
          Instances,        \* instances of the service
          TicksPerSecond,   \* steps of the clock in a second
          Times,            \* start and end times a client may send
          BatchSize,        \* Count of the ZRANGEBYSCORE
          Errors,           \* whether a statement may fail
          MaxNow,           \* bound on the clock
          MaxCrashes,       \* bound on the stops and crashes of instances
          MaxJobs           \* bound on the goroutines of one instance per auction

ASSUME ClockAssumption ==
  /\ TicksPerSecond \in Nat \ {0}
  /\ Times \subseteq Nat
  /\ MaxNow \in Nat /\ MaxCrashes \in Nat

ASSUME BoundsAssumption ==
  /\ BatchSize \in Nat \ {0}
  /\ MaxJobs \in Nat \ {0}
  /\ Errors \in BOOLEAN

ASSUME AuctionsAssumption == IsFiniteSet(Auctions)

VARIABLES
  now,        \* the clock, in ticks
  cpc,        \* where each call of CreateAuction is ("unscheduled": its ZADD failed,
              \* lost its answer or was never sent)
  host,       \* the instance that runs it
  item,       \* req.ItemID
  ends,       \* req.EndTime
  existed,    \* history: the rows there were when the call looked for active ones
  status,     \* status of each row, "none" before it is inserted
  zset,       \* members of auction:expirations
  up,         \* the instances that run
  crashes,    \* how many times an instance has stopped or crashed
  jobs,       \* goroutines of endAuction, by instance, auction and stage
  announced   \* auctions whose auction_ended event was published

createVars == <<cpc, host, item, ends, existed>>
vars == <<now, createVars, status, zset, up, crashes, jobs, announced>>

Stages == {"read", "update", "publish", "remove"}

-----------------------------------------------------------------------------
Init ==
  /\ now = 0
  /\ cpc = [a \in Auctions |-> "idle"]
  /\ host \in [Auctions -> Instances]
  /\ item \in [Auctions -> Items]
  /\ ends = [a \in Auctions |-> 0]
  /\ existed = [a \in Auctions |-> {}]
  /\ status = [a \in Auctions |-> "none"]
  /\ zset = {}
  /\ up = Instances
  /\ crashes = 0
  /\ jobs = [i \in Instances |-> [a \in Auctions |-> [s \in Stages |-> 0]]]
  /\ announced = {}

-----------------------------------------------------------------------------
(* CreateAuction                                                           *)

CGoto(a, label) == cpc' = [cpc EXCEPT ![a] = label]

\* The item and the creator are looked up, the times and the price checked.
TimesAccepted(start, end) == now <= start /\ start <= end

Request(a, start, end) ==
  /\ cpc[a] = "idle" /\ host[a] \in up
  /\ ends' = [ends EXCEPT ![a] = end]
  /\ \E othersValid \in BOOLEAN :
       CGoto(a, IF othersValid /\ TimesAccepted(start, end) THEN "check" ELSE "refused")
  /\ UNCHANGED <<now, host, item, existed, status, zset, up, crashes, jobs, announced>>

\* mutant: the status is compared with one no row ever has
GetPendingByItemID(it) == {b \in Auctions : status[b] = "pending" /\ item[b] = it}

\* auctionRepo.GetActiveByItemID
GetActiveByItemID(it) == {b \in Auctions : status[b] = "active" /\ item[b] = it}

CheckItem(a) ==
  /\ cpc[a] = "check"
  /\ existed' = [existed EXCEPT ![a] = {b \in Auctions : status[b] # "none"}]
  /\ CGoto(a, IF GetActiveByItemID(item[a]) = {} THEN "insert" ELSE "refused")
  /\ UNCHANGED <<now, host, item, ends, status, zset, up, crashes, jobs, announced>>

\* auctionRepo.Create: nothing in the table refuses a second active row.
Insert(a) ==
  /\ cpc[a] = "insert"
  /\ status' = [status EXCEPT ![a] = "active"]
  /\ CGoto(a, "schedule")
  /\ UNCHANGED <<now, host, item, ends, existed, zset, up, crashes, jobs, announced>>

\* scheduler.ScheduleAuction, ZADD
Schedule(a) ==
  /\ cpc[a] = "schedule"
  /\ zset' = zset \cup {a}
  /\ CGoto(a, "scheduled")
  /\ UNCHANGED <<now, host, item, ends, existed, status, up, crashes, jobs, announced>>

\* mutant: the error of the INSERT is logged, and the auction scheduled
CreateErrorUnnoticed(a) ==
  /\ Errors
  /\ \/ cpc[a] = "check" /\ CGoto(a, "refused")
     \/ cpc[a] = "insert" /\ CGoto(a, "schedule")
     \/ cpc[a] = "schedule" /\ CGoto(a, "unscheduled")
  /\ UNCHANGED <<now, host, item, ends, existed, status, zset, up, crashes, jobs, announced>>

\* A statement fails: the call is refused, also when only the answer of its
\* INSERT was lost and the row is there.  The error of the ZADD, whose answer may
\* be lost as well, is logged and the call succeeds.
CreateError(a) ==
  /\ Errors
  /\ \/ /\ cpc[a] \in {"check", "insert"} /\ CGoto(a, "refused")
        /\ UNCHANGED <<status, zset>>
     \/ /\ cpc[a] = "insert" /\ CGoto(a, "refused")
        /\ status' = [status EXCEPT ![a] = "active"]
        /\ UNCHANGED zset
     \/ /\ cpc[a] = "schedule" /\ CGoto(a, "unscheduled")
        /\ zset' \in {zset, zset \cup {a}}
        /\ UNCHANGED status
  /\ UNCHANGED <<now, host, item, ends, existed, up, crashes, jobs, announced>>

CreateStep(a) == CheckItem(a) \/ Insert(a) \/ Schedule(a)

-----------------------------------------------------------------------------
(* AuctionScheduler                                                        *)

\* endTime.Unix(), and the clock as checkExpiredAuctions reads it
Unix(t) == t \div TicksPerSecond

Score(a) == Unix(ends[a])

\* mutant: off by one second
ExpiredEarly == {a \in zset : Score(a) <= Unix(now) + 1}

\* members of the sorted set with a score from 0 to now
Expired == {a \in zset : Score(a) <= Unix(now)}

\* What ZRANGEBYSCORE LIMIT 0 Count returns: the lowest scores first.
Batches ==
  {B \in SUBSET Expired :
     /\ Cardinality(B) <= BatchSize
     /\ B # Expired => Cardinality(B) = BatchSize
     /\ \A a \in B, b \in Expired \ B : Score(a) <= Score(b)}

Running(i, a) == jobs[i][a]["read"] + jobs[i][a]["update"] +
                 jobs[i][a]["publish"] + jobs[i][a]["remove"]

\* mutant: what was found is taken out of the set at once (ZPOPMIN)
CheckExpiredPop(i) ==
  /\ i \in up
  /\ Expired # {}
  /\ \E B \in Batches :
       /\ \A a \in B : Running(i, a) < MaxJobs
       /\ jobs' = [jobs EXCEPT ![i] = [a \in Auctions |->
                     IF a \in B THEN [jobs[i][a] EXCEPT !["read"] = @ + 1] ELSE jobs[i][a]]]
       /\ zset' = zset \ B
  /\ UNCHANGED <<now, createVars, status, up, crashes, announced>>

\* One tick of the loop: a goroutine for every member found, also for those
\* that another goroutine is still ending, here or on another instance.
CheckExpired(i) ==
  /\ i \in up
  /\ Expired # {}
  /\ \E B \in Batches :
       /\ \A a \in B : Running(i, a) < MaxJobs
       /\ jobs' = [jobs EXCEPT ![i] = [a \in Auctions |->
                     IF a \in B THEN [jobs[i][a] EXCEPT !["read"] = @ + 1] ELSE jobs[i][a]]]
  /\ UNCHANGED <<now, createVars, status, zset, up, crashes, announced>>

\* a goroutine of instance i goes on from stage s to stage t
Advance(i, a, s, t) ==
  /\ jobs[i][a][s] > 0
  /\ jobs' = [jobs EXCEPT ![i][a][s] = @ - 1, ![i][a][t] = @ + 1]

IsEnded(a) == status[a] = "ended"

\* endAuctionWithResult reads the row; one already ended is an error, and the
\* deferred ZREM is all that is left to do.
ReadRow(i, a) ==
  /\ Advance(i, a, "read", IF IsEnded(a) THEN "remove" ELSE "update")
  /\ UNCHANGED <<now, createVars, status, zset, up, crashes, announced>>

\* auctionRepo.Update; the result is then announced.
UpdateRow(i, a) ==
  /\ Advance(i, a, "update", "publish")
  /\ status' = [status EXCEPT ![a] = "ended"]
  /\ UNCHANGED <<now, createVars, zset, up, crashes, announced>>

\* mutant: only the goroutine that still finds the entry announces the end
PublishIfTracked(i, a) ==
  /\ Advance(i, a, "publish", "remove")
  /\ announced' = IF a \in zset THEN announced \cup {a} ELSE announced
  /\ UNCHANGED <<now, createVars, status, zset, up, crashes>>

PublishEnded(i, a) ==
  /\ Advance(i, a, "publish", "remove")
  /\ announced' = announced \cup {a}
  /\ UNCHANGED <<now, createVars, status, zset, up, crashes>>

\* the deferred ZREM
Remove(i, a) ==
  /\ jobs[i][a]["remove"] > 0
  /\ jobs' = [jobs EXCEPT ![i][a]["remove"] = @ - 1]
  /\ zset' = zset \ {a}
  /\ UNCHANGED <<now, createVars, status, up, crashes, announced>>

\* mutant: the error of the UPDATE is logged and the result announced
JobErrorUnnoticed(i, a) ==
  /\ Errors
  /\ Advance(i, a, "update", "publish")
  /\ UNCHANGED <<now, createVars, status, zset, up, crashes, announced>>

\* A statement on the row or the publication fails, or the answer of the UPDATE
\* is lost; the entry is removed.
JobError(i, a) ==
  /\ Errors
  /\ \/ /\ \E s \in {"read", "update", "publish"} : Advance(i, a, s, "remove")
        /\ UNCHANGED status
     \/ /\ Advance(i, a, "update", "remove")
        /\ status' = [status EXCEPT ![a] = "ended"]
  /\ UNCHANGED <<now, createVars, zset, up, crashes, announced>>

\* the ZREM fails, which nobody looks at
RemoveError(i, a) ==
  /\ Errors
  /\ jobs[i][a]["remove"] > 0
  /\ jobs' = [jobs EXCEPT ![i][a]["remove"] = @ - 1]
  /\ UNCHANGED <<now, createVars, status, zset, up, crashes, announced>>

JobStep(i, a) == ReadRow(i, a) \/ UpdateRow(i, a) \/ PublishEnded(i, a) \/ Remove(i, a)

-----------------------------------------------------------------------------
(* Instances                                                               *)

\* A crash, and a shutdown as well: Stop cancels the context that every
\* statement of the goroutines uses, waits only for the loop, and exits.
Crash(i) ==
  /\ i \in up
  /\ crashes < MaxCrashes
  /\ crashes' = crashes + 1
  /\ up' = up \ {i}
  /\ jobs' = [jobs EXCEPT ![i] = [a \in Auctions |-> [s \in Stages |-> 0]]]
  /\ cpc' = [a \in Auctions |->
       IF host[a] # i THEN cpc[a]
       ELSE IF cpc[a] \in {"check", "insert"} THEN "refused"
       ELSE IF cpc[a] = "schedule" THEN "unscheduled"
       ELSE cpc[a]]
  /\ UNCHANGED <<now, host, item, ends, existed, status, zset, announced>>

\* main starts the scheduler; nothing looks for rows that are not scheduled.
Restart(i) ==
  /\ i \notin up
  /\ up' = up \cup {i}
  /\ UNCHANGED <<now, createVars, status, zset, crashes, jobs, announced>>

Tick ==
  /\ now < MaxNow
  /\ now' = now + 1
  /\ UNCHANGED <<createVars, status, zset, up, crashes, jobs, announced>>

-----------------------------------------------------------------------------
Next ==
  \/ Tick
  \/ \E a \in Auctions :
       CreateStep(a) \/ CreateError(a) \/ \E s, e \in Times : Request(a, s, e)
  \/ \E i \in Instances :
       \/ CheckExpired(i) \/ Crash(i) \/ Restart(i)
       \/ \E a \in Auctions : JobStep(i, a) \/ JobError(i, a) \/ RemoveError(i, a)

Spec == Init /\ [][Next]_vars

\* Time passes, a running loop ticks, a goroutine and a call go on.  Clients owe
\* nothing, statements need not fail, an instance may stay down.
Fairness ==
  /\ WF_vars(Tick)
  /\ \A a \in Auctions : WF_vars(CreateStep(a))
  /\ \A i \in Instances :
       /\ WF_vars(CheckExpired(i))
       /\ \A a \in Auctions : WF_vars(JobStep(i, a))

FairSpec == Spec /\ Fairness
=============================================================================
